----------------------------- MODULE MafAdapter -----------------------------
(***************************************************************************)
(* The Microsoft Agent Framework adapter (maf.py).  ParapetChatMiddleware    *)
(* wraps a model call, ParapetFunctionMiddleware a tool call; each handler   *)
(* is suspended only in call_next.  A streamed response is handed out when   *)
(* the handler returns, and judged and charged when it has been read to the  *)
(* end.  turn of a context is _current_chat, by the span of its call.        *)
(***************************************************************************)
EXTENDS GovernedCalls

CONSTANTS
    Given   \* what function_invocation_kwargs can hold: identity_claims,
            \* identity_roles and agent_identity_claims, each there or not

ASSUME GivenAssumption ==
    /\ Given \subseteq [claims: Users \cup {Nobody, None}, roles: Users \cup {Nobody, None},
                       agent: Agents \cup {Nobody, None}]
    /\ NothingGiven \in Given

VARIABLES streams    \* the calls whose _audit_finalized has not run yet

mafVars == <<streams>>

MafInit == streams = {}

MafCall(t, kind, given, tool, scope, framework) ==
    Call(t, kind, Judged(t, EffectiveUser(t, given), EffectiveAgent(t, given), tool),
         Asserted(t, SaidUser(t, given), SaidAgent(t, given), tool), tool, scope, framework)

\* ParapetChatMiddleware.process up to call_next: _current_chat is set even if
\* the content checks (which may fail to scan) or the first stage then refuse
\* the call, which raises.
MafModelStart(t, given, scanned, verdict) ==
    /\ MayCall(t)
    /\ spans' = spans + 1
    /\ ctx' = [ctx EXCEPT ![t].turn = spans + 1]
    /\ open' = Opened(t, MafCall(t, "model", given, None, spans + 1, None),
                      Scanned(scanned, verdict))
    /\ UNCHANGED <<live, blocks, inherited, store, within, charges, answered, ungoverned, scorers, streams>>

\* call_next raises, or another middleware has put something else in the
\* place of the response: nothing is charged or judged.
MafModelFails(t) ==
    /\ Innermost(t, "model")
    /\ open' = Closed(t)
    /\ UNCHANGED <<identityVars, spans, within, charges, answered, ungoverned, scorers, streams>>

\* The rest of process: the usage is charged before a response check or the
\* second stage can refuse the response.
MafModelFinish(t, grounded, judged, verdict) ==
    /\ Innermost(t, "model")
    /\ open' = Closed(t)
    /\ Charge(Current(t).scope)
    /\ answered' = answered \cup {Current(t).span}
    /\ Deliver(Current(t), IF Scored(grounded, judged) THEN verdict ELSE "deny", Current(t).who)
    /\ UNCHANGED <<identityVars, spans, within, scorers, streams>>

\* _register_stream_audit_hook.
MafStreamReturns(t) ==
    /\ Innermost(t, "model")
    /\ open' = Closed(t)
    /\ streams' = streams \cup {Current(t)}
    /\ UNCHANGED <<identityVars, spans, within, charges, answered, ungoverned, scorers>>

\* Fault: the usage is charged to the turn the reading task is in.
StreamScopeOfReader(t, call) == IF ctx[t].turn # None THEN ctx[t].turn ELSE call.scope
\* _audit_finalized charges what the handler captured.
StreamScope(t, call) == call.scope

\* _audit_finalized, in whichever task reads the stream to its end: the second
\* stage cannot take back what was handed out, so its verdict is only logged.
MafStreamFinalizes(t, call) ==
    /\ t \in live /\ call \in streams
    /\ Charge(StreamScope(t, call))
    /\ answered' = answered \cup {call.span}
    /\ streams' = streams \ {call}
    /\ UNCHANGED <<identityVars, spans, open, within, ungoverned, scorers>>

\* A stream nobody reads to the end.
MafStreamDropped(call) ==
    /\ call \in streams
    /\ streams' = streams \ {call}
    /\ UNCHANGED <<identityVars, spans, open, within, charges, answered, ungoverned, scorers>>

-----------------------------------------------------------------------------
\* The span of the model call a tool call belongs to, by the task's last
\* _current_chat, or its own.
MafScope(t) == IF ctx[t].turn # None THEN ctx[t].turn ELSE spans + 1

\* ParapetFunctionMiddleware.process up to call_next, inside its framework
\* scope; a refusal returns a text in place of the result.
MafToolStart(t, tool, given, verdict) ==
    LET call == MafCall(t, "tool", given, tool, MafScope(t), "maf") IN
    /\ MayCall(t)
    /\ spans' = spans + 1
    /\ open' = Opened(t, call, verdict)
    /\ ctx' = [ctx EXCEPT ![t] = InScope(@, call, verdict)]
    /\ UNCHANGED <<live, blocks, inherited, store, within, charges, answered, ungoverned, scorers, streams>>

\* The rest of process.
MafToolFinish(t, verdict) ==
    /\ Innermost(t, "tool")
    /\ open' = Closed(t)
    /\ ctx' = [ctx EXCEPT ![t] = OutOfScope(@, Current(t))]
    /\ Deliver(Current(t), verdict, Current(t).who)
    /\ UNCHANGED <<live, blocks, inherited, store, spans, within, charges, answered, scorers, streams>>

\* The tool raises, or a call inside it was refused: there is nothing to judge.
MafToolRaises(t) ==
    /\ Innermost(t, "tool")
    /\ open' = Closed(t)
    /\ ctx' = [ctx EXCEPT ![t] = OutOfScope(@, Current(t))]
    /\ UNCHANGED <<live, blocks, inherited, store, spans, within, charges, answered, ungoverned, scorers, streams>>
=============================================================================
