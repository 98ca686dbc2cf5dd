-------------------------- MODULE LangGraphAdapter --------------------------
(***************************************************************************)
(* The LangGraph adapter (langgraph.py): wrap_model_call and wrap_tool_call,*)
(* both inside a framework scope.  turn of a context is _current_span_id.   *)
(***************************************************************************)
EXTENDS GovernedCalls

LgCall(t, kind, tool, scope) ==
    Call(t, kind, Judged(t, EffectiveUser(t, NothingGiven), EffectiveAgent(t, NothingGiven), tool),
         Asserted(t, SaidUser(t, NothingGiven), SaidAgent(t, NothingGiven), tool), tool, scope,
         "langgraph")

\* wrap_model_call up to the handler; a refusal raises, out of the scope, but
\* the turn has begun.
LgModelStart(t, verdict) ==
    LET call == LgCall(t, "model", None, spans + 1) IN
    /\ MayCall(t)
    /\ spans' = spans + 1
    /\ open' = Opened(t, call, verdict)
    /\ ctx' = [ctx EXCEPT ![t] = [InScope(@, call, verdict) EXCEPT !.turn = spans + 1]]
    /\ UNCHANGED <<live, blocks, inherited, store, within, charges, answered, ungoverned, scorers>>

\* ALTER is not supported: only a denial keeps a response back.
LgVerdict(verdict) == IF verdict = "deny" THEN "deny" ELSE "allow"

\* The rest of wrap_model_call; a response may carry no usage.
LgModelFinish(t, usage, verdict) ==
    /\ Innermost(t, "model")
    /\ open' = Closed(t)
    /\ ctx' = [ctx EXCEPT ![t] = OutOfScope(@, Current(t))]
    /\ IF usage
       THEN Charge(Current(t).scope) /\ answered' = answered \cup {Current(t).span}
       ELSE UNCHANGED <<charges, answered>>
    /\ Deliver(Current(t), LgVerdict(verdict), Current(t).who)
    /\ UNCHANGED <<live, blocks, inherited, store, spans, within, scorers>>

\* wrap_tool_call up to the handler: the tool call belongs to the task's turn,
\* or is one of its own.
LgToolStart(t, tool, verdict) ==
    LET call == LgCall(t, "tool", tool, IF ctx[t].turn # None THEN ctx[t].turn ELSE spans + 1) IN
    /\ MayCall(t)
    /\ spans' = spans + 1
    /\ open' = Opened(t, call, verdict)
    /\ ctx' = [ctx EXCEPT ![t] = InScope(@, call, verdict)]
    /\ UNCHANGED <<live, blocks, inherited, store, within, charges, answered, ungoverned, scorers>>

\* The handler returns or raises: a tool's result is not judged.
LgReturns(t) ==
    /\ Innermost(t, "tool") \/ Innermost(t, "model")
    /\ open' = Closed(t)
    /\ ctx' = [ctx EXCEPT ![t] = OutOfScope(@, Current(t))]
    /\ UNCHANGED <<live, blocks, inherited, store, spans, within, charges, answered, ungoverned, scorers>>

\* after_agent, _end_trace.
LgAfterAgent(t) ==
    /\ t \in live /\ open[t] = <<>> /\ ctx[t].turn # None
    /\ ctx' = [ctx EXCEPT ![t].turn = None]
    /\ UNCHANGED <<live, blocks, inherited, store, callVars>>
=============================================================================
