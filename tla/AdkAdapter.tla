----------------------------- MODULE AdkAdapter -----------------------------
(***************************************************************************)
(* The Google ADK adapter (adk.py).  Plugin callbacks bracket each call, and *)
(* what one of them captured is handed to the next through tables keyed by   *)
(* the invocation: a model call's correlation from before_model_callback to  *)
(* after_model_callback, a tool call's span and framework scope from         *)
(* before_tool_callback to after_tool_callback.  Agents of one invocation    *)
(* may run at once and then share its entry: the calls that meet another's   *)
(* are remembered as disputed.  ADK runs each tool call in a task of its own.*)
(***************************************************************************)
EXTENDS GovernedCalls

CONSTANTS
    Invocations,    \* invocation ids
    SessionUser,    \* Session.user_id, which nobody verified
    TrustsSession   \* trust_session_user_id

\* What a call is judged for, and what is captured of it; an entry of the tables is
\* told from none.
Judgements == [
    user: [claims: Users \cup {Nobody, SessionUser}, roles: Users \cup {Nobody}],
    agent: Agents \cup {Nobody}, principal: Agents \cup {Caller},
    access: {tool.declared : tool \in Tools} \cup Agents \cup Users \cup {None, SessionUser}]
Captured == [
    kind: {"model", "tool"}, tool: Tools \cup {None}, who: Judgements, asserted: Judgements,
    span: Nat, scope: Nat, framework: Frameworks \cup {None}, invocation: Invocations \cup {None},
    found: Frameworks \cup {None}, depth: Nat]
ASSUME CapturedAssumption == None \notin Captured

VARIABLES
    correlations,   \* _model_correlations: the call captured, None without one
    toolScopes,     \* _tool_spans and _tool_framework_scopes: the tool calls
                    \* that have entries there
    disputed,       \* auxiliary: the calls that met another call's entry
    turns           \* auxiliary: per invocation, the model call answered last

adkVars == <<correlations, toolScopes, disputed, turns>>

AdkInit ==
    /\ correlations = [i \in Invocations |-> None]
    /\ toolScopes = {} /\ disputed = {}
    /\ turns = [i \in Invocations |-> None]

\* _resolved_identity_claims, _resolved_identity_roles: the task's claims, if it
\* has any; the session's user, who has no roles, counts only where it is
\* trusted.
OrSessionUser(user) ==
    IF user.claims = Nobody /\ TrustsSession THEN [user EXCEPT !.claims = SessionUser] ELSE user
AdkJudged(t, tool) ==
    Judged(t, OrSessionUser(EffectiveUser(t, NothingGiven)), EffectiveAgent(t, NothingGiven), tool)
AdkCall(t, i, kind, who, tool, scope, framework) ==
    [Call(t, kind, who,
          Asserted(t, OrSessionUser(SaidUser(t, NothingGiven)), SaidAgent(t, NothingGiven), tool),
          tool, scope, framework) EXCEPT !.invocation = i]

\* The model calls of an invocation that are running.
Running(i) == {c \in OpenCalls : c.kind = "model" /\ c.invocation = i}

\* before_model_callback: its entry replaces any that is there; a refusal
\* answers in the model's place, and takes the entry out again.
AdkModelStart(t, i, scanned, verdict) ==
    LET call == AdkCall(t, i, "model", AdkJudged(t, None), None, spans + 1, None)
        judgement == Scanned(scanned, verdict) IN
    /\ MayCall(t)
    /\ spans' = spans + 1
    /\ open' = Opened(t, call, judgement)
    /\ correlations' = [correlations EXCEPT ![i] = IF Allowed(judgement) THEN call ELSE None]
    /\ disputed' = IF Running(i) = {} THEN disputed
                   ELSE disputed \cup {c.span : c \in Running(i) \cup {call}}
    /\ UNCHANGED <<identityVars, within, charges, answered, ungoverned, scorers, toolScopes, turns>>

\* The model raises: nothing is called back, the entry stays.
AdkModelFails(t) ==
    /\ Innermost(t, "model")
    /\ open' = Closed(t)
    /\ UNCHANGED <<identityVars, spans, within, charges, answered, ungoverned, scorers, adkVars>>

\* after_model_callback for the last chunk (for the others it only keeps the
\* text): charged and judged as the entry says; without one, not at all.
AdkModelFinish(t, verdict) ==
    /\ Innermost(t, "model")
    /\ LET call == Current(t) entry == correlations[Current(t).invocation] IN
       /\ IF entry # None
          THEN Charge(entry.scope) /\ Deliver(call, verdict, entry.who)
          ELSE Unjudged(call) /\ UNCHANGED charges
       /\ answered' = answered \cup {call.span}
       /\ turns' = [turns EXCEPT ![call.invocation] = call.span]
       /\ correlations' = [correlations EXCEPT ![call.invocation] = None]
    /\ open' = Closed(t)
    /\ UNCHANGED <<identityVars, spans, within, scorers, toolScopes, disputed>>

-----------------------------------------------------------------------------
\* Who a tool call is judged for, and the span its totals belong to: as the
\* invocation's entry says, or else as the task's context does, and its own.
WhoOfTool(t, i, tool) ==
    LET entry == correlations[i] IN
    IF entry = None THEN AdkJudged(t, tool)
    ELSE Who(entry.who.user, entry.who.agent, entry.who.principal, tool)
ScopeOfTool(i) == IF correlations[i] = None THEN spans + 1 ELSE correlations[i].scope
Disputes(i, span) == IF correlations[i] = None THEN disputed ELSE disputed \cup {span}

\* before_tool_callback, in the task ADK made for the call.  A refusal is a
\* result, which after_tool_callback gets right away.
AdkToolStart(t, i, tool, verdict) ==
    LET call == AdkCall(t, i, "tool", WhoOfTool(t, i, tool), tool, ScopeOfTool(i), "adk") IN
    /\ MayCall(t) /\ t # Root /\ open[t] = <<>>
    /\ spans' = spans + 1
    /\ open' = Opened(t, call, verdict)
    /\ ctx' = [ctx EXCEPT ![t] = InScope(@, call, verdict)]
    /\ toolScopes' = IF Allowed(verdict) THEN toolScopes \cup {spans + 1} ELSE toolScopes
    /\ disputed' = Disputes(i, spans + 1)
    /\ UNCHANGED <<live, blocks, inherited, store, within, charges, answered, ungoverned, scorers,
                   correlations, turns>>

\* after_tool_callback judges the result for whomever it finds now.
AdkToolFinish(t, verdict) ==
    LET call == Current(t) IN
    /\ Innermost(t, "tool")
    /\ open' = Closed(t)
    /\ ctx' = [ctx EXCEPT ![t] = OutOfScope(@, call)]
    /\ toolScopes' = toolScopes \ {call.span}
    /\ disputed' = Disputes(call.invocation, call.span)
    /\ Deliver(call, verdict, WhoOfTool(t, call.invocation, call.tool))
    /\ UNCHANGED <<live, blocks, inherited, store, spans, within, charges, answered, scorers,
                   correlations, turns>>

\* The tool raises: its task ends, and nothing is called back for its entries.
AdkToolRaises(t) ==
    /\ Innermost(t, "tool")
    /\ open' = Closed(t)
    /\ EndTask(t)
    /\ within' = [within EXCEPT ![t] = None]
    /\ UNCHANGED <<spans, charges, answered, ungoverned, scorers, adkVars>>

\* after_run_callback, once the invocation's calls are over.
AdkAfterRun(i) ==
    /\ \A c \in OpenCalls : c.invocation # i
    /\ correlations' = [correlations EXCEPT ![i] = None]
    /\ turns' = [turns EXCEPT ![i] = None]
    /\ UNCHANGED <<identityVars, callVars, toolScopes, disputed>>
=============================================================================
