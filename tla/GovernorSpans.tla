----------------------------- MODULE GovernorSpans -----------------------------
(***************************************************************************)
(* The Governor (govern.py), for code without a framework: how it is built, *)
(* its trace() blocks, and the span that check_input and authorize_tool      *)
(* each leave open around whatever the caller does next.  A span is closed   *)
(* by the next of its kind, after that has set its own framework scope, or   *)
(* at the end of a trace block.  A task created meanwhile has a copy of the  *)
(* variables and shares the spans they name, but it cannot reset a scope of   *)
(* another task.  Who a call is for is what the caller says, and what it      *)
(* costs, and the approvals it waits for, are CostTracker's and               *)
(* ApprovalLoop's.                                                            *)
(***************************************************************************)
EXTENDS GovernedCalls

VARIABLES
    governor,   \* None, "local" or "connected"
    traces,     \* per task, how many trace() blocks it is in
    current,    \* per task, _current_model_span and _current_tool_span
    held,       \* the _OpenSpan of each span: the task it is of, the framework its scope
                \* found, (auxiliary) whether it was opened in a trace, and whether it ended
    disordered  \* auxiliary: the tasks with a scope closed before a later one, or by another task

governorVars == <<governor, traces, current, held, disordered>>

NoSpan == [model |-> None, tool |-> None]
OpenSpan(t, found, traced) == [owner |-> t, found |-> found, traced |-> traced, ended |-> FALSE]
Unheld == [OpenSpan(None, None, FALSE) EXCEPT !.ended = TRUE]

GovernorInit ==
    /\ governor = None
    /\ traces = [t \in Tasks |-> 0]
    /\ current = [t \in Tasks |-> NoSpan]
    /\ held = [s \in Spans |-> Unheld]
    /\ disordered = {}

\* from_policy_dir: policy files only.
FromPolicyDir ==
    /\ governor = None
    /\ governor' = "local"
    /\ UNCHANGED <<observationVars, traces, current, held, disordered>>

\* from_control_plane: detection is enabled and the poll thread, which brings the
\* lists of full buckets, is started.
FromControlPlane(provider, package) ==
    /\ governor = None
    /\ governor' = "connected"
    /\ EnableDetection(provider, package)
    /\ UNCHANGED <<traces, current, held, disordered>>

\* stop_sync: no more bundles.
StopSync ==
    /\ governor = "connected"
    /\ governor' = "local"
    /\ UNCHANGED <<observationVars, traces, current, held, disordered>>

-----------------------------------------------------------------------------
\* What a task works on: its context, and what is shared.
At(context, spansHeld) == [context |-> context, held |-> spansHeld, disordered |-> disordered]

\* _OpenSpan.close, in task t: the scope is reset to what it found, if it is the
\* task's own; a second close does nothing.
Close(at, t, s) ==
    IF s = None THEN at
    ELSE LET span == at.held[s]
             later == {l \in Spans : l > s /\ at.held[l].owner = t /\ ~at.held[l].ended}
         IN [context |-> IF span.owner = t /\ ~span.ended THEN FrameworkRestored(at.context, span.found)
                         ELSE at.context,
             held |-> [at.held EXCEPT ![s].ended = TRUE],
             disordered |-> at.disordered \cup (IF span.owner # t \/ later # {} THEN {t} ELSE {})
                                \cup (IF span.ended THEN {} ELSE {span.owner} \ {t, None})]

Leaves(t, at) ==
    /\ ctx' = [ctx EXCEPT ![t] = at.context]
    /\ held' = at.held
    /\ disordered' = at.disordered

\* set_current_framework and _supersede: the new scope is set, then the span of
\* this kind before it is closed.
Supersede(t, kind, context) ==
    /\ Leaves(t, Close(At(WithFramework(context, "governor"),
                          [held EXCEPT ![spans + 1] = OpenSpan(t, context.framework, traces[t] > 0)]),
                       t, current[t][kind]))
    /\ current' = [current EXCEPT ![t][kind] = spans + 1]
    /\ spans' = spans + 1
    /\ UNCHANGED <<live, blocks, inherited, store, open, within, charges, answered, ungoverned,
                   scorers, governor, traces>>

\* check_input, if its content checks run, and authorize_tool; what the hook
\* decides makes no difference here.
CheckInput(t) ==
    /\ governor # None /\ t \in live
    /\ Supersede(t, "model", [ctx[t] EXCEPT !.turn = spans + 1])
AuthorizeTool(t) ==
    /\ governor # None /\ t \in live
    /\ Supersede(t, "tool", ctx[t])

\* trace(): a block is entered; however it ends, the tool span and the model
\* span of the task are closed, whatever block they are of.
EnterTrace(t) ==
    /\ governor # None /\ t \in live /\ traces[t] < MaxBlocks
    /\ traces' = [traces EXCEPT ![t] = @ + 1]
    /\ UNCHANGED <<identityVars, callVars, governor, current, held, disordered>>
ExitTrace(t) ==
    /\ traces[t] > 0
    /\ traces' = [traces EXCEPT ![t] = @ - 1]
    /\ Leaves(t, Close(Close(At(ctx[t], held), t, current[t].tool), t, current[t].model))
    /\ current' = [current EXCEPT ![t] = NoSpan]
    /\ UNCHANGED <<live, blocks, inherited, store, callVars, governor>>

-----------------------------------------------------------------------------
\* A task starts with the spans of its creator, and leaves its own behind; it
\* does not end in a trace block.
TaskSharesSpans(t, c) ==
    /\ current' = [current EXCEPT ![c] = current[t]]
    /\ disordered' = IF t \in disordered THEN disordered \cup {c} ELSE disordered
    /\ UNCHANGED <<governor, traces, held>>
TaskLeavesSpans(c) ==
    /\ traces[c] = 0
    /\ current' = [current EXCEPT ![c] = NoSpan]
    /\ disordered' = disordered \ {c}
    /\ held' = [s \in Spans |-> IF held[s].owner = c THEN [held[s] EXCEPT !.owner = None] ELSE held[s]]
    /\ UNCHANGED <<governor, traces>>
=============================================================================
