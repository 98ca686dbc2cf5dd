---------------------------- MODULE GovernedCalls ----------------------------
(***************************************************************************)
(* What the framework adapters share: a model call or a tool call is judged *)
(* before it runs, runs while others do, and is judged again with what came *)
(* back (policy/hooks.py); usage is charged to the span of the call         *)
(* (policy/cost_tracker.py); the response checks of groundedness.py and     *)
(* response_judge.py run in between.  Calls nest: a tool may run an agent,   *)
(* whose calls are inside the tool's.  A call that the first stage refuses   *)
(* never opens.                                                             *)
(***************************************************************************)
EXTENDS Observation

CONSTANTS
    Tools,      \* records [declared, vendor]: the access identity a tool
                \* declares, if any, and whether it is a vendor's call
    MaxSpans

ASSUME SpansAssumption == MaxSpans \in Nat /\ None \notin Nat

VARIABLES
    spans,      \* how many spans were started; a span is its number
    open,       \* per task, its calls that are running, outermost first
    within,     \* auxiliary: per task, the framework of the call it was created in
    charges,    \* per span, how often usage was recorded under it
    answered,   \* auxiliary: the calls whose usage came back
    ungoverned, \* auxiliary: the calls whose whole result went through without the second
                \* stage's leave, or with one for somebody else
    scorers     \* the response checks the last bundle configured

callVars == <<spans, open, within, charges, answered, ungoverned, scorers>>

Spans == 1 .. MaxSpans

\* What the hook says of a stage; a transform may be one nobody registered,
\* and a stage whose content check cannot run is denied.
Verdicts == {"allow", "deny", "alter", "unresolved"}

CallsInit ==
    /\ spans = 0 /\ answered = {}
    /\ within = [t \in Tasks |-> None]
    /\ open = [t \in Tasks |-> <<>>]
    /\ charges = [s \in Spans |-> 0]
    /\ ungoverned = {}
    /\ scorers = {}

\* ContentCheckConfig.evaluate before the first stage: a scanner that cannot run
\* denies.
Scanned(clean, verdict) == IF clean THEN verdict ELSE "deny"

\* Where a task can make another call: nowhere inside a model call.
MayCall(t) ==
    /\ t \in live /\ spans < MaxSpans
    /\ open[t] # <<>> => Last(open[t]).kind = "tool"
\* The innermost call of a task is the one that can return.
Current(t) == Last(open[t])
Innermost(t, kind) ==
    t \in live /\ open[t] # <<>> /\ Current(t).kind = kind /\ Len(blocks[t]) = Current(t).depth

\* A call, as its start captures it: for whom it is judged and (auxiliary) for
\* whom the program said it is, the span its totals belong to, the framework
\* scope it is bracketed by, if any, with what that found, and how deep in
\* blocks it is.
Call(t, kind, who, asserted, tool, scope, framework) ==
    [kind |-> kind, tool |-> tool, who |-> who, asserted |-> asserted, span |-> spans + 1,
     scope |-> scope, framework |-> framework, invocation |-> None,
     found |-> ctx[t].framework, depth |-> Len(blocks[t])]
OpenCalls == UNION {ToSet(open[t]) : t \in Tasks}

\* The first stage, where a transform has nothing to work on yet.
Allowed(verdict) == verdict \in {"allow", "alter", "unresolved"}
\* The calls and the context after the first stage: what it refuses leaves no
\* trace, or has left its framework scope again.
Opened(t, call, verdict) == IF Allowed(verdict) THEN [open EXCEPT ![t] = Append(@, call)] ELSE open
InScope(context, call, verdict) ==
    IF Allowed(verdict) /\ call.framework # None THEN WithFramework(context, call.framework)
    ELSE context
\* A bracketed call's scope ends with the call, however it ends.
OutOfScope(context, call) ==
    IF call.framework # None THEN FrameworkRestored(context, call.found) ELSE context
Closed(t) == [open EXCEPT ![t] = Front(@)]

\* The second stage, where it denies.
Passes(verdict) == verdict \in {"allow", "alter"}

\* What the framework gets of a call that was judged again, for whom.
Deliver(call, verdict, who) ==
    ungoverned' = IF Passes(verdict) /\ ~(verdict \in {"allow", "alter"} /\ who = call.who)
                  THEN ungoverned \cup {call.span} ELSE ungoverned

\* What nothing judged goes through.
Unjudged(call) == ungoverned' = ungoverned \cup {call.span}

\* CostTracker.record for a scope.
Charge(s) == charges' = [charges EXCEPT ![s] = @ + 1]

\* The framework whose call a task is in, its own or the one it was created in.
Inside(calls, n, outside) == LastSaid([i \in 1..n |-> calls[i].framework], n, outside)
InsideOf(t) == Inside(open[t], Len(open[t]), within[t])

ForkTask(t, c) ==
    /\ t \in live
    /\ Fork(t, c)
    /\ within' = [within EXCEPT ![c] = InsideOf(t)]
    /\ UNCHANGED <<spans, open, charges, answered, ungoverned, scorers>>

\* A task ends when its calls have.
EndOfTask(c) ==
    /\ open[c] = <<>>
    /\ EndTask(c)
    /\ within' = [within EXCEPT ![c] = None]
    /\ UNCHANGED <<spans, open, charges, answered, ungoverned, scorers>>

\* Blocks and calls are nested: a block does not end before the calls in it,
\* nor (Innermost) a call before its blocks.
ExitInnerBlock(t) ==
    /\ open[t] # <<>> => Len(blocks[t]) > Current(t).depth
    /\ ExitBlock(t)

-----------------------------------------------------------------------------
\* GroundednessConfig and JudgeConfig.load_from_bundle: an entry that cannot
\* be used is skipped; a file that cannot be read, or none, configures nothing.
Scorers == {"groundedness", "judge"}
LoadScorers(usable) ==
    /\ usable \in SUBSET Scorers
    /\ scorers' = usable
    /\ UNCHANGED <<spans, open, within, charges, answered, ungoverned>>

\* evaluate_post of the two: with no source to compare with, groundedness is
\* skipped; a backend that cannot be loaded or reached, or whose answer cannot
\* be read, is an error, and the first error denies.
Scores == {"scored", "error"}
Grounded(score) == "groundedness" \in scorers => score # "error"
PassedByJudge(score) == "judge" \in scorers => score # "error"
Scored(grounded, judged) == Grounded(grounded) /\ PassedByJudge(judged)
=============================================================================
