------------------------------- MODULE CostTracker -------------------------------
(***************************************************************************)
(* CostTracker (src/parapetai_agent/policy/cost_tracker.py): the running   *)
(* token and cost totals of docs/adr/0010, per trace and per scope, under  *)
(* concurrent governed model calls; and the calls themselves, as Governor  *)
(* makes them (src/parapetai_agent/govern.py check_input, check_output,    *)
(* trace), against a policy that denies once a trace has spent Budget.  A  *)
(* denied call leaves nothing behind, so only allowed ones are steps.      *)
(*                                                                         *)
(* Tokens and micro-dollars are recorded side by side and never compared,  *)
(* so one number stands for both.  A scope entry exists exactly when its   *)
(* total is positive, since a record of nothing is dropped.                *)
(***************************************************************************)
EXTENDS Integers, SequencesExt, Subsequences

CONSTANTS
    Tasks,          \* concurrent tasks; one governed model call each at a time
    Traces,         \* trace ids
    Scopes,         \* scope (span) ids
    NoScope,        \* scope_id=None
    NoCall,         \* of a task that is not making a call
    MaxTraces,      \* max_traces
    MaxUsage,       \* what one model call can use
    Budget,         \* the policy: deny at this trace total
    MaxRecords      \* bound on the length of log

Keys  == Traces \X Scopes
Spans == [trace: Traces, scope: Scopes \cup {NoScope}]
Usages == [trace: Traces, scope: Scopes \cup {NoScope}, usage: 1..MaxUsage]

ASSUME CostAssumption ==
    /\ IsFiniteSet(Tasks)
    /\ NoScope \notin Scopes /\ NoCall \notin Spans
    /\ MaxTraces \in Nat \ {0} /\ MaxUsage \in Nat /\ Budget \in Nat \ {0}
    /\ MaxRecords \in Nat

VARIABLES
    lru,            \* the keys of _trace, least recently touched first
    total,          \* the _trace totals, 0 for a trace that has no entry
    scoped,         \* the _scope totals, likewise
    call,           \* per task, the trace and scope of its call in flight
    peak,           \* auxiliary: per trace, the most calls ever in flight at once
    log             \* auxiliary: the usages recorded, in order, without those
                    \* of a trace recorded before its totals were dropped

tracker == <<lru, total, scoped>>
vars    == <<tracker, call, peak, log>>

Init ==
    /\ lru = <<>>
    /\ total = [t \in Traces |-> 0]
    /\ scoped = [k \in Keys |-> 0]
    /\ call = [c \in Tasks |-> NoCall]
    /\ peak = [t \in Traces |-> 0]
    /\ log = <<>>

---------------------------------------------------------------------------
(* The tracker.                                                            *)

\* Fault: a trace is touched without leaving its old place.
TouchedTwice(t) == Append(lru, t)

\* Fault: a trace keeps the place of its first record.
TouchedInPlace(t) == IF t \in ToSet(lru) THEN lru ELSE Append(lru, t)

\* The keys without one of them.
PlaceOf(t) == CHOOSE i \in DOMAIN lru : lru[i] = t
Without(t) == IF t \in ToSet(lru) THEN RemoveAt(lru, PlaceOf(t)) ELSE lru

\* _touch_trace up to the eviction: the trace becomes the most recent one.
Touched(t) == Append(Without(t), t)

\* Fault: eviction at the limit is one entry late.
EvictedLate(s) == IF Len(s) > MaxTraces + 1 THEN {Head(s)} ELSE {}

\* The trace _touch_trace evicts, if the new entry is one too many.
Evicted(s) == IF Len(s) > MaxTraces THEN {Head(s)} ELSE {}

\* Fault: the scopes of a dropped trace stay.
ScopedKeptWithout(gone) == scoped

\* The totals with the entries of some traces dropped.
TotalWithout(gone) == [t \in Traces |-> IF t \in gone THEN 0 ELSE total[t]]
ScopedWithout(gone) == [k \in Keys |-> IF k[1] \in gone THEN 0 ELSE scoped[k]]

\* The log without the usages of some traces.
Since(gone) == ElementsAt(log, {i \in DOMAIN log : log[i].trace \notin gone})

\* record(): nothing for no usage; else touch, evict and add, under the lock.
Record(t, s, u) ==
    IF u = 0
    THEN UNCHANGED <<tracker, log>>
    ELSE LET gone == Evicted(Touched(t))
         IN  /\ lru' = IF gone = {} THEN Touched(t) ELSE Tail(Touched(t))
             /\ total' = [TotalWithout(gone) EXCEPT ![t] = @ + u]
             /\ scoped' = IF s = NoScope THEN ScopedWithout(gone)
                          ELSE [ScopedWithout(gone) EXCEPT ![<<t, s>>] = @ + u]
             /\ log' = Append(Since(gone), [trace |-> t, scope |-> s, usage |-> u])

\* end_trace(): the trace() block exits; its tasks may still be running.
EndTrace(t) ==
    /\ lru' = Without(t)
    /\ total' = TotalWithout({t})
    /\ scoped' = ScopedWithout({t})
    /\ log' = Since({t})
    /\ UNCHANGED <<call, peak>>

---------------------------------------------------------------------------
(* The governed calls.                                                     *)

\* context_for(): the total so far, without the call about to be judged.
ContextFor(t) == total[t]

InFlight(t) == {c \in Tasks : call[c] # NoCall /\ call[c].trace = t}

\* Fault: the budget itself is still within the budget.
WithinOrAt(spent) == spent <= Budget

\* Cedar's answer for the totals it is handed (external policy).
Within(spent) == spent < Budget

\* check_input: the totals so far decide; an allowed call is then in flight.
CheckInput(c, t, s) ==
    /\ call[c] = NoCall
    /\ Within(ContextFor(t))
    /\ call' = [call EXCEPT ![c] = [trace |-> t, scope |-> s]]
    /\ peak' = [peak EXCEPT ![t] = LET now == Cardinality(InFlight(t)) + 1
                                  IN  IF now > @ THEN now ELSE @]
    /\ UNCHANGED <<tracker, log>>

\* check_output: the call's usage is recorded before the result is judged.
CheckOutput(c, u) ==
    /\ call[c] # NoCall
    /\ Len(log) < MaxRecords
    /\ Record(call[c].trace, call[c].scope, u)
    /\ call' = [call EXCEPT ![c] = NoCall]
    /\ UNCHANGED peak

\* A scorer that cannot run denies before the usage is recorded, and a call
\* that fails has no usage to record.
CallFails(c) ==
    /\ call[c] # NoCall
    /\ call' = [call EXCEPT ![c] = NoCall]
    /\ UNCHANGED <<tracker, peak, log>>

Next ==
    \/ \E c \in Tasks :
          \/ \E t \in Traces, s \in Scopes \cup {NoScope} : CheckInput(c, t, s)
          \/ \E u \in 0..MaxUsage : CheckOutput(c, u)
          \/ CallFails(c)
    \/ \E t \in Traces : EndTrace(t)

Spec == Init /\ [][Next]_vars

---------------------------------------------------------------------------
(* Properties.                                                             *)

\* The types, and the keys of _trace are distinct.
TypeOK ==
    /\ lru \in Seq(Traces) /\ IsInjective(lru)
    /\ total \in [Traces -> Nat] /\ scoped \in [Keys -> Nat]
    /\ call \in [Tasks -> Spans \cup {NoCall}]
    /\ peak \in [Traces -> Nat] /\ log \in Seq(Usages)

\* "Bounds memory in a long-lived server process": never more than
\* max_traces entries, and no total or scope of a trace that has none,
\* whatever is evicted, ended and recorded again (cost_tracker.py).
BoundedMemory ==
    /\ Len(lru) <= MaxTraces
    /\ \A t \in Traces \ ToSet(lru) :
          total[t] = 0 /\ \A s \in Scopes : scoped[<<t, s>>] = 0

\* The usage recorded for a trace, and for a scope of it, since its totals
\* were last dropped.
LoggedFor(t, S) ==
    SumTo([i \in DOMAIN log |-> IF log[i].trace = t /\ log[i].scope \in S THEN log[i].usage
                                ELSE 0],
          Len(log))

\* The totals Cedar is shown are the sums of what was recorded, for a trace
\* and each of its scopes: an evicted or ended trace that is used again
\* starts from nothing in both, and no trace is credited with another's
\* usage (cost_tracker.py record, end_trace, _touch_trace).
TotalsAreExact ==
    \A t \in Traces :
        /\ total[t] = LoggedFor(t, Scopes \cup {NoScope})
        /\ \A s \in Scopes : scoped[<<t, s>>] = LoggedFor(t, {s})

\* When a trace was last recorded.
LastRecord(t) ==
    LET at == {i \in DOMAIN log : log[i].trace = t}
    IN  IF at = {} THEN 0 ELSE CHOOSE i \in at : \A j \in at : j <= i

\* A step that evicts a trace to make room evicts the one recorded longest
\* ago: a trace that is still being used is not reset under its budget while
\* an idler one is kept (cost_tracker.py _touch_trace).
EvictsLeastRecent ==
    [][ToSet(lru') \ ToSet(lru) # {} =>
          \A t \in ToSet(lru) \ ToSet(lru') :
              \A u \in ToSet(lru) \cap ToSet(lru') : LastRecord(t) < LastRecord(u)]_vars

\* A budget is overshot by no more than the calls that were in flight
\* together: a check that reads a total and a record that adds to it are far
\* apart, but each call is checked before it starts (govern.py check_input,
\* check_output).  With one call at a time the overshoot is that call.
OvershootIsInFlight ==
    \A t \in Traces : total[t] <= Budget - 1 + MaxUsage * peak[t]
================================================================================
