--------------------------- MODULE ApprovalLoopProofs ---------------------------
(***************************************************************************)
(* Theorems of ApprovalLoop for any number of callers, requests, calls and *)
(* tickets, and any timeouts.  What makes the grant single-use is that a   *)
(* row once consumed never changes again and that only one process ever    *)
(* writes its ticket into via, in the step that consumes it: Spent.  What  *)
(* ties a run to its authority is where each label can have come from:     *)
(* Stages.  That a wait overlooks no approval rests on when the queue was  *)
(* last asked: OnTime.                                                     *)
(***************************************************************************)
EXTENDS ApprovalLoop, TLAPS

Waiting == {"collect", "deadline", "sleep"}

\* A row is dated when the human approves it, and keeps its date.
Dated == /\ now <= MaxTime
         /\ \A k \in Tickets : rows[k].status = "approved" => rows[k].approved_at # Never

\* A collected grant is spent, on the call it was given for.
Spent == \A p \in Procs : via[p] # NoTicket =>
            /\ rows[via[p]].status = "consumed"
            /\ rows[via[p]].call = call[p]
            /\ rows[via[p]].approved_at # Never

\* What a process has seen and holds, by the label it has reached.
Stages == \A p \in Procs :
            /\ pc[p] \notin {"granted", "ran"} => via[p] = NoTicket
            /\ pc[p] \in Waiting => ticket[p] # NoTicket
            /\ pc[p] \in Waiting \cup {"submit", "held", "granted"} => seen[p] = "review"
            /\ pc[p] = "granted" => via[p] # NoTicket
            /\ pc[p] = "ran" => \/ seen[p] = "allow" /\ via[p] = NoTicket
                                \/ seen[p] = "review" /\ via[p] # NoTicket

IInv == TypeOK /\ Dated /\ Spent /\ Stages /\ AtMostOncePerGrant

USE ApprovalAssumption

\* The initial states satisfy the invariant: nothing is queued or granted.
LEMMA InitIInv == Init => IInv
  <1> SUFFICES ASSUME Init PROVE IInv
      OBVIOUS
  <1>1. TypeOK
      BY DEF Init, TypeOK, Row, Never, Statuses, Labels
  <1>2. Dated /\ Spent /\ Stages /\ AtMostOncePerGrant
      BY DEF Init, Dated, Spent, Stages, AtMostOncePerGrant, Waiting, Row
  <1> QED BY <1>1, <1>2 DEF IInv

\* Nothing in the invariant depends on an unstated variable.
LEMMA StutterIInv == IInv /\ UNCHANGED vars => IInv'
  <1> QED BY DEF vars, queue, procs, IInv, TypeOK, Dated, Spent, Stages, AtMostOncePerGrant

\* The queue may move any row that is not consumed: a process that holds a
\* grant holds a consumed one.
LEMMA RowMoves ==
    ASSUME IInv, NEW k \in Tickets, rows[k].status # "consumed",
           NEW s \in Statuses, NEW c \in Calls, NEW d \in Nat,
           rows' = [rows EXCEPT ![k] = Row(s, c, d)],
           s = "approved" => d # Never,
           UNCHANGED <<policy, now, procs>>
    PROVE  IInv'
  <1> USE DEF IInv, TypeOK, Row, procs
  <1>1. TypeOK'
      OBVIOUS
  <1>2. Dated'
      BY DEF Dated, Never
  <1>3. Spent'
      BY DEF Spent
  <1>4. (Stages /\ AtMostOncePerGrant)'
      BY DEF Stages, AtMostOncePerGrant
  <1> QED BY <1>1, <1>2, <1>3, <1>4

\* The environment's steps.
LEMMA EnvironmentSteps ==
    ASSUME IInv,
           \/ PolicyChange \/ Tick
           \/ \E k \in Tickets : HumanDecides(k) \/ Expires(k)
           \/ \E r \in Requests : Present(r)
    PROVE  IInv'
  <1> USE DEF IInv
  <1>1. CASE PolicyChange
    <2> USE <1>1 DEF PolicyChange, procs
    <2>1. TypeOK'
        BY DEF TypeOK
    <2> QED BY <2>1 DEF Dated, Spent, Stages, AtMostOncePerGrant, Never
  <1>2. CASE Tick
    <2> USE <1>2 DEF Tick, procs
    <2>1. TypeOK'
        BY DEF TypeOK
    <2>2. Dated'
        BY DEF Dated, TypeOK, Never
    <2> QED BY <2>1, <2>2 DEF Spent, Stages, AtMostOncePerGrant, Never
  <1>3. ASSUME NEW k \in Tickets, HumanDecides(k)
        PROVE  IInv'
    <2>1. rows[k].status = "pending" /\ rows[k].call \in Calls /\ Never \in Nat
        BY <1>3 DEF HumanDecides, TypeOK, Never
    <2>2. now \in Nat /\ now # Never
        BY DEF TypeOK, Dated, Never
    <2>3. CASE rows' = [rows EXCEPT ![k] = Row("approved", rows[k].call, now)]
        BY <1>3, <2>1, <2>2, <2>3, RowMoves DEF HumanDecides, Statuses
    <2>4. CASE rows' = [rows EXCEPT ![k] = Row("denied", rows[k].call, Never)]
        BY <1>3, <2>1, <2>4, RowMoves DEF HumanDecides, Statuses
    <2> QED BY <1>3, <2>3, <2>4 DEF HumanDecides
  <1>4. ASSUME NEW k \in Tickets, Expires(k)
        PROVE  IInv'
    <2>1. rows[k].call \in Calls /\ rows[k].approved_at \in Nat
        BY DEF TypeOK
    <2> QED BY <1>4, <2>1, RowMoves DEF Expires, Statuses
  <1>5. ASSUME NEW r \in Requests, Present(r)
        PROVE  IInv'
    <2>1. PICK k \in Tickets : ticket' = [ticket EXCEPT ![r] = k]
        BY <1>5 DEF Present
    <2> USE <1>5, <2>1 DEF Present, queue
    <2>2. TypeOK'
        BY DEF TypeOK
    <2>3. (Dated /\ Spent /\ AtMostOncePerGrant)'
        BY DEF Dated, Spent, AtMostOncePerGrant, Never
    <2>4. Stages'
        BY DEF Stages, Waiting, TypeOK
    <2> QED BY <2>2, <2>3, <2>4
  <1> QED BY <1>1, <1>2, <1>3, <1>4, <1>5

\* A process that holds no grant and takes none keeps the invariant if what
\* its new label requires is so.
LEMMA ProcMoves ==
    ASSUME IInv, NEW p \in Procs,
           NEW l \in Labels \ {"granted"}, pc' = [pc EXCEPT ![p] = l],
           NEW v \in {"none", "allow", "review", "deny"}, seen' = [seen EXCEPT ![p] = v],
           NEW k \in Tickets \cup {NoTicket}, ticket' = [ticket EXCEPT ![p] = k],
           pc[p] \notin {"granted", "ran"},
           l \in Waiting => k # NoTicket,
           l \in Waiting \cup {"submit", "held"} => v = "review",
           l = "ran" => v = "allow",
           deadline' \in [Procs -> Nat], wake' \in [Procs -> Nat],
           asked' \in [Procs -> Nat], missed' \in [Procs -> BOOLEAN],
           UNCHANGED <<policy, rows, now, call, via>>
    PROVE  IInv'
  <1> USE DEF IInv
  <1>1. TypeOK'
      BY DEF TypeOK
  <1>2. (Dated /\ Spent /\ AtMostOncePerGrant)'
      BY DEF Dated, Spent, AtMostOncePerGrant, Never
  <1>3. Stages'
      BY DEF Stages, TypeOK, Labels, Waiting
  <1> QED BY <1>1, <1>2, <1>3

\* Both surfaces up to the queue: Cedar's answer and the submission.
LEMMA SubmitSteps ==
    ASSUME IInv, NEW p \in Procs,
           Evaluate(p) \/ SubmitAnswered(p) \/ SubmitFails(p) \/ Run(p)
    PROVE  IInv'
  <1> USE DEF IInv
  <1>1. CASE Evaluate(p)
    <2>1. policy[call[p]] \in {"allow", "review", "deny"} /\ ticket[p] \in Tickets \cup {NoTicket}
        BY DEF TypeOK
    <2>2. /\ ticket' = [ticket EXCEPT ![p] = ticket[p]]
          /\ deadline' \in [Procs -> Nat] /\ wake' \in [Procs -> Nat]
          /\ asked' \in [Procs -> Nat] /\ missed' \in [Procs -> BOOLEAN]
        BY <1>1 DEF Evaluate, TypeOK
    <2>3. PICK l \in {"ran", "refused", "submit", "collect"} :
            /\ pc' = [pc EXCEPT ![p] = l]
            /\ l = "ran" => policy[call[p]] = "allow"
            /\ l \in {"submit", "collect"} => policy[call[p]] = "review"
            /\ l = "collect" => ticket[p] # NoTicket
      <3>1. CASE policy[call[p]] = "allow"
          BY <1>1, <3>1 DEF Evaluate, Goto
      <3>2. CASE policy[call[p]] = "deny"
          BY <1>1, <3>2 DEF Evaluate, Goto
      <3>3. CASE policy[call[p]] = "review" /\ ticket[p] = NoTicket
          BY <1>1, <3>3 DEF Evaluate, Goto
      <3>4. CASE policy[call[p]] = "review" /\ ticket[p] # NoTicket
          BY <1>1, <3>4 DEF Evaluate, Goto
      <3> QED BY <2>1, <3>1, <3>2, <3>3, <3>4
    <2>4. /\ pc[p] = "start" /\ seen' = [seen EXCEPT ![p] = policy[call[p]]]
          /\ UNCHANGED <<policy, rows, now, call, via>>
        BY <1>1 DEF Evaluate, queue
    <2>5. l \in Labels \ {"granted"}
        BY DEF Labels
    <2>6. l \in Waiting => ticket[p] # NoTicket
        BY <2>3 DEF Waiting
    <2>7. l \in Waiting \cup {"submit", "held"} => policy[call[p]] = "review"
        BY <2>3 DEF Waiting
    <2> HIDE DEF IInv
    <2> QED BY <2>1, <2>2, <2>3, <2>4, <2>5, <2>6, <2>7, ProcMoves
  <1>2. ASSUME SubmitAnswered(p) \/ SubmitFails(p)
        PROVE  IInv'
    <2>1. PICK t \in Tickets \cup {NoTicket} :
            /\ ticket' = [ticket EXCEPT ![p] = t]
            /\ SubmitAnswered(p) => t # NoTicket
        BY <1>2 DEF SubmitAnswered, SubmitFails
    <2>2. UNCHANGED rows \/ \E k \in Tickets : Opened(k, call[p])
        BY <1>2 DEF SubmitAnswered, SubmitFails
    <2>3. TypeOK'
      <3>1. rows' \in [Tickets -> [status: Statuses, call: Calls, approved_at: Nat]]
          BY <2>2 DEF TypeOK, Opened, Row, Statuses, Never
      <3>2. pc' \in [Procs -> Labels]
          BY <1>2 DEF TypeOK, SubmitAnswered, SubmitFails, Goto, Labels
      <3> QED BY <1>2, <2>1, <3>1, <3>2 DEF TypeOK, SubmitAnswered, SubmitFails
    <2>4. Dated'
        BY <1>2, <2>2 DEF SubmitAnswered, SubmitFails, Opened, Row, Dated, Never, TypeOK
    <2>5. Spent'
        BY <1>2, <2>2 DEF SubmitAnswered, SubmitFails, Opened, Row, Spent, Never, TypeOK
    <2>6. (Stages /\ AtMostOncePerGrant)'
        BY <1>2, <2>1 DEF SubmitAnswered, SubmitFails, Goto, Stages, AtMostOncePerGrant,
                          Waiting, TypeOK
    <2> QED BY <2>3, <2>4, <2>5, <2>6
  <1>3. CASE Run(p)
    <2> USE <1>3 DEF Run, Goto, queue
    <2>1. TypeOK'
        BY DEF TypeOK, Labels
    <2>2. (Dated /\ Spent /\ AtMostOncePerGrant)'
        BY DEF Dated, Spent, AtMostOncePerGrant, Never
    <2>3. Stages'
        BY DEF Stages, TypeOK, Waiting
    <2> QED BY <2>1, <2>2, <2>3
  <1> QED BY <1>1, <1>2, <1>3

\* The one step that hands out a grant: the row it consumes was approved, so
\* no process holds it yet.
LEMMA GrantStep ==
    ASSUME IInv, NEW p \in Procs, CollectGranted(p)
    PROVE  IInv'
  <1> USE DEF IInv, CollectGranted, Goto, Grants, Consumed, Row
  <1>1. ticket[p] \in Tickets /\ via[p] = NoTicket /\ seen[p] = "review"
      BY DEF Stages, Waiting, TypeOK
  <1>2. \A q \in Procs : via[q] # ticket[p]
      BY <1>1 DEF Spent
  <1>3. TypeOK'
      BY <1>1 DEF TypeOK, Statuses, Labels
  <1>4. Dated'
      BY <1>1 DEF Dated, TypeOK, Never
  <1>5. Spent'
      BY <1>1, <1>2 DEF Spent, TypeOK, Dated, Never
  <1>6. Stages'
      BY <1>1 DEF Stages, TypeOK, Waiting
  <1>7. AtMostOncePerGrant'
      BY <1>1, <1>2 DEF AtMostOncePerGrant, TypeOK
  <1> QED BY <1>3, <1>4, <1>5, <1>6, <1>7

\* A collect that was refused, or whose answer never came.
LEMMA CollectSteps ==
    ASSUME IInv, NEW p \in Procs, CollectRefused(p) \/ CollectLost(p)
    PROVE  IInv'
  <1> USE DEF IInv
  <1>1. ticket[p] \in Tickets /\ via[p] = NoTicket /\ seen[p] = "review" /\ pc[p] = "collect"
      BY DEF CollectRefused, CollectLost, Stages, Waiting, TypeOK
  <1>2. /\ UNCHANGED <<policy, now, call, seen, ticket, via, deadline, wake>>
        /\ UNCHANGED rows \/ (Grants(ticket[p], call[p]) /\ Consumed(ticket[p]))
    <2>1. CASE CollectRefused(p)
        BY <2>1 DEF CollectRefused, queue
    <2>2. CASE CollectLost(p)
        BY <2>2 DEF CollectLost
    <2> QED BY <2>1, <2>2
  <1>3. PICK l \in {"submit", "refused", "deadline"} : pc' = [pc EXCEPT ![p] = l]
      BY DEF CollectRefused, CollectLost, AfterRefusal, Goto
  <1>4. asked' = [asked EXCEPT ![p] = now] /\ \E m \in BOOLEAN : missed' = [missed EXCEPT ![p] = m]
      BY DEF CollectRefused, CollectLost
  <1>5. TypeOK'
    <2>1. rows' \in [Tickets -> [status: Statuses, call: Calls, approved_at: Nat]]
        BY <1>1, <1>2 DEF TypeOK, Consumed, Row, Statuses
    <2>2. asked' \in [Procs -> Nat] /\ missed' \in [Procs -> BOOLEAN]
        BY <1>4 DEF TypeOK
    <2> QED BY <1>2, <1>3, <2>1, <2>2 DEF TypeOK, Labels
  <1>6. Dated'
    <2>1. CASE UNCHANGED rows
        BY <1>2, <2>1 DEF Dated, Never
    <2>2. CASE Consumed(ticket[p])
        BY <1>1, <1>2, <2>2 DEF Dated, Consumed, Row, TypeOK, Never
    <2> QED BY <1>2, <2>1, <2>2
  <1>7. Spent'
      BY <1>1, <1>2 DEF Spent, Grants, Consumed, Row, TypeOK, Never
  <1>8. (Stages /\ AtMostOncePerGrant)'
      BY <1>1, <1>2, <1>3 DEF Stages, AtMostOncePerGrant, TypeOK, Waiting
  <1> QED BY <1>5, <1>6, <1>7, <1>8

\* The waiting loop's own steps, which never touch the queue.
LEMMA WaitSteps ==
    ASSUME IInv, NEW p \in Callers, Wait(p)
    PROVE  IInv'
  <1> USE DEF IInv
  <1>1. p \in Procs /\ ticket[p] \in Tickets \cup {NoTicket}
      BY DEF Procs, TypeOK
  <1>2. /\ pc[p] \in {"held", "deadline", "sleep"}
        /\ UNCHANGED <<policy, rows, now, call, seen, ticket, via>>
      BY DEF Wait, BeginWait, CheckDeadline, Wake, queue
  <1>3. seen[p] = "review" /\ (pc[p] \in {"deadline", "sleep"} => ticket[p] # NoTicket)
      BY <1>1, <1>2 DEF Stages, Waiting
  <1>4. /\ seen' = [seen EXCEPT ![p] = "review"]
        /\ ticket' = [ticket EXCEPT ![p] = ticket[p]]
      BY <1>1, <1>2, <1>3 DEF TypeOK
  <1>5. /\ deadline' \in [Procs -> Nat] /\ wake' \in [Procs -> Nat]
        /\ asked' \in [Procs -> Nat] /\ missed' \in [Procs -> BOOLEAN]
    <2> USE <1>1 DEF TypeOK
    <2>1. CASE BeginWait(p)
        BY <2>1 DEF BeginWait
    <2>2. CASE CheckDeadline(p)
      <3>1. now + Poll \in Nat /\ Earlier(now + Poll, deadline[p]) \in Nat
          BY DEF Earlier
      <3>2. wake' \in [Procs -> Nat]
          BY <2>2, <3>1 DEF CheckDeadline
      <3>3. missed' \in [Procs -> BOOLEAN]
          BY <2>2 DEF CheckDeadline
      <3> QED BY <2>2, <3>2, <3>3 DEF CheckDeadline
    <2>3. CASE Wake(p)
        BY <2>3 DEF Wake
    <2> QED BY <2>1, <2>2, <2>3 DEF Wait
  <1>6. PICK l \in {"refused", "collect", "sleep"} :
            /\ pc' = [pc EXCEPT ![p] = l]
            /\ l \in Waiting => ticket[p] # NoTicket
    <2>1. CASE BeginWait(p)
        BY <2>1 DEF BeginWait, Goto, Waiting
    <2>2. CASE CheckDeadline(p)
        BY <1>3, <2>2 DEF CheckDeadline, Goto, Waiting
    <2>3. CASE Wake(p)
        BY <1>3, <2>3 DEF Wake, Goto, Waiting
    <2> QED BY <2>1, <2>2, <2>3 DEF Wait
  <1>7. l \in Labels \ {"granted"} /\ l # "ran" /\ pc[p] \notin {"granted", "ran"}
      BY <1>2 DEF Labels
  <1> HIDE DEF IInv
  <1> QED BY <1>1, <1>2, <1>4, <1>5, <1>6, <1>7, ProcMoves

\* Every step preserves the invariant.
LEMMA StepIInv == IInv /\ [Next]_vars => IInv'
  <1> SUFFICES ASSUME IInv, [Next]_vars PROVE IInv'
      OBVIOUS
  <1>1. CASE UNCHANGED vars
      BY <1>1, StutterIInv
  <1>2. ASSUME NEW p \in Procs, Step(p) PROVE IInv'
      BY <1>2, SubmitSteps, GrantStep, CollectSteps DEF Step
  <1>3. ASSUME NEW p \in Callers, Wait(p) PROVE IInv'
      BY <1>3, WaitSteps
  <1> QED BY <1>1, <1>2, <1>3, EnvironmentSteps DEF Next

\* The invariant holds in every reachable state.
LEMMA Invariance == Spec => []IInv
  <1> QED BY InitIInv, StepIInv, PTL DEF Spec

\* Queue, clock and processes keep their types, whatever is lost and however
\* the calls interleave.
THEOREM TypeCorrect == Spec => []TypeOK
  <1>1. IInv => TypeOK
      BY DEF IInv
  <1> QED BY <1>1, Invariance, PTL

\* One approval never lets two calls through (wait_for_approval,
\* _resolve_review), for any number of callers, requests and tickets.
THEOREM GrantsAreSingleUse == Spec => []AtMostOncePerGrant
  <1>1. IInv => AtMostOncePerGrant
      BY DEF IInv
  <1> QED BY <1>1, Invariance, PTL

\* Whatever runs was allowed by Cedar, or held for review by Cedar and then
\* approved by a human for that very call.
THEOREM RunsHaveAuthority == Spec => []RanWithAuthority
  <1>1. IInv => RanWithAuthority
      BY DEF IInv, RanWithAuthority, Spent, Stages
  <1> QED BY <1>1, Invariance, PTL

---------------------------------------------------------------------------
(* Giving up in time.                                                      *)

\* What a waiting caller knows of its row.  The row is its own; at the
\* deadline check an approval its last answered poll did not see came after
\* that poll; and a caller that has given up did so at its deadline, or on a
\* row that no longer can be approved.
OnTime(p) ==
    /\ pc[p] \in {"start", "submit"} => ticket[p] = NoTicket
    /\ ticket[p] # NoTicket => /\ rows[ticket[p]].status # "free"
                               /\ rows[ticket[p]].call = call[p]
    /\ asked[p] <= now
    /\ (pc[p] = "deadline" /\ ~missed[p] /\ rows[ticket[p]].status = "approved") =>
          rows[ticket[p]].approved_at >= asked[p]
    /\ (pc[p] = "refused" /\ ticket[p] # NoTicket /\ ~missed[p]) =>
          /\ rows[ticket[p]].status = "approved" =>
                rows[ticket[p]].approved_at >= deadline[p]
          /\ Terminal(ticket[p]) \/ now >= deadline[p]

Timely == \A p \in Callers : OnTime(p)

\* Nobody holds a ticket or has asked anything at the start.
LEMMA InitTimely == Init => Timely
  <1> SUFFICES ASSUME Init, NEW p \in Callers PROVE OnTime(p)
      BY DEF Timely
  <1>1. p \in Procs
      BY DEF Procs
  <1> QED BY <1>1 DEF Init, OnTime

\* How the row of a ticket may move: never back to free, never to another
\* call, and to approved only from a state in which that is still open, at
\* the time it happens.
RowAdvances(k) ==
    \/ rows'[k] = rows[k]
    \/ /\ rows[k].status \in {"pending", "approved"}
       /\ rows'[k].call = rows[k].call
       /\ \/ rows'[k].status \in {"denied", "expired", "consumed"}
          \/ rows'[k].status = "approved" /\ rows'[k].approved_at = now

\* A caller that does not move stays on time while rows and clock advance.
LEMMA OthersStayOnTime ==
    ASSUME IInv, NEW q \in Callers, OnTime(q), now' \in Nat, now' >= now,
           ticket[q] # NoTicket /\ rows[ticket[q]].status # "free" => RowAdvances(ticket[q]),
           /\ pc'[q] = pc[q] /\ call'[q] = call[q] /\ ticket'[q] = ticket[q]
           /\ deadline'[q] = deadline[q] /\ asked'[q] = asked[q] /\ missed'[q] = missed[q]
    PROVE  OnTime(q)'
  <1>1. /\ q \in Procs /\ asked[q] \in Nat /\ deadline[q] \in Nat /\ now \in Nat
        /\ pc[q] = "deadline" => ticket[q] # NoTicket
      BY DEF IInv, TypeOK, Stages, Waiting, Procs
  <1>2. CASE ticket[q] = NoTicket
      BY <1>1, <1>2 DEF OnTime
  <1>3. CASE ticket[q] # NoTicket
    <2>1. ticket[q] \in Tickets /\ rows[ticket[q]].approved_at \in Nat
        BY <1>1, <1>3 DEF IInv, TypeOK
    <2>2. RowAdvances(ticket[q])
        BY <1>3 DEF OnTime
    <2>3. CASE rows'[ticket[q]] = rows[ticket[q]]
        BY <1>1, <1>3, <2>1, <2>3 DEF OnTime, Terminal
    <2>4. CASE rows'[ticket[q]].status \in {"denied", "expired", "consumed"}
               /\ rows'[ticket[q]].call = rows[ticket[q]].call
        BY <1>1, <1>3, <2>1, <2>4 DEF OnTime, Terminal
    <2>5. CASE /\ rows[ticket[q]].status \in {"pending", "approved"}
               /\ rows'[ticket[q]].call = rows[ticket[q]].call
               /\ rows'[ticket[q]].status = "approved"
               /\ rows'[ticket[q]].approved_at = now
        BY <1>1, <1>3, <2>1, <2>5 DEF OnTime, Terminal
    <2> QED BY <2>2, <2>3, <2>4, <2>5 DEF RowAdvances
  <1> QED BY <1>2, <1>3

\* The environment: an approval carries the time at which it is given.
LEMMA EnvironmentTimely ==
    ASSUME IInv, Timely,
           \/ PolicyChange \/ Tick
           \/ \E k \in Tickets : HumanDecides(k) \/ Expires(k)
           \/ \E r \in Requests : Present(r)
    PROVE  Timely'
  <1> SUFFICES ASSUME NEW q \in Callers PROVE OnTime(q)'
      BY DEF Timely
  <1>1. OnTime(q) /\ q \in Procs /\ q \notin Requests
      BY DEF Timely, Procs
  <1>2. now' \in Nat /\ now' >= now
      BY DEF IInv, TypeOK, PolicyChange, Tick, HumanDecides, Expires, Present, queue
  <1>3. /\ pc'[q] = pc[q] /\ call'[q] = call[q] /\ ticket'[q] = ticket[q]
        /\ deadline'[q] = deadline[q] /\ asked'[q] = asked[q] /\ missed'[q] = missed[q]
      BY <1>1 DEF IInv, TypeOK, PolicyChange, Tick, HumanDecides, Expires, Present, procs
  <1>4. \A k \in Tickets : RowAdvances(k)
    <2>1. CASE PolicyChange \/ Tick \/ \E r \in Requests : Present(r)
        BY <2>1 DEF PolicyChange, Tick, Present, queue, RowAdvances
    <2>2. ASSUME NEW k \in Tickets, HumanDecides(k) \/ Expires(k)
          PROVE  \A l \in Tickets : RowAdvances(l)
        BY <2>2 DEF HumanDecides, Expires, Row, RowAdvances, IInv, TypeOK
    <2> QED BY <2>1, <2>2
  <1>5. ticket[q] \in Tickets \cup {NoTicket}
      BY <1>1 DEF IInv, TypeOK
  <1> QED BY <1>1, <1>2, <1>3, <1>4, <1>5, OthersStayOnTime

\* A process that takes a step leaves every other caller on time: it consumes
\* an approved row, or opens a free one, which nobody holds.
LEMMA OthersTimely ==
    ASSUME IInv, Timely, NEW p \in Procs, Step(p) \/ (p \in Callers /\ Wait(p)),
           NEW q \in Callers, q # p
    PROVE  OnTime(q)'
  <1>1. OnTime(q) /\ q \in Procs
      BY DEF Timely, Procs
  <1>2. now' \in Nat /\ now' >= now
    <2>1. now \in Nat
        BY DEF IInv, TypeOK
    <2>2. now' = now
        BY DEF Step, Wait, Evaluate, SubmitAnswered, SubmitFails, Run, CollectGranted,
               CollectRefused, CollectLost, BeginWait, CheckDeadline, Wake, queue
    <2> QED BY <2>1, <2>2
  <1> USE DEF IInv, TypeOK, Goto
  <1>3. /\ pc'[q] = pc[q] /\ call'[q] = call[q] /\ ticket'[q] = ticket[q]
        /\ deadline'[q] = deadline[q] /\ asked'[q] = asked[q] /\ missed'[q] = missed[q]
    <2>1. CASE Step(p)
        BY <1>1, <2>1 DEF Step, Evaluate, SubmitAnswered, SubmitFails, Run,
               CollectGranted, CollectRefused, CollectLost
    <2>2. CASE Wait(p)
        BY <1>1, <2>2 DEF Wait, BeginWait, CheckDeadline, Wake
    <2> QED BY <2>1, <2>2
  <1>4. ASSUME ticket[q] # NoTicket, rows[ticket[q]].status # "free"
        PROVE  RowAdvances(ticket[q])
    <2>1. ticket[q] \in Tickets
        BY <1>1, <1>4
    <2>2. CASE Evaluate(p) \/ Run(p) \/ CollectRefused(p) \/ Wait(p)
        BY <2>2 DEF Evaluate, Run, CollectRefused, Wait, BeginWait, CheckDeadline, Wake,
                    queue, RowAdvances
    <2>3. CASE SubmitAnswered(p) \/ SubmitFails(p)
        BY <1>4, <2>1, <2>3 DEF SubmitAnswered, SubmitFails, Opened, RowAdvances
    <2>4. CASE CollectGranted(p) \/ CollectLost(p)
      <3>1. ticket[p] \in Tickets
          BY <2>4 DEF CollectGranted, CollectLost, Stages, Waiting
      <3> QED BY <2>1, <2>4, <3>1 DEF CollectGranted, CollectLost, Grants, Consumed, Row,
                      RowAdvances
    <2> QED BY <2>2, <2>3, <2>4 DEF Step
  <1> HIDE DEF IInv
  <1> QED BY <1>1, <1>2, <1>3, <1>4, OthersStayOnTime

\* A caller that takes a step stays on time itself.
LEMMA OwnStepTimely ==
    ASSUME IInv, NEW p \in Callers, OnTime(p), Step(p) \/ Wait(p)
    PROVE  OnTime(p)'
  <1>1. p \in Procs /\ p \notin Requests
      BY DEF Procs
  <1>2. /\ asked[p] \in Nat /\ deadline[p] \in Nat /\ now \in Nat
        /\ ticket[p] \in Tickets \cup {NoTicket}
        /\ pc[p] \in Waiting => ticket[p] \in Tickets
      BY <1>1 DEF IInv, TypeOK, Stages
  <1> USE <1>1, <1>2 DEF Goto
  <1>3. CASE Evaluate(p)
      BY <1>3 DEF Evaluate, OnTime, IInv, TypeOK, queue
  <1>4. CASE SubmitAnswered(p) \/ SubmitFails(p)
      BY <1>4 DEF SubmitAnswered, SubmitFails, Opened, Row, OnTime, IInv, TypeOK
  <1>5. CASE Run(p) \/ CollectGranted(p)
      BY <1>5 DEF Run, CollectGranted, Consumed, Row, OnTime, IInv, TypeOK, queue, Waiting
  <1>6. CASE CollectRefused(p)
    <2>1. /\ asked'[p] = now /\ ~missed'[p] /\ ticket'[p] = ticket[p] /\ call'[p] = call[p]
          /\ rows' = rows /\ now' = now
        BY <1>6 DEF CollectRefused, IInv, TypeOK, queue
    <2>2. rows[ticket[p]].status \notin {"approved", "free"} /\ ticket[p] \in Tickets
        BY <1>6 DEF CollectRefused, Grants, OnTime, Waiting
    <2>3. pc'[p] = "deadline" \/ (pc'[p] = "refused" /\ Terminal(ticket[p]))
        BY <1>6 DEF CollectRefused, AfterRefusal, IInv, TypeOK
    <2> QED BY <2>1, <2>2, <2>3 DEF OnTime, Terminal
  <1>7. CASE CollectLost(p)
    <2>1. /\ asked'[p] = now /\ missed'[p] /\ ticket'[p] = ticket[p] /\ call'[p] = call[p]
          /\ now' = now /\ pc'[p] = "deadline"
        BY <1>7 DEF CollectLost, IInv, TypeOK
    <2>2. ticket[p] \in Tickets
        BY <1>7 DEF CollectLost, Waiting
    <2>3. rows'[ticket[p]].status # "free" /\ rows'[ticket[p]].call = rows[ticket[p]].call
        BY <1>7, <2>2 DEF CollectLost, Consumed, Row, OnTime, IInv, TypeOK
    <2> QED BY <2>1, <2>2, <2>3 DEF OnTime
  <1>8. CASE BeginWait(p) \/ Wake(p)
      BY <1>8 DEF BeginWait, Wake, OnTime, IInv, TypeOK, queue
  <1>9. CASE CheckDeadline(p)
    <2>1. /\ ticket'[p] = ticket[p] /\ call'[p] = call[p] /\ deadline'[p] = deadline[p]
          /\ asked'[p] = asked[p] /\ rows' = rows /\ now' = now /\ pc[p] = "deadline"
        BY <1>9 DEF CheckDeadline, queue
    <2>2. ~missed'[p] => ~missed[p] /\ now = asked[p]
      <3>1. missed'[p] = (missed[p] \/ now # asked[p])
          BY <1>9 DEF CheckDeadline, IInv, TypeOK
      <3> QED BY <3>1
    <2>3. pc'[p] = "sleep" \/ (pc'[p] = "refused" /\ now >= deadline[p])
        BY <1>9 DEF CheckDeadline, IInv, TypeOK
    <2>4. ticket[p] \in Tickets /\ rows[ticket[p]].approved_at \in Nat
        BY <2>1 DEF Waiting, IInv, TypeOK
    <2> QED BY <2>1, <2>2, <2>3, <2>4 DEF OnTime, Terminal
  <1> QED BY <1>3, <1>4, <1>5, <1>6, <1>7, <1>8, <1>9 DEF Step, Wait

\* Every step leaves every caller on time.
LEMMA StepTimely == IInv /\ Timely /\ [Next]_vars => Timely'
  <1> SUFFICES ASSUME IInv, Timely, [Next]_vars PROVE Timely'
      OBVIOUS
  <1>1. ASSUME NEW p \in Procs, Step(p) \/ (p \in Callers /\ Wait(p)) PROVE Timely'
    <2>1. ASSUME NEW q \in Callers PROVE OnTime(q)'
        BY <1>1, OthersTimely, OwnStepTimely DEF Timely
    <2> QED BY <2>1 DEF Timely
  <1>2. CASE UNCHANGED vars
      BY <1>2 DEF vars, queue, procs, Timely, OnTime, Terminal
  <1>3. Callers \subseteq Procs
      BY DEF Procs
  <1> QED BY <1>1, <1>2, <1>3, EnvironmentTimely DEF Next

\* A caller that gives up has not overlooked an approval that was there by its
\* deadline, however the polls, the human and the other callers interleave
\* (wait_for_approval cuts its last sleep short and polls once more).
THEOREM WaitsOverlookNothing == Spec => []NoApprovalOverlooked
  <1>1. IInv /\ Timely => NoApprovalOverlooked
    <2> SUFFICES ASSUME IInv, Timely, NEW p \in Callers,
                        pc[p] = "refused", ticket[p] # NoTicket, ~missed[p],
                        rows[ticket[p]].status = "approved"
                 PROVE  ~(rows[ticket[p]].approved_at < deadline[p])
        BY DEF NoApprovalOverlooked
    <2>1. p \in Procs
        BY DEF Procs
    <2>2. deadline[p] \in Nat /\ rows[ticket[p]].approved_at \in Nat
        BY <2>1 DEF IInv, TypeOK
    <2>3. rows[ticket[p]].approved_at >= deadline[p]
        BY DEF Timely, OnTime
    <2> QED BY <2>2, <2>3
  <1>2. Spec => []Timely
      BY InitTimely, StepTimely, Invariance, PTL DEF Spec
  <1> QED BY <1>1, <1>2, Invariance, PTL
================================================================================
