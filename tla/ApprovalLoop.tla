------------------------------ MODULE ApprovalLoop ------------------------------
(***************************************************************************)
(* The approval loop of docs/adr/0009: a call Cedar holds for review is    *)
(* denied on the spot, queued for a human, and let through at most once if *)
(* the human approves.  Two surfaces share the queue:                      *)
(*   callers   Governor.authorize_tool and wait_for_approval               *)
(*             (src/parapetai_agent/govern.py), one process per held call; *)
(*   requests  the gateway's proxy route and _resolve_review               *)
(*             (gateway/.../server/app.py), one process per HTTP request,  *)
(*             which may present the ticket of an earlier refusal.         *)
(* The queue and the human are external: modelled from what the SDK sends, *)
(* what it does with the answers and the contract its docstrings state.    *)
(* Every exchange with the queue may lose the request or the response.     *)
(***************************************************************************)
EXTENDS Integers, FiniteSets

CONSTANTS
    Callers, Requests,  \* the in-process and the gateway processes
    Calls,              \* exact calls: what a fingerprint identifies
    Tickets,            \* review ids the queue can hand out
    NoTicket,
    Timeout, Poll,      \* wait_for_approval's timeout and poll_interval
    MaxTime             \* bound on the clock

Procs == Callers \cup Requests

ASSUME ApprovalAssumption ==
    /\ Callers \cap Requests = {}
    /\ NoTicket \notin Tickets
    /\ Timeout \in Nat /\ Poll \in Nat \ {0} /\ MaxTime \in Nat

VARIABLES
    policy,     \* what Cedar decides for each call, as of the live bundle
    rows,       \* the approvals queue, by ticket
    now,        \* time.monotonic()
    pc, call, seen, ticket, via,    \* per process, see TypeOK
    deadline, wake, asked, missed

queue == <<policy, rows, now>>
procs == <<pc, call, seen, ticket, via, deadline, wake, asked, missed>>
vars  == <<queue, procs>>

Row(status, c, approved_at) == [status |-> status, call |-> c, approved_at |-> approved_at]
Never == MaxTime + 1        \* later than any deadline the bound lets pass

Init ==
    /\ policy \in [Calls -> {"review"}]
    /\ rows \in [Tickets -> {Row("free", c, Never) : c \in Calls}]
    /\ \A k, l \in Tickets : rows[k] = rows[l]
    /\ now = 0
    /\ pc = [p \in Procs |-> "start"]
    /\ call \in [Procs -> Calls]
    /\ seen = [p \in Procs |-> "none"]
    /\ ticket = [p \in Procs |-> NoTicket]
    /\ via = [p \in Procs |-> NoTicket]
    /\ deadline = [p \in Procs |-> 0]
    /\ wake = [p \in Procs |-> 0]
    /\ asked = [p \in Procs |-> 0]
    /\ missed = [p \in Procs |-> FALSE]

Goto(p, label) == pc' = [pc EXCEPT ![p] = label]

---------------------------------------------------------------------------
(* The queue, the human, the policy and the clock (external).              *)

PolicyChange ==
    /\ \E c \in Calls, d \in {"allow", "review", "deny"} : policy' = [policy EXCEPT ![c] = d]
    /\ UNCHANGED <<rows, now, procs>>

HumanDecides(k) ==
    /\ rows[k].status = "pending"
    /\ \/ rows' = [rows EXCEPT ![k] = Row("approved", rows[k].call, now)]
       \/ rows' = [rows EXCEPT ![k] = Row("denied", rows[k].call, Never)]
    /\ UNCHANGED <<policy, now, procs>>

Expires(k) ==
    /\ rows[k].status \in {"pending", "approved"}
    /\ rows' = [rows EXCEPT ![k] = Row("expired", rows[k].call, rows[k].approved_at)]
    /\ UNCHANGED <<policy, now, procs>>

Tick ==
    /\ now < MaxTime
    /\ now' = now + 1
    /\ UNCHANGED <<policy, rows, procs>>

\* submit_review: the queue opens a pending row bound to the fingerprint.
Opened(k, c) ==
    /\ rows[k].status = "free"
    /\ rows' = [rows EXCEPT ![k] = Row("pending", c, Never)]

\* collect_review: the queue consumes an approved row for the same
\* fingerprint, atomically, and answers allowed; it refuses any other.
Grants(k, c) == rows[k].status = "approved" /\ rows[k].call = c

Consumed(k) ==
    rows' = [rows EXCEPT ![k] = Row("consumed", rows[k].call, rows[k].approved_at)]

\* A collect that got an answer: the statuses that end a wait.
Terminal(k) == rows[k].status \in {"denied", "expired", "consumed"}

---------------------------------------------------------------------------
(* Both surfaces: Cedar first.                                             *)

\* The gateway client sends a request, with a ticket that exists or none.
Present(r) ==
    /\ pc[r] = "start" /\ ticket[r] = NoTicket
    /\ \E k \in Tickets : rows[k].status # "free" /\ ticket' = [ticket EXCEPT ![r] = k]
    /\ UNCHANGED <<queue, pc, call, seen, via, deadline, wake, asked, missed>>

\* Fault: a presented ticket is collected whatever Cedar answers now.
EvaluateTicketFirst(p) ==
    /\ pc[p] = "start"
    /\ seen' = [seen EXCEPT ![p] = policy[call[p]]]
    /\ Goto(p, IF ticket[p] # NoTicket THEN "collect"
               ELSE IF policy[call[p]] = "allow" THEN "ran"
               ELSE IF policy[call[p]] = "deny" THEN "refused" ELSE "submit")
    /\ UNCHANGED <<queue, call, ticket, via, deadline, wake, asked, missed>>

Evaluate(p) ==
    /\ pc[p] = "start"
    /\ seen' = [seen EXCEPT ![p] = policy[call[p]]]
    /\ Goto(p, CASE policy[call[p]] = "allow"  -> "ran"
                 [] policy[call[p]] = "deny"   -> "refused"
                 [] policy[call[p]] = "review" ->
                        IF ticket[p] = NoTicket THEN "submit" ELSE "collect")
    /\ UNCHANGED <<queue, call, ticket, via, deadline, wake, asked, missed>>

\* request_approval, and the second half of _resolve_review.  A submit that
\* fails in either direction leaves the caller without a ticket; if only the
\* response was lost the row is there and nobody holds its ticket.
SubmitAnswered(p) ==
    /\ pc[p] = "submit"
    /\ \E k \in Tickets : Opened(k, call[p]) /\ ticket' = [ticket EXCEPT ![p] = k]
    /\ Goto(p, IF p \in Callers THEN "held" ELSE "refused")
    /\ UNCHANGED <<policy, now, call, seen, via, deadline, wake, asked, missed>>

SubmitFails(p) ==
    /\ pc[p] = "submit"
    /\ UNCHANGED rows \/ \E k \in Tickets : Opened(k, call[p])
    /\ ticket' = [ticket EXCEPT ![p] = NoTicket]
    /\ Goto(p, IF p \in Callers THEN "held" ELSE "refused")
    /\ UNCHANGED <<policy, now, call, seen, via, deadline, wake, asked, missed>>

\* The held call runs, or the request is forwarded, on the grant just
\* collected.
Run(p) ==
    /\ pc[p] = "granted"
    /\ Goto(p, "ran")
    /\ UNCHANGED <<queue, call, seen, ticket, via, deadline, wake, asked, missed>>

---------------------------------------------------------------------------
(* The in-process caller: GovernanceReviewRequired, wait_for_approval.     *)

BeginWait(p) ==
    /\ pc[p] = "held"
    /\ IF ticket[p] = NoTicket
       THEN Goto(p, "refused") /\ UNCHANGED deadline
       ELSE Goto(p, "collect") /\ deadline' = [deadline EXCEPT ![p] = now + Timeout]
    /\ UNCHANGED <<queue, call, seen, ticket, via, wake, asked, missed>>

\* Fault: a grant that is already spent is taken for one.
CollectGrantedTwice(p) ==
    /\ pc[p] = "collect"
    /\ rows[ticket[p]].status \in {"approved", "consumed"}
    /\ rows[ticket[p]].call = call[p]
    /\ Consumed(ticket[p])
    /\ via' = [via EXCEPT ![p] = ticket[p]]
    /\ Goto(p, "granted")
    /\ UNCHANGED <<policy, now, call, seen, ticket, deadline, wake, asked, missed>>

\* allowed is true only for the grant this very collect consumed.
CollectGranted(p) ==
    /\ pc[p] = "collect"
    /\ Grants(ticket[p], call[p])
    /\ Consumed(ticket[p])
    /\ via' = [via EXCEPT ![p] = ticket[p]]
    /\ Goto(p, "granted")
    /\ UNCHANGED <<policy, now, call, seen, ticket, deadline, wake, asked, missed>>

\* A terminal status ends the wait if the queue answers with it; an error
\* response (409, 404) reads as no answer and the wait goes on.
AfterRefusal(p) ==
    IF p \in Requests THEN {"submit"}
    ELSE IF Terminal(ticket[p]) THEN {"refused", "deadline"}
    ELSE {"deadline"}

CollectRefused(p) ==
    /\ pc[p] = "collect"
    /\ ~Grants(ticket[p], call[p])
    /\ asked' = [asked EXCEPT ![p] = now]
    /\ missed' = [missed EXCEPT ![p] = FALSE]
    /\ \E label \in AfterRefusal(p) : Goto(p, label)
    /\ UNCHANGED <<queue, call, seen, ticket, via, deadline, wake>>

\* No answer: the request was lost, or the response to a collect that the
\* queue has already granted.
CollectLost(p) ==
    /\ pc[p] = "collect"
    /\ \/ UNCHANGED rows
       \/ Grants(ticket[p], call[p]) /\ Consumed(ticket[p])
    /\ asked' = [asked EXCEPT ![p] = now]
    /\ missed' = [missed EXCEPT ![p] = TRUE]
    /\ Goto(p, IF p \in Requests THEN "submit" ELSE "deadline")
    /\ UNCHANGED <<policy, now, call, seen, ticket, via, deadline, wake>>

\* Fault: a duration where a time is meant.
Difference(a, b) == b - a

Earlier(a, b) == IF a < b THEN a ELSE b

\* Fault: gives up when the next poll would come after the deadline.
CheckDeadlineEarly(p) ==
    /\ pc[p] = "deadline"
    /\ IF now + Poll >= deadline[p]
       THEN Goto(p, "refused") /\ UNCHANGED wake
       ELSE wake' = [wake EXCEPT ![p] = now + Poll] /\ Goto(p, "sleep")
    /\ missed' = [missed EXCEPT ![p] = @ \/ now # asked[p]]
    /\ UNCHANGED <<queue, call, seen, ticket, via, deadline, asked>>

\* Fault: only an answer ends the wait.
CheckDeadlineNever(p) ==
    /\ pc[p] = "deadline"
    /\ wake' = [wake EXCEPT ![p] = now + Poll] /\ Goto(p, "sleep")
    /\ UNCHANGED <<queue, call, seen, ticket, via, deadline, asked, missed>>

CheckDeadline(p) ==
    /\ pc[p] = "deadline"
    /\ IF now >= deadline[p]
       THEN Goto(p, "refused") /\ UNCHANGED wake
       ELSE /\ wake' = [wake EXCEPT ![p] = Earlier(now + Poll, deadline[p])]
            /\ Goto(p, "sleep")
    /\ missed' = [missed EXCEPT ![p] = @ \/ now # asked[p]]
    /\ UNCHANGED <<queue, call, seen, ticket, via, deadline, asked>>

Wake(p) ==
    /\ pc[p] = "sleep" /\ now >= wake[p]
    /\ Goto(p, "collect")
    /\ UNCHANGED <<queue, call, seen, ticket, via, deadline, wake, asked, missed>>

Step(p) ==
    \/ Evaluate(p) \/ SubmitAnswered(p) \/ SubmitFails(p) \/ Run(p)
    \/ CollectGranted(p) \/ CollectRefused(p) \/ CollectLost(p)

Wait(p) == BeginWait(p) \/ CheckDeadline(p) \/ Wake(p)

Next ==
    \/ PolicyChange \/ Tick
    \/ \E k \in Tickets : HumanDecides(k) \/ Expires(k)
    \/ \E r \in Requests : Present(r)
    \/ \E p \in Procs : Step(p)
    \/ \E p \in Callers : Wait(p)

\* Time passes and every process keeps running its straight-line code; each
\* exchange with the queue ends, by an answer or by its timeout.
Fairness == WF_vars(Tick) /\ \A p \in Procs : WF_vars(Step(p) \/ (p \in Callers /\ Wait(p)))

Spec     == Init /\ [][Next]_vars
FairSpec == Spec /\ Fairness

---------------------------------------------------------------------------
(* Properties.                                                             *)

Statuses == {"free", "pending", "approved", "denied", "expired", "consumed"}
Labels == {"start", "submit", "held", "collect", "deadline", "sleep", "granted", "ran",
           "refused"}

TypeOK ==
    /\ policy \in [Calls -> {"allow", "review", "deny"}]
    /\ rows \in [Tickets -> [status: Statuses, call: Calls, approved_at: Nat]]
    /\ now \in Nat
    /\ pc \in [Procs -> Labels]
    /\ call \in [Procs -> Calls]                       \* the call to be made
    /\ seen \in [Procs -> {"none", "allow", "review", "deny"}]  \* Cedar's answer
    /\ ticket \in [Procs -> Tickets \cup {NoTicket}]   \* review_id held or presented
    /\ via \in [Procs -> Tickets \cup {NoTicket}]      \* the grant it collected
    /\ deadline \in [Procs -> Nat] /\ wake \in [Procs -> Nat]
    /\ asked \in [Procs -> Nat]                        \* when the queue saw the last poll
    /\ missed \in [Procs -> BOOLEAN]   \* the last poll went unanswered, or its answer was slow

\* One approval lets at most one call through, whatever is retried, presented
\* twice or collected concurrently (govern.py wait_for_approval: "the caller
\* may proceed exactly once"; app.py _resolve_review).
AtMostOncePerGrant ==
    \A p, q \in Procs : via[p] # NoTicket /\ via[p] = via[q] => p = q

\* A call that ran was allowed by policy, or was held for review and let
\* through by a human's approval of that very call: no transfer to another
\* call, and no grant ever unblocks a plain deny (app.py proxy, ADR 0009).
RanWithAuthority ==
    \A p \in Procs : pc[p] \in {"granted", "ran"} =>
        \/ seen[p] = "allow" /\ via[p] = NoTicket
        \/ /\ seen[p] = "review" /\ via[p] # NoTicket
           /\ rows[via[p]].call = call[p]
           /\ rows[via[p]].approved_at # Never

\* A wait that gives up has not overlooked an approval given before its
\* deadline: the sleep is cut short so that one more poll comes at the
\* deadline, and only then is time up (govern.py wait_for_approval).  The
\* exception is a last poll whose answer was lost, or was under way while
\* the clock moved: an approval that arrives during that exchange is missed.
NoApprovalOverlooked ==
    \A p \in Callers :
        (pc[p] = "refused" /\ ticket[p] # NoTicket /\ ~missed[p]) =>
            ~(/\ rows[ticket[p]].status = "approved"
              /\ rows[ticket[p]].approved_at < deadline[p])

\* A wait always ends: with the grant, or by its deadline, even if nobody
\* answers and the queue cannot be reached.
WaitEnds ==
    \A p \in Callers :
        (pc[p] = "collect" /\ deadline[p] <= MaxTime) ~> (pc[p] \in {"ran", "refused"})
================================================================================
