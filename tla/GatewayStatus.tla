---------------------------- MODULE GatewayStatus ----------------------------
(***************************************************************************)
(* gateway status.py: the table of identities that connected, least         *)
(* recently seen first and at most MaxIdentities long, the refusals counted *)
(* by code, and the events, all of which every heartbeat reports.  Request  *)
(* threads and the reload thread write under one lock, so a call is a step. *)
(***************************************************************************)
EXTENDS Naturals, Sequences, FiniteSets

CONSTANTS
    Identities,     \* pairs <<agent, method>>
    MaxIdentities, MaxEvents,
    RefusalCodes    \* the codes a credential can be refused with

ASSUME StatusAssumption == MaxIdentities \in Nat /\ MaxEvents \in Nat \ {0}

VARIABLES
    connected,  \* _seen, in its order: [identity, requests, denied, held]
    refusals,   \* _refusals
    events,     \* _events
    arrivals    \* auxiliary: the identity of every request, in order

statusVars == <<connected, refusals, events, arrivals>>

Effects == {"allow", "deny", "review"}
EventTypes == {"gateway_started", "tls_reloaded", "tls_reload_failed"}
Entry == [identity: Identities, requests: Nat, denied: Nat, held: Nat]

StatusTypeOK ==
    /\ connected \in Seq(Entry)
    /\ refusals \in [RefusalCodes -> Nat]
    /\ events \in Seq(EventTypes) /\ Len(events) <= MaxEvents
    /\ arrivals \in Seq(Identities)

StatusInit ==
    /\ connected = <<>>
    /\ refusals = [c \in RefusalCodes |-> 0]
    /\ events = <<"gateway_started">>
    /\ arrivals = <<>>

Counted(e, effect) ==
    [e EXCEPT !.requests = @ + 1,
              !.denied = IF effect = "deny" THEN @ + 1 ELSE @,
              !.held = IF effect = "review" THEN @ + 1 ELSE @]

\* Where the entry of an identity is, if it has one.
Place(id) == {i \in 1..Len(connected) : connected[i].identity = id}

\* That entry, or a new one.
EntryOf(id) ==
    IF Place(id) = {} THEN [identity |-> id, requests |-> 0, denied |-> 0, held |-> 0]
    ELSE connected[CHOOSE i \in Place(id) : TRUE]

\* The table without it.
Popped(id) ==
    IF Place(id) = {} THEN connected
    ELSE LET p == CHOOSE i \in Place(id) : TRUE
         IN  [i \in 1..(Len(connected) - 1) |-> connected[IF i < p THEN i ELSE i + 1]]

\* Fault: an entry that exists keeps its place.
InPlace(id, e) ==
    IF Place(id) = {} THEN Append(connected, e)
    ELSE [i \in 1..Len(connected) |-> IF i \in Place(id) THEN e ELSE connected[i]]
\* The most recently used goes last.
UsedLast(id, e) == Append(Popped(id), e)

\* The least recently seen leave first.
Capped(s) == IF Len(s) > MaxIdentities THEN SubSeq(s, Len(s) - MaxIdentities + 1, Len(s)) ELSE s

RecordRequest(id, effect) ==
    /\ connected' = Capped(UsedLast(id, Counted(EntryOf(id), effect)))
    /\ arrivals' = Append(arrivals, id)
    /\ UNCHANGED <<refusals, events>>

RecordIdentityRefusal(code) ==
    /\ refusals' = [refusals EXCEPT ![code] = @ + 1]
    /\ UNCHANGED <<connected, events, arrivals>>

\* Fault: a plain list of events.
AddEventForever(type) ==
    /\ events' = Append(events, type)
    /\ UNCHANGED <<connected, refusals, arrivals>>
\* A deque of bounded length drops from its other end.
AddEvent(type) ==
    /\ events' = LET s == Append(events, type)
                 IN IF Len(s) > MaxEvents THEN Tail(s) ELSE s
    /\ UNCHANGED <<connected, refusals, arrivals>>

\* main(): the report starts empty with the process, and with its first event.
StatusRestart ==
    /\ connected' = <<>>
    /\ refusals' = [c \in RefusalCodes |-> 0]
    /\ events' = <<"gateway_started">>
    /\ arrivals' = <<>>

-----------------------------------------------------------------------------
\* The requests of an identity among the arrivals from i on.
RequestsFrom(id, i) == {j \in i..Len(arrivals) : arrivals[j] = id}
LastRequest(id) == CHOOSE j \in RequestsFrom(id, 1) :
                        \A k \in RequestsFrom(id, 1) : k <= j
\* How many identities made a request after arrival j.
SeenAfter(j) == {arrivals[k] : k \in (j + 1)..Len(arrivals)}

\* What a heartbeat reports as connected is exactly the MaxIdentities
\* identities that made the latest requests, so that a flood of made-up agent
\* ids evicts the oldest and nothing else; and as long as no more than that
\* have connected, every request of each is in its counts.
ReportsTheLatest ==
    /\ \A id \in Identities :
        (\E i \in 1..Len(connected) : connected[i].identity = id) <=>
            /\ RequestsFrom(id, 1) # {}
            /\ Cardinality(SeenAfter(LastRequest(id)) \ {id}) < MaxIdentities
    /\ Cardinality(SeenAfter(0)) <= MaxIdentities =>
        \A i \in 1..Len(connected) :
            connected[i].requests = Cardinality(RequestsFrom(connected[i].identity, 1))
=============================================================================
