SPECIFICATION FairSpec
CONSTANTS
    Callers = {c1}
    Requests = {r1}
    Calls = {call_a, call_b}
    Tickets = {k1}
    NoTicket = no_ticket
    Timeout = 2
    Poll = 3
    MaxTime = 2
INVARIANTS
    TypeOK
    AtMostOncePerGrant
    RanWithAuthority
    NoApprovalOverlooked
PROPERTIES
    WaitEnds
CHECK_DEADLOCK FALSE
