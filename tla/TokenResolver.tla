---------------------------- MODULE TokenResolver ----------------------------
(***************************************************************************)
(* Tokens that only their authorization server can read (token_identity.py):*)
(* BackgroundOpaqueTokenResolver keeps what its one worker thread found out, *)
(* and the threads of the request path ask it for more and go on without an *)
(* answer (JwtIdentityExtractor.extract).                                   *)
(***************************************************************************)
EXTENDS Naturals, Sequences

CONSTANTS
    Opaque,     \* tokens that are not JWTs
    Readers,    \* threads of the request path
    MaxQueue,   \* maxsize of the queue
    Idle        \* no token

VARIABLES
    cache,      \* per token, "none", or its claims: "fresh" within ttl_s, then "expired"
    in_flight,  \* _in_flight
    queue,      \* _queue
    adding,     \* per reader, the token between request_resolution's lock and
                \* put_nowait
    worker      \* [at, token]: where _run is

resolverVars == <<cache, in_flight, queue, adding, worker>>

ResolverInit ==
    /\ cache = [k \in Opaque |-> "none"]
    /\ in_flight = {} /\ queue = <<>>
    /\ adding = [r \in Readers |-> Idle]
    /\ worker = [at |-> "get", token |-> Idle]

\* get_cached: an entry older than ttl_s is as good as none.
GetCached(k) == cache[k] = "fresh"

\* extract of a token that is not in the cache asks for it, up to the end of
\* request_resolution's first lock; a token that is in flight is not asked for.
Extract(r, k) ==
    /\ adding[r] = Idle
    /\ ~GetCached(k) /\ k \notin in_flight
    /\ in_flight' = in_flight \cup {k}
    /\ adding' = [adding EXCEPT ![r] = k]
    /\ UNCHANGED <<cache, queue, worker>>

\* A full queue drops the request, and the token is free to be asked for again.
AfterQueueFull(r) == in_flight \ {adding[r]}

\* put_nowait, and what happens when the queue is full.
Enqueue(r) ==
    /\ adding[r] # Idle
    /\ IF Len(queue) < MaxQueue
       THEN queue' = Append(queue, adding[r]) /\ UNCHANGED in_flight
       ELSE in_flight' = AfterQueueFull(r) /\ UNCHANGED queue
    /\ adding' = [adding EXCEPT ![r] = Idle]
    /\ UNCHANGED <<cache, worker>>

\* _run: get, introspect and keep what was found, release.
Take ==
    /\ worker.at = "get" /\ queue # <<>>
    /\ worker' = [at |-> "introspect", token |-> Head(queue)]
    /\ queue' = Tail(queue)
    /\ UNCHANGED <<cache, in_flight, adding>>

\* Fault: the worker goes on without the token's release when there are no
\* claims.
AfterIntrospectionUnlessEmpty(claims) ==
    IF claims THEN [worker EXCEPT !.at = "release"] ELSE [at |-> "get", token |-> Idle]
\* The finally clause comes next, whatever introspect returned or raised.
AfterIntrospection(claims) == [worker EXCEPT !.at = "release"]

\* The introspector answers with claims, or with none: the token is inactive,
\* the endpoint does not answer in time, or the introspector raises.
Introspect(claims) ==
    /\ worker.at = "introspect"
    /\ cache' = IF claims THEN [cache EXCEPT ![worker.token] = "fresh"] ELSE cache
    /\ worker' = AfterIntrospection(claims)
    /\ UNCHANGED <<in_flight, queue, adding>>

Release ==
    /\ worker.at = "release"
    /\ in_flight' = in_flight \ {worker.token}
    /\ worker' = [at |-> "get", token |-> Idle]
    /\ UNCHANGED <<cache, queue, adding>>

\* ttl_s passes.
Expire(k) ==
    /\ cache[k] = "fresh"
    /\ cache' = [cache EXCEPT ![k] = "expired"]
    /\ UNCHANGED <<in_flight, queue, adding, worker>>

WorkerStep == Take \/ Release \/ \E claims \in BOOLEAN : Introspect(claims)
ReaderStep(r) == Enqueue(r) \/ \E k \in Opaque : Extract(r, k)
ResolverNext == WorkerStep \/ (\E r \in Readers : ReaderStep(r)) \/ \E k \in Opaque : Expire(k)

-----------------------------------------------------------------------------
\* A token in flight does not stay there, whatever the queue's length and the
\* introspector's answers: it can be asked for again.
TokensSettle == \A k \in Opaque : k \in in_flight ~> k \notin in_flight
=============================================================================
