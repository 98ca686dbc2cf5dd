--------------------------- MODULE GatewayIdentity ---------------------------
(***************************************************************************)
(* Who a request is from, at the gateway: identity/jwks.py (the cached key  *)
(* set of the identity provider, refreshed on demand under one lock and     *)
(* not more often than every MinRefresh), identity/bindings.py (which agent *)
(* a verified identity is) and identity/resolver.py (certificate, token or  *)
(* shared secret into one agent, or a refusal).  get_key holds its lock     *)
(* over the fetch and dates what it fetched by the time before it, so one   *)
(* call is one step.                                                        *)
(***************************************************************************)
EXTENDS Clock

CONSTANTS
    Kids,               \* key ids of the provider's signing keys
    Agents, Anonymous,  \* agent ids, and the one nobody can be bound to
    Bindings,           \* records [kind, subject, agent] of the table
    JwksTTL, MaxStale, MinRefresh,
    None

ASSUME IdentityAssumption ==
    /\ JwksTTL \in Nat /\ MaxStale \in Nat /\ MinRefresh \in Nat
    /\ Anonymous \notin Agents
    /\ None \notin Nat \cup Agents
    /\ \A b \in Bindings : b = [kind |-> b.kind, subject |-> b.subject, agent |-> b.agent]

\* JwksKeyProvider's defaults (30 s, an hour, a day), which nothing overrides.
ASSUME RefreshAssumption == MinRefresh <= JwksTTL /\ JwksTTL <= MaxStale

VARIABLES
    published,      \* the keys the provider publishes now
    keys,           \* _keys
    fetched_at,     \* _fetched_at, of the last successful fetch
    attempted_at,   \* _attempted_at, of the last attempt
    lastPublished,  \* auxiliary: when each key was last seen published
    publishedSince, \* auxiliary: since when it has been, if it is
    attemptFailed,  \* auxiliary: the last attempt failed
    verdict         \* auxiliary: the last answer of get_key [kid, at, trusted]

jwksVars == <<published, keys, fetched_at, attempted_at,
              lastPublished, publishedSince, attemptFailed, verdict>>

Times == Nat \cup {None}

JwksTypeOK ==
    /\ published \in SUBSET Kids /\ keys \in SUBSET Kids
    /\ fetched_at \in Times /\ attempted_at \in Times
    /\ lastPublished \in [Kids -> Times] /\ publishedSince \in [Kids -> Times]
    /\ attemptFailed \in BOOLEAN
    /\ verdict \in [kid: Kids, at: Nat, trusted: BOOLEAN] \cup {None}

JwksInit(first) ==
    /\ published = first /\ keys = {}
    /\ fetched_at = None /\ attempted_at = None
    /\ lastPublished = [k \in Kids |-> IF k \in first THEN now ELSE None]
    /\ publishedSince = lastPublished
    /\ attemptFailed = FALSE
    /\ verdict = None

\* What the auxiliary times become when the clock reads t and s is published.
SeenPublished(s, t) ==
    /\ lastPublished' = [k \in Kids |-> IF k \in s THEN t ELSE lastPublished[k]]
    /\ publishedSince' = [k \in Kids |->
            IF k \notin s THEN None
            ELSE IF publishedSince[k] = None THEN t ELSE publishedSince[k]]

\* The provider rotates its keys.
RotateKeys(s) ==
    /\ s # published
    /\ published' = s
    /\ SeenPublished(s, now)
    /\ UNCHANGED <<keys, fetched_at, attempted_at, attemptFailed, verdict>>

\* The clock moves on under the keys that are published.
JwksPass ==
    /\ SeenPublished(published, now + 1)
    /\ UNCHANGED <<published, keys, fetched_at, attempted_at, attemptFailed, verdict>>

-----------------------------------------------------------------------------
Recently(t, interval) == t # None /\ now - t < interval

\* Fault: a miss alone is no reason to look for a rotated key.
NeedsRefreshByAge(kid) ==
    /\ ~Recently(attempted_at, MinRefresh)
    /\ \/ fetched_at = None
       \/ now - fetched_at > JwksTTL
\* The cache is consulted anew when it is empty, old or does not know the key,
\* unless it was a moment ago.
NeedsRefresh(kid) ==
    /\ ~Recently(attempted_at, MinRefresh)
    /\ \/ fetched_at = None
       \/ now - fetched_at > JwksTTL
       \/ kid \notin keys

\* Fault: what is cached is trusted however old it is.
StillTrusted(at) == at # None
\* Keys may be used for MaxStale after the last successful fetch.
Trusted(at) == at # None /\ now - at <= MaxStale

\* get_key: refresh if needed, drop keys that are too old, look the key up.
\* answered says whether the provider answers, if it is asked.
GetKey(kid, answered) ==
    LET asks    == NeedsRefresh(kid)
        fresh   == asks /\ answered
        at      == IF fresh THEN now ELSE fetched_at
        cached  == IF fresh THEN published ELSE keys
    IN
    /\ attempted_at' = IF asks THEN now ELSE attempted_at
    /\ attemptFailed' = IF asks THEN ~answered ELSE attemptFailed
    /\ fetched_at' = at
    /\ keys' = IF Trusted(at) THEN cached ELSE {}
    /\ verdict' = [kid |-> kid, at |-> now, trusted |-> kid \in keys']
    /\ UNCHANGED <<published, lastPublished, publishedSince>>

\* The process restarts with an empty cache.
JwksRestart ==
    /\ keys' = {} /\ fetched_at' = None /\ attempted_at' = None
    /\ attemptFailed' = FALSE /\ verdict' = None
    /\ UNCHANGED <<published, lastPublished, publishedSince>>

-----------------------------------------------------------------------------
\* BindingTable lookups: the one agent a subject of a kind is bound to.
AgentFor(kind, subject) ==
    LET bound == {b \in Bindings : b.kind = kind /\ b.subject = subject}
    IN IF bound = {} THEN None ELSE (CHOOSE b \in bound : TRUE).agent

\* _add refuses the anonymous agent and two agents for one identity.
BindingsLoad ==
    /\ \A b \in Bindings : b.agent \in Agents
    /\ \A b1, b2 \in Bindings :
            b1.kind = b2.kind /\ b1.subject = b2.subject => b1.agent = b2.agent

Refusal(status, code) == [agent |-> None, method |-> code, status |-> status]
Verified(agent, method) == [agent |-> agent, method |-> method, status |-> 200]
NoIdentity == Refusal(200, "path")
Refused(outcome) == outcome.status # 200

\* A certificate the handshake accepted: its one common name, if it has one.
FromCert(cert) ==
    IF cert.cn = None THEN Refusal(401, "invalid_client_certificate")
    ELSE IF AgentFor("mtls", cert.cn) = None THEN Refusal(403, "identity_not_bound")
    ELSE Verified(AgentFor("mtls", cert.cn), "mtls")

\* A token whose key is trusted, or not; one with a foreign issuer, audience
\* or date never verifies.  One of an algorithm that is not accepted is
\* refused before any key is asked for, like one without a key id.
FromToken(token, trusted) ==
    IF ~(trusted /\ token.claims_ok) THEN Refusal(401, "invalid_token")
    ELSE IF AgentFor("jwt", token.subject) = None THEN Refusal(403, "identity_not_bound")
    ELSE Verified(AgentFor("jwt", token.subject), "jwt")

\* A secret: the hash is the lookup key.
FromSecret(token) ==
    IF AgentFor("secret", token.subject) = None THEN Refusal(401, "invalid_secret")
    ELSE Verified(AgentFor("secret", token.subject), "secret")

\* By shape: a JWT is a token where tokens are enabled, everything else is a
\* secret where secrets are.
ReadAsToken(methods, token) ==
    "jwt" \in methods /\ (token.shape = "jwt" \/ "secret" \notin methods)

FromHeader(methods, token, trusted) ==
    IF ReadAsToken(methods, token) THEN FromToken(token, trusted) ELSE FromSecret(token)

\* Fault: a header that does not verify leaves the certificate to speak.
CertDespite(outcome, certified) == certified
\* A credential that was presented and refused is a refusal, whatever else.
RefusalOf(outcome, certified) == outcome

\* resolve(): every credential presented for an enabled method must verify,
\* and they must agree.
Resolve(methods, cert, token, trusted) ==
    LET certified == IF "mtls" \in methods /\ cert # None THEN FromCert(cert) ELSE NoIdentity
        headed    == IF token # None /\ methods \cap {"jwt", "secret"} # {}
                     THEN FromHeader(methods, token, trusted) ELSE NoIdentity
    IN IF Refused(certified) THEN certified
       ELSE IF Refused(headed) THEN RefusalOf(headed, certified)
       ELSE IF certified = NoIdentity THEN headed
       ELSE IF headed = NoIdentity THEN certified
       ELSE IF certified.agent # headed.agent THEN Refusal(403, "identity_conflict")
       ELSE Verified(headed.agent, IF headed.method = "jwt" THEN "mtls+jwt" ELSE "mtls+secret")

-----------------------------------------------------------------------------
\* A key is trusted only if the provider published it within the last
\* MaxStale: no outage makes the gateway trust a withdrawn key for longer,
\* and none makes it trust a key that was never published.
KeysAreFresh ==
    verdict # None /\ verdict.trusted =>
        /\ lastPublished[verdict.kid] # None
        /\ lastPublished[verdict.kid] + MaxStale >= verdict.at

\* A published key is refused only while the rate limit is in force after an
\* attempt that failed or that was made before the key was published: a
\* rotation or an outage is never felt for longer than that.
RefusalsAreExcused ==
    verdict # None /\ ~verdict.trusted /\ verdict.kid \in published
        /\ publishedSince[verdict.kid] <= verdict.at =>
        \/ publishedSince[verdict.kid] = verdict.at
        \/ /\ attempted_at # None
           /\ attemptFailed \/ publishedSince[verdict.kid] >= attempted_at
           /\ \/ attempted_at = verdict.at
              \/ verdict.at - attempted_at < MinRefresh
=============================================================================
