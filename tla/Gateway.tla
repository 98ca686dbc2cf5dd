------------------------------- MODULE Gateway -------------------------------
(***************************************************************************)
(* The gateway (gateway server/app.py, server/main.py): the life of a       *)
(* request in proxy(), over the listener and its certificates (TlsReload),  *)
(* the identity of the caller (GatewayIdentity), the MCP authorization      *)
(* server (McpOAuth) and the status report (GatewayStatus).  A request is   *)
(* suspended while its identity is resolved in the thread pool, while its   *)
(* body is read, while the approvals queue answers and while the upstream   *)
(* does; in between certificates and keys rotate, tokens expire and the     *)
(* process may die.  Everything between two suspensions is one step.        *)
(* What settings allow is chosen once: a gateway without mTLS has no TLS    *)
(* material, one without an identity provider no keys, and the routes of    *)
(* McpOAuth exist only in oauth2 mode.                                      *)
(***************************************************************************)
EXTENDS McpOAuth, TlsReload, GatewayIdentity, GatewayStatus

CONSTANTS
    Settings,       \* the configurations considered
    Traffic,        \* per configuration, the requests clients send
    Bounds          \* per configuration, how many requests, restarts and
                    \* rotations of the provider's keys, and until what time

VARIABLES
    settings,   \* this process's configuration; never changes
    req,        \* the request being served, None between requests
    sent, restarts, rotations

counters == <<sent, restarts, rotations>>
reqVars == <<settings, req, counters>>
vars == <<now, oauthVars, tlsVars, jwksVars, statusVars, reqVars>>

Bound == Bounds[settings.name]

\* Where a request can be suspended, and what it can be answered with.
Stages == {"identify", "read", "review", "forward", "sending"}
Statuses == {200, 400, 401, 403, 413, 502}

\* The ways a request can be identified.
Methods == {"path", "mtls", "jwt", "secret", "mtls+jwt", "mtls+secret"}

GatewayTypeOK ==
    /\ OAuthTypeOK /\ TlsTypeOK /\ JwksTypeOK /\ StatusTypeOK
    /\ settings \in Settings
    /\ req # None => /\ req.stage \in Stages
                     /\ req.agent \in Agents \cup {Anonymous}
                     /\ req.method \in Methods
                     /\ req.effect \in Effects \cup {None}
    /\ sent \in 0 .. Bound.requests
    /\ restarts \in 0 .. Bound.restarts
    /\ rotations \in 0 .. Bound.rotations

\* create_app and build_resolver refuse to start half-configured.
Configured(s) ==
    /\ s.require => s.methods # {}
    /\ s.methods # {} => BindingsLoad
    /\ s.oauth => s.header # "authorization"

ASSUME NoneAssumption == None \notin Effects
ASSUME SettingsAssumption == \A s \in Settings : Configured(s)

\* A URL names an agent or nobody; the report knows every identity.
ASSUME TrafficAssumption ==
    /\ \A s \in Settings : \A r \in Traffic[s.name] :
            /\ r.claim \in Agents \cup {Anonymous}
            /\ r.token # None /\ r.token.kid # None => r.token.kid \in Kids
    /\ (Agents \cup {Anonymous}) \X Methods \subseteq Identities

ASSUME BoundsAssumption ==
    \A s \in Settings : Bounds[s.name] \in [requests: Nat, restarts: Nat, rotations: Nat, time: Nat]

Init ==
    /\ now = 0
    /\ settings \in Settings
    /\ OAuthInit /\ TlsInit /\ StatusInit
    /\ IF "jwt" \in settings.methods THEN \E k \in Kids : JwksInit({k}) ELSE JwksInit({})
    /\ req = None /\ sent = 0 /\ restarts = 0 /\ rotations = 0

UsesTls == "mtls" \in settings.methods
UsesKeys == "jwt" \in settings.methods
ReadsTheClock == UsesKeys \/ settings.oauth

\* The listener is up: at once, or with its certificates.
Up == UsesTls => Listening

-----------------------------------------------------------------------------
\* A request arrives; its certificate is the one of its connection, which the
\* handshake accepted.
Arrive(r, bearer) ==
    /\ req = None /\ Up
    /\ sent < Bound.requests
    /\ r.cert # None => UsesTls /\ Accepts(r.cert.issuer)
    /\ r.cert = None => ~(UsesTls /\ settings.client_auth = "required")
    /\ req' = [stage |-> "identify", input |-> r, bearer |-> bearer,
               agent |-> r.claim, method |-> "path", effect |-> None,
               at |-> now, approved |-> FALSE]
    /\ sent' = sent + 1
    /\ UNCHANGED <<now, oauthVars, tlsVars, jwksVars, statusVars, settings, restarts, rotations>>

\* The answer, with its status, ends the request.
Answer(status) == status \in Statuses /\ req' = None

\* _identity_refusal: the answer, and one more refusal of its code.
RefuseIdentity(status, code) ==
    /\ Answer(status)
    /\ RecordIdentityRefusal(code)

\* The URL may name the agent the credential proves, or nobody.
ClaimMatches(claim, agent) == claim \in {Anonymous, agent}

\* proxy() with what resolve() found, or without a resolver.
Identified(outcome) ==
    IF Refused(outcome) THEN RefuseIdentity(outcome.status, outcome.method)
    ELSE IF outcome = NoIdentity
    THEN IF settings.require THEN RefuseIdentity(401, "identity_required")
         ELSE req' = [req EXCEPT !.stage = "read"] /\ UNCHANGED statusVars
    ELSE IF ~ClaimMatches(req.agent, outcome.agent)
    THEN RefuseIdentity(403, "identity_path_mismatch")
    ELSE /\ req' = [req EXCEPT !.stage = "read", !.agent = outcome.agent,
                               !.method = outcome.method]
         /\ UNCHANGED statusVars

\* resolve() looks the certificate up first and then, for a token that names
\* a key, asks for the key.
AsksForKey ==
    /\ req.input.token # None
    /\ ReadAsToken(settings.methods, req.input.token)
    /\ req.input.token.kid # None
    /\ ~(UsesTls /\ req.input.cert # None /\ Refused(FromCert(req.input.cert)))

Identify ==
    /\ req # None /\ req.stage = "identify"
    /\ IF AsksForKey
       THEN \E answered \in BOOLEAN :
                /\ GetKey(req.input.token.kid, answered)
                /\ Identified(Resolve(settings.methods, req.input.cert, req.input.token,
                                      verdict'.trusted))
       ELSE /\ Identified(Resolve(settings.methods, req.input.cert, req.input.token, FALSE))
            /\ UNCHANGED jwksVars
    /\ UNCHANGED <<now, oauthVars, tlsVars, settings, counters>>

-----------------------------------------------------------------------------
NeedsBearer == req.input.mcp /\ settings.oauth

\* Cedar cannot judge a call the parser could not read.
Unreadable == req.input.mcp /\ ~req.input.parsed

\* Fault: only a plain deny is acted on.
DeniedOnly(effect) == effect = "deny"
\* Neither a deny nor a review reaches the upstream on its own.
NotAllowed(effect) == effect # "allow"

\* Where a request goes with Cedar's answer, in enforcing and monitor mode.
Judged(effect) ==
    IF ~settings.enforce \/ ~NotAllowed(effect) THEN "forward"
    ELSE IF effect = "review" /\ settings.reviews THEN "review"
    ELSE "refused"

\* The body is there: the bearer check, the refusal of what cannot be read,
\* Cedar's decision and its record in the status report.
Judge(effect) ==
    /\ req # None /\ req.stage = "read"
    /\ IF NeedsBearer /\ ~ValidBearer(req.bearer)
       THEN /\ Answer(401)
            /\ tokens' = TokensAfterBearer(req.bearer)
            /\ UNCHANGED <<clients, codes, consents, minted, statusVars>>
       ELSE IF Unreadable /\ settings.enforce
       THEN Answer(400) /\ UNCHANGED <<oauthVars, statusVars>>
       ELSE /\ IF Judged(effect) = "refused" THEN Answer(403)
               ELSE req' = [req EXCEPT !.stage = Judged(effect), !.effect = effect, !.at = now]
            /\ RecordRequest(<<req.agent, req.method>>, effect)
            /\ UNCHANGED oauthVars
    /\ UNCHANGED <<now, tlsVars, jwksVars, settings, counters>>

\* A body over the limit is refused before anything looks at it.
TooLarge ==
    /\ req # None /\ req.stage = "read"
    /\ Answer(413)
    /\ UNCHANGED <<now, oauthVars, tlsVars, jwksVars, statusVars, settings, counters>>

\* _resolve_review collects the ticket that was presented or queues a review
\* (ApprovalLoop); only a grant lets the request through.
ResolveReview(granted) ==
    /\ req # None /\ req.stage = "review"
    /\ IF granted THEN req' = [req EXCEPT !.stage = "forward", !.approved = TRUE] ELSE Answer(403)
    /\ UNCHANGED <<now, oauthVars, tlsVars, jwksVars, statusVars, settings, counters>>

\* _forward: there may be no upstream for this target; otherwise the request
\* is on its way.
Forward(upstream) ==
    /\ req # None /\ req.stage = "forward"
    /\ IF upstream THEN req' = [req EXCEPT !.stage = "sending"] ELSE Answer(502)
    /\ UNCHANGED <<now, oauthVars, tlsVars, jwksVars, statusVars, settings, counters>>

\* The upstream answers, whole or as a stream, or the exchange fails.
Respond(status) ==
    /\ req # None /\ req.stage = "sending"
    /\ Answer(status)
    /\ UNCHANGED <<now, oauthVars, tlsVars, jwksVars, statusVars, settings, counters>>

-----------------------------------------------------------------------------
\* The process is killed and started again, losing all it held in memory.
Restart ==
    /\ restarts < Bound.restarts
    /\ restarts' = restarts + 1
    /\ req' = None
    /\ OAuthRestart /\ TlsRestart /\ JwksRestart /\ StatusRestart
    /\ UNCHANGED <<now, settings, sent, rotations>>

Tick ==
    /\ ReadsTheClock /\ now < Bound.time
    /\ Pass /\ JwksPass
    /\ UNCHANGED <<oauthVars, tlsVars, statusVars, reqVars>>

\* The reload thread, if it was started, with its event callback.
ReloadStep ==
    /\ UsesTls
    /\ TlsThread /\ (settings.reload \/ pass.at # "idle")
    /\ IF pass.at = "build" /\ pass' = Idle THEN AddEvent("tls_reload_failed")
       ELSE IF pass.at = "build" /\ pass'.at = "report" /\ ~pass.boot THEN AddEvent("tls_reloaded")
       ELSE UNCHANGED statusVars
    /\ UNCHANGED <<now, oauthVars, jwksVars, reqVars>>

\* Whoever replaces the files; without the thread nobody reads them again.
RotateStep ==
    /\ UsesTls /\ settings.reload
    /\ Rotate
    /\ UNCHANGED <<now, oauthVars, jwksVars, statusVars, reqVars>>

OAuthStep ==
    /\ settings.oauth
    /\ OAuthNext
    /\ UNCHANGED <<now, tlsVars, jwksVars, statusVars, reqVars>>

ProviderRotates ==
    /\ UsesKeys
    /\ rotations < Bound.rotations
    /\ rotations' = rotations + 1
    /\ \E s \in SUBSET Kids : RotateKeys(s)
    /\ UNCHANGED <<now, oauthVars, tlsVars, statusVars, settings, req, sent, restarts>>

RequestStep ==
    \/ \E r \in Traffic[settings.name] :
        \E bearer \in IF settings.oauth /\ r.mcp THEN Tokens ELSE {None} : Arrive(r, bearer)
    \/ Identify \/ TooLarge
    \/ \E effect \in Effects : Judge(effect)
    \/ \E granted \in BOOLEAN : ResolveReview(granted)
    \/ \E upstream \in BOOLEAN : Forward(upstream)
    \/ \E status \in {200, 502} : Respond(status)

Next == RequestStep \/ OAuthStep \/ ReloadStep \/ RotateStep \/ ProviderRotates \/ Tick \/ Restart

\* The reload thread is a loop around a wait with a timeout.
Spec == Init /\ [][Next]_vars /\ WF_vars(ReloadStep)

-----------------------------------------------------------------------------
\* A gateway that has a listener of its own serves and reports what its files
\* have come to rest on (TlsSettles); it never has to be restarted for that.
CertificatesSettle == UsesTls => TlsSettles

\* Credentials the resolver looks at, as the binding table names them.
Presented(input) ==
    (IF UsesTls /\ input.cert # None THEN {<<"mtls", input.cert.cn>>} ELSE {})
    \cup (IF input.token # None /\ settings.methods \cap {"jwt", "secret"} # {}
          THEN {<<IF ReadAsToken(settings.methods, input.token) THEN "jwt" ELSE "secret",
                  input.token.subject>>}
          ELSE {})

\* The agent a request is judged as is proven by every credential it came
\* with: each is bound to that agent, the key of its token was published by
\* the provider, and the URL names nobody else.  Only a request without any
\* credential is judged as the agent it claims to be, and only where that is
\* allowed; a credential that does not verify is never passed over.
EvaluatedAsProven ==
    req # None /\ req.effect # None =>
        /\ \A p \in Presented(req.input) :
                /\ [kind |-> p[1], subject |-> p[2], agent |-> req.agent] \in Bindings
                /\ p[1] = "jwt" => /\ req.input.token.claims_ok
                                   /\ lastPublished[req.input.token.kid] # None
        /\ Presented(req.input) = {} => ~settings.require /\ req.agent = req.input.claim
        /\ Presented(req.input) # {} => req.input.claim \in {Anonymous, req.agent}

\* Nothing reaches an upstream that was not judged: in enforcing mode it was
\* allowed or a human approved it, its body could be read if it went to an
\* MCP server, and behind the authorization server it carried a token that
\* was minted, by this process or one before it, and had not expired when the
\* request was judged.
CompleteMediation ==
    req # None /\ req.stage = "sending" =>
        /\ req.effect # None
        /\ settings.enforce =>
            /\ req.effect = "allow" \/ (req.effect = "review" /\ req.approved)
            /\ req.input.mcp => req.input.parsed
        /\ req.input.mcp /\ settings.oauth =>
            \E m \in minted : m.token = req.bearer /\ req.at <= m.at + TokenTTL
=============================================================================
