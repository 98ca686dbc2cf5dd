------------------------------ MODULE McpOAuth ------------------------------
(***************************************************************************)
(* gateway mcp_oauth.py and the routes app.py adds for it: dynamic client   *)
(* registration, authorization codes bound to a client, a redirect and a    *)
(* PKCE challenge, their exchange for a bearer token, and the check of that *)
(* token.  Each function runs without an await, so each is one step; the    *)
(* three maps live in the process and are gone when it restarts.  A refused *)
(* request changes nothing and is not a step, except that an expired code   *)
(* or token is deleted by the request that finds it expired.                *)
(***************************************************************************)
EXTENDS Clock

CONSTANTS Clients, Uris, Verifiers, Codes, Tokens, CodeTTL, TokenTTL

ASSUME TTLAssumption == CodeTTL \in Nat /\ TokenTTL \in Nat

VARIABLES
    clients,    \* _CLIENTS: records [client, uris]
    codes,      \* _CODES: records [code, client, uri, challenge, expires_at]
    tokens,     \* _TOKENS: records [token, client, expires_at]
    consents,   \* auxiliary: every code issued after the operator's secret
    minted      \* auxiliary: every token minted, and the code it was minted for

oauthVars == <<clients, codes, tokens, consents, minted>>

\* The S256 transform of a PKCE verifier.
S256(verifier) == <<"sha256", verifier>>
Challenges == {S256(v) : v \in Verifiers}

ClientRecord == [client: Clients, uris: SUBSET Uris]
AuthCode == [code: Codes, client: Clients, uri: Uris, challenge: Challenges, expires_at: Nat]
TokenRecord == [token: Tokens, client: Clients, expires_at: Nat]
Consent == [code: Codes, client: Clients, uri: Uris, challenge: Challenges, at: Nat]
Minting == [token: Tokens, code: Codes, client: Clients, verifier: Verifiers, at: Nat]

OAuthTypeOK ==
    /\ clients \in SUBSET ClientRecord
    /\ codes \in SUBSET AuthCode
    /\ tokens \in SUBSET TokenRecord
    /\ consents \in SUBSET Consent
    /\ minted \in SUBSET Minting

OAuthInit ==
    /\ clients = {} /\ codes = {} /\ tokens = {}
    /\ consents = {} /\ minted = {}

-----------------------------------------------------------------------------
\* POST /register: at least one redirect URI, and an id nobody had before.
RegisterClient(c, uris) ==
    /\ uris # {}
    /\ c \notin {r.client : r \in clients}
    /\ clients' = clients \cup {[client |-> c, uris |-> uris]}
    /\ UNCHANGED <<codes, tokens, consents, minted>>

\* What an /authorize request must name before anything is issued.
StartAuthorization(c, u) ==
    \E r \in clients : r.client = c /\ u \in r.uris

\* A random value nobody has had before; which one makes no difference.
Unused(values, used) == CHOOSE x \in values \ used : TRUE
CodesIssued == {g.code : g \in consents}
TokensMinted == {m.token : m \in minted}

\* POST /authorize with the operator's secret: a fresh code, bound to the
\* client, the redirect and the challenge of the request.
AuthorizePost(c, u, challenge) ==
    /\ StartAuthorization(c, u)
    /\ Codes \ CodesIssued # {}
    /\ LET code == Unused(Codes, CodesIssued) IN
       /\ codes' = codes \cup {[code |-> code, client |-> c, uri |-> u,
                                challenge |-> challenge, expires_at |-> now + CodeTTL]}
       /\ consents' = consents \cup {[code |-> code, client |-> c, uri |-> u,
                                      challenge |-> challenge, at |-> now]}
    /\ UNCHANGED <<clients, tokens, minted>>

\* Fault: exchange_token without the deletion of the code.
Kept(k) == codes
\* The codes left once k has been used.
Used(k) == codes \ {k}

\* Fault: no expiry check in exchange_token.
AnyAge(k) == TRUE
\* A code is good up to and including the instant it expires.
Unexpired(k) == k.expires_at >= now

\* POST /token for a live code by the client, for the redirect and with the
\* verifier it was issued for: the code is consumed, a fresh token minted.
ExchangeToken(k, c, u, v) ==
    /\ k \in codes
    /\ Unexpired(k)
    /\ k.client = c /\ k.uri = u
    /\ S256(v) = k.challenge
    /\ Tokens \ TokensMinted # {}
    /\ codes' = Used(k)
    /\ LET t == Unused(Tokens, TokensMinted) IN
       /\ tokens' = tokens \cup {[token |-> t, client |-> c, expires_at |-> now + TokenTTL]}
       /\ minted' = minted \cup {[token |-> t, code |-> k.code, client |-> c,
                                  verifier |-> v, at |-> now]}
    /\ UNCHANGED <<clients, consents>>

\* POST /token for a code that has expired deletes it, whoever asks.
ExchangeExpired(k) ==
    /\ k \in codes
    /\ ~Unexpired(k)
    /\ codes' = codes \ {k}
    /\ UNCHANGED <<clients, tokens, consents, minted>>

\* validate_bearer: a token this process minted, up to the instant it expires.
ValidBearer(t) == \E r \in tokens : r.token = t /\ r.expires_at >= now

\* What validate_bearer leaves: an expired token is deleted when presented.
TokensAfterBearer(t) == {r \in tokens : r.token = t => r.expires_at >= now}

\* The process restarts: the maps are empty, what clients hold is worthless.
OAuthRestart ==
    /\ clients' = {} /\ codes' = {} /\ tokens' = {}
    /\ UNCHANGED <<consents, minted>>

OAuthNext ==
    \/ \E c \in Clients, uris \in SUBSET Uris : RegisterClient(c, uris)
    \/ \E c \in Clients, u \in Uris, ch \in Challenges : AuthorizePost(c, u, ch)
    \/ \E k \in codes, c \in Clients, u \in Uris, v \in Verifiers : ExchangeToken(k, c, u, v)
    \/ \E k \in codes : ExchangeExpired(k)

-----------------------------------------------------------------------------
\* A code mints at most one token, however often, by whomever and with
\* whatever verifier it is presented (exchange_token's "a replayed code can
\* never mint a second token").
CodesMintOnce ==
    \A m1, m2 \in minted : m1.code = m2.code => m1 = m2

\* Every token in force goes back to one consent of the operator: the same
\* client, the verifier of the challenge consented to, exchanged while the
\* code was good; so it ends at most CodeTTL + TokenTTL after that consent.
TokensAreConsented ==
    \A r \in tokens : \E m \in minted, g \in consents :
        /\ m.token = r.token /\ g.code = m.code
        /\ r.client = g.client /\ S256(m.verifier) = g.challenge
        /\ g.at <= m.at /\ m.at <= g.at + CodeTTL
        /\ r.expires_at <= g.at + CodeTTL + TokenTTL
=============================================================================
