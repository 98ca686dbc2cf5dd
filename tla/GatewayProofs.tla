---------------------------- MODULE GatewayProofs ----------------------------
(***************************************************************************)
(* Theorems of the gateway for any settings and traffic, any numbers of      *)
(* clients, codes and tokens, and any lifetimes.  A code mints once because  *)
(* a code that can still be exchanged is in the map once and has minted      *)
(* nothing (Unspent), and codes are never reused (Consented).  Nothing       *)
(* reaches an upstream unjudged because of what holds of a request between   *)
(* its judgement and its forwarding (Mediated), which no restart, expiry or  *)
(* rotation in between can undo.                                             *)
(*                                                                         *)
(* Then, of what the gateway trusts: a TLS context is whole because of what  *)
(* a build pass has read of it so far (BuildsWhole); a cached key was        *)
(* published when the cache was filled and only ages from there (CacheHeld,  *)
(* RefreshHeld); and a request keeps what identified it (Identity), because  *)
(* a key once seen published has been (lastPublished only grows).            *)
(***************************************************************************)
EXTENDS Gateway, FiniteSetTheorems, SequenceTheorems, TLAPS

\* Every code that can be exchanged was consented to, as it is in the map.
Issued == \A k \in codes : \E g \in consents :
            /\ g.code = k.code /\ g.client = k.client
            /\ g.uri = k.uri /\ g.challenge = k.challenge
            /\ g.at <= now /\ k.expires_at = g.at + CodeTTL

\* Such a code is in the map once, and no token was minted for it.
Unspent == /\ \A k, l \in codes : k.code = l.code => k = l
           /\ \A k \in codes, m \in minted : k.code # m.code

\* Tokens are minted for codes that were consented to, and live TokenTTL.
Consented == /\ \A m \in minted : \E g \in consents : g.code = m.code
             /\ \A r \in tokens : \E m \in minted : /\ m.token = r.token
                                                    /\ r.expires_at = m.at + TokenTTL

OAuthInv == /\ now \in Nat /\ OAuthTypeOK
            /\ Issued /\ Unspent /\ Consented
            /\ CodesMintOnce /\ TokensAreConsented

USE TTLAssumption

\* A random value nobody has had is one of those nobody has had.
LEMMA UnusedIsNew ==
    ASSUME NEW values, NEW used, values \ used # {}
    PROVE  Unused(values, used) \in values \ used
  <1> QED BY DEF Unused

\* A clock that moves on and maps that lose entries break nothing.
LEMMA MapsShrink ==
    ASSUME OAuthInv, now' \in Nat, now <= now',
           clients' \in SUBSET ClientRecord, codes' \subseteq codes, tokens' \subseteq tokens,
           UNCHANGED <<consents, minted>>
    PROVE  OAuthInv'
  <1> USE DEF OAuthInv
  <1>1. OAuthTypeOK'
      BY DEF OAuthTypeOK
  <1>2. Issued'
    <2> SUFFICES ASSUME NEW k \in codes'
                 PROVE  \E g \in consents' :
                            /\ g.code = k.code /\ g.client = k.client
                            /\ g.uri = k.uri /\ g.challenge = k.challenge
                            /\ g.at <= now' /\ k.expires_at = g.at + CodeTTL
        BY DEF Issued
    <2>1. PICK g \in consents : /\ g.code = k.code /\ g.client = k.client
                                /\ g.uri = k.uri /\ g.challenge = k.challenge
                                /\ g.at <= now /\ k.expires_at = g.at + CodeTTL
        BY DEF Issued
    <2>2. g.at \in Nat
        BY DEF OAuthTypeOK, Consent
    <2>3. g.at <= now'
        BY <2>1, <2>2
    <2> QED BY <2>1, <2>3
  <1>3. Unspent'
      BY DEF Unspent
  <1>4. Consented'
      BY DEF Consented
  <1>5. CodesMintOnce' /\ TokensAreConsented'
      BY DEF CodesMintOnce, TokensAreConsented
  <1> QED BY <1>1, <1>2, <1>3, <1>4, <1>5

\* A consent: the code is new, so neither in the map nor minted for.
LEMMA AuthorizeStep ==
    ASSUME OAuthInv, NEW c \in Clients, NEW u \in Uris, NEW ch \in Challenges,
           AuthorizePost(c, u, ch), UNCHANGED now
    PROVE  OAuthInv'
  <1> USE DEF OAuthInv
  <1> DEFINE code == Unused(Codes, CodesIssued)
             k == [code |-> code, client |-> c, uri |-> u, challenge |-> ch, expires_at |-> now + CodeTTL]
             g == [code |-> code, client |-> c, uri |-> u, challenge |-> ch, at |-> now]
  <1>1. code \in Codes \ CodesIssued
      BY UnusedIsNew DEF AuthorizePost
  <1>2. /\ codes' = codes \cup {k} /\ consents' = consents \cup {g}
        /\ UNCHANGED <<clients, tokens, minted>>
      BY DEF AuthorizePost
  <1>3. \A h \in consents : h.code # code
      BY <1>1 DEF CodesIssued
  <1> HIDE DEF code
  <1>4. OAuthTypeOK'
      BY <1>1, <1>2 DEF OAuthTypeOK, AuthCode, Consent
  <1>5. Issued'
    <2>1. /\ g.code = k.code /\ g.client = k.client /\ g.uri = k.uri /\ g.challenge = k.challenge
          /\ g.at <= now /\ k.expires_at = g.at + CodeTTL
        OBVIOUS
    <2> HIDE DEF g, k
    <2> QED BY <1>2, <2>1 DEF Issued
  <1>6. Unspent'
    <2>1. \A l \in codes : l.code # code
        BY <1>3 DEF Issued
    <2>2. \A m \in minted : m.code # code
        BY <1>3 DEF Consented
    <2> QED BY <1>2, <2>1, <2>2 DEF Unspent
  <1>7. Consented'
      BY <1>2 DEF Consented
  <1>8. CodesMintOnce' /\ TokensAreConsented'
      BY <1>2 DEF CodesMintOnce, TokensAreConsented
  <1> QED BY <1>4, <1>5, <1>6, <1>7, <1>8

\* An exchange: the code goes as its token comes.
LEMMA ExchangeStep ==
    ASSUME OAuthInv, NEW k \in codes, NEW c \in Clients, NEW u \in Uris, NEW v \in Verifiers,
           ExchangeToken(k, c, u, v), UNCHANGED now
    PROVE  OAuthInv'
  <1> USE DEF OAuthInv
  <1> DEFINE t == Unused(Tokens, TokensMinted)
             r == [token |-> t, client |-> c, expires_at |-> now + TokenTTL]
             n == [token |-> t, code |-> k.code, client |-> c, verifier |-> v, at |-> now]
  <1>1. t \in Tokens \ TokensMinted
      BY UnusedIsNew DEF ExchangeToken
  <1>2. /\ codes' = codes \ {k} /\ tokens' = tokens \cup {r} /\ minted' = minted \cup {n}
        /\ UNCHANGED <<clients, consents>>
      BY DEF ExchangeToken, Used
  <1>3. /\ k.expires_at >= now /\ k.client = c /\ k.uri = u /\ S256(v) = k.challenge
      BY DEF ExchangeToken, Unexpired
  <1> HIDE DEF t
  <1>4. PICK g \in consents : /\ g.code = k.code /\ g.client = k.client
                              /\ g.uri = k.uri /\ g.challenge = k.challenge
                              /\ g.at <= now /\ k.expires_at = g.at + CodeTTL
      BY DEF Issued
  <1>5. g.at \in Nat /\ k.code \in Codes
      BY DEF OAuthTypeOK, Consent, AuthCode
  <1>6. OAuthTypeOK'
      BY <1>1, <1>2, <1>5 DEF OAuthTypeOK, TokenRecord, Minting
  <1>7. Issued'
      BY <1>2 DEF Issued
  <1>8. Unspent'
      BY <1>2 DEF Unspent
  <1>9. Consented'
    <2>1. n.token = r.token /\ r.expires_at = n.at + TokenTTL /\ n.code = g.code
        BY <1>4
    <2> HIDE DEF n, r
    <2> QED BY <1>2, <2>1 DEF Consented
  <1>10. CodesMintOnce'
      BY <1>2 DEF CodesMintOnce, Unspent
  <1>11. TokensAreConsented'
    <2>1. /\ n.token = r.token /\ g.code = n.code /\ r.client = g.client
          /\ S256(n.verifier) = g.challenge
          /\ g.at <= n.at /\ n.at <= g.at + CodeTTL
          /\ r.expires_at <= g.at + CodeTTL + TokenTTL
        BY <1>3, <1>4, <1>5
    <2> QED BY <1>2, <2>1 DEF TokensAreConsented
  <1> QED BY <1>6, <1>7, <1>8, <1>9, <1>10, <1>11

\* The routes of the authorization server.
LEMMA OAuthSteps == ASSUME OAuthInv, OAuthNext, UNCHANGED now PROVE OAuthInv'
  <1>1. CASE \E c \in Clients, uris \in SUBSET Uris : RegisterClient(c, uris)
    <2>1. clients' \in SUBSET ClientRecord /\ UNCHANGED <<codes, tokens, consents, minted>>
        BY <1>1 DEF RegisterClient, OAuthInv, OAuthTypeOK, ClientRecord
    <2> QED BY <2>1, MapsShrink DEF OAuthInv
  <1>2. CASE \E c \in Clients, u \in Uris, ch \in Challenges : AuthorizePost(c, u, ch)
      BY <1>2, AuthorizeStep
  <1>3. CASE \E k \in codes, c \in Clients, u \in Uris, v \in Verifiers : ExchangeToken(k, c, u, v)
      BY <1>3, ExchangeStep
  <1>4. CASE \E k \in codes : ExchangeExpired(k)
      BY <1>4, MapsShrink DEF ExchangeExpired, OAuthInv, OAuthTypeOK
  <1> QED BY <1>1, <1>2, <1>3, <1>4 DEF OAuthNext

-----------------------------------------------------------------------------
\* A step that leaves the authorization server and its clock alone.
LEMMA OAuthUntouched == OAuthInv /\ UNCHANGED <<now, oauthVars>> => OAuthInv'
  <1> QED BY MapsShrink DEF OAuthInv, OAuthTypeOK, oauthVars

\* A judgement deletes at most an expired token.
LEMMA JudgeKeepsMaps ==
    ASSUME OAuthInv, NEW effect \in Effects, Judge(effect)
    PROVE  OAuthInv'
  <1>1. CASE NeedsBearer /\ ~ValidBearer(req.bearer)
    <2>1. tokens' \subseteq tokens /\ UNCHANGED <<now, clients, codes, consents, minted>>
        BY <1>1 DEF Judge, TokensAfterBearer
    <2> QED BY <2>1, MapsShrink DEF OAuthInv, OAuthTypeOK
  <1>2. CASE ~(NeedsBearer /\ ~ValidBearer(req.bearer))
    <2>1. UNCHANGED <<now, oauthVars>>
        BY <1>2 DEF Judge
    <2> QED BY <2>1, OAuthUntouched
  <1> QED BY <1>1, <1>2

\* The gateway's requests, but for their judgement, do not touch the server.
LEMMA RequestsKeepMaps == ASSUME OAuthInv, RequestStep PROVE OAuthInv'
  <1>1. CASE \E r \in Traffic[settings.name] :
                \E bearer \in IF settings.oauth /\ r.mcp THEN Tokens ELSE {None} : Arrive(r, bearer)
      BY <1>1, OAuthUntouched DEF Arrive
  <1>2. CASE Identify
      BY <1>2, OAuthUntouched DEF Identify
  <1>3. CASE TooLarge
      BY <1>3, OAuthUntouched DEF TooLarge
  <1>4. CASE \E effect \in Effects : Judge(effect)
      BY <1>4, JudgeKeepsMaps
  <1>5. CASE \E granted \in BOOLEAN : ResolveReview(granted)
      BY <1>5, OAuthUntouched DEF ResolveReview
  <1>6. CASE \E upstream \in BOOLEAN : Forward(upstream)
      BY <1>6, OAuthUntouched DEF Forward
  <1>7. CASE \E status \in {200, 502} : Respond(status)
      BY <1>7, OAuthUntouched DEF Respond
  <1> QED BY <1>1, <1>2, <1>3, <1>4, <1>5, <1>6, <1>7 DEF RequestStep

\* Every step of the gateway keeps what the server promises.
LEMMA StepsKeepOAuth == ASSUME OAuthInv, [Next]_vars PROVE OAuthInv'
  <1>1. CASE RequestStep
      BY <1>1, RequestsKeepMaps
  <1>2. CASE OAuthStep
      BY <1>2, OAuthSteps DEF OAuthStep
  <1>3. CASE ReloadStep
      BY <1>3, OAuthUntouched DEF ReloadStep
  <1>4. CASE RotateStep
      BY <1>4, OAuthUntouched DEF RotateStep
  <1>5. CASE ProviderRotates
      BY <1>5, OAuthUntouched DEF ProviderRotates
  <1>6. CASE Tick
    <2>1. now' = now + 1 /\ UNCHANGED oauthVars
        BY <1>6 DEF Tick, Pass
    <2> QED BY <2>1, MapsShrink DEF OAuthInv, OAuthTypeOK, oauthVars
  <1>7. CASE Restart
    <2>1. clients' = {} /\ codes' = {} /\ tokens' = {} /\ UNCHANGED <<now, consents, minted>>
        BY <1>7 DEF Restart, OAuthRestart
    <2> QED BY <2>1, MapsShrink DEF OAuthInv
  <1>8. CASE UNCHANGED vars
      BY <1>8, OAuthUntouched DEF vars
  <1> QED BY <1>1, <1>2, <1>3, <1>4, <1>5, <1>6, <1>7, <1>8 DEF Next

LEMMA InitOAuth == Init => OAuthInv
  <1> QED BY DEF Init, OAuthInit, OAuthInv, OAuthTypeOK, Issued, Unspent, Consented,
                 CodesMintOnce, TokensAreConsented

LEMMA OAuthInvariant == Spec => []OAuthInv
  <1> QED BY InitOAuth, StepsKeepOAuth, PTL DEF Spec

\* No authorization code mints two tokens (exchange_token of mcp_oauth.py).
THEOREM CodesAreSingleUse == Spec => []CodesMintOnce
  <1>1. OAuthInv => CodesMintOnce
      BY DEF OAuthInv
  <1> QED BY <1>1, OAuthInvariant, PTL

\* Every token in force goes back to one consent, within its lifetime.
THEOREM TokensHaveConsent == Spec => []TokensAreConsented
  <1>1. OAuthInv => TokensAreConsented
      BY DEF OAuthInv
  <1> QED BY <1>1, OAuthInvariant, PTL

-----------------------------------------------------------------------------
\* A request has all its fields.
Whole(r) == r = [stage |-> r.stage, input |-> r.input, bearer |-> r.bearer, agent |-> r.agent,
                 method |-> r.method, effect |-> r.effect, at |-> r.at, approved |-> r.approved]

\* What was established of a request that Cedar has judged.
Established(r) ==
    /\ r.effect \in Effects
    /\ settings.enforce =>
        /\ r.stage = "review" => r.effect = "review"
        /\ r.stage # "review" => r.effect = "allow" \/ (r.effect = "review" /\ r.approved)
        /\ r.input.mcp => r.input.parsed
    /\ r.input.mcp /\ settings.oauth =>
        \E m \in minted : m.token = r.bearer /\ r.at <= m.at + TokenTTL

Mediated == req # None => /\ Whole(req)
                          /\ req.stage \in {"identify", "read"} \/ Established(req)

\* Tokens are never unminted.
LEMMA MintedGrows == ASSUME [Next]_vars PROVE minted \subseteq minted'
  <1>1. CASE OAuthStep
      BY <1>1 DEF OAuthStep, OAuthNext, RegisterClient, AuthorizePost, ExchangeToken, ExchangeExpired
  <1>2. CASE RequestStep
      BY <1>2 DEF RequestStep, Arrive, Identify, TooLarge, Judge, ResolveReview, Forward, Respond, oauthVars
  <1>3. CASE ReloadStep \/ RotateStep \/ ProviderRotates \/ Tick \/ Restart \/ UNCHANGED vars
      BY <1>3 DEF ReloadStep, RotateStep, ProviderRotates, Tick, Restart, OAuthRestart, vars, oauthVars
  <1> QED BY <1>1, <1>2, <1>3 DEF Next

\* A request that nothing touches stays as it is.
LEMMA RequestUntouched ==
    ASSUME Mediated, minted \subseteq minted', UNCHANGED <<req, settings>>
    PROVE  Mediated'
  <1> QED BY DEF Mediated, Whole, Established

\* The judgement: the token is in force, so it was minted at most TokenTTL ago.
LEMMA JudgeMediates ==
    ASSUME Mediated, OAuthInv, NEW effect \in Effects, Judge(effect)
    PROVE  Mediated'
  <1>1. req # None /\ Whole(req) /\ UNCHANGED <<minted, settings>>
      BY DEF Mediated, Judge, oauthVars
  <1>2. CASE req' = None
      BY <1>2 DEF Mediated
  <1>3. CASE req' # None
    <2>1. /\ Judged(effect) # "refused"
          /\ req' = [req EXCEPT !.stage = Judged(effect), !.effect = effect, !.at = now]
          /\ NeedsBearer => ValidBearer(req.bearer)
          /\ settings.enforce => ~Unreadable
        BY <1>3 DEF Judge, Answer
    <2>2. /\ Whole(req') /\ req'.stage = Judged(effect) /\ req'.effect = effect
          /\ req'.at = now /\ req'.input = req.input /\ req'.bearer = req.bearer
        BY <1>1, <2>1 DEF Whole
    <2>3. settings.enforce =>
              /\ req'.stage = "review" => effect = "review"
              /\ req'.stage # "review" => effect = "allow"
        BY <2>1, <2>2 DEF Judged, NotAllowed
    <2>4. ASSUME req.input.mcp, settings.oauth
          PROVE  \E m \in minted : m.token = req.bearer /\ now <= m.at + TokenTTL
      <3>1. PICK r \in tokens : r.token = req.bearer /\ r.expires_at >= now
          BY <2>1, <2>4 DEF NeedsBearer, ValidBearer
      <3>2. PICK m \in minted : m.token = r.token /\ r.expires_at = m.at + TokenTTL
          BY DEF OAuthInv, Consented
      <3> QED BY <3>1, <3>2
    <2>5. settings.enforce /\ req.input.mcp => req.input.parsed
        BY <2>1 DEF Unreadable
    <2> QED BY <1>1, <2>2, <2>3, <2>4, <2>5 DEF Mediated, Established
  <1> QED BY <1>2, <1>3

\* The other steps of a request.
LEMMA RequestMediated == ASSUME Mediated, OAuthInv, RequestStep PROVE Mediated'
  <1>1. CASE \E r \in Traffic[settings.name] :
                \E bearer \in IF settings.oauth /\ r.mcp THEN Tokens ELSE {None} : Arrive(r, bearer)
      BY <1>1 DEF Arrive, Mediated, Whole
  <1>2. CASE Identify
    <2>1. req # None /\ Whole(req) /\ req.stage = "identify"
        BY <1>2 DEF Identify, Mediated
    <2>2. PICK outcome : Identified(outcome)
        BY <1>2 DEF Identify
    <2>3. \/ req' = None
          \/ req' = [req EXCEPT !.stage = "read"]
          \/ req' = [req EXCEPT !.stage = "read", !.agent = outcome.agent, !.method = outcome.method]
        BY <2>2 DEF Identified, RefuseIdentity, Answer
    <2> QED BY <2>1, <2>3 DEF Mediated, Whole
  <1>3. CASE TooLarge
      BY <1>3 DEF TooLarge, Answer, Mediated
  <1>4. CASE \E effect \in Effects : Judge(effect)
      BY <1>4, JudgeMediates
  <1>5. CASE \E granted \in BOOLEAN : ResolveReview(granted)
    <2>1. /\ req # None /\ req.stage = "review" /\ UNCHANGED <<minted, settings>>
          /\ req' = None \/ req' = [req EXCEPT !.stage = "forward", !.approved = TRUE]
        BY <1>5 DEF ResolveReview, Answer, oauthVars
    <2>2. Whole(req) /\ Established(req)
        BY <2>1 DEF Mediated
    <2> QED BY <2>1, <2>2 DEF Mediated, Whole, Established
  <1>6. CASE \E upstream \in BOOLEAN : Forward(upstream)
    <2>1. /\ req # None /\ req.stage = "forward" /\ UNCHANGED <<minted, settings>>
          /\ req' = None \/ req' = [req EXCEPT !.stage = "sending"]
        BY <1>6 DEF Forward, Answer, oauthVars
    <2>2. Whole(req) /\ Established(req)
        BY <2>1 DEF Mediated
    <2> QED BY <2>1, <2>2 DEF Mediated, Whole, Established
  <1>7. CASE \E status \in {200, 502} : Respond(status)
      BY <1>7 DEF Respond, Answer, Mediated
  <1> QED BY <1>1, <1>2, <1>3, <1>4, <1>5, <1>6, <1>7 DEF RequestStep

\* Every step of the gateway.
LEMMA StepsMediate == ASSUME Mediated, OAuthInv, [Next]_vars PROVE Mediated'
  <1>1. CASE RequestStep
      BY <1>1, RequestMediated
  <1>2. CASE OAuthStep \/ ReloadStep \/ RotateStep \/ ProviderRotates \/ Tick \/ UNCHANGED vars
    <2>1. UNCHANGED <<req, settings>>
        BY <1>2 DEF OAuthStep, ReloadStep, RotateStep, ProviderRotates, Tick, reqVars, counters, vars
    <2> QED BY <2>1, MintedGrows, RequestUntouched
  <1>3. CASE Restart
      BY <1>3 DEF Restart, Mediated
  <1> QED BY <1>1, <1>2, <1>3 DEF Next

\* Nothing reaches an upstream that was not judged, and allowed, as
\* proxy() of app.py and its configuration demand.
THEOREM NothingForwardedUnjudged == Spec => []CompleteMediation
  <1>1. Init => Mediated
      BY DEF Init, Mediated
  <1>2. Mediated => CompleteMediation
      BY NoneAssumption DEF Mediated, Established, CompleteMediation
  <1> QED BY <1>1, <1>2, StepsMediate, OAuthInvariant, PTL DEF Spec

-----------------------------------------------------------------------------
(* The status report.                                                      *)

USE StatusAssumption

Heard(id) == RequestsFrom(id, 1) # {}

\* The latest request of an identity that made one is its latest.
LatestKnown ==
    \A id \in Identities : Heard(id) =>
        /\ LastRequest(id) \in RequestsFrom(id, 1)
        /\ \A k \in RequestsFrom(id, 1) : k <= LastRequest(id)

\* The table is in the order of the latest requests.
Ordered ==
    /\ \A i \in 1..Len(connected) : Heard(connected[i].identity)
    /\ \A i, j \in 1..Len(connected) :
          i < j => LastRequest(connected[i].identity) < LastRequest(connected[j].identity)

\* Who is not in it made way for those who came later.
Evicted ==
    \A id \in Identities : Heard(id) /\ Place(id) = {} =>
        /\ Len(connected) = MaxIdentities
        /\ \A i \in 1..Len(connected) :
              LastRequest(id) < LastRequest(connected[i].identity)

\* While nobody had to make way, every request is counted.
CountsExact ==
    Cardinality(SeenAfter(0)) <= MaxIdentities =>
        \A i \in 1..Len(connected) :
            connected[i].requests = Cardinality(RequestsFrom(connected[i].identity, 1))

TableInv == /\ StatusTypeOK /\ Len(connected) <= MaxIdentities
            /\ LatestKnown /\ Ordered /\ Evicted /\ CountsExact

\* A request is among the arrivals from where it came.
LEMMA TableFacts ==
    ASSUME TableInv
    PROVE  /\ Len(connected) \in Nat /\ Len(arrivals) \in Nat
           /\ \A i \in 1..Len(connected) : connected[i] \in Entry
           /\ \A i \in 1..Len(connected) : connected[i].identity \in Identities
           /\ \A k \in 1..Len(arrivals) : arrivals[k] \in Identities
           /\ \A id \in Identities : Heard(id) => LastRequest(id) \in 1..Len(arrivals)
  <1>1. /\ Len(connected) \in Nat /\ Len(arrivals) \in Nat
        /\ \A i \in 1..Len(connected) : connected[i] \in Entry
        /\ \A k \in 1..Len(arrivals) : arrivals[k] \in Identities
      BY DEF TableInv, StatusTypeOK
  <1>2. \A i \in 1..Len(connected) : connected[i].identity \in Identities
      BY <1>1 DEF Entry
  <1>3. \A id \in Identities : Heard(id) => LastRequest(id) \in 1..Len(arrivals)
      BY DEF TableInv, LatestKnown, RequestsFrom
  <1> QED BY <1>1, <1>2, <1>3

\* Nobody is in the table twice.
LEMMA PlaceIsUnique ==
    ASSUME TableInv, NEW i \in 1..Len(connected), NEW j \in 1..Len(connected),
           connected[i].identity = connected[j].identity
    PROVE  i = j
  <1>1. LastRequest(connected[i].identity) \in Nat /\ i \in Nat /\ j \in Nat
      BY TableFacts DEF TableInv, Ordered
  <1> QED BY <1>1 DEF TableInv, Ordered

\* One more request is its identity's latest, and changes nobody else's.
LEMMA OneMoreRequest ==
    ASSUME TableInv, NEW id \in Identities, arrivals' = Append(arrivals, id)
    PROVE  /\ arrivals' \in Seq(Identities) /\ Len(arrivals') = Len(arrivals) + 1
           /\ RequestsFrom(id, 1)' = RequestsFrom(id, 1) \cup {Len(arrivals) + 1}
           /\ LastRequest(id)' = Len(arrivals) + 1
           /\ \A x \in Identities \ {id} : /\ RequestsFrom(x, 1)' = RequestsFrom(x, 1)
                                           /\ LastRequest(x)' = LastRequest(x)
           /\ LatestKnown'
  <1> DEFINE n == Len(arrivals)
  <1>1. /\ n \in Nat /\ arrivals' \in Seq(Identities) /\ Len(arrivals') = n + 1
        /\ arrivals'[n + 1] = id /\ \A k \in 1..n : arrivals'[k] = arrivals[k]
      BY DEF TableInv, StatusTypeOK
  <1>2. RequestsFrom(id, 1)' = RequestsFrom(id, 1) \cup {n + 1}
      BY <1>1 DEF RequestsFrom
  <1>3. \A x \in Identities \ {id} : RequestsFrom(x, 1)' = RequestsFrom(x, 1)
      BY <1>1 DEF RequestsFrom
  <1>4. \A x \in Identities \ {id} : LastRequest(x)' = LastRequest(x)
      BY <1>3 DEF LastRequest
  <1>5. LastRequest(id)' = n + 1
    <2>1. /\ n + 1 \in RequestsFrom(id, 1)'
          /\ \A k \in RequestsFrom(id, 1)' : k \in Nat /\ k <= n + 1
        BY <1>1, <1>2 DEF RequestsFrom
    <2> DEFINE latest(j) == \A k \in RequestsFrom(id, 1)' : k <= j
    <2>2. latest(n + 1) /\ \A j \in RequestsFrom(id, 1)' : latest(j) => j = n + 1
        BY <1>1, <2>1
    <2>3. LastRequest(id)' = CHOOSE j \in RequestsFrom(id, 1)' : latest(j)
        BY DEF LastRequest
    <2> HIDE DEF latest
    <2> QED BY <2>1, <2>2, <2>3
  <1>6. LatestKnown'
    <2> SUFFICES ASSUME NEW x \in Identities, Heard(x)'
                 PROVE  /\ LastRequest(x)' \in RequestsFrom(x, 1)'
                        /\ \A k \in RequestsFrom(x, 1)' : k <= LastRequest(x)'
        BY DEF LatestKnown
    <2>1. CASE x = id
        BY <1>1, <1>2, <1>5, <2>1 DEF RequestsFrom
    <2>2. CASE x # id
        BY <1>3, <1>4, <2>2 DEF TableInv, LatestKnown, Heard
    <2> QED BY <2>1, <2>2
  <1> HIDE DEF n
  <1> QED BY <1>1, <1>2, <1>3, <1>4, <1>5, <1>6 DEF n
\* An identity has one place in the table or none; its entry is the one there.
LEMMA ItsEntry ==
    ASSUME TableInv, NEW id \in Identities
    PROVE  /\ Place(id) \subseteq 1..Len(connected)
           /\ Place(id) = {} \/ \E p \in 1..Len(connected) : Place(id) = {p}
           /\ EntryOf(id) \in Entry /\ EntryOf(id).identity = id
           /\ Place(id) = {} => EntryOf(id).requests = 0
           /\ \A p \in Place(id) : EntryOf(id) = connected[p]
  <1>1. Place(id) \subseteq 1..Len(connected)
      BY DEF Place
  <1>2. \A i, j \in Place(id) : i = j
      BY PlaceIsUnique DEF Place
  <1>3. CASE Place(id) = {}
      BY <1>1, <1>3 DEF EntryOf, Entry
  <1>4. CASE Place(id) # {}
    <2>1. PICK p \in Place(id) : TRUE
        BY <1>4
    <2>2. Place(id) = {p} /\ p \in 1..Len(connected)
        BY <1>1, <1>2, <2>1
    <2>3. EntryOf(id) = connected[p]
        BY <2>2 DEF EntryOf
    <2> QED BY <2>2, <2>3, TableFacts DEF Place
  <1> QED BY <1>3, <1>4

\* An entry counts one more request.
LEMMA EntryCounts ==
    ASSUME NEW e \in Entry, NEW effect
    PROVE  /\ Counted(e, effect) \in Entry
           /\ Counted(e, effect).identity = e.identity
           /\ Counted(e, effect).requests = e.requests + 1
  <1>1. PICK a \in Identities, r \in Nat, d \in Nat, h \in Nat :
            e = [identity |-> a, requests |-> r, denied |-> d, held |-> h]
      BY DEF Entry
  <1>2. Counted(e, effect) = [identity |-> a, requests |-> r + 1,
                              denied |-> IF effect = "deny" THEN d + 1 ELSE d,
                              held |-> IF effect = "review" THEN h + 1 ELSE h]
    <2> DEFINE r2 == r + 1
               d2 == IF effect = "deny" THEN d + 1 ELSE d
               h2 == IF effect = "review" THEN h + 1 ELSE h
    <2>1. e.requests = r /\ e.denied = d /\ e.held = h
        BY <1>1
    <2>2. Counted(e, effect) = [e EXCEPT !.requests = r2, !.denied = d2, !.held = h2]
        BY <2>1 DEF Counted
    <2> HIDE DEF r2, d2, h2
    <2>3. Counted(e, effect) = [identity |-> a, requests |-> r2, denied |-> d2, held |-> h2]
        BY <1>1, <2>2
    <2> QED BY <2>3 DEF r2, d2, h2
  <1> HIDE DEF Counted
  <1> QED BY <1>1, <1>2 DEF Entry

\* The table without an identity: the others, in their order.
LEMMA Others ==
    ASSUME TableInv, NEW id \in Identities
    PROVE  \E p \in 1..(Len(connected) + 1) :
              /\ Place(id) = IF p = Len(connected) + 1 THEN {} ELSE {p}
              /\ Popped(id) \in Seq(Entry)
              /\ Len(Popped(id)) = IF Place(id) = {} THEN Len(connected) ELSE Len(connected) - 1
              /\ \A i \in 1..Len(Popped(id)) :
                    Popped(id)[i] = connected[IF i < p THEN i ELSE i + 1]
  <1> DEFINE n == Len(connected)
  <1>1. connected \in Seq(Entry) /\ n \in Nat /\ \A i \in 1..n : connected[i] \in Entry
      BY TableFacts DEF TableInv, StatusTypeOK
  <1>2. CASE Place(id) = {}
    <2>1. n + 1 \in 1..(n + 1) /\ \A i \in 1..n : i < n + 1
        BY <1>1
    <2> QED BY <1>1, <1>2, <2>1 DEF Popped
  <1>3. CASE Place(id) # {}
    <2>1. PICK p \in 1..n : Place(id) = {p}
        BY <1>3, ItsEntry
    <2>2. Popped(id) = [i \in 1..(n - 1) |-> connected[IF i < p THEN i ELSE i + 1]]
        BY <2>1 DEF Popped
    <2>3. \A i \in 1..(n - 1) : (IF i < p THEN i ELSE i + 1) \in 1..n
        BY <1>1
    <2>4. n - 1 \in Nat /\ p \in 1..(n + 1) /\ p # n + 1
        BY <1>1
    <2>5. Popped(id) \in [1..(n - 1) -> Entry]
        BY <1>1, <2>2, <2>3
    <2>6. Popped(id) \in Seq(Entry) /\ Len(Popped(id)) = n - 1
      <3>1. Popped(id) \in Seq(Entry)
          BY <2>4, <2>5, SeqDef
      <3> QED BY <2>4, <2>5, <3>1
    <2> QED BY <1>1, <1>3, <2>1, <2>2, <2>4, <2>6
  <1> QED BY <1>2, <1>3

\* What a request makes of the table: the others in their order, without the
\* first of them if there is no room, and then its own entry.
LEMMA NewTable ==
    ASSUME TableInv, NEW id \in Identities, NEW effect, RecordRequest(id, effect)
    PROVE  \E p \in 1..(Len(connected) + 1), d \in {0, 1} :
              /\ Place(id) = IF p = Len(connected) + 1 THEN {} ELSE {p}
              /\ d = IF Place(id) = {} /\ Len(connected) = MaxIdentities THEN 1 ELSE 0
              /\ connected' \in Seq(Entry)
              /\ Len(connected') = IF Place(id) = {} /\ d = 0 THEN Len(connected) + 1
                                   ELSE Len(connected)
              /\ \A i \in 1..(Len(connected') - 1) :
                    connected'[i] = connected[IF i + d < p THEN i + d ELSE i + d + 1]
              /\ connected' # <<>> =>
                    connected'[Len(connected')] = Counted(EntryOf(id), effect)
  <1> DEFINE n == Len(connected)
             e == Counted(EntryOf(id), effect)
             s == UsedLast(id, e)
  <1>1. n \in Nat /\ n <= MaxIdentities /\ MaxIdentities \in Nat
      BY TableFacts DEF TableInv
  <1>2. e \in Entry
      BY ItsEntry, EntryCounts
  <1>3. PICK p \in 1..(n + 1) :
              /\ Place(id) = IF p = n + 1 THEN {} ELSE {p}
              /\ Popped(id) \in Seq(Entry)
              /\ Len(Popped(id)) = IF Place(id) = {} THEN n ELSE n - 1
              /\ \A i \in 1..Len(Popped(id)) :
                    Popped(id)[i] = connected[IF i < p THEN i ELSE i + 1]
      BY Others
  <1>4. /\ s \in Seq(Entry)
        /\ Len(s) = IF Place(id) = {} THEN n + 1 ELSE n
        /\ \A i \in 1..(Len(s) - 1) : s[i] = connected[IF i < p THEN i ELSE i + 1]
        /\ s[Len(s)] = e
    <2>1. s = Append(Popped(id), e)
        BY DEF UsedLast
    <2>2. /\ s \in Seq(Entry) /\ Len(s) = Len(Popped(id)) + 1
          /\ \A i \in 1..Len(Popped(id)) : s[i] = Popped(id)[i]
          /\ s[Len(Popped(id)) + 1] = e
        BY <1>2, <1>3, <2>1, AppendProperties
    <2> HIDE DEF s, e
    <2> QED BY <1>1, <1>3, <2>2
  <1>5. connected' = Capped(s)
      BY DEF RecordRequest
  <1> HIDE DEF s, e
  <1>6. CASE Place(id) = {} /\ n = MaxIdentities
    <2>1. Len(s) = n + 1 /\ connected' = SubSeq(s, 2, n + 1)
        BY <1>1, <1>4, <1>5, <1>6 DEF Capped
    <2>2. \A i \in 2..(n + 1) : s[i] \in Entry
        BY <1>1, <1>4, <2>1
    <2>3. /\ connected' \in Seq(Entry) /\ Len(connected') = n
          /\ \A i \in 1..n : connected'[i] = s[i + 1]
      <3>1. /\ SubSeq(s, 2, n + 1) \in Seq(Entry)
            /\ Len(SubSeq(s, 2, n + 1)) = IF 2 <= n + 1 THEN (n + 1) - 2 + 1 ELSE 0
            /\ \A i \in 1..((n + 1) - 2 + 1) : SubSeq(s, 2, n + 1)[i] = s[2 + i - 1]
          BY <1>1, <2>2, SubSeqProperties
      <3>2. (n + 1) - 2 + 1 = n /\ \A i \in 1..n : 2 + i - 1 = i + 1
          BY <1>1
      <3> QED BY <1>1, <2>1, <3>1, <3>2
    <2>4. p = n + 1
        BY <1>3, <1>6
    <2>5. \A i \in 1..(n - 1) : connected'[i] = connected[IF i + 1 < p THEN i + 1 ELSE i + 1 + 1]
      <3> SUFFICES ASSUME NEW i \in 1..(n - 1)
                   PROVE  connected'[i] = connected[IF i + 1 < p THEN i + 1 ELSE i + 1 + 1]
          OBVIOUS
      <3>1. i + 1 \in 1..(Len(s) - 1) /\ i \in 1..n /\ i + 1 < p
          BY <1>1, <2>1, <2>4
      <3> QED BY <1>4, <2>3, <3>1
    <2>6. connected' # <<>> => connected'[n] = e
      <3> SUFFICES ASSUME connected' # <<>> PROVE connected'[n] = e
          OBVIOUS
      <3>1. n \in 1..n
          BY <1>1, <2>3
      <3> QED BY <1>4, <2>1, <2>3, <3>1
    <2> DEFINE one == 1
    <2>7. one \in {0, 1} /\ one # 0
        OBVIOUS
    <2>8. /\ one = IF Place(id) = {} /\ n = MaxIdentities THEN 1 ELSE 0
          /\ Len(connected') = IF Place(id) = {} /\ one = 0 THEN n + 1 ELSE n
          /\ \A i \in 1..(Len(connected') - 1) :
                connected'[i] = connected[IF i + one < p THEN i + one ELSE i + one + 1]
        BY <1>6, <2>3, <2>5
    <2> HIDE DEF one
    <2> WITNESS p \in 1..(n + 1), one \in {0, 1}
    <2> QED BY <1>3, <2>3, <2>6, <2>8 DEF e
  <1>7. CASE ~(Place(id) = {} /\ n = MaxIdentities)
    <2>1. connected' = s
      <3>1. ~(Len(s) > MaxIdentities)
          BY <1>1, <1>4, <1>7
      <3> QED BY <1>5, <3>1 DEF Capped
    <2>2. Len(connected') = IF Place(id) = {} THEN n + 1 ELSE n
        BY <1>4, <2>1
    <2>3. \A i \in 1..(Len(s) - 1) : i + 0 = i
        BY <1>1, <1>4
    <2> WITNESS p \in 1..(Len(connected) + 1), 0 \in {0, 1}
    <2> QED BY <1>1, <1>3, <1>4, <1>7, <2>1, <2>2, <2>3 DEF e
  <1> QED BY <1>6, <1>7
\* Arrivals are finitely many, and so are those who made them.
LEMMA SeenIsFinite ==
    ASSUME TableInv, NEW j \in Nat
    PROVE  IsFiniteSet(SeenAfter(j))
  <1> DEFINE D == (j + 1)..Len(arrivals)
             f == [k \in D |-> arrivals[k]]
  <1>1. IsFiniteSet(D)
      BY TableFacts, FS_Interval
  <1>2. f \in Surjection(D, SeenAfter(j))
      BY DEF Surjection, SeenAfter
  <1> HIDE DEF D, f
  <1> QED BY <1>1, <1>2, FS_Surjection

\* An identity that made a request after arrival j is one of those.
LEMMA SeenIsHeard ==
    ASSUME TableInv, NEW j \in Nat, NEW x
    PROVE  /\ x \in SeenAfter(j) => x \in Identities /\ Heard(x) /\ LastRequest(x) > j
           /\ x \in Identities /\ Heard(x) /\ LastRequest(x) > j => x \in SeenAfter(j)
  <1>1. ASSUME x \in SeenAfter(j)
        PROVE  x \in Identities /\ Heard(x) /\ LastRequest(x) > j
    <2>1. PICK k \in (j + 1)..Len(arrivals) : x = arrivals[k]
        BY <1>1 DEF SeenAfter
    <2>2. k \in 1..Len(arrivals) /\ k > j /\ k \in Nat
        BY TableFacts
    <2>3. x \in Identities /\ k \in RequestsFrom(x, 1)
        BY <2>1, <2>2, TableFacts DEF RequestsFrom
    <2>4. Heard(x) /\ LastRequest(x) \in 1..Len(arrivals) /\ k <= LastRequest(x)
        BY <2>3, TableFacts DEF Heard, TableInv, LatestKnown
    <2> QED BY <2>2, <2>3, <2>4, TableFacts
  <1>2. ASSUME x \in Identities, Heard(x), LastRequest(x) > j
        PROVE  x \in SeenAfter(j)
    <2>1. LastRequest(x) \in RequestsFrom(x, 1) /\ LastRequest(x) \in 1..Len(arrivals)
        BY <1>2, TableFacts DEF TableInv, LatestKnown
    <2>2. arrivals[LastRequest(x)] = x /\ LastRequest(x) \in (j + 1)..Len(arrivals)
        BY <1>2, <2>1, TableFacts DEF RequestsFrom
    <2> QED BY <2>2 DEF SeenAfter
  <1> QED BY <1>1, <1>2

\* Who had to make way saw at least MaxIdentities others come later.
LEMMA MadeWay ==
    ASSUME TableInv, NEW id \in Identities, Heard(id), Place(id) = {}
    PROVE  /\ Cardinality(SeenAfter(LastRequest(id)) \ {id}) \in Nat
           /\ MaxIdentities <= Cardinality(SeenAfter(LastRequest(id)) \ {id})
           /\ Cardinality(SeenAfter(0)) \in Nat
           /\ MaxIdentities < Cardinality(SeenAfter(0))
  <1> DEFINE m == MaxIdentities
             S == SeenAfter(LastRequest(id)) \ {id}
             f == [i \in 1..m |-> connected[i].identity]
  <1>1. LastRequest(id) \in Nat /\ LastRequest(id) > 0 /\ m \in Nat
      BY TableFacts
  <1>2. Len(connected) = m /\ \A i \in 1..m : LastRequest(id) < LastRequest(connected[i].identity)
      BY DEF TableInv, Evicted
  <1>3. \A i \in 1..m : connected[i].identity \in Identities /\ Heard(connected[i].identity)
      BY <1>2, TableFacts DEF TableInv, Ordered
  <1>4. \A i \in 1..m : connected[i].identity \in S
    <2> SUFFICES ASSUME NEW i \in 1..m PROVE connected[i].identity \in S
        OBVIOUS
    <2>1. LastRequest(connected[i].identity) \in Nat
        BY <1>3, TableFacts
    <2>2. LastRequest(connected[i].identity) > LastRequest(id) /\ connected[i].identity # id
        BY <1>1, <1>2, <2>1
    <2> QED BY <1>1, <1>3, <2>2, SeenIsHeard
  <1>5. f \in Injection(1..m, S)
      BY <1>2, <1>4, PlaceIsUnique DEF Injection, IsInjective
  <1>6. IsFiniteSet(S) /\ IsFiniteSet(SeenAfter(0))
      BY <1>1, SeenIsFinite, FS_RemoveElement
  <1>7. Cardinality(1..m) = m
      BY <1>1, FS_Interval
  <1>8. Cardinality(S) \in Nat /\ m <= Cardinality(S)
    <2> HIDE DEF f, S, m
    <2>1. Cardinality(1..m) <= Cardinality(S)
        BY <1>5, <1>6, FS_Injection
    <2> QED BY <1>6, <1>7, <2>1, FS_CardinalityType
  <1>9. S \cup {id} \subseteq SeenAfter(0)
    <2>1. \A x \in S : x \in SeenAfter(0)
        BY <1>1 DEF SeenAfter
    <2> QED BY <1>1, <2>1, SeenIsHeard
  <1>10. Cardinality(S \cup {id}) = Cardinality(S) + 1
    <2>1. id \notin S
        OBVIOUS
    <2> HIDE DEF S
    <2> QED BY <1>6, <2>1, FS_AddElement
  <1>11. Cardinality(SeenAfter(0)) \in Nat /\ Cardinality(S) + 1 <= Cardinality(SeenAfter(0))
    <2> HIDE DEF S
    <2> QED BY <1>6, <1>9, <1>10, FS_Subset, FS_CardinalityType
  <1> HIDE DEF S, f
  <1> QED BY <1>1, <1>8, <1>11 DEF S

\* The table after a request is the table of the requests with it.
LEMMA RequestKeepsTable ==
    ASSUME TableInv, NEW id \in Identities, NEW effect, RecordRequest(id, effect)
    PROVE  TableInv'
  <1> DEFINE n == Len(connected)
             m == MaxIdentities
             e == Counted(EntryOf(id), effect)
             a == Len(arrivals)
  <1>1. arrivals' = Append(arrivals, id) /\ UNCHANGED <<refusals, events>>
      BY DEF RecordRequest
  <1>2. /\ LatestKnown' /\ arrivals' \in Seq(Identities)
        /\ Heard(id)' /\ LastRequest(id)' = a + 1
        /\ RequestsFrom(id, 1)' = RequestsFrom(id, 1) \cup {a + 1}
        /\ \A x \in Identities \ {id} : /\ RequestsFrom(x, 1)' = RequestsFrom(x, 1)
                                        /\ LastRequest(x)' = LastRequest(x)
                                        /\ Heard(x)' <=> Heard(x)
      BY <1>1, OneMoreRequest DEF Heard
  <1>3. PICK p \in 1..(n + 1), d \in {0, 1} :
              /\ Place(id) = IF p = n + 1 THEN {} ELSE {p}
              /\ d = IF Place(id) = {} /\ n = m THEN 1 ELSE 0
              /\ connected' \in Seq(Entry)
              /\ Len(connected') = IF Place(id) = {} /\ d = 0 THEN n + 1 ELSE n
              /\ \A i \in 1..(Len(connected') - 1) :
                    connected'[i] = connected[IF i + d < p THEN i + d ELSE i + d + 1]
              /\ connected' # <<>> => connected'[Len(connected')] = e
      BY NewTable
  <1> DEFINE n2 == Len(connected')
             from(i) == IF i + d < p THEN i + d ELSE i + d + 1
  <1>4. n \in Nat /\ m \in Nat /\ n <= m /\ n2 \in Nat /\ n2 <= m /\ a \in Nat /\ p \in 1..(n + 1)
      BY <1>3, TableFacts DEF TableInv
  <1>5. \A i \in 1..(n2 - 1) : /\ from(i) \in 1..n /\ from(i) \notin Place(id)
                               /\ connected'[i] = connected[from(i)]
    <2>1. \A i \in 1..(n2 - 1) : from(i) \in 1..n /\ from(i) # p
      <3>1. CASE Place(id) = {} /\ n = m
          BY <1>3, <1>4, <3>1
      <3>2. CASE Place(id) = {} /\ n # m
          BY <1>3, <1>4, <3>2
      <3>3. CASE Place(id) # {}
          BY <1>3, <1>4, <3>3
      <3> QED BY <3>1, <3>2, <3>3
    <2>2. \A i \in 1..(n2 - 1) : from(i) \notin Place(id)
        BY <1>3, <2>1
    <2> QED BY <1>3, <2>1, <2>2
  <1>6. n2 > 0 => connected'[n2] = e /\ e \in Entry /\ e.identity = id
                  /\ e.requests = EntryOf(id).requests + 1
    <2>1. n2 > 0 => connected' # <<>>
        BY <1>3
    <2> QED BY <1>3, <2>1, ItsEntry, EntryCounts
  <1>7. \A i, j \in 1..(n2 - 1) : i < j => from(i) < from(j)
      BY <1>3, <1>4
  <1>8. \A k \in 1..n : k \in Place(id) \/ (\E i \in 1..(n2 - 1) : from(i) = k)
                        \/ (k = 1 /\ Place(id) = {} /\ n = m)
    <2> SUFFICES ASSUME NEW k \in 1..n, k \notin Place(id), ~(k = 1 /\ Place(id) = {} /\ n = m)
                 PROVE  \E i \in 1..(n2 - 1) : from(i) = k
        OBVIOUS
    <2>1. CASE Place(id) = {} /\ n = m
      <3>0. p = n + 1
        <4>1. ASSUME p # n + 1 PROVE FALSE
          <5>1. Place(id) = {p}
              BY <1>3, <4>1
          <5> QED BY <2>1, <5>1
        <4> QED BY <4>1
      <3>4. d = 1
          BY <1>3, <2>1
      <3>1. d = 1 /\ n2 = n /\ p = n + 1
          BY <1>3, <3>0, <3>4
      <3>3. k # 1
          BY <2>1
      <3>2. k - 1 \in 1..(n2 - 1) /\ from(k - 1) = k
          BY <1>4, <3>1, <3>3
      <3> QED BY <3>2
    <2>2. CASE Place(id) = {} /\ n # m
      <3>1. d = 0 /\ n2 = n + 1 /\ p = n + 1
          BY <1>3, <1>4, <2>2
      <3>2. k \in 1..(n2 - 1) /\ from(k) = k
          BY <1>4, <3>1
      <3> QED BY <3>2
    <2>3. CASE Place(id) # {}
      <3>1. k # p /\ d = 0 /\ n2 = n
          BY <1>3, <2>3
      <3>2. CASE k < p
        <4>1. k \in 1..(n2 - 1) /\ from(k) = k
            BY <1>3, <1>4, <3>1, <3>2
        <4> QED BY <4>1
      <3>3. CASE k > p
        <4>1. k - 1 \in 1..(n2 - 1) /\ from(k - 1) = k
            BY <1>3, <1>4, <3>1, <3>3
        <4> QED BY <4>1
      <3> QED BY <1>4, <3>1, <3>2, <3>3
    <2> QED BY <2>1, <2>2, <2>3
  <1> HIDE DEF from, e
  <1>9. \A i \in 1..(n2 - 1) : /\ connected'[i].identity \in Identities \ {id}
                               /\ connected'[i].identity = connected[from(i)].identity
                               /\ connected'[i].requests = connected[from(i)].requests
                               /\ Heard(connected'[i].identity)
      BY <1>5, TableFacts DEF Place, TableInv, Ordered
  <1>10. \A i \in 1..n2 : i \in 1..(n2 - 1) \/ (i = n2 /\ n2 > 0)
      BY <1>4
  <1>11. StatusTypeOK'
      BY <1>1, <1>2, <1>3 DEF TableInv, StatusTypeOK
  <1>12. Ordered'
    <2>1. ASSUME NEW i \in 1..n2 PROVE Heard(connected[i].identity)'
        BY <1>2, <1>6, <1>9, <1>10
    <2>2. ASSUME NEW i \in 1..n2, NEW j \in 1..n2, i < j
          PROVE  LastRequest(connected[i].identity)' < LastRequest(connected[j].identity)'
      <3>1. i \in 1..(n2 - 1)
          BY <1>4, <2>2
      <3>2. /\ LastRequest(connected[i].identity)' = LastRequest(connected[from(i)].identity)
            /\ LastRequest(connected[from(i)].identity) \in 1..a
          BY <1>2, <1>9, <3>1, TableFacts
      <3>3. CASE j \in 1..(n2 - 1)
        <4>1. LastRequest(connected[j].identity)' = LastRequest(connected[from(j)].identity)
            BY <1>2, <1>9, <3>3
        <4> QED BY <1>5, <1>7, <2>2, <3>1, <3>2, <3>3, <4>1 DEF TableInv, Ordered
      <3>4. CASE j = n2
        <4>1. LastRequest(connected[j].identity)' = a + 1
            BY <1>2, <1>4, <1>6, <2>2, <3>4
        <4> QED BY <1>4, <3>2, <4>1
      <3> QED BY <1>10, <3>3, <3>4
    <2> QED BY <2>1, <2>2 DEF Ordered
  <1>13. Evicted'
    <2> SUFFICES ASSUME NEW x \in Identities, Heard(x)', Place(x)' = {}
                 PROVE  /\ n2 = m
                        /\ \A i \in 1..n2 : LastRequest(x)' < LastRequest(connected[i].identity)'
        BY DEF Evicted
    <2>1. \A i \in 1..n2 : connected'[i].identity # x
        BY DEF Place
    <2>2. CASE x = id
      <3>1. n2 = 0
          BY <1>4, <1>6, <2>1, <2>2
      <3>2. m = 0
          BY <1>3, <1>4, <3>1
      <3> QED BY <3>1, <3>2
    <2>3. CASE x # id
      <3>1. /\ Heard(x) /\ LastRequest(x)' = LastRequest(x) /\ LastRequest(x) \in 1..a
          BY <1>2, <2>3, TableFacts
      <3>2. n = m /\ \A i \in 1..(n2 - 1) : LastRequest(x) < LastRequest(connected[from(i)].identity)
        <4>1. CASE Place(x) = {}
            BY <1>5, <3>1, <4>1 DEF TableInv, Evicted
        <4>2. CASE Place(x) # {}
          <5>1. PICK k \in 1..n : connected[k].identity = x
              BY <4>2 DEF Place
          <5>2. k \notin Place(id)
              BY <2>3, <5>1 DEF Place
          <5>3. ~(\E i \in 1..(n2 - 1) : from(i) = k)
            <6>1. ASSUME NEW i \in 1..(n2 - 1), from(i) = k PROVE FALSE
                BY <1>4, <1>9, <2>1, <5>1, <6>1
            <6> QED BY <6>1
          <5>4. k = 1 /\ Place(id) = {} /\ n = m
              BY <1>8, <5>2, <5>3
          <5>5. ASSUME NEW i \in 1..(n2 - 1)
                PROVE  LastRequest(x) < LastRequest(connected[from(i)].identity)
            <6>1. from(i) \in 1..n /\ from(i) # k
                BY <1>5, <5>3
            <6>2. k < from(i)
                BY <1>4, <5>4, <6>1
            <6> QED BY <5>1, <6>1, <6>2 DEF TableInv, Ordered
          <5> QED BY <5>4, <5>5
        <4> QED BY <4>1, <4>2
      <3>3. n2 = m
        <4>1. Place(id) # {} \/ d = 1
            BY <1>3, <3>2
        <4> QED BY <1>3, <3>2, <4>1
      <3>4. \A i \in 1..n2 : LastRequest(x)' < LastRequest(connected[i].identity)'
        <4>1. \A i \in 1..(n2 - 1) : LastRequest(x)' < LastRequest(connected[i].identity)'
            BY <1>2, <1>9, <3>1, <3>2
        <4>2. ASSUME NEW i \in 1..n2, i = n2
              PROVE  LastRequest(x)' < LastRequest(connected[i].identity)'
          <5>1. LastRequest(connected[i].identity)' = a + 1
              BY <1>2, <1>4, <1>6, <4>2
          <5> QED BY <1>4, <3>1, <5>1
        <4> QED BY <1>10, <4>1, <4>2
      <3> QED BY <3>3, <3>4
    <2> QED BY <2>2, <2>3
  <1>14. CountsExact'
    <2> SUFFICES ASSUME Cardinality(SeenAfter(0))' <= m, NEW i \in 1..n2
                 PROVE  connected'[i].requests = Cardinality(RequestsFrom(connected[i].identity, 1)')
        BY DEF CountsExact
    <2>1. SeenAfter(0)' = SeenAfter(0) \cup {id}
      <3>1. /\ arrivals \in Seq(Identities) /\ a \in Nat
            /\ Len(arrivals') = a + 1 /\ arrivals'[a + 1] = id
            /\ \A k \in 1..a : arrivals'[k] = arrivals[k]
          BY <1>1, <1>4 DEF TableInv, StatusTypeOK
      <3> QED BY <3>1 DEF SeenAfter
    <2>2. IsFiniteSet(SeenAfter(0))
        BY SeenIsFinite
    <2>3. Cardinality(SeenAfter(0)) <= m
      <3>1. Cardinality(SeenAfter(0)) \in Nat /\ Cardinality(SeenAfter(0)') \in Nat
            /\ Cardinality(SeenAfter(0)) <= Cardinality(SeenAfter(0)')
        <4> DEFINE S == SeenAfter(0)
                   T == SeenAfter(0)'
        <4>1. IsFiniteSet(S) /\ Cardinality(S) \in Nat
            BY <2>2, FS_CardinalityType
        <4>2. T = S \cup {id}
            BY <2>1
        <4> HIDE DEF S, T
        <4>3. Cardinality(T) = IF id \in S THEN Cardinality(S) ELSE Cardinality(S) + 1
            BY <4>1, <4>2, FS_AddElement
        <4>4. Cardinality(T) \in Nat /\ Cardinality(S) <= Cardinality(T)
            BY <4>1, <4>3
        <4> QED BY <4>1, <4>4 DEF S, T
      <3> QED BY <1>4, <3>1
    <2>4. \A k \in 1..n : connected[k].requests = Cardinality(RequestsFrom(connected[k].identity, 1))
        BY <2>3 DEF TableInv, CountsExact
    <2>5. CASE i \in 1..(n2 - 1)
        BY <1>2, <1>5, <1>9, <2>4, <2>5
    <2>6. CASE i = n2 /\ n2 > 0
      <3>1. connected'[i].requests = EntryOf(id).requests + 1 /\ connected'[i].identity = id
          BY <1>6, <2>6
      <3>2. EntryOf(id).requests = Cardinality(RequestsFrom(id, 1))
        <4>1. CASE Place(id) = {}
          <5>1. RequestsFrom(id, 1) = {}
            <6>1. ASSUME Heard(id) PROVE FALSE
              <7>1. Cardinality(SeenAfter(0)) \in Nat /\ m < Cardinality(SeenAfter(0))
                  BY <4>1, <6>1, MadeWay
              <7> QED BY <1>4, <2>3, <7>1
            <6> QED BY <6>1 DEF Heard
          <5> QED BY <4>1, <5>1, ItsEntry, FS_EmptySet
        <4>2. CASE Place(id) # {}
          <5>1. PICK k \in 1..n : k \in Place(id)
              BY <4>2, ItsEntry
          <5> QED BY <2>4, <5>1, ItsEntry DEF Place
        <4> QED BY <4>1, <4>2
      <3>3. a + 1 \notin RequestsFrom(id, 1) /\ IsFiniteSet(RequestsFrom(id, 1))
        <4>1. RequestsFrom(id, 1) \subseteq 1..a
            BY DEF RequestsFrom
        <4>2. IsFiniteSet(1..a) /\ a + 1 \notin 1..a
            BY <1>4, FS_Interval
        <4> HIDE DEF a
        <4> QED BY <4>1, <4>2, FS_Subset
      <3>4. Cardinality(RequestsFrom(id, 1)') = Cardinality(RequestsFrom(id, 1)) + 1
        <4> DEFINE S == RequestsFrom(id, 1)
        <4> HIDE DEF S
        <4>1. Cardinality(S \cup {a + 1}) = Cardinality(S) + 1
            BY <3>3, FS_AddElement DEF S
        <4> QED BY <1>2, <4>1 DEF S
      <3> QED BY <3>1, <3>2, <3>4
    <2> QED BY <1>10, <2>5, <2>6
  <1> QED BY <1>2, <1>4, <1>11, <1>12, <1>13, <1>14 DEF TableInv

\* What the table says is what the property says.
LEMMA TableReports == ASSUME TableInv PROVE ReportsTheLatest
  <1> DEFINE n == Len(connected)
             m == MaxIdentities
  <1>1. n \in Nat /\ m \in Nat /\ n <= m
      BY TableFacts DEF TableInv
  <1>2. ASSUME NEW id \in Identities, NEW i \in 1..n, connected[i].identity = id
        PROVE  /\ RequestsFrom(id, 1) # {}
               /\ Cardinality(SeenAfter(LastRequest(id)) \ {id}) < m
    <2> DEFINE S == SeenAfter(LastRequest(id)) \ {id}
               f == [x \in S |-> CHOOSE j \in Place(x) : TRUE]
    <2>1. Heard(id) /\ LastRequest(id) \in Nat
        BY <1>2, TableFacts DEF TableInv, Ordered
    <2>2. ASSUME NEW x \in S
          PROVE  f[x] \in (i + 1)..n /\ connected[f[x]].identity = x
      <3>1. x \in Identities /\ Heard(x) /\ LastRequest(x) > LastRequest(id) /\ x # id
          BY <2>1, SeenIsHeard
      <3>2. LastRequest(x) \in Nat
          BY <3>1, TableFacts
      <3>3. Place(x) # {}
        <4>1. ASSUME Place(x) = {} PROVE FALSE
          <5>1. LastRequest(x) < LastRequest(id)
              BY <1>2, <3>1, <4>1 DEF TableInv, Evicted
          <5> QED BY <2>1, <3>1, <3>2, <5>1
        <4> QED BY <4>1
      <3>4. f[x] \in Place(x)
          BY <3>3
      <3>5. f[x] \in 1..n /\ connected[f[x]].identity = x
          BY <3>4 DEF Place
      <3>6. ~(f[x] < i)
        <4>1. ASSUME f[x] < i PROVE FALSE
          <5>1. LastRequest(x) < LastRequest(id)
              BY <1>2, <3>5, <4>1 DEF TableInv, Ordered
          <5> QED BY <2>1, <3>1, <3>2, <5>1
        <4> QED BY <4>1
      <3>7. f[x] # i
          BY <1>2, <3>1, <3>5
      <3> HIDE DEF f
      <3> QED BY <1>1, <3>5, <3>6, <3>7
    <2>3. f \in Injection(S, (i + 1)..n)
      <3>1. \A x, y \in S : f[x] = f[y] => x = y
        <4> HIDE DEF f
        <4> QED BY <2>2
      <3>2. f \in [S -> (i + 1)..n]
          BY <2>2
      <3> HIDE DEF f, S
      <3> QED BY <3>1, <3>2 DEF Injection, IsInjective
    <2>4. IsFiniteSet((i + 1)..n) /\ Cardinality((i + 1)..n) = n - i
        BY <1>1, FS_Interval
    <2>5. IsFiniteSet(S) /\ Cardinality(S) <= n - i
      <3> HIDE DEF f, S
      <3> QED BY <2>3, <2>4, FS_Injection
    <2>6. Cardinality(S) \in Nat
      <3> HIDE DEF S
      <3> QED BY <2>5, FS_CardinalityType
    <2> HIDE DEF f, S
    <2>7. Cardinality(S) < m
        BY <1>1, <2>5, <2>6
    <2> QED BY <2>1, <2>7 DEF Heard, S
  <1>3. ASSUME NEW id \in Identities, RequestsFrom(id, 1) # {},
               Cardinality(SeenAfter(LastRequest(id)) \ {id}) < m
        PROVE  \E i \in 1..n : connected[i].identity = id
    <2>1. ASSUME Place(id) = {} PROVE FALSE
        BY <1>1, <1>3, <2>1, MadeWay DEF Heard
    <2> QED BY <2>1 DEF Place
  <1> QED BY <1>2, <1>3 DEF ReportsTheLatest, TableInv, CountsExact

\* Nothing but a request and a restart touches the table.
LEMMA TableUntouched ==
    ASSUME TableInv, UNCHANGED <<connected, arrivals>>,
           refusals' \in [RefusalCodes -> Nat],
           events' \in Seq(EventTypes), Len(events') <= MaxEvents
    PROVE  TableInv'
  <1>1. /\ \A id \in Identities : /\ RequestsFrom(id, 1)' = RequestsFrom(id, 1)
                                  /\ LastRequest(id)' = LastRequest(id)
                                  /\ Place(id)' = Place(id)
        /\ SeenAfter(0)' = SeenAfter(0)
      BY DEF RequestsFrom, LastRequest, Place, SeenAfter
  <1>2. StatusTypeOK'
      BY DEF TableInv, StatusTypeOK
  <1>3. LatestKnown'
      BY <1>1 DEF TableInv, LatestKnown, Heard
  <1>4. Ordered'
    <2>1. connected' = connected /\ \A i \in 1..Len(connected) : connected[i].identity \in Identities
        BY TableFacts
    <2> QED BY <1>1, <2>1 DEF TableInv, Ordered, Heard
  <1>6. CountsExact'
    <2>1. connected' = connected /\ \A i \in 1..Len(connected) : connected[i].identity \in Identities
        BY TableFacts
    <2> QED BY <1>1, <2>1 DEF TableInv, CountsExact
  <1>5. Evicted'
    <2>1. connected' = connected /\ \A i \in 1..Len(connected) : connected[i].identity \in Identities
        BY TableFacts
    <2> QED BY <1>1, <2>1 DEF TableInv, Evicted, Heard
  <1> QED BY <1>2, <1>3, <1>4, <1>5, <1>6 DEF TableInv

LEMMA RefusalKeepsTable == ASSUME TableInv, NEW code, RecordIdentityRefusal(code) PROVE TableInv'
  <1>1. /\ refusals \in [RefusalCodes -> Nat] /\ events \in Seq(EventTypes) /\ Len(events) <= MaxEvents
        /\ refusals' = [refusals EXCEPT ![code] = @ + 1]
        /\ connected' = connected /\ events' = events /\ arrivals' = arrivals
      BY DEF RecordIdentityRefusal, TableInv, StatusTypeOK
  <1>2. refusals' \in [RefusalCodes -> Nat]
    <2>1. CASE code \in RefusalCodes
      <3>1. refusals[code] + 1 \in Nat
          BY <1>1, <2>1
      <3> QED BY <1>1, <2>1, <3>1
    <2>2. CASE code \notin RefusalCodes
        BY <1>1, <2>2
    <2> QED BY <2>1, <2>2
  <1> QED BY <1>1, <1>2, TableUntouched

LEMMA EventKeepsTable == ASSUME TableInv, NEW type \in EventTypes, AddEvent(type) PROVE TableInv'
  <1> DEFINE s == Append(events, type)
  <1>1. /\ refusals \in [RefusalCodes -> Nat] /\ events \in Seq(EventTypes) /\ Len(events) <= MaxEvents
        /\ events' = IF Len(s) > MaxEvents THEN Tail(s) ELSE s
        /\ connected' = connected /\ refusals' = refusals /\ arrivals' = arrivals
      BY DEF AddEvent, TableInv, StatusTypeOK
  <1>2. s \in Seq(EventTypes) /\ Len(s) = Len(events) + 1 /\ s # <<>>
      BY <1>1, AppendProperties
  <1>3. Len(events) \in Nat
      BY <1>1, LenProperties
  <1> HIDE DEF s
  <1>4. Tail(s) \in Seq(EventTypes) /\ Len(Tail(s)) = Len(s) - 1
      BY <1>2, HeadTailProperties
  <1>5. events' \in Seq(EventTypes) /\ Len(events') <= MaxEvents
      BY <1>1, <1>2, <1>3, <1>4
  <1> QED BY <1>1, <1>5, TableUntouched

\* An empty report.
LEMMA EmptyTable == StatusInit => TableInv
  <1> SUFFICES ASSUME StatusInit PROVE TableInv
      OBVIOUS
  <1> USE DEF StatusInit
  <1>1. \A id : RequestsFrom(id, 1) = {}
      BY DEF RequestsFrom
  <1>2. StatusTypeOK
    <2>1. events \in Seq(EventTypes) /\ Len(events) = 1
        BY DEF EventTypes
    <2>2. connected \in Seq(Entry) /\ arrivals \in Seq(Identities) /\ refusals \in [RefusalCodes -> Nat]
        OBVIOUS
    <2> QED BY <2>1, <2>2 DEF StatusTypeOK
  <1> QED BY <1>1, <1>2 DEF TableInv, LatestKnown, Ordered, Evicted, CountsExact, Heard

LEMMA RestartEmptiesTable == ASSUME StatusRestart PROVE TableInv'
  <1>1. StatusInit'
      BY DEF StatusRestart, StatusInit
  <1>2. (StatusInit => TableInv)'
      BY EmptyTable, PTL
  <1> QED BY <1>1, <1>2

-----------------------------------------------------------------------------
(* The listener's material.                                                *)

USE VersionAssumption

Usable == Versions \ Unusable

\* Of a context being built, the files read so far are usable and belong
\* together.
BuildsWhole ==
    pass.at = "build" =>
        /\ pass.left \in {Paths, <<"key", "ca">>, <<"ca">>, <<>>}
        /\ pass.left = <<"key", "ca">> => got["cert"] \in Usable
        /\ pass.left = <<"ca">> => got["cert"] \in Usable /\ got["key"] = got["cert"]

TlsInv == TlsTypeOK /\ BuildsWhole /\ ServesWholeMaterial

\* The orders in which a pass has files left to read.
LEMMA Orders ==
    /\ Head(Paths) = "cert" /\ Tail(Paths) = <<"key", "ca">> /\ Paths # <<>>
    /\ Head(<<"key", "ca">>) = "key" /\ Tail(<<"key", "ca">>) = <<"ca">>
    /\ Head(<<"cert", "ca">>) = "cert" /\ Tail(<<"cert", "ca">>) = <<"ca">>
    /\ Head(<<"ca">>) = "ca" /\ Tail(<<"ca">>) = <<>>
    /\ Paths # <<"key", "ca">> /\ Paths # <<"cert", "ca">> /\ Paths # <<"ca">>
    /\ <<"key", "ca">> # <<"cert", "ca">> /\ <<"key", "ca">> # <<"ca">>
    /\ <<"cert", "ca">> # <<"ca">> /\ <<"key", "ca">> # <<>> /\ <<"cert", "ca">> # <<>>
    /\ <<"ca">> # <<>>
  <1> QED BY DEF Paths

Orderings == {Paths, <<"key", "ca">>, <<"cert", "ca">>, <<"ca">>, <<>>}

\* A pass has its three fields.
LEMMA PassFields ==
    ASSUME TlsTypeOK
    PROVE  /\ pass = [at |-> pass.at, left |-> pass.left, boot |-> pass.boot]
           /\ pass.left \in Orderings /\ pass.boot \in BOOLEAN
  <1> QED BY DEF TlsTypeOK, Orderings

\* A pass goes on to the next file.
LEMMA PassAdvances ==
    ASSUME NEW at, NEW left, NEW boot, pass = [at |-> at, left |-> left, boot |-> boot],
           pass' = [pass EXCEPT !.left = Tail(@)]
    PROVE  pass' = Reread(at, Tail(left), boot)
  <1> QED BY DEF Reread

\* What a pass may be, once more as a set of its own.
Passes == [at: {"down", "digest", "build", "report", "idle"}, left: Orderings, boot: BOOLEAN]

\* A pass that begins, or ends.
LEMMA PassTypes ==
    /\ \A at \in {"digest", "build", "report"}, left \in Orderings, boot \in BOOLEAN :
            pass' = Reread(at, left, boot) => pass' \in Passes
    /\ pass' = Idle \/ pass' = Down => pass' \in Passes
    /\ Paths \in Orderings /\ <<"cert", "ca">> \in Orderings /\ <<>> \in Orderings
  <1>1. \A at \in {"digest", "build", "report"}, left \in Orderings, boot \in BOOLEAN :
            Reread(at, left, boot) \in Passes
      BY DEF Passes, Reread
  <1>2. Idle \in Passes /\ Down \in Passes
      BY DEF Passes, Idle, Down, Orderings
  <1>3. Paths \in Orderings /\ <<"cert", "ca">> \in Orderings /\ <<>> \in Orderings
      BY DEF Orderings
  <1> QED BY <1>1, <1>2, <1>3

\* A read, or a replacement, may be one of the upsets or not.
LEMMA Upsets ==
    ASSUME TlsTypeOK, Upset \/ Undisturbed \/ (\E f \in Files : CannotRead(f))
    PROVE  upsets' \in 0 .. MaxUpsets /\ spoilt' \in SUBSET Versions
  <1>1. Upset \/ Undisturbed
      BY DEF CannotRead
  <1>2. CASE Upset
      BY <1>2 DEF Upset, TlsTypeOK
  <1>3. CASE Undisturbed
      BY <1>3 DEF Undisturbed, TlsTypeOK
  <1> QED BY <1>1, <1>2, <1>3

\* Nothing has been read yet at the start.
LEMMA InitTls == TlsInit => TlsInv
  <1> SUFFICES ASSUME TlsInit PROVE TlsInv
      OBVIOUS
  <1>1. 0 \in Versions /\ 0 \in 0 .. MaxWrites /\ 0 \in 0 .. MaxUpsets
      BY DEF Versions
  <1>2. Nothing \in Reading /\ NoReport \in [{"cert", "ca"} -> FileContents \cup {Unread}]
      BY DEF Nothing, Reading, NoReport
  <1>3. TlsTypeOK
      BY <1>1, <1>2 DEF TlsInit, TlsTypeOK, FileContents, Down
  <1>4. BuildsWhole /\ ServesWholeMaterial
      BY DEF TlsInit, BuildsWhole, ServesWholeMaterial, Down
  <1> QED BY <1>3, <1>4 DEF TlsInv

\* Files change under the reader, who has read what he has read.
LEMMA RotateKeepsTls == ASSUME TlsInv, Rotate PROVE TlsInv'
  <1> USE DEF TlsInv
  <1>1. UNCHANGED <<served, digest, failed, pass, seen, got, certs>>
      BY DEF Rotate, WriteFile, RelinkFiles
  <1>2. /\ files' \in [Files -> FileContents] /\ newest' \in [Files -> Versions]
        /\ writes' \in 0 .. MaxWrites
    <2>1. CASE \E f \in Files, c \in FileContents : WriteFile(f, c)
        BY <2>1 DEF WriteFile, TlsTypeOK
    <2>2. CASE \E v \in Versions : RelinkFiles(v)
        BY <2>2 DEF RelinkFiles, TlsTypeOK, FileContents
    <2> QED BY <2>1, <2>2 DEF Rotate
  <1>4. upsets' \in 0 .. MaxUpsets /\ spoilt' \in SUBSET Versions
      BY Upsets DEF Rotate, WriteFile, RelinkFiles
  <1>3. TlsTypeOK'
      BY <1>1, <1>2, <1>4 DEF TlsTypeOK
  <1> QED BY <1>1, <1>3 DEF BuildsWhole, ServesWholeMaterial

\* A build pass reads the next file: it goes on with a usable one, and swaps
\* after the last.
LEMMA BuildReadKeepsTls == ASSUME TlsInv, BuildRead PROVE TlsInv'
  <1> DEFINE f == Head(pass.left)
  <1> USE DEF TlsInv
  <1>1. /\ pass = [at |-> "build", left |-> pass.left, boot |-> pass.boot]
        /\ pass.left \in {Paths, <<"key", "ca">>, <<"ca">>} /\ pass.boot \in BOOLEAN
      BY PassFields DEF BuildRead, BuildsWhole
  <1>2. f \in Files /\ files[f] \in FileContents
      BY <1>1, Orders DEF Files, TlsTypeOK
  <1> DEFINE goesOn == /\ Builds(got, f, files[f])
                       /\ got' = [got EXCEPT ![f] = files[f]]
                       /\ pass' = [pass EXCEPT !.left = Tail(@)]
                       /\ served' = IF f = LastBuilt THEN got' ELSE served
                       /\ UNCHANGED <<failed, seen>>
             ends == /\ pass' = IF pass.boot THEN Down ELSE Idle
                     /\ failed' = IF pass.boot THEN failed ELSE seen
                     /\ seen' = Nothing /\ got' = Nothing
                     /\ UNCHANGED served
  <1>5. /\ goesOn \/ ends
        /\ Undisturbed \/ CannotRead(f)
        /\ UNCHANGED <<files, newest, writes, digest, certs>>
      BY DEF BuildRead
  <1>6. upsets' \in 0 .. MaxUpsets /\ spoilt' \in SUBSET Versions
      BY <1>2, <1>5, Upsets
  <1>3. CASE goesOn
    <2>1. /\ got' = [got EXCEPT ![f] = files[f]]
          /\ pass' = [pass EXCEPT !.left = Tail(@)]
          /\ served' = IF f = LastBuilt THEN got' ELSE served
          /\ UNCHANGED <<failed, seen, files, newest, writes, digest, certs>>
        BY <1>3, <1>5
    <2>2. pass' = [at |-> "build", left |-> Tail(pass.left), boot |-> pass.boot]
        BY <1>1, <2>1, PassAdvances DEF Reread
    <2>3. got' \in Reading /\ got'[f] = files[f] /\ \A g \in Files \ {f} : got'[g] = got[g]
        BY <1>2, <2>1 DEF TlsTypeOK, Reading
    <2>4. files[f] \in Usable /\ (f = "key" => files[f] = got["cert"])
        BY <1>3 DEF Builds, Usable
    <2>5. TlsTypeOK'
      <3>1. Tail(pass.left) \in Orderings
          BY <1>1, Orders DEF Orderings
      <3>2. served' \in Reading
          BY <2>1, <2>3 DEF TlsTypeOK
      <3>3. pass' \in Passes
          BY <1>1, <2>2, <3>1 DEF Passes
      <3> QED BY <1>6, <2>1, <2>3, <3>2, <3>3 DEF TlsTypeOK, Passes, Orderings
    <2>6. /\ BuildsWhole'
          /\ f = "ca" => got'["cert"] = got'["key"] /\ \A g \in Files : got'[g] \in Usable
      <3>1. CASE pass.left = Paths
        <4>1. f = "cert" /\ Tail(pass.left) = <<"key", "ca">>
            BY <3>1, Orders
        <4> QED BY <2>2, <2>3, <2>4, <4>1, Orders DEF BuildsWhole, Files
      <3>2. CASE pass.left = <<"key", "ca">>
        <4>1. f = "key" /\ Tail(pass.left) = <<"ca">> /\ got["cert"] \in Usable
            BY <1>1, <3>2, Orders DEF BuildsWhole
        <4> QED BY <2>2, <2>3, <2>4, <4>1, Orders DEF BuildsWhole, Files
      <3>3. CASE pass.left = <<"ca">>
        <4>1. f = "ca" /\ Tail(pass.left) = <<>> /\ got["cert"] \in Usable /\ got["key"] = got["cert"]
            BY <1>1, <3>3, Orders DEF BuildsWhole
        <4> QED BY <2>2, <2>3, <2>4, <4>1, Orders DEF BuildsWhole, Files
      <3> QED BY <1>1, <3>1, <3>2, <3>3
    <2>7. ServesWholeMaterial'
      <3>1. CASE f = "ca"
          BY <2>1, <2>6, <3>1 DEF LastBuilt, ServesWholeMaterial, Usable, Files
      <3>2. CASE f # "ca"
          BY <2>1, <3>2 DEF LastBuilt, ServesWholeMaterial
      <3> QED BY <3>1, <3>2
    <2> QED BY <2>5, <2>6, <2>7
  <1>4. CASE ends
    <2>1. /\ pass' = IF pass.boot THEN Down ELSE Idle
          /\ failed' = IF pass.boot THEN failed ELSE seen
          /\ seen' = Nothing /\ got' = Nothing
          /\ UNCHANGED <<served, files, newest, writes, digest, certs>>
        BY <1>4, <1>5
    <2>2. pass'.at # "build" /\ Nothing \in Reading
        BY <2>1 DEF Down, Idle, Nothing, Reading
    <2>3. TlsTypeOK'
        BY <1>6, <2>1, <2>2 DEF TlsTypeOK, Down, Idle
    <2> QED BY <2>1, <2>2, <2>3 DEF BuildsWhole, ServesWholeMaterial
  <1> QED BY <1>3, <1>4, <1>5

\* The other steps of the thread, and a restart, read or drop, and swap
\* nothing in.
LEMMA PassesKeepTls ==
    ASSUME TlsInv,
           \/ Boot \/ Wake \/ DigestRead \/ DigestDone \/ BuildDone \/ ReportRead
           \/ ReportDone \/ TlsRestart
    PROVE  TlsInv'
  <1> USE DEF TlsInv
  <1>1. Nothing \in Reading /\ NoReport \in [{"cert", "ca"} -> FileContents \cup {Unread}]
      BY DEF Nothing, Reading, NoReport
  <1>2. pass = [at |-> pass.at, left |-> pass.left, boot |-> pass.boot]
      BY PassFields
  <1>8. pass.left \in Orderings /\ pass.boot \in BOOLEAN
      BY PassFields
  <1>3. CASE Boot \/ Wake \/ DigestDone \/ BuildDone
    <2>1. \/ pass' = Reread("digest", Paths, TRUE)
          \/ pass' = Reread("digest", Paths, FALSE)
          \/ pass' = Idle
          \/ pass' = Reread("build", Paths, pass.boot)
          \/ pass' = Reread("report", <<"cert", "ca">>, pass.boot)
        BY <1>3 DEF Boot, Wake, DigestDone, BuildDone
    <2>2. TlsTypeOK'
      <3>1. pass' \in Passes
        <4>1. CASE pass' = Reread("digest", Paths, TRUE)
            BY <4>1, PassTypes
        <4>2. CASE pass' = Reread("digest", Paths, FALSE)
            BY <4>2, PassTypes
        <4> QED BY <1>8, <2>1, <4>1, <4>2, PassTypes
      <3>2. /\ seen' \in Reading /\ got' \in Reading
            /\ digest' \in Reading /\ failed' \in Reading
          BY <1>1, <1>3 DEF Boot, Wake, DigestDone, BuildDone, DigestOf, TlsTypeOK
      <3> QED BY <1>3, <3>1, <3>2
              DEF Boot, Wake, DigestDone, BuildDone, TlsTypeOK, Passes, Orderings
    <2>3. BuildsWhole'
        BY <2>1, Orders DEF BuildsWhole, Reread, Idle
    <2> QED BY <1>3, <2>2, <2>3 DEF Boot, Wake, DigestDone, BuildDone, ServesWholeMaterial
  <1>4. CASE DigestRead
    <2> DEFINE f == Head(pass.left)
    <2>1. f \in Files /\ Tail(pass.left) \in Orderings
        BY <1>8, <1>4, Orders DEF DigestRead, Files, Orderings
    <2>2. files[f] \in FileContents
        BY <2>1 DEF TlsTypeOK
    <2>3. /\ pass.at = "digest"
          /\ \/ pass' = Reread("digest", <<>>, TRUE)
             \/ pass' = Idle
             \/ pass' = Reread("digest", Tail(pass.left), pass.boot)
      <3>1. pass' = [pass EXCEPT !.left = Tail(@)] =>
                pass' = Reread(pass.at, Tail(pass.left), pass.boot)
          BY <1>2, PassAdvances
      <3> QED BY <1>4, <3>1 DEF DigestRead
    <2>4. seen' \in Reading
        BY <1>1, <1>4, <2>1, <2>2 DEF DigestRead, TlsTypeOK, Reading
    <2>5. /\ UNCHANGED <<files, newest, writes, served, digest, failed, got, certs>>
          /\ upsets' \in 0 .. MaxUpsets /\ spoilt' \in SUBSET Versions
      <3>1. Undisturbed \/ CannotRead(f)
          BY <1>4 DEF DigestRead
      <3> QED BY <1>4, <2>1, <3>1, Upsets DEF DigestRead
    <2>6. TlsTypeOK'
      <3>1. pass' \in Passes
        <4>1. CASE pass' = Reread("digest", <<>>, TRUE)
            BY <4>1, PassTypes
        <4> QED BY <1>8, <2>1, <2>3, <4>1, PassTypes
      <3> QED BY <2>4, <2>5, <3>1 DEF TlsTypeOK, Passes, Orderings
    <2> QED BY <2>3, <2>5, <2>6 DEF BuildsWhole, ServesWholeMaterial, Reread, Idle
  <1>5. CASE ReportRead
    <2> DEFINE f == Head(pass.left)
    <2>1. f \in Files /\ Tail(pass.left) \in Orderings
        BY <1>8, <1>5, Orders DEF ReportRead, Files, Orderings
    <2>2. files[f] \in FileContents
        BY <2>1 DEF TlsTypeOK
    <2>3. /\ pass.at = "report"
          /\ pass' \in {Idle, Reread("report", Tail(pass.left), pass.boot)}
      <3>1. pass' = [pass EXCEPT !.left = Tail(@)] =>
                pass' = Reread(pass.at, Tail(pass.left), pass.boot)
          BY <1>2, PassAdvances
      <3> QED BY <1>5, <3>1 DEF ReportRead
    <2>4. got' \in Reading
        BY <1>1, <1>5, <2>1, <2>2 DEF ReportRead, TlsTypeOK, Reading
    <2>5. /\ UNCHANGED <<files, newest, writes, served, digest, failed, seen, certs>>
          /\ upsets' \in 0 .. MaxUpsets /\ spoilt' \in SUBSET Versions
      <3>1. Undisturbed \/ CannotRead(f)
          BY <1>5 DEF ReportRead
      <3> QED BY <1>5, <2>1, <3>1, Upsets DEF ReportRead
    <2>6. TlsTypeOK'
      <3>1. pass' \in Passes
        <4>1. CASE pass' = Reread("digest", <<>>, TRUE)
            BY <4>1, PassTypes
        <4> QED BY <1>8, <2>1, <2>3, <4>1, PassTypes
      <3> QED BY <2>4, <2>5, <3>1 DEF TlsTypeOK, Passes, Orderings
    <2> QED BY <2>3, <2>5, <2>6 DEF BuildsWhole, ServesWholeMaterial, Reread, Idle
  <1>6. CASE ReportDone
    <2>1. certs' \in [{"cert", "ca"} -> FileContents \cup {Unread}]
        BY <1>6 DEF ReportDone, TlsTypeOK, Reading, Files
    <2>2. TlsTypeOK'
        BY <1>1, <1>6, <2>1 DEF ReportDone, TlsTypeOK, Idle
    <2> QED BY <1>6, <2>2 DEF ReportDone, Idle, BuildsWhole, ServesWholeMaterial
  <1>7. CASE TlsRestart
    <2>1. TlsTypeOK'
        BY <1>1, <1>7 DEF TlsRestart, TlsTypeOK, Down
    <2> QED BY <1>7, <2>1 DEF TlsRestart, Down, BuildsWhole, ServesWholeMaterial
  <1> QED BY <1>3, <1>4, <1>5, <1>6, <1>7

\* A step that leaves the listener and its files alone.
LEMMA TlsUntouched == TlsInv /\ UNCHANGED tlsVars => TlsInv'
  <1> QED BY DEF tlsVars, TlsInv, TlsTypeOK, BuildsWhole, ServesWholeMaterial

\* Every step of the gateway.
LEMMA StepsKeepTls == ASSUME TlsInv, [Next]_vars PROVE TlsInv'
  <1>1. CASE RequestStep
      BY <1>1, TlsUntouched
         DEF RequestStep, Arrive, Identify, TooLarge, Judge, ResolveReview, Forward, Respond
  <1>2. CASE OAuthStep \/ ProviderRotates \/ Tick \/ UNCHANGED vars
      BY <1>2, TlsUntouched DEF OAuthStep, ProviderRotates, Tick, vars
  <1>3. CASE ReloadStep
      BY <1>3, PassesKeepTls, BuildReadKeepsTls DEF ReloadStep, TlsThread
  <1>4. CASE RotateStep
      BY <1>4, RotateKeepsTls DEF RotateStep
  <1>5. CASE Restart
      BY <1>5, PassesKeepTls DEF Restart
  <1> QED BY <1>1, <1>2, <1>3, <1>4, <1>5 DEF Next

LEMMA TlsInvariant == Spec => []TlsInv
  <1>1. Init => TlsInv
      BY InitTls DEF Init
  <1> QED BY <1>1, StepsKeepTls, PTL DEF Spec

\* A listener that serves anything serves a certificate with its own key and
\* an authority, all of them usable, whatever is written to the three files
\* between two reads (tls_reload.py: a bad rotation never drops the listener).
THEOREM MaterialIsWhole == Spec => []ServesWholeMaterial
  <1>1. TlsInv => ServesWholeMaterial
      BY DEF TlsInv
  <1> QED BY <1>1, TlsInvariant, PTL

-----------------------------------------------------------------------------
(* The provider's keys.                                                    *)

USE IdentityAssumption, RefreshAssumption

\* What is published was seen to be now, and no date lies ahead.
Dates ==
    /\ \A k \in Kids : k \in published <=> publishedSince[k] # None
    /\ \A k \in published : lastPublished[k] = now
    /\ \A k \in Kids : /\ lastPublished[k] # None => lastPublished[k] <= now
                       /\ publishedSince[k] # None => publishedSince[k] <= now
    /\ fetched_at # None => fetched_at <= now
    /\ attempted_at # None => attempted_at <= now
    /\ verdict # None => verdict.at <= now

\* A cached key was published when the cache was filled, or after.
CacheHeld ==
    \A k \in keys : /\ fetched_at # None /\ lastPublished[k] # None
                    /\ lastPublished[k] >= fetched_at

\* After an attempt that succeeded, every key that has been published since
\* before it is in the cache, until the cache is too old to be used.
RefreshHeld ==
    attempted_at # None /\ ~attemptFailed =>
        /\ fetched_at = attempted_at
        /\ \A k \in published :
              publishedSince[k] < attempted_at => k \in keys \/ now - fetched_at > MaxStale

JwksInv == /\ now \in Nat /\ JwksTypeOK
           /\ Dates /\ CacheHeld /\ RefreshHeld
           /\ KeysAreFresh /\ RefusalsAreExcused

\* The cache starts empty.
LEMMA InitJwks ==
    ASSUME NEW first \in SUBSET Kids, JwksInit(first), now = 0
    PROVE  JwksInv
  <1> USE DEF JwksInit
  <1>1. JwksTypeOK
      BY DEF JwksTypeOK, Times
  <1>2. Dates
      BY DEF Dates
  <1>3. CacheHeld /\ RefreshHeld /\ KeysAreFresh /\ RefusalsAreExcused
      BY DEF CacheHeld, RefreshHeld, KeysAreFresh, RefusalsAreExcused
  <1> QED BY <1>1, <1>2, <1>3 DEF JwksInv

\* A step that leaves the provider, the cache and the clock alone.
LEMMA JwksUntouched == JwksInv /\ UNCHANGED <<now, jwksVars>> => JwksInv'
  <1> QED BY DEF jwksVars, JwksInv, JwksTypeOK, Dates, CacheHeld, RefreshHeld, KeysAreFresh,
                 RefusalsAreExcused

\* Once a key has been seen published, it has been.
LEMMA SeenStaysSeen ==
    ASSUME JwksInv, NEW s \in SUBSET Kids, NEW t \in Nat, t >= now, SeenPublished(s, t)
    PROVE  /\ lastPublished' \in [Kids -> Times] /\ publishedSince' \in [Kids -> Times]
           /\ \A k \in Kids : lastPublished[k] # None =>
                /\ lastPublished'[k] # None /\ lastPublished'[k] >= lastPublished[k]
  <1> USE DEF JwksInv, JwksTypeOK, Times, SeenPublished
  <1>1. lastPublished' \in [Kids -> Times] /\ publishedSince' \in [Kids -> Times]
      OBVIOUS
  <1>2. ASSUME NEW k \in Kids, lastPublished[k] # None
        PROVE  lastPublished'[k] # None /\ lastPublished'[k] >= lastPublished[k]
    <2>1. lastPublished[k] \in Nat /\ lastPublished[k] <= now
        BY <1>2 DEF Dates
    <2>2. lastPublished'[k] \in {t, lastPublished[k]}
        OBVIOUS
    <2> QED BY <2>1, <2>2
  <1> QED BY <1>1, <1>2

\* The provider rotates, or time passes: keys in the cache only age.
LEMMA ProviderKeepsJwks ==
    ASSUME JwksInv,
           \/ (\E s \in SUBSET Kids : RotateKeys(s)) /\ UNCHANGED now
           \/ JwksPass /\ now' = now + 1
    PROVE  JwksInv'
  <1> USE DEF JwksInv
  <1>1. PICK s \in SUBSET Kids :
            /\ published' = s /\ SeenPublished(s, now')
            /\ now' = now \/ (now' = now + 1 /\ s = published)
            /\ UNCHANGED <<keys, fetched_at, attempted_at, attemptFailed, verdict>>
      BY DEF RotateKeys, JwksPass, JwksTypeOK
  <1>2. now' \in Nat /\ now' >= now
      BY <1>1
  <1>3. /\ lastPublished' \in [Kids -> Times] /\ publishedSince' \in [Kids -> Times]
        /\ \A k \in Kids : lastPublished[k] # None =>
                /\ lastPublished'[k] # None /\ lastPublished'[k] >= lastPublished[k]
      BY <1>1, <1>2, SeenStaysSeen
  <1>4. JwksTypeOK'
      BY <1>1, <1>3 DEF JwksTypeOK
  <1>5. \A k \in s : lastPublished'[k] = now' /\
            publishedSince'[k] = IF publishedSince[k] = None THEN now' ELSE publishedSince[k]
      BY <1>1 DEF SeenPublished
  <1>6. \A k \in Kids \ s : lastPublished'[k] = lastPublished[k] /\ publishedSince'[k] = None
      BY <1>1 DEF SeenPublished
  <1>7. Dates'
    <2>1. /\ \A k \in s : lastPublished'[k] = now'
          /\ \A k \in Kids : k \in s <=> publishedSince'[k] # None
        BY <1>2, <1>5, <1>6
    <2>2. ASSUME NEW k \in Kids
          PROVE  /\ lastPublished'[k] # None => lastPublished'[k] <= now'
                 /\ publishedSince'[k] # None => publishedSince'[k] <= now'
      <3>1. /\ lastPublished[k] \in Nat \cup {None} /\ publishedSince[k] \in Nat \cup {None}
            /\ lastPublished[k] # None => lastPublished[k] <= now
            /\ publishedSince[k] # None => publishedSince[k] <= now
          BY DEF JwksTypeOK, Times, Dates
      <3> QED BY <1>2, <1>5, <1>6, <3>1
    <2>3. /\ fetched_at # None => fetched_at <= now'
          /\ attempted_at # None => attempted_at <= now'
          /\ verdict # None => verdict.at <= now'
        BY <1>2 DEF Dates, JwksTypeOK, Times
    <2> QED BY <1>1, <2>1, <2>2, <2>3 DEF Dates
  <1>8. CacheHeld'
    <2> SUFFICES ASSUME NEW k \in keys
                 PROVE  /\ fetched_at # None /\ lastPublished'[k] # None
                        /\ lastPublished'[k] >= fetched_at
        BY <1>1 DEF CacheHeld
    <2>1. /\ fetched_at \in Nat /\ lastPublished[k] # None /\ lastPublished[k] >= fetched_at
          /\ k \in Kids /\ lastPublished[k] \in Nat /\ fetched_at # None
        BY DEF CacheHeld, JwksTypeOK, Times
    <2>2. lastPublished'[k] # None /\ lastPublished'[k] >= lastPublished[k]
        BY <1>3, <2>1
    <2>3. lastPublished'[k] \in Nat
        BY <1>3, <2>1, <2>2 DEF Times
    <2> QED BY <2>1, <2>2, <2>3
  <1>9. RefreshHeld'
    <2> SUFFICES ASSUME attempted_at # None, ~attemptFailed, NEW k \in s,
                        publishedSince'[k] < attempted_at
                 PROVE  fetched_at = attempted_at /\ (k \in keys \/ now' - fetched_at > MaxStale)
      <3>1. attempted_at # None /\ ~attemptFailed => fetched_at = attempted_at
          BY DEF RefreshHeld
      <3> QED BY <1>1, <3>1 DEF RefreshHeld
    <2>1. attempted_at \in Nat /\ attempted_at <= now /\ fetched_at = attempted_at
        BY DEF JwksTypeOK, Times, Dates, RefreshHeld
    <2>2. publishedSince[k] # None
        BY <1>2, <1>5, <2>1
    <2>3. publishedSince'[k] = publishedSince[k]
        BY <1>5, <2>2
    <2>4. k \in published
        BY <2>2 DEF Dates
    <2>5. k \in keys \/ now - fetched_at > MaxStale
        BY <2>3, <2>4 DEF RefreshHeld
    <2> QED BY <1>2, <2>1, <2>5
  <1>10. KeysAreFresh'
    <2> SUFFICES ASSUME verdict # None, verdict.trusted
                 PROVE  /\ lastPublished'[verdict.kid] # None
                        /\ lastPublished'[verdict.kid] + MaxStale >= verdict.at
        BY <1>1 DEF KeysAreFresh
    <2>1. verdict.kid \in Kids /\ verdict.at \in Nat
        BY DEF JwksTypeOK
    <2>2. /\ lastPublished[verdict.kid] # None
          /\ lastPublished[verdict.kid] + MaxStale >= verdict.at
        BY DEF KeysAreFresh
    <2>3. /\ lastPublished'[verdict.kid] # None
          /\ lastPublished'[verdict.kid] >= lastPublished[verdict.kid]
        BY <1>3, <2>1, <2>2
    <2>4. lastPublished[verdict.kid] \in Nat /\ lastPublished'[verdict.kid] \in Nat
        BY <1>3, <2>1, <2>2, <2>3 DEF JwksTypeOK, Times
    <2> QED BY <2>1, <2>2, <2>3, <2>4
  <1>11. RefusalsAreExcused'
    <2> SUFFICES ASSUME verdict # None, ~verdict.trusted, verdict.kid \in s,
                        publishedSince'[verdict.kid] <= verdict.at,
                        publishedSince'[verdict.kid] # verdict.at
                 PROVE  /\ attempted_at # None
                        /\ attemptFailed \/ publishedSince'[verdict.kid] >= attempted_at
                        /\ \/ attempted_at = verdict.at
                           \/ verdict.at - attempted_at < MinRefresh
        BY <1>1 DEF RefusalsAreExcused
    <2>1. verdict.kid \in Kids /\ verdict.at \in Nat /\ verdict.at <= now
        BY DEF JwksTypeOK, Dates
    <2>2. publishedSince[verdict.kid] # None
        BY <1>2, <1>5, <2>1
    <2>3. publishedSince'[verdict.kid] = publishedSince[verdict.kid]
        BY <1>5, <2>2
    <2>4. verdict.kid \in published
        BY <2>1, <2>2 DEF Dates
    <2> QED BY <2>3, <2>4 DEF RefusalsAreExcused
  <1> QED BY <1>2, <1>4, <1>7, <1>8, <1>9, <1>10, <1>11

\* The process restarts with an empty cache and without having tried.
LEMMA RestartKeepsJwks == ASSUME JwksInv, JwksRestart, UNCHANGED now PROVE JwksInv'
  <1> USE DEF JwksInv, JwksRestart
  <1>1. JwksTypeOK'
      BY DEF JwksTypeOK, Times
  <1>2. Dates'
      BY DEF Dates
  <1>3. (CacheHeld /\ RefreshHeld /\ KeysAreFresh /\ RefusalsAreExcused)'
      BY DEF CacheHeld, RefreshHeld, KeysAreFresh, RefusalsAreExcused
  <1> QED BY <1>1, <1>2, <1>3

\* get_key: a key it trusts was published, and has not been out of the
\* provider's set for longer than MaxStale.
LEMMA GetKeyKeepsJwks ==
    ASSUME JwksInv, NEW kid \in Kids, NEW answered \in BOOLEAN, GetKey(kid, answered),
           UNCHANGED now
    PROVE  JwksInv' /\ (verdict'.trusted => lastPublished'[kid] # None)
  <1> DEFINE asks   == NeedsRefresh(kid)
             fresh  == asks /\ answered
             at     == IF fresh THEN now ELSE fetched_at
             cached == IF fresh THEN published ELSE keys
  <1>1. /\ attempted_at' = IF asks THEN now ELSE attempted_at
        /\ attemptFailed' = IF asks THEN ~answered ELSE attemptFailed
        /\ fetched_at' = at
        /\ keys' = IF Trusted(at) THEN cached ELSE {}
        /\ verdict' = [kid |-> kid, at |-> now, trusted |-> kid \in keys']
        /\ UNCHANGED <<published, lastPublished, publishedSince>>
      BY DEF GetKey
  <1>2. /\ now \in Nat /\ now' = now /\ published \in SUBSET Kids /\ keys \in SUBSET Kids
        /\ fetched_at \in Times /\ attempted_at \in Times
        /\ at \in Times /\ cached \in SUBSET Kids
      BY DEF JwksInv, JwksTypeOK, Times
  <1>3. ~asks => \/ attempted_at # None /\ now - attempted_at < MinRefresh
                 \/ fetched_at # None /\ now - fetched_at <= JwksTTL /\ kid \in keys
    <2>1. fetched_at # None => fetched_at \in Nat
        BY <1>2 DEF Times
    <2> QED BY <1>2, <2>1 DEF NeedsRefresh, Recently
  <1>4. fresh => asks /\ answered /\ at = now /\ cached = published /\ Trusted(at)
      BY <1>2 DEF Trusted
  <1>5. ~fresh => at = fetched_at /\ cached = keys
      OBVIOUS
  <1>6. asks /\ ~fresh => ~answered
      OBVIOUS
  <1> HIDE DEF asks, fresh, at, cached
  <1>7. /\ verdict'.kid = kid /\ verdict'.at = now /\ verdict'.trusted = (kid \in keys')
        /\ verdict' # None => verdict' \in [kid: Kids, at: Nat, trusted: BOOLEAN]
        /\ verdict' \in [kid: Kids, at: Nat, trusted: BOOLEAN] \cup {None}
      BY <1>1, <1>2
  <1>8. JwksTypeOK'
    <2>1. attemptFailed' \in BOOLEAN
        BY <1>1 DEF JwksInv, JwksTypeOK
    <2>2. attempted_at' \in Times /\ keys' \in SUBSET Kids
        BY <1>1, <1>2 DEF Times
    <2> QED BY <1>1, <1>2, <1>7, <2>1, <2>2 DEF JwksInv, JwksTypeOK
  <1>9. Dates'
    <2>1. at # None => at <= now
        BY <1>2, <1>4, <1>5 DEF JwksInv, Dates
    <2>2. attempted_at' # None => attempted_at' <= now
        BY <1>1, <1>2 DEF JwksInv, Dates
    <2>3. verdict'.at <= now
        BY <1>2, <1>7
    <2>4. /\ \A k \in Kids : k \in published' <=> publishedSince'[k] # None
          /\ \A k \in published' : lastPublished'[k] = now'
          /\ \A k \in Kids : /\ lastPublished'[k] # None => lastPublished'[k] <= now'
                             /\ publishedSince'[k] # None => publishedSince'[k] <= now'
        BY <1>1, <1>2 DEF JwksInv, Dates
    <2> QED BY <1>1, <1>2, <2>1, <2>2, <2>3, <2>4 DEF Dates
  <1>10. CacheHeld'
    <2>1. CASE fresh
        BY <1>1, <1>2, <1>4, <2>1 DEF JwksInv, Dates, CacheHeld
    <2>2. CASE ~fresh
        BY <1>1, <1>5, <2>2 DEF JwksInv, CacheHeld
    <2> QED BY <2>1, <2>2
  <1>11. RefreshHeld'
    <2>1. CASE fresh
        BY <1>1, <1>2, <1>4, <2>1 DEF RefreshHeld
    <2>2. CASE asks /\ ~fresh
        BY <1>1, <1>6, <2>2 DEF RefreshHeld
    <2>3. CASE ~asks
      <3>1. ~fresh
          BY <1>4, <2>3
      <3>2. UNCHANGED <<attempted_at, attemptFailed, fetched_at, published, publishedSince>>
          BY <1>1, <1>5, <2>3, <3>1
      <3>3. fetched_at # None => Trusted(fetched_at) \/ now - fetched_at > MaxStale
          BY <1>2 DEF Trusted, Times
      <3>4. attempted_at # None /\ ~attemptFailed => fetched_at # None
          BY DEF JwksInv, RefreshHeld
      <3> QED BY <1>1, <1>2, <1>5, <3>1, <3>2, <3>3, <3>4 DEF JwksInv, RefreshHeld
    <2> QED BY <1>4, <2>1, <2>2, <2>3
  <1>12. kid \in keys' => /\ lastPublished[kid] \in Nat
                          /\ lastPublished[kid] + MaxStale >= now
    <2> SUFFICES ASSUME kid \in keys'
                 PROVE  lastPublished[kid] \in Nat /\ lastPublished[kid] + MaxStale >= now
        OBVIOUS
    <2>1. /\ fetched_at' # None /\ lastPublished[kid] # None
          /\ lastPublished[kid] >= fetched_at'
        BY <1>1, <1>10 DEF CacheHeld
    <2>2. now - fetched_at' <= MaxStale
        BY <1>1 DEF Trusted
    <2>3. lastPublished[kid] \in Nat /\ fetched_at' \in Nat
        BY <1>1, <1>2, <2>1 DEF JwksInv, JwksTypeOK, Times
    <2> QED BY <1>2, <2>1, <2>2, <2>3
  <1>13. KeysAreFresh'
      BY <1>1, <1>7, <1>12 DEF KeysAreFresh
  <1>14. RefusalsAreExcused'
    <2> SUFFICES ASSUME kid \notin keys', kid \in published, publishedSince[kid] <= now
                 PROVE  /\ attempted_at' # None
                        /\ attemptFailed' \/ publishedSince[kid] >= attempted_at'
                        /\ attempted_at' = now \/ now - attempted_at' < MinRefresh
        BY <1>1, <1>7 DEF RefusalsAreExcused
    <2>1. ~fresh
        BY <1>1, <1>4
    <2>2. CASE asks
        BY <1>1, <1>2, <1>6, <2>1, <2>2
    <2>3. CASE ~asks
      <3>1. UNCHANGED <<attempted_at, attemptFailed>> /\ at = fetched_at /\ cached = keys
          BY <1>1, <1>5, <2>1, <2>3
      <3>2. ~(fetched_at # None /\ now - fetched_at <= JwksTTL /\ kid \in keys)
        <4> SUFFICES ASSUME fetched_at # None, now - fetched_at <= JwksTTL, kid \in keys
                     PROVE  FALSE
            OBVIOUS
        <4>1. fetched_at \in Nat
            BY <1>2 DEF Times
        <4>2. Trusted(at)
            BY <1>2, <3>1, <4>1 DEF Trusted
        <4> QED BY <1>1, <3>1, <4>2
      <3>3. attempted_at # None /\ now - attempted_at < MinRefresh /\ attempted_at \in Nat
          BY <1>2, <1>3, <2>3, <3>2 DEF Times
      <3>4. CASE ~attemptFailed
        <4>1. fetched_at = attempted_at /\ now - fetched_at <= MaxStale
            BY <1>2, <3>3, <3>4 DEF JwksInv, RefreshHeld
        <4>2. Trusted(at)
            BY <3>1, <3>3, <4>1 DEF Trusted
        <4>3. kid \notin keys
            BY <1>1, <3>1, <4>2
        <4>4. publishedSince[kid] \in Nat
            BY DEF JwksInv, JwksTypeOK, Times, Dates
        <4>5. ~(publishedSince[kid] < attempted_at)
            BY <1>2, <3>3, <3>4, <4>1, <4>3 DEF JwksInv, RefreshHeld
        <4> QED BY <3>1, <3>3, <4>4, <4>5
      <3> QED BY <3>1, <3>3, <3>4
    <2> QED BY <2>2, <2>3
  <1>15. verdict'.trusted => lastPublished'[kid] # None
      BY <1>1, <1>7, <1>12
  <1> QED BY <1>2, <1>8, <1>9, <1>10, <1>11, <1>13, <1>14, <1>15 DEF JwksInv

-----------------------------------------------------------------------------
(* Who a request is judged as.                                             *)

BoundTo(kind, subject, agent) == [kind |-> kind, subject |-> subject, agent |-> agent] \in Bindings

\* A lookup that finds an agent finds the binding to it.
LEMMA AgentForIsBound ==
    ASSUME NEW kind, NEW subject, AgentFor(kind, subject) # None
    PROVE  BoundTo(kind, subject, AgentFor(kind, subject))
  <1> DEFINE bound == {b \in Bindings : b.kind = kind /\ b.subject = subject}
  <1>1. bound # {}
      BY DEF AgentFor
  <1>2. PICK b \in bound : AgentFor(kind, subject) = b.agent
    <2>1. (CHOOSE b \in bound : TRUE) \in bound
        BY <1>1
    <2> QED BY <1>1, <2>1 DEF AgentFor
  <1>3. b = [kind |-> b.kind, subject |-> b.subject, agent |-> b.agent]
      OBVIOUS
  <1> QED BY <1>2, <1>3 DEF BoundTo

\* A credential that is not refused proves a bound agent.
LEMMA CertProves ==
    ASSUME NEW cert, ~Refused(FromCert(cert))
    PROVE  /\ BoundTo("mtls", cert.cn, FromCert(cert).agent)
           /\ FromCert(cert).method = "mtls"
  <1>1. cert.cn # None /\ AgentFor("mtls", cert.cn) # None
      BY DEF FromCert, Refused, Refusal
  <1> QED BY <1>1, AgentForIsBound DEF FromCert, Verified

LEMMA HeaderProves ==
    ASSUME NEW methods, NEW token, NEW trusted \in BOOLEAN,
           ~Refused(FromHeader(methods, token, trusted))
    PROVE  LET outcome == FromHeader(methods, token, trusted) IN
           /\ BoundTo(IF ReadAsToken(methods, token) THEN "jwt" ELSE "secret", token.subject,
                     outcome.agent)
           /\ ReadAsToken(methods, token) => trusted /\ token.claims_ok
           /\ outcome.method \in {"jwt", "secret"}
  <1>1. CASE ReadAsToken(methods, token)
    <2>1. ~Refused(FromToken(token, trusted))
        BY <1>1 DEF FromHeader
    <2>2. trusted /\ token.claims_ok /\ AgentFor("jwt", token.subject) # None
        BY <2>1 DEF FromToken, Refused, Refusal
    <2>3. FromToken(token, trusted) = Verified(AgentFor("jwt", token.subject), "jwt")
        BY <2>2 DEF FromToken
    <2>4. FromHeader(methods, token, trusted) = FromToken(token, trusted)
        BY <1>1 DEF FromHeader
    <2>5. /\ FromHeader(methods, token, trusted).agent = AgentFor("jwt", token.subject)
          /\ FromHeader(methods, token, trusted).method = "jwt"
        BY <2>3, <2>4 DEF Verified
    <2>6. BoundTo("jwt", token.subject, AgentFor("jwt", token.subject))
        BY <2>2, AgentForIsBound
    <2> HIDE DEF BoundTo
    <2> QED BY <1>1, <2>2, <2>5, <2>6
  <1>2. CASE ~ReadAsToken(methods, token)
    <2>1. ~Refused(FromSecret(token))
        BY <1>2 DEF FromHeader
    <2>2. AgentFor("secret", token.subject) # None
        BY <2>1 DEF FromSecret, Refused, Refusal
    <2> QED BY <1>2, <2>2, AgentForIsBound DEF FromHeader, FromSecret, Verified
  <1> QED BY <1>1, <1>2

\* resolve(): every credential presented for an enabled method is bound to
\* the agent that comes out, and nobody comes out only if there was none.
LEMMA ResolveProves ==
    ASSUME NEW methods, NEW cert, NEW token, NEW trusted \in BOOLEAN,
           ~Refused(Resolve(methods, cert, token, trusted))
    PROVE  LET outcome == Resolve(methods, cert, token, trusted)
               certified == "mtls" \in methods /\ cert # None
               headed    == token # None /\ methods \cap {"jwt", "secret"} # {}
           IN /\ certified => BoundTo("mtls", cert.cn, outcome.agent)
              /\ headed =>
                    /\ BoundTo(IF ReadAsToken(methods, token) THEN "jwt" ELSE "secret",
                              token.subject, outcome.agent)
                    /\ ReadAsToken(methods, token) => trusted /\ token.claims_ok
              /\ outcome = NoIdentity <=> ~certified /\ ~headed
              /\ certified \/ headed => outcome.method \in Methods
  <1> DEFINE outcome == Resolve(methods, cert, token, trusted)
             hasCert == "mtls" \in methods /\ cert # None
             hasHead == token # None /\ methods \cap {"jwt", "secret"} # {}
             certified == IF hasCert THEN FromCert(cert) ELSE NoIdentity
             headed    == IF hasHead THEN FromHeader(methods, token, trusted) ELSE NoIdentity
  <1>1. outcome =
            IF Refused(certified) THEN certified
            ELSE IF Refused(headed) THEN headed
            ELSE IF certified = NoIdentity THEN headed
            ELSE IF headed = NoIdentity THEN certified
            ELSE IF certified.agent # headed.agent THEN Refusal(403, "identity_conflict")
            ELSE Verified(headed.agent, IF headed.method = "jwt" THEN "mtls+jwt" ELSE "mtls+secret")
      BY DEF Resolve, RefusalOf
  <1>2. ~Refused(certified) /\ ~Refused(headed)
      BY <1>1
  <1>3. hasCert => /\ BoundTo("mtls", cert.cn, certified.agent)
                   /\ certified.method = "mtls" /\ certified # NoIdentity
    <2>1. hasCert => ~Refused(FromCert(cert))
        BY <1>2
    <2> QED BY <2>1, CertProves DEF NoIdentity, Refusal
  <1>4. hasHead => /\ BoundTo(IF ReadAsToken(methods, token) THEN "jwt" ELSE "secret",
                             token.subject, headed.agent)
                   /\ ReadAsToken(methods, token) => trusted /\ token.claims_ok
                   /\ headed.method \in {"jwt", "secret"} /\ headed # NoIdentity
    <2>1. hasHead => ~Refused(FromHeader(methods, token, trusted))
        BY <1>2
    <2> QED BY <2>1, HeaderProves DEF NoIdentity, Refusal
  <1>5. /\ ~hasCert => certified = NoIdentity
        /\ ~hasHead => headed = NoIdentity
      OBVIOUS
  <1>6. NoIdentity.method = "path" /\ Refused(Refusal(403, "identity_conflict"))
      BY DEF NoIdentity, Refusal, Refused
  <1> HIDE DEF outcome, hasCert, hasHead, certified, headed
  <1>7. CASE hasCert /\ hasHead
    <2>1. /\ certified.agent = headed.agent
          /\ outcome = Verified(headed.agent, IF headed.method = "jwt" THEN "mtls+jwt" ELSE "mtls+secret")
        BY <1>1, <1>2, <1>3, <1>4, <1>6, <1>7 DEF outcome
    <2>2. outcome.agent = headed.agent /\ outcome.method \in {"mtls+jwt", "mtls+secret"}
        BY <2>1 DEF Verified
    <2> QED BY <1>3, <1>4, <1>6, <1>7, <2>1, <2>2 DEF Methods, outcome, hasCert, hasHead
  <1>8. CASE hasCert /\ ~hasHead
    <2>1. outcome = certified
        BY <1>1, <1>2, <1>3, <1>5, <1>8
    <2> QED BY <1>3, <1>8, <2>1 DEF Methods, outcome, hasCert, hasHead
  <1>9. CASE ~hasCert
    <2>1. outcome = headed
        BY <1>1, <1>2, <1>5, <1>9
    <2> QED BY <1>4, <1>5, <1>9, <2>1 DEF Methods, outcome, hasCert, hasHead
  <1> QED BY <1>7, <1>8, <1>9

\* What identified a request that is past its identification.
Proven(r) ==
    /\ \A p \in Presented(r.input) :
            /\ BoundTo(p[1], p[2], r.agent)
            /\ p[1] = "jwt" => /\ r.input.token.claims_ok
                               /\ r.input.token.kid \in Kids
                               /\ lastPublished[r.input.token.kid] # None
    /\ Presented(r.input) = {} => ~settings.require /\ r.agent = r.input.claim
    /\ Presented(r.input) # {} => r.input.claim \in {Anonymous, r.agent}

\* A request is as it came until it is identified, and proven from then on.
Identity ==
    req # None =>
        /\ Whole(req) /\ req.stage \in Stages
        /\ req.input \in Traffic[settings.name]
        /\ req.stage = "identify" =>
              req.agent = req.input.claim /\ req.method = "path" /\ req.effect = None
        /\ req.stage # "identify" => Proven(req)

IdentityInv == settings \in Settings /\ JwksInv /\ Identity

\* Once seen published, a key has been, in every step.
LEMMA SeenIsKept ==
    ASSUME JwksInv,
           \/ UNCHANGED lastPublished
           \/ \E s \in SUBSET Kids : RotateKeys(s) /\ UNCHANGED now
           \/ JwksPass /\ now' = now + 1
    PROVE  \A k \in Kids : lastPublished[k] # None => lastPublished'[k] # None
  <1>1. CASE UNCHANGED lastPublished
      BY <1>1
  <1>2. CASE \E s \in SUBSET Kids : RotateKeys(s) /\ UNCHANGED now
    <2>1. PICK s \in SUBSET Kids : SeenPublished(s, now)
        BY <1>2 DEF RotateKeys
    <2>2. now \in Nat /\ now >= now
        BY DEF JwksInv
    <2> QED BY <2>1, <2>2, SeenStaysSeen
  <1>3. CASE JwksPass /\ now' = now + 1
    <2>1. published \in SUBSET Kids /\ now + 1 \in Nat /\ now + 1 >= now
        BY DEF JwksInv, JwksTypeOK
    <2> QED BY <1>3, <2>1, SeenStaysSeen DEF JwksPass
  <1> QED BY <1>1, <1>2, <1>3

\* The key of a token the gateway knows how to ask for.
LEMMA TrafficKeys ==
    ASSUME settings \in Settings, NEW r \in Traffic[settings.name],
           r.token # None, r.token.kid # None
    PROVE  r.token.kid \in Kids
  <1> QED BY TrafficAssumption

\* A request that nothing touches stays proven: nothing is unseen.
LEMMA IdentityUntouched ==
    ASSUME IdentityInv, UNCHANGED <<req, settings>>,
           \A k \in Kids : lastPublished[k] # None => lastPublished'[k] # None
    PROVE  Identity'
  <1> QED BY DEF IdentityInv, Identity, Whole, Proven, Presented, UsesTls

\* The steps of a request after it was identified change neither who it is
\* from nor what it came with.
LEMMA IdentityCarried ==
    ASSUME IdentityInv, req # None, req.stage # "identify", UNCHANGED <<settings, jwksVars>>,
           req' # None => /\ Whole(req') /\ req'.stage \in Stages \ {"identify"}
                          /\ req'.input = req.input /\ req'.agent = req.agent
    PROVE  Identity'
  <1>1. CASE req' = None
      BY <1>1 DEF Identity
  <1>2. CASE req' # None
    <2>1. Proven(req) /\ req.input \in Traffic[settings.name]
        BY DEF IdentityInv, Identity
    <2>2. Proven(req)'
        BY <1>2, <2>1 DEF Proven, Presented, UsesTls, jwksVars
    <2> QED BY <1>2, <2>1, <2>2 DEF Identity
  <1> QED BY <1>1, <1>2

\* What a request presents, as resolve() takes it.
LEMMA PresentedIs ==
    ASSUME NEW input
    PROVE  LET certified == UsesTls /\ input.cert # None
               headed    == input.token # None /\ settings.methods \cap {"jwt", "secret"} # {}
               kind      == IF ReadAsToken(settings.methods, input.token) THEN "jwt" ELSE "secret"
           IN /\ Presented(input) = {} <=> ~certified /\ ~headed
              /\ \A p \in Presented(input) :
                    \/ certified /\ p[1] = "mtls" /\ p[2] = input.cert.cn
                    \/ headed /\ p[1] = kind /\ p[2] = input.token.subject
  <1> DEFINE certified == UsesTls /\ input.cert # None
             headed    == input.token # None /\ settings.methods \cap {"jwt", "secret"} # {}
             kind      == IF ReadAsToken(settings.methods, input.token) THEN "jwt" ELSE "secret"
             cert      == <<"mtls", input.cert.cn>>
             head      == <<kind, input.token.subject>>
  <1>1. Presented(input) = (IF certified THEN {cert} ELSE {}) \cup (IF headed THEN {head} ELSE {})
      BY DEF Presented
  <1>2. /\ cert[1] = "mtls" /\ cert[2] = input.cert.cn
        /\ head[1] = kind /\ head[2] = input.token.subject
      OBVIOUS
  <1> HIDE DEF certified, headed, kind, cert, head
  <1>3. /\ Presented(input) = {} <=> ~certified /\ ~headed
        /\ \A p \in Presented(input) :
              \/ certified /\ p[1] = "mtls" /\ p[2] = input.cert.cn
              \/ headed /\ p[1] = kind /\ p[2] = input.token.subject
      BY <1>1, <1>2
  <1> QED BY <1>3 DEF certified, headed, kind

\* The identification: a key that is trusted was published.
LEMMA IdentifyProves ==
    ASSUME IdentityInv, Identify
    PROVE  JwksInv' /\ Identity'
  <1> DEFINE input == req.input
  <1>1. /\ req # None /\ req.stage = "identify" /\ Whole(req)
        /\ req.agent = req.input.claim /\ input \in Traffic[settings.name]
        /\ settings \in Settings /\ UNCHANGED <<now, settings>>
      BY DEF Identify, IdentityInv, Identity, counters
  <1>2. PICK trusted \in BOOLEAN :
            /\ Identified(Resolve(settings.methods, input.cert, input.token, trusted))
            /\ JwksInv'
            /\ trusted => /\ AsksForKey /\ lastPublished'[input.token.kid] # None
    <2>1. CASE AsksForKey
      <3>1. PICK answered \in BOOLEAN :
                /\ GetKey(input.token.kid, answered)
                /\ Identified(Resolve(settings.methods, input.cert, input.token, verdict'.trusted))
          BY <2>1 DEF Identify
      <3>2. input.token.kid \in Kids
          BY <1>1, <2>1, TrafficKeys DEF AsksForKey
      <3>3. JwksInv' /\ (verdict'.trusted => lastPublished'[input.token.kid] # None)
          BY <1>1, <3>1, <3>2, GetKeyKeepsJwks DEF IdentityInv
      <3>4. verdict'.trusted \in BOOLEAN
          BY <3>1 DEF GetKey
      <3> QED BY <2>1, <3>1, <3>3, <3>4
    <2>2. CASE ~AsksForKey
      <3>1. /\ Identified(Resolve(settings.methods, input.cert, input.token, FALSE))
            /\ UNCHANGED jwksVars
          BY <2>2 DEF Identify
      <3>2. JwksInv'
          BY <1>1, <3>1, JwksUntouched DEF IdentityInv
      <3> QED BY <3>1, <3>2
    <2> QED BY <2>1, <2>2
  <1> DEFINE outcome == Resolve(settings.methods, input.cert, input.token, trusted)
  <1>3. CASE req' = None
      BY <1>2, <1>3 DEF Identity
  <1>4. CASE req' # None
    <2> DEFINE certified == UsesTls /\ input.cert # None
               headed    == input.token # None /\ settings.methods \cap {"jwt", "secret"} # {}
               kind      == IF ReadAsToken(settings.methods, input.token) THEN "jwt" ELSE "secret"
    <2>1. /\ ~Refused(outcome)
          /\ \/ /\ outcome = NoIdentity /\ ~settings.require
                /\ req' = [req EXCEPT !.stage = "read"]
             \/ /\ outcome # NoIdentity /\ ClaimMatches(req.agent, outcome.agent)
                /\ req' = [req EXCEPT !.stage = "read", !.agent = outcome.agent,
                                      !.method = outcome.method]
        BY <1>2, <1>4 DEF Identified, RefuseIdentity, Answer
    <2>2. /\ certified => BoundTo("mtls", input.cert.cn, outcome.agent)
          /\ headed => /\ BoundTo(kind, input.token.subject, outcome.agent)
                       /\ kind = "jwt" => trusted /\ input.token.claims_ok
          /\ outcome = NoIdentity <=> ~certified /\ ~headed
        BY <2>1, ResolveProves DEF UsesTls
    <2>3. /\ Presented(input) = {} <=> ~certified /\ ~headed
          /\ \A p \in Presented(input) :
                \/ certified /\ p[1] = "mtls" /\ p[2] = input.cert.cn
                \/ headed /\ p[1] = kind /\ p[2] = input.token.subject
        BY PresentedIs
    <2>4. trusted => input.token.kid \in Kids /\ lastPublished'[input.token.kid] # None
        BY <1>1, <1>2, TrafficKeys DEF AsksForKey
    <2> HIDE DEF outcome, certified, headed, kind
    <2>5. /\ Whole(req') /\ req'.stage = "read" /\ req'.input = input
          /\ outcome = NoIdentity => req'.agent = input.claim
          /\ outcome # NoIdentity => req'.agent = outcome.agent
        BY <1>1, <2>1 DEF Whole
    <2>6. Presented(input)' = Presented(input)
        BY <1>1, <2>5 DEF Presented, UsesTls
    <2>7. Proven(req)'
      <3>1. \A p \in Presented(input) :
                /\ BoundTo(p[1], p[2], outcome.agent) /\ outcome # NoIdentity
                /\ p[1] = "jwt" => /\ input.token.claims_ok
                                   /\ input.token.kid \in Kids
                                   /\ lastPublished'[input.token.kid] # None
          BY <2>2, <2>3, <2>4
      <3>2. Presented(input) # {} => input.claim \in {Anonymous, outcome.agent}
          BY <1>1, <2>1, <2>2, <2>3 DEF ClaimMatches
      <3>3. Presented(input) = {} => ~settings.require /\ outcome = NoIdentity
          BY <2>1, <2>2, <2>3
      <3>4. Presented(input) # {} => outcome # NoIdentity
          BY <2>2, <2>3
      <3> QED BY <1>1, <2>5, <2>6, <3>1, <3>2, <3>3, <3>4 DEF Proven
    <2>8. req'.stage \in Stages
        BY <2>5 DEF Stages
    <2> QED BY <1>1, <1>2, <2>5, <2>7, <2>8 DEF Identity
  <1> QED BY <1>2, <1>3, <1>4

\* The other steps of a request.
LEMMA RequestKeepsIdentity == ASSUME IdentityInv, RequestStep PROVE IdentityInv'
  <1>1. settings' = settings
      BY DEF RequestStep, Arrive, Identify, TooLarge, Judge, ResolveReview, Forward, Respond
  <1>2. CASE Identify
      BY <1>1, <1>2, IdentifyProves DEF IdentityInv
  <1>3. ASSUME ~Identify
        PROVE  UNCHANGED <<now, jwksVars>>
      BY <1>3 DEF RequestStep, Arrive, TooLarge, Judge, ResolveReview, Forward, Respond
  <1>4. ASSUME ~Identify, Identity' PROVE IdentityInv'
      BY <1>1, <1>3, <1>4, JwksUntouched DEF IdentityInv
  <1>5. ASSUME NEW r \in Traffic[settings.name], NEW bearer, Arrive(r, bearer)
        PROVE  Identity'
    <2>1. req' = [stage |-> "identify", input |-> r, bearer |-> bearer, agent |-> r.claim,
                  method |-> "path", effect |-> None, at |-> now, approved |-> FALSE]
        BY <1>5 DEF Arrive
    <2>2. /\ Whole(req') /\ req'.stage = "identify" /\ req'.input = r
          /\ req'.agent = r.claim /\ req'.method = "path" /\ req'.effect = None
        BY <2>1 DEF Whole
    <2> QED BY <1>1, <2>2 DEF Identity, Stages
  <1>6. ASSUME req # None, req.stage # "identify", UNCHANGED jwksVars,
               req' # None => /\ Whole(req') /\ req'.stage \in Stages \ {"identify"}
                              /\ req'.input = req.input /\ req'.agent = req.agent
        PROVE  Identity'
      BY <1>1, <1>6, IdentityCarried
  <1>7. req # None => Whole(req)
      BY DEF IdentityInv, Identity
  <1>8. ASSUME NEW effect \in Effects, Judge(effect) PROVE Identity'
    <2>1. /\ req # None /\ req.stage = "read" /\ UNCHANGED jwksVars
          /\ \/ req' = None
             \/ /\ req' = [req EXCEPT !.stage = Judged(effect), !.effect = effect, !.at = now]
                /\ Judged(effect) # "refused"
        BY <1>8 DEF Judge, Answer
    <2>2. Judged(effect) # "refused" => Judged(effect) \in Stages \ {"identify"}
        BY DEF Judged, Stages
    <2> QED BY <1>6, <1>7, <2>1, <2>2 DEF Whole
  <1>9. ASSUME NEW granted \in BOOLEAN, ResolveReview(granted) PROVE Identity'
    <2>1. /\ req # None /\ req.stage = "review" /\ UNCHANGED jwksVars
          /\ req' = None \/ req' = [req EXCEPT !.stage = "forward", !.approved = TRUE]
        BY <1>9 DEF ResolveReview, Answer
    <2> QED BY <1>6, <1>7, <2>1 DEF Stages, Whole
  <1>10. ASSUME NEW upstream \in BOOLEAN, Forward(upstream) PROVE Identity'
    <2>1. /\ req # None /\ req.stage = "forward" /\ UNCHANGED jwksVars
          /\ req' = None \/ req' = [req EXCEPT !.stage = "sending"]
        BY <1>10 DEF Forward, Answer
    <2> QED BY <1>6, <1>7, <2>1 DEF Stages, Whole
  <1>11. ASSUME TooLarge \/ \E status \in {200, 502} : Respond(status) PROVE Identity'
      BY <1>11 DEF TooLarge, Respond, Answer, Identity
  <1> QED BY <1>2, <1>4, <1>5, <1>8, <1>9, <1>10, <1>11 DEF RequestStep

\* Every step of the gateway.
LEMMA StepsKeepIdentity == ASSUME IdentityInv, [Next]_vars PROVE IdentityInv'
  <1>1. CASE RequestStep
      BY <1>1, RequestKeepsIdentity
  <1>2. CASE OAuthStep \/ ReloadStep \/ RotateStep \/ UNCHANGED vars
    <2>1. UNCHANGED <<now, jwksVars, req, settings>>
        BY <1>2 DEF OAuthStep, ReloadStep, RotateStep, reqVars, vars
    <2>2. JwksInv' /\ UNCHANGED lastPublished
        BY <2>1, JwksUntouched DEF IdentityInv, jwksVars
    <2> QED BY <2>1, <2>2, IdentityUntouched DEF IdentityInv
  <1>3. CASE ProviderRotates \/ Tick
    <2>1. /\ UNCHANGED <<req, settings>>
          /\ \/ (\E s \in SUBSET Kids : RotateKeys(s)) /\ UNCHANGED now
             \/ JwksPass /\ now' = now + 1
        BY <1>3 DEF ProviderRotates, Tick, Pass, reqVars
    <2>2. JwksInv'
        BY <2>1, ProviderKeepsJwks DEF IdentityInv
    <2>3. \A k \in Kids : lastPublished[k] # None => lastPublished'[k] # None
        BY <2>1, SeenIsKept DEF IdentityInv
    <2> QED BY <2>1, <2>2, <2>3, IdentityUntouched DEF IdentityInv
  <1>4. CASE Restart
    <2>1. req' = None /\ JwksRestart /\ UNCHANGED <<now, settings>>
        BY <1>4 DEF Restart
    <2> QED BY <2>1, RestartKeepsJwks DEF IdentityInv, Identity
  <1> QED BY <1>1, <1>2, <1>3, <1>4 DEF Next

LEMMA IdentityInvariant == Spec => []IdentityInv
  <1>1. Init => IdentityInv
    <2> SUFFICES ASSUME Init PROVE IdentityInv
        OBVIOUS
    <2>1. PICK first \in SUBSET Kids : JwksInit(first)
        BY DEF Init
    <2>2. JwksInv
        BY <2>1, InitJwks DEF Init
    <2> QED BY <2>2 DEF Init, IdentityInv, Identity
  <1> QED BY <1>1, StepsKeepIdentity, PTL DEF Spec

\* No outage makes the gateway trust a withdrawn key for longer than the
\* provider's keys may be stale (get_key of jwks.py), and none makes it trust
\* a key that was never published.
THEOREM TrustedKeysAreFresh == Spec => []KeysAreFresh
  <1>1. IdentityInv => KeysAreFresh
      BY DEF IdentityInv, JwksInv
  <1> QED BY <1>1, IdentityInvariant, PTL

\* A published key is refused only while the rate limit of a failed or older
\* attempt is in force (_needs_refresh of jwks.py).
THEOREM KeyRefusalsAreExcused == Spec => []RefusalsAreExcused
  <1>1. IdentityInv => RefusalsAreExcused
      BY DEF IdentityInv, JwksInv
  <1> QED BY <1>1, IdentityInvariant, PTL

\* Every request is judged as the agent that every credential it came with
\* proves, across rotations, outages and restarts (proxy() of app.py, resolve()
\* of resolver.py).
THEOREM JudgedAsProven == Spec => []EvaluatedAsProven
  <1>1. IdentityInv => EvaluatedAsProven
      BY DEF IdentityInv, Identity, Proven, BoundTo, EvaluatedAsProven
  <1> QED BY <1>1, IdentityInvariant, PTL

-----------------------------------------------------------------------------
(* What is reported, and what every variable holds.                        *)

\* A request is labelled with a way it can be identified, and with Cedar's
\* answer once there is one.
Labelled == req # None => req.method \in Methods /\ req.effect \in Effects \cup {None}

\* A request is judged as an agent the report knows, or as nobody.
LEMMA AgentsAreKnown ==
    ASSUME IdentityInv, req # None
    PROVE  req.agent \in Agents \cup {Anonymous}
  <1>1. req.input \in Traffic[settings.name] /\ settings \in Settings
      BY DEF IdentityInv, Identity
  <1>2. req.input.claim \in Agents \cup {Anonymous}
      BY <1>1, TrafficAssumption
  <1>3. CASE req.stage = "identify" \/ Presented(req.input) = {}
      BY <1>2, <1>3 DEF IdentityInv, Identity, Proven
  <1>4. CASE req.stage # "identify" /\ Presented(req.input) # {}
    <2>1. PICK p \in Presented(req.input) : BoundTo(p[1], p[2], req.agent)
        BY <1>4 DEF IdentityInv, Identity, Proven
    <2>2. settings.methods # {}
        BY <1>4 DEF Presented, UsesTls
    <2>3. BindingsLoad
        BY <1>1, <2>2, SettingsAssumption DEF Configured
    <2> QED BY <2>1, <2>3 DEF BoundTo, BindingsLoad
  <1> QED BY <1>3, <1>4

\* A judgement is recorded under the request's identity.
LEMMA JudgeKeepsReport ==
    ASSUME IdentityInv, TableInv, Labelled, NEW effect \in Effects, Judge(effect)
    PROVE  TableInv' /\ Labelled'
  <1>1. /\ req # None /\ Whole(req) /\ req.method \in Methods /\ req.effect \in Effects \cup {None}
        /\ req.agent \in Agents \cup {Anonymous}
      BY AgentsAreKnown DEF Judge, IdentityInv, Identity, Labelled
  <1>2. \/ UNCHANGED statusVars
        \/ RecordRequest(<<req.agent, req.method>>, effect)
      BY DEF Judge
  <1>3. <<req.agent, req.method>> \in Identities
      BY <1>1, TrafficAssumption
  <1>4. TableInv'
    <2>1. CASE UNCHANGED statusVars
        BY <2>1, TableUntouched DEF statusVars, TableInv, StatusTypeOK
    <2>2. CASE RecordRequest(<<req.agent, req.method>>, effect)
        BY <1>3, <2>2, RequestKeepsTable
    <2> QED BY <1>2, <2>1, <2>2
  <1>5. Labelled'
    <2>1. req' = None \/ req' = [req EXCEPT !.stage = Judged(effect), !.effect = effect, !.at = now]
        BY DEF Judge, Answer
    <2> QED BY <1>1, <2>1 DEF Labelled, Whole
  <1> QED BY <1>4, <1>5

\* An identification labels the request or counts a refusal.
LEMMA IdentifyKeepsReport ==
    ASSUME IdentityInv, TableInv, Labelled, Identify
    PROVE  TableInv' /\ Labelled'
  <1>1. /\ req # None /\ Whole(req) /\ req.method \in Methods /\ req.effect \in Effects \cup {None}
      BY DEF Identify, IdentityInv, Identity, Labelled
  <1>2. PICK trusted \in BOOLEAN :
            Identified(Resolve(settings.methods, req.input.cert, req.input.token, trusted))
    <2>1. CASE AsksForKey
      <3>1. PICK answered \in BOOLEAN :
                /\ GetKey(req.input.token.kid, answered)
                /\ Identified(Resolve(settings.methods, req.input.cert, req.input.token,
                                      verdict'.trusted))
          BY <2>1 DEF Identify
      <3>2. verdict'.trusted \in BOOLEAN
          BY <3>1 DEF GetKey
      <3> QED BY <3>1, <3>2
    <2>2. CASE ~AsksForKey
        BY <2>2 DEF Identify
    <2> QED BY <2>1, <2>2
  <1> DEFINE outcome == Resolve(settings.methods, req.input.cert, req.input.token, trusted)
  <1>3. ~Refused(outcome) /\ outcome # NoIdentity => outcome.method \in Methods
      BY ResolveProves
  <1> HIDE DEF outcome
  <1>4. \/ /\ req' = None /\ \E code : RecordIdentityRefusal(code)
        \/ /\ req' = [req EXCEPT !.stage = "read"] /\ UNCHANGED statusVars
        \/ /\ ~Refused(outcome) /\ outcome # NoIdentity
           /\ req' = [req EXCEPT !.stage = "read", !.agent = outcome.agent,
                                 !.method = outcome.method]
           /\ UNCHANGED statusVars
      BY <1>2 DEF Identified, RefuseIdentity, Answer, outcome
  <1>5. TableInv'
    <2>1. CASE UNCHANGED statusVars
        BY <2>1, TableUntouched DEF statusVars, TableInv, StatusTypeOK
    <2>2. CASE \E code : RecordIdentityRefusal(code)
        BY <2>2, RefusalKeepsTable
    <2> QED BY <1>4, <2>1, <2>2
  <1>6. Labelled'
      BY <1>1, <1>3, <1>4 DEF Labelled, Whole
  <1> QED BY <1>5, <1>6

\* Every step of the gateway.
LEMMA StepsKeepReport ==
    ASSUME IdentityInv, TableInv, Labelled, [Next]_vars
    PROVE  TableInv' /\ Labelled'
  <1>1. ASSUME UNCHANGED statusVars PROVE TableInv'
      BY <1>1, TableUntouched DEF statusVars, TableInv, StatusTypeOK
  <1>2. req # None => Whole(req)
      BY DEF IdentityInv, Identity
  <1>3. ASSUME NEW r, NEW bearer, Arrive(r, bearer) PROVE TableInv' /\ Labelled'
      BY <1>1, <1>3 DEF Arrive, Labelled, Methods
  <1>4. ASSUME TooLarge \/ \E status \in {200, 502} : Respond(status) PROVE TableInv' /\ Labelled'
      BY <1>1, <1>4 DEF TooLarge, Respond, Answer, Labelled
  <1>5. ASSUME NEW granted \in BOOLEAN, ResolveReview(granted) PROVE TableInv' /\ Labelled'
    <2>1. /\ req # None /\ UNCHANGED statusVars
          /\ req' = None \/ req' = [req EXCEPT !.stage = "forward", !.approved = TRUE]
        BY <1>5 DEF ResolveReview, Answer
    <2> QED BY <1>1, <1>2, <2>1 DEF Labelled, Whole
  <1>6. ASSUME NEW upstream \in BOOLEAN, Forward(upstream) PROVE TableInv' /\ Labelled'
    <2>1. /\ req # None /\ UNCHANGED statusVars
          /\ req' = None \/ req' = [req EXCEPT !.stage = "sending"]
        BY <1>6 DEF Forward, Answer
    <2> QED BY <1>1, <1>2, <2>1 DEF Labelled, Whole
  <1>7. CASE RequestStep
      BY <1>3, <1>4, <1>5, <1>6, <1>7, IdentifyKeepsReport, JudgeKeepsReport DEF RequestStep
  <1>8. CASE OAuthStep \/ RotateStep \/ ProviderRotates \/ Tick \/ UNCHANGED vars
    <2>1. UNCHANGED <<req, statusVars>>
        BY <1>8 DEF OAuthStep, RotateStep, ProviderRotates, Tick, reqVars, vars
    <2> QED BY <1>1, <2>1 DEF Labelled
  <1>9. CASE ReloadStep
    <2>1. /\ UNCHANGED req
          /\ AddEvent("tls_reload_failed") \/ AddEvent("tls_reloaded") \/ UNCHANGED statusVars
        BY <1>9 DEF ReloadStep, reqVars
    <2>2. "tls_reload_failed" \in EventTypes /\ "tls_reloaded" \in EventTypes
        BY DEF EventTypes
    <2> QED BY <1>1, <2>1, <2>2, EventKeepsTable DEF Labelled
  <1>10. CASE Restart
    <2>1. req' = None /\ StatusRestart
        BY <1>10 DEF Restart
    <2>2. TableInv'
        BY <2>1, RestartEmptiesTable
    <2> QED BY <2>1, <2>2 DEF Labelled
  <1> QED BY <1>7, <1>8, <1>9, <1>10 DEF Next

LEMMA ReportInvariant == Spec => [](TableInv /\ Labelled)
  <1>1. Init => TableInv /\ Labelled
      BY EmptyTable DEF Init, Labelled
  <1> QED BY <1>1, IdentityInvariant, StepsKeepReport, PTL DEF Spec

\* However many agent ids are made up, what the heartbeat reports is those
\* that came last, and while they fit every request is counted
\* (record_request of status.py).
THEOREM LatestAreReported == Spec => []ReportsTheLatest
  <1>1. TableInv => ReportsTheLatest
      BY TableReports
  <1> QED BY <1>1, ReportInvariant, PTL

\* The model's own bounds.
Bounded ==
    /\ settings \in Settings
    /\ sent \in 0 .. Bound.requests
    /\ restarts \in 0 .. Bound.restarts
    /\ rotations \in 0 .. Bound.rotations

LEMMA StepsAreBounded == ASSUME Bounded, [Next]_vars PROVE Bounded'
  <1>1. /\ settings' = settings /\ Bound' = Bound
        /\ Bound.requests \in Nat /\ Bound.restarts \in Nat /\ Bound.rotations \in Nat
    <2>1. settings' = settings
        BY DEF Next, RequestStep, Arrive, Identify, TooLarge, Judge, ResolveReview, Forward, Respond,
               OAuthStep, ReloadStep, RotateStep, ProviderRotates, Tick, Restart, reqVars, vars
    <2> QED BY <2>1, BoundsAssumption DEF Bounded, Bound
  <1>2. \/ UNCHANGED counters
        \/ sent < Bound.requests /\ sent' = sent + 1 /\ UNCHANGED <<restarts, rotations>>
        \/ restarts < Bound.restarts /\ restarts' = restarts + 1 /\ UNCHANGED <<sent, rotations>>
        \/ rotations < Bound.rotations /\ rotations' = rotations + 1 /\ UNCHANGED <<sent, restarts>>
    <2>1. CASE RequestStep
      <3>1. ASSUME NEW r, NEW bearer, Arrive(r, bearer)
            PROVE  sent < Bound.requests /\ sent' = sent + 1 /\ UNCHANGED <<restarts, rotations>>
          BY <3>1, Zenon DEF Arrive
      <3>2. ASSUME \/ Identify \/ TooLarge
                   \/ \E effect \in Effects : Judge(effect)
                   \/ \E granted \in BOOLEAN : ResolveReview(granted)
                   \/ \E upstream \in BOOLEAN : Forward(upstream)
                   \/ \E status \in {200, 502} : Respond(status)
            PROVE  UNCHANGED counters
          BY <3>2, Zenon DEF Identify, TooLarge, Judge, ResolveReview, Forward, Respond
      <3> QED BY <2>1, <3>1, <3>2, Zenon DEF RequestStep
    <2>2. CASE OAuthStep \/ ReloadStep \/ RotateStep \/ Tick \/ UNCHANGED vars
        BY <2>2 DEF OAuthStep, ReloadStep, RotateStep, Tick, reqVars, counters, vars
    <2>3. CASE ProviderRotates
        BY <2>3, Zenon DEF ProviderRotates
    <2>4. CASE Restart
        BY <2>4, Zenon DEF Restart
    <2> QED BY <2>1, <2>2, <2>3, <2>4 DEF Next
  <1> QED BY <1>1, <1>2 DEF Bounded, counters

\* Every variable of the gateway, of its listener, keys, authorization server
\* and report keeps its type.
THEOREM GatewayTypes == Spec => []GatewayTypeOK
  <1>1. Init => Bounded
      BY BoundsAssumption DEF Init, Bounded, Bound
  <1>2. Spec => []Bounded
      BY <1>1, StepsAreBounded, PTL DEF Spec
  <1>3. OAuthInv /\ TlsInv /\ IdentityInv /\ TableInv /\ Labelled /\ Bounded => GatewayTypeOK
    <2> SUFFICES ASSUME OAuthInv, TlsInv, IdentityInv, TableInv, Labelled, Bounded
                 PROVE  GatewayTypeOK
        OBVIOUS
    <2>1. OAuthTypeOK /\ TlsTypeOK /\ JwksTypeOK /\ StatusTypeOK
        BY DEF OAuthInv, TlsInv, IdentityInv, JwksInv, TableInv
    <2>2. req # None => /\ req.stage \in Stages /\ req.agent \in Agents \cup {Anonymous}
                        /\ req.method \in Methods /\ req.effect \in Effects \cup {None}
        BY AgentsAreKnown DEF IdentityInv, Identity, Labelled
    <2> QED BY <2>1, <2>2 DEF GatewayTypeOK, Bounded
  <1> QED BY <1>2, <1>3, OAuthInvariant, TlsInvariant, IdentityInvariant, ReportInvariant, PTL
=============================================================================
