------------------------------ MODULE MCGateway ------------------------------
(***************************************************************************)
(* Five gateways: one whose certificates rotate under it, one with          *)
(* certificates and tokens, one behind an ingress with tokens and secrets,  *)
(* one with path claims behind the MCP authorization server and one in      *)
(* monitor mode.                                                            *)
(***************************************************************************)
EXTENDS Gateway

CONSTANTS a, b, anon, k1, k2, cn1, sub1, sec1, other

MCBindings == {
    [kind |-> "mtls", subject |-> cn1, agent |-> a],
    [kind |-> "jwt", subject |-> sub1, agent |-> a],
    [kind |-> "jwt", subject |-> cn1, agent |-> b],
    [kind |-> "secret", subject |-> sec1, agent |-> b]}

Configuration(name, methods, require, oauth, reload, enforce, reviews) ==
    [name |-> name, methods |-> methods, require |-> require, oauth |-> oauth,
     reload |-> reload, enforce |-> enforce, reviews |-> reviews,
     client_auth |-> IF name = "listener" THEN "required" ELSE "optional",
     header |-> "x-parapetai-identity"]

MCSettings == {
    Configuration("listener", {"mtls"}, TRUE, FALSE, TRUE, TRUE, FALSE),
    Configuration("both", {"mtls", "jwt"}, TRUE, FALSE, FALSE, TRUE, TRUE),
    Configuration("ingress", {"jwt", "secret"}, FALSE, FALSE, FALSE, TRUE, FALSE),
    Configuration("oauth", {}, FALSE, TRUE, FALSE, TRUE, FALSE),
    Configuration("monitor", {}, FALSE, FALSE, FALSE, FALSE, FALSE)}

Certs == {[cn |-> c, issuer |-> 0] : c \in {cn1, other, None}}
JwtToken(kid, subject, ok) == [shape |-> "jwt", kid |-> kid, subject |-> subject, claims_ok |-> ok]
Jwts == {JwtToken(k1, sub1, TRUE), JwtToken(k2, cn1, TRUE), JwtToken(k2, other, TRUE),
         JwtToken(k1, sub1, FALSE), JwtToken(None, sub1, TRUE)}
\* What an ingress lets through while keys rotate; the rest of Jwts comes to both.
Fresh == {JwtToken(k1, sub1, TRUE), JwtToken(k2, cn1, TRUE)}
Secrets == {[shape |-> "opaque", kid |-> None, subject |-> s, claims_ok |-> FALSE] : s \in {sec1, other}}

Input(claim, cert, token, mcp, parsed) ==
    [claim |-> claim, cert |-> cert, token |-> token, mcp |-> mcp, parsed |-> parsed]

MCTraffic == [
    listener |-> {},
    both |-> {Input(c, cert, t, FALSE, TRUE) :
                c \in {a, anon}, cert \in Certs \cup {None}, t \in Jwts \cup {None}},
    ingress |-> {Input(b, None, t, FALSE, TRUE) : t \in Fresh \cup Secrets \cup {None}}
                \cup {Input(anon, None, JwtToken(k1, sub1, TRUE), FALSE, TRUE)},
    oauth |-> {Input(a, None, None, TRUE, p) : p \in BOOLEAN} \cup {Input(a, None, None, FALSE, TRUE)},
    monitor |-> {Input(c, None, None, TRUE, p) : c \in {a, b, anon}, p \in BOOLEAN}]

Until(n, starts, keysets, time) ==
    [requests |-> n, restarts |-> starts, rotations |-> keysets, time |-> time]

MCBounds == [
    listener |-> Until(0, 0, 0, 0),
    both |-> Until(1, 0, 1, 2),
    ingress |-> Until(2, 0, 1, 4),
    oauth |-> Until(1, 1, 0, 2),
    monitor |-> Until(4, 1, 0, 0)]
MCIdentities == {a, b, anon} \X Methods
MCRefusalCodes == {"invalid_client_certificate", "identity_not_bound", "invalid_token",
    "invalid_secret", "identity_conflict", "identity_required", "identity_path_mismatch"}
=============================================================================
