------------------------------ MODULE TlsReload ------------------------------
(***************************************************************************)
(* gateway tls_reload.py, the listener of server/serve.py that uses it, and *)
(* the certificate report of status.py that follows it.  Somebody else      *)
(* replaces the three files, one by one or all at once, by new contents or  *)
(* by contents they had before; every read of a file is a step of its own,  *)
(* so a replacement can fall between any two, and any read may fail of      *)
(* itself.                                                                  *)
(* The same three passes over the files are made at start-up (TlsReloader   *)
(* takes the digest, uvicorn builds its context, watch_tls reads the        *)
(* report) and by the reload thread (check, then the event callback).       *)
(* A digest identifies the contents it was taken of, so contents stand for  *)
(* it.                                                                      *)
(***************************************************************************)
EXTENDS Naturals, Sequences

CONSTANTS
    MaxVersion,     \* versions of the material are 0 .. MaxVersion
    MaxWrites,      \* bound on the replacements, moments in between counted
    MaxUpsets,      \* bound on earlier contents put back and reads that fail
    Unusable,       \* versions that no context can be built from
    Torn, Missing,  \* a file half written, a file that cannot be read
    Unread          \* a file this pass has not read

Versions == 0 .. MaxVersion

ASSUME VersionAssumption ==
    /\ MaxVersion \in Nat /\ MaxWrites \in Nat /\ MaxUpsets \in Nat
    /\ Unusable \subseteq Versions \ {0}
    /\ Torn \notin Versions /\ Missing \notin Versions /\ Torn # Missing
    /\ Unread \notin Versions \cup {Torn, Missing}

Files == {"cert", "key", "ca"}
\* TlsFiles.paths(), the order of every pass.
Paths == <<"cert", "key", "ca">>
\* A file holds a version, part of one, or cannot be read.
FileContents == Versions \cup {Torn, Missing}
Reading == [Files -> FileContents \cup {Unread}]
Nothing == [f \in Files |-> Unread]

VARIABLES
    files,      \* what the three files hold
    newest,     \* auxiliary: the newest version each of them has held
    writes,     \* auxiliary: the replacements so far
    upsets,     \* auxiliary: the returns and failed reads so far
    spoilt,     \* auxiliary: the versions that had been written at one of them
    served,     \* the contents self._current was built from
    digest,     \* self._digest, the contents it was taken of
    failed,     \* self._failed_digest
    pass,       \* the pass being made: [at, left, boot]
    seen,       \* what the digest pass has read
    got,        \* what the build or report pass has read
    certs       \* the "tls" block of the status report

tlsVars == <<files, newest, writes, upsets, spoilt, served, digest, failed, pass, seen, got, certs>>

TlsTypeOK ==
    /\ files \in [Files -> FileContents]
    /\ newest \in [Files -> Versions] /\ writes \in 0 .. MaxWrites
    /\ upsets \in 0 .. MaxUpsets /\ spoilt \subseteq Versions
    /\ served \in Reading /\ digest \in Reading /\ failed \in Reading
    /\ pass \in [at: {"down", "digest", "build", "report", "idle"},
                 left: {Paths, <<"key", "ca">>, <<"cert", "ca">>, <<"ca">>, <<>>},
                 boot: BOOLEAN]
    /\ seen \in Reading /\ got \in Reading
    /\ certs \in [{"cert", "ca"} -> FileContents \cup {Unread}]

NoReport == [f \in {"cert", "ca"} |-> Unread]
Idle == [at |-> "idle", left |-> <<>>, boot |-> FALSE]
Down == [at |-> "down", left |-> <<>>, boot |-> TRUE]

TlsInit ==
    /\ files = [f \in Files |-> 0] /\ newest = files /\ writes = 0
    /\ upsets = 0 /\ spoilt = {}
    /\ served = Nothing /\ digest = Nothing /\ failed = Nothing
    /\ pass = Down
    /\ seen = Nothing /\ got = Nothing
    /\ certs = NoReport

-----------------------------------------------------------------------------
\* Something a digest cannot show: every version written so far may be taken
\* for what it is not.
Upset ==
    /\ upsets < MaxUpsets
    /\ upsets' = upsets + 1
    /\ spoilt' = {v \in Versions : \E f \in Files : v <= newest[f]}

Undisturbed == UNCHANGED <<upsets, spoilt>>

\* One file is replaced: at once, or with a moment in which it is half
\* written or absent; by a newer version, or by an earlier one, the one before
\* that moment included.
WriteFile(f, c) ==
    /\ writes < MaxWrites /\ writes' = writes + 1
    /\ c # files[f]
    /\ \/ c \in {Torn, Missing} /\ files[f] \in Versions /\ Undisturbed
       \/ c \in Versions /\ newest[f] < c /\ Undisturbed
       \/ c \in Versions /\ c <= newest[f] /\ Upset
    /\ files' = [files EXCEPT ![f] = c]
    /\ newest' = [newest EXCEPT ![f] = IF c \in Versions /\ newest[f] < c THEN c ELSE newest[f]]
    /\ UNCHANGED <<served, digest, failed, pass, seen, got, certs>>

\* A secrets mount relinks its directory: all three at once.
RelinkFiles(v) ==
    /\ writes < MaxWrites /\ writes' = writes + 1
    /\ files # [f \in Files |-> v]
    /\ IF \A f \in Files : newest[f] < v THEN Undisturbed ELSE Upset
    /\ files' = [f \in Files |-> v]
    /\ newest' = [f \in Files |-> IF newest[f] < v THEN v ELSE newest[f]]
    /\ UNCHANGED <<served, digest, failed, pass, seen, got, certs>>

\* A file cannot be read: it is absent, or the read fails all the same.
CannotRead(f) == (files[f] = Missing /\ Undisturbed) \/ (files[f] # Missing /\ Upset)

-----------------------------------------------------------------------------
Reread(at, order, boot) == [at |-> at, left |-> order, boot |-> boot]

\* build_server constructs the reloader before uvicorn reads anything.
Boot ==
    /\ pass.at = "down"
    /\ pass' = Reread("digest", Paths, TRUE)
    /\ seen' = Nothing
    /\ UNCHANGED <<files, newest, writes, upsets, spoilt, served, digest, failed, got, certs>>

\* The reload thread wakes up and checks.
Wake ==
    /\ pass.at = "idle"
    /\ pass' = Reread("digest", Paths, FALSE)
    /\ seen' = Nothing
    /\ UNCHANGED <<files, newest, writes, upsets, spoilt, served, digest, failed, got, certs>>

\* _digest reads the next file; one that cannot be read makes it None, which
\* ends a check and which the constructor merely stores.
DigestRead ==
    /\ pass.at = "digest" /\ pass.left # <<>>
    /\ LET f == Head(pass.left) IN
       \/ /\ CannotRead(f)
          /\ seen' = Nothing
          /\ pass' = IF pass.boot THEN Reread("digest", <<>>, TRUE) ELSE Idle
       \/ /\ files[f] # Missing /\ Undisturbed
          /\ seen' = [seen EXCEPT ![f] = files[f]]
          /\ pass' = [pass EXCEPT !.left = Tail(@)]
    /\ UNCHANGED <<files, newest, writes, served, digest, failed, got, certs>>

\* Fault: build_server constructs the reloader after config.load(), so that
\* the digest is of what is there by then.
DigestAtAttach == [f \in Files |-> files[f]]
\* What the digest names: the contents the digest pass read.
DigestOf == seen

\* check() goes on to build only for a digest that is neither in force nor
\* known to be bad.
DigestDone ==
    /\ pass.at = "digest" /\ pass.left = <<>>
    /\ IF ~pass.boot /\ seen \in {digest, failed}
       THEN pass' = Idle /\ seen' = Nothing
       ELSE pass' = Reread("build", Paths, pass.boot) /\ UNCHANGED seen
    /\ UNCHANGED <<files, newest, writes, upsets, spoilt, served, digest, failed, got, certs>>

\* What building a context from the files read so far, and f with content c,
\* requires: a whole usable file, and a key that belongs to its certificate.
Builds(read, f, c) ==
    /\ c \in Versions \ Unusable
    /\ f = "key" => c = read["cert"]

\* Fault: the swap before the client CA has been loaded.
SwapsAfter == "key"
\* The last file of build_context, after which check() swaps.
LastBuilt == "ca"

\* build_context reads the next file.  When one is not usable, or the read of
\* a good one fails, a check keeps what is served and remembers the digest as
\* failed; at start-up the process ends.
BuildRead ==
    /\ pass.at = "build" /\ pass.left # <<>>
    /\ LET f == Head(pass.left) IN
       \/ /\ Builds(got, f, files[f]) /\ Undisturbed
          /\ got' = [got EXCEPT ![f] = files[f]]
          /\ pass' = [pass EXCEPT !.left = Tail(@)]
          /\ served' = IF f = LastBuilt THEN got' ELSE served
          /\ UNCHANGED <<failed, seen>>
       \/ /\ IF Builds(got, f, files[f]) THEN CannotRead(f) ELSE Undisturbed
          /\ pass' = IF pass.boot THEN Down ELSE Idle
          /\ failed' = IF pass.boot THEN failed ELSE seen
          /\ seen' = Nothing /\ got' = Nothing
          /\ UNCHANGED served
    /\ UNCHANGED <<files, newest, writes, digest, certs>>

\* The new context is in force under the digest taken before it was built;
\* the event callback, or watch_tls, rereads the certificates for the report.
BuildDone ==
    /\ pass.at = "build" /\ pass.left = <<>>
    /\ digest' = DigestOf
    /\ failed' = Nothing
    /\ seen' = Nothing /\ got' = Nothing
    /\ pass' = Reread("report", <<"cert", "ca">>, pass.boot)
    /\ UNCHANGED <<files, newest, writes, upsets, spoilt, served, certs>>

\* refresh_tls reads a file; one it cannot read ends it with the last report.
ReportRead ==
    /\ pass.at = "report" /\ pass.left # <<>>
    /\ LET f == Head(pass.left) IN
       \/ /\ CannotRead(f)
          /\ pass' = Idle /\ got' = Nothing
       \/ /\ files[f] # Missing /\ Undisturbed
          /\ got' = [got EXCEPT ![f] = files[f]]
          /\ pass' = [pass EXCEPT !.left = Tail(@)]
    /\ UNCHANGED <<files, newest, writes, served, digest, failed, seen, certs>>

\* A certificate that does not parse is left out of the report.
ReportDone ==
    /\ pass.at = "report" /\ pass.left = <<>>
    /\ certs' = [f \in {"cert", "ca"} |-> IF got[f] = Torn THEN certs[f] ELSE got[f]]
    /\ pass' = Idle
    /\ got' = Nothing
    /\ UNCHANGED <<files, newest, writes, upsets, spoilt, served, digest, failed, seen>>

\* The process dies; its supervisor will start it again (Boot).
TlsRestart ==
    /\ served' = Nothing /\ digest' = Nothing /\ failed' = Nothing
    /\ pass' = Down
    /\ seen' = Nothing /\ got' = Nothing /\ certs' = NoReport
    /\ UNCHANGED <<files, newest, writes, upsets, spoilt>>

\* A handshake takes the context that is current (the sni callback), once
\* the listener is up, and accepts certificates of the authority it trusts.
Listening == served # Nothing /\ ~pass.boot
Accepts(issuer) == Listening /\ issuer = served["ca"]

TlsThread ==
    \/ Boot \/ Wake \/ DigestRead \/ DigestDone
    \/ BuildRead \/ BuildDone \/ ReportRead \/ ReportDone

Rotate ==
    \/ \E f \in Files, c \in FileContents : WriteFile(f, c)
    \/ \E v \in Versions : RelinkFiles(v)

-----------------------------------------------------------------------------
\* A bad rotation never empties trust or drops the listener, and the new
\* context is used only as a whole (the module docstring): once something is
\* served, it is a certificate, its own key and an authority, all usable.
ServesWholeMaterial ==
    served # Nothing =>
        /\ served["cert"] = served["key"]
        /\ \A f \in Files : served[f] \in Versions \ Unusable

\* Whatever went wrong before, it does not outlast the next rotation: once
\* the files come to rest on a usable version that is newer than all that
\* was there when contents last came back or a read last failed, that
\* version is what the listener serves and what the status reports.  For an
\* older one the code promises nothing: its digest may be remembered as
\* failed, or may be in force for other contents.
TlsSettles ==
    \A v \in Versions \ Unusable :
        <>[](files = [f \in Files |-> v] /\ v \notin spoilt) =>
            <>[](/\ served = [f \in Files |-> v]
                 /\ certs = [f \in {"cert", "ca"} |-> v])
=============================================================================
