----------------------------- MODULE KeyRotation -----------------------------
(***************************************************************************)
(* The signing keys of the processes that enforce for one agent:             *)
(* pep_identity.py, and ensure_pep_identity, register_public_key and the     *)
(* rotation in run_bundle_poller (control_plane.py).  The control plane      *)
(* (docs/CONTROL_PLANE_API.md) verifies with the key registered last and the *)
(* one before it, and not at all before a key was registered.  Keys are      *)
(* numbers, in the order they are made.  Processes of one user share the     *)
(* default key file; it is truncated before it is written, and a process may *)
(* die in between, or before it registers.  Two clients of a process sign:   *)
(* its poller, and the ReviewClient of a Governor (govern.py).               *)
(***************************************************************************)
EXTENDS Naturals

CONSTANTS
    Peps,       \* the processes
    Files,      \* key files
    FileOf,     \* per process, its key file, NoFile without one (persist_pep_key)
    MaxKeys, MaxCrashes,
    NoKey, Torn, NoFile

ASSUME KeysAssumption ==
    /\ FileOf \in [Peps -> Files \cup {NoFile}] /\ NoFile \notin Files
    /\ {NoKey, Torn} \cap Nat = {} /\ NoKey # Torn

VARIABLES
    keyfile,    \* per key file, the key in it, Torn, or NoKey: there is none
    signs,      \* per process, the private key each of its clients signs with;
                \* NoKey: it is not running
    at,         \* per process, "down", "missing" (it found no file), "write"
                \* (the file is truncated), "register" or "poll"
    verifiers,  \* [current, previous]: what the control plane verifies with
    made, crashes,
    lost,       \* auxiliary: the clients whose key's registration was lost
    since,      \* auxiliary: per client, how many others landed since its key's
    displaced   \* auxiliary: the processes whose file another wrote since

keyVars == <<keyfile, signs, at, verifiers, made, crashes, lost, since, displaced>>

Signers == {"poll", "review"}
Clients == Peps \X Signers
NotRunning == [c \in Signers |-> NoKey]

KeyInit ==
    /\ keyfile = [f \in Files |-> NoKey]
    /\ signs = [p \in Peps |-> NotRunning]
    /\ at = [p \in Peps |-> "down"]
    /\ verifiers = [current |-> NoKey, previous |-> NoKey]
    /\ made = 0 /\ crashes = 0
    /\ lost = {} /\ since = [c \in Clients |-> 0] /\ displaced = {}

Persistent(p) == FileOf[p] # NoFile
Sharers(p) == {q \in Peps : Persistent(p) /\ FileOf[q] = FileOf[p]}
Verifies(k) == verifiers.current = NoKey \/ k \in {verifiers.current, verifiers.previous}

\* Another than p has touched the file its sharers will start from.
Displaces(p) == displaced' = (displaced \cup Sharers(p)) \ {p}

\* load_or_create_keypair with a file that is there; a torn one raises, and
\* the process does not start.  Every client is given the key.
Load(p) ==
    /\ at[p] = "down" /\ Persistent(p) /\ keyfile[FileOf[p]] \notin {NoKey, Torn}
    /\ signs' = [signs EXCEPT ![p] = [c \in Signers |-> keyfile[FileOf[p]]]]
    /\ at' = [at EXCEPT ![p] = "register"]
    /\ displaced' = displaced \ {p}
    /\ UNCHANGED <<keyfile, verifiers, made, crashes, lost, since>>

\* load_or_create_keypair finds no file; another may make it before this does.
FindNone(p) ==
    /\ at[p] = "down" /\ Persistent(p) /\ keyfile[FileOf[p]] = NoKey
    /\ at' = [at EXCEPT ![p] = "missing"]
    /\ UNCHANGED <<keyfile, signs, verifiers, made, crashes, lost, since, displaced>>

\* A key is made for some of a process's clients and, if it is for a file, the
\* file truncated, whatever is in it.
Make(p, clients) ==
    /\ made < MaxKeys
    /\ made' = made + 1
    /\ signs' = [signs EXCEPT ![p] = [c \in Signers |-> IF c \in clients THEN made + 1 ELSE @[c]]]
    /\ at' = [at EXCEPT ![p] = IF Persistent(p) THEN "write" ELSE "register"]
    /\ keyfile' = [f \in Files |-> IF f = FileOf[p] THEN Torn ELSE keyfile[f]]
    /\ Displaces(p)
    /\ UNCHANGED <<verifiers, crashes, lost, since>>

\* The rest of load_or_create_keypair, and generate_ephemeral_keypair.
Create(p) == at[p] = (IF Persistent(p) THEN "missing" ELSE "down") /\ Make(p, Signers)

\* A heartbeat is answered with rotate_key: a poller whose key is refused gets
\* no such answer, and one without a file only logs it.  rotate_keypair gives
\* the poller a new key; the ReviewClient keeps the one it was built with.
Rotate(p) ==
    /\ at[p] = "poll" /\ Persistent(p) /\ Verifies(signs[p]["poll"])
    /\ Make(p, {"poll"})

\* Fault: only a process that starts registers its key.
PollsAtOnce == "poll"
\* Both register what they wrote.
AfterWrite == "register"

WriteFile(p) ==
    /\ at[p] = "write"
    /\ keyfile' = [keyfile EXCEPT ![FileOf[p]] = signs[p]["poll"]]
    /\ at' = [at EXCEPT ![p] = AfterWrite]
    /\ Displaces(p)
    /\ UNCHANGED <<signs, verifiers, made, crashes, lost, since>>

\* The clients of a process that sign with its poller's key.
Renewed(p) == {c \in Clients : c[1] = p /\ signs[p][c[2]] = signs[p]["poll"]}

\* register_public_key: whether the request is lost or refused is not looked at.
Register(p, landed) ==
    /\ at[p] = "register"
    /\ at' = [at EXCEPT ![p] = "poll"]
    /\ IF landed
       THEN /\ verifiers' = [current |-> signs[p]["poll"], previous |-> verifiers.current]
            /\ lost' = lost \ Renewed(p)
            /\ since' = [c \in Clients |->
                    IF c \in Renewed(p) THEN 0 ELSE IF since[c] = 2 THEN 2 ELSE since[c] + 1]
       ELSE lost' = lost \cup Renewed(p) /\ UNCHANGED <<verifiers, since>>
    /\ UNCHANGED <<keyfile, signs, made, crashes, displaced>>

\* The process dies, at any point; a torn file stays until someone removes it.
\* (The auxiliary variables forget what they know of it.)
Die(p) ==
    /\ at[p] # "down" /\ crashes < MaxCrashes
    /\ crashes' = crashes + 1
    /\ at' = [at EXCEPT ![p] = "down"]
    /\ signs' = [signs EXCEPT ![p] = NotRunning]
    /\ lost' = {c \in lost : c[1] # p}
    /\ since' = [c \in Clients |-> IF c[1] = p THEN 0 ELSE since[c]]
    /\ displaced' = displaced \ {p}
    /\ UNCHANGED <<keyfile, verifiers, made>>

RemoveTorn(p) ==
    /\ at[p] = "down" /\ Persistent(p) /\ keyfile[FileOf[p]] = Torn
    /\ keyfile' = [keyfile EXCEPT ![FileOf[p]] = NoKey]
    /\ UNCHANGED <<signs, at, verifiers, made, crashes, lost, since, displaced>>

KeyNext ==
    \E p \in Peps :
        \/ Load(p) \/ FindNone(p) \/ Create(p) \/ Rotate(p) \/ WriteFile(p) \/ Die(p) \/ RemoveTorn(p)
        \/ \E landed \in BOOLEAN : Register(p, landed)

-----------------------------------------------------------------------------
\* The client of a process that is past the registration of its key: a
\* rotation leaves the ReviewClient at work with the key it was built with.
InUse(p, c) == at[p] = "poll" \/ signs[p][c] # signs[p]["poll"]

\* The poller and the ReviewClient of a process sign with keys the control
\* plane verifies, unless the registration of that key was lost or two others
\* landed after it (for the ReviewClient its own process's rotations count,
\* for both those of the processes that share its file); the key a poller
\* signs with is the one its next start will find, unless a process that
\* shares the file wrote it since; and a file is torn only while a process
\* writes it, or since one died.
KeysStayUsable ==
    /\ \A p \in Peps, c \in Signers :
        InUse(p, c) => Verifies(signs[p][c]) \/ <<p, c>> \in lost \/ since[<<p, c>>] = 2
    /\ \A p \in Peps \ displaced :
        at[p] = "poll" /\ Persistent(p) => keyfile[FileOf[p]] = signs[p]["poll"]
    /\ \A f \in Files : keyfile[f] = Torn =>
        crashes > 0 \/ \E p \in Peps : FileOf[p] = f /\ at[p] = "write"
=============================================================================
