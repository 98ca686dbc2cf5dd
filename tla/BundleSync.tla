------------------------------- MODULE BundleSync -------------------------------
(***************************************************************************)
(* Pulling policy bundles from the control plane                           *)
(* (src/parapetai_agent/control_plane.py) into a policy directory and a    *)
(* live engine, across outages, bad bundles, crashes and restarts, in the  *)
(* three deployments of the code:                                          *)
(*   in-process SDK, nothing persisted  (bootstrap_engine, memory only);   *)
(*   in-process SDK with persist_policy_dir;                               *)
(*   the gateway (gateway/src/parapetai_gateway/server/main.py), which     *)
(*   persists and also watches its policy directory, and whose engine is   *)
(*   built with entities_path, None by default.                            *)
(* A bundle maps file names to contents.  A digest identifies its bundle,  *)
(* so bundles are compared directly.  PolicyEngine models how a build is   *)
(* swapped in; here the swap is one step.                                  *)
(***************************************************************************)
EXTENDS Integers, FiniteSets

CONSTANTS
    CedarNames,     \* names of .cedar files
    EntitiesName,   \* entities.json
    ChecksName,     \* content_checks.json, consumed from memory only
    Contents,       \* file contents
    Malformed,      \* those that do not parse or compile
    TornContents,   \* what a write interrupted by a crash may leave
    Absent,         \* no such file
    Deployments,    \* the deployments considered: memory, persist, gateway
    Bundles,        \* per deployment, what the control plane may publish
    LocalPolicy,    \* files of the policy_dir a memory-only SDK starts from
    FirstDisk,      \* the persisted directory before the first start
    MaxCrashes,     \* bound on crashes
    NoBundle, NoPolicy

DiskNames == CedarNames \cup {EntitiesName}
Names     == DiskNames \cup {ChecksName}

Policies == [cedar: [CedarNames -> Contents \cup {Absent}],
             entities: Contents \cup {Absent}]

ASSUME SyncAssumption ==
    /\ Malformed \subseteq Contents /\ TornContents \subseteq Contents
    /\ Absent \notin Contents
    /\ Deployments \subseteq {"memory", "persist", "gateway"}
    /\ \A d \in Deployments : Bundles[d] \subseteq [Names -> Contents \cup {Absent}]
    /\ FirstDisk \in [DiskNames -> Contents \cup {Absent}]
    /\ LocalPolicy \in [DiskNames -> Contents \cup {Absent}]
    /\ \A d \in Deployments : NoBundle \notin Bundles[d]
    /\ NoPolicy \notin Policies
    /\ MaxCrashes \in Nat

VARIABLES
    deployment, \* which of the three this process is; never changes
    cp,         \* the bundle the control plane serves
    disk,       \* the persisted policy directory
    served,     \* the engine's policy, NoPolicy while there is no engine
    checks,     \* the content-check configuration in force
    phase,      \* "boot": bootstrap_engine or main; "loop": the poll thread
    pc,         \* where that thread is
    last,       \* last_digest of the loop
    fetched,    \* the bundle poll_once has in hand
    todo,       \* its files still to be written
    reported,   \* the policy the last delivered heartbeat named
    watcher,    \* what the watcher has built and not applied, else NoPolicy
    dirty,      \* the directory changed since the watcher last looked
    crashes

process == <<served, checks, phase, pc, last, fetched, todo>>
watch   == <<watcher, dirty>>
vars    == <<deployment, cp, disk, process, reported, watch, crashes>>

Persist   == deployment # "memory"     \* bundles are written to disk
Gateway   == deployment = "gateway"    \* a watcher runs, no callback does
Published == Bundles[deployment]

---------------------------------------------------------------------------
(* What the engine makes of a set of files.                                *)

PolicyOf(files, with_entities) ==
    [cedar    |-> [n \in CedarNames |-> files[n]],
     entities |-> IF with_entities THEN files[EntitiesName] ELSE Absent]

BundlePolicy(b) == PolicyOf(b, TRUE)                 \* load_from_bundle

\* bootstrap_engine takes entities.json as the engine's entities_path when it
\* is there; the gateway passes settings.entities_path, unset by default.
DiskPolicy == PolicyOf(disk, ~Gateway)               \* _build

Loads(p) ==
    /\ \E n \in CedarNames : p.cedar[n] # Absent
    /\ \A n \in CedarNames : p.cedar[n] \notin Malformed
    /\ p.entities \notin Malformed

\* Fault: a bundle without checks leaves the previous ones in force.
ChecksKeptIfAbsent(b) ==
    IF b[ChecksName] \in Malformed \cup {Absent} THEN checks ELSE b[ChecksName]

\* ContentCheckConfig.load_from_bundle: a missing file clears the checks, a
\* malformed one leaves them.
ChecksAfter(b) ==
    IF b[ChecksName] \in Malformed THEN checks ELSE b[ChecksName]

---------------------------------------------------------------------------
Init ==
    /\ deployment \in Deployments
    /\ cp \in Published
    /\ disk = FirstDisk
    /\ served = NoPolicy /\ checks = Absent
    /\ phase = "boot" /\ pc = "down"
    /\ last = NoBundle /\ fetched = NoBundle /\ todo = {}
    /\ reported = NoPolicy
    /\ watcher = NoPolicy /\ dirty = FALSE
    /\ crashes = 0

\* An operator publishes another bundle (external).
Publish ==
    /\ \E b \in Published \ {cp} : cp' = b
    /\ UNCHANGED <<deployment, disk, process, reported, watch, crashes>>

\* The persisting deployments fetch before they build the engine, the
\* memory-only one after.
Start ==
    /\ pc = "down"
    /\ phase' = "boot"
    /\ pc' = IF Persist THEN "fetch" ELSE "construct"
    /\ UNCHANGED <<deployment, cp, disk, served, checks, last, fetched, todo, reported,
                   watch, crashes>>

\* Where poll_once returns to.  bootstrap_engine sends one heartbeat before it
\* starts the loop; the gateway's main leaves that to the loop.
AfterPoll ==
    IF served = NoPolicy THEN phase' = "boot" /\ pc' = "construct"
    ELSE phase' = "loop" /\ pc' = "heartbeat"

FetchNew ==
    /\ pc = "fetch" /\ cp # last
    /\ fetched' = cp
    /\ todo' = IF Persist THEN {n \in DiskNames : cp[n] # Absent} ELSE {}
    /\ pc' = "write"
    /\ UNCHANGED <<deployment, cp, disk, served, checks, phase, last, reported, watch,
                   crashes>>

FetchUnchanged ==                                    \* 304
    /\ pc = "fetch" /\ cp = last
    /\ AfterPoll
    /\ UNCHANGED <<deployment, cp, disk, served, checks, last, fetched, todo, reported,
                   watch, crashes>>

\* Fault: a failed fetch ends the poll thread.
FetchFailsEndsThread ==
    /\ pc = "fetch"
    /\ pc' = "ended"
    /\ UNCHANGED <<deployment, cp, disk, served, checks, phase, last, fetched, todo,
                   reported, watch, crashes>>

\* Fault: the digest is remembered although the fetch failed.
FetchFailsRemembered ==
    /\ pc = "fetch"
    /\ last' = cp
    /\ AfterPoll
    /\ UNCHANGED <<deployment, cp, disk, served, checks, fetched, todo, reported,
                   watch, crashes>>

FetchFails ==                                        \* BundleFetchError
    /\ pc = "fetch"
    /\ AfterPoll
    /\ UNCHANGED <<deployment, cp, disk, served, checks, last, fetched, todo, reported,
                   watch, crashes>>

\* sync_bundle_to_disk, one file at a time, before anything has been
\* validated; files the bundle does not name stay as they are.
WriteFile ==
    /\ pc = "write"
    /\ \E n \in todo :
          /\ disk' = [disk EXCEPT ![n] = fetched[n]]
          /\ todo' = todo \ {n}
    /\ dirty' = Gateway
    /\ UNCHANGED <<deployment, cp, served, checks, phase, pc, last, fetched, reported,
                   watcher, crashes>>

WriteDone ==
    /\ pc = "write" /\ todo = {}
    /\ pc' = IF served = NoPolicy THEN "callback" ELSE "apply"
    /\ UNCHANGED <<deployment, cp, disk, served, checks, phase, last, fetched, todo,
                   reported, watch,
                   crashes>>

\* Fault: the bundle is swapped in without being compiled.
ApplyUnchecked ==
    /\ pc = "apply"
    /\ served' = BundlePolicy(fetched)
    /\ pc' = "callback"
    /\ UNCHANGED <<deployment, cp, disk, checks, phase, last, fetched, todo, reported,
                   watch, crashes>>

\* Fault: a rejected bundle leaves no policy.
ApplyOrNothing ==
    /\ pc = "apply"
    /\ served' = IF Loads(BundlePolicy(fetched)) THEN BundlePolicy(fetched) ELSE NoPolicy
    /\ pc' = "callback"
    /\ UNCHANGED <<deployment, cp, disk, checks, phase, last, fetched, todo, reported,
                   watch, crashes>>

\* engine.load_from_bundle: a rejected bundle leaves the engine as it is.
Apply ==
    /\ pc = "apply"
    /\ served' = IF Loads(BundlePolicy(fetched)) THEN BundlePolicy(fetched) ELSE served
    /\ pc' = "callback"
    /\ UNCHANGED <<deployment, cp, disk, checks, phase, last, fetched, todo, reported,
                   watch, crashes>>

\* on_bundle, whatever became of the apply; poll_once then returns the new
\* digest, which only the loop keeps.
Callback ==
    /\ pc = "callback"
    /\ checks' = IF Gateway THEN checks ELSE ChecksAfter(fetched)
    /\ last' = IF phase = "loop" THEN fetched ELSE NoBundle
    /\ fetched' = NoBundle
    /\ AfterPoll
    /\ UNCHANGED <<deployment, cp, disk, served, todo, reported, watch, crashes>>

\* PolicyEngine.__init__, which raises when there is nothing loadable: the
\* process ends.
Construct ==
    /\ pc = "construct"
    /\ LET p == IF Persist THEN DiskPolicy ELSE PolicyOf(LocalPolicy, TRUE)
       IN  IF Loads(p)
           THEN /\ served' = p
                /\ phase' = IF Persist THEN "loop" ELSE "boot"
                /\ pc' = IF deployment = "persist" THEN "heartbeat" ELSE "fetch"
                /\ UNCHANGED checks
           ELSE /\ pc' = "down" /\ phase' = "boot" /\ checks' = Absent
                /\ UNCHANGED served
    /\ UNCHANGED <<deployment, cp, disk, last, fetched, todo, reported, watch, crashes>>

\* send_heartbeat with engine.status, delivered or not.
Heartbeat ==
    /\ pc = "heartbeat"
    /\ reported' = served
    /\ pc' = "fetch"
    /\ UNCHANGED <<deployment, cp, disk, served, checks, phase, last, fetched, todo,
                   watch, crashes>>

HeartbeatLost ==
    /\ pc = "heartbeat"
    /\ pc' = "fetch"
    /\ UNCHANGED <<deployment, cp, disk, served, checks, phase, last, fetched, todo,
                   reported, watch,
                   crashes>>

\* The process dies at any point; a file being written may be left torn.
Crash ==
    /\ pc # "down" /\ crashes < MaxCrashes
    /\ crashes' = crashes + 1
    /\ \/ UNCHANGED disk
       \/ /\ pc = "write"
          /\ \E n \in todo, c \in TornContents : disk' = [disk EXCEPT ![n] = c]
    /\ served' = NoPolicy /\ checks' = Absent
    /\ phase' = "boot" /\ pc' = "down"
    /\ last' = NoBundle /\ fetched' = NoBundle /\ todo' = {}
    /\ watcher' = NoPolicy /\ dirty' = FALSE
    /\ UNCHANGED <<deployment, cp, reported>>

\* _watch: a change notification makes it rebuild from the directory ...
WatchBuild ==
    /\ Gateway /\ served # NoPolicy /\ dirty /\ watcher = NoPolicy
    /\ dirty' = FALSE
    /\ watcher' = IF Loads(DiskPolicy) THEN DiskPolicy ELSE NoPolicy
    /\ UNCHANGED <<deployment, cp, disk, process, reported, crashes>>

\* ... and swap the build in, whatever was loaded in the meantime.
WatchApply ==
    /\ watcher # NoPolicy
    /\ served' = watcher
    /\ watcher' = NoPolicy
    /\ UNCHANGED <<deployment, cp, disk, checks, phase, pc, last, fetched, todo,
                   reported, dirty, crashes>>

Progress == Start \/ WriteFile \/ WriteDone \/ Apply \/ Callback \/ Construct

Next ==
    \/ Publish \/ Crash
    \/ Progress \/ FetchNew \/ FetchUnchanged \/ FetchFails \/ Heartbeat \/ HeartbeatLost
    \/ WatchBuild \/ WatchApply

\* The poll thread and the watcher keep running and a supervisor restarts a
\* dead process; of infinitely many requests the control plane answers, and
\* of infinitely many heartbeats it receives, infinitely many.
Fairness ==
    /\ WF_vars(Progress)
    /\ WF_vars(FetchNew \/ FetchUnchanged \/ FetchFails)
    /\ WF_vars(Heartbeat \/ HeartbeatLost)
    /\ SF_vars(FetchNew) /\ SF_vars(FetchUnchanged) /\ SF_vars(Heartbeat)
    /\ WF_vars(WatchBuild) /\ WF_vars(WatchApply)

Spec     == Init /\ [][Next]_vars
FairSpec == Spec /\ Fairness

---------------------------------------------------------------------------
(* Properties.                                                             *)

TypeOK ==
    /\ deployment \in Deployments
    /\ cp \in Published
    /\ disk \in [DiskNames -> Contents \cup {Absent}]
    /\ served \in Policies \cup {NoPolicy}
    /\ checks \in Contents \cup {Absent}
    /\ phase \in {"boot", "loop"}
    /\ pc \in {"down", "fetch", "write", "apply", "callback", "construct", "heartbeat"}
    /\ last \in Published \cup {NoBundle} /\ fetched \in Published \cup {NoBundle}
    /\ todo \subseteq DiskNames
    /\ reported \in Policies \cup {NoPolicy}
    /\ watcher \in Policies \cup {NoPolicy} /\ dirty \in BOOLEAN
    /\ crashes \in 0..MaxCrashes

\* Memory-only: the engine serves one published bundle, whole, or the local
\* default, and never one that does not load: bad bundles, outages and
\* crashes never leave a mixture, a stale rule or an empty policy
\* (control_plane.py poll_once, bootstrap_engine).
ServesOnePublishedBundle ==
    (deployment = "memory" /\ served # NoPolicy) =>
        /\ served \in {BundlePolicy(b) : b \in Published} \cup {PolicyOf(LocalPolicy, TRUE)}
        /\ Loads(served)

\* Once the loop of an SDK process has settled on a digest, the engine and
\* the content checks are both that bundle's if both are good: no cycle, no
\* earlier bad push and no restart leaves one artifact of a bundle in force
\* without the other (control_plane.py poll_once).
ArtifactsAgree ==
    (/\ ~Gateway /\ pc \in {"fetch", "heartbeat"} /\ last # NoBundle
     /\ Loads(BundlePolicy(last)) /\ last[ChecksName] \notin Malformed) =>
        /\ served = BundlePolicy(last)
        /\ checks = last[ChecksName]

\* The running engine is replaced, never emptied: only the death of the
\* process takes a policy away (engine.py: "Never empty the set").
NeverEmptied == [][served # NoPolicy /\ pc' # "down" => served' # NoPolicy]_vars

\* When the control plane settles on a bundle that loads, the engine settles
\* on it and the fleet view names it, whatever outages, bad bundles, races
\* with the watcher and crashes came before (control_plane.py
\* run_bundle_poller, bootstrap_engine: "a control plane that comes back is
\* picked up without a restart").
Converges ==
    \A b \in UNION {Bundles[d] : d \in Deployments} :
        Loads(BundlePolicy(b)) =>
            (<>[](cp = b) => <>[](served = BundlePolicy(b) /\ reported = served))

\* "persistence, so a restart while the control plane is briefly unreachable
\* still has the last-known-good bundle to load" (control_plane.py): a
\* directory a running engine has loaded from is never left unloadable.
RestartHasLastKnownGood ==
    (Persist /\ served # NoPolicy) => Loads(DiskPolicy)
================================================================================
