---------------------------- MODULE BundleSyncProofs ----------------------------
(***************************************************************************)
(* Theorems of BundleSync for any files, contents, bundles and number of   *)
(* crashes.  What a process serves is tied to where its poll thread is     *)
(* (Stages); what it has settled on is tied to what it serves by what the  *)
(* apply leaves at the callback that records the digest (Handover).        *)
(***************************************************************************)
EXTENDS BundleSync, TLAPS

\* An engine exists from the first construction to the death of the process,
\* a bundle is in hand while it is written and applied, only the loop keeps
\* a digest, and only the gateway's live engine has a watcher.
Stages ==
    /\ pc \in {"down", "construct"} => served = NoPolicy
    /\ pc \in {"apply", "heartbeat"} => served # NoPolicy
    /\ phase = "loop" => served # NoPolicy
    /\ pc \in {"write", "apply", "callback"} => fetched \in Published
    /\ last # NoBundle => phase = "loop"
    /\ watcher # NoPolicy => Gateway /\ served # NoPolicy

\* In the loop of an SDK process a good bundle is in force by the time its
\* callback runs.
Handover ==
    (/\ ~Gateway /\ phase = "loop" /\ pc = "callback"
     /\ Loads(BundlePolicy(fetched))) =>
        served = BundlePolicy(fetched)

IInv == TypeOK /\ Stages /\ Handover /\ ServesOnePublishedBundle /\ ArtifactsAgree

USE SyncAssumption

\* What the engine makes of any set of files is a policy, and so not none.
LEMMA PolicyOfType ==
    ASSUME NEW files, NEW with_entities,
           \A n \in DiskNames : files[n] \in Contents \cup {Absent}
    PROVE  PolicyOf(files, with_entities) \in Policies \ {NoPolicy}
  <1>1. [cedar |-> [n \in CedarNames |-> files[n]],
         entities |-> IF with_entities THEN files[EntitiesName] ELSE Absent] \in Policies
      BY DEF Policies, DiskNames
  <1> QED BY <1>1 DEF PolicyOf

\* A published bundle holds contents by name, and is a policy.
LEMMA BundleType ==
    ASSUME TypeOK, NEW b \in Published
    PROVE  /\ b \in [Names -> Contents \cup {Absent}] /\ b # NoBundle
           /\ BundlePolicy(b) \in Policies /\ BundlePolicy(b) # NoPolicy
  <1>1. b \in [Names -> Contents \cup {Absent}] /\ b # NoBundle
      BY DEF TypeOK, Published
  <1>2. \A n \in DiskNames : b[n] \in Contents \cup {Absent}
      BY <1>1 DEF Names
  <1> QED BY <1>1, <1>2, PolicyOfType DEF BundlePolicy

\* What a process can construct is a policy.
LEMMA ConstructedType ==
    ASSUME TypeOK
    PROVE  /\ DiskPolicy \in Policies /\ DiskPolicy # NoPolicy
           /\ PolicyOf(LocalPolicy, TRUE) \in Policies
           /\ PolicyOf(LocalPolicy, TRUE) # NoPolicy
  <1>1. \A n \in DiskNames : disk[n] \in Contents \cup {Absent}
      BY DEF TypeOK
  <1>2. \A n \in DiskNames : LocalPolicy[n] \in Contents \cup {Absent}
      OBVIOUS
  <1> QED BY <1>1, <1>2, PolicyOfType DEF DiskPolicy

\* A process that has not started serves and holds nothing.
LEMMA InitIInv == Init => IInv
  <1> SUFFICES ASSUME Init PROVE IInv
      OBVIOUS
  <1>1. TypeOK
    <2>1. todo \subseteq DiskNames /\ crashes \in 0..MaxCrashes
        BY DEF Init
    <2> QED BY <2>1 DEF Init, TypeOK, Published
  <1>2. Stages /\ Handover /\ ServesOnePublishedBundle /\ ArtifactsAgree
      BY DEF Init, Stages, Handover, ServesOnePublishedBundle, ArtifactsAgree
  <1> QED BY <1>1, <1>2 DEF IInv

\* Nothing in the invariant depends on what the heartbeat reported, on the
\* bundle the control plane serves, or on the directory.
LEMMA ProcessUntouched ==
    ASSUME IInv, TypeOK', UNCHANGED <<deployment, served, checks, phase, pc, last, fetched, watcher>>
    PROVE  IInv'
  <1> USE DEF IInv, Gateway, Published
  <1>1. (Stages /\ Handover)'
      BY DEF Stages, Handover
  <1>2. (ServesOnePublishedBundle /\ ArtifactsAgree)'
      BY DEF ServesOnePublishedBundle, ArtifactsAgree
  <1> QED BY <1>1, <1>2

\* The control plane publishes, the process starts, a heartbeat is sent: none
\* of them changes what is served.
LEMMA OutsideSteps ==
    ASSUME IInv, Publish \/ Start \/ Heartbeat \/ HeartbeatLost
    PROVE  IInv'
  <1> USE DEF IInv
  <1>1. CASE Publish
    <2>1. TypeOK'
        BY <1>1 DEF Publish, TypeOK, Published, process, watch
    <2> QED BY <1>1, <2>1, ProcessUntouched DEF Publish, process, watch
  <1>2. CASE Start
    <2> USE <1>2 DEF Start, watch, Persist, Gateway, Published
    <2>1. TypeOK'
        BY DEF TypeOK
    <2>2. (Stages /\ Handover)'
        BY DEF Stages, Handover
    <2>3. (ServesOnePublishedBundle /\ ArtifactsAgree)'
        BY DEF ServesOnePublishedBundle, ArtifactsAgree, Stages
    <2> QED BY <2>1, <2>2, <2>3
  <1>3. CASE Heartbeat \/ HeartbeatLost
    <2> USE <1>3 DEF Heartbeat, HeartbeatLost, watch, Gateway, Published
    <2>1. TypeOK'
        BY DEF TypeOK
    <2>2. (Stages /\ Handover)'
        BY DEF Stages, Handover
    <2>3. (ServesOnePublishedBundle /\ ArtifactsAgree)'
        BY DEF ServesOnePublishedBundle, ArtifactsAgree
    <2> QED BY <2>1, <2>2, <2>3
  <1> QED BY <1>1, <1>2, <1>3

\* A fetch: a new bundle in hand, or the poll is over with nothing changed.
LEMMA FetchSteps ==
    ASSUME IInv, FetchNew \/ FetchUnchanged \/ FetchFails
    PROVE  IInv'
  <1> USE DEF IInv, FetchNew, FetchUnchanged, FetchFails, AfterPoll, watch, Gateway,
              Published
  <1>1. TypeOK'
      BY DEF TypeOK
  <1>2. (Stages /\ Handover)'
      BY DEF Stages, Handover, TypeOK
  <1>3. (ServesOnePublishedBundle /\ ArtifactsAgree)'
      BY DEF ServesOnePublishedBundle, ArtifactsAgree, Stages
  <1> QED BY <1>1, <1>2, <1>3

\* The bundle is written out, file by file.
LEMMA WriteSteps ==
    ASSUME IInv, WriteFile \/ WriteDone
    PROVE  IInv'
  <1> USE DEF IInv
  <1>1. CASE WriteFile
    <2> USE DEF WriteFile
    <2>1. fetched \in [Names -> Contents \cup {Absent}]
        BY <1>1, BundleType DEF Stages
    <2>2. dirty' \in BOOLEAN
        BY <1>1 DEF Gateway
    <2>3. disk' \in [DiskNames -> Contents \cup {Absent}] /\ todo' \subseteq DiskNames
        BY <1>1, <2>1 DEF TypeOK, Names
    <2>4. TypeOK'
        BY <1>1, <2>2, <2>3 DEF TypeOK, Published
    <2> QED BY <1>1, <2>4, ProcessUntouched
  <1>2. CASE WriteDone
    <2> USE <1>2 DEF WriteDone, watch, Gateway, Published
    <2>1. TypeOK'
        BY DEF TypeOK
    <2>2. (Stages /\ Handover)'
        BY DEF Stages, Handover
    <2>3. (ServesOnePublishedBundle /\ ArtifactsAgree)'
        BY DEF ServesOnePublishedBundle, ArtifactsAgree
    <2> QED BY <2>1, <2>2, <2>3
  <1> QED BY <1>1, <1>2

\* The engine compiles the bundle, or stays as it is.
LEMMA ApplyStep ==
    ASSUME IInv, Apply
    PROVE  IInv'
  <1> USE DEF IInv, Apply, watch, Gateway, Published
  <1>1. /\ fetched \in Published
        /\ BundlePolicy(fetched) \in Policies /\ BundlePolicy(fetched) # NoPolicy
      BY BundleType DEF Stages
  <1>2. TypeOK'
      BY <1>1 DEF TypeOK
  <1>3. Stages'
      BY <1>1 DEF Stages
  <1>4. Handover'
      BY DEF Handover
  <1>5. (ServesOnePublishedBundle /\ ArtifactsAgree)'
      BY <1>1 DEF ServesOnePublishedBundle, ArtifactsAgree
  <1> QED BY <1>2, <1>3, <1>4, <1>5

\* The callback sets the checks, and the loop keeps the digest.
LEMMA CallbackStep ==
    ASSUME IInv, Callback
    PROVE  IInv'
  <1> USE DEF IInv, Callback, AfterPoll, watch, Gateway, Published
  <1>1. /\ fetched \in Published
        /\ fetched[ChecksName] \in Contents \cup {Absent}
      BY BundleType DEF Stages, Names
  <1>2. TypeOK'
      BY <1>1 DEF TypeOK, ChecksAfter
  <1>3. (Stages /\ Handover)'
      BY DEF Stages, Handover
  <1>4. ServesOnePublishedBundle'
      BY DEF ServesOnePublishedBundle
  <1>5. ArtifactsAgree'
      BY DEF ArtifactsAgree, Handover, ChecksAfter
  <1> QED BY <1>2, <1>3, <1>4, <1>5

\* An engine is built, from the directory or from the local policy.
LEMMA ConstructStep ==
    ASSUME IInv, Construct
    PROVE  IInv'
  <1> DEFINE p == IF Persist THEN DiskPolicy ELSE PolicyOf(LocalPolicy, TRUE)
  <1>1. p \in Policies /\ p # NoPolicy
      BY ConstructedType DEF IInv
  <1>2. /\ pc = "construct" /\ served = NoPolicy /\ last = NoBundle
        /\ watcher = NoPolicy
      BY DEF IInv, Stages, Construct
  <1>3. deployment = "memory" => p = PolicyOf(LocalPolicy, TRUE)
      BY DEF Persist
  <1>4. /\ UNCHANGED <<deployment, cp, disk, last, fetched, todo, reported, watch, crashes>>
        /\ IF Loads(p)
           THEN /\ served' = p
                /\ phase' = IF Persist THEN "loop" ELSE "boot"
                /\ pc' = IF deployment = "persist" THEN "heartbeat" ELSE "fetch"
                /\ UNCHANGED checks
           ELSE /\ pc' = "down" /\ phase' = "boot" /\ checks' = Absent
                /\ UNCHANGED served
      BY DEF Construct
  <1> HIDE DEF p
  <1> USE <1>1, <1>2, <1>4 DEF IInv, watch, Published
  <1>5. TypeOK'
      BY DEF TypeOK
  <1>6. (Stages /\ Handover)'
      BY DEF Stages, Handover
  <1>7. ServesOnePublishedBundle'
    <2>1. CASE served' = NoPolicy
        BY <2>1 DEF ServesOnePublishedBundle
    <2>2. CASE Loads(p) /\ served' = p
      <3>1. Loads(served)'
          BY <2>2 DEF Loads
      <3>2. deployment' = "memory" => served' = PolicyOf(LocalPolicy, TRUE)
          BY <2>2, <1>3
      <3> QED BY <3>1, <3>2 DEF ServesOnePublishedBundle
    <2> QED BY <2>1, <2>2
  <1>8. ArtifactsAgree'
      BY DEF ArtifactsAgree
  <1> QED BY <1>5, <1>6, <1>7, <1>8

\* The process dies: whatever the directory holds then is still contents.
LEMMA CrashStep ==
    ASSUME IInv, Crash
    PROVE  IInv'
  <1> USE DEF IInv, Crash, Gateway, Published
  <1>1. disk' \in [DiskNames -> Contents \cup {Absent}]
    <2>1. CASE UNCHANGED disk
        BY <2>1 DEF TypeOK
    <2>2. CASE \E n \in todo, c \in TornContents : disk' = [disk EXCEPT ![n] = c]
        BY <2>2 DEF TypeOK
    <2> QED BY <2>1, <2>2
  <1>2. TypeOK'
    <2>1. todo' \subseteq DiskNames /\ crashes' \in 0..MaxCrashes
        BY DEF TypeOK
    <2> QED BY <1>1, <2>1 DEF TypeOK
  <1>3. (Stages /\ Handover)'
      BY DEF Stages, Handover
  <1>4. (ServesOnePublishedBundle /\ ArtifactsAgree)'
      BY DEF ServesOnePublishedBundle, ArtifactsAgree
  <1> QED BY <1>2, <1>3, <1>4

\* The gateway's watcher builds from the directory and swaps its build in.
LEMMA WatcherSteps ==
    ASSUME IInv, WatchBuild \/ WatchApply
    PROVE  IInv'
  <1> USE DEF IInv, process, Published
  <1>1. DiskPolicy \in Policies /\ DiskPolicy # NoPolicy
      BY ConstructedType
  <1>2. Gateway
      BY DEF WatchBuild, WatchApply, Stages
  <1>3. TypeOK'
      BY <1>1 DEF TypeOK, WatchBuild, WatchApply
  <1>4. Stages'
      BY <1>1, <1>2 DEF Stages, WatchBuild, WatchApply, Gateway
  <1>5. (Handover /\ ServesOnePublishedBundle /\ ArtifactsAgree)'
      BY <1>2 DEF Handover, ServesOnePublishedBundle, ArtifactsAgree, WatchBuild,
                  WatchApply, Gateway
  <1> QED BY <1>3, <1>4, <1>5

\* Every step of the process, its control plane and its watcher.
LEMMA StepIInv == IInv /\ [Next]_vars => IInv'
  <1> SUFFICES ASSUME IInv, [Next]_vars PROVE IInv'
      OBVIOUS
  <1>1. CASE Publish \/ Start \/ Heartbeat \/ HeartbeatLost
      BY <1>1, OutsideSteps
  <1>2. CASE FetchNew \/ FetchUnchanged \/ FetchFails
      BY <1>2, FetchSteps
  <1>3. CASE WriteFile \/ WriteDone
      BY <1>3, WriteSteps
  <1>4. CASE Apply \/ Callback \/ Construct \/ Crash
      BY <1>4, ApplyStep, CallbackStep, ConstructStep, CrashStep
  <1>5. CASE WatchBuild \/ WatchApply
      BY <1>5, WatcherSteps
  <1>6. CASE UNCHANGED vars
    <2>1. TypeOK'
        BY <1>6 DEF vars, process, watch, IInv, TypeOK, Published
    <2> QED BY <1>6, <2>1, ProcessUntouched DEF vars, process, watch
  <1> QED BY <1>1, <1>2, <1>3, <1>4, <1>5, <1>6 DEF Next, Progress

\* The inductive invariant holds of every behaviour.
THEOREM InductiveInvariant == Spec => []IInv
  <1> QED BY InitIInv, StepIInv, PTL DEF Spec

\* Every variable keeps its type, whatever is published, written or torn.
THEOREM TypeCorrect == Spec => []TypeOK
  <1>1. IInv => TypeOK
      BY DEF IInv
  <1> QED BY <1>1, InductiveInvariant, PTL

\* A memory-only engine serves one published bundle or the local policy,
\* whole, and only one that loads: poll_once never leaves a mixture.
THEOREM ServesOne == Spec => []ServesOnePublishedBundle
  <1>1. IInv => ServesOnePublishedBundle
      BY DEF IInv
  <1> QED BY <1>1, InductiveInvariant, PTL

\* An SDK process that has settled on a good bundle enforces its policy and
\* its checks together, after any number of bad pushes, outages and crashes.
THEOREM SettledArtifactsAgree == Spec => []ArtifactsAgree
  <1>1. IInv => ArtifactsAgree
      BY DEF IInv
  <1> QED BY <1>1, InductiveInvariant, PTL

\* A step takes an engine's policy away only when it ends the process.
LEMMA StepNeverEmpties ==
    ASSUME IInv, [Next]_vars
    PROVE  [served # NoPolicy /\ pc' # "down" => served' # NoPolicy]_vars
  <1> SUFFICES ASSUME Next, served # NoPolicy, pc' # "down" PROVE served' # NoPolicy
      OBVIOUS
  <1>1. CASE Apply
    <2>1. BundlePolicy(fetched) # NoPolicy
        BY <1>1, BundleType DEF Apply, IInv, Stages
    <2> QED BY <1>1, <2>1 DEF Apply
  <1>2. CASE Construct
      BY <1>2 DEF Construct, IInv, Stages
  <1>3. CASE WatchApply
      BY <1>3 DEF WatchApply
  <1>4. CASE Crash
      BY <1>4 DEF Crash
  <1>5. CASE Publish \/ WatchBuild
      BY <1>5 DEF Publish, WatchBuild, process
  <1>6. CASE Start \/ WriteFile \/ WriteDone \/ Callback \/ FetchNew \/ FetchUnchanged
             \/ FetchFails \/ Heartbeat \/ HeartbeatLost
      BY <1>6 DEF Start, WriteFile, WriteDone, Callback, FetchNew, FetchUnchanged,
                  FetchFails, Heartbeat, HeartbeatLost
  <1> QED BY <1>1, <1>2, <1>3, <1>4, <1>5, <1>6 DEF Next, Progress

\* The engine is replaced, never emptied: every rejection and every outage
\* leaves the policy that was in force (engine.py: "Never empty the set").
THEOREM EngineNeverEmptied == Spec => NeverEmptied
  <1>1. IInv /\ [Next]_vars => [served # NoPolicy /\ pc' # "down" => served' # NoPolicy]_vars
      BY StepNeverEmpties
  <1> QED BY <1>1, InductiveInvariant, PTL DEF Spec, NeverEmptied
================================================================================
