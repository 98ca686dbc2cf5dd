--------------------------- MODULE PolicyEngineProofs ---------------------------
(***************************************************************************)
(* Theorems of PolicyEngine for every set of threads, texts and entities   *)
(* lists.  The invariant below is inductive: who holds the lock is told by *)
(* the program counters, a loader past the probe carries a loadable build, *)
(* the fields assigned so far in a swap are that build's, and outside a    *)
(* swap all of them are the newest history entry's.                        *)
(***************************************************************************)
EXTENDS PolicyEngine, TLAPS

SwapLabels   == {"swap_policies", "swap_annotations", "swap_entities", "publish"}
OutsideLabels == {"idle", "entities", "apply", "acquire"}
LoaderLabels == OutsideLabels \cup SwapLabels

LockInv ==
    /\ \A t \in Loaders : pc[t] \in LoaderLabels /\ (pc[t] \in SwapLabels <=> lock = t)
    /\ \A e \in Evaluators : /\ pc[e] \in {"idle", "copy", "decide"}
                             /\ pc[e] = "copy" <=> lock = e

BuildInv ==
    \A t \in Loaders :
        /\ pc[t] = "entities" => build[t].text \in Texts
        /\ pc[t] = "apply" => build[t] \in Builds
        /\ pc[t] \in SwapLabels \cup {"acquire"} => build[t] \in Good

HistoryInv ==
    /\ Len(history) = generation
    /\ generation >= 1
    /\ \A g \in 1..generation : history[g] \in Good

SwapInv ==
    \A t \in Loaders :
        /\ pc[t] \in {"swap_annotations", "swap_entities", "publish"}
              => policies = build[t].text
        /\ pc[t] \in {"swap_entities", "publish"} => annotations = build[t].text
        /\ pc[t] = "publish" => entities = build[t].entities /\ digest = build[t]

CurrentInv ==
    lock \notin Loaders => /\ digest = history[generation]
                           /\ policies = digest.text
                           /\ annotations = digest.text
                           /\ entities = digest.entities

ReadInv ==
    /\ \A e \in Evaluators :
          /\ snap[e].gen \in 1..generation
          /\ history[snap[e].gen] = [text |-> snap[e].policies, entities |-> snap[e].entities]
          /\ snap[e].annotations = snap[e].policies
    /\ \A r \in Reporters : /\ report[r].gen \in 1..generation
                            /\ history[report[r].gen] = report[r].digest

IInv == TypeOK /\ LockInv /\ BuildInv /\ HistoryInv /\ SwapInv /\ CurrentInv /\ ReadInv

USE EngineAssumption DEF Loaders, Builds

\* The first load, before any other thread has the engine, establishes the
\* invariant (engine.py __init__).
LEMMA InitIInv == Init => IInv
  <1> SUFFICES ASSUME Init PROVE IInv
      OBVIOUS
  <1>1. disk \in Builds /\ disk.text \in Texts /\ disk.entities \in EntityLists
      BY DEF Init, Good
  <1>2. TypeOK
      BY <1>1 DEF Init, TypeOK, Labels, Disks, NoBuild
  <1>3. LockInv
      BY DEF Init, LockInv, LoaderLabels, OutsideLabels, SwapLabels
  <1>4. BuildInv /\ SwapInv
      BY DEF Init, BuildInv, SwapInv, SwapLabels
  <1>5. HistoryInv /\ CurrentInv
      BY DEF Init, HistoryInv, CurrentInv
  <1>6. ReadInv
      BY <1>1 DEF Init, ReadInv
  <1> QED BY <1>2, <1>3, <1>4, <1>5, <1>6 DEF IInv

\* The invariant depends on nothing but the variables of the model.
LEMMA StutterIInv == IInv /\ UNCHANGED vars => IInv'
  <1> QED BY DEF vars, engine, threads, IInv, TypeOK, LockInv, BuildInv, HistoryInv,
                 SwapInv, CurrentInv, ReadInv

\* A loader outside the lock that moves to another place outside it, carrying
\* what that place requires, disturbs nobody.
LEMMA LoaderMoves ==
    ASSUME IInv, NEW t \in Loaders, NEW l \in OutsideLabels, NEW b \in Disks,
           pc[t] \in OutsideLabels,
           pc' = [pc EXCEPT ![t] = l],
           build' = [build EXCEPT ![t] = b],
           UNCHANGED <<disk, engine, lock, snap, report, history>>,
           l = "entities" => b.text \in Texts,
           l = "apply" => b \in Builds,
           l = "acquire" => b \in Good
    PROVE  IInv'
  <1> USE DEF IInv, TypeOK, OutsideLabels
  <1>1. TypeOK'
      BY DEF engine, Labels
  <1>2. LockInv'
      BY DEF LockInv, LoaderLabels, OutsideLabels, SwapLabels
  <1>3. BuildInv'
      BY DEF BuildInv, SwapLabels
  <1>4. (HistoryInv /\ CurrentInv /\ ReadInv)'
      BY DEF HistoryInv, CurrentInv, ReadInv, engine
  <1>5. SwapInv'
      BY DEF SwapInv, engine
  <1> QED BY <1>1, <1>2, <1>3, <1>4, <1>5

\* A load that fails or finds nothing new returns and disturbs nobody.
LEMMA ReturnMoves ==
    ASSUME IInv, NEW t \in Loaders, pc[t] \in OutsideLabels, Return(t),
           UNCHANGED <<disk, engine, lock, snap, report, history>>
    PROVE  IInv'
  <1>1. NoBuild \in Disks
      BY DEF NoBuild, Disks
  <1> QED BY <1>1, LoaderMoves DEF Return, Goto, NoBuild, OutsideLabels

\* The steps that leave the engine's fields, the lock and the history alone.
LEMMA QuietSteps ==
    ASSUME IInv,
           \/ EditDisk
           \/ \E t \in Reloaders : ReadPolicies(t) \/ ReadEntities(t)
           \/ \E t \in Pollers : TakeBundle(t)
           \/ \E t \in Loaders : Probe(t)
           \/ \E e \in Evaluators : EvalDecide(e)
    PROVE  IInv'
  <1> USE DEF IInv, TypeOK, Goto, Return
  <1>1. CASE EditDisk
    <2>1. TypeOK'
        BY <1>1 DEF EditDisk, engine, threads, Disks
    <2>2. (LockInv /\ BuildInv /\ HistoryInv /\ SwapInv /\ CurrentInv /\ ReadInv)'
        BY <1>1 DEF EditDisk, engine, threads, LockInv, BuildInv, HistoryInv, SwapInv,
                    CurrentInv, ReadInv
    <2> QED BY <2>1, <2>2
  <1>2. ASSUME NEW t \in Reloaders, ReadPolicies(t)
        PROVE  IInv'
    <2>1. CASE disk.text = Missing
        BY <1>2, <2>1, StutterIInv DEF ReadPolicies, vars, threads
    <2>2. CASE disk.text # Missing
      <3>1. disk.text \in Texts
          BY <2>2 DEF IInv, TypeOK, Disks
      <3> QED BY <1>2, <2>2, <3>1, LoaderMoves DEF ReadPolicies, Goto, OutsideLabels, Disks
    <2> QED BY <2>1, <2>2
  <1>3. ASSUME NEW t \in Reloaders, ReadEntities(t)
        PROVE  IInv'
    <2>1. CASE disk.entities = Missing
        BY <1>3, <2>1, ReturnMoves DEF ReadEntities, OutsideLabels
    <2>2. CASE disk.entities # Missing
      <3>1. [text |-> build[t].text, entities |-> disk.entities] \in Builds
          BY <1>3, <2>2 DEF IInv, TypeOK, Disks, BuildInv, ReadEntities
      <3> QED BY <1>3, <2>2, <3>1, LoaderMoves DEF ReadEntities, Goto, OutsideLabels, Disks
    <2> QED BY <2>1, <2>2
  <1>4. ASSUME NEW t \in Pollers, TakeBundle(t)
        PROVE  IInv'
    <2>1. PICK b \in Builds : build' = [build EXCEPT ![t] = b]
        BY <1>4 DEF TakeBundle
    <2> QED BY <1>4, <2>1, LoaderMoves DEF TakeBundle, Goto, OutsideLabels, Disks
  <1>5. ASSUME NEW t \in Loaders, Probe(t)
        PROVE  IInv'
    <2>1. CASE Return(t)
        BY <1>5, <2>1, ReturnMoves DEF Probe, OutsideLabels
    <2>2. CASE Goto(t, "acquire") /\ UNCHANGED build /\ Loadable(build[t])
      <3>1. build[t] \in Good /\ build[t] \in Disks
          BY <1>5, <2>2 DEF Probe, IInv, TypeOK, BuildInv, Good
      <3>2. build' = [build EXCEPT ![t] = build[t]]
          BY <2>2 DEF IInv, TypeOK
      <3> QED BY <1>5, <2>2, <3>1, <3>2, LoaderMoves DEF Probe, Goto, OutsideLabels
    <2> QED BY <1>5, <2>1, <2>2 DEF Probe
  <1>6. ASSUME NEW e \in Evaluators, EvalDecide(e)
        PROVE  IInv'
    <2> USE <1>6 DEF EvalDecide
    <2>1. TypeOK'
        BY DEF engine, threads, Labels
    <2>2. (LockInv /\ BuildInv /\ SwapInv)'
        BY DEF LockInv, BuildInv, SwapInv, LoaderLabels, OutsideLabels, SwapLabels, engine
    <2>3. (HistoryInv /\ CurrentInv /\ ReadInv)'
        BY DEF HistoryInv, CurrentInv, ReadInv, engine
    <2> QED BY <2>1, <2>2, <2>3
  <1> QED BY <1>1, <1>2, <1>3, <1>4, <1>5, <1>6

\* Entering the locked block of _apply, with a build that has passed the
\* probe.
LEMMA AcquireStep ==
    ASSUME IInv, NEW t \in Loaders, Acquire(t)
    PROVE  IInv'
  <1> USE DEF IInv, TypeOK, Goto, Acquire
  <1>1. TypeOK'
      BY DEF engine, Labels
  <1>2. LockInv'
      BY DEF LockInv, LoaderLabels, OutsideLabels, SwapLabels
  <1>3. (BuildInv /\ SwapInv)'
      BY DEF BuildInv, SwapInv, SwapLabels, engine
  <1>4. (HistoryInv /\ CurrentInv /\ ReadInv)'
      BY DEF HistoryInv, CurrentInv, ReadInv, engine
  <1> QED BY <1>1, <1>2, <1>3, <1>4

\* The three assignments inside the lock touch only the engine's fields, and
\* no other loader is inside it.
LEMMA AssignSteps ==
    ASSUME IInv, NEW t \in Loaders,
           SwapPolicies(t) \/ SwapAnnotations(t) \/ SwapEntities(t)
    PROVE  IInv'
  <1> USE DEF IInv, TypeOK, Goto, SwapPolicies, SwapAnnotations, SwapEntities
  <1>1. build[t] \in Builds /\ lock = t
      BY DEF BuildInv, LockInv, SwapLabels, Good
  <1>2. TypeOK'
      BY <1>1 DEF Labels
  <1>3. LockInv'
      BY <1>1 DEF LockInv, LoaderLabels, OutsideLabels, SwapLabels
  <1>4. BuildInv'
      BY <1>1 DEF BuildInv, SwapLabels
  <1>5. SwapInv'
    <2>1. \A u \in Loaders : u # t => pc[u] \notin SwapLabels
        BY <1>1 DEF LockInv
    <2> QED BY <2>1 DEF SwapInv, SwapLabels
  <1>6. (HistoryInv /\ CurrentInv /\ ReadInv)'
      BY <1>1 DEF HistoryInv, CurrentInv, ReadInv
  <1> QED BY <1>2, <1>3, <1>4, <1>5, <1>6

\* The last assignment of the block: the fields are the build's, the build
\* becomes the newest history entry and the lock opens.
LEMMA PublishStep ==
    ASSUME IInv, NEW t \in Loaders, Publish(t)
    PROVE  IInv'
  <1> USE DEF IInv, TypeOK, Goto, Return, Publish
  <1>1. build[t] \in Good /\ build[t] \in Builds /\ lock = t
      BY DEF BuildInv, LockInv, SwapLabels, Good
  <1>2. /\ Len(history') = generation'
        /\ history'[generation'] = build[t]
        /\ \A g \in 1..generation : history'[g] = history[g]
        /\ history' \in Seq(Builds)
        /\ generation' \in Nat
      BY <1>1 DEF HistoryInv
  <1>3. TypeOK'
      BY <1>1, <1>2 DEF Labels, NoBuild, Disks
  <1>4. LockInv'
      BY <1>1 DEF LockInv, LoaderLabels, OutsideLabels, SwapLabels
  <1>5. BuildInv'
      BY <1>1 DEF BuildInv, SwapLabels
  <1>6. SwapInv'
    <2>1. \A u \in Loaders : u # t => pc[u] \notin SwapLabels
        BY <1>1 DEF LockInv
    <2> QED BY <2>1 DEF SwapInv, SwapLabels
  <1>7. HistoryInv'
      BY <1>1, <1>2 DEF HistoryInv
  <1>8. CurrentInv'
      BY <1>1, <1>2 DEF CurrentInv, SwapInv
  <1>9. ReadInv'
      BY <1>2 DEF ReadInv, HistoryInv
  <1> QED BY <1>3, <1>4, <1>5, <1>6, <1>7, <1>8, <1>9

\* evaluate() under the lock, and status: both read the fields only when no
\* loader is in the block.
LEMMA ReadSteps ==
    ASSUME IInv,
           \/ \E e \in Evaluators : EvalEnter(e) \/ EvalLeave(e)
           \/ \E r \in Reporters : ReadStatus(r)
    PROVE  IInv'
  <1> USE DEF IInv, TypeOK, Goto
  <1>1. ASSUME NEW e \in Evaluators, EvalEnter(e)
        PROVE  IInv'
    <2> USE <1>1 DEF EvalEnter
    <2>1. TypeOK'
        BY DEF engine, Labels
    <2>2. (LockInv /\ BuildInv /\ SwapInv)'
        BY DEF LockInv, BuildInv, SwapInv, LoaderLabels, OutsideLabels, SwapLabels, engine
    <2>3. (HistoryInv /\ CurrentInv /\ ReadInv)'
        BY DEF HistoryInv, CurrentInv, ReadInv, engine
    <2> QED BY <2>1, <2>2, <2>3
  <1>2. ASSUME NEW e \in Evaluators, EvalLeave(e)
        PROVE  IInv'
    <2> USE <1>2 DEF EvalLeave
    <2>0. lock = e /\ e \notin Loaders
        BY DEF LockInv
    <2>1. TypeOK'
        BY DEF engine, Labels
    <2>2. LockInv'
        BY <2>0 DEF LockInv, LoaderLabels, OutsideLabels, SwapLabels, engine
    <2>3. (BuildInv /\ SwapInv)'
        BY <2>0 DEF BuildInv, SwapInv, LoaderLabels, OutsideLabels, SwapLabels, engine
    <2>4. (HistoryInv /\ CurrentInv)'
        BY <2>0 DEF HistoryInv, CurrentInv, engine
    <2>5. ReadInv'
      <3>1. /\ history[generation] \in Builds
            /\ history[generation] = [text |-> policies, entities |-> entities]
            /\ annotations = policies
            /\ generation \in 1..generation
          BY <2>0 DEF CurrentInv, HistoryInv, Good
      <3> QED BY <3>1 DEF ReadInv, engine
    <2> QED BY <2>1, <2>2, <2>3, <2>4, <2>5
  <1>3. ASSUME NEW r \in Reporters, ReadStatus(r)
        PROVE  IInv'
    <2> USE <1>3 DEF ReadStatus
    <2>1. TypeOK'
        BY DEF engine
    <2>2. (LockInv /\ BuildInv /\ SwapInv)'
        BY DEF LockInv, BuildInv, SwapInv, LoaderLabels, OutsideLabels, SwapLabels, engine
    <2>3. (HistoryInv /\ CurrentInv)'
        BY DEF HistoryInv, CurrentInv, engine
    <2>4. ReadInv'
        BY DEF ReadInv, CurrentInv, HistoryInv, engine
    <2> QED BY <2>1, <2>2, <2>3, <2>4
  <1> QED BY <1>1, <1>2, <1>3

\* Every step of the engine and of its threads preserves the invariant.
LEMMA StepIInv == IInv /\ [Next]_vars => IInv'
  <1> SUFFICES ASSUME IInv, [Next]_vars PROVE IInv'
      OBVIOUS
  <1>1. CASE UNCHANGED vars
      BY <1>1, StutterIInv
  <1>2. CASE Next
      BY <1>2, QuietSteps, AcquireStep, AssignSteps, PublishStep, ReadSteps DEF Next, Swap
  <1> QED BY <1>1, <1>2

\* The invariant holds in every reachable state of the engine.
LEMMA Invariance == Spec => []IInv
  <1> QED BY InitIInv, StepIInv, PTL DEF Spec

\* Every variable keeps its type, whatever the threads, texts and bounds
\* (engine.py PolicyEngine).
THEOREM TypeCorrect == Spec => []TypeOK
  <1> QED BY Invariance, PTL DEF IInv

\* A decision is made on one whole policy set, the one its generation names
\* (engine.py evaluate copies four fields of a set swapped field by field).
THEOREM SnapshotsCoherent == Spec => []SnapshotCoherent
  <1>1. IInv => SnapshotCoherent
      BY DEF IInv, TypeOK, ReadInv, HistoryInv, SnapshotCoherent
  <1> QED BY <1>1, Invariance, PTL

\* A status report's generation and digest belong together.
THEOREM ReportsCoherent == Spec => []ReportCoherent
  <1>1. IInv => ReportCoherent
      BY DEF IInv, TypeOK, ReadInv, HistoryInv, ReportCoherent
  <1> QED BY <1>1, Invariance, PTL

\* No sequence of loads, failed loads and races serves a set one of whose
\* variants does not compile (engine.py _apply).
THEOREM OnlyCompilableServed == Spec => []ServedAlwaysCompiles
  <1>1. IInv => ServedAlwaysCompiles
      BY DEF IInv, TypeOK, HistoryInv, ServedAlwaysCompiles, Good, Loadable
  <1> QED BY <1>1, Invariance, PTL

---------------------------------------------------------------------------
(* Refinement: each swap is one write of the register, each evaluation one *)
(* read of it, and every other step is a stutter.                          *)

\* The first load is a register holding its first entry.
LEMMA InitMapsToInit == Init => Register!Init
  <1> SUFFICES ASSUME Init PROVE Register!Init
      OBVIOUS
  <1>1. disk \in Good /\ disk = [text |-> disk.text, entities |-> disk.entities]
      BY DEF Init, Good
  <1>2. Len(history) = 1 /\ history[1] = disk
      BY DEF Init
  <1> QED BY <1>1, <1>2 DEF Init, Register!Init, Entry

\* Publish is the register's Install, the copy under the lock its Read, and
\* every other step of the engine a stutter.
LEMMA StepMapsToStep == IInv /\ IInv' /\ [Next]_vars => [Register!Next]_Register!vars
  <1> SUFFICES ASSUME IInv, IInv', [Next]_vars PROVE [Register!Next]_Register!vars
      OBVIOUS
  <1> USE DEF Entry, Register!vars
  <1>1. CASE UNCHANGED <<history, snap>>
      BY <1>1
  <1>2. ASSUME NEW t \in Loaders, Publish(t)
        PROVE  Register!Install
    <2>1. build[t] \in Good /\ snap' = snap
        BY <1>2 DEF IInv, BuildInv, SwapLabels, Publish
    <2>2. /\ history' = Append(history, build[t])
          /\ history \in Seq(Builds) /\ build[t] \in Builds
          /\ Len(history) \in Nat
        BY <1>2, <2>1 DEF Publish, IInv, TypeOK, Good
    <2>3. Len(history') = Len(history) + 1 /\ history'[Len(history')] = build[t]
        BY <2>2
    <2> QED BY <2>1, <2>3 DEF Register!Install
  <1>3. ASSUME NEW e \in Evaluators, EvalLeave(e)
        PROVE  Register!Read(e)
    <2>1. lock = e /\ e \notin Loaders /\ Len(history) = generation /\ generation \in Nat
        BY <1>3 DEF IInv, LockInv, HistoryInv, TypeOK, EvalLeave
    <2>2. history[generation] = [text |-> policies, entities |-> entities]
      <3>1. digest \in Builds /\ digest = history[generation]
            /\ policies = digest.text /\ entities = digest.entities
          BY <2>1 DEF IInv, CurrentInv, TypeOK
      <3> QED BY <3>1
    <2>3. /\ history' = history
          /\ snap' = [snap EXCEPT ![e] = [gen |-> generation, policies |-> policies,
                                  annotations |-> annotations, entities |-> entities]]
          /\ snap \in [Evaluators -> [gen: Nat, policies: Texts, annotations: Texts,
                                      entities: EntityLists]]
        BY <1>3 DEF EvalLeave, IInv, TypeOK
    <2> QED BY <2>1, <2>2, <2>3 DEF Register!Read
  <1>4. CASE Next
    <2>1. \/ UNCHANGED <<history, snap>>
          \/ \E t \in Loaders : Publish(t)
          \/ \E e \in Evaluators : EvalLeave(e)
        BY <1>4 DEF Next, Swap, EditDisk, ReadPolicies, ReadEntities, TakeBundle, Probe,
                    Acquire, SwapPolicies, SwapAnnotations, SwapEntities, EvalEnter,
                    EvalDecide, ReadStatus, threads
    <2> QED BY <2>1, <1>1, <1>2, <1>3 DEF Register!Next
  <1>5. CASE UNCHANGED vars
      BY <1>5, <1>1 DEF vars, threads
  <1> QED BY <1>4, <1>5

\* The concurrent engine implements the register: whatever the interleaving,
\* callers see whole policy sets replaced one at a time.
THEOREM EngineImplementsRegister == Spec => ImplementsRegister
  <1> QED BY InitMapsToInit, StepMapsToStep, Invariance, PTL
          DEF Spec, ImplementsRegister, Register!Spec

\* One evaluator's answers never go back to an older generation.
THEOREM GenerationsMonotone == Spec => GenerationsNeverGoBack
  <1>1. IInv /\ [Next]_vars => [Register!NoReaderGoesBack]_Register!vars
    <2> SUFFICES ASSUME IInv, [Next]_vars, ~UNCHANGED Register!vars
                 PROVE  Register!NoReaderGoesBack
        OBVIOUS
    <2>1. \A e \in Evaluators : /\ snap[e].gen \in Nat /\ generation \in Nat
                                /\ snap[e].gen <= generation
      <3>1. \A e \in Evaluators : snap[e].gen \in 1..generation
          BY DEF IInv, ReadInv
      <3>2. generation \in Nat
          BY DEF IInv, TypeOK
      <3> QED BY <3>1, <3>2
    <2>2. CASE snap' = snap
        BY <2>1, <2>2 DEF Register!NoReaderGoesBack
    <2>3. ASSUME NEW f \in Evaluators, EvalLeave(f)
          PROVE  Register!NoReaderGoesBack
        BY <2>1, <2>3 DEF EvalLeave, IInv, TypeOK, Register!NoReaderGoesBack
    <2>4. \/ snap' = snap
          \/ \E e \in Evaluators : EvalLeave(e)
        BY DEF Next, Swap, EditDisk, ReadPolicies, ReadEntities, TakeBundle, Probe,
               Acquire, SwapPolicies, SwapAnnotations, SwapEntities, Publish, EvalEnter,
               EvalDecide, ReadStatus, threads, vars
    <2> QED BY <2>2, <2>3, <2>4
  <1> QED BY <1>1, Invariance, PTL
          DEF Spec, GenerationsNeverGoBack, Register!NeverGoesBack
================================================================================
