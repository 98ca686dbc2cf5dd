------------------------------ MODULE PolicyEngine ------------------------------
(***************************************************************************)
(* PolicyEngine (src/parapetai_agent/policy/engine.py): the hot reload of  *)
(* the compiled policy set under concurrent loaders and evaluators.        *)
(*                                                                         *)
(* Threads: reloaders call reload() (the gateway's directory watcher, and  *)
(* the admin route with force=True), pollers call load_from_bundle() (the  *)
(* bundle poll thread), evaluators call evaluate() (request handlers), and *)
(* reporters read `status` (heartbeat, health).  A load builds and         *)
(* compiles outside the lock and only the swap holds it; the fields are    *)
(* assigned one by one, so a reader without the lock would see a mixture.  *)
(*                                                                         *)
(* A policy source is opaque here; the set of its three variants moves as  *)
(* one value because the three assignments are never read apart by a       *)
(* caller.  CedarDecision models what a set decides.                       *)
(***************************************************************************)
EXTENDS Integers, Sequences, FiniteSets

CONSTANTS
    Texts,          \* contents of the .cedar files, joined
    EntityLists,    \* contents of the entities file, parsed
    Splits,         \* the texts _split_policies_by_stage can align
    Compiles,       \* the <<text, entities, variant>> that pass the probe
    Reloaders,      \* threads calling reload()
    Forced,         \* those of them calling reload(force=True)
    Pollers,        \* threads calling load_from_bundle()
    Evaluators,     \* threads calling evaluate()
    Reporters,      \* threads reading status
    Missing,        \* no .cedar file, or an unreadable or malformed one
    Free,           \* the lock's owner when it has none
    MaxGeneration   \* bound: no swap starts at this generation

Variants == {"full", "pre", "post"}
Loaders  == Reloaders \cup Pollers
Builds   == [text: Texts, entities: EntityLists]

\* Fault: only the variant without a stage is probed.
LoadableInFull(b) == b.text \in Splits /\ <<b.text, b.entities, "full">> \in Compiles

\* _apply accepts a build iff it splits and every variant compiles.
Loadable(b) ==
    /\ b.text \in Splits
    /\ \A v \in Variants : <<b.text, b.entities, v>> \in Compiles

Good == {b \in Builds : Loadable(b)}

ASSUME EngineAssumption ==
    /\ Forced \subseteq Reloaders
    /\ Reloaders \cap Pollers = {}
    /\ Evaluators \cap Reporters = {}
    /\ Loaders \cap (Evaluators \cup Reporters) = {}
    /\ Free \notin Loaders \cup Evaluators \cup Reporters
    /\ Missing \notin Texts \cup EntityLists
    /\ MaxGeneration \in Nat

VARIABLES
    disk,           \* what the policy directory and entities file hold
    policies,       \* _policies, _pre_policies, _post_policies
    annotations,    \* the text the three annotation maps were built from
    entities,       \* _entities
    digest,         \* _digest: the build it identifies
    generation,     \* _generation
    lock,           \* owner of _lock
    pc,             \* where each thread is
    build,          \* per loader, what it has built so far
    snap,           \* per evaluator, the locals evaluate() copied under the lock
    report,         \* per reporter, the status it last read
    history         \* auxiliary: the build each generation was made from

engine  == <<policies, annotations, entities, digest, generation>>
threads == <<pc, build, snap, report>>
vars    == <<disk, engine, lock, threads, history>>

Disks == [text: Texts \cup {Missing}, entities: EntityLists \cup {Missing}]

NoBuild == [text |-> Missing, entities |-> Missing]    \* locals out of scope

\* __init__ loads once, before any other thread has the engine, or raises.
Init ==
    /\ disk \in Good
    /\ policies = disk.text
    /\ annotations = disk.text
    /\ entities = disk.entities
    /\ digest = disk
    /\ generation = 1
    /\ history = <<disk>>
    /\ lock = Free
    /\ pc = [t \in Loaders \cup Evaluators |-> "idle"]
    /\ build = [t \in Loaders |-> NoBuild]
    /\ snap = [e \in Evaluators |->
                  [gen |-> 1, policies |-> disk.text, annotations |-> disk.text,
                   entities |-> disk.entities]]
    /\ report = [r \in Reporters |-> [gen |-> 1, digest |-> disk]]

Goto(t, label) == pc' = [pc EXCEPT ![t] = label]

Return(t) == Goto(t, "idle") /\ build' = [build EXCEPT ![t] = NoBuild]

---------------------------------------------------------------------------
(* Loading.                                                                *)

\* An operator, a mount or the bundle poller rewrites a file.
EditDisk ==
    /\ \/ \E t \in Texts \cup {Missing} : disk' = [disk EXCEPT !.text = t]
       \/ \E l \in EntityLists \cup {Missing} : disk' = [disk EXCEPT !.entities = l]
    /\ UNCHANGED <<engine, lock, threads, history>>

\* reload() -> _build(): the .cedar files first ...
ReadPolicies(t) ==
    /\ pc[t] = "idle"
    /\ IF disk.text = Missing                    \* PolicyLoadError: "failed"
       THEN UNCHANGED <<pc, build>>
       ELSE /\ build' = [build EXCEPT ![t] = [text |-> disk.text, entities |-> Missing]]
            /\ Goto(t, "entities")
    /\ UNCHANGED <<disk, engine, lock, snap, report, history>>

\* ... then the entities file, which may have changed in between.
ReadEntities(t) ==
    /\ pc[t] = "entities"
    /\ IF disk.entities = Missing
       THEN Return(t)
       ELSE /\ build' = [build EXCEPT ![t] = [text |-> build[t].text, entities |-> disk.entities]]
            /\ Goto(t, "apply")
    /\ UNCHANGED <<disk, engine, lock, snap, report, history>>

\* load_from_bundle(): a bundle without .cedar files or with malformed
\* entities is rejected before _apply and leaves nothing behind.
TakeBundle(t) ==
    /\ pc[t] = "idle"
    /\ \E b \in Builds : build' = [build EXCEPT ![t] = b]
    /\ Goto(t, "apply")
    /\ UNCHANGED <<disk, engine, lock, snap, report, history>>

\* _apply() up to the lock: the unchanged-shortcut reads _digest unlocked,
\* then the split and the three probes run on the build alone.
Probe(t) ==
    /\ pc[t] = "apply"
    /\ IF \/ t \notin Forced /\ digest = build[t]        \* "unchanged"
          \/ ~Loadable(build[t])                         \* "failed"
       THEN Return(t)
       ELSE Goto(t, "acquire") /\ UNCHANGED build
    /\ UNCHANGED <<disk, engine, lock, snap, report, history>>

\* Fault: the swap runs without the lock.
AcquireUnlocked(t) ==
    /\ pc[t] = "acquire"
    /\ generation < MaxGeneration
    /\ Goto(t, "swap_policies")
    /\ UNCHANGED <<disk, engine, lock, build, snap, report, history>>

Acquire(t) ==
    /\ pc[t] = "acquire"
    /\ lock = Free
    /\ generation < MaxGeneration
    /\ lock' = t
    /\ Goto(t, "swap_policies")
    /\ UNCHANGED <<disk, engine, build, snap, report, history>>

SwapPolicies(t) ==
    /\ pc[t] = "swap_policies"
    /\ policies' = build[t].text
    /\ Goto(t, "swap_annotations")
    /\ UNCHANGED <<disk, annotations, entities, digest, generation, lock, build, snap,
                   report, history>>

SwapAnnotations(t) ==
    /\ pc[t] = "swap_annotations"
    /\ annotations' = build[t].text
    /\ Goto(t, "swap_entities")
    /\ UNCHANGED <<disk, policies, entities, digest, generation, lock, build, snap,
                   report, history>>

\* Fault: the entities are read again at the moment of the swap.
SwapEntitiesFromDisk(t) ==
    /\ pc[t] = "swap_entities"
    /\ entities' = disk.entities
    /\ digest' = build[t]
    /\ Goto(t, "publish")
    /\ UNCHANGED <<disk, policies, annotations, generation, lock, build, snap, report,
                   history>>

SwapEntities(t) ==
    /\ pc[t] = "swap_entities"
    /\ entities' = build[t].entities
    /\ digest' = build[t]
    /\ Goto(t, "publish")
    /\ UNCHANGED <<disk, policies, annotations, generation, lock, build, snap, report,
                   history>>

\* Fault: loading a bundle starts the generations again.
PublishRestartsCount(t) ==
    /\ pc[t] = "publish"
    /\ generation' = IF t \in Pollers THEN 1 ELSE generation + 1
    /\ history' = Append(history, build[t])
    /\ lock' = Free
    /\ Return(t)
    /\ UNCHANGED <<disk, policies, annotations, entities, digest, snap, report>>

\* _generation += 1 is the last assignment of the block; then the lock opens.
Publish(t) ==
    /\ pc[t] = "publish"
    /\ generation' = generation + 1
    /\ history' = Append(history, build[t])
    /\ lock' = Free
    /\ Return(t)
    /\ UNCHANGED <<disk, policies, annotations, entities, digest, snap, report>>

---------------------------------------------------------------------------
(* Reading.                                                                *)

\* evaluate() takes the lock ...
EvalEnter(e) ==
    /\ pc[e] = "idle"
    /\ lock = Free
    /\ lock' = e
    /\ Goto(e, "copy")
    /\ UNCHANGED <<disk, engine, build, snap, report, history>>

\* ... copies the generation, the entities and its stage's policies and
\* annotations, and leaves it.
EvalLeave(e) ==
    /\ pc[e] = "copy"
    /\ snap' = [snap EXCEPT ![e] = [gen |-> generation, policies |-> policies,
                                    annotations |-> annotations, entities |-> entities]]
    /\ lock' = Free
    /\ Goto(e, "decide")
    /\ UNCHANGED <<disk, engine, build, report, history>>

\* Cedar runs on the snapshot, with no lock held, and the call returns.
EvalDecide(e) ==
    /\ pc[e] = "decide"
    /\ Goto(e, "idle")
    /\ UNCHANGED <<disk, engine, lock, build, snap, report, history>>

\* Fault: status is read without the lock.
ReadStatusUnlocked(r) ==
    /\ report' = [report EXCEPT ![r] = [gen |-> generation, digest |-> digest]]
    /\ UNCHANGED <<disk, engine, lock, pc, build, snap, history>>

ReadStatus(r) ==
    /\ lock = Free
    /\ report' = [report EXCEPT ![r] = [gen |-> generation, digest |-> digest]]
    /\ UNCHANGED <<disk, engine, lock, pc, build, snap, history>>

Swap(t) ==
    Acquire(t) \/ SwapPolicies(t) \/ SwapAnnotations(t) \/ SwapEntities(t) \/ Publish(t)

Next ==
    \/ EditDisk
    \/ \E t \in Reloaders : ReadPolicies(t) \/ ReadEntities(t)
    \/ \E t \in Pollers : TakeBundle(t)
    \/ \E t \in Loaders : Probe(t) \/ Swap(t)
    \/ \E e \in Evaluators : EvalEnter(e) \/ EvalLeave(e) \/ EvalDecide(e)
    \/ \E r \in Reporters : ReadStatus(r)

Spec == Init /\ [][Next]_vars

---------------------------------------------------------------------------
(* Properties.                                                             *)

Labels == {"idle", "entities", "apply", "acquire", "swap_policies", "swap_annotations",
           "swap_entities", "publish", "copy", "decide"}

TypeOK ==
    /\ disk \in Disks
    /\ policies \in Texts /\ annotations \in Texts
    /\ entities \in EntityLists
    /\ digest \in Builds
    /\ generation \in Nat
    /\ lock \in Loaders \cup Evaluators \cup {Free}
    /\ pc \in [Loaders \cup Evaluators -> Labels]
    /\ build \in [Loaders -> Disks]
    /\ snap \in [Evaluators -> [gen: Nat, policies: Texts, annotations: Texts,
                                entities: EntityLists]]
    /\ report \in [Reporters -> [gen: Nat, digest: Builds]]
    /\ history \in Seq(Builds)

\* What evaluate() decides on is exactly what the generation it reports was
\* built from, policies, annotations and entities alike, however the loads
\* interleave: a decision is never made on half of a swap, and an audit
\* record's generation identifies the policy (engine.py evaluate, _apply).
SnapshotCoherent ==
    \A e \in Evaluators : pc[e] = "decide" =>
        /\ snap[e].gen \in DOMAIN history
        /\ history[snap[e].gen] = [text |-> snap[e].policies, entities |-> snap[e].entities]
        /\ snap[e].annotations = snap[e].policies

\* The generation and digest a heartbeat or health probe reports belong
\* together (engine.py status).
ReportCoherent ==
    \A r \in Reporters : /\ report[r].gen \in DOMAIN history
                         /\ history[report[r].gen] = report[r].digest

\* Every set ever served splits and compiles in all three variants, with the
\* entities it was served with: one bad variant rejects the whole load, and
\* a rejected load leaves the previous set (engine.py _apply).
ServedAlwaysCompiles ==
    \A g \in DOMAIN history :
        \A v \in Variants : <<history[g].text, history[g].entities, v>> \in Compiles

\* The engine implements the register: the current entry is the newest of
\* history, and a reader has read the entry its snapshot's generation names.
Entry(g) == [gen |-> g, set |-> history[g]]

Register == INSTANCE PolicyRegister WITH
    Sets    <- Good,
    Readers <- Evaluators,
    current <- Entry(Len(history)),
    seen    <- [e \in Evaluators |->
                  [gen |-> snap[e].gen, set |-> [text |-> snap[e].policies,
                                                 entities |-> snap[e].entities]]]

\* Every evaluation is answered from one register value that was current
\* during the call, and every swap is one register write.
ImplementsRegister == Register!Spec

\* The generations one evaluator is answered from never decrease, whatever
\* loads, failed loads and forced reloads happen between its calls.
GenerationsNeverGoBack == Register!NeverGoesBack
================================================================================
