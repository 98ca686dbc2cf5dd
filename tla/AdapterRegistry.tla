--------------------------- MODULE AdapterRegistry ---------------------------
(***************************************************************************)
(* build_middleware, build_plugin and their registries (maf.py, adk.py,      *)
(* langgraph.py): an agent constructed again in a process gets the engine    *)
(* and the background poller it already has.  Threads construct agents and   *)
(* reset the registry.  A poller ends after the cycle in which it is told    *)
(* to, which may take longer than a reset waits, or when its cycle raises.   *)
(***************************************************************************)
EXTENDS Naturals, FiniteSets

CONSTANTS
    Threads,
    Sources,    \* registry keys: policy source, agent, tenant, control plane
    MaxPollers,
    Free        \* no thread, no key, no poller

ASSUME FreeAssumption == Free \notin Nat /\ Free \notin Threads

VARIABLES
    builder,    \* per thread, [at, source, stops]: where it is, for which key,
                \* and the pollers a reset has still to tell
    holder,     \* the thread that has the registry's lock
    registry,   \* per key, the poller of its entry (0: an entry without one),
                \* Free: no entry
    pollers,    \* the background threads, [id, source, told]
    started     \* how many there were

registryVars == <<builder, holder, registry, pollers, started>>

AtRest == [at |-> "rest", source |-> Free, stops |-> {}]

RegistryInit ==
    /\ builder = [b \in Threads |-> AtRest]
    /\ holder = Free
    /\ registry = [k \in Sources |-> Free]
    /\ pollers = {} /\ started = 0

\* Fault: the lock is not taken.
AdmitsAnyone == TRUE
Admits == holder = Free

\* build_middleware reaches the lock; an entry that is there is what it returns.
Enter(b, k) ==
    /\ builder[b] = AtRest /\ Admits
    /\ registry[k] = Free
    /\ holder' = b
    /\ builder' = [builder EXCEPT ![b] = [at |-> "boot", source |-> k, stops |-> {}]]
    /\ UNCHANGED <<registry, pollers, started>>

\* bootstrap_engine raises, and so does the construction.
BootFails(b) ==
    /\ builder[b].at = "boot"
    /\ holder' = Free
    /\ builder' = [builder EXCEPT ![b] = AtRest]
    /\ UNCHANGED <<registry, pollers, started>>

\* The engine is there, with a poller if a control plane is configured, and the
\* entry is registered.
Built(b, remote) ==
    LET id == IF remote THEN started + 1 ELSE 0 IN
    /\ builder[b].at = "boot"
    /\ remote => started < MaxPollers
    /\ registry' = [registry EXCEPT ![builder[b].source] = id]
    /\ started' = IF remote THEN id ELSE started
    /\ pollers' = IF remote
                  THEN pollers \cup {[id |-> id, source |-> builder[b].source, told |-> FALSE]}
                  ELSE pollers
    /\ holder' = Free
    /\ builder' = [builder EXCEPT ![b] = AtRest]

\* reset_middleware_registry: the entries go under the lock, their pollers are
\* told after it.
ResetClears(b) ==
    /\ builder[b] = AtRest /\ holder = Free
    /\ \E k \in Sources : registry[k] # Free
    /\ registry' = [k \in Sources |-> Free]
    /\ builder' = [builder EXCEPT ![b].at = "reset",
                                  ![b].stops = {registry[k] : k \in Sources} \ {Free, 0}]
    /\ UNCHANGED <<holder, pollers, started>>

ResetTells(b) ==
    /\ builder[b].at = "reset"
    /\ pollers' = {[x EXCEPT !.told = @ \/ x.id \in builder[b].stops] : x \in pollers}
    /\ builder' = [builder EXCEPT ![b] = AtRest]
    /\ UNCHANGED <<holder, registry, started>>

\* A poller ends as it was told, or because something in its cycle raised.
PollerEnds(x) ==
    /\ x \in pollers
    /\ pollers' = pollers \ {x}
    /\ UNCHANGED <<builder, holder, registry, started>>

RegistryNext ==
    \/ \E b \in Threads :
        \/ \E k \in Sources : Enter(b, k)
        \/ \E remote \in BOOLEAN : Built(b, remote)
        \/ BootFails(b) \/ ResetClears(b) \/ ResetTells(b)
    \/ \E x \in pollers : PollerEnds(x)

-----------------------------------------------------------------------------
\* However agents are constructed and the registry is reset, each agent has at
\* most one poller that was not told to end, apart from those a reset is about
\* to tell, and that one is its registered engine's.
OnePollerPerAgent ==
    \A x \in pollers :
        \/ x.told
        \/ \E b \in Threads : x.id \in builder[b].stops
        \/ registry[x.source] = x.id
=============================================================================
