----------------------------- MODULE PolicyRegister -----------------------------
(***************************************************************************)
(* What PolicyEngine promises its callers, with no lock, no thread and no  *)
(* field of the engine in sight: a register of policy sets.  Each accepted *)
(* load replaces the whole set and takes the next generation number; a     *)
(* decision is made from ONE set, the current one at some moment of the    *)
(* call, and carries that set's generation; a status report names a        *)
(* generation and that generation's digest.                                *)
(***************************************************************************)
EXTENDS Integers

CONSTANTS Sets,         \* the policy sets that can be served: all compile
          Readers       \* whoever evaluates, or reads the status

VARIABLES current,      \* [gen, set]: the set in force
          seen          \* per reader, the [gen, set] its last answer is from

vars == <<current, seen>>

Init ==
    /\ \E s \in Sets : current = [gen |-> 1, set |-> s]
    /\ seen = [r \in Readers |-> current]        \* before its first answer

Install ==
    /\ \E s \in Sets : current' = [gen |-> current.gen + 1, set |-> s]
    /\ UNCHANGED seen

Read(r) ==
    /\ seen' = [seen EXCEPT ![r] = current]
    /\ UNCHANGED current

Next == Install \/ \E r \in Readers : Read(r)

Spec == Init /\ [][Next]_vars

\* A reader is never answered from an older generation than its last answer.
NoReaderGoesBack == \A r \in Readers : seen'[r].gen >= seen[r].gen

NeverGoesBack == [][NoReaderGoesBack]_vars
================================================================================
