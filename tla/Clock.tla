------------------------------- MODULE Clock -------------------------------
(***************************************************************************)
(* time.monotonic() as the gateway's components read it: a number that     *)
(* only grows.  The bound keeps the model finite; what is claimed about     *)
(* expiry never compares with it.                                           *)
(***************************************************************************)
EXTENDS Naturals

CONSTANT MaxTime

ASSUME MaxTimeAssumption == MaxTime \in Nat

VARIABLE now

\* Time passes, whatever the process is doing.
Pass ==
    /\ now < MaxTime
    /\ now' = now + 1
=============================================================================
