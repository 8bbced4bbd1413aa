-------------------------------- MODULE Faults --------------------------------
(***************************************************************************)
(* What may go wrong from outside (a refused call, a lost connection, a    *)
(* crash) happens at most MaxFaults times in a behaviour.                  *)
(***************************************************************************)
EXTENDS Naturals

CONSTANT MaxFaults     \* bound

ASSUME FaultsAssumption == MaxFaults \in Nat

VARIABLE faults

Fault == faults < MaxFaults /\ faults' = faults + 1
==============================================================================
