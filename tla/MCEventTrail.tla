---------------------------- MODULE MCEventTrail ----------------------------
(* One order created on n1; a cancellation and a confirmation arrive on   *)
(* n2.                                                                     *)
EXTENDS EventTrail

CONSTANTS n1, n2

MCNodeOf == [t \in Task |-> IF t \in Chain THEN n1 ELSE n2]
=============================================================================
