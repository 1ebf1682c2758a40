----------------------------- MODULE MCTracing -----------------------------
(* One order, a cancellation and a clean-up of it, and a client.           *)
EXTENDS Tracing

CONSTANTS u1, m1

MCKindOf == [r \in Request |-> IF r = u1 THEN "cancel" ELSE "cleanup"]
=============================================================================
