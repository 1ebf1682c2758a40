--------------------------- MODULE MCSagaCreation ---------------------------
(* Three calls bring one correlation id, one of them on a faulty node.     *)
EXTENDS SagaCreation

CONSTANTS c1, c2, c3, k1

MCClient == {c1, c2, c3}
MCKey    == {k1}
MCKeyOf  == [c \in MCClient |-> k1]
MCFaulty == {c1}
=============================================================================
