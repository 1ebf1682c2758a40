---------------------------- MODULE MCOrderSaga ----------------------------
(* One order and the requests on it.                                       *)
EXTENDS OrderSaga

CONSTANTS u1, u2, m1, m2, f1   \* cancellations, clean-ups, a confirmation

MCKind(r) == CASE r \in {u1, u2} -> "cancel"
               [] r \in {m1, m2} -> "cleanup"
               [] OTHER          -> "confirm"

MCKindOf == [r \in Request |-> MCKind(r)]
=============================================================================
