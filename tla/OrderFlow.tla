----------------------------- MODULE OrderFlow -----------------------------
(***************************************************************************)
(* What the order-processing saga promises, as the sequence diagram of     *)
(* README.md shows it: the saga is started for a new order, asks for one   *)
(* payment, and ends one way or the other.  A paid order is confirmed and  *)
(* its saga completed; after a failed payment the order is cancelled first *)
(* and its saga compensated then.  Customers and the clean-up may cancel   *)
(* the order at any time.                                                  *)
(***************************************************************************)
VARIABLES order, payment, saga

flowVars == <<order, payment, saga>>

Init == order = "pending" /\ payment = "none" /\ saga = "none"

StartSaga == /\ saga = "none"
             /\ saga' = "started"
             /\ UNCHANGED <<order, payment>>

RequestPayment == /\ saga = "started" /\ payment = "none"
                  /\ payment' = "processing"
                  /\ UNCHANGED <<order, saga>>

SettlePayment == /\ payment = "processing"
                 /\ payment' \in {"completed", "failed"}
                 /\ UNCHANGED <<order, saga>>

\* A confirmation under way wins over a cancellation that came between.
ConfirmOrder == /\ payment = "completed" /\ saga = "started"
                /\ order' = "paid"
                /\ UNCHANGED <<payment, saga>>

CancelOrder == /\ order' = "cancelled"
               /\ UNCHANGED <<payment, saga>>

CompleteSaga == /\ payment = "completed" /\ order # "pending" /\ saga = "started"
                /\ saga' = "completed"
                /\ UNCHANGED <<order, payment>>

CompensateSaga == /\ payment = "failed" /\ order = "cancelled" /\ saga = "started"
                  /\ saga' = "compensated"
                  /\ UNCHANGED <<order, payment>>

Next == \/ StartSaga \/ RequestPayment \/ SettlePayment \/ ConfirmOrder
        \/ CancelOrder \/ CompleteSaga \/ CompensateSaga

Spec == Init /\ [][Next]_flowVars
=============================================================================
