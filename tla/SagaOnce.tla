------------------------------ MODULE SagaOnce ------------------------------
(***************************************************************************)
(* What startSaga promises its callers, without locks, reads or failures:  *)
(* a correlation id gets one saga, once, and every call that is answered   *)
(* is answered with that saga.  POST /orders promises the same of an       *)
(* idempotency key and its order.                                          *)
(***************************************************************************)
CONSTANTS Call,     \* calls of startSaga
          Id,       \* correlation ids
          IdOf,     \* the correlation id each call brings
          NoSaga    \* no saga, no answer

VARIABLES saga,     \* the saga of each correlation id, named by its creator
          answer    \* the saga each call was answered with

Init == /\ saga   = [k \in Id |-> NoSaga]
        /\ answer = [c \in Call |-> NoSaga]

(* The creator may have its answer with its saga, or later, or never.      *)
Create(c) == /\ saga[IdOf[c]] = NoSaga
             /\ saga' = [saga EXCEPT ![IdOf[c]] = c]
             /\ answer' \in {answer, [answer EXCEPT ![c] = c]}

Answer(c) == /\ saga[IdOf[c]] # NoSaga
             /\ answer[c] = NoSaga
             /\ answer' = [answer EXCEPT ![c] = saga[IdOf[c]]]
             /\ UNCHANGED saga

Next == \E c \in Call : Create(c) \/ Answer(c)

Spec == Init /\ [][Next]_<<saga, answer>>
=============================================================================
