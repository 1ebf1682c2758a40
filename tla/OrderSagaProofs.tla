-------------------------- MODULE OrderSagaProofs --------------------------
(***************************************************************************)
(* Proofs about OrderSaga, for any requests, any failures and any number   *)
(* of them.  Types and the awaits each task can stand at come first; the   *)
(* money follows: what the rows and the entities in memory say about a     *)
(* success is traced back to the payment handler, which only a COMPLETED   *)
(* and charged payment starts.                                             *)
(***************************************************************************)
EXTENDS OrderSaga, SequenceTheorems, TLAPS

-----------------------------------------------------------------------------
(* Where each task can stand.                                              *)
FailurePath == {"reload", "fail", "tellFailed", "compensate", "markCompensated",
                "tellCompensated", "final", "tellFinal"}
StepPath    == {"lock", "load", "mark", "push"}
Over        == {"end", "dead"}

AwaitsOfSaga ==
    /\ pc["orderCreated"] \in {"publish", "store", "emit", "start", "pay"}
                              \cup StepPath \cup FailurePath \cup Over
    /\ pc["paymentTimer"] \in {"idle", "delay", "savePaid", "saveDeclined", "saveBroken"} \cup Over
    /\ pc["paymentProcessed"] \in {"idle", "findSaga", "findOrder", "saveOrder", "completeFind",
                                   "completeSave"} \cup StepPath \cup FailurePath \cup Over
    /\ pc["paymentFailed"] \in {"idle", "findSaga", "findOrder", "saveOrder", "saveSaga"}
                               \cup (FailurePath \ {"reload"}) \cup Over

AwaitsOfRequests ==
    \A r \in Request :
        /\ pc[r] \in {"scan", "findPayment", "findOrder", "saveOrder", "findSaga", "saveSaga", "end"}
        /\ KindOf[r] # "cleanup" => pc[r] \in {"findOrder", "saveOrder", "end"}
        /\ pc[r] \in {"findSaga", "saveSaga"} => sawFailedPayment[r]

Typed == TypeOK /\ AwaitsOfSaga /\ AwaitsOfRequests

(* A step recorded, and the steps undone, are sequences of their types.    *)
LEMMA RecordedType ==
    ASSUME NEW s \in Seq(Step), NEW e \in Step
    PROVE  /\ Append(s, e) \in Seq(Step)
           /\ \A x : Contains(Append(s, e), x) <=> Contains(s, x) \/ x = e
<1>1. /\ Append(s, e) \in Seq(Step)
      /\ Len(Append(s, e)) = Len(s) + 1
      /\ \A i \in 1..Len(s) : Append(s, e)[i] = s[i]
      /\ Append(s, e)[Len(s) + 1] = e
  BY AppendProperties
<1>2. QED
  BY <1>1, LenProperties DEF Contains

(* The entries of a compensation.                                          *)
LEMMA UndoneType ==
    ASSUME NEW s \in Seq(Step), NEW u \in Seq(Undo)
    PROVE  u \o [i \in 1..Len(s) |-> UndoOf(Reverse(s)[i])] \in Seq(Undo)
<1>1. Len(s) \in Nat /\ \A i \in 1..Len(s) : s[i] \in Step
  BY ElementOfSeq, LenProperties
<1>2. \A i \in 1..Len(s) : (Len(s) - i) + 1 \in 1..Len(s)
  BY <1>1
<1>3. \A i \in 1..Len(s) : UndoOf(Reverse(s)[i]) \in Undo
  BY <1>1, <1>2 DEF Reverse, UndoOf, Undo
<1>4. [i \in 1..Len(s) |-> UndoOf(Reverse(s)[i])] \in Seq(Undo)
  BY <1>1, <1>3, SeqDef
<1>5. QED
  BY <1>4, ConcatProperties

-----------------------------------------------------------------------------
(* What ties a success to the money.  The payment handler is the only task *)
(* that completes a saga, records its confirmation or pays its order, and  *)
(* it runs only once the payment is settled for good.                      *)
Settled == pc["paymentTimer"] \in Over

SaysSuccess(row) == row.status = "completed" \/ Contains(row.completedSteps, "order_confirmation")

Processed == pc["paymentProcessed"] # "idle"

TimerFollowsPay ==
    /\ pc["orderCreated"] \in {"publish", "store", "emit", "start", "lock", "load", "mark", "pay"}
          => pc["paymentTimer"] = "idle"
    /\ pc["paymentTimer"] = "idle" => ~Processed /\ pc["paymentFailed"] = "idle"

ChargedFirst ==
    /\ pc["paymentTimer"] = "savePaid" => charged
    /\ Processed => Settled /\ payment = "completed" /\ charged

SuccessIsProcessed ==
    /\ SaysSuccess(saga) => Processed
    /\ \A t \in Task : SaysSuccess(mem[t]) => Processed
    /\ order = "paid" => Processed \/ ConfirmRequested

Money == TimerFollowsPay /\ ChargedFirst /\ SuccessIsProcessed

(* What ties a compensation to a failed payment or a failed call.          *)
SaysFailure(row) == row.status \in {"compensating", "compensated", "failed"}

Excused == payment = "failed" \/ faults > 0

FailureIsExcused ==
    /\ pc["paymentFailed"] # "idle" => Settled /\ Excused
    /\ pc["paymentTimer"] = "saveBroken" => faults > 0
    /\ payment = "failed" => Settled \/ faults > 0
    /\ \A t \in Task : /\ pc[t] \in FailurePath => faults > 0
                       /\ sawFailedPayment[t] => Excused
                       /\ SaysFailure(mem[t]) => Excused
    /\ SaysFailure(saga) => Excused

(* A request is none of the saga's tasks.                                  *)
LEMMA RequestsApart ==
    \A r \in Request : /\ r \in Task
                       /\ r # "orderCreated" /\ r # "paymentTimer"
                       /\ r # "paymentProcessed" /\ r # "paymentFailed"
  BY RequestAssumption DEF Task, SagaTask

(* What a save may write over a row.                                       *)
LEMMA RowType ==
    ASSUME NEW row \in SagaRow
    PROVE  /\ \A s \in SagaStatus : [row EXCEPT !.status = s] \in SagaRow
           /\ \A c \in CurrentStep : [row EXCEPT !.currentStep = c] \in SagaRow
           /\ \A s \in SagaStatus, c \in CurrentStep :
                 [row EXCEPT !.status = s, !.currentStep = c] \in SagaRow
           /\ \A u \in Seq(Undo) : [row EXCEPT !.compensationSteps = u] \in SagaRow
           /\ \A d \in Seq(Step) : [row EXCEPT !.completedSteps = d] \in SagaRow
           /\ row.compensationSteps \in Seq(Undo)
           /\ row.completedSteps \in Seq(Step)
           /\ row.status \in SagaStatus
  BY DEF SagaRow

(* The entities the tasks prepare are rows.                                *)
LEMMA PreparedType ==
    ASSUME NEW row \in SagaRow, NEW t \in Task
    PROVE  /\ NewSaga \in SagaRow
           /\ [row EXCEPT !.currentStep = StepOf(t)] \in SagaRow
           /\ [row EXCEPT !.status = "compensating", !.currentStep = StepOf(t)] \in SagaRow
           /\ [row EXCEPT !.status = "completed", !.currentStep = "completed"] \in SagaRow
           /\ [row EXCEPT !.status = "compensated"] \in SagaRow
           /\ [row EXCEPT !.status = "failed"] \in SagaRow
<1>1. StepOf(t) \in CurrentStep
  BY DEF StepOf, CurrentStep, Step
<1>2. {"compensating", "completed", "compensated", "failed"} \subseteq SagaStatus
  BY DEF SagaStatus
<1>3. "completed" \in CurrentStep
  BY DEF CurrentStep
<1>4. NewSaga \in SagaRow
  BY EmptySeq DEF NewSaga, NoSaga, SagaRow, SagaStatus, CurrentStep
<1>5. QED
  BY <1>1, <1>2, <1>3, <1>4, RowType

-----------------------------------------------------------------------------
(* The entity with the step pushed on it is a row.                         *)
LEMMA PushedType ==
    ASSUME NEW t \in {"orderCreated", "paymentProcessed"}, mem[t] \in SagaRow
    PROVE  Recorded(t) \in SagaRow
<1>1. StepOf(t) \in Step
  BY DEF StepOf, Step
<1>2. Append(mem[t].completedSteps, StepOf(t)) \in Seq(Step)
  BY <1>1, RowType, RecordedType
<1>3. QED
  BY <1>2, RowType DEF Recorded

(* The entity handlePaymentFailed and the clean-up save is a row.          *)
LEMMA CompensatedType ==
    ASSUME NEW t \in Task, mem[t] \in SagaRow
    PROVE  CompensatedBy(t) \in SagaRow
<1>1. /\ Append(mem[t].compensationSteps, "order_cancelled") \in Seq(Undo)
      /\ Append(mem[t].compensationSteps, "order_cancelled_cleanup") \in Seq(Undo)
  BY RowType, AppendProperties DEF Undo
<1>2. QED
  BY <1>1 DEF CompensatedBy, SagaRow, SagaStatus, CurrentStep

(* No saga is a row that claims nothing.                                   *)
LEMMA NoSagaClaims ==
    NoSaga \in SagaRow /\ ~SaysSuccess(NoSaga) /\ ~SaysFailure(NoSaga)
<1>1. <<>> \in Seq(Step) /\ <<>> \in Seq(Undo) /\ \A i \in 1..Len(<<>>) : FALSE
  BY EmptySeq
<1>2. QED
  BY <1>1 DEF NoSaga, SagaRow, SagaStatus, CurrentStep, SaysSuccess, SaysFailure, Contains

(* What FindSaga brings is the row, or no saga.                            *)
LEMMA FoundSaga ==
    ASSUME NEW t \in Task, FindSaga(t)
    PROVE  /\ mem' = [mem EXCEPT ![t] = saga] \/ mem' = [mem EXCEPT ![t] = NoSaga]
           /\ UNCHANGED <<order, payment, charged, saga, sawFailedPayment, faults>>
           /\ pc[t] = "findSaga"
           /\ \/ pc' = [pc EXCEPT ![t] = "end"]
              \/ pc' = [pc EXCEPT ![t] = "lock"] /\ t = "paymentProcessed"
              \/ pc' = [pc EXCEPT ![t] = "findOrder"] /\ t = "paymentFailed"
              \/ /\ pc' = [pc EXCEPT ![t] = "saveSaga"]
                 /\ t \notin {"paymentProcessed", "paymentFailed"}
<1>1. PICK found \in {saga, NoSaga} :
          /\ mem' = [mem EXCEPT ![t] = found]
          /\ Goto(t, IF found = NoSaga THEN "end"
                     ELSE CASE t = "paymentProcessed" -> "lock"
                            [] t = "paymentFailed"    -> "findOrder"
                            [] OTHER                  -> "saveSaga")
  BY DEF FindSaga
<1>2. QED
  BY <1>1 DEF FindSaga, Goto

(* The lookup of the saga keeps the types and the awaits.                  *)
LEMMA FindSagaTyped ==
    ASSUME NEW t \in Task, Typed, FindSaga(t) PROVE Typed'
<1>1. mem' = [mem EXCEPT ![t] = saga] \/ mem' = [mem EXCEPT ![t] = NoSaga]
  BY FoundSaga
<1>2. mem' \in [Task -> SagaRow]
  BY <1>1, NoSagaClaims DEF Typed, TypeOK
<1>3. \/ pc' = [pc EXCEPT ![t] = "end"]
      \/ pc' = [pc EXCEPT ![t] = "lock"] /\ t = "paymentProcessed"
      \/ pc' = [pc EXCEPT ![t] = "findOrder"] /\ t = "paymentFailed"
      \/ /\ pc' = [pc EXCEPT ![t] = "saveSaga"]
         /\ t \notin {"paymentProcessed", "paymentFailed"}
  BY FoundSaga
<1>4. pc[t] = "findSaga" /\ UNCHANGED <<order, payment, charged, saga, sawFailedPayment, faults>>
  BY FoundSaga
<1>5. TypeOK'
  BY <1>2, <1>3, <1>4 DEF Typed, TypeOK, PC
<1>6. t \in {"paymentProcessed", "paymentFailed"} \/ t \in Request
  BY <1>4 DEF Typed, AwaitsOfSaga, Task, SagaTask, StepPath, FailurePath, Over
<1>7. AwaitsOfSaga'
  BY <1>3, <1>4, <1>6, RequestAssumption
  DEF Typed, TypeOK, AwaitsOfSaga, Task, SagaTask, StepPath, FailurePath, Over
<1>8. AwaitsOfRequests'
  <2> SUFFICES ASSUME NEW r \in Request
               PROVE  /\ pc'[r] \in {"scan", "findPayment", "findOrder", "saveOrder", "findSaga",
                                     "saveSaga", "end"}
                      /\ KindOf[r] # "cleanup" => pc'[r] \in {"findOrder", "saveOrder", "end"}
                      /\ pc'[r] \in {"findSaga", "saveSaga"} => sawFailedPayment'[r]
    BY DEF AwaitsOfRequests
  <2>1. r \in Task /\ r \notin {"paymentProcessed", "paymentFailed"}
    BY RequestAssumption DEF Task, SagaTask
  <2>2. QED
    BY <1>3, <1>4, <2>1 DEF Typed, TypeOK, AwaitsOfRequests
<1>9. QED
  BY <1>5, <1>7, <1>8 DEF Typed

(* Every step keeps the types and the awaits.                              *)
LEMMA StepTyped ==
    ASSUME NEW t \in Task, Typed, TaskStep(t) PROVE Typed'
<1> USE RequestAssumption
    DEF Typed, TypeOK, AwaitsOfSaga, AwaitsOfRequests, PC, Task, SagaTask, StepPath,
        FailurePath, Over, Goto
<1>1. CASE Passes(t)
  BY <1>1 DEF Passes, AfterStep
<1>2. CASE StartSaga(t)
  <2>1. NewSaga \in SagaRow
    BY PreparedType
  <2>2. QED
    BY <1>2, <2>1 DEF StartSaga
<1>3. CASE Load(t)
  <2>1. [saga EXCEPT !.currentStep = StepOf(t)] \in SagaRow
    BY PreparedType
  <2>2. mem' = mem \/ mem' = [mem EXCEPT ![t] = [saga EXCEPT !.currentStep = StepOf(t)]]
    BY <1>3, Zenon DEF Load
  <2>3. mem' \in [Task -> SagaRow]
    BY <2>1, <2>2
  <2>4. QED
    BY <1>3, <2>3 DEF Load, AfterStep
<1>4. CASE Mark(t)
  BY <1>4 DEF Mark
<1>5. CASE Pay(t)
  <2>1. t = "orderCreated"
    BY <1>5 DEF Pay
  <2>2. pc' = [pc EXCEPT !["orderCreated"] = "push", !["paymentTimer"] = "delay"]
    BY <1>5, <2>1 DEF Pay
  <2>3. /\ pc' \in [Task -> PC]
        /\ pc'["orderCreated"] = "push" /\ pc'["paymentTimer"] = "delay"
        /\ \A u \in Task \ {"orderCreated", "paymentTimer"} : pc'[u] = pc[u]
    BY <2>2
  <2>4. payment' \in PaymentStatus
    BY <1>5 DEF Pay, PaymentStatus
  <2>5. \A r \in Request : pc'[r] = pc[r]
    BY <2>3, RequestsApart
  <2>6. AwaitsOfSaga'
    BY <2>3
  <2>7. AwaitsOfRequests'
    BY <1>5, <2>5 DEF Pay
  <2>8. TypeOK'
    BY <1>5, <2>3, <2>4 DEF Pay
  <2>9. QED
    BY <2>6, <2>7, <2>8
<1>6. CASE Push(t)
  <2>1. t \in {"orderCreated", "paymentProcessed"}
    BY <1>6 DEF Push
  <2>2. Recorded(t) \in SagaRow
    BY <2>1, PushedType
  <2>3. QED
    BY <1>6, <2>1, <2>2 DEF Push, AfterStep
<1>7. CASE Reload(t)
  BY <1>7 DEF Reload, AfterStep
<1>8. CASE Fail(t)
  BY <1>8, PreparedType DEF Fail
<1>9. CASE Compensate(t)
  <2>1. mem[t].completedSteps \in Seq(Step) /\ mem[t].compensationSteps \in Seq(Undo)
    BY RowType
  <2> DEFINE undone == mem[t].compensationSteps \o
                         [i \in 1..Len(mem[t].completedSteps) |->
                             UndoOf(Reverse(mem[t].completedSteps)[i])]
  <2>2. undone \in Seq(Undo)
    BY <2>1, UndoneType
  <2>3. mem' = [mem EXCEPT ![t].compensationSteps = undone]
    BY <1>9 DEF Compensate
  <2>4. mem' \in [Task -> SagaRow]
    BY <2>2, <2>3, RowType
  <2>5. QED
    BY <1>9, <2>4 DEF Compensate
<1>10. CASE MarkCompensated(t)
  BY <1>10, PreparedType DEF MarkCompensated
<1>11. CASE MarkFinalFailure(t)
  BY <1>11, PreparedType DEF MarkFinalFailure
<1>12. CASE CompleteFind(t)
  <2>1. t = "paymentProcessed"
    BY <1>12 DEF CompleteFind
  <2> DEFINE done == [saga EXCEPT !.status = "completed", !.currentStep = "completed"]
  <2>2. done \in SagaRow
    BY PreparedType
  <2>3. mem' = mem \/ mem' = [mem EXCEPT ![t] = done]
    BY <1>12, Zenon DEF CompleteFind
  <2>4. mem' \in [Task -> SagaRow]
    BY <2>2, <2>3
  <2>5. QED
    BY <1>12, <2>1, <2>4 DEF CompleteFind
<1>13. CASE CompleteSave(t)
  BY <1>13 DEF CompleteSave
<1>14. CASE FindOrder(t)
  BY <1>14 DEF FindOrder, AfterCommand, Kind, Confirms
<1>15. CASE SaveOrder(t)
  <2>1. AfterCommand(t) \in {"push", "saveSaga", "findSaga", "end"}
    BY DEF AfterCommand
  <2>2. t = "paymentProcessed" => AfterCommand(t) = "push"
    BY DEF AfterCommand, Kind
  <2>3. t = "paymentFailed" => AfterCommand(t) = "saveSaga"
    BY DEF AfterCommand, Kind
  <2>4. t \in Request => AfterCommand(t) = IF KindOf[t] = "cleanup" /\ sawFailedPayment[t]
                                           THEN "findSaga" ELSE "end"
    BY DEF AfterCommand, Kind
  <2>5. t \in Request \cup {"paymentProcessed", "paymentFailed"}
    BY <1>15 DEF SaveOrder
  <2>6. QED
    BY <1>15, <2>2, <2>3, <2>4, <2>5 DEF SaveOrder, StatusSavedBy, OrderStatus
<1>16. CASE SettlePayment(t)
  <2>1. t = "paymentTimer"
    BY <1>16 DEF SettlePayment
  <2>2. charged' \in BOOLEAN
    BY <1>16, Zenon DEF SettlePayment
  <2>3. PICK next \in {"savePaid", "saveDeclined"} : pc' = [pc EXCEPT !["paymentTimer"] = next]
    BY <1>16, <2>1 DEF SettlePayment
  <2>4. \A r \in Request : pc'[r] = pc[r]
    BY <2>3, RequestsApart
  <2>5. AwaitsOfSaga'
    BY <2>3
  <2>6. AwaitsOfRequests'
    BY <1>16, <2>4 DEF SettlePayment
  <2>7. TypeOK'
    BY <1>16, <2>2, <2>3 DEF SettlePayment
  <2>8. QED
    BY <2>5, <2>6, <2>7
<1>17. CASE SavePayment(t)
  <2>1. t = "paymentTimer"
    BY <1>17 DEF SavePayment
  <2>2. VerdictSavedBy(t) \in {"completed", "failed"}
    BY DEF VerdictSavedBy
  <2>3. PICK next \in {"paymentProcessed", "paymentFailed"} :
             pc' = [pc EXCEPT !["paymentTimer"] = "end", ![next] = "findSaga"]
    BY <1>17, <2>1 DEF SavePayment, HandlerOf
  <2>4. /\ pc' \in [Task -> PC]
        /\ pc'["paymentTimer"] = "end" /\ pc'[next] = "findSaga"
        /\ \A u \in Task \ {"paymentTimer", next} : pc'[u] = pc[u]
    BY <2>3
  <2>5. payment' \in PaymentStatus
    BY <1>17, <2>2 DEF SavePayment, PaymentStatus
  <2>6. AwaitsOfSaga'
    BY <2>4
  <2>7. AwaitsOfRequests'
    <3>1. \A r \in Request : pc'[r] = pc[r]
      <4> TAKE r \in Request
      <4>1. r \in Task \ {"paymentTimer", next}
        BY RequestsApart, Zenon
      <4>2. QED
        BY <2>4, <4>1, Zenon
    <3>2. sawFailedPayment' = sawFailedPayment
      BY <1>17 DEF SavePayment
    <3>3. QED
      BY <3>1, <3>2
  <2>8. QED
    BY <1>17, <2>4, <2>5, <2>6, <2>7 DEF SavePayment
<1>18. CASE FindSaga(t)
  BY <1>18, FindSagaTyped
<1>19. CASE SaveSaga(t)
  <2>1. CompensatedBy(t) \in SagaRow
    BY CompensatedType
  <2>2. QED
    BY <1>19, <2>1 DEF SaveSaga
<1>20. CASE Scan(t)
  BY <1>20 DEF Scan
<1>21. CASE FindPayment(t)
  BY <1>21 DEF FindPayment
<1>22. QED
  BY <1>1, <1>2, <1>3, <1>4, <1>5, <1>6, <1>7, <1>8, <1>9, <1>10, <1>11, <1>12, <1>13,
     <1>14, <1>15, <1>16, <1>17, <1>18, <1>19, <1>20, <1>21
  DEF TaskStep

(* A failed call goes to a catch block its task has.                       *)
LEMMA FailureTyped ==
    ASSUME NEW t \in Task, Typed, CallFails(t) \/ SaveLost(t) PROVE Typed'
<1> USE RequestAssumption
    DEF Typed, TypeOK, AwaitsOfSaga, AwaitsOfRequests, PC, Task, SagaTask, StepPath,
        FailurePath, Over
<1>1. pc' = [pc EXCEPT ![t] = CaughtAt(t)] /\ mem' = mem /\ sawFailedPayment' = sawFailedPayment
  BY DEF CallFails, SaveLost, Goto
<1>2. pc[t] \in {"idle", "end", "dead", "delay", "saveBroken", "publish"} => FALSE
  BY DEF CallFails, SaveLost, AwaitsOn
<1>3. AwaitsOfSaga' /\ AwaitsOfRequests' /\ pc' \in [Task -> PC]
  BY <1>1, <1>2, RequestsApart DEF CaughtAt, AfterStep
<1>4. /\ saga' \in SagaRow
      /\ order' \in OrderStatus
      /\ payment' \in PaymentStatus
      /\ charged' = charged
      /\ faults' \in Nat
  <2>1. CASE CallFails(t)
    BY <2>1 DEF CallFails
  <2>2. CASE SaveLost(t)
    <3>1. charged' = charged /\ faults' \in Nat
      BY <2>2 DEF SaveLost
    <3>2. order' \in OrderStatus /\ payment' \in PaymentStatus
      BY <2>2 DEF SaveLost, StatusSavedBy, VerdictSavedBy, OrderStatus, PaymentStatus
    <3>3. pc[t] = "push" => Recorded(t) \in SagaRow
      BY PushedType
    <3>4. pc[t] = "saveSaga" => CompensatedBy(t) \in SagaRow
      BY CompensatedType
    <3>5. NewSaga \in SagaRow /\ mem[t] \in SagaRow
      BY PreparedType
    <3>6. \/ saga' \in {saga, mem[t], NewSaga}
          \/ pc[t] = "push" /\ saga' = Recorded(t)
          \/ pc[t] = "saveSaga" /\ saga' = CompensatedBy(t)
      BY <2>2 DEF SaveLost
    <3>7. saga' \in SagaRow
      BY <3>3, <3>4, <3>5, <3>6
    <3>8. QED
      BY <3>1, <3>2, <3>7
  <2>3. QED
    BY <2>1, <2>2
<1>5. QED
  BY <1>1, <1>3, <1>4

(* A node that goes down takes its tasks out of the order's life.          *)
LEMMA NodeDownTyped == Typed /\ NodeDown => Typed'
<1> SUFFICES ASSUME Typed, NodeDown PROVE Typed'
  OBVIOUS
<1> USE RequestAssumption
    DEF Typed, TypeOK, AwaitsOfSaga, AwaitsOfRequests, PC, Task, SagaTask, StepPath,
        FailurePath, Over
<1>1. /\ pc' \in [Task -> PC]
      /\ \A r \in Request : pc'[r] = pc[r]
      /\ \A u \in SagaTask : pc'[u] = IF pc[u] \in {"idle", "end"} THEN pc[u] ELSE "dead"
  BY RequestsApart DEF NodeDown
<1>2. UNCHANGED <<order, payment, charged, saga, mem, sawFailedPayment>> /\ faults' \in Nat
  BY DEF NodeDown
<1>3. QED
  BY <1>1, <1>2

(* The variables keep their types and every task stands where its handler  *)
(* has an await.                                                           *)
LEMMA TypedAlways == Safety => []Typed
<1>1. Init => Typed
  <2> SUFFICES ASSUME Init PROVE Typed
    OBVIOUS
  <2>1. NoSaga \in SagaRow
    BY EmptySeq DEF NoSaga, SagaRow, SagaStatus, CurrentStep
  <2>2. /\ order \in OrderStatus /\ payment \in PaymentStatus /\ charged \in BOOLEAN
        /\ saga \in SagaRow /\ mem \in [Task -> SagaRow] /\ faults \in Nat
        /\ sawFailedPayment \in [Task -> BOOLEAN]
    BY <2>1 DEF Init, OrderStatus, PaymentStatus
  <2>3. pc \in [Task -> PC] /\ AwaitsOfSaga /\ AwaitsOfRequests
    BY RequestAssumption, RequestsApart
    DEF Init, PC, AwaitsOfSaga, AwaitsOfRequests, FirstAwait, Task, SagaTask
  <2>4. QED
    BY <2>2, <2>3 DEF Typed, TypeOK
<1>2. Typed /\ [Next]_vars => Typed'
  <2> SUFFICES ASSUME Typed, [Next]_vars PROVE Typed'
    OBVIOUS
  <2>1. CASE UNCHANGED vars
    BY <2>1 DEF vars, Typed, TypeOK, AwaitsOfSaga, AwaitsOfRequests
  <2>2. QED
    BY <2>1, StepTyped, FailureTyped, NodeDownTyped DEF Next
<1>3. QED
  BY <1>1, <1>2, PTL DEF Safety

(* The rows, the entities in memory and the awaits stay in their types,    *)
(* whatever fails.                                                         *)
THEOREM TypeCorrect == Spec => []TypeOK
<1>1. Typed => TypeOK
  BY DEF Typed
<1>2. QED
  BY <1>1, TypedAlways, PTL DEF Spec

-----------------------------------------------------------------------------
(* The steps of the tasks, seen as moves between awaits: only Pay starts   *)
(* the timer, only SavePayment starts a handler, nothing becomes idle.     *)
LEMMA TimerStep ==
    ASSUME Typed, Money, NEW t \in Task, TaskStep(t) PROVE (TimerFollowsPay /\ ChargedFirst)'
<1> USE DEF TimerFollowsPay, ChargedFirst, Processed, Settled, Over
<1>0. /\ pc \in [Task -> PC] /\ AwaitsOfSaga
      /\ TimerFollowsPay /\ ChargedFirst
      /\ {"orderCreated", "paymentTimer", "paymentProcessed", "paymentFailed"} \subseteq Task
  BY DEF Typed, TypeOK, Money, Task, SagaTask
<1>1. CASE Passes(t)
  BY <1>0, <1>1 DEF Passes, Goto, AwaitsOfSaga, StepPath, FailurePath, AfterStep
<1>2. CASE StartSaga(t)
  BY <1>0, <1>2 DEF StartSaga, Goto, AwaitsOfSaga, StepPath, FailurePath
<1>3. CASE Load(t)
  BY <1>0, <1>3 DEF Load, Goto, AwaitsOfSaga, StepPath, FailurePath, AfterStep
<1>4. CASE Mark(t)
  BY <1>0, <1>4 DEF Mark, Goto, AwaitsOfSaga, StepPath, FailurePath
<1>5. CASE Push(t)
  BY <1>0, <1>5 DEF Push, Goto, AwaitsOfSaga, StepPath, FailurePath, AfterStep
<1>6. CASE Reload(t)
  BY <1>0, <1>6 DEF Reload, Goto, AwaitsOfSaga, StepPath, FailurePath, AfterStep
<1>7. CASE Fail(t)
  BY <1>0, <1>7 DEF Fail, Goto, AwaitsOfSaga, StepPath, FailurePath
<1>8. CASE Compensate(t)
  BY <1>0, <1>8 DEF Compensate, Goto, AwaitsOfSaga, StepPath, FailurePath
<1>9. CASE MarkCompensated(t)
  BY <1>0, <1>9 DEF MarkCompensated, Goto, AwaitsOfSaga, StepPath, FailurePath
<1>10. CASE MarkFinalFailure(t)
  BY <1>0, <1>10 DEF MarkFinalFailure, Goto, AwaitsOfSaga, StepPath, FailurePath
<1>11. CASE CompleteFind(t)
  BY <1>0, <1>11 DEF CompleteFind, Goto, AwaitsOfSaga, StepPath, FailurePath
<1>12. CASE CompleteSave(t)
  BY <1>0, <1>12 DEF CompleteSave, Goto, AwaitsOfSaga, StepPath, FailurePath
<1>13. CASE FindOrder(t)
  BY <1>0, <1>13
  DEF FindOrder, Goto, AwaitsOfSaga, StepPath, FailurePath, AfterCommand, Kind
<1>14. CASE SaveOrder(t)
  BY <1>0, <1>14
  DEF SaveOrder, Goto, AwaitsOfSaga, StepPath, FailurePath, AfterCommand, Kind
<1>15. CASE SettlePayment(t)
  BY <1>0, <1>15 DEF SettlePayment, Goto, AwaitsOfSaga, StepPath, FailurePath
<1>16. CASE FindSaga(t)
  BY <1>0, <1>16 DEF FindSaga, Goto, AwaitsOfSaga, StepPath, FailurePath
<1>17. CASE SaveSaga(t)
  BY <1>0, <1>17 DEF SaveSaga, Goto, AwaitsOfSaga, StepPath, FailurePath
<1>18. CASE Scan(t)
  BY <1>0, <1>18 DEF Scan, Goto, AwaitsOfSaga, StepPath, FailurePath
<1>19. CASE FindPayment(t)
  BY <1>0, <1>19 DEF FindPayment, Goto, AwaitsOfSaga, StepPath, FailurePath
<1>20. CASE Pay(t)
  <2>1. t = "orderCreated"
    BY <1>0, <1>20
    DEF Pay, AwaitsOfSaga, Typed, AwaitsOfRequests, Task, SagaTask, StepPath,
        FailurePath
  <2>2. QED
    BY <1>0, <1>20, <2>1 DEF Pay, AwaitsOfSaga
<1>21. CASE SavePayment(t)
  <2>1. t = "paymentTimer"
    BY <1>0, <1>21
    DEF SavePayment, AwaitsOfSaga, Typed, AwaitsOfRequests, Task, SagaTask, StepPath,
        FailurePath
  <2>2. QED
    BY <1>0, <1>21, <2>1
    DEF SavePayment, VerdictSavedBy, HandlerOf, AwaitsOfSaga, StepPath, FailurePath
<1>22. QED
  BY <1>1, <1>2, <1>3, <1>4, <1>5, <1>6, <1>7, <1>8, <1>9, <1>10, <1>11, <1>12, <1>13,
     <1>14, <1>15, <1>16, <1>17, <1>18, <1>19, <1>20, <1>21
  DEF TaskStep

(* No task becomes idle, and no request that is through starts again.      *)
LEMMA NeverIdleAgain ==
    ASSUME Typed, NEW t \in Task, TaskStep(t)
    PROVE  \A u \in Task : pc'[u] = "idle" => pc[u] = "idle"
<1> SUFFICES ASSUME NEW u \in Task, pc[u] # "idle" PROVE pc'[u] # "idle"
  OBVIOUS
<1>0. pc \in [Task -> PC]
  BY DEF Typed, TypeOK
<1>1. QED
  BY <1>0
  DEF TaskStep, Passes, StartSaga, Load, Mark, Pay, Push, Reload, Fail, Compensate,
      MarkCompensated, MarkFinalFailure, CompleteFind, CompleteSave, FindOrder,
      SaveOrder, SettlePayment, SavePayment, FindSaga, SaveSaga, Scan, FindPayment,
      Goto, AfterStep, AfterCommand

(* A confirmation request that is through stays so.                        *)
LEMMA ConfirmStays ==
    ASSUME Typed, NEW t \in Task, TaskStep(t), ConfirmRequested PROVE ConfirmRequested'
<1> PICK r \in Request : KindOf[r] = "confirm" /\ pc[r] = "end"
  BY DEF ConfirmRequested
<1>0. pc \in [Task -> PC]
  BY DEF Typed, TypeOK
<1>1. pc'[r] = "end"
  BY <1>0, RequestsApart
  DEF TaskStep, Passes, StartSaga, Load, Mark, Pay, Push, Reload, Fail, Compensate,
      MarkCompensated, MarkFinalFailure, CompleteFind, CompleteSave, FindOrder,
      SaveOrder, SettlePayment, SavePayment, FindSaga, SaveSaga, Scan, FindPayment,
      Goto, HandlerOf
<1>2. QED
  BY <1>1 DEF ConfirmRequested

(* The payment handler is not idle again, whatever happens.                *)
LEMMA ProcessedStays == Typed /\ [Next]_vars /\ Processed => Processed'
<1> SUFFICES ASSUME Typed, [Next]_vars, Processed PROVE Processed'
  OBVIOUS
<1>0. pc \in [Task -> PC] /\ "paymentProcessed" \in Task
  BY DEF Typed, TypeOK, Task, SagaTask
<1>1. ASSUME NEW t \in Task, TaskStep(t) PROVE Processed'
  BY <1>0, <1>1, NeverIdleAgain DEF Processed
<1>2. ASSUME NEW t \in Task, CallFails(t) \/ SaveLost(t) PROVE Processed'
  BY <1>0, <1>2 DEF CallFails, SaveLost, Goto, CaughtAt, AfterStep, Processed
<1>3. CASE NodeDown
  BY <1>0, <1>3 DEF NodeDown, Processed
<1>4. CASE UNCHANGED vars
  BY <1>4 DEF vars, Processed
<1>5. QED
  BY <1>1, <1>2, <1>3, <1>4 DEF Next

(* Nor is a confirmation request taken back.                               *)
LEMMA RequestStays == Typed /\ [Next]_vars /\ ConfirmRequested => ConfirmRequested'
<1> SUFFICES ASSUME Typed, [Next]_vars, ConfirmRequested PROVE ConfirmRequested'
  OBVIOUS
<1>0. pc \in [Task -> PC]
  BY DEF Typed, TypeOK
<1>1. PICK r \in Request : KindOf[r] = "confirm" /\ pc[r] = "end"
  BY DEF ConfirmRequested
<1>2. ASSUME NEW t \in Task, CallFails(t) \/ SaveLost(t) PROVE pc'[r] = "end"
  <2>1. \A service : "end" \notin AwaitsOn(service)
    <3>1. TAKE service
    <3>2. CASE service = "kafka"
      BY <3>2 DEF AwaitsOn
    <3>3. CASE service = "redis"
      BY <3>3 DEF AwaitsOn
    <3>4. CASE service \notin {"kafka", "redis"}
      BY <3>4 DEF AwaitsOn
    <3>5. QED
      BY <3>2, <3>3, <3>4
  <2>2. t # r
    BY <1>1, <1>2, <2>1 DEF CallFails, SaveLost
  <2>3. r \in Task /\ \E next : pc' = [pc EXCEPT ![t] = next]
    BY <1>2, RequestsApart DEF CallFails, SaveLost, Goto
  <2>4. QED
    BY <1>0, <1>1, <2>2, <2>3
<1>3. CASE NodeDown
  BY <1>0, <1>1, <1>3, RequestsApart, RequestAssumption DEF NodeDown, ConfirmRequested, SagaTask
<1>4. CASE UNCHANGED vars
  BY <1>4 DEF vars, ConfirmRequested
<1>5. QED
  BY <1>1, <1>2, <1>3, <1>4, ConfirmStays DEF Next, ConfirmRequested

(* Only the payment handler and a confirmation request pay the order.      *)
LEMMA PaidBy ==
    ASSUME Typed, NEW t \in Task, TaskStep(t), order' = "paid"
    PROVE  order = "paid" \/ Processed \/ ConfirmRequested'
<1>1. CASE SaveOrder(t)
  <2>1. CASE ~Confirms(t)
    BY <1>1, <2>1 DEF SaveOrder, StatusSavedBy
  <2>2. CASE t = "paymentProcessed"
    BY <1>1, <2>2 DEF SaveOrder, Processed
  <2>3. CASE t \in Request /\ KindOf[t] = "confirm"
    BY <1>1, <2>3, RequestsApart
    DEF SaveOrder, Goto, ConfirmRequested, AfterCommand, Kind, Typed, TypeOK, SagaTask
  <2>4. QED
    BY <2>1, <2>2, <2>3, RequestAssumption DEF Confirms, Kind, Task, SagaTask
<1>2. CASE ~SaveOrder(t)
  BY <1>2
  DEF TaskStep, Passes, StartSaga, Load, Mark, Pay, Push, Reload, Fail, Compensate,
      MarkCompensated, MarkFinalFailure, CompleteFind, CompleteSave, FindOrder,
      SettlePayment, SavePayment, FindSaga, SaveSaga, Scan, FindPayment
<1>3. QED
  BY <1>1, <1>2

(* A row that says success was read or written by the payment handler, or  *)
(* copied from one that said so before.                                    *)
LEMMA SuccessStep ==
    ASSUME Typed, Money, NEW t \in Task, TaskStep(t) PROVE SuccessIsProcessed'
<1> DEFINE Source == SaysSuccess(saga) \/ Processed \/ \E u \in Task : SaysSuccess(mem[u])
           Copied == /\ SaysSuccess(saga') => Source
                     /\ \A v \in Task : SaysSuccess(mem'[v]) => Source
<1>1. Copied
  <2> USE DEF SaysSuccess, SagaRow
  <2>0. /\ saga \in SagaRow /\ mem \in [Task -> SagaRow]
    BY DEF Typed, TypeOK
  <2>1. CASE Passes(t)
    BY <2>0, <2>1 DEF Passes
  <2>2. CASE StartSaga(t)
    BY <2>0, <2>2 DEF StartSaga, NewSaga, NoSaga, Contains
  <2>3. CASE Load(t)
    BY <2>0, <2>3 DEF Load
  <2>4. CASE Mark(t)
    BY <2>0, <2>4 DEF Mark
  <2>5. CASE Pay(t)
    BY <2>0, <2>5 DEF Pay
  <2>6. CASE Reload(t)
    BY <2>0, <2>6 DEF Reload
  <2>7. CASE Fail(t)
    BY <2>0, <2>7 DEF Fail
  <2>8. CASE Compensate(t)
    BY <2>0, <2>8 DEF Compensate
  <2>9. CASE MarkCompensated(t)
    BY <2>0, <2>9 DEF MarkCompensated
  <2>10. CASE MarkFinalFailure(t)
    BY <2>0, <2>10 DEF MarkFinalFailure
  <2>11. CASE CompleteSave(t)
    BY <2>0, <2>11 DEF CompleteSave
  <2>12. CASE FindOrder(t)
    BY <2>0, <2>12 DEF FindOrder
  <2>13. CASE SaveOrder(t)
    BY <2>0, <2>13 DEF SaveOrder
  <2>14. CASE SettlePayment(t)
    BY <2>0, <2>14 DEF SettlePayment
  <2>15. CASE SavePayment(t)
    BY <2>0, <2>15 DEF SavePayment
  <2>16. CASE FindSaga(t)
    <3>1. saga' = saga
      BY <2>16 DEF FindSaga
    <3>2. \A v \in Task : mem'[v] \in {mem[v], saga, NoSaga}
      BY <2>0, <2>16, FoundSaga
    <3>3. QED
      BY <3>1, <3>2, NoSagaClaims
  <2>17. CASE SaveSaga(t)
    BY <2>0, <2>17 DEF SaveSaga, CompensatedBy
  <2>18. CASE Scan(t)
    BY <2>0, <2>18 DEF Scan
  <2>19. CASE FindPayment(t)
    BY <2>0, <2>19 DEF FindPayment
  <2>20. CASE Push(t)
    <3>1. CASE t = "paymentProcessed"
      BY <2>20, <3>1 DEF Push, Processed
    <3>2. CASE t = "orderCreated"
      BY <2>0, <2>20, <3>2, RecordedType DEF Push, Recorded, StepOf, Step
    <3>3. QED
      BY <2>20, <3>1, <3>2
      DEF Push, Typed, AwaitsOfSaga, AwaitsOfRequests, Task, SagaTask, StepPath,
          FailurePath, Over
  <2>21. CASE CompleteFind(t)
    <3>1. t = "paymentProcessed"
      BY <2>21
      DEF CompleteFind, Typed, AwaitsOfSaga, AwaitsOfRequests, Task, SagaTask, StepPath,
          FailurePath, Over
    <3>2. QED
      BY <2>21, <3>1 DEF CompleteFind, Processed
  <2>22. QED
    BY <2>1, <2>2, <2>3, <2>4, <2>5, <2>6, <2>7, <2>8, <2>9, <2>10, <2>11, <2>12, <2>13,
       <2>14, <2>15, <2>16, <2>17, <2>18, <2>19, <2>20, <2>21
    DEF TaskStep
<1>2. \A u \in Task : pc'[u] = "idle" => pc[u] = "idle"
  BY NeverIdleAgain
<1>3. Processed => Processed'
  BY <1>2 DEF Processed, Task, SagaTask
<1>4. ConfirmRequested => ConfirmRequested'
  BY ConfirmStays
<1>5. order' = "paid" => order = "paid" \/ Processed \/ ConfirmRequested'
  BY PaidBy
<1>6. QED
  BY <1>1, <1>3, <1>4, <1>5 DEF Money, SuccessIsProcessed

(* A failed call, or a lost answer, claims no success of its own.          *)
LEMMA FailureMoney ==
    ASSUME Typed, Money, NEW t \in Task, CallFails(t) \/ SaveLost(t) PROVE Money'
<1>0. /\ pc \in [Task -> PC] /\ mem \in [Task -> SagaRow] /\ saga \in SagaRow /\ AwaitsOfSaga
      /\ {"orderCreated", "paymentTimer", "paymentProcessed", "paymentFailed"} \subseteq Task
  BY DEF Typed, TypeOK, Task, SagaTask
<1>1. /\ pc' = [pc EXCEPT ![t] = CaughtAt(t)] /\ mem' = mem /\ charged' = charged
      /\ pc[t] \notin {"idle", "end", "dead", "delay", "saveBroken", "publish"}
      /\ CaughtAt(t) \in FailurePath \cup {"saveBroken", "completeFind", "end"}
  BY DEF CallFails, SaveLost, Goto, AwaitsOn, CaughtAt, AfterStep, FailurePath
<1>2. /\ CaughtAt(t) = "saveBroken" <=> t = "paymentTimer"
      /\ t \in Request => CaughtAt(t) = "end"
      /\ pc[t] = "pay" => t = "orderCreated"
      /\ pc[t] \in {"savePaid", "saveDeclined"} => t = "paymentTimer"
      /\ pc[t] \in {"completeSave"} => t = "paymentProcessed"
  BY <1>0, <1>1, RequestsApart
  DEF Typed, AwaitsOfSaga, AwaitsOfRequests, CaughtAt, AfterStep, Task, SagaTask, StepPath, FailurePath, Over
<1>3. payment' = payment \/ pc[t] \in {"pay", "savePaid", "saveDeclined"}
  BY DEF CallFails, SaveLost
<1>4. TimerFollowsPay' /\ ChargedFirst'
  BY <1>0, <1>1, <1>2, <1>3
  DEF Money, TimerFollowsPay, ChargedFirst, Processed, Settled, Over, FailurePath, AwaitsOfSaga
<1>5. Processed => Processed'
  BY <1>0, <1>1 DEF Processed, FailurePath
<1>6. SaysSuccess(saga') \/ (\E u \in Task : SaysSuccess(mem'[u])) => Processed'
  <2>1. \A v \in Task : SaysSuccess(mem'[v]) => Processed
    BY <1>1 DEF Money, SuccessIsProcessed
  <2>2. pc[t] = "push" /\ SaysSuccess(Recorded(t)) => Processed
    <3>1. CASE t = "paymentProcessed"
      BY <3>1 DEF Processed
    <3>2. CASE t = "orderCreated"
      BY <1>0, <3>2, RowType, RecordedType
      DEF SagaRow, SaysSuccess, Recorded, StepOf, Step, Money, SuccessIsProcessed
    <3>3. pc[t] = "push" => t \in {"orderCreated", "paymentProcessed"}
      BY DEF Typed, AwaitsOfSaga, AwaitsOfRequests, Task, SagaTask, StepPath,
         FailurePath, Over
    <3>4. QED
      BY <3>1, <3>2, <3>3
  <2>3. SaysSuccess(CompensatedBy(t)) => Processed
    BY <1>0 DEF SagaRow, SaysSuccess, CompensatedBy, Money, SuccessIsProcessed
  <2>4. ~SaysSuccess(NewSaga)
    BY DEF SaysSuccess, NewSaga, NoSaga, Contains
  <2>5. \/ saga' \in {saga, mem[t], NewSaga, CompensatedBy(t)}
        \/ pc[t] = "push" /\ saga' = Recorded(t)
    BY DEF CallFails, SaveLost
  <2>6. SaysSuccess(saga') => Processed
    BY <2>2, <2>3, <2>4, <2>5 DEF Money, SuccessIsProcessed
  <2>7. QED
    BY <1>5, <2>1, <2>6
<1>7. order' = "paid" => Processed' \/ ConfirmRequested'
  <2>1. ConfirmRequested => ConfirmRequested'
    BY <1>0, <1>1, RequestsApart DEF ConfirmRequested
  <2>2. order' = order \/ (pc[t] = "saveOrder" /\ order' = StatusSavedBy(t))
    BY DEF CallFails, SaveLost
  <2>3. CASE pc[t] = "saveOrder" /\ Confirms(t)
    <3>1. CASE t = "paymentProcessed"
      BY <1>5, <2>3, <3>1 DEF Processed
    <3>2. CASE t \in Request /\ KindOf[t] = "confirm"
      BY <1>0, <1>1, <1>2, <3>2 DEF ConfirmRequested
    <3>3. QED
      BY <2>3, <3>1, <3>2, RequestAssumption DEF Confirms, Kind, Task, SagaTask
  <2>4. QED
    BY <1>5, <2>1, <2>2, <2>3 DEF StatusSavedBy, Money, SuccessIsProcessed
<1>8. QED
  BY <1>4, <1>6, <1>7 DEF Money, SuccessIsProcessed

(* A node that goes down leaves rows and claims as they are.               *)
LEMMA NodeDownMoney == Typed /\ Money /\ NodeDown => Money'
<1> SUFFICES ASSUME Typed, Money, NodeDown PROVE Money'
  OBVIOUS
<1>1. /\ pc \in [Task -> PC]
      /\ \A r \in Request : pc'[r] = pc[r]
      /\ \A u \in SagaTask : pc'[u] = IF pc[u] \in {"idle", "end"} THEN pc[u] ELSE "dead"
  BY RequestAssumption DEF NodeDown, Typed, TypeOK, Task, SagaTask
<1>2. UNCHANGED <<order, payment, charged, saga, mem>>
  BY DEF NodeDown
<1>3. Processed <=> Processed'
  BY <1>1 DEF Processed, SagaTask
<1>4. ConfirmRequested => ConfirmRequested'
  BY <1>1 DEF ConfirmRequested
<1>5. TimerFollowsPay' /\ ChargedFirst'
  BY <1>1, <1>2, <1>3
  DEF SagaTask, Money, TimerFollowsPay, ChargedFirst, Processed, Settled, Over
<1>6. SuccessIsProcessed'
  BY <1>2, <1>3, <1>4 DEF Money, SuccessIsProcessed, SaysSuccess
<1>7. QED
  BY <1>5, <1>6 DEF Money

(* The rows and entities never claim a success the provider did not give.  *)
LEMMA MoneyAlways == Safety => []Money
<1>1. Init => Money
  <2> SUFFICES ASSUME Init PROVE Money
    OBVIOUS
  <2>1. ~SaysSuccess(NoSaga)
    BY DEF SaysSuccess, NoSaga, Contains
  <2>2. QED
    BY <2>1, RequestAssumption
    DEF Init, Money, TimerFollowsPay, ChargedFirst, SuccessIsProcessed, Processed, Task,
        SagaTask
<1>2. Typed /\ Money /\ [Next]_vars => Money'
  <2> SUFFICES ASSUME Typed, Money, [Next]_vars PROVE Money'
    OBVIOUS
  <2>1. CASE UNCHANGED vars
    BY <2>1
    DEF vars, Money, TimerFollowsPay, ChargedFirst, SuccessIsProcessed, Processed,
        Settled, ConfirmRequested, SaysSuccess
  <2>2. ASSUME NEW t \in Task, TaskStep(t) PROVE Money'
    BY <2>2, TimerStep, SuccessStep DEF Money
  <2>3. QED
    BY <2>1, <2>2, FailureMoney, NodeDownMoney DEF Next
<1>3. QED
  BY <1>1, <1>2, TypedAlways, PTL DEF Safety

(* No order is paid without a completed payment that the provider charged, *)
(* unless a customer asked PUT /orders/:id/confirm for it: for any number  *)
(* of cancellations, clean-ups, confirmations and failures.                *)
THEOREM PaidIsCharged == Spec => []PaidOrderWasCharged
<1>1. Money => PaidOrderWasCharged
  BY DEF Money, ChargedFirst, SuccessIsProcessed, PaidOrderWasCharged
<1>2. QED
  BY <1>1, MoneyAlways, PTL DEF Spec

(* No saga claims COMPLETED, or records the confirmation of the order,     *)
(* without a completed payment, whatever stale entity is saved over it.    *)
THEOREM SuccessIsPaid == Spec => []SuccessWasPaid
<1>1. Money => SuccessWasPaid
  BY DEF Money, ChargedFirst, SuccessIsProcessed, SuccessWasPaid, SaysSuccess
<1>2. QED
  BY <1>1, MoneyAlways, PTL DEF Spec

-----------------------------------------------------------------------------
(* What excuses a compensation, a failed payment or a failed call, does    *)
(* not go away: a payment that failed without a fault is not run again.    *)
LEMMA ExcusedStays ==
    ASSUME Typed, Money, FailureIsExcused, NEW t \in Task, TaskStep(t), Excused PROVE Excused'
<1>1. CASE Pay(t)
  <2>1. t = "orderCreated"
    BY <1>1
    DEF Pay, Typed, AwaitsOfSaga, AwaitsOfRequests, Task, SagaTask, StepPath,
        FailurePath, Over
  <2>2. pc["paymentTimer"] = "idle"
    BY <1>1, <2>1 DEF Pay, Money, TimerFollowsPay
  <2>3. QED
    BY <1>1, <2>2 DEF Pay, Excused, FailureIsExcused, Settled, Over
<1>2. CASE SavePayment(t)
  <2>1. t = "paymentTimer"
    BY <1>2
    DEF SavePayment, Typed, AwaitsOfSaga, AwaitsOfRequests, Task, SagaTask, StepPath,
        FailurePath, Over
  <2>2. QED
    BY <1>2, <2>1 DEF SavePayment, Excused, FailureIsExcused, Settled, Over
<1>3. CASE ~Pay(t) /\ ~SavePayment(t)
  BY <1>3
  DEF TaskStep, Passes, StartSaga, Load, Mark, Push, Reload, Fail, Compensate,
      MarkCompensated, MarkFinalFailure, CompleteFind, CompleteSave, FindOrder,
      SaveOrder, SettlePayment, FindSaga, SaveSaga, Scan, FindPayment, Excused
<1>4. QED
  BY <1>1, <1>2, <1>3

(* A task that does not fail does not take the path of failures, and a row *)
(* that says failure was copied, or saved by a task that has an excuse.    *)
LEMMA StepExcused ==
    ASSUME Typed, Money, FailureIsExcused, NEW t \in Task, TaskStep(t) PROVE FailureIsExcused'
<1>0. /\ pc \in [Task -> PC] /\ mem \in [Task -> SagaRow] /\ saga \in SagaRow
      /\ sawFailedPayment \in [Task -> BOOLEAN] /\ faults \in Nat
      /\ {"orderCreated", "paymentTimer", "paymentProcessed", "paymentFailed"} \subseteq Task
      /\ AwaitsOfSaga
  BY DEF Typed, TypeOK, Task, SagaTask
<1>1. faults' = faults
  BY DEF TaskStep, Passes, StartSaga, Load, Mark, Pay, Push, Reload, Fail, Compensate,
     MarkCompensated, MarkFinalFailure, CompleteFind, CompleteSave, FindOrder,
     SaveOrder, SettlePayment, SavePayment, FindSaga, SaveSaga, Scan, FindPayment
<1>2. ASSUME NEW u \in Task, pc'[u] \in FailurePath PROVE faults > 0
  <2>1. pc[u] \in FailurePath \cup {"dead"}
    BY <1>0, <1>2
    DEF FailurePath, TaskStep, Passes, StartSaga, Load, Mark, Pay, Push, Reload, Fail,
        Compensate, MarkCompensated, MarkFinalFailure, CompleteFind, CompleteSave,
        FindOrder, SaveOrder, SettlePayment, SavePayment, FindSaga, SaveSaga, Scan,
        FindPayment, Goto, AfterStep, AfterCommand
  <2>2. pc[u] # "dead"
    BY <1>0, <1>2, <2>1
    DEF FailurePath, TaskStep, Passes, StartSaga, Load, Mark, Pay, Push, Reload, Fail,
        Compensate, MarkCompensated, MarkFinalFailure, CompleteFind, CompleteSave,
        FindOrder, SaveOrder, SettlePayment, SavePayment, FindSaga, SaveSaga, Scan,
        FindPayment, Goto, AfterStep, AfterCommand
  <2>3. QED
    BY <2>1, <2>2 DEF FailureIsExcused
<1>3. pc'["paymentTimer"] = "saveBroken" => faults > 0
  BY <1>0
  DEF FailureIsExcused, TaskStep, Passes, StartSaga, Load, Mark, Pay, Push, Reload,
      Fail, Compensate, MarkCompensated, MarkFinalFailure, CompleteFind, CompleteSave,
      FindOrder, SaveOrder, SettlePayment, SavePayment, FindSaga, SaveSaga, Scan,
      FindPayment, Goto, AfterStep, AfterCommand
<1>4. /\ pc'["paymentFailed"] # "idle" => Settled' /\ Excused'
      /\ payment' = "failed" => Settled' \/ faults > 0
  <2>1. CASE Pay(t)
    <3>1. t = "orderCreated"
      BY <2>1
      DEF Pay, Typed, AwaitsOfSaga, AwaitsOfRequests, Task, SagaTask, StepPath,
          FailurePath, Over
    <3>2. QED
      BY <1>0, <2>1, <3>1 DEF Pay, Money, TimerFollowsPay
  <2>2. CASE SavePayment(t)
    <3>1. t = "paymentTimer"
      BY <2>2
      DEF SavePayment, Typed, AwaitsOfSaga, AwaitsOfRequests, Task, SagaTask, StepPath,
          FailurePath, Over
    <3>2. QED
      BY <1>0, <2>2, <3>1
      DEF SavePayment, VerdictSavedBy, HandlerOf, FailureIsExcused, Settled, Over, Excused
  <2>3. CASE ~Pay(t) /\ ~SavePayment(t)
    <3>1. payment' = payment
      BY <2>3
      DEF TaskStep, Passes, StartSaga, Load, Mark, Push, Reload, Fail, Compensate,
          MarkCompensated, MarkFinalFailure, CompleteFind, CompleteSave, FindOrder,
          SaveOrder, SettlePayment, FindSaga, SaveSaga, Scan, FindPayment
    <3>2. Settled => Settled'
      BY <1>0, <2>3
      DEF TaskStep, Passes, StartSaga, Load, Mark, Push, Reload, Fail, Compensate,
          MarkCompensated, MarkFinalFailure, CompleteFind, CompleteSave, FindOrder,
          SaveOrder, SettlePayment, FindSaga, SaveSaga, Scan, FindPayment, Goto,
          Settled, Over
    <3>3. pc'["paymentFailed"] # "idle" => pc["paymentFailed"] # "idle"
      BY <1>0, <2>3
      DEF TaskStep, Passes, StartSaga, Load, Mark, Push, Reload, Fail, Compensate,
          MarkCompensated, MarkFinalFailure, CompleteFind, CompleteSave, FindOrder,
          SaveOrder, SettlePayment, FindSaga, SaveSaga, Scan, FindPayment, Goto
    <3>4. QED
      BY <1>1, <3>1, <3>2, <3>3, ExcusedStays DEF FailureIsExcused
  <2>4. QED
    BY <2>1, <2>2, <2>3
<1>5. \A u \in Task : sawFailedPayment'[u] => Excused'
  <2>1. \A u \in Task : sawFailedPayment'[u] => Excused
    BY <1>0
    DEF FailureIsExcused, TaskStep, Passes, StartSaga, Load, Mark, Pay, Push, Reload,
        Fail, Compensate, MarkCompensated, MarkFinalFailure, CompleteFind, CompleteSave,
        FindOrder, SaveOrder, SettlePayment, SavePayment, FindSaga, SaveSaga, Scan,
        FindPayment, Excused
  <2>2. QED
    BY <2>1, ExcusedStays
<1>6. SaysFailure(saga') \/ (\E u \in Task : SaysFailure(mem'[u])) => Excused'
  <2>1. SaysFailure(saga') \/ (\E u \in Task : SaysFailure(mem'[u])) => Excused
    <3>1. CASE Passes(t)
      BY <1>0, <3>1 DEF Passes, SaysFailure, SagaRow, FailureIsExcused
    <3>2. CASE StartSaga(t)
      BY <1>0, <3>2 DEF StartSaga, SaysFailure, SagaRow, FailureIsExcused, NewSaga, NoSaga
    <3>3. CASE Load(t)
      <4>1. saga' = saga
        BY <3>3 DEF Load
      <4>2. mem' = mem \/ mem' = [mem EXCEPT ![t] = [saga EXCEPT !.currentStep = StepOf(t)]]
        BY <3>3, Zenon DEF Load
      <4>3. [saga EXCEPT !.currentStep = StepOf(t)].status = saga.status
        BY <1>0 DEF SagaRow
      <4>4. \A u \in Task : mem'[u].status \in {mem[u].status, saga.status}
        BY <1>0, <4>2, <4>3
      <4>5. QED
        BY <4>1, <4>4 DEF SaysFailure, FailureIsExcused
    <3>4. CASE Mark(t)
      BY <1>0, <3>4 DEF Mark, SaysFailure, SagaRow, FailureIsExcused
    <3>5. CASE Pay(t)
      BY <1>0, <3>5 DEF Pay, SaysFailure, SagaRow, FailureIsExcused
    <3>6. CASE Push(t)
      BY <1>0, <3>6 DEF Push, SaysFailure, SagaRow, FailureIsExcused, Recorded
    <3>7. CASE Reload(t)
      BY <1>0, <3>7 DEF Reload, SaysFailure, SagaRow, FailureIsExcused
    <3>8. CASE Fail(t)
      BY <1>0, <3>8 DEF Fail, SaysFailure, SagaRow, FailureIsExcused, FailurePath, Excused
    <3>9. CASE Compensate(t)
      BY <1>0, <3>9 DEF Compensate, SaysFailure, SagaRow, FailureIsExcused
    <3>10. CASE MarkCompensated(t)
      BY <1>0, <3>10
      DEF MarkCompensated, SaysFailure, SagaRow, FailureIsExcused, FailurePath, Excused
    <3>11. CASE MarkFinalFailure(t)
      BY <1>0, <3>11
      DEF MarkFinalFailure, SaysFailure, SagaRow, FailureIsExcused, FailurePath, Excused
    <3>12. CASE CompleteFind(t)
      <4>1. saga' = saga /\ \A u \in Task : mem'[u] = mem[u] \/ mem'[u].status = "completed"
        BY <1>0, <3>12 DEF CompleteFind, SagaRow
      <4>2. QED
        BY <4>1 DEF SaysFailure, FailureIsExcused
    <3>13. CASE CompleteSave(t)
      BY <1>0, <3>13 DEF CompleteSave, SaysFailure, SagaRow, FailureIsExcused
    <3>14. CASE FindOrder(t)
      BY <1>0, <3>14 DEF FindOrder, SaysFailure, SagaRow, FailureIsExcused
    <3>15. CASE SaveOrder(t)
      BY <1>0, <3>15 DEF SaveOrder, SaysFailure, SagaRow, FailureIsExcused
    <3>16. CASE SettlePayment(t)
      BY <1>0, <3>16 DEF SettlePayment, SaysFailure, SagaRow, FailureIsExcused
    <3>17. CASE SavePayment(t)
      BY <1>0, <3>17 DEF SavePayment, SaysFailure, SagaRow, FailureIsExcused
    <3>18. CASE FindSaga(t)
      <4>1. saga' = saga /\ \A v \in Task : mem'[v] \in {mem[v], saga, NoSaga}
        BY <1>0, <3>18, FoundSaga
      <4>2. QED
        BY <4>1, NoSagaClaims DEF FailureIsExcused
    <3>19. CASE SaveSaga(t)
      <4>1. t = "paymentFailed" \/ (t \in Request /\ sawFailedPayment[t])
        BY <3>19
        DEF SaveSaga, Typed, AwaitsOfSaga, AwaitsOfRequests, Task, SagaTask, StepPath,
            FailurePath, Over
      <4>2. Excused
        BY <3>19, <4>1 DEF SaveSaga, FailureIsExcused
      <4>3. QED
        BY <4>2
    <3>20. CASE Scan(t)
      BY <1>0, <3>20 DEF Scan, SaysFailure, SagaRow, FailureIsExcused
    <3>21. CASE FindPayment(t)
      BY <1>0, <3>21 DEF FindPayment, SaysFailure, SagaRow, FailureIsExcused
    <3>22. QED
      BY <3>1, <3>2, <3>3, <3>4, <3>5, <3>6, <3>7, <3>8, <3>9, <3>10, <3>11, <3>12,
         <3>13, <3>14, <3>15, <3>16, <3>17, <3>18, <3>19, <3>20, <3>21
      DEF TaskStep
  <2>2. QED
    BY <2>1, ExcusedStays
<1>7. QED
  BY <1>1, <1>2, <1>3, <1>4, <1>5, <1>6 DEF FailureIsExcused

(* A failed call excuses every compensation after it.                      *)
LEMMA FailureExcused ==
    ASSUME Typed, FailureIsExcused, NEW t \in Task, CallFails(t) \/ SaveLost(t)
    PROVE  FailureIsExcused'
<1>0. /\ pc \in [Task -> PC] /\ faults \in Nat
      /\ {"orderCreated", "paymentTimer", "paymentProcessed", "paymentFailed"} \subseteq Task
  BY DEF Typed, TypeOK, Task, SagaTask
<1>1. faults' = faults + 1 /\ pc' = [pc EXCEPT ![t] = CaughtAt(t)]
  BY DEF CallFails, SaveLost, Goto
<1>2. faults' > 0
  BY <1>0, <1>1
<1>3. Excused'
  BY <1>2 DEF Excused
<1>4. pc[t] # "idle" /\ (pc["paymentTimer"] \in Over => t # "paymentTimer")
  BY DEF CallFails, SaveLost, AwaitsOn, Over
<1>5. pc'["paymentFailed"] # "idle" => pc["paymentFailed"] # "idle"
  BY <1>0, <1>1, <1>4
<1>6. Settled => Settled'
  BY <1>0, <1>1, <1>4 DEF Settled
<1>7. QED
  BY <1>2, <1>3, <1>5, <1>6 DEF FailureIsExcused

(* So does a node that went down.                                          *)
LEMMA NodeDownExcused == Typed /\ FailureIsExcused /\ NodeDown => FailureIsExcused'
<1> SUFFICES ASSUME Typed, FailureIsExcused, NodeDown PROVE FailureIsExcused'
  OBVIOUS
<1>1. /\ pc \in [Task -> PC] /\ faults \in Nat
      /\ \A u \in SagaTask : pc'[u] = IF pc[u] \in {"idle", "end"} THEN pc[u] ELSE "dead"
      /\ faults' = faults + 1
  BY RequestAssumption DEF NodeDown, Typed, TypeOK, Task, SagaTask
<1>2. faults' > 0 /\ Excused'
  BY <1>1 DEF Excused
<1>3. /\ pc'["paymentFailed"] # "idle" => pc["paymentFailed"] # "idle"
      /\ Settled => Settled'
  BY <1>1 DEF Settled, Over, SagaTask
<1>4. QED
  BY <1>2, <1>3 DEF FailureIsExcused

(* What excuses a compensation is inductive.                               *)
LEMMA ExcusedAlways == Safety => []FailureIsExcused
<1>1. Init => FailureIsExcused
  <2> SUFFICES ASSUME Init PROVE FailureIsExcused
    OBVIOUS
  <2>1. ~SaysFailure(NoSaga)
    BY DEF SaysFailure, NoSaga
  <2>2. QED
    BY <2>1, RequestAssumption
    DEF Init, FailureIsExcused, FailurePath, FirstAwait, Task, SagaTask
<1>2. Typed /\ Money /\ FailureIsExcused /\ [Next]_vars => FailureIsExcused'
  <2> SUFFICES ASSUME Typed, Money, FailureIsExcused, [Next]_vars PROVE FailureIsExcused'
    OBVIOUS
  <2>1. CASE UNCHANGED vars
    BY <2>1 DEF vars, FailureIsExcused, Excused, Settled, SaysFailure
  <2>2. QED
    BY <2>1, StepExcused, FailureExcused, NodeDownExcused DEF Next
<1>3. QED
  BY <1>1, <1>2, TypedAlways, MoneyAlways, PTL DEF Safety

(* A saga is only ever COMPENSATING, COMPENSATED or FAILED because its     *)
(* payment failed or a call did: no cancellation, clean-up or interleaving *)
(* of them rolls a healthy saga back.                                      *)
THEOREM CompensationIsExcused == Spec => []CompensationHasCause
<1>1. FailureIsExcused => CompensationHasCause
  BY DEF FailureIsExcused, CompensationHasCause, SaysFailure, Excused
<1>2. QED
  BY <1>1, ExcusedAlways, PTL DEF Spec

-----------------------------------------------------------------------------
(* Whose turn it is, while the timer outlasts the payment step: the step   *)
(* of the payment is over when the verdict falls, one of the two handlers  *)
(* wakes up, and a payment that failed stays failed.                       *)
Turns ==
    /\ pc["paymentTimer"] \notin {"idle", "delay"} => pc["orderCreated"] \in Over
    /\ Processed => pc["paymentFailed"] = "idle"
    /\ payment = "failed" => pc["paymentTimer"] \in {"saveBroken"} \cup Over
    /\ \A t \in Task : sawFailedPayment[t] => payment = "failed"

(* What a step of a task that neither pays nor saves a verdict leaves.     *)
LEMMA QuietStep ==
    ASSUME Typed, NEW t \in Task, TaskStep(t), ~Pay(t), ~SavePayment(t)
    PROVE  /\ \A u \in Task : u # t => pc'[u] = pc[u]
           /\ pc[t] \notin {"idle"} \cup Over
           /\ payment' = payment
           /\ \A u \in Task : sawFailedPayment'[u] => sawFailedPayment[u] \/ payment = "failed"
           /\ t = "paymentTimer" => SettlePayment(t)
<1>0. pc \in [Task -> PC] /\ sawFailedPayment \in [Task -> BOOLEAN]
  BY DEF Typed, TypeOK
<1>1. \A u \in Task : u # t => pc'[u] = pc[u]
  BY <1>0
  DEF TaskStep, Passes, StartSaga, Load, Mark, Push, Reload, Fail, Compensate,
      MarkCompensated, MarkFinalFailure, CompleteFind, CompleteSave, FindOrder,
      SaveOrder, SettlePayment, FindSaga, SaveSaga, Scan, FindPayment, Goto
<1>2. pc[t] \notin {"idle"} \cup Over /\ payment' = payment
  BY DEF TaskStep, Passes, StartSaga, Load, Mark, Push, Reload, Fail, Compensate,
         MarkCompensated, MarkFinalFailure, CompleteFind, CompleteSave, FindOrder,
         SaveOrder, SettlePayment, FindSaga, SaveSaga, Scan, FindPayment, Over
<1>3. \A u \in Task : sawFailedPayment'[u] => sawFailedPayment[u] \/ payment = "failed"
  BY <1>0
  DEF TaskStep, Passes, StartSaga, Load, Mark, Push, Reload, Fail, Compensate,
      MarkCompensated, MarkFinalFailure, CompleteFind, CompleteSave, FindOrder,
      SaveOrder, SettlePayment, FindSaga, SaveSaga, Scan, FindPayment
<1>4. t = "paymentTimer" => SettlePayment(t)
  BY <1>2
  DEF TaskStep, Passes, StartSaga, Load, Mark, Push, Reload, Fail, Compensate,
      MarkCompensated, MarkFinalFailure, CompleteFind, CompleteSave, FindOrder,
      SaveOrder, FindSaga, SaveSaga, Scan, FindPayment, Typed, AwaitsOfSaga, Over
<1>5. QED
  BY <1>1, <1>2, <1>3, <1>4

(* The tasks of Pay and of SavePayment.                                    *)
LEMMA WhoPays ==
    ASSUME Typed, NEW t \in Task
    PROVE  /\ pc[t] = "pay" => t = "orderCreated"
           /\ pc[t] \in {"savePaid", "saveDeclined", "saveBroken"} => t = "paymentTimer"
           /\ pc[t] \in {"push", "mark"} => t \in {"orderCreated", "paymentProcessed"}
           /\ pc[t] = "start" => t = "orderCreated"
           /\ pc[t] = "completeSave" => t = "paymentProcessed"
           /\ pc[t] = "saveSaga" => t = "paymentFailed" \/ sawFailedPayment[t]
  BY DEF Typed, AwaitsOfSaga, AwaitsOfRequests, Task, SagaTask, StepPath, FailurePath, Over

(* Every step hands the turn on as the timer and the bus do.               *)
LEMMA StepTurns ==
    ASSUME TimerOutlastsStep, Typed, Money, FailureIsExcused, Turns,
           NEW t \in Task, TaskStep(t)
    PROVE  Turns'
<1>0. /\ pc \in [Task -> PC] /\ sawFailedPayment \in [Task -> BOOLEAN]
      /\ {"orderCreated", "paymentTimer", "paymentProcessed", "paymentFailed"} \subseteq Task
  BY DEF Typed, TypeOK, Task, SagaTask
<1>1. CASE Pay(t)
  <2>1. t = "orderCreated" /\ pc["orderCreated"] = "pay"
    BY <1>1, WhoPays DEF Pay
  <2>2. /\ pc' = [pc EXCEPT !["orderCreated"] = "push", !["paymentTimer"] = "delay"]
        /\ payment' = "processing" /\ sawFailedPayment' = sawFailedPayment
    BY <1>1, <2>1 DEF Pay
  <2>3. pc["paymentTimer"] = "idle" /\ payment # "failed"
    BY <2>1 DEF Money, TimerFollowsPay, Turns, Over
  <2>4. QED
    BY <1>0, <2>2, <2>3 DEF Turns, Processed
<1>2. CASE SavePayment(t)
  <2>1. t = "paymentTimer" /\ pc[t] \in {"savePaid", "saveDeclined", "saveBroken"}
    BY <1>2, WhoPays DEF SavePayment
  <2>2. pc["orderCreated"] \in Over /\ ~Processed /\ pc["paymentFailed"] = "idle"
    BY <2>1 DEF Turns, Money, ChargedFirst, FailureIsExcused, Settled, Over
  <2>3. /\ pc' = [pc EXCEPT !["paymentTimer"] = "end", ![HandlerOf(VerdictSavedBy(t))] = "findSaga"]
        /\ payment' = VerdictSavedBy(t) /\ sawFailedPayment' = sawFailedPayment
    BY <1>2, <2>1 DEF SavePayment
  <2>4. payment = "failed" => payment' = "failed"
    BY <2>1, <2>3 DEF Turns, VerdictSavedBy, Over
  <2>5. HandlerOf(VerdictSavedBy(t)) \in {"paymentProcessed", "paymentFailed"}
    BY DEF HandlerOf
  <2>6. QED
    BY <1>0, <2>2, <2>3, <2>4, <2>5 DEF Turns, Processed, Over
<1>3. CASE ~Pay(t) /\ ~SavePayment(t)
  <2>1. /\ \A u \in Task : u # t => pc'[u] = pc[u]
        /\ pc[t] \notin {"idle"} \cup Over
        /\ payment' = payment
        /\ \A u \in Task : sawFailedPayment'[u] => sawFailedPayment[u] \/ payment = "failed"
        /\ t = "paymentTimer" => SettlePayment(t)
    BY <1>3, QuietStep
  <2>2. pc'["paymentTimer"] \notin {"idle", "delay"} => pc'["orderCreated"] \in Over
    BY <1>0, <2>1 DEF Turns, SettlePayment, Over
  <2>3. pc'["paymentTimer"] = pc["paymentTimer"] \/ pc["paymentTimer"] = "delay"
    BY <1>0, <2>1 DEF SettlePayment
  <2>4. QED
    BY <1>0, <2>1, <2>2, <2>3 DEF Turns, Processed, Over
<1>4. QED
  BY <1>1, <1>2, <1>3

(* A call that fails leaves the turn where it is.                          *)
LEMMA FailureTurns ==
    ASSUME Typed, Money, Turns, NEW t \in Task, CallFails(t) \/ SaveLost(t)
    PROVE  Turns'
<1>0. /\ pc \in [Task -> PC]
      /\ {"orderCreated", "paymentTimer", "paymentProcessed", "paymentFailed"} \subseteq Task
  BY DEF Typed, TypeOK, Task, SagaTask
<1>1. pc' = [pc EXCEPT ![t] = CaughtAt(t)] /\ sawFailedPayment' = sawFailedPayment
  BY DEF CallFails, SaveLost, Goto
<1>2. pc[t] \notin {"idle", "delay", "saveBroken"} \cup Over
  BY DEF CallFails, SaveLost, AwaitsOn, Over
<1>3. t = "paymentTimer" => pc[t] \in {"savePaid", "saveDeclined"} /\ pc'[t] = "saveBroken"
  BY <1>0, <1>1, <1>2 DEF Typed, AwaitsOfSaga, CaughtAt
<1>4. /\ pc'["paymentTimer"] \notin {"idle", "delay"} => pc'["orderCreated"] \in Over
      /\ Processed' => pc'["paymentFailed"] = "idle"
  BY <1>0, <1>1, <1>2, <1>3 DEF Turns, Processed, Over
<1>5. payment' = payment \/ (payment # "failed" /\ (payment' # "failed" \/ t = "paymentTimer"))
  <2>1. CASE pc[t] = "pay"
    <3>1. t = "orderCreated" /\ pc["paymentTimer"] = "idle"
      BY <2>1, WhoPays DEF Money, TimerFollowsPay
    <3>2. QED
      BY <2>1, <3>1 DEF Turns, CallFails, SaveLost, Over
  <2>2. CASE pc[t] \in {"savePaid", "saveDeclined"}
    BY <2>2, WhoPays DEF Turns, Over, CallFails, SaveLost
  <2>3. CASE pc[t] \notin {"pay", "savePaid", "saveDeclined"}
    BY <2>3 DEF CallFails, SaveLost
  <2>4. QED
    BY <2>1, <2>2, <2>3
<1>6. payment' = "failed" => pc'["paymentTimer"] \in {"saveBroken"} \cup Over
  BY <1>0, <1>1, <1>2, <1>3, <1>5 DEF Turns, Over
<1>7. payment = "failed" => payment' = "failed"
  BY <1>5
<1>8. QED
  BY <1>1, <1>4, <1>6, <1>7 DEF Turns

(* A node that goes down ends the turns of its tasks.                      *)
LEMMA NodeDownTurns == Typed /\ Turns /\ NodeDown => Turns'
<1> SUFFICES ASSUME Typed, Turns, NodeDown PROVE Turns'
  OBVIOUS
<1>1. /\ pc \in [Task -> PC]
      /\ \A u \in SagaTask : pc'[u] = IF pc[u] \in {"idle", "end"} THEN pc[u] ELSE "dead"
      /\ UNCHANGED <<payment, sawFailedPayment>>
  BY DEF NodeDown, Typed, TypeOK, Task
<1>2. pc["orderCreated"] # "idle"
  BY DEF Typed, AwaitsOfSaga, StepPath, FailurePath, Over
<1>3. /\ pc'["paymentTimer"] \notin {"idle", "delay"} => pc'["orderCreated"] \in Over
      /\ Processed' => pc'["paymentFailed"] = "idle"
      /\ payment = "failed" => pc'["paymentTimer"] \in {"saveBroken"} \cup Over
  BY <1>1, <1>2 DEF Turns, Processed, Over, SagaTask
<1>4. QED
  BY <1>1, <1>3 DEF Turns

(* Turns hold as long as the timer outlasts the payment step.              *)
LEMMA TurnsAlways == ASSUME TimerOutlastsStep PROVE Safety => []Turns
<1>1. Init => Turns
  BY RequestAssumption DEF Init, Turns, Processed, Over, Task, SagaTask
<1>2. Typed /\ Money /\ FailureIsExcused /\ Turns /\ [Next]_vars => Turns'
  <2> SUFFICES ASSUME Typed, Money, FailureIsExcused, Turns, [Next]_vars PROVE Turns'
    OBVIOUS
  <2>1. CASE UNCHANGED vars
    BY <2>1 DEF vars, Turns, Processed
  <2>2. QED
    BY <2>1, StepTurns, FailureTurns, NodeDownTurns DEF Next
<1>3. QED
  BY <1>1, <1>2, TypedAlways, MoneyAlways, ExcusedAlways, PTL DEF Safety

-----------------------------------------------------------------------------
(* The awaits that write the saga's row.                                   *)
SavesSaga == {"start", "mark", "push", "fail", "markCompensated", "final", "completeSave", "saveSaga"}

LEMMA OnlySavesWrite ==
    ASSUME NEW t \in Task, TaskStep(t) \/ CallFails(t) \/ SaveLost(t)
    PROVE  saga' = saga \/ pc[t] \in SavesSaga
  BY DEF TaskStep, Passes, StartSaga, Load, Mark, Pay, Push, Reload, Fail, Compensate,
         MarkCompensated, MarkFinalFailure, CompleteFind, CompleteSave, FindOrder,
         SaveOrder, SettlePayment, SavePayment, FindSaga, SaveSaga, Scan, FindPayment,
         CallFails, SaveLost, SavesSaga

(* A task between reading the saga and saving it as it read it.            *)
Holds(t) == \/ pc[t] \in {"mark", "pay", "push", "saveSaga", "completeSave"}
            \/ t \in SagaTask /\ pc[t] \in {"findOrder", "saveOrder"}

(* While the payment step or the confirmation runs, every other task is    *)
(* asleep, through, or away from the saga.                                 *)
LEMMA AloneAtWork ==
    ASSUME Typed, Money, FailureIsExcused, Turns,
           NEW t \in {"orderCreated", "paymentProcessed"}, pc[t] \notin {"idle"} \cup Over,
           NEW u \in Task, u # t
    PROVE  pc[u] \notin SavesSaga /\ ~Holds(u)
<1>1. t = "orderCreated" => pc["paymentTimer"] \in {"idle", "delay"}
  BY DEF Turns
<1>2. t = "paymentProcessed" => Processed /\ Settled /\ payment = "completed"
  BY DEF Money, ChargedFirst, Processed
<1>3. payment # "failed"
  BY <1>1, <1>2 DEF Turns, Over
<1>4. pc["paymentFailed"] = "idle"
  BY <1>1, <1>2 DEF FailureIsExcused, Settled, Turns, Over
<1>5. CASE u \in Request
  BY <1>3, <1>5, RequestsApart DEF Typed, AwaitsOfRequests, Turns, Holds, SavesSaga, SagaTask
<1>6. CASE u = "orderCreated"
  BY <1>2, <1>6 DEF Turns, Settled, Over, Holds, SavesSaga
<1>7. CASE u = "paymentProcessed"
  BY <1>1, <1>7 DEF Money, ChargedFirst, Processed, Settled, Over, Holds, SavesSaga
<1>8. CASE u = "paymentTimer"
  BY <1>8 DEF Typed, AwaitsOfSaga, Over, Holds, SavesSaga
<1>9. CASE u = "paymentFailed"
  BY <1>4, <1>9 DEF Holds, SavesSaga
<1>10. QED
  BY <1>5, <1>6, <1>7, <1>8, <1>9 DEF Task, SagaTask

-----------------------------------------------------------------------------
(* The payment handler ends with the save that completes the saga.         *)
CompletedLast ==
    /\ saga.status = "completed" => pc["paymentProcessed"] \in Over
    /\ mem["paymentProcessed"].status = "completed"
          => pc["paymentProcessed"] \in {"completeSave"} \cup Over

(* Nobody is left to write a completed saga.                               *)
LEMMA CompletedIsLeft ==
    ASSUME Typed, Money, Turns, CompletedLast, saga.status = "completed",
           NEW t \in Task, TaskStep(t) \/ CallFails(t) \/ SaveLost(t)
    PROVE  saga' = saga
<1>1. Processed /\ Settled /\ payment = "completed"
  BY DEF Money, SuccessIsProcessed, ChargedFirst, SaysSuccess
<1>2. /\ pc["paymentProcessed"] \in Over /\ pc["paymentTimer"] \in Over
      /\ pc["orderCreated"] \in Over /\ pc["paymentFailed"] = "idle"
  BY <1>1 DEF CompletedLast, Settled, Turns, Over
<1>3. t \in SagaTask => pc[t] \notin SavesSaga
  BY <1>2 DEF SagaTask, SavesSaga, Over
<1>4. t \in Request => pc[t] \notin SavesSaga
  BY <1>1 DEF Typed, AwaitsOfRequests, Turns, SavesSaga
<1>5. QED
  BY <1>3, <1>4, OnlySavesWrite DEF Task

(* A save that completes the saga is the last one of the payment handler.  *)
LEMMA CompletingSave ==
    ASSUME Typed, Money, FailureIsExcused, Turns, CompletedLast,
           NEW t \in Task, TaskStep(t) \/ CallFails(t) \/ SaveLost(t),
           saga' # saga, saga'.status = "completed"
    PROVE  t = "paymentProcessed" /\ pc[t] = "completeSave"
<1>0. mem \in [Task -> SagaRow] /\ saga \in SagaRow /\ "orderCreated" \in Task
  BY DEF Typed, TypeOK, Task, SagaTask
<1>1. pc[t] \in {"mark", "push"} => mem[t].status # "completed"
  <2>1. CASE t = "paymentProcessed"
    BY <2>1 DEF CompletedLast, Over
  <2>2. CASE t = "orderCreated" /\ pc[t] \in {"mark", "push"}
    <3>1. pc["paymentTimer"] \in {"idle", "delay"}
      BY <2>2 DEF Turns, Over
    <3>2. ~Processed
      BY <3>1 DEF Money, ChargedFirst, Settled, Over
    <3>3. QED
      BY <1>0, <2>2, <3>2 DEF Money, SuccessIsProcessed, SaysSuccess
  <2>3. QED
    BY <2>1, <2>2, WhoPays
<1>2. /\ pc[t] = "mark" => saga' \in {saga, mem[t]}
      /\ pc[t] = "push" => saga' \in {saga, Recorded(t)}
      /\ pc[t] = "start" => saga' \in {saga, NewSaga}
      /\ pc[t] = "saveSaga" => saga' \in {saga, CompensatedBy(t)}
      /\ pc[t] = "fail" => saga' = saga \/ saga'.status = "compensating"
      /\ pc[t] = "markCompensated" => saga' = saga \/ saga'.status = "compensated"
      /\ pc[t] = "final" => saga' = saga \/ saga'.status = "failed"
  BY <1>0
  DEF TaskStep, Passes, StartSaga, Load, Mark, Pay, Push, Reload, Fail, Compensate,
      MarkCompensated, MarkFinalFailure, CompleteFind, CompleteSave, FindOrder,
      SaveOrder, SettlePayment, SavePayment, FindSaga, SaveSaga, Scan, FindPayment,
      CallFails, SaveLost, SagaRow
<1>3. /\ Recorded(t).status = mem[t].status
      /\ CompensatedBy(t).status = "compensated"
      /\ NewSaga.status = "started"
  BY <1>0 DEF Recorded, CompensatedBy, NewSaga, NoSaga, SagaRow
<1>4. pc[t] = "completeSave"
  BY <1>1, <1>2, <1>3, OnlySavesWrite DEF SavesSaga
<1>5. QED
  BY <1>4, WhoPays

(* What a step of another task leaves of the payment handler.              *)
LEMMA HandlerAsleepOrLeft ==
    ASSUME Typed, Money, NEW t \in Task, t # "paymentProcessed",
           TaskStep(t) \/ CallFails(t) \/ SaveLost(t)
    PROVE  /\ mem'["paymentProcessed"] = mem["paymentProcessed"]
           /\ \/ pc'["paymentProcessed"] = pc["paymentProcessed"]
              \/ pc["paymentProcessed"] = "idle"
<1>0. pc \in [Task -> PC] /\ mem \in [Task -> SagaRow] /\ "paymentProcessed" \in Task
  BY DEF Typed, TypeOK, Task, SagaTask
<1>1. mem'["paymentProcessed"] = mem["paymentProcessed"]
  BY <1>0
  DEF TaskStep, Passes, StartSaga, Load, Mark, Pay, Push, Reload, Fail, Compensate,
      MarkCompensated, MarkFinalFailure, CompleteFind, CompleteSave, FindOrder,
      SaveOrder, SettlePayment, SavePayment, FindSaga, SaveSaga, Scan, FindPayment,
      CallFails, SaveLost
<1>2. CASE CallFails(t) \/ SaveLost(t)
  BY <1>0, <1>1, <1>2 DEF CallFails, SaveLost, Goto
<1>3. CASE Pay(t)
  BY <1>0, <1>1, <1>3 DEF Pay
<1>4. CASE SavePayment(t)
  <2>1. pc["paymentProcessed"] = "idle"
    BY <1>4, WhoPays DEF SavePayment, Money, ChargedFirst, Processed, Settled, Over
  <2>2. QED
    BY <1>1, <2>1
<1>5. CASE TaskStep(t) /\ ~Pay(t) /\ ~SavePayment(t)
  BY <1>0, <1>1, <1>5, QuietStep
<1>6. QED
  BY <1>2, <1>3, <1>4, <1>5

(* Only a task that is awake takes a step.                                 *)
LEMMA AwakeSteps ==
    ASSUME NEW t \in Task, TaskStep(t) \/ CallFails(t) \/ SaveLost(t)
    PROVE  /\ pc[t] \notin {"idle"} \cup Over
           /\ TaskStep(t) /\ pc[t] = "completeSave" => CompleteSave(t)
<1>1. pc[t] \notin {"idle"} \cup Over
  BY DEF TaskStep, Passes, StartSaga, Load, Mark, Pay, Push, Reload, Fail, Compensate,
         MarkCompensated, MarkFinalFailure, CompleteFind, CompleteSave, FindOrder,
         SaveOrder, SettlePayment, SavePayment, FindSaga, SaveSaga, Scan, FindPayment,
         CallFails, SaveLost, AwaitsOn, Over
<1>2. TaskStep(t) /\ pc[t] = "completeSave" => CompleteSave(t)
  BY DEF TaskStep, Passes, StartSaga, Load, Mark, Pay, Push, Reload, Fail, Compensate,
         MarkCompensated, MarkFinalFailure, CompleteFind, FindOrder, SaveOrder,
         SettlePayment, SavePayment, FindSaga, SaveSaga, Scan, FindPayment
<1>3. QED
  BY <1>1, <1>2

(* The payment handler holds a completed saga only to save it.             *)
LEMMA HandlerCompletes ==
    ASSUME Typed, CompletedLast,
           TaskStep("paymentProcessed") \/ CallFails("paymentProcessed") \/ SaveLost("paymentProcessed"),
           mem'["paymentProcessed"].status = "completed"
    PROVE  pc'["paymentProcessed"] \in {"completeSave"} \cup Over
<1> DEFINE t == "paymentProcessed"
<1>0. /\ pc \in [Task -> PC] /\ mem \in [Task -> SagaRow] /\ saga \in SagaRow
      /\ t \in Task
  BY DEF Typed, TypeOK, Task, SagaTask
<1>1. CASE CompleteFind(t)
  BY <1>0, <1>1 DEF CompleteFind, Goto, CompletedLast, Over
<1>2. CASE CompleteSave(t)
  BY <1>0, <1>2 DEF CompleteSave, Goto, Over
<1>3. CASE CallFails(t) \/ SaveLost(t)
  <2>1. mem' = mem /\ pc' = [pc EXCEPT ![t] = CaughtAt(t)] /\ pc[t] \notin Over
    BY <1>3 DEF CallFails, SaveLost, Goto, AwaitsOn, Over
  <2>2. pc[t] = "completeSave"
    BY <2>1 DEF CompletedLast
  <2>3. QED
    BY <1>0, <2>1, <2>2 DEF CaughtAt, Over
<1>4. CASE TaskStep(t) /\ ~CompleteFind(t) /\ ~CompleteSave(t)
  <2>1. pc[t] \notin {"completeSave"} \cup Over
    BY <1>0, <1>4, AwakeSteps
  <2>2. saga.status # "completed" /\ mem[t].status # "completed"
    BY <2>1 DEF CompletedLast
  <2>3. CASE Load(t)
    BY <1>0, <2>2, <2>3 DEF Load, SagaRow
  <2>4. CASE Fail(t)
    BY <1>0, <2>4 DEF Fail, SagaRow
  <2>5. CASE FindSaga(t)
    BY <1>0, <2>2, <2>5, FoundSaga DEF NoSaga
  <2>6. CASE Push(t)
    BY <1>0, <2>2, <2>6 DEF Push, Recorded, SagaRow
  <2>7. CASE Compensate(t)
    BY <1>0, <2>2, <2>7 DEF Compensate, SagaRow
  <2>8. CASE mem' = mem
    BY <2>2, <2>8
  <2>9. QED
    BY <1>4, <2>3, <2>4, <2>5, <2>6, <2>7, <2>8
    DEF TaskStep, Passes, StartSaga, Mark, Pay, Reload, MarkCompensated, MarkFinalFailure,
        FindOrder, SaveOrder, SettlePayment, SavePayment, SaveSaga, Scan, FindPayment
<1>5. QED
  BY <1>1, <1>2, <1>3, <1>4

(* Every step, failing or not, keeps the payment handler's end the end.    *)
LEMMA StepCompleted ==
    ASSUME Typed, Money, FailureIsExcused, Turns, CompletedLast,
           NEW t \in Task, TaskStep(t) \/ CallFails(t) \/ SaveLost(t)
    PROVE  CompletedLast'
<1> DEFINE handler == "paymentProcessed"
<1>0. pc \in [Task -> PC] /\ handler \in Task
  BY DEF Typed, TypeOK, Task, SagaTask
<1>1. pc[t] \notin {"idle"} \cup Over
  BY AwakeSteps
<1>2. ASSUME saga'.status = "completed" PROVE pc'[handler] \in Over
  <2>1. CASE saga' = saga
    <3>1. pc[handler] \in Over
      BY <1>2, <2>1 DEF CompletedLast
    <3>2. QED
      BY <1>1, <3>1, HandlerAsleepOrLeft DEF Over
  <2>2. CASE saga' # saga
    <3>1. t = handler /\ pc[t] = "completeSave"
      BY <1>2, <2>2, CompletingSave
    <3>2. pc' = [pc EXCEPT ![t] = "end"]
      BY <3>1
      DEF TaskStep, Passes, StartSaga, Load, Mark, Pay, Push, Reload, Fail, Compensate,
          MarkCompensated, MarkFinalFailure, CompleteFind, CompleteSave, FindOrder,
          SaveOrder, SettlePayment, SavePayment, FindSaga, SaveSaga, Scan, FindPayment,
          CallFails, SaveLost, CaughtAt, Goto
    <3>3. QED
      BY <1>0, <3>1, <3>2 DEF Over
  <2>3. QED
    BY <2>1, <2>2
<1>3. ASSUME mem'[handler].status = "completed"
      PROVE  pc'[handler] \in {"completeSave"} \cup Over
  <2>1. CASE t = handler
    BY <1>3, <2>1, HandlerCompletes
  <2>2. CASE t # handler
    BY <1>3, <2>2, HandlerAsleepOrLeft DEF CompletedLast, Over
  <2>3. QED
    BY <2>1, <2>2
<1>4. QED
  BY <1>2, <1>3 DEF CompletedLast

LEMMA CompletedLastAlways == ASSUME TimerOutlastsStep PROVE Safety => []CompletedLast
<1>1. Init => CompletedLast
  BY DEF Init, CompletedLast, NoSaga, Task, SagaTask
<1>2. Typed /\ Money /\ FailureIsExcused /\ Turns /\ CompletedLast /\ [Next]_vars => CompletedLast'
  <2> SUFFICES ASSUME Typed, Money, FailureIsExcused, Turns, CompletedLast, [Next]_vars
               PROVE  CompletedLast'
    OBVIOUS
  <2>1. CASE UNCHANGED vars
    BY <2>1 DEF vars, CompletedLast
  <2>2. CASE NodeDown
    <3>1. /\ UNCHANGED <<saga, mem>>
          /\ pc'["paymentProcessed"] = IF pc["paymentProcessed"] \in {"idle", "end"}
                                       THEN pc["paymentProcessed"] ELSE "dead"
      BY <2>2 DEF NodeDown, Task, SagaTask
    <3>2. QED
      BY <3>1 DEF CompletedLast, Over
  <2>3. QED
    BY <2>1, <2>2, StepCompleted DEF Next
<1>3. QED
  BY <1>1, <1>2, TypedAlways, MoneyAlways, ExcusedAlways, TurnsAlways, PTL DEF Safety

LEMMA CompletedKept ==
    ASSUME Typed, Money, Turns, CompletedLast, [Next]_vars, saga.status = "completed"
    PROVE  saga'.status = "completed"
<1>1. NodeDown \/ UNCHANGED vars => saga' = saga
  BY DEF NodeDown, vars
<1>2. QED
  BY <1>1, CompletedIsLeft DEF Next

(* completeSaga is the end, whatever fails and whoever cancels, as long as *)
(* the timer outlasts the payment step: nothing takes a COMPLETED saga out *)
(* of it.                                                                  *)
THEOREM CompletionIsFinal == ASSUME TimerOutlastsStep PROVE Spec => CompletedStays
<1>1. Typed /\ Money /\ Turns /\ CompletedLast /\ [Next]_vars
         => (saga.status = "completed" => saga'.status = "completed")
  BY CompletedKept
<1>2. QED
  BY <1>1, TypedAlways, MoneyAlways, TurnsAlways, CompletedLastAlways, PTL
  DEF Spec, Safety, CompletedStays

-----------------------------------------------------------------------------
(* A task that will save the saga as it read it holds the steps that the   *)
(* row has, and the saga starts where there is none.                       *)
EarlyAwaits == {"publish", "store", "emit", "start"}

CopiesCurrent ==
    /\ pc["orderCreated"] \in EarlyAwaits => saga = NoSaga
    /\ \A t \in Task : Holds(t) => mem[t].completedSteps = saga.completedSteps

(* A step leaves the recorded steps, or records one more.                  *)
LEMMA StepsWritten ==
    ASSUME Typed, CopiesCurrent, NEW t \in Task, TaskStep(t) \/ CallFails(t) \/ SaveLost(t)
    PROVE  \/ saga'.completedSteps = saga.completedSteps
           \/ /\ t \in {"orderCreated", "paymentProcessed"} /\ pc[t] = "push"
              /\ saga'.completedSteps = Append(saga.completedSteps, StepOf(t))
<1>0. mem \in [Task -> SagaRow] /\ saga \in SagaRow
  BY DEF Typed, TypeOK
<1>1. /\ pc[t] \in {"mark", "completeSave"} => saga' \in {saga, mem[t]}
      /\ pc[t] = "push" => saga' \in {saga, Recorded(t)}
      /\ pc[t] = "start" => saga' \in {saga, NewSaga}
      /\ pc[t] = "saveSaga" => saga' \in {saga, CompensatedBy(t)}
      /\ pc[t] \in {"fail", "markCompensated", "final"}
            => saga'.completedSteps = saga.completedSteps
  BY <1>0
  DEF TaskStep, Passes, StartSaga, Load, Mark, Pay, Push, Reload, Fail, Compensate,
      MarkCompensated, MarkFinalFailure, CompleteFind, CompleteSave, FindOrder,
      SaveOrder, SettlePayment, SavePayment, FindSaga, SaveSaga, Scan, FindPayment,
      CallFails, SaveLost, SagaRow
<1>2. /\ Recorded(t).completedSteps = Append(mem[t].completedSteps, StepOf(t))
      /\ CompensatedBy(t).completedSteps = mem[t].completedSteps
      /\ NewSaga.completedSteps = NoSaga.completedSteps
  BY <1>0 DEF Recorded, CompensatedBy, NewSaga, NoSaga, SagaRow
<1>3. pc[t] \in {"mark", "completeSave", "push", "saveSaga"}
         => mem[t].completedSteps = saga.completedSteps
  BY DEF CopiesCurrent, Holds
<1>4. pc[t] = "start" => saga = NoSaga
  BY WhoPays DEF CopiesCurrent, EarlyAwaits
<1>5. pc[t] = "push" => t \in {"orderCreated", "paymentProcessed"}
  BY WhoPays
<1>6. QED
  BY <1>1, <1>2, <1>3, <1>4, <1>5, OnlySavesWrite DEF SavesSaga

(* A task that steps into a save has just read the row.                    *)
LEMMA OwnCopyCurrent ==
    ASSUME Typed, CopiesCurrent, NEW t \in Task, TaskStep(t), Holds(t)'
    PROVE  mem'[t].completedSteps = saga'.completedSteps
<1>0. /\ pc \in [Task -> PC] /\ mem \in [Task -> SagaRow] /\ saga \in SagaRow
  BY DEF Typed, TypeOK
<1>1. CASE Load(t)
  BY <1>0, <1>1 DEF Load, Goto, Holds, AfterStep, SagaRow
<1>2. CASE CompleteFind(t)
  <2> DEFINE done == [saga EXCEPT !.status = "completed", !.currentStep = "completed"]
  <2>1. done.completedSteps = saga.completedSteps
    BY <1>0 DEF SagaRow
  <2>2. saga' = saga /\ (pc' = [pc EXCEPT ![t] = "end"] \/ mem' = [mem EXCEPT ![t] = done])
    BY <1>2 DEF CompleteFind, Goto
  <2>3. QED
    BY <1>0, <2>1, <2>2 DEF Holds
<1>3. CASE FindSaga(t)
  <2>1. PICK found \in {saga, NoSaga} :
            /\ mem' = [mem EXCEPT ![t] = found]
            /\ Goto(t, IF found = NoSaga THEN "end"
                       ELSE CASE t = "paymentProcessed" -> "lock"
                              [] t = "paymentFailed"    -> "findOrder"
                              [] OTHER                  -> "saveSaga")
    BY <1>3 DEF FindSaga
  <2>2. found = saga
    BY <1>0, <2>1 DEF Goto, Holds
  <2>3. QED
    BY <1>0, <1>3, <2>1, <2>2 DEF FindSaga
<1>4. CASE Mark(t)
  BY <1>0, <1>4 DEF Mark
<1>5. CASE Pay(t) \/ FindOrder(t) \/ SaveOrder(t)
  <2>1. saga' = saga /\ mem' = mem
    BY <1>5 DEF Pay, FindOrder, SaveOrder
  <2>2. CASE Pay(t)
    BY <2>1, <2>2 DEF Pay, CopiesCurrent, Holds
  <2>3. CASE (FindOrder(t) \/ SaveOrder(t)) /\ t \in SagaTask
    BY <2>1, <2>3 DEF FindOrder, SaveOrder, CopiesCurrent, Holds
  <2>4. CASE (FindOrder(t) \/ SaveOrder(t)) /\ t \in Request
    <3>1. t \notin SagaTask /\ AfterCommand(t) \in {"findSaga", "end"}
      BY <2>4, RequestAssumption DEF AfterCommand, Kind, SagaTask
    <3>2. pc'[t] \in {"saveOrder", "findSaga", "end"}
      BY <1>0, <2>4, <3>1 DEF FindOrder, SaveOrder, Goto
    <3>3. QED
      BY <3>1, <3>2 DEF Holds
  <2>5. QED
    BY <1>5, <2>2, <2>3, <2>4 DEF Task
<1>6. CASE ~(Load(t) \/ CompleteFind(t) \/ FindSaga(t) \/ Mark(t) \/ Pay(t) \/ FindOrder(t) \/ SaveOrder(t))
  <2>1. pc'[t] \notin {"mark", "pay", "push", "saveSaga", "completeSave", "findOrder", "saveOrder"}
        \/ Scan(t) \/ FindPayment(t)
    BY <1>0, <1>6
    DEF TaskStep, Passes, StartSaga, Push, Reload, Fail, Compensate, MarkCompensated,
        MarkFinalFailure, CompleteSave, SettlePayment, SavePayment, SaveSaga, HandlerOf,
        Goto, AfterStep
  <2>2. Scan(t) \/ FindPayment(t)
    BY <2>1 DEF Holds
  <2>3. t \notin SagaTask /\ pc'[t] \in {"findPayment", "findOrder", "end"}
    BY <1>0, <2>2 DEF Scan, FindPayment, Goto, Typed, AwaitsOfSaga, SagaTask, StepPath,
                      FailurePath, Over
  <2>4. QED
    BY <2>3 DEF Holds
<1>7. QED
  BY <1>1, <1>2, <1>3, <1>4, <1>5, <1>6

(* A step moves its own task and may wake another, and writes no other's   *)
(* copy of the saga.                                                       *)
LEMMA OthersStay ==
    ASSUME Typed, NEW t \in Task, TaskStep(t) \/ CallFails(t) \/ SaveLost(t),
           NEW u \in Task, u # t
    PROVE  /\ mem'[u] = mem[u]
           /\ pc'[u] = pc[u] \/ pc'[u] \in {"delay", "findSaga"}
<1>0. /\ pc \in [Task -> PC] /\ mem \in [Task -> SagaRow]
      /\ "paymentTimer" \in Task /\ "orderCreated" \in Task
  BY DEF Typed, TypeOK, Task, SagaTask
<1>1. mem'[u] = mem[u]
  BY <1>0
  DEF TaskStep, Passes, StartSaga, Load, Mark, Pay, Push, Reload, Fail, Compensate,
      MarkCompensated, MarkFinalFailure, CompleteFind, CompleteSave, FindOrder,
      SaveOrder, SettlePayment, SavePayment, FindSaga, SaveSaga, Scan, FindPayment,
      CallFails, SaveLost
<1>2. pc'[u] = pc[u] \/ pc'[u] \in {"delay", "findSaga"}
  <2>1. CASE CallFails(t) \/ SaveLost(t)
    BY <1>0, <2>1 DEF CallFails, SaveLost, Goto
  <2>2. CASE Pay(t)
    BY <1>0, <2>2 DEF Pay
  <2>3. CASE SavePayment(t)
    BY <1>0, <2>3 DEF SavePayment
  <2>4. CASE TaskStep(t) /\ ~Pay(t) /\ ~SavePayment(t)
    BY <2>4, QuietStep
  <2>5. QED
    BY <2>1, <2>2, <2>3, <2>4
<1>3. QED
  BY <1>1, <1>2

(* What others hold stays current: while a step is recorded nobody else    *)
(* holds the saga.                                                         *)
LEMMA OtherCopiesCurrent ==
    ASSUME Typed, Money, FailureIsExcused, Turns, CopiesCurrent,
           NEW t \in Task, TaskStep(t) \/ CallFails(t) \/ SaveLost(t),
           NEW u \in Task, u # t, Holds(u)'
    PROVE  mem'[u].completedSteps = saga'.completedSteps
<1>1. mem'[u] = mem[u] /\ Holds(u)
  BY OthersStay DEF Holds
<1>2. pc[t] = "push" => t \notin {"orderCreated", "paymentProcessed"}
  BY <1>1, AloneAtWork DEF Over
<1>3. QED
  BY <1>1, <1>2, StepsWritten DEF CopiesCurrent

(* Until the saga is started nobody writes one.                            *)
LEMMA NoSagaEarly ==
    ASSUME Typed, Money, FailureIsExcused, Turns, CopiesCurrent,
           NEW t \in Task, TaskStep(t) \/ CallFails(t) \/ SaveLost(t),
           pc'["orderCreated"] \in EarlyAwaits
    PROVE  saga' = NoSaga
<1>0. /\ pc \in [Task -> PC] /\ "orderCreated" \in Task /\ "paymentTimer" \in Task
  BY DEF Typed, TypeOK, Task, SagaTask
<1>1. CASE t = "orderCreated"
  <2>1. CASE Passes(t)
    BY <1>0, <1>1, <2>1 DEF Passes, Goto, EarlyAwaits, CopiesCurrent, AfterStep
  <2>2. CASE ~Passes(t)
    BY <1>0, <1>1, <2>2
    DEF TaskStep, StartSaga, Load, Mark, Pay, Push, Reload, Fail, Compensate,
        MarkCompensated, MarkFinalFailure, CompleteFind, CompleteSave, FindOrder,
        SaveOrder, SettlePayment, SavePayment, FindSaga, SaveSaga, Scan, FindPayment,
        CallFails, SaveLost, CaughtAt, AfterStep, AfterCommand, HandlerOf, Goto, EarlyAwaits
  <2>3. QED
    BY <2>1, <2>2
<1>2. CASE t # "orderCreated"
  <2>1. pc["orderCreated"] \in EarlyAwaits
    BY <1>0, <1>2, OthersStay DEF EarlyAwaits
  <2>2. pc[t] \notin SavesSaga
    BY <1>0, <1>2, <2>1, AloneAtWork DEF EarlyAwaits, Over
  <2>3. QED
    BY <2>1, <2>2, OnlySavesWrite DEF CopiesCurrent
<1>3. QED
  BY <1>1, <1>2

(* Copies stay current in every step, failing or not.                      *)
LEMMA StepCopies ==
    ASSUME Typed, Money, FailureIsExcused, Turns, CopiesCurrent,
           NEW t \in Task, TaskStep(t) \/ CallFails(t) \/ SaveLost(t)
    PROVE  CopiesCurrent'
<1>1. CallFails(t) \/ SaveLost(t) => ~Holds(t)'
  <2>1. CallFails(t) \/ SaveLost(t) => pc'[t] = CaughtAt(t)
    BY DEF CallFails, SaveLost, Goto, Typed, TypeOK
  <2>2. CaughtAt(t) \in {"reload", "fail", "final", "completeFind", "saveBroken", "end"}
    BY DEF CaughtAt, AfterStep
  <2>3. QED
    BY <2>1, <2>2 DEF Holds
<1>2. Holds(t)' => mem'[t].completedSteps = saga'.completedSteps
  BY <1>1, OwnCopyCurrent
<1>3. \A u \in Task : Holds(u)' => mem'[u].completedSteps = saga'.completedSteps
  BY <1>2, OtherCopiesCurrent
<1>4. QED
  BY <1>3, NoSagaEarly DEF CopiesCurrent, EarlyAwaits

(* Copies are current as long as the timer outlasts the payment step.      *)
LEMMA CopiesAlways == ASSUME TimerOutlastsStep PROVE Safety => []CopiesCurrent
<1>1. Init => CopiesCurrent
  BY RequestAssumption, RequestsApart
  DEF Init, CopiesCurrent, Holds, FirstAwait, Task, SagaTask
<1>2. Typed /\ Money /\ FailureIsExcused /\ Turns /\ CopiesCurrent /\ [Next]_vars => CopiesCurrent'
  <2> SUFFICES ASSUME Typed, Money, FailureIsExcused, Turns, CopiesCurrent, [Next]_vars
               PROVE  CopiesCurrent'
    OBVIOUS
  <2>1. CASE UNCHANGED vars
    BY <2>1 DEF vars, CopiesCurrent, Holds
  <2>2. CASE NodeDown
    <3>1. UNCHANGED <<saga, mem>> /\ \A u \in Task : pc'[u] \in {pc[u], "dead"}
      BY <2>2 DEF NodeDown
    <3>2. "orderCreated" \in Task
      BY DEF Task, SagaTask
    <3>3. QED
      BY <3>1, <3>2 DEF CopiesCurrent, Holds, EarlyAwaits
  <2>3. QED
    BY <2>1, <2>2, StepCopies DEF Next
<1>3. QED
  BY <1>1, <1>2, TypedAlways, MoneyAlways, ExcusedAlways, TurnsAlways, PTL DEF Safety

(* A recorded step outlives every step of the program.                     *)
LEMMA RecordedStays ==
    ASSUME Typed, CopiesCurrent, [Next]_vars, NEW s \in Step, Contains(saga.completedSteps, s)
    PROVE  Contains(saga'.completedSteps, s)
<1>1. CASE NodeDown \/ UNCHANGED vars
  BY <1>1 DEF NodeDown, vars
<1>2. ASSUME NEW t \in Task, TaskStep(t) \/ CallFails(t) \/ SaveLost(t)
      PROVE  Contains(saga'.completedSteps, s)
  <2>1. CASE saga'.completedSteps = saga.completedSteps
    BY <2>1
  <2>2. CASE /\ t \in {"orderCreated", "paymentProcessed"}
             /\ saga'.completedSteps = Append(saga.completedSteps, StepOf(t))
    <3>1. saga.completedSteps \in Seq(Step)
      BY DEF Typed, TypeOK, SagaRow
    <3>2. StepOf(t) \in Step
      BY <2>2 DEF StepOf, Step
    <3>3. QED
      BY <2>2, <3>1, <3>2, RecordedType
  <2>3. QED
    BY <1>2, <2>1, <2>2, StepsWritten
<1>3. QED
  BY <1>1, <1>2 DEF Next

(* A step that was recorded as completed stays recorded, although every    *)
(* writer saves the entity as it read it, whatever fails and whoever       *)
(* cancels, as long as the timer outlasts the payment step.                *)
THEOREM StepsAreKept == ASSUME TimerOutlastsStep PROVE Spec => CompletedStepsKept
<1>1. Typed /\ CopiesCurrent /\ [Next]_vars
         => \A s \in Step : Contains(saga.completedSteps, s) => Contains(saga'.completedSteps, s)
  BY RecordedStays
<1>2. QED
  BY <1>1, TypedAlways, CopiesAlways, PTL DEF Spec, Safety, CompletedStepsKept

-----------------------------------------------------------------------------
(* What a failure leaves in the row.  Nobody holds a step that the row has *)
(* lost.                                                                   *)
CopiesContained ==
    \A t \in Task, s \in Step :
        Contains(mem[t].completedSteps, s) => Contains(saga.completedSteps, s)

LEMMA StepContained ==
    ASSUME Typed, CopiesCurrent, CopiesContained, NEW t \in Task, TaskStep(t)
    PROVE  CopiesContained'
<1>0. mem \in [Task -> SagaRow] /\ saga \in SagaRow
  BY DEF Typed, TypeOK
<1>1. \/ mem'[t] = saga'
      \/ mem'[t].completedSteps \in
            {mem[t].completedSteps, saga.completedSteps, NoSaga.completedSteps}
  <2>1. CASE Load(t)
    BY <1>0, <2>1 DEF Load, SagaRow
  <2>2. CASE CompleteFind(t)
    <3> DEFINE done == [saga EXCEPT !.status = "completed", !.currentStep = "completed"]
    <3>1. done.completedSteps = saga.completedSteps
      BY <1>0 DEF SagaRow
    <3>2. mem' = mem \/ mem' = [mem EXCEPT ![t] = done]
      BY <2>2, Zenon DEF CompleteFind
    <3>3. QED
      BY <1>0, <3>1, <3>2
  <2>3. CASE FindSaga(t)
    BY <1>0, <2>3, FoundSaga
  <2>4. CASE Fail(t) \/ Push(t)
    BY <1>0, <2>4 DEF Fail, Push
  <2>5. CASE Compensate(t)
    BY <1>0, <2>5 DEF Compensate, SagaRow
  <2>6. CASE mem' = mem
    BY <2>6
  <2>7. QED
    BY <2>1, <2>2, <2>3, <2>4, <2>5, <2>6
    DEF TaskStep, Passes, StartSaga, Mark, Pay, Reload, MarkCompensated, MarkFinalFailure,
        CompleteSave, FindOrder, SaveOrder, SettlePayment, SavePayment, SaveSaga, Scan,
        FindPayment
<1>2. \A s \in Step : ~Contains(NoSaga.completedSteps, s)
  BY DEF NoSaga, Contains
<1>3. \A s \in Step : Contains(saga.completedSteps, s) => Contains(saga'.completedSteps, s)
  BY RecordedStays DEF Next
<1>4. ASSUME NEW s \in Step, NEW u \in Task, Contains(mem'[u].completedSteps, s)
      PROVE  Contains(saga'.completedSteps, s)
  <2>1. CASE u = t
    BY <1>1, <1>2, <1>3, <1>4, <2>1 DEF CopiesContained
  <2>2. CASE u # t
    BY <1>3, <1>4, <2>2, OthersStay DEF CopiesContained
  <2>3. QED
    BY <2>1, <2>2
<1>5. QED
  BY <1>4 DEF CopiesContained

LEMMA ContainedAlways == ASSUME TimerOutlastsStep PROVE Safety => []CopiesContained
<1>1. Init => CopiesContained
  BY DEF Init, CopiesContained, NoSaga, Contains
<1>2. Typed /\ CopiesCurrent /\ CopiesContained /\ [Next]_vars => CopiesContained'
  <2> SUFFICES ASSUME Typed, CopiesCurrent, CopiesContained, [Next]_vars PROVE CopiesContained'
    OBVIOUS
  <2>1. \A s \in Step : Contains(saga.completedSteps, s) => Contains(saga'.completedSteps, s)
    BY RecordedStays
  <2>2. CASE mem' = mem
    BY <2>1, <2>2 DEF CopiesContained
  <2>3. QED
    BY <2>2, StepContained DEF Next, NodeDown, CallFails, SaveLost, vars
<1>3. QED
  BY <1>1, <1>2, TypedAlways, CopiesAlways, PTL DEF Safety

(* The actions behind the awaits at which a task knows the saga.           *)
LEMMA Entering ==
    ASSUME Typed, NEW t \in Task, TaskStep(t)
    PROVE  /\ pc'[t] \in {"mark", "pay", "push", "findOrder", "saveOrder"}
                 => \/ Load(t) \/ Mark(t) \/ Pay(t) \/ FindOrder(t) \/ SaveOrder(t)
                    \/ FindSaga(t) \/ Scan(t) \/ FindPayment(t)
           /\ pc'[t] = "completeSave" => CompleteFind(t)
           /\ pc'[t] = "tellFailed" => Fail(t)
<1>0. pc \in [Task -> PC] /\ AfterStep(t) \in {"completeFind", "end"}
  BY DEF Typed, TypeOK, AfterStep
<1>1. Passes(t) => pc'[t] \in {"store", "emit", "start", "load", "compensate"} \cup {AfterStep(t)}
  BY <1>0 DEF Passes, Goto
<1>2. /\ StartSaga(t) => pc'[t] = "lock"
      /\ Push(t) => pc'[t] = AfterStep(t)
      /\ Reload(t) => pc'[t] \in {"fail", AfterStep(t)}
      /\ Compensate(t) => pc'[t] = "markCompensated"
      /\ MarkCompensated(t) => pc'[t] = "tellCompensated"
      /\ MarkFinalFailure(t) => pc'[t] = "tellFinal"
      /\ CompleteSave(t) \/ SaveSaga(t) => pc'[t] = "end"
  BY <1>0
  DEF StartSaga, Push, Reload, Compensate, MarkCompensated, MarkFinalFailure, CompleteSave,
      SaveSaga, Goto
<1>3. /\ SettlePayment(t) => pc'[t] \in {"savePaid", "saveDeclined"}
      /\ SavePayment(t) => pc'[t] \in {"end", "findSaga"}
  BY <1>0 DEF SettlePayment, SavePayment, Goto
<1>4. /\ Load(t) => pc'[t] \in {"mark", AfterStep(t)}
      /\ Mark(t) => pc'[t] \in {"pay", "findOrder"}
      /\ Fail(t) => pc'[t] = "tellFailed"
      /\ CompleteFind(t) => pc'[t] \in {"completeSave", "end"}
      /\ Scan(t) \/ FindPayment(t) => pc'[t] \in {"findPayment", "findOrder", "end"}
  BY <1>0 DEF Load, Mark, Fail, CompleteFind, Scan, FindPayment, Goto
<1>5. /\ Pay(t) => pc'[t] \in {"push", "delay"}
      /\ FindSaga(t) => pc'[t] \in {"end", "lock", "findOrder", "saveSaga"}
  BY <1>0, FoundSaga DEF Pay
<1>6. FindOrder(t) \/ SaveOrder(t) => pc'[t] \in {"saveOrder", "push", "saveSaga", "findSaga", "end"}
  <2>1. AfterCommand(t) \in {"push", "saveSaga", "findSaga", "end"}
    BY DEF AfterCommand
  <2>2. QED
    BY <1>0, <2>1 DEF FindOrder, SaveOrder, Goto
<1>7. QED
  BY <1>0, <1>1, <1>2, <1>3, <1>4, <1>5, <1>6 DEF TaskStep

(* A saga that has failed, or ended otherwise, is never under way again:   *)
(* who saves a status has read it where nobody else writes.                *)
Decided == saga.status \notin {"none", "started"}

StatusKnown ==
    /\ \A t \in {"orderCreated", "paymentProcessed"} :
          pc[t] \in {"mark", "pay", "push", "findOrder", "saveOrder"}
             => mem[t].status = saga.status
    /\ pc["paymentProcessed"] = "completeSave" => mem["paymentProcessed"].status = "completed"
    /\ \A t \in Task : pc[t] = "tellFailed" => Decided

LEMMA DecidedStays ==
    ASSUME Typed, CopiesCurrent, StatusKnown, Decided,
           NEW t \in Task, TaskStep(t) \/ CallFails(t) \/ SaveLost(t)
    PROVE  Decided'
<1>0. mem \in [Task -> SagaRow] /\ saga \in SagaRow
  BY DEF Typed, TypeOK
<1>1. /\ pc[t] \in {"mark", "completeSave"} => saga' \in {saga, mem[t]}
      /\ pc[t] = "push" => saga' \in {saga, Recorded(t)}
      /\ pc[t] = "saveSaga" => saga' \in {saga, CompensatedBy(t)}
      /\ pc[t] = "fail" => saga' = saga \/ saga'.status = "compensating"
      /\ pc[t] = "markCompensated" => saga' = saga \/ saga'.status = "compensated"
      /\ pc[t] = "final" => saga' = saga \/ saga'.status = "failed"
  BY <1>0
  DEF TaskStep, Passes, StartSaga, Load, Mark, Pay, Push, Reload, Fail, Compensate,
      MarkCompensated, MarkFinalFailure, CompleteFind, CompleteSave, FindOrder,
      SaveOrder, SettlePayment, SavePayment, FindSaga, SaveSaga, Scan, FindPayment,
      CallFails, SaveLost, SagaRow
<1>2. Recorded(t).status = mem[t].status /\ CompensatedBy(t).status = "compensated"
  BY <1>0 DEF Recorded, CompensatedBy, SagaRow
<1>3. pc[t] # "start"
  BY WhoPays DEF CopiesCurrent, EarlyAwaits, Decided, NoSaga
<1>4. pc[t] \in {"mark", "push"} => mem[t].status = saga.status
  BY WhoPays DEF StatusKnown
<1>5. pc[t] = "completeSave" => mem[t].status = "completed"
  BY WhoPays DEF StatusKnown
<1>6. QED
  BY <1>1, <1>2, <1>3, <1>4, <1>5, OnlySavesWrite DEF SavesSaga, Decided

(* The task that runs a step keeps knowing the status of the saga.         *)
LEMMA RunnerKnows ==
    ASSUME Typed, Money, FailureIsExcused, Turns, StatusKnown,
           NEW t \in Task, TaskStep(t) \/ CallFails(t) \/ SaveLost(t),
           NEW u \in {"orderCreated", "paymentProcessed"},
           pc'[u] \in {"mark", "pay", "push", "findOrder", "saveOrder"}
    PROVE  mem'[u].status = saga'.status
<1>0. /\ pc \in [Task -> PC] /\ mem \in [Task -> SagaRow] /\ saga \in SagaRow
      /\ u \in Task
  BY DEF Typed, TypeOK, Task, SagaTask
<1>1. CASE u # t
  <2>1. mem'[u] = mem[u] /\ pc'[u] = pc[u]
    BY <1>0, <1>1, OthersStay
  <2>2. pc[t] \notin SavesSaga
    BY <1>1, <2>1, AloneAtWork DEF Over
  <2>3. QED
    BY <2>1, <2>2, OnlySavesWrite DEF StatusKnown
<1>2. CASE u = t /\ (CallFails(t) \/ SaveLost(t))
  <2>1. pc'[t] = CaughtAt(t)
    BY <1>0, <1>2 DEF CallFails, SaveLost, Goto
  <2>2. CaughtAt(t) \in {"reload", "fail", "final", "completeFind", "saveBroken", "end"}
    BY DEF CaughtAt, AfterStep
  <2>3. QED
    BY <1>2, <2>1, <2>2
<1>3. CASE u = t /\ TaskStep(t)
  <2>1. CASE Load(t)
    BY <1>0, <1>3, <2>1 DEF Load, Goto, AfterStep, SagaRow
  <2>2. CASE Mark(t)
    BY <1>0, <1>3, <2>2 DEF Mark
  <2>3. CASE Pay(t) \/ FindOrder(t) \/ SaveOrder(t)
    BY <1>0, <1>3, <2>3 DEF Pay, FindOrder, SaveOrder, StatusKnown
  <2>4. CASE FindSaga(t)
    BY <1>0, <1>3, <2>4, FoundSaga
  <2>5. CASE Scan(t) \/ FindPayment(t)
    BY <1>3, <2>5
    DEF Scan, FindPayment, Typed, AwaitsOfSaga, StepPath, FailurePath, Over
  <2>6. CASE ~(Load(t) \/ Mark(t) \/ Pay(t) \/ FindOrder(t) \/ SaveOrder(t) \/ FindSaga(t)
               \/ Scan(t) \/ FindPayment(t))
    <3>1. pc'[t] \notin {"mark", "pay", "push", "findOrder", "saveOrder"}
      BY <1>3, <2>6, Entering
    <3>2. QED
      BY <1>3, <3>1
  <2>7. QED
    BY <2>1, <2>2, <2>3, <2>4, <2>5, <2>6
<1>4. QED
  BY <1>1, <1>2, <1>3

(* The last save of the payment handler is a completion.                   *)
LEMMA CompletionKnown ==
    ASSUME Typed, Money, StatusKnown,
           NEW t \in Task, TaskStep(t) \/ CallFails(t) \/ SaveLost(t),
           pc'["paymentProcessed"] = "completeSave"
    PROVE  mem'["paymentProcessed"].status = "completed"
<1>0. /\ pc \in [Task -> PC] /\ mem \in [Task -> SagaRow] /\ saga \in SagaRow
      /\ "paymentProcessed" \in Task
  BY DEF Typed, TypeOK, Task, SagaTask
<1>1. CASE t # "paymentProcessed"
  BY <1>0, <1>1, OthersStay DEF StatusKnown
<1>2. CASE CompleteFind(t)
  <2> DEFINE done == [saga EXCEPT !.status = "completed", !.currentStep = "completed"]
  <2>1. done.status = "completed"
    BY <1>0 DEF SagaRow
  <2>2. pc' = [pc EXCEPT ![t] = "end"] \/ mem' = [mem EXCEPT ![t] = done]
    BY <1>2 DEF CompleteFind, Goto
  <2>3. t = "paymentProcessed"
    BY <1>2 DEF CompleteFind, Typed, AwaitsOfSaga, AwaitsOfRequests, Task, SagaTask,
                StepPath, FailurePath, Over
  <2>4. QED
    BY <1>0, <2>1, <2>2, <2>3
<1>3. CASE t = "paymentProcessed" /\ (CallFails(t) \/ SaveLost(t))
  BY <1>0, <1>3 DEF CallFails, SaveLost, Goto, CaughtAt, AfterStep
<1>4. CASE t = "paymentProcessed" /\ TaskStep(t) /\ ~CompleteFind(t)
  <2>1. pc'[t] # "completeSave"
    BY <1>4, Entering
  <2>2. QED
    BY <1>4, <2>1
<1>5. QED
  BY <1>1, <1>2, <1>3, <1>4

(* A failure is told once it is in the row.                                *)
LEMMA FailureDecided ==
    ASSUME Typed, CopiesCurrent, StatusKnown,
           NEW t \in Task, TaskStep(t) \/ CallFails(t) \/ SaveLost(t),
           NEW u \in Task, pc'[u] = "tellFailed"
    PROVE  Decided'
<1>0. /\ pc \in [Task -> PC] /\ mem \in [Task -> SagaRow] /\ saga \in SagaRow
  BY DEF Typed, TypeOK
<1>1. CASE Fail(t)
  BY <1>0, <1>1 DEF Fail, Decided, SagaRow
<1>2. CASE ~Fail(t)
  <2>1. pc[u] = "tellFailed"
    <3>1. CASE u # t
      BY <3>1, OthersStay
    <3>2. CASE u = t /\ (CallFails(t) \/ SaveLost(t))
      BY <1>0, <3>2 DEF CallFails, SaveLost, Goto, CaughtAt, AfterStep
    <3>3. CASE u = t /\ TaskStep(t)
      <4>1. pc'[t] # "tellFailed"
        BY <1>2, <3>3, Entering
      <4>2. QED
        BY <3>3, <4>1
    <3>4. QED
      BY <3>1, <3>2, <3>3
  <2>2. QED
    BY <2>1, DecidedStays DEF StatusKnown
<1>3. QED
  BY <1>1, <1>2

LEMMA StatusAlways == ASSUME TimerOutlastsStep PROVE Safety => []StatusKnown
<1>1. Init => StatusKnown
  BY RequestAssumption, RequestsApart
  DEF Init, StatusKnown, FirstAwait, Task, SagaTask
<1>2. Typed /\ Money /\ FailureIsExcused /\ Turns /\ CopiesCurrent /\ StatusKnown /\ [Next]_vars
         => StatusKnown'
  <2> SUFFICES ASSUME Typed, Money, FailureIsExcused, Turns, CopiesCurrent, StatusKnown,
                      [Next]_vars
               PROVE  StatusKnown'
    OBVIOUS
  <2>1. CASE UNCHANGED vars
    BY <2>1 DEF vars, StatusKnown, Decided
  <2>2. CASE NodeDown
    <3>1. UNCHANGED <<saga, mem>> /\ \A u \in Task : pc'[u] \in {pc[u], "dead"}
      BY <2>2 DEF NodeDown
    <3>2. "orderCreated" \in Task /\ "paymentProcessed" \in Task
      BY DEF Task, SagaTask
    <3>3. QED
      BY <3>1, <3>2 DEF StatusKnown, Decided
  <2>3. ASSUME NEW t \in Task, TaskStep(t) \/ CallFails(t) \/ SaveLost(t) PROVE StatusKnown'
    BY <2>3, RunnerKnows, CompletionKnown, FailureDecided DEF StatusKnown
  <2>4. QED
    BY <2>1, <2>2, <2>3 DEF Next
<1>3. QED
  BY <1>1, <1>2, TypedAlways, MoneyAlways, ExcusedAlways, TurnsAlways, CopiesAlways, PTL
  DEF Safety

-----------------------------------------------------------------------------
(* The diagram of README.md, while no call fails and nobody confirms by    *)
(* hand.  Known is what was proved so far; Calm adds where the rows stand  *)
(* when nothing fails: the payment follows its timer, no saga fails, and   *)
(* who saves the end of a saga has seen the end of its order.              *)
Known == /\ Typed /\ Money /\ FailureIsExcused /\ Turns
         /\ CopiesCurrent /\ StatusKnown /\ CompletedLast

NobodyConfirms == \A r \in Request : KindOf[r] # "confirm"

Troubled(row) == row.status \in {"compensating", "failed"}

PaymentFollowsTimer ==
    /\ pc["paymentTimer"] = "idle" => payment = "none"
    /\ pc["paymentTimer"] \in {"delay", "savePaid", "saveDeclined"} => payment = "processing"

SagaUntroubled ==
    /\ pc["orderCreated"] \notin EarlyAwaits => saga.status # "none"
    /\ ~Troubled(saga)
    /\ \A t \in Task : ~Troubled(mem[t])

OrderSeenToItsEnd ==
    /\ pc["paymentProcessed"] \in {"push", "completeFind", "completeSave"} => order # "pending"
    /\ Contains(saga.completedSteps, "order_confirmation") => order # "pending"
    /\ pc["paymentFailed"] = "saveSaga" => order = "cancelled"
    /\ \A r \in Request : pc[r] \in {"findSaga", "saveSaga"} => order = "cancelled"

Calm == faults = 0 /\ PaymentFollowsTimer /\ SagaUntroubled /\ OrderSeenToItsEnd

(* Without failures nobody stands on the failing path.                     *)
LEMMA CalmAwaits ==
    ASSUME FailureIsExcused, Calm
    PROVE  /\ \A t \in Task : pc[t] \notin FailurePath
           /\ pc["paymentTimer"] # "saveBroken"
           /\ payment # "failed" => ~Excused
  BY DEF FailureIsExcused, Calm, Excused

(* While a payment is under way, or the confirmation, the saga is started. *)
LEMMA StartedUnderWay ==
    ASSUME Known, Calm
    PROVE  /\ pc["orderCreated"] = "pay" => saga.status = "started" /\ payment = "none"
           /\ pc["paymentProcessed"] \notin {"idle"} \cup Over
                 => saga.status = "started" /\ payment = "completed"
<1>0. saga.status \in SagaStatus
  BY DEF Known, Typed, TypeOK, SagaRow
<1>1. CASE pc["orderCreated"] = "pay"
  <2>1. payment = "none" /\ ~Processed
    BY <1>1 DEF Known, Money, TimerFollowsPay, Calm, PaymentFollowsTimer
  <2>2. ~SaysFailure(saga) /\ ~SaysSuccess(saga)
    BY <2>1, CalmAwaits DEF Known, FailureIsExcused, Money, SuccessIsProcessed
  <2>3. saga.status # "none"
    BY <1>1 DEF Calm, SagaUntroubled, EarlyAwaits
  <2>4. QED
    BY <1>0, <2>1, <2>2, <2>3 DEF SaysFailure, SaysSuccess, SagaStatus, Processed, Known,
       Money, TimerFollowsPay, Over
<1>2. CASE pc["paymentProcessed"] \notin {"idle"} \cup Over
  <2>1. Settled /\ payment = "completed"
    BY <1>2 DEF Known, Money, ChargedFirst, Processed
  <2>2. ~SaysFailure(saga) /\ saga.status # "completed"
    BY <1>2, <2>1, CalmAwaits DEF Known, FailureIsExcused, CompletedLast
  <2>3. saga.status # "none"
    BY <2>1 DEF Known, Turns, Settled, Over, Calm, SagaUntroubled, EarlyAwaits
  <2>4. saga.status = "started"
    BY <1>0, <2>2, <2>3 DEF SaysFailure, SagaStatus
  <2>5. pc["orderCreated"] # "pay"
    BY <2>1 DEF Known, Turns, Settled, Over
  <2>6. QED
    BY <2>1, <2>4, <2>5
<1>3. QED
  BY <1>1, <1>2

(* What a step makes of the saga's status.                                 *)
LEMMA CalmSaga ==
    ASSUME Known, Calm, NEW t \in Task, TaskStep(t)
    PROVE  \/ saga'.status = saga.status
           \/ StartSaga(t) /\ saga.status = "none" /\ saga'.status = "started"
           \/ CompleteSave(t) /\ saga'.status = "completed"
           \/ SaveSaga(t) /\ saga'.status = "compensated"
<1>0. mem \in [Task -> SagaRow] /\ saga \in SagaRow
  BY DEF Known, Typed, TypeOK
<1>1. CASE StartSaga(t)
  <2>1. saga = NoSaga
    BY <1>1, WhoPays DEF StartSaga, Known, CopiesCurrent, EarlyAwaits
  <2>2. QED
    BY <1>1, <2>1 DEF StartSaga, NewSaga, NoSaga
<1>2. CASE Mark(t)
  BY <1>2, WhoPays DEF Mark, Known, StatusKnown
<1>3. CASE Push(t)
  BY <1>0, <1>3, WhoPays DEF Push, Recorded, SagaRow, Known, StatusKnown
<1>4. CASE CompleteSave(t)
  BY <1>4, WhoPays DEF CompleteSave, Known, StatusKnown
<1>5. CASE SaveSaga(t)
  BY <1>0, <1>5 DEF SaveSaga, CompensatedBy, SagaRow
<1>6. CASE Fail(t) \/ MarkCompensated(t) \/ MarkFinalFailure(t)
  BY <1>6, CalmAwaits DEF Fail, MarkCompensated, MarkFinalFailure, FailurePath, Known
<1>7. CASE saga' = saga
  BY <1>7
<1>8. QED
  BY <1>1, <1>2, <1>3, <1>4, <1>5, <1>6, <1>7
  DEF TaskStep, Passes, Load, Pay, Reload, Compensate, CompleteFind, FindOrder, SaveOrder,
      SettlePayment, SavePayment, FindSaga, Scan, FindPayment

(* What a step makes of the order: only the confirmation pays it.          *)
LEMMA CalmOrder ==
    ASSUME Known, NobodyConfirms, NEW t \in Task, TaskStep(t)
    PROVE  \/ order' = order
           \/ SaveOrder(t) /\ order' = "cancelled"
           \/ SaveOrder(t) /\ order' = "paid" /\ t = "paymentProcessed"
<1>1. CASE SaveOrder(t)
  <2>1. Confirms(t) => t = "paymentProcessed"
    BY RequestAssumption DEF Confirms, Kind, NobodyConfirms, Task, SagaTask
  <2>2. QED
    BY <1>1, <2>1 DEF SaveOrder, StatusSavedBy
<1>2. CASE ~SaveOrder(t)
  BY <1>2
  DEF TaskStep, Passes, StartSaga, Load, Mark, Pay, Push, Reload, Fail, Compensate,
      MarkCompensated, MarkFinalFailure, CompleteFind, CompleteSave, FindOrder,
      SettlePayment, SavePayment, FindSaga, SaveSaga, Scan, FindPayment
<1>3. QED
  BY <1>1, <1>2

(* After a failed payment a cancelled order stays cancelled.               *)
LEMMA CancelledAfterFailure ==
    ASSUME Known, NobodyConfirms, payment = "failed", order = "cancelled",
           NEW t \in Task, TaskStep(t)
    PROVE  order' = "cancelled"
<1>1. SaveOrder(t) => t # "paymentProcessed"
  BY DEF SaveOrder, Known, Money, ChargedFirst, Processed
<1>2. QED
  BY <1>1, CalmOrder

(* A task saves the end of a saga only after a failed payment.             *)
LEMMA SavedAfterFailure ==
    ASSUME Known, Calm
    PROVE  /\ pc["paymentFailed"] # "idle" => payment = "failed"
           /\ \A r \in Request : sawFailedPayment[r] => payment = "failed"
           /\ \A t \in Task : pc[t] = "saveSaga" => payment = "failed" /\ order = "cancelled"
<1>1. pc["paymentFailed"] # "idle" => payment = "failed"
  BY CalmAwaits DEF Known, FailureIsExcused
<1>2. \A r \in Request : sawFailedPayment[r] => payment = "failed"
  BY RequestsApart DEF Known, Turns
<1>3. ASSUME NEW t \in Task, pc[t] = "saveSaga" PROVE payment = "failed" /\ order = "cancelled"
  <2>1. CASE t = "paymentFailed"
    BY <1>1, <1>3, <2>1 DEF Calm, OrderSeenToItsEnd
  <2>2. CASE t \in Request
    BY <1>2, <1>3, <2>2 DEF Calm, OrderSeenToItsEnd, Known, Typed, AwaitsOfRequests
  <2>3. QED
    BY <1>3, <2>1, <2>2
    DEF Known, Typed, AwaitsOfSaga, Task, SagaTask, StepPath, FailurePath, Over
<1>4. QED
  BY <1>1, <1>2, <1>3

(* Every step of a task is a step of the diagram, or none.                 *)
LEMMA FlowStep ==
    ASSUME Known, Calm, NobodyConfirms, NEW t \in Task, TaskStep(t)
    PROVE  [Flow!Next]_<<order, payment, saga.status>>
<1>1. CASE StartSaga(t)
  <2>1. saga.status = "none" /\ saga'.status = "started"
    BY <1>1, WhoPays
    DEF StartSaga, NewSaga, NoSaga, Known, CopiesCurrent, EarlyAwaits
  <2>2. QED
    BY <1>1, <2>1 DEF StartSaga, Flow!Next, Flow!StartSaga
<1>2. CASE Pay(t)
  <2>1. saga.status = "started" /\ payment = "none"
    BY <1>2, WhoPays, StartedUnderWay DEF Pay, Known
  <2>2. QED
    BY <1>2, <2>1 DEF Pay, Flow!Next, Flow!RequestPayment
<1>3. CASE SavePayment(t)
  <2>1. payment = "processing"
    BY <1>3, WhoPays, CalmAwaits DEF SavePayment, Known, Calm, PaymentFollowsTimer
  <2>2. QED
    BY <1>3, <2>1 DEF SavePayment, VerdictSavedBy, Flow!Next, Flow!SettlePayment
<1>4. CASE SaveOrder(t)
  <2>1. CASE order' = "cancelled"
    BY <1>4, <2>1 DEF SaveOrder, Flow!Next, Flow!CancelOrder
  <2>2. CASE order' = "paid" /\ t = "paymentProcessed"
    <3>1. saga.status = "started" /\ payment = "completed"
      BY <1>4, <2>2, StartedUnderWay DEF SaveOrder, Over
    <3>2. QED
      BY <1>4, <2>2, <3>1 DEF SaveOrder, Flow!Next, Flow!ConfirmOrder
  <2>3. CASE order' = order
    BY <1>4, <2>3 DEF SaveOrder
  <2>4. QED
    BY <2>1, <2>2, <2>3, CalmOrder
<1>5. CASE CompleteSave(t)
  <2>1. t = "paymentProcessed" /\ pc[t] = "completeSave"
    BY <1>5, WhoPays DEF CompleteSave, Known
  <2>2. saga.status = "started" /\ payment = "completed" /\ order # "pending"
    BY <2>1, StartedUnderWay DEF Over, Calm, OrderSeenToItsEnd
  <2>3. saga'.status = "completed"
    BY <1>5, <2>1 DEF CompleteSave, Known, StatusKnown
  <2>4. QED
    BY <1>5, <2>2, <2>3 DEF CompleteSave, Flow!Next, Flow!CompleteSaga
<1>6. CASE SaveSaga(t)
  <2>1. payment = "failed" /\ order = "cancelled"
    BY <1>6, SavedAfterFailure DEF SaveSaga
  <2>2. saga'.status = "compensated"
    BY <1>6 DEF SaveSaga, CompensatedBy, Known, Typed, TypeOK, SagaRow
  <2>3. saga.status \in {"started", "compensated"}
    <3>1. saga.status \in SagaStatus
      BY DEF Known, Typed, TypeOK, SagaRow
    <3>2. saga.status # "none"
      BY <2>1 DEF Known, Turns, Over, Calm, SagaUntroubled, EarlyAwaits
    <3>3. saga.status # "completed"
      BY <2>1 DEF Known, Money, SuccessIsProcessed, ChargedFirst, SaysSuccess
    <3>4. QED
      BY <3>1, <3>2, <3>3 DEF SagaStatus, Calm, SagaUntroubled, Troubled
  <2>4. QED
    BY <1>6, <2>1, <2>2, <2>3 DEF SaveSaga, Flow!Next, Flow!CompensateSaga
<1>7. CASE ~(StartSaga(t) \/ Pay(t) \/ SavePayment(t) \/ SaveOrder(t) \/ CompleteSave(t)
             \/ SaveSaga(t))
  <2>1. UNCHANGED <<order, payment>>
    BY <1>7
    DEF TaskStep, Passes, Load, Mark, Push, Reload, Fail, Compensate, MarkCompensated,
        MarkFinalFailure, CompleteFind, FindOrder, SettlePayment, FindSaga, Scan, FindPayment
  <2>2. saga'.status = saga.status
    BY <1>7, CalmSaga
  <2>3. QED
    BY <2>1, <2>2
<1>8. QED
  BY <1>1, <1>2, <1>3, <1>4, <1>5, <1>6, <1>7

-----------------------------------------------------------------------------
(* The other tasks stay at their awaits, but for the timer and the handler *)
(* that are woken up.                                                      *)
LEMMA OthersWait ==
    ASSUME Typed, NEW t \in Task, TaskStep(t), NEW u \in Task, u # t
    PROVE  pc'[u] = pc[u] \/ (u \in SagaTask /\ pc'[u] \in {"delay", "findSaga"})
<1>0. pc \in [Task -> PC] /\ HandlerOf(VerdictSavedBy(t)) \in SagaTask
  BY DEF Typed, TypeOK, HandlerOf, SagaTask
<1>1. CASE Pay(t)
  BY <1>0, <1>1 DEF Pay, SagaTask
<1>2. CASE SavePayment(t)
  BY <1>0, <1>2 DEF SavePayment
<1>3. CASE ~Pay(t) /\ ~SavePayment(t)
  BY <1>3, QuietStep
<1>4. QED
  BY <1>1, <1>2, <1>3

LEMMA CalmPayment ==
    ASSUME Known, Calm, NEW t \in Task, TaskStep(t)
    PROVE  PaymentFollowsTimer'
<1>0. pc \in [Task -> PC] /\ "paymentTimer" \in Task
  BY DEF Known, Typed, TypeOK, Task, SagaTask
<1>1. CASE Pay(t)
  <2>1. t # "paymentTimer" /\ payment' = "processing" /\ pc'["paymentTimer"] = "delay"
    BY <1>0, <1>1, WhoPays DEF Pay, Known
  <2>2. QED
    BY <2>1 DEF PaymentFollowsTimer
<1>2. CASE SavePayment(t)
  <2>1. t = "paymentTimer"
    BY <1>2, WhoPays DEF SavePayment, Known
  <2>2. pc'["paymentTimer"] = "end"
    BY <1>0, <1>2, <2>1 DEF SavePayment, HandlerOf
  <2>3. QED
    BY <2>2 DEF PaymentFollowsTimer
<1>3. CASE ~Pay(t) /\ ~SavePayment(t)
  <2>1. /\ payment' = payment
        /\ t # "paymentTimer" => pc'["paymentTimer"] = pc["paymentTimer"]
        /\ t = "paymentTimer" => SettlePayment(t)
    BY <1>0, <1>3, QuietStep DEF Known
  <2>2. SettlePayment("paymentTimer")
           => pc["paymentTimer"] = "delay" /\ pc'["paymentTimer"] \in {"savePaid", "saveDeclined"}
    BY <1>0 DEF SettlePayment, Goto
  <2>3. QED
    BY <2>1, <2>2 DEF Calm, PaymentFollowsTimer
<1>4. QED
  BY <1>1, <1>2, <1>3

LEMMA CalmRow ==
    ASSUME Known, Calm, NEW t \in Task, TaskStep(t)
    PROVE  SagaUntroubled'
<1>0. /\ mem \in [Task -> SagaRow] /\ saga \in SagaRow /\ pc \in [Task -> PC]
      /\ "orderCreated" \in Task
  BY DEF Known, Typed, TypeOK, Task, SagaTask
<1>1. ~Troubled(saga)'
  BY CalmSaga DEF Calm, SagaUntroubled, Troubled
<1>2. mem'[t].status \in {mem[t].status, saga.status, "none", "completed"}
  <2>1. CASE Load(t) \/ Push(t) \/ Compensate(t)
    BY <1>0, <2>1 DEF Load, Push, Recorded, Compensate, SagaRow
  <2>2. CASE CompleteFind(t)
    <3> DEFINE done == [saga EXCEPT !.status = "completed", !.currentStep = "completed"]
    <3>1. done.status = "completed"
      BY <1>0 DEF SagaRow
    <3>2. mem' = mem \/ mem' = [mem EXCEPT ![t] = done]
      BY <2>2, Zenon DEF CompleteFind
    <3>3. QED
      BY <1>0, <3>1, <3>2
  <2>3. CASE FindSaga(t)
    BY <1>0, <2>3, FoundSaga DEF NoSaga
  <2>4. CASE Fail(t)
    BY <2>4, CalmAwaits DEF Fail, FailurePath, Known
  <2>5. CASE mem' = mem
    BY <2>5
  <2>6. QED
    BY <2>1, <2>2, <2>3, <2>4, <2>5
    DEF TaskStep, Passes, StartSaga, Mark, Pay, Reload, MarkCompensated, MarkFinalFailure,
        CompleteSave, FindOrder, SaveOrder, SettlePayment, SavePayment, SaveSaga, Scan,
        FindPayment
<1>3. \A u \in Task : ~Troubled(mem[u])'
  <2>1. \A u \in Task : u # t => mem'[u] = mem[u]
    BY OthersStay DEF Known
  <2>2. QED
    BY <1>2, <2>1 DEF Calm, SagaUntroubled, Troubled
<1>4. pc'["orderCreated"] \notin EarlyAwaits => saga'.status # "none"
  <2>1. CASE saga.status # "none"
    BY <2>1, CalmSaga
  <2>2. CASE saga.status = "none" /\ ~StartSaga(t)
    <3>1. pc["orderCreated"] \in EarlyAwaits
      BY <2>2 DEF Calm, SagaUntroubled
    <3>2. CASE t = "orderCreated"
      <4>1. Passes(t)
        BY <2>2, <3>1, <3>2, FoundSaga
        DEF EarlyAwaits, TaskStep, Load, Mark, Pay, Push, Reload, Fail, Compensate,
            MarkCompensated, MarkFinalFailure, CompleteFind, CompleteSave, FindOrder,
            SaveOrder, SettlePayment, SavePayment, SaveSaga, Scan, FindPayment
      <4>2. pc[t] # "start"
        BY <4>1 DEF Passes
      <4>3. QED
        BY <1>0, <3>1, <3>2, <4>1, <4>2 DEF EarlyAwaits, Passes, Goto
    <3>3. CASE t # "orderCreated"
      <4>1. pc'["orderCreated"] = pc["orderCreated"]
        <5>1. pc'["orderCreated"] \notin {"delay", "findSaga"}
          BY StepTyped
          DEF Known, Typed, AwaitsOfSaga, StepPath, FailurePath, Over
        <5>2. QED
          BY <1>0, <3>3, <5>1, OthersWait DEF Known
      <4>2. QED
        BY <3>1, <4>1
    <3>4. QED
      BY <3>2, <3>3
  <2>3. CASE StartSaga(t)
    BY <2>3 DEF StartSaga, NewSaga, NoSaga
  <2>4. QED
    BY <2>1, <2>2, <2>3
<1>5. QED
  BY <1>1, <1>3, <1>4 DEF SagaUntroubled

(* Where a step brings the payment handler, the failure handler and a      *)
(* request on their way to the end of the saga.                            *)
LEMMA CalmHandler ==
    ASSUME Known, Calm, TaskStep("paymentProcessed"),
           pc'["paymentProcessed"] \in {"push", "completeFind", "completeSave"}
    PROVE  order' # "pending"
<1> DEFINE t == "paymentProcessed"
<1>0. /\ pc \in [Task -> PC] /\ t \in Task /\ AfterStep(t) = "completeFind"
      /\ Kind(t) = t /\ Confirms(t) /\ AfterCommand(t) = "push" /\ StepOf(t) = "order_confirmation"
  BY DEF Known, Typed, TypeOK, Task, SagaTask, AfterStep, Kind, Confirms, AfterCommand, StepOf
<1>1. pc[t] \in PC \ (FailurePath \cup {"pay", "savePaid", "saveDeclined", "saveBroken"})
  BY <1>0, CalmAwaits, WhoPays DEF Known, Typed, TypeOK
<1>2. CASE Load(t)
  BY <1>0, <1>2 DEF Load, Goto, Calm, OrderSeenToItsEnd
<1>3. CASE FindOrder(t)
  BY <1>0, <1>3 DEF FindOrder, Goto
<1>4. CASE SaveOrder(t)
  BY <1>0, <1>4 DEF SaveOrder, StatusSavedBy
<1>5. CASE Push(t) \/ CompleteFind(t) \/ CompleteSave(t)
  BY <1>5 DEF Push, CompleteFind, CompleteSave, Calm, OrderSeenToItsEnd
<1>6. CASE Passes(t)
  BY <1>0, <1>1, <1>6 DEF Passes, Goto, FailurePath
<1>7. CASE FindSaga(t)
  BY <1>0, <1>7, FoundSaga
<1>8. CASE StartSaga(t) \/ Mark(t) \/ Scan(t) \/ FindPayment(t) \/ SettlePayment(t) \/ SaveSaga(t)
  BY <1>0, <1>8 DEF StartSaga, Mark, Scan, FindPayment, SettlePayment, SaveSaga, Goto
<1>9. CASE \/ Pay(t) \/ SavePayment(t) \/ Reload(t) \/ Fail(t) \/ Compensate(t)
           \/ MarkCompensated(t) \/ MarkFinalFailure(t)
  BY <1>1, <1>9 DEF Pay, SavePayment, Reload, Fail, Compensate, MarkCompensated,
                    MarkFinalFailure, FailurePath
<1>10. QED
  BY <1>2, <1>3, <1>4, <1>5, <1>6, <1>7, <1>8, <1>9 DEF TaskStep

LEMMA CalmEnd ==
    ASSUME Known, Calm, NobodyConfirms, NEW t \in Task, TaskStep(t),
           \/ t = "paymentFailed" /\ pc'[t] = "saveSaga"
           \/ t \in Request /\ pc'[t] \in {"findSaga", "saveSaga"}
    PROVE  order' = "cancelled"
<1>0. /\ pc \in [Task -> PC] /\ pc[t] \notin FailurePath /\ t \notin {"orderCreated", "paymentTimer"}
      /\ ~Confirms(t) \/ AfterCommand(t) = "end"
  <2>1. t \in Request => KindOf[t] \in {"cancel", "cleanup"} /\ t \notin SagaTask
    BY RequestAssumption DEF NobodyConfirms
  <2>2. t = "paymentFailed" => t \in SagaTask
    BY DEF SagaTask
  <2>3. ~Confirms(t)
    BY <2>1, <2>2 DEF Confirms, Kind
  <2>4. QED
    BY <2>1, <2>3, CalmAwaits DEF Known, Typed, TypeOK, SagaTask
<1>1. CASE SaveOrder(t)
  BY <1>0, <1>1 DEF SaveOrder, StatusSavedBy, Goto
<1>2. CASE FindOrder(t)
  BY <1>0, <1>2 DEF FindOrder, Goto
<1>3. CASE FindSaga(t)
  <2>1. t # "paymentFailed"
    BY <1>0, <1>3, FoundSaga
  <2>2. QED
    BY <1>3, <2>1 DEF FindSaga, Calm, OrderSeenToItsEnd
<1>4. CASE ~SaveOrder(t) /\ ~FindOrder(t) /\ ~FindSaga(t)
  <2>1. pc[t] \notin {"pay", "savePaid", "saveDeclined", "saveBroken", "start", "mark", "push",
                      "completeSave"} \/ t = "paymentProcessed"
    BY <1>0, WhoPays DEF Known
  <2>2. pc'[t] \notin {"findSaga", "saveSaga"}
    BY <1>0, <1>4, <2>1
    DEF TaskStep, Passes, StartSaga, Load, Mark, Pay, Push, Reload, Fail, Compensate,
        MarkCompensated, MarkFinalFailure, CompleteFind, CompleteSave, SettlePayment,
        SavePayment, SaveSaga, Scan, FindPayment, Goto, AfterStep, FailurePath
  <2>3. QED
    BY <2>2
<1>5. QED
  BY <1>1, <1>2, <1>3, <1>4

LEMMA CalmSeen ==
    ASSUME Known, Calm, NobodyConfirms, NEW t \in Task, TaskStep(t)
    PROVE  OrderSeenToItsEnd'
<1>0. {"paymentProcessed", "paymentFailed"} \subseteq Task /\ saga.completedSteps \in Seq(Step)
  BY DEF Task, SagaTask, Known, Typed, TypeOK, SagaRow
<1>1. order # "pending" => order' # "pending"
  BY CalmOrder
<1>2. pc'["paymentProcessed"] \in {"push", "completeFind", "completeSave"} => order' # "pending"
  <2>1. t # "paymentProcessed" => \/ pc'["paymentProcessed"] = pc["paymentProcessed"]
                                  \/ pc'["paymentProcessed"] \in {"delay", "findSaga"}
    BY <1>0, OthersWait DEF Known
  <2>2. QED
    BY <1>1, <2>1, CalmHandler DEF Calm, OrderSeenToItsEnd
<1>3. Contains(saga'.completedSteps, "order_confirmation") => order' # "pending"
  <2>1. CASE saga'.completedSteps = saga.completedSteps
    BY <1>1, <2>1 DEF Calm, OrderSeenToItsEnd
  <2>2. CASE /\ t \in {"orderCreated", "paymentProcessed"} /\ pc[t] = "push"
             /\ saga'.completedSteps = Append(saga.completedSteps, StepOf(t))
    <3>1. StepOf(t) \in Step /\ (StepOf(t) = "order_confirmation" => t = "paymentProcessed")
      BY <2>2 DEF StepOf, Step
    <3>2. Contains(saga'.completedSteps, "order_confirmation")
             => Contains(saga.completedSteps, "order_confirmation") \/ t = "paymentProcessed"
      BY <1>0, <2>2, <3>1, RecordedType
    <3>3. QED
      BY <1>1, <2>2, <3>2 DEF Calm, OrderSeenToItsEnd
  <2>3. QED
    BY <2>1, <2>2, StepsWritten DEF Known
<1>4. pc'["paymentFailed"] = "saveSaga" => order' = "cancelled"
  <2>1. CASE t = "paymentFailed"
    BY <2>1, CalmEnd
  <2>2. CASE t # "paymentFailed" /\ pc'["paymentFailed"] = "saveSaga"
    <3>1. pc["paymentFailed"] = "saveSaga"
      BY <1>0, <2>2, OthersWait DEF Known
    <3>2. payment = "failed" /\ order = "cancelled"
      BY <1>0, <3>1, SavedAfterFailure
    <3>3. QED
      BY <3>2, CancelledAfterFailure
  <2>3. QED
    BY <2>1, <2>2
<1>5. ASSUME NEW r \in Request, pc'[r] \in {"findSaga", "saveSaga"} PROVE order' = "cancelled"
  <2>1. CASE t = r
    BY <1>5, <2>1, CalmEnd
  <2>2. CASE t # r
    <3>1. r \in Task /\ r \notin SagaTask
      BY RequestAssumption DEF Task
    <3>2. pc[r] \in {"findSaga", "saveSaga"}
      BY <1>5, <2>2, <3>1, OthersWait DEF Known
    <3>3. payment = "failed" /\ order = "cancelled"
      BY <3>2, SavedAfterFailure DEF Known, Typed, AwaitsOfRequests, Calm, OrderSeenToItsEnd
    <3>4. QED
      BY <3>3, CancelledAfterFailure
  <2>3. QED
    BY <2>1, <2>2
<1>6. QED
  BY <1>2, <1>3, <1>4, <1>5 DEF OrderSeenToItsEnd

(* Calm holds as long as no call may fail and nobody confirms by hand.     *)
LEMMA CalmAlways ==
    ASSUME TimerOutlastsStep, MaxFaults = 0, NobodyConfirms
    PROVE  Safety => []Calm
<1>1. Init => Calm
  <2>1. ~Contains(<<>>, "order_confirmation")
    BY EmptySeq DEF Contains
  <2>2. QED
    BY <2>1, RequestAssumption, RequestsApart
    DEF Init, Calm, PaymentFollowsTimer, SagaUntroubled, Troubled, OrderSeenToItsEnd,
        EarlyAwaits, FirstAwait, NoSaga, Task, SagaTask
<1>2. Known /\ Calm /\ [Next]_vars => Calm'
  <2> SUFFICES ASSUME Known, Calm, [Next]_vars PROVE Calm'
    OBVIOUS
  <2>1. CASE UNCHANGED vars
    BY <2>1 DEF vars, Calm, PaymentFollowsTimer, SagaUntroubled, Troubled, OrderSeenToItsEnd
  <2>2. ASSUME NEW t \in Task, TaskStep(t) PROVE Calm'
    <3>1. faults' = 0
      BY <2>2
      DEF Calm, TaskStep, Passes, StartSaga, Load, Mark, Pay, Push, Reload, Fail, Compensate,
          MarkCompensated, MarkFinalFailure, CompleteFind, CompleteSave, FindOrder,
          SaveOrder, SettlePayment, SavePayment, FindSaga, SaveSaga, Scan, FindPayment
    <3>2. QED
      BY <2>2, <3>1, CalmPayment, CalmRow, CalmSeen DEF Calm
  <2>3. QED
    BY <2>1, <2>2 DEF Next, CallFails, SaveLost, NodeDown, Calm
<1>3. QED
  BY <1>1, <1>2, TypedAlways, MoneyAlways, ExcusedAlways, TurnsAlways, CopiesAlways,
     StatusAlways, CompletedLastAlways, PTL
  DEF Safety, Known

(* While no call fails and nobody confirms by hand, every step of the      *)
(* program, seen through the statuses of the three rows, is one of the     *)
(* diagram in README.md, for any number of cancellations and clean-ups, as *)
(* long as the timer outlasts the payment step.                            *)
THEOREM FollowsTheDiagram ==
    ASSUME TimerOutlastsStep, MaxFaults = 0, NobodyConfirms
    PROVE  Spec => ImplementsOrderFlow
<1>1. Init => Flow!Init
  BY DEF Init, Flow!Init, NoSaga
<1>2. Known /\ Calm /\ [Next]_vars => [Flow!Next]_<<order, payment, saga.status>>
  <2> SUFFICES ASSUME Known, Calm, [Next]_vars
               PROVE  [Flow!Next]_<<order, payment, saga.status>>
    OBVIOUS
  <2>1. CASE UNCHANGED vars
    BY <2>1 DEF vars
  <2>2. QED
    BY <2>1, FlowStep DEF Next, CallFails, SaveLost, NodeDown, Calm
<1>3. QED
  BY <1>1, <1>2, TypedAlways, MoneyAlways, ExcusedAlways, TurnsAlways, CopiesAlways,
     StatusAlways, CompletedLastAlways, CalmAlways, PTL
  DEF Spec, Safety, Known, ImplementsOrderFlow, Flow!Spec, Flow!flowVars

-----------------------------------------------------------------------------
(* Nothing is tried again.  The places of the awaits, read off once.       *)
LEMMA Places ==
    ASSUME NEW t
    PROVE  /\ Place(t, "idle") = 0 /\ Place(t, "publish") = 1 /\ Place(t, "scan") = 1
           /\ Place(t, "delay") = 1 /\ Place(t, "store") = 2 /\ Place(t, "findPayment") = 2
           /\ Place(t, "savePaid") = 2 /\ Place(t, "saveDeclined") = 2 /\ Place(t, "emit") = 3
           /\ Place(t, "saveBroken") = 3 /\ Place(t, "start") = 4 /\ Place(t, "lock") = 6
           /\ Place(t, "findSaga") = IF t \in Request THEN 11 ELSE 5
           /\ Place(t, "load") = 7 /\ Place(t, "mark") = 8 /\ Place(t, "pay") = 9
           /\ Place(t, "findOrder") = 9 /\ Place(t, "saveOrder") = 10 /\ Place(t, "push") = 12
           /\ Place(t, "saveSaga") = 12 /\ Place(t, "reload") = 13 /\ Place(t, "fail") = 14
           /\ Place(t, "tellFailed") = 15 /\ Place(t, "compensate") = 16
           /\ Place(t, "markCompensated") = 17 /\ Place(t, "tellCompensated") = 18
           /\ Place(t, "final") = 18 /\ Place(t, "tellFinal") = 19
           /\ Place(t, "completeFind") = 20 /\ Place(t, "completeSave") = 21
           /\ Place(t, "end") = 22 /\ Place(t, "dead") = 22
  BY DEF Place

Further(t, next) == Place(t, next) > Place(t, pc[t])

Moves == /\ \A t \in Task : pc'[t] = pc[t] \/ Further(t, pc'[t])
         /\ \E t \in Task : Further(t, pc'[t])

(* One task goes on and the others wait.                                   *)
LEMMA OneMoves ==
    ASSUME Typed, NEW t \in Task, NEW next, pc' = [pc EXCEPT ![t] = next], Further(t, next)
    PROVE  Moves /\ Further(t, pc'[t])
  BY DEF Typed, TypeOK, Moves, Further

(* Where the call returns to is further on, for every task.                *)
LEMMA ReturnsFurther ==
    ASSUME Typed, NEW t \in Task
    PROVE  /\ pc[t] \in {"load", "push"} \cup FailurePath => Further(t, AfterStep(t))
           /\ pc[t] \in {"findOrder", "saveOrder"} => Further(t, AfterCommand(t))
<1>1. AfterStep(t) \in {"completeFind", "end"}
  BY DEF AfterStep
<1>2. \/ AfterCommand(t) \in {"push", "saveSaga", "end"}
      \/ AfterCommand(t) = "findSaga" /\ t \in Request
  BY DEF AfterCommand, Kind, Task, SagaTask
<1>3. QED
  BY <1>1, <1>2, Places DEF Further, FailurePath

LEMMA StepMoves ==
    ASSUME Typed, Money, FailureIsExcused, NEW t \in Task, TaskStep(t)
    PROVE  Moves /\ Further(t, pc'[t])
<1> USE DEF Further, Goto
<1>0. /\ pc \in [Task -> PC]
      /\ {"orderCreated", "paymentTimer", "paymentProcessed", "paymentFailed"} \subseteq Task
      /\ {"orderCreated", "paymentTimer", "paymentProcessed", "paymentFailed"} \cap Request = {}
  BY RequestAssumption DEF Typed, TypeOK, Task, SagaTask
<1>1. CASE Passes(t)
  <2> DEFINE next == CASE pc[t] = "publish"    -> "store"
                       [] pc[t] = "store"      -> "emit"
                       [] pc[t] = "emit"       -> "start"
                       [] pc[t] = "lock"       -> "load"
                       [] pc[t] = "tellFailed" -> "compensate"
                       [] OTHER                -> AfterStep(t)
  <2>1. Further(t, next)
    BY <1>1, Places, ReturnsFurther DEF Passes, FailurePath
  <2>2. pc' = [pc EXCEPT ![t] = next]
    BY <1>1 DEF Passes
  <2> HIDE DEF next
  <2>3. QED
    BY <2>1, <2>2, OneMoves
<1>2. CASE StartSaga(t) \/ Mark(t)
  BY <1>2, Places, OneMoves DEF StartSaga, Mark
<1>3. CASE Load(t) \/ Push(t) \/ Reload(t)
  BY <1>3, Places, ReturnsFurther, OneMoves DEF Load, Push, Reload, FailurePath
<1>4. CASE Fail(t) \/ Compensate(t) \/ MarkCompensated(t) \/ MarkFinalFailure(t)
  <2>1. \/ pc[t] = "fail" /\ pc' = [pc EXCEPT ![t] = "tellFailed"]
        \/ pc[t] = "compensate" /\ pc' = [pc EXCEPT ![t] = "markCompensated"]
        \/ pc[t] = "markCompensated" /\ pc' = [pc EXCEPT ![t] = "tellCompensated"]
        \/ pc[t] = "final" /\ pc' = [pc EXCEPT ![t] = "tellFinal"]
    BY <1>4 DEF Fail, Compensate, MarkCompensated, MarkFinalFailure
  <2>2. QED
    BY <2>1, Places, OneMoves
<1>5. CASE CompleteFind(t) \/ CompleteSave(t)
  BY <1>5, Places, OneMoves DEF CompleteFind, CompleteSave
<1>6. CASE FindOrder(t) \/ SaveOrder(t)
  BY <1>6, Places, ReturnsFurther, OneMoves DEF FindOrder, SaveOrder
<1>7. CASE SettlePayment(t) \/ SaveSaga(t) \/ Scan(t) \/ FindPayment(t)
  BY <1>7, Places, OneMoves DEF SettlePayment, SaveSaga, Scan, FindPayment
<1>8. CASE FindSaga(t)
  BY <1>0, <1>8, FoundSaga, Places, OneMoves
<1>9. CASE Pay(t)
  <2>1. t = "orderCreated" /\ pc["paymentTimer"] = "idle"
    BY <1>9, WhoPays DEF Pay, Money, TimerFollowsPay
  <2>2. QED
    BY <1>0, <1>9, <2>1, Places DEF Pay, Moves
<1>10. CASE SavePayment(t)
  <2>1. t = "paymentTimer" /\ pc[t] \in {"savePaid", "saveDeclined", "saveBroken"}
    BY <1>10, WhoPays DEF SavePayment
  <2>2. pc["paymentProcessed"] = "idle" /\ pc["paymentFailed"] = "idle"
    BY <2>1 DEF Money, ChargedFirst, FailureIsExcused, Processed, Settled, Over
  <2>3. HandlerOf(VerdictSavedBy(t)) \in {"paymentProcessed", "paymentFailed"}
    BY DEF HandlerOf
  <2>4. QED
    BY <1>0, <1>10, <2>1, <2>2, <2>3, Places DEF SavePayment, Moves
<1>11. QED
  BY <1>1, <1>2, <1>3, <1>4, <1>5, <1>6, <1>7, <1>8, <1>9, <1>10 DEF TaskStep

LEMMA FailureMoves ==
    ASSUME Typed, NEW t \in Task, CallFails(t) \/ SaveLost(t)
    PROVE  Moves /\ Further(t, pc'[t])
<1>1. pc' = [pc EXCEPT ![t] = CaughtAt(t)]
  BY DEF CallFails, SaveLost, Goto
<1>2. pc[t] \in {"store", "emit", "start", "lock", "load", "mark", "pay", "findOrder", "saveOrder",
                 "push", "reload", "fail", "tellFailed", "compensate", "markCompensated",
                 "tellCompensated", "final", "tellFinal", "completeFind", "completeSave",
                 "findSaga", "saveSaga", "scan", "findPayment", "savePaid", "saveDeclined"}
  BY DEF CallFails, SaveLost, AwaitsOn
<1>3. Further(t, AfterStep(t)) \/ pc[t] # "final"
  BY ReturnsFurther DEF FailurePath
<1>4. Further(t, CaughtAt(t))
  <2>1. CASE pc[t] \in {"lock", "load", "mark", "pay", "push"}
    BY <2>1, Places DEF CaughtAt, Further
  <2>2. CASE pc[t] \in {"findOrder", "saveOrder", "saveSaga"}
    BY <2>2, Places DEF CaughtAt, Further
  <2>3. CASE pc[t] \in {"compensate", "markCompensated", "savePaid", "saveDeclined"}
    BY <2>3, Places DEF CaughtAt, Further
  <2>4. CASE pc[t] = "final"
    BY <1>3, <2>4 DEF CaughtAt
  <2>5. CASE pc[t] \in {"store", "emit", "start", "reload", "fail", "tellFailed", "tellCompensated",
                        "tellFinal", "completeFind", "completeSave", "findSaga", "scan",
                        "findPayment"}
    BY <2>5, Places DEF CaughtAt, Further
  <2>6. QED
    BY <1>2, <2>1, <2>2, <2>3, <2>4, <2>5
<1>5. QED
  BY <1>1, <1>4, OneMoves

LEMMA NodeDownMoves == ASSUME Typed, NodeDown PROVE Moves
<1>1. /\ pc' = [t \in Task |-> IF t \in SagaTask /\ pc[t] \notin {"idle", "end"}
                               THEN "dead" ELSE pc[t]]
      /\ \E t \in SagaTask : pc[t] \notin {"idle", "end", "dead"}
  BY DEF NodeDown
<1>2. \A t \in SagaTask : pc[t] \in PC /\ (pc[t] \notin {"end", "dead"} => Further(t, "dead"))
  <2>1. TAKE t \in SagaTask
  <2>2. pc[t] \in PC
    BY DEF Typed, TypeOK, Task
  <2>3. QED
    BY <2>2, Places DEF PC, Further
<1>3. QED
  BY <1>1, <1>2 DEF Moves, Task

(* Every step, failing or not, brings a task forward and none back, for    *)
(* any failures and any number of them: no handler retries a call, so a    *)
(* saga with finitely many requests takes finitely many steps.             *)
THEOREM NothingIsRetried == Spec => OnlyForward
<1>1. ASSUME Typed, Money, FailureIsExcused, [Next]_vars
      PROVE  [Moves]_vars
  BY <1>1, StepMoves, FailureMoves, NodeDownMoves DEF Next
<1>2. [Moves]_vars
        => [/\ \A t \in Task : pc'[t] = pc[t] \/ Place(t, pc'[t]) > Place(t, pc[t])
            /\ \E t \in Task : Place(t, pc'[t]) > Place(t, pc[t])]_vars
  BY DEF Moves, Further
<1>3. QED
  BY <1>1, <1>2, TypedAlways, MoneyAlways, ExcusedAlways, PTL DEF Spec, Safety, OnlyForward

-----------------------------------------------------------------------------
(* A cancelled order.  Only a confirmation pays it, and a confirmation     *)
(* that finds it cancelled saves nothing.                                  *)
LEMMA OffStays ==
    ASSUME Typed, Off, NEW t \in Task, TaskStep(t) \/ CallFails(t) \/ SaveLost(t) PROVE Off'
<1>0. pc \in [Task -> PC]
  BY DEF Typed, TypeOK
<1>1. order' = "cancelled"
  <2>1. order' = order \/ (pc[t] = "saveOrder" /\ order' = StatusSavedBy(t))
    BY DEF TaskStep, Passes, StartSaga, Load, Mark, Pay, Push, Reload, Fail, Compensate,
           MarkCompensated, MarkFinalFailure, CompleteFind, CompleteSave, FindOrder,
           SaveOrder, SettlePayment, SavePayment, FindSaga, SaveSaga, Scan, FindPayment,
           CallFails, SaveLost
  <2>2. QED
    BY <2>1 DEF Off, StatusSavedBy
<1>2. ASSUME NEW u \in Task, Confirms(u) PROVE pc'[u] # "saveOrder"
  <2>0. pc[u] # "saveOrder"
    BY <1>2 DEF Off
  <2>1. CASE u # t
    BY <2>0, <2>1, OthersStay
  <2>2. CASE u = t /\ TaskStep(t)
    <3>1. CASE FindOrder(t)
      BY <1>0, <1>2, <2>2, <3>1 DEF FindOrder, Goto, AfterCommand, Off
    <3>2. CASE Load(t) \/ Mark(t) \/ Pay(t) \/ SaveOrder(t) \/ Scan(t) \/ FindPayment(t)
      BY <1>0, <2>0, <2>2, <3>2
      DEF Load, Mark, Pay, SaveOrder, Scan, FindPayment, Goto, AfterStep
    <3>3. CASE FindSaga(t)
      BY <1>0, <2>2, <3>3, FoundSaga
    <3>4. QED
      BY <2>2, <3>1, <3>2, <3>3, Entering
  <2>3. CASE u = t /\ (CallFails(t) \/ SaveLost(t))
    BY <1>0, <2>3 DEF CallFails, SaveLost, Goto, CaughtAt, AfterStep
  <2>4. QED
    BY <2>1, <2>2, <2>3
<1>3. QED
  BY <1>1, <1>2 DEF Off

(* A cancelled order is cancelled for good unless a confirmation had read  *)
(* it before and is about to save it, whatever fails.                      *)
THEOREM CancellationIsFinal == Spec => CancelledForGood
<1>1. ASSUME Typed, [Next]_vars, Off PROVE Off'
  <2>1. CASE UNCHANGED vars
    BY <1>1, <2>1 DEF vars, Off
  <2>2. CASE NodeDown
    BY <1>1, <2>2 DEF NodeDown, Off
  <2>3. QED
    BY <1>1, <2>1, <2>2, OffStays DEF Next
<1>2. QED
  BY <1>1, TypedAlways, PTL DEF Spec, Safety, CancelledForGood

-----------------------------------------------------------------------------
(* The entries of a compensation stay in the memory of the task that       *)
(* compensated: it does not save its entity again.                         *)
Untouched(row) == \A step \in Step : ~Contains(row.compensationSteps, UndoOf(step))

Compensated == {"markCompensated", "tellCompensated", "final", "tellFinal", "completeFind"} \cup Over

UndoInMemory ==
    /\ Untouched(saga)
    /\ \A t \in Task : pc[t] \notin Compensated => Untouched(mem[t])

LEMMA UntouchedRows ==
    /\ Untouched(NoSaga) /\ Untouched(NewSaga)
    /\ \A a, b : Untouched(a) /\ a.compensationSteps = b.compensationSteps => Untouched(b)
    /\ \A t \in Task : Untouched(mem[t]) /\ mem[t] \in SagaRow => Untouched(CompensatedBy(t))
<1>1. Untouched(NoSaga) /\ Untouched(NewSaga)
  BY EmptySeq DEF Untouched, NoSaga, NewSaga, Contains
<1>2. \A a, b : Untouched(a) /\ a.compensationSteps = b.compensationSteps => Untouched(b)
  BY DEF Untouched
<1>3. ASSUME NEW t \in Task, Untouched(mem[t]), mem[t] \in SagaRow
      PROVE  Untouched(CompensatedBy(t))
  <2>1. PICK e \in {"order_cancelled", "order_cancelled_cleanup"} :
            CompensatedBy(t).compensationSteps = Append(mem[t].compensationSteps, e)
    BY <1>3 DEF CompensatedBy, SagaRow
  <2>2. mem[t].compensationSteps \in Seq(Undo) /\ e \in Undo
    BY <1>3 DEF Undo, SagaRow
  <2>3. /\ Len(Append(mem[t].compensationSteps, e)) = Len(mem[t].compensationSteps) + 1
        /\ \A i \in 1 .. Len(mem[t].compensationSteps) :
              Append(mem[t].compensationSteps, e)[i] = mem[t].compensationSteps[i]
        /\ Append(mem[t].compensationSteps, e)[Len(mem[t].compensationSteps) + 1] = e
    BY <2>2, AppendProperties
  <2>4. \A x : Contains(Append(mem[t].compensationSteps, e), x)
                  => Contains(mem[t].compensationSteps, x) \/ x = e
    BY <2>2, <2>3, LenProperties DEF Contains
  <2>5. \A step \in Step : UndoOf(step) # e
    BY DEF UndoOf
  <2>6. QED
    BY <1>3, <2>1, <2>4, <2>5 DEF Untouched
<1>4. QED
  BY <1>1, <1>2, <1>3

(* What a step writes, to the row and to its own entity.                   *)
LEMMA UndoSaved ==
    ASSUME Typed, UndoInMemory, NEW t \in Task, TaskStep(t) \/ CallFails(t) \/ SaveLost(t)
    PROVE  Untouched(saga')
<1>0. mem \in [Task -> SagaRow] /\ saga \in SagaRow
  BY DEF Typed, TypeOK
<1>1. \/ saga' = saga \/ saga' = NewSaga
      \/ pc[t] \in {"mark", "completeSave"} /\ saga' = mem[t]
      \/ pc[t] = "push" /\ saga' = Recorded(t)
      \/ pc[t] = "saveSaga" /\ saga' = CompensatedBy(t)
      \/ saga' = [saga EXCEPT !.status = "compensating", !.currentStep = StepOf(t)]
      \/ saga' = [saga EXCEPT !.status = "compensated"]
      \/ saga' = [saga EXCEPT !.status = "failed"]
  BY <1>0
  DEF TaskStep, Passes, StartSaga, Load, Mark, Pay, Push, Reload, Fail, Compensate,
      MarkCompensated, MarkFinalFailure, CompleteFind, CompleteSave, FindOrder,
      SaveOrder, SettlePayment, SavePayment, FindSaga, SaveSaga, Scan, FindPayment,
      CallFails, SaveLost
<1>2. pc[t] \in {"mark", "completeSave", "push", "saveSaga"} => Untouched(mem[t])
  BY DEF UndoInMemory, Compensated, Over
<1>3. Recorded(t).compensationSteps = mem[t].compensationSteps
  BY <1>0 DEF Recorded, SagaRow
<1>4. /\ [saga EXCEPT !.status = "compensating", !.currentStep = StepOf(t)].compensationSteps
            = saga.compensationSteps
      /\ [saga EXCEPT !.status = "compensated"].compensationSteps = saga.compensationSteps
      /\ [saga EXCEPT !.status = "failed"].compensationSteps = saga.compensationSteps
  BY <1>0 DEF SagaRow
<1>5. QED
  BY <1>0, <1>1, <1>2, <1>3, <1>4, UntouchedRows DEF UndoInMemory

LEMMA UndoHeld ==
    ASSUME Typed, UndoInMemory, NEW t \in Task, TaskStep(t), pc'[t] \notin Compensated
    PROVE  Untouched(mem'[t])
<1>0. mem \in [Task -> SagaRow] /\ saga \in SagaRow /\ pc \in [Task -> PC]
  BY DEF Typed, TypeOK
<1>1. \/ mem'[t].compensationSteps \in {saga.compensationSteps, NoSaga.compensationSteps}
      \/ mem'[t].compensationSteps = mem[t].compensationSteps /\ pc[t] \notin Compensated
  <2>1. CASE Compensate(t)
    BY <1>0, <2>1 DEF Compensate, Goto, Compensated
  <2>2. CASE Load(t)
    <3>1. \/ mem' = mem
          \/ mem' = [mem EXCEPT ![t] = [saga EXCEPT !.currentStep = StepOf(t)]]
      BY <2>2, Zenon DEF Load
    <3>2. [saga EXCEPT !.currentStep = StepOf(t)].compensationSteps = saga.compensationSteps
      BY <1>0 DEF SagaRow
    <3>3. QED
      BY <1>0, <2>2, <3>1, <3>2 DEF Load, Compensated, Over
  <2>3. CASE CompleteFind(t)
    <3> DEFINE done == [saga EXCEPT !.status = "completed", !.currentStep = "completed"]
    <3>1. pc' = [pc EXCEPT ![t] = "end"] \/ mem' = [mem EXCEPT ![t] = done]
      BY <2>3, Zenon DEF CompleteFind, Goto
    <3>2. done.compensationSteps = saga.compensationSteps
      BY <1>0 DEF SagaRow
    <3>3. QED
      BY <1>0, <3>1, <3>2 DEF Compensated, Over
  <2>4. CASE FindSaga(t)
    BY <1>0, <2>4, FoundSaga
  <2>5. CASE Push(t)
    BY <1>0, <2>5 DEF Push, Recorded, SagaRow, Compensated, Over
  <2>6. CASE Fail(t)
    BY <1>0, <2>6 DEF Fail, SagaRow
  <2>7. CASE Passes(t)
    BY <1>0, <2>7 DEF Passes, Goto, AfterStep, Compensated, Over
  <2>8. CASE \/ StartSaga(t) \/ Mark(t) \/ Pay(t) \/ Reload(t) \/ MarkCompensated(t)
             \/ MarkFinalFailure(t) \/ CompleteSave(t) \/ FindOrder(t) \/ SaveOrder(t)
             \/ SettlePayment(t) \/ SavePayment(t) \/ SaveSaga(t) \/ Scan(t) \/ FindPayment(t)
    BY <1>0, <2>8
    DEF StartSaga, Mark, Pay, Reload, MarkCompensated, MarkFinalFailure, CompleteSave,
        FindOrder, SaveOrder, SettlePayment, SavePayment, SaveSaga, Scan, FindPayment, Goto,
        Compensated, Over
  <2>9. QED
    BY <2>1, <2>2, <2>3, <2>4, <2>5, <2>6, <2>7, <2>8 DEF TaskStep
<1>2. QED
  BY <1>1, UntouchedRows DEF UndoInMemory

LEMMA UndoAlways == Safety => []UndoInMemory
<1>1. Init => UndoInMemory
  BY UntouchedRows DEF Init, UndoInMemory
<1>2. Typed /\ Money /\ FailureIsExcused /\ UndoInMemory /\ [Next]_vars => UndoInMemory'
  <2> SUFFICES ASSUME Typed, Money, FailureIsExcused, UndoInMemory, [Next]_vars
               PROVE  UndoInMemory'
    OBVIOUS
  <2>0. mem \in [Task -> SagaRow] /\ pc \in [Task -> PC]
    BY DEF Typed, TypeOK
  <2>1. CASE UNCHANGED vars
    BY <2>1 DEF vars, UndoInMemory, Untouched
  <2>2. CASE NodeDown
    <3>1. UNCHANGED <<saga, mem>> /\ \A u \in Task : pc'[u] \in {pc[u], "dead"}
      BY <2>2 DEF NodeDown
    <3>2. QED
      BY <3>1 DEF UndoInMemory, Untouched, Compensated, Over
  <2>3. ASSUME NEW t \in Task, CallFails(t) \/ SaveLost(t) PROVE UndoInMemory'
    <3>1. mem' = mem /\ pc' = [pc EXCEPT ![t] = CaughtAt(t)]
      BY <2>3 DEF CallFails, SaveLost, Goto
    <3>2. pc[t] \in Compensated => CaughtAt(t) \in Compensated
      BY DEF CaughtAt, Compensated, Over, AfterStep
    <3>3. \A u \in Task : pc'[u] \notin Compensated => Untouched(mem'[u])
      BY <2>0, <3>1, <3>2 DEF UndoInMemory
    <3>4. QED
      BY <2>3, <3>3, UndoSaved DEF UndoInMemory, Untouched
  <2>4. ASSUME NEW t \in Task, TaskStep(t) PROVE UndoInMemory'
    <3>1. ASSUME NEW u \in Task, u # t, pc'[u] \notin Compensated PROVE Untouched(mem'[u])
      <4>1. mem'[u] = mem[u]
        BY <2>4, <3>1, OthersStay
      <4>2. CASE pc[u] \notin Compensated
        BY <4>1, <4>2 DEF UndoInMemory
      <4>3. CASE pc[u] \in Compensated
        <5>1. pc'[u] = "delay" \/ pc'[u] = "findSaga"
          BY <2>4, <3>1, <4>3, OthersStay
        <5>2. Further(u, pc'[u])
          BY <2>4, <4>3, <5>1, StepMoves DEF Moves, Compensated, Over
        <5>3. QED
          BY <4>3, <5>1, <5>2, Places DEF Further, Compensated, Over
      <4>4. QED
        BY <4>2, <4>3
    <3>2. QED
      BY <2>4, <3>1, UndoSaved, UndoHeld DEF UndoInMemory, Untouched
  <2>5. QED
    BY <2>1, <2>2, <2>3, <2>4 DEF Next
<1>3. QED
  BY <1>1, <1>2, TypedAlways, MoneyAlways, ExcusedAlways, PTL DEF Safety

(* What startCompensation undid is never recorded in the row: the entries  *)
(* stay in memory, whatever fails.                                         *)
THEOREM UndoIsForgotten == Spec => []UndoNeverStored
<1>1. UndoInMemory => UndoNeverStored
  BY DEF UndoInMemory, Untouched, UndoNeverStored
<1>2. QED
  BY <1>1, UndoAlways, PTL DEF Spec

-----------------------------------------------------------------------------
(* The claim of order-processing.saga.ts:108 while no call has failed: the *)
(* payment handler reaches completeSaga only past its recorded step.       *)
ConfirmedOnTime ==
    faults = 0 =>
        /\ pc["paymentProcessed"] \in {"completeFind", "completeSave"}
              => Contains(saga.completedSteps, "order_confirmation")
        /\ CompletedMeansConfirmed

LEMMA HandlerConfirmed ==
    ASSUME Typed, FailureIsExcused, CopiesCurrent, ConfirmedOnTime, faults = 0,
           TaskStep("paymentProcessed"),
           pc'["paymentProcessed"] \in {"completeFind", "completeSave"}
    PROVE  Contains(saga'.completedSteps, "order_confirmation")
<1> DEFINE t == "paymentProcessed"
<1>0. /\ pc \in [Task -> PC] /\ t \in Task /\ AfterStep(t) = "completeFind"
      /\ StepOf(t) = "order_confirmation" /\ pc[t] \notin FailurePath
      /\ AfterCommand(t) = "push" /\ saga.completedSteps \in Seq(Step)
      /\ "order_confirmation" \in Step
  BY DEF Typed, TypeOK, Task, SagaTask, AfterStep, StepOf, AfterCommand, Kind,
         FailureIsExcused, SagaRow, Step
<1>1. CASE Load(t)
  BY <1>0, <1>1 DEF Load, Goto
<1>2. CASE Push(t)
  <2>1. mem[t].completedSteps = saga.completedSteps /\ mem[t] \in SagaRow
    BY <1>0, <1>2 DEF Push, CopiesCurrent, Holds, Typed, TypeOK
  <2>2. saga'.completedSteps = Append(saga.completedSteps, "order_confirmation")
    BY <1>0, <1>2, <2>1 DEF Push, Recorded, SagaRow
  <2>3. QED
    BY <1>0, <2>2, RecordedType
<1>3. CASE CompleteFind(t)
  BY <1>3 DEF CompleteFind, ConfirmedOnTime
<1>4. CASE CompleteSave(t)
  BY <1>0, <1>4 DEF CompleteSave, Goto
<1>5. CASE Passes(t)
  BY <1>0, <1>5 DEF Passes, Goto, FailurePath, Typed, AwaitsOfSaga, StepPath, Over
<1>6. CASE FindSaga(t)
  BY <1>0, <1>6, FoundSaga
<1>7. CASE \/ Fail(t) \/ Compensate(t) \/ MarkCompensated(t) \/ MarkFinalFailure(t) \/ Reload(t)
           \/ Pay(t) \/ SavePayment(t)
  BY <1>0, <1>7, WhoPays
  DEF Fail, Compensate, MarkCompensated, MarkFinalFailure, Reload, FailurePath, Pay, SavePayment
<1>8. CASE \/ StartSaga(t) \/ Mark(t) \/ FindOrder(t) \/ SaveOrder(t) \/ SettlePayment(t)
           \/ SaveSaga(t) \/ Scan(t) \/ FindPayment(t)
  BY <1>0, <1>8
  DEF StartSaga, Mark, FindOrder, SaveOrder, SettlePayment, SaveSaga, Scan, FindPayment, Goto
<1>9. QED
  BY <1>1, <1>2, <1>3, <1>4, <1>5, <1>6, <1>7, <1>8 DEF TaskStep

LEMMA ConfirmedAlways == ASSUME TimerOutlastsStep PROVE Safety => []ConfirmedOnTime
<1>1. Init => ConfirmedOnTime
  BY RequestAssumption DEF Init, ConfirmedOnTime, CompletedMeansConfirmed, NoSaga, Task, SagaTask
<1>2. (/\ Typed /\ Money /\ FailureIsExcused /\ Turns /\ CompletedLast /\ CopiesCurrent
       /\ ConfirmedOnTime /\ [Next]_vars)
         => ConfirmedOnTime'
  <2> SUFFICES ASSUME Typed, Money, FailureIsExcused, Turns, CompletedLast, CopiesCurrent,
                      ConfirmedOnTime, [Next]_vars
               PROVE  ConfirmedOnTime'
    OBVIOUS
  <2>0. "order_confirmation" \in Step /\ faults \in Nat /\ "paymentProcessed" \in Task
    BY DEF Step, Typed, TypeOK, Task, SagaTask
  <2>1. CASE UNCHANGED vars
    BY <2>1 DEF vars, ConfirmedOnTime, CompletedMeansConfirmed
  <2>2. CASE NodeDown
    BY <2>0, <2>2 DEF NodeDown, ConfirmedOnTime
  <2>3. ASSUME NEW t \in Task, CallFails(t) \/ SaveLost(t) PROVE ConfirmedOnTime'
    BY <2>0, <2>3 DEF CallFails, SaveLost, ConfirmedOnTime
  <2>4. ASSUME NEW t \in Task, TaskStep(t) PROVE ConfirmedOnTime'
    <3> SUFFICES ASSUME faults' = 0
                 PROVE  /\ pc'["paymentProcessed"] \in {"completeFind", "completeSave"}
                              => Contains(saga'.completedSteps, "order_confirmation")
                        /\ CompletedMeansConfirmed'
      BY DEF ConfirmedOnTime
    <3>1. faults = 0
      BY <2>4
      DEF TaskStep, Passes, StartSaga, Load, Mark, Pay, Push, Reload, Fail, Compensate,
          MarkCompensated, MarkFinalFailure, CompleteFind, CompleteSave, FindOrder,
          SaveOrder, SettlePayment, SavePayment, FindSaga, SaveSaga, Scan, FindPayment
    <3>2. Contains(saga.completedSteps, "order_confirmation")
             => Contains(saga'.completedSteps, "order_confirmation")
      BY <2>0, RecordedStays
    <3>3. pc'["paymentProcessed"] \in {"completeFind", "completeSave"}
             => Contains(saga'.completedSteps, "order_confirmation")
      <4>1. CASE t = "paymentProcessed"
        BY <2>4, <3>1, <4>1, HandlerConfirmed
      <4>2. CASE t # "paymentProcessed"
        BY <2>0, <2>4, <3>1, <3>2, <4>2, OthersStay DEF ConfirmedOnTime
      <4>3. QED
        BY <4>1, <4>2
    <3>4. CompletedMeansConfirmed'
      <4>1. CASE saga' = saga
        BY <3>1, <4>1 DEF ConfirmedOnTime, CompletedMeansConfirmed
      <4>2. CASE saga' # saga /\ saga'.status = "completed"
        <5>1. pc["paymentProcessed"] = "completeSave"
          BY <2>4, <4>2, CompletingSave
        <5>2. QED
          BY <3>1, <3>2, <5>1 DEF ConfirmedOnTime, CompletedMeansConfirmed
      <4>3. QED
        BY <4>1, <4>2 DEF CompletedMeansConfirmed
    <3>5. QED
      BY <3>3, <3>4
  <2>5. QED
    BY <2>1, <2>2, <2>3, <2>4 DEF Next
<1>3. QED
  BY <1>1, <1>2, TypedAlways, MoneyAlways, ExcusedAlways, TurnsAlways, CompletedLastAlways,
     CopiesAlways, PTL
  DEF Safety

(* A saga that says COMPLETED has its confirmation step unless a call has  *)
(* failed, as long as the timer outlasts the payment step.                 *)
THEOREM ConfirmedOrFailed == ASSUME TimerOutlastsStep PROVE Spec => []ConfirmedUnlessFailed
<1>1. ConfirmedOnTime => ConfirmedUnlessFailed
  BY DEF ConfirmedOnTime, ConfirmedUnlessFailed
<1>2. QED
  BY <1>1, ConfirmedAlways, PTL DEF Spec

-----------------------------------------------------------------------------
(* Where a saga comes to rest while no call fails and nobody confirms by   *)
(* hand.  The step of the payment leaves a timer behind, the timer leaves  *)
(* a handler, and each handler leaves the rows in agreement.               *)
HandedOn ==
    /\ \A t \in Task : pc[t] # "dead"
    /\ pc["orderCreated"] \in {"push", "end"} => pc["paymentTimer"] # "idle"
    /\ Contains(saga.completedSteps, "payment_processing") => pc["paymentTimer"] # "idle"
    /\ pc["paymentTimer"] = "end" => Processed \/ pc["paymentFailed"] # "idle"

LeftInAgreement ==
    /\ pc["paymentProcessed"] = "end" => saga.status = "completed" /\ order # "pending"
    /\ pc["paymentFailed"] = "end" => saga.status = "compensated" /\ order = "cancelled"

(* Tasks that are woken up were idle.                                      *)
LEMMA WokenUp ==
    ASSUME Typed, Money, FailureIsExcused, NEW t \in Task, TaskStep(t), NEW u \in Task, u # t,
           pc'[u] \in {"push", "end", "dead"}
    PROVE  pc'[u] = pc[u]
  BY OthersStay

(* What the payment step leaves.                                           *)
LEMMA PaymentStepHands ==
    ASSUME Known, Calm, HandedOn, TaskStep("orderCreated"),
           pc'["orderCreated"] \in {"push", "end"}
    PROVE  pc'["paymentTimer"] # "idle"
<1> DEFINE t == "orderCreated"
<1>0. /\ pc \in [Task -> PC] /\ t \in Task /\ "paymentTimer" \in Task /\ t # "paymentTimer"
      /\ AfterStep(t) = "end" /\ StepOf(t) = "payment_processing" /\ pc[t] \notin FailurePath
  BY CalmAwaits DEF Known, Typed, TypeOK, Task, SagaTask, AfterStep, StepOf
<1>1. pc["paymentTimer"] # "idle" => pc'["paymentTimer"] # "idle"
  BY <1>0, NeverIdleAgain DEF Known
<1>2. CASE Load(t)
  BY <1>0, <1>1, <1>2 DEF Load, Goto, HandedOn
<1>3. CASE Push(t)
  BY <1>1, <1>3 DEF Push, HandedOn
<1>4. CASE Pay(t)
  BY <1>0, <1>4 DEF Pay
<1>5. CASE ~Load(t) /\ ~Push(t) /\ ~Pay(t)
  <2>1. pc[t] \in {"publish", "store", "emit", "start", "pay", "lock", "load", "mark", "push"}
    BY <1>0, AwakeSteps DEF Known, Typed, AwaitsOfSaga, StepPath, Over
  <2>2. Passes(t) \/ StartSaga(t) \/ Mark(t)
    BY <1>5, <2>1
    DEF TaskStep, Reload, Fail, Compensate, MarkCompensated, MarkFinalFailure, CompleteFind,
        CompleteSave, FindOrder, SaveOrder, SettlePayment, SavePayment, FindSaga, SaveSaga,
        Scan, FindPayment
  <2>3. QED
    BY <1>0, <2>1, <2>2 DEF Passes, StartSaga, Mark, Goto
<1>6. QED
  BY <1>2, <1>3, <1>4, <1>5

(* What the two handlers leave.                                            *)
LEMMA HandlerLeaves ==
    ASSUME Known, Calm, TaskStep("paymentProcessed"), pc'["paymentProcessed"] = "end"
    PROVE  saga'.status = "completed" /\ order' # "pending"
<1> DEFINE t == "paymentProcessed"
<1>0. /\ pc \in [Task -> PC] /\ t \in Task /\ AfterStep(t) = "completeFind"
      /\ pc[t] \notin FailurePath \cup {"idle"} \cup Over /\ AfterCommand(t) = "push"
  BY CalmAwaits, AwakeSteps
  DEF Known, Typed, TypeOK, Task, SagaTask, AfterStep, AfterCommand, Kind
<1>1. saga.status = "started"
  BY <1>0, StartedUnderWay
<1>2. CASE CompleteSave(t)
  BY <1>2 DEF CompleteSave, Known, StatusKnown, Calm, OrderSeenToItsEnd
<1>3. CASE CompleteFind(t)
  BY <1>0, <1>1, <1>3 DEF CompleteFind, Goto
<1>4. CASE FindSaga(t)
  <2>1. saga # NoSaga
    BY <1>1 DEF NoSaga
  <2>2. PICK found \in {saga, NoSaga} :
            /\ found = saga \/ Kind(t) = "cleanup"
            /\ Goto(t, IF found = NoSaga THEN "end"
                       ELSE CASE t = "paymentProcessed" -> "lock"
                              [] t = "paymentFailed"    -> "findOrder"
                              [] OTHER                  -> "saveSaga")
    BY <1>4 DEF FindSaga
  <2>3. Kind(t) # "cleanup"
    BY DEF Kind, SagaTask
  <2>4. QED
    BY <1>0, <2>1, <2>2, <2>3 DEF Goto
<1>5. CASE ~CompleteSave(t) /\ ~CompleteFind(t) /\ ~FindSaga(t)
  <2>1. pc'[t] # "end"
    BY <1>0, <1>5
    DEF Known, Typed, AwaitsOfSaga, StepPath, FailurePath, Over,
        TaskStep, Passes, StartSaga, Load, Mark, Pay, Push, Reload, Fail, Compensate,
        MarkCompensated, MarkFinalFailure, FindOrder, SaveOrder, SettlePayment, SavePayment,
        SaveSaga, Scan, FindPayment, Goto
  <2>2. QED
    BY <2>1
<1>6. QED
  BY <1>2, <1>3, <1>4, <1>5

LEMMA FailureHandlerLeaves ==
    ASSUME Known, Calm, TaskStep("paymentFailed"), pc'["paymentFailed"] = "end"
    PROVE  saga'.status = "compensated" /\ order' = "cancelled"
<1> DEFINE t == "paymentFailed"
<1>0. /\ pc \in [Task -> PC] /\ t \in Task /\ saga \in SagaRow /\ mem \in [Task -> SagaRow]
      /\ pc[t] \notin FailurePath \cup {"idle"} \cup Over /\ AfterCommand(t) = "saveSaga"
  BY CalmAwaits, AwakeSteps
  DEF Known, Typed, TypeOK, Task, SagaTask, AfterCommand, Kind
<1>1. CASE SaveSaga(t)
  BY <1>0, <1>1 DEF SaveSaga, CompensatedBy, SagaRow, Calm, OrderSeenToItsEnd
<1>2. CASE FindSaga(t)
  <2>1. pc["orderCreated"] \in Over
    BY <1>0 DEF Known, FailureIsExcused, Settled, Turns, Over
  <2>2. saga # NoSaga
    BY <2>1 DEF Calm, SagaUntroubled, EarlyAwaits, Over, NoSaga
  <2>3. PICK found \in {saga, NoSaga} :
            /\ found = saga \/ Kind(t) = "cleanup"
            /\ Goto(t, IF found = NoSaga THEN "end"
                       ELSE CASE t = "paymentProcessed" -> "lock"
                              [] t = "paymentFailed"    -> "findOrder"
                              [] OTHER                  -> "saveSaga")
    BY <1>2 DEF FindSaga
  <2>4. Kind(t) # "cleanup"
    BY DEF Kind, SagaTask
  <2>5. QED
    BY <1>0, <2>2, <2>3, <2>4 DEF Goto
<1>3. CASE ~SaveSaga(t) /\ ~FindSaga(t)
  <2>1. pc'[t] # "end"
    BY <1>0, <1>3
    DEF Known, Typed, AwaitsOfSaga, StepPath, FailurePath, Over,
        TaskStep, Passes, StartSaga, Load, Mark, Pay, Push, Reload, Fail, Compensate,
        MarkCompensated, MarkFinalFailure, CompleteFind, CompleteSave, FindOrder, SaveOrder,
        SettlePayment, SavePayment, Scan, FindPayment, Goto
  <2>2. QED
    BY <2>1
<1>4. QED
  BY <1>1, <1>2, <1>3

LEMMA StepHandsOn ==
    ASSUME Known, Calm, HandedOn, NEW t \in Task, TaskStep(t) PROVE HandedOn'
<1>0. /\ pc \in [Task -> PC] /\ saga.completedSteps \in Seq(Step)
      /\ {"orderCreated", "paymentTimer", "paymentProcessed", "paymentFailed"} \subseteq Task
  BY DEF Known, Typed, TypeOK, Task, SagaTask, SagaRow
<1>1. \A u \in Task : pc'[u] = "idle" => pc[u] = "idle"
  BY NeverIdleAgain DEF Known
<1>2. \A u \in Task : pc'[u] # "dead"
  BY <1>0
  DEF HandedOn, TaskStep, Passes, StartSaga, Load, Mark, Pay, Push, Reload, Fail, Compensate,
      MarkCompensated, MarkFinalFailure, CompleteFind, CompleteSave, FindOrder,
      SaveOrder, SettlePayment, SavePayment, FindSaga, SaveSaga, Scan, FindPayment,
      Goto, AfterStep, AfterCommand
<1>3. pc'["orderCreated"] \in {"push", "end"} => pc'["paymentTimer"] # "idle"
  <2>1. CASE t = "orderCreated"
    BY <2>1, PaymentStepHands
  <2>2. CASE t # "orderCreated"
    BY <1>0, <1>1, <2>2, WokenUp DEF Known, HandedOn
  <2>3. QED
    BY <2>1, <2>2
<1>4. Contains(saga'.completedSteps, "payment_processing") => pc'["paymentTimer"] # "idle"
  <2>1. CASE saga'.completedSteps = saga.completedSteps
    BY <1>0, <1>1, <2>1 DEF HandedOn
  <2>2. CASE /\ t \in {"orderCreated", "paymentProcessed"} /\ pc[t] = "push"
             /\ saga'.completedSteps = Append(saga.completedSteps, StepOf(t))
    <3>1. pc["paymentTimer"] # "idle"
      BY <2>2 DEF HandedOn, Known, Money, TimerFollowsPay, Processed
    <3>2. QED
      BY <1>0, <1>1, <3>1
  <2>3. QED
    BY <2>1, <2>2, StepsWritten DEF Known
<1>5. pc'["paymentTimer"] = "end" => Processed' \/ pc'["paymentFailed"] # "idle"
  <2>1. CASE SavePayment(t)
    <3>1. HandlerOf(VerdictSavedBy(t)) \in {"paymentProcessed", "paymentFailed"}
      BY DEF HandlerOf
    <3>2. pc'[HandlerOf(VerdictSavedBy(t))] = "findSaga"
      BY <1>0, <2>1, <3>1, WhoPays DEF SavePayment, Known
    <3>3. QED
      BY <3>1, <3>2 DEF Processed
  <2>2. CASE ~SavePayment(t)
    <3>1. pc'["paymentTimer"] = "end" => pc["paymentTimer"] = "end"
      <4>1. CASE t = "paymentTimer"
        <5>1. SettlePayment(t)
          BY <2>2, <4>1, QuietStep, WhoPays DEF Pay, Known
        <5>2. QED
          BY <1>0, <4>1, <5>1 DEF SettlePayment, Goto
      <4>2. CASE t # "paymentTimer"
        BY <1>0, <4>2, WokenUp DEF Known
      <4>3. QED
        BY <4>1, <4>2
    <3>2. QED
      BY <1>0, <1>1, <3>1 DEF HandedOn, Processed
  <2>3. QED
    BY <2>1, <2>2
<1>6. QED
  BY <1>2, <1>3, <1>4, <1>5 DEF HandedOn

LEMMA AgreementStays ==
    ASSUME Known, Calm, LeftInAgreement, NobodyConfirms, NEW t \in Task, TaskStep(t)
    PROVE  LeftInAgreement'
<1>0. {"paymentProcessed", "paymentFailed"} \subseteq Task
  BY DEF Task, SagaTask
<1>1. pc'["paymentProcessed"] = "end" => saga'.status = "completed" /\ order' # "pending"
  <2>1. CASE t = "paymentProcessed"
    BY <2>1, HandlerLeaves
  <2>2. CASE t # "paymentProcessed" /\ pc'["paymentProcessed"] = "end"
    <3>1. saga.status = "completed" /\ order # "pending"
      BY <1>0, <2>2, WokenUp DEF Known, LeftInAgreement
    <3>2. saga' = saga
      BY <3>1, CompletedIsLeft DEF Known
    <3>3. QED
      BY <3>1, <3>2, CalmOrder
  <2>3. QED
    BY <2>1, <2>2
<1>2. pc'["paymentFailed"] = "end" => saga'.status = "compensated" /\ order' = "cancelled"
  <2>1. CASE t = "paymentFailed"
    BY <2>1, FailureHandlerLeaves
  <2>2. CASE t # "paymentFailed" /\ pc'["paymentFailed"] = "end"
    <3>1. pc["paymentFailed"] = "end" /\ saga.status = "compensated" /\ order = "cancelled"
      BY <1>0, <2>2, WokenUp DEF Known, LeftInAgreement
    <3>2. payment = "failed"
      BY <3>1, SavedAfterFailure
    <3>3. order' = "cancelled"
      BY <3>1, <3>2, CancelledAfterFailure
    <3>4. CompleteSave(t) => FALSE
      BY <3>1, WhoPays DEF CompleteSave, Known, Turns, Processed
    <3>5. QED
      BY <3>1, <3>3, <3>4, CalmSaga
  <2>3. QED
    BY <2>1, <2>2
<1>3. QED
  BY <1>1, <1>2 DEF LeftInAgreement

LEMMA HandedOnAlways ==
    ASSUME TimerOutlastsStep, MaxFaults = 0, NobodyConfirms
    PROVE  Safety => [](HandedOn /\ LeftInAgreement)
<1>1. Init => HandedOn /\ LeftInAgreement
  <2>1. ~Contains(<<>>, "payment_processing")
    BY EmptySeq DEF Contains
  <2>2. QED
    BY <2>1, RequestAssumption
    DEF Init, HandedOn, LeftInAgreement, NoSaga, FirstAwait, Task, SagaTask
<1>2. Known /\ Calm /\ HandedOn /\ LeftInAgreement /\ [Next]_vars
         => (HandedOn /\ LeftInAgreement)'
  <2> SUFFICES ASSUME Known, Calm, HandedOn, LeftInAgreement, [Next]_vars
               PROVE  (HandedOn /\ LeftInAgreement)'
    OBVIOUS
  <2>1. CASE UNCHANGED vars
    BY <2>1 DEF vars, HandedOn, LeftInAgreement, Processed
  <2>2. QED
    BY <2>1, StepHandsOn, AgreementStays DEF Next, CallFails, SaveLost, NodeDown, Calm
<1>3. QED
  BY <1>1, <1>2, TypedAlways, MoneyAlways, ExcusedAlways, TurnsAlways, CopiesAlways,
     StatusAlways, CompletedLastAlways, CalmAlways, PTL
  DEF Safety, Known

(* What a handler leaves is all there is at rest.                          *)
LEMMA AgreedAlways ==
    ASSUME TimerOutlastsStep, MaxFaults = 0, NobodyConfirms
    PROVE  Safety => []AgreedAtRest
<1>1. Known /\ Calm /\ HandedOn /\ LeftInAgreement => AgreedAtRest
  <2> SUFFICES ASSUME Known, Calm, HandedOn, LeftInAgreement, AtRest PROVE Agreed
    BY DEF AgreedAtRest
  <2>1. /\ order \in OrderStatus
        /\ \A t \in SagaTask : pc[t] \in {"idle", "end"}
    BY DEF Known, Typed, TypeOK, AtRest, HandedOn, Task
  <2>2. pc["orderCreated"] = "end"
    BY <2>1 DEF Known, Typed, AwaitsOfSaga, SagaTask, StepPath, FailurePath, Over
  <2>3. pc["paymentTimer"] = "end"
    BY <2>1, <2>2 DEF HandedOn, SagaTask
  <2>4. CASE Processed
    BY <2>1, <2>4
    DEF Processed, SagaTask, LeftInAgreement, Known, Money, ChargedFirst, OrderStatus, Agreed
  <2>5. CASE pc["paymentFailed"] # "idle"
    BY <2>1, <2>5, SavedAfterFailure DEF SagaTask, LeftInAgreement, Agreed
  <2>6. QED
    BY <2>3, <2>4, <2>5 DEF HandedOn
<1>2. QED
  BY <1>1, TypedAlways, MoneyAlways, ExcusedAlways, TurnsAlways, CopiesAlways,
     StatusAlways, CompletedLastAlways, CalmAlways, HandedOnAlways, PTL
  DEF Safety, Known

(* While no call fails and nobody confirms by hand, a saga that has come   *)
(* to rest has come to rest in agreement: paid and completed, or declined, *)
(* cancelled and compensated, for any number of cancellations and          *)
(* clean-ups, as long as the timer outlasts the payment step.              *)
THEOREM RestsInAgreement ==
    ASSUME TimerOutlastsStep, MaxFaults = 0, NobodyConfirms
    PROVE  Spec => []AgreedAtRest
  BY AgreedAlways, PTL DEF Spec

(* Nothing wakes a saga that is at rest: only its own tasks start others,  *)
(* and only they touch the payment.                                        *)
LEMMA RestStays == ASSUME Typed, AtRest, [Next]_vars PROVE AtRest' /\ payment' = payment
<1>0. /\ pc \in [Task -> PC]
      /\ \A t \in SagaTask : t \in Task /\ pc[t] \in {"idle", "end", "dead"}
  BY DEF Typed, TypeOK, AtRest, Task
<1>1. ASSUME NEW t \in SagaTask PROVE ~TaskStep(t) /\ ~CallFails(t) /\ ~SaveLost(t)
  <2>1. pc[t] \in {"idle", "end", "dead"}
    BY <1>0
  <2>2. ~TaskStep(t)
    BY <2>1
    DEF TaskStep, Passes, StartSaga, Load, Mark, Pay, Push, Reload, Fail, Compensate,
        MarkCompensated, MarkFinalFailure, CompleteFind, CompleteSave, FindOrder, SaveOrder,
        SettlePayment, SavePayment, FindSaga, SaveSaga, Scan, FindPayment
  <2>3. ~CallFails(t)
    BY <2>1 DEF CallFails, AwaitsOn
  <2>4. ~SaveLost(t)
    BY <2>1 DEF SaveLost
  <2>5. QED
    BY <2>2, <2>3, <2>4
<1>2. ASSUME NEW r \in Request, TaskStep(r) \/ CallFails(r) \/ SaveLost(r)
      PROVE  (\A t \in SagaTask : pc'[t] = pc[t]) /\ payment' = payment
  <2>1. r \in Task /\ r \notin SagaTask
    BY RequestsApart DEF SagaTask
  <2>2. TaskStep(r) => ~Pay(r) /\ ~SavePayment(r)
    BY <2>1, WhoPays DEF SagaTask, Pay, SavePayment
  <2>3. CASE TaskStep(r)
    BY <1>0, <2>1, <2>2, <2>3, QuietStep
  <2>4. CASE CallFails(r) \/ SaveLost(r)
    <3>1. pc[r] \notin {"pay", "savePaid", "saveDeclined"}
      BY <2>1, WhoPays DEF SagaTask
    <3>2. QED
      BY <1>0, <2>1, <2>4, <3>1 DEF CallFails, SaveLost, Goto
  <2>5. QED
    BY <1>2, <2>3, <2>4
<1>3. ~NodeDown
  BY <1>0 DEF NodeDown
<1>4. CASE UNCHANGED vars
  BY <1>4 DEF vars, AtRest
<1>5. QED
  BY <1>1, <1>2, <1>3, <1>4 DEF Next, AtRest, Task

(* And in agreement it stays, with cancellations and clean-ups still       *)
(* running: what EventuallyAgreed says but for getting there.              *)
THEOREM RestsForGood ==
    ASSUME TimerOutlastsStep, MaxFaults = 0, NobodyConfirms
    PROVE  Spec => AgreedForGood
<1>1. AgreedAtRest /\ AtRest => Agreed
  BY DEF AgreedAtRest
<1>2. Typed /\ AtRest /\ [Next]_vars => AtRest'
  BY RestStays
<1>3. QED
  BY <1>1, <1>2, RestsInAgreement, TypedAlways, PTL DEF Spec, Safety, AgreedForGood
=============================================================================
