----------------------------- MODULE OrderSaga -----------------------------
(***************************************************************************)
(* One order on its way through the order-processing saga:                 *)
(*   saga/order-processing.saga.ts, saga/saga-manager.service.ts,          *)
(*   order/commands/handlers, order/events/handlers (OrderCreatedHandler), *)
(*   payment/commands/handlers (ProcessPaymentHandler) and                 *)
(*   saga/saga-maintenance.controller.ts (cleanupPendingOrders).           *)
(*                                                                         *)
(* The rows of the order, of its payment and of its saga are shared; the   *)
(* async functions that work on them are tasks.  A task is where its next  *)
(* await stands (pc), and what it holds in memory: between two awaits      *)
(* every other task may run.  repository.save writes the entity as the     *)
(* task holds it, so a save can undo what others wrote since the entity    *)
(* was read.                                                               *)
(*                                                                         *)
(* The five tasks of the saga run on the node that created the order,      *)
(* handed on by its in-process event bus; requests run on any node.        *)
(***************************************************************************)
EXTENDS Integers, Sequences, SequencesExt

CONSTANTS Request,   \* HTTP requests on the order
          KindOf,    \* "cancel", "cleanup" or "confirm", for each of them
          Faults,    \* what may fail: a subset of {"db", "kafka", "redis", "crash"}
          MaxFaults, \* how many failures a behaviour may have
          TimerOutlastsStep \* the 500 ms before a payment settles are longer
                            \* than the rest of the payment step

SagaTask == {"orderCreated", "paymentTimer", "paymentProcessed", "paymentFailed"}
Task     == SagaTask \cup Request

ASSUME RequestAssumption ==
    Request \cap SagaTask = {} /\ KindOf \in [Request -> {"cancel", "cleanup", "confirm"}]
ASSUME FaultsAssumption ==
    Faults \subseteq {"db", "kafka", "redis", "crash"} /\ MaxFaults \in Nat
ASSUME TimerAssumption == TimerOutlastsStep \in BOOLEAN

VARIABLES order,   \* status of the order row
          payment, \* status of the payment row, "none" before there is one
          charged, \* the payment provider took the money
          saga,    \* the saga_instances row
          pc,      \* the await each task stands at
          mem,     \* the saga entity each task holds in memory
          sawFailedPayment, \* what each clean-up read of the payment
          faults   \* failures so far

vars == <<order, payment, charged, saga, pc, mem, sawFailedPayment, faults>>

Kind(t) == IF t \in SagaTask THEN t ELSE KindOf[t]

-----------------------------------------------------------------------------
(* Rows.                                                                   *)
OrderStatus   == {"pending", "paid", "cancelled"}
PaymentStatus == {"none", "processing", "completed", "failed"}
SagaStatus    == {"none", "started", "completed", "failed", "compensating", "compensated"}
Step          == {"payment_processing", "order_confirmation"}
Undo          == {"compensate_payment_processing", "compensate_order_confirmation",
                  "order_cancelled", "order_cancelled_cleanup"}
CurrentStep   == Step \cup {"none", "initial", "order_cancellation", "completed", "compensated"}

SagaRow == [status            : SagaStatus,
            completedSteps    : Seq(Step),
            compensationSteps : Seq(Undo),
            currentStep       : CurrentStep]

NoSaga  == [status |-> "none", completedSteps |-> <<>>,
            compensationSteps |-> <<>>, currentStep |-> "none"]

\* Mutant: steps[0]?.name without the default.
UnnamedSaga == [NoSaga EXCEPT !.status = "started", !.currentStep = "undefined"]

NewSaga == [NoSaga EXCEPT !.status = "started", !.currentStep = "initial"]

(* The step a task runs through executeSagaStep, or fails in.              *)
StepOf(t) == CASE t = "orderCreated"     -> "payment_processing"
               [] t = "paymentProcessed" -> "order_confirmation"
               [] OTHER                  -> "order_cancellation"

UndoOf(step) == IF step = "payment_processing" THEN "compensate_payment_processing"
                ELSE "compensate_order_confirmation"

-----------------------------------------------------------------------------
PC == {"idle", "publish", "store", "emit", "start", "lock", "load", "mark", "pay",
       "findOrder", "saveOrder", "push", "reload", "fail", "tellFailed", "compensate",
       "markCompensated", "tellCompensated", "final", "tellFinal",
       "completeFind", "completeSave", "findSaga", "saveSaga", "scan", "findPayment",
       "delay", "savePaid", "saveDeclined", "saveBroken", "end", "dead"}

FirstAwait(kind) == IF kind = "cleanup" THEN "scan" ELSE "findOrder"

Init ==
    /\ order = "pending" /\ payment = "none" /\ charged = FALSE /\ saga = NoSaga
    /\ pc = [t \in Task |-> IF t \in Request THEN FirstAwait(KindOf[t])
                            ELSE IF t = "orderCreated" THEN "publish" ELSE "idle"]
    /\ mem = [t \in Task |-> NoSaga]
    /\ sawFailedPayment = [t \in Task |-> FALSE]
    /\ faults = 0

Goto(t, next) == pc' = [pc EXCEPT ![t] = next]

(* Where a task goes when executeSagaStep or handleSagaFailure returns:    *)
(* executeOrderConfirmationStep completes the saga, the others are through.*)
AfterStep(t) == IF t = "paymentProcessed" THEN "completeFind" ELSE "end"

\* Mutant: the clean-up compensates the saga of every order it cancels.
AfterAnyCommand(t) ==
    CASE Kind(t) = "paymentProcessed" -> "push"
      [] Kind(t) = "paymentFailed"    -> "saveSaga"
      [] Kind(t) = "cleanup"          -> "findSaga"
      [] OTHER                        -> "end"

(* Where a task goes when its CancelOrder or ConfirmOrder command returns. *)
AfterCommand(t) ==
    CASE Kind(t) = "paymentProcessed"                     -> "push"
      [] Kind(t) = "paymentFailed"                        -> "saveSaga"
      [] Kind(t) = "cleanup" /\ sawFailedPayment[t]       -> "findSaga"
      [] OTHER                                            -> "end"

-----------------------------------------------------------------------------
(* Awaits that change no row: the event reaching its handler, the event    *)
(* store and Kafka before the saga, a lock granted, the events of a        *)
(* failure.  One call at a time asks for each lock of this order, so a     *)
(* lock is granted unless Redis fails (RedisLock has the contended case).  *)
Passes(t) ==
    /\ pc[t] \in {"publish", "store", "emit", "lock", "tellFailed", "tellCompensated", "tellFinal"}
    /\ Goto(t, CASE pc[t] = "publish"    -> "store"
                 [] pc[t] = "store"      -> "emit"
                 [] pc[t] = "emit"       -> "start"
                 [] pc[t] = "lock"       -> "load"
                 [] pc[t] = "tellFailed" -> "compensate"
                 [] OTHER                -> AfterStep(t))
    /\ UNCHANGED <<order, payment, charged, saga, mem, sawFailedPayment, faults>>

StartSaga(t) ==
    /\ pc[t] = "start"
    /\ saga' = NewSaga
    /\ Goto(t, "lock")
    /\ UNCHANGED <<order, payment, charged, mem, sawFailedPayment, faults>>

-----------------------------------------------------------------------------
(* executeSagaStep.                                                        *)
Load(t) ==
    /\ pc[t] = "load"
    /\ IF Contains(saga.completedSteps, StepOf(t))
       THEN Goto(t, AfterStep(t)) /\ UNCHANGED mem
       ELSE Goto(t, "mark") /\ mem' = [mem EXCEPT ![t] = [saga EXCEPT !.currentStep = StepOf(t)]]
    /\ UNCHANGED <<order, payment, charged, saga, sawFailedPayment, faults>>

Mark(t) ==
    /\ pc[t] = "mark"
    /\ saga' = mem[t]
    /\ Goto(t, IF t = "orderCreated" THEN "pay" ELSE "findOrder")
    /\ UNCHANGED <<order, payment, charged, mem, sawFailedPayment, faults>>

(* ProcessPayment: the row is saved, the external call is left to a timer, *)
(* and the command returns.                                                *)
Pay(t) ==
    /\ pc[t] = "pay"
    /\ payment' = "processing"
    /\ pc' = [pc EXCEPT ![t] = "push", !["paymentTimer"] = "delay"]
    /\ UNCHANGED <<order, charged, saga, mem, sawFailedPayment, faults>>

\* Mutant: the step is recorded on a fresh, empty list.
RecordedAlone(t) == [mem[t] EXCEPT !.completedSteps = <<StepOf(t)>>]

(* The step is pushed on the entity read before the command ran.           *)
Recorded(t) == [mem[t] EXCEPT !.completedSteps = Append(@, StepOf(t))]

Push(t) ==
    /\ pc[t] = "push"
    /\ saga' = Recorded(t)
    /\ mem'  = [mem EXCEPT ![t] = Recorded(t)]
    /\ Goto(t, AfterStep(t))
    /\ UNCHANGED <<order, payment, charged, sawFailedPayment, faults>>

(* The catch block: the saga is read again and handed to handleSagaFailure.*)
Reload(t) ==
    /\ pc[t] = "reload"
    /\ Goto(t, IF saga = NoSaga THEN AfterStep(t) ELSE "fail")
    /\ UNCHANGED <<order, payment, charged, saga, mem, sawFailedPayment, faults>>

(* completeSaga: whatever became of the step, a saga that is not completed *)
(* is completed.                                                           *)
CompleteFind(t) ==
    /\ pc[t] = "completeFind"
    /\ IF saga.status = "completed"
       THEN Goto(t, "end") /\ UNCHANGED mem
       ELSE /\ mem' = [mem EXCEPT ![t] = [saga EXCEPT !.status = "completed",
                                                      !.currentStep = "completed"]]
            /\ Goto(t, "completeSave")
    /\ UNCHANGED <<order, payment, charged, saga, sawFailedPayment, faults>>

CompleteSave(t) ==
    /\ pc[t] = "completeSave"
    /\ saga' = mem[t]
    /\ Goto(t, "end")
    /\ UNCHANGED <<order, payment, charged, mem, sawFailedPayment, faults>>

-----------------------------------------------------------------------------
\* Mutant: the failed step is noted, the saga's status is not.
FailQuietly(t) ==
    /\ pc[t] = "fail"
    /\ mem'  = [mem EXCEPT ![t] = [saga EXCEPT !.currentStep = StepOf(t)]]
    /\ saga' = mem'[t]
    /\ Goto(t, "tellFailed")
    /\ UNCHANGED <<order, payment, charged, sawFailedPayment, faults>>

(* handleSagaFailure: the row is locked, read again and saved in one       *)
(* transaction; the events are published after it has committed.           *)
Fail(t) ==
    /\ pc[t] = "fail"
    /\ mem'  = [mem EXCEPT ![t] = [saga EXCEPT !.status = "compensating",
                                               !.currentStep = StepOf(t)]]
    /\ saga' = mem'[t]
    /\ Goto(t, "tellFailed")
    /\ UNCHANGED <<order, payment, charged, sawFailedPayment, faults>>

(* startCompensation: every completed step, last first, gets an entry in   *)
(* the entity in memory and an event; no command is sent.                  *)
Compensate(t) ==
    /\ pc[t] = "compensate"
    /\ mem' = [mem EXCEPT ![t].compensationSteps =
                  @ \o [i \in 1..Len(mem[t].completedSteps) |->
                           UndoOf(Reverse(mem[t].completedSteps)[i])]]
    /\ Goto(t, "markCompensated")
    /\ UNCHANGED <<order, payment, charged, saga, sawFailedPayment, faults>>

\* Mutant: the entity in memory is saved, with the entries.
MarkCompensatedInMemory(t) ==
    /\ pc[t] = "markCompensated"
    /\ saga' = [mem[t] EXCEPT !.status = "compensated"]
    /\ Goto(t, "tellCompensated")
    /\ UNCHANGED <<order, payment, charged, mem, sawFailedPayment, faults>>

(* The row is read again for the update, so the entries stay in memory.    *)
MarkCompensated(t) ==
    /\ pc[t] = "markCompensated"
    /\ saga' = [saga EXCEPT !.status = "compensated"]
    /\ Goto(t, "tellCompensated")
    /\ UNCHANGED <<order, payment, charged, mem, sawFailedPayment, faults>>

(* markSagaAsFinalFailure.                                                 *)
MarkFinalFailure(t) ==
    /\ pc[t] = "final"
    /\ saga' = [saga EXCEPT !.status = "failed"]
    /\ Goto(t, "tellFinal")
    /\ UNCHANGED <<order, payment, charged, mem, sawFailedPayment, faults>>

-----------------------------------------------------------------------------
(* CancelOrder and ConfirmOrder: the order is read, and what the read      *)
(* allowed is saved one await later.                                       *)
Confirms(t) == Kind(t) \in {"paymentProcessed", "confirm"}

FindOrder(t) ==
    /\ pc[t] = "findOrder"
    /\ Goto(t, IF order = "pending" \/ (~Confirms(t) /\ order # "cancelled")
               THEN "saveOrder" ELSE AfterCommand(t))
    /\ UNCHANGED <<order, payment, charged, saga, mem, sawFailedPayment, faults>>

StatusSavedBy(t) == IF Confirms(t) THEN "paid" ELSE "cancelled"

SaveOrder(t) ==
    /\ pc[t] = "saveOrder"
    /\ order' = StatusSavedBy(t)
    /\ Goto(t, AfterCommand(t))
    /\ UNCHANGED <<payment, charged, saga, mem, sawFailedPayment, faults>>

-----------------------------------------------------------------------------
(* The payment timer: 0.5 to 2 seconds, then the provider's verdict.       *)
SettlePayment(t) ==
    /\ pc[t] = "delay"
    /\ TimerOutlastsStep => pc["orderCreated"] \in {"end", "dead"}
    /\ \/ charged' = TRUE /\ Goto(t, "savePaid")
       \/ UNCHANGED charged /\ Goto(t, "saveDeclined")
    /\ UNCHANGED <<order, payment, saga, mem, sawFailedPayment, faults>>

VerdictSavedBy(t) == IF pc[t] = "savePaid" THEN "completed" ELSE "failed"

HandlerOf(verdict) == IF verdict = "completed" THEN "paymentProcessed" ELSE "paymentFailed"

\* Mutant: the event is published before the row is saved.
PublishBeforeSave(t) ==
    /\ pc[t] \in {"savePaid", "saveDeclined", "saveBroken"}
    /\ LET next == HandlerOf(VerdictSavedBy(t))
       IN  IF pc[next] = "idle"
           THEN pc' = [pc EXCEPT ![next] = "findSaga"] /\ UNCHANGED payment
           ELSE Goto(t, "end") /\ payment' = VerdictSavedBy(t)
    /\ UNCHANGED <<order, charged, saga, mem, sawFailedPayment, faults>>

(* The verdict is saved and its event published; the saga's handler of the *)
(* event starts by looking the saga up.                                    *)
SavePayment(t) ==
    /\ pc[t] \in {"savePaid", "saveDeclined", "saveBroken"}
    /\ payment' = VerdictSavedBy(t)
    /\ pc' = [pc EXCEPT ![t] = "end", ![HandlerOf(VerdictSavedBy(t))] = "findSaga"]
    /\ UNCHANGED <<order, charged, saga, mem, sawFailedPayment, faults>>

-----------------------------------------------------------------------------
(* The entity a task will save as it read it: handlePaymentFailed reads it *)
(* before it cancels the order, the clean-up after.                        *)
CompensatedBy(t) ==
    IF t = "paymentFailed"
    THEN [mem[t] EXCEPT !.status = "compensated", !.currentStep = "compensated",
                        !.compensationSteps = Append(@, "order_cancelled")]
    ELSE [mem[t] EXCEPT !.status = "compensated",
                        !.compensationSteps = Append(@, "order_cancelled_cleanup")]

(* The clean-up asks for a saga whose column data equals {orderId}, while  *)
(* data holds more than the id: whether the database compares the whole    *)
(* documents, and finds nothing, is left open.                             *)
FindSaga(t) ==
    /\ pc[t] = "findSaga"
    /\ \E found \in {saga, NoSaga} :
          /\ found = saga \/ Kind(t) = "cleanup"
          /\ mem' = [mem EXCEPT ![t] = found]
          /\ Goto(t, IF found = NoSaga THEN "end"
                     ELSE CASE t = "paymentProcessed" -> "lock"
                            [] t = "paymentFailed"    -> "findOrder"
                            [] OTHER                  -> "saveSaga")
    /\ UNCHANGED <<order, payment, charged, saga, sawFailedPayment, faults>>

SaveSaga(t) ==
    /\ pc[t] = "saveSaga"
    /\ saga' = CompensatedBy(t)
    /\ Goto(t, "end")
    /\ UNCHANGED <<order, payment, charged, mem, sawFailedPayment, faults>>

(* cleanupPendingOrders: the pending orders are listed once, each one's    *)
(* payment is read later.  An order whose payment is under way is left.    *)
Scan(t) ==
    /\ pc[t] = "scan"
    /\ Goto(t, IF order = "pending" THEN "findPayment" ELSE "end")
    /\ UNCHANGED <<order, payment, charged, saga, mem, sawFailedPayment, faults>>

\* Mutant: every payment is taken for a failed one.
FindAnyPayment(t) ==
    /\ pc[t] = "findPayment"
    /\ sawFailedPayment' = [sawFailedPayment EXCEPT ![t] = payment # "none"]
    /\ Goto(t, "findOrder")
    /\ UNCHANGED <<order, payment, charged, saga, mem, faults>>

FindPayment(t) ==
    /\ pc[t] = "findPayment"
    /\ sawFailedPayment' = [sawFailedPayment EXCEPT ![t] = payment = "failed"]
    /\ Goto(t, IF payment \in {"none", "failed"} THEN "findOrder" ELSE "end")
    /\ UNCHANGED <<order, payment, charged, saga, mem, faults>>

-----------------------------------------------------------------------------
(* Failures.  A call fails before it has an effect, or a save commits and  *)
(* its answer is lost; what it throws goes to the nearest catch block.     *)
AwaitsOn(service) ==
    CASE service = "kafka" -> {"emit", "tellFailed", "compensate", "tellCompensated", "tellFinal"}
      [] service = "redis" -> {"start", "lock"}
      [] OTHER -> {"store", "start", "load", "mark", "pay", "findOrder", "saveOrder", "push",
                   "reload", "fail", "markCompensated", "final", "completeFind",
                   "completeSave", "findSaga", "saveSaga", "scan", "findPayment",
                   "savePaid", "saveDeclined"}

(* Inside executeSagaStep the catch block compensates; what the failing    *)
(* path itself throws leaves the handler, because a rollback after the     *)
(* commit throws again.                                                    *)
CaughtAt(t) ==
    CASE pc[t] \in {"lock", "load", "mark", "pay", "push"}            -> "reload"
      [] t = "paymentProcessed" /\ pc[t] \in {"findOrder", "saveOrder"} -> "reload"
      [] t = "paymentFailed" /\ pc[t] \in {"findOrder", "saveOrder", "saveSaga"} -> "fail"
      [] pc[t] \in {"compensate", "markCompensated"}                  -> "final"
      [] pc[t] = "final"                                              -> AfterStep(t)
      [] pc[t] \in {"savePaid", "saveDeclined"}                       -> "saveBroken"
      [] OTHER                                                        -> "end"

CallFails(t) ==
    /\ faults < MaxFaults
    /\ \E service \in Faults \ {"crash"} : pc[t] \in AwaitsOn(service)
    /\ pc[t] = "compensate" => mem[t].completedSteps # <<>>
    /\ faults' = faults + 1
    /\ Goto(t, CaughtAt(t))
    /\ UNCHANGED <<order, payment, charged, saga, mem, sawFailedPayment>>

(* The rows a save leaves behind although the task sees it fail.           *)
SaveLost(t) ==
    /\ "db" \in Faults /\ faults < MaxFaults
    /\ \/ /\ pc[t] \in {"mark", "completeSave"}
          /\ saga' = mem[t] /\ UNCHANGED <<order, payment>>
       \/ /\ pc[t] = "start"
          /\ saga' = NewSaga /\ UNCHANGED <<order, payment>>
       \/ /\ pc[t] = "push"
          /\ saga' = Recorded(t) /\ UNCHANGED <<order, payment>>
       \/ /\ pc[t] = "saveSaga"
          /\ saga' = CompensatedBy(t) /\ UNCHANGED <<order, payment>>
       \/ /\ pc[t] = "saveOrder"
          /\ order' = StatusSavedBy(t) /\ UNCHANGED <<saga, payment>>
       \/ /\ pc[t] = "pay"
          /\ payment' = "processing" /\ UNCHANGED <<saga, order>>
       \/ /\ pc[t] \in {"savePaid", "saveDeclined"}
          /\ payment' = VerdictSavedBy(t) /\ UNCHANGED <<saga, order>>
    /\ faults' = faults + 1
    /\ Goto(t, CaughtAt(t))
    /\ UNCHANGED <<charged, mem, sawFailedPayment>>

(* The node of the saga goes down, or a promise nobody awaits rejects and  *)
(* takes the process with it: the save in the timer's catch block, or one  *)
(* of the events of the saga sent by setImmediate.  Nothing resumes a saga.*)
NodeDown ==
    /\ faults < MaxFaults
    /\ \/ "crash" \in Faults
       \/ "db" \in Faults /\ pc["paymentTimer"] = "saveBroken"
       \/ "kafka" \in Faults /\ saga # NoSaga
    /\ \E t \in SagaTask : pc[t] \notin {"idle", "end", "dead"}
    /\ faults' = faults + 1
    /\ pc' = [t \in Task |-> IF t \in SagaTask /\ pc[t] \notin {"idle", "end"}
                             THEN "dead" ELSE pc[t]]
    /\ UNCHANGED <<order, payment, charged, saga, mem, sawFailedPayment>>

-----------------------------------------------------------------------------
TaskStep(t) ==
    \/ Passes(t) \/ StartSaga(t) \/ Load(t) \/ Mark(t) \/ Pay(t) \/ Push(t)
    \/ Reload(t) \/ Fail(t) \/ Compensate(t) \/ MarkCompensated(t) \/ MarkFinalFailure(t)
    \/ CompleteFind(t) \/ CompleteSave(t)
    \/ FindOrder(t) \/ SaveOrder(t) \/ SettlePayment(t) \/ SavePayment(t)
    \/ FindSaga(t) \/ SaveSaga(t) \/ Scan(t) \/ FindPayment(t)

Next == \/ \E t \in Task : TaskStep(t) \/ CallFails(t) \/ SaveLost(t)
        \/ NodeDown

(* A call of the saga's node that does not fail is answered.  Nobody has   *)
(* to send a request, and no request has to finish.                        *)
Safety == Init /\ [][Next]_vars
Spec   == Safety /\ \A t \in SagaTask : WF_vars(TaskStep(t))

-----------------------------------------------------------------------------
(* Types of the rows, the entities in memory and the awaits.               *)
TypeOK == /\ order   \in OrderStatus
          /\ payment \in PaymentStatus
          /\ charged \in BOOLEAN
          /\ saga    \in SagaRow
          /\ pc      \in [Task -> PC]
          /\ mem     \in [Task -> SagaRow]
          /\ sawFailedPayment \in [Task -> BOOLEAN]
          /\ faults  \in Nat

(* An order is only ever PAID by a payment that is COMPLETED and was taken *)
(* by the provider, or because somebody asked PUT /orders/:id/confirm for  *)
(* it, whatever fails and whoever cancels.                                 *)
ConfirmRequested == \E r \in Request : KindOf[r] = "confirm" /\ pc[r] = "end"

PaidOrderWasCharged ==
    order = "paid" => (payment = "completed" /\ charged) \/ ConfirmRequested

(* A saga that says COMPLETED, or that recorded the confirmation of the    *)
(* order, has a COMPLETED payment: no save of a stale saga, no failed step *)
(* and no clean-up can make it say so otherwise.                           *)
SuccessWasPaid ==
    saga.status = "completed" \/ Contains(saga.completedSteps, "order_confirmation")
        => payment = "completed"

(* A saga is never rolled back for nothing: it is only ever COMPENSATING,  *)
(* COMPENSATED or FAILED after the payment failed or a call did.           *)
CompensationHasCause ==
    saga.status \in {"compensating", "compensated", "failed"}
        => payment = "failed" \/ faults > 0

(* "Completed steps", saga-instance.entity.ts:39: a step that was recorded *)
(* as completed stays recorded, although every writer saves the entity as  *)
(* it read it.                                                             *)
CompletedStepsKept ==
    [][\A s \in Step : Contains(saga.completedSteps, s) => Contains(saga'.completedSteps, s)]_vars

(* completeSaga is the end: nothing takes a COMPLETED saga out of it.      *)
CompletedStays == [][saga.status = "completed" => saga'.status = "completed"]_vars

(* Without failures the order's three rows come to agree for good, however *)
(* customers and the clean-up interleave: paid and completed, or declined, *)
(* cancelled and compensated.                                              *)
Agreed ==
    \/ payment = "completed" /\ saga.status = "completed" /\ order \in {"paid", "cancelled"}
    \/ payment = "failed" /\ saga.status = "compensated" /\ order = "cancelled"
EventuallyAgreed == <>[]Agreed

(* What is there once nothing is left to run, the safety half of           *)
(* EventuallyAgreed: a saga that comes to rest without failures has come   *)
(* to rest in agreement, and no request that still runs disturbs it.       *)
AtRest == \A t \in SagaTask : pc[t] \in {"idle", "end", "dead"}

AgreedAtRest  == AtRest => Agreed
AgreedForGood == [](AtRest => []Agreed)

(* A cancelled order that no confirmation is about to save stays as it is: *)
(* the confirmation that had read it before (ConfirmOrderHandler, findOne  *)
(* and save in two awaits) is the only way back.                           *)
Off == order = "cancelled" /\ \A t \in Task : Confirms(t) => pc[t] # "saveOrder"

CancelledForGood == [][Off => Off']_vars

(* The entries of startCompensation are pushed on the entity in memory,    *)
(* and the row is saved from a fresh read: what handleSagaFailure undid is *)
(* never recorded in compensationSteps.                                    *)
UndoNeverStored ==
    \A step \in Step : ~Contains(saga.compensationSteps, UndoOf(step))

(* How far along its handler an await stands.  Nothing is tried again: the *)
(* code has no retry and no loop over a failed call.                       *)
Place(t, await) ==
    CASE await = "idle"                                          -> 0
      [] await \in {"publish", "scan", "delay"}                  -> 1
      [] await \in {"store", "findPayment", "savePaid", "saveDeclined"} -> 2
      [] await \in {"emit", "saveBroken"}                        -> 3
      [] await = "start"                                         -> 4
      [] await = "findSaga"             -> IF t \in Request THEN 11 ELSE 5
      [] await = "lock"                                          -> 6
      [] await = "load"                                          -> 7
      [] await = "mark"                                          -> 8
      [] await \in {"pay", "findOrder"}                          -> 9
      [] await = "saveOrder"                                     -> 10
      [] await \in {"push", "saveSaga"}                          -> 12
      [] await = "reload"                                        -> 13
      [] await = "fail"                                          -> 14
      [] await = "tellFailed"                                    -> 15
      [] await = "compensate"                                    -> 16
      [] await = "markCompensated"                               -> 17
      [] await \in {"tellCompensated", "final"}                  -> 18
      [] await = "tellFinal"                                     -> 19
      [] await = "completeFind"                                  -> 20
      [] await = "completeSave"                                  -> 21
      [] OTHER                                                   -> 22

(* Every step, failing or not, brings a task forward and none back: no     *)
(* await is reached twice, so each saga and each request is through after  *)
(* a bounded number of steps, whatever fails.                              *)
OnlyForward ==
    [][/\ \A t \in Task : pc'[t] = pc[t] \/ Place(t, pc'[t]) > Place(t, pc[t])
       /\ \E t \in Task : Place(t, pc'[t]) > Place(t, pc[t])]_vars

(* Without failures every step is one of the diagram in README.md, seen    *)
(* through the three statuses.                                             *)
Flow == INSTANCE OrderFlow WITH saga <- saga.status
ImplementsOrderFlow == Flow!Spec

-----------------------------------------------------------------------------
(* What the code's comments and documents say and a run refutes.           *)

(* order-processing.saga.ts:108, "complete the saga after the order was    *)
(* confirmed": a COMPLETED saga has its confirmation step.                 *)
CompletedMeansConfirmed ==
    saga.status = "completed" => Contains(saga.completedSteps, "order_confirmation")

(* It holds as long as no call has failed.                                 *)
ConfirmedUnlessFailed == faults = 0 => CompletedMeansConfirmed

(* README.md:605, "optimistic locking: prevents concurrent modification":  *)
(* an order that was cancelled is not paid by a confirmation that read it  *)
(* before.                                                                 *)
CancelledStaysCancelled == [][order = "cancelled" => order' = "cancelled"]_vars

(* README.md:23, "compensation: automatic rollback on failure": once a     *)
(* saga is COMPENSATED its payment is not COMPLETED any more.              *)
CompensatedMeansRolledBack == saga.status = "compensated" => payment # "completed"
=============================================================================
