----------------------------- MODULE EventTrail -----------------------------
(***************************************************************************)
(* The events of one order: what the commands on it and its payment leave  *)
(* in the table event_store and in Kafka.                                  *)
(*                                                                         *)
(* A command saves the row and then schedules its events with setImmediate;*)
(* each event has a handler that saves an event_store entry and then sends *)
(* the event to Kafka.  Handlers run side by side.  The creation's handler *)
(* goes on to start the saga, whose payment timer publishes the verdict,   *)
(* whose saga handlers confirm or cancel the order: that chain stays in    *)
(* the process that created the order.  Meanwhile customers and the        *)
(* clean-up cancel or confirm the order from any instance.                 *)
(*                                                                         *)
(* How the saga gets from one to the next is OrderSaga's subject; here its *)
(* commands may follow their event or not.                                 *)
(***************************************************************************)
EXTENDS SequencesExt

CONSTANTS Creator, Timer, SagaConfirm, SagaCancel, \* the tasks of the chain
          Confirming, Cancelling, \* confirmOrder; cancelOrder and the clean-up
          Node, NodeOf,           \* instances, and where each task runs
          FaultyNode,             \* those that lose the database, Kafka or go down
          MaxFaults               \* bound on the number of failures

Chain   == {Creator, Timer, SagaConfirm, SagaCancel}
Request == Confirming \cup Cancelling
Task    == Chain \cup Request

ASSUME TaskAssumption == /\ Creator \notin {Timer, SagaConfirm, SagaCancel}
                         /\ Timer \notin {SagaConfirm, SagaCancel} /\ SagaConfirm # SagaCancel
                         /\ Chain \cap Request = {} /\ Confirming \cap Cancelling = {}
                         /\ NodeOf \in [Task -> Node] /\ FaultyNode \subseteq Node
                         /\ MaxFaults \in Nat
                         /\ \A t \in Chain : NodeOf[t] = NodeOf[Creator]

VARIABLES pc,      \* where each task is
          status,  \* the order's row, "none" before it is inserted
          payment, \* the payment's row
          verdict, \* what the payment timer is about to save
          at,      \* where the handler of each event is
          stored,  \* events in event_store
          sent,    \* events in Kafka
          faults,  \* failures so far
          changes, \* history: tasks that saved the order's row, in that order
          seen     \* history: how many of them each command had seen when it read

vars == <<pc, status, payment, verdict, at, stored, sent, faults, changes, seen>>

Confirms(c) == c \in Confirming \cup {SagaConfirm}
Cancels(c)  == c \in Cancelling \cup {SagaCancel}

Event(t, type) == [by |-> t, type |-> type]

(* The events a task publishes, at most.                                   *)
EventsOf(t) ==
    CASE t = Creator -> {Event(t, "OrderCreated")}
      [] t = Timer   -> {Event(t, "PaymentProcessed"), Event(t, "PaymentFailed")}
      [] Confirms(t) -> {Event(t, "OrderConfirmed"), Event(t, "OrderStatusChanged")}
      [] OTHER       -> {Event(t, "OrderCancelled"), Event(t, "OrderStatusChanged")}

Events == UNION {EventsOf(t) : t \in Task}
Created   == Event(Creator, "OrderCreated")
Processed == Event(Timer, "PaymentProcessed")
Failed    == Event(Timer, "PaymentFailed")

Init == /\ pc      = [t \in Task |-> IF t = Creator THEN "save" ELSE "idle"]
        /\ status  = "none" /\ payment = "none" /\ verdict = "none"
        /\ at      = [e \in Events |-> "none"]
        /\ stored  = {} /\ sent = {}
        /\ faults  = 0
        /\ changes = <<>>
        /\ seen    = [t \in Task |-> 0]

-----------------------------------------------------------------------------
(* A request names an order that exists; the saga's commands follow the    *)
(* verdict published in their process.                                     *)
MayStart(c) == \/ c \in Request /\ status # "none"
               \/ c = SagaConfirm /\ at[Processed] # "none"
               \/ c = SagaCancel /\ at[Failed] # "none"

\* Mutant: a cancelled order is cancelled again.
NeverInVain(c) == Confirms(c) /\ status # "PENDING"

(* The early returns: already cancelled, or not pending any more.          *)
InVain(c) == \/ Cancels(c) /\ status = "CANCELLED"
             \/ Confirms(c) /\ status # "PENDING"

FindOrder(c) == /\ pc[c] = "idle" /\ MayStart(c)
                /\ pc'   = [pc EXCEPT ![c] = IF InVain(c) THEN "done" ELSE "save"]
                /\ seen' = [seen EXCEPT ![c] = Len(changes)]
                /\ UNCHANGED <<status, payment, verdict, at, stored, sent, changes, faults>>

StatusAfter(c) == CASE c = Creator -> "PENDING"
                    [] Confirms(c) -> "PAID"
                    [] OTHER       -> "CANCELLED"

Saved(c) == status' = StatusAfter(c) /\ changes' = Append(changes, c)

(* CreateOrderHandler's insert (CreateOrder has the race for the key), or  *)
(* the save of what FindOrder read.                                        *)
SaveOrder(c) == /\ pc[c] = "save" /\ c # Timer
                /\ pc' = [pc EXCEPT ![c] = "saved"]
                /\ Saved(c)
                /\ UNCHANGED <<payment, verdict, at, stored, sent, seen, faults>>

-----------------------------------------------------------------------------
\* Mutant: the payment row is inserted beside the event handler.
PayAtOnce == /\ pc[Timer] = "idle" /\ at[Created] # "none"
             /\ pc'      = [pc EXCEPT ![Timer] = "wait"]
             /\ payment' = "PROCESSING"
             /\ UNCHANGED <<status, verdict, at, stored, sent, changes, seen, faults>>

(* OrderCreatedHandler awaits event_store and Kafka before it starts the   *)
(* saga, whose payment step inserts the row and sets the timer.            *)
Pay == /\ pc[Timer] = "idle" /\ at[Created] = "handled"
       /\ pc'      = [pc EXCEPT ![Timer] = "wait"]
       /\ payment' = "PROCESSING"
       /\ UNCHANGED <<status, verdict, at, stored, sent, changes, seen, faults>>

SettlePayment == /\ pc[Timer] = "wait"
                 /\ pc'      = [pc EXCEPT ![Timer] = "save"]
                 /\ verdict' \in {"COMPLETED", "FAILED"}
                 /\ UNCHANGED <<status, payment, at, stored, sent, changes, seen, faults>>

SavePayment == /\ pc[Timer] \in {"save", "recover"}
               /\ pc'      = [pc EXCEPT ![Timer] = "saved"]
               /\ payment' = verdict
               /\ UNCHANGED <<status, verdict, at, stored, sent, changes, seen, faults>>

-----------------------------------------------------------------------------
\* Mutant: publish where publishAll was meant.
EventsDueFirst(t) ==
    IF pc[t] # "saved" THEN {}
    ELSE IF t = Timer THEN {IF verdict = "COMPLETED" THEN Processed ELSE Failed}
    ELSE {e \in EventsOf(t) : e.type # "OrderStatusChanged"}

(* What a task has ready for the event bus: after its save, the events it  *)
(* built; of the payment's two, the one that matches the verdict.          *)
EventsDue(t) ==
    IF pc[t] # "saved" THEN {}
    ELSE IF t = Timer THEN {IF verdict = "COMPLETED" THEN Processed ELSE Failed}
    ELSE EventsOf(t)

Publish(t) == /\ EventsDue(t) # {}
              /\ pc' = [pc EXCEPT ![t] = "done"]
              /\ at' = [e \in Events |-> IF e \in EventsDue(t) THEN "store" ELSE at[e]]
              /\ UNCHANGED <<status, payment, verdict, stored, sent, changes, seen, faults>>

(* A handler: the event_store entry, then Kafka.                           *)
Store(e) == /\ at[e] = "store"
            /\ at'     = [at EXCEPT ![e] = "send"]
            /\ stored' = stored \cup {e}
            /\ UNCHANGED <<pc, status, payment, verdict, sent, changes, seen, faults>>

Send(e) == /\ at[e] = "send"
           /\ at'   = [at EXCEPT ![e] = "handled"]
           /\ sent' = sent \cup {e}
           /\ UNCHANGED <<pc, status, payment, verdict, stored, changes, seen, faults>>

-----------------------------------------------------------------------------
Fault(n) == n \in FaultyNode /\ faults < MaxFaults /\ faults' = faults + 1

(* A query of a command rejects, before or after it took effect: the       *)
(* command ends in its catch block and publishes nothing.                  *)
CommandFails(c) ==
    /\ Fault(NodeOf[c]) /\ c # Timer
    /\ \/ (pc[c] = "save" \/ (pc[c] = "idle" /\ MayStart(c))) /\ UNCHANGED <<status, changes>>
       \/ pc[c] = "save" /\ Saved(c)
    /\ pc' = [pc EXCEPT ![c] = "error"]
    /\ UNCHANGED <<payment, verdict, at, stored, sent, seen>>

\* Mutant: the catch block publishes PaymentFailed and leaves the row.
TimerForgets ==
    /\ Fault(NodeOf[Timer])
    /\ pc[Timer] = "save"
    /\ pc'      = [pc EXCEPT ![Timer] = "saved"]
    /\ verdict' = "FAILED"
    /\ payment' \in {payment, verdict}
    /\ UNCHANGED <<status, at, stored, sent, changes, seen>>

(* The save of the verdict rejects, with or without effect: the catch      *)
(* block saves FAILED instead.                                             *)
TimerCatches ==
    /\ Fault(NodeOf[Timer])
    /\ pc[Timer] = "save"
    /\ pc'      = [pc EXCEPT ![Timer] = "recover"]
    /\ verdict' = "FAILED"
    /\ payment' \in {payment, verdict}
    /\ UNCHANGED <<status, at, stored, sent, changes, seen>>

\* Mutant: Kafka gets the event although the entry was refused.
HandlerGoesOn(e) ==
    /\ Fault(NodeOf[e.by])
    /\ \/ /\ at[e] = "store"
          /\ at' = [at EXCEPT ![e] = "send"]
          /\ UNCHANGED <<stored, sent>>
       \/ /\ at[e] = "send"
          /\ at' = [at EXCEPT ![e] = "failed"]
          /\ sent' \in {sent, sent \cup {e}}
          /\ UNCHANGED stored
    /\ UNCHANGED <<pc, status, payment, verdict, changes, seen>>

(* A handler's call rejects, with or without effect: the event bus logs    *)
(* the error, and nobody handles the event again.                          *)
HandlerFails(e) ==
    /\ Fault(NodeOf[e.by])
    /\ at' = [at EXCEPT ![e] = "failed"]
    /\ \/ at[e] = "store" /\ stored' \in {stored, stored \cup {e}} /\ UNCHANGED sent
       \/ at[e] = "send" /\ sent' \in {sent, sent \cup {e}} /\ UNCHANGED stored
    /\ UNCHANGED <<pc, status, payment, verdict, changes, seen>>

(* An instance goes down, or an unhandled rejection ends it: commands,     *)
(* timers, scheduled events and handlers of it are gone.  Requests may     *)
(* still arrive at its successor.                                          *)
NodeDown(n) ==
    LET Running(t) == NodeOf[t] = n /\ pc[t] \in {"save", "saved", "wait", "recover"}
        Waiting(t) == t \in Chain \ {Creator} /\ pc[t] = "idle" /\ status # "none"
        Handled(e) == NodeOf[e.by] = n /\ at[e] \in {"store", "send"}
    IN  /\ Fault(n)
        /\ (\E t \in Task : Running(t)) \/ (\E e \in Events : Handled(e))
        /\ pc' = [t \in Task |-> IF Running(t) \/ (NodeOf[t] = n /\ Waiting(t)) THEN "dead" ELSE pc[t]]
        /\ at' = [e \in Events |-> IF Handled(e) THEN "failed" ELSE at[e]]
        /\ UNCHANGED <<status, payment, verdict, stored, sent, changes, seen>>

-----------------------------------------------------------------------------
Next == \/ Pay \/ SettlePayment \/ SavePayment \/ TimerCatches
        \/ \E t \in Task : FindOrder(t) \/ SaveOrder(t) \/ Publish(t) \/ CommandFails(t)
        \/ \E e \in Events : Store(e) \/ Send(e) \/ HandlerFails(e)
        \/ \E n \in Node : NodeDown(n)

Safety == Init /\ [][Next]_vars

(* A command that found its order goes on, the payment's timer fires, and  *)
(* scheduled events and their handlers run: each awaits calls that are     *)
(* answered.  No request and no command of the saga has to be sent.        *)
Spec == /\ Safety
        /\ WF_vars(SettlePayment) /\ WF_vars(SavePayment)
        /\ \A t \in Task : WF_vars(SaveOrder(t)) /\ WF_vars(Publish(t))
        /\ \A e \in Events : WF_vars(Store(e)) /\ WF_vars(Send(e))

-----------------------------------------------------------------------------
(* Types.                                                                  *)
TypeOK ==
    /\ pc \in [Task -> {"idle", "save", "wait", "recover", "saved", "done", "error", "dead"}]
    /\ status  \in {"none", "PENDING", "PAID", "CANCELLED"}
    /\ payment \in {"none", "PROCESSING", "COMPLETED", "FAILED"}
    /\ verdict \in {"none", "COMPLETED", "FAILED"}
    /\ at \in [Events -> {"none", "store", "send", "handled", "failed"}]
    /\ stored \subseteq Events /\ sent \subseteq Events
    /\ faults \in 0 .. MaxFaults
    /\ changes \in Seq(Task) /\ seen \in [Task -> Nat]

(* The logs never run ahead: event_store holds events of changes that are  *)
(* in the order's row, or were until another change, and Kafka only events *)
(* that are in event_store.  The handlers save and then publish            *)
(* (order/events/handlers/order.handlers.ts:45,48).                        *)
LogsFollowTheRows ==
    /\ sent \subseteq stored
    /\ \A e \in stored : e.by # Timer => e.by \in ToSet(changes)

(* A payment's trail tells one verdict, and it is the row's: never both    *)
(* PaymentProcessed and PaymentFailed, whichever of the timer's saves was  *)
(* refused or took effect unnoticed (payment.handlers.ts:60,99).           *)
OneVerdict ==
    \A e \in stored : /\ e = Processed => payment = "COMPLETED"
                      /\ e = Failed    => payment = "FAILED"

(* Nobody is charged for an order whose creation a consumer of Kafka       *)
(* cannot know of: the saga starts after OrderCreated was sent             *)
(* (order/events/handlers/order.handlers.ts:48,54), and what the saga says *)
(* of the order it says for a verdict that stands.                         *)
CausesFirst ==
    /\ payment # "none" => Created \in sent
    /\ \A e \in stored : /\ e.by = SagaConfirm => payment = "COMPLETED"
                         /\ e.by = SagaCancel  => payment = "FAILED"

(* The trail repeats itself only after a stale read: a second cancellation *)
(* is saved only if it had read the row before the first was saved, or the *)
(* order was confirmed in between; and a confirmation is saved only if it  *)
(* had read the row as it was created.                                     *)
OnlyStaleRepeats ==
    \A j \in DOMAIN changes :
        LET c == changes[j] IN
        /\ Confirms(c) => seen[c] = 1
        /\ Cancels(c) => \A i \in 1 .. seen[c] : Cancels(changes[i]) =>
               \E k \in i + 1 .. seen[c] : Confirms(changes[k])

(* A change made by an instance that stays up, with its database and its   *)
(* Kafka, reaches event_store and Kafka with all its events, whatever      *)
(* happens to other instances.                                             *)
ChangesReachBothLogs ==
    \A c \in Task \ {Timer} : NodeOf[c] \notin FaultyNode =>
        (c \in ToSet(changes)) ~> (EventsOf(c) \subseteq stored \cap sent)

(* "Complete correlation id tracing", README.md:584: once everything has   *)
(* run without a failure, what traceByCorrelationId finds under the        *)
(* order's correlation id includes the events of the change that gave the  *)
(* order its status.                                                       *)
Correlated(e) == e.by \in Chain  \* the others bring no id: uuidv4() per event
Quiet == /\ \A t \in Task : pc[t] \in {"idle", "done"}
         /\ \A e \in Events : at[e] \in {"none", "handled"}

TraceTellsStatus ==
    Quiet /\ payment # "none" =>
        \E e \in stored : Correlated(e) /\ e.by = Last(changes)

(* The half of it that needs no fairness: on such an instance every event  *)
(* of a change, and the event of a payment's verdict, is yet to be         *)
(* published, with its handler, or in both logs; none is dropped.          *)
UnderWay(e) == \/ at[e] = "store"
               \/ at[e] = "send" /\ e \in stored
               \/ at[e] = "handled" /\ e \in stored \cap sent

NoEventDropped ==
    \A t \in Task : NodeOf[t] \notin FaultyNode =>
        IF t = Timer
        THEN payment # "none" => \/ pc[t] \in {"wait", "save", "saved"}
                                \/ UnderWay(IF payment = "COMPLETED" THEN Processed ELSE Failed)
        ELSE t \in ToSet(changes) => \/ pc[t] = "saved"
                                     \/ \A e \in EventsOf(t) : UnderWay(e)
=============================================================================
