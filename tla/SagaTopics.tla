----------------------------- MODULE SagaTopics -----------------------------
(***************************************************************************)
(* What the saga of OrderSaga tells Kafka (saga/saga-manager.service.ts):  *)
(* SagaStarted, SagaStepCompleted and SagaCompleted are sent by            *)
(* setImmediate after a save, and nobody awaits them; SagaFailed,          *)
(* SagaStepCompensated, SagaCompensated and SagaCompensationFailed are     *)
(* awaited on the failing path.                                            *)
(*                                                                         *)
(* Kafka keeps the order of the messages that share topic and key.  Events *)
(* that carry the correlation id and events that do not go to different    *)
(* topics.  Sends that nobody awaits may arrive in any order.              *)
(***************************************************************************)
EXTENDS OrderSaga, KafkaTopics

CONSTANTS Id,            \* the saga's id
          CorrelationId  \* the order's correlation id

VARIABLES flight, \* messages sent by setImmediate that have not arrived
          log     \* the messages of each topic and key

topicVars == <<vars, flight, log>>

-----------------------------------------------------------------------------
SagaMessage(type)       == [type |-> type, sagaId |-> Id, correlationId |-> CorrelationId]
StepMessage(type, step) == [type |-> type, sagaId |-> Id, stepName |-> step]

OutcomeType == {"SagaStarted", "SagaCompleted", "SagaFailed", "SagaCompensated",
                "SagaCompensationFailed"}
Message == {SagaMessage(type) : type \in OutcomeType}
             \cup {StepMessage(type, step) :
                      type \in {"SagaStepCompleted", "SagaStepCompensated"}, step \in Step}

LogOf(message) == <<SelectTopic("saga-events", message), MessageKey(message, "now")>>
Outcomes == LogOf(SagaMessage("SagaStarted"))
Steps    == LogOf(StepMessage("SagaStepCompleted", "payment_processing"))

\* Mutant: the completion is announced where the saga is found completed.
DetachedByFind(t) ==
    CASE pc[t] = "start" -> {SagaMessage("SagaStarted")}
      [] pc[t] = "push"  -> {StepMessage("SagaStepCompleted", StepOf(t))}
      [] pc[t] = "completeFind" /\ saga.status = "completed" -> {SagaMessage("SagaCompleted")}
      [] OTHER           -> {}

(* What a task leaves to setImmediate when its await returns.              *)
Detached(t) ==
    CASE pc[t] = "start"        -> {SagaMessage("SagaStarted")}
      [] pc[t] = "push"         -> {StepMessage("SagaStepCompleted", StepOf(t))}
      [] pc[t] = "completeSave" -> {SagaMessage("SagaCompleted")}
      [] OTHER                  -> {}

\* Mutant: the step that failed is compensated, too.
UndoMessagesAndFailed(t) ==
    <<StepMessage("SagaStepCompensated", StepOf(t))>> \o
    [i \in 1 .. Len(mem[t].completedSteps) |->
        StepMessage("SagaStepCompensated", Reverse(mem[t].completedSteps)[i])]

(* startCompensation's loop: the entity's steps, last first.               *)
UndoMessages(t) ==
    [i \in 1 .. Len(mem[t].completedSteps) |->
        StepMessage("SagaStepCompensated", Reverse(mem[t].completedSteps)[i])]

\* Mutant: the failure is announced once its compensation is through.
AwaitedLate(t) ==
    CASE pc[t] = "compensate"      -> UndoMessages(t)
      [] pc[t] = "tellCompensated" -> <<SagaMessage("SagaCompensated"), SagaMessage("SagaFailed")>>
      [] pc[t] = "tellFinal"       -> <<SagaMessage("SagaCompensationFailed")>>
      [] OTHER                     -> <<>>

(* What a task sends, and waits for, in the await it stands at.            *)
Awaited(t) ==
    CASE pc[t] = "tellFailed"      -> <<SagaMessage("SagaFailed")>>
      [] pc[t] = "compensate"      -> UndoMessages(t)
      [] pc[t] = "tellCompensated" -> <<SagaMessage("SagaCompensated")>>
      [] pc[t] = "tellFinal"       -> <<SagaMessage("SagaCompensationFailed")>>
      [] OTHER                     -> <<>>

(* The messages of one await go to one place.                              *)
LogGains(messages) ==
    log' = [place \in DOMAIN log |->
               IF messages # <<>> /\ LogOf(Head(messages)) = place
               THEN log[place] \o messages ELSE log[place]]

-----------------------------------------------------------------------------
TopicInit == /\ Init
             /\ flight = {}
             /\ log = [place \in {Outcomes, Steps} |-> <<>>]

Announces(t) == /\ TaskStep(t)
                /\ flight' = flight \cup Detached(t)
                /\ LogGains(Awaited(t))

(* A call that fails may have sent some of its messages, or all of them.   *)
Fails(t) == /\ CallFails(t)
            /\ \E n \in 0 .. Len(Awaited(t)) : LogGains(SubSeq(Awaited(t), 1, n))
            /\ UNCHANGED flight

(* A save that rejects skips the setImmediate behind it.                   *)
Unannounced(t) == SaveLost(t) /\ UNCHANGED <<flight, log>>

Arrive(message) == /\ message \in flight
                   /\ flight' = flight \ {message}
                   /\ LogGains(<<message>>)
                   /\ UNCHANGED vars

(* The process ends, or a send that nobody awaits rejects and ends it.     *)
Down == \/ NodeDown /\ flight' = {} /\ UNCHANGED log
        \/ /\ Faults \cap {"crash", "kafka"} # {} /\ flight # {}
           /\ \A t \in SagaTask : pc[t] \in {"idle", "end", "dead"}
           /\ flight' = {} /\ UNCHANGED <<vars, log>>

TopicNext == \/ \E t \in Task : Announces(t) \/ Fails(t) \/ Unannounced(t)
             \/ \E message \in Message : Arrive(message)
             \/ Down

TopicSafety == TopicInit /\ [][TopicNext]_topicVars
TopicSpec   == /\ TopicSafety
               /\ \A t \in SagaTask : WF_topicVars(Announces(t))
               /\ \A message \in Message : WF_topicVars(Arrive(message))

-----------------------------------------------------------------------------
Logged(message) == \E i \in DOMAIN log[LogOf(message)] : log[LogOf(message)][i] = message

(* Types of the messages on their way and of the logs.                     *)
TopicTypeOK == /\ flight \subseteq Message
               /\ log \in [{Outcomes, Steps} -> Seq(Message)]

(* Who reads SagaCompleted may ship: the payment is COMPLETED, whatever    *)
(* failed before or after and however late the message arrives.            *)
CompletedEventWasPaid == Logged(SagaMessage("SagaCompleted")) => payment = "completed"

(* The outcome topic tells causes first: nothing is reported compensated,  *)
(* or beyond compensation, before it was reported failed.                  *)
CompensatedAfterFailed ==
    \A i \in DOMAIN log[Outcomes] :
        log[Outcomes][i].type \in {"SagaCompensated", "SagaCompensationFailed"} =>
            \E j \in 1 .. i - 1 : log[Outcomes][j].type = "SagaFailed"

(* No step is reported undone that the saga never recorded as done.        *)
UndoneStepsWereDone ==
    \A step \in Step : Logged(StepMessage("SagaStepCompensated", step)) =>
                           Contains(saga.completedSteps, step)

(* Once SagaFailed is out the row never says again that the saga is merely *)
(* under way, although steps save the entity they had read before.         *)
FailureStaysVisible == Logged(SagaMessage("SagaFailed")) => saga.status # "started"

(* Without failures a COMPLETED saga is announced with both its steps,     *)
(* whoever cancels the order meanwhile.                                    *)
CompletionAnnounced ==
    (saga.status = "completed") ~>
        /\ Logged(SagaMessage("SagaStarted")) /\ Logged(SagaMessage("SagaCompleted"))
        /\ \A step \in Step : Logged(StepMessage("SagaStepCompleted", step))

(* What is sent by setImmediate is logged at most once, whatever fails:    *)
(* the send is behind a save that no handler reaches twice.                *)
Aside == {"SagaStarted", "SagaStepCompleted", "SagaCompleted"}

ToldOnce ==
    \A place \in DOMAIN log : \A i, j \in DOMAIN log[place] :
        log[place][i] = log[place][j] /\ log[place][i].type \in Aside => i = j

(* The safety half of CompletionAnnounced: once nothing is on its way any  *)
(* more, a COMPLETED saga has been announced with both its steps.          *)
AnnouncedAtRest ==
    flight = {} /\ saga.status = "completed" =>
        /\ Logged(SagaMessage("SagaStarted")) /\ Logged(SagaMessage("SagaCompleted"))
        /\ \A step \in Step : Logged(StepMessage("SagaStepCompleted", step))
=============================================================================
