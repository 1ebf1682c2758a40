-------------------------- MODULE SagaTopicsProofs --------------------------
(***************************************************************************)
(* Proofs about SagaTopics, for any requests, any failures and any number  *)
(* of them.  Its steps are steps of OrderSaga, so what OrderSagaProofs     *)
(* found about the rows holds here; what the topics say is traced to the   *)
(* task that said it.                                                      *)
(***************************************************************************)
EXTENDS SagaTopics, OrderSagaProofs

-----------------------------------------------------------------------------
(* The saga underneath takes only its own steps.                           *)
LEMMA StepsBelow == [TopicNext]_topicVars => [Next]_vars
  BY DEF TopicNext, topicVars, Announces, Fails, Unannounced, Arrive, Down, Next

(* What is sent changes nothing in the rows: the saga that talks to Kafka  *)
(* is the saga of OrderSaga, so its theorems hold of it.                   *)
THEOREM TopicsKeepSaga == TopicSpec => Safety
<1>1. TopicInit => Init
  BY DEF TopicInit
<1>2. QED
  BY <1>1, StepsBelow, PTL DEF TopicSpec, TopicSafety, Safety

-----------------------------------------------------------------------------
(* Where the messages go: two places, told apart by the topic.             *)
LEMMA OutcomePlace ==
    ASSUME NEW type
    PROVE  LogOf(SagaMessage(type)) = <<<<"saga-events", CorrelationId>>, CorrelationId>>
<1> DEFINE m == SagaMessage(type)
<1>1. Carries(m, "correlationId") /\ m.correlationId = CorrelationId
  BY DEF Carries, SagaMessage
<1> HIDE DEF m
<1>2. MessageKey(m, "now") = CorrelationId
  BY <1>1 DEF MessageKey
<1>3. SelectTopic("saga-events", m) = <<"saga-events", CorrelationId>>
  BY <1>1 DEF SelectTopic
<1>4. QED
  BY <1>2, <1>3 DEF LogOf, m

LEMMA StepPlace ==
    ASSUME NEW type, NEW step
    PROVE  LogOf(StepMessage(type, step)) = <<<<"saga-events">>, Id>>
<1> DEFINE m == StepMessage(type, step)
<1>1. ~Carries(m, "correlationId") /\ Carries(m, "sagaId") /\ m.sagaId = Id
  BY DEF Carries, StepMessage
<1> HIDE DEF m
<1>2. MessageKey(m, "now") = Id
  BY <1>1 DEF MessageKey
<1>3. SelectTopic("saga-events", m) = <<"saga-events">>
  BY <1>1 DEF SelectTopic
<1>4. QED
  BY <1>2, <1>3 DEF LogOf, m

LEMMA PlacesApart ==
    /\ Outcomes = <<<<"saga-events", CorrelationId>>, CorrelationId>>
    /\ Steps = <<<<"saga-events">>, Id>>
    /\ Outcomes # Steps
  BY OutcomePlace, StepPlace DEF Outcomes, Steps

LogsTyped == log \in [{Outcomes, Steps} -> Seq(Message)]

(* What is logged stays, in its order, and only the messages sent join it. *)
LEMMA Gains ==
    ASSUME LogsTyped, NEW ms \in Seq(Message), LogGains(ms), NEW place \in {Outcomes, Steps}
    PROVE  /\ log'[place] \in Seq(Message)
           /\ \A i \in 1..Len(log[place]) : /\ i \in 1..Len(log'[place])
                                            /\ log'[place][i] = log[place][i]
           /\ \A i \in 1..Len(log'[place]) :
                 \/ i \in 1..Len(log[place])
                 \/ i > Len(log[place]) /\ \E j \in 1..Len(ms) : log'[place][i] = ms[j]
<1>1. log[place] \in Seq(Message) /\ place \in DOMAIN log
  BY DEF LogsTyped
<1>2. CASE ms # <<>> /\ LogOf(Head(ms)) = place
  <2>1. log'[place] = log[place] \o ms
    BY <1>1, <1>2 DEF LogGains
  <2>2. /\ log[place] \o ms \in Seq(Message)
        /\ Len(log[place] \o ms) = Len(log[place]) + Len(ms)
        /\ \A i \in 1..(Len(log[place]) + Len(ms)) :
              (log[place] \o ms)[i] = IF i <= Len(log[place]) THEN log[place][i]
                                      ELSE ms[i - Len(log[place])]
    BY <1>1, ConcatProperties
  <2>3. Len(log[place]) \in Nat /\ Len(ms) \in Nat
    BY <1>1, LenProperties
  <2>4. ASSUME NEW i \in 1..Len(log'[place]), i \notin 1..Len(log[place])
        PROVE  i > Len(log[place]) /\ \E j \in 1..Len(ms) : log'[place][i] = ms[j]
    <3>1. i > Len(log[place]) /\ i - Len(log[place]) \in 1..Len(ms)
      BY <2>1, <2>2, <2>3, <2>4
    <3>2. log'[place][i] = ms[i - Len(log[place])]
      BY <2>1, <2>2, <2>3, <3>1
    <3>3. QED
      BY <3>1, <3>2
  <2>5. ASSUME NEW i \in 1..Len(log[place])
        PROVE  i \in 1..Len(log'[place]) /\ log'[place][i] = log[place][i]
    BY <2>1, <2>2, <2>3
  <2>6. log'[place] \in Seq(Message)
    BY <2>1, <2>2
  <2>7. QED
    BY <2>4, <2>5, <2>6
<1>3. CASE ~(ms # <<>> /\ LogOf(Head(ms)) = place)
  <2>1. log'[place] = log[place]
    BY <1>1, <1>3 DEF LogGains
  <2>2. QED
    BY <1>1, <2>1
<1>4. QED
  BY <1>2, <1>3

LEMMA GainsTyped ==
    ASSUME LogsTyped, NEW ms \in Seq(Message), LogGains(ms) PROVE LogsTyped'
<1>1. DOMAIN log = {Outcomes, Steps}
  BY DEF LogsTyped
<1>2. \A place \in {Outcomes, Steps} : log'[place] \in Seq(Message)
  BY Gains
<1>3. DOMAIN log' = {Outcomes, Steps} /\ log' = [place \in DOMAIN log' |-> log'[place]]
  BY <1>1 DEF LogGains
<1>4. QED
  BY <1>2, <1>3 DEF LogsTyped, Outcomes, Steps

-----------------------------------------------------------------------------
(* What a task sends and awaits: messages of the failing path, and the end *)
(* of a compensation only where the task says so.                          *)
Ends == {"SagaCompensated", "SagaCompensationFailed"}
Late == {"compensate", "markCompensated", "tellCompensated", "final", "tellFinal"}

LEMMA AwaitedMessages ==
    ASSUME Typed, NEW t \in Task
    PROVE  /\ Awaited(t) \in Seq(Message)
           /\ \A i \in 1..Len(Awaited(t)) :
                 /\ Awaited(t)[i] # SagaMessage("SagaCompleted")
                 /\ Awaited(t)[i].type \in Ends => pc[t] \in Late
<1> USE DEF Ends, Late
<1>1. CASE pc[t] = "compensate"
  <2> DEFINE steps == mem[t].completedSteps
  <2>1. steps \in Seq(Step)
    BY DEF Typed, TypeOK, SagaRow
  <2> HIDE DEF steps
  <2>2. Len(steps) \in Nat /\ \A i \in 1..Len(steps) : Reverse(steps)[i] \in Step
    <3>1. Len(steps) \in Nat /\ \A i \in 1..Len(steps) : steps[i] \in Step
      BY <2>1, ElementOfSeq, LenProperties
    <3>2. \A i \in 1..Len(steps) : (Len(steps) - i) + 1 \in 1..Len(steps)
      BY <3>1
    <3>3. QED
      BY <3>1, <3>2 DEF Reverse
  <2>3. \A step \in Step : StepMessage("SagaStepCompensated", step) \in Message
    BY DEF Message
  <2>4. \A step : StepMessage("SagaStepCompensated", step).type = "SagaStepCompensated"
    BY DEF StepMessage
  <2>5. SagaMessage("SagaCompleted").type = "SagaCompleted"
    BY DEF SagaMessage
  <2>6. UndoMessages(t) = [i \in 1..Len(steps) |->
                              StepMessage("SagaStepCompensated", Reverse(steps)[i])]
    BY DEF UndoMessages, steps
  <2>7. UndoMessages(t) \in Seq(Message) /\ Len(UndoMessages(t)) = Len(steps)
    <3>1. \A i \in 1..Len(steps) :
             StepMessage("SagaStepCompensated", Reverse(steps)[i]) \in Message
      BY <2>2, <2>3
    <3>2. UndoMessages(t) \in [1..Len(steps) -> Message]
      BY <2>6, <3>1
    <3>3. UndoMessages(t) \in Seq(Message)
      BY <2>2, <3>2, SeqDef
    <3>4. QED
      BY <2>2, <2>6, <3>3, LenProperties
  <2>8. Awaited(t) = UndoMessages(t)
    BY <1>1 DEF Awaited
  <2>9. \A i \in 1..Len(steps) : UndoMessages(t)[i].type = "SagaStepCompensated"
    BY <2>4, <2>6
  <2>10. QED
    BY <1>1, <2>5, <2>7, <2>8, <2>9
<1>2. ASSUME NEW type \in {"SagaFailed", "SagaCompensated", "SagaCompensationFailed"},
             Awaited(t) = <<SagaMessage(type)>>, type \in Ends => pc[t] \in Late
      PROVE  /\ Awaited(t) \in Seq(Message)
             /\ \A i \in 1..Len(Awaited(t)) :
                 /\ Awaited(t)[i] # SagaMessage("SagaCompleted")
                 /\ Awaited(t)[i].type \in Ends => pc[t] \in Late
  <2>1. SagaMessage(type) \in Message
    BY <1>2 DEF Message, OutcomeType
  <2>2. SagaMessage(type).type = type /\ SagaMessage("SagaCompleted").type = "SagaCompleted"
    BY DEF SagaMessage
  <2>3. Awaited(t) \in Seq(Message) /\ Len(Awaited(t)) = 1 /\ Awaited(t)[1] = SagaMessage(type)
    BY <1>2, <2>1
  <2>4. QED
    BY <1>2, <2>2, <2>3
<1>3. CASE pc[t] \notin {"compensate", "tellFailed", "tellCompensated", "tellFinal"}
  <2>1. Awaited(t) = <<>>
    BY <1>3 DEF Awaited
  <2>2. QED
    BY <2>1, EmptySeq
<1>4. CASE pc[t] = "tellFailed"
  BY <1>2, <1>4 DEF Awaited
<1>5. CASE pc[t] = "tellCompensated"
  BY <1>2, <1>5 DEF Awaited
<1>6. CASE pc[t] = "tellFinal"
  BY <1>2, <1>6 DEF Awaited
<1>7. QED
  BY <1>1, <1>3, <1>4, <1>5, <1>6

(* A failing call sends a prefix.                                          *)
LEMMA PrefixOf ==
    ASSUME Typed, NEW t \in Task, NEW n \in 0..Len(Awaited(t))
    PROVE  /\ SubSeq(Awaited(t), 1, n) \in Seq(Message)
           /\ \A i \in 1..Len(SubSeq(Awaited(t), 1, n)) :
                 i \in 1..Len(Awaited(t)) /\ SubSeq(Awaited(t), 1, n)[i] = Awaited(t)[i]
<1>1. Awaited(t) \in Seq(Message) /\ Len(Awaited(t)) \in Nat
  BY AwaitedMessages, LenProperties
<1>2. \A i \in 1..n : Awaited(t)[i] \in Message
  BY <1>1, ElementOfSeq
<1>3. /\ SubSeq(Awaited(t), 1, n) \in Seq(Message)
      /\ Len(SubSeq(Awaited(t), 1, n)) = n
      /\ \A i \in 1..n : SubSeq(Awaited(t), 1, n)[i] = Awaited(t)[i]
  BY <1>1, <1>2, SubSeqProperties
<1>4. QED
  BY <1>1, <1>3

LEMMA PrefixMessages ==
    ASSUME Typed, NEW t \in Task, NEW n \in 0..Len(Awaited(t))
    PROVE  /\ SubSeq(Awaited(t), 1, n) \in Seq(Message)
           /\ \A i \in 1..Len(SubSeq(Awaited(t), 1, n)) :
                 /\ SubSeq(Awaited(t), 1, n)[i] # SagaMessage("SagaCompleted")
                 /\ SubSeq(Awaited(t), 1, n)[i].type \in Ends => pc[t] \in Late
  BY PrefixOf, AwaitedMessages

-----------------------------------------------------------------------------
(* What the messages on their way and in the logs rest on: a completion is *)
(* announced by the payment handler, and the end of a compensation by a    *)
(* task whose failure was announced before.                                *)
SaidFailed == \E i \in 1..Len(log[Outcomes]) : log[Outcomes][i].type = "SagaFailed"

Announced ==
    /\ flight \subseteq Message
    /\ \A m \in flight : m.type \notin Ends
    /\ SagaMessage("SagaCompleted") \in flight => Processed
    /\ \A place \in {Outcomes, Steps} : \A i \in 1..Len(log[place]) :
          log[place][i] = SagaMessage("SagaCompleted") => Processed

Ordered ==
    /\ \A t \in Task : pc[t] \in Late => SaidFailed
    /\ \A i \in 1..Len(log[Outcomes]) : log[Outcomes][i].type \in Ends =>
          \E j \in 1..Len(log[Outcomes]) : j < i /\ log[Outcomes][j].type = "SagaFailed"

TInv == LogsTyped /\ Announced /\ Ordered

(* A task comes to the late part of the failing path only by having told   *)
(* of the failure.                                                         *)
LEMMA LateAfterTold ==
    ASSUME Typed, [Next]_vars, NEW u \in Task, pc'[u] \in Late
    PROVE  pc[u] \in Late \/ (pc[u] = "tellFailed" /\ TaskStep(u))
<1> USE DEF Late
<1>0. pc \in [Task -> PC]
  BY DEF Typed, TypeOK
<1>1. ASSUME NEW t \in Task, TaskStep(t) PROVE pc[u] \in Late \/ (pc[u] = "tellFailed" /\ TaskStep(u))
  <2>1. CASE t # u
    <3>1. pc'[u] \in {pc[u], "delay", "findSaga"}
      BY <1>0, <1>1, <2>1
      DEF TaskStep, Passes, StartSaga, Load, Mark, Pay, Push, Reload, Fail, Compensate,
          MarkCompensated, MarkFinalFailure, CompleteFind, CompleteSave, FindOrder,
          SaveOrder, SettlePayment, SavePayment, FindSaga, SaveSaga, Scan, FindPayment, Goto,
          HandlerOf
    <3>2. QED
      BY <3>1
  <2>2. CASE t = u
    <3>1. CASE Compensate(u) \/ MarkCompensated(u) \/ MarkFinalFailure(u)
      BY <3>1 DEF Compensate, MarkCompensated, MarkFinalFailure
    <3>2. CASE Passes(u)
      BY <1>0, <1>1, <2>2, <3>2 DEF Passes, Goto, AfterStep
    <3>3. CASE SavePayment(u)
      BY <1>0, <3>3 DEF SavePayment, HandlerOf
    <3>4. CASE Pay(u) \/ SettlePayment(u)
      BY <1>0, <3>4 DEF Pay, SettlePayment, Goto
    <3>5. CASE \/ StartSaga(u) \/ Load(u) \/ Mark(u) \/ Push(u) \/ Reload(u) \/ Fail(u)
               \/ CompleteFind(u) \/ CompleteSave(u)
      BY <1>0, <3>5
      DEF StartSaga, Load, Mark, Push, Reload, Fail, CompleteFind, CompleteSave, Goto, AfterStep
    <3>6. CASE \/ FindOrder(u) \/ SaveOrder(u) \/ FindSaga(u) \/ SaveSaga(u) \/ Scan(u)
               \/ FindPayment(u)
      BY <1>0, <3>6
      DEF FindOrder, SaveOrder, FindSaga, SaveSaga, Scan, FindPayment, Goto, AfterCommand
    <3>7. QED
      BY <1>1, <2>2, <3>1, <3>2, <3>3, <3>4, <3>5, <3>6 DEF TaskStep
  <2>3. QED
    BY <2>1, <2>2
<1>2. ASSUME NEW t \in Task, CallFails(t) \/ SaveLost(t) PROVE pc[u] \in Late
  BY <1>0, <1>2 DEF CallFails, SaveLost, Goto, CaughtAt, AfterStep
<1>3. CASE NodeDown
  BY <1>0, <1>3 DEF NodeDown
<1>4. CASE UNCHANGED vars
  BY <1>4 DEF vars
<1>5. QED
  BY <1>1, <1>2, <1>3, <1>4 DEF Next

(* What a task leaves to setImmediate.                                     *)
LEMMA DetachedMessages ==
    ASSUME Typed, NEW t \in Task
    PROVE  /\ Detached(t) \subseteq Message
           /\ \A m \in Detached(t) : m.type \notin Ends
           /\ SagaMessage("SagaCompleted") \in Detached(t) => t = "paymentProcessed" /\ Processed
<1>1. pc[t] \in {"push", "completeSave"} => t \in {"orderCreated", "paymentProcessed"}
  BY RequestAssumption
  DEF Typed, AwaitsOfSaga, AwaitsOfRequests, Task, SagaTask, StepPath, FailurePath, Over
<1>2. /\ \A type : SagaMessage(type).type = type
      /\ \A type, step : StepMessage(type, step).type = type
  BY DEF SagaMessage, StepMessage
<1>3. CASE pc[t] = "start"
  <2>1. Detached(t) = {SagaMessage("SagaStarted")} /\ SagaMessage("SagaStarted") \in Message
    BY <1>3 DEF Detached, Message, OutcomeType
  <2>2. SagaMessage("SagaStarted") # SagaMessage("SagaCompleted")
    BY <1>2
  <2>3. QED
    BY <1>2, <2>1, <2>2 DEF Ends
<1>4. CASE pc[t] = "push"
  <2>1. StepOf(t) \in Step
    BY <1>1, <1>4 DEF StepOf, Step
  <2>2. /\ Detached(t) = {StepMessage("SagaStepCompleted", StepOf(t))}
        /\ StepMessage("SagaStepCompleted", StepOf(t)) \in Message
    BY <1>4, <2>1 DEF Detached, Message
  <2>3. StepMessage("SagaStepCompleted", StepOf(t)) # SagaMessage("SagaCompleted")
    BY <1>2
  <2>4. QED
    BY <1>2, <2>2, <2>3 DEF Ends
<1>5. CASE pc[t] = "completeSave"
  <2>1. t = "paymentProcessed" /\ Processed
    BY <1>1, <1>5
    DEF Typed, AwaitsOfSaga, Processed, StepPath, FailurePath, Over
  <2>2. Detached(t) = {SagaMessage("SagaCompleted")} /\ SagaMessage("SagaCompleted") \in Message
    BY <1>5 DEF Detached, Message, OutcomeType
  <2>3. QED
    BY <1>2, <2>1, <2>2 DEF Ends
<1>6. CASE pc[t] \notin {"start", "push", "completeSave"}
  BY <1>6 DEF Detached
<1>7. QED
  BY <1>3, <1>4, <1>5, <1>6

(* Messages that join the logs with their cause keep the causes first.     *)
LEMMA SentWithCause ==
    ASSUME LogsTyped, Announced, Ordered, NEW ms \in Seq(Message), LogGains(ms),
           \A i \in 1..Len(ms) : /\ ms[i] = SagaMessage("SagaCompleted") => Processed
                                 /\ ms[i].type \in Ends => SaidFailed
    PROVE  /\ SaidFailed => SaidFailed'
           /\ \A place \in {Outcomes, Steps} : \A i \in 1..Len(log'[place]) :
                 log'[place][i] = SagaMessage("SagaCompleted") => Processed
           /\ \A i \in 1..Len(log'[Outcomes]) : log'[Outcomes][i].type \in Ends =>
                 \E j \in 1..Len(log'[Outcomes]) :
                    j < i /\ log'[Outcomes][j].type = "SagaFailed"
<1>1. ASSUME NEW i \in 1..Len(log[Outcomes])
      PROVE  i \in 1..Len(log'[Outcomes]) /\ log'[Outcomes][i] = log[Outcomes][i]
  BY <1>1, Gains
<1>2. SaidFailed => SaidFailed'
  BY <1>1 DEF SaidFailed, Outcomes
<1>3. ASSUME NEW place \in {Outcomes, Steps}, NEW i \in 1..Len(log'[place]),
             log'[place][i] = SagaMessage("SagaCompleted")
      PROVE  Processed
  <2>1. CASE i \in 1..Len(log[place])
    <3>1. log'[place][i] = log[place][i]
      BY <2>1, Gains
    <3>2. QED
      BY <1>3, <2>1, <3>1 DEF Announced
  <2>2. CASE i \notin 1..Len(log[place])
    <3>1. PICK j \in 1..Len(ms) : log'[place][i] = ms[j]
      BY <2>2, Gains
    <3>2. QED
      BY <1>3, <3>1
  <2>3. QED
    BY <2>1, <2>2
<1>4. ASSUME NEW i \in 1..Len(log'[Outcomes]), log'[Outcomes][i].type \in Ends
      PROVE  \E j \in 1..Len(log'[Outcomes]) :
                j < i /\ log'[Outcomes][j].type = "SagaFailed"
  <2>1. CASE i \in 1..Len(log[Outcomes])
    <3>1. PICK j \in 1..Len(log[Outcomes]) : j < i /\ log[Outcomes][j].type = "SagaFailed"
      BY <1>1, <1>4, <2>1 DEF Ordered
    <3>2. QED
      BY <1>1, <3>1
  <2>2. CASE i \notin 1..Len(log[Outcomes])
    <3>1. i > Len(log[Outcomes]) /\ \E j \in 1..Len(ms) : log'[Outcomes][i] = ms[j]
      BY <2>2, Gains
    <3>2. SaidFailed
      BY <1>4, <3>1
    <3>3. PICK j \in 1..Len(log[Outcomes]) : log[Outcomes][j].type = "SagaFailed"
      BY <3>2 DEF SaidFailed
    <3>4. j < i
      <4>1. Len(log[Outcomes]) \in Nat
        BY LenProperties DEF LogsTyped
      <4>2. QED
        BY <3>1, <3>3, <4>1
    <3>5. QED
      BY <1>1, <3>3, <3>4
  <2>3. QED
    BY <2>1, <2>2
<1>5. QED
  BY <1>2, <1>3, <1>4

(* The message of a failure is in the log when its await returns.          *)
LEMMA FailureTold ==
    ASSUME LogsTyped, NEW t \in Task, pc[t] = "tellFailed", LogGains(Awaited(t))
    PROVE  SaidFailed'
<1> DEFINE m == SagaMessage("SagaFailed")
<1>1. Awaited(t) = <<m>> /\ LogOf(m) = Outcomes /\ m.type = "SagaFailed"
  BY OutcomePlace DEF Awaited, Outcomes, SagaMessage
<1> HIDE DEF m
<1>2. log[Outcomes] \in Seq(Message) /\ Outcomes \in DOMAIN log
  BY DEF LogsTyped
<1>3. log'[Outcomes] = log[Outcomes] \o <<m>>
  BY <1>1, <1>2 DEF LogGains
<1>4. /\ Len(log'[Outcomes]) = Len(log[Outcomes]) + 1 /\ Len(log[Outcomes]) \in Nat
      /\ log'[Outcomes][Len(log[Outcomes]) + 1] = m
  BY <1>2, <1>3, LenProperties
<1>5. QED
  BY <1>1, <1>4 DEF SaidFailed, Outcomes

LEMMA TInvStep == Typed /\ TInv /\ [TopicNext]_topicVars => TInv'
<1> SUFFICES ASSUME Typed, TInv, [TopicNext]_topicVars PROVE TInv'
  OBVIOUS
<1> USE DEF TInv
<1>0. [Next]_vars /\ (Processed => Processed') /\ LogsTyped /\ Announced /\ Ordered
  BY StepsBelow, ProcessedStays
<1>1. ASSUME NEW ms \in Seq(Message), LogGains(ms),
             \A i \in 1..Len(ms) : /\ ms[i] = SagaMessage("SagaCompleted") => Processed
                                   /\ ms[i].type \in Ends => SaidFailed,
             flight' \subseteq Message, \A m \in flight' : m.type \notin Ends,
             SagaMessage("SagaCompleted") \in flight' => Processed,
             \A u \in Task : pc'[u] \in Late => pc[u] \in Late \/ SaidFailed'
      PROVE  TInv'
  <2>1. LogsTyped'
    BY <1>0, <1>1, GainsTyped
  <2>2. Announced'
    BY <1>0, <1>1, SentWithCause DEF Announced, Outcomes, Steps, SagaMessage, Ends
  <2>3. Ordered'
    BY <1>0, <1>1, SentWithCause DEF Ordered, Outcomes, Ends, Late
  <2>4. QED
    BY <2>1, <2>2, <2>3
<1>2. ASSUME NEW t \in Task, Announces(t) PROVE TInv'
  <2>1. \A i \in 1..Len(Awaited(t)) :
            /\ Awaited(t)[i] = SagaMessage("SagaCompleted") => Processed
            /\ Awaited(t)[i].type \in Ends => SaidFailed
    BY <1>0, AwaitedMessages DEF Ordered
  <2>2. /\ flight' \subseteq Message /\ \A m \in flight' : m.type \notin Ends
        /\ SagaMessage("SagaCompleted") \in flight' => Processed
    BY <1>0, <1>2, DetachedMessages DEF Announces, Announced
  <2>3. ASSUME NEW u \in Task, pc'[u] \in Late PROVE pc[u] \in Late \/ SaidFailed'
    <3>1. CASE u = t
      BY <1>0, <1>2, <2>3, <3>1, LateAfterTold, FailureTold DEF Announces
    <3>2. CASE u # t
      <4>1. pc'[u] \in {pc[u], "delay", "findSaga"}
        BY <1>2, <3>2
        DEF Announces, TaskStep, Passes, StartSaga, Load, Mark, Pay, Push, Reload, Fail,
            Compensate, MarkCompensated, MarkFinalFailure, CompleteFind, CompleteSave,
            FindOrder, SaveOrder, SettlePayment, SavePayment, FindSaga, SaveSaga, Scan,
            FindPayment, Goto, HandlerOf, Typed, TypeOK
      <4>2. QED
        BY <2>3, <4>1 DEF Late
    <3>3. QED
      BY <3>1, <3>2
  <2>4. Awaited(t) \in Seq(Message) /\ LogGains(Awaited(t))
    BY <1>2, AwaitedMessages DEF Announces
  <2>5. QED
    BY <1>1, <2>1, <2>2, <2>3, <2>4
<1>3. ASSUME NEW t \in Task, Fails(t) PROVE TInv'
  <2>1. PICK n \in 0..Len(Awaited(t)) : LogGains(SubSeq(Awaited(t), 1, n))
    BY <1>3 DEF Fails
  <2>2. ASSUME NEW u \in Task, pc'[u] \in Late PROVE pc[u] \in Late
    BY <1>3, <2>2 DEF Fails, CallFails, Goto, CaughtAt, AfterStep, Late, Typed, TypeOK
  <2>3. \A i \in 1..Len(SubSeq(Awaited(t), 1, n)) :
            /\ SubSeq(Awaited(t), 1, n)[i] = SagaMessage("SagaCompleted") => Processed
            /\ SubSeq(Awaited(t), 1, n)[i].type \in Ends => SaidFailed
    BY <1>0, PrefixMessages DEF Ordered
  <2>4. SubSeq(Awaited(t), 1, n) \in Seq(Message)
    BY PrefixMessages
  <2>5. flight' = flight
    BY <1>3 DEF Fails
  <2>6. QED
    BY <1>0, <1>1, <2>1, <2>2, <2>3, <2>4, <2>5 DEF Announced
<1>4. ASSUME NEW message \in Message, Arrive(message) PROVE TInv'
  <2>1. <<message>> \in Seq(Message) /\ LogGains(<<message>>)
    BY <1>4 DEF Arrive
  <2>2. \A i \in 1..Len(<<message>>) : <<message>>[i] = message
    OBVIOUS
  <2>3. /\ message.type \notin Ends
        /\ message = SagaMessage("SagaCompleted") => Processed
    BY <1>0, <1>4 DEF Arrive, Announced
  <2>4. flight' \subseteq flight /\ pc' = pc
    BY <1>4 DEF Arrive, vars
  <2>5. \A i \in 1..Len(<<message>>) :
            /\ <<message>>[i] = SagaMessage("SagaCompleted") => Processed
            /\ <<message>>[i].type \in Ends => SaidFailed
    BY <2>2, <2>3
  <2>6. QED
    BY <1>0, <1>1, <2>1, <2>4, <2>5 DEF Announced
<1>5. CASE UNCHANGED log /\ flight' \subseteq flight /\ \A u \in Task : pc'[u] \in Late => pc[u] \in Late
  BY <1>0, <1>5
  DEF LogsTyped, Announced, Ordered, SaidFailed, Outcomes, Steps, Ends, Late, SagaMessage
<1>6. ASSUME NEW t \in Task, Unannounced(t) PROVE TInv'
  <2>1. UNCHANGED log /\ flight' \subseteq flight
    BY <1>6 DEF Unannounced
  <2>2. ASSUME NEW u \in Task, pc'[u] \in Late PROVE pc[u] \in Late
    BY <1>6, <2>2 DEF Unannounced, SaveLost, Goto, CaughtAt, AfterStep, Late, Typed, TypeOK
  <2>3. QED
    BY <1>5, <2>1, <2>2
<1>7. CASE Down
  <2>1. UNCHANGED log /\ flight' \subseteq flight
    BY <1>7 DEF Down
  <2>2. ASSUME NEW u \in Task, pc'[u] \in Late PROVE pc[u] \in Late
    BY <1>7, <2>2 DEF Down, NodeDown, vars, Late
  <2>3. QED
    BY <1>5, <2>1, <2>2
<1>8. CASE UNCHANGED topicVars
  BY <1>5, <1>8 DEF topicVars, vars
<1>9. QED
  BY <1>2, <1>3, <1>4, <1>6, <1>7, <1>8 DEF TopicNext

LEMMA TInvAlways == TopicSpec => []TInv
<1>1. TopicInit => TInv
  <2> SUFFICES ASSUME TopicInit PROVE TInv
    OBVIOUS
  <2>1. log = [place \in {Outcomes, Steps} |-> <<>>] /\ flight = {}
    BY DEF TopicInit
  <2>2. LogsTyped
    BY <2>1, EmptySeq DEF LogsTyped
  <2>3. Announced
    BY <2>1, EmptySeq DEF Announced
  <2>4. \A t \in Task : pc[t] \notin Late
    BY DEF TopicInit, Init, Late, FirstAwait
  <2>5. Ordered
    BY <2>1, <2>4, EmptySeq DEF Ordered
  <2>6. QED
    BY <2>2, <2>3, <2>5 DEF TInv
<1>2. QED
  BY <1>1, TInvStep, TypedAlways, TopicsKeepSaga, PTL DEF TopicSpec, TopicSafety

-----------------------------------------------------------------------------
(* Messages on their way and in the logs are messages of this saga.        *)
THEOREM TopicsTypeCorrect == TopicSpec => []TopicTypeOK
<1>1. TInv => TopicTypeOK
  BY DEF TInv, LogsTyped, Announced, TopicTypeOK
<1>2. QED
  BY <1>1, TInvAlways, PTL

(* A SagaCompleted that a consumer can read speaks of a COMPLETED payment, *)
(* for any requests and any failures.                                      *)
THEOREM CompletionIsPaid == TopicSpec => []CompletedEventWasPaid
<1>1. Money /\ TInv => CompletedEventWasPaid
  <2> SUFFICES ASSUME Money, TInv, Logged(SagaMessage("SagaCompleted"))
               PROVE  payment = "completed"
    BY DEF CompletedEventWasPaid
  <2>1. LogOf(SagaMessage("SagaCompleted")) = Outcomes
    BY OutcomePlace DEF Outcomes
  <2>2. DOMAIN log[Outcomes] = 1..Len(log[Outcomes])
    BY LenProperties DEF TInv, LogsTyped
  <2>3. Processed
    BY <2>1, <2>2 DEF Logged, TInv, Announced
  <2>4. QED
    BY <2>3 DEF Money, ChargedFirst
<1>2. QED
  BY <1>1, TInvAlways, MoneyAlways, TopicsKeepSaga, PTL

(* In the topic of the outcomes no compensation, finished or given up,     *)
(* comes before the failure it answers.                                    *)
THEOREM FailureComesFirst == TopicSpec => []CompensatedAfterFailed
<1>1. TInv => CompensatedAfterFailed
  <2> SUFFICES ASSUME TInv, NEW i \in DOMAIN log[Outcomes], log[Outcomes][i].type \in Ends
               PROVE  \E j \in 1..(i - 1) : log[Outcomes][j].type = "SagaFailed"
    BY DEF CompensatedAfterFailed, Ends
  <2>1. DOMAIN log[Outcomes] = 1..Len(log[Outcomes]) /\ Len(log[Outcomes]) \in Nat
    BY LenProperties DEF TInv, LogsTyped
  <2>2. PICK j \in 1..Len(log[Outcomes]) : j < i /\ log[Outcomes][j].type = "SagaFailed"
    BY <2>1 DEF TInv, Ordered
  <2>3. j \in 1..(i - 1)
    BY <2>1, <2>2
  <2>4. QED
    BY <2>2, <2>3
<1>2. QED
  BY <1>1, TInvAlways, PTL

-----------------------------------------------------------------------------
(* What the topics say of a failure rests on the row: a failure that was   *)
(* told was saved before, a step that was undone is a step of the row.     *)
FailureTypes == {"SagaFailed", "SagaStepCompensated"}

Backed(m) ==
    /\ m.type = "SagaFailed" => Decided
    /\ \A step \in Step :
          m = StepMessage("SagaStepCompensated", step) => Contains(saga.completedSteps, step)

FailuresBacked ==
    /\ \A m \in flight : m.type \notin FailureTypes
    /\ \A place \in {Outcomes, Steps} : \A i \in 1..Len(log[place]) : Backed(log[place][i])

LEMMA DetachedQuiet ==
    ASSUME NEW t \in Task, NEW m \in Detached(t) PROVE m.type \notin FailureTypes
<1>1. /\ \A type : SagaMessage(type).type = type
      /\ \A type, step : StepMessage(type, step).type = type
  BY DEF SagaMessage, StepMessage
<1>2. \/ m = SagaMessage("SagaStarted")
      \/ m = SagaMessage("SagaCompleted")
      \/ m = StepMessage("SagaStepCompleted", StepOf(t))
  BY DEF Detached
<1>3. QED
  BY <1>1, <1>2 DEF FailureTypes

(* A message of another kind says nothing of a failure.                    *)
LEMMA OthersBacked ==
    ASSUME NEW m, m.type \notin FailureTypes PROVE Backed(m)
<1>1. \A step : StepMessage("SagaStepCompensated", step).type = "SagaStepCompensated"
  BY DEF StepMessage
<1>2. QED
  BY <1>1 DEF Backed, FailureTypes

(* A task tells of a failure it saved, and undoes the steps it read.       *)
LEMMA AwaitedBacked ==
    ASSUME Typed, CopiesContained, StatusKnown, NEW t \in Task, NEW i \in 1..Len(Awaited(t))
    PROVE  Backed(Awaited(t)[i])
<1>0. /\ \A type : SagaMessage(type).type = type
      /\ \A type, step : StepMessage(type, step).type = type
  BY DEF SagaMessage, StepMessage
<1>1. CASE pc[t] = "compensate"
  <2> DEFINE steps == mem[t].completedSteps
  <2>1. steps \in Seq(Step)
    BY DEF Typed, TypeOK, SagaRow
  <2>2. \A s \in Step : Contains(steps, s) => Contains(saga.completedSteps, s)
    BY DEF CopiesContained
  <2>3. Awaited(t) = UndoMessages(t)
    BY <1>1 DEF Awaited
  <2>4. UndoMessages(t) = [j \in 1..Len(steps) |->
                             StepMessage("SagaStepCompensated", Reverse(steps)[j])]
    BY DEF UndoMessages
  <2> HIDE DEF steps
  <2>5. Len(steps) \in Nat
    BY <2>1, LenProperties
  <2>6. UndoMessages(t) \in Seq(Message)
    BY <2>3, AwaitedMessages
  <2>7. Len(UndoMessages(t)) = Len(steps)
    BY <2>4, <2>5, <2>6, LenProperties
  <2>8. i \in 1..Len(steps) /\ (Len(steps) - i) + 1 \in 1..Len(steps)
    BY <2>3, <2>5, <2>7
  <2>9. Reverse(steps)[i] = steps[(Len(steps) - i) + 1]
    BY <2>8 DEF Reverse
  <2>10. Awaited(t)[i] = StepMessage("SagaStepCompensated", Reverse(steps)[i])
    BY <2>3, <2>4, <2>8
  <2>11. \A s : Awaited(t)[i] = StepMessage("SagaStepCompensated", s) => s = Reverse(steps)[i]
    BY <2>10 DEF StepMessage
  <2>12. Contains(steps, Reverse(steps)[i])
    BY <2>8, <2>9 DEF Contains
  <2>13. Awaited(t)[i].type = "SagaStepCompensated"
    BY <1>0, <2>10
  <2>14. QED
    BY <2>2, <2>11, <2>12, <2>13 DEF Backed
<1>2. CASE pc[t] = "tellFailed"
  <2>1. Awaited(t)[i] = SagaMessage("SagaFailed")
    BY <1>2 DEF Awaited
  <2>2. Decided
    BY <1>2 DEF StatusKnown
  <2>3. QED
    BY <1>0, <2>1, <2>2 DEF Backed
<1>3. CASE pc[t] \notin {"compensate", "tellFailed"}
  <2>1. Awaited(t)[i].type \in {"SagaCompensated", "SagaCompensationFailed"}
    <3>1. CASE pc[t] = "tellCompensated"
      BY <1>0, <3>1 DEF Awaited
    <3>2. CASE pc[t] = "tellFinal"
      BY <1>0, <3>2 DEF Awaited
    <3>3. CASE pc[t] \notin {"tellCompensated", "tellFinal"}
      BY <1>3, <3>3, EmptySeq DEF Awaited
    <3>4. QED
      BY <3>1, <3>2, <3>3
  <2>2. QED
    BY <2>1, OthersBacked DEF FailureTypes
<1>4. QED
  BY <1>1, <1>2, <1>3

(* What the row says of a failure it says for good.                        *)
LEMMA BackedStays ==
    ASSUME Typed, CopiesCurrent, StatusKnown, [Next]_vars
    PROVE  /\ Decided => Decided'
           /\ \A step \in Step : Contains(saga.completedSteps, step)
                                    => Contains(saga'.completedSteps, step)
<1>1. Decided => Decided'
  <2>1. CASE NodeDown \/ UNCHANGED vars
    BY <2>1 DEF NodeDown, vars, Decided
  <2>2. QED
    BY <2>1, DecidedStays DEF Next
<1>2. QED
  BY <1>1, RecordedStays

(* Backed messages that join the logs keep the logs backed.                *)
LEMMA SentBacked ==
    ASSUME Typed, CopiesCurrent, StatusKnown, LogsTyped, FailuresBacked, [Next]_vars,
           NEW ms \in Seq(Message), LogGains(ms), \A i \in 1..Len(ms) : Backed(ms[i]),
           \A m \in flight' : m.type \notin FailureTypes
    PROVE  FailuresBacked'
<1>1. ASSUME NEW place \in {Outcomes, Steps}, NEW i \in 1..Len(log'[place])
      PROVE  Backed(log'[place][i])
  <2>1. CASE i \in 1..Len(log[place])
    <3>1. log'[place][i] = log[place][i]
      BY <2>1, Gains
    <3>2. QED
      BY <2>1, <3>1 DEF FailuresBacked
  <2>2. CASE i \notin 1..Len(log[place])
    <3>1. PICK j \in 1..Len(ms) : log'[place][i] = ms[j]
      BY <2>2, Gains
    <3>2. QED
      BY <3>1
  <2>3. QED
    BY <2>1, <2>2
<1>2. ASSUME NEW place \in {Outcomes, Steps}, NEW i \in 1..Len(log'[place])
      PROVE  Backed(log[place][i])'
  BY <1>1, BackedStays DEF Backed, Outcomes, Steps, StepMessage
<1>3. QED
  BY <1>2 DEF FailuresBacked, Outcomes, Steps

LEMMA BackedStep ==
    ASSUME Typed, CopiesCurrent, CopiesContained, StatusKnown, LogsTyped, FailuresBacked,
           [TopicNext]_topicVars
    PROVE  FailuresBacked'
<1>0. [Next]_vars
  BY StepsBelow
<1>1. ASSUME NEW t \in Task, Announces(t) PROVE FailuresBacked'
  <2>1. Awaited(t) \in Seq(Message) /\ LogGains(Awaited(t))
    BY <1>1, AwaitedMessages DEF Announces
  <2>2. \A m \in flight' : m.type \notin FailureTypes
    BY <1>1, DetachedQuiet DEF Announces, FailuresBacked
  <2>3. QED
    BY <1>0, <2>1, <2>2, AwaitedBacked, SentBacked
<1>2. ASSUME NEW t \in Task, Fails(t) PROVE FailuresBacked'
  <2>1. PICK n \in 0..Len(Awaited(t)) : LogGains(SubSeq(Awaited(t), 1, n))
    BY <1>2 DEF Fails
  <2>2. /\ SubSeq(Awaited(t), 1, n) \in Seq(Message)
        /\ \A i \in 1..Len(SubSeq(Awaited(t), 1, n)) :
              i \in 1..Len(Awaited(t)) /\ SubSeq(Awaited(t), 1, n)[i] = Awaited(t)[i]
    BY PrefixOf
  <2>3. \A i \in 1..Len(SubSeq(Awaited(t), 1, n)) : Backed(SubSeq(Awaited(t), 1, n)[i])
    BY <2>2, AwaitedBacked
  <2>4. \A m \in flight' : m.type \notin FailureTypes
    BY <1>2 DEF Fails, FailuresBacked
  <2>5. QED
    BY <1>0, <2>1, <2>2, <2>3, <2>4, SentBacked
<1>3. ASSUME NEW message \in Message, Arrive(message) PROVE FailuresBacked'
  <2>1. <<message>> \in Seq(Message) /\ LogGains(<<message>>)
    BY <1>3 DEF Arrive
  <2>2. Backed(message)
    BY <1>3, OthersBacked DEF Arrive, FailuresBacked
  <2>3. \A i \in 1..Len(<<message>>) : Backed(<<message>>[i])
    BY <2>2
  <2>4. \A m \in flight' : m.type \notin FailureTypes
    BY <1>3 DEF Arrive, FailuresBacked
  <2>5. QED
    BY <1>0, <2>1, <2>3, <2>4, SentBacked
<1>4. ASSUME UNCHANGED log, flight' \subseteq flight PROVE FailuresBacked'
  BY <1>0, <1>4, BackedStays DEF FailuresBacked, Backed, Outcomes, Steps, StepMessage
<1>5. Down \/ UNCHANGED topicVars => UNCHANGED log /\ flight' \subseteq flight
  BY DEF Down, topicVars
<1>6. ASSUME NEW t \in Task, Unannounced(t) PROVE UNCHANGED log /\ flight' \subseteq flight
  BY <1>6 DEF Unannounced
<1>7. QED
  BY <1>1, <1>2, <1>3, <1>4, <1>5, <1>6 DEF TopicNext

LEMMA BackedAlways == ASSUME TimerOutlastsStep PROVE TopicSpec => []FailuresBacked
<1>1. TopicInit => FailuresBacked
  BY EmptySeq DEF TopicInit, FailuresBacked
<1>2. TInv => LogsTyped
  BY DEF TInv
<1>3. /\ Typed /\ CopiesCurrent /\ CopiesContained /\ StatusKnown /\ LogsTyped /\ FailuresBacked
      /\ [TopicNext]_topicVars
      => FailuresBacked'
  BY BackedStep
<1>4. QED
  BY <1>1, <1>2, <1>3, TInvAlways, TypedAlways, CopiesAlways, ContainedAlways, StatusAlways,
     TopicsKeepSaga, PTL
  DEF TopicSpec, TopicSafety

(* What a log says is backed.                                              *)
LEMMA LoggedBacked ==
    ASSUME TInv, FailuresBacked, NEW m, Logged(m), LogOf(m) \in {Outcomes, Steps}
    PROVE  Backed(m)
<1>1. DOMAIN log[LogOf(m)] = 1..Len(log[LogOf(m)])
  BY LenProperties DEF TInv, LogsTyped
<1>2. QED
  BY <1>1 DEF Logged, FailuresBacked

(* No step is reported undone that the saga never recorded as done, for    *)
(* any requests and any failures, as long as the timer outlasts the        *)
(* payment step.                                                           *)
THEOREM UndoneWereDone == ASSUME TimerOutlastsStep PROVE TopicSpec => []UndoneStepsWereDone
<1>1. TInv /\ FailuresBacked => UndoneStepsWereDone
  <2> SUFFICES ASSUME TInv, FailuresBacked, NEW step \in Step,
                      Logged(StepMessage("SagaStepCompensated", step))
               PROVE  Contains(saga.completedSteps, step)
    BY DEF UndoneStepsWereDone
  <2>1. LogOf(StepMessage("SagaStepCompensated", step)) = Steps
    BY StepPlace DEF Steps
  <2>2. QED
    BY <2>1, LoggedBacked DEF Backed
<1>2. QED
  BY <1>1, TInvAlways, BackedAlways, PTL

(* A saga that was reported failed never says again that it is under way,  *)
(* for any requests and any failures, although steps save the entity they  *)
(* had read before, as long as the timer outlasts the payment step.        *)
THEOREM FailureStays == ASSUME TimerOutlastsStep PROVE TopicSpec => []FailureStaysVisible
<1>1. TInv /\ FailuresBacked => FailureStaysVisible
  <2> SUFFICES ASSUME TInv, FailuresBacked, Logged(SagaMessage("SagaFailed"))
               PROVE  Decided
    BY DEF FailureStaysVisible, Decided
  <2>1. LogOf(SagaMessage("SagaFailed")) = Outcomes
    BY OutcomePlace DEF Outcomes
  <2>2. SagaMessage("SagaFailed").type = "SagaFailed"
    BY DEF SagaMessage
  <2>3. QED
    BY <2>1, <2>2, LoggedBacked DEF Backed
<1>2. QED
  BY <1>1, TInvAlways, BackedAlways, PTL

-----------------------------------------------------------------------------
(* What is sent by setImmediate is said once: its sender has gone past the *)
(* await behind which it is sent, and no task goes back.                   *)
Sent(m) ==
    /\ m = SagaMessage("SagaStarted") => Place("orderCreated", pc["orderCreated"]) > 4
    /\ \A t \in {"orderCreated", "paymentProcessed"} :
          m = StepMessage("SagaStepCompleted", StepOf(t)) => Place(t, pc[t]) > 12
    /\ m = SagaMessage("SagaCompleted") => Place("paymentProcessed", pc["paymentProcessed"]) > 21

SaidOnce ==
    /\ \A m \in flight : m.type \in Aside /\ Sent(m)
    /\ \A m : m.type \in Aside =>
          \A place \in {Outcomes, Steps} : \A i \in 1..Len(log[place]) :
              log[place][i] = m => Sent(m) /\ m \notin flight
    /\ \A place \in {Outcomes, Steps} : \A i, j \in 1..Len(log[place]) :
          log[place][i] = log[place][j] /\ log[place][i].type \in Aside => i = j

LEMMA PlaceType == \A t, await : Place(t, await) \in Nat
  BY DEF Place

(* The messages that are told apart.                                       *)
LEMMA AsidesApart ==
    /\ SagaMessage("SagaStarted") # SagaMessage("SagaCompleted")
    /\ \A type, other, step : SagaMessage(type) # StepMessage(other, step)
    /\ StepMessage("SagaStepCompleted", "payment_processing")
          # StepMessage("SagaStepCompleted", "order_confirmation")
    /\ \A type : SagaMessage(type).type = type
    /\ \A type, step : StepMessage(type, step).type = type
<1>1. /\ \A type : SagaMessage(type).type = type
      /\ \A type, step : StepMessage(type, step).type = type /\ StepMessage(type, step).stepName = step
  BY DEF SagaMessage, StepMessage
<1>2. ASSUME NEW type, NEW other, NEW step PROVE SagaMessage(type) # StepMessage(other, step)
  <2>1. "stepName" \in DOMAIN StepMessage(other, step)
    BY DEF StepMessage
  <2>2. "stepName" \notin DOMAIN SagaMessage(type)
    BY DEF SagaMessage
  <2>3. QED
    BY <2>1, <2>2
<1>3. QED
  BY <1>1, <1>2

(* What was sent stays sent.                                               *)
LEMMA SentStays == ASSUME Moves \/ UNCHANGED pc, NEW m, Sent(m) PROVE Sent(m)'
<1>1. \A t \in {"orderCreated", "paymentProcessed"} : Place(t, pc'[t]) >= Place(t, pc[t])
  BY PlaceType DEF Moves, Further, Task, SagaTask
<1>2. \A t : (Place(t, pc[t]))' = Place(t, pc'[t])
  BY DEF Place
<1>3. QED
  BY <1>1, <1>2, PlaceType DEF Sent, SagaMessage, StepMessage, StepOf

(* A message left to setImmediate was not sent before, and now is.         *)
LEMMA SentNow ==
    ASSUME Typed, Money, FailureIsExcused, NEW t \in Task, TaskStep(t), NEW m \in Detached(t)
    PROVE  m.type \in Aside /\ ~Sent(m) /\ Sent(m)'
<1>0. Further(t, pc'[t])
  BY StepMoves
<1>1. \A u : (Place(u, pc[u]))' = Place(u, pc'[u])
  BY DEF Place
<1>2. CASE pc[t] = "start"
  <2>1. t = "orderCreated" /\ m = SagaMessage("SagaStarted")
    BY <1>2, WhoPays DEF Detached
  <2>2. Place(t, pc[t]) = 4 /\ Place(t, pc'[t]) > 4
    BY <1>0, <1>2, Places DEF Further
  <2>3. m # SagaMessage("SagaCompleted") /\ \A step : m # StepMessage("SagaStepCompleted", step)
    BY <2>1, AsidesApart
  <2>4. ~Sent(m)
    BY <2>1, <2>2 DEF Sent
  <2>5. Sent(m)'
    BY <1>1, <2>1, <2>2, <2>3 DEF Sent, SagaMessage, StepMessage
  <2>6. QED
    BY <2>1, <2>4, <2>5, AsidesApart DEF Aside
<1>3. CASE pc[t] = "push"
  <2>1. t \in {"orderCreated", "paymentProcessed"} /\ m = StepMessage("SagaStepCompleted", StepOf(t))
    BY <1>3, WhoPays DEF Detached
  <2>2. Place(t, pc[t]) = 12 /\ Place(t, pc'[t]) > 12
    BY <1>0, <1>3, Places DEF Further
  <2>3. /\ m # SagaMessage("SagaCompleted") /\ m # SagaMessage("SagaStarted")
        /\ \A u \in {"orderCreated", "paymentProcessed"} :
              m = StepMessage("SagaStepCompleted", StepOf(u)) => u = t
    BY <2>1, AsidesApart DEF StepOf
  <2>4. ~Sent(m)
    BY <2>1, <2>2 DEF Sent
  <2>5. Sent(m)'
    BY <1>1, <2>1, <2>2, <2>3 DEF Sent, SagaMessage, StepMessage, StepOf
  <2>6. QED
    BY <2>1, <2>4, <2>5, AsidesApart DEF Aside
<1>4. CASE pc[t] = "completeSave"
  <2>1. t = "paymentProcessed" /\ m = SagaMessage("SagaCompleted")
    BY <1>4, WhoPays DEF Detached
  <2>2. Place(t, pc[t]) = 21 /\ Place(t, pc'[t]) > 21
    BY <1>0, <1>4, Places DEF Further
  <2>3. m # SagaMessage("SagaStarted") /\ \A step : m # StepMessage("SagaStepCompleted", step)
    BY <2>1, AsidesApart
  <2>4. ~Sent(m)
    BY <2>1, <2>2 DEF Sent
  <2>5. Sent(m)'
    BY <1>1, <2>1, <2>2, <2>3 DEF Sent, SagaMessage, StepMessage
  <2>6. QED
    BY <2>1, <2>4, <2>5, AsidesApart DEF Aside
<1>5. QED
  BY <1>2, <1>3, <1>4 DEF Detached

(* Messages that are awaited are none of these.                            *)
LEMMA AwaitedLoud ==
    ASSUME Typed, NEW t \in Task, NEW i \in 1..Len(Awaited(t))
    PROVE  Awaited(t)[i].type \notin Aside
<1>1. CASE pc[t] = "compensate"
  <2>1. Awaited(t) = UndoMessages(t) /\ i \in 1..Len(UndoMessages(t))
    BY <1>1 DEF Awaited
  <2>2. UndoMessages(t) \in Seq(Message)
    BY <2>1, AwaitedMessages
  <2>3. DOMAIN UndoMessages(t) = 1..Len(UndoMessages(t))
    BY <2>2, LenProperties
  <2>4. Awaited(t)[i] = StepMessage("SagaStepCompensated", Reverse(mem[t].completedSteps)[i])
    BY <2>1, <2>3 DEF UndoMessages
  <2>5. QED
    BY <2>4, AsidesApart DEF Aside
<1>2. CASE pc[t] # "compensate"
  <2>1. Awaited(t)[i].type \in {"SagaFailed", "SagaCompensated", "SagaCompensationFailed"}
    <3>1. CASE pc[t] \in {"tellFailed", "tellCompensated", "tellFinal"}
      BY <3>1, AsidesApart DEF Awaited
    <3>2. CASE pc[t] \notin {"tellFailed", "tellCompensated", "tellFinal"}
      BY <1>2, <3>2, EmptySeq DEF Awaited
    <3>3. QED
      BY <3>1, <3>2
  <2>2. QED
    BY <2>1 DEF Aside
<1>3. QED
  BY <1>1, <1>2

(* What joins the logs on the failing path leaves the others as they are.  *)
LEMMA LoudGains ==
    ASSUME LogsTyped, SaidOnce, NEW ms \in Seq(Message), LogGains(ms),
           \A i \in 1..Len(ms) : ms[i].type \notin Aside,
           NEW place \in {Outcomes, Steps}, NEW i \in 1..Len(log'[place]),
           log'[place][i].type \in Aside
    PROVE  i \in 1..Len(log[place]) /\ log'[place][i] = log[place][i]
  BY Gains

(* The invariant after a step, from its parts.                             *)
LEMMA SaidOnceNext ==
    ASSUME \A m \in flight' : m.type \in Aside /\ Sent(m)',
           \A m : m.type \in Aside =>
              \A place \in {Outcomes, Steps} : \A i \in 1..Len(log'[place]) :
                  log'[place][i] = m => Sent(m)' /\ m \notin flight',
           \A place \in {Outcomes, Steps} : \A i, j \in 1..Len(log'[place]) :
              log'[place][i] = log'[place][j] /\ log'[place][i].type \in Aside => i = j
    PROVE  SaidOnce'
<1>1. Outcomes' = Outcomes /\ Steps' = Steps /\ Aside' = Aside
  BY DEF Outcomes, Steps, Aside
<1>2. QED
  BY <1>1 DEF SaidOnce

LEMMA SaidOnceStep ==
    ASSUME Typed, Money, FailureIsExcused, LogsTyped, SaidOnce, [TopicNext]_topicVars
    PROVE  SaidOnce'
<1>0. ASSUME NEW m, Sent(m) PROVE Sent(m)'
  BY <1>0, StepsBelow, StepMoves, FailureMoves, NodeDownMoves, SentStays DEF Next, vars
<1>1. ASSUME NEW ms \in Seq(Message), LogGains(ms), \A i \in 1..Len(ms) : ms[i].type \notin Aside,
             \A m \in flight' : m \in flight \/ (m.type \in Aside /\ ~Sent(m) /\ Sent(m)')
      PROVE  SaidOnce'
  <2>1. \A m \in flight' : m.type \in Aside /\ Sent(m)'
    BY <1>0, <1>1 DEF SaidOnce
  <2>2. ASSUME NEW m, m.type \in Aside, NEW place \in {Outcomes, Steps},
               NEW i \in 1..Len(log'[place]), log'[place][i] = m
        PROVE  Sent(m)' /\ m \notin flight'
    <3>1. i \in 1..Len(log[place]) /\ log[place][i] = m
      BY <1>1, <2>2, LoudGains
    <3>2. Sent(m) /\ m \notin flight
      BY <2>2, <3>1 DEF SaidOnce
    <3>3. QED
      BY <1>0, <1>1, <3>2
  <2>3. ASSUME NEW place \in {Outcomes, Steps}, NEW i \in 1..Len(log'[place]),
               NEW j \in 1..Len(log'[place]), log'[place][i] = log'[place][j],
               log'[place][i].type \in Aside
        PROVE  i = j
    <3>1. /\ i \in 1..Len(log[place]) /\ log'[place][i] = log[place][i]
          /\ j \in 1..Len(log[place]) /\ log'[place][j] = log[place][j]
      BY <1>1, <2>3, LoudGains
    <3>2. QED
      BY <2>3, <3>1 DEF SaidOnce
  <2>4. QED
    BY <2>1, <2>2, <2>3, SaidOnceNext
<1>2. ASSUME NEW t \in Task, Announces(t) PROVE SaidOnce'
  <2>1. Awaited(t) \in Seq(Message) /\ LogGains(Awaited(t)) /\ TaskStep(t)
    BY <1>2, AwaitedMessages DEF Announces
  <2>2. \A m \in flight' : m \in flight \/ (m.type \in Aside /\ ~Sent(m) /\ Sent(m)')
    BY <1>2, <2>1, SentNow DEF Announces
  <2>3. QED
    BY <1>1, <2>1, <2>2, AwaitedLoud
<1>3. ASSUME NEW t \in Task, Fails(t) PROVE SaidOnce'
  <2>1. PICK n \in 0..Len(Awaited(t)) : LogGains(SubSeq(Awaited(t), 1, n))
    BY <1>3 DEF Fails
  <2>2. /\ SubSeq(Awaited(t), 1, n) \in Seq(Message)
        /\ \A i \in 1..Len(SubSeq(Awaited(t), 1, n)) :
              i \in 1..Len(Awaited(t)) /\ SubSeq(Awaited(t), 1, n)[i] = Awaited(t)[i]
    BY PrefixOf
  <2>3. \A i \in 1..Len(SubSeq(Awaited(t), 1, n)) : SubSeq(Awaited(t), 1, n)[i].type \notin Aside
    BY <2>2, AwaitedLoud
  <2>4. flight' = flight
    BY <1>3 DEF Fails
  <2>5. QED
    BY <1>1, <2>1, <2>2, <2>3, <2>4
<1>4. ASSUME NEW message \in Message, Arrive(message) PROVE SaidOnce'
  <2>1. /\ message \in flight /\ flight' = flight \ {message} /\ message.type \in Aside
        /\ Sent(message) /\ UNCHANGED pc
    BY <1>4 DEF Arrive, SaidOnce, vars
  <2>2. \A place \in {Outcomes, Steps} :
           log'[place] \in {log[place], log[place] \o <<message>>}
    BY <1>4 DEF Arrive, LogGains, LogsTyped
  <2>3. ASSUME NEW place \in {Outcomes, Steps}
        PROVE  \A i \in 1..Len(log'[place]) :
                  \/ i \in 1..Len(log[place]) /\ log'[place][i] = log[place][i]
                  \/ i = Len(log[place]) + 1 /\ log'[place][i] = message
    <3>1. log[place] \in Seq(Message) /\ <<message>> \in Seq(Message)
          /\ Len(<<message>>) = 1 /\ <<message>>[1] = message
      BY DEF LogsTyped
    <3>2. /\ Len(log[place] \o <<message>>) = Len(log[place]) + 1
          /\ \A i \in 1..Len(log[place]) + 1 :
                (log[place] \o <<message>>)[i] = IF i <= Len(log[place]) THEN log[place][i]
                                                 ELSE <<message>>[i - Len(log[place])]
      BY <3>1, ConcatProperties
    <3>3. Len(log[place]) \in Nat
      BY <3>1, LenProperties
    <3>4. \A i \in 1..Len(log[place]) + 1 : \/ i \in 1..Len(log[place])
                                           \/ /\ i = Len(log[place]) + 1
                                              /\ i - Len(log[place]) = 1
                                              /\ ~(i <= Len(log[place]))
      BY <3>3
    <3>5. \A i \in 1..Len(log[place] \o <<message>>) :
             \/ i \in 1..Len(log[place]) /\ (log[place] \o <<message>>)[i] = log[place][i]
             \/ i = Len(log[place]) + 1 /\ (log[place] \o <<message>>)[i] = message
      BY <3>1, <3>2, <3>3, <3>4
    <3>6. QED
      BY <2>2, <3>5
  <2>4. \A m \in flight' : m.type \in Aside /\ Sent(m)'
    BY <1>0, <2>1 DEF SaidOnce
  <2>5. ASSUME NEW m, m.type \in Aside, NEW place \in {Outcomes, Steps},
               NEW i \in 1..Len(log'[place]), log'[place][i] = m
        PROVE  Sent(m)' /\ m \notin flight'
    <3>1. CASE i \in 1..Len(log[place]) /\ log'[place][i] = log[place][i]
      BY <1>0, <2>1, <2>5, <3>1 DEF SaidOnce
    <3>2. CASE i = Len(log[place]) + 1 /\ log'[place][i] = message
      BY <1>0, <2>1, <2>5, <3>2
    <3>3. QED
      BY <2>3, <3>1, <3>2
  <2>6. ASSUME NEW place \in {Outcomes, Steps}, NEW i \in 1..Len(log'[place]),
               NEW j \in 1..Len(log'[place]), log'[place][i] = log'[place][j],
               log'[place][i].type \in Aside
        PROVE  i = j
    <3>1. \A k \in 1..Len(log[place]) : log[place][k] # message
      BY <2>1 DEF SaidOnce
    <3>2. CASE /\ i \in 1..Len(log[place]) /\ log'[place][i] = log[place][i]
               /\ j \in 1..Len(log[place]) /\ log'[place][j] = log[place][j]
      BY <2>6, <3>2 DEF SaidOnce
    <3>3. QED
      BY <2>3, <2>6, <3>1, <3>2
  <2>7. QED
    BY <2>4, <2>5, <2>6, SaidOnceNext
<1>5. ASSUME UNCHANGED log, flight' \subseteq flight PROVE SaidOnce'
  <2>1. \A m \in flight' : m.type \in Aside /\ Sent(m)'
    BY <1>0, <1>5 DEF SaidOnce
  <2>2. \A m : m.type \in Aside =>
           \A place \in {Outcomes, Steps} : \A i \in 1..Len(log'[place]) :
               log'[place][i] = m => Sent(m)' /\ m \notin flight'
    BY <1>0, <1>5 DEF SaidOnce
  <2>3. \A place \in {Outcomes, Steps} : \A i, j \in 1..Len(log'[place]) :
           log'[place][i] = log'[place][j] /\ log'[place][i].type \in Aside => i = j
    BY <1>5 DEF SaidOnce
  <2>4. QED
    BY <2>1, <2>2, <2>3, SaidOnceNext
<1>6. Down \/ UNCHANGED topicVars => UNCHANGED log /\ flight' \subseteq flight
  BY DEF Down, topicVars
<1>7. ASSUME NEW t \in Task, Unannounced(t) PROVE UNCHANGED log /\ flight' \subseteq flight
  BY <1>7 DEF Unannounced
<1>8. QED
  BY <1>2, <1>3, <1>4, <1>5, <1>6, <1>7 DEF TopicNext

(* SagaStarted, SagaCompleted and each SagaStepCompleted is logged at most *)
(* once, for any requests and any failures.                                *)
THEOREM SaidAtMostOnce == TopicSpec => []ToldOnce
<1>1. TopicInit => SaidOnce
  BY EmptySeq DEF TopicInit, SaidOnce
<1>2. Typed /\ Money /\ FailureIsExcused /\ LogsTyped /\ SaidOnce /\ [TopicNext]_topicVars
         => SaidOnce'
  BY SaidOnceStep
<1>3. TInv => LogsTyped
  BY DEF TInv
<1>4. LogsTyped /\ SaidOnce => ToldOnce
  <2> SUFFICES ASSUME LogsTyped, SaidOnce PROVE ToldOnce
    OBVIOUS
  <2>1. DOMAIN log = {Outcomes, Steps} /\ \A place \in DOMAIN log : log[place] \in Seq(Message)
    BY DEF LogsTyped
  <2>2. \A place \in DOMAIN log : DOMAIN log[place] = 1..Len(log[place])
    BY <2>1, LenProperties
  <2>3. QED
    BY <2>1, <2>2 DEF ToldOnce, SaidOnce
<1>5. QED
  BY <1>1, <1>2, <1>3, <1>4, TInvAlways, TypedAlways, MoneyAlways, ExcusedAlways,
     TopicsKeepSaga, PTL
  DEF TopicSpec, TopicSafety

-----------------------------------------------------------------------------
(* Who announces a COMPLETED saga, while no call fails.  A message that    *)
(* was told is on its way or in its place.                                 *)
Told(m, place) == m \in flight \/ \E i \in 1..Len(log[place]) : log[place][i] = m

Started     == SagaMessage("SagaStarted")
Completed   == SagaMessage("SagaCompleted")
StepDone(s) == StepMessage("SagaStepCompleted", s)

Owed ==
    /\ faults = 0 /\ pc["orderCreated"] # "dead"
    /\ pc["orderCreated"] \notin EarlyAwaits => Told(Started, Outcomes)
    /\ \A s \in Step : Contains(saga.completedSteps, s) => Told(StepDone(s), Steps)
    /\ saga.status = "completed" => Told(Completed, Outcomes)
    /\ pc["orderCreated"] = "end" => Contains(saga.completedSteps, "payment_processing")

LEMMA OwedNext ==
    ASSUME /\ faults' = 0 /\ pc'["orderCreated"] # "dead"
           /\ pc'["orderCreated"] \notin EarlyAwaits => Told(Started, Outcomes)'
           /\ \A s \in Step : Contains(saga'.completedSteps, s) => Told(StepDone(s), Steps)'
           /\ saga'.status = "completed" => Told(Completed, Outcomes)'
           /\ pc'["orderCreated"] = "end" => Contains(saga'.completedSteps, "payment_processing")
    PROVE  Owed'
  BY DEF Owed, EarlyAwaits, Step

(* What was told stays told while nothing goes down.                       *)
LEMMA ToldStays ==
    ASSUME Typed, LogsTyped, NEW m, NEW place \in {Outcomes, Steps},
           LogOf(m) = place, Told(m, place),
           (\E t \in Task : Announces(t)) \/ (\E message \in Message : Arrive(message))
    PROVE  Told(m, place)'
<1>0. Outcomes' = Outcomes /\ Steps' = Steps
  BY DEF Outcomes, Steps
<1>1. ASSUME NEW ms \in Seq(Message), LogGains(ms), NEW i \in 1..Len(log[place]), log[place][i] = m
      PROVE  \E j \in 1..Len(log'[place]) : log'[place][j] = m
  BY <1>1, Gains
<1>2. ASSUME NEW t \in Task, Announces(t)
      PROVE  m \in flight' \/ \E i \in 1..Len(log'[place]) : log'[place][i] = m
  BY <1>1, <1>2, AwaitedMessages DEF Announces, Told
<1>3. ASSUME NEW message \in Message, Arrive(message)
      PROVE  m \in flight' \/ \E i \in 1..Len(log'[place]) : log'[place][i] = m
  <2>1. <<message>> \in Seq(Message) /\ LogGains(<<message>>) /\ flight' = flight \ {message}
    BY <1>3 DEF Arrive
  <2>2. CASE m = message /\ m \in flight
    <3>1. log'[place] = log[place] \o <<message>>
      BY <2>1, <2>2 DEF LogGains, LogsTyped
    <3>2. log[place] \in Seq(Message) /\ <<message>> \in Seq(Message) /\ Len(<<message>>) = 1
      BY DEF LogsTyped
    <3>3. /\ Len(log'[place]) = Len(log[place]) + 1
          /\ Len(log[place]) \in Nat
          /\ \A i \in 1..Len(log[place]) + 1 :
                log'[place][i] = IF i <= Len(log[place]) THEN log[place][i]
                                 ELSE <<message>>[i - Len(log[place])]
      BY <3>1, <3>2, ConcatProperties, LenProperties
    <3>4. /\ Len(log[place]) + 1 \in 1..Len(log'[place])
          /\ log'[place][Len(log[place]) + 1] = <<message>>[1]
      BY <3>3
    <3>5. QED
      BY <2>2, <3>4
  <2>3. CASE m # message \/ m \notin flight
    BY <1>1, <2>1, <2>3 DEF Told
  <2>4. QED
    BY <2>2, <2>3
<1>4. m \in flight' \/ \E i \in 1..Len(log'[place]) : log'[place][i] = m
  BY <1>2, <1>3
<1>5. QED
  BY <1>4 DEF Told

(* What a step leaves to setImmediate is told.                             *)
LEMMA ToldNow ==
    ASSUME NEW t \in Task, Announces(t), NEW m \in Detached(t), NEW place
    PROVE  Told(m, place)'
<1>1. m \in flight'
  BY DEF Announces
<1>2. QED
  BY <1>1 DEF Told

(* The payment step, which ends once it is recorded.                       *)
LEMMA PaymentStepOwes ==
    ASSUME Typed, FailureIsExcused, CopiesCurrent, Owed, TaskStep("orderCreated")
    PROVE  /\ pc'["orderCreated"] # "dead"
           /\ pc'["orderCreated"] \notin EarlyAwaits
                 => pc["orderCreated"] \notin EarlyAwaits \/ pc["orderCreated"] = "start"
           /\ pc'["orderCreated"] = "end" => Contains(saga'.completedSteps, "payment_processing")
<1> DEFINE t == "orderCreated"
<1>0. /\ pc \in [Task -> PC] /\ saga.completedSteps \in Seq(Step) /\ t \in Task
      /\ "payment_processing" \in Step /\ pc[t] \notin FailurePath
      /\ AfterStep(t) = "end" /\ StepOf(t) = "payment_processing"
  BY DEF Typed, TypeOK, Task, SagaTask, SagaRow, Step, Owed, FailureIsExcused, AfterStep, StepOf
<1>1. pc[t] \in EarlyAwaits \cup {"lock", "load", "mark", "pay", "push"}
  BY <1>0, AwakeSteps DEF Typed, AwaitsOfSaga, EarlyAwaits, StepPath, Over
<1>2. Passes(t) \/ StartSaga(t) \/ Load(t) \/ Mark(t) \/ Pay(t) \/ Push(t)
  BY <1>1
  DEF EarlyAwaits, TaskStep, Reload, Fail, Compensate, MarkCompensated, MarkFinalFailure,
      CompleteFind, CompleteSave, FindOrder, SaveOrder, SettlePayment, SavePayment, FindSaga,
      SaveSaga, Scan, FindPayment
<1>3. pc'[t] # "dead"
  BY <1>0, <1>1, <1>2 DEF EarlyAwaits, Passes, StartSaga, Load, Mark, Pay, Push, Goto
<1>4. pc'[t] \notin EarlyAwaits => pc[t] \notin EarlyAwaits \/ pc[t] = "start"
  BY <1>0, <1>1, <1>2 DEF EarlyAwaits, Passes, StartSaga, Load, Mark, Pay, Push, Goto
<1>5. CASE Push(t)
  <2>1. mem[t].completedSteps = saga.completedSteps /\ mem[t] \in SagaRow
    BY <1>0, <1>5 DEF Push, CopiesCurrent, Holds, Typed, TypeOK
  <2>2. saga'.completedSteps = Append(saga.completedSteps, "payment_processing")
    BY <1>0, <1>5, <2>1 DEF Push, Recorded, SagaRow
  <2>3. Contains(saga'.completedSteps, "payment_processing")
    BY <1>0, <2>2, RecordedType
  <2>4. QED
    BY <1>3, <1>4, <2>3
<1>6. CASE ~Push(t)
  <2>1. pc'[t] = "end" => Load(t) /\ Contains(saga'.completedSteps, "payment_processing")
    BY <1>0, <1>1, <1>2, <1>6 DEF EarlyAwaits, Passes, StartSaga, Load, Mark, Pay, Goto
  <2>2. QED
    BY <1>3, <1>4, <2>1
<1>7. QED
  BY <1>5, <1>6

LEMMA OwedStep ==
    ASSUME Typed, Money, FailureIsExcused, Turns, CopiesCurrent, CompletedLast, LogsTyped,
           Owed, NEW t \in Task, Announces(t)
    PROVE  Owed'
<1>0. /\ pc \in [Task -> PC] /\ saga.completedSteps \in Seq(Step) /\ TaskStep(t)
      /\ {"orderCreated", "paymentProcessed"} \subseteq Task
      /\ [Next]_vars
  BY DEF Typed, TypeOK, Task, SagaTask, SagaRow, Announces, Next
<1>1. faults' = 0
  BY <1>0
  DEF Owed, TaskStep, Passes, StartSaga, Load, Mark, Pay, Push, Reload, Fail,
      Compensate, MarkCompensated, MarkFinalFailure, CompleteFind, CompleteSave, FindOrder,
      SaveOrder, SettlePayment, SavePayment, FindSaga, SaveSaga, Scan, FindPayment
<1>2. t # "orderCreated" => pc'["orderCreated"] = pc["orderCreated"]
  <2>1. pc'["orderCreated"] \notin {"delay", "findSaga"}
    BY <1>0, StepTyped DEF Typed, AwaitsOfSaga, StepPath, FailurePath, Over
  <2>2. QED
    BY <1>0, <2>1, OthersStay
<1>3. /\ LogOf(Started) = Outcomes /\ LogOf(Completed) = Outcomes
      /\ \A s : LogOf(StepDone(s)) = Steps
  BY OutcomePlace, StepPlace DEF Started, Completed, StepDone, Outcomes, Steps
<1>4. /\ Told(Started, Outcomes) => Told(Started, Outcomes)'
      /\ Told(Completed, Outcomes) => Told(Completed, Outcomes)'
      /\ \A s \in Step : Told(StepDone(s), Steps) => Told(StepDone(s), Steps)'
  BY <1>3, ToldStays
<1>5. \A s \in Step : Contains(saga.completedSteps, s) => Contains(saga'.completedSteps, s)
  BY <1>0, RecordedStays
<1>6. pc'["orderCreated"] # "dead"
  BY <1>0, <1>2, PaymentStepOwes DEF Owed
<1>7. pc'["orderCreated"] \notin EarlyAwaits => Told(Started, Outcomes)'
  <2>1. CASE pc["orderCreated"] \notin EarlyAwaits
    BY <1>4, <2>1 DEF Owed
  <2>2. CASE t = "orderCreated" /\ pc[t] = "start"
    <3>1. Started \in Detached(t)
      BY <2>2 DEF Detached, Started
    <3>2. QED
      BY <3>1, ToldNow
  <2>3. QED
    BY <1>0, <1>2, <2>1, <2>2, PaymentStepOwes
<1>8. \A s \in Step : Contains(saga'.completedSteps, s) => Told(StepDone(s), Steps)'
  <2>1. CASE saga'.completedSteps = saga.completedSteps
    BY <1>4, <2>1 DEF Owed
  <2>2. CASE /\ t \in {"orderCreated", "paymentProcessed"} /\ pc[t] = "push"
             /\ saga'.completedSteps = Append(saga.completedSteps, StepOf(t))
    <3>1. StepOf(t) \in Step
      BY <2>2 DEF StepOf, Step
    <3>2. StepDone(StepOf(t)) \in Detached(t)
      BY <2>2 DEF Detached, StepDone
    <3>3. \A s : Contains(saga'.completedSteps, s) <=> Contains(saga.completedSteps, s) \/ s = StepOf(t)
      BY <1>0, <2>2, <3>1, RecordedType
    <3>4. QED
      BY <1>4, <3>2, <3>3, ToldNow DEF Owed
  <2>3. QED
    BY <1>0, <2>1, <2>2, StepsWritten
<1>9. saga'.status = "completed" => Told(Completed, Outcomes)'
  <2>1. CASE saga' = saga
    BY <1>4, <2>1 DEF Owed
  <2>2. CASE saga' # saga /\ saga'.status = "completed"
    <3>1. pc[t] = "completeSave"
      BY <1>0, <2>2, CompletingSave
    <3>2. Completed \in Detached(t)
      BY <3>1 DEF Detached, Completed
    <3>3. QED
      BY <3>2, ToldNow
  <2>3. QED
    BY <2>1, <2>2
<1>10. pc'["orderCreated"] = "end" => Contains(saga'.completedSteps, "payment_processing")
  <2>1. CASE t = "orderCreated"
    BY <1>0, <2>1, PaymentStepOwes
  <2>2. CASE t # "orderCreated"
    BY <1>2, <1>5, <2>2 DEF Owed, Step
  <2>3. QED
    BY <2>1, <2>2
<1>11. QED
  BY <1>1, <1>6, <1>7, <1>8, <1>9, <1>10, OwedNext

LEMMA OwedAlways == ASSUME TimerOutlastsStep, Faults = {} PROVE TopicSpec => []Owed
<1>1. TopicInit => Owed
  <2>1. \A s : ~Contains(<<>>, s)
    BY EmptySeq DEF Contains
  <2>2. QED
    BY <2>1, RequestAssumption
    DEF TopicInit, Init, Owed, NoSaga, EarlyAwaits, FirstAwait, Task, SagaTask
<1>2. (/\ Typed /\ Money /\ FailureIsExcused /\ Turns /\ CopiesCurrent /\ CompletedLast
       /\ LogsTyped /\ Owed /\ [TopicNext]_topicVars)
         => Owed'
  <2> SUFFICES ASSUME Typed, Money, FailureIsExcused, Turns, CopiesCurrent, CompletedLast,
                      LogsTyped, Owed, [TopicNext]_topicVars
               PROVE  Owed'
    OBVIOUS
  <2>1. CASE UNCHANGED topicVars
    BY <2>1
    DEF topicVars, vars, Owed, Told, Started, Completed, StepDone, SagaMessage, StepMessage,
        Outcomes, Steps
  <2>2. ASSUME NEW t \in Task, Announces(t) PROVE Owed'
    BY <2>2, OwedStep
  <2>3. ASSUME NEW message \in Message, Arrive(message) PROVE Owed'
    <3>1. UNCHANGED vars
      BY <2>3 DEF Arrive
    <3>2. /\ LogOf(Started) = Outcomes /\ LogOf(Completed) = Outcomes
          /\ \A s : LogOf(StepDone(s)) = Steps
      BY OutcomePlace, StepPlace DEF Started, Completed, StepDone, Outcomes, Steps
    <3>3. \E n \in Message : Arrive(n)
      BY <2>3, Zenon
    <3>4. /\ Told(Started, Outcomes) => Told(Started, Outcomes)'
          /\ Told(Completed, Outcomes) => Told(Completed, Outcomes)'
          /\ \A s \in Step : Told(StepDone(s), Steps) => Told(StepDone(s), Steps)'
      BY <3>2, <3>3, ToldStays
    <3>5. QED
      BY <3>1, <3>4, OwedNext DEF Owed, vars
  <2>4. ~Down /\ \A t \in Task : ~Fails(t) /\ ~Unannounced(t)
    BY DEF Down, NodeDown, Fails, CallFails, Unannounced, SaveLost
  <2>5. QED
    BY <2>1, <2>2, <2>3, <2>4 DEF TopicNext
<1>3. TInv => LogsTyped
  BY DEF TInv
<1>4. QED
  BY <1>1, <1>2, <1>3, TInvAlways, TypedAlways, MoneyAlways, ExcusedAlways, TurnsAlways,
     CopiesAlways, CompletedLastAlways, TopicsKeepSaga, PTL
  DEF TopicSpec, TopicSafety

(* While nothing may fail, a COMPLETED saga whose messages have all        *)
(* arrived has been announced with both its steps, whoever cancels,        *)
(* cleans up or confirms the order, as long as the timer outlasts the      *)
(* payment step.                                                           *)
THEOREM CompletionIsAnnounced ==
    ASSUME TimerOutlastsStep, Faults = {} PROVE TopicSpec => []AnnouncedAtRest
<1>1. Typed /\ Money /\ Turns /\ ConfirmedOnTime /\ LogsTyped /\ Owed => AnnouncedAtRest
  <2> SUFFICES ASSUME Typed, Money, Turns, ConfirmedOnTime, LogsTyped, Owed,
                      flight = {}, saga.status = "completed"
               PROVE  /\ Logged(Started) /\ Logged(Completed)
                      /\ \A step \in Step : Logged(StepDone(step))
    BY DEF AnnouncedAtRest, Started, Completed, StepDone
  <2>1. /\ LogOf(Started) = Outcomes /\ LogOf(Completed) = Outcomes
        /\ \A s : LogOf(StepDone(s)) = Steps
    BY OutcomePlace, StepPlace DEF Started, Completed, StepDone, Outcomes, Steps
  <2>2. \A m, place : Told(m, place) /\ LogOf(m) = place /\ place \in {Outcomes, Steps} => Logged(m)
    BY LenProperties DEF Told, Logged, LogsTyped
  <2>3. Settled
    BY DEF Money, SuccessIsProcessed, SaysSuccess, ChargedFirst
  <2>4. pc["orderCreated"] = "end"
    BY <2>3 DEF Turns, Settled, Over, Owed
  <2>5. /\ Contains(saga.completedSteps, "payment_processing")
        /\ Contains(saga.completedSteps, "order_confirmation")
    BY <2>4 DEF Owed, ConfirmedOnTime, CompletedMeansConfirmed
  <2>6. /\ Told(Started, Outcomes) /\ Told(Completed, Outcomes)
        /\ \A step \in Step : Told(StepDone(step), Steps)
    BY <2>4, <2>5 DEF Owed, EarlyAwaits, Step
  <2>7. QED
    BY <2>1, <2>2, <2>6
<1>2. TInv => LogsTyped
  BY DEF TInv
<1>3. QED
  BY <1>1, <1>2, OwedAlways, TInvAlways, TypedAlways, MoneyAlways, TurnsAlways,
     ConfirmedAlways, TopicsKeepSaga, PTL
=============================================================================
