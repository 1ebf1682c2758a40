-------------------------- MODULE EventTrailProofs --------------------------
(***************************************************************************)
(* Proofs about EventTrail for any requests, instances and failures.       *)
(***************************************************************************)
EXTENDS EventTrail, TLAPS

(* Every event knows its task; the payment's two are different.            *)
LEMMA EventFacts ==
    /\ \A t \in Task : \A e \in EventsOf(t) : e.by = t
    /\ \A t \in Task : EventsDue(t) \subseteq EventsOf(t)
    /\ \A e \in Events : e.by \in Task
    /\ Created \in Events /\ Created.by = Creator
    /\ Processed \in Events /\ Processed.by = Timer
    /\ Failed \in Events /\ Failed.by = Timer
    /\ Processed # Failed
<1>1. \A t \in Task : \A e \in EventsOf(t) : e.by = t
  <2> SUFFICES ASSUME NEW t \in Task PROVE \A e \in EventsOf(t) : e.by = t
    OBVIOUS
  <2>1. t = Creator \/ t = Timer \/ Confirms(t) \/ Cancels(t)
    BY DEF Task, Chain, Request, Confirms, Cancels
  <2>2. QED
    BY <2>1 DEF EventsOf, Event
<1>2. Creator # Timer /\ ~Confirms(Creator) /\ ~Confirms(Timer)
  BY TaskAssumption DEF Confirms, Chain, Request
<1>3. EventsOf(Creator) = {Created}
  BY <1>2 DEF EventsOf, Created, Event
<1>4. EventsOf(Timer) = {Processed, Failed}
  BY <1>2 DEF EventsOf, Processed, Failed, Event
<1>5. \A t \in Task : EventsDue(t) \subseteq EventsOf(t)
  BY <1>4 DEF EventsDue
<1>6. Creator \in Task /\ Timer \in Task
  BY DEF Task, Chain
<1>7. Created \in Events /\ Processed \in Events /\ Failed \in Events
  BY <1>3, <1>4, <1>6 DEF Events
<1>8. Processed # Failed
  BY DEF Processed, Failed, Event
<1>9. Created.by = Creator /\ Processed.by = Timer /\ Failed.by = Timer
  BY DEF Created, Processed, Failed, Event
<1>10. \A e \in Events : e.by \in Task
  BY <1>1 DEF Events
<1>11. QED
  BY <1>1, <1>5, <1>7, <1>8, <1>9, <1>10

(* Only a task that has saved publishes, and only its own events.          *)
LEMMA DueFacts ==
    ASSUME NEW t \in Task, EventsDue(t) # {}
    PROVE  /\ pc[t] = "saved"
           /\ \A e \in EventsDue(t) : e.by = t
           /\ t = Timer => EventsDue(t) = {IF verdict = "COMPLETED" THEN Processed ELSE Failed}
<1>1. pc[t] = "saved"
  <2>1. pc[t] # "saved" => EventsDue(t) = {}
    BY DEF EventsDue
  <2>2. QED
    BY <2>1
<1>2. \A e \in EventsDue(t) : e.by = t
  BY EventFacts
<1>3. t = Timer => EventsDue(t) = {IF verdict = "COMPLETED" THEN Processed ELSE Failed}
  BY <1>1 DEF EventsDue
<1>4. QED
  BY <1>1, <1>2, <1>3

(* Saving the row adds the task to the history.                            *)
LEMMA SavedGrows ==
    ASSUME changes \in Seq(Task), NEW c \in Task, Saved(c)
    PROVE  /\ changes' \in Seq(Task)
           /\ Len(changes') = Len(changes) + 1
           /\ changes'[Len(changes')] = c
           /\ \A i \in 1 .. Len(changes) : changes'[i] = changes[i]
           /\ ToSet(changes') = ToSet(changes) \cup {c}
BY DEF Saved, ToSet

(* What each command may be doing, in one disjunction per kind of step.    *)
LEMMA StepCases ==
    ASSUME Next
    PROVE  \/ Pay \/ SettlePayment \/ SavePayment \/ TimerCatches
           \/ \E t \in Task : FindOrder(t)
           \/ \E t \in Task : SaveOrder(t)
           \/ \E t \in Task : Publish(t)
           \/ \E t \in Task : CommandFails(t)
           \/ \E e \in Events : Store(e)
           \/ \E e \in Events : Send(e)
           \/ \E e \in Events : HandlerFails(e)
           \/ \E n \in Node : NodeDown(n)
BY DEF Next

(* All variables stay in their types.                                      *)
LEMMA TypeInductive == TypeOK /\ [Next]_vars => TypeOK'
<1> SUFFICES ASSUME TypeOK, [Next]_vars PROVE TypeOK'
  OBVIOUS
<1> USE DEF TypeOK
<1> Timer \in Task /\ Creator \in Task
  BY DEF Task, Chain
<1>1. CASE Pay
  BY <1>1 DEF Pay
<1>2. CASE SettlePayment
  BY <1>2 DEF SettlePayment
<1>3. CASE SavePayment
  BY <1>3 DEF SavePayment
<1>4. CASE TimerCatches
  BY <1>4, TaskAssumption DEF TimerCatches, Fault
<1>5. ASSUME NEW t \in Task, FindOrder(t) PROVE TypeOK'
  <2>1. Len(changes) \in Nat
    OBVIOUS
  <2>2. QED
    BY <1>5, <2>1 DEF FindOrder
<1>6. ASSUME NEW t \in Task, Saved(t) PROVE status' \in {"none", "PENDING", "PAID", "CANCELLED"}
  BY <1>6 DEF Saved, StatusAfter
<1>7. ASSUME NEW t \in Task, SaveOrder(t) PROVE TypeOK'
  BY <1>7, <1>6, SavedGrows DEF SaveOrder
<1>8. ASSUME NEW t \in Task, Publish(t) PROVE TypeOK'
  BY <1>8 DEF Publish
<1>9. ASSUME NEW t \in Task, CommandFails(t) PROVE TypeOK'
  BY <1>9, <1>6, SavedGrows, TaskAssumption DEF CommandFails, Fault
<1>10. ASSUME NEW e \in Events, Store(e) \/ Send(e) PROVE TypeOK'
  BY <1>10 DEF Store, Send
<1>11. ASSUME NEW e \in Events, HandlerFails(e) PROVE TypeOK'
  BY <1>11, TaskAssumption DEF HandlerFails, Fault
<1>12. ASSUME NEW n \in Node, NodeDown(n) PROVE TypeOK'
  BY <1>12, TaskAssumption DEF NodeDown, Fault
<1>13. CASE UNCHANGED vars
  BY <1>13 DEF vars
<1>14. QED
  BY <1>1, <1>2, <1>3, <1>4, <1>5, <1>7, <1>8, <1>9, <1>10, <1>11, <1>12, <1>13, StepCases

(* Rows, handlers, logs and the history keep their types.                 *)
THEOREM TypeCorrect == Spec => []TypeOK
<1>1. Init => TypeOK
  BY TaskAssumption DEF Init, TypeOK
<1>2. QED
  BY <1>1, TypeInductive, PTL DEF Spec, Safety

-----------------------------------------------------------------------------
(* What the logs hold, where the handlers are, and what was saved, each    *)
(* bounded by the next.                                                    *)
Recorded ==
    /\ sent \subseteq stored
    /\ \A e \in Events : /\ e \in stored => at[e] # "none"
                         /\ at[e] \in {"send", "handled"} => e \in stored
                         /\ at[e] = "handled" => e \in sent
                         /\ at[e] # "none" /\ e.by # Timer => e.by \in ToSet(changes)
    /\ \A t \in Task \ {Timer} : pc[t] = "saved" => t \in ToSet(changes)

(* The payment's row does not change once its event is out, and whatever   *)
(* the saga does afterwards has that event behind it.                      *)
Follows(c, e) == \/ pc[c] \in {"save", "saved"}
                 \/ \E d \in Events : d.by = c /\ at[d] # "none"
                 => at[e] # "none"

Settled ==
    /\ payment # "none" => Created \in sent
    /\ pc[Timer] \in {"wait", "save", "recover", "saved"} => payment # "none"
    /\ pc[Timer] \in {"save", "recover", "saved"} => verdict # "none"
    /\ pc[Timer] = "saved" => payment = verdict
    /\ at[Processed] # "none" => payment = "COMPLETED" /\ pc[Timer] = "done"
    /\ at[Failed]    # "none" => payment = "FAILED" /\ pc[Timer] = "done"
    /\ Follows(SagaConfirm, Processed)
    /\ Follows(SagaCancel, Failed)

(* The row is what the last change made it, the creation came first and    *)
(* once, and what a command saw when it read still fits what it will save. *)
Fits(c) == /\ seen[c] \in 1 .. Len(changes)
           /\ Confirms(c) => seen[c] = 1
           /\ Cancels(c) => \A i \in 1 .. seen[c] : Cancels(changes[i]) =>
                               \E k \in i + 1 .. seen[c] : Confirms(changes[k])

History ==
    /\ pc[Creator] = "save" => changes = <<>>
    /\ changes = <<>> => status = "none"
    /\ \A i \in DOMAIN changes : /\ changes[i] = Creator <=> i = 1
                                 /\ pc[changes[i]] # "idle"
    /\ changes # <<>> => status = StatusAfter(changes[Len(changes)])
    /\ \A c \in Task \ {Creator} :
           (c # Timer /\ pc[c] = "save") \/ c \in ToSet(changes) => Fits(c)


-----------------------------------------------------------------------------
(* Handlers move on only after their call, commands only after their save. *)
LEMMA RecordedInductive == TypeOK /\ Recorded /\ [Next]_vars => Recorded'
<1> SUFFICES ASSUME TypeOK, Recorded, [Next]_vars PROVE Recorded'
  OBVIOUS
<1> USE DEF TypeOK, Recorded
<1> Timer \in Task /\ Creator \in Task /\ Timer # Creator
  BY TaskAssumption DEF Task, Chain
<1>1. CASE Pay
  BY <1>1 DEF Pay
<1>2. CASE SettlePayment
  BY <1>2 DEF SettlePayment
<1>3. CASE SavePayment
  BY <1>3 DEF SavePayment
<1>4. CASE TimerCatches
  BY <1>4 DEF TimerCatches
<1>5. ASSUME NEW t \in Task, FindOrder(t) PROVE Recorded'
  BY <1>5 DEF FindOrder
<1>6. ASSUME NEW t \in Task, SaveOrder(t) PROVE Recorded'
  BY <1>6, SavedGrows DEF SaveOrder
<1>7. ASSUME NEW t \in Task, Publish(t) PROVE Recorded'
  <2>1. pc[t] = "saved" /\ \A e \in EventsDue(t) : e.by = t
    BY <1>7, DueFacts DEF Publish
  <2>2. QED
    BY <1>7, <2>1 DEF Publish
<1>8. ASSUME NEW t \in Task, CommandFails(t) PROVE Recorded'
  <2>1. ToSet(changes) \subseteq ToSet(changes')
    BY <1>8, SavedGrows DEF CommandFails
  <2>2. QED
    BY <1>8, <2>1 DEF CommandFails
<1>9. ASSUME NEW e \in Events, Store(e) PROVE Recorded'
  BY <1>9 DEF Store
<1>10. ASSUME NEW e \in Events, Send(e) PROVE Recorded'
  BY <1>10 DEF Send
<1>11. ASSUME NEW e \in Events, HandlerFails(e) PROVE Recorded'
  BY <1>11 DEF HandlerFails
<1>12. ASSUME NEW n \in Node, NodeDown(n) PROVE Recorded'
  BY <1>12 DEF NodeDown
<1>13. CASE UNCHANGED vars
  BY <1>13 DEF vars
<1>14. QED
  BY <1>1, <1>2, <1>3, <1>4, <1>5, <1>6, <1>7, <1>8, <1>9, <1>10, <1>11, <1>12, <1>13, StepCases

(* The logs in every reachable state.                                      *)
LEMMA AlwaysRecorded == Spec => [](TypeOK /\ Recorded)
<1>1. Init => TypeOK /\ Recorded
  <2> SUFFICES ASSUME Init PROVE TypeOK /\ Recorded
    OBVIOUS
  <2>1. TypeOK
    BY TaskAssumption DEF Init, TypeOK
  <2>2. Recorded
    BY DEF Init, Recorded
  <2>3. QED
    BY <2>1, <2>2
<1>2. QED
  BY <1>1, TypeInductive, RecordedInductive, PTL DEF Spec, Safety

(* The logs never run ahead: what event_store says of the order was saved  *)
(* in its row, and what Kafka says is in event_store.                      *)
THEOREM LogsFollow == Spec => []LogsFollowTheRows
<1>1. TypeOK /\ Recorded => LogsFollowTheRows
  BY DEF TypeOK, Recorded, LogsFollowTheRows
<1>2. QED
  BY <1>1, AlwaysRecorded, PTL

-----------------------------------------------------------------------------
(* Only the timer writes the payment's verdict, and before its event.      *)
LEMMA SettledInductive == TypeOK /\ Recorded /\ Settled /\ [Next]_vars => Settled'
<1> SUFFICES ASSUME TypeOK, Recorded, Settled, [Next]_vars PROVE Settled'
  OBVIOUS
<1> USE DEF TypeOK, Settled, Follows
<1> /\ {Timer, Creator, SagaConfirm, SagaCancel} \subseteq Task
    /\ Timer \notin {Creator, SagaConfirm, SagaCancel}
    /\ {SagaConfirm, SagaCancel} \cap Request = {}
    /\ Creator \notin {SagaConfirm, SagaCancel} /\ SagaConfirm # SagaCancel
  BY TaskAssumption DEF Task, Chain
<1> Created \in Events /\ Processed \in Events /\ Failed \in Events
  BY EventFacts
<1>1. CASE Pay
  BY <1>1 DEF Pay, Recorded
<1>2. CASE SettlePayment
  BY <1>2 DEF SettlePayment
<1>3. CASE SavePayment
  BY <1>3 DEF SavePayment
<1>4. CASE TimerCatches
  BY <1>4 DEF TimerCatches
<1>5. ASSUME NEW t \in Task, FindOrder(t) PROVE Settled'
  <2>1. t # Timer
    BY <1>5, TaskAssumption DEF FindOrder, MayStart, Chain
  <2>2. t = SagaConfirm => at[Processed] # "none"
    BY <1>5 DEF FindOrder, MayStart
  <2>3. t = SagaCancel => at[Failed] # "none"
    BY <1>5 DEF FindOrder, MayStart
  <2>4. QED
    BY <1>5, <2>1, <2>2, <2>3 DEF FindOrder
<1>6. ASSUME NEW t \in Task, SaveOrder(t) PROVE Settled'
  BY <1>6 DEF SaveOrder
<1>7. ASSUME NEW t \in Task, Publish(t) PROVE Settled'
  <2>1. pc[t] = "saved" /\ (\A e \in EventsDue(t) : e.by = t)
    BY <1>7, DueFacts DEF Publish
  <2>2. t = Timer => EventsDue(t) = {IF verdict = "COMPLETED" THEN Processed ELSE Failed}
    BY <1>7, DueFacts DEF Publish
  <2>3. Processed.by = Timer /\ Failed.by = Timer /\ Processed # Failed
    BY EventFacts
  <2>4. CASE t = Timer
    BY <1>7, <2>1, <2>2, <2>3, <2>4 DEF Publish
  <2>5. CASE t # Timer
    BY <1>7, <2>1, <2>3, <2>5 DEF Publish
  <2>6. QED
    BY <2>4, <2>5
<1>8. ASSUME NEW t \in Task, CommandFails(t) PROVE Settled'
  BY <1>8 DEF CommandFails
<1>9. ASSUME NEW e \in Events, Store(e) PROVE Settled'
  BY <1>9 DEF Store
<1>10. ASSUME NEW e \in Events, Send(e) PROVE Settled'
  BY <1>10 DEF Send
<1>11. ASSUME NEW e \in Events, HandlerFails(e) PROVE Settled'
  BY <1>11 DEF HandlerFails
<1>12. ASSUME NEW n \in Node, NodeDown(n) PROVE Settled'
  BY <1>12 DEF NodeDown
<1>13. CASE UNCHANGED vars
  BY <1>13 DEF vars
<1>14. QED
  BY <1>1, <1>2, <1>3, <1>4, <1>5, <1>6, <1>7, <1>8, <1>9, <1>10, <1>11, <1>12, <1>13, StepCases

(* The payment in every reachable state.                                   *)
LEMMA AlwaysSettled == Spec => []Settled
<1>1. Init => Settled
  <2> SUFFICES ASSUME Init PROVE Settled
    OBVIOUS
  <2>1. /\ {Timer, SagaConfirm, SagaCancel} \subseteq Task
        /\ Creator \notin {Timer, SagaConfirm, SagaCancel}
    BY TaskAssumption DEF Task, Chain
  <2>2. QED
    BY <2>1, EventFacts DEF Init, Settled, Follows
<1>2. QED
  BY <1>1, AlwaysRecorded, SettledInductive, PTL DEF Spec, Safety

(* A payment's trail tells one verdict, and it is the row's, whatever save *)
(* was refused or took effect unnoticed.                                   *)
THEOREM OneVerdictEach == Spec => []OneVerdict
<1>1. TypeOK /\ Recorded /\ Settled => OneVerdict
  BY EventFacts DEF TypeOK, Recorded, Settled, OneVerdict
<1>2. QED
  BY <1>1, AlwaysRecorded, AlwaysSettled, PTL

(* No charge before OrderCreated is in Kafka, and no confirmation or       *)
(* cancellation by the saga against the payment's row.                     *)
THEOREM CausesComeFirst == Spec => []CausesFirst
<1>1. TypeOK /\ Recorded /\ Settled => CausesFirst
  BY EventFacts DEF TypeOK, Recorded, Settled, Follows, CausesFirst
<1>2. QED
  BY <1>1, AlwaysRecorded, AlwaysSettled, PTL

-----------------------------------------------------------------------------
(* A command that starts sees a change, the creation: a request names an   *)
(* existing order, and the saga's commands follow an event of the payment. *)
LEMMA StartsAfterCreation ==
    ASSUME TypeOK, Recorded, Settled, History, NEW t \in Task, pc[t] = "idle", MayStart(t)
    PROVE  changes # <<>> /\ Len(changes) \in Nat \ {0} /\ t \notin {Creator, Timer}
<1>1. t \notin {Creator, Timer}
  BY TaskAssumption DEF MayStart, Chain
<1>2. status = "none" => ToSet(changes) # {}
  <2> SUFFICES ASSUME status = "none" PROVE ToSet(changes) # {}
    OBVIOUS
  <2>1. at[Processed] # "none" \/ at[Failed] # "none"
    BY DEF MayStart
  <2>2. Created \in stored
    BY <2>1 DEF Settled, Recorded
  <2>3. QED
    BY <2>2, EventFacts, TaskAssumption DEF Recorded
<1>3. changes # <<>>
  <2>1. CASE status = "none"
    BY <1>2, <2>1 DEF ToSet
  <2>2. CASE status # "none"
    BY <2>2 DEF History
  <2>3. QED
    BY <2>1, <2>2
<1>4. QED
  BY <1>1, <1>3 DEF TypeOK

(* What a command reads fits: the early returns see to it.                 *)
LEMMA ReadFits ==
    ASSUME TypeOK, Recorded, Settled, History, NEW t \in Task, FindOrder(t), pc'[t] = "save"
    PROVE  Fits(t)'
<1> DEFINE n == Len(changes)
           c == changes[n]
<1>1. /\ ~InVain(t) /\ seen'[t] = n /\ changes' = changes /\ pc[t] = "idle" /\ MayStart(t)
  BY DEF FindOrder, TypeOK
<1>2. n \in Nat \ {0} /\ c \in Task
  BY <1>1, StartsAfterCreation DEF TypeOK
<1>3. status = StatusAfter(c)
  BY <1>1, StartsAfterCreation DEF History
<1>4. c = Creator <=> n = 1
  <2>1. n \in DOMAIN changes
    BY <1>2 DEF TypeOK
  <2>2. \A i \in DOMAIN changes : changes[i] = Creator <=> i = 1
    BY DEF History
  <2>3. QED
    BY <2>1, <2>2
<1>5. ASSUME Confirms(t) PROVE n = 1
  <2>1. status = "PENDING"
    BY <1>1, <1>5 DEF InVain
  <2>2. QED
    BY <1>3, <1>4, <2>1 DEF StatusAfter
<1>6. ASSUME Cancels(t), NEW i \in 1 .. n, Cancels(changes[i])
      PROVE  \E k \in i + 1 .. n : Confirms(changes[k])
  <2>1. status # "CANCELLED"
    BY <1>1, <1>6 DEF InVain
  <2>2. ~Cancels(Creator)
    BY TaskAssumption DEF Cancels, Chain, Request
  <2>3. \A d : Cancels(d) => ~Confirms(d)
    BY TaskAssumption DEF Cancels, Confirms, Chain, Request
  <2>4. i # 1
    BY <1>2, <1>6, <2>2 DEF History
  <2>5. Confirms(c)
    BY <1>2, <1>3, <1>4, <1>6, <2>1, <2>4 DEF StatusAfter
  <2>6. i # n
    BY <1>6, <2>3, <2>5
  <2>7. QED
    BY <1>2, <2>5, <2>6
<1>7. QED
  BY <1>1, <1>2, <1>5, <1>6 DEF Fits, Confirms, Cancels

(* A command keeps fitting while others are appended to the history.       *)
LEMMA FitsStays ==
    ASSUME TypeOK, NEW c \in Task, Fits(c), NEW d \in Task, Saved(d), seen' = seen
    PROVE  Fits(c)'
<1>1. /\ Len(changes') = Len(changes) + 1 /\ Len(changes) \in Nat
      /\ \A i \in 1 .. Len(changes) : changes'[i] = changes[i]
  BY SavedGrows DEF TypeOK
<1>2. seen[c] \in 1 .. Len(changes)
  BY DEF Fits
<1>3. \A i \in 1 .. seen[c] : changes'[i] = changes[i]
  BY <1>1, <1>2
<1>4. ASSUME Cancels(c), NEW i \in 1 .. seen[c], Cancels(changes'[i])
      PROVE  \E k \in i + 1 .. seen[c] : Confirms(changes'[k])
  BY <1>2, <1>3, <1>4 DEF Fits
<1>5. QED
  BY <1>1, <1>2, <1>4 DEF Fits, Confirms, Cancels

(* A save appends a command that fits, or the creation to nothing.         *)
LEMMA SaveKeepsHistory ==
    ASSUME TypeOK, History, NEW t \in Task, t # Timer, pc[t] = "save", Saved(t), seen' = seen,
           pc'[t] \notin {"idle", "save"}, \A u \in Task : u # t => pc'[u] = pc[u]
    PROVE  History'
<1> DEFINE n == Len(changes)
<1>1. /\ changes' \in Seq(Task) /\ Len(changes') = n + 1 /\ n \in Nat
      /\ changes'[n + 1] = t
      /\ \A i \in 1 .. n : changes'[i] = changes[i] /\ changes[i] \in Task
  BY SavedGrows DEF TypeOK
<1>2. t = Creator <=> n = 0
  <2>1. t = Creator => n = 0
    BY DEF History
  <2>2. t # Creator => Fits(t)
    BY DEF History
  <2>3. QED
    BY <1>1, <2>1, <2>2 DEF Fits
<1>3. (pc[Creator] = "save" => changes = <<>>)' /\ (changes = <<>> => status = "none")'
  <2>1. pc'[Creator] # "save"
    BY <1>1, <1>2 DEF History, TypeOK, Task, Chain
  <2>2. changes' # <<>>
    BY <1>1
  <2>3. QED
    BY <2>1, <2>2
<1>4. ASSUME NEW i \in DOMAIN changes'
      PROVE  (changes'[i] = Creator <=> i = 1) /\ pc'[changes'[i]] # "idle"
  <2>1. CASE i = n + 1
    BY <1>1, <1>2, <2>1
  <2>2. CASE i \in 1 .. n
    BY <1>1, <2>2 DEF History
  <2>3. QED
    BY <1>1, <2>1, <2>2
<1>5. status' = StatusAfter(t)
  BY DEF Saved
<1>6. ASSUME NEW c \in Task \ {Creator}, (c # Timer /\ pc'[c] = "save") \/ c \in ToSet(changes')
      PROVE  Fits(c)'
  <2>1. ToSet(changes') = ToSet(changes) \cup {t}
    BY SavedGrows DEF TypeOK
  <2>2. Fits(c)
    BY <1>6, <2>1 DEF History
  <2>3. QED
    BY <2>2, FitsStays
<1>7. QED
  BY <1>1, <1>3, <1>4, <1>5, <1>6 DEF History

(* The history grows by SaveOrder and by a save whose answer is lost.      *)
LEMMA HistoryInductive ==
    TypeOK /\ Recorded /\ Settled /\ History /\ [Next]_vars => History'
<1> SUFFICES ASSUME TypeOK, Recorded, Settled, History, [Next]_vars PROVE History'
  OBVIOUS
<1> Timer \in Task /\ Creator \in Task /\ Timer # Creator
  BY TaskAssumption DEF Task, Chain
<1>1. ASSUME UNCHANGED <<status, changes, seen>>,
             \A t \in Task : /\ t # Timer /\ pc'[t] = "save" => pc[t] = "save"
                             /\ pc'[t] = "idle" => pc[t] = "idle"
      PROVE  History'
  <2>1. \A i \in DOMAIN changes : changes[i] \in Task
    BY DEF TypeOK
  <2>2. \A c : Fits(c) => Fits(c)'
    BY <1>1 DEF Fits, Confirms, Cancels
  <2>3. QED
    BY <1>1, <2>1, <2>2 DEF History, ToSet, StatusAfter, Confirms
<1>2. CASE Pay \/ SettlePayment \/ SavePayment \/ TimerCatches
  BY <1>1, <1>2 DEF Pay, SettlePayment, SavePayment, TimerCatches, TypeOK
<1>3. ASSUME NEW t \in Task, FindOrder(t) PROVE History'
  <2>1. /\ pc[t] = "idle" /\ MayStart(t) /\ UNCHANGED <<status, changes>>
        /\ pc'[t] \in {"save", "done"} /\ \A u \in Task : u # t => pc'[u] = pc[u] /\ seen'[u] = seen[u]
    BY <1>3 DEF FindOrder, TypeOK
  <2>2. t # Creator /\ t \notin ToSet(changes)
    BY <2>1, StartsAfterCreation DEF History, ToSet
  <2>3. \A i \in DOMAIN changes : changes[i] \in Task
    BY DEF TypeOK
  <2>4. ASSUME NEW c \in Task \ {Creator}, (c # Timer /\ pc'[c] = "save") \/ c \in ToSet(changes')
        PROVE  Fits(c)'
    <3>1. CASE c = t
      BY <1>3, <2>1, <2>2, <2>4, <3>1, ReadFits
    <3>2. CASE c # t
      <4>1. Fits(c)
        BY <2>1, <2>4, <3>2 DEF History
      <4>2. seen'[c] = seen[c] /\ changes' = changes
        BY <2>1, <3>2
      <4>3. QED
        BY <4>1, <4>2 DEF Fits, Confirms, Cancels
    <3>3. QED
      BY <3>1, <3>2
  <2>5. QED
    BY <2>1, <2>2, <2>3, <2>4 DEF History, ToSet, StatusAfter, Confirms
<1>4. ASSUME NEW t \in Task, SaveOrder(t) PROVE History'
  <2>1. /\ t # Timer /\ pc[t] = "save" /\ Saved(t) /\ seen' = seen
        /\ pc'[t] = "saved" /\ \A u \in Task : u # t => pc'[u] = pc[u]
    BY <1>4 DEF SaveOrder, TypeOK
  <2>2. QED
    BY <2>1, SaveKeepsHistory
<1>5. ASSUME NEW t \in Task, Publish(t) PROVE History'
  BY <1>1, <1>5 DEF Publish, TypeOK
<1>6. ASSUME NEW t \in Task, CommandFails(t) PROVE History'
  <2>1. /\ t # Timer /\ seen' = seen
        /\ pc'[t] = "error" /\ \A u \in Task : u # t => pc'[u] = pc[u]
    BY <1>6 DEF CommandFails, TypeOK
  <2>2. CASE UNCHANGED <<status, changes>>
    BY <1>1, <2>1, <2>2 DEF TypeOK
  <2>3. CASE pc[t] = "save" /\ Saved(t)
    BY <2>1, <2>3, SaveKeepsHistory
  <2>4. QED
    BY <1>6, <2>2, <2>3 DEF CommandFails
<1>7. ASSUME NEW e \in Events, Store(e) \/ Send(e) \/ HandlerFails(e) PROVE History'
  BY <1>1, <1>7 DEF Store, Send, HandlerFails
<1>8. ASSUME NEW n \in Node, NodeDown(n) PROVE History'
  BY <1>1, <1>8 DEF NodeDown, TypeOK
<1>9. CASE UNCHANGED vars
  BY <1>1, <1>9 DEF vars
<1>10. QED
  BY <1>2, <1>3, <1>4, <1>5, <1>6, <1>7, <1>8, <1>9, StepCases

(* The trail repeats itself only after a stale read: the early returns of  *)
(* both commands keep every other repetition out.                          *)
THEOREM RepeatsAreStale == Spec => []OnlyStaleRepeats
<1>1. Init => History
  BY TaskAssumption DEF Init, History, ToSet, Task, Chain
<1>2. TypeOK /\ History => OnlyStaleRepeats
  <2> SUFFICES ASSUME TypeOK, History, NEW j \in DOMAIN changes, NEW c, c = changes[j]
               PROVE  /\ Confirms(c) => seen[c] = 1
                      /\ Cancels(c) => \A i \in 1 .. seen[c] : Cancels(changes[i]) =>
                            \E k \in i + 1 .. seen[c] : Confirms(changes[k])
    BY DEF OnlyStaleRepeats
  <2>1. c \in Task /\ c \in ToSet(changes)
    BY DEF TypeOK, ToSet
  <2>2. CASE c = Creator
    BY <2>2, TaskAssumption DEF Confirms, Cancels, Chain, Request
  <2>3. CASE c # Creator
    BY <2>1, <2>3 DEF History, Fits
  <2>4. QED
    BY <2>2, <2>3
<1>3. QED
  BY <1>1, <1>2, AlwaysRecorded, AlwaysSettled, HistoryInductive, PTL DEF Spec, Safety

-----------------------------------------------------------------------------
(* Only a failure of its own instance takes an event out of its handler.   *)
LEMMA EventsStay ==
    ASSUME TypeOK, Recorded, [Next]_vars, NEW e \in Events, NodeOf[e.by] \notin FaultyNode,
           UnderWay(e)
    PROVE  UnderWay(e)'
<1> USE DEF TypeOK, UnderWay
<1>1. CASE Pay \/ SettlePayment \/ SavePayment \/ TimerCatches
  BY <1>1 DEF Pay, SettlePayment, SavePayment, TimerCatches
<1>2. ASSUME NEW t \in Task, FindOrder(t) \/ SaveOrder(t) \/ CommandFails(t)
      PROVE  UnderWay(e)'
  BY <1>2 DEF FindOrder, SaveOrder, CommandFails
<1>3. ASSUME NEW t \in Task, Publish(t) PROVE UnderWay(e)'
  BY <1>3 DEF Publish
<1>4. ASSUME NEW d \in Events, Store(d) \/ Send(d) PROVE UnderWay(e)'
  BY <1>4 DEF Store, Send, Recorded
<1>5. ASSUME NEW d \in Events, HandlerFails(d) PROVE UnderWay(e)'
  <2>1. d # e
    BY <1>5 DEF HandlerFails, Fault
  <2>2. QED
    BY <1>5, <2>1 DEF HandlerFails
<1>6. ASSUME NEW n \in Node, NodeDown(n) PROVE UnderWay(e)'
  BY <1>6 DEF NodeDown, Fault
<1>7. CASE UNCHANGED vars
  BY <1>7 DEF vars
<1>8. QED
  BY <1>1, <1>2, <1>3, <1>4, <1>5, <1>6, <1>7, StepCases

(* A task of a sound instance that saved goes on to publish, and then its  *)
(* events are with their handlers.                                         *)
LEMMA SavedPublishes ==
    ASSUME TypeOK, [Next]_vars, NEW t \in Task, NodeOf[t] \notin FaultyNode, pc[t] = "saved"
    PROVE  pc'[t] = "saved" \/ (Publish(t) /\ \A e \in EventsDue(t) : at'[e] = "store")
<1> USE DEF TypeOK
<1>1. CASE Pay \/ SettlePayment \/ SavePayment \/ TimerCatches
  BY <1>1 DEF Pay, SettlePayment, SavePayment, TimerCatches
<1>2. ASSUME NEW u \in Task, FindOrder(u) \/ SaveOrder(u) \/ CommandFails(u)
      PROVE  pc'[t] = "saved"
  BY <1>2 DEF FindOrder, SaveOrder, CommandFails
<1>3. ASSUME NEW u \in Task, Publish(u), u # t PROVE pc'[t] = "saved"
  BY <1>3 DEF Publish
<1>4. ASSUME Publish(t) PROVE \A e \in EventsDue(t) : at'[e] = "store"
  <2>1. EventsDue(t) \subseteq Events
    BY EventFacts DEF Events
  <2>2. QED
    BY <1>4, <2>1 DEF Publish
<1>5. ASSUME NEW e \in Events, Store(e) \/ Send(e) \/ HandlerFails(e) PROVE pc'[t] = "saved"
  BY <1>5 DEF Store, Send, HandlerFails
<1>6. ASSUME NEW n \in Node, NodeDown(n) PROVE pc'[t] = "saved"
  BY <1>6 DEF NodeDown, Fault
<1>7. CASE UNCHANGED vars
  BY <1>7 DEF vars
<1>8. QED
  BY <1>1, <1>2, <1>3, <1>4, <1>5, <1>6, <1>7, StepCases

(* A task enters the history as its save is answered, unless its instance  *)
(* fails.                                                                  *)
LEMMA EntersSaved ==
    ASSUME TypeOK, [Next]_vars, NEW t \in Task, NodeOf[t] \notin FaultyNode,
           t \in ToSet(changes'), t \notin ToSet(changes)
    PROVE  pc'[t] = "saved"
<1> USE DEF TypeOK
<1>1. ASSUME NEW c \in Task, SaveOrder(c) \/ CommandFails(c) PROVE pc'[t] = "saved"
  <2>1. CASE c = t
    BY <1>1, <2>1 DEF SaveOrder, CommandFails, Fault
  <2>2. CASE c # t
    BY <1>1, <2>2, SavedGrows DEF SaveOrder, CommandFails
  <2>3. QED
    BY <2>1, <2>2
<1>2. changes' # changes
  OBVIOUS
<1>3. QED
  BY <1>1, <1>2, StepCases
  DEF vars, Pay, SettlePayment, SavePayment, TimerCatches, FindOrder, Publish, Store, Send,
      HandlerFails, NodeDown

(* The payment of a sound instance gets its verdict, and the verdict its   *)
(* event.                                                                  *)
Announced == \/ payment = "none"
             \/ pc[Timer] \in {"wait", "save", "saved"}
             \/ UnderWay(IF payment = "COMPLETED" THEN Processed ELSE Failed)

LEMMA AnnouncedInductive ==
    ASSUME TypeOK, Recorded, Settled, Announced, [Next]_vars, NodeOf[Timer] \notin FaultyNode
    PROVE  Announced'
<1> USE DEF TypeOK
<1> Timer \in Task
  BY DEF Task, Chain
<1>1. CASE UnderWay(IF payment = "COMPLETED" THEN Processed ELSE Failed)
  <2>1. UnderWay(IF payment = "COMPLETED" THEN Processed ELSE Failed)'
        \/ payment' # payment
    <3>1. CASE payment = "COMPLETED"
      BY <1>1, <3>1, EventsStay, EventFacts
    <3>2. CASE payment # "COMPLETED"
      BY <1>1, <3>2, EventsStay, EventFacts
    <3>3. QED
      BY <3>1, <3>2
  <2>2. payment' # payment => pc'[Timer] \in {"wait", "saved"}
    BY StepCases
    DEF vars, Pay, SettlePayment, SavePayment, TimerCatches, FindOrder, SaveOrder, CommandFails,
        Publish, Store, Send, HandlerFails, NodeDown, Fault
  <2>3. QED
    BY <2>1, <2>2 DEF Announced
<1>2. CASE payment = "none"
  BY <1>2, StepCases
  DEF Announced, Settled, vars, Pay, SettlePayment, SavePayment, TimerCatches, FindOrder, SaveOrder,
      CommandFails, Publish, Store, Send, HandlerFails, NodeDown, Fault
<1>3. CASE pc[Timer] \in {"wait", "save"}
  <2>1. pc'[Timer] \in {"wait", "save", "saved"}
    <3>1. ASSUME NEW t \in Task, FindOrder(t) \/ SaveOrder(t) \/ CommandFails(t) \/ Publish(t)
          PROVE  pc'[Timer] = pc[Timer]
      BY <1>3, <3>1, DueFacts DEF FindOrder, SaveOrder, CommandFails, Publish
    <3>2. ASSUME NEW n \in Node, NodeDown(n) PROVE pc'[Timer] = pc[Timer]
      BY <3>2 DEF NodeDown, Fault
    <3>3. QED
      BY <1>3, <3>1, <3>2, StepCases
      DEF vars, Pay, SettlePayment, SavePayment, TimerCatches, Store, Send, HandlerFails, Fault
  <2>2. QED
    BY <2>1 DEF Announced
<1>4. CASE pc[Timer] = "saved"
  <2>1. CASE pc'[Timer] = "saved"
    BY <2>1 DEF Announced
  <2>2. CASE Publish(Timer) /\ \A e \in EventsDue(Timer) : at'[e] = "store"
    <3>1. payment = verdict /\ payment' = payment
      BY <1>4, <2>2 DEF Settled, Publish
    <3>2. (IF payment = "COMPLETED" THEN Processed ELSE Failed) \in EventsDue(Timer)
      BY <1>4, <3>1 DEF EventsDue
    <3>3. QED
      BY <2>2, <3>1, <3>2 DEF Announced, UnderWay
  <2>3. QED
    BY <1>4, <2>1, <2>2, SavedPublishes
<1>5. QED
  BY <1>1, <1>2, <1>3, <1>4 DEF Announced

(* On an instance that stays up no event of a change, and no event of a    *)
(* payment's verdict, is dropped between the save of the row and the two   *)
(* logs, however its commands interleave and whatever fails elsewhere.     *)
THEOREM NothingDropped == Spec => []NoEventDropped
<1>1. Init => NoEventDropped
  BY DEF Init, NoEventDropped, ToSet
<1>2. TypeOK /\ Recorded /\ Settled /\ NoEventDropped /\ [Next]_vars => NoEventDropped'
  <2> SUFFICES ASSUME TypeOK, Recorded, Settled, NoEventDropped, [Next]_vars,
                      NEW t \in Task, NodeOf[t] \notin FaultyNode
               PROVE  IF t = Timer
                      THEN Announced'
                      ELSE t \in ToSet(changes') => \/ pc'[t] = "saved"
                                                    \/ \A e \in EventsOf(t) : UnderWay(e)'
    BY DEF NoEventDropped, Announced
  <2>1. CASE t = Timer
    BY <2>1, AnnouncedInductive DEF NoEventDropped, Announced
  <2>2. CASE t # Timer
    <3> SUFFICES ASSUME t \in ToSet(changes')
                 PROVE  pc'[t] = "saved" \/ \A e \in EventsOf(t) : UnderWay(e)'
      BY <2>2
    <3>1. CASE t \notin ToSet(changes)
      BY <3>1, EntersSaved
    <3>2. CASE pc[t] = "saved"
      <4>1. EventsDue(t) = EventsOf(t)
        BY <2>2, <3>2 DEF EventsDue
      <4>2. QED
        BY <3>2, <4>1, SavedPublishes DEF UnderWay
    <3>3. CASE \A e \in EventsOf(t) : UnderWay(e)
      <4>1. \A e \in EventsOf(t) : e \in Events /\ e.by = t
        BY EventFacts DEF Events
      <4>2. QED
        BY <3>3, <4>1, EventsStay
    <3>4. QED
      BY <2>2, <3>1, <3>2, <3>3 DEF NoEventDropped
  <2>3. QED
    BY <2>1, <2>2
<1>3. QED
  BY <1>1, <1>2, AlwaysRecorded, AlwaysSettled, PTL DEF Spec, Safety
=============================================================================
