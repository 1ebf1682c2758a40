--------------------------- MODULE TracingProofs ---------------------------
(***************************************************************************)
(* Proofs about Tracing, for any clients, requests and failures: an answer *)
(* put together from rows read one after the other does not show a success *)
(* without its payment, because the payment is read last and a payment     *)
(* that something rests on never changes again.                            *)
(***************************************************************************)
EXTENDS Tracing, OrderSagaProofs

-----------------------------------------------------------------------------
(* Reading changes no row, so OrderSagaProofs holds of the rows.           *)
LEMMA ReadsOnly == [TraceNext]_traceVars => [Next]_vars
<1> SUFFICES ASSUME [TraceNext]_traceVars PROVE [Next]_vars
  OBVIOUS
<1>1. ASSUME NEW c \in Client, ClientStep(c) PROVE UNCHANGED vars
  BY <1>1 DEF ClientStep, Ask, Read, Answer, QueryFails, Done
<1>2. QED
  BY <1>1 DEF TraceNext, traceVars

LEMMA SagaBelow == TraceSafety => Safety
<1>1. TraceInit => Init
  BY DEF TraceInit
<1>2. QED
  BY <1>1, ReadsOnly, PTL DEF TraceSafety, Safety

-----------------------------------------------------------------------------
(* What was read rests on what happened before it was read: the payment    *)
(* was processed, or the confirmation requested.                           *)
Rests(row, processed, requested) ==
    /\ row.saga = "completed" => processed
    /\ row.order = "paid" => processed \/ requested

Shows(row, requested) ==
    /\ row.saga = "completed" => row.payment = "completed"
    /\ row.order = "paid" => row.payment = "completed" \/ requested

Good(row, processed, requested) ==
    /\ Rests(row, processed, requested)
    /\ row.payment # "unread" =>
          row.saga # "unread" /\ row.order # "unread" /\ Shows(row, requested)

ReadTyped  == /\ asked \in [Client -> Endpoint \cup {"none"}]
              /\ view \in [Client -> Answers]
ShownTyped == shown \in [Client -> [by : Endpoint \cup {"none"}, rows : Answers]]

ReadRests(c)  == /\ asked[c] = "none" => view[c] = Unread
                 /\ asked[c] \in PaymentLast => Good(view[c], Processed, ConfirmRequested)
ShownRests(c) == shown[c].by \in PaymentLast => Shows(shown[c].rows, ConfirmRequested)

TraceInv == /\ ReadTyped /\ ShownTyped
            /\ \A c \in Client : ReadRests(c) /\ ShownRests(c)

LEMMA UnreadRow == /\ Unread \in Answers
                   /\ Unread.saga = "unread" /\ Unread.order = "unread" /\ Unread.payment = "unread"
                   /\ \A processed, requested : Good(Unread, processed, requested)
                   /\ \A requested : Shows(Unread, requested)
<1>1. Unread \in Answers
  BY DEF Unread, Answers, Values
<1>2. Unread.saga = "unread" /\ Unread.order = "unread" /\ Unread.payment = "unread"
  BY DEF Unread, Row
<1>3. "unread" # "completed" /\ "unread" # "paid"
  OBVIOUS
<1>4. \A processed, requested : Rests(Unread, processed, requested)
  BY <1>2, <1>3 DEF Rests
<1>5. \A requested : Shows(Unread, requested)
  BY <1>2, <1>3 DEF Shows
<1>6. QED
  BY <1>1, <1>2, <1>4, <1>5 DEF Good

(* The payment is the last row, and the others are read before it.         *)
LEMMA LastRound ==
    ASSUME NEW c \in Client, asked[c] \in PaymentLast, NEW row, Sent(c, row)
    PROVE  row = "payment" => view[c].saga # "unread" /\ view[c].order # "unread"
<1>1. \/ Rounds(asked[c]) = <<{"saga"}, {"order"}, {"payment"}>>
      \/ Rounds(asked[c]) = <<{"order"}, {"saga"}, {"payment"}>>
  BY DEF PaymentLast, Rounds
<1>2. PICK i \in DOMAIN Rounds(asked[c]) :
          /\ row \in Rounds(asked[c])[i]
          /\ \A j \in 1 .. i - 1 : Has(c, Rounds(asked[c])[j])
  BY DEF Sent
<1>3. i \in 1..3
  BY <1>1, <1>2
<1>4. row = "payment" => i = 3
  BY <1>1, <1>2, <1>3
<1>5. row = "payment" => Has(c, Rounds(asked[c])[1]) /\ Has(c, Rounds(asked[c])[2])
  BY <1>2, <1>4
<1>6. QED
  BY <1>1, <1>5 DEF Has

(* One more row read: what it says rests on the present, and the payment   *)
(* shows what the others rest on.                                          *)
LEMMA GoodRead ==
    ASSUME NEW old \in Answers, NEW row \in Row, NEW value \in Values,
           NEW processed \in BOOLEAN, NEW requested \in BOOLEAN,
           Good(old, processed, requested), old[row] = "unread",
           row = "payment" => /\ old.saga # "unread" /\ old.order # "unread"
                              /\ processed => value = "completed",
           row = "saga" /\ value = "completed" => processed,
           row = "order" /\ value = "paid" => processed \/ requested
    PROVE  Good([old EXCEPT ![row] = value], processed, requested)
<1> DEFINE new == [old EXCEPT ![row] = value]
<1>1. /\ new[row] = value /\ \A r \in Row : r # row => new[r] = old[r]
      /\ \A r \in Row : r \in {"saga", "order", "payment"}
      /\ "saga" \in Row /\ "order" \in Row /\ "payment" \in Row
  BY DEF Answers, Row
<1> HIDE DEF new
<1>2. CASE row = "payment"
  BY <1>1, <1>2 DEF Good, Rests, Shows
<1>3. CASE row = "saga"
  BY <1>1, <1>3 DEF Good, Rests
<1>4. CASE row = "order"
  BY <1>1, <1>4 DEF Good, Rests
<1>5. QED
  BY <1>1, <1>2, <1>3, <1>4 DEF new

(* A request that is over leaves nothing behind.                           *)
LEMMA DoneInv ==
    ASSUME TraceInv, NEW c \in Client, Done(c)
    PROVE  /\ ReadTyped' /\ \A d \in Client : ReadRests(d)'
           /\ ConfirmRequested' = ConfirmRequested
<1>1. UNCHANGED vars /\ asked' = [asked EXCEPT ![c] = "none"] /\ view' = [view EXCEPT ![c] = Unread]
  BY DEF Done
<1>2. Processed' = Processed /\ ConfirmRequested' = ConfirmRequested
  BY <1>1 DEF vars, Processed, ConfirmRequested
<1>3. /\ asked' \in [Client -> Endpoint \cup {"none"}] /\ view' \in [Client -> Answers]
      /\ asked'[c] = "none" /\ view'[c] = Unread
      /\ \A d \in Client : d # c => asked'[d] = asked[d] /\ view'[d] = view[d]
  BY <1>1, UnreadRow DEF TraceInv, ReadTyped
<1>4. ASSUME NEW d \in Client PROVE ReadRests(d)'
  <2>1. CASE d = c
    BY <1>3, <2>1 DEF ReadRests, PaymentLast
  <2>2. CASE d # c
    <3>1. ReadRests(d) /\ asked'[d] = asked[d] /\ view'[d] = view[d]
      BY <1>3, <2>2 DEF TraceInv
    <3>2. QED
      BY <1>2, <3>1 DEF ReadRests
  <2>3. QED
    BY <2>1, <2>2
<1>5. QED
  BY <1>2, <1>3, <1>4 DEF ReadTyped

(* What was shown stays shown.                                             *)
LEMMA ShownStays ==
    ASSUME TraceInv, shown' = shown, ConfirmRequested => ConfirmRequested'
    PROVE  ShownTyped' /\ \A d \in Client : ShownRests(d)'
<1>1. ShownTyped /\ \A d \in Client : ShownRests(d)
  BY DEF TraceInv
<1>2. QED
  BY <1>1 DEF ShownTyped, ShownRests, Shows

LEMMA ReadInv == ASSUME Typed, Money, TraceInv, NEW c \in Client, NEW row \in Row, Read(c, row)
                 PROVE  TraceInv'
<1>1. /\ asked[c] # "none" /\ Sent(c, row) /\ view[c][row] = "unread" /\ shown' = shown
  BY DEF Read
<1>2. CASE Done(c)
  BY <1>1, <1>2, DoneInv, ShownStays DEF TraceInv
<1>3. CASE ~Done(c)
  <2>1. PICK value \in Returned(asked[c], row) :
            view' = [view EXCEPT ![c][row] = value] /\ UNCHANGED <<vars, asked>>
    BY <1>3 DEF Read
  <2>2. /\ view[c] \in Answers /\ view \in [Client -> Answers]
        /\ view' = [view EXCEPT ![c] = [view[c] EXCEPT ![row] = value]]
    BY <2>1 DEF TraceInv, ReadTyped
  <2>3. /\ row = "saga" => value = saga.status \/ value = "none"
        /\ row = "order" => value = order
        /\ row = "payment" => value = payment
    BY <2>1 DEF Returned, Row
  <2>4. value \in Values
    <3>1. order \in OrderStatus /\ payment \in PaymentStatus /\ saga.status \in SagaStatus
      BY DEF Typed, TypeOK, SagaRow
    <3>2. "none" \in SagaStatus
      BY DEF SagaStatus
    <3>3. QED
      BY <2>3, <3>1, <3>2 DEF Row, Values
  <2>5. [view[c] EXCEPT ![row] = value] \in Answers
    BY <2>2, <2>4 DEF Answers
  <2>6. /\ view' \in [Client -> Answers] /\ view'[c] = [view[c] EXCEPT ![row] = value]
        /\ \A d \in Client : d # c => view'[d] = view[d]
    BY <2>2, <2>5
  <2>7. Processed' = Processed /\ ConfirmRequested' = ConfirmRequested
    BY <2>1 DEF vars, Processed, ConfirmRequested
  <2>8. /\ saga.status = "completed" => Processed
        /\ order = "paid" => Processed \/ ConfirmRequested
        /\ Processed => payment = "completed"
        /\ Processed \in BOOLEAN /\ ConfirmRequested \in BOOLEAN
    BY DEF Money, SuccessIsProcessed, ChargedFirst, SaysSuccess, Processed, ConfirmRequested
  <2>9. asked[c] \in PaymentLast => Good(view'[c], Processed, ConfirmRequested)
    <3> SUFFICES ASSUME asked[c] \in PaymentLast
                 PROVE  Good(view'[c], Processed, ConfirmRequested)
      OBVIOUS
    <3>1. /\ Good(view[c], Processed, ConfirmRequested)
          /\ row = "payment" => view[c].saga # "unread" /\ view[c].order # "unread"
      BY <1>1, LastRound DEF TraceInv, ReadRests
    <3>2. /\ row = "payment" => /\ view[c].saga # "unread" /\ view[c].order # "unread"
                                /\ Processed => value = "completed"
          /\ row = "saga" /\ value = "completed" => Processed
          /\ row = "order" /\ value = "paid" => Processed \/ ConfirmRequested
      BY <2>3, <2>8, <3>1
    <3>3. Good([view[c] EXCEPT ![row] = value], Processed, ConfirmRequested)
      BY <1>1, <2>2, <2>4, <2>8, <3>1, <3>2, GoodRead
    <3>4. QED
      BY <2>6, <3>3
  <2>10. ASSUME NEW d \in Client PROVE ReadRests(d)'
    <3>1. CASE d = c
      BY <1>1, <2>1, <2>7, <2>9, <3>1 DEF ReadRests
    <3>2. CASE d # c
      <4>1. ReadRests(d) /\ asked'[d] = asked[d] /\ view'[d] = view[d]
        BY <2>1, <2>6, <3>2 DEF TraceInv
      <4>2. QED
        BY <2>7, <4>1 DEF ReadRests
    <3>3. QED
      BY <3>1, <3>2
  <2>11. ReadTyped'
    BY <2>1, <2>6 DEF TraceInv, ReadTyped
  <2>12. QED
    BY <1>1, <2>7, <2>10, <2>11, ShownStays DEF TraceInv
<1>4. QED
  BY <1>2, <1>3

LEMMA AnswerInv == ASSUME TraceInv, NEW c \in Client, Answer(c) PROVE TraceInv'
<1>1. /\ Done(c) /\ asked[c] # "none" /\ Has(c, Rows(asked[c]))
      /\ shown' = [shown EXCEPT ![c] = [by |-> asked[c], rows |-> view[c]]]
  BY DEF Answer
<1>2. /\ shown' \in [Client -> [by : Endpoint \cup {"none"}, rows : Answers]]
      /\ shown'[c].by = asked[c] /\ shown'[c].rows = view[c]
      /\ \A d \in Client : d # c => shown'[d] = shown[d]
  BY <1>1 DEF TraceInv, ReadTyped, ShownTyped
<1>3. asked[c] \in PaymentLast => Shows(view[c], ConfirmRequested)
  <2> SUFFICES ASSUME asked[c] \in PaymentLast PROVE Shows(view[c], ConfirmRequested)
    OBVIOUS
  <2>1. \/ Rounds(asked[c]) = <<{"saga"}, {"order"}, {"payment"}>>
        \/ Rounds(asked[c]) = <<{"order"}, {"saga"}, {"payment"}>>
    BY DEF PaymentLast, Rounds
  <2>2. 3 \in DOMAIN Rounds(asked[c]) /\ "payment" \in Rounds(asked[c])[3]
    BY <2>1
  <2>3. "payment" \in Rows(asked[c])
    BY <2>2 DEF Rows, Range
  <2>4. QED
    BY <1>1, <2>3 DEF Has, TraceInv, ReadRests, Good
<1>4. /\ ReadTyped' /\ \A d \in Client : ReadRests(d)'
      /\ ConfirmRequested' = ConfirmRequested
  BY <1>1, DoneInv
<1>5. ASSUME NEW d \in Client PROVE ShownRests(d)'
  <2>1. CASE d = c
    BY <1>2, <1>3, <1>4, <2>1 DEF ShownRests
  <2>2. CASE d # c
    <3>1. ShownRests(d) /\ shown'[d] = shown[d]
      BY <1>2, <2>2 DEF TraceInv
    <3>2. QED
      BY <1>4, <3>1 DEF ShownRests
  <2>3. QED
    BY <2>1, <2>2
<1>6. QED
  BY <1>2, <1>4, <1>5 DEF TraceInv, ShownTyped

LEMMA TraceInvStep == Typed /\ Money /\ TraceInv /\ [TraceNext]_traceVars => TraceInv'
<1> SUFFICES ASSUME Typed, Money, TraceInv, [TraceNext]_traceVars PROVE TraceInv'
  OBVIOUS
<1>1. CASE [Next]_vars /\ UNCHANGED <<asked, view, shown>>
  <2>1. (Processed => Processed') /\ (ConfirmRequested => ConfirmRequested')
    BY <1>1, ProcessedStays, RequestStays
  <2>2. ReadTyped' /\ \A d \in Client : ReadRests(d)'
    <3>1. ReadTyped /\ \A d \in Client : ReadRests(d)
      BY DEF TraceInv
    <3>2. QED
      BY <1>1, <2>1, <3>1 DEF ReadTyped, ReadRests, Good, Rests, Shows
  <2>3. QED
    BY <1>1, <2>1, <2>2, ShownStays DEF TraceInv
<1>2. ASSUME NEW c \in Client, Ask(c) PROVE TraceInv'
  <2>1. /\ UNCHANGED vars /\ view' = view /\ shown' = shown /\ asked[c] = "none"
        /\ \A d \in Client : d # c => asked'[d] = asked[d]
        /\ asked' \in [Client -> Endpoint \cup {"none"}] /\ asked'[c] \in Endpoint
    BY <1>2 DEF Ask, TraceInv, ReadTyped
  <2>2. Processed' = Processed /\ ConfirmRequested' = ConfirmRequested
    BY <2>1 DEF vars, Processed, ConfirmRequested
  <2>3. view[c] = Unread /\ Good(view[c], Processed, ConfirmRequested) /\ "none" \notin Endpoint
    BY <2>1, UnreadRow DEF TraceInv, ReadRests, Endpoint
  <2>4. ASSUME NEW d \in Client PROVE ReadRests(d)'
    <3>1. CASE d = c
      BY <2>1, <2>2, <2>3, <3>1 DEF ReadRests
    <3>2. CASE d # c
      <4>1. ReadRests(d) /\ asked'[d] = asked[d] /\ view'[d] = view[d]
        BY <2>1, <3>2 DEF TraceInv
      <4>2. QED
        BY <2>2, <4>1 DEF ReadRests
    <3>3. QED
      BY <3>1, <3>2
  <2>5. ReadTyped'
    BY <2>1 DEF TraceInv, ReadTyped
  <2>6. QED
    BY <2>1, <2>2, <2>4, <2>5, ShownStays DEF TraceInv
<1>3. ASSUME NEW c \in Client, QueryFails(c) PROVE TraceInv'
  BY <1>3, DoneInv, ShownStays DEF QueryFails, TraceInv
<1>4. ASSUME NEW c \in Client, ClientStep(c) PROVE TraceInv'
  BY <1>2, <1>3, <1>4, ReadInv, AnswerInv DEF ClientStep
<1>5. CASE UNCHANGED traceVars
  BY <1>1, <1>5 DEF traceVars
<1>6. QED
  BY <1>1, <1>4, <1>5 DEF TraceNext

LEMMA TraceInvAlways == TraceSafety => []TraceInv
<1>1. TraceInit => TraceInv
  <2> SUFFICES ASSUME TraceInit PROVE TraceInv
    OBVIOUS
  <2>1. /\ asked = [c \in Client |-> "none"] /\ view = [c \in Client |-> Unread]
        /\ shown = [c \in Client |-> Nothing]
    BY DEF TraceInit
  <2>2. QED
    BY <2>1, UnreadRow
    DEF TraceInv, ReadTyped, ShownTyped, ReadRests, ShownRests, Nothing, PaymentLast
<1>2. QED
  BY <1>1, TraceInvStep, SagaBelow, TypedAlways, MoneyAlways, PTL DEF TraceSafety

-----------------------------------------------------------------------------
(* Clients wait for endpoints and are shown rows.                          *)
THEOREM TraceTypeCorrect == TraceSpec => []TraceTypeOK
<1>1. TraceInv => TraceTypeOK
  BY DEF TraceInv, ReadTyped, ShownTyped, TraceTypeOK
<1>2. QED
  BY <1>1, TraceInvAlways, PTL DEF TraceSpec

(* A trace that says isSuccessful shows the COMPLETED payment, whatever    *)
(* runs and fails between its queries.                                     *)
THEOREM SuccessWithPayment == TraceSpec => []SuccessShowsPayment
<1>1. TraceInv => SuccessShowsPayment
  BY DEF TraceInv, ShownRests, Shows, SuccessShowsPayment
<1>2. QED
  BY <1>1, TraceInvAlways, PTL DEF TraceSpec

(* Nor is a PAID order shown without it, unless its confirmation was asked *)
(* for.                                                                    *)
THEOREM PaidWithPayment == TraceSpec => []PaidShowsPayment
<1>1. TraceInv => PaidShowsPayment
  BY DEF TraceInv, ShownRests, Shows, PaidShowsPayment
<1>2. QED
  BY <1>1, TraceInvAlways, PTL DEF TraceSpec

-----------------------------------------------------------------------------
(* A success that was read is still in the row, and what is being read for *)
(* a client that was shown it does not contradict it.                      *)
Retains(c) ==
    /\ view[c].saga = "completed" => saga.status = "completed"
    /\ shown[c].rows.saga = "completed" =>
          /\ saga.status = "completed"
          /\ asked[c] # "pending" => view[c].saga \in {"unread", "completed"}

(* Every endpoint reads the saga.                                          *)
LEMMA SagaIsRead == ASSUME NEW endpoint \in Endpoint PROVE "saga" \in Rows(endpoint)
<1>1. \/ Rounds(endpoint) = <<{"saga"}, {"order"}, {"payment"}>>
      \/ Rounds(endpoint) = <<{"order"}, {"saga"}, {"payment"}>>
      \/ Rounds(endpoint) = <<{"saga"}, {"order", "payment"}>>
      \/ Rounds(endpoint) = <<{"saga"}>>
  BY DEF Endpoint, Rounds
<1>2. \E i \in DOMAIN Rounds(endpoint) : "saga" \in Rounds(endpoint)[i]
  <2>1. CASE Rounds(endpoint) = <<{"order"}, {"saga"}, {"payment"}>>
    <3>1. 2 \in DOMAIN Rounds(endpoint) /\ "saga" \in Rounds(endpoint)[2]
      BY <2>1
    <3>2. QED
      BY <3>1
  <2>2. CASE Rounds(endpoint) # <<{"order"}, {"saga"}, {"payment"}>>
    <3>1. 1 \in DOMAIN Rounds(endpoint) /\ "saga" \in Rounds(endpoint)[1]
      BY <1>1, <2>2
    <3>2. QED
      BY <3>1
  <2>3. QED
    BY <2>1, <2>2
<1>3. QED
  BY <1>2 DEF Rows, Range

(* What one client's step does to it and to the others.                    *)
LEMMA ClientRetains ==
    ASSUME TraceInv, NEW c \in Client, ClientStep(c), \A d \in Client : Retains(d)
    PROVE  /\ \A d \in Client : Retains(d)'
           /\ \A d \in Client : shown[d].rows.saga = "completed" /\ shown'[d].by # "pending" =>
                                  shown'[d].rows.saga = "completed"
<1>0. /\ asked \in [Client -> Endpoint \cup {"none"}] /\ view \in [Client -> Answers]
      /\ shown \in [Client -> [by : Endpoint \cup {"none"}, rows : Answers]]
      /\ saga' = saga
  BY DEF TraceInv, ReadTyped, ShownTyped, ClientStep, Ask, Read, Answer, QueryFails, Done, vars
<1>1. ASSUME NEW d \in Client, d # c
      PROVE  asked'[d] = asked[d] /\ view'[d] = view[d] /\ shown'[d] = shown[d]
  BY <1>0, <1>1 DEF ClientStep, Ask, Read, Answer, QueryFails, Done
<1>2. /\ Retains(c)'
      /\ shown[c].rows.saga = "completed" /\ shown'[c].by # "pending" =>
            shown'[c].rows.saga = "completed"
  <2>1. CASE Ask(c)
    <3>1. view'[c] = view[c] /\ shown' = shown /\ view[c].saga = "unread"
      BY <2>1, UnreadRow DEF Ask, TraceInv, ReadRests
    <3>2. QED
      BY <1>0, <3>1 DEF Retains
  <2>2. ASSUME Done(c), shown' = shown PROVE Retains(c)'
    <3>1. view'[c].saga = "unread"
      BY <1>0, <2>2, UnreadRow DEF Done
    <3>2. QED
      BY <1>0, <2>2, <3>1 DEF Retains
  <2>3. CASE QueryFails(c)
    <3>1. Done(c) /\ shown' = shown
      BY <2>3 DEF QueryFails
    <3>2. QED
      BY <2>2, <3>1
  <2>4. ASSUME NEW row \in Row, Read(c, row) PROVE Retains(c)' /\ shown' = shown
    <3>1. shown' = shown
      BY <2>4 DEF Read
    <3>2. CASE ~Done(c)
      <4>1. PICK value \in Returned(asked[c], row) :
                view' = [view EXCEPT ![c][row] = value] /\ UNCHANGED <<vars, asked>>
        BY <2>4, <3>2 DEF Read
      <4>2. row = "saga" => value = saga.status \/ (asked[c] = "pending" /\ value = "none")
        BY <4>1 DEF Returned
      <4>3. view'[c].saga = IF row = "saga" THEN value ELSE view[c].saga
        BY <1>0, <4>1 DEF Answers, Row
      <4>4. QED
        BY <1>0, <3>1, <4>1, <4>2, <4>3 DEF Retains
    <3>3. QED
      BY <2>2, <3>1, <3>2
  <2>5. CASE Answer(c)
    <3>1. /\ asked[c] \in Endpoint /\ Has(c, Rows(asked[c])) /\ Done(c)
          /\ shown'[c].by = asked[c] /\ shown'[c].rows = view[c]
      BY <1>0, <2>5 DEF Answer
    <3>2. view[c].saga # "unread"
      BY <3>1, SagaIsRead DEF Has
    <3>3. view'[c].saga = "unread"
      BY <1>0, <3>1, UnreadRow DEF Done
    <3>4. QED
      BY <1>0, <3>1, <3>2, <3>3 DEF Retains
  <2>6. QED
    BY <2>1, <2>2, <2>3, <2>4, <2>5 DEF ClientStep, Ask, QueryFails
<1>3. ASSUME NEW d \in Client
      PROVE  /\ Retains(d)'
             /\ shown[d].rows.saga = "completed" /\ shown'[d].by # "pending" =>
                   shown'[d].rows.saga = "completed"
  BY <1>0, <1>1, <1>2 DEF Retains
<1>4. QED
  BY <1>3

LEMMA RetainsStep ==
    ASSUME Typed, Money, Turns, CompletedLast, TraceInv, \A d \in Client : Retains(d),
           [TraceNext]_traceVars
    PROVE  /\ \A d \in Client : Retains(d)'
           /\ \A d \in Client : shown[d].rows.saga = "completed" /\ shown'[d].by # "pending" =>
                                  shown'[d].rows.saga = "completed"
<1>1. saga.status = "completed" => saga'.status = "completed"
  BY ReadsOnly, CompletedKept
<1>2. CASE UNCHANGED <<asked, view, shown>>
  BY <1>1, <1>2 DEF Retains
<1>3. QED
  BY <1>2, ClientRetains DEF TraceNext, traceVars

(* Who was shown a COMPLETED saga is never shown another status of it, for *)
(* any clients, requests and failures, as long as the timer outlasts the   *)
(* payment step.                                                           *)
THEOREM SuccessIsKept == ASSUME TimerOutlastsStep PROVE TraceSpec => SuccessNotRetracted
<1> DEFINE AllRetain == \A d \in Client : Retains(d)
           Kept == \A c \in Client : shown[c].rows.saga = "completed" /\ shown'[c].by # "pending" =>
                                         shown'[c].rows.saga = "completed"
<1>1. TraceInit => AllRetain
  <2> SUFFICES ASSUME TraceInit, NEW d \in Client PROVE Retains(d)
    OBVIOUS
  <2>1. view[d] = Unread /\ shown[d] = Nothing
    BY DEF TraceInit
  <2>2. view[d].saga = "unread" /\ shown[d].rows.saga = "unread"
    BY <2>1, UnreadRow DEF Nothing
  <2>3. QED
    BY <2>2 DEF Retains
<1>2. /\ Typed /\ Money /\ Turns /\ CompletedLast /\ TraceInv /\ AllRetain /\ [TraceNext]_traceVars
      => AllRetain' /\ Kept
  BY RetainsStep
<1>3. QED
  BY <1>1, <1>2, TraceInvAlways, SagaBelow, TypedAlways, MoneyAlways, TurnsAlways,
     CompletedLastAlways, PTL
  DEF TraceSpec, TraceSafety, SuccessNotRetracted

-----------------------------------------------------------------------------
(* What a client that asked at rest has read so far: the saga and the      *)
(* payment as they are, and an order that fits them.  getPendingOrders     *)
(* finds no pending order and reads on nothing.                            *)
Fits(c) ==
    /\ view[c].saga \in {"unread", saga.status}
    /\ view[c].payment \in {"unread", payment}
    /\ saga.status = "compensated" => view[c].order \in {"unread", "cancelled"}
    /\ asked[c] = "pending" => view[c].saga = "unread" /\ view[c].order = "unread"

(* The request of another client, or the end of this one.                  *)
LEMMA FitsAfresh ==
    ASSUME NEW c \in Client, view'[c] = Unread PROVE Fits(c)'
  BY UnreadRow DEF Fits

(* getPendingOrders passes over an order that is not pending.              *)
LEMMA PendingPasses ==
    ASSUME NEW c \in Client, asked[c] = "pending", view[c].order = "unread", order # "pending",
           NEW row \in Row, Read(c, row)
    PROVE  Done(c)
<1>1. Rounds(asked[c]) = <<{"order"}, {"saga"}, {"payment"}>>
  BY DEF Rounds
<1>2. PICK i \in DOMAIN Rounds(asked[c]) :
          /\ row \in Rounds(asked[c])[i]
          /\ \A j \in 1 .. i - 1 : Has(c, Rounds(asked[c])[j])
  BY DEF Read, Sent
<1>3. i = 1
  <2>1. ~Has(c, Rounds(asked[c])[1])
    BY <1>1 DEF Has
  <2>2. i \in 1 .. 3
    BY <1>1, <1>2
  <2>3. QED
    BY <1>2, <2>1, <2>2
<1>4. row = "order"
  BY <1>1, <1>2, <1>3
<1>5. QED
  BY <1>4 DEF Read, Returned, Passed

(* Every query at rest is answered by the rows as they stay.               *)
LEMMA ReadFits ==
    ASSUME TraceInv, Agreed, NEW c \in Client, Fits(c), NEW row \in Row, Read(c, row)
    PROVE  Fits(c)'
<1>0. /\ asked \in [Client -> Endpoint \cup {"none"}] /\ view \in [Client -> Answers]
  BY DEF TraceInv, ReadTyped
<1>1. CASE Done(c)
  <2>1. view'[c] = Unread
    BY <1>0, <1>1 DEF Done
  <2>2. QED
    BY <2>1, FitsAfresh
<1>2. CASE ~Done(c)
  <2>1. PICK value \in Returned(asked[c], row) :
            view' = [view EXCEPT ![c][row] = value] /\ UNCHANGED <<vars, asked>>
    BY <1>2 DEF Read
  <2>2. asked[c] # "pending"
    BY <1>2, PendingPasses DEF Agreed, Fits
  <2>3. /\ row = "saga" => value = saga.status
        /\ row = "order" => value = order
        /\ row = "payment" => value = payment
    BY <2>1, <2>2 DEF Returned
  <2>4. /\ view'[c].saga = IF row = "saga" THEN value ELSE view[c].saga
        /\ view'[c].order = IF row = "order" THEN value ELSE view[c].order
        /\ view'[c].payment = IF row = "payment" THEN value ELSE view[c].payment
    BY <1>0, <2>1 DEF Answers, Row
  <2>5. saga' = saga /\ payment' = payment /\ asked' = asked
    BY <2>1 DEF vars
  <2>6. saga.status = "compensated" => order = "cancelled"
    BY DEF Agreed
  <2>7. QED
    BY <2>2, <2>3, <2>4, <2>5, <2>6 DEF Fits
<1>3. QED
  BY <1>1, <1>2

(* Nothing the client or anybody else does spoils it.                      *)
LEMMA FitsStep ==
    ASSUME Typed, TraceInv, AtRest, Agreed, Agreed', [TraceNext]_traceVars,
           NEW c \in Client, Fits(c)
    PROVE  Fits(c)'
<1>0. /\ asked \in [Client -> Endpoint \cup {"none"}] /\ view \in [Client -> Answers]
  BY DEF TraceInv, ReadTyped
<1>1. ASSUME asked'[c] = asked[c], view'[c] = view[c] PROVE Fits(c)'
  <2>1. payment' = payment
    BY ReadsOnly, RestStays
  <2>2. saga'.status = saga.status
    BY <2>1 DEF Agreed
  <2>3. QED
    BY <1>1, <2>1, <2>2 DEF Fits
<1>2. ASSUME NEW d \in Client, d # c, ClientStep(d)
      PROVE  asked'[c] = asked[c] /\ view'[c] = view[c]
  BY <1>0, <1>2 DEF ClientStep, Ask, Read, Answer, QueryFails, Done
<1>3. CASE Ask(c)
  <2>1. view'[c] = Unread
    BY <1>3 DEF Ask, TraceInv, ReadRests
  <2>2. QED
    BY <2>1, FitsAfresh
<1>4. CASE Answer(c) \/ QueryFails(c)
  <2>1. view'[c] = Unread
    BY <1>0, <1>4 DEF Answer, QueryFails, Done
  <2>2. QED
    BY <2>1, FitsAfresh
<1>5. CASE \E row \in Row : Read(c, row)
  BY <1>5, ReadFits
<1>6. CASE UNCHANGED <<asked, view, shown>>
  BY <1>1, <1>6
<1>7. QED
  BY <1>1, <1>2, <1>3, <1>4, <1>5, <1>6 DEF TraceNext, traceVars, ClientStep

(* Rows that fit tell the outcome.                                         *)
LEMMA FitsShows ==
    ASSUME TraceInv, Agreed, NEW c \in Client, Fits(c), Answer(c)
    PROVE  ShownOutcome(shown'[c].rows)
<1>1. /\ asked[c] \in Endpoint /\ Has(c, Rows(asked[c])) /\ shown'[c].rows = view[c]
  BY DEF Answer, TraceInv, ReadTyped, ShownTyped
<1>2. view[c].saga = saga.status
  BY <1>1, SagaIsRead DEF Has, Fits
<1>3. QED
  BY <1>1, <1>2 DEF Agreed, Fits, ShownOutcome

(* Whoever asks once the saga has come to rest is shown its outcome by     *)
(* every answer, from whatever endpoint: completed and paid for, or        *)
(* compensated, cancelled and failed.  (Without failed calls and without   *)
(* confirmations by hand, for any cancellations and clean-ups.)            *)
THEOREM OutcomeAtRest ==
    ASSUME TimerOutlastsStep, MaxFaults = 0, NobodyConfirms
    PROVE  TraceSpec => OutcomeShownAtRest
<1>1. ASSUME NEW c \in Client
      PROVE  TraceSpec => [](AtRest /\ asked[c] = "none" =>
                                [][Answer(c) => ShownOutcome(shown'[c].rows)]_traceVars)
  <2> DEFINE K == AtRest /\ Fits(c)
             J == Typed /\ TraceInv /\ AgreedAtRest
  <2>1. J /\ AtRest /\ asked[c] = "none" => K
    <3>1. ReadRests(c) /\ asked[c] = "none" => view[c] = Unread
      BY DEF ReadRests
    <3>2. view[c] = Unread => Fits(c)
      BY UnreadRow DEF Fits
    <3>3. QED
      BY <3>1, <3>2 DEF TraceInv
  <2>2. J /\ J' /\ K /\ [TraceNext]_traceVars => K'
    BY ReadsOnly, RestStays, FitsStep DEF AgreedAtRest
  <2>3. J /\ K /\ [TraceNext]_traceVars => [Answer(c) => ShownOutcome(shown'[c].rows)]_traceVars
    BY FitsShows DEF AgreedAtRest
  <2>4. QED
    BY <2>1, <2>2, <2>3, AgreedAlways, TraceInvAlways, SagaBelow, TypedAlways, PTL
    DEF TraceSpec, TraceSafety
<1>2. QED
  BY <1>1 DEF OutcomeShownAtRest
=============================================================================
