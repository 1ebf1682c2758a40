------------------------------ MODULE Tracing ------------------------------
(***************************************************************************)
(* The endpoints that show one order's saga, order and payment together:   *)
(* traceByCorrelationId, traceByOrderId and getActiveFlows                 *)
(* (tracing/tracing.controller.ts) and getPendingOrders                    *)
(* (saga/saga-maintenance.controller.ts).  Each reads the three rows in    *)
(* queries of their own, outside of any transaction, while OrderSaga runs; *)
(* getSagaByCorrelationId (saga/saga.controller.ts) reads the saga alone.  *)
(* A client asks one of the five, gets an answer, and asks again.          *)
(***************************************************************************)
EXTENDS OrderSaga

CONSTANT Client

VARIABLES asked, \* the endpoint each client waits for
          view,  \* what the endpoint has read for it
          shown  \* its last answer: the endpoint and the rows

traceVars == <<vars, asked, view, shown>>

Endpoint == {"correlation", "order", "active", "pending", "saga"}

Row    == {"saga", "order", "payment"}
Unread == [row \in Row |-> "unread"]

Values  == {"unread"} \cup SagaStatus \cup OrderStatus \cup PaymentStatus
Answers == [Row -> Values]

Nothing == [by |-> "none", rows |-> Unread]

\* Mutant: the three queries are sent side by side.
AllAtOnce(endpoint) == <<Row>>

(* The rows an endpoint reads, in rounds: the queries of a round are sent  *)
(* together, the next round when they are back.                            *)
Rounds(endpoint) ==
    CASE endpoint = "correlation"          -> <<{"saga"}, {"order"}, {"payment"}>>
      [] endpoint \in {"order", "pending"} -> <<{"order"}, {"saga"}, {"payment"}>>
      [] endpoint = "active"               -> <<{"saga"}, {"order", "payment"}>>
      [] endpoint = "saga"                 -> <<{"saga"}>>

Rows(endpoint) == UNION Range(Rounds(endpoint))

Has(c, rows) == \A row \in rows : view[c][row] # "unread"

(* What a query for a row may return: getPendingOrders looks its saga up   *)
(* by a whole jsonb document, as the clean-up does.                        *)
Returned(endpoint, row) ==
    CASE row = "saga"    -> {saga.status} \cup (IF endpoint = "pending" THEN {"none"} ELSE {})
      [] row = "order"   -> {order}
      [] row = "payment" -> {payment}

(* An answer that names no flow: there is none, or none of the kind asked. *)
Passed(endpoint, row, value) ==
    \/ row = "saga"  /\ endpoint \in {"correlation", "saga"} /\ value = "none"
    \/ row = "saga"  /\ endpoint = "active" /\ value \notin {"started", "compensating"}
    \/ row = "order" /\ endpoint = "pending" /\ value # "pending"

-----------------------------------------------------------------------------
TraceInit == /\ Init
             /\ asked = [c \in Client |-> "none"]
             /\ view  = [c \in Client |-> Unread]
             /\ shown = [c \in Client |-> Nothing]

Ask(c) == /\ asked[c] = "none"
          /\ \E endpoint \in Endpoint : asked' = [asked EXCEPT ![c] = endpoint]
          /\ UNCHANGED <<vars, view, shown>>

(* The request is over.                                                    *)
Done(c) == /\ asked' = [asked EXCEPT ![c] = "none"]
           /\ view'  = [view EXCEPT ![c] = Unread]
           /\ UNCHANGED vars

Sent(c, row) ==
    \E i \in DOMAIN Rounds(asked[c]) : /\ row \in Rounds(asked[c])[i]
                                       /\ \A j \in 1 .. i - 1 : Has(c, Rounds(asked[c])[j])

Read(c, row) ==
    /\ asked[c] # "none" /\ Sent(c, row) /\ view[c][row] = "unread"
    /\ \E value \in Returned(asked[c], row) :
          \/ Passed(asked[c], row, value) /\ Done(c)
          \/ /\ ~Passed(asked[c], row, value)
             /\ view' = [view EXCEPT ![c][row] = value]
             /\ UNCHANGED <<vars, asked>>
    /\ UNCHANGED shown

Answer(c) == /\ asked[c] # "none" /\ Has(c, Rows(asked[c]))
             /\ shown' = [shown EXCEPT ![c] = [by |-> asked[c], rows |-> view[c]]]
             /\ Done(c)

(* A query that rejects ends the request; nothing is shown.                *)
QueryFails(c) == /\ "db" \in Faults /\ asked[c] # "none"
                 /\ Done(c)
                 /\ UNCHANGED shown

ClientStep(c) == Ask(c) \/ Answer(c) \/ QueryFails(c) \/ \E row \in Row : Read(c, row)

TraceNext == \/ Next /\ UNCHANGED <<asked, view, shown>>
             \/ \E c \in Client : ClientStep(c)

(* Nobody has to ask, and no query has to be answered.                     *)
TraceSafety == TraceInit /\ [][TraceNext]_traceVars
TraceSpec   == /\ TraceSafety
               /\ \A t \in SagaTask : WF_traceVars(TaskStep(t) /\ UNCHANGED <<asked, view, shown>>)

-----------------------------------------------------------------------------
(* Types of what is asked, read and shown.                                 *)
TraceTypeOK ==
    /\ asked \in [Client -> Endpoint \cup {"none"}]
    /\ view \in [Client -> Answers]
    /\ shown \in [Client -> [by : Endpoint \cup {"none"}, rows : Answers]]

(* isSuccessful, tracing.controller.ts:127, is never shown beside a        *)
(* payment that is not COMPLETED, although the rows are read one by one    *)
(* while the saga runs.  getActiveFlows, which reads order and payment     *)
(* side by side, gives no such promise.                                    *)
PaymentLast == {"correlation", "order", "pending"}

SuccessShowsPayment ==
    \A c \in Client : shown[c].by \in PaymentLast /\ shown[c].rows.saga = "completed" =>
                          shown[c].rows.payment = "completed"

(* Nobody is shown a PAID order whose payment does not look COMPLETED,     *)
(* unless somebody asked for the confirmation.                             *)
PaidShowsPayment ==
    \A c \in Client : shown[c].by \in PaymentLast /\ shown[c].rows.order = "paid" =>
                          shown[c].rows.payment = "completed" \/ ConfirmRequested

(* A client that was shown a COMPLETED saga is never shown another status  *)
(* again, by any endpoint.  (getPendingOrders may fail to find the saga.)  *)
SuccessNotRetracted ==
    [][\A c \in Client : shown[c].rows.saga = "completed" /\ shown'[c].by # "pending" =>
                             shown'[c].rows.saga = "completed"]_traceVars

(* A client that goes on being answered is shown the outcome in the end,   *)
(* and keeps being shown it, by whatever endpoints it asks: completed and  *)
(* paid for, or compensated, cancelled and failed.  (Without failed calls.)*)
ShownOutcome(rows) ==
    \/ rows.saga = "completed" /\ rows.payment \in {"completed", "unread"}
    \/ /\ rows.saga = "compensated"
       /\ rows.order \in {"cancelled", "unread"} /\ rows.payment \in {"failed", "unread"}

OutcomeShown ==
    \A c \in Client : []<><<Answer(c)>>_traceVars => <>[]ShownOutcome(shown[c].rows)

(* The safety half of OutcomeShown: whoever asks once the saga has come to *)
(* rest is shown the outcome by every answer from then on.                 *)
OutcomeShownAtRest ==
    \A c \in Client : [](AtRest /\ asked[c] = "none" =>
                             [][Answer(c) => ShownOutcome(shown'[c].rows)]_traceVars)
=============================================================================
