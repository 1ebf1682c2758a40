---------------------------- MODULE KafkaTopics ----------------------------
(***************************************************************************)
(* Which topic KafkaService.publish (kafka/kafka.service.ts) sends a       *)
(* message to, and under which key.  A message is a record with the fields *)
(* it carries.  A topic is its name's parts: the md5 hashes that make a    *)
(* product or a correlation id a part of a name are left out, so two ids   *)
(* of one hash are told apart here.                                        *)
(***************************************************************************)
EXTENDS Sequences

Carries(message, field) == field \in DOMAIN message

(* generateTopicForProduct: the first product that the message names.      *)
GenerateTopicForProduct(base, message) ==
    IF Carries(message, "items") /\ message.items # <<>>
    THEN <<base, "product", Head(message.items)>>
    ELSE <<base>>

(* selectTopic, for the event types the program publishes: order-events,   *)
(* payment-events, saga-events and test-topic.                             *)
SelectTopic(eventType, message) ==
    CASE eventType \in {"order-events", "payment-events"} ->
             GenerateTopicForProduct(eventType, message)
      [] eventType = "saga-events" ->
             IF Carries(message, "correlationId") THEN <<eventType, message.correlationId>>
             ELSE <<eventType>>
      [] OTHER -> <<"order-events">>

(* The key, which keeps the messages of one topic in one partition; the    *)
(* present time stands in for a message without an id.                     *)
MessageKey(message, now) ==
    IF Carries(message, "correlationId") THEN message.correlationId
    ELSE IF Carries(message, "sagaId")   THEN message.sagaId
    ELSE IF Carries(message, "orderId")  THEN message.orderId
    ELSE now
=============================================================================
