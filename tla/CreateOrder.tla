---------------------------- MODULE CreateOrder ----------------------------
(***************************************************************************)
(* Creating orders: OrderController.createOrder and createTestOrder derive *)
(* an idempotency key from the request, CreateOrderHandler looks for an    *)
(* order with that key and inserts one.  Between the two, other requests   *)
(* run, on this node and on others; the unique index on                    *)
(* orders.idempotencyKey decides.  The creator's OrderCreated event is     *)
(* scheduled with setImmediate and starts the saga (OrderSaga), with the   *)
(* key as its correlation id.                                              *)
(*                                                                         *)
(* An order is named by the request that inserted it.  Orders are never    *)
(* deleted, and a cancelled order keeps its key.                           *)
(***************************************************************************)
EXTENDS SequencesExt

CONSTANTS Request,     \* POST /orders requests
          ItemsOf,     \* the products of each request, in the order it lists them
          GivenKey,    \* the idempotency key it brings, or NoKey
          NoKey,
          Node,        \* application instances behind the load balancer
          NodeOf,      \* where each request is served
          FaultyNode,  \* instances that may lose the database or go down
          NoOrder

ASSUME RequestAssumption == /\ NodeOf \in [Request -> Node]
                            /\ FaultyNode \subseteq Node
                            /\ NoOrder \notin Request

ASSUME ItemsAssumption == \A r \in Request : IsFiniteSet(DOMAIN ItemsOf[r])

VARIABLES pc,        \* where each request is, or how it was answered
          named,     \* the order a DUPLICATE_ORDER answer names
          orders,    \* rows of the table orders
          scheduled, \* orders whose OrderCreated event waits in setImmediate
          published  \* orders whose OrderCreated event was published

vars == <<pc, named, orders, scheduled, published>>

Answered == {"created", "duplicate", "error"}
PC       == {"find", "insert", "lookup", "dead"} \cup Answered

\* Mutant: the products are not sorted.
KeyInListedOrder(r) ==
    IF GivenKey[r] # NoKey THEN GivenKey[r] ELSE <<"SOLDOUT", ItemsOf[r]>>

(* sha256 of the sorted product ids: the same for the same products in any *)
(* order, repetitions counted; no two lists collide.                       *)
Key(r) ==
    IF GivenKey[r] # NoKey THEN GivenKey[r] ELSE <<"SOLDOUT", ToBag(ItemsOf[r])>>

(* findOne with the key of r.                                              *)
Existing(r) == {o \in orders : Key(o) = Key(r)}

Init == /\ pc    = [r \in Request |-> "find"]
        /\ named = [r \in Request |-> NoOrder]
        /\ orders = {} /\ scheduled = {} /\ published = {}

-----------------------------------------------------------------------------
AnswerDuplicate(r) ==
    \E o \in Existing(r) : /\ pc'    = [pc EXCEPT ![r] = "duplicate"]
                           /\ named' = [named EXCEPT ![r] = o]

Find(r) == /\ pc[r] = "find"
           /\ IF Existing(r) = {}
              THEN pc' = [pc EXCEPT ![r] = "insert"] /\ UNCHANGED named
              ELSE AnswerDuplicate(r)
           /\ UNCHANGED <<orders, scheduled, published>>

\* Mutant: no unique index.
InsertAlways(r) == /\ pc[r] = "insert"
                   /\ pc' = [pc EXCEPT ![r] = "created"]
                   /\ orders'    = orders \cup {r}
                   /\ scheduled' = scheduled \cup {r}
                   /\ UNCHANGED <<named, published>>

\* Mutant: the loser of the race answers as if it had created the order.
InsertOrPretend(r) == /\ pc[r] = "insert"
                      /\ pc' = [pc EXCEPT ![r] = "created"]
                      /\ orders'    = IF Existing(r) = {} THEN orders \cup {r} ELSE orders
                      /\ scheduled' = scheduled \cup {r}
                      /\ UNCHANGED <<named, published>>

\* Mutant: the event is left to whoever asks again.
InsertSilently(r) == /\ pc[r] = "insert"
                     /\ IF Existing(r) = {}
                        THEN /\ pc' = [pc EXCEPT ![r] = "created"]
                             /\ orders' = orders \cup {r}
                        ELSE /\ pc' = [pc EXCEPT ![r] = "lookup"]
                             /\ UNCHANGED orders
                     /\ UNCHANGED <<named, scheduled, published>>

(* save: the unique index lets one row of a key in, the others get 23505.  *)
Insert(r) == /\ pc[r] = "insert"
             /\ IF Existing(r) = {}
                THEN /\ pc' = [pc EXCEPT ![r] = "created"]
                     /\ orders'    = orders \cup {r}
                     /\ scheduled' = scheduled \cup {r}
                ELSE /\ pc' = [pc EXCEPT ![r] = "lookup"]
                     /\ UNCHANGED <<orders, scheduled>>
             /\ UNCHANGED <<named, published>>

\* Mutant: the loser names the order it would have created.
LookupOwn(r) == /\ pc[r] = "lookup"
                /\ pc'    = [pc EXCEPT ![r] = "duplicate"]
                /\ named' = [named EXCEPT ![r] = r]
                /\ UNCHANGED <<orders, scheduled, published>>

(* The catch block of 23505 looks the winner up to name it.                *)
Lookup(r) == /\ pc[r] = "lookup"
             /\ AnswerDuplicate(r)
             /\ UNCHANGED <<orders, scheduled, published>>

Publish(r) == /\ r \in scheduled
              /\ scheduled' = scheduled \ {r}
              /\ published' = published \cup {r}
              /\ UNCHANGED <<pc, named, orders>>

-----------------------------------------------------------------------------
(* The database refuses a query, or the row is committed and the answer to *)
(* save is lost: either way the request is answered with the error, and no *)
(* event is scheduled.                                                     *)
DbError(r) == /\ NodeOf[r] \in FaultyNode
              /\ pc[r] \in {"find", "insert", "lookup"}
              /\ pc' = [pc EXCEPT ![r] = "error"]
              /\ \/ UNCHANGED orders
                 \/ /\ pc[r] = "insert" /\ Existing(r) = {}
                    /\ orders' = orders \cup {r}
              /\ UNCHANGED <<named, scheduled, published>>

(* An instance goes down: its requests are never answered, its scheduled   *)
(* events are gone.                                                        *)
NodeDown(n) == /\ n \in FaultyNode
               /\ \E r \in Request : NodeOf[r] = n /\ (pc[r] \notin Answered \cup {"dead"} \/ r \in scheduled)
               /\ pc' = [r \in Request |-> IF NodeOf[r] = n /\ pc[r] \notin Answered
                                           THEN "dead" ELSE pc[r]]
               /\ scheduled' = {r \in scheduled : NodeOf[r] # n}
               /\ UNCHANGED <<named, orders, published>>

Next == \/ \E r \in Request : Find(r) \/ Insert(r) \/ Lookup(r) \/ Publish(r) \/ DbError(r)
        \/ \E n \in Node : NodeDown(n)

Safety == Init /\ [][Next]_vars

(* Queries of a running instance are answered, and its event loop runs.    *)
Spec == /\ Safety
        /\ \A r \in Request : WF_vars(Find(r) \/ Insert(r) \/ Lookup(r)) /\ WF_vars(Publish(r))

-----------------------------------------------------------------------------
(* Types.                                                                  *)
TypeOK == /\ pc        \in [Request -> PC]
          /\ named     \in [Request -> Request \cup {NoOrder}]
          /\ orders    \subseteq Request
          /\ scheduled \subseteq Request
          /\ published \subseteq Request

(* "5 concurrent requests for the same product create 1", README.md:491:   *)
(* requests of one key never leave two orders, and only the request whose  *)
(* order is in the table is told that it created one.                      *)
OneOrderPerKey ==
    /\ \A o, p \in orders : Key(o) = Key(p) => o = p
    /\ \A r \in Request : pc[r] = "created" => r \in orders

(* The controller sorts the products so that the same ones in any order    *)
(* give the same key (order.controller.ts:66): two requests that list the  *)
(* same products, reordered, never both create an order.                   *)
Reordered(s, t) == \E f \in Bijection(DOMAIN s, DOMAIN t) : \A i \in DOMAIN s : s[i] = t[f[i]]

SameProductsOneOrder ==
    \A o, p \in orders :
        GivenKey[o] = NoKey /\ GivenKey[p] = NoKey /\ Reordered(ItemsOf[o], ItemsOf[p])
            => o = p

(* A DUPLICATE_ORDER answer names an order that exists and has the key of  *)
(* the request, whether the first query or the unique index found it.      *)
DuplicateNamesOrder ==
    \A r \in Request : pc[r] = "duplicate" => /\ named[r] \in orders
                                              /\ Key(named[r]) = Key(r)

(* OrderCreated is published once per order and only for orders in the     *)
(* table: one correlation id never starts two sagas.                       *)
OneEventPerOrder == /\ scheduled \cup published \subseteq orders
                    /\ scheduled \cap published = {}

(* The queries, the unique index and its error implement SagaOnce: the     *)
(* order of a key is its only row, the answers name it.                    *)
OrderWith(k) == IF \E o \in orders : Key(o) = k THEN CHOOSE o \in orders : Key(o) = k ELSE NoOrder

Keys == {Key(r) : r \in Request}

Abstract == INSTANCE SagaOnce WITH
                Call <- Request, Id <- Keys, IdOf <- [r \in Request |-> Key(r)],
                NoSaga <- NoOrder, saga <- [k \in Keys |-> OrderWith(k)],
                answer <- [r \in Request |-> IF pc[r] = "created" THEN r ELSE named[r]]
ImplementsSagaOnce == Abstract!Spec

(* A request served by a sound instance is told of a duplicate, or its     *)
(* order's event is published: what happens on other instances, a database *)
(* error in the winner's insert included, never leaves it hanging.         *)
AnsweredAndAnnounced ==
    \A r \in Request : NodeOf[r] \notin FaultyNode =>
        <>(pc[r] = "duplicate" \/ (pc[r] = "created" /\ r \in published))

(* The half of it that needs no fairness: such a request never ends in an  *)
(* error, the order whose key refused its insert is there to be named, and *)
(* the event of the order it created waits in setImmediate or is out.      *)
NeverLeftHanging ==
    \A r \in Request : NodeOf[r] \notin FaultyNode =>
        \/ pc[r] \in {"find", "insert", "duplicate"}
        \/ pc[r] = "lookup" /\ Existing(r) # {}
        \/ pc[r] = "created" /\ r \in scheduled \cup published
=============================================================================
