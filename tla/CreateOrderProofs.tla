------------------------- MODULE CreateOrderProofs -------------------------
(***************************************************************************)
(* Proofs about CreateOrder for any requests, products, keys, instances    *)
(* and failures.  The unique index carries them: a row is only inserted    *)
(* when no row has its key, and no row goes away.                          *)
(***************************************************************************)
EXTENDS CreateOrder, FiniteSetTheorems, TLAPS

(* The queries keep the types: a duplicate is named by an order.           *)
LEMMA RequestTyped ==
    ASSUME TypeOK, NEW r \in Request,
           Find(r) \/ Insert(r) \/ Lookup(r) \/ Publish(r) \/ DbError(r)
    PROVE  TypeOK'
<1> USE DEF TypeOK, PC, Answered
<1>1. ASSUME AnswerDuplicate(r)
      PROVE  /\ pc' \in [Request -> PC]
             /\ named' \in [Request -> Request \cup {NoOrder}]
  BY <1>1 DEF AnswerDuplicate, Existing
<1>2. CASE Find(r)
  BY <1>1, <1>2 DEF Find
<1>3. CASE Insert(r)
  BY <1>3 DEF Insert
<1>4. CASE Lookup(r)
  BY <1>1, <1>4 DEF Lookup
<1>5. CASE Publish(r)
  BY <1>5 DEF Publish
<1>6. CASE DbError(r)
  BY <1>6 DEF DbError
<1>7. QED
  BY <1>2, <1>3, <1>4, <1>5, <1>6

(* Requests, answers and rows stay in their types.                         *)
THEOREM TypeCorrect == Spec => []TypeOK
<1>1. Init => TypeOK
  BY DEF Init, TypeOK, PC
<1>2. TypeOK /\ [Next]_vars => TypeOK'
  <2> SUFFICES ASSUME TypeOK, [Next]_vars PROVE TypeOK'
    OBVIOUS
  <2>1. ASSUME NEW n \in Node, NodeDown(n) PROVE TypeOK'
    BY <2>1 DEF NodeDown, TypeOK, PC
  <2>2. CASE UNCHANGED vars
    BY <2>2 DEF vars, TypeOK
  <2>3. QED
    BY <2>1, <2>2, RequestTyped DEF Next
<1>3. QED
  BY <1>1, <1>2, PTL DEF Spec, Safety

-----------------------------------------------------------------------------
(* Rows are never deleted, and a new one has a key no other row has.       *)
LEMMA RowsGrow ==
    ASSUME TypeOK, [Next]_vars
    PROVE  \/ orders' = orders
           \/ \E r \in Request : orders' = orders \cup {r} /\ Existing(r) = {}
<1>1. ASSUME NEW r \in Request,
             Find(r) \/ Insert(r) \/ Lookup(r) \/ Publish(r) \/ DbError(r)
      PROVE  orders' = orders \/ (orders' = orders \cup {r} /\ Existing(r) = {})
  BY <1>1 DEF Find, Insert, Lookup, Publish, DbError
<1>2. ASSUME NEW n \in Node, NodeDown(n) PROVE orders' = orders
  BY <1>2 DEF NodeDown
<1>3. CASE UNCHANGED vars
  BY <1>3 DEF vars
<1>4. QED
  BY <1>1, <1>2, <1>3 DEF Next

(* Concurrent requests of one key leave one order, and only a request      *)
(* whose order is in the table is told that it was created, whatever       *)
(* instance fails.                                                         *)
THEOREM OneOrder == Spec => []OneOrderPerKey
<1>1. Init => OneOrderPerKey
  BY DEF Init, OneOrderPerKey
<1>2. TypeOK /\ OneOrderPerKey /\ [Next]_vars => OneOrderPerKey'
  <2> SUFFICES ASSUME TypeOK, OneOrderPerKey, [Next]_vars PROVE OneOrderPerKey'
    OBVIOUS
  <2>1. \A o, p \in orders' : Key(o) = Key(p) => o = p
    BY RowsGrow DEF OneOrderPerKey, Existing
  <2>2. \A r \in Request : pc'[r] = "created" => pc[r] = "created" \/ r \in orders'
    <3>1. ASSUME NEW q \in Request, NEW r \in Request, pc'[r] = "created", pc[r] # "created",
                 Find(q) \/ Insert(q) \/ Lookup(q) \/ Publish(q) \/ DbError(q)
          PROVE  r \in orders'
      BY <3>1 DEF Find, Insert, Lookup, Publish, DbError, AnswerDuplicate, TypeOK
    <3>2. ASSUME NEW n \in Node, NodeDown(n), NEW r \in Request, pc'[r] = "created"
          PROVE  pc[r] = "created"
      BY <3>2 DEF NodeDown
    <3>3. CASE UNCHANGED vars
      BY <3>3 DEF vars
    <3>4. QED
      BY <3>1, <3>2, <3>3 DEF Next
  <2>3. QED
    BY <2>1, <2>2, RowsGrow DEF OneOrderPerKey
<1>3. QED
  BY <1>1, <1>2, TypeCorrect, PTL DEF Spec, Safety

(* Sorting makes the order of the products irrelevant: lists of the same   *)
(* products, each as often in both, give one bag.                          *)
LEMMA ReorderedBag ==
    ASSUME NEW s, NEW t, IsFiniteSet(DOMAIN s), Reordered(s, t)
    PROVE  ToBag(s) = ToBag(t)
<1>1. PICK f \in Bijection(DOMAIN s, DOMAIN t) : \A i \in DOMAIN s : s[i] = t[f[i]]
  BY DEF Reordered
<1>2. /\ f \in [DOMAIN s -> DOMAIN t]
      /\ \A i, j \in DOMAIN s : f[i] = f[j] => i = j
      /\ \A k \in DOMAIN t : \E i \in DOMAIN s : f[i] = k
  BY DEF Bijection, Injection, Surjection, IsInjective
<1>3. Range(s) = Range(t)
  BY <1>1, <1>2 DEF Range
<1>4. ASSUME NEW x
      PROVE  Cardinality({i \in DOMAIN s : s[i] = x}) = Cardinality({k \in DOMAIN t : t[k] = x})
  <2> DEFINE S == {i \in DOMAIN s : s[i] = x}
             T == {k \in DOMAIN t : t[k] = x}
             g == [i \in S |-> f[i]]
  <2>1. IsFiniteSet(S)
    BY FS_Subset
  <2>2. g \in [S -> T] /\ \A i, j \in S : g[i] = g[j] => i = j
    BY <1>1, <1>2
  <2>3. \A k \in T : \E i \in S : g[i] = k
    BY <1>1, <1>2
  <2>4. g \in Bijection(S, T)
    BY <2>2, <2>3 DEF Bijection, Injection, Surjection, IsInjective
  <2>5. QED
    BY <2>1, <2>4, FS_Bijection DEF ExistsBijection
<1>5. QED
  BY <1>3, <1>4 DEF ToBag

(* Two requests that list the same products in any order never both create *)
(* an order.                                                               *)
THEOREM SameProducts == Spec => []SameProductsOneOrder
<1>1. TypeOK /\ OneOrderPerKey => SameProductsOneOrder
  <2> SUFFICES ASSUME TypeOK, OneOrderPerKey, NEW o \in orders, NEW p \in orders,
                      GivenKey[o] = NoKey, GivenKey[p] = NoKey,
                      Reordered(ItemsOf[o], ItemsOf[p])
               PROVE  o = p
    BY DEF SameProductsOneOrder
  <2>1. ToBag(ItemsOf[o]) = ToBag(ItemsOf[p])
    BY ReorderedBag, ItemsAssumption DEF TypeOK
  <2>2. QED
    BY <2>1 DEF Key, OneOrderPerKey
<1>2. QED
  BY <1>1, TypeCorrect, OneOrder, PTL

(* A DUPLICATE_ORDER answer names an order that is in the table and has    *)
(* the key of the request, for the first query and for the unique index.   *)
THEOREM DuplicateNamed == Spec => []DuplicateNamesOrder
<1>1. Init => DuplicateNamesOrder
  BY DEF Init, DuplicateNamesOrder
<1>2. TypeOK /\ DuplicateNamesOrder /\ [Next]_vars => DuplicateNamesOrder'
  <2> SUFFICES ASSUME TypeOK, DuplicateNamesOrder, [Next]_vars,
                      NEW r \in Request, pc'[r] = "duplicate"
               PROVE  named'[r] \in orders' /\ Key(named'[r]) = Key(r)
    BY DEF DuplicateNamesOrder
  <2>1. orders \subseteq orders'
    BY RowsGrow
  <2>2. \/ pc[r] = "duplicate" /\ named'[r] = named[r]
        \/ named'[r] \in orders /\ Key(named'[r]) = Key(r)
    <3>1. ASSUME NEW q \in Request, Find(q) \/ Lookup(q)
          PROVE  \/ pc[r] = "duplicate" /\ named'[r] = named[r]
                 \/ named'[r] \in orders /\ Key(named'[r]) = Key(r)
      <4>1. CASE q = r
        BY <3>1, <4>1 DEF Find, Lookup, AnswerDuplicate, Existing, TypeOK
      <4>2. CASE q # r
        BY <3>1, <4>2 DEF Find, Lookup, AnswerDuplicate, TypeOK
      <4>3. QED
        BY <4>1, <4>2
    <3>2. ASSUME NEW q \in Request, Insert(q) \/ Publish(q) \/ DbError(q)
          PROVE  pc[r] = "duplicate" /\ named'[r] = named[r]
      BY <3>2 DEF Insert, Publish, DbError, TypeOK
    <3>3. ASSUME NEW n \in Node, NodeDown(n)
          PROVE  pc[r] = "duplicate" /\ named'[r] = named[r]
      BY <3>3 DEF NodeDown
    <3>4. CASE UNCHANGED vars
      BY <3>4 DEF vars
    <3>5. QED
      BY <3>1, <3>2, <3>3, <3>4 DEF Next
  <2>3. QED
    BY <2>1, <2>2 DEF DuplicateNamesOrder
<1>3. QED
  BY <1>1, <1>2, TypeCorrect, PTL DEF Spec, Safety

(* Every order's OrderCreated is published at most once, and none is for   *)
(* an order that is not in the table: one key starts one saga.             *)
THEOREM OneEvent == Spec => []OneEventPerOrder
<1>1. Init => OneEventPerOrder
  BY DEF Init, OneEventPerOrder
<1>2. TypeOK /\ OneEventPerOrder /\ [Next]_vars => OneEventPerOrder'
  <2> SUFFICES ASSUME TypeOK, OneEventPerOrder, [Next]_vars PROVE OneEventPerOrder'
    OBVIOUS
  <2>1. ASSUME NEW r \in Request, Insert(r) PROVE OneEventPerOrder'
    BY <2>1 DEF Insert, Existing, OneEventPerOrder
  <2>2. ASSUME NEW r \in Request, Publish(r) PROVE OneEventPerOrder'
    BY <2>2 DEF Publish, OneEventPerOrder
  <2>3. ASSUME NEW r \in Request, Find(r) \/ Lookup(r) \/ DbError(r) PROVE OneEventPerOrder'
    BY <2>3 DEF Find, Lookup, DbError, OneEventPerOrder
  <2>4. ASSUME NEW n \in Node, NodeDown(n) PROVE OneEventPerOrder'
    BY <2>4 DEF NodeDown, OneEventPerOrder
  <2>5. CASE UNCHANGED vars
    BY <2>5 DEF vars, OneEventPerOrder
  <2>6. QED
    BY <2>1, <2>2, <2>3, <2>4, <2>5 DEF Next
<1>3. QED
  BY <1>1, <1>2, TypeCorrect, PTL DEF Spec, Safety

-----------------------------------------------------------------------------
(* What one request's step does to its own place in the handler.           *)
LEMMA GoesOn ==
    ASSUME TypeOK, NEW r \in Request, NodeOf[r] \notin FaultyNode,
           Find(r) \/ Insert(r) \/ Lookup(r) \/ Publish(r) \/ DbError(r)
    PROVE  \/ pc'[r] \in {"insert", "duplicate"}
           \/ pc'[r] = "lookup" /\ Existing(r) # {}
           \/ pc'[r] = "created" /\ r \in scheduled'
           \/ pc'[r] = pc[r] /\ r \in published' /\ orders' = orders
<1>1. CASE Find(r)
  BY <1>1 DEF Find, AnswerDuplicate, TypeOK
<1>2. CASE Insert(r)
  BY <1>2 DEF Insert, TypeOK
<1>3. CASE Lookup(r)
  BY <1>3 DEF Lookup, AnswerDuplicate, TypeOK
<1>4. CASE Publish(r)
  BY <1>4 DEF Publish
<1>5. CASE DbError(r)
  BY <1>5 DEF DbError
<1>6. QED
  BY <1>1, <1>2, <1>3, <1>4, <1>5

(* What every other step leaves of it: other requests do not touch its     *)
(* place or its event, and an instance goes down with its own only.        *)
LEMMA LeftAlone ==
    ASSUME TypeOK, [Next]_vars, NEW r \in Request, NodeOf[r] \notin FaultyNode,
           ~(Find(r) \/ Insert(r) \/ Lookup(r) \/ Publish(r) \/ DbError(r))
    PROVE  /\ pc'[r] = pc[r]
           /\ r \in scheduled => r \in scheduled'
           /\ r \in published => r \in published'
<1>1. ASSUME NEW q \in Request, q # r,
             Find(q) \/ Insert(q) \/ Lookup(q) \/ Publish(q) \/ DbError(q)
      PROVE  /\ pc'[r] = pc[r]
             /\ r \in scheduled => r \in scheduled'
             /\ r \in published => r \in published'
  BY <1>1 DEF Find, Insert, Lookup, Publish, DbError, AnswerDuplicate, TypeOK
<1>2. ASSUME NEW n \in Node, NodeDown(n)
      PROVE  /\ pc'[r] = pc[r]
             /\ r \in scheduled => r \in scheduled'
             /\ r \in published => r \in published'
  BY <1>2 DEF NodeDown, TypeOK
<1>3. CASE UNCHANGED vars
  BY <1>3 DEF vars
<1>4. QED
  BY <1>1, <1>2, <1>3 DEF Next

(* A request of a sound instance is on its way to its answer in every      *)
(* state, and its order's event is never dropped: the loser of the race    *)
(* finds the winner although the winner's instance failed, because the row *)
(* that refused its insert does not go away.                               *)
THEOREM NobodyLeftHanging == Spec => []NeverLeftHanging
<1>1. Init => NeverLeftHanging
  BY DEF Init, NeverLeftHanging
<1>2. TypeOK /\ NeverLeftHanging /\ [Next]_vars => NeverLeftHanging'
  <2> SUFFICES ASSUME TypeOK, NeverLeftHanging, [Next]_vars,
                      NEW r \in Request, NodeOf[r] \notin FaultyNode
               PROVE  \/ pc'[r] \in {"find", "insert", "duplicate"}
                      \/ pc'[r] = "lookup" /\ Existing(r)' # {}
                      \/ pc'[r] = "created" /\ r \in scheduled' \cup published'
    BY DEF NeverLeftHanging
  <2>1. Existing(r) # {} => Existing(r)' # {}
    BY RowsGrow DEF Existing
  <2>2. CASE Find(r) \/ Insert(r) \/ Lookup(r) \/ Publish(r) \/ DbError(r)
    BY <2>1, <2>2, GoesOn DEF NeverLeftHanging
  <2>3. CASE ~(Find(r) \/ Insert(r) \/ Lookup(r) \/ Publish(r) \/ DbError(r))
    BY <2>1, <2>3, LeftAlone DEF NeverLeftHanging
  <2>4. QED
    BY <2>2, <2>3
<1>3. QED
  BY <1>1, <1>2, TypeCorrect, PTL DEF Spec, Safety

-----------------------------------------------------------------------------
(* The order of a key is its row.                                          *)
LEMMA OrderOfRow ==
    ASSUME TypeOK, OneOrderPerKey, NEW o \in orders
    PROVE  OrderWith(Key(o)) = o /\ o # NoOrder
<1>1. (CHOOSE p \in orders : Key(p) = Key(o)) \in orders
      /\ Key(CHOOSE p \in orders : Key(p) = Key(o)) = Key(o)
  OBVIOUS
<1>2. QED
  BY <1>1, RequestAssumption DEF OrderWith, OneOrderPerKey, TypeOK

AnswerTo(r) == IF pc[r] = "created" THEN r ELSE named[r]

(* Only a DUPLICATE_ORDER answer names an order.                           *)
OnlyDuplicatesName == \A r \in Request : pc[r] # "duplicate" => named[r] = NoOrder

LEMMA NamesInductive ==
    TypeOK /\ OnlyDuplicatesName /\ [Next]_vars => OnlyDuplicatesName'
<1> SUFFICES ASSUME TypeOK, OnlyDuplicatesName, [Next]_vars PROVE OnlyDuplicatesName'
  OBVIOUS
<1> USE DEF TypeOK, OnlyDuplicatesName
<1>1. ASSUME NEW r \in Request, AnswerDuplicate(r) PROVE OnlyDuplicatesName'
  BY <1>1 DEF AnswerDuplicate
<1>2. ASSUME NEW r \in Request, Find(r) \/ Lookup(r) PROVE OnlyDuplicatesName'
  BY <1>1, <1>2 DEF Find, Lookup
<1>3. ASSUME NEW r \in Request, Insert(r) \/ Publish(r) \/ DbError(r) PROVE OnlyDuplicatesName'
  BY <1>3 DEF Insert, Publish, DbError
<1>4. ASSUME NEW n \in Node, NodeDown(n) PROVE OnlyDuplicatesName'
  BY <1>4 DEF NodeDown, Answered
<1>5. CASE UNCHANGED vars
  BY <1>5 DEF vars
<1>6. QED
  BY <1>2, <1>3, <1>4, <1>5 DEF Next

(* A row that goes in is the order of its key from then on.                *)
LEMMA RowCreates ==
    ASSUME TypeOK, TypeOK', OneOrderPerKey', NEW r \in Request, Existing(r) = {},
           orders' = orders \cup {r}, pc[r] = "insert", named' = named,
           \E a \in {"created", "error"} : pc' = [pc EXCEPT ![r] = a]
    PROVE  Abstract!Create(r)
<1> DEFINE saga == [k \in Keys |-> OrderWith(k)]
           answer == [q \in Request |-> AnswerTo(q)]
<1>0. Key(r) \in Keys /\ [q \in Request |-> Key(q)][r] = Key(r)
  BY DEF Keys
<1>1. saga[Key(r)] = NoOrder
  BY <1>0 DEF Existing, OrderWith
<1>2. OrderWith(Key(r))' = r
  <2>1. \A o \in orders' : Key(o) = Key(r) <=> o = r
    BY DEF Existing
  <2>2. r \in orders'
    OBVIOUS
  <2>3. (CHOOSE o \in orders' : Key(o) = Key(r)) = r
    BY <2>1, <2>2
  <2>4. QED
    BY <2>2, <2>3 DEF OrderWith
<1>3. ASSUME NEW k \in Keys, k # Key(r) PROVE OrderWith(k)' = OrderWith(k)
  <2>1. \A o : o \in orders' /\ Key(o) = k <=> o \in orders /\ Key(o) = k
    BY <1>3
  <2>2. (CHOOSE o : o \in orders' /\ Key(o) = k) = (CHOOSE o : o \in orders /\ Key(o) = k)
    BY <2>1
  <2>3. QED
    BY <2>1, <2>2 DEF OrderWith
<1>4. saga' = [saga EXCEPT ![Key(r)] = r]
  BY <1>0, <1>2, <1>3
<1>5. answer' \in {answer, [answer EXCEPT ![r] = r]}
  <2>1. CASE pc' = [pc EXCEPT ![r] = "created"]
    BY <2>1 DEF AnswerTo, TypeOK
  <2>2. CASE pc' = [pc EXCEPT ![r] = "error"]
    BY <2>2 DEF AnswerTo, TypeOK
  <2>3. QED
    BY <2>1, <2>2
<1>6. QED
  BY <1>0, <1>1, <1>4, <1>5 DEF Abstract!Create, AnswerTo

(* A duplicate is answered with the order of its key.                      *)
LEMMA DuplicateAnswers ==
    ASSUME TypeOK, OneOrderPerKey, OnlyDuplicatesName, NEW r \in Request,
           pc[r] \in {"find", "lookup"}, AnswerDuplicate(r), orders' = orders
    PROVE  Abstract!Answer(r)
<1> DEFINE saga == [k \in Keys |-> OrderWith(k)]
           answer == [q \in Request |-> AnswerTo(q)]
<1>1. PICK o \in orders : /\ Key(o) = Key(r) /\ pc' = [pc EXCEPT ![r] = "duplicate"]
                          /\ named' = [named EXCEPT ![r] = o]
  BY DEF AnswerDuplicate, Existing
<1>2. Key(r) \in Keys /\ [q \in Request |-> Key(q)][r] = Key(r)
  BY DEF Keys
<1>3. saga[Key(r)] = o /\ o # NoOrder
  BY <1>1, <1>2, OrderOfRow
<1>4. answer[r] = NoOrder /\ answer' = [answer EXCEPT ![r] = o]
  BY <1>1 DEF AnswerTo, TypeOK, OnlyDuplicatesName
<1>5. saga' = saga
  BY DEF OrderWith
<1>6. QED
  BY <1>2, <1>3, <1>4, <1>5 DEF Abstract!Answer, AnswerTo

(* createOrder implements SagaOnce: an order is created once per key, and  *)
(* every answer that names an order names that one, whatever instances go  *)
(* down and whatever answers of the database are lost.                     *)
THEOREM Refinement == Spec => ImplementsSagaOnce
<1> DEFINE saga == [k \in Keys |-> OrderWith(k)]
           answer == [r \in Request |-> AnswerTo(r)]
           I == TypeOK /\ OneOrderPerKey /\ OnlyDuplicatesName
<1>1. Init => Abstract!Init
  BY DEF Init, Abstract!Init, OrderWith
<1>2. I /\ I' /\ [Next]_vars => Abstract!Next \/ UNCHANGED <<saga, answer>>
  <2> SUFFICES ASSUME I, I', [Next]_vars PROVE Abstract!Next \/ UNCHANGED <<saga, answer>>
    OBVIOUS
  <2>1. ASSUME orders' = orders, \A r \in Request : AnswerTo(r)' = AnswerTo(r)
        PROVE  UNCHANGED <<saga, answer>>
    BY <2>1 DEF OrderWith
  <2>2. ASSUME NEW r \in Request, Find(r) \/ Lookup(r)
        PROVE  Abstract!Next \/ UNCHANGED <<saga, answer>>
    <3>1. CASE AnswerDuplicate(r)
      <4>1. Abstract!Answer(r)
        BY <2>2, <3>1, DuplicateAnswers DEF Find, Lookup
      <4>2. QED
        BY <4>1 DEF Abstract!Next
    <3>2. CASE ~AnswerDuplicate(r)
      <4>1. orders' = orders /\ named' = named /\ pc[r] = "find" /\ pc' = [pc EXCEPT ![r] = "insert"]
        BY <2>2, <3>2 DEF Find, Lookup
      <4>2. QED
        BY <2>1, <4>1 DEF AnswerTo, TypeOK
    <3>3. QED
      BY <3>1, <3>2
  <2>3. ASSUME NEW r \in Request, Insert(r) \/ DbError(r)
        PROVE  Abstract!Next \/ UNCHANGED <<saga, answer>>
    <3>1. CASE orders' = orders
      <4>1. /\ pc[r] \in {"find", "insert", "lookup"} /\ named' = named
            /\ \E a \in {"lookup", "error"} : pc' = [pc EXCEPT ![r] = a]
        BY <2>3, <3>1 DEF Insert, DbError, Existing
      <4>2. QED
        BY <2>1, <3>1, <4>1 DEF AnswerTo, TypeOK
    <3>2. CASE orders' # orders
      <4>1. Abstract!Create(r)
        BY <2>3, <3>2, RowCreates DEF Insert, DbError
      <4>2. QED
        BY <4>1 DEF Abstract!Next
    <3>3. QED
      BY <3>1, <3>2
  <2>4. ASSUME NEW r \in Request, Publish(r) PROVE UNCHANGED <<saga, answer>>
    BY <2>1, <2>4 DEF Publish, AnswerTo
  <2>5. ASSUME NEW n \in Node, NodeDown(n) PROVE UNCHANGED <<saga, answer>>
    BY <2>1, <2>5 DEF NodeDown, AnswerTo, Answered
  <2>6. CASE UNCHANGED vars
    BY <2>1, <2>6 DEF vars, AnswerTo
  <2>7. QED
    BY <2>2, <2>3, <2>4, <2>5, <2>6 DEF Next
<1>3. Init => OnlyDuplicatesName
  BY DEF Init, OnlyDuplicatesName
<1>4. Abstract!Next \/ UNCHANGED <<saga, answer>>
      => [Abstract!Next]_<<saga, [r \in Request |-> IF pc[r] = "created" THEN r ELSE named[r]]>>
  BY DEF AnswerTo
<1>5. QED
  BY <1>1, <1>2, <1>3, <1>4, NamesInductive, TypeCorrect, OneOrder, PTL
  DEF Spec, Safety, ImplementsSagaOnce, Abstract!Spec
=============================================================================
