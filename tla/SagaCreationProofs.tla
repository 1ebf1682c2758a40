------------------------- MODULE SagaCreationProofs ------------------------
(***************************************************************************)
(* Proofs about SagaCreation, for any calls, correlation ids, times and    *)
(* faults.  As long as the locked function is shorter than the TTL, the    *)
(* find and the insert of startSaga are one step to every other call, and  *)
(* startSaga implements SagaOnce.                                          *)
(***************************************************************************)
EXTENDS SagaCreation, RedisLockProofs, FiniteSetTheorems

(* A step of startSaga is a step of the lock or leaves the lock alone.     *)
LEMMA LockUnderneath == [SagaNext]_allVars => [Next]_vars
<1> SUFFICES ASSUME [SagaNext]_allVars PROVE [Next]_vars
  OBVIOUS
<1>1. CASE TimePasses
  BY <1>1 DEF TimePasses, Next
<1>2. ASSUME NEW c \in Client, LockStep(c) PROVE Next
  BY <1>2 DEF LockStep, Next, CallStep
<1>3. ASSUME NEW c \in Client, Find(c) \/ Insert(c) \/ DbError(c) PROVE UNCHANGED vars
  BY <1>3 DEF Find, Insert, DbError
<1>4. CASE UNCHANGED allVars
  BY <1>4 DEF allVars
<1>5. QED
  BY <1>1, <1>2, <1>3, <1>4 DEF SagaNext

(* The lock's invariants under startSaga.                                  *)
LEMMA LockInvariants == SagaSpec => [](TypeOK /\ IInv)
<1>1. SagaInit => TypeOK /\ IInv
  BY KeyOfAssumption, TimesAssumption, RetriesAssumption, FreeAssumption
  DEF SagaInit, Init, IInv, TypeOK, LeaseCoversFn, PC
<1>2. TypeOK /\ IInv /\ [SagaNext]_allVars => (TypeOK /\ IInv)'
  BY LockUnderneath, TypeInductive, LeaseInductive
<1>3. QED
  BY <1>1, <1>2, PTL DEF SagaSpec, SagaSafety

(* The variables of startSaga stay in their types.                         *)
THEOREM SagaTypeCorrect == SagaSpec => []SagaTypeOK
<1>1. SagaInit => SagaTypeOK
  BY KeyOfAssumption, TimesAssumption, RetriesAssumption
  DEF SagaInit, Init, SagaTypeOK, TypeOK, PC, FnPC
<1>2. SagaTypeOK /\ TypeOK' /\ [SagaNext]_allVars => SagaTypeOK'
  <2> SUFFICES ASSUME SagaTypeOK, TypeOK', [SagaNext]_allVars PROVE SagaTypeOK'
    OBVIOUS
  <2> USE KeyOfAssumption DEF SagaTypeOK, FnPC
  <2>1. CASE TimePasses
    BY <2>1 DEF TimePasses, sagaVars
  <2>2. ASSUME NEW c \in Client, LockStep(c) PROVE SagaTypeOK'
    BY <2>2 DEF LockStep, sagaVars
  <2>3. ASSUME NEW c \in Client, Find(c) PROVE SagaTypeOK'
    BY <2>3 DEF Find
  <2>4. ASSUME NEW c \in Client, Insert(c) PROVE SagaTypeOK'
    BY <2>4 DEF Insert
  <2>5. ASSUME NEW c \in Client, DbError(c) PROVE SagaTypeOK'
    BY <2>5 DEF DbError
  <2>6. CASE UNCHANGED allVars
    BY <2>6 DEF allVars, sagaVars
  <2>7. QED
    BY <2>1, <2>2, <2>3, <2>4, <2>5, <2>6 DEF SagaNext
<1>3. QED
  BY <1>1, <1>2, LockInvariants, PTL DEF SagaSpec, SagaSafety

-----------------------------------------------------------------------------
(* What keeps find and insert together: a call that found nothing, still   *)
(* inside its function, still finds nothing; and an answer is a row.       *)
FoundNothing ==
    \A c \in Client : /\ pc[c] = "setting" => fn[c] = "find"
                      /\ pc[c] = "inside" /\ fn[c] = "insert" => rows[KeyOf[c]] = {}

OneRow == \A k \in Key : \A a, b \in rows[k] : a = b

AnswerIsRow == \A c \in Client : /\ answer[c] # Free => answer[c] \in rows[KeyOf[c]]
                                 /\ pc[c] = "setting" => answer[c] = Free

Once == FoundNothing /\ OneRow /\ AnswerIsRow

(* Every step keeps find and insert together.                              *)
LEMMA OnceInductive ==
    ASSUME FnTime < Ttl, SagaTypeOK, LeaseCoversFn, Once, [SagaNext]_allVars
    PROVE  Once'
<1> USE KeyOfAssumption, FreeAssumption DEF SagaTypeOK, TypeOK
<1>1. MutualExclusion
  BY DEF LeaseCoversFn, MutualExclusion
<1>2. CASE TimePasses
  BY <1>2 DEF TimePasses, sagaVars, Tick, Once, FoundNothing, OneRow, AnswerIsRow
<1>3. ASSUME NEW c \in Client, LockStep(c) PROVE Once'
  <2>1. UNCHANGED sagaVars /\ \A d \in Client : /\ pc'[d] = "setting" => pc[d] = "setting"
                                                /\ pc'[d] = "inside" => pc[d] \in {"setting", "inside"}
    BY <1>3
    DEF LockStep, Granted, Taken, SetError, SetReplyLost, AttemptFails, FnEnds, Release,
        ReleaseError, Die
  <2>2. QED
    BY <2>1 DEF sagaVars, Once, FoundNothing, OneRow, AnswerIsRow
<1>4. ASSUME NEW c \in Client, Find(c) PROVE Once'
  <2>1. UNCHANGED vars /\ UNCHANGED rows
    BY <1>4 DEF Find
  <2>2. FoundNothing'
    BY <1>4, <2>1 DEF Find, vars, Once, FoundNothing
  <2>3. AnswerIsRow'
    BY <1>4, <2>1 DEF Find, vars, Once, AnswerIsRow
  <2>4. QED
    BY <2>1, <2>2, <2>3 DEF Once, OneRow
<1>5. ASSUME NEW c \in Client, pc[c] = "inside", fn[c] = "insert", UNCHANGED vars,
             rows' = [rows EXCEPT ![KeyOf[c]] = @ \cup {c}],
             fn' = [fn EXCEPT ![c] = "end"],
             answer' = answer \/ answer' = [answer EXCEPT ![c] = c]
      PROVE  Once'
  <2>1. rows[KeyOf[c]] = {}
    BY <1>5 DEF Once, FoundNothing
  <2>2. \A d \in Client : d # c /\ pc[d] = "inside" => KeyOf[d] # KeyOf[c]
    BY <1>1, <1>5 DEF MutualExclusion
  <2>3. FoundNothing'
    BY <1>5, <2>2 DEF vars, Once, FoundNothing
  <2>4. OneRow'
    BY <1>5, <2>1 DEF Once, OneRow
  <2>5. AnswerIsRow'
    BY <1>5, <2>1 DEF vars, Once, AnswerIsRow
  <2>6. QED
    BY <2>3, <2>4, <2>5 DEF Once
<1>6. ASSUME NEW c \in Client, Insert(c) PROVE Once'
  BY <1>5, <1>6 DEF Insert
<1>7. ASSUME NEW c \in Client, DbError(c) PROVE Once'
  <2>1. CASE UNCHANGED rows
    BY <1>7, <2>1 DEF DbError, vars, Once, FoundNothing, OneRow, AnswerIsRow
  <2>2. CASE ~UNCHANGED rows
    BY <1>5, <1>7, <2>2 DEF DbError
  <2>3. QED
    BY <2>1, <2>2
<1>8. CASE UNCHANGED allVars
  BY <1>8 DEF allVars, vars, sagaVars, Once, FoundNothing, OneRow, AnswerIsRow
<1>9. QED
  BY <1>2, <1>3, <1>4, <1>6, <1>7, <1>8 DEF SagaNext

(* They stay together as long as the lock does.                            *)
LEMMA OnceAlways == SagaSpec => [](FnTime < Ttl => SagaTypeOK /\ LeaseCoversFn /\ Once)
<1>1. SagaInit => Once
  BY DEF SagaInit, Init, Once, FoundNothing, OneRow, AnswerIsRow
<1>2. /\ SagaTypeOK /\ IInv
      /\ FnTime < Ttl => Once
      /\ [SagaNext]_allVars
      => (FnTime < Ttl => Once)'
  BY OnceInductive DEF IInv
<1>3. SagaTypeOK /\ IInv /\ (FnTime < Ttl => Once)
      => (FnTime < Ttl => SagaTypeOK /\ LeaseCoversFn /\ Once)
  BY DEF IInv
<1>4. SagaInit => (FnTime < Ttl => Once)
  BY <1>1
<1>5. QED
  BY <1>2, <1>3, <1>4, LockInvariants, SagaTypeCorrect, PTL DEF SagaSpec, SagaSafety

(* A correlation id never has two sagas, whatever calls fail or die, as    *)
(* long as the locked function is shorter than the lock's TTL.             *)
THEOREM OneSaga == SagaSpec => [](FnTime < Ttl => OneSagaPerCorrelation)
<1>1. SagaTypeOK /\ Once => OneSagaPerCorrelation
  <2> SUFFICES ASSUME SagaTypeOK, Once, NEW k \in Key PROVE Cardinality(rows[k]) <= 1
    BY DEF OneSagaPerCorrelation
  <2>1. CASE rows[k] = {}
    BY <2>1, FS_EmptySet
  <2>2. CASE rows[k] # {}
    <3>1. PICK r : r \in rows[k]
      BY <2>2
    <3>2. rows[k] = {r}
      BY <3>1 DEF Once, OneRow
    <3>3. Cardinality({r}) = 1
      BY FS_Singleton
    <3>4. QED
      BY <3>2, <3>3
  <2>3. QED
    BY <2>1, <2>2
<1>2. (FnTime < Ttl => SagaTypeOK /\ LeaseCoversFn /\ Once) => (FnTime < Ttl => OneSagaPerCorrelation)
  BY <1>1
<1>3. QED
  BY <1>2, OnceAlways, PTL

-----------------------------------------------------------------------------
(* The saga of a correlation id is its row, and there is one exactly when  *)
(* the table has a row.                                                    *)
LEMMA SagaOfRow ==
    ASSUME SagaTypeOK, OneRow, NEW k \in Key
    PROVE  /\ rows[k] = {} => SagaOf(k) = Free
           /\ \A r \in rows[k] : SagaOf(k) = r /\ r # Free
<1>1. \A r \in rows[k] : r \in Client /\ rows[k] # {}
  BY DEF SagaTypeOK
<1>2. \A r \in rows[k] : (CHOOSE q \in rows[k] : TRUE) \in rows[k]
  OBVIOUS
<1>3. QED
  BY <1>1, <1>2, FreeAssumption DEF SagaOf, OneRow

(* An insert that finds no row creates the saga, with or without an answer *)
(* to the insert.                                                          *)
LEMMA InsertCreates ==
    ASSUME SagaTypeOK, SagaTypeOK', OneRow, OneRow',
           NEW c \in Client, rows[KeyOf[c]] = {}, pc[c] = "inside", pc' = pc,
           rows' = [rows EXCEPT ![KeyOf[c]] = @ \cup {c}],
           answer' = answer \/ answer' = [answer EXCEPT ![c] = c]
    PROVE  Abstract!Create(c)
<1> DEFINE saga == [k \in Key |-> SagaOf(k)]
<1>1. saga[KeyOf[c]] = Free
  BY KeyOfAssumption, SagaOfRow
<1>2. Answered' = Answered
  <2>1. \A d \in Client : d # c => answer'[d] = answer[d]
    BY DEF SagaTypeOK
  <2>2. pc[c] \notin {"released", "kept"}
    OBVIOUS
  <2>3. QED
    BY <2>1, <2>2 DEF Answered
<1>3. SagaOf(KeyOf[c])' = c
  <2>1. c \in rows'[KeyOf[c]]
    BY KeyOfAssumption DEF SagaTypeOK
  <2>2. rows'[KeyOf[c]] = {c}
    BY KeyOfAssumption DEF SagaTypeOK
  <2>3. QED
    BY <2>2 DEF SagaOf
<1>4. ASSUME NEW k \in Key, k # KeyOf[c] PROVE SagaOf(k)' = SagaOf(k)
  BY <1>4 DEF SagaTypeOK, SagaOf
<1>5. saga' = [saga EXCEPT ![KeyOf[c]] = c]
  BY <1>3, <1>4, KeyOfAssumption
<1>6. QED
  BY <1>1, <1>2, <1>5 DEF Abstract!Create

(* The end of withLock hands the answer to the caller.                     *)
LEMMA ReleaseAnswers ==
    ASSUME SagaTypeOK, Once, NEW c \in Client, pc[c] = "releasing",
           UNCHANGED <<rows, answer>>,
           pc' = [pc EXCEPT ![c] = "released"] \/ pc' = [pc EXCEPT ![c] = "kept"]
    PROVE  Abstract!Answer(c) \/ UNCHANGED <<[k \in Key |-> SagaOf(k)], Answered>>
<1>1. UNCHANGED [k \in Key |-> SagaOf(k)]
  BY DEF SagaOf
<1>2. Answered' = [Answered EXCEPT ![c] = answer[c]] /\ Answered[c] = Free
  BY DEF Answered, SagaTypeOK, TypeOK
<1>3. CASE answer[c] = Free
  <2>1. Answered' = Answered
    BY <1>2, <1>3 DEF Answered
  <2>2. QED
    BY <1>1, <2>1
<1>4. CASE answer[c] # Free
  <2>1. SagaOf(KeyOf[c]) = answer[c] /\ KeyOf[c] \in Key
    BY <1>4, KeyOfAssumption, SagaOfRow DEF Once, AnswerIsRow
  <2>2. QED
    BY <1>1, <1>2, <1>4, <2>1 DEF Abstract!Answer
<1>5. QED
  BY <1>3, <1>4

(* startSaga implements SagaOnce as long as the locked function is shorter *)
(* than the TTL: a saga is created once per correlation id, and every      *)
(* answer is that saga, whatever is lost, refused or down.                 *)
THEOREM Refinement == ASSUME FnTime < Ttl PROVE SagaSpec => ImplementsSagaOnce
<1> DEFINE abstractVars == <<[k \in Key |-> SagaOf(k)], Answered>>
           I == SagaTypeOK /\ LeaseCoversFn /\ Once
<1>1. SagaInit => Abstract!Init
  BY DEF SagaInit, Init, Abstract!Init, SagaOf, Answered
<1>2. I /\ I' /\ [SagaNext]_allVars => [Abstract!Next]_abstractVars
  <2> SUFFICES ASSUME I, I', [SagaNext]_allVars
               PROVE  Abstract!Next \/ UNCHANGED abstractVars
    OBVIOUS
  <2>1. ASSUME UNCHANGED <<rows, answer>>,
               \A c \in Client : pc'[c] \in {"released", "kept"} <=> pc[c] \in {"released", "kept"}
        PROVE  UNCHANGED abstractVars
    BY <2>1 DEF SagaOf, Answered
  <2>2. CASE TimePasses
    BY <2>1, <2>2 DEF TimePasses, sagaVars, Tick
  <2>3. ASSUME NEW c \in Client, LockStep(c) PROVE Abstract!Next \/ UNCHANGED abstractVars
    <3>1. CASE Release(c) \/ ReleaseError(c)
      <4>1. Abstract!Answer(c) \/ UNCHANGED abstractVars
        BY <2>3, <3>1, ReleaseAnswers DEF LockStep, sagaVars, Release, ReleaseError
      <4>2. QED
        BY <4>1 DEF Abstract!Next
    <3>2. CASE ~Release(c) /\ ~ReleaseError(c)
      <4>1. \A d \in Client : pc'[d] \in {"released", "kept"} <=> pc[d] \in {"released", "kept"}
        BY <2>3, <3>2
        DEF LockStep, Granted, Taken, SetError, SetReplyLost, AttemptFails, FnEnds, Die,
            SagaTypeOK, TypeOK, Ended
      <4>2. QED
        BY <2>1, <2>3, <4>1 DEF LockStep, sagaVars
    <3>3. QED
      BY <3>1, <3>2
  <2>4. ASSUME NEW c \in Client, Find(c) PROVE UNCHANGED abstractVars
    <3>1. UNCHANGED [k \in Key |-> SagaOf(k)]
      BY <2>4 DEF Find, SagaOf
    <3>2. UNCHANGED Answered
      BY <2>4 DEF Find, vars, Answered, SagaTypeOK
    <3>3. QED
      BY <3>1, <3>2
  <2>5. ASSUME NEW c \in Client, Insert(c) PROVE Abstract!Next
    <3>1. Abstract!Create(c)
      BY <2>5, InsertCreates DEF Insert, vars, Once, FoundNothing
    <3>2. QED
      BY <3>1 DEF Abstract!Next
  <2>6. ASSUME NEW c \in Client, DbError(c) PROVE Abstract!Next \/ UNCHANGED abstractVars
    <3>1. CASE UNCHANGED rows
      BY <2>1, <2>6, <3>1 DEF DbError, vars
    <3>2. CASE ~UNCHANGED rows
      <4>1. Abstract!Create(c)
        BY <2>6, <3>2, InsertCreates DEF DbError, vars, Once, FoundNothing
      <4>2. QED
        BY <4>1 DEF Abstract!Next
    <3>3. QED
      BY <3>1, <3>2
  <2>7. CASE UNCHANGED allVars
    BY <2>1, <2>7 DEF allVars, vars, sagaVars
  <2>8. QED
    BY <2>2, <2>3, <2>4, <2>5, <2>6, <2>7 DEF SagaNext
<1>3. (FnTime < Ttl => I) => I
  OBVIOUS
<1>4. QED
  BY <1>1, <1>2, <1>3, OnceAlways, PTL DEF SagaSpec, SagaSafety, ImplementsSagaOnce, Abstract!Spec

-----------------------------------------------------------------------------
(* A sound call whose function has come to its end has an answer.          *)
EndsAnswered == \A c \in Client \ Faulty : fn[c] = "end" => answer[c] # Free

(* Rows only grow, and a step of the lock leads out of it only at the end  *)
(* of the function; neither needs the lock to exclude anyone.              *)
LEMMA AnswersInductive ==
    SagaTypeOK /\ EndsAnswered /\ AnswersAreStored /\ [SagaNext]_allVars
        => EndsAnswered' /\ AnswersAreStored'
<1> SUFFICES ASSUME SagaTypeOK, EndsAnswered, AnswersAreStored, [SagaNext]_allVars
             PROVE  EndsAnswered' /\ AnswersAreStored'
  OBVIOUS
<1> USE KeyOfAssumption, FreeAssumption DEF SagaTypeOK, EndsAnswered, AnswersAreStored
<1>1. CASE TimePasses
  BY <1>1 DEF TimePasses, sagaVars, Tick
<1>2. ASSUME NEW c \in Client, LockStep(c) PROVE EndsAnswered' /\ AnswersAreStored'
  <2>1. UNCHANGED sagaVars
    BY <1>2 DEF LockStep
  <2>2. ASSUME NEW d \in Client \ Faulty, pc'[d] \in {"releasing", "released", "kept", "dead"}
        PROVE  pc[d] \in {"releasing", "released", "kept", "dead"} \/ fn[d] = "end"
    <3>1. CASE d # c
      BY <1>2, <2>2, <3>1
      DEF LockStep, Granted, Taken, SetError, SetReplyLost, AttemptFails, FnEnds, Release,
          ReleaseError, Die, TypeOK
    <3>2. CASE d = c
      BY <1>2, <2>2, <3>2
      DEF LockStep, Granted, Taken, SetError, SetReplyLost, AttemptFails, FnEnds, Release,
          ReleaseError, Die, TypeOK
    <3>3. QED
      BY <3>1, <3>2
  <2>3. QED
    BY <2>1, <2>2 DEF sagaVars
<1>3. ASSUME NEW c \in Client, Find(c) PROVE EndsAnswered' /\ AnswersAreStored'
  <2>1. UNCHANGED vars /\ rows' = rows
    BY <1>3 DEF Find
  <2>2. \A d \in Client : d # c => fn'[d] = fn[d] /\ answer'[d] = answer[d]
    BY <1>3 DEF Find
  <2>3. \/ fn'[c] = "insert" /\ answer'[c] = answer[c]
        \/ answer'[c] \in rows[KeyOf[c]] /\ answer'[c] # Free
    BY <1>3 DEF Find
  <2>4. QED
    BY <2>1, <2>2, <2>3 DEF vars
<1>4. ASSUME NEW c \in Client, Insert(c) PROVE EndsAnswered' /\ AnswersAreStored'
  BY <1>4 DEF Insert, vars
<1>5. ASSUME NEW c \in Client, DbError(c) PROVE EndsAnswered' /\ AnswersAreStored'
  BY <1>5 DEF DbError, vars
<1>6. CASE UNCHANGED allVars
  BY <1>6 DEF allVars, vars, sagaVars
<1>7. QED
  BY <1>1, <1>2, <1>3, <1>4, <1>5, <1>6 DEF SagaNext

(* startSaga never hands out a saga that is not in the table, and a sound  *)
(* call that leaves its lock hands one out, also when functions outlive    *)
(* their keys and two calls are inside: what fails then is uniqueness      *)
(* (OneSaga), not the answers.                                             *)
THEOREM AnswersStored == SagaSpec => []AnswersAreStored
<1>1. SagaInit => EndsAnswered /\ AnswersAreStored
  BY DEF SagaInit, Init, EndsAnswered, AnswersAreStored
<1>2. QED
  BY <1>1, AnswersInductive, SagaTypeCorrect, PTL DEF SagaSpec, SagaSafety
=============================================================================
