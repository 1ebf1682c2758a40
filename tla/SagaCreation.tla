---------------------------- MODULE SagaCreation ----------------------------
(***************************************************************************)
(* SagaManager.startSaga (src/src/saga/saga-manager.service.ts): find the  *)
(* saga of the correlation id or insert one, under the distributed lock    *)
(* saga_creation:<type>:<correlationId>.                                   *)
(*                                                                         *)
(* The lock is the one of RedisLock: a Client is one call of startSaga, a  *)
(* Key one correlation id (the saga type is always 'OrderProcessingSaga'). *)
(* The table saga_instances has no unique constraint on the two columns,   *)
(* so the table can hold several rows of one correlation id; a row is      *)
(* named by the call that inserted it.                                     *)
(***************************************************************************)
EXTENDS RedisLock, FiniteSets

VARIABLES rows,     \* the rows of each correlation id
          fn,       \* where each protected function is
          answer    \* the saga each call resolves to, Free while there is none

sagaVars == <<rows, fn, answer>>
allVars  == <<vars, sagaVars>>

FnPC == {"find", "insert", "end"}

SagaInit == /\ Init
            /\ rows   = [k \in Key |-> {}]
            /\ fn     = [c \in Client |-> "find"]
            /\ answer = [c \in Client |-> Free]

-----------------------------------------------------------------------------
\* Mutant: the existing saga is noticed but a new one is inserted anyway.
InsertRegardless(c) ==
    /\ pc[c] = "inside" /\ fn[c] = "find"
    /\ fn' = [fn EXCEPT ![c] = "insert"]
    /\ UNCHANGED <<vars, rows, answer>>

(* findOne: an existing saga is the answer, whichever row comes back.      *)
Find(c) ==
    /\ pc[c] = "inside" /\ fn[c] = "find"
    /\ IF rows[KeyOf[c]] = {}
       THEN fn' = [fn EXCEPT ![c] = "insert"] /\ UNCHANGED answer
       ELSE /\ fn' = [fn EXCEPT ![c] = "end"]
            /\ \E r \in rows[KeyOf[c]] : answer' = [answer EXCEPT ![c] = r]
    /\ UNCHANGED <<vars, rows>>

\* Mutant: the caller gets the entity it built, which was never saved.
InsertNothing(c) ==
    /\ pc[c] = "inside" /\ fn[c] = "insert"
    /\ answer' = [answer EXCEPT ![c] = c]
    /\ fn' = [fn EXCEPT ![c] = "end"]
    /\ UNCHANGED <<vars, rows>>

(* create and save.                                                        *)
Insert(c) ==
    /\ pc[c] = "inside" /\ fn[c] = "insert"
    /\ rows'   = [rows EXCEPT ![KeyOf[c]] = @ \cup {c}]
    /\ answer' = [answer EXCEPT ![c] = c]
    /\ fn' = [fn EXCEPT ![c] = "end"]
    /\ UNCHANGED vars

(* The database refuses findOne or save, or commits the row and the answer *)
(* is lost: the function throws and startSaga rejects after the release.   *)
DbError(c) ==
    /\ c \in Faulty /\ pc[c] = "inside" /\ fn[c] # "end"
    /\ fn' = [fn EXCEPT ![c] = "end"]
    /\ \/ UNCHANGED rows
       \/ fn[c] = "insert" /\ rows' = [rows EXCEPT ![KeyOf[c]] = @ \cup {c}]
    /\ UNCHANGED <<vars, answer>>

(* The lock's own steps.  The function ends when its body has; startSaga   *)
(* never renews its lock.                                                  *)
LockStep(c) ==
    /\ \/ Granted(c) \/ Taken(c) \/ SetError(c) \/ SetReplyLost(c)
       \/ fn[c] = "end" /\ FnEnds(c)
       \/ Release(c) \/ ReleaseError(c) \/ Die(c)
    /\ UNCHANGED sagaVars

TimePasses == Tick /\ UNCHANGED sagaVars

SagaNext == \/ TimePasses
            \/ \E c \in Client : LockStep(c) \/ Find(c) \/ Insert(c) \/ DbError(c)

SagaFairness ==
    /\ WF_allVars(TimePasses)
    /\ \A c \in Client :
          /\ WF_allVars(Granted(c) /\ UNCHANGED sagaVars)
          /\ WF_allVars(Taken(c) /\ UNCHANGED sagaVars)
          /\ WF_allVars(Find(c) \/ Insert(c))
          /\ WF_allVars(fn[c] = "end" /\ FnEnds(c) /\ UNCHANGED sagaVars)
          /\ WF_allVars(Release(c) /\ UNCHANGED sagaVars)

SagaSafety == SagaInit /\ [][SagaNext]_allVars
SagaSpec   == SagaSafety /\ SagaFairness

-----------------------------------------------------------------------------
(* Types; a call past its lock has an answer or failed.                    *)
SagaTypeOK == /\ TypeOK
              /\ rows   \in [Key -> SUBSET Client]
              /\ fn     \in [Client -> FnPC]
              /\ answer \in [Client -> Client \cup {Free}]

(* "Existing saga check (no duplicates)", saga-manager.service.ts:43: a    *)
(* correlation id never has two sagas.                                     *)
OneSagaPerCorrelation == \A k \in Key : Cardinality(rows[k]) <= 1

(* The detailed startSaga implements SagaOnce: the saga of a correlation   *)
(* id is its only row, the answers are the answers.                        *)
SagaOf(k) == IF rows[k] = {} THEN Free ELSE CHOOSE r \in rows[k] : TRUE

\* The caller has its answer once withLock's finally block is through.
Answered == [c \in Client |-> IF pc[c] \in {"released", "kept"} THEN answer[c] ELSE Free]

Abstract == INSTANCE SagaOnce WITH Call <- Client, Id <- Key, IdOf <- KeyOf, NoSaga <- Free,
                                   saga <- [k \in Key |-> SagaOf(k)], answer <- Answered
ImplementsSagaOnce == Abstract!Spec

(* A sound call is either refused by the lock or answered with a saga that *)
(* is in the table, even when other calls die holding the lock, lose       *)
(* answers or fail in the database.                                        *)
SoundCallServed == \A c \in Client \ Faulty :
                      <>(pc[c] = "refused" \/ answer[c] \in rows[KeyOf[c]])

(* The half of it that needs no fairness, and no relation of Ttl and       *)
(* FnTime: a call never returns a saga that is not in the table, and a     *)
(* sound call that leaves its lock returns one.                            *)
AnswersAreStored ==
    \A c \in Client : /\ answer[c] # Free => answer[c] \in rows[KeyOf[c]]
                      /\ c \notin Faulty /\ pc[c] \in {"releasing", "released", "kept", "dead"}
                             => answer[c] # Free
=============================================================================
