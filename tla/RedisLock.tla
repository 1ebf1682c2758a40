----------------------------- MODULE RedisLock -----------------------------
(***************************************************************************)
(* The distributed lock of src/src/redis/redis-lock.service.ts.            *)
(*                                                                         *)
(* A Client is one call of withLock (or one acquireLock ... releaseLock    *)
(* pair of the manual test endpoint).  generateToken gives every call a    *)
(* token of its own, so the token is the client itself.  Redis keeps one   *)
(* string per lock key and its remaining time to live.  Time is a count of *)
(* ticks: Ttl is the PX argument, FnTime bounds how long the protected     *)
(* function runs once Redis has granted the key.  Nothing in the code      *)
(* relates the two, so FnTime < Ttl is a condition of the theorems and of  *)
(* the passing runs, not an assumption of the module.                      *)
(***************************************************************************)
EXTENDS Integers

CONSTANTS Client,      \* calls of withLock
          Key,         \* lock keys
          KeyOf,       \* the key each call asks for
          Ttl,         \* ticks a granted key lives
          FnTime,      \* ticks the protected function may run
          RetryCount,  \* retries after the first attempt
          Faulty,      \* calls whose commands to Redis, or whose node, may fail
          Free         \* the value of a key that is not set

ASSUME KeyOfAssumption   == KeyOf \in [Client -> Key]
ASSUME TimesAssumption   == Ttl \in Nat \ {0} /\ FnTime \in Nat
ASSUME RetriesAssumption == RetryCount \in Nat
ASSUME FaultyAssumption  == Faulty \subseteq Client
ASSUME FreeAssumption    == Free \notin Client

VARIABLES store,    \* Redis: the token each key holds, or Free
          ttl,      \* Redis: ticks until the key expires, 0 when it does not
          pc,       \* where each call is
          attempt,  \* the loop variable of acquireLock
          left      \* ticks the protected function may still run

vars == <<store, ttl, pc, attempt, left>>

Ended == {"released", "kept", "refused", "dead"}
PC    == {"setting", "inside", "releasing"} \cup Ended

Init == /\ store   = [k \in Key |-> Free]
        /\ ttl     = [k \in Key |-> 0]
        /\ pc      = [c \in Client |-> "setting"]
        /\ attempt = [c \in Client |-> 0]
        /\ left    = [c \in Client |-> 0]

-----------------------------------------------------------------------------
\* Mutant: SET without NX overwrites whatever the key holds.
SetWithoutNX(c) == /\ store' = [store EXCEPT ![KeyOf[c]] = c]
                   /\ ttl'   = [ttl EXCEPT ![KeyOf[c]] = Ttl]

\* Mutant: SET without PX leaves a key that never expires.
SetWithoutPX(c) == /\ store[KeyOf[c]] = Free
                   /\ store' = [store EXCEPT ![KeyOf[c]] = c]
                   /\ ttl'   = [ttl EXCEPT ![KeyOf[c]] = 0]

(* SET key token PX ttl NX, as Redis executes it.                          *)
SetExecuted(c) == /\ store[KeyOf[c]] = Free
                  /\ store' = [store EXCEPT ![KeyOf[c]] = c]
                  /\ ttl'   = [ttl EXCEPT ![KeyOf[c]] = Ttl]

(* One round of acquireLock's loop came back without a lock: it sleeps and *)
(* goes round again, or returns null, on which withLock throws.            *)
\* Mutant: the loop never counts.
NeverGivesUp(c) == UNCHANGED <<pc, attempt>>

AttemptFails(c) ==
    IF attempt[c] < RetryCount
    THEN /\ attempt' = [attempt EXCEPT ![c] = @ + 1]
         /\ UNCHANGED pc
    ELSE /\ pc' = [pc EXCEPT ![c] = "refused"]
         /\ UNCHANGED attempt

Granted(c) == /\ pc[c] = "setting"
              /\ SetExecuted(c)
              /\ pc'   = [pc EXCEPT ![c] = "inside"]
              /\ left' = [left EXCEPT ![c] = FnTime]
              /\ UNCHANGED attempt

Taken(c) == /\ pc[c] = "setting"
            /\ store[KeyOf[c]] # Free
            /\ AttemptFails(c)
            /\ UNCHANGED <<store, ttl, left>>

(* The command fails before Redis runs it, or Redis runs it and the answer *)
(* is lost: the catch block treats both as a failed round, and in the      *)
(* second case the call's own token refuses its retries.                   *)
SetError(c) == /\ c \in Faulty /\ pc[c] = "setting"
               /\ AttemptFails(c)
               /\ UNCHANGED <<store, ttl, left>>

SetReplyLost(c) == /\ c \in Faulty /\ pc[c] = "setting"
                   /\ SetExecuted(c)
                   /\ AttemptFails(c)
                   /\ UNCHANGED left

-----------------------------------------------------------------------------
(* renewLock: the script extends the key only if it still holds the token. *)
Renew(c) == /\ pc[c] = "inside"
            /\ store[KeyOf[c]] = c
            /\ ttl' = [ttl EXCEPT ![KeyOf[c]] = Ttl]
            /\ UNCHANGED <<store, pc, attempt, left>>

(* The protected function returns or throws: finally releases either way.  *)
FnEnds(c) == /\ pc[c] = "inside"
             /\ pc' = [pc EXCEPT ![c] = "releasing"]
             /\ UNCHANGED <<store, ttl, attempt, left>>

\* Mutant: releaseLock without the comparison in the script.
DeleteAnything(c) == /\ store' = [store EXCEPT ![KeyOf[c]] = Free]
                     /\ ttl'   = [ttl EXCEPT ![KeyOf[c]] = 0]

(* unlockScript: DEL the key if it holds the caller's token.               *)
DeleteOwn(c) == IF store[KeyOf[c]] = c
                THEN /\ store' = [store EXCEPT ![KeyOf[c]] = Free]
                     /\ ttl'   = [ttl EXCEPT ![KeyOf[c]] = 0]
                ELSE UNCHANGED <<store, ttl>>

Release(c) ==
    /\ pc[c] = "releasing"
    /\ pc' = [pc EXCEPT ![c] = IF store[KeyOf[c]] = c THEN "released" ELSE "kept"]
    /\ DeleteOwn(c)
    /\ UNCHANGED <<attempt, left>>

(* releaseLock answers false on any error, whether the script ran or not.  *)
ReleaseError(c) == /\ c \in Faulty /\ pc[c] = "releasing"
                   /\ pc' = [pc EXCEPT ![c] = "kept"]
                   /\ DeleteOwn(c) \/ UNCHANGED <<store, ttl>>
                   /\ UNCHANGED <<attempt, left>>

(* The node of the call goes down: nothing runs its finally block.         *)
Die(c) == /\ c \in Faulty /\ pc[c] \notin Ended
          /\ pc' = [pc EXCEPT ![c] = "dead"]
          /\ UNCHANGED <<store, ttl, attempt, left>>

(* A unit of time passes.  Redis drops the keys whose time is up; a        *)
(* function that has used its FnTime must end before time goes on.         *)
Tick == /\ \E k \in Key : ttl[k] > 0
        /\ \A c \in Client : pc[c] = "inside" => left[c] > 0
        /\ store' = [k \in Key |-> IF ttl[k] = 1 THEN Free ELSE store[k]]
        /\ ttl'   = [k \in Key |-> IF ttl[k] > 0 THEN ttl[k] - 1 ELSE 0]
        /\ left'  = [c \in Client |-> IF pc[c] = "inside" THEN left[c] - 1 ELSE 0]
        /\ UNCHANGED <<pc, attempt>>

CallStep(c) == \/ Granted(c) \/ Taken(c) \/ SetError(c) \/ SetReplyLost(c)
               \/ Renew(c) \/ FnEnds(c) \/ Release(c) \/ ReleaseError(c) \/ Die(c)

Next == Tick \/ \E c \in Client : CallStep(c)

(* A call that is not down gets the answer to its SET, its function ends,  *)
(* and its release is answered; time passes.  Faults need not happen.      *)
Fairness == /\ WF_vars(Tick)
            /\ \A c \in Client : /\ WF_vars(Granted(c) \/ Taken(c))
                                 /\ WF_vars(FnEnds(c))
                                 /\ WF_vars(Release(c))

Safety == Init /\ [][Next]_vars
Spec   == Safety /\ Fairness

-----------------------------------------------------------------------------
(* The variables stay in their types: a key holds a call's token or        *)
(* nothing, its time never exceeds the PX argument, and acquireLock never  *)
(* goes round more often than its loop allows.                             *)
TypeOK == /\ store   \in [Key -> Client \cup {Free}]
          /\ ttl     \in [Key -> 0..Ttl]
          /\ pc      \in [Client -> PC]
          /\ attempt \in [Client -> 0..RetryCount]
          /\ left    \in [Client -> 0..FnTime]

(* A key is in the store exactly while its time runs, and a call inside    *)
(* its protected function still owns the key for longer than the function  *)
(* may run.  It is what makes MutualExclusion inductive.                   *)
LeaseCoversFn ==
    /\ \A k \in Key : store[k] = Free <=> ttl[k] = 0
    /\ \A c \in Client : pc[c] = "inside" => /\ store[KeyOf[c]] = c
                                             /\ ttl[KeyOf[c]] > left[c]

(* withLock runs at most one protected function per key, whatever calls    *)
(* fail, die or lose answers, as long as no function outlives its key.     *)
MutualExclusion ==
    \A c, d \in Client :
        pc[c] = "inside" /\ pc[d] = "inside" /\ KeyOf[c] = KeyOf[d] => c = d

(* releaseLock (in the finally of withLock) never removes a key another    *)
(* call holds, even when its own expired meanwhile.                        *)
NoForeignRelease ==
    [][\A c \in Client : pc[c] = "releasing" /\ pc'[c] # "releasing" =>
          \A k \in Key : store[k] # c => store'[k] = store[k]]_vars

(* Every call of withLock comes to an end, and whatever a dead call, a     *)
(* lost answer or a failed release left in Redis goes away.                *)
EveryCallEnds == \A c \in Client : <>(pc[c] \in Ended)
EveryKeyFreed == \A k \in Key : <>[](store[k] = Free)

(* What EveryCallEnds rests on: whatever changes a call brings it nearer   *)
(* its end, by one round of the loop or one stage of withLock.  Renewals   *)
(* change the key and not the call.                                        *)
StagesLeft(c) == CASE pc[c] = "setting"   -> 3 + RetryCount - attempt[c]
                   [] pc[c] = "inside"    -> 2
                   [] pc[c] = "releasing" -> 1
                   [] OTHER               -> 0

CallsRunDown ==
    [][\A c \in Client : \/ pc'[c] = pc[c] /\ attempt'[c] = attempt[c]
                         \/ StagesLeft(c)' \in 0 .. StagesLeft(c) - 1]_vars

(* What EveryKeyFreed rests on: a key whose holder is no longer inside     *)
(* ages with every tick, is never extended, and goes to nobody else before *)
(* it is free.                                                             *)
LeftKeysAge ==
    [][\A k \in Key : store[k] # Free /\ pc[store[k]] # "inside" =>
          \/ store'[k] = Free
          \/ store'[k] = store[k] /\ ttl'[k] = IF Tick THEN ttl[k] - 1 ELSE ttl[k]]_vars
=============================================================================
