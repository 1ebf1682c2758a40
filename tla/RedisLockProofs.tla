-------------------------- MODULE RedisLockProofs --------------------------
(***************************************************************************)
(* Proofs about RedisLock for any calls, keys, times, retries and faults.  *)
(* Types come first; LeaseCoversFn is inductive with them when a function  *)
(* is shorter than its TTL, and gives mutual exclusion.                    *)
(***************************************************************************)
EXTENDS RedisLock, TLAPS

(* Every step of the lock keeps the types.                                 *)
LEMMA TypeInductive == TypeOK /\ [Next]_vars => TypeOK'
<1> SUFFICES ASSUME TypeOK, [Next]_vars PROVE TypeOK'
  OBVIOUS
<1> USE KeyOfAssumption, TimesAssumption, RetriesAssumption
<1>1. ASSUME NEW c \in Client, AttemptFails(c)
      PROVE  attempt' \in [Client -> 0..RetryCount] /\ pc' \in [Client -> PC]
  BY <1>1 DEF AttemptFails, TypeOK, PC, Ended
<1>2. ASSUME NEW c \in Client, SetExecuted(c)
      PROVE  store' \in [Key -> Client \cup {Free}] /\ ttl' \in [Key -> 0..Ttl]
  BY <1>2 DEF SetExecuted, TypeOK
<1>3. ASSUME NEW c \in Client, DeleteOwn(c)
      PROVE  store' \in [Key -> Client \cup {Free}] /\ ttl' \in [Key -> 0..Ttl]
  BY <1>3 DEF DeleteOwn, TypeOK
<1>4. ASSUME NEW c \in Client, Granted(c) PROVE TypeOK'
  BY <1>2, <1>4 DEF Granted, TypeOK, PC
<1>5. ASSUME NEW c \in Client, Taken(c) PROVE TypeOK'
  BY <1>1, <1>5 DEF Taken, TypeOK
<1>6. ASSUME NEW c \in Client, SetError(c) PROVE TypeOK'
  BY <1>1, <1>6 DEF SetError, TypeOK
<1>7. ASSUME NEW c \in Client, SetReplyLost(c) PROVE TypeOK'
  BY <1>1, <1>2, <1>7 DEF SetReplyLost, TypeOK
<1>8. ASSUME NEW c \in Client, Renew(c) PROVE TypeOK'
  BY <1>8 DEF Renew, TypeOK
<1>9. ASSUME NEW c \in Client, FnEnds(c) PROVE TypeOK'
  BY <1>9 DEF FnEnds, TypeOK, PC
<1>10. ASSUME NEW c \in Client, Release(c) PROVE TypeOK'
  BY <1>3, <1>10 DEF Release, TypeOK, PC, Ended
<1>11. ASSUME NEW c \in Client, ReleaseError(c) PROVE TypeOK'
  BY <1>3, <1>11 DEF ReleaseError, TypeOK, PC, Ended
<1>12. ASSUME NEW c \in Client, Die(c) PROVE TypeOK'
  BY <1>12 DEF Die, TypeOK, PC, Ended
<1>13. CASE Tick
  BY <1>13 DEF Tick, TypeOK
<1>14. CASE UNCHANGED vars
  BY <1>14 DEF vars, TypeOK
<1>15. QED
  BY <1>4, <1>5, <1>6, <1>7, <1>8, <1>9, <1>10, <1>11, <1>12, <1>13, <1>14
  DEF Next, CallStep

(* The variables of the lock stay in their types.                          *)
THEOREM TypeCorrect == Spec => []TypeOK
<1>1. Init => TypeOK
  BY KeyOfAssumption, TimesAssumption, RetriesAssumption
  DEF Init, TypeOK, PC
<1>2. QED
  BY <1>1, TypeInductive, PTL DEF Spec, Safety

-----------------------------------------------------------------------------
(* What keeps the keys and the functions in step.                          *)
IInv == TypeOK /\ (FnTime < Ttl => LeaseCoversFn)

(* A key outlives its function at every step.                              *)
LEMMA LeaseInductive == IInv /\ TypeOK' /\ [Next]_vars => IInv'
<1> SUFFICES ASSUME TypeOK, TypeOK', LeaseCoversFn, [Next]_vars, FnTime < Ttl
             PROVE  LeaseCoversFn'
  BY DEF IInv
<1> USE KeyOfAssumption, TimesAssumption, FreeAssumption DEF TypeOK
<1>1. ASSUME NEW c \in Client, Granted(c) PROVE LeaseCoversFn'
  BY <1>1 DEF Granted, SetExecuted, LeaseCoversFn
<1>2. ASSUME NEW c \in Client, Taken(c) \/ SetError(c) PROVE LeaseCoversFn'
  BY <1>2 DEF Taken, SetError, AttemptFails, LeaseCoversFn
<1>3. ASSUME NEW c \in Client, SetReplyLost(c) PROVE LeaseCoversFn'
  BY <1>3 DEF SetReplyLost, SetExecuted, AttemptFails, LeaseCoversFn
<1>4. ASSUME NEW c \in Client, Renew(c) PROVE LeaseCoversFn'
  BY <1>4 DEF Renew, LeaseCoversFn
<1>5. ASSUME NEW c \in Client, FnEnds(c) \/ Die(c) PROVE LeaseCoversFn'
  BY <1>5 DEF FnEnds, Die, LeaseCoversFn
<1>6. ASSUME NEW c \in Client, Release(c) \/ ReleaseError(c) PROVE LeaseCoversFn'
  BY <1>6 DEF Release, ReleaseError, DeleteOwn, LeaseCoversFn
<1>7. CASE Tick
  BY <1>7 DEF Tick, LeaseCoversFn
<1>8. CASE UNCHANGED vars
  BY <1>8 DEF vars, LeaseCoversFn
<1>9. QED
  BY <1>1, <1>2, <1>3, <1>4, <1>5, <1>6, <1>7, <1>8 DEF Next, CallStep

(* A call in its protected function owns its key for longer than the       *)
(* function may still run, provided functions are shorter than the TTL.    *)
THEOREM LeaseSafety == Spec => [](FnTime < Ttl => LeaseCoversFn)
<1>1. Init => IInv
  BY KeyOfAssumption, TimesAssumption, RetriesAssumption, FreeAssumption
  DEF Init, IInv, TypeOK, LeaseCoversFn, PC
<1>2. IInv => (FnTime < Ttl => LeaseCoversFn)
  BY DEF IInv
<1>3. QED
  BY <1>1, <1>2, LeaseInductive, TypeCorrect, PTL DEF Spec, Safety

(* withLock runs one protected function per key at a time, provided        *)
(* functions are shorter than the TTL: the key names the only one.         *)
THEOREM LockExcludes == Spec => [](FnTime < Ttl => MutualExclusion)
<1>1. (FnTime < Ttl => LeaseCoversFn) => (FnTime < Ttl => MutualExclusion)
  BY DEF LeaseCoversFn, MutualExclusion
<1>2. QED
  BY <1>1, LeaseSafety, PTL

-----------------------------------------------------------------------------
(* A release never removes the key of another call, whatever the times:    *)
(* the script compares the token it finds.                                 *)
THEOREM ReleaseIsOwn == Spec => NoForeignRelease
<1> DEFINE Foreign ==
      \A c \in Client : pc[c] = "releasing" /\ pc'[c] # "releasing" =>
          \A k \in Key : store[k] # c => store'[k] = store[k]
<1>1. TypeOK /\ [Next]_vars => [Foreign]_vars
  <2> SUFFICES ASSUME TypeOK, Next,
                      NEW c \in Client, pc[c] = "releasing", pc'[c] # "releasing",
                      NEW k \in Key, store[k] # c
               PROVE  store'[k] = store[k]
    OBVIOUS
  <2>1. ~Tick
    BY DEF Tick
  <2>2. PICK d \in Client : CallStep(d)
    BY <2>1 DEF Next
  <2>3. d = c
    BY <2>2 DEF CallStep, Granted, Taken, SetError, SetReplyLost, AttemptFails, Renew,
                FnEnds, Release, ReleaseError, Die, TypeOK
  <2>4. Release(c) \/ ReleaseError(c) \/ Die(c)
    BY <2>2, <2>3 DEF CallStep, Granted, Taken, SetError, SetReplyLost, Renew, FnEnds
  <2>5. QED
    BY <2>4, KeyOfAssumption DEF Release, ReleaseError, Die, DeleteOwn, TypeOK
<1>2. QED
  BY <1>1, TypeCorrect, PTL DEF Spec, Safety, NoForeignRelease

-----------------------------------------------------------------------------
(* Redis holds a key exactly while its time runs, whatever the times are.  *)
KeysExpire == \A k \in Key : store[k] = Free <=> ttl[k] = 0

LEMMA KeysExpireInductive == TypeOK /\ KeysExpire /\ [Next]_vars => KeysExpire'
<1> SUFFICES ASSUME TypeOK, KeysExpire, [Next]_vars PROVE KeysExpire'
  OBVIOUS
<1> USE KeyOfAssumption, TimesAssumption, FreeAssumption DEF TypeOK
<1>1. ASSUME NEW c \in Client, SetExecuted(c) PROVE KeysExpire'
  BY <1>1 DEF SetExecuted, KeysExpire
<1>2. ASSUME NEW c \in Client, DeleteOwn(c) PROVE KeysExpire'
  BY <1>2 DEF DeleteOwn, KeysExpire
<1>3. ASSUME NEW c \in Client, Renew(c) PROVE KeysExpire'
  BY <1>3 DEF Renew, KeysExpire
<1>4. ASSUME UNCHANGED <<store, ttl>> PROVE KeysExpire'
  BY <1>4 DEF KeysExpire
<1>5. ASSUME NEW c \in Client, CallStep(c) PROVE KeysExpire'
  BY <1>1, <1>2, <1>3, <1>4, <1>5
  DEF CallStep, Granted, Taken, SetError, SetReplyLost, FnEnds, Release, ReleaseError, Die
<1>6. CASE Tick
  BY <1>6 DEF Tick, KeysExpire
<1>7. CASE UNCHANGED vars
  BY <1>4, <1>7 DEF vars
<1>8. QED
  BY <1>5, <1>6, <1>7 DEF Next

(* A key that a dead call, a lost answer or a failed release left behind   *)
(* is one tick nearer its end with every tick and is neither extended nor  *)
(* taken over meanwhile: after Ttl ticks at most it is free.               *)
THEOREM LeftBehindAges == Spec => LeftKeysAge
<1> DEFINE Ages ==
      \A k \in Key : store[k] # Free /\ pc[store[k]] # "inside" =>
          \/ store'[k] = Free
          \/ store'[k] = store[k] /\ ttl'[k] = IF Tick THEN ttl[k] - 1 ELSE ttl[k]
<1>1. TypeOK /\ KeysExpire /\ [Next]_vars => [Ages]_vars
  <2> SUFFICES ASSUME TypeOK, KeysExpire, Next,
                      NEW k \in Key, store[k] # Free, pc[store[k]] # "inside"
               PROVE  \/ store'[k] = Free
                      \/ store'[k] = store[k] /\ ttl'[k] = IF Tick THEN ttl[k] - 1 ELSE ttl[k]
    OBVIOUS
  <2>1. CASE Tick
    <3>1. ttl[k] \in Nat /\ ttl[k] # 0
      BY TimesAssumption DEF TypeOK, KeysExpire
    <3>2. /\ store'[k] = IF ttl[k] = 1 THEN Free ELSE store[k]
          /\ ttl'[k] = IF ttl[k] > 0 THEN ttl[k] - 1 ELSE 0
      BY <2>1 DEF Tick
    <3>3. QED
      BY <2>1, <3>1, <3>2
  <2>2. ASSUME NEW c \in Client, CallStep(c)
        PROVE  store'[k] = Free \/ (store'[k] = store[k] /\ ttl'[k] = ttl[k])
    <3> USE KeyOfAssumption DEF TypeOK
    <3>1. CASE Granted(c) \/ SetReplyLost(c)
      BY <3>1 DEF Granted, SetReplyLost, SetExecuted
    <3>2. CASE Taken(c) \/ SetError(c) \/ FnEnds(c) \/ Die(c)
      BY <3>2 DEF Taken, SetError, FnEnds, Die
    <3>3. CASE Renew(c)
      BY <3>3 DEF Renew
    <3>4. CASE Release(c) \/ ReleaseError(c)
      BY <3>4 DEF Release, ReleaseError, DeleteOwn
    <3>5. QED
      BY <2>2, <3>1, <3>2, <3>3, <3>4 DEF CallStep
  <2>3. QED
    BY <2>1, <2>2 DEF Next
<1>2. Init => KeysExpire
  BY DEF Init, KeysExpire
<1>3. QED
  BY <1>1, <1>2, KeysExpireInductive, TypeCorrect, PTL DEF Spec, Safety, LeftKeysAge

(* A call of withLock takes at most RetryCount rounds and three stages,    *)
(* whatever Redis answers and whoever holds the key: it never goes back    *)
(* to a round or a stage it has left.                                      *)
THEOREM CallsEndInTime == Spec => CallsRunDown
<1> DEFINE RunsDown == \A c \in Client : \/ pc'[c] = pc[c] /\ attempt'[c] = attempt[c]
                                         \/ StagesLeft(c)' \in 0 .. StagesLeft(c) - 1
<1>1. ASSUME TypeOK, [Next]_vars PROVE RunsDown
  <2> USE <1>1, RetriesAssumption DEF TypeOK, StagesLeft, Ended
  <2>1. ASSUME NEW c \in Client, Granted(c) \/ FnEnds(c) PROVE RunsDown
    BY <2>1 DEF Granted, FnEnds
  <2>2. ASSUME NEW c \in Client, pc[c] = "setting", AttemptFails(c) PROVE RunsDown
    BY <2>2 DEF AttemptFails
  <2>3. ASSUME NEW c \in Client, Release(c) \/ ReleaseError(c) \/ Die(c) PROVE RunsDown
    BY <2>3 DEF Release, ReleaseError, Die, PC
  <2>4. ASSUME NEW c \in Client, Renew(c) PROVE RunsDown
    BY <2>4 DEF Renew
  <2>5. CASE Tick \/ UNCHANGED vars
    BY <2>5 DEF Tick, vars
  <2>6. QED
    BY <2>1, <2>2, <2>3, <2>4, <2>5
    DEF Next, CallStep, Taken, SetError, SetReplyLost
<1>2. QED
  BY <1>1, TypeCorrect, PTL DEF Spec, Safety, CallsRunDown
=============================================================================
