--------------------------- MODULE AccountsProofs ---------------------------
(***************************************************************************)
(* Proofs about Accounts, for any requests, instances and failures.  The   *)
(* invariant is Inv: what each await knows of the rows it read or wrote.   *)
(***************************************************************************)
EXTENDS Accounts, TLAPS

Gone == Answered \cup {"dead"}

(* A request waits for the one before it.                                  *)
WaitsForAnswer == \A r \in Request :
    After[r] # NoRequest /\ pc[After[r]] \notin Gone => pc[r] \in {"find", "dead"}

(* Only registrations insert.                                              *)
OnlyRegistrationsInsert == \A r \in Request : pc[r] = "insert" => KindOf[r] = "register"

UniqueEmails == \A u, v \in users : EmailOf[u] = EmailOf[v] => u = v

(* A request that is about to write, or has written, holds a row: its own, *)
(* the one its credentials fit, or that of the session it ends.            *)
Holds(r) ==
    /\ user[r] \in users
    /\ KindOf[r] = "register" => user[r] = r
    /\ KindOf[r] # "logout" => /\ EmailOf[user[r]] = EmailOf[r]
                               /\ PasswordOf[user[r]] = PasswordOf[r]
    /\ KindOf[r] = "logout" => /\ After[r] \in Request
                               /\ pc[After[r]] = "ok"
HoldsItsRow == \A r \in Request : pc[r] \in {"write", "ok"} => Holds(r)

Inv == /\ TypeOK
       /\ WaitsForAnswer
       /\ OnlyRegistrationsInsert
       /\ UniqueEmails
       /\ HoldsItsRow
       /\ RegisteredMayLogIn
       /\ TokensFollowSessions

(* What a step of one request may do: it moves only its own pc and user,   *)
(* it moves on from an await, and it adds no row but its own.              *)
Local(r) == /\ pc[r] \in {"find", "insert", "write"}
            /\ MayStart(r) \/ pc[r] \in {"insert", "write"}
            /\ \E p \in PC : p # pc[r] /\ p # "find" /\ pc' = [pc EXCEPT ![r] = p]
            /\ \A q \in Request \ {r} : user'[q] = user[q]
            /\ users' = users \/ (users' = users \cup {r} /\ WithEmail(r) = {} /\ pc[r] = "insert")
            /\ token' = token \/ (pc[r] = "write" /\ token' = [token EXCEPT ![user[r]] = TokenWrittenBy(r)])

LEMMA InitInv == ASSUME Init PROVE Inv
  BY RequestAssumption
  DEF Init, Inv, TypeOK, PC, Answered, WaitsForAnswer, OnlyRegistrationsInsert, UniqueEmails,
      HoldsItsRow, RegisteredMayLogIn, RegisteredBefore, TokensFollowSessions

(* Every action of a request is local.                                     *)
LEMMA StepsAreLocal ==
  ASSUME Inv, NEW r \in Request, Find(r) \/ Insert(r) \/ Write(r) \/ DbError(r)
  PROVE  Local(r)
<1> USE RequestAssumption
<1>1. CASE FindForRegister(r)
  BY <1>1 DEF FindForRegister, Answer, Local, PC, Answered, Inv, TypeOK
<1>2. CASE FindForLogin(r)
  BY <1>2 DEF FindForLogin, Answer, GoOn, Local, PC, Answered, Inv, TypeOK
<1>3. CASE FindForLogout(r)
  BY <1>3 DEF FindForLogout, Answer, GoOn, Local, PC, Answered, Inv, TypeOK
<1>4. CASE Insert(r)
  BY <1>4 DEF Insert, Answer, GoOn, Local, PC, Answered, Inv, TypeOK
<1>5. CASE Write(r)
  BY <1>5 DEF Write, Local, PC, Answered, Inv, TypeOK
<1>6. CASE DbError(r)
  BY <1>6 DEF DbError, Local, PC, Answered, Inv, TypeOK
<1> QED BY <1>1, <1>2, <1>3, <1>4, <1>5, <1>6 DEF Find

(* What a request holds after its own step.                                *)
LEMMA HoldsAfterStep ==
  ASSUME Inv, NEW r \in Request, Find(r) \/ Insert(r) \/ Write(r) \/ DbError(r),
         pc'[r] \in {"write", "ok"}
  PROVE  Holds(r)'
<1> USE RequestAssumption DEF Inv, TypeOK
<1>1. CASE FindForRegister(r)
  BY <1>1 DEF FindForRegister, Answer
<1>2. CASE FindForLogin(r)
  <2> PICK u \in WithEmail(r) : PasswordOf[u] = PasswordOf[r] /\ GoOn(r, u) /\ users' = users
    BY <1>2 DEF FindForLogin, Answer
  <2> QED BY <1>2 DEF FindForLogin, GoOn, WithEmail, Holds
<1>3. CASE FindForLogout(r)
  <2>1. GoOn(r, user[After[r]]) /\ users' = users /\ user[After[r]] \in users
    BY <1>3 DEF FindForLogout, Answer
  <2>2. After[r] \in Request /\ pc[After[r]] = "ok" /\ After[r] # r
    BY <1>3 DEF FindForLogout, MayStart
  <2> QED BY <1>3, <2>1, <2>2 DEF FindForLogout, GoOn, Holds
<1>4. CASE Insert(r)
  BY <1>4 DEF Insert, Answer, GoOn, Holds, OnlyRegistrationsInsert
<1>5. CASE Write(r)
  <2>1. Holds(r) /\ pc[r] = "write"
    BY <1>5 DEF Write, HoldsItsRow
  <2> QED BY <1>5, <2>1 DEF Write, Holds
<1>6. CASE DbError(r)
  BY <1>6 DEF DbError
<1> QED BY <1>1, <1>2, <1>3, <1>4, <1>5, <1>6 DEF Find

(* A client that has registered is not refused by its login's own step.    *)
LEMMA NotRefused ==
  ASSUME Inv, NEW r \in Request, Find(r) \/ Insert(r) \/ Write(r) \/ DbError(r),
         RegisteredBefore(r)
  PROVE  pc'[r] # "unauthorized"
<1> USE RequestAssumption DEF Inv, TypeOK
<1>1. CASE FindForLogin(r)
  <2>1. After[r] \in {u \in WithEmail(r) : PasswordOf[u] = PasswordOf[r]}
    BY DEF RegisteredBefore, WithEmail
  <2> QED BY <1>1, <2>1 DEF FindForLogin, GoOn
<1>2. CASE FindForRegister(r) \/ FindForLogout(r)
  BY <1>2 DEF FindForRegister, FindForLogout, RegisteredBefore
<1>3. CASE Insert(r) \/ Write(r) \/ DbError(r)
  BY <1>3 DEF Insert, Write, DbError, Answer, GoOn
<1> QED BY <1>1, <1>2, <1>3 DEF Find

(* What the UPDATE leaves behind.                                          *)
LEMMA WriteSetsToken ==
  ASSUME Inv, NEW r \in Request, Find(r) \/ Insert(r) \/ Write(r) \/ DbError(r)
  PROVE  /\ pc'[r] = "ok" => /\ pc[r] = "write" /\ user'[r] = user[r]
                             /\ token'[user[r]] = TokenWrittenBy(r)
         /\ token' # token => /\ pc[r] = "write" /\ user' = user
                              /\ pc'[r] \in {"ok", "error"}
<1> USE RequestAssumption DEF Inv, TypeOK
<1>1. CASE Write(r)
  <2>1. user[r] \in Request
    BY <1>1 DEF Write, HoldsItsRow, Holds
  <2> QED BY <1>1, <2>1 DEF Write
<1>2. CASE Find(r)
  BY <1>2 DEF Find, FindForRegister, FindForLogin, FindForLogout, Answer, GoOn
<1>3. CASE Insert(r)
  BY <1>3 DEF Insert, Answer, GoOn
<1>4. CASE DbError(r)
  BY <1>4 DEF DbError
<1> QED BY <1>1, <1>2, <1>3, <1>4

LEMMA RequestKeepsInv ==
  ASSUME Inv, NEW r \in Request, Find(r) \/ Insert(r) \/ Write(r) \/ DbError(r)
  PROVE  Inv'
<1> USE RequestAssumption
<1> DEFINE Step == Find(r) \/ Insert(r) \/ Write(r) \/ DbError(r)
<1>0. TypeOK /\ Local(r)
  BY StepsAreLocal DEF Inv
<1>1. PICK p \in PC : p # pc[r] /\ p # "find" /\ pc' = [pc EXCEPT ![r] = p]
  BY <1>0 DEF Local
<1>2. pc' \in [Request -> PC] /\ users' \subseteq Request /\ users \subseteq users'
  BY <1>0, <1>1 DEF TypeOK, Local
<1>3. user' \in [Request -> Request \cup {NoRequest}]
  <2>1. CASE Find(r)
    BY <1>0, <2>1 DEF Find, FindForRegister, FindForLogin, FindForLogout, MayStart, Answer, GoOn,
                      WithEmail, TypeOK
  <2>2. CASE Insert(r)
    BY <1>0, <2>2 DEF Insert, Answer, GoOn, TypeOK
  <2>3. CASE Write(r) \/ DbError(r)
    BY <1>0, <2>3 DEF Write, DbError, TypeOK
  <2> QED BY <2>1, <2>2, <2>3
<1>4. TypeOK'
  BY <1>0, <1>2, <1>3 DEF TypeOK, Local, TokenWrittenBy
<1>5. \A q \in Request : pc[q] \in Gone => q # r /\ pc'[q] = pc[q] /\ user'[q] = user[q]
  BY <1>0, <1>1 DEF Local, Gone, Answered, TypeOK
<1>6. WaitsForAnswer'
  <2> SUFFICES ASSUME NEW q \in Request, After[q] # NoRequest, pc'[After[q]] \notin Gone
               PROVE  pc'[q] \in {"find", "dead"}
    BY DEF WaitsForAnswer, Gone, Answered
  <2>1. After[q] \in Request /\ pc[After[q]] \notin Gone
    BY <1>5 DEF Gone, Answered
  <2>2. pc[q] \in {"find", "dead"}
    BY <2>1 DEF Inv, WaitsForAnswer
  <2>3. q # r
    BY <1>0, <2>1, <2>2 DEF Local, MayStart, Gone
  <2> QED BY <1>0, <1>1, <2>2, <2>3 DEF TypeOK
<1>7. OnlyRegistrationsInsert'
  <2>1. pc'[r] = "insert" => KindOf[r] = "register"
    BY <1>0 DEF Find, FindForRegister, FindForLogin, FindForLogout, Insert, Write, DbError,
                Answer, GoOn, TypeOK
  <2> QED BY <1>0, <1>1, <2>1 DEF Inv, OnlyRegistrationsInsert, TypeOK
<1>8. UniqueEmails'
  BY <1>0 DEF Inv, UniqueEmails, Local, WithEmail
<1>9. HoldsItsRow'
  <2> SUFFICES ASSUME NEW q \in Request, pc'[q] \in {"write", "ok"}
               PROVE  Holds(q)'
    BY DEF HoldsItsRow
  <2>1. CASE q = r
    BY <2>1, HoldsAfterStep
  <2>2. CASE q # r
    <3>1. Holds(q) /\ user'[q] = user[q]
      BY <1>0, <1>1, <2>2 DEF Local, Inv, HoldsItsRow, TypeOK
    <3>2. KindOf[q] = "logout" => pc'[After[q]] = "ok"
      BY <3>1, <1>5 DEF Holds, Gone, Answered
    <3> QED BY <3>1, <3>2, <1>2 DEF Holds
  <2> QED BY <2>1, <2>2
<1>10. RegisteredMayLogIn'
  <2> SUFFICES ASSUME NEW q \in Request, RegisteredBefore(q)'
               PROVE  pc'[q] # "unauthorized"
    BY DEF RegisteredMayLogIn
  <2>1. CASE RegisteredBefore(q)
    <3>1. CASE q = r
      BY <2>1, <3>1, NotRefused
    <3>2. CASE q # r
      BY <2>1, <3>2, <1>0, <1>1 DEF Inv, RegisteredMayLogIn, TypeOK
    <3> QED BY <3>1, <3>2
  <2>2. CASE ~RegisteredBefore(q)
    <3>1. After[q] = r /\ pc[r] = "insert" /\ After[q] # NoRequest
      BY <1>0, <2>2 DEF RegisteredBefore, Local
    <3>2. pc[q] \in {"find", "dead"}
      BY <3>1 DEF Inv, WaitsForAnswer, Gone, Answered
    <3>3. q # r
      BY <3>1, <3>2
    <3> QED BY <1>0, <1>1, <3>2, <3>3 DEF TypeOK
  <2> QED BY <2>1, <2>2
<1>11. TokensFollowSessions'
  <2> SUFFICES ASSUME NEW q \in Request, pc'[q] = "ok"
               PROVE  IF KindOf[q] = "logout"
                      THEN token'[user'[q]] # After[q]
                      ELSE token'[user'[q]] = NoRequest =>
                             \E o \in Request : /\ KindOf[o] = "logout" /\ user'[o] = user'[q]
                                                /\ pc'[o] \in {"ok", "error"}
    BY DEF TokensFollowSessions
  <2>1. CASE q = r
    <3>1. pc[r] = "write" /\ user'[r] = user[r] /\ token'[user[r]] = TokenWrittenBy(r)
      BY <2>1, WriteSetsToken
    <3>2. KindOf[r] = "logout" => After[r] \in Request
      BY <3>1 DEF Inv, HoldsItsRow, Holds
    <3> QED BY <2>1, <3>1, <3>2 DEF TokenWrittenBy
  <2>2. CASE q # r
    <3>1. pc[q] = "ok" /\ user'[q] = user[q] /\ Holds(q)
      BY <2>2, <1>0, <1>1 DEF TypeOK, Local, Inv, HoldsItsRow
    <3>2. CASE token'[user[q]] = token[user[q]]
      <4>1. CASE KindOf[q] = "logout"
        BY <3>1, <3>2, <4>1 DEF Inv, TokensFollowSessions
      <4>2. CASE KindOf[q] # "logout"
        <5> SUFFICES ASSUME token[user[q]] = NoRequest
                     PROVE  \E o \in Request : /\ KindOf[o] = "logout" /\ user'[o] = user[q]
                                               /\ pc'[o] \in {"ok", "error"}
          BY <3>1, <3>2, <4>2
        <5>1. PICK o \in Request : /\ KindOf[o] = "logout" /\ user[o] = user[q]
                                   /\ pc[o] \in {"ok", "error"}
          BY <3>1, <4>2 DEF Inv, TokensFollowSessions
        <5> QED BY <5>1, <1>5 DEF Gone, Answered
      <4> QED BY <4>1, <4>2
    <3>3. CASE token'[user[q]] # token[user[q]]
      <4>1. /\ pc[r] = "write" /\ user' = user /\ pc'[r] \in {"ok", "error"}
            /\ token' = [token EXCEPT ![user[r]] = TokenWrittenBy(r)]
        BY <3>3, <1>0, WriteSetsToken DEF Local
      <4>2. user[q] \in Request /\ user[r] = user[q] /\ token'[user[q]] = TokenWrittenBy(r)
        BY <4>1, <3>1, <3>3, <1>0 DEF Holds, TypeOK
      <4>3. KindOf[q] = "logout" => pc[After[q]] = "ok" /\ After[q] \in Request
        BY <3>1 DEF Holds
      <4> QED BY <3>1, <4>1, <4>2, <4>3 DEF TokenWrittenBy
    <3> QED BY <3>2, <3>3
  <2> QED BY <2>1, <2>2
<1> QED BY <1>4, <1>6, <1>7, <1>8, <1>9, <1>10, <1>11 DEF Inv

LEMMA NodeDownKeepsInv ==
  ASSUME Inv, NEW n \in Node, NodeDown(n)
  PROVE  Inv'
<1> USE RequestAssumption DEF NodeDown
<1>1. TypeOK'
  BY DEF Inv, TypeOK, PC
<1>2. \A q \in Request : /\ pc'[q] \in {pc[q], "dead"}
                         /\ pc[q] \in Gone => pc'[q] = pc[q]
  BY DEF Inv, TypeOK, Gone
<1>3. WaitsForAnswer'
  BY <1>2 DEF Inv, WaitsForAnswer, Gone
<1>4. OnlyRegistrationsInsert' /\ UniqueEmails'
  BY <1>2 DEF Inv, OnlyRegistrationsInsert, UniqueEmails
<1>5. HoldsItsRow'
  BY <1>2 DEF Inv, HoldsItsRow, Holds, Gone, Answered
<1>6. RegisteredMayLogIn'
  BY <1>2 DEF Inv, RegisteredMayLogIn, RegisteredBefore
<1>7. TokensFollowSessions'
  <2> SUFFICES ASSUME NEW q \in Request, pc'[q] = "ok"
               PROVE  IF KindOf[q] = "logout"
                      THEN token'[user'[q]] # After[q]
                      ELSE token'[user'[q]] = NoRequest =>
                             \E o \in Request : /\ KindOf[o] = "logout" /\ user'[o] = user'[q]
                                                /\ pc'[o] \in {"ok", "error"}
    BY DEF TokensFollowSessions
  <2> QED BY <1>2 DEF Inv, TokensFollowSessions, Gone, Answered
<1> QED BY <1>1, <1>3, <1>4, <1>5, <1>6, <1>7 DEF Inv

LEMMA InvHolds == Spec => []Inv
<1>1. ASSUME Inv, [Next]_vars PROVE Inv'
  <2>1. CASE Next
    BY <1>1, <2>1, RequestKeepsInv, NodeDownKeepsInv DEF Next
  <2>2. CASE UNCHANGED vars
    BY <1>1, <2>2
    DEF vars, Inv, TypeOK, WaitsForAnswer, OnlyRegistrationsInsert, UniqueEmails, HoldsItsRow,
        Holds, RegisteredMayLogIn, RegisteredBefore, TokensFollowSessions
  <2> QED BY <1>1, <2>1, <2>2
<1> QED BY <1>1, InitInv, PTL DEF Spec

-----------------------------------------------------------------------------
(* Types.                                                                  *)
THEOREM TypeCorrect == Spec => []TypeOK
  BY InvHolds, PTL DEF Inv

(* One account per email, owned by the registration that was told so.      *)
THEOREM OneAccount == Spec => []OneAccountPerEmail
<1>1. Inv => OneAccountPerEmail
  BY DEF Inv, UniqueEmails, HoldsItsRow, Holds, OneAccountPerEmail
<1> QED BY <1>1, InvHolds, PTL

(* Sessions are for the account whose credentials were brought.            *)
THEOREM SessionFits == Spec => []SessionFitsAccount
<1>1. Inv => SessionFitsAccount
  BY DEF Inv, HoldsItsRow, Holds, SessionFitsAccount
<1> QED BY <1>1, InvHolds, PTL

(* A client whose registration is in the table is not refused.             *)
THEOREM MayLogIn == Spec => []RegisteredMayLogIn
  BY InvHolds, PTL DEF Inv

(* The refresh-token column follows the sessions.                          *)
THEOREM TokensFollow == Spec => []TokensFollowSessions
  BY InvHolds, PTL DEF Inv

-----------------------------------------------------------------------------
(* An instance that stays up finishes what it began.                       *)
SoundStaysUp == \A r \in Request : NodeOf[r] \notin FaultyNode => pc[r] # "dead"

(* What a sound client's request may do in one step: a registration is     *)
(* refused only by an account with its email, a login that fits an account *)
(* goes on to its session.                                                 *)
LEMMA SoundStep ==
  ASSUME Inv, NEW r \in Request, NodeOf[r] \notin FaultyNode,
         Find(r) \/ Insert(r) \/ Write(r) \/ DbError(r)
  PROVE  /\ KindOf[r] = "register" =>
               \/ pc'[r] = "insert"
               \/ pc'[r] \in {"write", "conflict", "error"} /\ WithEmail(r)' # {}
               \/ pc'[r] = "ok" /\ pc[r] = "write"
         /\ RegisteredBefore(r) => pc'[r] \in {"write", "ok"}
<1> USE RequestAssumption DEF Inv, TypeOK
<1>1. CASE FindForRegister(r)
  BY <1>1 DEF FindForRegister, Answer, WithEmail, RegisteredBefore
<1>2. CASE FindForLogin(r)
  <2>1. RegisteredBefore(r) => After[r] \in {u \in WithEmail(r) : PasswordOf[u] = PasswordOf[r]}
    BY DEF RegisteredBefore, WithEmail
  <2> QED BY <1>2, <2>1 DEF FindForLogin, GoOn
<1>3. CASE FindForLogout(r)
  BY <1>3 DEF FindForLogout, RegisteredBefore
<1>4. CASE Insert(r)
  <2>1. KindOf[r] = "register"
    BY <1>4 DEF Insert, OnlyRegistrationsInsert
  <2>2. CASE users' = users \cup {r} /\ GoOn(r, r)
    BY <2>1, <2>2 DEF GoOn, WithEmail, RegisteredBefore
  <2>3. CASE WithEmail(r) # {} /\ Answer(r, "error")
    BY <2>1, <2>3 DEF Answer, WithEmail, RegisteredBefore
  <2> QED BY <1>4, <2>2, <2>3 DEF Insert
<1>5. CASE Write(r)
  BY <1>5 DEF Write, RegisteredBefore
<1>6. CASE DbError(r)
  BY <1>6 DEF DbError
<1> QED BY <1>1, <1>2, <1>3, <1>4, <1>5, <1>6 DEF Find

LEMMA SoundInductive ==
  ASSUME Inv, SoundStaysUp, NoSoundClientLost, [Next]_vars
  PROVE  SoundStaysUp' /\ NoSoundClientLost'
<1> USE RequestAssumption DEF Inv, TypeOK
<1>1. users \subseteq users'
  <2>1. ASSUME NEW r \in Request, Find(r) \/ Insert(r) \/ Write(r) \/ DbError(r)
        PROVE  users \subseteq users'
    BY <2>1, StepsAreLocal DEF Local
  <2> QED BY <2>1 DEF Next, NodeDown, vars
<1>2. \A r \in Request : WithEmail(r) # {} => WithEmail(r)' # {}
  BY <1>1 DEF WithEmail
<1>3. ASSUME NEW r \in Request, Find(r) \/ Insert(r) \/ Write(r) \/ DbError(r)
      PROVE  SoundStaysUp' /\ NoSoundClientLost'
  <2>1. Local(r)
    BY <1>3, StepsAreLocal
  <2>2. \A q \in Request : q # r => pc'[q] = pc[q]
    BY <2>1 DEF Local
  <2>3. SoundStaysUp'
    <3>1. NodeOf[r] \notin FaultyNode => pc'[r] # "dead"
      BY <1>3 DEF Find, FindForRegister, FindForLogin, FindForLogout, Insert, Write, DbError,
                  Answer, GoOn
    <3> QED BY <2>2, <3>1 DEF SoundStaysUp
  <2> SUFFICES ASSUME NEW q \in Request, NodeOf[q] \notin FaultyNode
               PROVE  /\ \/ KindOf[q] # "register"
                         \/ pc'[q] \in {"find", "insert"}
                         \/ pc'[q] \in {"write", "ok", "conflict", "error"} /\ WithEmail(q)' # {}
                      /\ RegisteredBefore(q)' => pc'[q] \in {"find", "write", "ok"}
    BY <2>3 DEF NoSoundClientLost
  <2>4. CASE RegisteredBefore(q)' /\ ~RegisteredBefore(q)
    <3>1. After[q] = r /\ pc[r] = "insert" /\ KindOf[q] = "login"
      BY <2>1, <2>4 DEF RegisteredBefore, Local
    <3>2. q # r /\ pc[q] \in {"find", "dead"}
      BY <3>1 DEF WaitsForAnswer, Gone, Answered, OnlyRegistrationsInsert
    <3> QED BY <2>2, <3>1, <3>2 DEF SoundStaysUp
  <2>5. CASE RegisteredBefore(q)' => RegisteredBefore(q)
    <3>1. CASE q # r
      BY <1>2, <2>2, <2>5, <3>1 DEF NoSoundClientLost
    <3>2. CASE q = r
      <4>1. KindOf[r] = "register" /\ pc[r] = "write" => WithEmail(r)' # {}
        BY <1>2, <3>2 DEF NoSoundClientLost
      <4> QED BY <1>3, <2>5, <3>2, <4>1, SoundStep
    <3> QED BY <3>1, <3>2
  <2> QED BY <2>4, <2>5
<1>4. ASSUME NEW n \in Node, NodeDown(n)
      PROVE  SoundStaysUp' /\ NoSoundClientLost'
  <2>1. \A r \in Request : NodeOf[r] \notin FaultyNode => pc'[r] = pc[r]
    BY <1>4 DEF NodeDown
  <2>2. users' = users
    BY <1>4 DEF NodeDown
  <2>3. SoundStaysUp'
    BY <2>1 DEF SoundStaysUp
  <2>4. NoSoundClientLost'
    BY <2>1, <2>2 DEF NoSoundClientLost, WithEmail, RegisteredBefore
  <2> QED BY <2>3, <2>4
<1>5. CASE UNCHANGED vars
  BY <1>5 DEF vars, SoundStaysUp, NoSoundClientLost, WithEmail, RegisteredBefore
<1> QED BY <1>3, <1>4, <1>5 DEF Next

(* A registration on an instance that stays up is only ever refused or     *)
(* failed by an account that has its email, and a login with the           *)
(* credentials of an account in the table never ends in an error, whatever *)
(* other instances do.                                                     *)
THEOREM NoSoundClientIsLost == Spec => []NoSoundClientLost
<1>1. Init => SoundStaysUp /\ NoSoundClientLost
  BY DEF Init, SoundStaysUp, NoSoundClientLost
<1>2. Inv /\ SoundStaysUp /\ NoSoundClientLost /\ [Next]_vars
        => SoundStaysUp' /\ NoSoundClientLost'
  BY SoundInductive
<1> QED BY <1>1, <1>2, InvHolds, PTL DEF Spec
=============================================================================
