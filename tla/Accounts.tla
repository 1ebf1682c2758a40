------------------------------ MODULE Accounts ------------------------------
(***************************************************************************)
(* Registration, login and logout (AuthService, LocalStrategy,             *)
(* JwtStrategy) on the table users.  register looks for the email, hashes  *)
(* the password, inserts, makes a pair of tokens and then stores the       *)
(* refresh token's hash with a query of its own; login does the last two;  *)
(* logout empties the column.  A row has one refresh token, whatever the   *)
(* number of sessions.                                                     *)
(*                                                                         *)
(* An account is named by the request that inserted it, a refresh token by *)
(* the request it was made for.  Accounts are never deleted, and nothing   *)
(* in src/ changes a password or a status, so the checks of the status     *)
(* always pass.                                                            *)
(***************************************************************************)
CONSTANTS Request,
          KindOf,      \* "register", "login" or "logout"
          EmailOf,     \* the email and the password each request brings
          PasswordOf,  \* (a logout: those of its session)
          After,       \* the request whose answer its client waited for; the
                       \* one that opened the session, for a logout
          NoRequest,
          Node, NodeOf,
          FaultyNode   \* instances that may lose the database or go down

ASSUME RequestAssumption == /\ KindOf \in [Request -> {"register", "login", "logout"}]
                            /\ NodeOf \in [Request -> Node]
                            /\ After  \in [Request -> Request \cup {NoRequest}]
                            /\ NoRequest \notin Request

VARIABLES pc,     \* where each request is, or how it was answered
          user,   \* the row each request works on, once it has one
          users,  \* rows of the table users
          token   \* users.refreshToken: whose token a row holds

vars == <<pc, user, users, token>>

Answered == {"ok", "conflict", "unauthorized", "error"}
PC       == {"find", "insert", "write", "dead"} \cup Answered

(* findOne by email.                                                       *)
WithEmail(r) == {u \in users : EmailOf[u] = EmailOf[r]}

Init == /\ pc    = [r \in Request |-> "find"]
        /\ user  = [r \in Request |-> NoRequest]
        /\ users = {}
        /\ token = [u \in Request |-> NoRequest]

(* A client may wait for one answer, or for a broken connection, before it *)
(* sends the next request; it has a session once it got the tokens.        *)
MayStart(r) ==
    /\ After[r] # NoRequest => pc[After[r]] \in Answered \cup {"dead"}
    /\ KindOf[r] = "logout" => /\ After[r] # NoRequest
                               /\ KindOf[After[r]] # "logout"
                               /\ pc[After[r]] = "ok"

Answer(r, a) == pc' = [pc EXCEPT ![r] = a] /\ UNCHANGED <<user, users, token>>
GoOn(r, u)   == /\ pc'   = [pc   EXCEPT ![r] = "write"]
                /\ user' = [user EXCEPT ![r] = u]
                /\ UNCHANGED token

-----------------------------------------------------------------------------
(* register: the lookup and, after it, bcrypt.hash.                        *)
FindForRegister(r) == /\ pc[r] = "find" /\ KindOf[r] = "register"
                      /\ MayStart(r)
                      /\ Answer(r, IF WithEmail(r) = {} THEN "insert" ELSE "conflict")

\* Mutant: no unique index on users.email.
InsertAlways(r) == /\ pc[r] = "insert"
                   /\ users' = users \cup {r}
                   /\ GoOn(r, r)

(* save: the unique index refuses a second row of an email, and register   *)
(* does not catch the error.                                               *)
Insert(r) == /\ pc[r] = "insert"
             /\ \/ /\ WithEmail(r) = {}
                   /\ users' = users \cup {r}
                   /\ GoOn(r, r)
                \/ WithEmail(r) # {} /\ Answer(r, "error")

\* Mutant: bcrypt.compare is not awaited, and a promise is always true.
FindIgnoringPassword(r) ==
    /\ pc[r] = "find" /\ KindOf[r] = "login"
    /\ MayStart(r)
    /\ \/ \E u \in WithEmail(r) : GoOn(r, u) /\ UNCHANGED users
       \/ WithEmail(r) = {} /\ Answer(r, "unauthorized")

\* Mutant: the check of refreshTokens in validateUser.
FindWithToken(r) ==
    /\ pc[r] = "find" /\ KindOf[r] = "login"
    /\ MayStart(r)
    /\ LET accepted == {u \in WithEmail(r) : PasswordOf[u] = PasswordOf[r] /\ token[u] # NoRequest}
       IN  \/ \E u \in accepted : GoOn(r, u) /\ UNCHANGED users
           \/ accepted = {} /\ Answer(r, "unauthorized")

(* LocalStrategy.validate, validateUser: the row and its password.         *)
FindForLogin(r) ==
    /\ pc[r] = "find" /\ KindOf[r] = "login"
    /\ MayStart(r)
    /\ LET accepted == {u \in WithEmail(r) : PasswordOf[u] = PasswordOf[r]}
       IN  \/ \E u \in accepted : GoOn(r, u) /\ UNCHANGED users
           \/ accepted = {} /\ Answer(r, "unauthorized")

(* JwtStrategy.validate: the row of the access token's subject; the token  *)
(* may have expired since the session was opened.                          *)
FindForLogout(r) ==
    /\ pc[r] = "find" /\ KindOf[r] = "logout"
    /\ MayStart(r)
    /\ \/ user[After[r]] \in users /\ GoOn(r, user[After[r]]) /\ UNCHANGED users
       \/ Answer(r, "unauthorized")

Find(r) == FindForRegister(r) \/ FindForLogin(r) \/ FindForLogout(r)

TokenWrittenBy(r) == IF KindOf[r] = "logout" THEN NoRequest ELSE r

\* Mutant: the UPDATE is sent with the email where the id belongs.
WriteNowhere(r) == pc[r] = "write" /\ Answer(r, "ok")

(* updateRefreshToken after generateTokens; logout.                        *)
Write(r) == /\ pc[r] = "write"
            /\ pc'    = [pc EXCEPT ![r] = "ok"]
            /\ token' = [token EXCEPT ![user[r]] = TokenWrittenBy(r)]
            /\ UNCHANGED <<user, users>>

-----------------------------------------------------------------------------
(* The database refuses a query, or its answer is lost: the request is     *)
(* answered with a server error, whatever it has done by then.             *)
DbError(r) == /\ NodeOf[r] \in FaultyNode
              /\ pc[r] \in {"find", "insert", "write"}
              /\ MayStart(r)
              /\ pc' = [pc EXCEPT ![r] = "error"]
              /\ \/ UNCHANGED <<users, token>>
                 \/ /\ pc[r] = "insert" /\ WithEmail(r) = {}
                    /\ users' = users \cup {r}
                    /\ UNCHANGED token
                 \/ /\ pc[r] = "write"
                    /\ token' = [token EXCEPT ![user[r]] = TokenWrittenBy(r)]
                    /\ UNCHANGED users
              /\ UNCHANGED user

(* An instance goes down with the requests it has under way.               *)
NodeDown(n) == /\ n \in FaultyNode
               /\ \E r \in Request : NodeOf[r] = n /\ pc[r] \notin Answered \cup {"dead"}
               /\ pc' = [r \in Request |-> IF NodeOf[r] = n /\ pc[r] \notin Answered
                                           THEN "dead" ELSE pc[r]]
               /\ UNCHANGED <<user, users, token>>

Next == \/ \E r \in Request : Find(r) \/ Insert(r) \/ Write(r) \/ DbError(r)
        \/ \E n \in Node : NodeDown(n)

(* Queries of a running instance are answered.  Sending a request is the   *)
(* client's choice, but for those the liveness property speaks of.         *)
Spec == /\ Init /\ [][Next]_vars
        /\ \A r \in Request : WF_vars(Find(r) \/ Insert(r) \/ Write(r))

-----------------------------------------------------------------------------
(* Types.                                                                  *)
TypeOK == /\ pc    \in [Request -> PC]
          /\ user  \in [Request -> Request \cup {NoRequest}]
          /\ users \subseteq Request
          /\ token \in [Request -> Request \cup {NoRequest}]

(* An email never has two accounts, however many registrations found none  *)
(* (auth.service.ts:56), and a registration that is told it succeeded owns *)
(* the row.                                                                *)
OneAccountPerEmail ==
    /\ \A u, v \in users : EmailOf[u] = EmailOf[v] => u = v
    /\ \A r \in Request : KindOf[r] = "register" /\ pc[r] = "ok" => r \in users

(* Whoever has a session brought the email and the password of the account *)
(* it is for: a registration that lost the race for an email gets none to  *)
(* the winner's account, and neither does its client's login.              *)
SessionFitsAccount ==
    \A r \in Request : KindOf[r] # "logout" /\ pc[r] = "ok" =>
        /\ user[r] \in users
        /\ EmailOf[user[r]] = EmailOf[r] /\ PasswordOf[user[r]] = PasswordOf[r]

(* The client of login r has registered before with the same credentials,  *)
(* and the account is there.                                               *)
RegisteredBefore(r) ==
    /\ KindOf[r] = "login" /\ After[r] \in users
    /\ EmailOf[After[r]] = EmailOf[r] /\ PasswordOf[After[r]] = PasswordOf[r]

(* A registration answered with an error may have left its account behind  *)
(* (auth.service.ts:82).  A client whose registration is in the table,     *)
(* however it was answered, is not refused when it logs in.                *)
RegisteredMayLogIn ==
    \A r \in Request : RegisteredBefore(r) => pc[r] # "unauthorized"

(* The single refreshToken column under concurrent sessions of an account: *)
(* a row no longer holds the token of a session whose logout was answered, *)
(* and the column is empty behind an open session only if a logout of the  *)
(* account got to its UPDATE.                                              *)
TokensFollowSessions ==
    \A r \in Request : pc[r] = "ok" =>
        IF KindOf[r] = "logout"
        THEN token[user[r]] # After[r]
        ELSE token[user[r]] = NoRequest =>
                 \E q \in Request : /\ KindOf[q] = "logout" /\ user[q] = user[r]
                                    /\ pc[q] \in {"ok", "error"}

(* What fails elsewhere does not keep sound requests waiting: a            *)
(* registration is answered and its email has an account, its own or the   *)
(* one that won; a login with an account's credentials gets a session.     *)
SoundClientsServed ==
    \A r \in Request : NodeOf[r] \notin FaultyNode =>
        /\ KindOf[r] = "register" /\ After[r] = NoRequest
               => <>(pc[r] \in Answered /\ WithEmail(r) # {})
        /\ RegisteredBefore(r) ~> pc[r] = "ok"

(* The half of it that needs no fairness: once such a registration has     *)
(* been answered its email has an account, and such a login is waiting,    *)
(* writing its token or answered with a session, never with an error.      *)
NoSoundClientLost ==
    \A r \in Request : NodeOf[r] \notin FaultyNode =>
        /\ \/ KindOf[r] # "register"
           \/ pc[r] \in {"find", "insert"}
           \/ pc[r] \in {"write", "ok", "conflict", "error"} /\ WithEmail(r) # {}
        /\ RegisteredBefore(r) => pc[r] \in {"find", "write", "ok"}
=============================================================================
