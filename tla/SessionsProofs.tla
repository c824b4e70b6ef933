--------------------------- MODULE SessionsProofs ---------------------------
(***************************************************************************)
(* Proofs about Sessions, for any number of tabs, accounts, users and      *)
(* sessions: the users table holds nobody twice and hands nobody to a      *)
(* stranger, and nobody is served after signing out.                       *)
(***************************************************************************)
EXTENDS Sessions, TLAPS

USE SessionsConstants

-----------------------------------------------------------------------------
(* The inductive invariant.                                                 *)

(* No row is lost behind a session or a sign-in that refers to it. *)
KnownUsers ==
  /\ \A s \in Live : sessions[s].user \in People
  /\ \A b \in Tabs : At(b, "session") => task[b].id \in People

(* What a sign-in has read under the lock is still so when it writes. *)
ReadUnderLock ==
  \A b \in Tabs : At(b, "write") =>
    /\ userLock = b
    /\ task[b].same = WithSubject(task[b].account.subject)
    /\ task[b].mail = WithEmail(task[b].account.email)

(* A token in use was issued once, and a signed-out one never comes back. *)
Issued ==
  /\ cookie # Nothing => sessions[cookie] # Nothing
  /\ \A b \in Tabs : task[b] # Nothing /\ task[b] \in Visit => sessions[task[b].token] # Nothing
  /\ \A s \in signedOut : sessions[s] = Gone

(* A request sent after its token's logout finds no session. *)
LateFindsNothing ==
  \A b \in Tabs :
    /\ At(b, "sent") /\ task[b].late => task[b].token \in signedOut
    /\ At(b, "found") => ~task[b].late
    /\ At(b, "served") => ~task[b].late /\ task[b].email \in policy

SessionsInv ==
  TypeOK /\ KnownUsers /\ ReadUnderLock /\ Issued /\ LateFindsNothing /\ OneUserPerPerson

-----------------------------------------------------------------------------
(* What the steps that the invariant rests on do.                           *)

(* ResolveUser has read under the lock what its upsert will write by. *)
LEMMA Resolved ==
  ASSUME TypeOK, NEW b \in Tabs, ResolveUser(b)
  PROVE  /\ task[b] \in SignIn /\ task'[b] \in SignIn
         /\ task'[b].at = "write" /\ task'[b].account = task[b].account
         /\ task'[b].same = WithSubject(task[b].account.subject)
         /\ task'[b].mail = WithEmail(task[b].account.email)
         /\ task' = [task EXCEPT ![b] = task'[b]]
         /\ userLock' = b
         /\ UNCHANGED <<now, policy, users, sessions, cookie, signedOut>>
<1> DEFINE s == WithSubject(task[b].account.subject)
           m == WithEmail(task[b].account.email)
<1>1. task[b] \in SignIn
  BY DEF ResolveUser, At, TypeOK, SignIn, Authorized, Visit
<1>2. s \in SUBSET UserIds /\ m \in SUBSET UserIds
  BY DEF WithSubject, WithEmail, People
<1>3. /\ task' = [task EXCEPT ![b].at = "write", ![b].same = s, ![b].mail = m]
      /\ userLock' = b
      /\ UNCHANGED <<now, policy, users, sessions, cookie, signedOut>>
  BY DEF ResolveUser, tables
<1> HIDE DEF s, m
<1>4. task'[b] = [task[b] EXCEPT !.at = "write", !.same = s, !.mail = m]
  BY <1>3 DEF TypeOK
<1>5. /\ task'[b] \in SignIn /\ task'[b].at = "write" /\ task'[b].account = task[b].account
      /\ task'[b].same = s /\ task'[b].mail = m
  BY <1>1, <1>2, <1>4 DEF SignIn
<1>6. task' = [task EXCEPT ![b] = task'[b]]
  BY <1>3 DEF TypeOK
<1> QED BY <1>1, <1>3, <1>5, <1>6 DEF s, m

(* FindSession has found a live session of a user who is still there. *)
LEMMA Found ==
  ASSUME TypeOK, KnownUsers, NEW b \in Tabs, FindSession(b)
  PROVE  /\ task[b] \in Visit /\ task[b].at = "sent" /\ task[b] # Nothing
         /\ task[b].token \in Live
         /\ task'[b] \in Visit
         /\ task'[b].at = "found"
         /\ task'[b].token = task[b].token /\ task'[b].late = task[b].late
         /\ task' = [task EXCEPT ![b] = task'[b]]
         /\ UNCHANGED <<now, policy, users, sessions, cookie, userLock, signedOut>>
<1> DEFINE row == sessions[task[b].token]
           email == users[row.user].email
           expires == row.expires
<1>1. task[b] \in Visit /\ task[b].at = "sent" /\ task[b] # Nothing /\ task[b].token \in Live
  BY DEF FindSession, At, TypeOK, SignIn, Authorized, Visit
<1>2. row.user \in People /\ expires \in Nat
  BY <1>1 DEF KnownUsers, Live, TypeOK
<1>3. email \in {a.email : a \in Accounts} \cup {Nothing}
  BY <1>2 DEF People, TypeOK
<1>4. /\ task' = [task EXCEPT ![b].at = "found", ![b].email = email, ![b].expires = expires]
      /\ UNCHANGED <<now, policy, users, sessions, cookie, userLock, signedOut>>
  BY DEF FindSession, tables
<1> HIDE DEF email, expires
<1>5. task'[b] = [task[b] EXCEPT !.at = "found", !.email = email, !.expires = expires]
  BY <1>4 DEF TypeOK
<1>6. /\ task'[b] \in Visit /\ task'[b].at = "found"
      /\ task'[b].token = task[b].token /\ task'[b].late = task[b].late
  BY <1>1, <1>2, <1>3, <1>5 DEF Visit
<1>7. task' = [task EXCEPT ![b] = task'[b]]
  BY <1>4 DEF TypeOK
<1> QED BY <1>1, <1>4, <1>6, <1>7

(* Nothing but a sign-in's write changes the users table. *)
LEMMA UsersChange == [Next]_vars => UNCHANGED users \/ \E b \in Tabs : WriteUser(b)
<1> USE DEF tables
<1>1. ASSUME NEW b \in Tabs, LoginStep(b) PROVE UNCHANGED users \/ WriteUser(b)
  BY <1>1 DEF LoginStep, FindByOAuth, FindByEmail, ResolveUser, LoginFails, CreateSession
<1>2. ASSUME NEW b \in Tabs, VisitStep(b) PROVE UNCHANGED users
  BY <1>2 DEF VisitStep, FindSession, NotFound, Admit, Refuse, Served, Logout, RequestFails
<1> QED
  BY <1>1, <1>2 DEF Next, vars, Callback, Request, DeleteExpired, Tick, Restart

(* What a write does to the table: one row of the account, which had its   *)
(* identity or its address before, or was nobody's; and nobody else has    *)
(* either.                                                                  *)
LEMMA Written ==
  ASSUME TypeOK, ReadUnderLock, OneUserPerPerson, NEW b \in Tabs, WriteUser(b)
  PROVE  \E u \in UserIds, a \in Accounts :
           /\ users' = [users EXCEPT ![u] = a]
           /\ users[u] # Nothing => users[u].subject = a.subject \/ users[u].email = a.email
           /\ \A w \in People \ {u} : users[w].subject # a.subject /\ users[w].email # a.email
<1> DEFINE a == task[b].account
<1>1. /\ task[b] \in SignIn /\ a \in Accounts
      /\ task[b].same = WithSubject(a.subject) /\ task[b].mail = WithEmail(a.email)
  BY DEF WriteUser, At, TypeOK, SignIn, Authorized, Visit, ReadUnderLock
<1>2. CASE \E u \in Persisted(task[b].same, task[b].mail) : users' = [users EXCEPT ![u] = a]
  <2>1. PICK u \in Persisted(task[b].same, task[b].mail) : users' = [users EXCEPT ![u] = a]
    BY <1>2
  <2>2. u \in UserIds /\ (users[u].subject = a.subject \/ users[u].email = a.email)
    BY <1>1 DEF Persisted, WithSubject, WithEmail, People
  <2>3. \A w \in People \ {u} : users[w].subject # a.subject /\ users[w].email # a.email
    <3>1. \/ u \in WithSubject(a.subject) /\ WithEmail(a.email) \in {{}, WithSubject(a.subject)}
          \/ u \in WithEmail(a.email) /\ WithSubject(a.subject) \in {{}, WithEmail(a.email)}
      BY <1>1 DEF Persisted
    <3>2. ASSUME NEW w \in People, w # u PROVE w \notin WithSubject(a.subject) \cup WithEmail(a.email)
      BY <3>1, <3>2 DEF WithSubject, WithEmail, OneUserPerPerson
    <3> QED BY <3>2 DEF WithSubject, WithEmail
  <2>4. a \in Accounts
    BY <1>1
  <2> HIDE DEF a
  <2> QED BY <2>1, <2>2, <2>3, <2>4
<1>3. CASE /\ task[b].same = {} /\ task[b].mail = {} /\ users[task[b].id] = Nothing
           /\ users' = [users EXCEPT ![task[b].id] = a]
  <2>1. task[b].id \in UserIds
    BY <1>1 DEF SignIn
  <2>2. \A w \in People : users[w].subject # a.subject /\ users[w].email # a.email
    BY <1>1, <1>3 DEF WithSubject, WithEmail
  <2>3. users' = [users EXCEPT ![task[b].id] = a] /\ users[task[b].id] = Nothing
    BY <1>3
  <2>4. a \in Accounts
    BY <1>1
  <2> HIDE DEF a
  <2> QED BY <2>1, <2>2, <2>3, <2>4
<1> QED BY <1>2, <1>3 DEF WriteUser

-----------------------------------------------------------------------------
(* Every step keeps the types. *)
LEMMA TypeOKStep == SessionsInv /\ [Next]_vars => TypeOK'
<1> SUFFICES ASSUME SessionsInv, [Next]_vars PROVE TypeOK'
  OBVIOUS
<1> USE DEF SessionsInv, TypeOK, SignIn, Authorized, Visit, tables, process,
            At, People, Live, KnownUsers
<1>1. CASE UNCHANGED vars
  BY <1>1 DEF vars
<1>2. ASSUME NEW b \in Tabs, NEW account \in Accounts, Callback(b, account) PROVE TypeOK'
  BY <1>2 DEF Callback, FreshUserIds, First
<1>3. ASSUME NEW b \in Tabs, FindByOAuth(b) PROVE TypeOK'
  BY <1>3 DEF FindByOAuth, WithSubject
<1>4. ASSUME NEW b \in Tabs, FindByEmail(b) PROVE TypeOK'
  BY <1>4 DEF FindByEmail, WithEmail
<1>5. ASSUME NEW b \in Tabs, ResolveUser(b) PROVE TypeOK'
  <2>1. /\ task'[b] \in SignIn /\ task' = [task EXCEPT ![b] = task'[b]]
        /\ userLock' = b
        /\ UNCHANGED <<now, policy, users, sessions, cookie, signedOut>>
    <3> HIDE DEF SessionsInv, TypeOK, SignIn, Authorized, Visit
    <3>1. TypeOK
      BY DEF SessionsInv
    <3> QED BY <3>1, <1>5, Resolved
  <2>2. task' \in [Tabs -> SignIn \cup Authorized \cup Visit \cup {Nothing}]
    <3> HIDE DEF SignIn, Authorized, Visit
    <3> QED BY <2>1
  <2> QED BY <2>1, <2>2
<1>6. ASSUME NEW b \in Tabs, WriteUser(b) PROVE TypeOK'
  BY <1>6 DEF WriteUser, Persisted, MayCreateSession, Release
<1>7. ASSUME NEW b \in Tabs, LoginFails(b) PROVE TypeOK'
  BY <1>7 DEF LoginFails, Release
<1>8. ASSUME NEW b \in Tabs, CreateSession(b) PROVE TypeOK'
  BY <1>8 DEF CreateSession, FreshSessionIds, First
<1>9. ASSUME NEW b \in Tabs, NEW kind \in {"page", "logout"}, Request(b, kind) PROVE TypeOK'
  BY <1>9 DEF Request
<1>10. ASSUME NEW b \in Tabs, FindSession(b) PROVE TypeOK'
  <2>1. /\ task'[b] \in Visit /\ task' = [task EXCEPT ![b] = task'[b]]
        /\ UNCHANGED <<now, policy, users, sessions, cookie, userLock, signedOut>>
    BY <1>10, Found
  <2>2. task' \in [Tabs -> SignIn \cup Authorized \cup Visit \cup {Nothing}]
    <3> HIDE DEF SignIn, Authorized, Visit
    <3> QED BY <2>1
  <2> QED BY <2>1, <2>2
<1>11. ASSUME NEW b \in Tabs, NotFound(b) PROVE TypeOK'
  BY <1>11 DEF NotFound, Answer
<1>12. ASSUME NEW b \in Tabs, Admit(b) PROVE TypeOK'
  BY <1>12 DEF Admit
<1>13. ASSUME NEW b \in Tabs, Refuse(b) PROVE TypeOK'
  BY <1>13 DEF Refuse, Answer, Deleted
<1>14. ASSUME NEW b \in Tabs, Served(b) PROVE TypeOK'
  BY <1>14 DEF Served
<1>15. ASSUME NEW b \in Tabs, Logout(b) PROVE TypeOK'
  BY <1>15 DEF Logout, Answer, SignedOut, Deleted
<1>16. ASSUME NEW b \in Tabs, RequestFails(b) PROVE TypeOK'
  BY <1>16 DEF RequestFails
<1>17. CASE DeleteExpired
  BY <1>17 DEF DeleteExpired, Expired
<1>18. CASE Tick
  BY <1>18 DEF Tick
<1>19. ASSUME NEW addresses \in Policies, Restart(addresses) PROVE TypeOK'
  BY <1>19 DEF Restart
<1> QED
  BY <1>1, <1>2, <1>3, <1>4, <1>5, <1>6, <1>7, <1>8, <1>9, <1>10,
     <1>11, <1>12, <1>13, <1>14, <1>15, <1>16, <1>17, <1>18, <1>19
     DEF Next, LoginStep, VisitStep

(* A row is written before anything refers to it, and none is removed. *)
LEMMA KnownUsersStep == SessionsInv /\ [Next]_vars => KnownUsers'
<1> SUFFICES ASSUME SessionsInv, [Next]_vars PROVE KnownUsers'
  OBVIOUS
<1> USE DEF SessionsInv, TypeOK, SignIn, Authorized, Visit, tables, process,
            At, KnownUsers, People, Live
<1>1. CASE UNCHANGED vars
  BY <1>1 DEF vars
<1>2. ASSUME NEW b \in Tabs, NEW account \in Accounts, Callback(b, account) PROVE KnownUsers'
  BY <1>2 DEF Callback, FreshUserIds, First
<1>3. ASSUME NEW b \in Tabs, FindByOAuth(b) PROVE KnownUsers'
  BY <1>3 DEF FindByOAuth, WithSubject
<1>4. ASSUME NEW b \in Tabs, FindByEmail(b) PROVE KnownUsers'
  BY <1>4 DEF FindByEmail, WithEmail
<1>5. ASSUME NEW b \in Tabs, ResolveUser(b) PROVE KnownUsers'
  BY <1>5, Resolved
<1>6. ASSUME NEW b \in Tabs, WriteUser(b) PROVE KnownUsers'
  <2>1. /\ task[b] \in SignIn
        /\ \E u \in UserIds :
             /\ users' = [users EXCEPT ![u] = task[b].account]
             /\ MayCreateSession(b, u)
    BY <1>6 DEF WriteUser, Persisted
  <2>2. PICK u \in UserIds :
          /\ users' = [users EXCEPT ![u] = task[b].account]
          /\ task' = [task EXCEPT ![b] = [at |-> "session", id |-> u, expires |-> task[b].expires]]
    BY <2>1 DEF MayCreateSession
  <2>3. u \in People' /\ People \subseteq People'
    BY <2>1, <2>2
  <2>4. sessions' = sessions
    BY <1>6 DEF WriteUser
  <2> QED BY <2>2, <2>3, <2>4
<1>7. ASSUME NEW b \in Tabs, LoginFails(b) PROVE KnownUsers'
  BY <1>7 DEF LoginFails, Release
<1>8. ASSUME NEW b \in Tabs, CreateSession(b) PROVE KnownUsers'
  BY <1>8 DEF CreateSession, FreshSessionIds, First
<1>9. ASSUME NEW b \in Tabs, NEW kind \in {"page", "logout"}, Request(b, kind) PROVE KnownUsers'
  BY <1>9 DEF Request
<1>10. ASSUME NEW b \in Tabs, FindSession(b) PROVE KnownUsers'
  <2>1. /\ task'[b].at = "found" /\ task' = [task EXCEPT ![b] = task'[b]]
        /\ UNCHANGED <<users, sessions>>
    <3> HIDE DEF SessionsInv, TypeOK, KnownUsers, Live
    <3>1. TypeOK /\ KnownUsers
      BY DEF SessionsInv
    <3> QED BY <3>1, <1>10, Found
  <2> QED BY <2>1
<1>11. ASSUME NEW b \in Tabs, NotFound(b) PROVE KnownUsers'
  BY <1>11 DEF NotFound, Answer
<1>12. ASSUME NEW b \in Tabs, Admit(b) PROVE KnownUsers'
  BY <1>12 DEF Admit
<1>13. ASSUME NEW b \in Tabs, Refuse(b) PROVE KnownUsers'
  BY <1>13 DEF Refuse, Answer, Deleted
<1>14. ASSUME NEW b \in Tabs, Served(b) PROVE KnownUsers'
  BY <1>14 DEF Served
<1>15. ASSUME NEW b \in Tabs, Logout(b) PROVE KnownUsers'
  BY <1>15 DEF Logout, Answer, SignedOut, Deleted
<1>16. ASSUME NEW b \in Tabs, RequestFails(b) PROVE KnownUsers'
  BY <1>16 DEF RequestFails
<1>17. CASE DeleteExpired
  BY <1>17 DEF DeleteExpired, Expired
<1>18. CASE Tick
  BY <1>18 DEF Tick
<1>19. ASSUME NEW addresses \in Policies, Restart(addresses) PROVE KnownUsers'
  BY <1>19 DEF Restart
<1> QED
  BY <1>1, <1>2, <1>3, <1>4, <1>5, <1>6, <1>7, <1>8, <1>9, <1>10,
     <1>11, <1>12, <1>13, <1>14, <1>15, <1>16, <1>17, <1>18, <1>19
     DEF Next, LoginStep, VisitStep

(* Users change only under the lock, which the reader holds. *)
LEMMA ReadUnderLockStep == SessionsInv /\ [Next]_vars => ReadUnderLock'
<1> SUFFICES ASSUME SessionsInv, [Next]_vars PROVE ReadUnderLock'
  OBVIOUS
<1> USE DEF SessionsInv, TypeOK, SignIn, Authorized, Visit, tables, process,
            At, ReadUnderLock, WithSubject, WithEmail, People
<1>1. CASE UNCHANGED vars
  BY <1>1 DEF vars
<1>2. ASSUME NEW b \in Tabs, NEW account \in Accounts, Callback(b, account) PROVE ReadUnderLock'
  BY <1>2 DEF Callback, FreshUserIds, First
<1>3. ASSUME NEW b \in Tabs, FindByOAuth(b) PROVE ReadUnderLock'
  BY <1>3 DEF FindByOAuth, WithSubject
<1>4. ASSUME NEW b \in Tabs, FindByEmail(b) PROVE ReadUnderLock'
  BY <1>4 DEF FindByEmail, WithEmail
<1>5. ASSUME NEW b \in Tabs, ResolveUser(b) PROVE ReadUnderLock'
  <2>1. /\ task'[b].at = "write" /\ task'[b].account = task[b].account
        /\ task'[b].same = WithSubject(task[b].account.subject)
        /\ task'[b].mail = WithEmail(task[b].account.email)
        /\ task' = [task EXCEPT ![b] = task'[b]]
        /\ userLock' = b /\ users' = users
    <3> HIDE DEF SessionsInv, TypeOK, SignIn
    <3>1. TypeOK
      BY DEF SessionsInv
    <3> QED BY <3>1, <1>5, Resolved
  <2>2. userLock = NoOne
    BY <1>5 DEF ResolveUser, UsersFree
  <2> QED BY <2>1, <2>2 DEF WithSubject, WithEmail
<1>6. ASSUME NEW b \in Tabs, WriteUser(b) PROVE ReadUnderLock'
  BY <1>6 DEF WriteUser, Persisted, MayCreateSession, Release
<1>7. ASSUME NEW b \in Tabs, LoginFails(b) PROVE ReadUnderLock'
  BY <1>7 DEF LoginFails, Release
<1>8. ASSUME NEW b \in Tabs, CreateSession(b) PROVE ReadUnderLock'
  BY <1>8 DEF CreateSession, FreshSessionIds, First
<1>9. ASSUME NEW b \in Tabs, NEW kind \in {"page", "logout"}, Request(b, kind) PROVE ReadUnderLock'
  BY <1>9 DEF Request
<1>10. ASSUME NEW b \in Tabs, FindSession(b) PROVE ReadUnderLock'
  BY <1>10, Found
<1>11. ASSUME NEW b \in Tabs, NotFound(b) PROVE ReadUnderLock'
  BY <1>11 DEF NotFound, Answer
<1>12. ASSUME NEW b \in Tabs, Admit(b) PROVE ReadUnderLock'
  BY <1>12 DEF Admit
<1>13. ASSUME NEW b \in Tabs, Refuse(b) PROVE ReadUnderLock'
  BY <1>13 DEF Refuse, Answer, Deleted
<1>14. ASSUME NEW b \in Tabs, Served(b) PROVE ReadUnderLock'
  BY <1>14 DEF Served
<1>15. ASSUME NEW b \in Tabs, Logout(b) PROVE ReadUnderLock'
  BY <1>15 DEF Logout, Answer, SignedOut, Deleted
<1>16. ASSUME NEW b \in Tabs, RequestFails(b) PROVE ReadUnderLock'
  BY <1>16 DEF RequestFails
<1>17. CASE DeleteExpired
  BY <1>17 DEF DeleteExpired, Expired
<1>18. CASE Tick
  BY <1>18 DEF Tick
<1>19. ASSUME NEW addresses \in Policies, Restart(addresses) PROVE ReadUnderLock'
  BY <1>19 DEF Restart
<1> QED
  BY <1>1, <1>2, <1>3, <1>4, <1>5, <1>6, <1>7, <1>8, <1>9, <1>10,
     <1>11, <1>12, <1>13, <1>14, <1>15, <1>16, <1>17, <1>18, <1>19
     DEF Next, LoginStep, VisitStep

(* A token is new when it is issued, and gone when it is signed out. *)
LEMMA IssuedStep == SessionsInv /\ [Next]_vars => Issued'
<1> SUFFICES ASSUME SessionsInv, [Next]_vars PROVE Issued'
  OBVIOUS
<1> USE DEF SessionsInv, TypeOK, SignIn, Authorized, Visit, tables, process, At, Issued, Live
<1>1. CASE UNCHANGED vars
  BY <1>1 DEF vars
<1>2. ASSUME NEW b \in Tabs, NEW account \in Accounts, Callback(b, account) PROVE Issued'
  BY <1>2 DEF Callback, FreshUserIds, First
<1>3. ASSUME NEW b \in Tabs, FindByOAuth(b) PROVE Issued'
  BY <1>3 DEF FindByOAuth, WithSubject
<1>4. ASSUME NEW b \in Tabs, FindByEmail(b) PROVE Issued'
  BY <1>4 DEF FindByEmail, WithEmail
<1>5. ASSUME NEW b \in Tabs, ResolveUser(b) PROVE Issued'
  BY <1>5 DEF ResolveUser, UsersFree, WithSubject, WithEmail
<1>6. ASSUME NEW b \in Tabs, WriteUser(b) PROVE Issued'
  BY <1>6 DEF WriteUser, Persisted, MayCreateSession, Release
<1>7. ASSUME NEW b \in Tabs, LoginFails(b) PROVE Issued'
  BY <1>7 DEF LoginFails, Release
<1>8. ASSUME NEW b \in Tabs, CreateSession(b) PROVE Issued'
  BY <1>8 DEF CreateSession, FreshSessionIds, First
<1>9. ASSUME NEW b \in Tabs, NEW kind \in {"page", "logout"}, Request(b, kind) PROVE Issued'
  BY <1>9 DEF Request
<1>10. ASSUME NEW b \in Tabs, FindSession(b) PROVE Issued'
  BY <1>10 DEF FindSession, Live
<1>11. ASSUME NEW b \in Tabs, NotFound(b) PROVE Issued'
  BY <1>11 DEF NotFound, Answer
<1>12. ASSUME NEW b \in Tabs, Admit(b) PROVE Issued'
  BY <1>12 DEF Admit
<1>13. ASSUME NEW b \in Tabs, Refuse(b) PROVE Issued'
  <2>1. /\ task' = [task EXCEPT ![b] = Nothing]
        /\ cookie' \in {cookie, Nothing} /\ signedOut' = signedOut
    BY <1>13 DEF Refuse, Answer
  <2>2. CASE sessions' = sessions
    BY <2>1, <2>2
  <2>3. CASE sessions' = Deleted(task[b].token)
    <3>1. \A t \in SessionIds : sessions'[t] \in {sessions[t], Gone}
      BY <2>3 DEF Deleted
    <3>2. cookie' # Nothing => sessions'[cookie'] # Nothing
      BY <2>1, <3>1
    <3>3. \A c \in Tabs : task'[c] # Nothing /\ task'[c] \in Visit => sessions'[task'[c].token] # Nothing
      <4> SUFFICES ASSUME NEW c \in Tabs, task'[c] # Nothing, task'[c] \in Visit
                   PROVE  sessions'[task'[c].token] # Nothing
        OBVIOUS
      <4>1. task'[c] = task[c]
        BY <2>1
      <4>2. task[c].token \in SessionIds /\ sessions[task[c].token] # Nothing
        BY <4>1
      <4> QED BY <3>1, <4>1, <4>2
    <3>4. \A t \in signedOut' : sessions'[t] = Gone
      BY <2>1, <3>1
    <3> QED BY <3>2, <3>3, <3>4
  <2> QED BY <1>13, <2>2, <2>3 DEF Refuse
<1>14. ASSUME NEW b \in Tabs, Served(b) PROVE Issued'
  BY <1>14 DEF Served
<1>15. ASSUME NEW b \in Tabs, Logout(b) PROVE Issued'
  BY <1>15 DEF Logout, Answer, SignedOut, Deleted
<1>16. ASSUME NEW b \in Tabs, RequestFails(b) PROVE Issued'
  BY <1>16 DEF RequestFails
<1>17. CASE DeleteExpired
  BY <1>17 DEF DeleteExpired, Expired
<1>18. CASE Tick
  BY <1>18 DEF Tick
<1>19. ASSUME NEW addresses \in Policies, Restart(addresses) PROVE Issued'
  BY <1>19 DEF Restart
<1> QED
  BY <1>1, <1>2, <1>3, <1>4, <1>5, <1>6, <1>7, <1>8, <1>9, <1>10,
     <1>11, <1>12, <1>13, <1>14, <1>15, <1>16, <1>17, <1>18, <1>19
     DEF Next, LoginStep, VisitStep

(* A signed-out token has no session that a later request could find. *)
LEMMA LateFindsNothingStep == SessionsInv /\ [Next]_vars => LateFindsNothing'
<1> SUFFICES ASSUME SessionsInv, [Next]_vars PROVE LateFindsNothing'
  OBVIOUS
<1> USE DEF SessionsInv, TypeOK, SignIn, Authorized, Visit, tables, process,
            At, LateFindsNothing, Issued, Live, Valid
<1>1. CASE UNCHANGED vars
  BY <1>1 DEF vars
<1>2. ASSUME NEW b \in Tabs, NEW account \in Accounts, Callback(b, account) PROVE LateFindsNothing'
  BY <1>2 DEF Callback, FreshUserIds, First
<1>3. ASSUME NEW b \in Tabs, FindByOAuth(b) PROVE LateFindsNothing'
  BY <1>3 DEF FindByOAuth, WithSubject
<1>4. ASSUME NEW b \in Tabs, FindByEmail(b) PROVE LateFindsNothing'
  BY <1>4 DEF FindByEmail, WithEmail
<1>5. ASSUME NEW b \in Tabs, ResolveUser(b) PROVE LateFindsNothing'
  BY <1>5, Resolved
<1>6. ASSUME NEW b \in Tabs, WriteUser(b) PROVE LateFindsNothing'
  BY <1>6 DEF WriteUser, Persisted, MayCreateSession, Release
<1>7. ASSUME NEW b \in Tabs, LoginFails(b) PROVE LateFindsNothing'
  BY <1>7 DEF LoginFails, Release
<1>8. ASSUME NEW b \in Tabs, CreateSession(b) PROVE LateFindsNothing'
  BY <1>8 DEF CreateSession, FreshSessionIds, First
<1>9. ASSUME NEW b \in Tabs, NEW kind \in {"page", "logout"}, Request(b, kind) PROVE LateFindsNothing'
  BY <1>9 DEF Request
<1>10. ASSUME NEW b \in Tabs, FindSession(b) PROVE LateFindsNothing'
  <2>1. /\ task[b].token \in Live /\ task[b].at = "sent" /\ task[b] # Nothing /\ task[b] \in Visit
        /\ task'[b].at = "found" /\ task'[b].late = task[b].late
        /\ task' = [task EXCEPT ![b] = task'[b]]
        /\ policy' = policy /\ signedOut' = signedOut
    BY <1>10, Found
  <2>2. ~task[b].late
    BY <2>1
  <2> QED BY <2>1, <2>2
<1>11. ASSUME NEW b \in Tabs, NotFound(b) PROVE LateFindsNothing'
  BY <1>11 DEF NotFound, Answer
<1>12. ASSUME NEW b \in Tabs, Admit(b) PROVE LateFindsNothing'
  BY <1>12 DEF Admit
<1>13. ASSUME NEW b \in Tabs, Refuse(b) PROVE LateFindsNothing'
  BY <1>13 DEF Refuse, Answer, Deleted
<1>14. ASSUME NEW b \in Tabs, Served(b) PROVE LateFindsNothing'
  BY <1>14 DEF Served
<1>15. ASSUME NEW b \in Tabs, Logout(b) PROVE LateFindsNothing'
  BY <1>15 DEF Logout, Answer, SignedOut, Deleted
<1>16. ASSUME NEW b \in Tabs, RequestFails(b) PROVE LateFindsNothing'
  BY <1>16 DEF RequestFails
<1>17. CASE DeleteExpired
  BY <1>17 DEF DeleteExpired, Expired
<1>18. CASE Tick
  BY <1>18 DEF Tick
<1>19. ASSUME NEW addresses \in Policies, Restart(addresses) PROVE LateFindsNothing'
  BY <1>19 DEF Restart
<1> QED
  BY <1>1, <1>2, <1>3, <1>4, <1>5, <1>6, <1>7, <1>8, <1>9, <1>10,
     <1>11, <1>12, <1>13, <1>14, <1>15, <1>16, <1>17, <1>18, <1>19
     DEF Next, LoginStep, VisitStep

(* The lookups exclude every other row with the identity or the address. *)
LEMMA OneUserPerPersonStep == SessionsInv /\ [Next]_vars => OneUserPerPerson'
<1> SUFFICES ASSUME SessionsInv, [Next]_vars PROVE OneUserPerPerson'
  OBVIOUS
<1> USE DEF SessionsInv, TypeOK, OneUserPerPerson, People
<1>1. CASE UNCHANGED users
  BY <1>1
<1>2. ASSUME NEW b \in Tabs, WriteUser(b) PROVE OneUserPerPerson'
  <2>1. PICK u \in UserIds, a \in Accounts :
          /\ users' = [users EXCEPT ![u] = a]
          /\ \A w \in People \ {u} : users[w].subject # a.subject /\ users[w].email # a.email
    BY <1>2, Written
  <2> QED BY <2>1
<1> QED BY <1>1, <1>2, UsersChange

-----------------------------------------------------------------------------
(* The invariant holds: what two sign-ins read under the lock stays true    *)
(* until they write, and a token that was signed out stays gone.            *)
THEOREM SessionsInvariant == Spec => []SessionsInv
<1>1. Init => SessionsInv
  BY DEF Init, SessionsInv, TypeOK, KnownUsers, ReadUnderLock, Issued, LateFindsNothing, OneUserPerPerson,
         At, People, Live
<1>2. SessionsInv /\ [Next]_vars => SessionsInv'
  BY TypeOKStep, KnownUsersStep, ReadUnderLockStep, IssuedStep, LateFindsNothingStep, OneUserPerPersonStep
     DEF SessionsInv
<1> QED BY <1>1, <1>2, PTL DEF Spec

(* Every variable keeps its type. *)
THEOREM SessionsTyped == Spec => []TypeOK
<1>1. SessionsInv => TypeOK
  BY DEF SessionsInv
<1> QED BY <1>1, SessionsInvariant, PTL

(* However sign-ins interleave, no identity and no address is in the users  *)
(* table twice, and the unique indexes have nothing to refuse (UpsertUser). *)
THEOREM NobodyTwice == Spec => []OneUserPerPerson
<1>1. SessionsInv => OneUserPerPerson
  BY DEF SessionsInv
<1> QED BY <1>1, SessionsInvariant, PTL

(* No user disappears, and none changes identity and address at once        *)
(* (UpsertUser and its conflict).                                           *)
THEOREM NobodyReplaced == Spec => AccountKeepsAnAnchor
<1> DEFINE Kept == \A u \in People :
                     /\ users'[u] # Nothing
                     /\ users'[u].subject = users[u].subject \/ users'[u].email = users[u].email
<1>1. SessionsInv /\ [Next]_vars => [Kept]_vars
  <2> SUFFICES ASSUME SessionsInv, [Next]_vars PROVE Kept
    OBVIOUS
  <2> USE DEF SessionsInv, TypeOK, People
  <2>1. CASE UNCHANGED users
    BY <2>1
  <2>2. ASSUME NEW b \in Tabs, WriteUser(b) PROVE Kept
    <3>1. PICK u \in UserIds, a \in Accounts :
            /\ users' = [users EXCEPT ![u] = a]
            /\ users[u] # Nothing => users[u].subject = a.subject \/ users[u].email = a.email
      BY <2>2, Written
    <3> QED BY <3>1
  <2> QED BY <2>1, <2>2, UsersChange
<1> QED BY <1>1, SessionsInvariant, PTL DEF Spec, AccountKeepsAnAnchor

(* A request sent after its token's logout was answered is not served, nor  *)
(* is one of an address that the process does not admit (Logout, Validate). *)
THEOREM NobodyServedLate == Spec => []SignedOutStaysOut
<1>1. SessionsInv => SignedOutStaysOut
  BY DEF SessionsInv, LateFindsNothing, SignedOutStaysOut
<1> QED BY <1>1, SessionsInvariant, PTL

=============================================================================
