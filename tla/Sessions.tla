------------------------------ MODULE Sessions ------------------------------
(***************************************************************************)
(* Sign-in, sessions and users: Login, Validate and Logout of              *)
(* internal/auth/auth.go, over the two tables of                           *)
(* internal/repository/postgres_auth.go, behind the callback, the logout   *)
(* and RequireAuth (internal/server/auth.go, internal/middleware/http.go), *)
(* with the daily cleanup of expired sessions.                             *)
(*                                                                         *)
(* Every statement outside a transaction is a step of its own.  The only   *)
(* state of the process is its access policy, read from the environment,   *)
(* which a restart may change.  Deleting the user, which nothing does, the *)
(* OAuth state cookie and the redirect target are left out.                *)
(***************************************************************************)
EXTENDS Integers, FiniteSets

CONSTANTS
  Tabs,         \* of one browser: each waits for one answer at a time
  Accounts,     \* Google accounts at one time or another: [subject, email]
  UserIds,
  SessionIds,   \* bound: sessions ever created; each stands for its token too
  Policies,     \* access policies, as sets of email addresses
  Ttl,          \* how long a session lasts
  MaxNow,       \* bound on the clock
  NoOne,        \* nobody is resolving an identity
  Nothing,      \* no row, no cookie, no task
  Gone          \* a session that has been deleted

VARIABLES
  now,
  policy,       \* the email addresses this process admits
  users,        \* rows [subject, email]
  sessions,     \* rows [user, expires]
  userLock,     \* who holds the transaction's advisory lock
  cookie,       \* the session token the browser keeps
  task,         \* the sign-in or the request each tab waits for
  signedOut     \* history: tokens whose logout has been answered

process == <<task, userLock>>
tables  == <<users, sessions>>
vars    == <<now, policy, tables, cookie, process, signedOut>>

ASSUME SessionsConstants ==
  /\ Ttl \in Nat \ {0} /\ MaxNow \in Nat
  /\ UserIds \subseteq Nat /\ SessionIds \subseteq Nat
  /\ NoOne \notin Tabs
  /\ Nothing \notin UserIds \cup SessionIds /\ Nothing \notin Accounts
  /\ \A row \in {Nothing, Gone} : row \notin [user : UserIds, expires : Nat]
  /\ Nothing # Gone

-----------------------------------------------------------------------------
People == {u \in UserIds : users[u] # Nothing}
Live == {s \in SessionIds : sessions[s] \notin {Nothing, Gone}}

WithSubject(subject) == {u \in People : users[u].subject = subject}
WithEmail(email) == {u \in People : users[u].email = email}

(* UUIDs: taken by no row and no sign-in under way. *)
First(S) == {i \in S : \A j \in S : i <= j}

FreshUserIds ==
  First({u \in UserIds \ People : \A b \in Tabs : task[b] # Nothing /\ "id" \in DOMAIN task[b] => task[b].id # u})

FreshSessionIds == First({s \in SessionIds : sessions[s] = Nothing})

Init ==
  /\ now = 0
  /\ policy \in Policies
  /\ users = [u \in UserIds |-> Nothing]
  /\ sessions = [s \in SessionIds |-> Nothing]
  /\ userLock = NoOne
  /\ cookie = Nothing
  /\ task = [b \in Tabs |-> Nothing]
  /\ signedOut = {}

-----------------------------------------------------------------------------
(* Signing in.                                                              *)

At(b, step) == task[b] # Nothing /\ task[b].at = step

(* oauthCallback: the account is verified and invited; Login takes the time *)
(* and an ID for a user who may turn out to be new.                         *)
Callback(b, account) ==
  /\ task[b] = Nothing
  /\ account.email \in policy
  /\ now + Ttl <= MaxNow
  /\ \E u \in FreshUserIds :
       task' = [task EXCEPT ![b] =
         [at |-> "identity", account |-> account, id |-> u, expires |-> now + Ttl, same |-> {}, mail |-> {}]]
  /\ UNCHANGED <<now, policy, tables, cookie, userLock, signedOut>>

(* FindUserByOAuth *)
FindByOAuth(b) ==
  /\ At(b, "identity")
  /\ \/ /\ WithSubject(task[b].account.subject) = {}
        /\ task' = [task EXCEPT ![b].at = "email"]
     \/ \E u \in WithSubject(task[b].account.subject) :
          task' = [task EXCEPT ![b].at = "upsert", ![b].id = u]
  /\ UNCHANGED <<now, policy, tables, cookie, userLock, signedOut>>

(* FindUserByEmail *)
FindByEmail(b) ==
  /\ At(b, "email")
  /\ \/ /\ WithEmail(task[b].account.email) = {}
        /\ task' = [task EXCEPT ![b].at = "upsert"]
     \/ \E u \in WithEmail(task[b].account.email) :
          task' = [task EXCEPT ![b].at = "upsert", ![b].id = u]
  /\ UNCHANGED <<now, policy, tables, cookie, userLock, signedOut>>

MutNoUserLock == TRUE

(* pg_advisory_xact_lock.  It covers what FOR UPDATE would, and the rows    *)
(* that are not there yet.                                                  *)
UsersFree == userLock = NoOne

(* UpsertUser reads the users that match the identity and the email. *)
ResolveUser(b) ==
  /\ At(b, "upsert")
  /\ UsersFree
  /\ userLock' = b
  /\ task' = [task EXCEPT ![b].at = "write",
                            ![b].same = WithSubject(task[b].account.subject),
                            ![b].mail = WithEmail(task[b].account.email)]
  /\ UNCHANGED <<now, policy, tables, cookie, signedOut>>

MutAnyMatch(same, mail) == same \cup mail

(* Refused when the identity and the email belong to different users. *)
Persisted(same, mail) == IF same # {} /\ mail # {} /\ same # mail THEN {}
                         ELSE same \cup mail

Release(b) == userLock' = IF userLock = b THEN NoOne ELSE userLock

MayCreateSession(b, u) ==
  task' = [task EXCEPT ![b] = [at |-> "session", id |-> u, expires |-> task[b].expires]]

(* The matching user is updated, or a new one inserted, and committed.      *)
WriteUser(b) ==
  LET l == task[b] IN
  /\ At(b, "write")
  /\ \/ \E u \in Persisted(l.same, l.mail) :
          /\ users' = [users EXCEPT ![u] = l.account]
          /\ MayCreateSession(b, u)
     \/ /\ l.same = {} /\ l.mail = {}
        /\ users[l.id] = Nothing
        /\ users' = [users EXCEPT ![l.id] = l.account]
        /\ MayCreateSession(b, l.id)
  /\ Release(b)
  /\ UNCHANGED <<now, policy, sessions, cookie, signedOut>>

(* ErrConflict; the primary key of a user that another sign-in has given a  *)
(* new email; or any statement that fails.  The transaction is rolled back. *)
LoginFails(b) ==
  /\ \E step \in {"identity", "email", "upsert", "write", "session"} : At(b, step)
  /\ task' = [task EXCEPT ![b] = Nothing]
  /\ Release(b)
  /\ UNCHANGED <<now, policy, tables, cookie, signedOut>>

(* CreateSession and the answer with its cookie. *)
CreateSession(b) ==
  /\ At(b, "session")
  /\ \E s \in FreshSessionIds :
       /\ sessions' = [sessions EXCEPT ![s] = [user |-> task[b].id, expires |-> task[b].expires]]
       /\ cookie' = s
  /\ task' = [task EXCEPT ![b] = Nothing]
  /\ UNCHANGED <<now, policy, users, userLock, signedOut>>

-----------------------------------------------------------------------------
(* Requests.  late is history: the token was signed out before.             *)

Request(b, kind) ==
  /\ task[b] = Nothing
  /\ cookie # Nothing
  /\ task' = [task EXCEPT ![b] =
       [at |-> "sent", kind |-> kind, token |-> cookie, email |-> Nothing, expires |-> 0,
        late |-> cookie \in signedOut]]
  /\ UNCHANGED <<now, policy, tables, cookie, userLock, signedOut>>

(* FindSession: the session and its user, in one query. *)
FindSession(b) ==
  /\ At(b, "sent")
  /\ task[b].token \in Live
  /\ LET row == sessions[task[b].token] IN
       task' = [task EXCEPT ![b].at = "found", ![b].email = users[row.user].email, ![b].expires = row.expires]
  /\ UNCHANGED <<now, policy, tables, cookie, userLock, signedOut>>

(* The answer ends the request.  Its cleared cookie may get lost, and it    *)
(* clears whatever cookie the browser has by then.                          *)
Answer(b) ==
  /\ task' = [task EXCEPT ![b] = Nothing]
  /\ cookie' \in {cookie, Nothing}

(* No session: RequireAuth redirects; Logout has nothing to do. *)
NotFound(b) ==
  /\ At(b, "sent")
  /\ task[b].token \notin Live
  /\ Answer(b)
  /\ signedOut' = IF task[b].kind = "logout" THEN signedOut \cup {task[b].token} ELSE signedOut
  /\ UNCHANGED <<now, policy, tables, userLock>>

Deleted(s) == [sessions EXCEPT ![s] = IF s \in Live THEN Gone ELSE sessions[s]]

(* Validate's decision. *)
Valid(v) == now < v.expires /\ v.email \in policy

Admit(b) ==
  /\ At(b, "found") /\ task[b].kind = "page"
  /\ Valid(task[b])
  /\ task' = [task EXCEPT ![b].at = "served"]
  /\ UNCHANGED <<now, policy, tables, cookie, userLock, signedOut>>

(* The session is deleted; if that fails the request is refused all the     *)
(* same.                                                                    *)
Refuse(b) ==
  /\ At(b, "found") /\ task[b].kind = "page"
  /\ ~Valid(task[b])
  /\ sessions' \in {sessions, Deleted(task[b].token)}
  /\ Answer(b)
  /\ UNCHANGED <<now, policy, users, userLock, signedOut>>

Served(b) ==
  /\ At(b, "served")
  /\ task' = [task EXCEPT ![b] = Nothing]
  /\ UNCHANGED <<now, policy, tables, cookie, userLock, signedOut>>

MutCookieOnly(b) == sessions

SignedOut(b) == Deleted(task[b].token)

(* Logout's DeleteSession *)
Logout(b) ==
  /\ At(b, "found") /\ task[b].kind = "logout"
  /\ sessions' = SignedOut(b)
  /\ signedOut' = signedOut \cup {task[b].token}
  /\ Answer(b)
  /\ UNCHANGED <<now, policy, users, userLock>>

(* A query fails: 503, or the error page of the logout. *)
RequestFails(b) ==
  /\ At(b, "sent") \/ At(b, "found")
  /\ task' = [task EXCEPT ![b] = Nothing]
  /\ UNCHANGED <<now, policy, tables, cookie, userLock, signedOut>>

-----------------------------------------------------------------------------
MutUninvited == {s \in Live : users[sessions[s].user].email \notin policy}

Expired == {s \in Live : sessions[s].expires <= now}

(* DeleteExpiredSessions, at startup and every day. *)
DeleteExpired ==
  /\ Expired # {}
  /\ sessions' = [s \in SessionIds |-> IF s \in Expired THEN Gone ELSE sessions[s]]
  /\ UNCHANGED <<now, policy, users, cookie, process, signedOut>>

Tick ==
  /\ now < MaxNow
  /\ now' = now + 1
  /\ UNCHANGED <<policy, tables, cookie, process, signedOut>>

(* The process ends, with whatever it was doing, and another starts,        *)
(* perhaps with other addresses in its environment.                         *)
Restart(addresses) ==
  /\ policy' = addresses
  /\ task' = [b \in Tabs |-> Nothing]
  /\ userLock' = NoOne
  /\ UNCHANGED <<now, tables, cookie, signedOut>>

LoginStep(b) ==
  \/ FindByOAuth(b) \/ FindByEmail(b) \/ ResolveUser(b) \/ WriteUser(b) \/ LoginFails(b) \/ CreateSession(b)

VisitStep(b) ==
  \/ FindSession(b) \/ NotFound(b) \/ Admit(b) \/ Refuse(b) \/ Served(b) \/ Logout(b) \/ RequestFails(b)

Next ==
  \/ \E b \in Tabs :
       \/ \E account \in Accounts : Callback(b, account)
       \/ LoginStep(b)
       \/ \E kind \in {"page", "logout"} : Request(b, kind)
       \/ VisitStep(b)
  \/ DeleteExpired
  \/ Tick
  \/ \E addresses \in Policies : Restart(addresses)

(* The clock runs and the cleanup is scheduled; nobody has to sign in.      *)
Fairness == WF_vars(Tick) /\ WF_vars(DeleteExpired)

Spec == Init /\ [][Next]_vars
FairSpec == Spec /\ Fairness

-----------------------------------------------------------------------------
SignIn ==
  [at : {"identity", "email", "upsert", "write"}, account : Accounts, id : UserIds, expires : Nat,
   same : SUBSET UserIds, mail : SUBSET UserIds]

Authorized == [at : {"session"}, id : UserIds, expires : Nat]

Visit ==
  [at : {"sent", "found", "served"}, kind : {"page", "logout"}, token : SessionIds,
   email : {a.email : a \in Accounts} \cup {Nothing}, expires : Nat, late : BOOLEAN]

TypeOK ==
  /\ now \in Nat
  /\ policy \in Policies
  /\ users \in [UserIds -> Accounts \cup {Nothing}]
  /\ sessions \in [SessionIds -> [user : UserIds, expires : Nat] \cup {Nothing, Gone}]
  /\ userLock \in Tabs \cup {NoOne}
  /\ cookie \in SessionIds \cup {Nothing}
  /\ task \in [Tabs -> SignIn \cup Authorized \cup Visit \cup {Nothing}]
  /\ signedOut \subseteq SessionIds

(* One user per person.  However two sign-ins with the same identity or the *)
(* same address interleave, the users table never holds the identity or the *)
(* address twice: its unique indexes, which are not part of this model,     *)
(* have nothing to refuse (UpsertUser's lock, read and write).              *)
OneUserPerPerson ==
  \A u, w \in People : u # w =>
    users[u].subject # users[w].subject /\ users[u].email # users[w].email

(* A user is never handed to a stranger: an update changes the identity or  *)
(* the address of a user, never both at once, even when another sign-in has *)
(* changed the other one since this one looked it up; and no user           *)
(* disappears (UpsertUser and its conflict).                                *)
AccountKeepsAnAnchor ==
  [][\A u \in People :
       /\ users'[u] # Nothing
       /\ users'[u].subject = users[u].subject \/ users'[u].email = users[u].email]_vars

(* Signing out is final.  Once a logout has been answered, no request sent  *)
(* after that is served with its token, though the browser may have kept    *)
(* the cookie and other requests, sign-ins and refusals were under way      *)
(* meanwhile; and nobody is served whose address the process does not admit *)
(* (Logout, Validate).                                                      *)
SignedOutStaysOut ==
  \A b \in Tabs : At(b, "served") => ~task[b].late /\ task[b].email \in policy

(* Every session ends, even if its browser never comes back: it expires and *)
(* the cleanup removes it, whatever restarts in between                     *)
(* (DeleteExpiredSessions).                                                 *)
SessionsEnd == \A s \in SessionIds : (s \in Live) ~> (s \notin Live)

=============================================================================
