------------------------------ MODULE Accounts ------------------------------
(***************************************************************************)
(* Accounts, login identities, sessions, emailed tokens and the ADMIN      *)
(* role: AuthService over its repositories (infrastructure/src/auth), the  *)
(* erasure of an account (privacy/anonymize.rs) and the purges of the      *)
(* retention job that remove accounts.                                     *)
(*                                                                         *)
(* A request runs one statement after another, each atomic under READ      *)
(* COMMITTED, and anything may happen between two of them.  Reads that     *)
(* only decide whether a request goes on are taken together with the next  *)
(* statement that counts.  The two transactions that lock the ADMIN rows   *)
(* lock them one by one.                                                   *)
(***************************************************************************)
CONSTANTS
    Users,       \* users ids; an id is never used again
    Emails,      \* addresses
    Subjects,    \* what the OAuth provider calls a person
    Tokens,      \* emailed single-use tokens
    Sessions,    \* session ids
    Requests,    \* requests in flight
    None         \* SQL NULL, and the address deleted+<id>@bikesnest.invalid

ASSUME DistinctAssumption ==
    None \notin Users \cup Emails \cup Subjects \cup Tokens \cup Sessions \cup Requests

VARIABLES
    users,       \* the users table
    pw,          \* password identities: the account that logs in with each address
    google,      \* OAuth identities: the account behind each subject
    admins,      \* the accounts with an ADMIN row in user_roles
    lock,        \* the transaction that keeps each ADMIN row locked
    scan,        \* ADMIN rows that a SELECT ... FOR UPDATE has in its snapshot, locked or not yet
    sess,        \* the account of each session that is neither revoked nor expired
    verifs,      \* email_verification_tokens that can still be used
    resets,      \* password_reset_tokens that can still be used
    pc,          \* where each request is
    req          \* what it has read and been given

locks == <<lock, scan>>
tables == <<users, pw, google, admins, locks, sess>>
tokens == <<verifs, resets>>
vars == <<tables, tokens, pc, req>>

-----------------------------------------------------------------------------
\* The tables

\* "NONE": no row yet; "PURGED": the row has been deleted.
AccountState == {"PENDING", "ACTIVE", "SUSPENDED", "DELETED"}
UserRow == [state: AccountState \cup {"NONE", "PURGED"}, email: Emails \cup {None}]
NoUser == [state |-> "NONE", email |-> None]

Verification == [user: Users, email: Emails]
NoVerification == [user |-> None, email |-> None]

Request == [user: Users \cup {None}, email: Emails \cup {None}, subject: Subjects \cup {None},
            token: Tokens \cup {None}, session: Sessions \cup {None}]
NoRequest == [user |-> None, email |-> None, subject |-> None, token |-> None,
              session |-> None]

Points == {"idle", "oauth pending", "oauth active", "issue", "issue reset",
           "find", "confirm", "confirm change", "reread", "session", "link", "link new",
           "link blocked", "user", "admin", "reset", "sign out",
           "revoke", "revoke other", "delete", "scrub", "erase",
           "candidate", "scrub inactive", "erase inactive"}

Exists(u) == users[u].state \in AccountState
can_log_in(state) == state \in {"PENDING", "ACTIVE"}
can_access_account(state) == state \in {"PENDING", "ACTIVE"}

\* The account with this address, if any: at most one, by the unique index on lower(email).
find_by_email(e) == {u \in Users : users[u].email = e}

Init ==
    /\ \E a \in Users, e \in Emails :            \* seed-admin, before the first request
         /\ users = [u \in Users |-> IF u = a THEN [state |-> "ACTIVE", email |-> e] ELSE NoUser]
         /\ pw = [x \in Emails |-> IF x = e THEN a ELSE None]
         /\ admins = {a}
    /\ google = [g \in Subjects |-> None]
    /\ lock = [u \in Users |-> None]
    /\ scan = [r \in Requests |-> {}]
    /\ sess = [s \in Sessions |-> None]
    /\ verifs = [t \in Tokens |-> NoVerification]
    /\ resets = [t \in Tokens |-> None]
    /\ pc = [r \in Requests |-> "idle"]
    /\ req = [r \in Requests |-> NoRequest]

-----------------------------------------------------------------------------
\* Requests

Goto(r, point, record) == /\ pc' = [pc EXCEPT ![r] = point]
                          /\ req' = [req EXCEPT ![r] = record]
Continue(r, point) == Goto(r, point, req[r])
Return(r) == Goto(r, "idle", NoRequest)
ContinueFor(r, point) == Goto(r, point, [NoRequest EXCEPT !.user = req[r].user])
Start(r, point, record) == pc[r] = "idle" /\ Goto(r, point, record)

\* The rows a transaction has locked are released when it ends.
Unlocked(r) == [u \in Users |-> IF lock[u] = r THEN None ELSE lock[u]]

\* The handler's future is dropped at an await, or a statement fails.
Drop(r) ==
    /\ pc[r] # "idle"
    /\ Return(r)
    /\ lock' = Unlocked(r)
    /\ scan' = [scan EXCEPT ![r] = {}]
    /\ UNCHANGED <<users, pw, google, admins, sess, tokens>>

-----------------------------------------------------------------------------
\* Register, verify, resend

\* AccountRepository::create: the row and, with a password, its identity.
InsertUser(u, e, state, owner) ==
    /\ users[u].state = "NONE"
    /\ users' = [users EXCEPT ![u] = [state |-> state, email |-> e]]
    /\ pw' = IF owner = None THEN pw ELSE [pw EXCEPT ![e] = owner]
    /\ UNCHANGED <<google, admins, locks, sess, tokens>>

\* Both inserts are under unique indexes.
AddressFree(e) == find_by_email(e) = {} /\ pw[e] = None

\* register and create: an address that is taken is answered like any other, and nothing
\* happens.
register(r, e) ==
    /\ AddressFree(e)
    /\ \E u \in Users : /\ InsertUser(u, e, "PENDING", u)
                        /\ Start(r, "issue", [NoRequest EXCEPT !.user = u, !.email = e])

\* A fresh random token: none that is stored or that a request still carries.
Fresh(t) == /\ verifs[t] = NoVerification /\ resets[t] = None
            /\ \A r \in Requests : req[r].token # t

\* The foreign key refuses a token for a row that is gone.  The mail with the link is a job
\* of its own; the link may be followed at any time from now on, or never.
issue_verification(r) ==
    /\ pc[r] = "issue"
    /\ Exists(req[r].user)
    /\ \E t \in Tokens :
         /\ Fresh(t)
         /\ verifs' = [verifs EXCEPT ![t] = [user |-> req[r].user, email |-> req[r].email]]
    /\ Return(r)
    /\ UNCHANGED <<tables, resets>>

\* Mutant of consume_verification: the token is read but not marked used.
consume_verificationAgain(r, t) ==
    /\ verifs[t] # NoVerification
    /\ Start(r, "find", [NoRequest EXCEPT !.token = t, !.user = verifs[t].user,
                                          !.email = verifs[t].email])
    /\ UNCHANGED <<tables, tokens>>

\* verify_email, from the link in the mail: UPDATE ... used_at IS NULL ... RETURNING.
consume_verification(r, t) ==
    /\ verifs[t] # NoVerification
    /\ verifs' = [verifs EXCEPT ![t] = NoVerification]
    /\ Start(r, "find", [NoRequest EXCEPT !.token = t, !.user = verifs[t].user,
                                          !.email = verifs[t].email])
    /\ UNCHANGED <<tables, resets>>

\* find_by_id, which decides whether this is a change of address.
verify_email(r) ==
    /\ pc[r] = "find"
    /\ \/ /\ Exists(req[r].user)
          /\ Continue(r, IF users[req[r].user].email = req[r].email
                         THEN "confirm" ELSE "confirm change")
       \/ ~Exists(req[r].user) /\ Return(r)
    /\ UNCHANGED <<tables, tokens>>

\* Mutant of MoveIdentity: the identity keeps its old subject.
MoveIdentityNot(u, e) == pw

\* The account's password identity follows its address.
MoveIdentity(u, e) ==
    [x \in Emails |-> IF x = e /\ (\E y \in Emails : pw[y] = u) THEN u
                      ELSE IF pw[x] = u THEN None ELSE pw[x]]

\* One transaction, refused by the unique indexes if the address has been taken.
\* It neither looks at the state of the row nor minds if there is none.
confirm_email(r) ==
    LET u == req[r].user  e == req[r].email IN
    /\ pc[r] \in {"confirm", "confirm change"}
    /\ \/ /\ find_by_email(e) \subseteq {u} /\ pw[e] \in {u, None}
          /\ IF Exists(u)
             THEN /\ users' = [users EXCEPT ![u] = [state |-> "ACTIVE", email |-> e]]
                  /\ pw' = MoveIdentity(u, e)
             ELSE UNCHANGED <<users, pw>>
          /\ IF pc[r] = "confirm change" THEN ContinueFor(r, "sign out") ELSE Return(r)
       \/ /\ ~(find_by_email(e) \subseteq {u} /\ pw[e] \in {u, None})
          /\ Return(r)
          /\ UNCHANGED <<users, pw>>
    /\ UNCHANGED <<google, admins, locks, sess, tokens>>

\* resend_verification
resend_verification(r, e) ==
    \E u \in find_by_email(e) :
      /\ Start(r, "issue", [NoRequest EXCEPT !.user = u, !.email = e])
      /\ UNCHANGED <<tables, tokens>>

-----------------------------------------------------------------------------
\* Sign in and out

\* An identity, the password check (which any caller may pass) and find_by_id: a state
\* that cannot log in gets the generic error.
SignIn(r, u) ==
    /\ u # None /\ can_log_in(users[u].state)
    /\ Start(r, "session", [NoRequest EXCEPT !.user = u])

login(r, e) ==
    /\ SignIn(r, pw[e])
    /\ UNCHANGED <<tables, tokens>>

\* SessionStore::create, for a row that must still exist.
CreateSession(r) ==
    /\ pc[r] = "session"
    /\ Exists(req[r].user)
    /\ \E s \in Sessions :
         /\ sess[s] = None /\ \A q \in Requests : req[q].session # s
         /\ sess' = [sess EXCEPT ![s] = req[r].user]
    /\ Return(r)
    /\ UNCHANGED <<users, pw, google, admins, locks, tokens>>

\* oauth_callback: (1) a known subject, (2) a verified address of an account, to which
\* the identity is linked, (3) a new account.
oauth_callback(r, g, e, verified) ==
    LET found == find_by_email(e)
        start == [NoRequest EXCEPT !.subject = g, !.email = e] IN
    /\ \/ SignIn(r, google[g])
       \/ /\ google[g] = None /\ verified
          /\ \E u \in found :
               Start(r, IF can_log_in(users[u].state) THEN "link" ELSE "link blocked",
                     [start EXCEPT !.user = u, !.email = None])
       \/ /\ google[g] = None /\ (verified => found = {})
          /\ Start(r, IF verified THEN "oauth active" ELSE "oauth pending", start)
    /\ UNCHANGED <<tables, tokens>>

\* create without a password.
CreateOAuth(r) ==
    LET e == req[r].email IN
    /\ pc[r] \in {"oauth pending", "oauth active"}
    /\ \/ /\ find_by_email(e) = {}
          /\ \E u \in Users :
               /\ InsertUser(u, e, IF pc[r] = "oauth active" THEN "ACTIVE" ELSE "PENDING", None)
               /\ Goto(r, "link new", [req[r] EXCEPT !.user = u, !.email = None])
       \/ /\ find_by_email(e) # {}
          /\ Return(r)
          /\ UNCHANGED <<tables, tokens>>

\* ON CONFLICT (provider, provider_subject) DO NOTHING.  An account found by its
\* address is signed in on the state read before; a new one is read again.
link_identity(r) ==
    LET g == req[r].subject  u == req[r].user IN
    /\ pc[r] \in {"link", "link new", "link blocked"}
    /\ google[g] = None => Exists(u)
    /\ google' = IF google[g] = None THEN [google EXCEPT ![g] = u] ELSE google
    /\ CASE pc[r] = "link"     -> ContinueFor(r, "session")
         [] pc[r] = "link new" -> ContinueFor(r, "reread")
         [] OTHER              -> Return(r)
    /\ UNCHANGED <<users, pw, admins, locks, sess, tokens>>

\* find_by_id and sign_in, for a new account.
SignInNew(r) ==
    /\ pc[r] = "reread"
    /\ IF can_log_in(users[req[r].user].state) THEN Continue(r, "session") ELSE Return(r)
    /\ UNCHANGED <<tables, tokens>>

\* The middleware: the session, then its account with the roles it has now.
resolve_session(r, s) ==
    LET u == sess[s] IN
    /\ u # None
    /\ can_access_account(users[u].state)
    /\ Start(r, IF u \in admins THEN "admin" ELSE "user",
             [NoRequest EXCEPT !.user = u, !.session = s])
    /\ UNCHANGED <<tables, tokens>>

\* What an authenticated request may do; an administrator may do it too.
Authenticated(r) == pc[r] \in {"user", "admin"}

logout(r) ==
    /\ Authenticated(r)
    /\ sess' = [sess EXCEPT ![req[r].session] = None]
    /\ Return(r)
    /\ UNCHANGED <<users, pw, google, admins, locks, tokens>>

\* revoke_all_for_user_except(user, keep), the last statement of several operations.
revoke_all_for_user_except(r) ==
    /\ pc[r] \in {"reset", "sign out"}
    /\ sess' = [s \in Sessions |-> IF sess[s] = req[r].user /\ s # req[r].session
                                   THEN None ELSE sess[s]]
    /\ Return(r)
    /\ UNCHANGED <<users, pw, google, admins, locks, tokens>>

-----------------------------------------------------------------------------
\* Passwords and addresses

request_password_reset(r, e) ==
    \E u \in find_by_email(e) :
      /\ Start(r, "issue reset", [NoRequest EXCEPT !.user = u])
      /\ UNCHANGED <<tables, tokens>>

issue_reset(r) ==
    /\ pc[r] = "issue reset"
    /\ Exists(req[r].user)
    /\ \E t \in Tokens :
         /\ Fresh(t)
         /\ resets' = [resets EXCEPT ![t] = req[r].user]
         /\ Return(r)
    /\ UNCHANGED <<tables, verifs>>

\* reset_password, from the link in the mail.  The hashes are left out: what the new
\* password does to this state comes after set_password, when all sessions end.
consume_reset(r, t) ==
    /\ resets[t] # None
    /\ resets' = [resets EXCEPT ![t] = None]
    /\ Start(r, "reset", [NoRequest EXCEPT !.token = t, !.user = resets[t]])
    /\ UNCHANGED <<tables, verifs>>

\* The account's address leads to its password identity.
HasPassword(u) == Exists(u) /\ users[u].email # None /\ pw[users[u].email] # None

\* change_password, with the current password and up to set_password: all but the
\* session in use end.
change_password(r) ==
    /\ Authenticated(r)
    /\ HasPassword(req[r].user)
    /\ Continue(r, "sign out")
    /\ UNCHANGED <<tables, tokens>>

\* change_email: refused here if the address is taken; the switch is verify_email's.
change_email(r, e) ==
    LET u == req[r].user IN
    /\ Authenticated(r)
    /\ HasPassword(u)
    /\ find_by_email(e) = {}
    /\ Goto(r, "issue", [NoRequest EXCEPT !.user = u, !.email = e])
    /\ UNCHANGED <<tables, tokens>>

-----------------------------------------------------------------------------
\* Roles, suspension, erasure

\* Every insert into user_roles: neither the state of the account nor the actor's
\* own role is read again.
grant_role(r, u) ==
    /\ pc[r] = "admin"
    /\ Exists(u)
    /\ admins' = admins \cup {u}
    /\ Return(r)
    /\ UNCHANGED <<users, pw, google, locks, sess, tokens>>

\* SELECT ... WHERE role = 'ADMIN' FOR UPDATE: the rows of the statement's snapshot ...
LockAdmins(r) == scan' = [scan EXCEPT ![r] = admins]

\* ... are locked one by one, in any order.
LockAdminRow(r, u) ==
    /\ u \in scan[r]
    /\ lock[u] = None
    /\ lock' = [lock EXCEPT ![u] = r]
    /\ UNCHANGED <<users, pw, google, admins, scan, sess, tokens, pc, req>>

\* Mutant of AllLocked: the SELECT without FOR UPDATE, which waits for nobody.
AllLockedNot(r) == TRUE

\* The SELECT returns once it has them all.
AllLocked(r) == \A u \in scan[r] : lock[u] = r

\* A row that was deleted while the SELECT waited for it is not returned; one that was
\* inserted after its snapshot is not seen.
Rescan(u) == [r \in Requests |-> scan[r] \ {u}]

\* The guard, on the rows that were returned: the last administrator is refused.
LastAdmin(r, u) == scan[r] = {u}

\* A row inserted after the snapshot may be in another transaction's hands.
Mine(r, u) == lock[u] \in {r, None}

\* What a transaction leaves when it ends, with or without having deleted the row of u.
EndScan(r, scans) == scan' = [scans EXCEPT ![r] = {}]

\* u = None: a role other than ADMIN.
revoke_role(r, u) ==
    /\ pc[r] = "admin"
    /\ LockAdmins(r)
    /\ Goto(r, IF u = None THEN "revoke other" ELSE "revoke", [NoRequest EXCEPT !.user = u])
    /\ UNCHANGED <<users, pw, google, admins, lock, sess, tokens>>

\* The check of revoke_role_guarded and of anonymize, with what comes after it.
Guard(r, next) ==
    /\ AllLocked(r)
    /\ \/ /\ LastAdmin(r, req[r].user)
          /\ Return(r) /\ lock' = Unlocked(r) /\ EndScan(r, scan)
       \/ /\ ~LastAdmin(r, req[r].user)
          /\ Continue(r, next) /\ UNCHANGED locks
    /\ UNCHANGED <<users, pw, google, admins, sess, tokens>>

GuardLastAdmin(r) == \/ pc[r] = "revoke" /\ Guard(r, "delete")
                     \/ pc[r] = "scrub" /\ Guard(r, "erase")
                     \/ pc[r] = "scrub inactive" /\ Guard(r, "erase inactive")

\* The DELETE, of whatever row there is by now, and the COMMIT.
revoke_role_guarded(r) ==
    LET u == req[r].user IN
    /\ \/ /\ pc[r] = "delete"
          /\ Mine(r, u)
          /\ admins' = admins \ {u} /\ EndScan(r, Rescan(u))
       \/ /\ pc[r] = "revoke other" /\ AllLocked(r)
          /\ UNCHANGED admins /\ EndScan(r, scan)
    /\ lock' = Unlocked(r)
    /\ Return(r)
    /\ UNCHANGED <<users, pw, google, sess, tokens>>

\* set_state: unconditional, whatever the state was.
set_state(u, state) == users' = IF Exists(u) THEN [users EXCEPT ![u].state = state] ELSE users

suspend_user(r, u) ==
    /\ pc[r] = "admin"
    /\ set_state(u, "SUSPENDED")
    /\ Goto(r, "sign out", [NoRequest EXCEPT !.user = u])
    /\ UNCHANGED <<pw, google, admins, locks, sess, tokens>>

restore_user(r, u) ==
    /\ pc[r] = "admin"
    /\ set_state(u, "ACTIVE")
    /\ Return(r)
    /\ UNCHANGED <<pw, google, admins, locks, sess, tokens>>

\* request_deletion up to the lock with which anonymize begins: the caller has typed the
\* address and, where there is one, the password.
request_deletion(r) ==
    /\ Authenticated(r)
    /\ admins # {req[r].user}
    /\ LockAdmins(r)
    /\ ContinueFor(r, "scrub")
    /\ UNCHANGED <<users, pw, google, admins, lock, sess, tokens>>

\* One candidate of anonymize_inactive_accounts; the list was read before.
anonymize_inactive_accounts(r, u) ==
    /\ Exists(u) /\ users[u].state # "DELETED" /\ u \notin admins
    /\ Start(r, "candidate", [NoRequest EXCEPT !.user = u])
    /\ UNCHANGED <<tables, tokens>>

\* Its anonymize begins, whatever the account has become.
last_admin_locked(r) ==
    /\ pc[r] = "candidate"
    /\ LockAdmins(r)
    /\ Continue(r, "scrub inactive")
    /\ UNCHANGED <<users, pw, google, admins, lock, sess, tokens>>

\* Everything in these tables that names the account.
DropRowsOf(u) ==
    /\ pw' = [e \in Emails |-> IF pw[e] = u THEN None ELSE pw[e]]
    /\ google' = [g \in Subjects |-> IF google[g] = u THEN None ELSE google[g]]
    /\ admins' = admins \ {u}
    /\ sess' = [s \in Sessions |-> IF sess[s] = u THEN None ELSE sess[s]]
    /\ verifs' = [t \in Tokens |-> IF verifs[t].user = u THEN NoVerification ELSE verifs[t]]
    /\ resets' = [t \in Tokens |-> IF resets[t] = u THEN None ELSE resets[t]]

\* The rest of it, and the COMMIT.  What other requests insert meanwhile survives if it
\* comes after the DELETE of its table, as it does if it comes after the COMMIT.
anonymize(r) ==
    LET u == req[r].user IN
    /\ pc[r] \in {"erase", "erase inactive"}
    /\ Mine(r, u)
    /\ users' = IF Exists(u) THEN [users EXCEPT ![u] = [state |-> "DELETED", email |-> None]]
                             ELSE users
    /\ DropRowsOf(u) /\ EndScan(r, Rescan(u))
    /\ lock' = Unlocked(r)
    /\ IF pc[r] = "erase" THEN Continue(r, "sign out") ELSE Return(r)

-----------------------------------------------------------------------------
\* The retention job, and what time alone does.

\* purge_deleted_accounts deletes the shell; ON DELETE CASCADE the rest.
purge_deleted_accounts(u) ==
    /\ users[u].state = "DELETED"
    /\ lock[u] = None
    /\ users' = [users EXCEPT ![u].state = "PURGED"]
    /\ DropRowsOf(u) /\ scan' = Rescan(u)
    /\ UNCHANGED <<lock, pc, req>>

\* Expiry; purging the expired rows changes nothing that a request can see.
ExpireSession(s) ==
    /\ sess[s] # None
    /\ sess' = [sess EXCEPT ![s] = None]
    /\ UNCHANGED <<users, pw, google, admins, locks, tokens, pc, req>>

ExpireToken(t) ==
    /\ verifs[t] # NoVerification \/ resets[t] # None
    /\ verifs' = [verifs EXCEPT ![t] = NoVerification]
    /\ resets' = [resets EXCEPT ![t] = None]
    /\ UNCHANGED <<tables, pc, req>>

-----------------------------------------------------------------------------

\* What a request does once it has started.
Proceed(r) ==
    \/ issue_verification(r) \/ verify_email(r) \/ confirm_email(r)
    \/ SignInNew(r) \/ CreateSession(r) \/ CreateOAuth(r) \/ link_identity(r)
    \/ revoke_all_for_user_except(r) \/ issue_reset(r)
    \/ GuardLastAdmin(r) \/ revoke_role_guarded(r) \/ last_admin_locked(r) \/ anonymize(r)
    \/ \E u \in Users : LockAdminRow(r, u)

\* What a caller asks for.
Call(r) ==
    \/ \E e \in Emails : \/ register(r, e) \/ resend_verification(r, e) \/ login(r, e)
                         \/ request_password_reset(r, e) \/ change_email(r, e)
                         \/ \E g \in Subjects, v \in BOOLEAN : oauth_callback(r, g, e, v)
    \/ \E t \in Tokens : consume_verification(r, t) \/ consume_reset(r, t)
    \/ \E s \in Sessions : resolve_session(r, s)
    \/ \E u \in Users : \/ grant_role(r, u) \/ revoke_role(r, u)
                        \/ suspend_user(r, u) \/ restore_user(r, u)
                        \/ anonymize_inactive_accounts(r, u)
    \/ revoke_role(r, None) \/ logout(r) \/ change_password(r) \/ request_deletion(r)

Next ==
    \/ \E r \in Requests : Call(r) \/ Proceed(r) \/ Drop(r)
    \/ \E u \in Users : purge_deleted_accounts(u)
    \/ \E s \in Sessions : ExpireSession(s)
    \/ \E t \in Tokens : ExpireToken(t)

Spec == Init /\ [][Next]_vars

-----------------------------------------------------------------------------

TypeOK ==
    /\ users \in [Users -> UserRow]
    /\ pw \in [Emails -> Users \cup {None}]
    /\ google \in [Subjects -> Users \cup {None}]
    /\ admins \in SUBSET Users
    /\ lock \in [Users -> Requests \cup {None}]
    /\ sess \in [Sessions -> Users \cup {None}]
    /\ verifs \in [Tokens -> Verification \cup {NoVerification}]
    /\ resets \in [Tokens -> Users \cup {None}]
    /\ pc \in [Requests -> Points]
    /\ req \in [Requests -> Request]
    /\ scan \in [Requests -> SUBSET Users]

\* Never zero administrators, as far as the guard reaches: a revoke or an erasure whose
\* SELECT returned the row of the last administrator does not remove it, although it had
\* counted others when it began to wait.  (A row that was granted after the snapshot, and
\* one that a purge takes with its shell, are not seen by any guard.)
LastAdminGuarded ==
    [][\A u \in Users, r \in Requests :
         admins = {u} /\ u \in scan[r] /\ admins' = {} => pc'[r] = pc[r]]_vars

\* One login key per account: the account a password login finds by an address is the
\* account that has that address.
OneLoginKey == \A e \in Emails : pw[e] # None => users[pw[e]].email = e

\* A token takes effect once, however often its link is followed and from however many
\* requests: the one that spent it is alone with it, and nobody can spend it again.
Spending(r) == pc[r] \in {"find", "confirm", "confirm change", "reset"}
TokenSpentOnce ==
    \A r \in Requests : Spending(r) =>
       /\ verifs[req[r].token] = NoVerification /\ resets[req[r].token] = None
       /\ \A q \in Requests \ {r} : req[q].token # req[r].token
=============================================================================
