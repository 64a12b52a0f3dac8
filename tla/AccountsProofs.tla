--------------------------- MODULE AccountsProofs ---------------------------
(***************************************************************************)
(* Theorems about Accounts for every set of users, addresses, subjects,    *)
(* tokens, sessions and requests.                                          *)
(***************************************************************************)
EXTENDS Accounts, TLAPS

-----------------------------------------------------------------------------
\* What a request carries at each point.
Spends(point) == point \in {"find", "confirm", "confirm change", "reset"}

Carries(point, rec) ==
    /\ point \notin {"idle", "oauth pending", "oauth active", "revoke other"} => rec.user \in Users
    /\ point \in {"issue", "find", "confirm", "confirm change", "oauth pending", "oauth active"}
         => rec.email \in Emails
    /\ point \in {"oauth pending", "oauth active", "link", "link new", "link blocked"}
         => rec.subject \in Subjects
    /\ point \in {"user", "admin"} => rec.session \in Sessions
    /\ IF Spends(point) THEN rec.token \in Tokens ELSE rec.token = None

Carried == \A r \in Requests : Carries(pc[r], req[r])

\* An id that has no row has no address.
Blank == \A u \in Users : users[u].state = "NONE" => users[u].email = None

\* A token is of one kind.
OneKind == \A t \in Tokens : verifs[t] = NoVerification \/ resets[t] = None

\* A scan never holds a row that is gone.  Once a guard has passed, its rows are locked
\* and more than the one it is about to delete.
ScansLive == \A r \in Requests : scan[r] \subseteq admins

\* The points between a guard and its COMMIT.
Committing == {"delete", "erase", "erase inactive"}

Passed(r) == pc[r] \in Committing =>
                AllLocked(r) /\ ~LastAdmin(r, req[r].user)

Guards == ScansLive /\ \A r \in Requests : Passed(r)

\* The inductive invariant.
IInv == /\ TypeOK
        /\ Carried
        /\ Blank
        /\ OneLoginKey
        /\ OneKind
        /\ TokenSpentOnce
        /\ Guards

-----------------------------------------------------------------------------
\* Nobody gets hold of a token or passes a guard.
Quiet == \A q \in Requests :
            /\ Spends(pc'[q]) => Spends(pc[q]) /\ req'[q].token = req[q].token
            /\ pc'[q] \in Committing => pc[q] \in Committing /\ req'[q].user = req[q].user

Unremarkable(r, point, rec) ==
    /\ Spends(point) => Spends(pc[r]) /\ rec.token = req[r].token
    /\ point \notin Committing

\* A request moves: the others stay where they are.
LEMMA Moves ==
    ASSUME TypeOK, Carried, NEW r \in Requests, NEW point \in Points, NEW rec \in Request,
           Carries(point, rec), Goto(r, point, rec)
    PROVE  /\ pc' \in [Requests -> Points]
           /\ req' \in [Requests -> Request]
           /\ Carried'
           /\ pc'[r] = point /\ req'[r] = rec
           /\ \A q \in Requests \ {r} : pc'[q] = pc[q] /\ req'[q] = req[q]
           /\ Unremarkable(r, point, rec) => Quiet
<1>1. /\ pc' \in [Requests -> Points]
      /\ req' \in [Requests -> Request]
      /\ pc'[r] = point /\ req'[r] = rec
      /\ \A q \in Requests \ {r} : pc'[q] = pc[q] /\ req'[q] = req[q]
  BY DEF TypeOK, Goto
<1>2. Carried'
  <2> SUFFICES ASSUME NEW q \in Requests PROVE Carries(pc'[q], req'[q])
    BY DEF Carried, Carries, Spends
  <2> QED
    BY <1>1 DEF Carried
<1>3. Unremarkable(r, point, rec) => Quiet
  BY <1>1 DEF Unremarkable, Quiet
<1> QED
  BY <1>1, <1>2, <1>3

\* The empty record, and the ones that name a few things.
LEMMA Records ==
    /\ NoRequest \in Request /\ Carries("idle", NoRequest)
    /\ NoRequest.token = None /\ NoRequest.user = None
    /\ \A u \in Users \cup {None} :
         [NoRequest EXCEPT !.user = u] \in Request
    /\ \A u \in Users, e \in Emails :
         [NoRequest EXCEPT !.user = u, !.email = e] \in Request
BY DEF NoRequest, Request, Carries, Spends

\* A request that returns.
LEMMA Returns ==
    ASSUME TypeOK, Carried, NEW r \in Requests, Return(r)
    PROVE  /\ pc' \in [Requests -> Points]
           /\ req' \in [Requests -> Request]
           /\ Carried'
           /\ pc'[r] = "idle" /\ req'[r] = NoRequest
           /\ \A q \in Requests \ {r} : pc'[q] = pc[q] /\ req'[q] = req[q]
           /\ Quiet
<1>1. "idle" \in Points /\ Goto(r, "idle", NoRequest)
  BY DEF Points, Return
<1>2. Unremarkable(r, "idle", NoRequest)
  BY DEF Unremarkable, Spends, Committing
<1> QED
  BY <1>1, <1>2, Moves, Records

\* A request that goes on for the same account, forgetting the rest.
LEMMA ContinuesFor ==
    ASSUME TypeOK, Carried, NEW r \in Requests, req[r].user \in Users,
           NEW point \in {"sign out", "session", "reread", "scrub"}, ContinueFor(r, point)
    PROVE  /\ pc' \in [Requests -> Points]
           /\ req' \in [Requests -> Request]
           /\ Carried'
           /\ pc'[r] = point /\ req'[r].user = req[r].user
           /\ \A q \in Requests \ {r} : pc'[q] = pc[q] /\ req'[q] = req[q]
           /\ Quiet
<1> DEFINE rec == [NoRequest EXCEPT !.user = req[r].user]
<1>1. point \in Points /\ rec \in Request /\ rec.user = req[r].user /\ rec.token = None
  BY Records DEF Points, NoRequest
<1>2. Carries(point, rec)
  BY <1>1 DEF Carries, Spends
<1>3. Goto(r, point, rec)
  BY DEF ContinueFor
<1>4. Unremarkable(r, point, rec)
  BY DEF Unremarkable, Spends, Committing
<1> HIDE DEF rec
<1> QED
  BY <1>1, <1>2, <1>3, <1>4, Moves

\* A request that moves somewhere ordinary.
LEMMA Ordinary ==
    ASSUME TypeOK, Carried, NEW r \in Requests, NEW point \in Points, NEW rec \in Request,
           Carries(point, rec), Goto(r, point, rec), ~Spends(point), point \notin Committing
    PROVE  /\ pc' \in [Requests -> Points]
           /\ req' \in [Requests -> Request]
           /\ Carried' /\ Quiet
<1>1. Unremarkable(r, point, rec)
  BY DEF Unremarkable
<1> QED
  BY <1>1, Moves

\* The tables keep their types if the request does and they do not change.
TablesOK ==
    /\ users \in [Users -> UserRow]
    /\ pw \in [Emails -> Users \cup {None}]
    /\ google \in [Subjects -> Users \cup {None}]
    /\ admins \in SUBSET Users
    /\ lock \in [Users -> Requests \cup {None}]
    /\ sess \in [Sessions -> Users \cup {None}]
    /\ scan \in [Requests -> SUBSET Users]

TokensOK ==
    /\ verifs \in [Tokens -> Verification \cup {NoVerification}]
    /\ resets \in [Tokens -> Users \cup {None}]

Good == TypeOK' /\ Carried' /\ Quiet

LEMMA Parts ==
    ASSUME TablesOK', TokensOK', pc' \in [Requests -> Points], req' \in [Requests -> Request],
           Carried', Quiet
    PROVE  Good
BY DEF Good, TypeOK, TablesOK, TokensOK

LEMMA Unchanged ==
    ASSUME TypeOK
    PROVE  /\ UNCHANGED tables => TablesOK'
           /\ UNCHANGED tokens => TokensOK'
           /\ TablesOK /\ TokensOK
BY DEF TypeOK, TablesOK, TokensOK, tables, tokens, locks

-----------------------------------------------------------------------------
\* Signing up, verifying, signing in.
LEMMA SignUpGood ==
    ASSUME TypeOK, Carried, NEW r \in Requests, NEW e \in Emails
    PROVE  /\ register(r, e) => Good
           /\ resend_verification(r, e) => Good
           /\ login(r, e) => Good
           /\ request_password_reset(r, e) => Good
           /\ change_email(r, e) => Good
<1>0. /\ {"issue", "issue reset", "session"} \subseteq Points
      /\ \A p \in {"issue", "issue reset", "session"} : ~Spends(p) /\ p \notin Committing
  BY DEF Points, Spends, Committing
<1>1. ASSUME NEW u \in Users
      PROVE  /\ Carries("issue", [NoRequest EXCEPT !.user = u, !.email = e])
             /\ Carries("issue reset", [NoRequest EXCEPT !.user = u])
             /\ Carries("session", [NoRequest EXCEPT !.user = u])
  BY DEF Carries, Spends, NoRequest
<1>2. ASSUME register(r, e) PROVE Good
  <2>1. PICK u \in Users : /\ InsertUser(u, e, "PENDING", u)
                           /\ Goto(r, "issue", [NoRequest EXCEPT !.user = u, !.email = e])
    BY <1>2 DEF register, Start
  <2>2. TablesOK' /\ TokensOK'
    BY <2>1, Unchanged DEF InsertUser, TablesOK, UserRow, AccountState, TokensOK, tokens, locks
  <2> QED
    BY <2>1, <2>2, <1>0, <1>1, Records, Ordinary, Parts
<1>3. ASSUME resend_verification(r, e) PROVE Good
  <2>1. PICK u \in Users : Goto(r, "issue", [NoRequest EXCEPT !.user = u, !.email = e])
    BY <1>3 DEF resend_verification, Start, find_by_email
  <2> QED
    BY <1>3, <2>1, <1>0, <1>1, Records, Ordinary, Parts, Unchanged DEF resend_verification
<1>4. ASSUME login(r, e) PROVE Good
  <2>1. pw[e] \in Users /\ Goto(r, "session", [NoRequest EXCEPT !.user = pw[e]])
    BY <1>4 DEF login, SignIn, Start, TypeOK
  <2> QED
    BY <1>4, <2>1, <1>0, <1>1, Records, Ordinary, Parts, Unchanged DEF login
<1>5. ASSUME request_password_reset(r, e) PROVE Good
  <2>1. PICK u \in Users : Goto(r, "issue reset", [NoRequest EXCEPT !.user = u])
    BY <1>5 DEF request_password_reset, Start, find_by_email
  <2> QED
    BY <1>5, <2>1, <1>0, <1>1, Records, Ordinary, Parts, Unchanged DEF request_password_reset
<1>6. ASSUME change_email(r, e) PROVE Good
  <2>1. /\ req[r].user \in Users
        /\ Goto(r, "issue", [NoRequest EXCEPT !.user = req[r].user, !.email = e])
    BY <1>6 DEF change_email, Authenticated, Carried, Carries
  <2> QED
    BY <1>6, <2>1, <1>0, <1>1, Records, Ordinary, Parts, Unchanged DEF change_email
<1> QED
  BY <1>2, <1>3, <1>4, <1>5, <1>6

LEMMA OAuthGood ==
    ASSUME TypeOK, Carried, NEW r \in Requests
    PROVE  /\ \A g \in Subjects, e \in Emails, v \in BOOLEAN : oauth_callback(r, g, e, v) => Good
           /\ CreateOAuth(r) => Good
           /\ link_identity(r) => Good
           /\ SignInNew(r) => Good
<1> DEFINE Pts == {"session", "link", "link blocked", "link new", "oauth active", "oauth pending"}
<1>0. Pts \subseteq Points /\ \A p \in Pts : ~Spends(p) /\ p \notin Committing
  BY DEF Points, Spends, Committing
<1>1. ASSUME NEW g \in Subjects, NEW e \in Emails, NEW v \in BOOLEAN, oauth_callback(r, g, e, v)
      PROVE  Good
  <2> DEFINE start == [NoRequest EXCEPT !.subject = g, !.email = e]
  <2>1. start \in Request /\ Carries("oauth active", start) /\ Carries("oauth pending", start)
    BY DEF NoRequest, Request, Carries, Spends
  <2>2. \A u \in Users : LET rec == [start EXCEPT !.user = u, !.email = None] IN
           rec \in Request /\ Carries("link", rec) /\ Carries("link blocked", rec)
    BY DEF NoRequest, Request, Carries, Spends
  <2>3. \A u \in Users : Carries("session", [NoRequest EXCEPT !.user = u])
    BY DEF NoRequest, Carries, Spends
  <2>4. TablesOK' /\ TokensOK'
    BY <1>1, Unchanged DEF oauth_callback
  <2>5. CASE SignIn(r, google[g])
    <3>1. google[g] \in Users /\ Goto(r, "session", [NoRequest EXCEPT !.user = google[g]])
      BY <2>5 DEF SignIn, Start, TypeOK
    <3> QED
      BY <3>1, <1>0, <2>3, <2>4, Records, Ordinary, Parts
  <2>6. ASSUME NEW u \in Users, NEW p \in {"link", "link blocked"},
               Goto(r, p, [start EXCEPT !.user = u, !.email = None])
        PROVE  Good
    BY <2>6, <1>0, <2>2, <2>4, Ordinary, Parts
  <2>7. ASSUME NEW p \in {"oauth active", "oauth pending"}, Goto(r, p, start)
        PROVE  Good
    <3> HIDE DEF start
    <3> QED
      BY <2>7, <1>0, <2>1, <2>4, Ordinary, Parts
  <2>8. \/ SignIn(r, google[g])
        \/ \E u \in Users, p \in {"link", "link blocked"} :
              Goto(r, p, [start EXCEPT !.user = u, !.email = None])
        \/ \E p \in {"oauth active", "oauth pending"} : Goto(r, p, start)
    BY <1>1 DEF oauth_callback, Start, find_by_email
  <2> QED
    BY <2>5, <2>6, <2>7, <2>8
<1>2. ASSUME CreateOAuth(r) PROVE Good
  <2>0. req[r] \in Request /\ req[r].email \in Emails /\ Carries(pc[r], req[r])
    BY <1>2 DEF CreateOAuth, Carried, Carries, TypeOK
  <2>1. CASE find_by_email(req[r].email) = {}
    <3>1. PICK u \in Users, st \in {"ACTIVE", "PENDING"} :
             /\ InsertUser(u, req[r].email, st, None)
             /\ Goto(r, "link new", [req[r] EXCEPT !.user = u, !.email = None])
      BY <1>2, <2>1 DEF CreateOAuth
    <3>2. TablesOK' /\ TokensOK'
      BY <2>0, <3>1, Unchanged
      DEF InsertUser, TablesOK, UserRow, AccountState, TokensOK, tokens, locks
    <3>3. LET rec == [req[r] EXCEPT !.user = u, !.email = None] IN
             rec \in Request /\ Carries("link new", rec)
      BY <1>2, <2>0 DEF CreateOAuth, Request, Carries, Spends
    <3> QED
      BY <3>1, <3>2, <3>3, <1>0, Ordinary, Parts
  <2>2. CASE find_by_email(req[r].email) # {}
    BY <1>2, <2>2, Returns, Parts, Unchanged DEF CreateOAuth
  <2> QED
    BY <2>1, <2>2
<1>3. ASSUME link_identity(r) PROVE Good
  <2>1. req[r].user \in Users /\ req[r].subject \in Subjects
    BY <1>3 DEF link_identity, Carried, Carries
  <2>2. TablesOK' /\ TokensOK'
    BY <1>3, <2>1, Unchanged DEF link_identity, TablesOK, TokensOK, tokens, locks
  <2>3. \/ ContinueFor(r, "session") \/ ContinueFor(r, "reread") \/ Return(r)
    BY <1>3 DEF link_identity
  <2> QED
    BY <2>1, <2>2, <2>3, Returns, ContinuesFor, Parts
<1>4. ASSUME SignInNew(r) PROVE Good
  <2>1. req[r] \in Request /\ Carries("session", req[r])
    BY <1>4 DEF SignInNew, Carried, Carries, Spends, TypeOK
  <2>2. Goto(r, "session", req[r]) \/ Return(r)
    BY <1>4 DEF SignInNew, Continue
  <2> QED
    BY <1>4, <2>1, <2>2, <1>0, Returns, Ordinary, Parts, Unchanged DEF SignInNew
<1> QED
  BY <1>1, <1>2, <1>3, <1>4

LEMMA SessionsGood ==
    ASSUME TypeOK, Carried, NEW r \in Requests
    PROVE  /\ \A s \in Sessions : resolve_session(r, s) => Good
           /\ CreateSession(r) => Good
           /\ logout(r) => Good
           /\ revoke_all_for_user_except(r) => Good
           /\ change_password(r) => Good
<1>1. ASSUME NEW s \in Sessions, resolve_session(r, s) PROVE Good
  <2> DEFINE rec == [NoRequest EXCEPT !.user = sess[s], !.session = s]
  <2>1. PICK p \in {"admin", "user"} : Goto(r, p, rec)
    BY <1>1 DEF resolve_session, Start
  <2>2. rec \in Request /\ Carries(p, rec)
    BY <1>1 DEF resolve_session, TypeOK, NoRequest, Request, Carries, Spends
  <2>3. p \in Points /\ ~Spends(p) /\ p \notin Committing
    BY DEF Points, Spends, Committing
  <2> HIDE DEF rec
  <2> QED
    BY <1>1, <2>1, <2>2, <2>3, Ordinary, Parts, Unchanged DEF resolve_session
<1>2. ASSUME CreateSession(r) PROVE Good
  <2>1. req[r].user \in Users
    BY <1>2 DEF CreateSession, Carried, Carries
  <2>2. TablesOK' /\ TokensOK'
    BY <1>2, <2>1, Unchanged DEF CreateSession, TablesOK, TokensOK, tokens, locks
  <2> QED
    BY <1>2, <2>2, Returns, Parts DEF CreateSession
<1>3. ASSUME logout(r) PROVE Good
  <2>1. TablesOK' /\ TokensOK'
    BY <1>3, Unchanged DEF logout, TablesOK, TokensOK, tokens, locks
  <2> QED
    BY <1>3, <2>1, Returns, Parts DEF logout
<1>4. ASSUME revoke_all_for_user_except(r) PROVE Good
  <2>1. TablesOK' /\ TokensOK'
    BY <1>4, Unchanged DEF revoke_all_for_user_except, TablesOK, TokensOK, tokens, locks
  <2> QED
    BY <1>4, <2>1, Returns, Parts DEF revoke_all_for_user_except
<1>5. ASSUME change_password(r) PROVE Good
  <2>1. req[r] \in Request /\ Carries("sign out", req[r])
    BY <1>5 DEF change_password, Authenticated, Carried, Carries, Spends, TypeOK
  <2>2. "sign out" \in Points /\ ~Spends("sign out") /\ "sign out" \notin Committing
    BY DEF Points, Spends, Committing
  <2> QED
    BY <1>5, <2>1, <2>2, Ordinary, Parts, Unchanged DEF change_password, Continue
<1> QED
  BY <1>1, <1>2, <1>3, <1>4, <1>5

\* Issuing a token and acting on one that was spent.
LEMMA TokensGood ==
    ASSUME TypeOK, Carried, NEW r \in Requests
    PROVE  /\ issue_verification(r) => Good
           /\ issue_reset(r) => Good
           /\ verify_email(r) => Good
           /\ confirm_email(r) => Good
<1>1. ASSUME issue_verification(r) PROVE Good
  <2>1. req[r].user \in Users /\ req[r].email \in Emails
    BY <1>1 DEF issue_verification, Carried, Carries
  <2>2. TablesOK' /\ TokensOK'
    BY <1>1, <2>1, Unchanged DEF issue_verification, TokensOK, Verification
  <2> QED
    BY <1>1, <2>2, Returns, Parts DEF issue_verification
<1>2. ASSUME issue_reset(r) PROVE Good
  <2>1. req[r].user \in Users
    BY <1>2 DEF issue_reset, Carried, Carries
  <2>2. TablesOK' /\ TokensOK'
    BY <1>2, <2>1, Unchanged DEF issue_reset, TokensOK
  <2> QED
    BY <1>2, <2>2, Returns, Parts DEF issue_reset
<1>3. ASSUME verify_email(r) PROVE Good
  <2>1. ASSUME NEW p \in {"confirm", "confirm change"}, Goto(r, p, req[r]) PROVE Good
    <3>1. p \in Points /\ req[r] \in Request /\ Carries(p, req[r])
      BY <1>3 DEF verify_email, Carried, Carries, Spends, TypeOK, Points
    <3>2. Unremarkable(r, p, req[r])
      BY <1>3 DEF verify_email, Unremarkable, Spends, Committing
    <3> QED
      BY <1>3, <2>1, <3>1, <3>2, Moves, Parts, Unchanged DEF verify_email
  <2>2. CASE Return(r)
    BY <1>3, <2>2, Returns, Parts, Unchanged DEF verify_email
  <2> QED
    BY <1>3, <2>1, <2>2 DEF verify_email, Continue
<1>4. ASSUME confirm_email(r) PROVE Good
  <2>1. req[r].user \in Users /\ req[r].email \in Emails
    BY <1>4 DEF confirm_email, Carried, Carries
  <2>2. MoveIdentity(req[r].user, req[r].email) \in [Emails -> Users \cup {None}]
    BY <2>1 DEF MoveIdentity, TypeOK
  <2>3. [state |-> "ACTIVE", email |-> req[r].email] \in UserRow
    BY <2>1 DEF UserRow, AccountState
  <2>4. users' \in [Users -> UserRow] /\ pw' \in [Emails -> Users \cup {None}]
    BY <1>4, <2>2, <2>3 DEF confirm_email, TypeOK
  <2>5. TablesOK' /\ TokensOK'
    BY <1>4, <2>4, Unchanged DEF confirm_email, TablesOK, TokensOK, tokens, locks
  <2>6. ContinueFor(r, "sign out") \/ Return(r)
    BY <1>4 DEF confirm_email
  <2> QED
    BY <2>1, <2>5, <2>6, Returns, ContinuesFor, Parts
<1> QED
  BY <1>1, <1>2, <1>3, <1>4

\* Spending a token: the request that does is the only one that moves.
Takes(r, t) ==
    /\ TypeOK' /\ Carried'
    /\ Spends(pc'[r]) /\ req'[r].token = t
    /\ \A q \in Requests \ {r} : pc'[q] = pc[q] /\ req'[q] = req[q]

LEMMA SpendingTakes ==
    ASSUME TypeOK, Carried, NEW r \in Requests, NEW t \in Tokens,
           consume_verification(r, t) \/ consume_reset(r, t)
    PROVE  Takes(r, t)
<1>1. CASE consume_verification(r, t)
  <2> DEFINE rec == [NoRequest EXCEPT !.token = t, !.user = verifs[t].user,
                                      !.email = verifs[t].email]
  <2>1. verifs[t] \in Verification
    BY <1>1 DEF consume_verification, TypeOK
  <2>2. rec \in Request /\ rec.token = t /\ Carries("find", rec)
    BY <2>1 DEF Verification, NoRequest, Request, Carries, Spends
  <2>3. "find" \in Points /\ Spends("find") /\ Goto(r, "find", rec)
    BY <1>1 DEF consume_verification, Start, Points, Spends
  <2>4. TablesOK' /\ TokensOK'
    BY <1>1, Unchanged DEF consume_verification, TokensOK
  <2> HIDE DEF rec
  <2> QED
    BY <2>2, <2>3, <2>4, Moves DEF Takes, TypeOK, TablesOK, TokensOK
<1>2. CASE consume_reset(r, t)
  <2> DEFINE rec == [NoRequest EXCEPT !.token = t, !.user = resets[t]]
  <2>1. resets[t] \in Users
    BY <1>2 DEF consume_reset, TypeOK
  <2>2. rec \in Request /\ rec.token = t /\ Carries("reset", rec)
    BY <2>1 DEF NoRequest, Request, Carries, Spends
  <2>3. "reset" \in Points /\ Spends("reset") /\ Goto(r, "reset", rec)
    BY <1>2 DEF consume_reset, Start, Points, Spends
  <2>4. TablesOK' /\ TokensOK'
    BY <1>2, Unchanged DEF consume_reset, TokensOK
  <2> HIDE DEF rec
  <2> QED
    BY <2>2, <2>3, <2>4, Moves DEF Takes, TypeOK, TablesOK, TokensOK
<1> QED
  BY <1>1, <1>2

\* Roles, suspension, and the beginning of an erasure.
LEMMA RolesGood ==
    ASSUME TypeOK, Carried, NEW r \in Requests
    PROVE  /\ \A u \in Users : /\ grant_role(r, u) => Good
                               /\ suspend_user(r, u) => Good
                               /\ restore_user(r, u) => Good
                               /\ anonymize_inactive_accounts(r, u) => Good
           /\ \A u \in Users \cup {None} : revoke_role(r, u) => Good
           /\ request_deletion(r) => Good
           /\ last_admin_locked(r) => Good
<1> DEFINE Pts == {"sign out", "candidate", "revoke", "revoke other", "scrub inactive"}
<1>0. Pts \subseteq Points /\ \A p \in Pts : ~Spends(p) /\ p \notin Committing
  BY DEF Points, Spends, Committing
<1>1. \A u \in Users : \A p \in Pts : Carries(p, [NoRequest EXCEPT !.user = u])
  BY DEF Carries, Spends, NoRequest
<1>2. ASSUME NEW u \in Users, grant_role(r, u) PROVE Good
  <2>1. TablesOK' /\ TokensOK'
    BY <1>2, Unchanged DEF grant_role, TablesOK, TokensOK, tokens, locks
  <2> QED
    BY <1>2, <2>1, Returns, Parts DEF grant_role
<1>3. ASSUME NEW u \in Users, NEW st \in {"SUSPENDED", "ACTIVE"}, set_state(u, st)
      PROVE  users' \in [Users -> UserRow]
  <2>1. users[u] \in UserRow
    BY DEF TypeOK
  <2>2. [users[u] EXCEPT !.state = st] \in UserRow
    BY <2>1 DEF UserRow, AccountState
  <2> QED
    BY <1>3, <2>2 DEF set_state, TypeOK
<1>4. ASSUME NEW u \in Users, suspend_user(r, u) PROVE Good
  <2>1. TablesOK' /\ TokensOK'
    BY <1>3, <1>4, Unchanged DEF suspend_user, TablesOK, TokensOK, tokens, locks
  <2> QED
    BY <1>4, <2>1, <1>0, <1>1, Records, Ordinary, Parts DEF suspend_user
<1>5. ASSUME NEW u \in Users, restore_user(r, u) PROVE Good
  <2>1. TablesOK' /\ TokensOK'
    BY <1>3, <1>5, Unchanged DEF restore_user, TablesOK, TokensOK, tokens, locks
  <2> QED
    BY <1>5, <2>1, Returns, Parts DEF restore_user
<1>6. ASSUME NEW u \in Users, anonymize_inactive_accounts(r, u) PROVE Good
  BY <1>6, <1>0, <1>1, Records, Ordinary, Parts, Unchanged
  DEF anonymize_inactive_accounts, Start
<1>7. ASSUME LockAdmins(r), UNCHANGED <<users, pw, google, admins, lock, sess, tokens>>
      PROVE  TablesOK' /\ TokensOK'
  BY <1>7, Unchanged DEF LockAdmins, TablesOK, TokensOK, tokens
<1>8. ASSUME NEW u \in Users \cup {None}, revoke_role(r, u) PROVE Good
  <2>1. TablesOK' /\ TokensOK'
    BY <1>7, <1>8 DEF revoke_role
  <2>2. CASE u = None
    <3>1. Carries("revoke other", [NoRequest EXCEPT !.user = u])
      BY DEF Carries, Spends, NoRequest
    <3>2. Goto(r, "revoke other", [NoRequest EXCEPT !.user = u])
      BY <1>8, <2>2 DEF revoke_role
    <3> QED
      BY <2>1, <3>1, <3>2, <1>0, Records, Ordinary, Parts
  <2>3. CASE u # None
    <3>1. u \in Users /\ Goto(r, "revoke", [NoRequest EXCEPT !.user = u])
      BY <1>8, <2>3 DEF revoke_role
    <3> QED
      BY <2>1, <3>1, <1>0, <1>1, Records, Ordinary, Parts
  <2> QED
    BY <2>2, <2>3
<1>9. ASSUME request_deletion(r) PROVE Good
  <2>1. req[r].user \in Users
    BY <1>9 DEF request_deletion, Authenticated, Carried, Carries
  <2> QED
    BY <1>7, <1>9, <2>1, ContinuesFor, Parts DEF request_deletion
<1>10. ASSUME last_admin_locked(r) PROVE Good
  <2>1. req[r] \in Request /\ Carries("scrub inactive", req[r])
    BY <1>10 DEF last_admin_locked, Carried, Carries, Spends, TypeOK
  <2> QED
    BY <1>7, <1>10, <2>1, <1>0, Ordinary, Parts DEF last_admin_locked, Continue
<1> QED
  BY <1>2, <1>4, <1>5, <1>6, <1>8, <1>9, <1>10

\* The rows of an account go, with or without the request that erases it.
LEMMA DropRowsTypes ==
    ASSUME TypeOK, NEW u, DropRowsOf(u)
    PROVE  /\ pw' \in [Emails -> Users \cup {None}]
           /\ google' \in [Subjects -> Users \cup {None}]
           /\ admins' \in SUBSET Users
           /\ sess' \in [Sessions -> Users \cup {None}]
           /\ TokensOK'
BY DEF DropRowsOf, TypeOK, TokensOK

LEMMA Lockings ==
    ASSUME TypeOK, NEW r \in Requests, NEW u
    PROVE  /\ Unlocked(r) \in [Users -> Requests \cup {None}]
           /\ Rescan(u) \in [Requests -> SUBSET Users]
           /\ EndScan(r, scan) => scan' \in [Requests -> SUBSET Users]
           /\ EndScan(r, Rescan(u)) => scan' \in [Requests -> SUBSET Users]
BY DEF TypeOK, Unlocked, Rescan, EndScan

LEMMA ErasureGood ==
    ASSUME TypeOK, Carried, NEW r \in Requests
    PROVE  /\ \A u \in Users : LockAdminRow(r, u) => Good
           /\ revoke_role_guarded(r) => Good
           /\ anonymize(r) => Good
           /\ Drop(r) => Good
<1>1. ASSUME NEW u \in Users, LockAdminRow(r, u) PROVE Good
  <2>1. TablesOK' /\ TokensOK'
    BY <1>1, Unchanged DEF LockAdminRow, TablesOK, TokensOK, tokens
  <2>2. Quiet /\ Carried' /\ pc' \in [Requests -> Points] /\ req' \in [Requests -> Request]
    BY <1>1 DEF LockAdminRow, Quiet, Carried, Carries, Spends, TypeOK
  <2> QED
    BY <2>1, <2>2, Parts
<1>2. ASSUME revoke_role_guarded(r) PROVE Good
  <2>1. /\ admins' \in SUBSET Users /\ scan' \in [Requests -> SUBSET Users]
        /\ lock' \in [Users -> Requests \cup {None}]
    BY <1>2, Lockings DEF revoke_role_guarded, TypeOK
  <2>2. TablesOK' /\ TokensOK'
    BY <1>2, <2>1, Unchanged DEF revoke_role_guarded, TablesOK, TokensOK, tokens
  <2> QED
    BY <1>2, <2>2, Returns, Parts DEF revoke_role_guarded
<1>3. ASSUME anonymize(r) PROVE Good
  <2>1. [state |-> "DELETED", email |-> None] \in UserRow
    BY DEF UserRow, AccountState
  <2>2. users' \in [Users -> UserRow]
    BY <1>3, <2>1 DEF anonymize, TypeOK
  <2>3. scan' \in [Requests -> SUBSET Users] /\ lock' \in [Users -> Requests \cup {None}]
    BY <1>3, Lockings DEF anonymize
  <2>4. TablesOK' /\ TokensOK'
    BY <1>3, <2>2, <2>3, DropRowsTypes DEF anonymize, TablesOK
  <2>5. req[r] \in Request /\ Carries("sign out", req[r])
    BY <1>3 DEF anonymize, Carried, Carries, Spends, TypeOK
  <2>6. "sign out" \in Points /\ ~Spends("sign out") /\ "sign out" \notin Committing
    BY DEF Points, Spends, Committing
  <2>7. Goto(r, "sign out", req[r]) \/ Return(r)
    BY <1>3 DEF anonymize, Continue
  <2> QED
    BY <2>4, <2>5, <2>6, <2>7, Ordinary, Returns, Parts
<1>4. ASSUME Drop(r) PROVE Good
  <2>1. scan' \in [Requests -> SUBSET Users] /\ lock' \in [Users -> Requests \cup {None}]
    BY <1>4, Lockings DEF Drop, EndScan
  <2>2. TablesOK' /\ TokensOK'
    BY <1>4, <2>1, Unchanged DEF Drop, TablesOK, TokensOK, tokens
  <2> QED
    BY <1>4, <2>2, Returns, Parts DEF Drop
<1> QED
  BY <1>1, <1>2, <1>3, <1>4

\* Passing the guard, or being refused by it.
LEMMA GuardTyped ==
    ASSUME TypeOK, Carried, NEW r \in Requests, GuardLastAdmin(r)
    PROVE  /\ TypeOK' /\ Carried'
           /\ \A q \in Requests : Spends(pc'[q]) => Spends(pc[q]) /\ req'[q].token = req[q].token
           /\ \A q \in Requests \ {r} : pc'[q] = pc[q] /\ req'[q] = req[q]
           /\ \/ pc'[r] = "idle"
              \/ /\ pc'[r] \in Committing /\ req'[r] = req[r] /\ UNCHANGED locks
                 /\ AllLocked(r) /\ ~LastAdmin(r, req[r].user)
<1>1. PICK p \in Committing : /\ Guard(r, p)
                              /\ pc[r] \in {"revoke", "scrub", "scrub inactive"}
  BY DEF GuardLastAdmin, Committing
<1>2. UNCHANGED <<users, pw, google, admins, sess, tokens>>
  BY <1>1 DEF Guard
<1>3. CASE Return(r) /\ lock' = Unlocked(r) /\ EndScan(r, scan)
  <2>1. TypeOK'
    BY <1>2, <1>3, Returns, Lockings DEF TypeOK, tokens
  <2> QED
    BY <1>3, <2>1, Returns DEF Quiet
<1>4. CASE Continue(r, p) /\ UNCHANGED locks /\ ~LastAdmin(r, req[r].user)
  <2>1. p \in Points /\ ~Spends(p) /\ req[r] \in Request /\ Carries(p, req[r])
    BY <1>1 DEF Committing, Points, Spends, Carried, Carries, TypeOK
  <2>2. Goto(r, p, req[r])
    BY <1>4 DEF Continue
  <2>3. /\ pc' \in [Requests -> Points] /\ req' \in [Requests -> Request] /\ Carried'
        /\ pc'[r] = p /\ req'[r] = req[r]
        /\ \A q \in Requests \ {r} : pc'[q] = pc[q] /\ req'[q] = req[q]
    BY <2>1, <2>2, Moves
  <2>4. TypeOK'
    BY <1>2, <1>4, <2>3 DEF TypeOK, tokens, locks
  <2> QED
    BY <1>1, <1>4, <2>1, <2>3, <2>4 DEF Guard
<1> QED
  BY <1>1, <1>3, <1>4 DEF Guard

\* What happens without a request.
LEMMA TimeGood ==
    ASSUME TypeOK, Carried
    PROVE  /\ \A u \in Users : purge_deleted_accounts(u) => Good
           /\ \A s \in Sessions : ExpireSession(s) => Good
           /\ \A t \in Tokens : ExpireToken(t) => Good
           /\ UNCHANGED vars => Good
<1>1. ASSUME UNCHANGED <<pc, req>>
      PROVE  Quiet /\ Carried' /\ pc' \in [Requests -> Points] /\ req' \in [Requests -> Request]
  BY <1>1 DEF Quiet, Carried, Carries, Spends, TypeOK
<1>2. ASSUME NEW u \in Users, purge_deleted_accounts(u) PROVE Good
  <2>1. [users[u] EXCEPT !.state = "PURGED"] \in UserRow
    BY DEF TypeOK, UserRow
  <2>2. users' \in [Users -> UserRow]
    BY <1>2, <2>1 DEF purge_deleted_accounts, TypeOK
  <2>3. scan' \in [Requests -> SUBSET Users]
    BY <1>2 DEF purge_deleted_accounts, Rescan, TypeOK
  <2>4. TablesOK' /\ TokensOK'
    BY <1>2, <2>2, <2>3, DropRowsTypes, Unchanged DEF purge_deleted_accounts, TablesOK
  <2> QED
    BY <1>1, <1>2, <2>4, Parts DEF purge_deleted_accounts
<1>3. ASSUME NEW s \in Sessions, ExpireSession(s) PROVE Good
  <2>1. TablesOK' /\ TokensOK'
    BY <1>3, Unchanged DEF ExpireSession, TablesOK, TokensOK, tokens, locks
  <2> QED
    BY <1>1, <1>3, <2>1, Parts DEF ExpireSession
<1>4. ASSUME NEW t \in Tokens, ExpireToken(t) PROVE Good
  <2>1. TablesOK' /\ TokensOK'
    BY <1>4, Unchanged DEF ExpireToken, TokensOK
  <2> QED
    BY <1>1, <1>4, <2>1, Parts DEF ExpireToken
<1>5. ASSUME UNCHANGED vars PROVE Good
  BY <1>1, <1>5, Parts, Unchanged DEF vars
<1> QED
  BY <1>2, <1>3, <1>4, <1>5

-----------------------------------------------------------------------------
\* Every step keeps the types, and either it is quiet, or somebody spends a token, or
\* somebody passes a guard.
LEMMA Steps ==
    ASSUME TypeOK, Carried, [Next]_vars
    PROVE  /\ TypeOK' /\ Carried'
           /\ \/ Quiet
              \/ \E r \in Requests, t \in Tokens :
                    Takes(r, t) /\ (consume_verification(r, t) \/ consume_reset(r, t))
              \/ \E r \in Requests : GuardLastAdmin(r)
<1>1. CASE UNCHANGED vars \/ (\E u \in Users : purge_deleted_accounts(u))
           \/ (\E s \in Sessions : ExpireSession(s)) \/ (\E t \in Tokens : ExpireToken(t))
  BY <1>1, TimeGood DEF Good
<1>2. ASSUME NEW r \in Requests, Drop(r) PROVE Good
  BY <1>2, ErasureGood
<1>3. ASSUME NEW r \in Requests, Proceed(r) PROVE Good \/ GuardLastAdmin(r)
  BY <1>3, TokensGood, OAuthGood, SessionsGood, ErasureGood, RolesGood DEF Proceed
<1>4. ASSUME NEW r \in Requests, Call(r)
      PROVE  Good \/ \E t \in Tokens : consume_verification(r, t) \/ consume_reset(r, t)
  BY <1>4, SignUpGood, OAuthGood, SessionsGood, RolesGood DEF Call
<1>5. \/ \E r \in Requests : Drop(r) \/ Proceed(r) \/ Call(r)
      \/ UNCHANGED vars \/ (\E u \in Users : purge_deleted_accounts(u))
      \/ (\E s \in Sessions : ExpireSession(s)) \/ (\E t \in Tokens : ExpireToken(t))
  BY DEF Next
<1>6. ASSUME NEW r \in Requests, Call(r)
      PROVE  \/ Good
             \/ \E t \in Tokens : /\ Takes(r, t)
                                  /\ consume_verification(r, t) \/ consume_reset(r, t)
  BY <1>4, <1>6, SpendingTakes
<1>7. CASE \E r \in Requests : Call(r)
  <2>1. PICK r \in Requests : Call(r)
    BY <1>7
  <2>2. CASE Good
    BY <2>2 DEF Good
  <2>3. CASE \E t \in Tokens : Takes(r, t) /\ (consume_verification(r, t) \/ consume_reset(r, t))
    BY <2>3 DEF Takes
  <2> QED
    BY <1>6, <2>1, <2>2, <2>3
<1>8. CASE \E r \in Requests : Proceed(r)
  BY <1>3, <1>8, GuardTyped DEF Good
<1>9. CASE \E r \in Requests : Drop(r)
  BY <1>2, <1>9 DEF Good
<1> QED
  BY <1>1, <1>5, <1>7, <1>8, <1>9, Zenon

\* Which steps touch an account, its password identity or its address.
LEMMA KeySteps ==
    ASSUME [Next]_vars
    PROVE  \/ UNCHANGED <<users, pw>>
           \/ \E r \in Requests :
                 \/ \E e \in Emails : register(r, e)
                 \/ CreateOAuth(r) \/ confirm_email(r) \/ anonymize(r)
                 \/ \E u \in Users : suspend_user(r, u) \/ restore_user(r, u)
           \/ \E u \in Users : purge_deleted_accounts(u)
<1>1. ASSUME NEW r \in Requests, Call(r)
      PROVE  \/ UNCHANGED <<users, pw>>
             \/ \E e \in Emails : register(r, e)
             \/ \E u \in Users : suspend_user(r, u) \/ restore_user(r, u)
  BY <1>1 DEF Call, tables, resend_verification, login, request_password_reset, change_email,
     oauth_callback, consume_verification, consume_reset, resolve_session, grant_role,
     revoke_role, anonymize_inactive_accounts, logout, change_password, request_deletion
<1>2. ASSUME NEW r \in Requests, Proceed(r)
      PROVE  UNCHANGED <<users, pw>> \/ CreateOAuth(r) \/ confirm_email(r) \/ anonymize(r)
  BY <1>2 DEF Proceed, tables, issue_verification, verify_email, SignInNew, CreateSession,
     link_identity, revoke_all_for_user_except, issue_reset, GuardLastAdmin, Guard,
     revoke_role_guarded, last_admin_locked, LockAdminRow
<1> QED
  BY <1>1, <1>2 DEF Next, Drop, ExpireSession, ExpireToken, vars, tables

\* The login key follows the address.
LEMMA LoginKeyStep ==
    ASSUME TypeOK, Carried, Blank, OneLoginKey, [Next]_vars
    PROVE  Blank' /\ OneLoginKey'
<1>1. CASE UNCHANGED <<users, pw>>
  BY <1>1 DEF Blank, OneLoginKey
<1>2. ASSUME NEW u \in Users, NEW e \in Emails, NEW st \in {"ACTIVE", "PENDING"},
             NEW o \in {u, None}, InsertUser(u, e, st, o)
      PROVE  Blank' /\ OneLoginKey'
  <2>1. \A x \in Emails : pw[x] # u
    BY <1>2, DistinctAssumption DEF InsertUser, Blank, OneLoginKey
  <2>2. /\ users'[u] = [state |-> st, email |-> e]
        /\ \A v \in Users \ {u} : users'[v] = users[v]
        /\ \A x \in Emails : pw'[x] = pw[x] \/ (x = e /\ pw'[x] = u)
    BY <1>2 DEF InsertUser, TypeOK
  <2>3. Blank'
    BY <2>2 DEF Blank
  <2>4. \A x \in Emails : pw'[x] # None => users'[pw'[x]].email = x
    BY <2>1, <2>2 DEF OneLoginKey, TypeOK
  <2> QED
    BY <2>3, <2>4 DEF OneLoginKey
<1>3. ASSUME NEW r \in Requests, NEW e \in Emails, register(r, e) PROVE Blank' /\ OneLoginKey'
  BY <1>2, <1>3 DEF register
<1>4. ASSUME NEW r \in Requests, CreateOAuth(r) PROVE Blank' /\ OneLoginKey'
  <2>1. req[r].email \in Emails
    BY <1>4 DEF CreateOAuth, Carried, Carries
  <2>2. \/ UNCHANGED <<users, pw>>
        \/ \E u \in Users, st \in {"ACTIVE", "PENDING"} : InsertUser(u, req[r].email, st, None)
    BY <1>4 DEF CreateOAuth, tables
  <2> QED
    BY <1>1, <1>2, <2>1, <2>2
<1>5. ASSUME NEW r \in Requests, confirm_email(r) PROVE Blank' /\ OneLoginKey'
  <2> DEFINE u == req[r].user
             e == req[r].email
  <2>0. u \in Users /\ e \in Emails
    BY <1>5 DEF confirm_email, Carried, Carries
  <2>1. \/ UNCHANGED <<users, pw>>
        \/ /\ pw[e] \in {u, None}
           /\ users' = [users EXCEPT ![u] = [state |-> "ACTIVE", email |-> e]]
           /\ pw' = MoveIdentity(u, e)
    BY <1>5 DEF confirm_email
  <2>2. ASSUME pw[e] \in {u, None},
               users' = [users EXCEPT ![u] = [state |-> "ACTIVE", email |-> e]],
               pw' = MoveIdentity(u, e)
        PROVE  Blank' /\ OneLoginKey'
    <3> HIDE DEF u, e
    <3>1. /\ users'[u] = [state |-> "ACTIVE", email |-> e]
          /\ \A v \in Users \ {u} : users'[v] = users[v]
      BY <2>0, <2>2 DEF TypeOK
    <3>2. \A x \in Emails : \/ pw'[x] = None
                            \/ x = e /\ pw'[x] = u
                            \/ pw'[x] = pw[x] /\ pw[x] # u
      BY <2>0, <2>2 DEF MoveIdentity
    <3>3. Blank'
      BY <3>1 DEF Blank
    <3>4. \A x \in Emails : pw'[x] # None => users'[pw'[x]].email = x
      BY <3>1, <3>2 DEF OneLoginKey, TypeOK
    <3> QED
      BY <3>3, <3>4 DEF OneLoginKey
  <2> QED
    BY <1>1, <2>1, <2>2
<1>6. ASSUME NEW u \in Users, \A x \in Emails : pw'[x] \in {pw[x], None} /\ pw'[x] # u,
             \A v \in Users \ {u} : users'[v] = users[v], users'[u].state # "NONE",
             None \notin Users
      PROVE  Blank' /\ OneLoginKey'
  <2>1. Blank'
    BY <1>6 DEF Blank
  <2>2. \A x \in Emails : pw'[x] # None => users'[pw'[x]].email = x
    BY <1>6 DEF OneLoginKey, TypeOK
  <2> QED
    BY <2>1, <2>2 DEF OneLoginKey
<1>7. ASSUME NEW u \in Users, DropRowsOf(u)
      PROVE  \A x \in Emails : pw'[x] \in {pw[x], None} /\ pw'[x] # u
  BY <1>7, DistinctAssumption DEF DropRowsOf
<1>8. ASSUME NEW r \in Requests, anonymize(r) PROVE Blank' /\ OneLoginKey'
  <2> DEFINE u == req[r].user
  <2>0. u \in Users
    BY <1>8 DEF anonymize, Carried, Carries
  <2>1. CASE Exists(u)
    BY <1>6, <1>7, <1>8, <2>0, <2>1, DistinctAssumption DEF anonymize, TypeOK
  <2>2. CASE ~Exists(u)
    <3>1. users' = users
      BY <1>8, <2>2 DEF anonymize
    <3>2. \A x \in Emails : pw'[x] \in {pw[x], None}
      BY <1>7, <1>8, <2>0 DEF anonymize
    <3> QED
      BY <3>1, <3>2 DEF Blank, OneLoginKey
  <2> QED
    BY <2>1, <2>2
<1>9. ASSUME NEW u \in Users, purge_deleted_accounts(u) PROVE Blank' /\ OneLoginKey'
  <2>1. users'[u].state = "PURGED" /\ \A v \in Users \ {u} : users'[v] = users[v]
    BY <1>9 DEF purge_deleted_accounts, TypeOK, UserRow
  <2> QED
    BY <1>6, <1>7, <1>9, <2>1, DistinctAssumption DEF purge_deleted_accounts
<1>10. ASSUME NEW r \in Requests, NEW u \in Users, suspend_user(r, u) \/ restore_user(r, u)
       PROVE  Blank' /\ OneLoginKey'
  <2>1. /\ pw' = pw
        /\ \A v \in Users : /\ users'[v].email = users[v].email
                            /\ users'[v].state = "NONE" => users[v].state = "NONE"
    <3>1. PICK st \in {"SUSPENDED", "ACTIVE"} : set_state(u, st) /\ pw' = pw
      BY <1>10 DEF suspend_user, restore_user
    <3>2. users[u] \in UserRow
      BY DEF TypeOK
    <3>3. [users[u] EXCEPT !.state = st].email = users[u].email
      BY <3>2 DEF UserRow
    <3>4. [users[u] EXCEPT !.state = st].state = st
      BY <3>2 DEF UserRow
    <3>5. users' = users \/ users' = [users EXCEPT ![u] = [users[u] EXCEPT !.state = st]]
      BY <3>1 DEF set_state
    <3> QED
      BY <3>1, <3>3, <3>4, <3>5 DEF TypeOK
  <2> QED
    BY <2>1 DEF Blank, OneLoginKey, TypeOK
<1> QED
  BY <1>1, <1>3, <1>4, <1>5, <1>8, <1>9, <1>10, KeySteps

\* Tokens are spent, dropped, or issued for nobody who carries one.
Shrinks == \A t \in Tokens : /\ verifs'[t] \in {verifs[t], NoVerification}
                             /\ resets'[t] \in {resets[t], None}

Issues == \E t \in Tokens :
             /\ Fresh(t)
             /\ verifs'[t] = NoVerification \/ resets'[t] = None
             /\ \A x \in Tokens \ {t} : verifs'[x] = verifs[x] /\ resets'[x] = resets[x]

LEMMA TokenSteps ==
    ASSUME TypeOK, [Next]_vars
    PROVE  Shrinks \/ Issues
<1>1. UNCHANGED tokens => Shrinks
  BY DEF tokens, Shrinks
<1>2. ASSUME NEW r \in Requests, Call(r) PROVE Shrinks
  <2>1. \/ UNCHANGED tokens
        \/ \E t \in Tokens : consume_verification(r, t) \/ consume_reset(r, t)
    BY <1>2 DEF Call, register, InsertUser, resend_verification, login, request_password_reset,
       change_email, oauth_callback, resolve_session, grant_role, revoke_role, suspend_user,
       restore_user, anonymize_inactive_accounts, logout, change_password, request_deletion
  <2>2. ASSUME NEW t \in Tokens, consume_verification(r, t) \/ consume_reset(r, t) PROVE Shrinks
    BY <2>2 DEF consume_verification, consume_reset, Shrinks, TypeOK
  <2> QED
    BY <1>1, <2>1, <2>2
<1>3. ASSUME NEW u, DropRowsOf(u) PROVE Shrinks
  BY <1>3 DEF DropRowsOf, Shrinks
<1>4. ASSUME NEW r \in Requests, Proceed(r) PROVE Shrinks \/ Issues
  <2>1. \/ UNCHANGED tokens \/ issue_verification(r) \/ issue_reset(r) \/ anonymize(r)
    BY <1>4 DEF Proceed, verify_email, confirm_email, SignInNew, CreateSession, CreateOAuth,
       InsertUser, link_identity, revoke_all_for_user_except, GuardLastAdmin, Guard,
       revoke_role_guarded, last_admin_locked, LockAdminRow
  <2>2. CASE issue_verification(r)
    BY <2>2 DEF issue_verification, Issues, Fresh, TypeOK
  <2>3. CASE issue_reset(r)
    BY <2>3 DEF issue_reset, Issues, Fresh, TypeOK
  <2>4. CASE anonymize(r)
    BY <1>3, <2>4 DEF anonymize
  <2> QED
    BY <1>1, <2>1, <2>2, <2>3, <2>4
<1>5. ASSUME NEW u \in Users, purge_deleted_accounts(u) PROVE Shrinks
  BY <1>3, <1>5 DEF purge_deleted_accounts
<1>6. ASSUME NEW t \in Tokens, ExpireToken(t) PROVE Shrinks
  BY <1>6 DEF ExpireToken, Shrinks, TypeOK
<1>7. ASSUME \/ \E r \in Requests : Drop(r)
             \/ \E s \in Sessions : ExpireSession(s)
             \/ UNCHANGED vars
      PROVE  Shrinks
  BY <1>1, <1>7 DEF Drop, ExpireSession, vars
<1> QED
  BY <1>2, <1>4, <1>5, <1>6, <1>7 DEF Next

\* A token takes effect once.
LEMMA TokenStep ==
    ASSUME TypeOK, Carried, OneKind, TokenSpentOnce, [Next]_vars
    PROVE  OneKind' /\ TokenSpentOnce'
<1>0. Carried' /\ None \notin Tokens
  BY Steps, DistinctAssumption
<1>1. OneKind'
  <2>1. CASE Shrinks
    BY <2>1 DEF Shrinks, OneKind
  <2>2. CASE Issues
    BY <2>2 DEF Issues, OneKind
  <2> QED
    BY <2>1, <2>2, TokenSteps
<1>2. \A q \in Requests : /\ Spends(pc[q]) => req[q].token \in Tokens
                          /\ Spends(pc'[q]) => req'[q].token \in Tokens
                          /\ req[q].token \in Tokens => Spends(pc[q])
                          /\ req'[q].token \in Tokens => Spends(pc'[q])
  BY <1>0 DEF Carried, Carries
<1>3. \A q \in Requests : Spending(q) <=> Spends(pc[q])
  BY DEF Spending, Spends
<1>4. ASSUME \A q \in Requests : Spends(pc'[q]) => Spends(pc[q]) /\ req'[q].token = req[q].token
      PROVE  TokenSpentOnce'
  <2> SUFFICES ASSUME NEW r \in Requests, Spends(pc'[r])
               PROVE  /\ verifs'[req'[r].token] = NoVerification /\ resets'[req'[r].token] = None
                      /\ \A q \in Requests \ {r} : req'[q].token # req'[r].token
    BY DEF TokenSpentOnce, Spending, Spends
  <2> DEFINE t == req[r].token
  <2>1. /\ req'[r].token = t /\ t \in Tokens
        /\ verifs[t] = NoVerification /\ resets[t] = None
        /\ \A q \in Requests \ {r} : req[q].token # t
    BY <1>2, <1>3, <1>4 DEF TokenSpentOnce
  <2>2. \A q \in Requests \ {r} : req'[q].token # t
    BY <1>2, <1>4, <2>1
  <2>3. verifs'[t] = NoVerification /\ resets'[t] = None
    <3>1. CASE Shrinks
      BY <2>1, <3>1 DEF Shrinks
    <3>2. CASE Issues
      BY <2>1, <3>2 DEF Issues, Fresh
    <3> QED
      BY <3>1, <3>2, TokenSteps
  <2> QED
    BY <2>1, <2>2, <2>3
<1>5. ASSUME NEW r \in Requests, NEW t \in Tokens, Takes(r, t),
             consume_verification(r, t) \/ consume_reset(r, t)
      PROVE  TokenSpentOnce'
  <2>1. /\ verifs[t] # NoVerification \/ resets[t] # None
        /\ verifs'[t] = NoVerification /\ resets'[t] = None
        /\ \A x \in Tokens : /\ verifs[x] = NoVerification => verifs'[x] = NoVerification
                             /\ resets[x] = None => resets'[x] = None
    BY <1>5 DEF consume_verification, consume_reset, OneKind, TypeOK
  <2>2. \A q \in Requests : req[q].token # t
    BY <1>2, <1>3, <2>1 DEF TokenSpentOnce
  <2> SUFFICES ASSUME NEW q \in Requests, Spends(pc'[q])
               PROVE  /\ verifs'[req'[q].token] = NoVerification /\ resets'[req'[q].token] = None
                      /\ \A p \in Requests \ {q} : req'[p].token # req'[q].token
    BY DEF TokenSpentOnce, Spending, Spends
  <2>3. CASE q = r
    BY <1>5, <2>1, <2>2, <2>3 DEF Takes
  <2>4. CASE q # r
    BY <1>2, <1>3, <1>5, <2>1, <2>2, <2>4 DEF Takes, TokenSpentOnce
  <2> QED
    BY <2>3, <2>4
<1> QED
  BY <1>1, <1>4, <1>5, Steps, GuardTyped DEF Quiet

-----------------------------------------------------------------------------
\* What a step may do to the ADMIN rows, their locks and the scans of them: nothing but
\* grants, a new scan, one more lock, the end of a transaction, or the end of a row.
Grants == admins \subseteq admins' /\ UNCHANGED locks

Scans(r) == /\ LockAdmins(r) /\ UNCHANGED <<admins, lock>>
            /\ pc'[r] \notin Committing

LocksOne(r, u) == /\ u \in scan[r] /\ lock[u] = None
                  /\ lock' = [lock EXCEPT ![u] = r]
                  /\ UNCHANGED <<admins, scan>>

Releases(r) == /\ EndScan(r, scan) /\ lock' = Unlocked(r) /\ UNCHANGED admins
               /\ pc'[r] \notin Committing

Commits(r) == LET u == req[r].user IN
              /\ pc[r] \in Committing /\ u \in Users
              /\ Mine(r, u)
              /\ admins' = admins \ {u} /\ EndScan(r, Rescan(u)) /\ lock' = Unlocked(r)
              /\ pc'[r] \notin Committing
              /\ \A q \in Requests \ {r} : pc'[q] = pc[q]

Purges(u) == /\ lock[u] = None
             /\ admins' = admins \ {u} /\ scan' = Rescan(u)
             /\ UNCHANGED <<lock, pc>>

LEMMA RowSteps ==
    ASSUME TypeOK, Carried, [Next]_vars
    PROVE  \/ Grants
           \/ \E r \in Requests : Scans(r) \/ Releases(r) \/ Commits(r)
           \/ \E r \in Requests, u \in Users : LocksOne(r, u)
           \/ \E u \in Users : Purges(u)
<1>1. UNCHANGED tables => Grants
  BY DEF tables, Grants
<1>2. UNCHANGED <<admins, locks>> => Grants
  BY DEF Grants
<1>3. ASSUME NEW r \in Requests, NEW p, NEW rec, Goto(r, p, rec)
      PROVE  pc'[r] = p /\ \A q \in Requests \ {r} : pc'[q] = pc[q]
  BY <1>3 DEF Goto, TypeOK
<1>4. ASSUME NEW r \in Requests, Call(r) PROVE Grants \/ Scans(r)
  <2>1. \/ UNCHANGED tables \/ UNCHANGED <<admins, locks>>
        \/ \E u \in Users : grant_role(r, u)
        \/ \E u \in Users \cup {None} : revoke_role(r, u)
        \/ request_deletion(r)
    BY <1>4 DEF Call, register, InsertUser, resend_verification, login, request_password_reset,
       change_email, oauth_callback, consume_verification, consume_reset, resolve_session,
       suspend_user, restore_user, anonymize_inactive_accounts, logout, change_password
  <2>2. ASSUME NEW u \in Users, grant_role(r, u) PROVE Grants
    BY <2>2 DEF grant_role, Grants
  <2>3. ASSUME NEW u \in Users \cup {None}, revoke_role(r, u) PROVE Scans(r)
    <3>1. PICK p \in {"revoke", "revoke other"} : Goto(r, p, [NoRequest EXCEPT !.user = u])
      BY <2>3 DEF revoke_role
    <3>2. pc'[r] \notin Committing
      BY <1>3, <3>1 DEF Committing
    <3> QED
      BY <2>3, <3>2 DEF revoke_role, Scans
  <2>4. CASE request_deletion(r)
    <3>1. pc'[r] = "scrub"
      BY <1>3, <2>4 DEF request_deletion, ContinueFor
    <3> QED
      BY <2>4, <3>1 DEF request_deletion, Scans, Committing
  <2> QED
    BY <1>1, <1>2, <2>1, <2>2, <2>3, <2>4
<1>5. ASSUME NEW r \in Requests, Return(r) PROVE pc'[r] \notin Committing
  <2>1. pc'[r] = "idle"
    BY <1>5 DEF Return, Goto, TypeOK
  <2> QED
    BY <2>1 DEF Committing
<1>6. ASSUME NEW r \in Requests, Drop(r) PROVE Releases(r)
  BY <1>5, <1>6 DEF Drop, Releases, EndScan
<1>7. ASSUME NEW r \in Requests, GuardLastAdmin(r) PROVE Grants \/ Releases(r)
  <2>1. PICK p \in Committing : Guard(r, p)
    BY <1>7 DEF GuardLastAdmin, Committing
  <2>2. CASE Return(r) /\ lock' = Unlocked(r) /\ EndScan(r, scan)
    BY <1>5, <2>1, <2>2 DEF Guard, Releases
  <2>3. CASE UNCHANGED locks
    BY <2>1, <2>3 DEF Guard, Grants
  <2> QED
    BY <2>1, <2>2, <2>3 DEF Guard
<1>8. ASSUME NEW r \in Requests, revoke_role_guarded(r) PROVE Releases(r) \/ Commits(r)
  <2>1. pc'[r] \notin Committing /\ \A q \in Requests \ {r} : pc'[q] = pc[q]
    BY <1>3, <1>5, <1>8 DEF revoke_role_guarded, Return
  <2>2. CASE pc[r] = "delete"
    <3>1. req[r].user \in Users /\ pc[r] \in Committing
      BY <2>2 DEF Carried, Carries, Committing
    <3> QED
      BY <1>8, <2>1, <2>2, <3>1 DEF revoke_role_guarded, Commits
  <2>3. CASE pc[r] = "revoke other"
    BY <1>8, <2>1, <2>3 DEF revoke_role_guarded, Releases
  <2> QED
    BY <1>8, <2>2, <2>3 DEF revoke_role_guarded
<1>9. ASSUME NEW r \in Requests, anonymize(r) PROVE Commits(r)
  <2>1. req[r].user \in Users /\ pc[r] \in Committing
    BY <1>9 DEF anonymize, Carried, Carries, Committing
  <2>2. PICK p \in {"sign out", "idle"} : \E rec : Goto(r, p, rec)
    BY <1>9 DEF anonymize, Continue, Return
  <2>3. pc'[r] \notin Committing /\ \A q \in Requests \ {r} : pc'[q] = pc[q]
    BY <1>3, <2>2 DEF Committing
  <2> QED
    BY <1>9, <2>1, <2>3 DEF anonymize, DropRowsOf, Commits
<1>10. ASSUME NEW r \in Requests, last_admin_locked(r) PROVE Scans(r)
  <2>1. pc'[r] = "scrub inactive"
    BY <1>3, <1>10 DEF last_admin_locked, Continue
  <2> QED
    BY <1>10, <2>1 DEF last_admin_locked, Scans, Committing
<1>11. ASSUME NEW r \in Requests, Proceed(r)
       PROVE  \/ Grants \/ Scans(r) \/ Releases(r) \/ Commits(r)
              \/ \E u \in Users : LocksOne(r, u)
  <2>1. \/ UNCHANGED tables \/ UNCHANGED <<admins, locks>>
        \/ GuardLastAdmin(r) \/ revoke_role_guarded(r) \/ anonymize(r) \/ last_admin_locked(r)
        \/ \E u \in Users : LockAdminRow(r, u)
    BY <1>11 DEF Proceed, issue_verification, verify_email, confirm_email, SignInNew,
       CreateSession, CreateOAuth, InsertUser, link_identity, revoke_all_for_user_except,
       issue_reset
  <2>2. ASSUME NEW u \in Users, LockAdminRow(r, u) PROVE LocksOne(r, u)
    BY <2>2 DEF LockAdminRow, LocksOne
  <2> QED
    BY <1>1, <1>2, <1>7, <1>8, <1>9, <1>10, <2>1, <2>2
<1>12. ASSUME NEW u \in Users, purge_deleted_accounts(u) PROVE Purges(u)
  BY <1>12 DEF purge_deleted_accounts, DropRowsOf, Purges
<1>13. ASSUME \/ \E s \in Sessions : ExpireSession(s)
              \/ \E t \in Tokens : ExpireToken(t)
              \/ UNCHANGED vars
       PROVE  Grants
  BY <1>1, <1>2, <1>13 DEF ExpireSession, ExpireToken, vars
<1> QED
  BY <1>4, <1>6, <1>11, <1>12, <1>13 DEF Next

\* Nobody takes a row from a scan that has passed its guard.
LEMMA GuardStep ==
    ASSUME TypeOK, Carried, Guards, [Next]_vars
    PROVE  Guards'
<1>0. \A r \in Requests : r # None /\ scan[r] \subseteq admins /\ scan[r] \subseteq Users
  BY DistinctAssumption DEF Guards, ScansLive, TypeOK
<1>1. ScansLive'
  <2>1. CASE Grants
    BY <1>0, <2>1 DEF Grants, ScansLive, locks
  <2>2. ASSUME NEW r \in Requests, Scans(r) PROVE ScansLive'
    BY <1>0, <2>2 DEF Scans, LockAdmins, ScansLive, TypeOK
  <2>3. ASSUME NEW r \in Requests, Releases(r) PROVE ScansLive'
    BY <1>0, <2>3 DEF Releases, EndScan, ScansLive, TypeOK
  <2>4. ASSUME NEW r \in Requests, Commits(r) PROVE ScansLive'
    BY <1>0, <2>4 DEF Commits, EndScan, Rescan, ScansLive, TypeOK
  <2>5. ASSUME NEW r \in Requests, NEW u \in Users, LocksOne(r, u) PROVE ScansLive'
    BY <1>0, <2>5 DEF LocksOne, ScansLive
  <2>6. ASSUME NEW u \in Users, Purges(u) PROVE ScansLive'
    BY <1>0, <2>6 DEF Purges, Rescan, ScansLive
  <2> QED
    BY <2>1, <2>2, <2>3, <2>4, <2>5, <2>6, RowSteps
<1>2. ASSUME NEW q \in Requests, pc'[q] \in Committing
      PROVE  AllLocked(q) /\ ~LastAdmin(q, req[q].user) /\ req'[q].user = req[q].user
  <2>0. Passed(q)
    BY DEF Guards
  <2>1. CASE Quiet
    BY <1>2, <2>0, <2>1 DEF Quiet, Passed
  <2>2. ASSUME NEW r \in Requests, NEW t \in Tokens, Takes(r, t)
        PROVE  pc[q] \in Committing /\ req'[q] = req[q]
    BY <1>2, <2>2 DEF Takes, Spends, Committing
  <2>3. ASSUME NEW r \in Requests, GuardLastAdmin(r)
        PROVE  \/ pc[q] \in Committing /\ req'[q] = req[q]
               \/ AllLocked(q) /\ ~LastAdmin(q, req[q].user) /\ req'[q] = req[q]
    <3>1. "idle" \notin Committing
      BY DEF Committing
    <3> QED
      BY <1>2, <2>3, <3>1, GuardTyped, Zenon
  <2> QED
    BY <2>0, <2>1, <2>2, <2>3, Steps DEF Passed
<1>3. ASSUME NEW q \in Requests, pc'[q] \in Committing
      PROVE  scan'[q] = scan[q] /\ \A v \in scan[q] : lock'[v] = q
  <2>0. \A v \in scan[q] : v \in Users /\ lock[v] = q
    BY <1>0, <1>2, <1>3 DEF AllLocked
  <2>1. CASE Grants
    BY <2>0, <2>1 DEF Grants, locks
  <2>2. ASSUME NEW r \in Requests, Scans(r) PROVE scan'[q] = scan[q] /\ lock' = lock
    BY <1>3, <2>2 DEF Scans, LockAdmins, TypeOK
  <2>3. ASSUME NEW r \in Requests, r # q, lock' = Unlocked(r)
        PROVE  \A v \in scan[q] : lock'[v] = q
    BY <2>0, <2>3 DEF Unlocked
  <2>4. ASSUME NEW r \in Requests, Releases(r) PROVE scan'[q] = scan[q] /\ r # q
    BY <1>3, <2>4 DEF Releases, EndScan, TypeOK
  <2>5. ASSUME NEW r \in Requests, Commits(r) PROVE scan'[q] = scan[q] /\ r # q
    <3>1. r # q /\ scan'[q] = scan[q] \ {req[r].user}
      BY <1>3, <2>5 DEF Commits, EndScan, Rescan, TypeOK
    <3>2. req[r].user \notin scan[q]
      BY <1>0, <2>0, <2>5, <3>1 DEF Commits, Mine
    <3> QED
      BY <3>1, <3>2
  <2>6. ASSUME NEW r \in Requests, NEW u \in Users, LocksOne(r, u)
        PROVE  scan'[q] = scan[q] /\ \A v \in scan[q] : lock'[v] = q
    <3>1. u \notin scan[q]
      BY <1>0, <2>0, <2>6 DEF LocksOne
    <3> QED
      BY <2>0, <2>6, <3>1 DEF LocksOne, TypeOK
  <2>7. ASSUME NEW u \in Users, Purges(u)
        PROVE  scan'[q] = scan[q] /\ lock' = lock
    <3>1. u \notin scan[q]
      BY <1>0, <2>0, <2>7 DEF Purges
    <3> QED
      BY <2>7, <3>1 DEF Purges, Rescan, TypeOK
  <2> QED
    BY <2>0, <2>1, <2>2, <2>3, <2>4, <2>5, <2>6, <2>7, RowSteps DEF Releases, Commits
<1>4. ASSUME NEW q \in Requests PROVE Passed(q)'
  BY <1>2, <1>3 DEF Passed, AllLocked, LastAdmin
<1> QED
  BY <1>1, <1>4 DEF Guards

\* The step that LastAdminGuarded speaks of.
LEMMA LastAdminStep ==
    ASSUME TypeOK, Carried, Guards, [Next]_vars,
           NEW u \in Users, NEW r \in Requests,
           admins = {u}, u \in scan[r], admins' = {}
    PROVE  pc'[r] = pc[r]
<1>0. scan[r] = {u}
  BY DEF Guards, ScansLive
<1>1. ASSUME NEW q \in Requests, Commits(q) PROVE pc'[r] = pc[r]
  <2>1. req[q].user = u /\ pc[q] \in Committing
    BY <1>1 DEF Commits
  <2>2. q # r
    BY <1>0, <2>1 DEF Guards, Passed, LastAdmin
  <2> QED
    BY <1>1, <2>2 DEF Commits
<1>2. ASSUME NEW v \in Users, Purges(v) PROVE pc'[r] = pc[r]
  BY <1>2 DEF Purges
<1>3. ~Grants /\ \A q \in Requests : ~Scans(q) /\ ~Releases(q)
  BY DEF Grants, Scans, Releases
<1>4. \A q \in Requests, v \in Users : ~LocksOne(q, v)
  BY DEF LocksOne
<1> QED
  BY <1>1, <1>2, <1>3, <1>4, RowSteps

\* The first state: one administrator, who can log in with one address, and nothing else.
LEMMA Initially == Init => IInv
<1> SUFFICES ASSUME Init PROVE IInv
  OBVIOUS
<1> USE DistinctAssumption
<1>1. PICK a \in Users, e \in Emails :
         /\ users = [u \in Users |-> IF u = a THEN [state |-> "ACTIVE", email |-> e] ELSE NoUser]
         /\ pw = [x \in Emails |-> IF x = e THEN a ELSE None]
         /\ admins = {a}
  BY DEF Init
<1>2. TypeOK
  <2>1. users \in [Users -> UserRow]
    BY <1>1 DEF UserRow, NoUser, AccountState
  <2>2. pw \in [Emails -> Users \cup {None}] /\ admins \in SUBSET Users
    BY <1>1
  <2>3. req \in [Requests -> Request] /\ pc \in [Requests -> Points]
    BY Records DEF Init, Points
  <2> QED
    BY <2>1, <2>2, <2>3 DEF Init, TypeOK
<1>3. Carried
  BY Records DEF Init, Carried
<1>4. Blank
  BY <1>1 DEF Blank, NoUser
<1>5. OneLoginKey
  BY <1>1 DEF OneLoginKey
<1>6. OneKind
  BY DEF Init, OneKind
<1>7. TokenSpentOnce
  BY DEF Init, TokenSpentOnce, Spending
<1>8. Guards
  BY DEF Init, Guards, ScansLive, Passed, Committing
<1> QED
  BY <1>2, <1>3, <1>4, <1>5, <1>6, <1>7, <1>8 DEF IInv

\* The inductive invariant holds in every state the service reaches, however its requests,
\* the retention job and the clock interleave.
THEOREM Invariance == Spec => []IInv
<1>1. IInv /\ [Next]_vars => IInv'
  BY Steps, LoginKeyStep, TokenStep, GuardStep DEF IInv
<1> QED
  BY <1>1, Initially, PTL DEF Spec

\* Every row and every request keeps its type: no operation of AuthService writes a state,
\* an owner or a token that its tables do not know.
THEOREM TypeCorrect == Spec => []TypeOK
<1>1. IInv => TypeOK
  BY DEF IInv
<1> QED
  BY <1>1, Invariance, PTL

\* The account that a password login finds by an address is the account that has that
\* address, whatever changes of address, erasures and purges have happened: confirm_email
\* moves the identity in the transaction that moves the address.
THEOREM OneKeyPerAccount == Spec => []OneLoginKey
<1>1. IInv => OneLoginKey
  BY DEF IInv
<1> QED
  BY <1>1, Invariance, PTL

\* The request that consume_verification or consume_reset let through is alone with its
\* token, and the token cannot be spent again, for any number of requests and tokens.
THEOREM TokensSpentOnce == Spec => []TokenSpentOnce
<1>1. IInv => TokenSpentOnce
  BY DEF IInv
<1> QED
  BY <1>1, Invariance, PTL

\* revoke_role_guarded and anonymize never delete the last ADMIN row if their SELECT FOR
\* UPDATE returned it, however many of them run at once and in whatever order they get
\* their row locks.
THEOREM LastAdminIsGuarded == Spec => LastAdminGuarded
<1>1. IInv /\ [Next]_vars =>
        [\A u \in Users, r \in Requests :
            admins = {u} /\ u \in scan[r] /\ admins' = {} => pc'[r] = pc[r]]_vars
  BY LastAdminStep DEF IInv
<1> QED
  BY <1>1, Invariance, PTL DEF Spec, LastAdminGuarded
=============================================================================
