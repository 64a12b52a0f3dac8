------------------------------ MODULE Browser ------------------------------
(***************************************************************************)
(* One tab of a browser and the web layer: the cookies, the CSRF           *)
(* middleware (web/src/auth.rs) and the handlers of routes/auth.rs with    *)
(* the favourite toggle as the one htmx fragment.                          *)
(*                                                                         *)
(* The server handles a request at once, with the cookies it was sent      *)
(* with; its answer travels, and may be lost, while the browser's other    *)
(* tabs change the cookies they all share.  With scripts the layout boosts *)
(* every link and form: htmx swaps <body> and keeps <head>, where          *)
(* <meta name="csrf"> is, and auth.js sends that tag as a header, which    *)
(* the middleware reads before the form's own field.                       *)
(***************************************************************************)
EXTENDS Naturals

CONSTANTS
    Users,       \* who may sign in from this browser
    PerUser,     \* sessions of one user at a time
    AnonTokens,  \* random tokens of the anonymous pages
    NoToken      \* an empty token, an absent cookie, an anonymous principal

\* A session; its synchronizer token is as unique as its id and stands for it.
Sessions == Users \X (1..PerUser)
UserOf(s) == s[1]
Tokens == Sessions \cup AnonTokens \cup {NoToken}

\* Random values: no session's token is an anonymous page's, and none is empty.
ASSUME BrowserAssumption ==
    PerUser \in Nat /\ AnonTokens \cap Sessions = {} /\ NoToken \notin Sessions \cup AnonTokens

VARIABLES
    js,          \* whether the browser runs scripts
    live,        \* the sessions resolve_session finds
    jar,         \* the session_id and csrf cookies
    tab,         \* the token of the page's <head> and the one of its forms
    wire,        \* the answer on its way to the tab
    steady,      \* whether the page was rendered for what the jar still says
    retried      \* whether it shows a form again, with what was wrong with it

browserVars == <<js, live, jar, tab, wire, steady, retried>>

\* Pages are told apart by the token they carry: a form for anonymous visitors (an
\* AnonTokens), a page that shows an account (its session's), any other (NoToken).
Urls == {"login", "register", "reset", "reset new", "verify", "account", "account/password",
         "account/email", "parking", "callback", "lang"}

-----------------------------------------------------------------------------
\* Answers

Nothing == [kind |-> "none", url |-> "", token |-> NoToken, csrf |-> NoToken,
            session |-> NoToken, signs_out |-> FALSE, load |-> FALSE, again |-> FALSE]

\* PageLayout::for_request: the header's identity and the token are the session's.
for_request(who) == [Nothing EXCEPT !.kind = "page", !.token = who]
Redirect(url) == [Nothing EXCEPT !.kind = "navigate", !.url = url]
redirect_with_cookie(url, s) == [Redirect(url) EXCEPT !.kind = "cookie", !.session = s]
redirect_signed_out(url) == [Redirect(url) EXCEPT !.kind = "cookie", !.signs_out = TRUE]
Fragment == [Nothing EXCEPT !.kind = "fragment"]
HxRedirect(url) == [Redirect(url) EXCEPT !.load = TRUE]      \* a navigation of its own

\* Random values do not repeat: those still to be seen somewhere are not drawn again.
Seen == {jar.csrf, jar.session, tab.meta, tab.form, wire.token, wire.session}
anon_csrf_token == AnonTokens \ Seen
NewSessions == Sessions \ (live \cup Seen)

\* The fresh token goes into the page and into the cookie; again: after a refused form.
render_anon(again) ==
    {[for_request(a) EXCEPT !.csrf = a, !.again = again] : a \in anon_csrf_token}

-----------------------------------------------------------------------------
\* The middleware

\* resolve_auth: an absent, unknown or dead session is anonymous, and so is one
\* the database could not be asked about.
PrincipalOf(session, alive) == IF session \in alive THEN session ELSE NoToken
Principal == PrincipalOf(jar.session, live)
resolve_auth == {Principal, NoToken}

\* The header wins over the field of the form.
HasHeader == js /\ tab.meta # NoToken
submitted == IF HasHeader THEN tab.meta ELSE tab.form

\* Mutant: the double-submit cookie is good enough for a session too.
csrf_okEither(who, token) == token # NoToken /\ token \in {who, jar.csrf}

\* The session's token when there is a session, else the double-submit cookie.
csrf_ok(who, token) == token # NoToken /\ token = IF who # NoToken THEN who ELSE jar.csrf

\* Auth::deny: the styled error page; a fragment request gets a fragment.
deny(who, fragment) == IF fragment THEN Fragment ELSE for_request(who)

\* Auth::require_user's answer to an anonymous request.
login_required(fragment) == IF fragment THEN HxRedirect("login") ELSE Redirect("login")

-----------------------------------------------------------------------------
\* Handlers: what each may answer, given the principal, and the sessions it leaves

Leave(answers) == {<<a, live>> : a \in answers}
SignIn == {<<redirect_with_cookie("account", s), live \cup {s}>> : s \in NewSessions}

login_page(who) == Leave(IF who # NoToken THEN {Redirect("account")} ELSE render_anon(FALSE))
register_page(who) == login_page(who)
password_reset_page(who) == Leave(render_anon(FALSE))
password_reset_new(who) == Leave(render_anon(FALSE))
verify_email(who) == Leave(render_anon(FALSE) \cup {Redirect("login")})

account(who) == Leave({IF who = NoToken THEN login_required(FALSE) ELSE for_request(who)})
account_password(who) == account(who)
account_email(who) == account(who)
parking_details(who) == Leave({for_request(who)})
set_lang(who) == Leave({Redirect("parking")})

auth_google_callback(who) == SignIn \cup Leave({Redirect("login")})

GetFrom(url, who) ==
    CASE url = "login" -> login_page(who)
      [] url = "register" -> register_page(who)
      [] url = "reset" -> password_reset_page(who)
      [] url = "reset new" -> password_reset_new(who)
      [] url = "verify" -> verify_email(who)
      [] url = "account" -> account(who)
      [] url = "account/password" -> account_password(who)
      [] url = "account/email" -> account_email(who)
      [] url = "parking" -> parking_details(who)
      [] url = "callback" -> auth_google_callback(who)
      [] url = "lang" -> set_lang(who)

login_post(who) ==
    IF who # NoToken THEN Leave({Redirect("account")})
    ELSE SignIn \cup Leave(render_anon(TRUE))
register_post(who) ==
    Leave(IF who # NoToken THEN {Redirect("account")}
          ELSE {Redirect("login")} \cup render_anon(TRUE))
verify_resend(who) == Leave({Redirect("login")} \cup render_anon(TRUE))
password_reset_post(who) == Leave({Redirect("reset")} \cup render_anon(TRUE))

\* The reset revokes every session of the account the emailed token is for.
password_reset_new_post(who) ==
    {<<Redirect("login"), {s \in live : UserOf(s) # u}>> : u \in Users}
    \cup Leave(render_anon(TRUE))

\* The cookie is cleared whatever became of the session.
logout(who) ==
    {<<redirect_signed_out("parking"), left>> : left \in {live, live \ {who}}}

account_password_post(who) ==
    IF who = NoToken THEN Leave({login_required(FALSE)})
    ELSE {<<Redirect("account"), {s \in live : s = who \/ UserOf(s) # UserOf(who)}>>}
         \cup Leave({for_request(who)})
account_email_post(who) ==
    Leave(IF who = NoToken THEN {login_required(FALSE)}
          ELSE {Redirect("account"), for_request(who)})
parking_favorite_post(who) ==
    Leave(IF who = NoToken THEN {login_required(js)}
          ELSE IF js THEN {Fragment} ELSE {Redirect("parking"), for_request(NoToken)})

PostFrom(form, who) ==
    CASE form = "login" -> login_post(who)
      [] form = "register" -> register_post(who)
      [] form = "resend" -> verify_resend(who)
      [] form = "reset" -> password_reset_post(who)
      [] form = "reset new" -> password_reset_new_post(who)
      [] form = "logout" -> logout(who)
      [] form = "password" -> account_password_post(who)
      [] form = "email" -> account_email_post(who)
      [] form = "favorite" -> parking_favorite_post(who)

\* The forms a page of each kind may offer; the header's sign-out is on every page of an account.
Forms ==
    IF tab.form \in AnonTokens THEN {"login", "register", "resend", "reset", "reset new"}
    ELSE IF tab.form \in Sessions THEN {"resend", "logout", "password", "email", "favorite"}
    ELSE {}

-----------------------------------------------------------------------------
\* The browser

BrowserInit ==
    /\ js \in BOOLEAN
    /\ live = {}
    /\ jar = [session |-> NoToken, csrf |-> NoToken]
    /\ tab = [meta |-> NoToken, form |-> NoToken]
    /\ wire = Nothing
    /\ steady = FALSE
    /\ retried = FALSE

\* Nobody else ended or began the session, or replaced the cookie, the page relies on.
Undisturbed ==
    /\ PrincipalOf(jar'.session, live') = Principal
    /\ tab.form \in Sessions \/ jar'.csrf = jar.csrf

StillSteady == steady' = (steady /\ Undisturbed) /\ retried' = (retried /\ Undisturbed)

\* The server has handled a request; the document it was sent for will be loaded or swapped.
Answered(outcome, load) ==
    /\ wire' = [outcome[1] EXCEPT !.load = @ \/ load]
    /\ live' = outcome[2]
    /\ UNCHANGED <<js, jar, tab>>
    /\ StillSteady

GetPage(url, load) == \E who \in resolve_auth : \E o \in GetFrom(url, who) : Answered(o, load)

\* An address typed, or a link without scripts; with scripts a link is boosted.
Open(url) == wire.kind = "none" /\ GetPage(url, TRUE)
Follow(url) == wire.kind = "none" /\ js /\ GetPage(url, FALSE)

\* auth_middleware on a POST: refused without the right token, or when the body
\* it had to read for one is too large; handled otherwise.
auth_middleware(form) ==
    \E who \in resolve_auth :
        \/ /\ csrf_ok(who, submitted)
           /\ \E o \in PostFrom(form, who) : Answered(o, ~js)
        \/ /\ ~csrf_ok(who, submitted) \/ ~HasHeader
           /\ Answered(<<deny(who, js /\ form = "favorite"), live>>, ~js)

Submit(form) == wire.kind = "none" /\ auth_middleware(form)

\* The answer arrives: its cookies are stored, its page is loaded or its body swapped in.
StoreCookies ==
    jar' = [session |-> IF wire.signs_out THEN NoToken
                        ELSE IF wire.session # NoToken THEN wire.session ELSE jar.session,
            csrf |-> IF wire.csrf # NoToken THEN wire.csrf ELSE jar.csrf]

ShowPage ==
    LET shownTo == IF wire.token \in Sessions THEN wire.token ELSE NoToken IN
    /\ wire.kind = "page"
    /\ StoreCookies
    /\ tab' = [form |-> wire.token, meta |-> IF wire.load THEN wire.token ELSE tab.meta]
    /\ steady' = (shownTo = Principal)
    /\ retried' = (steady' /\ wire.again)
    /\ wire' = Nothing
    /\ UNCHANGED <<js, live>>

\* A fragment changes no token: the favourite button carries the one that was accepted.
SwapFragment ==
    /\ wire.kind = "fragment"
    /\ wire' = Nothing
    /\ UNCHANGED <<js, live, jar, tab, steady, retried>>

\* A redirect's cookies are stored before the request it asks for is sent.
TakeCookies ==
    /\ wire.kind = "cookie"
    /\ StoreCookies
    /\ wire' = [Redirect(wire.url) EXCEPT !.load = wire.load]
    /\ UNCHANGED <<js, live, tab>>
    /\ StillSteady

Redirected == wire.kind = "navigate" /\ GetPage(wire.url, wire.load)

\* The connection breaks after the server is done.
LoseAnswer ==
    /\ wire.kind # "none"
    /\ wire' = Nothing
    /\ UNCHANGED <<js, live, jar, tab, steady, retried>>

-----------------------------------------------------------------------------
\* Everything else

\* Another tab's answer arrives: an anonymous page, a sign-in, a sign-out.
OtherTab ==
    /\ \/ \E a \in anon_csrf_token : jar' = [jar EXCEPT !.csrf = a] /\ UNCHANGED live
       \/ \E s \in NewSessions : jar' = [jar EXCEPT !.session = s] /\ live' = live \cup {s}
       \/ /\ jar.session # NoToken
          /\ jar' = [jar EXCEPT !.session = NoToken]
          /\ live' \in {live, live \ {jar.session}}
    /\ UNCHANGED <<js, tab, wire>>
    /\ StillSteady

\* A session expires, or is revoked from elsewhere; the csrf cookie lives for an hour.
SessionEnds(s) ==
    /\ s \in live
    /\ live' = live \ {s}
    /\ UNCHANGED <<js, jar, tab, wire>>
    /\ StillSteady

CsrfCookieExpires ==
    /\ jar.csrf # NoToken
    /\ jar' = [jar EXCEPT !.csrf = NoToken]
    /\ UNCHANGED <<js, live, tab, wire>>
    /\ StillSteady

BrowserNext ==
    \/ \E url \in Urls : Open(url) \/ Follow(url)
    \/ \E form \in Forms : Submit(form)
    \/ ShowPage \/ SwapFragment \/ TakeCookies \/ Redirected \/ LoseAnswer
    \/ OtherTab \/ (\E s \in Sessions : SessionEnds(s)) \/ CsrfCookieExpires

BrowserSpec == BrowserInit /\ [][BrowserNext]_browserVars

-----------------------------------------------------------------------------
\* A form of a page that shows an account is never accepted for the session of another
\* account, whatever was loaded, swapped or signed in and out of in the meantime.
ActsForItsPage ==
    (tab.form \in Sessions /\ Principal # NoToken /\ csrf_ok(Principal, submitted))
        => UserOf(tab.form) = UserOf(Principal)

\* A page loaded as one document keeps working: until somebody ends or begins the session
\* or takes the cookie it was rendered with, the middleware accepts its forms.
LoadedPageWorks ==
    (steady /\ tab.form # NoToken /\ (js => tab.meta = tab.form)) => csrf_ok(Principal, submitted)

\* What the middleware accepts follows the page in the tab: never a form shown to one
\* account for another one, and always the form of a whole page nothing has overtaken.
FormsFollowThePage == ActsForItsPage /\ LoadedPageWorks

\* "Re-render with a fresh double-submit CSRF token so the next POST validates"
\* (routes/auth.rs): a form shown again is accepted while nothing has touched the
\* cookie and the session it was rendered with.
NextPostValidates == retried => csrf_ok(Principal, submitted)
=============================================================================
