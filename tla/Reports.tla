------------------------------- MODULE Reports -------------------------------
(***************************************************************************)
(* Reports and what moderators do about them: moderation/report.rs and the *)
(* content statements of moderation/actions.rs, under the service          *)
(* moderation.rs and the handlers of routes/moderation.rs; with the        *)
(* statement of an account erasure that clears who filed, claimed and      *)
(* resolved a report.                                                      *)
(*                                                                         *)
(* Every statement commits on its own: a handler that makes several is     *)
(* split between them, and may end there.                                  *)
(***************************************************************************)
EXTENDS Naturals

CONSTANTS
    Users,        \* accounts
    Moderators,   \* those with the MODERATOR or ADMIN role
    Clients,      \* requests in progress
    ReviewIds, PhotoIds, ParkingIds,   \* what can be reported
    Reasons,      \* what the reason field of the form can hold
    ReportIds,
    None,         \* SQL NULL
    MaxRequests   \* bound on the number of requests

ASSUME ModeratorsAssumption == Moderators \subseteq Users
ASSUME TargetsAssumption == /\ ReviewIds \cap PhotoIds = {}
                            /\ ReviewIds \cap ParkingIds = {}
                            /\ PhotoIds \cap ParkingIds = {}
ASSUME NoneAssumption == None \notin Users \cup ReportIds \cup ReviewIds \cup PhotoIds \cup ParkingIds
ASSUME BoundAssumption == MaxRequests \in Nat

VARIABLES
    report,    \* the report table
    content,   \* moderation_state of everything that can be reported
    audit,     \* the events on each report in audit_events: how many of each kind
    req,       \* each client's request
    answer,    \* what the client's last request was answered
    erased,    \* the accounts that have been anonymized
    begun,     \* how many requests there have been
    did,       \* history: the client's request has changed a row
    filer, claimer, judge,   \* history: who filed, claimed and resolved each report
    cut,       \* history: resolved, and the request ended before the takedown
    shown      \* history: resolved, and a moderator published the target since

table == <<report, content, audit>>
history == <<filer, claimer, judge, cut, shown>>
vars == <<table, req, answer, erased, begun, did, history>>

-----------------------------------------------------------------------------
\* The tables

Targets == ReviewIds \cup PhotoIds \cup ParkingIds

\* The states content is published in and taken down to, by its kind.
Up(t) == IF t \in PhotoIds THEN "APPROVED" ELSE "ACTIVE"
Down(t) == IF t \in ParkingIds THEN "INVALID" ELSE "HIDDEN"
Restorable(t) == IF t \in ParkingIds THEN {"INVALID", "REMOVED"} ELSE {"HIDDEN"}
ContentState == {"ACTIVE", "HIDDEN", "PENDING_REVIEW", "APPROVED", "INVALID", "REMOVED"}
Visible(t) == content[t] = Up(t)

ReportState == {"OPEN", "UNDER_REVIEW", "RESOLVED", "DISMISSED"}
ReportOutcome == {"RESOLVED", "DISMISSED"}
ReportRow == [state: ReportState, target: Targets, reporter: Users \cup {None},
              claimed_by: Users \cup {None}, resolved_by: Users \cup {None}]
NoReport == [state |-> "absent", target |-> None, reporter |-> None,
             claimed_by |-> None, resolved_by |-> None]

OpenReport(u, t) == [NoReport EXCEPT !.state = "OPEN", !.target = t, !.reporter = u]

\* report_dedupe_idx: one pending report of a reporter on a target.
Pending(r) == report[r].state \in {"OPEN", "UNDER_REVIEW"}
AlreadyReported(u, t) ==
    \E r \in ReportIds : Pending(r) /\ report[r].reporter = u /\ report[r].target = t

\* The codes of the model's instance; the other reasons go with every target.
REPORT_REASONS == {"duplicate", "inappropriate_photo", "inappropriate_review", "spam"}
reason_allowed_for(t, reason) ==
    CASE reason = "inappropriate_photo" -> t \in PhotoIds
      [] reason = "inappropriate_review" -> t \in ReviewIds
      [] reason = "duplicate" -> t \in ParkingIds
      [] OTHER -> TRUE

Event == {"none", "created", "claimed", "resolved", "dismissed"}
Request == [pc: {"idle", "create", "resolve", "takedown", "audit"}, user: Users \cup {None},
            report: ReportIds \cup {None}, target: Targets \cup {None},
            outcome: ReportOutcome \cup {"none"}, event: Event]
Idle == [pc |-> "idle", user |-> None, report |-> None, target |-> None,
         outcome |-> "none", event |-> "none"]

\* Of moderation_error_message: done, refused because of the state the row is in,
\* failed in the database, or no answer at all.
Answer == {"none", "ok", "conflict", "failed"}

TypeOK ==
    /\ report \in [ReportIds -> ReportRow \cup {NoReport}]
    /\ content \in [Targets -> ContentState]
    /\ audit \in [ReportIds -> [claimed: Nat, resolved: Nat, dismissed: Nat]]
    /\ req \in [Clients -> Request]
    /\ answer \in [Clients -> Answer]
    /\ erased \subseteq Users
    /\ begun \in 0 .. MaxRequests
    /\ did \in [Clients -> BOOLEAN]
    /\ filer \in [ReportIds -> Users \cup {None}]
    /\ claimer \in [ReportIds -> Users \cup {None}]
    /\ judge \in [ReportIds -> Users \cup {None}]
    /\ cut \subseteq ReportIds
    /\ shown \subseteq ReportIds

\* A report may have been filed before the model starts.
Init ==
    /\ report \in [ReportIds -> {NoReport} \cup {OpenReport(u, t) : u \in Users, t \in Targets}]
    /\ content \in [Targets -> ContentState]
    /\ \A t \in Targets : content[t] \in CASE t \in PhotoIds -> {"PENDING_REVIEW"}
                                           [] t \in ReviewIds -> {"ACTIVE"}
                                           [] t \in ParkingIds -> {"ACTIVE", "REMOVED"}
    /\ audit = [r \in ReportIds |-> [claimed |-> 0, resolved |-> 0, dismissed |-> 0]]
    /\ req = [c \in Clients |-> Idle]
    /\ answer = [c \in Clients |-> "none"]
    /\ erased = {}
    /\ begun = 0
    /\ did = [c \in Clients |-> FALSE]
    /\ filer = [r \in ReportIds |-> report[r].reporter]
    /\ claimer = [r \in ReportIds |-> None]
    /\ judge = [r \in ReportIds |-> None]
    /\ cut = {}
    /\ shown = {}

-----------------------------------------------------------------------------
\* Requests

\* The session resolved to an account that was not erased then.
Begin(c, u) ==
    /\ req[c].pc = "idle"
    /\ begun < MaxRequests
    /\ u \notin erased
    /\ begun' = begun + 1

require_moderator(u) == u \in Moderators
require_role(u) == u \in Moderators

\* The request has made its first change, if any, and goes on or is answered.
Continue(c, r, change) ==
    /\ req' = [req EXCEPT ![c] = r]
    /\ did' = [did EXCEPT ![c] = change]
    /\ answer' = [answer EXCEPT ![c] = "none"]
Refuse(c) ==
    /\ req' = [req EXCEPT ![c] = Idle]
    /\ did' = [did EXCEPT ![c] = FALSE]
    /\ answer' = [answer EXCEPT ![c] = "conflict"]
ThenAudit(c, u, r, t, e) ==
    Continue(c, [Idle EXCEPT !.pc = "audit", !.user = u, !.report = r, !.target = t,
                             !.event = e], TRUE)

\* A resolved report whose request ends here never gets its target taken down.
LeaveBehind(c) == cut' = IF req[c].pc = "takedown" THEN cut \cup {req[c].report} ELSE cut

\* A statement fails, and the error is what the client sees; or the request is
\* cancelled, and the client sees nothing.
Fail(c) ==
    /\ req[c].pc # "idle"
    /\ req' = [req EXCEPT ![c] = Idle]
    /\ answer' \in {[answer EXCEPT ![c] = "failed"], answer}
    /\ LeaveBehind(c)
    /\ UNCHANGED <<table, erased, begun, did, filer, claimer, judge, shown>>

\* The last statement of every handler; the events on content are not kept.
RecordAudit(c) ==
    LET e == req[c].event  r == req[c].report IN
    /\ req[c].pc = "audit"
    /\ audit' = CASE e = "claimed"   -> [audit EXCEPT ![r].claimed = @ + 1]
                  [] e = "resolved"  -> [audit EXCEPT ![r].resolved = @ + 1]
                  [] e = "dismissed" -> [audit EXCEPT ![r].dismissed = @ + 1]
                  [] OTHER           -> audit
    /\ req' = [req EXCEPT ![c] = Idle]
    /\ answer' = [answer EXCEPT ![c] = "ok"]
    /\ UNCHANGED <<report, content, erased, begun, did, history>>

-----------------------------------------------------------------------------
\* Filing a report

\* Any signed-in user; the reason must go with the target, which must exist.
submit_report(c, u, t, reason) ==
    /\ reason \in REPORT_REASONS
    /\ reason_allowed_for(t, reason)
    /\ Begin(c, u)
    /\ Continue(c, [Idle EXCEPT !.pc = "create", !.user = u, !.target = t], FALSE)
    /\ UNCHANGED <<table, erased, history>>

\* The form names a kind and an id; neither an unknown kind nor an id <= 0 is passed on.
report_submit(c, u, t, reason) == t \in Targets /\ submit_report(c, u, t, reason)

\* The INSERT fails on report_dedupe_idx, or the report is OPEN.
create(c) ==
    LET u == req[c].user  t == req[c].target IN
    /\ req[c].pc = "create"
    /\ \/ /\ AlreadyReported(u, t)
          /\ Refuse(c)
          /\ UNCHANGED <<report, filer>>
       \/ /\ ~AlreadyReported(u, t)
          /\ \E r \in ReportIds :
              /\ report[r].state = "absent"
              /\ report' = [report EXCEPT ![r] = OpenReport(u, t)]
              /\ filer' = [filer EXCEPT ![r] = u]
              /\ ThenAudit(c, u, r, t, "created")
    /\ UNCHANGED <<content, audit, erased, begun, claimer, judge, cut, shown>>

-----------------------------------------------------------------------------
\* Claiming and resolving

\* Mutant: the UPDATE does not look at the state.
claimAnyState(r, m) ==
    /\ report[r].state \in {"OPEN", "UNDER_REVIEW"}
    /\ report' = [report EXCEPT ![r].state = "UNDER_REVIEW", ![r].claimed_by = m]
    /\ claimer' = [claimer EXCEPT ![r] = m]

claim(r, m) ==
    /\ report[r].state = "OPEN"
    /\ report' = [report EXCEPT ![r].state = "UNDER_REVIEW", ![r].claimed_by = m]
    /\ claimer' = [claimer EXCEPT ![r] = m]

\* One guarded UPDATE: of two moderators the second is refused.
claim_report(c, m, r) ==
    /\ require_moderator(m)
    /\ Begin(c, m)
    /\ \/ claim(r, m) /\ ThenAudit(c, m, r, report[r].target, "claimed")
       \/ report[r].state # "OPEN" /\ Refuse(c) /\ UNCHANGED <<report, claimer>>
    /\ UNCHANGED <<content, audit, erased, filer, judge, cut, shown>>

\* Mutant: without the self-resolve guard.
resolve_reportAnyone(c, m, r, outcome) ==
    /\ require_moderator(m)
    /\ report[r].state # "absent"
    /\ Begin(c, m)
    /\ Continue(c, [Idle EXCEPT !.pc = "resolve", !.user = m, !.report = r,
                      !.target = report[r].target, !.outcome = outcome], FALSE)
    /\ UNCHANGED <<table, erased, history>>

\* The row is read, and the report's own filer turned away.
resolve_report(c, m, r, outcome) ==
    /\ require_moderator(m)
    /\ report[r].state # "absent"
    /\ Begin(c, m)
    /\ \/ report[r].reporter = m /\ Refuse(c)
       \/ /\ report[r].reporter # m
          /\ Continue(c, [Idle EXCEPT !.pc = "resolve", !.user = m, !.report = r,
                            !.target = report[r].target, !.outcome = outcome], FALSE)
    /\ UNCHANGED <<table, erased, history>>

\* The guarded UPDATE; any moderator may resolve what another one claimed.
resolve(c) ==
    LET r == req[c].report  m == req[c].user  o == req[c].outcome IN
    /\ req[c].pc = "resolve"
    /\ \/ /\ report[r].state = "UNDER_REVIEW"
          /\ report' = [report EXCEPT ![r].state = o, ![r].resolved_by = m]
          /\ judge' = [judge EXCEPT ![r] = m]
          /\ IF o = "RESOLVED"
             THEN Continue(c, [req[c] EXCEPT !.pc = "takedown"], TRUE)
             ELSE ThenAudit(c, m, r, req[c].target, "dismissed")
       \/ /\ report[r].state # "UNDER_REVIEW"
          /\ Refuse(c)
          /\ UNCHANGED <<report, judge>>
    /\ UNCHANGED <<content, audit, erased, begun, filer, claimer, cut, shown>>

\* Mutant: the arm for locations is missing.
hide_resolved_targetPhotosOnly(c) ==
    LET t == req[c].target IN
    /\ req[c].pc = "takedown"
    /\ content' = IF Visible(t) /\ t \notin ParkingIds THEN [content EXCEPT ![t] = Down(t)]
                  ELSE content
    /\ ThenAudit(c, req[c].user, req[c].report, t, "resolved")
    /\ UNCHANGED <<report, audit, erased, begun, history>>

\* Mutant: InvalidState is passed on when the target is not published.
hide_resolved_targetStrict(c) ==
    LET t == req[c].target IN
    /\ req[c].pc = "takedown"
    /\ \/ /\ Visible(t)
          /\ content' = [content EXCEPT ![t] = Down(t)]
          /\ ThenAudit(c, req[c].user, req[c].report, t, "resolved")
       \/ /\ ~Visible(t)
          /\ req' = [req EXCEPT ![c] = Idle]
          /\ answer' = [answer EXCEPT ![c] = "conflict"]
          /\ UNCHANGED <<content, did>>
    /\ UNCHANGED <<report, audit, erased, begun, history>>

\* The target is hidden or invalidated; one that is not published is left as it is.
hide_resolved_target(c) ==
    LET t == req[c].target IN
    /\ req[c].pc = "takedown"
    /\ content' = IF Visible(t) THEN [content EXCEPT ![t] = Down(t)] ELSE content
    /\ ThenAudit(c, req[c].user, req[c].report, t, "resolved")
    /\ UNCHANGED <<report, audit, erased, begun, history>>

-----------------------------------------------------------------------------
\* Moderating content directly

\* One guarded UPDATE, and its event.
SetContent(c, m, t, from, to) ==
    /\ require_moderator(m)
    /\ Begin(c, m)
    /\ \/ /\ content[t] \in from
          /\ content' = [content EXCEPT ![t] = to]
          /\ ThenAudit(c, m, None, t, "none")
       \/ content[t] \notin from /\ Refuse(c) /\ UNCHANGED content

\* Reports on t that are settled by now: what happens next is a new decision.
Publish(t) == shown' = shown \cup {r \in ReportIds : report[r].target = t
                                                     /\ report[r].state = "RESOLVED"}

Hide(c, m, t) ==
    /\ SetContent(c, m, t, {Up(t)}, Down(t))
    /\ UNCHANGED <<report, audit, erased, history>>
Restore(c, m, t) ==
    /\ SetContent(c, m, t, Restorable(t), Up(t))
    /\ Publish(t)
    /\ UNCHANGED <<report, audit, erased, filer, claimer, judge, cut>>

hide_review(c, m, i) == i \in ReviewIds /\ Hide(c, m, i)
restore_review(c, m, i) == i \in ReviewIds /\ Restore(c, m, i)
hide_photo(c, m, i) == i \in PhotoIds /\ Hide(c, m, i)
restore_photo(c, m, i) == i \in PhotoIds /\ Restore(c, m, i)
invalidate_parking(c, m, i) == i \in ParkingIds /\ Hide(c, m, i)
restore_parking(c, m, i) == i \in ParkingIds /\ Restore(c, m, i)

\* The photo queue's decision; the handler's other steps are the photo module's.
approve_photo(t) ==
    /\ t \in PhotoIds
    /\ content[t] = "PENDING_REVIEW"
    /\ content' = [content EXCEPT ![t] = "APPROVED"]
    /\ Publish(t)
    /\ UNCHANGED <<report, audit, req, answer, erased, begun, did, filer, claimer, judge, cut>>

-----------------------------------------------------------------------------
\* Erasure

\* One statement clears all three columns of every row that names the account in
\* any of them.
Scrub(row, u) == IF u \in {row.reporter, row.claimed_by, row.resolved_by}
                 THEN [row EXCEPT !.reporter = None, !.claimed_by = None, !.resolved_by = None]
                 ELSE row
anonymize(u) ==
    /\ u \notin erased
    /\ erased' = erased \cup {u}
    /\ report' = [r \in ReportIds |-> Scrub(report[r], u)]
    /\ UNCHANGED <<content, audit, req, answer, begun, did, history>>

-----------------------------------------------------------------------------
\* The routes: the session's role is looked at before the service looks again.

moderation_report_claim(c, u, r) == require_role(u) /\ claim_report(c, u, r)
moderation_report_resolve(c, u, r) == require_role(u) /\ resolve_report(c, u, r, "RESOLVED")
moderation_report_dismiss(c, u, r) == require_role(u) /\ resolve_report(c, u, r, "DISMISSED")
moderation_review_hide(c, u, t) == require_role(u) /\ hide_review(c, u, t)
moderation_review_restore(c, u, t) == require_role(u) /\ restore_review(c, u, t)
moderation_photo_hide(c, u, t) == require_role(u) /\ hide_photo(c, u, t)
moderation_photo_restore(c, u, t) == require_role(u) /\ restore_photo(c, u, t)
moderation_parking_invalidate(c, u, t) == require_role(u) /\ invalidate_parking(c, u, t)
moderation_parking_restore(c, u, t) == require_role(u) /\ restore_parking(c, u, t)

Next ==
    \/ \E c \in Clients, u \in Users :
         \/ \E t \in Targets \cup {None}, reason \in Reasons : report_submit(c, u, t, reason)
         \/ \E r \in ReportIds : \/ moderation_report_claim(c, u, r)
                                 \/ moderation_report_resolve(c, u, r)
                                 \/ moderation_report_dismiss(c, u, r)
         \/ \E t \in Targets : \/ moderation_review_hide(c, u, t)
                               \/ moderation_review_restore(c, u, t)
                               \/ moderation_photo_hide(c, u, t)
                               \/ moderation_photo_restore(c, u, t)
                               \/ moderation_parking_invalidate(c, u, t)
                               \/ moderation_parking_restore(c, u, t)
    \/ \E c \in Clients : \/ create(c) \/ resolve(c) \/ hide_resolved_target(c)
                          \/ RecordAudit(c) \/ Fail(c)
    \/ \E t \in Targets : approve_photo(t)
    \/ \E u \in Users : anonymize(u)

Spec == Init /\ [][Next]_vars

-----------------------------------------------------------------------------
\* Properties

\* A moderator resolves a report of their own only when the account that claimed it
\* has been erased: the erasure clears reporter_id too, which is all the self-resolve
\* guard has to go by.
OwnReportOnlyIfScrubbed ==
    \A r \in ReportIds : judge[r] # None /\ judge[r] = filer[r]
                         => claimer[r] \in erased \ {filer[r]}

\* A report is claimed once and settled once, and the log says what the row says,
\* although moderators race for it.
AuditedOnce ==
    \A r \in ReportIds :
        /\ audit[r].claimed <= 1
        /\ audit[r].resolved + audit[r].dismissed <= 1
        /\ audit[r].resolved = 1 => report[r].state = "RESOLVED"
        /\ audit[r].dismissed = 1 => report[r].state = "DISMISSED"

InTakedown(r) == \E c \in Clients : req[c].pc = "takedown" /\ req[c].report = r

\* What a resolved report was about is not published, unless the request was cut off
\* between the two statements or a moderator published it afterwards.
ResolvedIsTakenDown ==
    \A r \in ReportIds :
        report[r].state = "RESOLVED" /\ ~InTakedown(r) /\ r \notin cut \cup shown
        => ~Visible(report[r].target)

\* The client is told that it is done only when the request has changed its row,
\* and that the state did not allow it only when the request has changed nothing.
AnswerTruthful ==
    \A c \in Clients : /\ answer[c] = "ok" => did[c]
                       /\ answer[c] = "conflict" => ~did[c]
=============================================================================
