--------------------------- MODULE ReportsProofs ---------------------------
(***************************************************************************)
(* Theorems about Reports for every set of accounts, moderators, clients,  *)
(* reports and things to report.                                           *)
(***************************************************************************)
EXTENDS Reports, TLAPS

-----------------------------------------------------------------------------
\* The inductive invariant, part by part

Settled(r) == report[r].state \in {"RESOLVED", "DISMISSED"}

\* A client that has yet to record the claim, or the end, of a report.
OwesClaim(c, r) == req[c].pc = "audit" /\ req[c].event = "claimed" /\ req[c].report = r
OwesEnd(c, r) == /\ req[c].report = r
                 /\ \/ req[c].pc = "takedown"
                    \/ req[c].pc = "audit" /\ req[c].event \in {"resolved", "dismissed"}

\* What a request knows at each point, and what its report is like then.
Carries(c) ==
    /\ req[c].pc = "create" => req[c].user \in Users /\ req[c].target \in Targets
    /\ req[c].pc \in {"resolve", "takedown"} =>
         /\ req[c].user \in Users /\ req[c].report \in ReportIds
         /\ req[c].outcome \in ReportOutcome
         /\ req[c].target = report[req[c].report].target
         /\ report[req[c].report].state # "absent"
    /\ req[c].pc = "takedown" => report[req[c].report].state = "RESOLVED"
    /\ req[c].pc = "audit" => did[c]
    /\ req[c].pc = "audit" /\ req[c].event = "claimed" =>
         /\ req[c].report \in ReportIds
         /\ report[req[c].report].state \notin {"absent", "OPEN"}
    /\ req[c].pc = "audit" /\ req[c].event = "resolved" =>
         req[c].report \in ReportIds /\ report[req[c].report].state = "RESOLVED"
    /\ req[c].pc = "audit" /\ req[c].event = "dismissed" =>
         req[c].report \in ReportIds /\ report[req[c].report].state = "DISMISSED"
Carried == \A c \in Clients : Carries(c)

\* An event is recorded or owed by one client, never both.
Logs(r) ==
    /\ audit[r].claimed \in {0, 1}
    /\ audit[r].resolved = 0 \/ audit[r].dismissed = 0
    /\ audit[r].resolved \in {0, 1} /\ audit[r].dismissed \in {0, 1}
    /\ audit[r].claimed = 1 => report[r].state \notin {"absent", "OPEN"}
    /\ audit[r].resolved = 1 => report[r].state = "RESOLVED"
    /\ audit[r].dismissed = 1 => report[r].state = "DISMISSED"
    /\ \A c \in Clients : OwesClaim(c, r) => audit[r].claimed = 0
    /\ \A c \in Clients : OwesEnd(c, r) => audit[r].resolved = 0 /\ audit[r].dismissed = 0
    /\ \A c, d \in Clients : OwesClaim(c, r) /\ OwesClaim(d, r) => c = d
    /\ \A c, d \in Clients : OwesEnd(c, r) /\ OwesEnd(d, r) => c = d
Logged == \A r \in ReportIds : Logs(r)

\* The columns name the filer, the claimant and the resolver or nobody; a row without a
\* reporter lost it with one of the accounts it named.
Names(r) ==
    /\ report[r].reporter \in {filer[r], None}
    /\ report[r].claimed_by \in {claimer[r], None}
    /\ report[r].state \in {"absent", "OPEN"} =>
         /\ claimer[r] = None /\ judge[r] = None
         /\ report[r].claimed_by = None /\ report[r].resolved_by = None
    /\ report[r].state = "UNDER_REVIEW" => judge[r] = None /\ report[r].resolved_by = None
    /\ report[r].state = "OPEN" /\ report[r].reporter = None => filer[r] \in erased
    /\ report[r].state = "UNDER_REVIEW" /\ report[r].reporter = None =>
         filer[r] \in erased \/ claimer[r] \in erased
    /\ judge[r] # None /\ judge[r] = filer[r] => claimer[r] \in erased \ {filer[r]}
Named == \A r \in ReportIds : Names(r)

\* Whoever is about to resolve a report of their own got past the guard because the
\* claimant was erased, or comes too late.
Judges(c) ==
    req[c].pc = "resolve" /\ req[c].user = filer[req[c].report] =>
        Settled(req[c].report) \/ claimer[req[c].report] \in erased \ {req[c].user}
Judged == \A c \in Clients : Judges(c)

\* The inductive invariant.
IInv == /\ TypeOK
        /\ Carried
        /\ Logged
        /\ Named
        /\ Judged
        /\ ResolvedIsTakenDown
        /\ AnswerTruthful

-----------------------------------------------------------------------------
LEMMA Consequences == IInv => OwnReportOnlyIfScrubbed /\ AuditedOnce
<1> SUFFICES ASSUME IInv PROVE OwnReportOnlyIfScrubbed /\ AuditedOnce
  OBVIOUS
<1>1. OwnReportOnlyIfScrubbed
  BY DEF IInv, Named, Names, OwnReportOnlyIfScrubbed
<1>2. AuditedOnce
  <2> SUFFICES ASSUME NEW r \in ReportIds
               PROVE  /\ audit[r].claimed <= 1
                      /\ audit[r].resolved + audit[r].dismissed <= 1
                      /\ audit[r].resolved = 1 => report[r].state = "RESOLVED"
                      /\ audit[r].dismissed = 1 => report[r].state = "DISMISSED"
    BY DEF AuditedOnce
  <2> Logs(r)
    BY DEF IInv, Logged
  <2> QED
    BY DEF Logs
<1> QED
  BY <1>1, <1>2

LEMMA InitEstablishes == Init => IInv
<1> SUFFICES ASSUME Init PROVE IInv
  OBVIOUS
<1>0. ASSUME NEW r \in ReportIds
      PROVE  /\ report[r] \in ReportRow \cup {NoReport}
             /\ report[r].state \in {"absent", "OPEN"}
             /\ report[r].state = "OPEN" => report[r].reporter \in Users
             /\ report[r].reporter \in Users \cup {None}
             /\ report[r].claimed_by = None /\ report[r].resolved_by = None
  <2>1. CASE report[r] = NoReport
    BY <2>1 DEF NoReport
  <2>2. CASE report[r] # NoReport
    <3>1. PICK u \in Users, t \in Targets : report[r] = OpenReport(u, t)
      BY <2>2 DEF Init
    <3> QED
      BY <3>1 DEF OpenReport, NoReport, ReportRow, ReportState
  <2> QED
    BY <2>1, <2>2
<1>1. TypeOK
  <2>1. report \in [ReportIds -> ReportRow \cup {NoReport}]
    BY <1>0 DEF Init
  <2>2. filer \in [ReportIds -> Users \cup {None}]
    BY <1>0 DEF Init
  <2>3. Idle \in Request
    BY DEF Idle, Request, Event
  <2>4. [claimed |-> 0, resolved |-> 0, dismissed |-> 0] \in [claimed: Nat, resolved: Nat, dismissed: Nat]
    OBVIOUS
  <2>5. /\ content \in [Targets -> ContentState]
        /\ audit \in [ReportIds -> [claimed: Nat, resolved: Nat, dismissed: Nat]]
        /\ req \in [Clients -> Request]
        /\ answer \in [Clients -> Answer]
        /\ did \in [Clients -> BOOLEAN]
    BY <2>3, <2>4 DEF Init, Answer
  <2>6. /\ claimer \in [ReportIds -> Users \cup {None}]
        /\ judge \in [ReportIds -> Users \cup {None}]
        /\ begun \in 0 .. MaxRequests
        /\ erased \subseteq Users /\ cut \subseteq ReportIds /\ shown \subseteq ReportIds
    BY BoundAssumption DEF Init
  <2> QED
    BY <2>1, <2>2, <2>5, <2>6 DEF TypeOK
<1>2. \A c \in Clients : req[c] = Idle
  BY DEF Init
<1>3. Carried /\ Judged
  BY <1>2 DEF Carried, Carries, Judged, Judges, Idle
<1>4. Logged
  <2> SUFFICES ASSUME NEW r \in ReportIds PROVE Logs(r)
    BY DEF Logged
  <2>1. audit[r].claimed = 0 /\ audit[r].resolved = 0 /\ audit[r].dismissed = 0
    BY DEF Init
  <2>2. \A c \in Clients : ~OwesClaim(c, r) /\ ~OwesEnd(c, r)
    BY <1>2 DEF OwesClaim, OwesEnd, Idle
  <2> QED
    BY <2>1, <2>2 DEF Logs
<1>5. Named
  BY <1>0, NoneAssumption DEF Init, Named, Names
<1>6. ResolvedIsTakenDown
  BY <1>0 DEF ResolvedIsTakenDown
<1>7. AnswerTruthful
  BY DEF Init, AnswerTruthful
<1> QED
  BY <1>1, <1>3, <1>4, <1>5, <1>6, <1>7 DEF IInv

-----------------------------------------------------------------------------
\* One client moves, to a record that is spelled out; the others stay.
Moved(c, rec, change, told) ==
    /\ \A d \in Clients : req'[d] = IF d = c THEN rec ELSE req[d]
    /\ \A d \in Clients : did'[d] = IF d = c THEN change ELSE did[d]
    /\ \A d \in Clients : answer'[d] = IF d = c THEN told ELSE answer[d]

LEMMA Moves ==
    ASSUME TypeOK, NEW c \in Clients, NEW rec \in Request, NEW change \in BOOLEAN,
           NEW told \in Answer,
           req' = [req EXCEPT ![c] = rec],
           did' = [did EXCEPT ![c] = change],
           answer' = [answer EXCEPT ![c] = told]
    PROVE  /\ req' \in [Clients -> Request]
           /\ did' \in [Clients -> BOOLEAN]
           /\ answer' \in [Clients -> Answer]
           /\ Moved(c, rec, change, told)
BY DEF TypeOK, Moved

LEMMA Refusal ==
    ASSUME TypeOK, NEW c \in Clients, Refuse(c)
    PROVE  /\ req' \in [Clients -> Request]
           /\ did' \in [Clients -> BOOLEAN]
           /\ answer' \in [Clients -> Answer]
           /\ Moved(c, Idle, FALSE, "conflict")
<1>1. Idle \in Request /\ "conflict" \in Answer /\ FALSE \in BOOLEAN
  BY DEF Idle, Request, Answer, Event
<1> QED
  BY <1>1, Moves DEF Refuse

Auditing(u, r, t, e) == [Idle EXCEPT !.pc = "audit", !.user = u, !.report = r, !.target = t,
                                     !.event = e]

LEMMA Audits ==
    ASSUME TypeOK, NEW c \in Clients, NEW u \in Users, NEW r \in ReportIds \cup {None},
           NEW t \in Targets \cup {None}, NEW e \in Event, ThenAudit(c, u, r, t, e)
    PROVE  /\ req' \in [Clients -> Request]
           /\ did' \in [Clients -> BOOLEAN]
           /\ answer' \in [Clients -> Answer]
           /\ Moved(c, Auditing(u, r, t, e), TRUE, "none")
<1>1. Auditing(u, r, t, e) \in Request /\ "none" \in Answer /\ TRUE \in BOOLEAN
  BY DEF Idle, Request, Answer, Event, Auditing
<1> QED
  BY <1>1, Moves DEF ThenAudit, Continue, Auditing

\* A client that moves to a point where it owes nothing and is not resolving, while the
\* reports and the log stay as they are.
LEMMA Quiet ==
    ASSUME IInv, NEW c \in Clients, NEW rec \in Request, NEW change \in BOOLEAN,
           NEW told \in Answer, Moved(c, rec, change, told),
           \/ rec.pc = "idle"
           \/ rec.pc = "create" /\ rec.user \in Users /\ rec.target \in Targets
           \/ rec.pc = "audit" /\ rec.event \in {"none", "created"} /\ change,
           UNCHANGED <<report, audit, erased, filer, claimer, judge>>
    PROVE  Carried' /\ Logged' /\ Named' /\ Judged'
<1>1. Carried'
  <2> SUFFICES ASSUME NEW d \in Clients PROVE Carries(d)'
    BY DEF Carried
  <2>1. Carries(d)
    BY DEF IInv, Carried
  <2> QED
    BY <2>1 DEF Carries, Moved
<1>2. Logged'
  <2> SUFFICES ASSUME NEW r \in ReportIds PROVE Logs(r)'
    BY DEF Logged
  <2>1. Logs(r)
    BY DEF IInv, Logged
  <2>2. \A d \in Clients : /\ OwesClaim(d, r)' => OwesClaim(d, r)
                           /\ OwesEnd(d, r)' => OwesEnd(d, r)
    BY DEF OwesClaim, OwesEnd, Moved
  <2> QED
    BY <2>1, <2>2 DEF Logs
<1>3. Named'
  BY DEF IInv, Named, Names
<1>4. Judged'
  BY DEF IInv, Judged, Judges, Moved, Settled
<1> QED
  BY <1>1, <1>2, <1>3, <1>4

\* What the client is told and what it has done go together.
LEMMA Truthful ==
    ASSUME IInv, NEW c \in Clients, NEW rec \in Request, NEW change \in BOOLEAN,
           NEW told \in Answer, Moved(c, rec, change, told),
           told = "ok" => change, told = "conflict" => ~change
    PROVE  AnswerTruthful'
BY DEF IInv, AnswerTruthful, Moved

\* Nothing is published, no report becomes resolved and nobody abandons a takedown.
LEMMA KeepsDown ==
    ASSUME IInv, NEW c \in Clients, NEW rec \in Request, NEW change \in BOOLEAN,
           NEW told \in Answer, Moved(c, rec, change, told), req[c].pc # "takedown",
           \A r \in ReportIds : report'[r].state = "RESOLVED" =>
               report[r].state = "RESOLVED" /\ report'[r].target = report[r].target,
           \A t \in Targets : content'[t] = Up(t) => content[t] = Up(t),
           cut' = cut, shown \subseteq shown'
    PROVE  ResolvedIsTakenDown'
<1> SUFFICES ASSUME NEW r \in ReportIds, report'[r].state = "RESOLVED", ~InTakedown(r)',
                    r \notin cut', r \notin shown'
             PROVE  content'[report'[r].target] # Up(report'[r].target)
  BY DEF ResolvedIsTakenDown, Visible
<1>1. ~InTakedown(r)
  BY DEF InTakedown, Moved
<1>2. content[report[r].target] # Up(report[r].target)
  BY <1>1 DEF IInv, ResolvedIsTakenDown, Visible
<1>3. report[r].target \in Targets
  BY DEF IInv, TypeOK, ReportRow, NoReport
<1> QED
  BY <1>2, <1>3

\* Reports only move on, and keep their target.
Onward == \A q \in ReportIds :
    /\ report[q].state # "absent" => /\ report'[q].state # "absent"
                                     /\ report'[q].target = report[q].target
    /\ report[q].state \notin {"absent", "OPEN"} => report'[q].state \notin {"absent", "OPEN"}
    /\ report[q].state \in {"RESOLVED", "DISMISSED"} => report'[q].state = report[q].state

LEMMA OthersCarry ==
    ASSUME IInv, NEW c \in Clients, NEW rec \in Request, NEW change \in BOOLEAN,
           NEW told \in Answer, Moved(c, rec, change, told), Onward,
           NEW d \in Clients, d # c
    PROVE  Carries(d)'
<1>1. Carries(d)
  BY DEF IInv, Carried
<1>2. req'[d] = req[d] /\ did'[d] = did[d]
  BY DEF Moved
<1> QED
  BY <1>1, <1>2 DEF Carries, Onward

-----------------------------------------------------------------------------
\* The actions

LEMMA SubmitStep ==
    ASSUME IInv, NEW c \in Clients, NEW u \in Users, NEW t \in Targets, NEW reason,
           submit_report(c, u, t, reason)
    PROVE  IInv'
<1> DEFINE rec == [Idle EXCEPT !.pc = "create", !.user = u, !.target = t]
<1>1. rec \in Request /\ rec.pc = "create" /\ rec.user = u /\ rec.target = t
  BY DEF Idle, Request, Event
<1>2. Continue(c, rec, FALSE) /\ FALSE \in BOOLEAN /\ "none" \in Answer
  BY DEF submit_report, Answer
<1> HIDE DEF rec
<1>3. /\ req' \in [Clients -> Request]
      /\ did' \in [Clients -> BOOLEAN]
      /\ answer' \in [Clients -> Answer]
      /\ Moved(c, rec, FALSE, "none")
  BY <1>1, <1>2, Moves DEF Continue, IInv
<1>4. UNCHANGED <<table, erased, history>> /\ begun' = begun + 1 /\ begun < MaxRequests
      /\ req[c].pc = "idle"
  BY DEF submit_report, Begin
<1>5. TypeOK'
  BY <1>3, <1>4, BoundAssumption DEF IInv, TypeOK, table, history
<1>6. Carried' /\ Logged' /\ Named' /\ Judged'
  BY <1>1, <1>2, <1>3, <1>4, Quiet DEF table, history
<1>7. ResolvedIsTakenDown'
  BY <1>1, <1>2, <1>3, <1>4, KeepsDown DEF table, history
<1>8. AnswerTruthful'
  BY <1>1, <1>2, <1>3, Truthful
<1> QED
  BY <1>5, <1>6, <1>7, <1>8 DEF IInv

\* A request that is refused when it begins changes nothing.
LEMMA RefusedStep ==
    ASSUME IInv, NEW c \in Clients, Refuse(c), req[c].pc # "takedown",
           begun' \in 0 .. MaxRequests,
           UNCHANGED <<table, erased, filer, claimer, judge, cut>>,
           shown \subseteq shown', shown' \subseteq ReportIds
    PROVE  IInv'
<1>1. /\ req' \in [Clients -> Request]
      /\ did' \in [Clients -> BOOLEAN]
      /\ answer' \in [Clients -> Answer]
      /\ Moved(c, Idle, FALSE, "conflict")
  BY Refusal DEF IInv
<1>2. Idle \in Request /\ Idle.pc = "idle" /\ FALSE \in BOOLEAN /\ "conflict" \in Answer
  BY DEF Idle, Request, Event, Answer
<1>3. TypeOK'
  BY <1>1 DEF IInv, TypeOK, table
<1>4. Carried' /\ Logged' /\ Named' /\ Judged'
  BY <1>1, <1>2, Quiet DEF table
<1>5. ResolvedIsTakenDown'
  BY <1>1, <1>2, KeepsDown DEF table
<1>6. AnswerTruthful'
  BY <1>1, <1>2, Truthful
<1> QED
  BY <1>3, <1>4, <1>5, <1>6 DEF IInv

LEMMA CreateStep ==
    ASSUME IInv, NEW c \in Clients, create(c)
    PROVE  IInv'
<1> DEFINE u == req[c].user
           t == req[c].target
<1>1. CASE AlreadyReported(u, t)
  BY <1>1, RefusedStep DEF create, table, IInv, TypeOK
<1>2. CASE ~AlreadyReported(u, t)
  <2>1. u \in Users /\ t \in Targets /\ req[c].pc = "create"
    BY DEF create, IInv, Carried, Carries
  <2>2. PICK r \in ReportIds : /\ report[r].state = "absent"
                               /\ report' = [report EXCEPT ![r] = OpenReport(u, t)]
                               /\ filer' = [filer EXCEPT ![r] = u]
                               /\ ThenAudit(c, u, r, t, "created")
    BY <1>2 DEF create
  <2>3. UNCHANGED <<content, audit, erased, begun, claimer, judge, cut, shown>>
    BY DEF create
  <2> HIDE DEF u, t
  <2>4. OpenReport(u, t) \in ReportRow /\ OpenReport(u, t).state = "OPEN"
        /\ OpenReport(u, t).target = t /\ OpenReport(u, t).reporter = u
        /\ OpenReport(u, t).claimed_by = None /\ OpenReport(u, t).resolved_by = None
    BY <2>1 DEF OpenReport, NoReport, ReportRow, ReportState
  <2>5. /\ \A q \in ReportIds : report'[q] = IF q = r THEN OpenReport(u, t) ELSE report[q]
        /\ \A q \in ReportIds : filer'[q] = IF q = r THEN u ELSE filer[q]
        /\ report' \in [ReportIds -> ReportRow \cup {NoReport}]
        /\ filer' \in [ReportIds -> Users \cup {None}]
    BY <2>1, <2>2, <2>4 DEF IInv, TypeOK
  <2> DEFINE rec == Auditing(u, r, t, "created")
  <2>6. rec \in Request /\ rec.pc = "audit" /\ rec.event = "created" /\ rec.report = r
    BY <2>1 DEF Auditing, Idle, Request, Event
  <2>7. "created" \in Event /\ TRUE \in BOOLEAN /\ "none" \in Answer
    BY DEF Event, Answer
  <2>8. /\ req' \in [Clients -> Request]
        /\ did' \in [Clients -> BOOLEAN]
        /\ answer' \in [Clients -> Answer]
        /\ Moved(c, rec, TRUE, "none")
    BY <2>1, <2>2, <2>7, Audits DEF IInv
  <2> HIDE DEF rec
  <2>9. TypeOK'
    BY <2>3, <2>5, <2>8 DEF IInv, TypeOK
  <2>10. Carried'
    <3> SUFFICES ASSUME NEW d \in Clients PROVE Carries(d)'
      BY DEF Carried
    <3>1. Carries(d)
      BY DEF IInv, Carried
    <3> QED
      BY <3>1, <2>2, <2>4, <2>5, <2>6, <2>8 DEF Carries, Moved
  <2>11. Logged'
    <3> SUFFICES ASSUME NEW q \in ReportIds PROVE Logs(q)'
      BY DEF Logged
    <3>1. Logs(q)
      BY DEF IInv, Logged
    <3>2. \A d \in Clients : /\ OwesClaim(d, q)' => OwesClaim(d, q)
                             /\ OwesEnd(d, q)' => OwesEnd(d, q)
      BY <2>6, <2>8 DEF OwesClaim, OwesEnd, Moved
    <3> QED
      BY <3>1, <3>2, <2>2, <2>3, <2>4, <2>5 DEF Logs
  <2>12. Named'
    <3> SUFFICES ASSUME NEW q \in ReportIds PROVE Names(q)'
      BY DEF Named
    <3>1. Names(q)
      BY DEF IInv, Named
    <3> QED
      BY <3>1, <2>1, <2>2, <2>3, <2>4, <2>5, NoneAssumption DEF Names
  <2>13. Judged'
    <3> SUFFICES ASSUME NEW d \in Clients PROVE Judges(d)'
      BY DEF Judged
    <3>1. Judges(d) /\ Carries(d)
      BY DEF IInv, Judged, Carried
    <3> QED
      BY <3>1, <2>2, <2>3, <2>4, <2>5, <2>6, <2>8 DEF Judges, Carries, Settled, Moved
  <2>14. ResolvedIsTakenDown'
    BY <2>1, <2>3, <2>4, <2>5, <2>6, <2>7, <2>8, KeepsDown
  <2>15. AnswerTruthful'
    BY <2>6, <2>7, <2>8, Truthful
  <2> QED
    BY <2>9, <2>10, <2>11, <2>12, <2>13, <2>14, <2>15 DEF IInv
<1> QED
  BY <1>1, <1>2

LEMMA ClaimStep ==
    ASSUME IInv, NEW c \in Clients, NEW m \in Users, NEW r \in ReportIds, claim_report(c, m, r)
    PROVE  IInv'
<1>0. begun' \in 0 .. MaxRequests /\ req[c].pc = "idle" /\ m \notin erased
      /\ UNCHANGED <<content, audit, erased, filer, judge, cut, shown>>
  BY BoundAssumption DEF claim_report, Begin, IInv, TypeOK
<1>1. CASE Refuse(c) /\ UNCHANGED <<report, claimer>>
  BY <1>0, <1>1, RefusedStep DEF table, IInv, TypeOK
<1>2. CASE claim(r, m) /\ ThenAudit(c, m, r, report[r].target, "claimed")
  <2> DEFINE row == [report[r] EXCEPT !.state = "UNDER_REVIEW", !.claimed_by = m]
             rec == Auditing(m, r, report[r].target, "claimed")
  <2>1. report[r] \in ReportRow /\ report[r].state = "OPEN"
    BY <1>2 DEF claim, IInv, TypeOK, NoReport
  <2>2. row \in ReportRow /\ row.state = "UNDER_REVIEW" /\ row.claimed_by = m
        /\ row.target = report[r].target /\ row.reporter = report[r].reporter
        /\ row.resolved_by = report[r].resolved_by
    BY <2>1 DEF ReportRow, ReportState
  <2>3. report' = [report EXCEPT ![r] = row] /\ claimer' = [claimer EXCEPT ![r] = m]
    BY <1>2 DEF claim, IInv, TypeOK
  <2>4. rec \in Request /\ rec.pc = "audit" /\ rec.event = "claimed" /\ rec.report = r
    BY <2>1 DEF Auditing, Idle, Request, Event, ReportRow
  <2>5. "claimed" \in Event /\ TRUE \in BOOLEAN /\ "none" \in Answer
        /\ report[r].target \in Targets
    BY <2>1 DEF Event, Answer, ReportRow
  <2>6. /\ req' \in [Clients -> Request]
        /\ did' \in [Clients -> BOOLEAN]
        /\ answer' \in [Clients -> Answer]
        /\ Moved(c, rec, TRUE, "none")
    BY <1>2, <2>5, Audits DEF IInv
  <2> HIDE DEF row, rec
  <2>7. /\ \A q \in ReportIds : report'[q] = IF q = r THEN row ELSE report[q]
        /\ \A q \in ReportIds : claimer'[q] = IF q = r THEN m ELSE claimer[q]
        /\ report' \in [ReportIds -> ReportRow \cup {NoReport}]
        /\ claimer' \in [ReportIds -> Users \cup {None}]
    BY <2>2, <2>3 DEF IInv, TypeOK
  <2>8. TypeOK'
    BY <1>0, <2>6, <2>7 DEF IInv, TypeOK
  <2>9. Carried'
    <3> SUFFICES ASSUME NEW d \in Clients PROVE Carries(d)'
      BY DEF Carried
    <3>1. CASE d = c
      BY <3>1, <2>2, <2>4, <2>6, <2>7 DEF Carries, Moved
    <3>2. CASE d # c
      BY <3>2, <2>1, <2>2, <2>5, <2>6, <2>7, <2>4, OthersCarry DEF Onward
    <3> QED
      BY <3>1, <3>2
  <2>10. Logged'
    <3> SUFFICES ASSUME NEW q \in ReportIds PROVE Logs(q)'
      BY DEF Logged
    <3>1. Logs(q) /\ Logs(r)
      BY DEF IInv, Logged
    <3>2. \A d \in Clients : ~OwesClaim(d, r) /\ ~OwesEnd(d, r)
      <4> SUFFICES ASSUME NEW d \in Clients PROVE ~OwesClaim(d, r) /\ ~OwesEnd(d, r)
        OBVIOUS
      <4>1. Carries(d)
        BY DEF IInv, Carried
      <4> QED
        BY <4>1, <2>1 DEF Carries, OwesClaim, OwesEnd
    <3>3. \A d \in Clients : /\ OwesClaim(d, q)' => OwesClaim(d, q) \/ (d = c /\ q = r)
                             /\ OwesEnd(d, q)' => OwesEnd(d, q)
      <4> SUFFICES ASSUME NEW d \in Clients
                   PROVE  /\ OwesClaim(d, q)' => OwesClaim(d, q) \/ (d = c /\ q = r)
                          /\ OwesEnd(d, q)' => OwesEnd(d, q)
        OBVIOUS
      <4>1. CASE d = c
        BY <4>1, <2>4, <2>6 DEF OwesClaim, OwesEnd, Moved
      <4>2. CASE d # c
        <5>1. req'[d] = req[d]
          BY <4>2, <2>6 DEF Moved
        <5> QED
          BY <5>1 DEF OwesClaim, OwesEnd
      <4> QED
        BY <4>1, <4>2
    <3>4. CASE q = r
      BY <3>1, <3>2, <3>3, <3>4, <1>0, <2>1, <2>2, <2>7 DEF Logs
    <3>5. CASE q # r
      BY <3>1, <3>3, <3>5, <1>0, <2>7 DEF Logs
    <3> QED
      BY <3>4, <3>5
  <2>11. Named'
    <3> SUFFICES ASSUME NEW q \in ReportIds PROVE Names(q)'
      BY DEF Named
    <3>1. Names(q)
      BY DEF IInv, Named
    <3> QED
      BY <3>1, <1>0, <2>1, <2>2, <2>7, NoneAssumption DEF Names
  <2>12. Judged'
    <3> SUFFICES ASSUME NEW d \in Clients PROVE Judges(d)'
      BY DEF Judged
    <3>1. Judges(d) /\ Carries(d) /\ Names(r) /\ erased \subseteq Users
      BY DEF IInv, Judged, Carried, Named, TypeOK
    <3> QED
      BY <3>1, <1>0, <2>1, <2>2, <2>4, <2>6, <2>7, NoneAssumption
      DEF Judges, Carries, Names, Settled, Moved
  <2>13. ResolvedIsTakenDown'
    BY <1>0, <2>2, <2>4, <2>5, <2>6, <2>7, KeepsDown
  <2>14. AnswerTruthful'
    BY <2>4, <2>5, <2>6, Truthful
  <2> QED
    BY <2>8, <2>9, <2>10, <2>11, <2>12, <2>13, <2>14 DEF IInv
<1> QED
  BY <1>1, <1>2 DEF claim_report

LEMMA ResolveReportStep ==
    ASSUME IInv, NEW c \in Clients, NEW m \in Users, NEW r \in ReportIds,
           NEW o \in ReportOutcome, resolve_report(c, m, r, o)
    PROVE  IInv'
<1>0. begun' \in 0 .. MaxRequests /\ req[c].pc = "idle" /\ m \notin erased
      /\ report[r].state # "absent" /\ UNCHANGED <<table, erased, history>>
  BY BoundAssumption DEF resolve_report, Begin, IInv, TypeOK
<1>1. CASE Refuse(c)
  BY <1>0, <1>1, RefusedStep DEF table, history, IInv, TypeOK
<1>2. CASE ~Refuse(c)
  <2> DEFINE rec == [Idle EXCEPT !.pc = "resolve", !.user = m, !.report = r,
                                 !.target = report[r].target, !.outcome = o]
  <2>1. report[r] \in ReportRow /\ report[r].reporter # m /\ Continue(c, rec, FALSE)
    <3>1. report[r] \in ReportRow
      BY <1>0 DEF IInv, TypeOK, NoReport
    <3>2. report[r].reporter # m /\ Continue(c, rec, FALSE)
      BY <1>2 DEF resolve_report
    <3> QED
      BY <3>1, <3>2
  <2>2. rec \in Request /\ rec.pc = "resolve" /\ rec.user = m /\ rec.report = r
        /\ rec.target = report[r].target /\ rec.outcome = o
    BY <2>1 DEF Idle, Request, Event, ReportRow
  <2> HIDE DEF rec
  <2>3. FALSE \in BOOLEAN /\ "none" \in Answer
    BY DEF Answer
  <2>4. /\ req' \in [Clients -> Request]
        /\ did' \in [Clients -> BOOLEAN]
        /\ answer' \in [Clients -> Answer]
        /\ Moved(c, rec, FALSE, "none")
    BY <2>1, <2>2, <2>3, Moves DEF Continue, IInv
  <2>5. TypeOK'
    BY <1>0, <2>4 DEF IInv, TypeOK, table, history
  <2>6. Carried'
    <3> SUFFICES ASSUME NEW d \in Clients PROVE Carries(d)'
      BY DEF Carried
    <3>1. CASE d = c
      BY <3>1, <1>0, <2>2, <2>4 DEF Carries, Moved, table
    <3>2. CASE d # c
      BY <3>2, <1>0, <2>2, <2>3, <2>4, OthersCarry DEF Onward, table
    <3> QED
      BY <3>1, <3>2
  <2>7. Logged'
    <3> SUFFICES ASSUME NEW q \in ReportIds PROVE Logs(q)'
      BY DEF Logged
    <3>1. Logs(q)
      BY DEF IInv, Logged
    <3>2. \A d \in Clients : /\ OwesClaim(d, q)' => OwesClaim(d, q)
                             /\ OwesEnd(d, q)' => OwesEnd(d, q)
      BY <2>2, <2>4 DEF OwesClaim, OwesEnd, Moved
    <3> QED
      BY <3>1, <3>2, <1>0 DEF Logs, table
  <2>8. Named'
    BY <1>0 DEF IInv, Named, Names, table, history
  <2>9. Judged'
    <3> SUFFICES ASSUME NEW d \in Clients PROVE Judges(d)'
      BY DEF Judged
    <3>1. CASE d = c
      <4>1. Names(r) /\ report[r].state \in ReportState
        BY <2>1 DEF IInv, Named, ReportRow
      <4>2. m = filer[r] => Settled(r) \/ claimer[r] \in erased \ {m}
        BY <4>1, <1>0, <2>1 DEF Names, Settled, ReportState
      <4>3. req'[d] = rec
        BY <3>1, <2>4 DEF Moved
      <4> QED
        BY <4>2, <4>3, <1>0, <2>2 DEF Judges, Settled, table, history
    <3>2. CASE d # c
      <4>1. Judges(d) /\ req'[d] = req[d]
        BY <3>2, <2>4 DEF IInv, Judged, Moved
      <4> QED
        BY <4>1, <1>0 DEF Judges, Settled, table, history
    <3> QED
      BY <3>1, <3>2
  <2>10. ResolvedIsTakenDown'
    BY <1>0, <2>2, <2>3, <2>4, KeepsDown DEF table, history
  <2>11. AnswerTruthful'
    BY <2>2, <2>3, <2>4, Truthful
  <2> QED
    BY <2>5, <2>6, <2>7, <2>8, <2>9, <2>10, <2>11 DEF IInv
<1> QED
  BY <1>1, <1>2

LEMMA ResolveStep ==
    ASSUME IInv, NEW c \in Clients, resolve(c)
    PROVE  IInv'
<1> DEFINE r == req[c].report
           m == req[c].user
           o == req[c].outcome
<1>0. req[c].pc = "resolve" /\ UNCHANGED <<content, audit, erased, begun, filer, claimer, cut, shown>>
  BY DEF resolve
<1>1. r \in ReportIds /\ m \in Users /\ o \in ReportOutcome /\ req[c] \in Request
      /\ req[c].target = report[r].target
  BY <1>0 DEF IInv, TypeOK, Carried, Carries
<1>2. CASE report[r].state # "UNDER_REVIEW"
  BY <1>0, <1>2, RefusedStep DEF resolve, table, IInv, TypeOK
<1>3. CASE report[r].state = "UNDER_REVIEW"
  <2> DEFINE row == [report[r] EXCEPT !.state = o, !.resolved_by = m]
             rec == IF o = "RESOLVED" THEN [req[c] EXCEPT !.pc = "takedown"]
                    ELSE Auditing(m, r, req[c].target, "dismissed")
  <2>1. report[r] \in ReportRow
    BY <1>1, <1>3 DEF IInv, TypeOK, NoReport
  <2>2. row \in ReportRow /\ row.state = o /\ row.target = report[r].target
        /\ row.reporter = report[r].reporter /\ row.claimed_by = report[r].claimed_by
    BY <1>1, <2>1 DEF ReportRow, ReportState, ReportOutcome
  <2>3. report' = [report EXCEPT ![r] = row] /\ judge' = [judge EXCEPT ![r] = m]
    BY <1>1, <1>3 DEF resolve, IInv, TypeOK
  <2>4. rec \in Request /\ rec.report = r
        /\ \/ /\ o = "RESOLVED" /\ rec.pc = "takedown" /\ rec.user = m
              /\ rec.outcome = o /\ rec.target = report[r].target
           \/ o = "DISMISSED" /\ rec.pc = "audit" /\ rec.event = "dismissed"
    BY <1>1 DEF Auditing, Idle, Request, Event, ReportOutcome
  <2>5. TRUE \in BOOLEAN /\ "none" \in Answer
    BY DEF Answer
  <2>6. /\ req' \in [Clients -> Request]
        /\ did' \in [Clients -> BOOLEAN]
        /\ answer' \in [Clients -> Answer]
        /\ Moved(c, rec, TRUE, "none")
    <3>1. Continue(c, rec, TRUE)
      BY <1>3 DEF resolve, ThenAudit, Auditing
    <3> HIDE DEF rec
    <3> QED
      BY <3>1, <2>4, <2>5, Moves DEF IInv, Continue
  <2> HIDE DEF row, rec, r, m, o
  <2>7. /\ \A q \in ReportIds : report'[q] = IF q = r THEN row ELSE report[q]
        /\ \A q \in ReportIds : judge'[q] = IF q = r THEN m ELSE judge[q]
        /\ report' \in [ReportIds -> ReportRow \cup {NoReport}]
        /\ judge' \in [ReportIds -> Users \cup {None}]
    BY <1>1, <2>2, <2>3 DEF IInv, TypeOK
  <2>8. TypeOK'
    BY <1>0, <2>6, <2>7 DEF IInv, TypeOK
  <2>9. Carried'
    <3> SUFFICES ASSUME NEW d \in Clients PROVE Carries(d)'
      BY DEF Carried
    <3>1. CASE d = c
      <4>1. req'[d] = rec /\ did'[d]
        BY <3>1, <2>6 DEF Moved
      <4> QED
        BY <4>1, <1>1, <2>2, <2>4, <2>7 DEF Carries, ReportOutcome
    <3>2. CASE d # c
      BY <3>2, <1>1, <1>3, <2>2, <2>4, <2>5, <2>6, <2>7, OthersCarry DEF Onward, ReportOutcome
    <3> QED
      BY <3>1, <3>2
  <2>10. Logged'
    <3> SUFFICES ASSUME NEW q \in ReportIds PROVE Logs(q)'
      BY DEF Logged
    <3>1. Logs(q)
      BY DEF IInv, Logged
    <3>2. \A d \in Clients : ~OwesEnd(d, r)
      <4> SUFFICES ASSUME NEW d \in Clients PROVE ~OwesEnd(d, r)
        OBVIOUS
      <4>1. Carries(d)
        BY DEF IInv, Carried
      <4> QED
        BY <4>1, <1>3 DEF Carries, OwesEnd
    <3>3. \A d \in Clients : /\ OwesClaim(d, q)' => OwesClaim(d, q)
                             /\ OwesEnd(d, q)' => OwesEnd(d, q) \/ (d = c /\ q = r)
      <4> SUFFICES ASSUME NEW d \in Clients
                   PROVE  /\ OwesClaim(d, q)' => OwesClaim(d, q)
                          /\ OwesEnd(d, q)' => OwesEnd(d, q) \/ (d = c /\ q = r)
        OBVIOUS
      <4>1. CASE d = c
        <5>1. req'[d] = rec
          BY <4>1, <2>6 DEF Moved
        <5> QED
          BY <4>1, <5>1, <2>4 DEF OwesClaim, OwesEnd
      <4>2. CASE d # c
        <5>1. req'[d] = req[d]
          BY <4>2, <2>6 DEF Moved
        <5> QED
          BY <5>1 DEF OwesClaim, OwesEnd
      <4> QED
        BY <4>1, <4>2
    <3>4. CASE q = r
      <4>1. audit[r].resolved = 0 /\ audit[r].dismissed = 0
        BY <3>1, <3>4, <1>3 DEF Logs
      <4>2. report'[r].state \notin {"absent", "OPEN"}
        BY <1>1, <2>2, <2>7 DEF ReportOutcome
      <4> QED
        BY <3>1, <3>2, <3>3, <3>4, <4>1, <4>2, <1>0 DEF Logs
    <3>5. CASE q # r
      BY <3>1, <3>3, <3>5, <1>0, <2>7 DEF Logs
    <3> QED
      BY <3>4, <3>5
  <2>11. Named'
    <3> SUFFICES ASSUME NEW q \in ReportIds PROVE Names(q)'
      BY DEF Named
    <3>1. Names(q) /\ Judges(c)
      BY DEF IInv, Named, Judged
    <3>2. CASE q = r
      <4>1. m = filer[r] => claimer[r] \in erased \ {m}
        BY <3>1, <1>0, <1>3 DEF Judges, Settled, r, m
      <4> QED
        BY <3>1, <3>2, <4>1, <1>0, <1>1, <2>2, <2>7 DEF Names, ReportOutcome
    <3>3. CASE q # r
      BY <3>1, <3>3, <1>0, <2>7 DEF Names
    <3> QED
      BY <3>2, <3>3
  <2>12. Judged'
    <3> SUFFICES ASSUME NEW d \in Clients PROVE Judges(d)'
      BY DEF Judged
    <3>1. CASE d = c
      <4>1. req'[d] = rec
        BY <3>1, <2>6 DEF Moved
      <4> QED
        BY <4>1, <2>4 DEF Judges
    <3>2. CASE d # c
      <4>1. req'[d] = req[d] /\ Judges(d) /\ Carries(d)
        BY <3>2, <2>6 DEF Moved, IInv, Judged, Carried
      <4> QED
        BY <4>1, <1>0, <1>1, <2>2, <2>7 DEF Judges, Carries, Settled, ReportOutcome
    <3> QED
      BY <3>1, <3>2
  <2>13. ResolvedIsTakenDown'
    <3> SUFFICES ASSUME NEW q \in ReportIds, report'[q].state = "RESOLVED", ~InTakedown(q)',
                        q \notin cut', q \notin shown'
                 PROVE  content'[report'[q].target] # Up(report'[q].target)
      BY DEF ResolvedIsTakenDown, Visible
    <3>1. q # r
      <4> SUFFICES ASSUME q = r PROVE FALSE
        OBVIOUS
      <4>1. o = "RESOLVED" /\ req'[c] = rec
        BY <2>2, <2>6, <2>7 DEF Moved
      <4> QED
        BY <4>1, <2>4 DEF InTakedown
    <3>2. ~InTakedown(q)
      <4> SUFFICES ASSUME NEW d \in Clients, req[d].pc = "takedown", req[d].report = q
                   PROVE  FALSE
        BY DEF InTakedown
      <4>1. d # c
        BY <1>0
      <4>2. req'[d] = req[d]
        BY <4>1, <2>6 DEF Moved
      <4> QED
        BY <4>2 DEF InTakedown
    <3> QED
      BY <3>1, <3>2, <1>0, <2>7 DEF IInv, ResolvedIsTakenDown, Visible
  <2>14. AnswerTruthful'
    BY <2>4, <2>5, <2>6, Truthful
  <2> QED
    BY <2>8, <2>9, <2>10, <2>11, <2>12, <2>13, <2>14 DEF IInv
<1> QED
  BY <1>2, <1>3

LEMMA TakedownStep ==
    ASSUME IInv, NEW c \in Clients, hide_resolved_target(c)
    PROVE  IInv'
<1> DEFINE r == req[c].report
           t == req[c].target
           m == req[c].user
           rec == Auditing(m, r, t, "resolved")
<1>0. req[c].pc = "takedown" /\ UNCHANGED <<report, audit, erased, begun, history>>
      /\ ThenAudit(c, m, r, t, "resolved")
      /\ content' = IF Visible(t) THEN [content EXCEPT ![t] = Down(t)] ELSE content
  BY DEF hide_resolved_target
<1>1. r \in ReportIds /\ m \in Users /\ t = report[r].target /\ report[r].state = "RESOLVED"
  BY <1>0 DEF IInv, Carried, Carries
<1>2. t \in Targets
  BY <1>1 DEF IInv, TypeOK, ReportRow, NoReport
<1>3. Down(t) \in ContentState /\ Down(t) # Up(t)
  BY DEF Down, Up, ContentState
<1>4. rec \in Request /\ rec.pc = "audit" /\ rec.event = "resolved" /\ rec.report = r
  BY <1>1, <1>2 DEF Auditing, Idle, Request, Event
<1>5. "resolved" \in Event /\ TRUE \in BOOLEAN /\ "none" \in Answer
  BY DEF Event, Answer
<1>6. /\ req' \in [Clients -> Request]
      /\ did' \in [Clients -> BOOLEAN]
      /\ answer' \in [Clients -> Answer]
      /\ Moved(c, rec, TRUE, "none")
  BY <1>0, <1>1, <1>2, <1>5, Audits DEF IInv
<1> HIDE DEF r, t, m, rec
<1>7. /\ content' \in [Targets -> ContentState]
      /\ content'[t] # Up(t)
      /\ \A x \in Targets : content'[x] = Up(x) => content[x] = Up(x)
  BY <1>0, <1>2, <1>3 DEF IInv, TypeOK, Visible
<1>8. TypeOK'
  BY <1>0, <1>6, <1>7 DEF IInv, TypeOK, history
<1>9. Carried'
  <2> SUFFICES ASSUME NEW d \in Clients PROVE Carries(d)'
    BY DEF Carried
  <2>1. CASE d = c
    <3>1. req'[d] = rec /\ did'[d]
      BY <2>1, <1>6 DEF Moved
    <3> QED
      BY <3>1, <1>0, <1>1, <1>4 DEF Carries
  <2>2. CASE d # c
    BY <2>2, <1>0, <1>4, <1>5, <1>6, OthersCarry DEF Onward
  <2> QED
    BY <2>1, <2>2
<1>10. Logged'
  <2> SUFFICES ASSUME NEW q \in ReportIds PROVE Logs(q)'
    BY DEF Logged
  <2>1. Logs(q)
    BY DEF IInv, Logged
  <2>2. \A d \in Clients : /\ OwesClaim(d, q)' => OwesClaim(d, q)
                           /\ OwesEnd(d, q)' => OwesEnd(d, q)
    <3> SUFFICES ASSUME NEW d \in Clients
                 PROVE  /\ OwesClaim(d, q)' => OwesClaim(d, q)
                        /\ OwesEnd(d, q)' => OwesEnd(d, q)
      OBVIOUS
    <3>1. CASE d = c
      <4>1. req'[d] = rec
        BY <3>1, <1>6 DEF Moved
      <4> QED
        BY <3>1, <4>1, <1>0, <1>4 DEF OwesClaim, OwesEnd, r
    <3>2. CASE d # c
      <4>1. req'[d] = req[d]
        BY <3>2, <1>6 DEF Moved
      <4> QED
        BY <4>1 DEF OwesClaim, OwesEnd
    <3> QED
      BY <3>1, <3>2
  <2> QED
    BY <2>1, <2>2, <1>0 DEF Logs
<1>11. Named'
  BY <1>0 DEF IInv, Named, Names, history
<1>12. Judged'
  <2> SUFFICES ASSUME NEW d \in Clients PROVE Judges(d)'
    BY DEF Judged
  <2>1. CASE d = c
    <3>1. req'[d] = rec
      BY <2>1, <1>6 DEF Moved
    <3> QED
      BY <3>1, <1>4 DEF Judges
  <2>2. CASE d # c
    <3>1. req'[d] = req[d] /\ Judges(d)
      BY <2>2, <1>6 DEF Moved, IInv, Judged
    <3> QED
      BY <3>1, <1>0 DEF Judges, Settled, history
  <2> QED
    BY <2>1, <2>2
<1>13. ResolvedIsTakenDown'
  <2> SUFFICES ASSUME NEW q \in ReportIds, report'[q].state = "RESOLVED", ~InTakedown(q)',
                      q \notin cut', q \notin shown'
               PROVE  content'[report'[q].target] # Up(report'[q].target)
    BY DEF ResolvedIsTakenDown, Visible
  <2>1. CASE q = r
    BY <2>1, <1>0, <1>1, <1>7
  <2>2. CASE q # r
    <3>1. ~InTakedown(q)
      <4> SUFFICES ASSUME NEW d \in Clients, req[d].pc = "takedown", req[d].report = q
                   PROVE  FALSE
        BY DEF InTakedown
      <4>1. d # c
        BY <2>2 DEF r
      <4>2. req'[d] = req[d]
        BY <4>1, <1>6 DEF Moved
      <4> QED
        BY <4>2 DEF InTakedown
    <3>2. report[q].target \in Targets
      BY <1>0 DEF IInv, TypeOK, ReportRow, NoReport
    <3> QED
      BY <3>1, <3>2, <1>0, <1>7 DEF IInv, ResolvedIsTakenDown, Visible, history
  <2> QED
    BY <2>1, <2>2
<1>14. AnswerTruthful'
  BY <1>4, <1>5, <1>6, Truthful
<1> QED
  BY <1>8, <1>9, <1>10, <1>11, <1>12, <1>13, <1>14 DEF IInv

LEMMA AuditStep ==
    ASSUME IInv, NEW c \in Clients, RecordAudit(c)
    PROVE  IInv'
<1> DEFINE r == req[c].report
           e == req[c].event
<1>0. req[c].pc = "audit" /\ UNCHANGED <<report, content, erased, begun, did, history>>
      /\ req' = [req EXCEPT ![c] = Idle] /\ answer' = [answer EXCEPT ![c] = "ok"]
      /\ audit' = CASE e = "claimed"   -> [audit EXCEPT ![r].claimed = @ + 1]
                    [] e = "resolved"  -> [audit EXCEPT ![r].resolved = @ + 1]
                    [] e = "dismissed" -> [audit EXCEPT ![r].dismissed = @ + 1]
                    [] OTHER           -> audit
  BY DEF RecordAudit
<1>1. Carries(c) /\ did[c] /\ did[c] \in BOOLEAN
  BY <1>0 DEF IInv, TypeOK, Carried, Carries
<1>2. Idle \in Request /\ Idle.pc = "idle" /\ "ok" \in Answer
  BY DEF Idle, Request, Event, Answer
<1>3. /\ req' \in [Clients -> Request]
      /\ did' \in [Clients -> BOOLEAN]
      /\ answer' \in [Clients -> Answer]
      /\ Moved(c, Idle, did[c], "ok")
  <2>1. did' = [did EXCEPT ![c] = did[c]]
    BY <1>0 DEF IInv, TypeOK
  <2> QED
    BY <2>1, <1>0, <1>1, <1>2, Moves DEF IInv
<1>4. /\ \A q \in ReportIds :
            /\ audit'[q].claimed = IF q = r /\ e = "claimed" THEN audit[q].claimed + 1
                                   ELSE audit[q].claimed
            /\ audit'[q].resolved = IF q = r /\ e = "resolved" THEN audit[q].resolved + 1
                                    ELSE audit[q].resolved
            /\ audit'[q].dismissed = IF q = r /\ e = "dismissed" THEN audit[q].dismissed + 1
                                     ELSE audit[q].dismissed
      /\ audit' \in [ReportIds -> [claimed: Nat, resolved: Nat, dismissed: Nat]]
  <2>0. audit \in [ReportIds -> [claimed: Nat, resolved: Nat, dismissed: Nat]]
    BY DEF IInv, TypeOK
  <2>5. e \in {"claimed", "resolved", "dismissed"} => r \in ReportIds
    BY <1>0, <1>1 DEF Carries
  <2> HIDE DEF r, e
  <2>1. CASE e = "claimed"
    BY <2>0, <2>1, <2>5, <1>0
  <2>2. CASE e = "resolved"
    BY <2>0, <2>2, <2>5, <1>0
  <2>3. CASE e = "dismissed"
    BY <2>0, <2>3, <2>5, <1>0
  <2>4. CASE e \notin {"claimed", "resolved", "dismissed"}
    BY <2>0, <2>4, <1>0
  <2> QED
    BY <2>1, <2>2, <2>3, <2>4
<1> HIDE DEF r, e
<1>5. TypeOK'
  BY <1>0, <1>3, <1>4 DEF IInv, TypeOK, history
<1>6. Carried'
  <2> SUFFICES ASSUME NEW d \in Clients PROVE Carries(d)'
    BY DEF Carried
  <2>1. CASE d = c
    BY <2>1, <1>2, <1>3 DEF Carries, Moved
  <2>2. CASE d # c
    BY <2>2, <1>0, <1>1, <1>2, <1>3, OthersCarry DEF Onward
  <2> QED
    BY <2>1, <2>2
<1>7. Logged'
  <2> SUFFICES ASSUME NEW q \in ReportIds PROVE Logs(q)'
    BY DEF Logged
  <2>1. Logs(q) /\ audit[q] \in [claimed: Nat, resolved: Nat, dismissed: Nat]
    BY DEF IInv, Logged, TypeOK
  <2>2. \A d \in Clients : /\ OwesClaim(d, q)' => OwesClaim(d, q) /\ d # c
                           /\ OwesEnd(d, q)' => OwesEnd(d, q) /\ d # c
    <3> SUFFICES ASSUME NEW d \in Clients
                 PROVE  /\ OwesClaim(d, q)' => OwesClaim(d, q) /\ d # c
                        /\ OwesEnd(d, q)' => OwesEnd(d, q) /\ d # c
      OBVIOUS
    <3>1. CASE d = c
      <4>1. req'[d] = Idle
        BY <3>1, <1>3 DEF Moved
      <4> QED
        BY <4>1, <1>2 DEF OwesClaim, OwesEnd
    <3>2. CASE d # c
      <4>1. req'[d] = req[d]
        BY <3>2, <1>3 DEF Moved
      <4> QED
        BY <3>2, <4>1 DEF OwesClaim, OwesEnd
    <3> QED
      BY <3>1, <3>2
  <2>3. CASE q = r /\ e = "claimed"
    <3>1. OwesClaim(c, q) /\ report[q].state \notin {"absent", "OPEN"}
      BY <2>3, <1>0, <1>1 DEF OwesClaim, Carries, r, e
    <3> QED
      BY <2>1, <2>2, <2>3, <3>1, <1>0, <1>4 DEF Logs
  <2>4. CASE q = r /\ e = "resolved"
    <3>1. OwesEnd(c, q) /\ report[q].state = "RESOLVED"
      BY <2>4, <1>0, <1>1 DEF OwesEnd, Carries, r, e
    <3> QED
      BY <2>1, <2>2, <2>4, <3>1, <1>0, <1>4 DEF Logs
  <2>5. CASE q = r /\ e = "dismissed"
    <3>1. OwesEnd(c, q) /\ report[q].state = "DISMISSED"
      BY <2>5, <1>0, <1>1 DEF OwesEnd, Carries, r, e
    <3> QED
      BY <2>1, <2>2, <2>5, <3>1, <1>0, <1>4 DEF Logs
  <2>6. CASE q # r \/ e \notin {"claimed", "resolved", "dismissed"}
    BY <2>1, <2>2, <2>6, <1>0, <1>4 DEF Logs
  <2> QED
    BY <2>3, <2>4, <2>5, <2>6
<1>8. Named'
  BY <1>0 DEF IInv, Named, Names, history
<1>9. Judged'
  BY <1>0, <1>2, <1>3 DEF IInv, Judged, Judges, Settled, Moved, history
<1>10. ResolvedIsTakenDown'
  BY <1>0, <1>1, <1>2, <1>3, KeepsDown DEF history
<1>11. AnswerTruthful'
  BY <1>1, <1>2, <1>3, Truthful
<1> QED
  BY <1>5, <1>6, <1>7, <1>8, <1>9, <1>10, <1>11 DEF IInv

LEMMA FailStep ==
    ASSUME IInv, NEW c \in Clients, Fail(c)
    PROVE  IInv'
<1> DEFINE r == req[c].report
<1>0. /\ req' = [req EXCEPT ![c] = Idle]
      /\ answer' \in {[answer EXCEPT ![c] = "failed"], answer}
      /\ cut' = IF req[c].pc = "takedown" THEN cut \cup {r} ELSE cut
      /\ UNCHANGED <<table, erased, begun, did, filer, claimer, judge, shown>>
  BY DEF Fail, LeaveBehind
<1>1. did[c] \in BOOLEAN /\ answer[c] \in Answer /\ Idle \in Request /\ Idle.pc = "idle"
  BY DEF IInv, TypeOK, Idle, Request, Event
<1>2. PICK told \in {"failed", answer[c]} : answer' = [answer EXCEPT ![c] = told]
  BY <1>0 DEF IInv, TypeOK
<1>3. told \in Answer
  BY <1>1, <1>2 DEF Answer
<1>4. /\ req' \in [Clients -> Request]
      /\ did' \in [Clients -> BOOLEAN]
      /\ answer' \in [Clients -> Answer]
      /\ Moved(c, Idle, did[c], told)
  <2>1. did' = [did EXCEPT ![c] = did[c]]
    BY <1>0 DEF IInv, TypeOK
  <2>2. req' = [req EXCEPT ![c] = Idle] /\ TypeOK
    BY <1>0 DEF IInv
  <2> QED
    BY <2>1, <2>2, <1>1, <1>2, <1>3, Moves
<1>5. cut' \subseteq ReportIds /\ cut \subseteq cut'
  BY <1>0 DEF IInv, TypeOK, Carried, Carries
<1>6. TypeOK'
  BY <1>0, <1>4, <1>5 DEF IInv, TypeOK, table
<1>7. Carried' /\ Logged' /\ Named' /\ Judged'
  BY <1>0, <1>1, <1>3, <1>4, Quiet DEF table
<1>8. ResolvedIsTakenDown'
  <2> SUFFICES ASSUME NEW q \in ReportIds, report'[q].state = "RESOLVED", ~InTakedown(q)',
                      q \notin cut', q \notin shown'
               PROVE  content'[report'[q].target] # Up(report'[q].target)
    BY DEF ResolvedIsTakenDown, Visible
  <2>1. ~InTakedown(q)
    <3> SUFFICES ASSUME NEW d \in Clients, req[d].pc = "takedown", req[d].report = q
                 PROVE  FALSE
      BY DEF InTakedown
    <3>1. d # c
      BY <1>0
    <3>2. req'[d] = req[d]
      BY <3>1, <1>4 DEF Moved
    <3> QED
      BY <3>2 DEF InTakedown
  <2> QED
    BY <2>1, <1>0, <1>5 DEF IInv, ResolvedIsTakenDown, Visible, table
<1>9. AnswerTruthful'
  <2>1. (told = "ok" => did[c]) /\ (told = "conflict" => ~did[c])
    BY <1>2 DEF IInv, AnswerTruthful
  <2> QED
    BY <2>1, <1>1, <1>3, <1>4, Truthful
<1> QED
  BY <1>6, <1>7, <1>8, <1>9 DEF IInv

\* A moderator's decision about content: what it publishes, resolved reports on it are
\* counted as shown.
LEMMA ContentStep ==
    ASSUME IInv, NEW c \in Clients, NEW m \in Users, NEW t \in Targets, NEW from,
           NEW to \in ContentState, SetContent(c, m, t, from, to),
           \/ to # Up(t) /\ shown' = shown
           \/ Publish(t),
           UNCHANGED <<report, audit, erased, filer, claimer, judge, cut>>
    PROVE  IInv'
<1>0. begun' \in 0 .. MaxRequests /\ req[c].pc = "idle"
  BY BoundAssumption DEF SetContent, Begin, IInv, TypeOK
<1>1. shown \subseteq shown' /\ shown' \subseteq ReportIds
      /\ (to = Up(t) => \A q \in ReportIds : report[q].target = t /\ report[q].state = "RESOLVED"
                                             => q \in shown')
  BY DEF Publish, IInv, TypeOK
<1>2. CASE Refuse(c) /\ UNCHANGED content
  BY <1>0, <1>1, <1>2, RefusedStep DEF table
<1>3. CASE ~(Refuse(c) /\ UNCHANGED content)
  <2> DEFINE rec == Auditing(m, None, t, "none")
  <2>1. content' = [content EXCEPT ![t] = to] /\ ThenAudit(c, m, None, t, "none")
    BY <1>3 DEF SetContent
  <2>2. rec \in Request /\ rec.pc = "audit" /\ rec.event = "none"
    BY DEF Auditing, Idle, Request, Event
  <2>3. "none" \in Event /\ TRUE \in BOOLEAN /\ "none" \in Answer /\ None \in ReportIds \cup {None}
        /\ t \in Targets \cup {None}
    BY DEF Event, Answer
  <2>4. /\ req' \in [Clients -> Request]
        /\ did' \in [Clients -> BOOLEAN]
        /\ answer' \in [Clients -> Answer]
        /\ Moved(c, rec, TRUE, "none")
    BY <2>1, <2>3, Audits DEF IInv
  <2> HIDE DEF rec
  <2>5. content' \in [Targets -> ContentState]
        /\ \A x \in Targets : content'[x] = IF x = t THEN to ELSE content[x]
    BY <2>1 DEF IInv, TypeOK
  <2>6. TypeOK'
    BY <1>0, <1>1, <2>4, <2>5 DEF IInv, TypeOK
  <2>7. Carried' /\ Logged' /\ Named' /\ Judged'
    BY <2>2, <2>3, <2>4, Quiet
  <2>8. ResolvedIsTakenDown'
    <3> SUFFICES ASSUME NEW q \in ReportIds, report'[q].state = "RESOLVED", ~InTakedown(q)',
                        q \notin cut', q \notin shown'
                 PROVE  content'[report'[q].target] # Up(report'[q].target)
      BY DEF ResolvedIsTakenDown, Visible
    <3>1. ~InTakedown(q)
      <4> SUFFICES ASSUME NEW d \in Clients, req[d].pc = "takedown", req[d].report = q
                   PROVE  FALSE
        BY DEF InTakedown
      <4>1. d # c
        BY <1>0
      <4>2. req'[d] = req[d]
        BY <4>1, <2>4 DEF Moved
      <4> QED
        BY <4>2 DEF InTakedown
    <3>2. report[q].target \in Targets
      BY DEF IInv, TypeOK, ReportRow, NoReport
    <3>3. content[report[q].target] # Up(report[q].target)
      BY <3>1, <1>1 DEF IInv, ResolvedIsTakenDown, Visible
    <3> QED
      BY <3>2, <3>3, <1>1, <2>5
  <2>9. AnswerTruthful'
    BY <2>2, <2>3, <2>4, Truthful
  <2> QED
    BY <2>6, <2>7, <2>8, <2>9 DEF IInv
<1> QED
  BY <1>2, <1>3

LEMMA HideStep ==
    ASSUME IInv, NEW c \in Clients, NEW m \in Users, NEW t \in Targets, Hide(c, m, t)
    PROVE  IInv'
<1>1. Down(t) \in ContentState /\ Down(t) # Up(t)
  BY DEF Down, Up, ContentState
<1> QED
  BY <1>1, ContentStep DEF Hide, history

LEMMA RestoreStep ==
    ASSUME IInv, NEW c \in Clients, NEW m \in Users, NEW t \in Targets, Restore(c, m, t)
    PROVE  IInv'
<1>1. Up(t) \in ContentState
  BY DEF Up, ContentState
<1> QED
  BY <1>1, ContentStep DEF Restore

\* No client moves, and what is published counts as shown.
LEMMA ApproveStep ==
    ASSUME IInv, NEW t \in Targets, approve_photo(t)
    PROVE  IInv'
<1>0. content' = [content EXCEPT ![t] = "APPROVED"] /\ Publish(t)
      /\ UNCHANGED <<report, audit, req, answer, erased, begun, did, filer, claimer, judge, cut>>
  BY DEF approve_photo
<1>1. TypeOK'
  BY <1>0 DEF IInv, TypeOK, Publish, ContentState
<1>2. Carried' /\ Judged' /\ Named' /\ AnswerTruthful'
  BY <1>0 DEF IInv, Carried, Carries, Judged, Judges, Settled, Named, Names, AnswerTruthful
<1>3. Logged'
  BY <1>0 DEF IInv, Logged, Logs, OwesClaim, OwesEnd
<1>4. ResolvedIsTakenDown'
  <2> SUFFICES ASSUME NEW q \in ReportIds, report[q].state = "RESOLVED", ~InTakedown(q),
                      q \notin cut, q \notin shown'
               PROVE  content'[report[q].target] # Up(report[q].target)
    BY <1>0 DEF ResolvedIsTakenDown, Visible, InTakedown
  <2>1. report[q].target \in Targets
    BY DEF IInv, TypeOK, ReportRow, NoReport
  <2>2. report[q].target # t /\ q \notin shown
    BY <1>0 DEF Publish
  <2> QED
    BY <1>0, <2>1, <2>2 DEF IInv, TypeOK, ResolvedIsTakenDown, Visible
<1> QED
  BY <1>1, <1>2, <1>3, <1>4 DEF IInv

\* Erasing an account clears columns and leaves state and target as they are.
LEMMA EraseStep ==
    ASSUME IInv, NEW u \in Users, anonymize(u)
    PROVE  IInv'
<1>0. erased' = erased \cup {u} /\ report' = [r \in ReportIds |-> Scrub(report[r], u)]
      /\ UNCHANGED <<content, audit, req, answer, begun, did, history>>
  BY DEF anonymize
<1>1. ASSUME NEW r \in ReportIds
      PROVE  /\ report'[r] \in ReportRow \cup {NoReport}
             /\ report'[r].state = report[r].state /\ report'[r].target = report[r].target
             /\ \/ /\ report'[r].reporter = report[r].reporter
                   /\ report'[r].claimed_by = report[r].claimed_by
                   /\ report'[r].resolved_by = report[r].resolved_by
                \/ /\ report'[r].reporter = None /\ report'[r].claimed_by = None
                   /\ report'[r].resolved_by = None
                   /\ u \in {report[r].reporter, report[r].claimed_by, report[r].resolved_by}
  <2>1. report'[r] = Scrub(report[r], u)
    BY <1>0
  <2>2. CASE report[r] = NoReport
    BY <2>1, <2>2, NoneAssumption DEF Scrub, NoReport
  <2>3. CASE report[r] \in ReportRow
    BY <2>1, <2>3 DEF Scrub, ReportRow
  <2> QED
    BY <2>2, <2>3 DEF IInv, TypeOK
<1>2. TypeOK'
  <2>1. report' \in [ReportIds -> ReportRow \cup {NoReport}]
    BY <1>0, <1>1
  <2> QED
    BY <2>1, <1>0 DEF IInv, TypeOK, history
<1>3. Carried'
  BY <1>0, <1>1 DEF IInv, Carried, Carries
<1>4. Logged'
  BY <1>0, <1>1 DEF IInv, Logged, Logs, OwesClaim, OwesEnd
<1>5. Named'
  <2> SUFFICES ASSUME NEW r \in ReportIds PROVE Names(r)'
    BY DEF Named
  <2>1. Names(r) /\ u # None /\ UNCHANGED <<filer, claimer, judge>>
    BY <1>0, NoneAssumption DEF IInv, Named, history
  <2> QED
    BY <2>1, <1>0, <1>1 DEF Names
<1>6. Judged'
  <2> SUFFICES ASSUME NEW c \in Clients PROVE Judges(c)'
    BY DEF Judged
  <2>1. Judges(c) /\ Carries(c)
    BY DEF IInv, Judged, Carried
  <2> QED
    BY <2>1, <1>0, <1>1 DEF Judges, Carries, Settled, history
<1>7. ResolvedIsTakenDown'
  BY <1>0, <1>1 DEF IInv, ResolvedIsTakenDown, InTakedown, Visible, history
<1>8. AnswerTruthful'
  BY <1>0 DEF IInv, AnswerTruthful
<1> QED
  BY <1>2, <1>3, <1>4, <1>5, <1>6, <1>7, <1>8 DEF IInv

LEMMA StutterStep == IInv /\ UNCHANGED vars => IInv'
<1> SUFFICES ASSUME IInv, UNCHANGED vars PROVE IInv'
  OBVIOUS
<1>1. UNCHANGED <<report, content, audit, req, answer, erased, begun, did>>
      /\ UNCHANGED <<filer, claimer, judge, cut, shown>>
  BY DEF vars, table, history
<1>2. TypeOK'
  BY <1>1 DEF IInv, TypeOK
<1>3. Carried' /\ Judged' /\ Named' /\ AnswerTruthful'
  BY <1>1 DEF IInv, Carried, Carries, Judged, Judges, Settled, Named, Names, AnswerTruthful
<1>4. Logged'
  BY <1>1 DEF IInv, Logged, Logs, OwesClaim, OwesEnd
<1>5. ResolvedIsTakenDown'
  BY <1>1 DEF IInv, ResolvedIsTakenDown, Visible, InTakedown
<1> QED
  BY <1>2, <1>3, <1>4, <1>5 DEF IInv

LEMMA StepPreserves == IInv /\ [Next]_vars => IInv'
<1> SUFFICES ASSUME IInv, [Next]_vars PROVE IInv'
  OBVIOUS
<1>1. ASSUME NEW c \in Clients, NEW u \in Users, NEW t \in Targets \cup {None},
             NEW reason \in Reasons, report_submit(c, u, t, reason)
      PROVE  IInv'
  BY <1>1, SubmitStep DEF report_submit
<1>2. ASSUME NEW c \in Clients, NEW u \in Users, NEW r \in ReportIds,
             \/ moderation_report_claim(c, u, r)
             \/ moderation_report_resolve(c, u, r)
             \/ moderation_report_dismiss(c, u, r)
      PROVE  IInv'
  <2>1. "RESOLVED" \in ReportOutcome /\ "DISMISSED" \in ReportOutcome
    BY DEF ReportOutcome
  <2> QED
    BY <1>2, <2>1, ClaimStep, ResolveReportStep
    DEF moderation_report_claim, moderation_report_resolve, moderation_report_dismiss
<1>3. ASSUME NEW c \in Clients, NEW u \in Users, NEW t \in Targets,
             \/ moderation_review_hide(c, u, t)
             \/ moderation_photo_hide(c, u, t)
             \/ moderation_parking_invalidate(c, u, t)
      PROVE  IInv'
  BY <1>3, HideStep DEF moderation_review_hide, moderation_photo_hide,
     moderation_parking_invalidate, hide_review, hide_photo, invalidate_parking
<1>4. ASSUME NEW c \in Clients, NEW u \in Users, NEW t \in Targets,
             \/ moderation_review_restore(c, u, t)
             \/ moderation_photo_restore(c, u, t)
             \/ moderation_parking_restore(c, u, t)
      PROVE  IInv'
  BY <1>4, RestoreStep DEF moderation_review_restore, moderation_photo_restore,
     moderation_parking_restore, restore_review, restore_photo, restore_parking
<1>5. ASSUME NEW c \in Clients,
             create(c) \/ resolve(c) \/ hide_resolved_target(c) \/ RecordAudit(c) \/ Fail(c)
      PROVE  IInv'
  BY <1>5, CreateStep, ResolveStep, TakedownStep, AuditStep, FailStep
<1>6. ASSUME NEW t \in Targets, approve_photo(t)
      PROVE  IInv'
  BY <1>6, ApproveStep
<1>7. ASSUME NEW u \in Users, anonymize(u)
      PROVE  IInv'
  BY <1>7, EraseStep
<1>8. CASE UNCHANGED vars
  BY <1>8, StutterStep
<1> QED
  BY <1>1, <1>2, <1>3, <1>4, <1>5, <1>6, <1>7, <1>8 DEF Next

-----------------------------------------------------------------------------
\* The theorems

\* The inductive invariant holds in every reachable state, whatever is reported, by
\* whom, and in whatever order the requests' statements are executed.
THEOREM Invariance == Spec => []IInv
BY InitEstablishes, StepPreserves, PTL DEF Spec

\* A moderator who resolves a report of their own got past the guard of resolve_report
\* because the account that had claimed it was erased.
THEOREM OwnReports == Spec => []OwnReportOnlyIfScrubbed
BY Invariance, Consequences, PTL

\* However many moderators race, the log has one claim and one end of a report at most,
\* and the end it has is the one in the row.
THEOREM LoggedOnce == Spec => []AuditedOnce
BY Invariance, Consequences, PTL

\* What a resolved report is about is down unless the request ended between the two
\* statements of resolve_report or a moderator published it again.
THEOREM TakenDown == Spec => []ResolvedIsTakenDown
<1>1. IInv => ResolvedIsTakenDown
  BY DEF IInv
<1> QED
  BY Invariance, <1>1, PTL

\* "Done" is said of requests that changed their row, "not allowed" of requests that
\* changed none.
THEOREM AnswersAreTruthful == Spec => []AnswerTruthful
<1>1. IInv => AnswerTruthful
  BY DEF IInv
<1> QED
  BY Invariance, <1>1, PTL

=============================================================================
