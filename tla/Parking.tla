------------------------------- MODULE Parking -------------------------------
(***************************************************************************)
(* Parking locations, their revision history and the proposals to change   *)
(* them: community/contribution.rs and moderation/actions.rs under the     *)
(* services community.rs and moderation.rs, and the statements of an       *)
(* account erasure (privacy/anonymize.rs) that lock the same rows.         *)
(*                                                                         *)
(* PostgreSQL runs READ COMMITTED.  A transaction that only works on one   *)
(* location row it has locked is one step, taken when the lock is free.    *)
(* The two transactions that lock several rows, approve_proposal and       *)
(* anonymize, are split at each lock.  A service call that reads in one    *)
(* statement and writes in another is split there too.                     *)
(***************************************************************************)
EXTENDS Integers, FiniteSets

CONSTANTS
    Locations,   \* parking_location ids
    Proposals,   \* parking_proposal ids
    Actors,      \* accounts, each with one request at a time; all may moderate
    Contents,    \* what an edit writes: to the row, and to hours and security
    Places,      \* point and timezone, which only a proposal can change
    None,        \* SQL NULL
    MaxVersion   \* bound on version; a statement that would pass it fails

ASSUME DistinctAssumption == /\ Locations \cap Proposals = {}
                             /\ None \notin Locations \cup Proposals \cup Actors
ASSUME BoundAssumption == MaxVersion \in Nat \ {0}

VARIABLES
    loc,     \* the parking_location table
    hours,   \* opening_hours and parking_security, tables of their own
    revs,    \* the parking_revision table
    props,   \* the parking_proposal table
    lock,    \* the transaction that keeps each row locked between its steps
    pc,      \* where each actor's request is
    req      \* what that request has read and been given

vars == <<loc, hours, revs, props, lock, pc, req>>

-----------------------------------------------------------------------------
\* The tables

Rows == Locations \cup Proposals
Versions == 1 .. MaxVersion
ModerationState == {"ACTIVE", "INVALID", "REMOVED"}
ProposalStatus == {"PENDING", "APPROVED", "REJECTED", "SUPERSEDED"}

\* ProposalApplication: a move, or an existence change to ACTIVE or REMOVED.
Change == [kind: {"move"}, to: Places] \cup [kind: {"existence"}, to: {"ACTIVE", "REMOVED"}]
NoChange == [kind |-> "none", to |-> None]

\* version 0 stands for a location that does not exist
LocationRow == [version: 0 .. MaxVersion, state: ModerationState, fields: Contents,
                place: Places, creator: Actors \cup {None}]

\* status "absent" stands for a proposal that does not exist.  The proposed value
\* is left out: merge may replace it by any other of the same kind; by holds
\* proposer_id and resolved_by, which are only ever compared, and cleared, together.
ProposalRow == [loc: Locations \cup {None}, base: 0 .. MaxVersion,
                kind: {"none", "move", "existence"},
                status: ProposalStatus \cup {"absent"}, by: SUBSET Actors]
NoProposal == [loc |-> None, base |-> 0, kind |-> "none", status |-> "absent", by |-> {}]

Snapshot == [fields: Contents, hours: Contents, place: Places, state: ModerationState]
Revision == [loc: Locations, version: Versions,
             kind: {"create", "edit", "moderation"}, snap: Snapshot]
AuditEvent == [action: {"parking.created", "parking.edited", "parking.invalidated",
                        "parking.restored", "parking.proposal_created",
                        "proposal.approved", "proposal.rejected"},
               target: Rows, version: 0 .. MaxVersion]
NoEvent == [action |-> "none", target |-> None, version |-> 0]

Request == [loc: Locations \cup {None}, prop: Proposals \cup {None}, version: 0 .. MaxVersion,
            fields: Contents \cup {None}, hours: Contents \cup {None},
            change: Change \cup {NoChange}, event: AuditEvent \cup {NoEvent}]
NoRequest == [loc |-> None, prop |-> None, version |-> 0, fields |-> None,
              hours |-> None, change |-> NoChange, event |-> NoEvent]

Exists(l) == loc[l].version > 0
Active(l) == Exists(l) /\ loc[l].state = "ACTIVE"

\* The tracked fields after a change: snapshot_of for contributions, and
\* snapshot_with, which reads the unchanged hours, for moderation.
snapshot(row, h) == [fields |-> row.fields, hours |-> h, place |-> row.place,
                     state |-> row.state]

\* insert_revision; (location_id, version) is UNIQUE.
insert_revision(l, k, row, h) ==
    /\ \A r \in revs : r.loc = l => r.version # row.version
    /\ revs' = revs \cup {[loc |-> l, version |-> row.version, kind |-> k,
                           snap |-> snapshot(row, h)]}

Bumped(l) == [loc[l] EXCEPT !.version = @ + 1]

\* A location row is written, with the hours that go with it, and its history.
WriteLocation(l, k, row, h) ==
    /\ loc' = [loc EXCEPT ![l] = row]
    /\ hours' = [hours EXCEPT ![l] = h]
    /\ insert_revision(l, k, row, h)

-----------------------------------------------------------------------------
\* Requests and row locks

Free(x) == lock[x] = None
Unlocked(a) == [x \in Rows |-> IF lock[x] = a THEN None ELSE lock[x]]

\* The request ends without a word to the audit log.
Return(a) == /\ pc' = [pc EXCEPT ![a] = "idle"]
             /\ req' = [req EXCEPT ![a] = NoRequest]

\* The change is committed and its audit event is still to be recorded.
ThenAudit(a, action, x, v) ==
    /\ pc' = [pc EXCEPT ![a] = "audit"]
    /\ req' = [req EXCEPT ![a] = [NoRequest EXCEPT !.event =
                                    [action |-> action, target |-> x, version |-> v]]]

\* The event goes to audit_events, an append-only table nothing here reads back:
\* the model keeps the event that is about to be recorded, not the table.
RecordAudit(a) ==
    /\ pc[a] = "audit"
    /\ Return(a)
    /\ UNCHANGED <<loc, hours, revs, props, lock>>

-----------------------------------------------------------------------------
\* Adding and editing a location

create(a, l, c, x) ==
    /\ ~Exists(l)
    /\ WriteLocation(l, "create", [version |-> 1, state |-> "ACTIVE", fields |-> c,
                                   place |-> x, creator |-> a], c)

\* Validation and the advisory duplicate check refuse nothing that matters here.
add_parking_location(a) ==
    /\ pc[a] = "idle"
    /\ \E l \in Locations, c \in Contents, x \in Places :
        /\ create(a, l, c, x)
        /\ ThenAudit(a, "parking.created", l, 1)
    /\ UNCHANGED <<props, lock>>

\* The edit page, or the page shown again after a conflict, reads the location
\* (details) statement by statement: the row with its version first ...
OpenEdit(a) ==
    /\ \E l \in Locations :
        /\ \/ pc[a] = "idle" /\ Active(l)
           \/ pc[a] = "conflict" /\ l = req[a].loc
        /\ req' = [req EXCEPT ![a] = [NoRequest EXCEPT !.loc = l,
                                        !.version = loc[l].version, !.fields = loc[l].fields]]
    /\ pc' = [pc EXCEPT ![a] = "open"]
    /\ UNCHANGED <<loc, hours, revs, props, lock>>

\* ... then the hours and security rows.
ReadHours(a) ==
    /\ pc[a] = "open"
    /\ pc' = [pc EXCEPT ![a] = "form"]
    /\ req' = [req EXCEPT ![a].hours = hours[req[a].loc]]
    /\ UNCHANGED <<loc, hours, revs, props, lock>>

\* The form comes back: parking_edit_post and require_active look at the state.
SubmitEdit(a) ==
    /\ pc[a] = "form"
    /\ \/ Active(req[a].loc) /\ pc' = [pc EXCEPT ![a] = "edit"] /\ UNCHANGED req
       \/ ~Active(req[a].loc) /\ Return(a)
    /\ UNCHANGED <<loc, hours, revs, props, lock>>

\* Mutant: the version is not compared.
apply_editAnyVersion(a) ==
    /\ pc[a] = "edit"
    /\ LET l == req[a].loc IN
        /\ Free(l) /\ Active(l) /\ loc[l].version < MaxVersion
        /\ \E c \in Contents : WriteLocation(l, "edit", [Bumped(l) EXCEPT !.fields = c], c)
        /\ ThenAudit(a, "parking.edited", l, loc[l].version + 1)
    /\ UNCHANGED <<props, lock>>

\* Mutant: the revision keeps the hours as they were before write_hours.
apply_editEarlySnapshot(a) ==
    /\ pc[a] = "edit"
    /\ LET l == req[a].loc IN
        /\ Free(l) /\ Active(l) /\ loc[l].version = req[a].version
        /\ loc[l].version < MaxVersion
        /\ \E c \in Contents :
            LET row == [Bumped(l) EXCEPT !.fields = c] IN
              /\ loc' = [loc EXCEPT ![l] = row]
              /\ hours' = [hours EXCEPT ![l] = c]
              /\ insert_revision(l, "edit", row, hours[l])
        /\ ThenAudit(a, "parking.edited", l, loc[l].version + 1)
    /\ UNCHANGED <<props, lock>>

\* apply_edit: lock the row, then state and version as they are under the lock.
apply_edit(a) ==
    /\ pc[a] = "edit"
    /\ LET l == req[a].loc IN
        /\ Free(l)
        /\ \/ /\ Active(l) /\ loc[l].version = req[a].version
              /\ loc[l].version < MaxVersion
              /\ \E c \in Contents : WriteLocation(l, "edit", [Bumped(l) EXCEPT !.fields = c], c)
              /\ ThenAudit(a, "parking.edited", l, loc[l].version + 1)
           \/ /\ Active(l) /\ loc[l].version # req[a].version
              /\ pc' = [pc EXCEPT ![a] = "conflict"]
              /\ req' = [req EXCEPT ![a] = [NoRequest EXCEPT !.loc = l]]
              /\ UNCHANGED <<loc, hours, revs>>
           \/ /\ ~Active(l) \/ loc[l].version = MaxVersion
              /\ Return(a)
              /\ UNCHANGED <<loc, hours, revs>>
    /\ UNCHANGED <<props, lock>>

\* set_parking_state, for invalidate_parking and restore_parking.
set_parking_state(a, from, to, action) ==
    /\ pc[a] = "idle"
    /\ \E l \in Locations :
        /\ Exists(l) /\ loc[l].state \in from /\ Free(l)
        /\ loc[l].version < MaxVersion
        /\ WriteLocation(l, "moderation", [Bumped(l) EXCEPT !.state = to], hours[l])
        /\ ThenAudit(a, action, l, loc[l].version + 1)
    /\ UNCHANGED <<props, lock>>

invalidate_parking(a) == set_parking_state(a, {"ACTIVE"}, "INVALID", "parking.invalidated")
restore_parking(a) == set_parking_state(a, {"INVALID", "REMOVED"}, "ACTIVE", "parking.restored")

-----------------------------------------------------------------------------
\* Proposals

\* propose_location_change: require_active reads the base version ...
Propose(a) ==
    /\ pc[a] = "idle"
    /\ \E l \in Locations :
        /\ Active(l)
        /\ req' = [req EXCEPT ![a] = [NoRequest EXCEPT !.loc = l, !.version = loc[l].version]]
    /\ pc' = [pc EXCEPT ![a] = "propose"]
    /\ UNCHANGED <<loc, hours, revs, props, lock>>

\* A FOR UPDATE lock of approve_proposal holds an INSERT that refers to the row
\* back; the plain UPDATE of anonymize does not.
ForUpdate(l) == \E b \in Actors : lock[l] = b /\ pc[b] \in {"approve2", "approve3"}

\* ... and create_proposal inserts, whatever became of the location meanwhile.
create_proposal(a) ==
    /\ pc[a] = "propose"
    /\ ~ForUpdate(req[a].loc)
    /\ \E p \in Proposals, k \in {"move", "existence"} :
        /\ props[p].status = "absent"
        /\ props' = [props EXCEPT ![p] = [NoProposal EXCEPT
                        !.loc = req[a].loc, !.base = req[a].version,
                        !.kind = k, !.status = "PENDING", !.by = {a}]]
        /\ ThenAudit(a, "parking.proposal_created", p, 0)
    /\ UNCHANGED <<loc, hours, revs, lock>>

\* merge: a value the moderator typed wins over the proposed one, the kind stays.
merge(kind) == {c \in Change : c.kind = kind}

\* The service reads the proposal and merges, before any lock is taken.
Approve(a) ==
    /\ pc[a] = "idle"
    /\ \E p \in Proposals : \E c \in merge(props[p].kind) :
        /\ props[p].status # "absent"
        /\ req' = [req EXCEPT ![a] = [NoRequest EXCEPT !.loc = props[p].loc, !.prop = p,
                                                       !.change = c]]
    /\ pc' = [pc EXCEPT ![a] = "approve1"]
    /\ UNCHANGED <<loc, hours, revs, props, lock>>

\* approve_proposal: first the location row is locked ...
LockLocation(a) ==
    /\ pc[a] = "approve1"
    /\ Free(req[a].loc)
    /\ lock' = [lock EXCEPT ![req[a].loc] = a]
    /\ pc' = [pc EXCEPT ![a] = "approve2"]
    /\ UNCHANGED <<loc, hours, revs, props, req>>

\* Mutant of Approvable: a stale proposal is not refused.
ApprovableStale(p) == /\ props[p].status = "PENDING"
                      /\ loc[props[p].loc].version < MaxVersion

Approvable(p) == /\ props[p].status = "PENDING"
                 /\ props[p].base = loc[props[p].loc].version
                 /\ loc[props[p].loc].version < MaxVersion

\* Mutant of LockProposal: the early return leaves the transaction open.
LockProposalLeaks(a) ==
    /\ pc[a] = "approve2" /\ Free(req[a].prop)
    /\ \/ /\ Approvable(req[a].prop)
          /\ lock' = [lock EXCEPT ![req[a].prop] = a]
          /\ pc' = [pc EXCEPT ![a] = "approve3"]
          /\ UNCHANGED req
       \/ /\ ~Approvable(req[a].prop)
          /\ Return(a)
          /\ UNCHANGED lock
    /\ UNCHANGED <<loc, hours, revs, props>>

\* ... then the proposal, whose status and base version are checked; an early
\* return drops the transaction, which rolls it back.
LockProposal(a) ==
    /\ pc[a] = "approve2"
    /\ Free(req[a].prop)
    /\ \/ /\ Approvable(req[a].prop)
          /\ lock' = [lock EXCEPT ![req[a].prop] = a]
          /\ pc' = [pc EXCEPT ![a] = "approve3"]
          /\ UNCHANGED req
       \/ /\ ~Approvable(req[a].prop)
          /\ lock' = Unlocked(a)
          /\ Return(a)
    /\ UNCHANGED <<loc, hours, revs, props>>

Applied(l, c) == IF c.kind = "move" THEN [Bumped(l) EXCEPT !.place = c.to]
                                    ELSE [Bumped(l) EXCEPT !.state = c.to]

\* Mutant of Siblings: resolved proposals are superseded too.
SiblingsAnyStatus(p) == {q \in Proposals \ {p} : props[q].loc = props[p].loc}

Siblings(p) == {q \in Proposals \ {p} : /\ props[q].loc = props[p].loc
                                        /\ props[q].status = "PENDING"}

\* ... then the other pending proposals, which the approval supersedes.
approve_proposal(a) ==
    /\ pc[a] = "approve3"
    /\ LET l == req[a].loc
           p == req[a].prop
       IN /\ \A q \in Siblings(p) : Free(q)
          /\ WriteLocation(l, "moderation", Applied(l, req[a].change), hours[l])
          /\ props' = [q \in Proposals |->
                        IF q = p THEN [props[q] EXCEPT !.status = "APPROVED", !.by = @ \cup {a}]
                        ELSE IF q \in Siblings(p) THEN [props[q] EXCEPT !.status = "SUPERSEDED"]
                        ELSE props[q]]
          /\ lock' = Unlocked(a)
          /\ ThenAudit(a, "proposal.approved", p, loc[l].version + 1)

\* reject_proposal: one UPDATE ... WHERE status = 'PENDING'.
reject_proposal(a) ==
    /\ pc[a] = "idle"
    /\ \E p \in Proposals :
        /\ props[p].status = "PENDING" /\ Free(p)
        /\ props' = [props EXCEPT ![p].status = "REJECTED", ![p].by = @ \cup {a}]
        /\ ThenAudit(a, "proposal.rejected", p, 0)
    /\ UNCHANGED <<loc, hours, revs, lock>>

-----------------------------------------------------------------------------
\* Erasing an account: the rows anonymize locks, one by one, until it commits

Named(a) == {p \in Proposals : a \in props[p].by}
Created(a) == {l \in Locations : Exists(l) /\ loc[l].creator = a}

Anonymize(a) ==
    /\ pc[a] = "idle"
    /\ Named(a) \cup Created(a) # {}
    /\ pc' = [pc EXCEPT ![a] = "erase1"]
    /\ UNCHANGED <<loc, hours, revs, props, lock, req>>

\* UPDATE parking_proposal ...
EraseProposals(a) ==
    /\ pc[a] = "erase1"
    /\ \/ \E p \in Named(a) : /\ Free(p)
                              /\ lock' = [lock EXCEPT ![p] = a]
                              /\ UNCHANGED pc
       \/ /\ \A p \in Named(a) : lock[p] = a
          /\ pc' = [pc EXCEPT ![a] = "erase2"]
          /\ UNCHANGED lock
    /\ UNCHANGED <<loc, hours, revs, props, req>>

\* ... UPDATE parking_location, COMMIT.  The account that acts afterwards under
\* this name is a new one.
EraseLocations(a) ==
    /\ pc[a] = "erase2"
    /\ \/ /\ \E l \in Created(a) : Free(l) /\ lock' = [lock EXCEPT ![l] = a]
          /\ UNCHANGED <<loc, props, pc, req>>
       \/ /\ \A l \in Created(a) : lock[l] = a
          /\ loc' = [l \in Locations |-> IF l \in Created(a) THEN [loc[l] EXCEPT !.creator = None]
                                                             ELSE loc[l]]
          /\ props' = [p \in Proposals |->
                        IF p \in Named(a)
                        THEN [props[p] EXCEPT !.by = {}]
                        ELSE props[p]]
          /\ lock' = Unlocked(a)
          /\ Return(a)
    /\ UNCHANGED <<hours, revs>>

-----------------------------------------------------------------------------
\* Failures

\* The rows a request waits for, one of which it will lock next.
Wants(a) ==
    CASE pc[a] \in {"edit", "approve1"} -> {req[a].loc}
      [] pc[a] = "approve2" -> {req[a].prop}
      [] pc[a] = "approve3" -> Siblings(req[a].prop)
      [] pc[a] = "erase1" -> {p \in Named(a) : lock[p] # a}
      [] pc[a] = "erase2" -> {l \in Created(a) : lock[l] # a}
      [] OTHER -> {}
WaitsFor(a, b) == \E x \in Wants(a) : lock[x] = b

\* The request is dropped at an await (client gone, connection lost, process
\* killed): an open transaction rolls back, a pending audit event is lost.
Drop(a) ==
    /\ pc[a] # "idle"
    /\ lock' = Unlocked(a)
    /\ Return(a)
    /\ UNCHANGED <<loc, hours, revs, props>>

\* PostgreSQL finds a cycle of waiting transactions and fails one (40P01).
BreakDeadlock(a) ==
    /\ \E S \in SUBSET Actors :
        /\ a \in S
        /\ \A b \in S : \E d \in S : WaitsFor(b, d)
        /\ \A b \in S : \E d \in S : WaitsFor(d, b)
    /\ lock' = Unlocked(a)
    /\ Return(a)
    /\ UNCHANGED <<loc, hours, revs, props>>

-----------------------------------------------------------------------------
\* Some locations are there from the start, seeded without a revision.
Init ==
    /\ \E seeded \in SUBSET Locations :
        loc \in {t \in [Locations -> {r \in LocationRow : r.state = "ACTIVE" /\ r.creator = None}] :
                    \A l \in Locations : t[l].version = IF l \in seeded THEN 1 ELSE 0}
    /\ hours = [l \in Locations |-> loc[l].fields]
    /\ revs = {}
    /\ props = [p \in Proposals |-> NoProposal]
    /\ lock = [x \in Rows |-> None]
    /\ pc = [a \in Actors |-> "idle"]
    /\ req = [a \in Actors |-> NoRequest]

\* The steps of a transaction that has begun, which nothing but a lock delays.
Transaction(a) ==
    \/ apply_edit(a) \/ LockLocation(a) \/ LockProposal(a) \/ approve_proposal(a)
    \/ EraseProposals(a) \/ EraseLocations(a)

Step(a) ==
    \/ add_parking_location(a) \/ OpenEdit(a) \/ ReadHours(a) \/ SubmitEdit(a)
    \/ invalidate_parking(a) \/ restore_parking(a)
    \/ Propose(a) \/ create_proposal(a) \/ Approve(a) \/ reject_proposal(a)
    \/ Anonymize(a) \/ Transaction(a)
    \/ RecordAudit(a) \/ Drop(a) \/ BreakDeadlock(a)

Next == \E a \in Actors : Step(a)

Spec == Init /\ [][Next]_vars

\* PostgreSQL serves a free lock to a waiting transaction and breaks deadlocks;
\* its lock queues are fair.  Nothing is assumed of users.
Fairness == \A a \in Actors : SF_vars(Transaction(a)) /\ WF_vars(BreakDeadlock(a))

FairSpec == Spec /\ Fairness

-----------------------------------------------------------------------------
\* The types of the tables and of the requests.
TypeOK ==
    /\ loc \in [Locations -> LocationRow]
    /\ hours \in [Locations -> Contents]
    /\ revs \subseteq Revision
    /\ props \in [Proposals -> ProposalRow]
    /\ lock \in [Rows -> Actors \cup {None}]
    /\ pc \in [Actors -> {"idle", "open", "form", "edit", "conflict", "propose", "audit",
                         "approve1", "approve2", "approve3", "erase1", "erase2"}]
    /\ req \in [Actors -> Request]

\* The history of a location is complete (0007_contributions.sql): every version
\* after the first has exactly one revision, none is ahead of the row, and the
\* newest shows the row, its hours and its place as they are now.
HistoryComplete ==
    \A l \in Locations :
        /\ \A v \in 2 .. loc[l].version : \E r \in revs : r.loc = l /\ r.version = v
        /\ \A r \in revs : r.loc = l =>
            /\ r.version <= loc[l].version
            /\ r.version = loc[l].version => r.snap = snapshot(loc[l], hours[l])
            /\ \A s \in revs : s.loc = l /\ s.version = r.version => s = r

\* An edit that is applied replaces exactly what its author was shown, although
\* the page was read in two statements and submitted much later, and it is only
\* applied to a location that is still ACTIVE when it commits.
EditReplacesWhatWasShown ==
    \A a \in Actors :
        pc[a] = "edit" /\ pc'[a] = "audit" =>
            LET l == req[a].loc IN
            /\ loc[l].fields = req[a].fields /\ hours[l] = req[a].hours
            /\ Active(l)
NoLostUpdate == [][EditReplacesWhatWasShown]_vars

\* An approved proposal was applied to the very version its author saw: the next
\* revision is a moderator's and differs from the version's own only in what the
\* proposal is about, and no two proposals are approved on one version.
ApprovedOnItsBase ==
    \A p \in Proposals : props[p].status = "APPROVED" =>
        /\ \E r \in revs :
            /\ r.loc = props[p].loc /\ r.version = props[p].base + 1
            /\ r.kind = "moderation"
            /\ \A s \in revs : s.loc = r.loc /\ s.version = props[p].base =>
                IF props[p].kind = "move"
                THEN r.snap = [s.snap EXCEPT !.place = r.snap.place]
                ELSE r.snap = [s.snap EXCEPT !.state = r.snap.state]
        /\ \A q \in Proposals \ {p} :
            props[q].status = "APPROVED" /\ props[q].loc = props[p].loc =>
                props[q].base # props[p].base

\* A proposal is resolved once: approving, rejecting and superseding it exclude
\* each other whatever the order in which moderators do them.
ResolvedOnce ==
    \A p \in Proposals :
        props[p].status \notin {"absent", "PENDING"} => props'[p].status = props[p].status
ResolutionIsFinal == [][ResolvedOnce]_vars

\* A proposal is superseded only by the approval of another one on its location.
SupersededByApproval ==
    \A p \in Proposals : props[p].status = "SUPERSEDED" =>
        \E q \in Proposals : props[q].status = "APPROVED" /\ props[q].loc = props[p].loc

\* No row stays locked: every transaction comes to hold nothing again, in spite
\* of early returns, of requests dropped half-way and of erasures that deadlock
\* with approvals.
LocksAreReleased == \A a \in Actors : []<>(\A x \in Rows : lock[x] # a)
=============================================================================
