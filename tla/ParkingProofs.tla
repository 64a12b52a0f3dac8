---------------------------- MODULE ParkingProofs ----------------------------
(***************************************************************************)
(* Theorems about Parking for every set of locations, proposals, accounts, *)
(* contents and places and every number of versions.                       *)
(***************************************************************************)
EXTENDS Parking, TLAPS

-----------------------------------------------------------------------------
\* An edit form shows the row it was read from for as long as the version it
\* carries is the row's: every write of the row moves the version on.
Shown(a) ==
    LET l == req[a].loc IN
    /\ req[a].version <= loc[l].version
    /\ req[a].version = loc[l].version =>
        /\ req[a].fields = loc[l].fields
        /\ pc[a] # "open" => req[a].hours = hours[l]

\* The location an open request is about; what a form shows.
Editing(a) ==
    /\ pc[a] \in {"open", "form", "edit", "conflict", "propose"} =>
        req[a].loc \in Locations /\ Exists(req[a].loc)
    /\ pc[a] \in {"open", "form", "edit"} => Shown(a)

\* An approval works on an existing proposal and on its location, with a change
\* of the proposal's kind.
Approving(a) ==
    pc[a] \in {"approve1", "approve2", "approve3"} =>
        /\ req[a].prop \in Proposals
        /\ req[a].change \in Change
        /\ props[req[a].prop].status # "absent"
        /\ props[req[a].prop].loc = req[a].loc
        /\ props[req[a].prop].kind = req[a].change.kind

\* The locks an approval holds, and what the second one protects.
Locking(a) ==
    /\ pc[a] \in {"approve2", "approve3"} => lock[req[a].loc] = a
    /\ pc[a] = "approve3" => lock[req[a].prop] = a /\ Approvable(req[a].prop)

\* A proposal that exists is about a location that exists.
ProposalsPlaced ==
    \A p \in Proposals : props[p].status # "absent" =>
        props[p].loc \in Locations /\ Exists(props[p].loc)

\* The inductive invariant.
IInv == /\ TypeOK
        /\ ProposalsPlaced
        /\ \A a \in Actors : Editing(a) /\ Approving(a) /\ Locking(a)
        /\ HistoryComplete
        /\ ApprovedOnItsBase
        /\ SupersededByApproval

-----------------------------------------------------------------------------
\* The row operators stay within the row type and move the version on by one.
LEMMA RowTypes ==
    ASSUME TypeOK, NEW l \in Locations, loc[l].version < MaxVersion
    PROVE  /\ Bumped(l) \in LocationRow
           /\ Bumped(l).version = loc[l].version + 1
           /\ \A c \in Contents : [Bumped(l) EXCEPT !.fields = c] \in LocationRow
           /\ \A s \in ModerationState : [Bumped(l) EXCEPT !.state = s] \in LocationRow
           /\ \A c \in Change : Applied(l, c) \in LocationRow
<1>1. loc[l] \in LocationRow
  BY DEF TypeOK
<1>2. loc[l].version + 1 \in 0 .. MaxVersion
  BY <1>1, BoundAssumption DEF LocationRow
<1>3. Bumped(l) \in LocationRow
  BY <1>1, <1>2, Zenon DEF Bumped, LocationRow
<1>4. \A c \in Contents : [Bumped(l) EXCEPT !.fields = c] \in LocationRow
  BY <1>3, Zenon DEF LocationRow
<1>5. \A s \in ModerationState : [Bumped(l) EXCEPT !.state = s] \in LocationRow
  BY <1>3, Zenon DEF LocationRow
<1>6. ASSUME NEW c \in Change PROVE Applied(l, c) \in LocationRow
  <2>1. CASE c.kind = "move"
    <3>1. c.to \in Places
      BY <2>1 DEF Change
    <3>2. QED
      BY <1>3, <2>1, <3>1, Zenon DEF Applied, LocationRow
  <2>2. CASE c.kind # "move"
    <3>1. c.to \in ModerationState
      BY <2>2 DEF Change, ModerationState
    <3>2. QED
      BY <1>5, <2>2, <3>1, Zenon DEF Applied
  <2>3. QED
    BY <2>1, <2>2
<1>7. Bumped(l).version = loc[l].version + 1
  BY <1>1 DEF Bumped, LocationRow
<1> QED
  BY <1>3, <1>4, <1>5, <1>6, <1>7

\* What the operators on rows do to single columns.
LEMMA RowColumns ==
    ASSUME TypeOK, NEW l \in Locations
    PROVE  /\ \A c : [Bumped(l) EXCEPT !.fields = c].version = loc[l].version + 1
           /\ \A s : [Bumped(l) EXCEPT !.state = s].version = loc[l].version + 1
           /\ \A c : Applied(l, c).version = loc[l].version + 1
           /\ \A c : Applied(l, c).fields = loc[l].fields
           /\ \A c : c.kind = "move" => Applied(l, c).state = loc[l].state
           /\ \A c : c.kind # "move" => Applied(l, c).place = loc[l].place
<1>1. loc[l] \in LocationRow
  BY DEF TypeOK
<1> QED
  BY <1>1 DEF Bumped, Applied, LocationRow

\* The kinds of revision.
Kinds == {"create", "edit", "moderation"}

\* A write of a location: its row becomes a newer one, with one revision of it.
Written(l, k, row, h) ==
    /\ WriteLocation(l, k, row, h)
    /\ row.version = loc[l].version + 1

\* Nothing of a location that its history shows has changed.
Untouched ==
    /\ \A l \in Locations : /\ loc'[l].version = loc[l].version
                            /\ loc'[l].state = loc[l].state
                            /\ loc'[l].fields = loc[l].fields
                            /\ loc'[l].place = loc[l].place
    /\ loc' \in [Locations -> LocationRow]
    /\ hours' = hours /\ revs' = revs

\* Somebody else's lock does not protect this location from a.
Reachable(l, a) == ~Exists(l) \/ lock[l] \in {None, a}

\* What a step does to locations: nothing, or one write of a row whose lock is
\* free or its own.
LEMMA LocationEffect ==
    ASSUME IInv, NEW a \in Actors, Step(a)
    PROVE  \/ Untouched
           \/ \E l \in Locations, k \in Kinds, row \in LocationRow, h \in Contents :
                Written(l, k, row, h) /\ Reachable(l, a)
<1> USE DEF IInv
<1>1. CASE UNCHANGED <<loc, hours, revs>>
  BY <1>1 DEF Untouched, TypeOK
<1>2. CASE add_parking_location(a)
  <2>1. PICK l \in Locations, c \in Contents, x \in Places : create(a, l, c, x)
    BY <1>2 DEF add_parking_location
  <2> DEFINE row == [version |-> 1, state |-> "ACTIVE", fields |-> c, place |-> x, creator |-> a]
  <2>2. 1 \in 0 .. MaxVersion /\ "ACTIVE" \in ModerationState
    BY BoundAssumption DEF ModerationState
  <2>3. row \in LocationRow
    BY <2>2, Zenon DEF LocationRow
  <2>4. loc[l].version = 0 /\ ~Exists(l)
    BY <2>1 DEF create, Exists, TypeOK, LocationRow
  <2>5. Written(l, "create", row, c)
    <3>1. row.version = 1
      OBVIOUS
    <3>2. WriteLocation(l, "create", row, c)
      BY <2>1, Zenon DEF create
    <3>3. QED
      BY <2>4, <3>1, <3>2 DEF Written
  <2>6. QED
    BY <2>3, <2>4, <2>5, Zenon DEF Reachable, Kinds
<1>3. CASE apply_edit(a) /\ ~UNCHANGED <<loc, hours, revs>>
  <2> DEFINE l == req[a].loc
  <2>1. /\ Free(l) /\ loc[l].version < MaxVersion
        /\ \E c \in Contents : WriteLocation(l, "edit", [Bumped(l) EXCEPT !.fields = c], c)
    BY <1>3, Zenon DEF apply_edit
  <2>2. l \in Locations
    BY <1>3, Zenon DEF apply_edit, Editing
  <2>3. PICK c \in Contents : WriteLocation(l, "edit", [Bumped(l) EXCEPT !.fields = c], c)
    BY <2>1
  <2>4. Written(l, "edit", [Bumped(l) EXCEPT !.fields = c], c)
    BY <2>2, <2>3, RowColumns, Zenon DEF Written
  <2>5. QED
    BY <2>1, <2>2, <2>4, RowTypes, Zenon DEF Reachable, Free, Kinds
<1>4. ASSUME NEW from, NEW to \in ModerationState, NEW action, set_parking_state(a, from, to, action)
      PROVE  \E l \in Locations, k \in Kinds, row \in LocationRow, h \in Contents :
                Written(l, k, row, h) /\ Reachable(l, a)
  <2>1. PICK l \in Locations :
            /\ Free(l) /\ loc[l].version < MaxVersion
            /\ WriteLocation(l, "moderation", [Bumped(l) EXCEPT !.state = to], hours[l])
    BY <1>4, Zenon DEF set_parking_state
  <2>2. Written(l, "moderation", [Bumped(l) EXCEPT !.state = to], hours[l])
    BY <2>1, RowColumns, Zenon DEF Written
  <2>3. hours[l] \in Contents
    BY DEF TypeOK
  <2>4. QED
    BY <2>1, <2>2, <2>3, RowTypes, Zenon DEF Reachable, Free, Kinds
<1>5. CASE invalidate_parking(a) \/ restore_parking(a)
  <2>1. {"ACTIVE", "INVALID"} \subseteq ModerationState
    BY DEF ModerationState
  <2>2. QED
    BY <1>4, <1>5, <2>1, Zenon DEF invalidate_parking, restore_parking
<1>6. CASE approve_proposal(a)
  <2> DEFINE l == req[a].loc
             row == Applied(l, req[a].change)
  <2>1. /\ pc[a] = "approve3"
        /\ WriteLocation(l, "moderation", row, hours[l])
    BY <1>6, Zenon DEF approve_proposal
  <2>2. /\ req[a].change \in Change /\ lock[l] = a /\ l \in Locations
        /\ loc[l].version < MaxVersion
    BY <2>1, Zenon DEF Approving, Locking, ProposalsPlaced, Approvable
  <2>3. hours[l] \in Contents
    BY <2>2 DEF TypeOK
  <2>4. Written(l, "moderation", row, hours[l])
    BY <2>1, <2>2, RowColumns, Zenon DEF Written
  <2>5. QED
    BY <2>2, <2>3, <2>4, RowTypes, Zenon DEF Reachable, Kinds
<1>7. CASE EraseLocations(a)
  <2>1. CASE UNCHANGED loc
    BY <1>7, <2>1 DEF EraseLocations, Untouched, TypeOK
  <2>2. CASE loc' = [l \in Locations |-> IF l \in Created(a) THEN [loc[l] EXCEPT !.creator = None]
                                                             ELSE loc[l]]
    <3>1. \A l \in Locations : loc[l] \in LocationRow
      BY DEF TypeOK
    <3>2. \A l \in Locations : [loc[l] EXCEPT !.creator = None] \in LocationRow
      BY <3>1, Zenon DEF LocationRow
    <3>3. loc' \in [Locations -> LocationRow]
      BY <2>2, <3>1, <3>2
    <3>4. /\ hours' = hours /\ revs' = revs
          /\ \A l \in Locations : /\ loc'[l].version = loc[l].version
                                  /\ loc'[l].state = loc[l].state
                                  /\ loc'[l].fields = loc[l].fields
                                  /\ loc'[l].place = loc[l].place
      BY <1>7, <2>2, <3>1 DEF EraseLocations, LocationRow
    <3>5. QED
      BY <3>3, <3>4 DEF Untouched
  <2>3. QED
    BY <1>7, <2>1, <2>2 DEF EraseLocations
<1> QED
  BY <1>1, <1>2, <1>3, <1>5, <1>6, <1>7, Zenon
     DEF Step, Transaction, OpenEdit, ReadHours, SubmitEdit, Propose, create_proposal, Approve,
         LockLocation, LockProposal, reject_proposal, Anonymize, EraseProposals, RecordAudit,
         Drop, BreakDeadlock

\* A step of one request leaves the other requests and their locks alone.
LEMMA OthersKeep ==
    ASSUME TypeOK, NEW a \in Actors, Step(a), NEW b \in Actors, b # a
    PROVE  /\ pc'[b] = pc[b] /\ req'[b] = req[b]
           /\ \A x \in Rows : lock[x] = b => lock'[x] = b
<1>1. pc'[b] = pc[b]
  BY DEF TypeOK, Step, Transaction, add_parking_location, OpenEdit, ReadHours, SubmitEdit,
         apply_edit, set_parking_state, invalidate_parking, restore_parking, Propose,
         create_proposal, Approve, LockLocation, LockProposal, approve_proposal,
         reject_proposal, Anonymize, EraseProposals, EraseLocations, RecordAudit, Drop,
         BreakDeadlock, Return, ThenAudit
<1>2. req'[b] = req[b]
  BY DEF TypeOK, Step, Transaction, add_parking_location, OpenEdit, ReadHours, SubmitEdit,
         apply_edit, set_parking_state, invalidate_parking, restore_parking, Propose,
         create_proposal, Approve, LockLocation, LockProposal, approve_proposal,
         reject_proposal, Anonymize, EraseProposals, EraseLocations, RecordAudit, Drop,
         BreakDeadlock, Return, ThenAudit
<1>3. ASSUME NEW x \in Rows, lock[x] = b PROVE lock'[x] = b
  <2>1. \/ lock' = lock
        \/ lock' = Unlocked(a)
        \/ \E y : Free(y) /\ lock' = [lock EXCEPT ![y] = a]
    BY Zenon
       DEF Step, Transaction, add_parking_location, OpenEdit, ReadHours, SubmitEdit,
           apply_edit, set_parking_state, invalidate_parking, restore_parking, Propose,
           create_proposal, Approve, LockLocation, LockProposal, approve_proposal,
           reject_proposal, Anonymize, EraseProposals, EraseLocations, RecordAudit, Drop,
           BreakDeadlock
  <2>2. b # None
    BY DistinctAssumption
  <2>3. QED
    BY <1>3, <2>1, <2>2 DEF Unlocked, Free, TypeOK
<1> QED
  BY <1>1, <1>2, <1>3

\* The columns of a proposal that the invariant reads.
SameProposal(p) == /\ props'[p].status = props[p].status /\ props'[p].loc = props[p].loc
                   /\ props'[p].base = props[p].base /\ props'[p].kind = props[p].kind

\* A proposal keeps what it is about.
SameSubject(p) == /\ props'[p].loc = props[p].loc
                  /\ props'[p].base = props[p].base /\ props'[p].kind = props[p].kind

\* What a step does to a proposal: nothing, or its creation, or its rejection
\* while nobody holds it, or its resolution by an approval on its location.
LEMMA ProposalEffect ==
    ASSUME IInv, NEW a \in Actors, Step(a), NEW p \in Proposals
    PROVE  \/ SameProposal(p)
           \/ /\ pc[a] = "propose" /\ props[p].status = "absent"
              /\ props'[p].status = "PENDING" /\ props'[p].loc = req[a].loc
           \/ /\ props[p].status = "PENDING" /\ props'[p].status = "REJECTED" /\ Free(p)
              /\ SameSubject(p)
           \/ /\ approve_proposal(a) /\ p = req[a].prop
              /\ props[p].status = "PENDING" /\ props'[p].status = "APPROVED" /\ SameSubject(p)
           \/ /\ approve_proposal(a) /\ p \in Siblings(req[a].prop)
              /\ props[p].status = "PENDING" /\ props'[p].status = "SUPERSEDED" /\ SameSubject(p)
<1> USE DEF IInv
<1>0. props[p] \in ProposalRow
  BY DEF TypeOK
<1>1. CASE UNCHANGED props
  BY <1>1 DEF SameProposal
<1>2. CASE create_proposal(a)
  <2>1. PICK q \in Proposals, k \in {"move", "existence"} :
            /\ props[q].status = "absent"
            /\ props' = [props EXCEPT ![q] = [NoProposal EXCEPT
                            !.loc = req[a].loc, !.base = req[a].version,
                            !.kind = k, !.status = "PENDING", !.by = {a}]]
    BY <1>2 DEF create_proposal
  <2>2. CASE p = q
    BY <1>2, <2>1, <2>2 DEF create_proposal, NoProposal, TypeOK
  <2>3. CASE p # q
    BY <2>1, <2>3 DEF SameProposal, TypeOK
  <2>4. QED
    BY <2>2, <2>3
<1>3. CASE reject_proposal(a)
  <2>1. PICK q \in Proposals :
            /\ props[q].status = "PENDING" /\ Free(q)
            /\ props' = [props EXCEPT ![q].status = "REJECTED", ![q].by = @ \cup {a}]
    BY <1>3 DEF reject_proposal
  <2>2. CASE p = q
    BY <1>0, <2>1, <2>2 DEF SameSubject, ProposalRow, TypeOK
  <2>3. CASE p # q
    BY <2>1, <2>3 DEF SameProposal, TypeOK
  <2>4. QED
    BY <2>2, <2>3
<1>4. CASE approve_proposal(a)
  <2> DEFINE q == req[a].prop
  <2>1. /\ pc[a] = "approve3"
        /\ props'[p] = IF p = q THEN [props[p] EXCEPT !.status = "APPROVED", !.by = @ \cup {a}]
                       ELSE IF p \in Siblings(q) THEN [props[p] EXCEPT !.status = "SUPERSEDED"]
                       ELSE props[p]
    BY <1>4 DEF approve_proposal
  <2>2. props[q].status = "PENDING"
    BY <2>1, Zenon DEF Locking, Approvable
  <2>3. CASE p = q
    BY <1>0, <1>4, <2>1, <2>2, <2>3 DEF SameSubject, ProposalRow
  <2>4. CASE p # q /\ p \in Siblings(q)
    <3>1. props[p].status = "PENDING"
      BY <2>4 DEF Siblings
    <3>2. props'[p] = [props[p] EXCEPT !.status = "SUPERSEDED"]
      BY <2>1, <2>4
    <3>3. QED
      BY <1>0, <1>4, <2>4, <3>1, <3>2 DEF SameSubject, ProposalRow
  <2>5. CASE p # q /\ p \notin Siblings(q)
    BY <2>1, <2>5 DEF SameProposal
  <2>6. QED
    BY <2>3, <2>4, <2>5
<1>5. CASE EraseLocations(a)
  <2>1. CASE UNCHANGED props
    BY <2>1 DEF SameProposal
  <2>2. CASE props' = [r \in Proposals |-> IF r \in Named(a) THEN [props[r] EXCEPT !.by = {}]
                                                            ELSE props[r]]
    BY <1>0, <2>2 DEF SameProposal, ProposalRow
  <2>3. QED
    BY <1>5, <2>1, <2>2 DEF EraseLocations
<1> QED
  BY <1>1, <1>2, <1>3, <1>4, <1>5, Zenon
     DEF Step, Transaction, add_parking_location, OpenEdit, ReadHours, SubmitEdit, Propose,
         apply_edit, set_parking_state, invalidate_parking, restore_parking, Approve,
         LockLocation, LockProposal, Anonymize, EraseProposals, RecordAudit,
         Drop, BreakDeadlock

-----------------------------------------------------------------------------
\* Versions never go back, a location at the same version looks the same, and
\* revisions are never changed or removed.
LEMMA VersionsGrow ==
    ASSUME IInv, NEW a \in Actors, Step(a)
    PROVE  /\ revs \subseteq revs'
           /\ \A r \in revs' \ revs : r.loc \in Locations /\ r.version = loc[r.loc].version + 1
           /\ \A l \in Locations :
                /\ loc'[l].version \in Nat /\ loc[l].version \in Nat
                /\ loc'[l].version >= loc[l].version
                /\ ~Reachable(l, a) => loc'[l].version = loc[l].version
                /\ loc'[l].version = loc[l].version =>
                    /\ loc'[l].state = loc[l].state /\ loc'[l].fields = loc[l].fields
                    /\ loc'[l].place = loc[l].place /\ hours'[l] = hours[l]
<1>0. /\ \A l \in Locations : loc[l] \in LocationRow /\ loc[l].version \in Nat
      /\ loc \in [Locations -> LocationRow] /\ hours \in [Locations -> Contents]
  BY DEF IInv, TypeOK, LocationRow
<1>1. CASE Untouched
  BY <1>0, <1>1 DEF Untouched
<1>2. ASSUME NEW l \in Locations, NEW k \in Kinds, NEW row \in LocationRow, NEW h \in Contents,
             Written(l, k, row, h), Reachable(l, a)
      PROVE  /\ revs \subseteq revs'
             /\ \A r \in revs' \ revs : r.loc \in Locations /\ r.version = loc[r.loc].version + 1
             /\ \A m \in Locations :
                /\ loc'[m].version \in Nat /\ loc[m].version \in Nat
                /\ loc'[m].version >= loc[m].version
                /\ ~Reachable(m, a) => loc'[m].version = loc[m].version
                /\ loc'[m].version = loc[m].version =>
                    /\ loc'[m].state = loc[m].state /\ loc'[m].fields = loc[m].fields
                    /\ loc'[m].place = loc[m].place /\ hours'[m] = hours[m]
  <2>1. /\ loc' = [loc EXCEPT ![l] = row] /\ hours' = [hours EXCEPT ![l] = h]
        /\ revs' = revs \cup {[loc |-> l, version |-> row.version, kind |-> k,
                                snap |-> snapshot(row, h)]}
        /\ row.version = loc[l].version + 1
    BY <1>2 DEF Written, WriteLocation, insert_revision
  <2>2. /\ revs \subseteq revs'
        /\ \A r \in revs' \ revs : r.loc = l /\ r.version = row.version
    BY <2>1
  <2>3. QED
    BY <1>0, <1>2, <2>1, <2>2
<1> QED
  BY <1>1, <1>2, LocationEffect

\* A step keeps the history complete.
LEMMA HistoryStep ==
    ASSUME IInv, NEW a \in Actors, Step(a)
    PROVE  HistoryComplete'
<1> USE DEF IInv
<1>0. \A l \in Locations : loc[l] \in LocationRow /\ loc[l].version \in Nat
  BY DEF TypeOK, LocationRow
<1>1. CASE Untouched
  <2>1. \A l \in Locations : snapshot(loc'[l], hours'[l]) = snapshot(loc[l], hours[l])
    BY <1>1 DEF Untouched, snapshot
  <2>2. revs' = revs /\ \A l \in Locations : loc'[l].version = loc[l].version
    BY <1>1 DEF Untouched
  <2>3. QED
    BY <2>1, <2>2 DEF HistoryComplete
<1>2. ASSUME NEW l \in Locations, NEW k \in Kinds, NEW row \in LocationRow, NEW h \in Contents,
             Written(l, k, row, h)
      PROVE  HistoryComplete'
  <2> DEFINE new == [loc |-> l, version |-> row.version, kind |-> k, snap |-> snapshot(row, h)]
  <2>1. /\ loc' = [loc EXCEPT ![l] = row] /\ hours' = [hours EXCEPT ![l] = h]
        /\ revs' = revs \cup {new} /\ row.version = loc[l].version + 1
    BY <1>2, Zenon DEF Written, WriteLocation, insert_revision
  <2>2. /\ loc'[l] = row /\ hours'[l] = h
        /\ \A m \in Locations \ {l} : loc'[m] = loc[m] /\ hours'[m] = hours[m]
    BY <2>1 DEF TypeOK
  <2>3. /\ new.loc = l /\ new.version = row.version /\ new.snap = snapshot(row, h)
    OBVIOUS
  <2> HIDE DEF new
  <2>4. ASSUME NEW m \in Locations
        PROVE  /\ \A v \in 2 .. loc'[m].version : \E r \in revs' : r.loc = m /\ r.version = v
               /\ \A r \in revs' : r.loc = m =>
                    /\ r.version <= loc'[m].version
                    /\ r.version = loc'[m].version => r.snap = snapshot(loc'[m], hours'[m])
                    /\ \A t \in revs' : t.loc = m /\ t.version = r.version => t = r
    <3>1. CASE m # l
      BY <2>1, <2>2, <2>3, <3>1 DEF HistoryComplete
    <3>2. CASE m = l
      <4>0. revs \subseteq Revision /\ \A r \in revs : r.version \in Int
        BY DEF TypeOK, Revision, Versions
      <4>1. \A v \in 2 .. row.version : \E r \in revs' : r.loc = l /\ r.version = v
        <5>1. \A v \in 2 .. loc[l].version : \E r \in revs : r.loc = l /\ r.version = v
          BY DEF HistoryComplete
        <5>2. new \in revs' /\ revs \subseteq revs'
          BY <2>1
        <5>3. \A v \in 2 .. row.version : v = row.version \/ v \in 2 .. loc[l].version
          BY <1>0, <2>1
        <5>4. QED
          BY <2>3, <5>1, <5>2, <5>3
      <4>2. \A r \in revs : r.loc = l => r.version < row.version
        BY <1>0, <2>1, <4>0 DEF HistoryComplete
      <4>3. QED
        BY <1>0, <2>1, <2>2, <2>3, <3>2, <4>0, <4>1, <4>2 DEF HistoryComplete
    <3>3. QED
      BY <3>1, <3>2
  <2>5. QED
    BY <2>4 DEF HistoryComplete
<1> QED
  BY <1>1, <1>2, LocationEffect

\* A step keeps every proposal on a location that exists.
LEMMA PlacedStep ==
    ASSUME IInv, NEW a \in Actors, Step(a)
    PROVE  ProposalsPlaced'
<1>1. \A l \in Locations : loc[l].version > 0 => loc'[l].version > 0
  BY VersionsGrow
<1>2. pc[a] = "propose" => req[a].loc \in Locations /\ Exists(req[a].loc)
  BY DEF IInv, Editing
<1>3. ASSUME NEW p \in Proposals, props'[p].status # "absent"
      PROVE  props'[p].loc \in Locations /\ loc'[props'[p].loc].version > 0
  <2>1. \/ props'[p].loc = req[a].loc /\ pc[a] = "propose"
        \/ (props'[p].loc = props[p].loc /\ props[p].status # "absent")
    BY <1>3, ProposalEffect DEF SameProposal, SameSubject
  <2>2. props'[p].loc \in Locations /\ loc[props'[p].loc].version > 0
    BY <1>2, <2>1 DEF IInv, ProposalsPlaced, Exists
  <2>3. QED
    BY <1>1, <2>2
<1> QED
  BY <1>3 DEF ProposalsPlaced, Exists

\* A step keeps every superseded proposal beside an approved one.
LEMMA SupersededStep ==
    ASSUME IInv, NEW a \in Actors, Step(a)
    PROVE  SupersededByApproval'
<1>1. \A q \in Proposals : props[q].status = "APPROVED" =>
            props'[q].status = "APPROVED" /\ props'[q].loc = props[q].loc
  BY ProposalEffect DEF SameProposal
<1>2. ASSUME NEW p \in Proposals, props'[p].status = "SUPERSEDED"
      PROVE  \E q \in Proposals : props'[q].status = "APPROVED" /\ props'[q].loc = props'[p].loc
  <2>1. CASE SameProposal(p)
    BY <1>1, <1>2, <2>1 DEF SameProposal, IInv, SupersededByApproval
  <2>2. CASE /\ approve_proposal(a) /\ p \in Siblings(req[a].prop) /\ SameSubject(p)
    <3> DEFINE q == req[a].prop
    <3>1. pc[a] = "approve3" /\ q \in Proposals
      BY <2>2 DEF approve_proposal, IInv, Approving
    <3>2. props'[q] = [props[q] EXCEPT !.status = "APPROVED", !.by = @ \cup {a}]
      BY <2>2, <3>1 DEF approve_proposal
    <3>3. props[q] \in ProposalRow
      BY <3>1 DEF IInv, TypeOK
    <3>4. props'[q].status = "APPROVED" /\ props'[q].loc = props[q].loc
      BY <3>2, <3>3 DEF ProposalRow
    <3>5. QED
      BY <2>2, <3>1, <3>4 DEF Siblings, SameSubject
  <2>3. QED
    BY <1>2, <2>1, <2>2, ProposalEffect
<1> QED
  BY <1>2 DEF SupersededByApproval

\* A revision r that applies proposal p to the version it was based on.
Applies(r, p) ==
    /\ r.loc = props[p].loc /\ r.version = props[p].base + 1
    /\ r.kind = "moderation"
    /\ \A s \in revs : s.loc = r.loc /\ s.version = props[p].base =>
        IF props[p].kind = "move"
        THEN r.snap = [s.snap EXCEPT !.place = r.snap.place]
        ELSE r.snap = [s.snap EXCEPT !.state = r.snap.state]

\* The revision an approval writes applies its proposal.
LEMMA ApprovalApplies ==
    ASSUME IInv, NEW a \in Actors, Step(a), approve_proposal(a)
    PROVE  LET p == req[a].prop IN
           /\ p \in Proposals /\ props[p].loc \in Locations
           /\ props[p].base = loc[props[p].loc].version
           /\ \E r \in revs' :
                /\ r.loc = props[p].loc /\ r.version = props[p].base + 1
                /\ r.kind = "moderation"
                /\ \A s \in revs' : s.loc = r.loc /\ s.version = props[p].base =>
                    IF props[p].kind = "move"
                    THEN r.snap = [s.snap EXCEPT !.place = r.snap.place]
                    ELSE r.snap = [s.snap EXCEPT !.state = r.snap.state]
<1> DEFINE p == req[a].prop
           l == req[a].loc
           c == req[a].change
           row == Applied(l, c)
           new == [loc |-> l, version |-> row.version, kind |-> "moderation",
                   snap |-> snapshot(row, hours[l])]
<1>1. pc[a] = "approve3" /\ WriteLocation(l, "moderation", row, hours[l])
  BY Zenon DEF approve_proposal
<1>2. /\ p \in Proposals /\ c \in Change /\ props[p].loc = l /\ props[p].kind = c.kind
      /\ l \in Locations /\ props[p].base = loc[l].version
  BY <1>1, Zenon DEF IInv, Approving, Locking, Approvable, ProposalsPlaced
<1>3. row.version = loc[l].version + 1 /\ loc[l].version \in Nat
  <2>1. row.version = loc[l].version + 1
    BY <1>2, RowColumns, Zenon DEF IInv
  <2>2. loc[l].version \in Nat
    BY <1>2 DEF IInv, TypeOK, LocationRow
  <2>3. QED
    BY <2>1, <2>2
<1>4. revs' = revs \cup {new}
  BY <1>1, Zenon DEF WriteLocation, insert_revision
<1>5. new.loc = l /\ new.version = row.version /\ new.kind = "moderation"
      /\ new.snap = snapshot(row, hours[l])
  OBVIOUS
<1>6. ASSUME NEW s \in revs', s.loc = l, s.version = props[p].base
      PROVE  IF props[p].kind = "move"
             THEN new.snap = [s.snap EXCEPT !.place = new.snap.place]
             ELSE new.snap = [s.snap EXCEPT !.state = new.snap.state]
  <2>1. s \in revs
    BY <1>2, <1>3, <1>4, <1>5, <1>6
  <2>2. s.snap = snapshot(loc[l], hours[l])
    BY <1>2, <1>6, <2>1 DEF IInv, HistoryComplete
  <2>3. CASE c.kind = "move"
    <3>1. row.fields = loc[l].fields /\ row.state = loc[l].state
      BY <1>2, <2>3, RowColumns DEF IInv
    <3>2. QED
      BY <1>2, <1>5, <2>2, <2>3, <3>1 DEF snapshot
  <2>4. CASE c.kind # "move"
    <3>1. row.fields = loc[l].fields /\ row.place = loc[l].place
      BY <1>2, <2>4, RowColumns DEF IInv
    <3>2. QED
      BY <1>2, <1>5, <2>2, <2>4, <3>1 DEF snapshot
  <2>5. QED
    BY <2>3, <2>4
<1> HIDE DEF new, row
<1>7. /\ new \in revs' /\ new.loc = props[p].loc /\ new.version = props[p].base + 1
      /\ new.kind = "moderation"
  BY <1>2, <1>3, <1>4, <1>5
<1> QED
  BY <1>2, <1>5, <1>6, <1>7

\* A step keeps every approved proposal applied to its base, and alone on it.
LEMMA ApprovedStep ==
    ASSUME IInv, NEW a \in Actors, Step(a)
    PROVE  ApprovedOnItsBase'
<1>0. /\ \A p \in Proposals : props[p].base \in Nat
      /\ \A l \in Locations : loc[l].version \in Nat
  BY DEF IInv, TypeOK, ProposalRow, LocationRow
\* An approved proposal's base is behind the location's version.
<1>1. ASSUME NEW p \in Proposals, props[p].status = "APPROVED"
      PROVE  /\ props[p].loc \in Locations /\ props[p].base < loc[props[p].loc].version
             /\ \E r \in revs : Applies(r, p)
  <2>1. props[p].loc \in Locations
    BY <1>1 DEF IInv, ProposalsPlaced
  <2>2. PICK r \in revs : Applies(r, p)
    BY <1>1 DEF IInv, ApprovedOnItsBase, Applies
  <2>3. r.version <= loc[props[p].loc].version
    BY <2>1, <2>2 DEF IInv, HistoryComplete, Applies
  <2>4. r.version = props[p].base + 1
    BY <2>2 DEF Applies
  <2>5. props[p].base \in Nat /\ loc[props[p].loc].version \in Nat
    BY <1>0, <2>1
  <2>6. props[p].base < loc[props[p].loc].version
    BY <2>3, <2>4, <2>5
  <2>7. QED
    BY <2>1, <2>2, <2>6
<1>2. ASSUME NEW p \in Proposals, props'[p].status = "APPROVED"
      PROVE  \/ props[p].status = "APPROVED" /\ SameProposal(p)
             \/ approve_proposal(a) /\ p = req[a].prop /\ SameSubject(p)
  BY <1>2, ProposalEffect DEF SameProposal
<1>3. ASSUME NEW p \in Proposals, props'[p].status = "APPROVED"
      PROVE  \E r \in revs' :
                /\ r.loc = props'[p].loc /\ r.version = props'[p].base + 1
                /\ r.kind = "moderation"
                /\ \A s \in revs' : s.loc = r.loc /\ s.version = props'[p].base =>
                    IF props'[p].kind = "move"
                    THEN r.snap = [s.snap EXCEPT !.place = r.snap.place]
                    ELSE r.snap = [s.snap EXCEPT !.state = r.snap.state]
  <2>1. CASE props[p].status = "APPROVED" /\ SameProposal(p)
    <3>1. PICK r \in revs : Applies(r, p)
      BY <1>1, <2>1
    <3>2. \A s \in revs' : s.loc = props[p].loc /\ s.version = props[p].base => s \in revs
      BY <1>0, <1>1, <2>1, VersionsGrow
    <3>3. r \in revs'
      BY VersionsGrow
    <3>4. QED
      BY <2>1, <3>1, <3>2, <3>3 DEF Applies, SameProposal
  <2>2. CASE approve_proposal(a) /\ p = req[a].prop /\ SameSubject(p)
    BY <2>2, ApprovalApplies DEF SameSubject
  <2>3. QED
    BY <1>2, <1>3, <2>1, <2>2
<1>4. ASSUME NEW p \in Proposals, NEW q \in Proposals \ {p},
             props'[p].status = "APPROVED", props'[q].status = "APPROVED",
             props'[q].loc = props'[p].loc
      PROVE  props'[q].base # props'[p].base
  <2>1. /\ \A x \in {p, q} : \/ props[x].status = "APPROVED" /\ SameProposal(x)
                             \/ approve_proposal(a) /\ x = req[a].prop /\ SameSubject(x)
    BY <1>2, <1>4
  <2>2. CASE props[p].status = "APPROVED" /\ props[q].status = "APPROVED"
    <3>1. /\ props'[p].base = props[p].base /\ props'[p].loc = props[p].loc
          /\ props'[q].base = props[q].base /\ props'[q].loc = props[q].loc
      BY <2>1 DEF SameProposal, SameSubject
    <3>2. QED
      BY <1>4, <2>2, <3>1 DEF IInv, ApprovedOnItsBase
  <2>3. ASSUME NEW x \in Proposals, NEW y \in Proposals, props[x].status = "APPROVED", SameProposal(x),
               approve_proposal(a), y = req[a].prop, SameSubject(y), props'[x].loc = props'[y].loc
        PROVE  props'[x].base # props'[y].base
    <3>1. props[x].base < loc[props[x].loc].version
      BY <1>1, <2>3
    <3>2. props[y].base = loc[props[y].loc].version
      BY <2>3, ApprovalApplies
    <3>3. /\ props'[x].base = props[x].base /\ props'[x].loc = props[x].loc
          /\ props'[y].base = props[y].base /\ props'[y].loc = props[y].loc
      BY <2>3 DEF SameProposal, SameSubject
    <3>4. props[x].base \in Nat /\ props[y].base \in Nat
      BY <1>0
    <3>5. props[x].base < props[y].base
      BY <2>3, <3>1, <3>2, <3>3
    <3>6. props[x].base # props[y].base
      BY <3>4, <3>5
    <3>7. QED
      BY <3>3, <3>6
  <2>4. QED
    BY <1>4, <2>1, <2>2, <2>3
<1> QED
  BY <1>3, <1>4 DEF ApprovedOnItsBase

-----------------------------------------------------------------------------
\* Where a request can be after a step of its own, by the step that led there.
LEMMA OwnStep ==
    ASSUME TypeOK, NEW a \in Actors, Step(a)
    PROVE  /\ pc'[a] = "open" => OpenEdit(a)
           /\ pc'[a] = "form" => ReadHours(a)
           /\ pc'[a] = "edit" => SubmitEdit(a)
           /\ pc'[a] = "conflict" => apply_edit(a)
           /\ pc'[a] = "propose" => Propose(a)
           /\ pc'[a] = "approve1" => Approve(a)
           /\ pc'[a] = "approve2" => LockLocation(a)
           /\ pc'[a] = "approve3" => LockProposal(a)
<1> DEFINE Goal == /\ pc'[a] = "open" => OpenEdit(a)
                   /\ pc'[a] = "form" => ReadHours(a)
                   /\ pc'[a] = "edit" => SubmitEdit(a)
                   /\ pc'[a] = "conflict" => apply_edit(a)
                   /\ pc'[a] = "propose" => Propose(a)
                   /\ pc'[a] = "approve1" => Approve(a)
                   /\ pc'[a] = "approve2" => LockLocation(a)
                   /\ pc'[a] = "approve3" => LockProposal(a)
<1>1. ASSUME NEW v, pc' = [pc EXCEPT ![a] = v] PROVE pc'[a] = v
  BY <1>1 DEF TypeOK
<1>2. CASE pc'[a] \in {"idle", "audit", "erase1", "erase2"}
  BY <1>2
<1>3. CASE OpenEdit(a)
  BY <1>3, <1>1 DEF OpenEdit
<1>4. CASE ReadHours(a)
  BY <1>4, <1>1 DEF ReadHours
<1>5. CASE SubmitEdit(a)
  BY <1>5, <1>1 DEF SubmitEdit, Return
<1>6. CASE apply_edit(a)
  BY <1>6, <1>1 DEF apply_edit, Return, ThenAudit
<1>7. CASE Propose(a)
  BY <1>7, <1>1 DEF Propose
<1>8. CASE Approve(a)
  BY <1>8, <1>1 DEF Approve
<1>9. CASE LockLocation(a)
  BY <1>9, <1>1 DEF LockLocation
<1>10. CASE LockProposal(a)
  BY <1>10, <1>1 DEF LockProposal, Return
<1>11. CASE \/ add_parking_location(a) \/ create_proposal(a) \/ approve_proposal(a)
            \/ reject_proposal(a) \/ invalidate_parking(a) \/ restore_parking(a)
  <2>1. pc'[a] = "audit"
    BY <1>1, <1>11 DEF add_parking_location, create_proposal, approve_proposal, reject_proposal,
        invalidate_parking, restore_parking, set_parking_state, ThenAudit
  <2>2. QED
    BY <2>1, <1>2
<1>12. CASE \/ Anonymize(a) \/ EraseProposals(a) \/ EraseLocations(a)
            \/ RecordAudit(a) \/ Drop(a) \/ BreakDeadlock(a)
  <2>1. pc'[a] \in {"idle", "erase1", "erase2"}
    BY <1>1, <1>12 DEF Anonymize, EraseProposals, EraseLocations, RecordAudit, Drop,
        BreakDeadlock, Return
  <2>2. QED
    BY <2>1, <1>2
<1> QED
  BY <1>3, <1>4, <1>5, <1>6, <1>7, <1>8, <1>9, <1>10, <1>11, <1>12, Zenon DEF Step, Transaction

\* A step keeps every form truthful about the version it carries.
LEMMA EditingStep ==
    ASSUME IInv, NEW a \in Actors, Step(a), NEW b \in Actors
    PROVE  Editing(b)'
<1> USE DEF IInv
<1>0. /\ \A c \in Actors : req[c].version \in Nat
      /\ \A l \in Locations : loc[l].version \in Nat
  BY DEF TypeOK, Request, LocationRow
<1>1. CASE b # a
  <2>1. pc'[b] = pc[b] /\ req'[b] = req[b]
    BY <1>1, OthersKeep
  <2>2. pc[b] \in {"open", "form", "edit", "conflict", "propose"} =>
            req[b].loc \in Locations /\ loc'[req[b].loc].version > 0
    BY VersionsGrow DEF Editing, Exists
  <2>3. ASSUME pc[b] \in {"open", "form", "edit"} PROVE Shown(b)'
    <3> DEFINE l == req[b].loc
    <3>1. l \in Locations /\ Shown(b)
      BY <2>3 DEF Editing
    <3>2. /\ loc'[l].version \in Nat /\ loc'[l].version >= loc[l].version
          /\ loc'[l].version = loc[l].version =>
                loc'[l].fields = loc[l].fields /\ hours'[l] = hours[l]
      BY <3>1, VersionsGrow
    <3>3. QED
      BY <1>0, <2>1, <3>1, <3>2 DEF Shown
  <2>4. QED
    BY <2>1, <2>2, <2>3 DEF Editing, Exists
<1>2. CASE b = a
  <2>0. req \in [Actors -> Request] /\ \A c \in Actors : req[c] \in Request
    BY DEF TypeOK
  <2>1. CASE pc'[a] = "open"
    <3>1. PICK l \in Locations :
            /\ \/ pc[a] = "idle" /\ Active(l)
               \/ pc[a] = "conflict" /\ l = req[a].loc
            /\ req' = [req EXCEPT ![a] = [NoRequest EXCEPT !.loc = l,
                            !.version = loc[l].version, !.fields = loc[l].fields]]
            /\ UNCHANGED <<loc, hours>>
      BY <2>1, OwnStep DEF OpenEdit
    <3>2. /\ req'[a].loc = l /\ req'[a].version = loc[l].version
          /\ req'[a].fields = loc[l].fields
      BY <2>0, <3>1 DEF NoRequest
    <3>3. Exists(l)
      BY <3>1 DEF Active, Editing
    <3>4. QED
      BY <1>0, <1>2, <2>1, <3>1, <3>2, <3>3 DEF Editing, Shown, Exists
  <2>2. CASE pc'[a] = "form"
    <3>1. /\ pc[a] = "open" /\ req' = [req EXCEPT ![a].hours = hours[req[a].loc]]
          /\ UNCHANGED <<loc, hours>>
      BY <2>2, OwnStep DEF ReadHours
    <3>2. /\ req'[a].loc = req[a].loc /\ req'[a].version = req[a].version
          /\ req'[a].fields = req[a].fields /\ req'[a].hours = hours[req[a].loc]
      BY <2>0, <3>1 DEF Request
    <3>3. QED
      BY <1>2, <2>2, <3>1, <3>2 DEF Editing, Shown, Exists
  <2>3. CASE pc'[a] = "edit"
    <3>1. pc[a] = "form" /\ UNCHANGED <<loc, hours, req>>
      <4>1. SubmitEdit(a) /\ ~(pc' = [pc EXCEPT ![a] = "idle"])
        BY <2>3, OwnStep DEF TypeOK
      <4>2. QED
        BY <4>1 DEF SubmitEdit, Return
    <3>2. QED
      BY <1>2, <2>3, <3>1 DEF Editing, Shown, Exists
  <2>4. CASE pc'[a] = "conflict"
    <3>1. /\ pc[a] = "edit" /\ UNCHANGED loc
          /\ req' = [req EXCEPT ![a] = [NoRequest EXCEPT !.loc = req[a].loc]]
      <4>1. /\ apply_edit(a) /\ ~(pc' = [pc EXCEPT ![a] = "idle"])
            /\ ~(pc' = [pc EXCEPT ![a] = "audit"])
        BY <2>4, OwnStep DEF TypeOK
      <4>2. QED
        BY <4>1 DEF apply_edit, Return, ThenAudit
    <3>2. req'[a].loc = req[a].loc
      BY <2>0, <3>1 DEF NoRequest
    <3>3. QED
      BY <1>2, <2>4, <3>1, <3>2 DEF Editing, Exists
  <2>5. CASE pc'[a] = "propose"
    <3>1. PICK l \in Locations :
            /\ Active(l) /\ UNCHANGED loc
            /\ req' = [req EXCEPT ![a] = [NoRequest EXCEPT !.loc = l, !.version = loc[l].version]]
      BY <2>5, OwnStep DEF Propose
    <3>2. req'[a].loc = l
      BY <2>0, <3>1 DEF NoRequest
    <3>3. QED
      BY <1>2, <2>5, <3>1, <3>2 DEF Editing, Exists, Active
  <2>6. CASE pc'[a] \notin {"open", "form", "edit", "conflict", "propose"}
    BY <1>2, <2>6 DEF Editing
  <2>7. QED
    BY <2>1, <2>2, <2>3, <2>4, <2>5, <2>6
<1> QED
  BY <1>1, <1>2

\* A step keeps every approval on the proposal and the location it began with.
LEMMA ApprovingStep ==
    ASSUME IInv, NEW a \in Actors, Step(a), NEW b \in Actors
    PROVE  Approving(b)'
<1> USE DEF IInv
<1>0. \A p \in Proposals : props[p].status # "absent" =>
        /\ props'[p].status # "absent" /\ props'[p].loc = props[p].loc
        /\ props'[p].kind = props[p].kind
  BY ProposalEffect DEF SameProposal, SameSubject
<1>1. CASE b # a
  <2>1. pc'[b] = pc[b] /\ req'[b] = req[b]
    BY <1>1, OthersKeep
  <2>2. QED
    BY <1>0, <2>1 DEF Approving
<1>2. CASE b = a
  <2>1. CASE pc'[a] = "approve1"
    <3>1. PICK p \in Proposals : \E c \in merge(props[p].kind) :
            /\ props[p].status # "absent"
            /\ req' = [req EXCEPT ![a] = [NoRequest EXCEPT !.loc = props[p].loc, !.prop = p,
                                                           !.change = c]]
            /\ UNCHANGED props
      BY <2>1, OwnStep DEF Approve
    <3>2. PICK c \in merge(props[p].kind) :
            /\ props[p].status # "absent"
            /\ req' = [req EXCEPT ![a] = [NoRequest EXCEPT !.loc = props[p].loc, !.prop = p,
                                                           !.change = c]]
      BY <3>1
    <3>3. c \in Change /\ c.kind = props[p].kind
      BY DEF merge
    <3>4. req'[a].loc = props[p].loc /\ req'[a].prop = p /\ req'[a].change = c
      BY <3>2 DEF NoRequest, TypeOK
    <3>5. QED
      BY <1>2, <3>1, <3>2, <3>3, <3>4 DEF Approving
  <2>2. CASE pc'[a] = "approve2"
    <3>1. pc[a] = "approve1" /\ UNCHANGED <<props, req>>
      BY <2>2, OwnStep DEF LockLocation
    <3>2. QED
      BY <1>2, <3>1 DEF Approving
  <2>3. CASE pc'[a] = "approve3"
    <3>1. pc[a] = "approve2" /\ UNCHANGED <<props, req>>
      <4>1. LockProposal(a) /\ ~(pc' = [pc EXCEPT ![a] = "idle"])
        BY <2>3, OwnStep DEF TypeOK
      <4>2. QED
        BY <4>1 DEF LockProposal, Return
    <3>2. QED
      BY <1>2, <3>1 DEF Approving
  <2>4. CASE pc'[a] \notin {"approve1", "approve2", "approve3"}
    BY <1>2, <2>4 DEF Approving
  <2>5. QED
    BY <2>1, <2>2, <2>3, <2>4
<1> QED
  BY <1>1, <1>2

\* A step keeps the locks of every approval, and what they protect: nobody else
\* resolves the proposal or writes the location.
LEMMA LockingStep ==
    ASSUME IInv, NEW a \in Actors, Step(a), NEW b \in Actors
    PROVE  Locking(b)'
<1> USE DEF IInv
<1>0. /\ None \notin Actors /\ Locations \subseteq Rows /\ Proposals \subseteq Rows
      /\ lock \in [Rows -> Actors \cup {None}]
  BY DistinctAssumption DEF Rows, TypeOK
<1>1. CASE b # a
  <2>1. /\ pc'[b] = pc[b] /\ req'[b] = req[b]
        /\ \A x \in Rows : lock[x] = b => lock'[x] = b
    BY <1>1, OthersKeep
  <2>2. ASSUME pc[b] \in {"approve2", "approve3"}
        PROVE  /\ req[b].prop \in Proposals /\ req[b].loc \in Locations
               /\ props[req[b].prop].loc = req[b].loc /\ props[req[b].prop].status # "absent"
               /\ Exists(req[b].loc)
    BY <2>2, Zenon DEF Approving, ProposalsPlaced
  <2>3. ASSUME pc[b] \in {"approve2", "approve3"} PROVE lock'[req[b].loc] = b
    BY <1>0, <2>1, <2>2, <2>3 DEF Locking
  <2>4. ASSUME pc[b] = "approve3"
        PROVE  lock'[req[b].prop] = b /\ Approvable(req[b].prop)'
    <3> DEFINE p == req[b].prop
               l == req[b].loc
    <3>1. /\ p \in Proposals /\ l \in Locations /\ props[p].loc = l /\ Exists(l)
          /\ lock[l] = b /\ lock[p] = b /\ Approvable(p)
      BY <2>2, <2>4 DEF Locking
    <3>2. ~Reachable(l, a)
      BY <1>0, <1>1, <3>1 DEF Reachable
    <3>3. loc'[l].version = loc[l].version
      BY <3>1, <3>2, VersionsGrow
    <3>4. ~Free(p)
      BY <1>0, <3>1 DEF Free
    <3>5. approve_proposal(a) => p # req[a].prop /\ p \notin Siblings(req[a].prop)
      <4>1. SUFFICES ASSUME approve_proposal(a)
                     PROVE  p # req[a].prop /\ p \notin Siblings(req[a].prop)
        OBVIOUS
      <4>2. pc[a] = "approve3"
        BY <4>1 DEF approve_proposal
      <4>3. lock[req[a].prop] = a /\ lock[req[a].loc] = a /\ props[req[a].prop].loc = req[a].loc
        BY <4>2 DEF Locking, Approving
      <4>4. QED
        BY <1>1, <3>1, <4>3 DEF Siblings
    <3>6. SameProposal(p)
      BY <3>1, <3>4, <3>5, ProposalEffect DEF Approvable
    <3>7. QED
      BY <1>0, <2>1, <3>1, <3>3, <3>6 DEF Approvable, SameProposal
  <2>5. QED
    BY <2>1, <2>3, <2>4 DEF Locking, Approvable
<1>2. CASE b = a
  <2>1. CASE pc'[a] = "approve2"
    <3>1. pc[a] = "approve1" /\ lock' = [lock EXCEPT ![req[a].loc] = a] /\ UNCHANGED req
      BY <2>1, OwnStep DEF LockLocation
    <3>2. req[a].loc \in Rows
      BY <1>0, <3>1 DEF Approving, ProposalsPlaced
    <3>3. lock'[req'[a].loc] = a
      BY <1>0, <3>1, <3>2
    <3>4. QED
      BY <1>2, <2>1, <3>3 DEF Locking
  <2>2. CASE pc'[a] = "approve3"
    <3>1. /\ pc[a] = "approve2" /\ Approvable(req[a].prop)
          /\ lock' = [lock EXCEPT ![req[a].prop] = a] /\ UNCHANGED <<req, props, loc>>
      <4>1. LockProposal(a) /\ ~(pc' = [pc EXCEPT ![a] = "idle"])
        BY <2>2, OwnStep DEF TypeOK
      <4>2. QED
        BY <4>1 DEF LockProposal, Return
    <3>2. req[a].prop \in Rows /\ req[a].loc \in Rows /\ lock[req[a].loc] = a
      BY <1>0, <3>1 DEF Approving, ProposalsPlaced, Locking
    <3>3. lock'[req[a].prop] = a /\ lock'[req[a].loc] = a
      BY <1>0, <3>1, <3>2
    <3>4. QED
      BY <1>2, <2>2, <3>1, <3>3 DEF Locking, Approvable
  <2>3. CASE pc'[a] \notin {"approve2", "approve3"}
    BY <1>2, <2>3 DEF Locking
  <2>4. QED
    BY <2>1, <2>2, <2>3
<1> QED
  BY <1>1, <1>2
-----------------------------------------------------------------------------
\* The points a request can be at.
Points == {"idle", "open", "form", "edit", "conflict", "propose", "audit",
            "approve1", "approve2", "approve3", "erase1", "erase2"}

\* Everything a request is given on its way is a request again.
LEMMA RequestTypes ==
    /\ NoRequest \in Request
    /\ \A l \in Locations : [NoRequest EXCEPT !.loc = l] \in Request
    /\ \A l \in Locations, v \in 0 .. MaxVersion, f \in Contents :
        [NoRequest EXCEPT !.loc = l, !.version = v, !.fields = f] \in Request
    /\ \A l \in Locations, v \in 0 .. MaxVersion :
        [NoRequest EXCEPT !.loc = l, !.version = v] \in Request
    /\ \A l \in Locations, p \in Proposals, c \in Change :
        [NoRequest EXCEPT !.loc = l, !.prop = p, !.change = c] \in Request
    /\ \A e \in AuditEvent : [NoRequest EXCEPT !.event = e] \in Request
    /\ \A r \in Request, h \in Contents : [r EXCEPT !.hours = h] \in Request
<1>0. 0 \in 0 .. MaxVersion
  BY BoundAssumption
<1>1. NoRequest \in Request
  BY <1>0, Zenon DEF NoRequest, Request
<1>2. ASSUME NEW r \in Request
      PROVE  /\ \A l \in Locations : [r EXCEPT !.loc = l] \in Request
             /\ \A v \in 0 .. MaxVersion : [r EXCEPT !.version = v] \in Request
             /\ \A f \in Contents : [r EXCEPT !.fields = f] \in Request
             /\ \A h \in Contents : [r EXCEPT !.hours = h] \in Request
             /\ \A p \in Proposals : [r EXCEPT !.prop = p] \in Request
             /\ \A c \in Change : [r EXCEPT !.change = c] \in Request
             /\ \A e \in AuditEvent : [r EXCEPT !.event = e] \in Request
  BY Zenon DEF Request
<1>3. ASSUME NEW l \in Locations, NEW v \in 0 .. MaxVersion, NEW f \in Contents
      PROVE  [NoRequest EXCEPT !.loc = l, !.version = v, !.fields = f] \in Request
  BY <1>1, <1>2
<1>4. ASSUME NEW l \in Locations, NEW v \in 0 .. MaxVersion
      PROVE  [NoRequest EXCEPT !.loc = l, !.version = v] \in Request
  BY <1>1, <1>2
<1>5. ASSUME NEW l \in Locations, NEW p \in Proposals, NEW c \in Change
      PROVE  [NoRequest EXCEPT !.loc = l, !.prop = p, !.change = c] \in Request
  BY <1>1, <1>2
<1> QED
  BY <1>1, <1>2, <1>3, <1>4, <1>5

\* The pending audit event of a committed change is well formed.
LEMMA AuditTypes ==
    ASSUME TypeOK, NEW a \in Actors, NEW x \in Rows, NEW v \in 0 .. MaxVersion,
           NEW action \in {"parking.created", "parking.edited", "parking.invalidated",
                           "parking.restored", "parking.proposal_created",
                           "proposal.approved", "proposal.rejected"},
           ThenAudit(a, action, x, v)
    PROVE  req' \in [Actors -> Request]
<1>1. [action |-> action, target |-> x, version |-> v] \in AuditEvent
  BY Zenon DEF AuditEvent
<1>2. PICK r \in Request : req' = [req EXCEPT ![a] = r]
  BY <1>1, RequestTypes, Zenon DEF ThenAudit
<1> QED
  BY <1>2 DEF TypeOK

\* Locations, hours and revisions keep their types.
LEMMA LocationTypes ==
    ASSUME IInv, NEW a \in Actors, Step(a)
    PROVE  /\ loc' \in [Locations -> LocationRow]
           /\ hours' \in [Locations -> Contents]
           /\ revs' \subseteq Revision
<1>1. CASE Untouched
  BY <1>1 DEF Untouched, IInv, TypeOK
<1>2. ASSUME NEW l \in Locations, NEW k \in Kinds, NEW row \in LocationRow, NEW h \in Contents,
             Written(l, k, row, h)
      PROVE  /\ loc' \in [Locations -> LocationRow]
             /\ hours' \in [Locations -> Contents]
             /\ revs' \subseteq Revision
  <2>1. loc' \in [Locations -> LocationRow] /\ hours' \in [Locations -> Contents]
    BY <1>2 DEF Written, WriteLocation, IInv, TypeOK
  <2>2. row.version \in Versions
    BY <1>2 DEF Written, Versions, LocationRow, IInv, TypeOK
  <2>3. row.fields \in Contents /\ row.place \in Places /\ row.state \in ModerationState
    BY DEF LocationRow
  <2>4. snapshot(row, h) \in Snapshot
    BY <2>3, Zenon DEF snapshot, Snapshot
  <2>5. [loc |-> l, version |-> row.version, kind |-> k, snap |-> snapshot(row, h)] \in Revision
    BY <2>2, <2>4, Zenon DEF Revision, Kinds
  <2>6. QED
    BY <1>2, <2>1, <2>5 DEF Written, WriteLocation, insert_revision, IInv, TypeOK
<1> QED
  BY <1>1, <1>2, LocationEffect

\* Proposals keep their types.
LEMMA ProposalTypes ==
    ASSUME IInv, NEW a \in Actors, Step(a)
    PROVE  props' \in [Proposals -> ProposalRow]
<1> USE DEF IInv
<1>0. /\ props \in [Proposals -> ProposalRow]
      /\ \A p \in Proposals : props[p] \in ProposalRow
  BY DEF TypeOK
<1>1. ASSUME NEW r \in ProposalRow
      PROVE  /\ \A s \in ProposalStatus : [r EXCEPT !.status = s] \in ProposalRow
             /\ \A b \in SUBSET Actors : [r EXCEPT !.by = b] \in ProposalRow
  BY Zenon DEF ProposalRow
<1>2. ASSUME NEW r \in ProposalRow, NEW s \in ProposalStatus
      PROVE  [r EXCEPT !.status = s, !.by = @ \cup {a}] \in ProposalRow
  <2>1. r.by \cup {a} \in SUBSET Actors
    BY DEF ProposalRow
  <2>2. [r EXCEPT !.status = s, !.by = r.by \cup {a}] \in ProposalRow
    BY <2>1, Zenon DEF ProposalRow
  <2>3. QED
    BY <2>2
<1>3. {"APPROVED", "SUPERSEDED", "REJECTED", "PENDING"} \subseteq ProposalStatus
  BY DEF ProposalStatus
<1>4. CASE UNCHANGED props
  BY <1>4, <1>0
<1>5. CASE create_proposal(a)
  <2>1. PICK q \in Proposals, k \in {"move", "existence"} :
            props' = [props EXCEPT ![q] = [NoProposal EXCEPT
                            !.loc = req[a].loc, !.base = req[a].version,
                            !.kind = k, !.status = "PENDING", !.by = {a}]]
    BY <1>5 DEF create_proposal
  <2>2. req[a].loc \in Locations /\ req[a].version \in 0 .. MaxVersion
    BY <1>5 DEF create_proposal, Editing, TypeOK, Request
  <2>3. 0 \in 0 .. MaxVersion
    BY BoundAssumption
  <2>4. NoProposal \in ProposalRow
    BY <2>3, Zenon DEF NoProposal, ProposalRow
  <2>5. [NoProposal EXCEPT !.loc = req[a].loc, !.base = req[a].version,
                           !.kind = k, !.status = "PENDING", !.by = {a}] \in ProposalRow
    BY <1>3, <2>2, <2>4, Zenon DEF ProposalRow
  <2>6. QED
    BY <1>0, <2>1, <2>5
<1>6. CASE reject_proposal(a)
  <2>1. PICK q \in Proposals :
            props' = [props EXCEPT ![q].status = "REJECTED", ![q].by = @ \cup {a}]
    BY <1>6 DEF reject_proposal
  <2>2. props' = [props EXCEPT ![q] = [props[q] EXCEPT !.status = "REJECTED", !.by = @ \cup {a}]]
    BY <1>0, <2>1 DEF ProposalRow
  <2>3. [props[q] EXCEPT !.status = "REJECTED", !.by = @ \cup {a}] \in ProposalRow
    BY <1>0, <1>2, <1>3
  <2>4. QED
    BY <1>0, <2>2, <2>3
<1>7. CASE approve_proposal(a)
  <2>1. props' = [q \in Proposals |->
                    IF q = req[a].prop THEN [props[q] EXCEPT !.status = "APPROVED", !.by = @ \cup {a}]
                    ELSE IF q \in Siblings(req[a].prop) THEN [props[q] EXCEPT !.status = "SUPERSEDED"]
                    ELSE props[q]]
    BY <1>7, Zenon DEF approve_proposal
  <2>2. \A q \in Proposals :
            /\ [props[q] EXCEPT !.status = "APPROVED", !.by = @ \cup {a}] \in ProposalRow
            /\ [props[q] EXCEPT !.status = "SUPERSEDED"] \in ProposalRow
    BY <1>0, <1>1, <1>2, <1>3
  <2>3. QED
    BY <1>0, <2>1, <2>2
<1>8. CASE EraseLocations(a)
  <2>1. CASE props' = [p \in Proposals |-> IF p \in Named(a) THEN [props[p] EXCEPT !.by = {}]
                                                             ELSE props[p]]
    <3>1. \A p \in Proposals : [props[p] EXCEPT !.by = {}] \in ProposalRow
      BY <1>0, <1>1
    <3>2. QED
      BY <1>0, <2>1, <3>1
  <2>2. QED
    BY <1>4, <1>8, <2>1, Zenon DEF EraseLocations
<1> QED
  BY <1>4, <1>5, <1>6, <1>7, <1>8, Zenon
     DEF Step, Transaction, add_parking_location, OpenEdit, ReadHours, SubmitEdit, apply_edit,
         set_parking_state, invalidate_parking, restore_parking, Propose, Approve, LockLocation,
         LockProposal, Anonymize, EraseProposals, RecordAudit, Drop, BreakDeadlock

\* Locks keep their types.
LEMMA LockTypes ==
    ASSUME TypeOK, NEW a \in Actors, Step(a)
    PROVE  lock' \in [Rows -> Actors \cup {None}]
<1>1. \/ lock' = lock
      \/ lock' = Unlocked(a)
      \/ \E y : lock' = [lock EXCEPT ![y] = a]
  BY Zenon
     DEF Step, Transaction, add_parking_location, OpenEdit, ReadHours, SubmitEdit,
         apply_edit, set_parking_state, invalidate_parking, restore_parking, Propose,
         create_proposal, Approve, LockLocation, LockProposal, approve_proposal,
         reject_proposal, Anonymize, EraseProposals, EraseLocations, RecordAudit, Drop,
         BreakDeadlock
<1> QED
  BY <1>1 DEF TypeOK, Unlocked

\* Each request stays at one of its points.
LEMMA PointTypes ==
    ASSUME TypeOK, NEW a \in Actors, Step(a)
    PROVE  pc' \in [Actors -> Points]
<1>0. pc \in [Actors -> Points]
  BY DEF TypeOK, Points
<1>1. {"idle", "open", "form", "edit", "conflict", "propose", "audit",
       "approve1", "approve2", "approve3", "erase1", "erase2"} \subseteq Points
  BY DEF Points
<1>2. \/ pc' = pc
      \/ \E v \in Points : pc' = [pc EXCEPT ![a] = v]
  BY <1>1, Zenon
     DEF Step, Transaction, add_parking_location, OpenEdit, ReadHours, SubmitEdit,
         apply_edit, set_parking_state, invalidate_parking, restore_parking, Propose,
         create_proposal, Approve, LockLocation, LockProposal, approve_proposal,
         reject_proposal, Anonymize, EraseProposals, EraseLocations, RecordAudit, Drop,
         BreakDeadlock, Return, ThenAudit
<1> QED
  BY <1>0, <1>2

\* Requests keep their types.
LEMMA RequestStep ==
    ASSUME IInv, NEW a \in Actors, Step(a)
    PROVE  req' \in [Actors -> Request]
<1> USE DEF IInv
<1>0. /\ req \in [Actors -> Request]
      /\ Locations \subseteq Rows /\ Proposals \subseteq Rows
      /\ 0 \in 0 .. MaxVersion /\ 1 \in 0 .. MaxVersion
      /\ \A l \in Locations : /\ loc[l].version \in 0 .. MaxVersion
                              /\ loc[l].fields \in Contents /\ hours[l] \in Contents
                              /\ loc[l].version < MaxVersion => loc[l].version + 1 \in 0 .. MaxVersion
  BY BoundAssumption DEF TypeOK, Rows, LocationRow
<1>1. CASE UNCHANGED req
  BY <1>0, <1>1
<1>2. CASE \E r \in Request : req' = [req EXCEPT ![a] = r]
  BY <1>0, <1>2
<1>3. Return(a) => \E r \in Request : req' = [req EXCEPT ![a] = r]
  BY RequestTypes, Zenon DEF Return
<1>4. CASE add_parking_location(a)
  BY <1>0, <1>4, AuditTypes, Zenon DEF add_parking_location
<1>5. CASE OpenEdit(a)
  <2>1. PICK l \in Locations :
            req' = [req EXCEPT ![a] = [NoRequest EXCEPT !.loc = l,
                            !.version = loc[l].version, !.fields = loc[l].fields]]
    BY <1>5 DEF OpenEdit
  <2>2. [NoRequest EXCEPT !.loc = l, !.version = loc[l].version,
                          !.fields = loc[l].fields] \in Request
    BY <1>0, RequestTypes
  <2>3. QED
    BY <1>2, <2>1, <2>2
<1>6. CASE ReadHours(a)
  <2>1. req' = [req EXCEPT ![a] = [req[a] EXCEPT !.hours = hours[req[a].loc]]]
    BY <1>0, <1>6 DEF ReadHours, Request
  <2>2. req[a].loc \in Locations /\ req[a] \in Request
    BY <1>0, <1>6 DEF ReadHours, Editing
  <2>3. [req[a] EXCEPT !.hours = hours[req[a].loc]] \in Request
    BY <1>0, <2>2, RequestTypes
  <2>4. QED
    BY <1>2, <2>1, <2>3
<1>7. CASE apply_edit(a)
  <2> DEFINE l == req[a].loc
  <2>1. l \in Locations
    BY <1>7, Zenon DEF apply_edit, Editing
  <2>2. ASSUME loc[l].version < MaxVersion, ThenAudit(a, "parking.edited", l, loc[l].version + 1)
        PROVE  req' \in [Actors -> Request]
    BY <1>0, <2>1, <2>2, AuditTypes
  <2>3. [NoRequest EXCEPT !.loc = l] \in Request
    BY <2>1, RequestTypes
  <2>4. QED
    BY <1>1, <1>2, <1>3, <1>7, <2>2, <2>3, Zenon DEF apply_edit
<1>8. CASE invalidate_parking(a) \/ restore_parking(a)
  <2>1. PICK action \in {"parking.invalidated", "parking.restored"}, l \in Locations :
            loc[l].version < MaxVersion /\ ThenAudit(a, action, l, loc[l].version + 1)
    BY <1>8, Zenon DEF invalidate_parking, restore_parking, set_parking_state
  <2>2. QED
    BY <1>0, <2>1, AuditTypes
<1>9. CASE Propose(a)
  <2>1. PICK l \in Locations :
            req' = [req EXCEPT ![a] = [NoRequest EXCEPT !.loc = l, !.version = loc[l].version]]
    BY <1>9 DEF Propose
  <2>2. [NoRequest EXCEPT !.loc = l, !.version = loc[l].version] \in Request
    BY <1>0, RequestTypes
  <2>3. QED
    BY <1>2, <2>1, <2>2
<1>10. CASE create_proposal(a) \/ reject_proposal(a)
  <2>1. PICK action \in {"parking.proposal_created", "proposal.rejected"}, p \in Proposals :
            ThenAudit(a, action, p, 0)
    BY <1>10, Zenon DEF create_proposal, reject_proposal
  <2>2. QED
    BY <1>0, <2>1, AuditTypes
<1>11. CASE Approve(a)
  <2>1. PICK p \in Proposals, c \in Change :
            /\ props[p].status # "absent"
            /\ req' = [req EXCEPT ![a] = [NoRequest EXCEPT !.loc = props[p].loc, !.prop = p,
                                                           !.change = c]]
    BY <1>11 DEF Approve, merge
  <2>2. props[p].loc \in Locations
    BY <2>1 DEF ProposalsPlaced
  <2>3. [NoRequest EXCEPT !.loc = props[p].loc, !.prop = p, !.change = c] \in Request
    BY <2>2, RequestTypes
  <2>4. QED
    BY <1>2, <2>1, <2>3
<1>12. CASE approve_proposal(a)
  <2> DEFINE l == req[a].loc
             p == req[a].prop
  <2>1. pc[a] = "approve3" /\ ThenAudit(a, "proposal.approved", p, loc[l].version + 1)
    BY <1>12, Zenon DEF approve_proposal
  <2>2. p \in Proposals /\ l \in Locations /\ loc[l].version < MaxVersion
    BY <2>1, Zenon DEF Approving, Locking, ProposalsPlaced, Approvable
  <2>3. QED
    BY <1>0, <2>1, <2>2, AuditTypes
<1> QED
  BY <1>1, <1>2, <1>3, <1>4, <1>5, <1>6, <1>7, <1>8, <1>9, <1>10, <1>11, <1>12, Zenon
     DEF Step, Transaction, SubmitEdit, LockLocation, LockProposal, Anonymize, EraseProposals,
         EraseLocations, RecordAudit, Drop, BreakDeadlock

-----------------------------------------------------------------------------
\* The tables as they are seeded satisfy the inductive invariant.
LEMMA InitIInv == Init => IInv
<1> SUFFICES ASSUME Init PROVE IInv
  OBVIOUS
<1>0. 0 \in 0 .. MaxVersion /\ 1 \in 0 .. MaxVersion
  BY BoundAssumption
<1>1. /\ loc \in [Locations -> LocationRow]
      /\ \A l \in Locations : loc[l].version \in {0, 1}
  BY DEF Init
<1>2. \A l \in Locations : loc[l] \in LocationRow /\ loc[l].fields \in Contents
  BY <1>1 DEF LocationRow
<1>3. hours \in [Locations -> Contents]
  BY <1>2 DEF Init
<1>4. NoProposal \in ProposalRow
  BY <1>0, Zenon DEF NoProposal, ProposalRow
<1>5. props \in [Proposals -> ProposalRow] /\ \A p \in Proposals : props[p].status = "absent"
  BY <1>4 DEF Init, NoProposal
<1>6. lock \in [Rows -> Actors \cup {None}] /\ revs = {}
  BY DEF Init
<1>7. req \in [Actors -> Request]
  BY RequestTypes DEF Init
<1>8. /\ pc \in [Actors -> Points]
      /\ \A a \in Actors : pc[a] = "idle"
  BY DEF Init, Points
<1>9. TypeOK
  BY <1>1, <1>3, <1>5, <1>6, <1>7, <1>8 DEF TypeOK, Points
<1>10. ProposalsPlaced /\ ApprovedOnItsBase /\ SupersededByApproval
  BY <1>5 DEF ProposalsPlaced, ApprovedOnItsBase, SupersededByApproval
<1>11. \A a \in Actors : Editing(a) /\ Approving(a) /\ Locking(a)
  BY <1>8 DEF Editing, Approving, Locking
<1>12. HistoryComplete
  <2>1. \A l \in Locations : 2 .. loc[l].version = {}
    BY <1>1
  <2>2. QED
    BY <1>6, <2>1 DEF HistoryComplete
<1> QED
  BY <1>9, <1>10, <1>11, <1>12 DEF IInv

\* Every step preserves the inductive invariant.
LEMMA NextIInv == IInv /\ [Next]_vars => IInv'
<1>1. ASSUME IInv, NEW a \in Actors, Step(a) PROVE IInv'
  <2>1. TypeOK'
    <3>1. pc' \in [Actors -> Points] /\ lock' \in [Rows -> Actors \cup {None}]
      BY <1>1, PointTypes, LockTypes DEF IInv
    <3>2. QED
      BY <1>1, <3>1, LocationTypes, ProposalTypes, RequestStep DEF TypeOK, Points
  <2>2. /\ ProposalsPlaced' /\ HistoryComplete' /\ ApprovedOnItsBase' /\ SupersededByApproval'
    BY <1>1, PlacedStep, HistoryStep, ApprovedStep, SupersededStep
  <2>3. (\A b \in Actors : Editing(b) /\ Approving(b) /\ Locking(b))'
    BY <1>1, EditingStep, ApprovingStep, LockingStep
  <2>4. QED
    BY <2>1, <2>2, <2>3 DEF IInv
<1>2. ASSUME IInv, UNCHANGED vars PROVE IInv'
  <2>1. UNCHANGED <<loc, hours, revs, props, lock, pc, req>>
    BY <1>2 DEF vars
  <2>2. TypeOK' /\ ProposalsPlaced' /\ SupersededByApproval'
    BY <1>2, <2>1 DEF IInv, TypeOK, ProposalsPlaced, Exists, SupersededByApproval
  <2>3. HistoryComplete'
    BY <1>2, <2>1 DEF IInv, HistoryComplete, snapshot
  <2>4. ApprovedOnItsBase'
    BY <1>2, <2>1 DEF IInv, ApprovedOnItsBase
  <2>5. ASSUME NEW b \in Actors PROVE Editing(b)' /\ Approving(b)' /\ Locking(b)'
    <3>1. Editing(b)'
      BY <1>2, <2>1 DEF IInv, Editing, Shown, Exists
    <3>2. Approving(b)'
      BY <1>2, <2>1 DEF IInv, Approving
    <3>3. Locking(b)'
      BY <1>2, <2>1 DEF IInv, Locking, Approvable
    <3>4. QED
      BY <3>1, <3>2, <3>3
  <2>6. QED
    BY <2>2, <2>3, <2>4, <2>5 DEF IInv
<1> QED
  BY <1>1, <1>2 DEF Next

\* The invariant holds throughout.
THEOREM Invariance == Spec => []IInv
<1> QED
  BY InitIInv, NextIInv, PTL DEF Spec

\* The tables and the requests keep their types: every write the handlers make is
\* of the shape its column accepts.
THEOREM TypeCorrect == Spec => []TypeOK
<1>1. IInv => TypeOK
  BY DEF IInv
<1> QED
  BY <1>1, Invariance, PTL

\* The revision history of every location is complete, unique and current, with
\* create, apply_edit, set_parking_state and approve_proposal in any order.
THEOREM HistoryIsComplete == Spec => []HistoryComplete
<1>1. IInv => HistoryComplete
  BY DEF IInv
<1> QED
  BY <1>1, Invariance, PTL

\* approve_proposal applies every approved proposal to the version it was made
\* for, and never two proposals to one version, however many moderators act.
THEOREM ApprovalsOnTheirBase == Spec => []ApprovedOnItsBase
<1>1. IInv => ApprovedOnItsBase
  BY DEF IInv
<1> QED
  BY <1>1, Invariance, PTL

\* Only an approval on the same location supersedes a proposal.
THEOREM SupersededOnlyByApproval == Spec => []SupersededByApproval
<1>1. IInv => SupersededByApproval
  BY DEF IInv
<1> QED
  BY <1>1, Invariance, PTL

\* apply_edit loses no update: what an accepted edit overwrites is what its author
\* was shown, although the page was read in two statements.
THEOREM NoUpdateIsLost == Spec => NoLostUpdate
<1>1. ASSUME IInv, [Next]_vars PROVE [EditReplacesWhatWasShown]_vars
  <2>1. SUFFICES ASSUME NEW a \in Actors, Step(a), NEW b \in Actors,
                        pc[b] = "edit", pc'[b] = "audit"
                 PROVE  /\ loc[req[b].loc].fields = req[b].fields
                        /\ hours[req[b].loc] = req[b].hours
                        /\ Active(req[b].loc)
    BY <1>1 DEF Next, EditReplacesWhatWasShown
  <2>2. b = a
    BY <1>1, <2>1, OthersKeep DEF IInv
  <2>3. apply_edit(a) \/ Drop(a) \/ BreakDeadlock(a)
    BY <2>1, <2>2, Zenon
       DEF Step, Transaction, add_parking_location, OpenEdit, ReadHours, SubmitEdit,
           set_parking_state, invalidate_parking, restore_parking, Propose, create_proposal,
           Approve, LockLocation, LockProposal, approve_proposal, reject_proposal, Anonymize,
           EraseProposals, EraseLocations, RecordAudit
  <2>4. ~(pc' = [pc EXCEPT ![a] = "idle"]) /\ ~(pc' = [pc EXCEPT ![a] = "conflict"])
    BY <1>1, <2>1, <2>2 DEF IInv, TypeOK
  <2>5. Active(req[a].loc) /\ loc[req[a].loc].version = req[a].version
    BY <2>3, <2>4, Zenon DEF apply_edit, Drop, BreakDeadlock, Return
  <2>6. Shown(a)
    BY <1>1, <2>1, <2>2 DEF IInv, Editing
  <2>7. QED
    BY <2>1, <2>2, <2>5, <2>6 DEF Shown
<1> QED
  BY <1>1, Invariance, PTL DEF Spec, NoLostUpdate

\* A resolved proposal stays as it was resolved: approve_proposal, reject_proposal
\* and the superseding of siblings exclude each other.
THEOREM ResolutionsAreFinal == Spec => ResolutionIsFinal
<1>1. ASSUME IInv, [Next]_vars PROVE [ResolvedOnce]_vars
  BY <1>1, ProposalEffect DEF Next, ResolvedOnce, SameProposal
<1> QED
  BY <1>1, Invariance, PTL DEF Spec, ResolutionIsFinal
=============================================================================
