------------------------------- MODULE Reviews -------------------------------
(***************************************************************************)
(* What riders say about one location: its reviews and the rating          *)
(* aggregate kept on the location row (community/review.rs), verification  *)
(* signals and last_verified_at (community/verification.rs), favourites    *)
(* (community/favorite.rs), under the service community.rs and the         *)
(* handlers of routes/reviews.rs; with the moderation statements and the   *)
(* account erasure that touch the same rows.                               *)
(*                                                                         *)
(* PostgreSQL runs READ COMMITTED.  A request is split wherever another    *)
(* one can come between two of its statements, and at the snapshot of the  *)
(* statements whose outcome depends on it.  anonymize is one step: it      *)
(* locks the users row first, and every INSERT for that user waits there.  *)
(***************************************************************************)
EXTENDS Integers

CONSTANTS
    Users,        \* accounts; all have a verified address
    Clients,      \* requests in progress; two of them may be one user's
    Ids,          \* review ids
    Stars,        \* what the rating field of the form can hold
    None,         \* SQL NULL
    MaxRequests   \* bound on the number of requests

ASSUME NoneAssumption == None \notin Users \cup Ids
ASSUME StarsAssumption == Stars \subseteq Int
ASSUME BoundAssumption == MaxRequests \in Nat

VARIABLES
    location,      \* the row: moderation_state, the aggregate, last_verified_at
    review,        \* the review table, with the newest review_revision of each row
    verification,  \* the verification table
    favorite,      \* the users with a favorite row
    audit,         \* the review events of audit_events: how many of each kind
    req,           \* each client's request
    begun,         \* how many requests there have been
    erased,        \* the accounts that have been anonymized
    disturbed,     \* history: reviews changed behind the aggregate's back
    late,          \* history: erased accounts with a request in flight
    answered       \* history: how often the favourite button said added, less removed

table == <<location, review, verification, favorite, audit>>
history == <<begun, erased, disturbed, late, answered>>
vars == <<table, req, history>>

-----------------------------------------------------------------------------
\* The tables

\* StarRating::new; ReviewBody is valid or the form is refused just the same.
StarRating == 1 .. 5
Ratings == Stars \cap StarRating

\* author: None once the account is anonymized; newest: the last revision's rating
ReviewRow == [author: Users \cup {None}, rating: Ratings,
              state: {"ACTIVE", "HIDDEN"}, newest: Ratings]
NoReview == [author |-> None, rating |-> 0, state |-> "absent", newest |-> 0]

ExistenceResult == {"still_exists", "no_longer_exists", "info_changed"}
AttributeResult == {"correct", "incorrect"}

\* NewVerification; attribute_code does not matter here.
ParkedHere == [kind |-> "parked_here", result |-> "parked_here"]
Signal == [kind: {"existence"}, result: ExistenceResult]
          \cup [kind: {"attribute"}, result: AttributeResult]
          \cup {ParkedHere}
VerifyForm == [kind: {"existence", "attribute", "parked_here", "other"},
               result: ExistenceResult \cup AttributeResult \cup {"other"}]
NoSignal == [kind |-> "none", result |-> "none"]
is_still_exists(s) == s = [kind |-> "existence", result |-> "still_exists"]

VerificationRow == [user: Users \cup {None}, signal: Signal]

\* The aggregate (rating_avg, rating_count) is a function of the reviews it counted.
Counted == SUBSET (Ids \X Ratings)
LocationRow == [state: {"ACTIVE", "INVALID"}, counted: Counted, verified: BOOLEAN]

Exists(i) == review[i].state # "absent"
ReviewOf(u) == {i \in Ids : Exists(i) /\ review[i].author = u}

\* The reviews both subqueries of the aggregate range over.
ActiveReviews(r) == {<<i, r[i].rating>> : i \in {j \in Ids : r[j].state = "ACTIVE"}}

Request == [pc: {"idle", "upsert", "aggregate", "commit", "record", "mark", "toggle", "audit"},
            user: Users \cup {None}, rating: Ratings \cup {0}, signal: Signal \cup {NoSignal},
            id: Ids \cup {None}, update: BOOLEAN, counted: Counted,
            alone: BOOLEAN, snap: BOOLEAN]
Idle == [pc |-> "idle", user |-> None, rating |-> 0, signal |-> NoSignal, id |-> None,
         update |-> FALSE, counted |-> {}, alone |-> FALSE, snap |-> FALSE]

TypeOK ==
    /\ location \in LocationRow
    /\ review \in [Ids -> ReviewRow \cup {NoReview}]
    /\ verification \subseteq VerificationRow
    /\ favorite \subseteq Users
    /\ audit \in [Ids -> [created: Nat, edited: Nat]]
    /\ req \in [Clients -> Request]
    /\ begun \in 0 .. MaxRequests
    /\ erased \subseteq Users
    /\ disturbed \in BOOLEAN
    /\ late \subseteq erased
    /\ answered \in [Users -> Int]

Init ==
    /\ location = [state |-> "ACTIVE", counted |-> {}, verified |-> FALSE]
    /\ review = [i \in Ids |-> NoReview]
    /\ verification = {}
    /\ favorite = {}
    /\ audit = [i \in Ids |-> [created |-> 0, edited |-> 0]]
    /\ req = [c \in Clients |-> Idle]
    /\ begun = 0
    /\ erased = {}
    /\ disturbed = FALSE
    /\ late = {}
    /\ answered = [u \in Users |-> 0]

-----------------------------------------------------------------------------
\* Requests

\* The session resolved, so the account was not erased then.
Begin(c, r) ==
    /\ req[c].pc = "idle"
    /\ begun < MaxRequests
    /\ r.user \notin erased
    /\ req' = [req EXCEPT ![c] = r]
    /\ begun' = begun + 1

\* A location moderation has taken down accepts no contribution.
require_active == location.state = "ACTIVE"

Goto(c, l) == req' = [req EXCEPT ![c].pc = l]
Return(c) == req' = [req EXCEPT ![c] = Idle]

\* The handler is cancelled, the connection or the process is lost: what the
\* transaction has written is rolled back, what is committed stays.
Drop(c) ==
    /\ req[c].pc # "idle"
    /\ Return(c)
    /\ UNCHANGED <<table, history>>

-----------------------------------------------------------------------------
\* Reviews

\* A transaction that has written a review row and not committed yet.
Open(c) == req[c].pc \in {"aggregate", "commit"}
RowFree(i) == \A d \in Clients : ~(Open(d) /\ req[d].id = i)
Inserting(u) == \E d \in Clients : Open(d) /\ req[d].user = u /\ ~req[d].update

\* The service's checks, up to the first statement; the rate limit is another
\* module's, and a refused request changes nothing.
upsert_review(c, u, n) ==
    /\ require_active
    /\ Begin(c, [Idle EXCEPT !.pc = "upsert", !.user = u, !.rating = n])
    /\ UNCHANGED <<table, erased, disturbed, late, answered>>

\* The handler refuses a form without a valid rating and body; the photos that come
\* with the form are uploaded after the review, one request each.
review_post(c, u, n) == n \in StarRating /\ upsert_review(c, u, n)

\* INSERT ... ON CONFLICT (location_id, author_id) DO UPDATE waits for the other
\* transaction on the author's row, and learns from xmax which of the two it did.
UpsertRow(c) ==
    /\ req[c].pc = "upsert"
    /\ ~Inserting(req[c].user)
    /\ \E i \in Ids :
        /\ IF ReviewOf(req[c].user) # {} THEN i \in ReviewOf(req[c].user) /\ RowFree(i)
                                         ELSE ~Exists(i) /\ RowFree(i)
        /\ req' = [d \in Clients |->
             IF d = c THEN [req[c] EXCEPT !.pc = "aggregate", !.id = i,
                                !.update = ReviewOf(req[c].user) # {},
                                !.alone = \A e \in Clients : ~Open(e)]
             ELSE [req[d] EXCEPT !.alone = FALSE]]
    /\ UNCHANGED <<table, history>>

\* Mutant: an edit stores the values it replaces as its revision.
WrittenOldRevision(c) ==
    [author |-> req[c].user, rating |-> req[c].rating,
     newest |-> IF req[c].update THEN review[req[c].id].rating ELSE req[c].rating,
     state |-> IF req[c].update THEN review[req[c].id].state ELSE "ACTIVE"]

\* What the transaction's own INSERT or UPDATE made of its row: the columns of the
\* DO UPDATE set, moderation_state not among them, and the revision just appended.
Written(c) ==
    [author |-> req[c].user, rating |-> req[c].rating, newest |-> req[c].rating,
     state |-> IF req[c].update THEN review[req[c].id].state ELSE "ACTIVE"]
WithOwnRow(c) == [review EXCEPT ![req[c].id] = Written(c)]

\* Mutant: the aggregate is computed without the row just written.
AggregateBeforeUpsert(c) ==
    /\ req[c].pc = "aggregate"
    /\ req' = [req EXCEPT ![c].pc = "commit", ![c].counted = ActiveReviews(review)]
    /\ UNCHANGED <<table, history>>

\* The aggregate UPDATE starts: its subqueries see the reviews committed by now and
\* the transaction's own.  It may then wait for the location row, with this snapshot.
Aggregate(c) ==
    /\ req[c].pc = "aggregate"
    /\ req' = [req EXCEPT ![c].pc = "commit", ![c].counted = ActiveReviews(WithOwnRow(c))]
    /\ UNCHANGED <<table, history>>

\* The location row is written and the transaction commits.
CommitReview(c) ==
    /\ req[c].pc = "commit"
    /\ review' = WithOwnRow(c)
    /\ location' = [location EXCEPT !.counted = req[c].counted]
    /\ disturbed' = ~req[c].alone
    /\ Goto(c, "audit")
    /\ UNCHANGED <<verification, favorite, audit, begun, erased, late, answered>>

\* review.created or review.edited, in a statement of its own; a verification's
\* event is not kept.
RecordAudit(c) ==
    /\ req[c].pc = "audit"
    /\ audit' = IF req[c].id = None THEN audit
                ELSE IF req[c].update THEN [audit EXCEPT ![req[c].id].edited = @ + 1]
                ELSE [audit EXCEPT ![req[c].id].created = @ + 1]
    /\ Return(c)
    /\ UNCHANGED <<location, review, verification, favorite, history>>

-----------------------------------------------------------------------------
\* Verification

\* The service's checks, up to the first statement.
record_verification(c, u, s) ==
    /\ require_active
    /\ Begin(c, [Idle EXCEPT !.pc = "record", !.user = u, !.signal = s])
    /\ UNCHANGED <<table, erased, disturbed, late, answered>>

\* An unknown kind, or a result that is none of its kind's, is refused; a parked-here
\* form has no result.
parking_verify_post(c, u, f) ==
    LET s == IF f.kind = "parked_here" THEN ParkedHere ELSE f
    IN  s \in Signal /\ record_verification(c, u, s)

parking_parked_here_post(c, u) == record_verification(c, u, ParkedHere)

\* Mutant: every existence signal refreshes the location.
recordMarksAny(c) ==
    /\ req[c].pc = "record"
    /\ verification' = verification \cup {[user |-> req[c].user, signal |-> req[c].signal]}
    /\ Goto(c, IF req[c].signal.kind = "existence" THEN "mark" ELSE "audit")
    /\ UNCHANGED <<location, review, favorite, audit, history>>

record(c) ==
    /\ req[c].pc = "record"
    /\ verification' = verification \cup {[user |-> req[c].user, signal |-> req[c].signal]}
    /\ Goto(c, IF is_still_exists(req[c].signal) THEN "mark" ELSE "audit")
    /\ UNCHANGED <<location, review, favorite, audit, history>>

mark_verified_at(c) ==
    /\ req[c].pc = "mark"
    /\ location' = [location EXCEPT !.verified = TRUE]
    /\ Goto(c, "audit")
    /\ UNCHANGED <<review, verification, favorite, audit, history>>

-----------------------------------------------------------------------------
\* Favourites

\* Any signed-in user, on a location in any state.  The statement starts, and its
\* DELETE arm sees the row or does not.
parking_favorite_post(c, u) ==
    /\ Begin(c, [Idle EXCEPT !.pc = "toggle", !.user = u, !.snap = u \in favorite])
    /\ UNCHANGED <<table, erased, disturbed, late, answered>>

\* A row deleted meanwhile is gone for every other statement that had seen it, also
\* when a new one has taken its place.
Forget(u) == [d \in Clients |-> IF req[d].user = u THEN [req[d] EXCEPT !.snap = FALSE]
                                ELSE req[d]]

\* Mutant: the answer is the state read first, reversed; the write does not look again.
toggleStaleRead(c) ==
    LET u == req[c].user IN
    /\ req[c].pc = "toggle"
    /\ favorite' = IF req[c].snap THEN favorite \ {u} ELSE favorite \cup {u}
    /\ answered' = [answered EXCEPT ![u] = IF req[c].snap THEN @ - 1 ELSE @ + 1]
    /\ Return(c)
    /\ UNCHANGED <<location, review, verification, audit, begun, erased, disturbed, late>>

\* The row is deleted, and that is the answer; else one is inserted, which fails
\* with a conflict when there is one the statement does not see.
toggle(c) ==
    LET u == req[c].user IN
    /\ req[c].pc = "toggle"
    /\ \/ /\ req[c].snap
          /\ favorite' = favorite \ {u}
          /\ answered' = [answered EXCEPT ![u] = @ - 1]
          /\ req' = [Forget(u) EXCEPT ![c] = Idle]
       \/ /\ ~req[c].snap /\ u \notin favorite
          /\ favorite' = favorite \cup {u}
          /\ answered' = [answered EXCEPT ![u] = @ + 1]
          /\ Return(c)
       \/ /\ ~req[c].snap /\ u \in favorite
          /\ UNCHANGED <<favorite, answered>>
          /\ Return(c)
    /\ UNCHANGED <<location, review, verification, audit, begun, erased, disturbed, late>>

-----------------------------------------------------------------------------
\* Moderation and erasure

\* The row changes, in one statement that waits for its lock; the aggregate does not.
SetReviewState(i, from, to) ==
    /\ review[i].state = from
    /\ RowFree(i)
    /\ review' = [review EXCEPT ![i].state = to]
    /\ disturbed' = TRUE
    /\ req' = [d \in Clients |-> [req[d] EXCEPT !.alone = FALSE]]
    /\ UNCHANGED <<location, verification, favorite, audit, begun, erased, late, answered>>

hide_review(i) == SetReviewState(i, "ACTIVE", "HIDDEN")
restore_review(i) == SetReviewState(i, "HIDDEN", "ACTIVE")

\* invalidate_parking and restore_parking
set_parking_state ==
    /\ location' = [location EXCEPT !.state = IF @ = "ACTIVE" THEN "INVALID" ELSE "ACTIVE"]
    /\ UNCHANGED <<review, verification, favorite, audit, req, history>>

\* Mutant: the signals keep their author.
anonymizeKeepsSignals(u) ==
    /\ u \notin erased
    /\ ~Inserting(u)
    /\ \A i \in ReviewOf(u) : RowFree(i)
    /\ erased' = erased \cup {u}
    /\ late' = IF \E c \in Clients : req[c].user = u THEN late \cup {u} ELSE late
    /\ review' = [i \in Ids |-> IF i \in ReviewOf(u) THEN [review[i] EXCEPT !.author = None]
                                ELSE review[i]]
    /\ verification' = {v \in verification : v.user # u \/ v.signal.kind # "parked_here"}
    /\ favorite' = favorite \ {u}
    /\ answered' = [answered EXCEPT ![u] = 0]
    /\ req' = Forget(u)
    /\ UNCHANGED <<location, audit, begun, disturbed>>

\* The statements of anonymize on these tables: the reviews and the signals stay,
\* without their author; favourites and parked-here rows go.
anonymize(u) ==
    /\ u \notin erased
    /\ ~Inserting(u)
    /\ \A i \in ReviewOf(u) : RowFree(i)
    /\ erased' = erased \cup {u}
    /\ late' = IF \E c \in Clients : req[c].user = u THEN late \cup {u} ELSE late
    /\ review' = [i \in Ids |-> IF i \in ReviewOf(u) THEN [review[i] EXCEPT !.author = None]
                                ELSE review[i]]
    /\ verification' =
         {v \in verification : v.user # u}
         \cup {[user |-> None, signal |-> v.signal] :
                 v \in {w \in verification : w.user = u /\ w.signal.kind # "parked_here"}}
    /\ favorite' = favorite \ {u}
    /\ answered' = [answered EXCEPT ![u] = 0]
    /\ req' = Forget(u)
    /\ UNCHANGED <<location, audit, begun, disturbed>>

-----------------------------------------------------------------------------

Next ==
    \/ \E c \in Clients, u \in Users :
         \/ \E n \in Stars : review_post(c, u, n)
         \/ \E f \in VerifyForm : parking_verify_post(c, u, f)
         \/ parking_parked_here_post(c, u)
         \/ parking_favorite_post(c, u)
    \/ \E c \in Clients :
         \/ UpsertRow(c) \/ Aggregate(c) \/ CommitReview(c)
         \/ record(c) \/ mark_verified_at(c) \/ toggle(c)
         \/ RecordAudit(c) \/ Drop(c)
    \/ \E i \in Ids : hide_review(i) \/ restore_review(i)
    \/ set_parking_state
    \/ \E u \in Users : anonymize(u)

Spec == Init /\ [][Next]_vars

-----------------------------------------------------------------------------
\* Properties

\* The aggregate on the location row is that of its active reviews, unless a review
\* was hidden or restored, or two reviews were written at once, since the last
\* upsert_review that ran undisturbed: drift never outlives such an upsert.
HealsAlone == ~disturbed => location.counted = ActiveReviews(review)

\* The newest review_revision is what the page shows, however the submissions of
\* one author interleave.
NewestIsPublished == \A i \in Ids : Exists(i) => review[i].newest = review[i].rating

\* A last_verified_at is backed by a still_exists row, also when the request ends
\* between the two statements or its author is erased.
FreshnessIsBacked ==
    location.verified => \E v \in verification : is_still_exists(v.signal)

\* Nothing is attributed to an erased account, unless a request of its own was in
\* flight when anonymize committed.
ErasureSticks ==
    \A u \in erased \ late :
        /\ ReviewOf(u) = {}
        /\ u \notin favorite
        /\ \A v \in verification : v.user # u

\* The answers of the favourite button add up to the row it stands for: of any two
\* in a row one says added and one removed, however two clicks interleave.
AnswersAddUp == \A u \in Users : answered[u] = IF u \in favorite THEN 1 ELSE 0
=============================================================================
