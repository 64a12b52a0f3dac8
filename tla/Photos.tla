-------------------------------- MODULE Photos --------------------------------
(***************************************************************************)
(* Photos: rows in two tables, bytes in an object store that no            *)
(* transaction covers.  The service photo.rs writes the objects, then the  *)
(* row; moderators approve, reject, hide and restore; the retention job    *)
(* sweeps objects no row refers to, and rows whose object is missing.      *)
(*                                                                         *)
(* One step is one call of the store or one statement of the database.     *)
(* A request may end between any two (its connection closes, the process   *)
(* stops), and a call may fail with or without having taken effect.        *)
(***************************************************************************)
EXTENDS Integers, FiniteSets

CONSTANTS
    MaxUploads,    \* bound on the number of uploads
    Earlier,       \* how many of them were made before the model starts
    Parents,       \* the locations and reviews photos belong to
    Reviews,       \* the ones that are reviews
    Users, Verified, Moderators,   \* accounts, those verified, those who may moderate
    Clients,       \* requests in progress
    PageKeys,      \* LIST_PAGE_KEYS, objects in a page of a listing
    MaxFaults,     \* bound on the number of failing calls and ended requests
    None

ASSUME ReviewsAssumption == Reviews \subseteq Parents
ASSUME UsersAssumption == Verified \subseteq Users /\ Moderators \subseteq Users
ASSUME NoneAssumption == None \notin Parents
ASSUME BoundsAssumption == /\ MaxUploads \in Nat /\ Earlier \in 0 .. MaxUploads
                           /\ MaxFaults \in Nat /\ PageKeys \in Nat \ {0}

VARIABLES
    row,       \* parking_photo and review_photo, by the upload they were made for
    object,    \* the keys in the object store
    aged,      \* the objects last written before the orphan TTL
    settled,   \* the rows created before PENDING_RECONCILE_GRACE
    minted,    \* the number of upload ids handed out
    req,       \* each client's request
    job,       \* the retention job's place in its steps on photos
    faults,    \* how many calls have failed and requests ended early
    slow,      \* history: uploads with an object that aged while they were in progress
    unacked,   \* history: uploads whose INSERT was reported failed and had committed
    leftover,  \* history: rejected, and a delete of its objects failed or was not made
    raced      \* history: approved at a position read before another approval there

store == <<object, aged>>
clock == <<aged, settled>>
history == <<slow, unacked, leftover, raced>>
vars == <<row, object, aged, settled, minted, req, job, faults, history>>

-----------------------------------------------------------------------------
\* Uploads, rows and keys

Uploads == 1 .. MaxUploads

PhotoModerationState == {"PENDING_REVIEW", "APPROVED", "REJECTED", "HIDDEN"}
PhotoRow == [state: PhotoModerationState, parent: Parents, position: Nat]
NoRow == [state |-> "absent", parent |-> None, position |-> 0]
PendingRow(x) == [state |-> "PENDING_REVIEW", parent |-> x, position |-> 0]
PhotoKind == {"parking", "review"}
KindOf(x) == IF x \in Reviews THEN "review" ELSE "parking"
Exists(p) == row[p].state # "absent"

\* uploads/{id}/full.jpg and uploads/{id}/thumb.jpg, as places in the key order.
FullKey(p) == 2 * p - 1
ThumbKey(p) == 2 * p
Keys == 1 .. 2 * MaxUploads
KeysOf(p) == {FullKey(p), ThumbKey(p)}
UploadOf(k) == CHOOSE p \in Uploads : k \in KeysOf(p)

UploadSteps == {"put_full", "put_thumb", "insert", "undo"}
RejectSteps == {"reject", "delete_full", "delete_thumb"}
Request == [pc: {"idle", "place", "approve"} \cup UploadSteps \cup RejectSteps,
            photo: Uploads \cup {None}, parent: Parents \cup {None},
            position: Nat, undo: SUBSET Keys, stale: BOOLEAN]
Idle == [pc |-> "idle", photo |-> None, parent |-> None, position |-> 0,
         undo |-> {}, stale |-> FALSE]

Job == [pc: {"idle", "sweep", "reconcile", "exists", "delete"},
        after: Keys \cup {0}, truncated: BOOLEAN, keys: SUBSET Keys,
        kind: PhotoKind, rows: SUBSET Uploads, due: SUBSET Keys]
JobIdle == [pc |-> "idle", after |-> 0, truncated |-> FALSE, keys |-> {},
            kind |-> "parking", rows |-> {}, due |-> {}]

TypeOK ==
    /\ row \in [Uploads -> PhotoRow \cup {NoRow}]
    /\ object \subseteq Keys
    /\ aged \subseteq Keys
    /\ settled \subseteq Uploads
    /\ minted \in 0 .. MaxUploads
    /\ req \in [Clients -> Request]
    /\ job \in Job
    /\ faults \in 0 .. MaxFaults
    /\ slow \subseteq Uploads
    /\ unacked \subseteq Uploads
    /\ leftover \subseteq Uploads
    /\ raced \subseteq Uploads

Init ==
    /\ \E parent \in [Uploads -> Parents] :
         row = [p \in Uploads |-> IF p <= Earlier THEN PendingRow(parent[p]) ELSE NoRow]
    /\ object = UNION {KeysOf(p) : p \in 1 .. Earlier}
    /\ aged = {} /\ settled = {}
    /\ minted = Earlier
    /\ req = [c \in Clients |-> Idle]
    /\ job = JobIdle
    /\ faults = 0
    /\ slow = {} /\ unacked = {} /\ leftover = {} /\ raced = {}

-----------------------------------------------------------------------------
\* Calls that may fail

At(c, pc) == req[c].pc = pc
Goto(c, pc) == req' = [req EXCEPT ![c].pc = pc]
Return(c) == req' = [req EXCEPT ![c] = Idle]

Works == UNCHANGED faults
Fails == faults < MaxFaults /\ faults' = faults + 1

\* What put and delete leave in the store: a failed call may have taken effect.
put(k) == object' = object \cup {k} /\ UNCHANGED aged
delete(k) == object' = object \ {k} /\ aged' = aged \ {k}
exists(k) == k \in object
PutFails(k) == Fails /\ (put(k) \/ UNCHANGED store)
DeleteFails == Fails /\ UNCHANGED store

\* The request ends: the client went away, or the process stopped.
Drop(c) ==
    /\ req[c].pc # "idle"
    /\ Fails
    /\ Return(c)
    /\ leftover' = IF req[c].pc \in {"delete_full", "delete_thumb"}
                   THEN leftover \cup {req[c].photo} ELSE leftover
    /\ UNCHANGED <<row, store, settled, minted, job, slow, unacked, raced>>

-----------------------------------------------------------------------------
\* Uploads

\* An upload, by the check before any write that it fails, if any.
Form == {"no_photo", "over_rate", "too_large", "alt_too_long",
         "unsupported", "undecodable", "too_many_pixels", "fine"}
process(f) == f \notin {"unsupported", "undecodable", "too_many_pixels"}
Accepted(f) == f \notin {"over_rate", "too_large", "alt_too_long"} /\ process(f)
require_verified(u) == u \in Verified

\* An accepted upload gets a fresh id.
upload_photo(c, u, x, f) ==
    /\ At(c, "idle")
    /\ require_verified(u)
    /\ Accepted(f)
    /\ minted < MaxUploads
    /\ minted' = minted + 1
    /\ req' = [req EXCEPT ![c] = [Idle EXCEPT !.pc = "put_full", !.photo = minted + 1,
                                              !.parent = x]]
    /\ UNCHANGED <<row, store, settled, job, faults, history>>

\* POST /parking/{id}/photo, and the photo attached to a review.
upload_photo_post(c, u, x, f) == f # "no_photo" /\ upload_photo(c, u, x, f)

put_full(c) ==
    /\ At(c, "put_full")
    /\ \/ Works /\ put(FullKey(req[c].photo)) /\ Goto(c, "put_thumb")
       \/ PutFails(FullKey(req[c].photo)) /\ Return(c)
    /\ UNCHANGED <<row, settled, minted, job, history>>

\* Mutant: the error of the second put is ignored.
put_thumbIgnored(c) ==
    /\ At(c, "put_thumb")
    /\ (Works /\ put(ThumbKey(req[c].photo))) \/ PutFails(ThumbKey(req[c].photo))
    /\ Goto(c, "insert")
    /\ UNCHANGED <<row, settled, minted, job, history>>

\* A thumbnail that cannot be stored takes the full image with it.
put_thumb(c) ==
    /\ At(c, "put_thumb")
    /\ \/ Works /\ put(ThumbKey(req[c].photo)) /\ Goto(c, "insert")
       \/ /\ PutFails(ThumbKey(req[c].photo))
          /\ req' = [req EXCEPT ![c].pc = "undo", ![c].undo = {FullKey(req[c].photo)}]
    /\ UNCHANGED <<row, settled, minted, job, history>>

\* An error does not say whether the INSERT committed.
insert_pending(c) ==
    LET p == req[c].photo
        inserted == row' = [row EXCEPT ![p] = PendingRow(req[c].parent)]
    IN  /\ At(c, "insert")
        /\ \/ Works /\ inserted /\ Return(c) /\ UNCHANGED unacked
           \/ /\ Fails
              /\ req' = [req EXCEPT ![c].pc = "undo", ![c].undo = KeysOf(p)]
              /\ \/ UNCHANGED <<row, unacked>>
                 \/ inserted /\ unacked' = unacked \cup {p}
        /\ UNCHANGED <<store, settled, minted, job, slow, leftover, raced>>

\* Compensation, the thumbnail first; its own errors are ignored.
undo_upload(c) ==
    LET k == CHOOSE key \in req[c].undo : \A other \in req[c].undo : other <= key
        rest == req[c].undo \ {k}
    IN  /\ At(c, "undo")
        /\ (Works /\ delete(k)) \/ DeleteFails
        /\ IF rest = {} THEN Return(c) ELSE req' = [req EXCEPT ![c].undo = rest]
        /\ UNCHANGED <<row, settled, minted, job, history>>

-----------------------------------------------------------------------------
\* Moderation

\* get_for_moderation finds a pending row; the answers for another state change nothing.
get_for_moderation(c, p, pc) ==
    /\ At(c, "idle")
    /\ row[p].state = "PENDING_REVIEW"
    /\ req' = [req EXCEPT ![c] = [Idle EXCEPT !.pc = pc, !.photo = p, !.parent = row[p].parent]]
    /\ UNCHANGED <<row, store, settled, minted, job, faults, history>>

require_moderator(u) == u \in Moderators
approve_photo(c, u, p) == require_moderator(u) /\ get_for_moderation(c, p, "place")
reject_photo(c, u, p, has_reason) ==
    require_moderator(u) /\ has_reason /\ get_for_moderation(c, p, "reject")

\* The {kind} of the path is one of the two, and its table has the row.
parse_photo_kind(segment) == segment \in PhotoKind
moderation_photo_approve(c, u, p, kind) ==
    /\ parse_photo_kind(kind)
    /\ kind = KindOf(row[p].parent)
    /\ approve_photo(c, u, p)
moderation_photo_reject(c, u, p, kind, has_reason) ==
    /\ parse_photo_kind(kind)
    /\ kind = KindOf(row[p].parent)
    /\ reject_photo(c, u, p, has_reason)

\* COALESCE(MAX(position), 0) over the rows of the parent, whatever their state.
Placed(x) == {p \in Uploads : Exists(p) /\ row[p].parent = x}
Highest(positions) == CHOOSE n \in positions : \A m \in positions : m <= n
\* Mutant: only the photos in the gallery are counted.
max_positionApproved(x) ==
    Highest({0} \cup {row[p].position : p \in {q \in Placed(x) : row[q].state = "APPROVED"}})

max_position(x) == Highest({0} \cup {row[p].position : p \in Placed(x)})

place(c) ==
    /\ At(c, "place")
    /\ req' = [req EXCEPT ![c].pc = "approve",
                          ![c].position = max_position(req[c].parent) + 1]
    /\ UNCHANGED <<row, store, settled, minted, job, faults, history>>

\* The UPDATE finds the row pending, or the answer is NotPending.
approve(c) ==
    LET p == req[c].photo
    IN  /\ At(c, "approve")
        /\ \/ /\ row[p].state = "PENDING_REVIEW"
              /\ row' = [row EXCEPT ![p].state = "APPROVED", ![p].position = req[c].position]
              /\ raced' = IF req[c].stale THEN raced \cup {p} ELSE raced
              /\ req' = [d \in Clients |->
                           IF d = c THEN Idle
                           ELSE [req[d] EXCEPT !.stale = @ \/ (/\ req[d].pc = "approve"
                                                               /\ req[d].parent = req[c].parent)]]
           \/ /\ row[p].state # "PENDING_REVIEW"
              /\ Return(c)
              /\ UNCHANGED <<row, raced>>
        /\ UNCHANGED <<store, settled, minted, job, faults, slow, unacked, leftover>>

reject(c) ==
    LET p == req[c].photo
    IN  /\ At(c, "reject")
        /\ \/ /\ row[p].state = "PENDING_REVIEW"
              /\ row' = [row EXCEPT ![p].state = "REJECTED"]
              /\ Goto(c, "delete_full")
           \/ /\ row[p].state # "PENDING_REVIEW"
              /\ Return(c)
              /\ UNCHANGED row
        /\ UNCHANGED <<store, settled, minted, job, faults, history>>

\* The objects of a rejected photo, the errors of the deletes ignored.
DeleteRejected(c, k) ==
    /\ \/ Works /\ delete(k) /\ UNCHANGED leftover
       \/ DeleteFails /\ leftover' = leftover \cup {req[c].photo}
    /\ UNCHANGED <<row, settled, minted, job, slow, unacked, raced>>
\* Mutant: the thumbnail is forgotten.
delete_fullOnly(c) ==
    At(c, "delete_full") /\ DeleteRejected(c, FullKey(req[c].photo)) /\ Return(c)

delete_full(c) ==
    At(c, "delete_full") /\ DeleteRejected(c, FullKey(req[c].photo)) /\ Goto(c, "delete_thumb")
delete_thumb(c) ==
    At(c, "delete_thumb") /\ DeleteRejected(c, ThumbKey(req[c].photo)) /\ Return(c)

\* One guarded UPDATE each.
SetState(p, from, to) ==
    /\ row[p].state = from
    /\ row' = [row EXCEPT ![p].state = to]
    /\ UNCHANGED <<store, settled, minted, req, job, faults, history>>

hide_photo(p) == SetState(p, "APPROVED", "HIDDEN")
restore_photo(p) == SetState(p, "HIDDEN", "APPROVED")

-----------------------------------------------------------------------------
\* The retention job

\* A full page carries on after its last key.
Above(k) == {o \in object : o > k}
Page(k) == {o \in Above(k) : Cardinality({q \in Above(k) : q < o}) < PageKeys}
\* Mutant: the cursor is one key too far.
listSkipping(after) ==
    LET page == Page(after)
    IN  [keys |-> page, truncated |-> page # Above(after),
         next |-> IF page = {} THEN after ELSE Highest(page) + 1]

list(after) ==
    LET page == Page(after)
    IN  [keys |-> page, truncated |-> page # Above(after),
         next |-> IF page = {} THEN after ELSE Highest(page)]

Referenced(k) == Exists(UploadOf(k))

\* A page is listed, filtered by age, and one query tells which of its keys rows still
\* refer to.  Nothing but the job touches an aged key that no row refers to, so that
\* the page is listed and the query made in one step loses no outcome.
Uploading(p) == \E c \in Clients : req[c].photo = p /\ req[c].pc \in UploadSteps
Orphans == {k \in object \cap aged : ~Referenced(k) /\ ~Uploading(UploadOf(k))}

\* due is history: what there was to sweep when the run began.
NextPage(after, due) ==
    LET page == list(after)
    IN  [JobIdle EXCEPT !.pc = "sweep", !.truncated = page.truncated, !.after = page.next, !.due = due,
                        !.keys = {k \in page.keys \cap aged : ~Referenced(k)}]
purge_orphan_uploads ==
    /\ job.pc = "idle"
    /\ job' = NextPage(0, Orphans)
    /\ UNCHANGED <<row, store, settled, minted, req, faults, history>>

purge_unreferenced ==
    /\ job.pc = "sweep"
    /\ \/ /\ job.keys # {}
          /\ LET k == CHOOSE key \in job.keys : \A other \in job.keys : key <= other
             IN  delete(k) /\ job' = [job EXCEPT !.keys = @ \ {k}]
       \/ /\ job.keys = {}
          /\ job' = IF job.truncated THEN NextPage(job.after, job.due)
                    ELSE [JobIdle EXCEPT !.pc = "reconcile"]
          /\ UNCHANGED store
    /\ UNCHANGED <<row, settled, minted, req, faults, history>>

\* The pending rows of one table past their grace.
reconcile_pending_photos ==
    /\ job.pc = "reconcile"
    /\ job' = [job EXCEPT !.pc = "exists",
                          !.rows = {p \in settled : /\ row[p].state = "PENDING_REVIEW"
                                                    /\ KindOf(row[p].parent) = job.kind}]
    /\ UNCHANGED <<row, store, settled, minted, req, faults, history>>

NextTable == IF job.kind = "parking" THEN [JobIdle EXCEPT !.pc = "reconcile", !.kind = "review"]
             ELSE JobIdle
NextRow == CHOOSE p \in job.rows : \A q \in job.rows : p <= q
\* Mutant: a store that does not answer is taken for a missing object.
look_upPessimist ==
    /\ job.pc = "exists"
    /\ job' = IF job.rows = {} THEN NextTable ELSE [job EXCEPT !.pc = "delete"]
    /\ UNCHANGED <<row, store, settled, minted, req, faults, history>>

look_up ==
    /\ job.pc = "exists"
    /\ job' = IF job.rows = {} THEN NextTable
              ELSE IF exists(FullKey(NextRow)) THEN [job EXCEPT !.rows = @ \ {NextRow}]
              ELSE [job EXCEPT !.pc = "delete"]
    /\ UNCHANGED <<row, store, settled, minted, req, faults, history>>

\* DELETE ... WHERE id, with no second look at the row's state.
delete_row ==
    /\ job.pc = "delete"
    /\ row' = [row EXCEPT ![NextRow] = NoRow]
    /\ job' = [job EXCEPT !.pc = "exists", !.rows = @ \ {NextRow}]
    /\ UNCHANGED <<store, settled, minted, req, faults, history>>

\* A call of the job fails, and the run with it; the queue starts it again.
JobFails ==
    /\ job.pc # "idle"
    /\ Fails
    /\ job' = JobIdle
    /\ UNCHANGED <<row, store, settled, minted, req, history>>

JobStep == \/ purge_orphan_uploads \/ purge_unreferenced
           \/ reconcile_pending_photos \/ look_up \/ delete_row

-----------------------------------------------------------------------------
\* Time

\* The objects of an upload are written together and pass the TTL together.
Age(p) ==
    /\ ~(KeysOf(p) \cap object \subseteq aged)
    /\ aged' = aged \cup (KeysOf(p) \cap object)
    /\ slow' = IF Uploading(p) THEN slow \cup {p} ELSE slow
    /\ UNCHANGED <<row, object, settled, minted, req, job, faults, unacked, leftover, raced>>

Settle(p) ==
    /\ row[p].state = "PENDING_REVIEW" /\ p \notin settled
    /\ settled' = settled \cup {p}
    /\ UNCHANGED <<row, store, minted, req, job, faults, history>>

Upload(c) == \/ \E u \in Users, x \in Parents, f \in Form : upload_photo_post(c, u, x, f)
             \/ put_full(c) \/ put_thumb(c) \/ insert_pending(c) \/ undo_upload(c)
Moderate(c) == \/ \E u \in Users, p \in Uploads, kind \in {"parking", "review", "other"} :
                    \/ moderation_photo_approve(c, u, p, kind)
                    \/ \E has_reason \in BOOLEAN :
                          moderation_photo_reject(c, u, p, kind, has_reason)
               \/ place(c) \/ approve(c) \/ reject(c) \/ delete_full(c) \/ delete_thumb(c)

Next == \/ \E c \in Clients : Upload(c) \/ Moderate(c) \/ Drop(c)
        \/ \E p \in Uploads : hide_photo(p) \/ restore_photo(p) \/ Settle(p) \/ Age(p)
        \/ JobStep \/ JobFails

Spec == Init /\ [][Next]_vars

-----------------------------------------------------------------------------
\* Properties

Kept(p) == row[p].state \in {"PENDING_REVIEW", "APPROVED", "HIDDEN"}

\* upload_photo: "never a row pointing at an object that is not there".  It takes two
\* things the code does not rule out to break that: an upload slower than the orphan
\* TTL, whose objects are swept before its INSERT, and an INSERT reported failed that
\* had committed, whose objects the compensation deletes.
RowHasObjects ==
    \A p \in Uploads : Kept(p) /\ p \notin slow \cup unacked => KeysOf(p) \subseteq object

\* reject_photo deletes both objects of the row it has rejected; what a failed or
\* abandoned delete leaves is never swept while the row is there.
RejectedBytesGone ==
    \A p \in Uploads :
        /\ row[p].state = "REJECTED"
        /\ p \notin leftover
        /\ \A c \in Clients : req[c].photo = p => req[c].pc \notin RejectSteps
        => KeysOf(p) \cap object = {}

\* The gallery of a parent has one photo at a position, the hidden ones included,
\* unless approvals overlapped between max_position and the UPDATE.
GalleryOrder ==
    \A p, q \in Uploads :
        /\ p # q /\ {p, q} \cap raced = {}
        /\ {row[p].state, row[q].state} \subseteq {"APPROVED", "HIDDEN"}
        /\ row[p].parent = row[q].parent
        => row[p].position # row[q].position

\* reconcile_pending_photos deletes by id a row it saw pending some calls earlier: it
\* may delete one rejected since, never one approved since whose objects are there.
ReconcileSpares ==
    [][\A p \in Uploads : row[p].state \in {"APPROVED", "HIDDEN"} /\ row'[p].state = "absent"
                          => p \in slow \cup unacked]_vars

\* purge_orphan_uploads walks the store page by page while uploads and deletes go on:
\* a walk that reaches its end has deleted every orphan there was when it began.
SweepComplete ==
    [][job.pc = "sweep" /\ job'.pc = "reconcile" => job.due \cap object' = {}]_vars
=============================================================================
