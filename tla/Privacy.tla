------------------------------- MODULE Privacy -------------------------------
(***************************************************************************)
(* The rights of an account over its data: exports and their single-use    *)
(* download (privacy/export.rs), rights requests (privacy/request.rs),     *)
(* deletion and the retention job, under the service privacy.rs and the    *)
(* handlers of routes/privacy.rs and routes/admin.rs.                      *)
(*                                                                         *)
(* Every statement commits on its own, and erasure is one transaction: a   *)
(* handler is split between its statements and may end at any of them.     *)
(***************************************************************************)
EXTENDS Naturals, FiniteSets

CONSTANTS
    Users, Admins,        \* accounts, and those that have the ADMIN role to start with
    HasPassword,          \* accounts with a password; the others sign in with Google
    Clients,              \* requests in progress
    ExportIds, RequestIds,
    FormKinds,            \* what the kind field of the form can hold
    None,                 \* SQL NULL
    ExportTtl,            \* how long an export can be downloaded (24 hours)
    PurgeAfter,           \* deleted_account_purge_after_days; 0 turns the step off
    InactiveAfter,        \* inactive_account_anonymize_after_days; 0 turns the step off
    MaxTime, MaxRequests, MaxFaults   \* bounds

ASSUME RolesAssumption == Admins \subseteq Users /\ HasPassword \subseteq Users
ASSUME NoneAssumption == None \notin Users \cup ExportIds \cup RequestIds
ASSUME BoundsAssumption == {ExportTtl, PurgeAfter, InactiveAfter, MaxTime, MaxRequests, MaxFaults}
                           \subseteq Nat

VARIABLES
    account,     \* users.account_state, and deleted_at of a shell
    identity,    \* accounts with a password identity
    admins,      \* accounts with the ADMIN role
    sessions,    \* accounts with a session
    pexport,     \* personal_data_export
    prequest,    \* privacy_request
    actors,      \* accounts that audit_events names as an actor
    clock,
    req,         \* each client's request
    answer,      \* what the last step answered a request, or "none"
    job,         \* the retention job
    begun, faults,
    given,       \* history: how often each export's payload was handed out
    lost,        \* history: exports whose download ended after the link was used up
    late,        \* history: rows written for an account after its erasure
    named,       \* history: accounts an event was written for after their erasure
    byHand,      \* history: deletion requests an administrator closed
    refused,     \* history: deletion requests of the last administrator, refused after all
    cut,         \* history: deletion requests whose handler did not reach its end
    subject      \* history: whose deletion was requested

accounts == <<account, identity, admins, sessions>>
tables == <<accounts, pexport, prequest, actors>>
history == <<given, lost, late, named, byHand, refused, cut, subject>>
vars == <<tables, clock, req, answer, job, begun, faults, history>>

-----------------------------------------------------------------------------
\* The rows

AccountRow == [state: {"ACTIVE", "DELETED", "gone"}, deleted_at: Nat]

ExportState == {"absent", "READY", "DOWNLOADED", "gone"}
ExportRow == [state: ExportState, user: Users \cup {None}, personal: BOOLEAN, expires_at: Nat]
NoExport == [state |-> "absent", user |-> None, personal |-> FALSE, expires_at |-> 0]
Removed == [NoExport EXCEPT !.state = "gone"]
Stored(e) == pexport[e].state \in {"READY", "DOWNLOADED"}

PrivacyRequestKind == {"access", "rectification", "deletion", "export",
                       "restriction", "objection", "consent_withdrawal"}
MANUAL_REQUEST_KINDS == {"rectification", "restriction", "objection", "consent_withdrawal"}
PrivacyRequestState == {"OPEN", "COMPLETED"}
RequestRow == [state: PrivacyRequestState, kind: PrivacyRequestKind,
               user: Users \cup {None}, fulfilled_by: Users \cup {None}]
NoRequest == [state |-> "absent", kind |-> "none", user |-> None, fulfilled_by |-> None]
OpenRequest(u, kind) == [state |-> "OPEN", kind |-> kind, user |-> u, fulfilled_by |-> None]

ExportSteps == {"assemble", "create export", "audit export"}
DownloadSteps == {"payload", "check", "consume", "audit download"}
DeletionSteps == {"guard", "create deletion", "audit deletion", "anonymize", "fulfill",
                  "audit anonymized", "revoke"}
QueueSteps == {"create", "close", "audit request", "audit fulfilled"}
Request == [pc: {"idle"} \cup ExportSteps \cup DownloadSteps \cup DeletionSteps \cup QueueSteps,
            user: Users \cup {None}, export: ExportIds \cup {None}, id: RequestIds \cup {None},
            kind: PrivacyRequestKind \cup {"none"}, now: Nat, personal: BOOLEAN, token: BOOLEAN,
            crossed: BOOLEAN]   \* history: the account was erased meanwhile
Idle == [pc |-> "idle", user |-> None, export |-> None, id |-> None, kind |-> "none",
         now |-> 0, personal |-> FALSE, token |-> FALSE, crossed |-> FALSE]

PrivacyError == {"NotFound", "NotAuthorized", "InvalidToken", "Expired", "AlreadyDownloaded",
                 "ReauthRequired", "LastAdmin", "Internal"}
Answer == {"none", "ok"} \cup PrivacyError
Job == [pc: {"idle", "exports", "inactive", "deleted"}, now: Nat]

TypeOK ==
    /\ account \in [Users -> AccountRow]
    /\ identity \subseteq Users /\ admins \subseteq Users /\ sessions \subseteq Users
    /\ pexport \in [ExportIds -> ExportRow]
    /\ prequest \in [RequestIds -> RequestRow \cup {NoRequest}]
    /\ actors \subseteq Users
    /\ clock \in 0 .. MaxTime
    /\ req \in [Clients -> Request]
    /\ answer \in Answer
    /\ job \in Job
    /\ begun \in 0 .. MaxRequests /\ faults \in 0 .. MaxFaults
    /\ given \in [ExportIds -> Nat]
    /\ lost \subseteq ExportIds
    /\ late \subseteq ExportIds \cup RequestIds
    /\ named \subseteq Users
    /\ byHand \subseteq RequestIds /\ refused \subseteq RequestIds /\ cut \subseteq RequestIds
    /\ subject \in [RequestIds -> Users \cup {None}]

Init ==
    /\ account = [u \in Users |-> [state |-> "ACTIVE", deleted_at |-> 0]]
    /\ identity = HasPassword
    /\ admins \in {s \in SUBSET Users : Admins \subseteq s}
    /\ sessions = Users
    /\ pexport = [e \in ExportIds |-> NoExport]
    /\ prequest = [r \in RequestIds |-> NoRequest]
    /\ actors = {}
    /\ clock = 0
    /\ req = [c \in Clients |-> Idle]
    /\ answer = "none"
    /\ job = [pc |-> "idle", now |-> 0]
    /\ begun = 0 /\ faults = 0
    /\ given = [e \in ExportIds |-> 0]
    /\ lost = {} /\ late = {} /\ named = {} /\ byHand = {} /\ refused = {} /\ cut = {}
    /\ subject = [r \in RequestIds |-> None]

-----------------------------------------------------------------------------
\* Requests

\* The session resolves to a user, whose roles are read with it.
require_user(c, u) ==
    /\ req[c].pc = "idle"
    /\ begun < MaxRequests
    /\ u \in sessions
    /\ begun' = begun + 1

At(c, step) == req[c].pc = step
Start(c, r) == req' = [req EXCEPT ![c] = r] /\ answer' = "none"
Goto(c, step) == Start(c, [req[c] EXCEPT !.pc = step])
Return(c, a) == req' = [req EXCEPT ![c] = Idle] /\ answer' = a

\* What the handler leaves behind when it ends before its last statement.
Abandon(c) ==
    /\ lost' = IF At(c, "audit download") THEN lost \cup {req[c].export} ELSE lost
    /\ cut' = IF req[c].pc \in DeletionSteps /\ req[c].id # None THEN cut \cup {req[c].id} ELSE cut

\* A statement fails, or the client goes away and sees no answer.
Fail(c) ==
    /\ req[c].pc # "idle"
    /\ faults < MaxFaults
    /\ faults' = faults + 1
    /\ \/ Return(c, "Internal")
       \/ Return(c, "none")
    /\ Abandon(c)
    /\ UNCHANGED <<tables, clock, job, begun, given, late, named, byHand, refused,
                   subject>>

\* The INSERT of an event; its actor must still be a row of users.
audit(c, step, next) ==
    LET u == req[c].user IN
    /\ At(c, step)
    /\ \/ /\ account[u].state # "gone"
          /\ actors' = actors \cup {u}
          /\ named' = IF req[c].crossed THEN named \cup {u} ELSE named
          /\ IF next = "ok" THEN Return(c, "ok") ELSE Goto(c, next)
          /\ UNCHANGED <<lost, cut>>
       \/ /\ account[u].state = "gone"
          /\ Return(c, "Internal")
          /\ Abandon(c)
          /\ UNCHANGED <<actors, named>>
    /\ UNCHANGED <<accounts, pexport, prequest, clock, job, begun, faults, late, byHand, refused,
                   subject>>

\* The same for the events between and after statements that hand nothing out.
Audited(c, step, next) == audit(c, step, next) /\ UNCHANGED given

-----------------------------------------------------------------------------
\* Exports

request_export(c, u) ==
    /\ require_user(c, u)
    /\ Start(c, [Idle EXCEPT !.pc = "assemble", !.user = u, !.now = clock])
    /\ UNCHANGED <<tables, clock, job, faults, history>>

\* One snapshot of the account; of a shell it holds nothing personal.
assemble_payload(c) ==
    LET u == req[c].user IN
    /\ At(c, "assemble")
    /\ \/ account[u].state = "gone" /\ Return(c, "NotFound")
       \/ /\ account[u].state # "gone"
          /\ Start(c, [req[c] EXCEPT !.personal = (account[u].state = "ACTIVE"),
                                     !.pc = "create export"])
    /\ UNCHANGED <<tables, clock, job, begun, faults, history>>

\* The INSERT refers to users(id) and looks at nothing else.
create_export(c) ==
    LET u == req[c].user IN
    /\ At(c, "create export")
    /\ \/ /\ account[u].state = "gone"
          /\ Return(c, "Internal")
          /\ UNCHANGED <<pexport, late>>
       \/ /\ account[u].state # "gone"
          /\ \E e \in ExportIds :
              /\ pexport[e].state = "absent"
              /\ pexport' = [pexport EXCEPT ![e] =
                   [state |-> "READY", user |-> u, personal |-> req[c].personal,
                    expires_at |-> req[c].now + ExportTtl]]
              /\ late' = IF req[c].crossed THEN late \cup {e} ELSE late
          /\ Goto(c, "audit export")
    /\ UNCHANGED <<accounts, prequest, actors, clock, job, begun, faults, given, lost, named,
                   byHand, refused, cut, subject>>

audit_export(c) == Audited(c, "audit export", "ok")

\* get, the owner, the clock; a token that is absent or malformed is like a wrong one.
download_export(c, u, e, token) ==
    /\ require_user(c, u)
    /\ \/ ~Stored(e) /\ Return(c, "NotFound")
       \/ Stored(e) /\ pexport[e].user # u /\ Return(c, "NotAuthorized")
       \/ /\ Stored(e) /\ pexport[e].user = u
          /\ Start(c, [Idle EXCEPT !.pc = "payload", !.user = u, !.export = e, !.now = clock,
                                   !.token = token])
    /\ UNCHANGED <<tables, clock, job, faults, history>>

\* The cookie of the export, else the query parameter of old links, else "".
export_token(cookie, query) == cookie \/ query

account_export_download(c, u, e, cookie, query) ==
    download_export(c, u, e, export_token(cookie, query))

read_payload(c) ==
    /\ At(c, "payload")
    /\ \/ ~Stored(req[c].export) /\ Return(c, "NotFound")
       \/ Stored(req[c].export) /\ Goto(c, "check")
    /\ UNCHANGED <<tables, clock, job, begun, faults, history>>

\* The second SELECT of consume_download, and what is refused on it.
check_row(c) ==
    LET row == pexport[req[c].export] IN
    /\ At(c, "check")
    /\ \/ ~Stored(req[c].export) /\ Return(c, "NotFound")
       \/ /\ Stored(req[c].export)
          /\ \/ ~req[c].token /\ Return(c, "InvalidToken")
             \/ req[c].token /\ row.state = "DOWNLOADED" /\ Return(c, "AlreadyDownloaded")
             \/ /\ req[c].token /\ row.state = "READY"
                /\ \/ req[c].now > row.expires_at /\ Return(c, "Expired")
                   \/ req[c].now <= row.expires_at /\ Goto(c, "consume")
    /\ UNCHANGED <<tables, clock, job, begun, faults, history>>

\* Mutant: the UPDATE trusts the row that was checked.
consume_downloadUnguarded(c) ==
    LET e == req[c].export IN
    /\ At(c, "consume")
    /\ pexport' = IF Stored(e) THEN [pexport EXCEPT ![e].state = "DOWNLOADED"] ELSE pexport
    /\ Goto(c, "audit download")
    /\ UNCHANGED <<accounts, prequest, actors, clock, job, begun, faults, history>>

\* The guarded UPDATE: no row changed means that another request was first, or that the
\* row is gone, or that it expires this very instant.
consume_download(c) ==
    LET e == req[c].export
        open == pexport[e].state = "READY" /\ pexport[e].expires_at > req[c].now IN
    /\ At(c, "consume")
    /\ \/ /\ open
          /\ pexport' = [pexport EXCEPT ![e].state = "DOWNLOADED"]
          /\ Goto(c, "audit download")
       \/ ~open /\ Return(c, "AlreadyDownloaded") /\ UNCHANGED pexport
    /\ UNCHANGED <<accounts, prequest, actors, clock, job, begun, faults, history>>

\* With the event on record the payload is the response.
audit_download(c) ==
    LET e == req[c].export IN
    /\ audit(c, "audit download", "ok")
    /\ given' = IF answer' = "ok" THEN [given EXCEPT ![e] = @ + 1] ELSE given

-----------------------------------------------------------------------------
\* Deletion

is_last_admin(u) == admins = {u}

\* The address is typed again; who has a password types that too.
Reauthenticated(u, email, password) == email /\ (u \in identity => password)

request_deletion(c, u, email, password) ==
    /\ require_user(c, u)
    /\ \/ ~Reauthenticated(u, email, password) /\ Return(c, "ReauthRequired")
       \/ /\ Reauthenticated(u, email, password)
          /\ Start(c, [Idle EXCEPT !.pc = "guard", !.user = u])
    /\ UNCHANGED <<tables, clock, job, faults, history>>

\* The check without a lock.
guard(c) ==
    /\ At(c, "guard")
    /\ IF is_last_admin(req[c].user) THEN Return(c, "LastAdmin") ELSE Goto(c, "create deletion")
    /\ UNCHANGED <<tables, clock, job, begun, faults, history>>

\* The INSERT of a rights request.
Create(c, kind, next) ==
    LET u == req[c].user IN
    \/ /\ account[u].state = "gone"
       /\ Return(c, "Internal")
       /\ UNCHANGED <<prequest, late, subject>>
    \/ /\ account[u].state # "gone"
       /\ \E r \in RequestIds :
           /\ prequest[r].state = "absent"
           /\ prequest' = [prequest EXCEPT ![r] = OpenRequest(u, kind)]
           /\ late' = IF req[c].crossed THEN late \cup {r} ELSE late
           /\ subject' = [subject EXCEPT ![r] = u]
           /\ Start(c, [req[c] EXCEPT !.pc = next, !.id = r])

create_deletion(c) ==
    /\ At(c, "create deletion")
    /\ Create(c, "deletion", "audit deletion")
    /\ UNCHANGED <<accounts, pexport, actors, clock, job, begun, faults, given, lost, named,
                   byHand, refused, cut>>

\* Mutant: the request is closed first, and the account is never anonymized.
audit_deletionThenFulfill(c) == Audited(c, "audit deletion", "fulfill")

audit_deletion(c) == Audited(c, "audit deletion", "anonymize")

\* A request that named the account in either column loses both.
Scrub(row, u) == IF u \in {row.user, row.fulfilled_by}
                 THEN [row EXCEPT !.user = None, !.fulfilled_by = None] ELSE row

\* Mutant: the transaction leaves the exports.
EraseKeepingExports(u) ==
    /\ account' = [account EXCEPT ![u] = IF @.state = "gone" THEN @
                                         ELSE [state |-> "DELETED", deleted_at |-> clock]]
    /\ identity' = identity \ {u}
    /\ admins' = admins \ {u}
    /\ sessions' = sessions \ {u}
    /\ prequest' = [r \in RequestIds |-> Scrub(prequest[r], u)]
    /\ actors' = actors \ {u}
    /\ UNCHANGED pexport

\* What the transaction does to the rows of this module.
Erase(u) ==
    /\ account' = [account EXCEPT ![u] = IF @.state = "gone" THEN @
                                         ELSE [state |-> "DELETED", deleted_at |-> clock]]
    /\ identity' = identity \ {u}
    /\ admins' = admins \ {u}
    /\ sessions' = sessions \ {u}
    /\ pexport' = [e \in ExportIds |-> IF pexport[e].user = u THEN Removed ELSE pexport[e]]
    /\ prequest' = [r \in RequestIds |-> Scrub(prequest[r], u)]
    /\ actors' = actors \ {u}

\* Requests of the account that are under way go on.
Crossing(r, u) == [c \in Clients |-> [r[c] EXCEPT !.crossed = @ \/ (r[c].user = u)]]

\* Mutant: the refusal inside the transaction is not passed on.
anonymizeSilent(c) ==
    LET u == req[c].user IN
    /\ At(c, "anonymize")
    /\ \/ /\ is_last_admin(u)
          /\ Return(c, "ok")
          /\ refused' = refused \cup {req[c].id}
          /\ UNCHANGED tables
       \/ /\ ~is_last_admin(u)
          /\ Erase(u)
          /\ req' = Crossing([req EXCEPT ![c].pc = "fulfill"], u)
          /\ answer' = "none"
          /\ UNCHANGED refused
    /\ UNCHANGED <<clock, job, begun, faults, given, lost, late, named, byHand, cut, subject>>

\* The guard again, now holding the rows; then the transaction.
anonymize(c) ==
    LET u == req[c].user IN
    /\ At(c, "anonymize")
    /\ \/ /\ is_last_admin(u)
          /\ Return(c, "LastAdmin")
          /\ refused' = refused \cup {req[c].id}
          /\ UNCHANGED tables
       \/ /\ ~is_last_admin(u)
          /\ Erase(u)
          /\ req' = Crossing([req EXCEPT ![c].pc = "fulfill"], u)
          /\ answer' = "none"
          /\ UNCHANGED refused
    /\ UNCHANGED <<clock, job, begun, faults, given, lost, late, named, byHand, cut, subject>>

\* The guarded UPDATE.
Fulfillable(r) == prequest[r].state = "OPEN"
Fulfilled(r, by) == prequest' = [prequest EXCEPT ![r].state = "COMPLETED", ![r].fulfilled_by = by]

fulfill(c) ==
    LET r == req[c].id IN
    /\ At(c, "fulfill")
    /\ \/ Fulfillable(r) /\ Fulfilled(r, None) /\ Goto(c, "audit anonymized")
       \/ ~Fulfillable(r) /\ Return(c, "NotFound") /\ UNCHANGED prequest
    /\ UNCHANGED <<accounts, pexport, actors, clock, job, begun, faults, history>>

audit_anonymized(c) == Audited(c, "audit anonymized", "revoke")

revoke_all_for_user(c) ==
    /\ At(c, "revoke")
    /\ sessions' = sessions \ {req[c].user}
    /\ Return(c, "ok")
    /\ UNCHANGED <<account, identity, admins, pexport, prequest, actors, clock, job, begun, faults,
                   history>>

-----------------------------------------------------------------------------
\* The queue of rights requests

submit_request(c, u, kind) ==
    /\ kind \in MANUAL_REQUEST_KINDS
    /\ require_user(c, u)
    /\ Start(c, [Idle EXCEPT !.pc = "create", !.user = u, !.kind = kind])
    /\ UNCHANGED <<tables, clock, job, faults, history>>

\* Only a known kind reaches the service, which takes only the manual ones.
account_privacy_request_post(c, u, kind) == kind \in PrivacyRequestKind /\ submit_request(c, u, kind)

create(c) ==
    /\ At(c, "create")
    /\ Create(c, req[c].kind, "audit request")
    /\ UNCHANGED <<accounts, pexport, actors, clock, job, begun, faults, given, lost, named,
                   byHand, refused, cut>>

audit_request(c) == Audited(c, "audit request", "ok")

require_admin(u) == u \in admins

fulfill_request(c, u, r) ==
    /\ require_admin(u)
    /\ require_user(c, u)
    /\ Start(c, [Idle EXCEPT !.pc = "close", !.user = u, !.id = r])
    /\ UNCHANGED <<tables, clock, job, faults, history>>

\* Whatever kind the request is of.
close(c) ==
    LET r == req[c].id IN
    /\ At(c, "close")
    /\ \/ /\ Fulfillable(r) /\ account[req[c].user].state # "gone"
          /\ Fulfilled(r, req[c].user)
          /\ byHand' = IF prequest[r].kind = "deletion" THEN byHand \cup {r} ELSE byHand
          /\ late' = IF req[c].crossed THEN late \cup {r} ELSE late
          /\ Goto(c, "audit fulfilled")
       \/ /\ Fulfillable(r) /\ account[req[c].user].state = "gone"
          /\ Return(c, "Internal")
          /\ UNCHANGED <<prequest, byHand, late>>
       \/ ~Fulfillable(r) /\ Return(c, "NotFound") /\ UNCHANGED <<prequest, byHand, late>>
    /\ UNCHANGED <<accounts, pexport, actors, clock, job, begun, faults, given, lost, named,
                   refused, cut, subject>>

admin_privacy_request_fulfill(c, u, r) == require_admin(u) /\ fulfill_request(c, u, r)

audit_fulfilled(c) == Audited(c, "audit fulfilled", "ok")

-----------------------------------------------------------------------------
\* The retention job, as far as it concerns these rows

run ==
    /\ job.pc = "idle"
    /\ job' = [pc |-> "exports", now |-> clock]
    /\ answer' = "none"
    /\ UNCHANGED <<tables, clock, req, begun, faults, history>>

\* Downloaded or not.
purge_expired_exports ==
    /\ job.pc = "exports"
    /\ pexport' = [e \in ExportIds |-> IF Stored(e) /\ pexport[e].expires_at < job.now
                                       THEN Removed ELSE pexport[e]]
    /\ job' = [job EXCEPT !.pc = IF InactiveAfter > 0 THEN "inactive" ELSE "deleted"]
    /\ answer' = "none"
    /\ UNCHANGED <<accounts, prequest, actors, clock, req, begun, faults, history>>

\* One candidate: not an administrator, and not seen since the cutoff when the list was
\* read, although it may have come back.
anonymize_inactive_accounts(u) ==
    /\ job.pc = "inactive"
    /\ account[u].state = "ACTIVE" /\ u \notin admins
    /\ job.now > InactiveAfter
    /\ Erase(u)
    /\ req' = Crossing(req, u)
    /\ answer' = "none"
    /\ UNCHANGED <<clock, job, begun, faults, history>>
NoMoreInactive ==
    /\ job.pc = "inactive"
    /\ job' = [job EXCEPT !.pc = "deleted"]
    /\ answer' = "none"
    /\ UNCHANGED <<tables, clock, req, begun, faults, history>>

Due(u) == PurgeAfter > 0 /\ account[u].state = "DELETED" /\ account[u].deleted_at + PurgeAfter < job.now
Unnamed(row, purged) == [row EXCEPT !.user = IF @ \in purged THEN None ELSE @,
                                    !.fulfilled_by = IF @ \in purged THEN None ELSE @]

\* The DELETE of the shells, which takes their exports along and sets the other
\* references to NULL.
purge_deleted_accounts ==
    LET purged == {u \in Users : Due(u)} IN
    /\ job.pc = "deleted"
    /\ account' = [u \in Users |-> IF u \in purged THEN [account[u] EXCEPT !.state = "gone"]
                                   ELSE account[u]]
    /\ pexport' = [e \in ExportIds |-> IF pexport[e].user \in purged THEN Removed ELSE pexport[e]]
    /\ prequest' = [r \in RequestIds |-> Unnamed(prequest[r], purged)]
    /\ actors' = actors \ purged
    /\ job' = [pc |-> "idle", now |-> 0]
    /\ answer' = "none"
    /\ UNCHANGED <<identity, admins, sessions, clock, req, begun, faults, history>>

Tick ==
    /\ clock < MaxTime
    /\ clock' = clock + 1
    /\ answer' = "none"
    /\ UNCHANGED <<tables, req, job, begun, faults, history>>

-----------------------------------------------------------------------------
\* The other routes

account_export_post(c, u) == request_export(c, u)
account_delete_post(c, u, email, password) == request_deletion(c, u, email, password)

Next ==
    \/ \E c \in Clients, u \in Users :
         \/ account_export_post(c, u)
         \/ \E e \in ExportIds, cookie, query \in BOOLEAN :
              account_export_download(c, u, e, cookie, query)
         \/ \E email, password \in BOOLEAN : account_delete_post(c, u, email, password)
         \/ \E kind \in FormKinds : account_privacy_request_post(c, u, kind)
         \/ \E r \in RequestIds : admin_privacy_request_fulfill(c, u, r)
    \/ \E c \in Clients :
         \/ assemble_payload(c) \/ create_export(c) \/ audit_export(c)
         \/ read_payload(c) \/ check_row(c) \/ consume_download(c) \/ audit_download(c)
         \/ guard(c) \/ create_deletion(c) \/ audit_deletion(c) \/ anonymize(c)
         \/ fulfill(c) \/ audit_anonymized(c) \/ revoke_all_for_user(c)
         \/ create(c) \/ close(c) \/ audit_request(c) \/ audit_fulfilled(c)
         \/ Fail(c)
    \/ run \/ purge_expired_exports \/ NoMoreInactive \/ purge_deleted_accounts
    \/ \E u \in Users : anonymize_inactive_accounts(u)
    \/ Tick

Spec == Init /\ [][Next]_vars

-----------------------------------------------------------------------------
\* Properties

Holders(e) == {c \in Clients : At(c, "audit download") /\ req[c].export = e}

\* The link of an export is used up exactly when one request has its payload, has handed
\* it out, or was cut off before it could: no second download, and none that the row
\* does not know of.
SingleUse ==
    \A e \in ExportIds :
        LET used == given[e] + Cardinality(Holders(e)) + (IF e \in lost THEN 1 ELSE 0) IN
        /\ pexport[e].state = "READY" => used = 0
        /\ pexport[e].state = "DOWNLOADED" => used = 1
        /\ used <= 1

\* Whatever still names an erased account was written by a request that was under way
\* when it was erased; nothing personal is stored otherwise.
ErasureScrubs ==
    \A u \in Users : account[u].state # "ACTIVE" =>
        /\ u \notin sessions \cup identity \cup admins
        /\ \A e \in ExportIds : pexport[e].user = u => e \in late
        /\ \A r \in RequestIds : u \in {prequest[r].user, prequest[r].fulfilled_by}
                                 => r \in late
        /\ u \in actors => u \in named

InHand(r) == \E c \in Clients : req[c].pc \in DeletionSteps /\ req[c].id = r

\* A deletion that is still open is in a handler's hands, or its handler was cut off or
\* found out too late that it served the last administrator; one that was completed
\* by its handler did erase the account.
DeletionSettled ==
    \A r \in RequestIds : prequest[r].kind = "deletion" =>
        /\ prequest[r].state = "OPEN" => InHand(r) \/ r \in cut \cup refused
        /\ prequest[r].state = "COMPLETED" => r \in byHand \/ account[subject[r]].state # "ACTIVE"

\* Who deletes an account is told of an error after the account is gone only when a
\* statement failed, an administrator had closed the request, or the shell was purged.
DeletionAnswer ==
    [][\A c \in Clients :
         req[c].pc \in DeletionSteps /\ req'[c].pc = "idle" /\ faults' = faults =>
           LET u == req[c].user IN
           \/ (answer' = "ok") = (account[u].state # "ACTIVE")
           \/ req[c].id \in byHand
           \/ account[u].state = "gone"]_vars
=============================================================================
