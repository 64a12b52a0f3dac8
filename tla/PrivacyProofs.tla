--------------------------- MODULE PrivacyProofs ---------------------------
(***************************************************************************)
(* Theorems about Privacy for every set of accounts, requests, exports and *)
(* rights requests, and every retention period.                            *)
(***************************************************************************)
EXTENDS Privacy, TLAPS, FiniteSetTheorems

-----------------------------------------------------------------------------
\* The inductive invariant, part by part

\* What a request knows at each point.  One that is under way for an erased account was
\* under way when the account was erased.
Knows(c) ==
    /\ req[c].pc # "idle" => req[c].user \in Users
    /\ req[c].pc # "idle" /\ account[req[c].user].state # "ACTIVE" => req[c].crossed = TRUE
    /\ req[c].pc \in DownloadSteps => req[c].export \in ExportIds
    /\ req[c].pc \in {"guard", "create deletion"} => req[c].id = None
    /\ req[c].pc \in {"close", "audit request", "audit fulfilled"} => req[c].id \in RequestIds
    /\ req[c].pc = "create" => req[c].kind \in MANUAL_REQUEST_KINDS
Known == \A c \in Clients : Knows(c)

Deleting(c) == req[c].pc \in DeletionSteps \ {"guard", "create deletion"}

\* What the tables owe to the handler of a deletion once its request is on record: the
\* row is open until the handler itself completes it, unless an administrator was first,
\* and from the erasure on the account is no longer active.
Owes(c) ==
    Deleting(c) =>
        /\ req[c].id \in RequestIds
        /\ prequest[req[c].id].kind = "deletion"
        /\ subject[req[c].id] = req[c].user
        /\ req[c].pc \in {"audit deletion", "anonymize", "fulfill"} =>
              prequest[req[c].id].state = "OPEN" \/ req[c].id \in byHand
        /\ req[c].pc \in {"fulfill", "audit anonymized", "revoke"} =>
              account[req[c].user].state # "ACTIVE"
        /\ req[c].pc \in {"audit anonymized", "revoke"} =>
              prequest[req[c].id].state = "COMPLETED"
Owed == \A c \in Clients : Owes(c)

\* A deletion is in the hands of one handler.
Sole == \A c, d \in Clients : Deleting(c) /\ Deleting(d) /\ req[c].id = req[d].id => c = d

Subjects == \A r \in RequestIds : prequest[r].kind = "deletion" => subject[r] \in Users

\* The payload of an export is in the hands of one request, or was handed out once, or
\* was lost once, and only after the row said so.
Holds(c, e) == req[c].pc = "audit download" /\ req[c].export = e
OneUse(e) ==
    /\ given[e] \in {0, 1}
    /\ \A c, d \in Clients : Holds(c, e) /\ Holds(d, e) => c = d
    /\ given[e] = 1 => e \notin lost /\ \A c \in Clients : ~Holds(c, e)
    /\ e \in lost => \A c \in Clients : ~Holds(c, e)
    /\ pexport[e].state \in {"absent", "READY"} =>
          given[e] = 0 /\ e \notin lost /\ \A c \in Clients : ~Holds(c, e)
    /\ pexport[e].state = "DOWNLOADED" =>
          given[e] = 1 \/ e \in lost \/ \E c \in Clients : Holds(c, e)
Used == \A e \in ExportIds : OneUse(e)

\* The inductive invariant.
IInv == /\ TypeOK
        /\ Known
        /\ Owed
        /\ Sole
        /\ Subjects
        /\ Used
        /\ ErasureScrubs
        /\ DeletionSettled

-----------------------------------------------------------------------------
\* Types

LEMMA IdleTyped == Idle \in Request /\ Idle.pc = "idle" /\ Idle.id = None
BY DEF Idle, Request

LEMMA RowsTyped == NoExport \in ExportRow /\ Removed \in ExportRow /\ NoExport.state = "absent"
                   /\ Removed.state = "gone" /\ NoExport.user = None /\ Removed.user = None
BY DEF NoExport, Removed, ExportRow, ExportState

LEMMA InitEstablishes == Init => IInv
<1> SUFFICES ASSUME Init PROVE IInv
  OBVIOUS
<1>1. \A c \in Clients : req[c] = Idle
  BY DEF Init
<1>2. TypeOK
  <2>1. account \in [Users -> AccountRow]
    BY DEF Init, AccountRow
  <2>2. pexport \in [ExportIds -> ExportRow]
    BY RowsTyped DEF Init
  <2>3. prequest \in [RequestIds -> RequestRow \cup {NoRequest}]
    BY DEF Init
  <2>4. req \in [Clients -> Request]
    BY IdleTyped DEF Init
  <2>5. clock \in 0 .. MaxTime /\ begun \in 0 .. MaxRequests /\ faults \in 0 .. MaxFaults
    BY BoundsAssumption DEF Init
  <2>6. answer \in Answer /\ job \in Job
    BY DEF Init, Answer, Job
  <2>7. identity \subseteq Users /\ admins \subseteq Users /\ sessions \subseteq Users
    BY RolesAssumption DEF Init
  <2>8. given \in [ExportIds -> Nat] /\ subject \in [RequestIds -> Users \cup {None}]
    BY DEF Init
  <2> QED
    BY <2>1, <2>2, <2>3, <2>4, <2>5, <2>6, <2>7, <2>8 DEF TypeOK, Init
<1>3. Known /\ Owed /\ Sole
  <2>1. \A c \in Clients : req[c].pc = "idle"
    BY <1>1, IdleTyped
  <2>2. \A c \in Clients : ~Deleting(c) /\ Knows(c)
    BY <2>1 DEF Deleting, DeletionSteps, Knows, DownloadSteps
  <2> QED
    BY <2>2 DEF Known, Owed, Owes, Sole
<1>4. Subjects /\ DeletionSettled
  BY DEF Subjects, DeletionSettled, Init, NoRequest
<1>5. Used
  BY <1>1, IdleTyped, RowsTyped DEF Used, OneUse, Holds, Init
<1>6. ErasureScrubs
  BY DEF ErasureScrubs, Init
<1> QED
  BY <1>2, <1>3, <1>4, <1>5, <1>6 DEF IInv

-----------------------------------------------------------------------------
\* Frames: what a step must leave alone for a part of the invariant to survive it

\* The request of d goes on as it was, but for the mark that its account was erased.
Kin(d) == /\ req'[d].pc = req[d].pc
          /\ req'[d].user = req[d].user
          /\ req'[d].export = req[d].export
          /\ req'[d].id = req[d].id
          /\ req'[d].kind = req[d].kind

\* One client moves; the others stay.
Moved(c, rec) == \A d \in Clients : req'[d] = IF d = c THEN rec ELSE req[d]

\* No account comes back.
NoneRevived == \A u \in Users : account[u].state # "ACTIVE" => account'[u].state # "ACTIVE"

\* A deletion request stays what it is, unless an administrator closes it.
Kept(r) ==
    prequest[r].kind = "deletion" =>
        /\ prequest'[r].kind = "deletion"
        /\ subject'[r] = subject[r]
        /\ \/ prequest'[r].state = prequest[r].state
           \/ prequest'[r].state = "COMPLETED" /\ r \in byHand'

LEMMA Moves ==
    ASSUME TypeOK, NEW c \in Clients, NEW rec \in Request, req' = [req EXCEPT ![c] = rec]
    PROVE  /\ req' \in [Clients -> Request]
           /\ Moved(c, rec)
           /\ \A d \in Clients : d # c => Kin(d)
BY DEF TypeOK, Moved, Kin

LEMMA OthersKnow ==
    ASSUME IInv, NEW c \in Clients, NEW rec \in Request, Moved(c, rec), Knows(c)',
           UNCHANGED account
    PROVE  Known'
<1> SUFFICES ASSUME NEW d \in Clients, d # c PROVE Knows(d)'
  BY DEF Known
<1>1. Knows(d) /\ req'[d] = req[d]
  BY DEF IInv, Known, Moved
<1> QED
  BY <1>1 DEF Knows

LEMMA StillOwed ==
    ASSUME IInv, \A d \in Clients : Kin(d) \/ Owes(d)', NoneRevived,
           \A r \in RequestIds : Kept(r), byHand \subseteq byHand'
    PROVE  Owed'
<1> SUFFICES ASSUME NEW d \in Clients, Kin(d), Deleting(d)' PROVE Owes(d)'
  BY DEF Owed, Owes
<1>1. Owes(d) /\ Deleting(d) /\ Knows(d)
  BY DEF IInv, Owed, Known, Kin, Deleting
<1>2. req[d].id \in RequestIds /\ req[d].user \in Users
  BY <1>1 DEF Owes, Knows, Deleting, DeletionSteps
<1> DEFINE r == req[d].id
<1>4. /\ prequest'[r].kind = "deletion"
      /\ subject'[r] = req[d].user
      /\ prequest[r].state = "COMPLETED" => prequest'[r].state = "COMPLETED"
      /\ prequest[r].state = "OPEN" \/ r \in byHand => prequest'[r].state = "OPEN" \/ r \in byHand'
  BY <1>1, <1>2 DEF Owes, Kept
<1>5. account[req[d].user].state # "ACTIVE" => account'[req[d].user].state # "ACTIVE"
  BY <1>2 DEF NoneRevived
<1> QED
  BY <1>1, <1>2, <1>4, <1>5 DEF Owes, Kin

LEMMA StillSole ==
    ASSUME IInv, \A d \in Clients : Deleting(d)' => Deleting(d) /\ req'[d].id = req[d].id
    PROVE  Sole'
BY DEF IInv, Sole, Deleting

LEMMA StillUsed ==
    ASSUME IInv, UNCHANGED <<given, lost>>,
           \A d \in Clients :
               Kin(d) \/ (req[d].pc # "audit download" /\ req'[d].pc # "audit download"),
           \A e \in ExportIds : \/ pexport'[e].state = pexport[e].state
                                \/ pexport'[e].state = "gone"
                                \/ pexport[e].state = "absent" /\ pexport'[e].state = "READY"
    PROVE  Used'
<1> SUFFICES ASSUME NEW e \in ExportIds PROVE OneUse(e)'
  BY DEF Used
<1>1. OneUse(e)
  BY DEF IInv, Used
<1>2. \A d \in Clients : Holds(d, e)' <=> Holds(d, e)
  BY DEF Holds, Kin
<1> QED
  BY <1>1, <1>2 DEF OneUse

LEMMA StillScrubbed ==
    ASSUME IInv, UNCHANGED <<accounts, actors, named>>, late \subseteq late',
           \A e \in ExportIds : pexport'[e].user \in {pexport[e].user, None},
           \A r \in RequestIds : /\ prequest'[r].user \in {prequest[r].user, None}
                                 /\ prequest'[r].fulfilled_by \in {prequest[r].fulfilled_by, None}
    PROVE  ErasureScrubs'
BY NoneAssumption DEF IInv, ErasureScrubs, accounts

LEMMA StillSettled ==
    ASSUME IInv, NoneRevived, \A r \in RequestIds : Kept(r), byHand \subseteq byHand',
           \A r \in RequestIds : prequest'[r].kind = "deletion" => prequest[r].kind = "deletion",
           cut \subseteq cut', refused \subseteq refused',
           \A d \in Clients : Kin(d) \/ ~Deleting(d) \/ req[d].id \in cut' \cup refused'
                              \/ prequest'[req[d].id].state = "COMPLETED"
    PROVE  DeletionSettled' /\ Subjects'
<1> SUFFICES ASSUME NEW r \in RequestIds, prequest'[r].kind = "deletion"
             PROVE  /\ prequest'[r].state = "OPEN" => InHand(r)' \/ r \in cut' \cup refused'
                    /\ prequest'[r].state = "COMPLETED" =>
                          r \in byHand' \/ account'[subject'[r]].state # "ACTIVE"
                    /\ subject'[r] \in Users
  BY DEF DeletionSettled, Subjects
<1>1. /\ prequest[r].kind = "deletion"
      /\ prequest[r].state = "OPEN" => InHand(r) \/ r \in cut \cup refused
      /\ prequest[r].state = "COMPLETED" => r \in byHand \/ account[subject[r]].state # "ACTIVE"
      /\ subject[r] \in Users /\ Kept(r)
  BY DEF IInv, DeletionSettled, Subjects
<1>2. subject'[r] = subject[r]
  BY <1>1 DEF Kept
<1>3. ASSUME prequest'[r].state = "OPEN" PROVE InHand(r)' \/ r \in cut' \cup refused'
  <2>1. prequest[r].state = "OPEN"
    BY <1>1, <1>3 DEF Kept
  <2>2. CASE InHand(r)
    <3>1. PICK d \in Clients : req[d].pc \in DeletionSteps /\ req[d].id = r
      BY <2>2 DEF InHand
    <3>2. Deleting(d)
      <4>1. Knows(d) /\ r # None
        BY NoneAssumption DEF IInv, Known
      <4> QED
        BY <3>1, <4>1 DEF Knows, Deleting
    <3>3. CASE Kin(d)
      BY <3>1, <3>3 DEF InHand, Kin
    <3> QED
      BY <3>1, <3>2, <3>3, <1>3
  <2> QED
    BY <1>1, <2>1, <2>2
<1> QED
  BY <1>1, <1>2, <1>3 DEF NoneRevived, Kept

-----------------------------------------------------------------------------
\* Steps that write no table

LEMMA QuietStep ==
    ASSUME IInv, NEW c \in Clients, NEW rec \in Request, req' = [req EXCEPT ![c] = rec],
           answer' \in Answer, begun' \in 0 .. MaxRequests, Knows(c)',
           ~Deleting(c), req[c].pc # "audit download", rec.pc # "audit download",
           rec.pc \notin DeletionSteps \ {"guard", "create deletion"},
           UNCHANGED <<tables, clock, job, faults, history>>
    PROVE  IInv'
<1>1. /\ req' \in [Clients -> Request] /\ Moved(c, rec) /\ req'[c] = rec
      /\ \A d \in Clients : d # c => Kin(d)
  BY Moves DEF IInv, Moved
<1>2. TypeOK'
  BY <1>1 DEF IInv, TypeOK, tables, accounts, history
<1>3. Known'
  BY <1>1, OthersKnow DEF tables, accounts
<1>4. ~Deleting(c)'
  BY <1>1 DEF Deleting
<1>5. Owed' /\ Sole'
  <2>1. \A d \in Clients : Kin(d) \/ Owes(d)'
    BY <1>1, <1>4 DEF Owes
  <2>2. \A d \in Clients : Deleting(d)' => Deleting(d) /\ req'[d].id = req[d].id
    BY <1>1, <1>4 DEF Deleting, Kin
  <2>3. NoneRevived /\ \A r \in RequestIds : Kept(r)
    BY DEF NoneRevived, Kept, tables, accounts, history
  <2>4. byHand \subseteq byHand'
    BY DEF history
  <2> QED
    BY <2>1, <2>2, <2>3, <2>4, StillOwed, StillSole
<1>6. DeletionSettled' /\ Subjects'
  <2>1. NoneRevived /\ \A r \in RequestIds : Kept(r)
    BY DEF NoneRevived, Kept, tables, accounts, history
  <2>2. UNCHANGED <<prequest, byHand, cut, refused>>
    BY DEF tables, history
  <2>3. \A d \in Clients : Kin(d) \/ ~Deleting(d)
    BY <1>1
  <2> QED
    BY <2>1, <2>2, <2>3, StillSettled
<1>7. Used'
  <2>1. UNCHANGED <<given, lost, pexport>>
    BY DEF tables, history
  <2>2. \A d \in Clients :
            Kin(d) \/ (req[d].pc # "audit download" /\ req'[d].pc # "audit download")
    BY <1>1
  <2> QED
    BY <2>1, <2>2, StillUsed
<1>8. ErasureScrubs'
  BY StillScrubbed DEF tables, history
<1> QED
  BY <1>2, <1>3, <1>5, <1>6, <1>7, <1>8 DEF IInv

LEMMA ClockTyped == IInv => clock \in Nat
BY BoundsAssumption DEF IInv, TypeOK

\* The session of a request is that of an account that is active.
LEMMA SessionsAreActive ==
    ASSUME IInv, NEW u \in Users, u \in sessions \cup admins PROVE account[u].state = "ACTIVE"
BY DEF IInv, ErasureScrubs

\* A request begins, or is answered at once.
LEMMA BeginStep ==
    ASSUME IInv, NEW c \in Clients, NEW u \in Users, require_user(c, u),
           NEW rec \in Request, req' = [req EXCEPT ![c] = rec], answer' \in Answer,
           rec.pc = "idle" \/ (rec.user = u /\ rec.pc \in {"assemble", "payload", "guard",
                                                           "close", "create"}),
           rec.pc = "payload" => rec.export \in ExportIds,
           rec.pc = "guard" => rec.id = None,
           rec.pc = "close" => rec.id \in RequestIds,
           rec.pc = "create" => rec.kind \in MANUAL_REQUEST_KINDS,
           UNCHANGED <<tables, clock, job, faults, history>>
    PROVE  IInv'
<1>1. account'[u].state = "ACTIVE" /\ req[c].pc = "idle"
  BY SessionsAreActive DEF require_user, tables, accounts
<1>2. req'[c] = rec
  BY DEF IInv, TypeOK
<1>3. Knows(c)'
  BY <1>1, <1>2 DEF Knows, DownloadSteps
<1>4. ~Deleting(c) /\ req[c].pc # "audit download" /\ rec.pc # "audit download"
      /\ rec.pc \notin DeletionSteps \ {"guard", "create deletion"}
  BY <1>1 DEF Deleting, DeletionSteps
<1>5. begun' \in 0 .. MaxRequests
  BY BoundsAssumption DEF IInv, TypeOK, require_user
<1> QED
  BY <1>3, <1>4, <1>5, QuietStep

LEMMA RequestExportStep ==
    ASSUME IInv, NEW c \in Clients, NEW u \in Users, request_export(c, u) PROVE IInv'
<1> DEFINE rec == [Idle EXCEPT !.pc = "assemble", !.user = u, !.now = clock]
<1>1. rec \in Request /\ rec.pc = "assemble" /\ rec.user = u
  BY ClockTyped DEF Idle, Request, ExportSteps
<1>2. req' = [req EXCEPT ![c] = rec] /\ answer' \in Answer
  BY DEF request_export, Start, Answer
<1> HIDE DEF rec
<1> QED
  BY <1>1, <1>2, BeginStep DEF request_export

LEMMA RefusedAtOnce ==
    ASSUME IInv, NEW c \in Clients, NEW u \in Users, require_user(c, u),
           NEW a \in Answer, Return(c, a), UNCHANGED <<tables, clock, job, faults, history>>
    PROVE  IInv'
<1>1. req' = [req EXCEPT ![c] = Idle] /\ answer' \in Answer
  BY DEF Return
<1> QED
  BY <1>1, IdleTyped, BeginStep

LEMMA DownloadStep ==
    ASSUME IInv, NEW c \in Clients, NEW u \in Users, NEW e \in ExportIds, NEW token \in BOOLEAN,
           download_export(c, u, e, token)
    PROVE  IInv'
<1> DEFINE rec == [Idle EXCEPT !.pc = "payload", !.user = u, !.export = e, !.now = clock,
                               !.token = token]
<1>1. rec \in Request /\ rec.pc = "payload" /\ rec.user = u /\ rec.export = e
  BY ClockTyped DEF Idle, Request, DownloadSteps
<1>2. CASE Start(c, rec)
  <2>1. req' = [req EXCEPT ![c] = rec] /\ answer' \in Answer
    BY <1>2 DEF Start, Answer
  <2> HIDE DEF rec
  <2> QED
    BY <1>1, <2>1, BeginStep DEF download_export
<1>3. CASE Return(c, "NotFound") \/ Return(c, "NotAuthorized")
  BY <1>3, RefusedAtOnce DEF download_export, Answer, PrivacyError
<1> QED
  BY <1>2, <1>3 DEF download_export

LEMMA RequestDeletionStep ==
    ASSUME IInv, NEW c \in Clients, NEW u \in Users, NEW email, NEW password,
           request_deletion(c, u, email, password)
    PROVE  IInv'
<1> DEFINE rec == [Idle EXCEPT !.pc = "guard", !.user = u]
<1>1. rec \in Request /\ rec.pc = "guard" /\ rec.user = u /\ rec.id = None
  BY DEF Idle, Request, DeletionSteps
<1>2. CASE Start(c, rec)
  <2>1. req' = [req EXCEPT ![c] = rec] /\ answer' \in Answer
    BY <1>2 DEF Start, Answer
  <2> HIDE DEF rec
  <2> QED
    BY <1>1, <2>1, BeginStep DEF request_deletion
<1>3. CASE Return(c, "ReauthRequired")
  BY <1>3, RefusedAtOnce DEF request_deletion, Answer, PrivacyError
<1> QED
  BY <1>2, <1>3 DEF request_deletion

LEMMA SubmitStep ==
    ASSUME IInv, NEW c \in Clients, NEW u \in Users, NEW kind, submit_request(c, u, kind)
    PROVE  IInv'
<1> DEFINE rec == [Idle EXCEPT !.pc = "create", !.user = u, !.kind = kind]
<1>1. rec \in Request /\ rec.pc = "create" /\ rec.user = u /\ rec.kind \in MANUAL_REQUEST_KINDS
  BY DEF submit_request, Idle, Request, QueueSteps, MANUAL_REQUEST_KINDS, PrivacyRequestKind
<1>2. req' = [req EXCEPT ![c] = rec] /\ answer' \in Answer
  BY DEF submit_request, Start, Answer
<1> HIDE DEF rec
<1> QED
  BY <1>1, <1>2, BeginStep DEF submit_request

LEMMA FulfillRequestStep ==
    ASSUME IInv, NEW c \in Clients, NEW u \in Users, NEW r \in RequestIds,
           fulfill_request(c, u, r)
    PROVE  IInv'
<1> DEFINE rec == [Idle EXCEPT !.pc = "close", !.user = u, !.id = r]
<1>1. rec \in Request /\ rec.pc = "close" /\ rec.user = u /\ rec.id = r
  BY DEF Idle, Request, QueueSteps
<1>2. req' = [req EXCEPT ![c] = rec] /\ answer' \in Answer
  BY DEF fulfill_request, Start, Answer
<1> HIDE DEF rec
<1> QED
  BY <1>1, <1>2, BeginStep DEF fulfill_request

\* A request goes on or ends, with nothing written.
LEMMA LocalStep ==
    ASSUME IInv, NEW c \in Clients, NEW rec \in Request, req' = [req EXCEPT ![c] = rec],
           answer' \in Answer,
           req[c].pc \in {"assemble", "payload", "check", "consume", "guard", "create export",
                          "create deletion", "create", "close"},
           \/ rec.pc = "idle"
           \/ /\ rec.user = req[c].user /\ rec.id = req[c].id /\ rec.export = req[c].export
              /\ rec.crossed = req[c].crossed
              /\ \/ rec.pc = "create export"
                 \/ rec.pc \in {"check", "consume"} /\ req[c].pc \in DownloadSteps
                 \/ rec.pc = "create deletion" /\ req[c].pc = "guard",
           UNCHANGED <<tables, clock, job, begun, faults, history>>
    PROVE  IInv'
<1>1. req'[c] = rec /\ begun' \in 0 .. MaxRequests /\ account' = account
  BY DEF IInv, TypeOK, tables, accounts
<1>2. Knows(c)
  BY DEF IInv, Known
<1>3. Knows(c)'
  BY <1>1, <1>2 DEF Knows, DownloadSteps
<1>4. ~Deleting(c) /\ req[c].pc # "audit download" /\ rec.pc # "audit download"
      /\ rec.pc \notin DeletionSteps \ {"guard", "create deletion"}
  BY DEF Deleting, DeletionSteps
<1> QED
  BY <1>1, <1>3, <1>4, QuietStep

LEMMA LocalReturn ==
    ASSUME IInv, NEW c \in Clients, NEW a \in Answer, Return(c, a),
           req[c].pc \in {"assemble", "payload", "check", "consume", "guard", "create export",
                          "create deletion", "create", "close"},
           UNCHANGED <<tables, clock, job, begun, faults, history>>
    PROVE  IInv'
<1>1. req' = [req EXCEPT ![c] = Idle] /\ answer' \in Answer
  BY DEF Return
<1> QED
  BY <1>1, IdleTyped, LocalStep

Targets == {"check", "consume", "create deletion", "audit export", "audit download",
            "audit deletion", "anonymize", "fulfill", "audit anonymized", "revoke",
            "audit fulfilled"}

\* The request goes to another step, and takes along what it knows.
Going(c, step, rec) ==
    /\ req' = [req EXCEPT ![c] = rec] /\ answer' \in Answer
    /\ rec.pc = step /\ rec.user = req[c].user /\ rec.id = req[c].id
    /\ rec.export = req[c].export /\ rec.kind = req[c].kind
    /\ rec.crossed = req[c].crossed

LEMMA GoesTo ==
    ASSUME TypeOK, NEW c \in Clients, NEW step \in Targets, Goto(c, step)
    PROVE  \E rec \in Request : Going(c, step, rec)
<1> DEFINE rec == [req[c] EXCEPT !.pc = step]
<1>1. req[c] \in Request
  BY DEF TypeOK
<1>2. rec \in Request
  BY <1>1 DEF Targets, Request, DownloadSteps, DeletionSteps, ExportSteps, QueueSteps
<1>3. /\ rec.pc = step /\ rec.user = req[c].user /\ rec.id = req[c].id
      /\ rec.export = req[c].export /\ rec.kind = req[c].kind /\ rec.crossed = req[c].crossed
  BY <1>1 DEF Request
<1>4. req' = [req EXCEPT ![c] = rec] /\ answer' \in Answer
  BY DEF Goto, Start, Answer
<1> HIDE DEF rec
<1>5. Going(c, step, rec)
  BY <1>3, <1>4 DEF Going
<1> QED
  BY <1>2, <1>5

LEMMA LocalGoto ==
    ASSUME IInv, NEW c \in Clients, NEW step, Goto(c, step),
           \/ req[c].pc = "payload" /\ step = "check"
           \/ req[c].pc = "check" /\ step = "consume"
           \/ req[c].pc = "guard" /\ step = "create deletion",
           UNCHANGED <<tables, clock, job, begun, faults, history>>
    PROVE  IInv'
<1>1. TypeOK /\ step \in Targets
  BY DEF IInv, Targets
<1>2. PICK rec \in Request : Going(c, step, rec)
  BY <1>1, GoesTo
<1> QED
  BY <1>2, LocalStep DEF Going, DownloadSteps

LEMMA AssembleStep ==
    ASSUME IInv, NEW c \in Clients, assemble_payload(c) PROVE IInv'
<1> DEFINE rec == [req[c] EXCEPT !.personal = (account[req[c].user].state = "ACTIVE"),
                                 !.pc = "create export"]
<1>1. CASE Return(c, "NotFound")
  BY <1>1, LocalReturn DEF assemble_payload, At, Answer, PrivacyError
<1>2. CASE Start(c, rec)
  <2>1. req[c] \in Request
    BY DEF IInv, TypeOK
  <2>2. rec \in Request
    BY <2>1 DEF Request, ExportSteps
  <2>3. /\ rec.pc = "create export" /\ rec.user = req[c].user /\ rec.id = req[c].id
        /\ rec.export = req[c].export /\ rec.crossed = req[c].crossed
    BY <2>1 DEF Request
  <2>4. req' = [req EXCEPT ![c] = rec] /\ answer' \in Answer
    BY <1>2 DEF Start, Answer
  <2> HIDE DEF rec
  <2> QED
    BY <2>2, <2>3, <2>4, LocalStep DEF assemble_payload, At
<1> QED
  BY <1>1, <1>2 DEF assemble_payload

LEMMA ReadPayloadStep ==
    ASSUME IInv, NEW c \in Clients, read_payload(c) PROVE IInv'
<1>1. CASE Return(c, "NotFound")
  BY <1>1, LocalReturn DEF read_payload, At, Answer, PrivacyError
<1>2. CASE Goto(c, "check")
  BY <1>2, LocalGoto DEF read_payload, At
<1> QED
  BY <1>1, <1>2 DEF read_payload

LEMMA CheckRowStep ==
    ASSUME IInv, NEW c \in Clients, check_row(c) PROVE IInv'
<1>1. CASE \E a \in PrivacyError : Return(c, a)
  BY <1>1, LocalReturn DEF check_row, At, Answer
<1>2. CASE Goto(c, "consume")
  BY <1>2, LocalGoto DEF check_row, At
<1> QED
  BY <1>1, <1>2 DEF check_row, PrivacyError

LEMMA GuardStep ==
    ASSUME IInv, NEW c \in Clients, guard(c) PROVE IInv'
<1>1. CASE Return(c, "LastAdmin")
  BY <1>1, LocalReturn DEF guard, At, Answer, PrivacyError
<1>2. CASE Goto(c, "create deletion")
  BY <1>2, LocalGoto DEF guard, At
<1> QED
  BY <1>1, <1>2 DEF guard

-----------------------------------------------------------------------------
\* Requests that end before their last statement

LEMMA AbandonStep ==
    ASSUME IInv, NEW c \in Clients, req[c].pc # "idle", Abandon(c),
           req' = [req EXCEPT ![c] = Idle], answer' \in Answer, faults' \in 0 .. MaxFaults,
           UNCHANGED <<tables, clock, job, begun, given, late, named, byHand, refused, subject>>
    PROVE  IInv'
<1>1. /\ req' \in [Clients -> Request] /\ Moved(c, Idle) /\ req'[c] = Idle
      /\ \A d \in Clients : d # c => Kin(d)
  BY Moves, IdleTyped DEF IInv, Moved
<1>2. Knows(c) /\ Owes(c)
  BY DEF IInv, Known, Owed
<1>3. lost' \subseteq ExportIds /\ cut' \subseteq RequestIds
  BY <1>2 DEF Abandon, At, Knows, DownloadSteps, IInv, TypeOK, Request
<1>4. TypeOK'
  BY <1>1, <1>3 DEF IInv, TypeOK, tables, accounts
<1>5. Known'
  <2>1. Knows(c)'
    BY <1>1, IdleTyped DEF Knows, DownloadSteps
  <2> QED
    BY <1>1, <2>1, IdleTyped, OthersKnow DEF tables, accounts
<1>6. ~Deleting(c)'
  BY <1>1, IdleTyped DEF Deleting, DeletionSteps
<1>7. NoneRevived /\ \A r \in RequestIds : Kept(r)
  BY DEF NoneRevived, Kept, tables, accounts
<1>8. Owed' /\ Sole'
  <2>1. \A d \in Clients : Kin(d) \/ Owes(d)'
    BY <1>1, <1>6 DEF Owes
  <2>2. \A d \in Clients : Deleting(d)' => Deleting(d) /\ req'[d].id = req[d].id
    BY <1>1, <1>6 DEF Deleting, Kin
  <2> QED
    BY <1>7, <2>1, <2>2, StillOwed, StillSole
<1>9. DeletionSettled' /\ Subjects'
  <2>1. UNCHANGED <<prequest, byHand, refused>>
    BY DEF tables
  <2>2. cut \subseteq cut' /\ (Deleting(c) => req[c].id \in cut')
    BY <1>2, NoneAssumption DEF Abandon, Deleting, Owes
  <2>3. \A d \in Clients : Kin(d) \/ ~Deleting(d) \/ req[d].id \in cut' \cup refused'
    BY <1>1, <2>2
  <2> QED
    BY <1>7, <2>1, <2>2, <2>3, StillSettled
<1>10. ErasureScrubs'
  BY StillScrubbed DEF tables
<1>11. Used'
  <2>1. CASE req[c].pc # "audit download"
    <3>1. UNCHANGED <<given, lost, pexport>>
      BY <2>1 DEF Abandon, At, tables
    <3>2. \A d \in Clients :
            Kin(d) \/ (req[d].pc # "audit download" /\ req'[d].pc # "audit download")
      BY <1>1, <2>1, IdleTyped
    <3> QED
      BY <3>1, <3>2, StillUsed
  <2>2. CASE req[c].pc = "audit download"
    <3> SUFFICES ASSUME NEW e \in ExportIds PROVE OneUse(e)'
      BY DEF Used
    <3>1. OneUse(e) /\ UNCHANGED <<given, pexport>> /\ lost' = lost \cup {req[c].export}
      BY <2>2 DEF IInv, Used, Abandon, At, tables
    <3>2. \A d \in Clients : Holds(d, e)' <=> Holds(d, e) /\ d # c
      BY <1>1, IdleTyped DEF Holds, Kin
    <3>3. CASE req[c].export = e
      <4>1. Holds(c, e)
        BY <2>2, <3>3 DEF Holds
      <4> QED
        BY <3>1, <3>2, <3>3, <4>1 DEF OneUse
    <3>4. CASE req[c].export # e
      <4>1. ~Holds(c, e) /\ (e \in lost' <=> e \in lost)
        BY <3>1, <3>4 DEF Holds
      <4> QED
        BY <3>1, <3>2, <4>1 DEF OneUse
    <3> QED
      BY <3>3, <3>4
  <2> QED
    BY <2>1, <2>2
<1> QED
  BY <1>4, <1>5, <1>8, <1>9, <1>10, <1>11 DEF IInv

LEMMA FailStep ==
    ASSUME IInv, NEW c \in Clients, Fail(c) PROVE IInv'
<1>1. faults' \in 0 .. MaxFaults
  BY BoundsAssumption DEF Fail, IInv, TypeOK
<1>2. req' = [req EXCEPT ![c] = Idle] /\ answer' \in Answer
  BY DEF Fail, Return, Answer, PrivacyError
<1> QED
  BY <1>1, <1>2, AbandonStep DEF Fail

-----------------------------------------------------------------------------
\* Events

\* The event of a step that ends the request, or leads to the next step.
LEMMA AuditedStep ==
    ASSUME IInv, NEW c \in Clients, NEW step, NEW next, Audited(c, step, next),
           \/ step \in {"audit export", "audit request", "audit fulfilled"} /\ next = "ok"
           \/ step = "audit deletion" /\ next = "anonymize"
           \/ step = "audit anonymized" /\ next = "revoke"
    PROVE  IInv'
<1> DEFINE u == req[c].user
<1>1. req[c].pc = step /\ step # "idle" /\ u \in Users /\ Knows(c) /\ Owes(c) /\ TypeOK
      /\ step # "audit download"
  BY DEF Audited, audit, At, IInv, Known, Knows, Owed
<1>2. CASE account[u].state = "gone"
  <2>1. req' = [req EXCEPT ![c] = Idle] /\ answer' \in Answer /\ Abandon(c)
        /\ UNCHANGED <<actors, named>>
    BY <1>2 DEF Audited, audit, Return, Answer, PrivacyError
  <2>2. UNCHANGED <<tables, clock, job, begun, given, late, named, byHand, refused, subject>>
    BY <2>1 DEF Audited, audit, tables
  <2>3. faults' \in 0 .. MaxFaults
    BY DEF Audited, audit, IInv, TypeOK
  <2> QED
    BY <1>1, <2>1, <2>2, <2>3, AbandonStep
<1>3. CASE account[u].state # "gone"
  <2>1. /\ actors' = actors \cup {u}
        /\ named' = IF req[c].crossed THEN named \cup {u} ELSE named
        /\ IF next = "ok" THEN Return(c, "ok") ELSE Goto(c, next)
        /\ UNCHANGED <<lost, cut>>
    BY <1>3 DEF Audited, audit
  <2>2. UNCHANGED <<accounts, pexport, prequest, clock, job, begun, faults, late, byHand, refused,
                    subject, given>>
    BY DEF Audited, audit
  <2>3. PICK rec \in Request :
               /\ req' = [req EXCEPT ![c] = rec] /\ answer' \in Answer
               /\ \/ rec = Idle /\ next = "ok"
                  \/ next # "ok" /\ Going(c, next, rec)
    <3>1. CASE next = "ok"
      BY <2>1, <3>1, IdleTyped DEF Return, Answer
    <3>2. CASE next # "ok"
      <4>1. next \in Targets /\ Goto(c, next)
        BY <2>1, <3>2 DEF Targets
      <4>2. PICK rec \in Request : Going(c, next, rec)
        BY <1>1, <4>1, GoesTo
      <4> QED
        BY <3>2, <4>2 DEF Going
    <3> QED
      BY <3>1, <3>2
  <2>4. /\ req' \in [Clients -> Request] /\ Moved(c, rec) /\ req'[c] = rec
        /\ \A d \in Clients : d # c => Kin(d)
    BY <1>1, <2>3, Moves DEF Moved
  <2>5. TypeOK'
    BY <1>1, <2>1, <2>2, <2>3, <2>4 DEF TypeOK, accounts
  <2>6. Knows(c)' /\ Owes(c)'
    BY <1>1, <2>2, <2>3, <2>4, IdleTyped
    DEF Going, Knows, Owes, Deleting, DeletionSteps, DownloadSteps, accounts
  <2>7. Known'
    BY <2>2, <2>4, <2>6, OthersKnow DEF accounts
  <2>8. NoneRevived /\ \A r \in RequestIds : Kept(r)
    BY <2>2 DEF NoneRevived, Kept, accounts
  <2>9. Owed'
    BY <2>2, <2>4, <2>6, <2>8, StillOwed
  <2>10. Sole'
    <3>1. Deleting(c)' => Deleting(c) /\ req'[c].id = req[c].id
      BY <1>1, <2>3, <2>4, IdleTyped DEF Going, Deleting, DeletionSteps
    <3>2. \A d \in Clients : Deleting(d)' => Deleting(d) /\ req'[d].id = req[d].id
      BY <2>4, <3>1 DEF Deleting, Kin
    <3> QED
      BY <3>2, StillSole
  <2>11. DeletionSettled' /\ Subjects'
    <3>1. CASE next = "ok"
      <4>1. ~Deleting(c)
        BY <1>1, <3>1 DEF Deleting, DeletionSteps
      <4> QED
        BY <2>1, <2>2, <2>4, <2>8, <4>1, StillSettled
    <3>2. CASE next # "ok"
      <4> SUFFICES ASSUME NEW r \in RequestIds
                   PROVE  InHand(r) => InHand(r)'
        BY <1>1, <2>1, <2>2 DEF IInv, DeletionSettled, Subjects, accounts
      <4>1. \A d \in Clients : req[d].pc \in DeletionSteps /\ req[d].id = r
                               => req'[d].pc \in DeletionSteps /\ req'[d].id = r
        BY <2>3, <2>4, <3>2 DEF Going, Kin, DeletionSteps
      <4> QED
        BY <4>1 DEF InHand
    <3> QED
      BY <3>1, <3>2
  <2>12. Used'
    <3>1. req[c].pc # "audit download" /\ req'[c].pc # "audit download"
      BY <1>1, <2>3, <2>4, IdleTyped DEF Going
    <3> QED
      BY <2>1, <2>2, <2>4, <3>1, StillUsed
  <2>13. ErasureScrubs'
    BY <1>1, <2>1, <2>2 DEF IInv, ErasureScrubs, Knows, accounts
  <2> QED
    BY <2>5, <2>7, <2>9, <2>10, <2>11, <2>12, <2>13 DEF IInv
<1> QED
  BY <1>2, <1>3

\* The event of a download, and with it the payload.
LEMMA AuditDownloadStep ==
    ASSUME IInv, NEW c \in Clients, audit_download(c) PROVE IInv'
<1> DEFINE u == req[c].user
<1> DEFINE x == req[c].export
<1>1. req[c].pc = "audit download" /\ u \in Users /\ x \in ExportIds /\ Knows(c) /\ TypeOK
  BY DEF audit_download, audit, At, IInv, Known, Knows, DownloadSteps
<1>2. CASE account[u].state = "gone"
  <2>1. req' = [req EXCEPT ![c] = Idle] /\ answer' = "Internal" /\ Abandon(c)
        /\ UNCHANGED <<actors, named>>
    BY <1>2 DEF audit_download, audit, Return
  <2>2. UNCHANGED <<tables, clock, job, begun, given, late, named, byHand, refused, subject>>
    BY <2>1 DEF audit_download, audit, tables
  <2>3. faults' \in 0 .. MaxFaults /\ answer' \in Answer
    BY <2>1 DEF audit_download, audit, IInv, TypeOK, Answer, PrivacyError
  <2> QED
    BY <1>1, <2>1, <2>2, <2>3, AbandonStep
<1>3. CASE account[u].state # "gone"
  <2>1. /\ actors' = actors \cup {u}
        /\ named' = IF req[c].crossed THEN named \cup {u} ELSE named
        /\ req' = [req EXCEPT ![c] = Idle] /\ answer' = "ok" /\ answer' \in Answer
        /\ UNCHANGED <<lost, cut>>
    BY <1>3 DEF audit_download, audit, Return, Answer
  <2>2. UNCHANGED <<accounts, pexport, prequest, clock, job, begun, faults, late, byHand, refused,
                    subject>>
    BY DEF audit_download, audit
  <2>3. given' = [given EXCEPT ![x] = @ + 1]
    BY <2>1 DEF audit_download
  <2>4. /\ req' \in [Clients -> Request] /\ Moved(c, Idle) /\ req'[c] = Idle
        /\ \A d \in Clients : d # c => Kin(d)
    BY <1>1, <2>1, IdleTyped, Moves DEF Moved
  <2>5. TypeOK'
    <3>1. given' \in [ExportIds -> Nat]
      <4>1. given \in [ExportIds -> Nat]
        BY <1>1 DEF TypeOK
      <4>2. x \in ExportIds
        BY <1>1
      <4> HIDE DEF x
      <4>3. given[x] \in Nat
        BY <4>1, <4>2
      <4>4. given[x] + 1 \in Nat
        BY <4>3
      <4> QED
        BY <2>3, <4>1, <4>2, <4>4
    <3> QED
      BY <1>1, <2>1, <2>2, <2>4, <3>1 DEF TypeOK, accounts
  <2>6. Knows(c)' /\ Owes(c)' /\ ~Deleting(c) /\ ~Deleting(c)'
    BY <1>1, <2>4, IdleTyped DEF Knows, Owes, Deleting, DeletionSteps, DownloadSteps
  <2>7. Known'
    BY <2>2, <2>4, <2>6, IdleTyped, OthersKnow DEF accounts
  <2>8. NoneRevived /\ \A r \in RequestIds : Kept(r)
    BY <2>2 DEF NoneRevived, Kept, accounts
  <2>9. Owed'
    BY <2>2, <2>4, <2>6, <2>8, StillOwed
  <2>10. Sole'
    <3>1. \A d \in Clients : Deleting(d)' => Deleting(d) /\ req'[d].id = req[d].id
      BY <2>4, <2>6 DEF Deleting, Kin
    <3> QED
      BY <3>1, StillSole
  <2>11. DeletionSettled' /\ Subjects'
    BY <2>1, <2>2, <2>4, <2>6, <2>8, StillSettled
  <2>12. Used'
    <3> SUFFICES ASSUME NEW e \in ExportIds PROVE OneUse(e)'
      BY DEF Used
    <3>1. OneUse(e)
      BY DEF IInv, Used
    <3>2. \A d \in Clients : Holds(d, e)' <=> Holds(d, e) /\ d # c
      BY <2>4, IdleTyped DEF Holds, Kin
    <3>3. CASE x = e
      <4>1. Holds(c, e) /\ given'[e] = given[e] + 1
        BY <1>1, <2>3, <3>3 DEF Holds, TypeOK
      <4> QED
        BY <2>1, <2>2, <3>1, <3>2, <4>1 DEF OneUse
    <3>4. CASE x # e
      <4>1. ~Holds(c, e) /\ given'[e] = given[e]
        BY <1>1, <2>3, <3>4 DEF Holds, TypeOK
      <4> QED
        BY <2>1, <2>2, <3>1, <3>2, <4>1 DEF OneUse
    <3> QED
      BY <3>3, <3>4
  <2>13. ErasureScrubs'
    BY <1>1, <2>1, <2>2 DEF IInv, ErasureScrubs, Knows, accounts
  <2> QED
    BY <2>5, <2>7, <2>9, <2>10, <2>11, <2>12, <2>13 DEF IInv
<1> QED
  BY <1>2, <1>3

-----------------------------------------------------------------------------
\* Statements on the exports

\* A request that is not about a deletion goes on to a step that is not either, and no
\* account or rights request changes.
LEMMA BystanderStep ==
    ASSUME IInv, NEW c \in Clients, NEW rec \in Request, req' = [req EXCEPT ![c] = rec],
           ~Deleting(c), rec.pc \notin DeletionSteps, Knows(c)',
           UNCHANGED <<account, prequest, byHand, cut, refused, subject>>
    PROVE  Known' /\ Owed' /\ Sole' /\ Subjects' /\ DeletionSettled'
<1>1. /\ Moved(c, rec) /\ req'[c] = rec
      /\ \A d \in Clients : d # c => Kin(d)
  BY Moves DEF IInv, Moved
<1>2. Known'
  BY <1>1, OthersKnow
<1>3. ~Deleting(c)' /\ Owes(c)'
  BY <1>1 DEF Deleting, Owes
<1>4. NoneRevived /\ \A r \in RequestIds : Kept(r)
  BY DEF NoneRevived, Kept
<1>5. Owed'
  BY <1>1, <1>3, <1>4, StillOwed
<1>6. Sole'
  <2>1. \A d \in Clients : Deleting(d)' => Deleting(d) /\ req'[d].id = req[d].id
    BY <1>1, <1>3 DEF Deleting, Kin
  <2> QED
    BY <2>1, StillSole
<1>7. DeletionSettled' /\ Subjects'
  BY <1>1, <1>4, StillSettled
<1> QED
  BY <1>2, <1>5, <1>6, <1>7

LEMMA CreateExportStep ==
    ASSUME IInv, NEW c \in Clients, create_export(c) PROVE IInv'
<1> DEFINE u == req[c].user
<1>1. req[c].pc = "create export" /\ u \in Users /\ Knows(c) /\ TypeOK
  BY DEF create_export, At, IInv, Known, Knows
<1>2. CASE account[u].state = "gone"
  <2>1. Return(c, "Internal") /\ UNCHANGED <<tables, clock, job, begun, faults, history>>
    BY <1>2 DEF create_export, tables, history
  <2> QED
    BY <1>1, <2>1, LocalReturn DEF Answer, PrivacyError
<1>3. CASE account[u].state # "gone"
  <2> DEFINE row == [state |-> "READY", user |-> u, personal |-> req[c].personal,
                     expires_at |-> req[c].now + ExportTtl]
  <2>1. PICK e \in ExportIds :
              /\ pexport[e].state = "absent"
              /\ pexport' = [pexport EXCEPT ![e] = row]
              /\ late' = IF req[c].crossed THEN late \cup {e} ELSE late
    BY <1>3 DEF create_export
  <2>2. row \in ExportRow /\ row.state = "READY" /\ row.user = u
    <3>1. req[c].now \in Nat /\ req[c].personal \in BOOLEAN
      BY <1>1 DEF TypeOK, Request
    <3>2. req[c].now + ExportTtl \in Nat
      BY <3>1, BoundsAssumption
    <3> QED
      BY <1>1, <3>1, <3>2 DEF ExportRow, ExportState
  <2> HIDE DEF row
  <2>3. UNCHANGED <<accounts, prequest, actors, clock, job, begun, faults, given, lost, named,
                    byHand, refused, cut, subject>>
    BY DEF create_export
  <2>4. Goto(c, "audit export") /\ "audit export" \in Targets
    BY <1>3 DEF create_export, Targets
  <2>5. PICK rec \in Request :
               /\ req' = [req EXCEPT ![c] = rec] /\ answer' \in Answer
               /\ rec.pc = "audit export" /\ rec.user = req[c].user
               /\ rec.crossed = req[c].crossed
    <3>1. PICK rec \in Request : Going(c, "audit export", rec)
      BY <1>1, <2>4, GoesTo
    <3> QED
      BY <3>1 DEF Going
  <2>6. req' \in [Clients -> Request] /\ req'[c] = rec /\ \A d \in Clients : d # c => Kin(d)
    BY <1>1, <2>5, Moves DEF Moved
  <2>7. TypeOK'
    <3>1. pexport' \in [ExportIds -> ExportRow] /\ late' \subseteq ExportIds \cup RequestIds
      BY <1>1, <2>1, <2>2 DEF TypeOK
    <3> QED
      BY <1>1, <2>3, <2>5, <2>6, <3>1 DEF TypeOK, accounts
  <2>8. Known' /\ Owed' /\ Sole' /\ Subjects' /\ DeletionSettled'
    <3>1. Knows(c)'
      BY <1>1, <2>3, <2>5, <2>6 DEF Knows, DownloadSteps, accounts
    <3>2. ~Deleting(c) /\ rec.pc \notin DeletionSteps
      BY <1>1, <2>5 DEF Deleting, DeletionSteps
    <3> QED
      BY <2>3, <2>5, <3>1, <3>2, BystanderStep DEF accounts
  <2>9. Used'
    <3>1. \A f \in ExportIds : \/ pexport'[f].state = pexport[f].state
                               \/ pexport[f].state = "absent" /\ pexport'[f].state = "READY"
      BY <1>1, <2>1, <2>2 DEF TypeOK
    <3> QED
      BY <1>1, <2>3, <2>5, <2>6, <3>1, StillUsed
  <2>10. ErasureScrubs'
    <3>1. account[u].state # "ACTIVE" => e \in late'
      BY <1>1, <2>1 DEF Knows
    <3>2. \A f \in ExportIds : pexport'[f].user = IF f = e THEN u ELSE pexport[f].user
      BY <1>1, <2>1, <2>2 DEF TypeOK
    <3>3. late \subseteq late'
      BY <2>1
    <3> QED
      BY <1>1, <2>3, <3>1, <3>2, <3>3 DEF IInv, ErasureScrubs, accounts
  <2> QED
    BY <2>7, <2>8, <2>9, <2>10 DEF IInv
<1> QED
  BY <1>2, <1>3

\* The row that is used up was not used before, and the request is the first to hold it.
LEMMA ConsumeStep ==
    ASSUME IInv, NEW c \in Clients, consume_download(c) PROVE IInv'
<1> DEFINE x == req[c].export
<1>1. req[c].pc = "consume" /\ x \in ExportIds /\ Knows(c) /\ TypeOK
  BY DEF consume_download, At, IInv, Known, Knows, DownloadSteps
<1>2. CASE UNCHANGED pexport /\ Return(c, "AlreadyDownloaded")
  <2>1. UNCHANGED <<tables, clock, job, begun, faults, history>>
    BY <1>2 DEF consume_download, tables
  <2> QED
    BY <1>1, <1>2, <2>1, LocalReturn DEF Answer, PrivacyError
<1>3. CASE /\ pexport[x].state = "READY"
           /\ pexport' = [pexport EXCEPT ![x].state = "DOWNLOADED"]
           /\ Goto(c, "audit download")
  <2>1. UNCHANGED <<accounts, prequest, actors, clock, job, begun, faults, history>>
    BY DEF consume_download
  <2>2. PICK rec \in Request :
               /\ req' = [req EXCEPT ![c] = rec] /\ answer' \in Answer
               /\ rec.pc = "audit download" /\ rec.user = req[c].user
               /\ rec.export = x /\ rec.crossed = req[c].crossed
    <3>1. "audit download" \in Targets
      BY DEF Targets
    <3>2. PICK rec \in Request : Going(c, "audit download", rec)
      BY <1>1, <1>3, <3>1, GoesTo
    <3> QED
      BY <3>2 DEF Going
  <2>3. req' \in [Clients -> Request] /\ req'[c] = rec /\ \A d \in Clients : d # c => Kin(d)
    BY <1>1, <2>2, Moves DEF Moved
  <2>4. /\ pexport' \in [ExportIds -> ExportRow]
        /\ pexport'[x].state = "DOWNLOADED" /\ pexport'[x].user = pexport[x].user
        /\ \A f \in ExportIds : f # x => pexport'[f] = pexport[f]
    BY <1>1, <1>3 DEF TypeOK, ExportRow, ExportState
  <2>5. TypeOK'
    BY <1>1, <2>1, <2>2, <2>3, <2>4 DEF TypeOK, accounts, history
  <2>6. Known' /\ Owed' /\ Sole' /\ Subjects' /\ DeletionSettled'
    <3>1. Knows(c)'
      BY <1>1, <2>1, <2>2, <2>3 DEF Knows, DownloadSteps, accounts
    <3>2. ~Deleting(c) /\ rec.pc \notin DeletionSteps
      BY <1>1, <2>2 DEF Deleting, DeletionSteps
    <3> QED
      BY <2>1, <2>2, <3>1, <3>2, BystanderStep DEF accounts, history
  <2>7. Used'
    <3> SUFFICES ASSUME NEW e \in ExportIds PROVE OneUse(e)'
      BY DEF Used
    <3>1. OneUse(e) /\ UNCHANGED <<given, lost>>
      BY <2>1 DEF IInv, Used, history
    <3>2. CASE e = x
      <4>1. \A d \in Clients : Holds(d, e)' <=> d = c \/ Holds(d, e)
        BY <2>2, <2>3, <3>2 DEF Holds, Kin
      <4>2. given[e] = 0 /\ e \notin lost /\ \A d \in Clients : ~Holds(d, e)
        BY <1>3, <3>1, <3>2 DEF OneUse
      <4> QED
        BY <2>4, <3>1, <3>2, <4>1, <4>2 DEF OneUse
    <3>3. CASE e # x
      <4>1. \A d \in Clients : Holds(d, e)' <=> Holds(d, e)
        BY <1>1, <2>2, <2>3, <3>3 DEF Holds, Kin
      <4> QED
        BY <2>4, <3>1, <3>3, <4>1 DEF OneUse
    <3> QED
      BY <3>2, <3>3
  <2>8. ErasureScrubs'
    <3>1. \A f \in ExportIds : pexport'[f].user = pexport[f].user
      BY <2>4
    <3> QED
      BY <2>1, <3>1, StillScrubbed DEF history
  <2> QED
    BY <2>5, <2>6, <2>7, <2>8 DEF IInv
<1> QED
  BY <1>2, <1>3 DEF consume_download

-----------------------------------------------------------------------------
\* The end of a deletion

\* The handler answers once the request is completed, or after it was refused.
LEMMA DoneStep ==
    ASSUME IInv, NEW c \in Clients, Deleting(c), NEW a \in Answer, Return(c, a),
           prequest[req[c].id].state = "COMPLETED" \/ req[c].id \in refused',
           refused \subseteq refused', refused' \subseteq RequestIds, sessions' \subseteq sessions,
           UNCHANGED <<account, identity, admins, pexport, prequest, actors, clock, job, begun,
                       faults, given, lost, late, named, byHand, cut, subject>>
    PROVE  IInv'
<1>1. req' = [req EXCEPT ![c] = Idle] /\ answer' \in Answer
  BY DEF Return
<1>2. /\ req' \in [Clients -> Request] /\ Moved(c, Idle) /\ req'[c] = Idle
      /\ \A d \in Clients : d # c => Kin(d)
  BY <1>1, Moves, IdleTyped DEF IInv, Moved
<1>3. TypeOK'
  BY <1>1, <1>2 DEF IInv, TypeOK
<1>4. Knows(c)' /\ Owes(c)' /\ ~Deleting(c)'
  BY <1>2, IdleTyped DEF Knows, Owes, Deleting, DeletionSteps, DownloadSteps
<1>5. Known'
  BY <1>2, <1>4, IdleTyped, OthersKnow
<1>6. NoneRevived /\ \A r \in RequestIds : Kept(r)
  BY DEF NoneRevived, Kept
<1>7. Owed'
  BY <1>2, <1>4, <1>6, StillOwed
<1>8. Sole'
  <2>1. \A d \in Clients : Deleting(d)' => Deleting(d) /\ req'[d].id = req[d].id
    BY <1>2, <1>4 DEF Deleting, Kin
  <2> QED
    BY <2>1, StillSole
<1>9. DeletionSettled' /\ Subjects'
  BY <1>2, <1>6, StillSettled
<1>10. Used'
  <2>1. req[c].pc # "audit download" /\ req'[c].pc # "audit download"
    BY <1>2, IdleTyped DEF Deleting, DeletionSteps
  <2> QED
    BY <1>2, <2>1, StillUsed
<1>11. ErasureScrubs'
  BY DEF IInv, ErasureScrubs
<1> QED
  BY <1>3, <1>5, <1>7, <1>8, <1>9, <1>10, <1>11 DEF IInv

LEMMA RevokeStep ==
    ASSUME IInv, NEW c \in Clients, revoke_all_for_user(c) PROVE IInv'
<1>1. req[c].pc = "revoke" /\ Owes(c)
  BY DEF revoke_all_for_user, At, IInv, Owed
<1>2. Deleting(c) /\ prequest[req[c].id].state = "COMPLETED"
  BY <1>1 DEF Deleting, DeletionSteps, Owes
<1>3. sessions' \subseteq sessions /\ refused' = refused /\ refused' \subseteq RequestIds
  BY DEF revoke_all_for_user, history, IInv, TypeOK
<1> QED
  BY <1>2, <1>3, DoneStep DEF revoke_all_for_user, history, Answer

-----------------------------------------------------------------------------
\* Statements on the rights requests

LEMMA AbsentRequest ==
    ASSUME TypeOK, NEW r \in RequestIds, prequest[r].state = "absent"
    PROVE  prequest[r] = NoRequest /\ prequest[r].kind = "none"
BY DEF TypeOK, RequestRow, PrivacyRequestState, NoRequest

LEMMA CreateStep ==
    ASSUME IInv, NEW c \in Clients, NEW kind, NEW next, Create(c, kind, next),
           \/ req[c].pc = "create deletion" /\ kind = "deletion" /\ next = "audit deletion"
           \/ req[c].pc = "create" /\ kind \in MANUAL_REQUEST_KINDS /\ next = "audit request",
           UNCHANGED <<accounts, pexport, actors, clock, job, begun, faults, given, lost, named,
                       byHand, refused, cut>>
    PROVE  IInv'
<1> DEFINE u == req[c].user
<1>1. /\ u \in Users /\ Knows(c) /\ TypeOK /\ ~Deleting(c)
      /\ req[c].pc \in {"create deletion", "create"}
  BY DEF IInv, Known, Knows, Deleting, DeletionSteps
<1>2. CASE account[u].state = "gone"
  <2>1. Return(c, "Internal") /\ UNCHANGED <<tables, clock, job, begun, faults, history>>
    BY <1>2 DEF Create, tables, history
  <2> QED
    BY <1>1, <2>1, LocalReturn DEF Answer, PrivacyError
<1>3. CASE account[u].state # "gone"
  <2>1. PICK r \in RequestIds :
           /\ prequest[r].state = "absent"
           /\ prequest' = [prequest EXCEPT ![r] = OpenRequest(u, kind)]
           /\ late' = IF req[c].crossed THEN late \cup {r} ELSE late
           /\ subject' = [subject EXCEPT ![r] = u]
           /\ Start(c, [req[c] EXCEPT !.pc = next, !.id = r])
    BY <1>3 DEF Create
  <2> DEFINE rec == [req[c] EXCEPT !.pc = next, !.id = r]
  <2> DEFINE row == OpenRequest(u, kind)
  <2>2. rec \in Request /\ rec.pc = next /\ rec.id = r /\ rec.user = u
        /\ rec.crossed = req[c].crossed /\ rec.export = req[c].export
    <3>1. req[c] \in Request
      BY <1>1 DEF TypeOK
    <3> QED
      BY <3>1 DEF Request, DeletionSteps, QueueSteps
  <2>3. row \in RequestRow /\ row.kind = kind /\ row.state = "OPEN" /\ row.user = u
        /\ row.fulfilled_by = None
    BY <1>1 DEF OpenRequest, RequestRow, PrivacyRequestKind, PrivacyRequestState,
                MANUAL_REQUEST_KINDS
  <2>4. req' = [req EXCEPT ![c] = rec] /\ answer' \in Answer
    BY <2>1 DEF Start, Answer
  <2> HIDE DEF rec, row
  <2>5. /\ req' \in [Clients -> Request] /\ Moved(c, rec) /\ req'[c] = rec
        /\ \A d \in Clients : d # c => Kin(d)
    BY <1>1, <2>2, <2>4, Moves DEF Moved
  <2>6. \A q \in RequestIds : /\ prequest'[q] = IF q = r THEN row ELSE prequest[q]
                              /\ subject'[q] = IF q = r THEN u ELSE subject[q]
    BY <1>1, <2>1 DEF TypeOK, row
  <2>7. prequest[r].kind = "none"
    BY <1>1, <2>1, AbsentRequest
  <2>8. TypeOK'
    <3>1. /\ prequest' \in [RequestIds -> RequestRow \cup {NoRequest}]
          /\ subject' \in [RequestIds -> Users \cup {None}]
          /\ late' \subseteq ExportIds \cup RequestIds
      BY <1>1, <2>1, <2>3 DEF TypeOK, row
    <3> QED
      BY <1>1, <2>4, <2>5, <3>1 DEF TypeOK, accounts
  <2>9. Knows(c)' /\ Owes(c)'
    BY <1>1, <2>2, <2>3, <2>5, <2>6 DEF Knows, Owes, Deleting, DeletionSteps, DownloadSteps, accounts
  <2>10. Known'
    BY <2>2, <2>5, <2>9, OthersKnow DEF accounts
  <2>11. Owed'
    <3>1. NoneRevived /\ \A q \in RequestIds : Kept(q)
      BY <2>6, <2>7 DEF NoneRevived, Kept, accounts
    <3> QED
      BY <2>5, <2>9, <3>1, StillOwed
  <2>12. Sole'
    <3>1. \A d \in Clients : d # c /\ Deleting(d)' =>
              Deleting(d) /\ req'[d].id = req[d].id /\ req[d].id # r
      <4> SUFFICES ASSUME NEW d \in Clients, d # c, Deleting(d)'
                   PROVE  Deleting(d) /\ req'[d].id = req[d].id /\ req[d].id # r
        OBVIOUS
      <4>1. Deleting(d) /\ Owes(d) /\ req'[d].id = req[d].id
        BY <2>5 DEF Kin, Deleting, IInv, Owed
      <4> QED
        BY <2>7, <4>1 DEF Owes
    <3> QED
      BY <2>2, <2>5, <3>1 DEF IInv, Sole
  <2>13. DeletionSettled' /\ Subjects'
    <3> SUFFICES ASSUME NEW q \in RequestIds, prequest'[q].kind = "deletion"
                 PROVE  /\ prequest'[q].state = "OPEN" => InHand(q)' \/ q \in cut' \cup refused'
                        /\ prequest'[q].state = "COMPLETED" =>
                              q \in byHand' \/ account'[subject'[q]].state # "ACTIVE"
                        /\ subject'[q] \in Users
      BY DEF DeletionSettled, Subjects
    <3>1. CASE q = r
      <4>1. InHand(q)'
        BY <2>2, <2>3, <2>5, <2>6, <3>1 DEF InHand, DeletionSteps, MANUAL_REQUEST_KINDS
      <4> QED
        BY <1>1, <2>3, <2>6, <3>1, <4>1
    <3>2. CASE q # r
      <4>1. InHand(q) => InHand(q)'
        <5> SUFFICES ASSUME NEW d \in Clients, req[d].pc \in DeletionSteps, req[d].id = q
                     PROVE  InHand(q)'
          BY DEF InHand
        <5>1. d # c
          BY <1>1, NoneAssumption DEF Knows, DeletionSteps
        <5> QED
          BY <2>5, <5>1 DEF InHand, Kin
      <4> QED
        BY <2>6, <3>2, <4>1 DEF IInv, DeletionSettled, Subjects, accounts
    <3> QED
      BY <3>1, <3>2
  <2>14. Used'
    <3>1. req[c].pc # "audit download" /\ req'[c].pc # "audit download"
      BY <1>1, <2>2, <2>5
    <3> QED
      BY <2>5, <3>1, StillUsed
  <2>15. ErasureScrubs'
    <3>1. account[u].state # "ACTIVE" => r \in late'
      BY <1>1, <2>1 DEF Knows
    <3>2. late \subseteq late'
      BY <2>1
    <3> QED
      BY <1>1, <2>3, <2>6, <3>1, <3>2, NoneAssumption DEF IInv, ErasureScrubs, accounts
  <2> QED
    BY <2>8, <2>10, <2>11, <2>12, <2>13, <2>14, <2>15 DEF IInv
<1> QED
  BY <1>2, <1>3

LEMMA CreateDeletionStep ==
    ASSUME IInv, NEW c \in Clients, create_deletion(c) PROVE IInv'
BY CreateStep DEF create_deletion, At

LEMMA CreateRequestStep ==
    ASSUME IInv, NEW c \in Clients, create(c) PROVE IInv'
<1>1. req[c].kind \in MANUAL_REQUEST_KINDS /\ req[c].pc = "create"
  BY DEF create, At, IInv, Known, Knows
<1> QED
  BY <1>1, CreateStep DEF create

\* The row of a request that is completed.
LEMMA FulfilledRow ==
    ASSUME TypeOK, NEW r \in RequestIds, NEW by \in Users \cup {None}, Fulfillable(r),
           Fulfilled(r, by)
    PROVE  /\ prequest' \in [RequestIds -> RequestRow \cup {NoRequest}]
           /\ prequest'[r].state = "COMPLETED" /\ prequest'[r].kind = prequest[r].kind
           /\ prequest'[r].user = prequest[r].user /\ prequest'[r].fulfilled_by = by
           /\ \A q \in RequestIds : q # r => prequest'[q] = prequest[q]
<1>1. prequest[r] \in RequestRow
  BY DEF TypeOK, Fulfillable, NoRequest
<1> DEFINE row == [prequest[r] EXCEPT !.state = "COMPLETED", !.fulfilled_by = by]
<1>2. row \in RequestRow /\ row.state = "COMPLETED" /\ row.kind = prequest[r].kind
      /\ row.user = prequest[r].user /\ row.fulfilled_by = by
  BY <1>1 DEF RequestRow, PrivacyRequestState
<1>3. prequest' = [prequest EXCEPT ![r] = row]
  BY DEF Fulfilled, TypeOK
<1> HIDE DEF row
<1> QED
  BY <1>2, <1>3 DEF TypeOK

LEMMA FulfillStep ==
    ASSUME IInv, NEW c \in Clients, fulfill(c) PROVE IInv'
<1> DEFINE r == req[c].id
<1>1. req[c].pc = "fulfill" /\ Deleting(c) /\ Owes(c) /\ Knows(c) /\ TypeOK
  BY DEF fulfill, At, IInv, Known, Owed, Deleting, DeletionSteps
<1>2. r \in RequestIds /\ req[c].user \in Users
  BY <1>1 DEF Owes, Knows
<1>3. CASE Fulfillable(r) /\ Fulfilled(r, None) /\ Goto(c, "audit anonymized")
  <2>1. UNCHANGED <<accounts, pexport, actors, clock, job, begun, faults, history>>
    BY DEF fulfill
  <2>2. PICK rec \in Request : Going(c, "audit anonymized", rec)
    <3>1. "audit anonymized" \in Targets
      BY DEF Targets
    <3> QED
      BY <1>1, <1>3, <3>1, GoesTo
  <2>3. /\ req' \in [Clients -> Request] /\ Moved(c, rec) /\ req'[c] = rec
        /\ \A d \in Clients : d # c => Kin(d)
    BY <1>1, <2>2, Moves DEF Going, Moved
  <2>4. /\ prequest' \in [RequestIds -> RequestRow \cup {NoRequest}]
        /\ prequest'[r].state = "COMPLETED" /\ prequest'[r].kind = prequest[r].kind
        /\ prequest'[r].user = prequest[r].user /\ prequest'[r].fulfilled_by = None
        /\ \A q \in RequestIds : q # r => prequest'[q] = prequest[q]
    BY <1>1, <1>2, <1>3, FulfilledRow
  <2> HIDE DEF r
  <2>5. TypeOK'
    BY <1>1, <2>1, <2>2, <2>3, <2>4 DEF Going, TypeOK, accounts, history
  <2>6. Knows(c)' /\ Owes(c)'
    BY <1>1, <1>2, <2>1, <2>2, <2>3, <2>4
    DEF r, Going, Knows, Owes, Deleting, DeletionSteps, DownloadSteps, accounts, history
  <2>7. Known'
    BY <2>1, <2>3, <2>6, OthersKnow DEF accounts
  <2>8. Owed'
    <3> SUFFICES ASSUME NEW d \in Clients, d # c, Deleting(d)' PROVE Owes(d)'
      BY <2>6 DEF Owed, Owes
    <3>1. Deleting(d) /\ Owes(d) /\ Kin(d)
      BY <2>3 DEF Kin, Deleting, IInv, Owed
    <3>2. req[d].id # r
      BY <1>1, <3>1 DEF IInv, Sole, r
    <3>3. prequest'[req[d].id] = prequest[req[d].id]
      BY <2>4, <3>1, <3>2 DEF Owes
    <3> QED
      BY <2>1, <3>1, <3>3 DEF Owes, Kin, accounts, history
  <2>9. Sole'
    <3>1. \A d \in Clients : Deleting(d)' => Deleting(d) /\ req'[d].id = req[d].id
      BY <1>1, <2>2, <2>3 DEF Deleting, Kin, Going
    <3> QED
      BY <3>1, StillSole
  <2>10. DeletionSettled' /\ Subjects'
    <3> SUFFICES ASSUME NEW q \in RequestIds, prequest'[q].kind = "deletion"
                 PROVE  /\ prequest'[q].state = "OPEN" => InHand(q)' \/ q \in cut' \cup refused'
                        /\ prequest'[q].state = "COMPLETED" =>
                              q \in byHand' \/ account'[subject'[q]].state # "ACTIVE"
                        /\ subject'[q] \in Users
      BY DEF DeletionSettled, Subjects
    <3>1. CASE q = r
      BY <1>1, <1>2, <2>1, <2>4, <3>1 DEF Owes, r, accounts, history
    <3>2. CASE q # r
      <4>1. InHand(q) => InHand(q)'
        BY <2>3, <3>2 DEF InHand, Kin, r
      <4> QED
        BY <2>1, <2>4, <3>2, <4>1 DEF IInv, DeletionSettled, Subjects, accounts, history
    <3> QED
      BY <3>1, <3>2
  <2>11. Used'
    <3>1. req[c].pc # "audit download" /\ req'[c].pc # "audit download"
      BY <1>1, <2>2, <2>3 DEF Going
    <3> QED
      BY <2>1, <2>3, <3>1, StillUsed DEF history
  <2>12. ErasureScrubs'
    <3>1. \A q \in RequestIds : /\ prequest'[q].user \in {prequest[q].user, None}
                                /\ prequest'[q].fulfilled_by \in {prequest[q].fulfilled_by, None}
      BY <2>4
    <3> QED
      BY <2>1, <3>1, StillScrubbed DEF history
  <2> QED
    BY <2>5, <2>7, <2>8, <2>9, <2>10, <2>11, <2>12 DEF IInv
<1>4. CASE ~Fulfillable(r) /\ Return(c, "NotFound") /\ UNCHANGED prequest
  <2>1. UNCHANGED <<tables, clock, job, begun, faults, history>>
    BY <1>4 DEF fulfill, tables
  <2>2. prequest[r].state = "COMPLETED" \/ prequest[r].kind # "deletion"
    BY <1>2, <1>4 DEF Fulfillable, IInv, TypeOK, RequestRow, NoRequest, PrivacyRequestState
  <2>3. refused' \subseteq RequestIds
    BY <2>1 DEF history, IInv, TypeOK
  <2> QED
    BY <1>1, <1>2, <1>4, <2>1, <2>2, <2>3, DoneStep DEF Owes, Answer, PrivacyError, tables, accounts, history
<1> QED
  BY <1>3, <1>4 DEF fulfill

LEMMA CloseStep ==
    ASSUME IInv, NEW c \in Clients, close(c) PROVE IInv'
<1> DEFINE r == req[c].id
<1> DEFINE u == req[c].user
<1>1. /\ req[c].pc = "close" /\ Knows(c) /\ TypeOK /\ ~Deleting(c)
      /\ r \in RequestIds /\ u \in Users
  BY DEF close, At, IInv, Known, Knows, Deleting, DeletionSteps
<1>2. CASE UNCHANGED <<prequest, byHand, late>> /\ \E a \in PrivacyError : Return(c, a)
  <2>1. UNCHANGED <<tables, clock, job, begun, faults, history>>
    BY <1>2 DEF close, tables, history
  <2> QED
    BY <1>1, <1>2, <2>1, LocalReturn DEF Answer
<1>3. CASE /\ Fulfillable(r) /\ Fulfilled(r, u)
           /\ byHand' = IF prequest[r].kind = "deletion" THEN byHand \cup {r} ELSE byHand
           /\ late' = IF req[c].crossed THEN late \cup {r} ELSE late
           /\ Goto(c, "audit fulfilled")
  <2>1. UNCHANGED <<accounts, pexport, actors, clock, job, begun, faults, given, lost, named,
                    refused, cut, subject>>
    BY DEF close
  <2>2. PICK rec \in Request : Going(c, "audit fulfilled", rec)
    <3>1. "audit fulfilled" \in Targets
      BY DEF Targets
    <3> QED
      BY <1>1, <1>3, <3>1, GoesTo
  <2>3. /\ req' \in [Clients -> Request] /\ Moved(c, rec) /\ req'[c] = rec
        /\ \A d \in Clients : d # c => Kin(d)
    BY <1>1, <2>2, Moves DEF Going, Moved
  <2>4. /\ prequest' \in [RequestIds -> RequestRow \cup {NoRequest}]
        /\ prequest'[r].state = "COMPLETED" /\ prequest'[r].kind = prequest[r].kind
        /\ prequest'[r].user = prequest[r].user /\ prequest'[r].fulfilled_by = u
        /\ \A q \in RequestIds : q # r => prequest'[q] = prequest[q]
    BY <1>1, <1>3, FulfilledRow
  <2>5. /\ late \subseteq late' /\ (account[u].state # "ACTIVE" => r \in late')
        /\ late' \subseteq ExportIds \cup RequestIds
        /\ byHand \subseteq byHand' /\ byHand' \subseteq RequestIds
        /\ prequest[r].kind = "deletion" => r \in byHand'
    BY <1>1, <1>3 DEF Knows, TypeOK
  <2> HIDE DEF r, u
  <2>6. TypeOK'
    BY <1>1, <2>1, <2>2, <2>3, <2>4, <2>5 DEF Going, TypeOK, accounts
  <2>7. Knows(c)' /\ Owes(c)' /\ ~Deleting(c)'
    BY <1>1, <2>1, <2>2, <2>3
    DEF r, u, Going, Knows, Owes, Deleting, DeletionSteps, DownloadSteps, accounts
  <2>8. Known'
    BY <2>1, <2>3, <2>7, OthersKnow DEF accounts
  <2>9. NoneRevived /\ \A q \in RequestIds : Kept(q)
    BY <2>1, <2>4, <2>5 DEF NoneRevived, Kept, accounts
  <2>10. Owed'
    BY <2>3, <2>5, <2>7, <2>9, StillOwed
  <2>11. Sole'
    <3>1. \A d \in Clients : Deleting(d)' => Deleting(d) /\ req'[d].id = req[d].id
      BY <2>3, <2>7 DEF Deleting, Kin
    <3> QED
      BY <3>1, StillSole
  <2>12. DeletionSettled' /\ Subjects'
    <3>1. \A q \in RequestIds : prequest'[q].kind = prequest[q].kind
      BY <2>4
    <3> QED
      BY <1>1, <2>1, <2>3, <2>5, <2>9, <3>1, StillSettled
  <2>13. Used'
    <3>1. req[c].pc # "audit download" /\ req'[c].pc # "audit download"
      BY <1>1, <2>2, <2>3 DEF Going
    <3> QED
      BY <2>1, <2>3, <3>1, StillUsed
  <2>14. ErasureScrubs'
    BY <1>1, <2>1, <2>4, <2>5 DEF IInv, ErasureScrubs, accounts
  <2> QED
    BY <2>6, <2>8, <2>10, <2>11, <2>12, <2>13, <2>14 DEF IInv
<1> QED
  BY <1>2, <1>3 DEF close, PrivacyError

-----------------------------------------------------------------------------
\* Erasure

\* The transaction leaves nothing that names the account, and no request in another
\* state than before.
LEMMA ErasedTables ==
    ASSUME IInv, NEW u \in Users, Erase(u), UNCHANGED history
    PROVE  /\ account' \in [Users -> AccountRow]
           /\ identity' \subseteq Users /\ admins' \subseteq Users /\ sessions' \subseteq Users
           /\ pexport' \in [ExportIds -> ExportRow]
           /\ prequest' \in [RequestIds -> RequestRow \cup {NoRequest}]
           /\ actors' \subseteq Users
           /\ account'[u].state # "ACTIVE"
           /\ \A v \in Users : v # u => account'[v] = account[v]
           /\ \A r \in RequestIds : /\ prequest'[r].state = prequest[r].state
                                    /\ prequest'[r].kind = prequest[r].kind
           /\ \A e \in ExportIds : pexport'[e].state \in {pexport[e].state, "gone"}
           /\ ErasureScrubs'
<1>1. TypeOK /\ clock \in Nat
  BY ClockTyped DEF IInv
<1>2. account' \in [Users -> AccountRow] /\ account'[u].state # "ACTIVE"
      /\ \A v \in Users : v # u => account'[v] = account[v]
  <2> DEFINE row == IF account[u].state = "gone" THEN account[u]
                    ELSE [state |-> "DELETED", deleted_at |-> clock]
  <2>1. row \in AccountRow /\ row.state # "ACTIVE"
    BY <1>1 DEF TypeOK, AccountRow
  <2>2. account' = [account EXCEPT ![u] = row]
    BY DEF Erase
  <2> HIDE DEF row
  <2> QED
    BY <1>1, <2>1, <2>2 DEF TypeOK
<1>3. /\ identity' \subseteq Users /\ admins' \subseteq Users /\ sessions' \subseteq Users
      /\ actors' \subseteq Users
  BY <1>1 DEF Erase, TypeOK
<1>4. /\ pexport' \in [ExportIds -> ExportRow]
      /\ \A e \in ExportIds : /\ pexport'[e].state \in {pexport[e].state, "gone"}
                              /\ pexport'[e].user \in {pexport[e].user, None} \ {u}
  BY <1>1, RowsTyped, NoneAssumption DEF Erase, TypeOK
<1>5. \A r \in RequestIds :
         /\ Scrub(prequest[r], u) \in RequestRow \cup {NoRequest}
         /\ Scrub(prequest[r], u).state = prequest[r].state
         /\ Scrub(prequest[r], u).kind = prequest[r].kind
         /\ Scrub(prequest[r], u).user \in {prequest[r].user, None} \ {u}
         /\ Scrub(prequest[r], u).fulfilled_by \in {prequest[r].fulfilled_by, None} \ {u}
  <2> SUFFICES ASSUME NEW r \in RequestIds
               PROVE  /\ Scrub(prequest[r], u) \in RequestRow \cup {NoRequest}
                      /\ Scrub(prequest[r], u).state = prequest[r].state
                      /\ Scrub(prequest[r], u).kind = prequest[r].kind
                      /\ Scrub(prequest[r], u).user \in {prequest[r].user, None} \ {u}
                      /\ Scrub(prequest[r], u).fulfilled_by
                            \in {prequest[r].fulfilled_by, None} \ {u}
    OBVIOUS
  <2>1. CASE prequest[r] = NoRequest
    BY <2>1, NoneAssumption DEF Scrub, NoRequest
  <2>2. CASE prequest[r] \in RequestRow
    BY <2>2, NoneAssumption DEF Scrub, RequestRow
  <2> QED
    BY <1>1, <2>1, <2>2 DEF TypeOK
<1>6. \A r \in RequestIds : prequest'[r] = Scrub(prequest[r], u)
  BY DEF Erase
<1>7. prequest' \in [RequestIds -> RequestRow \cup {NoRequest}]
  BY <1>5 DEF Erase
<1>8. ErasureScrubs'
  <2> SUFFICES ASSUME NEW v \in Users, account'[v].state # "ACTIVE"
               PROVE  /\ v \notin sessions' \cup identity' \cup admins'
                      /\ \A e \in ExportIds : pexport'[e].user = v => e \in late'
                      /\ \A r \in RequestIds :
                           v \in {prequest'[r].user, prequest'[r].fulfilled_by} => r \in late'
                      /\ v \in actors' => v \in named'
    BY DEF ErasureScrubs
  <2>1. CASE v = u
    <3>1. v \notin sessions' \cup identity' \cup admins' \cup actors'
      BY <2>1 DEF Erase
    <3> QED
      BY <2>1, <3>1, <1>4, <1>5, <1>6
  <2>2. CASE v # u
    <3>1. /\ v \notin sessions \cup identity \cup admins
          /\ \A e \in ExportIds : pexport[e].user = v => e \in late
          /\ \A r \in RequestIds : v \in {prequest[r].user, prequest[r].fulfilled_by} => r \in late
          /\ v \in actors => v \in named
      BY <1>2, <2>2 DEF IInv, ErasureScrubs
    <3>2. /\ sessions' \cup identity' \cup admins' \subseteq sessions \cup identity \cup admins
          /\ actors' \subseteq actors /\ late' = late /\ named' = named
      BY DEF Erase, history
    <3> QED
      BY <1>4, <1>5, <1>6, <3>1, <3>2, NoneAssumption
  <2> QED
    BY <2>1, <2>2
<1> QED
  BY <1>2, <1>3, <1>4, <1>5, <1>6, <1>7, <1>8

\* The mark on the requests of the account.
LEMMA CrossingMarks ==
    ASSUME NEW u \in Users, NEW r \in [Clients -> Request], req' = Crossing(r, u)
    PROVE  /\ req' \in [Clients -> Request]
           /\ \A d \in Clients :
                /\ req'[d].pc = r[d].pc /\ req'[d].user = r[d].user
                /\ req'[d].export = r[d].export /\ req'[d].id = r[d].id
                /\ req'[d].kind = r[d].kind
                /\ r[d].crossed = TRUE \/ r[d].user = u => req'[d].crossed = TRUE
<1> DEFINE mark(d) == r[d].crossed \/ (r[d].user = u)
<1> DEFINE rec(d) == [r[d] EXCEPT !.crossed = mark(d)]
<1>1. \A d \in Clients : mark(d) \in BOOLEAN
  OBVIOUS
<1>2. \A d \in Clients : r[d].crossed = TRUE \/ r[d].user = u => mark(d) = TRUE
  OBVIOUS
<1> HIDE DEF mark
<1>3. \A d \in Clients :
         /\ rec(d) \in Request
         /\ rec(d).pc = r[d].pc /\ rec(d).user = r[d].user
         /\ rec(d).export = r[d].export /\ rec(d).id = r[d].id /\ rec(d).kind = r[d].kind
         /\ rec(d).crossed = mark(d)
  BY <1>1 DEF Request
<1>4. req' = [d \in Clients |-> rec(d)]
  BY DEF Crossing, mark
<1> HIDE DEF rec
<1> QED
  BY <1>2, <1>3, <1>4

LEMMA EraseStep ==
    ASSUME IInv, NEW u \in Users, Erase(u), NEW r \in [Clients -> Request],
           req' = Crossing(r, u), answer' \in Answer,
           \A d \in Clients :
               \/ r[d] = req[d]
               \/ /\ r[d].pc = "fulfill" /\ req[d].pc = "anonymize" /\ r[d].user = u
                  /\ r[d].user = req[d].user /\ r[d].id = req[d].id,
           UNCHANGED <<clock, job, begun, faults, history>>
    PROVE  IInv'
<1>1. UNCHANGED <<given, lost, late, named, byHand, refused, cut, subject>>
  BY DEF history
<1>2. /\ account' \in [Users -> AccountRow]
      /\ identity' \subseteq Users /\ admins' \subseteq Users /\ sessions' \subseteq Users
      /\ pexport' \in [ExportIds -> ExportRow]
      /\ prequest' \in [RequestIds -> RequestRow \cup {NoRequest}]
      /\ actors' \subseteq Users
      /\ account'[u].state # "ACTIVE"
      /\ \A v \in Users : v # u => account'[v] = account[v]
      /\ \A q \in RequestIds : /\ prequest'[q].state = prequest[q].state
                               /\ prequest'[q].kind = prequest[q].kind
      /\ \A e \in ExportIds : pexport'[e].state \in {pexport[e].state, "gone"}
      /\ ErasureScrubs'
  BY ErasedTables
<1>3. /\ req' \in [Clients -> Request]
      /\ \A d \in Clients :
           /\ req'[d].pc = r[d].pc /\ req'[d].user = r[d].user
           /\ req'[d].export = r[d].export /\ req'[d].id = r[d].id
           /\ req'[d].kind = r[d].kind
           /\ r[d].crossed = TRUE \/ r[d].user = u => req'[d].crossed = TRUE
  BY CrossingMarks
<1>4. TypeOK'
  BY <1>1, <1>2, <1>3 DEF IInv, TypeOK
<1>5. \A d \in Clients : \/ r[d] = req[d] /\ Kin(d)
                         \/ /\ req'[d].pc = "fulfill" /\ req[d].pc = "anonymize"
                            /\ req'[d].user = u /\ req[d].user = u /\ req'[d].id = req[d].id
                            /\ req'[d].crossed = TRUE
  BY <1>3 DEF Kin
<1>6. Known'
  <2> SUFFICES ASSUME NEW d \in Clients PROVE Knows(d)'
    BY DEF Known
  <2>1. Knows(d)
    BY DEF IInv, Known
  <2>2. CASE r[d] = req[d] /\ Kin(d)
    <3>1. req'[d].pc # "idle" /\ account'[req'[d].user].state # "ACTIVE"
          => req'[d].crossed = TRUE
      <4> SUFFICES ASSUME req'[d].pc # "idle", account'[req'[d].user].state # "ACTIVE"
                   PROVE  req'[d].crossed = TRUE
        OBVIOUS
      <4>1. req[d].pc # "idle" /\ req[d].user \in Users /\ req'[d].user = req[d].user
        BY <2>1, <2>2 DEF Knows, Kin
      <4>2. req[d].user = u \/ req[d].crossed = TRUE
        <5>1. CASE req[d].user # u
          <6>1. account[req[d].user].state # "ACTIVE"
            BY <1>2, <4>1, <5>1
          <6> QED
            BY <2>1, <4>1, <6>1 DEF Knows
        <5> QED
          BY <5>1
      <4> QED
        BY <1>3, <2>2, <4>2
    <3> QED
      BY <2>1, <2>2, <3>1 DEF Knows, Kin
  <2>3. CASE req'[d].pc = "fulfill" /\ req'[d].user = u /\ req'[d].crossed = TRUE
    BY <2>3 DEF Knows, DownloadSteps
  <2> QED
    BY <1>5, <2>2, <2>3
<1>7. NoneRevived /\ \A q \in RequestIds : Kept(q)
  BY <1>1, <1>2 DEF NoneRevived, Kept
<1>8. Owed'
  <2>1. \A d \in Clients : Kin(d) \/ Owes(d)'
    <3> SUFFICES ASSUME NEW d \in Clients, ~Kin(d) PROVE Owes(d)'
      OBVIOUS
    <3>1. req'[d].pc = "fulfill" /\ req[d].pc = "anonymize" /\ req'[d].user = u
          /\ req[d].user = u /\ req'[d].id = req[d].id
      BY <1>5
    <3>2. Owes(d) /\ Deleting(d)
      BY <3>1 DEF IInv, Owed, Deleting, DeletionSteps
    <3> QED
      BY <1>1, <1>2, <3>1, <3>2 DEF Owes
  <2> QED
    BY <1>1, <1>7, <2>1, StillOwed
<1>9. Sole'
  <2>1. \A d \in Clients : Deleting(d)' => Deleting(d) /\ req'[d].id = req[d].id
    BY <1>5 DEF Deleting, Kin, DeletionSteps
  <2> QED
    BY <2>1, StillSole
<1>10. DeletionSettled' /\ Subjects'
  <2>1. \A q \in RequestIds : InHand(q) => InHand(q)'
    <3>1. \A d \in Clients : req[d].pc \in DeletionSteps =>
              req'[d].pc \in DeletionSteps /\ req'[d].id = req[d].id
      BY <1>5 DEF Kin, DeletionSteps
    <3> QED
      BY <3>1 DEF InHand
  <2>2. \A q \in RequestIds : prequest'[q].kind = "deletion" => subject[q] \in Users
    BY <1>2 DEF IInv, Subjects
  <2> QED
    BY <1>1, <1>2, <1>7, <2>1, <2>2 DEF IInv, DeletionSettled, Subjects, NoneRevived
<1>11. Used'
  <2>1. \A d \in Clients :
            Kin(d) \/ (req[d].pc # "audit download" /\ req'[d].pc # "audit download")
    BY <1>5
  <2> QED
    BY <1>1, <1>2, <2>1, StillUsed
<1> QED
  BY <1>2, <1>4, <1>6, <1>8, <1>9, <1>10, <1>11 DEF IInv

LEMMA AnonymizeStep ==
    ASSUME IInv, NEW c \in Clients, anonymize(c) PROVE IInv'
<1> DEFINE u == req[c].user
<1>1. req[c].pc = "anonymize" /\ Deleting(c) /\ Owes(c) /\ u \in Users /\ TypeOK
  BY DEF anonymize, At, IInv, Known, Knows, Owed, Deleting, DeletionSteps
<1>2. CASE is_last_admin(u)
  <2>1. Return(c, "LastAdmin") /\ refused' = refused \cup {req[c].id} /\ UNCHANGED tables
    BY <1>2 DEF anonymize
  <2>2. /\ refused \subseteq refused' /\ req[c].id \in refused' /\ refused' \subseteq RequestIds
        /\ sessions' \subseteq sessions
    BY <1>1, <2>1 DEF Owes, TypeOK, tables, accounts
  <2> QED
    BY <1>1, <2>1, <2>2, DoneStep DEF anonymize, tables, accounts, Answer, PrivacyError
<1>3. CASE ~is_last_admin(u)
  <2> DEFINE rec == [req[c] EXCEPT !.pc = "fulfill"]
  <2> DEFINE r == [req EXCEPT ![c] = rec]
  <2>1. /\ Erase(u) /\ req' = Crossing([req EXCEPT ![c].pc = "fulfill"], u)
        /\ answer' \in Answer /\ UNCHANGED refused
    BY <1>3 DEF anonymize, Answer
  <2>2. req[c] \in Request
    BY <1>1 DEF TypeOK
  <2>3. rec \in Request /\ rec.pc = "fulfill" /\ rec.user = u /\ rec.id = req[c].id
    BY <2>2 DEF Request, DeletionSteps
  <2>4. req' = Crossing(r, u)
    BY <2>1
  <2> HIDE DEF rec
  <2>5. /\ r \in [Clients -> Request] /\ r[c] = rec
        /\ \A d \in Clients : d # c => r[d] = req[d]
    BY <1>1, <2>3 DEF TypeOK
  <2> HIDE DEF r
  <2>6. UNCHANGED <<clock, job, begun, faults, history>>
    BY <2>1 DEF anonymize, history
  <2>7. \A d \in Clients :
               \/ r[d] = req[d]
               \/ /\ r[d].pc = "fulfill" /\ req[d].pc = "anonymize" /\ r[d].user = u
                  /\ r[d].user = req[d].user /\ r[d].id = req[d].id
    BY <1>1, <2>3, <2>5
  <2> HIDE DEF u
  <2> QED
    BY <1>1, <2>1, <2>4, <2>5, <2>6, <2>7, EraseStep
<1> QED
  BY <1>2, <1>3

LEMMA InactiveStep ==
    ASSUME IInv, NEW u \in Users, anonymize_inactive_accounts(u) PROVE IInv'
<1>1. req \in [Clients -> Request] /\ answer' \in Answer
  BY DEF anonymize_inactive_accounts, IInv, TypeOK, Answer
<1> QED
  BY <1>1, EraseStep DEF anonymize_inactive_accounts

-----------------------------------------------------------------------------
\* The retention job and the clock

LEMMA ElsewhereStep ==
    ASSUME IInv, clock' \in 0 .. MaxTime, job' \in Job, answer' \in Answer,
           UNCHANGED <<tables, req, begun, faults, history>>
    PROVE  IInv'
<1>1. UNCHANGED <<account, identity, admins, sessions, pexport, prequest, actors, req, begun,
                  faults, given, lost, late, named, byHand, refused, cut, subject>>
  BY DEF tables, accounts, history
<1>2. TypeOK'
  BY <1>1 DEF IInv, TypeOK
<1>3. Known' /\ Subjects'
  BY <1>1 DEF IInv, Known, Knows, Subjects
<1>4. NoneRevived /\ (\A r \in RequestIds : Kept(r)) /\ \A d \in Clients : Kin(d)
  BY <1>1 DEF NoneRevived, Kept, Kin
<1>5. Owed' /\ Sole'
  <2>1. \A d \in Clients : Deleting(d)' => Deleting(d) /\ req'[d].id = req[d].id
    BY <1>1 DEF Deleting
  <2> QED
    BY <1>1, <1>4, <2>1, StillOwed, StillSole
<1>6. Used'
  BY <1>1, <1>4, StillUsed
<1>7. ErasureScrubs' /\ DeletionSettled'
  BY <1>1 DEF IInv, ErasureScrubs, DeletionSettled, InHand
<1> QED
  BY <1>2, <1>3, <1>5, <1>6, <1>7 DEF IInv

LEMMA RunStep == ASSUME IInv, run PROVE IInv'
<1>1. job' \in Job /\ answer' \in Answer /\ clock' \in 0 .. MaxTime
  BY ClockTyped DEF run, Job, Answer, IInv, TypeOK
<1> QED
  BY <1>1, ElsewhereStep DEF run

LEMMA NoMoreInactiveStep == ASSUME IInv, NoMoreInactive PROVE IInv'
<1>1. job' \in Job /\ answer' \in Answer /\ clock' \in 0 .. MaxTime
  BY DEF NoMoreInactive, Job, Answer, IInv, TypeOK
<1> QED
  BY <1>1, ElsewhereStep DEF NoMoreInactive

LEMMA TickStep == ASSUME IInv, Tick PROVE IInv'
<1>1. clock' \in 0 .. MaxTime
  BY BoundsAssumption DEF Tick, IInv, TypeOK
<1>2. job' \in Job /\ answer' \in Answer
  BY DEF Tick, Answer, IInv, TypeOK
<1> QED
  BY <1>1, <1>2, ElsewhereStep DEF Tick

LEMMA PurgeExportsStep == ASSUME IInv, purge_expired_exports PROVE IInv'
<1>1. UNCHANGED <<account, identity, admins, sessions, prequest, actors, clock, req, begun,
                  faults, given, lost, late, named, byHand, refused, cut, subject>>
  BY DEF purge_expired_exports, accounts, history
<1>2. /\ pexport' \in [ExportIds -> ExportRow]
      /\ \A e \in ExportIds : pexport'[e] \in {pexport[e], Removed}
  BY RowsTyped DEF purge_expired_exports, IInv, TypeOK
<1>3. job' \in Job /\ answer' \in Answer
  BY DEF purge_expired_exports, IInv, TypeOK, Job, Answer
<1>4. TypeOK'
  BY <1>1, <1>2, <1>3 DEF IInv, TypeOK
<1>5. Known' /\ Owed' /\ Sole' /\ Subjects' /\ DeletionSettled'
  BY <1>1 DEF IInv, Known, Knows, Owed, Owes, Sole, Deleting, Subjects, DeletionSettled, InHand
<1>6. Used'
  <2>1. \A d \in Clients : Kin(d)
    BY <1>1 DEF Kin
  <2>2. \A e \in ExportIds : pexport'[e].state = pexport[e].state \/ pexport'[e].state = "gone"
    BY <1>2, RowsTyped
  <2> QED
    BY <1>1, <2>1, <2>2, StillUsed
<1>7. ErasureScrubs'
  <2>1. \A e \in ExportIds : pexport'[e].user \in {pexport[e].user, None}
    BY <1>2, RowsTyped
  <2> QED
    BY <1>1, <2>1, StillScrubbed DEF accounts
<1> QED
  BY <1>4, <1>5, <1>6, <1>7 DEF IInv

\* The rows of purged shells go; whatever named them no longer does.
LEMMA PurgeAccountsStep == ASSUME IInv, purge_deleted_accounts PROVE IInv'
<1> DEFINE purged == {u \in Users : Due(u)}
<1>1. UNCHANGED <<identity, admins, sessions, clock, req, begun, faults, given, lost, late,
                  named, byHand, refused, cut, subject>>
  BY DEF purge_deleted_accounts, history
<1>2. TypeOK /\ None \notin purged
  BY NoneAssumption DEF IInv
<1>3. /\ account' \in [Users -> AccountRow]
      /\ \A u \in Users : account'[u].state = "ACTIVE" <=> account[u].state = "ACTIVE"
  <2>1. \A u \in purged : account[u].state = "DELETED"
    BY DEF Due
  <2>2. account' = [u \in Users |-> IF u \in purged THEN [account[u] EXCEPT !.state = "gone"]
                                    ELSE account[u]]
    BY DEF purge_deleted_accounts
  <2> HIDE DEF purged
  <2>3. \A u \in Users : /\ account'[u] \in AccountRow
                         /\ account'[u].state = "ACTIVE" <=> account[u].state = "ACTIVE"
    BY <1>2, <2>1, <2>2 DEF TypeOK, AccountRow
  <2> QED
    BY <2>2, <2>3
<1>4. /\ pexport' \in [ExportIds -> ExportRow]
      /\ \A e \in ExportIds : pexport'[e] \in {pexport[e], Removed}
  BY <1>2, RowsTyped DEF purge_deleted_accounts, TypeOK
<1>5. \A r \in RequestIds :
         /\ Unnamed(prequest[r], purged) \in RequestRow \cup {NoRequest}
         /\ Unnamed(prequest[r], purged).state = prequest[r].state
         /\ Unnamed(prequest[r], purged).kind = prequest[r].kind
         /\ Unnamed(prequest[r], purged).user \in {prequest[r].user, None}
         /\ Unnamed(prequest[r], purged).fulfilled_by \in {prequest[r].fulfilled_by, None}
  <2> HIDE DEF purged
  <2> SUFFICES ASSUME NEW r \in RequestIds
               PROVE  /\ Unnamed(prequest[r], purged) \in RequestRow \cup {NoRequest}
                      /\ Unnamed(prequest[r], purged).state = prequest[r].state
                      /\ Unnamed(prequest[r], purged).kind = prequest[r].kind
                      /\ Unnamed(prequest[r], purged).user \in {prequest[r].user, None}
                      /\ Unnamed(prequest[r], purged).fulfilled_by
                            \in {prequest[r].fulfilled_by, None}
    OBVIOUS
  <2>1. CASE prequest[r] = NoRequest
    <3>1. NoRequest.user = None /\ NoRequest.fulfilled_by = None
      BY DEF NoRequest
    <3>2. Unnamed(NoRequest, purged) = [NoRequest EXCEPT !.user = None, !.fulfilled_by = None]
      BY <1>2, <3>1 DEF Unnamed, NoRequest
    <3>3. [NoRequest EXCEPT !.user = None, !.fulfilled_by = None] = NoRequest
      <4> DEFINE S == [state: {"absent"}, kind: {"none"}, user: {None}, fulfilled_by: {None}]
      <4> DEFINE R == [NoRequest EXCEPT !.user = None, !.fulfilled_by = None]
      <4>1. NoRequest \in S /\ R \in S
        BY DEF NoRequest
      <4>2. \A x, y \in S : x = y
        OBVIOUS
      <4> QED
        BY <4>1, <4>2
    <3> QED
      BY <2>1, <3>2, <3>3
  <2>2. CASE prequest[r] \in RequestRow
    BY <2>2 DEF Unnamed, RequestRow
  <2> QED
    BY <1>2, <2>1, <2>2 DEF TypeOK
<1>6. /\ prequest' \in [RequestIds -> RequestRow \cup {NoRequest}]
      /\ \A r \in RequestIds :
         /\ prequest'[r].state = prequest[r].state /\ prequest'[r].kind = prequest[r].kind
         /\ prequest'[r].user \in {prequest[r].user, None}
         /\ prequest'[r].fulfilled_by \in {prequest[r].fulfilled_by, None}
  <2>1. prequest' = [r \in RequestIds |-> Unnamed(prequest[r], purged)]
    BY DEF purge_deleted_accounts
  <2> HIDE DEF purged
  <2> QED
    BY <1>5, <2>1
<1>7. actors' \subseteq actors /\ job' \in Job /\ answer' \in Answer
  BY DEF purge_deleted_accounts, Job, Answer
<1> HIDE DEF purged
<1>8. TypeOK'
  BY <1>1, <1>2, <1>3, <1>4, <1>6, <1>7 DEF TypeOK
<1>9. NoneRevived /\ (\A r \in RequestIds : Kept(r)) /\ \A d \in Clients : Kin(d)
  BY <1>1, <1>3, <1>6 DEF NoneRevived, Kept, Kin
<1>10. Known'
  <2> SUFFICES ASSUME NEW c \in Clients PROVE Knows(c)'
    BY DEF Known
  <2>1. Knows(c)
    BY DEF IInv, Known
  <2> QED
    BY <1>1, <1>3, <2>1 DEF Knows
<1>11. Owed' /\ Sole'
  <2>1. \A d \in Clients : Deleting(d)' => Deleting(d) /\ req'[d].id = req[d].id
    BY <1>1 DEF Deleting
  <2> QED
    BY <1>1, <1>9, <2>1, StillOwed, StillSole
<1>12. DeletionSettled' /\ Subjects'
  BY <1>1, <1>6, <1>9, StillSettled
<1>13. Used'
  <2>1. \A e \in ExportIds : pexport'[e].state = pexport[e].state \/ pexport'[e].state = "gone"
    BY <1>4, RowsTyped
  <2> QED
    BY <1>1, <1>9, <2>1, StillUsed
<1>14. ErasureScrubs'
  <2>1. \A e \in ExportIds : pexport'[e].user \in {pexport[e].user, None}
    BY <1>4, RowsTyped
  <2> QED
    BY <1>1, <1>3, <1>6, <1>7, <2>1, NoneAssumption DEF IInv, ErasureScrubs
<1> QED
  BY <1>8, <1>10, <1>11, <1>12, <1>13, <1>14 DEF IInv

-----------------------------------------------------------------------------
\* Every step

LEMMA ClientStep ==
    ASSUME IInv, NEW c \in Clients,
           \/ assemble_payload(c) \/ create_export(c) \/ audit_export(c)
           \/ read_payload(c) \/ check_row(c) \/ consume_download(c) \/ audit_download(c)
           \/ guard(c) \/ create_deletion(c) \/ audit_deletion(c) \/ anonymize(c)
           \/ fulfill(c) \/ audit_anonymized(c) \/ revoke_all_for_user(c)
           \/ create(c) \/ close(c) \/ audit_request(c) \/ audit_fulfilled(c)
           \/ Fail(c)
    PROVE  IInv'
<1>1. CASE audit_export(c) \/ audit_deletion(c) \/ audit_anonymized(c) \/ audit_request(c)
           \/ audit_fulfilled(c)
  <2>1. CASE audit_export(c)
    BY <2>1, AuditedStep DEF audit_export
  <2>2. CASE audit_deletion(c)
    BY <2>2, AuditedStep DEF audit_deletion
  <2>3. CASE audit_anonymized(c)
    BY <2>3, AuditedStep DEF audit_anonymized
  <2>4. CASE audit_request(c)
    BY <2>4, AuditedStep DEF audit_request
  <2>5. CASE audit_fulfilled(c)
    BY <2>5, AuditedStep DEF audit_fulfilled
  <2> QED
    BY <1>1, <2>1, <2>2, <2>3, <2>4, <2>5
<1>2. CASE assemble_payload(c) \/ create_export(c) \/ read_payload(c) \/ check_row(c)
           \/ consume_download(c) \/ audit_download(c)
  BY <1>2, AssembleStep, CreateExportStep, ReadPayloadStep, CheckRowStep, ConsumeStep,
     AuditDownloadStep
<1>3. CASE guard(c) \/ create_deletion(c) \/ anonymize(c) \/ fulfill(c) \/ revoke_all_for_user(c)
  BY <1>3, GuardStep, CreateDeletionStep, AnonymizeStep, FulfillStep, RevokeStep
<1>4. CASE create(c) \/ close(c) \/ Fail(c)
  BY <1>4, CreateRequestStep, CloseStep, FailStep
<1> QED
  BY <1>1, <1>2, <1>3, <1>4

LEMMA EntryStep ==
    ASSUME IInv, NEW c \in Clients, NEW u \in Users,
           \/ account_export_post(c, u)
           \/ \E e \in ExportIds, cookie, query \in BOOLEAN :
                account_export_download(c, u, e, cookie, query)
           \/ \E email, password \in BOOLEAN : account_delete_post(c, u, email, password)
           \/ \E kind \in FormKinds : account_privacy_request_post(c, u, kind)
           \/ \E r \in RequestIds : admin_privacy_request_fulfill(c, u, r)
    PROVE  IInv'
<1>1. CASE account_export_post(c, u)
  BY <1>1, RequestExportStep DEF account_export_post
<1>2. CASE \E e \in ExportIds, cookie, query \in BOOLEAN :
             account_export_download(c, u, e, cookie, query)
  <2>1. PICK e \in ExportIds, cookie \in BOOLEAN, query \in BOOLEAN :
             account_export_download(c, u, e, cookie, query)
    BY <1>2
  <2> DEFINE token == export_token(cookie, query)
  <2>2. token \in BOOLEAN /\ download_export(c, u, e, token)
    BY <2>1 DEF account_export_download, export_token
  <2> HIDE DEF token
  <2> QED
    BY <2>2, DownloadStep
<1>3. CASE \E email, password \in BOOLEAN : account_delete_post(c, u, email, password)
  BY <1>3, RequestDeletionStep DEF account_delete_post
<1>4. CASE \E kind \in FormKinds : account_privacy_request_post(c, u, kind)
  BY <1>4, SubmitStep DEF account_privacy_request_post
<1>5. CASE \E r \in RequestIds : admin_privacy_request_fulfill(c, u, r)
  BY <1>5, FulfillRequestStep DEF admin_privacy_request_fulfill
<1> QED
  BY <1>1, <1>2, <1>3, <1>4, <1>5

LEMMA StepPreserves == IInv /\ [Next]_vars => IInv'
<1> SUFFICES ASSUME IInv, [Next]_vars PROVE IInv'
  OBVIOUS
<1>1. CASE UNCHANGED vars
  <2>1. clock' \in 0 .. MaxTime /\ job' \in Job /\ answer' \in Answer
    BY <1>1 DEF vars, IInv, TypeOK
  <2> QED
    BY <1>1, <2>1, ElsewhereStep DEF vars
<1>2. CASE run \/ purge_expired_exports \/ NoMoreInactive \/ purge_deleted_accounts \/ Tick
           \/ \E u \in Users : anonymize_inactive_accounts(u)
  BY <1>2, RunStep, PurgeExportsStep, NoMoreInactiveStep, PurgeAccountsStep, TickStep,
     InactiveStep
<1> QED
  BY <1>1, <1>2, EntryStep, ClientStep DEF Next

-----------------------------------------------------------------------------
\* The theorems

\* The inductive invariant holds in every state that privacy.rs and the retention job reach.
THEOREM Invariance == Spec => []IInv
BY InitEstablishes, StepPreserves, PTL DEF Spec

\* Rows, requests and the job keep their types, whatever the handlers interleave.
THEOREM TypeCorrect == Spec => []TypeOK
<1>1. IInv => TypeOK
  BY DEF IInv
<1> QED
  BY Invariance, <1>1, PTL

LEMMA UsedOnce == IInv => SingleUse
<1> SUFFICES ASSUME IInv, NEW e \in ExportIds
             PROVE  LET used == given[e] + Cardinality(Holders(e)) + (IF e \in lost THEN 1 ELSE 0)
                    IN  /\ pexport[e].state = "READY" => used = 0
                        /\ pexport[e].state = "DOWNLOADED" => used = 1
                        /\ used <= 1
  BY DEF SingleUse
<1>1. OneUse(e)
  BY DEF IInv, Used
<1>2. CASE \A c \in Clients : ~Holds(c, e)
  <2>1. Holders(e) = {}
    BY <1>2 DEF Holders, Holds, At
  <2>2. Cardinality(Holders(e)) = 0
    BY <2>1, FS_EmptySet
  <2> QED
    BY <1>1, <1>2, <2>2 DEF OneUse
<1>3. CASE \E c \in Clients : Holds(c, e)
  <2>1. PICK c \in Clients : Holds(c, e)
    BY <1>3
  <2>2. Holders(e) = {c}
    BY <1>1, <2>1 DEF OneUse, Holders, Holds, At
  <2>3. Cardinality(Holders(e)) = 1
    BY <2>2, FS_Singleton
  <2>4. given[e] = 0 /\ e \notin lost /\ pexport[e].state # "READY"
    BY <1>1, <2>1 DEF OneUse
  <2> QED
    BY <2>3, <2>4
<1> QED
  BY <1>2, <1>3

\* The payload of an export leaves the server at most once, however many downloads race
\* with each other, with the purge of expired exports and with the erasure of the account:
\* the guarded UPDATE of consume_download is the only way to it, and a row that says
\* DOWNLOADED accounts for exactly one request.
THEOREM DownloadedOnce == Spec => []SingleUse
BY Invariance, UsedOnce, PTL

\* After the erasure of an account nothing names it but what requests wrote that were
\* under way when it was erased: the transaction of anonymize and the purge of the shells
\* leave no other row behind.
THEOREM ErasureComplete == Spec => []ErasureScrubs
<1>1. IInv => ErasureScrubs
  BY DEF IInv
<1> QED
  BY Invariance, <1>1, PTL

\* A deletion request that request_deletion recorded never stays open unattended, and one
\* that the handler completed did erase the account.
THEOREM DeletionsSettle == Spec => []DeletionSettled
<1>1. IInv => DeletionSettled
  BY DEF IInv
<1> QED
  BY Invariance, <1>1, PTL

-----------------------------------------------------------------------------
\* What the answer to a deletion says

Told(c) ==
    req[c].pc \in DeletionSteps /\ req'[c].pc = "idle" /\ faults' = faults =>
        \/ (answer' = "ok") = (account[req[c].user].state # "ACTIVE")
        \/ req[c].id \in byHand
        \/ account[req[c].user].state = "gone"

\* A step of one request answers no other.
LEMMA OthersTold ==
    ASSUME IInv, NEW c \in Clients, NEW rec, req' = [req EXCEPT ![c] = rec], Told(c),
           NEW d \in Clients
    PROVE  Told(d)
<1>1. d # c => req'[d] = req[d]
  BY DEF IInv, TypeOK
<1> QED
  BY <1>1 DEF Told, DeletionSteps

\* Nor does one that is not about a deletion, or that goes on.
LEMMA GoesOn ==
    ASSUME IInv, NEW c \in Clients, NEW rec, req' = [req EXCEPT ![c] = rec],
           req[c].pc \notin DeletionSteps \/ rec.pc # "idle",
           NEW d \in Clients
    PROVE  Told(d)
<1>1. req'[c] = rec
  BY DEF IInv, TypeOK
<1>2. Told(c)
  BY <1>1 DEF Told
<1> QED
  BY <1>2, OthersTold

\* The event of a deletion is refused only when the account is a row no more.
LEMMA AuditTells ==
    ASSUME IInv, NEW c \in Clients, NEW step, NEW next, audit(c, step, next),
           step \notin DeletionSteps \/ next \in {"anonymize", "revoke"},
           NEW d \in Clients
    PROVE  Told(d)
<1>1. CASE step \notin DeletionSteps
  BY <1>1, GoesOn DEF audit, At, Return, Goto, Start
<1>2. CASE account[req[c].user].state = "gone"
  <2>1. Told(c)
    BY <1>2 DEF Told
  <2> QED
    BY <1>2, <2>1, OthersTold DEF audit, Return
<1>3. CASE account[req[c].user].state # "gone" /\ next \in {"anonymize", "revoke"}
  <2> DEFINE rec == [req[c] EXCEPT !.pc = next]
  <2>1. req' = [req EXCEPT ![c] = rec]
    BY <1>3 DEF audit, Goto, Start
  <2>2. rec.pc # "idle"
    BY <1>3 DEF IInv, TypeOK, Request
  <2> HIDE DEF rec
  <2> QED
    BY <2>1, <2>2, GoesOn
<1> QED
  BY <1>1, <1>2, <1>3

LEMMA DeletionTells ==
    ASSUME IInv, NEW c \in Clients,
           guard(c) \/ create_deletion(c) \/ anonymize(c) \/ fulfill(c) \/ revoke_all_for_user(c),
           NEW d \in Clients
    PROVE  Told(d)
<1> DEFINE u == req[c].user
<1>1. Knows(c) /\ Owes(c) /\ TypeOK /\ req[c] \in Request
  BY DEF IInv, Known, Owed, TypeOK
<1>2. \A a, e : a = "ok" /\ e # "ACTIVE" => (a = "ok") = (e # "ACTIVE")
  OBVIOUS
<1>3. \A a, e : a # "ok" /\ e = "ACTIVE" => (a = "ok") = (e # "ACTIVE")
  OBVIOUS
<1>4. CASE guard(c)
  <2>1. u \in Users
    BY <1>1, <1>4 DEF guard, At, Knows
  <2>2. CASE is_last_admin(u) /\ Return(c, "LastAdmin")
    <3>1. account[u].state = "ACTIVE" /\ answer' # "ok"
      BY <2>1, <2>2, SessionsAreActive DEF is_last_admin, Return
    <3>2. Told(c)
      BY <1>3, <3>1 DEF Told
    <3> QED
      BY <2>2, <3>2, OthersTold DEF Return
  <2>3. CASE Goto(c, "create deletion")
    BY <1>1, <2>3, GoesOn DEF Goto, Start, Request
  <2> QED
    BY <1>4, <2>2, <2>3 DEF guard
<1>5. CASE create_deletion(c)
  <2>1. CASE account[u].state = "gone"
    <3>1. Told(c)
      BY <2>1 DEF Told
    <3> QED
      BY <1>5, <2>1, <3>1, OthersTold DEF create_deletion, Create, Return
  <2>2. CASE account[u].state # "gone"
    <3>1. PICK r \in RequestIds : Start(c, [req[c] EXCEPT !.pc = "audit deletion", !.id = r])
      BY <1>5, <2>2 DEF create_deletion, Create
    <3> DEFINE rec == [req[c] EXCEPT !.pc = "audit deletion", !.id = r]
    <3>2. rec.pc # "idle" /\ req' = [req EXCEPT ![c] = rec]
      BY <1>1, <3>1 DEF Request, Start
    <3> HIDE DEF rec
    <3> QED
      BY <3>2, GoesOn
  <2> QED
    BY <2>1, <2>2
<1>6. CASE anonymize(c)
  <2>1. u \in Users /\ req[c].pc = "anonymize"
    BY <1>1, <1>6 DEF anonymize, At, Knows
  <2>2. CASE is_last_admin(u) /\ Return(c, "LastAdmin")
    <3>1. account[u].state = "ACTIVE" /\ answer' # "ok"
      BY <2>1, <2>2, SessionsAreActive DEF is_last_admin, Return
    <3>2. Told(c)
      BY <1>3, <3>1 DEF Told
    <3> QED
      BY <2>2, <3>2, OthersTold DEF Return
  <2>3. CASE req' = Crossing([req EXCEPT ![c].pc = "fulfill"], u)
    <3> DEFINE rec == [req[c] EXCEPT !.pc = "fulfill"]
    <3> DEFINE r == [req EXCEPT ![c] = rec]
    <3>1. rec \in Request /\ rec.pc = "fulfill" /\ req' = Crossing(r, u)
      BY <1>1, <2>3 DEF Request, DeletionSteps
    <3> HIDE DEF rec
    <3>2. r \in [Clients -> Request] /\ r[d].pc \in {"fulfill", req[d].pc}
      BY <1>1, <3>1 DEF TypeOK
    <3> HIDE DEF r, u
    <3>3. req'[d].pc = r[d].pc
      BY <2>1, <3>1, <3>2, CrossingMarks
    <3> QED
      BY <3>2, <3>3 DEF Told, DeletionSteps
  <2> QED
    BY <1>6, <2>2, <2>3 DEF anonymize
<1>7. CASE fulfill(c)
  <2>1. CASE Goto(c, "audit anonymized")
    BY <1>1, <2>1, GoesOn DEF Goto, Start, Request
  <2>2. CASE ~Fulfillable(req[c].id) /\ Return(c, "NotFound")
    <3>1. req[c].id \in byHand
      BY <1>1, <1>7, <2>2 DEF fulfill, At, Owes, Deleting, DeletionSteps, Fulfillable
    <3>2. Told(c)
      BY <3>1 DEF Told
    <3> QED
      BY <2>2, <3>2, OthersTold DEF Return
  <2> QED
    BY <1>7, <2>1, <2>2 DEF fulfill
<1>8. CASE revoke_all_for_user(c)
  <2>1. account[u].state # "ACTIVE" /\ answer' = "ok"
    BY <1>1, <1>8 DEF revoke_all_for_user, At, Return, Owes, Deleting, DeletionSteps
  <2>2. Told(c)
    BY <1>2, <2>1 DEF Told
  <2> QED
    BY <1>8, <2>2, OthersTold DEF revoke_all_for_user, Return
<1> QED
  BY <1>4, <1>5, <1>6, <1>7, <1>8

LEMMA EntryTells ==
    ASSUME IInv, NEW c \in Clients, NEW u \in Users,
           \/ account_export_post(c, u)
           \/ \E e \in ExportIds, cookie, query \in BOOLEAN :
                account_export_download(c, u, e, cookie, query)
           \/ \E email, password \in BOOLEAN : account_delete_post(c, u, email, password)
           \/ \E kind \in FormKinds : account_privacy_request_post(c, u, kind)
           \/ \E r \in RequestIds : admin_privacy_request_fulfill(c, u, r),
           NEW d \in Clients
    PROVE  Told(d)
<1>1. req[c].pc = "idle"
  BY DEF account_export_post, request_export, account_export_download, download_export,
         account_delete_post, request_deletion, account_privacy_request_post, submit_request,
         admin_privacy_request_fulfill, fulfill_request, require_user
<1>2. \E rec : req' = [req EXCEPT ![c] = rec]
  BY DEF account_export_post, request_export, account_export_download, download_export,
         account_delete_post, request_deletion, account_privacy_request_post, submit_request,
         admin_privacy_request_fulfill, fulfill_request, Start, Return
<1> QED
  BY <1>1, <1>2, GoesOn DEF DeletionSteps

LEMMA OtherTells ==
    ASSUME IInv, NEW c \in Clients,
           \/ assemble_payload(c) \/ create_export(c) \/ read_payload(c) \/ check_row(c)
           \/ consume_download(c) \/ create(c) \/ close(c),
           NEW d \in Clients
    PROVE  Told(d)
<1>1. req[c].pc \notin DeletionSteps
  BY DEF assemble_payload, create_export, read_payload, check_row, consume_download, create,
         close, At, DeletionSteps
<1>2. \E rec : req' = [req EXCEPT ![c] = rec]
  BY DEF assemble_payload, create_export, read_payload, check_row, consume_download, create,
         close, Create, Goto, Start, Return
<1> QED
  BY <1>1, <1>2, GoesOn

LEMMA StepTells == IInv /\ [Next]_vars => \A d \in Clients : Told(d)
<1> SUFFICES ASSUME IInv, [Next]_vars, NEW d \in Clients PROVE Told(d)
  OBVIOUS
<1>1. CASE UNCHANGED req
  BY <1>1 DEF Told, DeletionSteps
<1>2. CASE \E u \in Users : anonymize_inactive_accounts(u)
  <2>1. req'[d].pc = req[d].pc
    BY <1>2 DEF anonymize_inactive_accounts, Crossing, IInv, TypeOK, Request
  <2> QED
    BY <2>1 DEF Told, DeletionSteps
<1>3. CASE \E c \in Clients : Fail(c)
  <2>1. faults' # faults
    BY <1>3, BoundsAssumption DEF Fail, IInv, TypeOK
  <2> QED
    BY <2>1 DEF Told
<1>4. CASE \E c \in Clients : \/ audit_export(c) \/ audit_deletion(c) \/ audit_anonymized(c)
                              \/ audit_request(c) \/ audit_fulfilled(c) \/ audit_download(c)
  BY <1>4, AuditTells DEF audit_export, audit_deletion, audit_anonymized, audit_request,
                          audit_fulfilled, audit_download, Audited, DeletionSteps
<1>5. CASE \E c \in Clients : \/ guard(c) \/ create_deletion(c) \/ anonymize(c) \/ fulfill(c)
                              \/ revoke_all_for_user(c)
  BY <1>5, DeletionTells
<1>6. CASE \E c \in Clients : \/ assemble_payload(c) \/ create_export(c) \/ read_payload(c)
                              \/ check_row(c) \/ consume_download(c) \/ create(c) \/ close(c)
  BY <1>6, OtherTells
<1>7. CASE run \/ purge_expired_exports \/ NoMoreInactive \/ purge_deleted_accounts \/ Tick
  BY <1>1, <1>7 DEF run, purge_expired_exports, NoMoreInactive, purge_deleted_accounts, Tick
<1>8. CASE UNCHANGED vars
  BY <1>1, <1>8 DEF vars
<1> QED
  BY <1>2, <1>3, <1>4, <1>5, <1>6, <1>7, <1>8, EntryTells DEF Next

\* Who deletes an account hears "ok" exactly when the account is erased, unless a
\* statement failed, an administrator closed the request by hand, or the shell is already
\* purged: the unlocked check of the last administrator and the one inside the transaction
\* never disagree with what the handler answers.
THEOREM DeletionAnswered == Spec => DeletionAnswer
<1>1. IInv /\ [Next]_vars =>
        [\A c \in Clients :
         req[c].pc \in DeletionSteps /\ req'[c].pc = "idle" /\ faults' = faults =>
           LET u == req[c].user IN
           \/ (answer' = "ok") = (account[u].state # "ACTIVE")
           \/ req[c].id \in byHand
           \/ account[u].state = "gone"]_vars
  BY StepTells DEF Told
<1> QED
  BY Invariance, <1>1, PTL DEF Spec, DeletionAnswer
=============================================================================
