--------------------------- MODULE ReviewsProofs ---------------------------
(***************************************************************************)
(* Theorems about Reviews for every set of accounts, requests, reviews and *)
(* stars.                                                                  *)
(***************************************************************************)
EXTENDS Reviews, TLAPS

-----------------------------------------------------------------------------
\* The inductive invariant, part by part

\* What a request knows at each point, and what the tables owe it then.
Knows(c) ==
    /\ req[c].pc # "idle" => req[c].user \in Users
    /\ req[c].pc \in {"upsert", "aggregate", "commit"} => req[c].rating \in Ratings
    /\ Open(c) => req[c].id \in Ids
    /\ Open(c) /\ req[c].update = TRUE => Exists(req[c].id)
    /\ req[c].pc = "record" => req[c].signal \in Signal
    /\ req[c].pc = "mark" => \E v \in verification : is_still_exists(v.signal)
    /\ req[c].user \in erased => req[c].user \in late
    /\ req[c].snap = TRUE => req[c].pc = "toggle" /\ req[c].user \in favorite
Known == \A c \in Clients : Knows(c)

\* A transaction that nothing has disturbed is the only one that is open, and its
\* snapshot is what the reviews will be once it commits.
Undisturbed(c) ==
    Open(c) /\ req[c].alone = TRUE =>
        /\ \A d \in Clients : Open(d) => d = c
        /\ req[c].pc = "commit" => req[c].counted = ActiveReviews(WithOwnRow(c))
Alone == \A c \in Clients : Undisturbed(c)

\* The inductive invariant.
IInv == /\ TypeOK
        /\ Known
        /\ Alone
        /\ HealsAlone
        /\ NewestIsPublished
        /\ FreshnessIsBacked
        /\ ErasureSticks
        /\ AnswersAddUp

-----------------------------------------------------------------------------
\* The aggregate counts states and ratings, and nothing else of a review.
LEMMA SameCount ==
    ASSUME NEW r, NEW s,
           \A i \in Ids : s[i].state = r[i].state /\ s[i].rating = r[i].rating
    PROVE  ActiveReviews(s) = ActiveReviews(r)
BY DEF ActiveReviews

LEMMA CountsTyped ==
    ASSUME NEW r \in [Ids -> ReviewRow \cup {NoReview}]
    PROVE  ActiveReviews(r) \in Counted
BY DEF ActiveReviews, Counted, ReviewRow, NoReview

LEMMA IdleTyped == /\ Idle \in Request /\ Idle.pc = "idle" /\ Idle.user = None
                   /\ Idle.snap = FALSE /\ Idle.signal = NoSignal
BY DEF Idle, Request, Counted

LEMMA InitEstablishes == Init => IInv
<1> SUFFICES ASSUME Init PROVE IInv
  OBVIOUS
<1>1. \A c \in Clients : req[c] = Idle
  BY DEF Init
<1>2. TypeOK
  <2>1. location \in LocationRow
    BY DEF Init, LocationRow, Counted
  <2>2. review \in [Ids -> ReviewRow \cup {NoReview}]
    BY DEF Init
  <2>3. audit \in [Ids -> [created: Nat, edited: Nat]]
    BY DEF Init
  <2>4. req \in [Clients -> Request]
    BY IdleTyped DEF Init
  <2>5. answered \in [Users -> Int] /\ begun \in 0 .. MaxRequests
    BY BoundAssumption DEF Init
  <2> QED
    BY <2>1, <2>2, <2>3, <2>4, <2>5 DEF TypeOK, Init
<1>3. Known /\ Alone
  BY <1>1, IdleTyped, NoneAssumption DEF Known, Knows, Open, Alone, Undisturbed, Init
<1>4. \A i \in Ids : review[i].state = "absent"
  BY DEF Init, NoReview
<1>5. HealsAlone
  BY <1>4 DEF HealsAlone, ActiveReviews, Init
<1>6. NewestIsPublished
  BY <1>4 DEF NewestIsPublished, Exists
<1>7. FreshnessIsBacked /\ ErasureSticks /\ AnswersAddUp
  BY DEF FreshnessIsBacked, ErasureSticks, AnswersAddUp, Init
<1> QED
  BY <1>2, <1>3, <1>5, <1>6, <1>7 DEF IInv

-----------------------------------------------------------------------------
\* One client moves; the others stay.
Moved(c, rec) == \A d \in Clients : req'[d] = IF d = c THEN rec ELSE req[d]

LEMMA Moves ==
    ASSUME TypeOK, NEW c \in Clients, NEW rec \in Request, req' = [req EXCEPT ![c] = rec]
    PROVE  req' \in [Clients -> Request] /\ Moved(c, rec)
BY DEF TypeOK, Moved

LEMMA OthersKnow ==
    ASSUME IInv, NEW c \in Clients, NEW rec \in Request, Moved(c, rec), Knows(c)',
           UNCHANGED <<erased, late>>, favorite \subseteq favorite',
           verification \subseteq verification',
           \A i \in Ids : Exists(i) => Exists(i)'
    PROVE  Known'
<1> SUFFICES ASSUME NEW d \in Clients, d # c PROVE Knows(d)'
  BY DEF Known
<1>1. Knows(d) /\ req'[d] = req[d]
  BY DEF IInv, Known, Moved
<1> QED
  BY <1>1 DEF Knows, Open

\* A client that is in no transaction afterwards disturbs none.
LEMMA OthersAlone ==
    ASSUME IInv, NEW c \in Clients, NEW rec \in Request, Moved(c, rec),
           rec.pc \notin {"aggregate", "commit"}, UNCHANGED review
    PROVE  Alone'
<1> SUFFICES ASSUME NEW d \in Clients, Open(d)', req'[d].alone = TRUE
             PROVE  /\ \A e \in Clients : Open(e)' => e = d
                    /\ req'[d].pc = "commit" => req'[d].counted = ActiveReviews(WithOwnRow(d)')
  BY DEF Alone, Undisturbed, ActiveReviews
<1>1. d # c /\ req'[d] = req[d]
  BY DEF Moved, Open
<1>2. Undisturbed(d) /\ Open(d)
  BY <1>1 DEF IInv, Alone, Open
<1>3. \A e \in Clients : Open(e)' => Open(e)
  BY DEF Moved, Open
<1>4. WithOwnRow(d)' = WithOwnRow(d)
  BY <1>1 DEF WithOwnRow, Written
<1> QED
  BY <1>1, <1>2, <1>3, <1>4 DEF Undisturbed

\* The tables a property looks at stay as they are.
LEMMA SameReviews ==
    ASSUME IInv, UNCHANGED <<review, location, disturbed>>
    PROVE  HealsAlone' /\ NewestIsPublished'
BY DEF IInv, HealsAlone, NewestIsPublished, ActiveReviews, Exists

LEMMA SameSignals ==
    ASSUME IInv, location'.verified = location.verified, verification \subseteq verification'
    PROVE  FreshnessIsBacked'
BY DEF IInv, FreshnessIsBacked

LEMMA SameNames ==
    ASSUME IInv, UNCHANGED <<review, verification, favorite, erased, late>>
    PROVE  ErasureSticks'
BY DEF IInv, ErasureSticks, ReviewOf, Exists

LEMMA SameAnswers ==
    ASSUME IInv, UNCHANGED <<favorite, answered>>
    PROVE  AnswersAddUp'
BY DEF IInv, AnswersAddUp

-----------------------------------------------------------------------------
\* The actions

\* A request begins: nothing is written.
LEMMA BeginStep ==
    ASSUME IInv, NEW c \in Clients, NEW u \in Users, NEW rec \in Request,
           rec.pc \in {"upsert", "record", "toggle"}, rec.user = u,
           rec.pc = "upsert" => rec.rating \in Ratings,
           rec.pc = "record" => rec.signal \in Signal,
           rec.snap = TRUE => rec.pc = "toggle" /\ u \in favorite,
           Begin(c, rec), UNCHANGED <<table, erased, disturbed, late, answered>>
    PROVE  IInv'
<1>1. req' = [req EXCEPT ![c] = rec] /\ begun' \in 0 .. MaxRequests /\ u \notin erased
  BY BoundAssumption DEF Begin, IInv, TypeOK
<1>2. req' \in [Clients -> Request] /\ Moved(c, rec)
  BY <1>1, Moves DEF IInv
<1>3. TypeOK'
  BY <1>1, <1>2 DEF IInv, TypeOK, table
<1>4. Knows(c)'
  <2>1. req'[c] = rec
    BY <1>2 DEF Moved
  <2> QED
    BY <2>1, <1>1 DEF Knows, Open, table
<1>5. Known'
  BY <1>2, <1>4, OthersKnow DEF table, Exists
<1>6. Alone'
  BY <1>2, OthersAlone DEF table
<1>7. HealsAlone' /\ NewestIsPublished' /\ FreshnessIsBacked' /\ ErasureSticks' /\ AnswersAddUp'
  BY SameReviews, SameSignals, SameNames, SameAnswers DEF table
<1> QED
  BY <1>3, <1>5, <1>6, <1>7 DEF IInv

LEMMA ReviewPostStep ==
    ASSUME IInv, NEW c \in Clients, NEW u \in Users, NEW n \in Stars, review_post(c, u, n)
    PROVE  IInv'
<1> DEFINE rec == [Idle EXCEPT !.pc = "upsert", !.user = u, !.rating = n]
<1>1. n \in Ratings
  BY DEF review_post, Ratings
<1>2. rec \in Request /\ rec.pc = "upsert" /\ rec.user = u /\ rec.rating = n /\ rec.snap = FALSE
  BY <1>1 DEF Idle, Request, Counted
<1>3. Begin(c, rec) /\ UNCHANGED <<table, erased, disturbed, late, answered>>
  BY DEF review_post, upsert_review
<1> QED
  BY <1>1, <1>2, <1>3, BeginStep

LEMMA VerifyStep ==
    ASSUME IInv, NEW c \in Clients, NEW u \in Users, NEW s \in Signal,
           record_verification(c, u, s)
    PROVE  IInv'
<1> DEFINE rec == [Idle EXCEPT !.pc = "record", !.user = u, !.signal = s]
<1>1. rec \in Request /\ rec.pc = "record" /\ rec.user = u /\ rec.signal = s /\ rec.snap = FALSE
  BY DEF Idle, Request, Counted
<1>2. Begin(c, rec) /\ UNCHANGED <<table, erased, disturbed, late, answered>>
  BY DEF record_verification
<1> QED
  BY <1>1, <1>2, BeginStep

LEMMA FavoriteStep ==
    ASSUME IInv, NEW c \in Clients, NEW u \in Users, parking_favorite_post(c, u)
    PROVE  IInv'
<1> DEFINE rec == [Idle EXCEPT !.pc = "toggle", !.user = u, !.snap = u \in favorite]
<1>1. (u \in favorite) \in BOOLEAN
  OBVIOUS
<1>2. rec \in Request /\ rec.pc = "toggle" /\ rec.user = u /\ rec.snap = (u \in favorite)
  BY <1>1 DEF Idle, Request, Counted
<1>3. Begin(c, rec) /\ UNCHANGED <<table, erased, disturbed, late, answered>>
  BY DEF parking_favorite_post
<1> HIDE DEF rec
<1> QED
  BY <1>2, <1>3, BeginStep

\* The row is written, out of the others' sight; they are no longer alone.
LEMMA UpsertStep ==
    ASSUME IInv, NEW c \in Clients, UpsertRow(c)
    PROVE  IInv'
<1> DEFINE own(i, up, al) == [req[c] EXCEPT !.pc = "aggregate", !.id = i, !.update = up, !.alone = al]
           up == ReviewOf(req[c].user) # {}
           al == \A e \in Clients : ~Open(e)
<1>0. req[c].pc = "upsert" /\ UNCHANGED <<table, history>>
  BY DEF UpsertRow
<1>1. PICK i \in Ids : /\ req' = [d \in Clients |-> IF d = c THEN own(i, up, al)
                                                    ELSE [req[d] EXCEPT !.alone = FALSE]]
                       /\ up = TRUE => Exists(i)
  BY DEF UpsertRow, ReviewOf
<1>2. up \in BOOLEAN /\ al \in BOOLEAN
  OBVIOUS
<1>3. \A d \in Clients : req[d] \in Request
  BY DEF IInv, TypeOK
<1> HIDE DEF up, al
<1>4. /\ own(i, up, al) \in Request /\ own(i, up, al).pc = "aggregate" /\ own(i, up, al).id = i
      /\ own(i, up, al).alone = al /\ own(i, up, al).update = up /\ own(i, up, al).user = req[c].user
      /\ own(i, up, al).rating = req[c].rating /\ own(i, up, al).snap = req[c].snap
  BY <1>2, <1>3 DEF Request
<1> HIDE DEF own
<1>5. req'[c] = own(i, up, al)
  BY <1>1
<1>6. ASSUME NEW d \in Clients, d # c
      PROVE  /\ req'[d] \in Request /\ req'[d].alone = FALSE
             /\ req'[d].pc = req[d].pc /\ req'[d].user = req[d].user /\ req'[d].id = req[d].id
             /\ req'[d].rating = req[d].rating /\ req'[d].signal = req[d].signal
             /\ req'[d].snap = req[d].snap /\ req'[d].update = req[d].update
  <2>1. req'[d] = [req[d] EXCEPT !.alone = FALSE]
    BY <1>1, <1>6
  <2> QED
    BY <2>1, <1>3 DEF Request
<1>7. TypeOK'
  <2>1. req' \in [Clients -> Request]
    <3>1. \A d \in Clients : req'[d] \in Request
      BY <1>4, <1>5, <1>6
    <3> QED
      BY <3>1, <1>1
  <2> QED
    BY <2>1, <1>0 DEF IInv, TypeOK, table, history
<1>8. Known'
  <2> SUFFICES ASSUME NEW d \in Clients PROVE Knows(d)'
    BY DEF Known
  <2>1. Knows(d)
    BY DEF IInv, Known
  <2>2. CASE d = c
    BY <2>1, <2>2, <1>0, <1>1, <1>4, <1>5 DEF Knows, Open, Exists, table, history
  <2>3. CASE d # c
    BY <2>1, <2>3, <1>0, <1>6 DEF Knows, Open, Exists, table, history
  <2> QED
    BY <2>2, <2>3
<1>9. Alone'
  <2> SUFFICES ASSUME NEW d \in Clients, Open(d)', req'[d].alone = TRUE
               PROVE  /\ \A e \in Clients : Open(e)' => e = d
                      /\ req'[d].pc # "commit"
    BY DEF Alone, Undisturbed
  <2>1. d = c /\ al = TRUE
    BY <1>4, <1>5, <1>6
  <2> QED
    BY <2>1, <1>4, <1>5, <1>6 DEF al, Open
<1>10. HealsAlone' /\ NewestIsPublished' /\ FreshnessIsBacked' /\ ErasureSticks' /\ AnswersAddUp'
  BY <1>0, SameReviews, SameSignals, SameNames, SameAnswers DEF table, history
<1> QED
  BY <1>7, <1>8, <1>9, <1>10 DEF IInv

\* The transaction's own row, and what the reviews are once it has committed.
LEMMA OwnRow ==
    ASSUME IInv, NEW c \in Clients, Open(c)
    PROVE  /\ req[c].id \in Ids /\ req[c].user \in Users /\ req[c].rating \in Ratings
           /\ Written(c) \in ReviewRow
           /\ Written(c).author = req[c].user
           /\ Written(c).newest = Written(c).rating
           /\ WithOwnRow(c) \in [Ids -> ReviewRow \cup {NoReview}]
           /\ \A i \in Ids : WithOwnRow(c)[i] = IF i = req[c].id THEN Written(c) ELSE review[i]
<1>1. Knows(c) /\ req[c] \in Request
  BY DEF IInv, Known, TypeOK
<1>2. req[c].id \in Ids /\ req[c].user \in Users /\ req[c].rating \in Ratings
      /\ req[c].update \in BOOLEAN
  BY <1>1 DEF Knows, Open, Request
<1>3. req[c].update = TRUE => review[req[c].id] \in ReviewRow
  BY <1>1, <1>2 DEF Knows, Exists, IInv, TypeOK, NoReview
<1> DEFINE state == IF req[c].update THEN review[req[c].id].state ELSE "ACTIVE"
<1>4. state \in {"ACTIVE", "HIDDEN"}
  BY <1>2, <1>3 DEF ReviewRow
<1>5. Written(c) = [author |-> req[c].user, rating |-> req[c].rating, newest |-> req[c].rating,
                    state |-> state]
  BY DEF Written
<1> HIDE DEF state
<1>6. Written(c) \in ReviewRow /\ Written(c).author = req[c].user
      /\ Written(c).newest = Written(c).rating
  BY <1>2, <1>4, <1>5 DEF ReviewRow
<1> QED
  BY <1>2, <1>6 DEF WithOwnRow, IInv, TypeOK

\* The snapshot is taken.
LEMMA AggregateStep ==
    ASSUME IInv, NEW c \in Clients, Aggregate(c)
    PROVE  IInv'
<1> DEFINE seen == ActiveReviews(WithOwnRow(c))
           rec == [req[c] EXCEPT !.pc = "commit", !.counted = seen]
<1>0. req[c].pc = "aggregate" /\ UNCHANGED <<table, history>> /\ req[c] \in Request
      /\ req' = [req EXCEPT ![c] = rec] /\ Knows(c) /\ Open(c)
  BY DEF Aggregate, IInv, TypeOK, Known, Open
<1>1. seen \in Counted
  BY <1>0, OwnRow, CountsTyped
<1> HIDE DEF seen
<1>2. rec \in Request /\ rec.pc = "commit" /\ rec.counted = seen /\ rec.user = req[c].user
      /\ rec.rating = req[c].rating /\ rec.id = req[c].id /\ rec.update = req[c].update
      /\ rec.alone = req[c].alone /\ rec.snap = req[c].snap /\ rec.signal = req[c].signal
  BY <1>0, <1>1 DEF Request
<1> HIDE DEF rec
<1>3. req' \in [Clients -> Request] /\ Moved(c, rec) /\ req'[c] = rec
  BY <1>0, <1>2, Moves DEF IInv, Moved
<1>4. TypeOK'
  BY <1>0, <1>3 DEF IInv, TypeOK, table, history
<1>5. Known'
  <2>1. Knows(c)'
    BY <1>0, <1>2, <1>3 DEF Knows, Open, Exists, table, history
  <2> QED
    BY <2>1, <1>0, <1>2, <1>3, OthersKnow DEF Exists, table, history
<1>6. Alone'
  <2> SUFFICES ASSUME NEW d \in Clients, Open(d)', req'[d].alone = TRUE
               PROVE  /\ \A e \in Clients : Open(e)' => e = d
                      /\ req'[d].pc = "commit" => req'[d].counted = ActiveReviews(WithOwnRow(d)')
    BY DEF Alone, Undisturbed, ActiveReviews
  <2>1. \A e \in Clients : Open(e)' => Open(e)
    BY <1>0, <1>3 DEF Open, Moved
  <2>2. Open(d) /\ req[d].alone = TRUE /\ Undisturbed(d)
    BY <2>1, <1>2, <1>3 DEF Moved, IInv, Alone
  <2>3. WithOwnRow(d)' = WithOwnRow(d)
    <3>1. req'[d].id = req[d].id /\ req'[d].user = req[d].user /\ req'[d].rating = req[d].rating
          /\ req'[d].update = req[d].update
      BY <1>2, <1>3 DEF Moved
    <3> QED
      BY <3>1, <1>0 DEF WithOwnRow, Written, table
  <2>4. CASE d = c
    BY <2>1, <2>2, <2>3, <2>4, <1>2, <1>3 DEF Undisturbed, seen
  <2>5. CASE d # c
    BY <2>1, <2>2, <2>3, <2>5, <1>3 DEF Undisturbed, Moved
  <2> QED
    BY <2>4, <2>5
<1>7. HealsAlone' /\ NewestIsPublished' /\ FreshnessIsBacked' /\ ErasureSticks' /\ AnswersAddUp'
  BY <1>0, SameReviews, SameSignals, SameNames, SameAnswers DEF table, history
<1> QED
  BY <1>4, <1>5, <1>6, <1>7 DEF IInv

\* The location row takes the snapshot: nothing changed since it was taken, or the
\* step counts as a disturbance.
LEMMA CommitStep ==
    ASSUME IInv, NEW c \in Clients, CommitReview(c)
    PROVE  IInv'
<1> DEFINE rec == [req[c] EXCEPT !.pc = "audit"]
<1>0. /\ req[c].pc = "commit" /\ Open(c) /\ Knows(c) /\ req[c] \in Request
      /\ review' = WithOwnRow(c)
      /\ location' = [location EXCEPT !.counted = req[c].counted]
      /\ disturbed' = ~req[c].alone
      /\ req' = [req EXCEPT ![c] = rec]
      /\ UNCHANGED <<verification, favorite, audit, begun, erased, late, answered>>
  BY DEF CommitReview, Goto, Open, IInv, Known, TypeOK
<1>1. rec \in Request /\ rec.pc = "audit" /\ rec.user = req[c].user /\ rec.snap = req[c].snap
  BY <1>0 DEF Request
<1> HIDE DEF rec
<1>2. req' \in [Clients -> Request] /\ Moved(c, rec) /\ req'[c] = rec
  BY <1>0, <1>1, Moves DEF IInv, Moved
<1>3. /\ req[c].id \in Ids /\ req[c].user \in Users
      /\ Written(c) \in ReviewRow /\ Written(c).author = req[c].user
      /\ Written(c).newest = Written(c).rating
      /\ review' \in [Ids -> ReviewRow \cup {NoReview}]
      /\ \A i \in Ids : review'[i] = IF i = req[c].id THEN Written(c) ELSE review[i]
  BY <1>0, OwnRow
<1>4. location' \in LocationRow /\ location'.counted = req[c].counted
      /\ location'.verified = location.verified
  BY <1>0 DEF IInv, TypeOK, LocationRow, Request
<1>5. TypeOK'
  BY <1>0, <1>2, <1>3, <1>4 DEF IInv, TypeOK
<1>6. Known'
  <2>1. Knows(c)'
    BY <1>0, <1>1, <1>2 DEF Knows, Open
  <2>2. \A i \in Ids : Exists(i) => Exists(i)'
    BY <1>3 DEF Exists, ReviewRow
  <2> QED
    BY <2>1, <2>2, <1>0, <1>1, <1>2, OthersKnow
<1>7. Alone'
  <2> SUFFICES ASSUME NEW d \in Clients, Open(d)', req'[d].alone = TRUE
               PROVE  FALSE
    BY DEF Alone, Undisturbed
  <2>1. d # c /\ req'[d] = req[d]
    BY <1>1, <1>2 DEF Moved, Open
  <2>2. Open(d) /\ Undisturbed(d)
    BY <2>1 DEF Open, IInv, Alone
  <2> QED
    BY <2>1, <2>2, <1>0 DEF Undisturbed
<1>8. HealsAlone'
  <2> SUFFICES ASSUME ~disturbed' PROVE location'.counted = ActiveReviews(review')
    BY DEF HealsAlone, ActiveReviews
  <2>1. req[c].alone = TRUE
    BY <1>0 DEF Request
  <2>2. Undisturbed(c)
    BY DEF IInv, Alone
  <2> QED
    BY <2>1, <2>2, <1>0, <1>4 DEF Undisturbed
<1>9. NewestIsPublished'
  BY <1>3 DEF IInv, NewestIsPublished, Exists
<1>10. ErasureSticks'
  <2> SUFFICES ASSUME NEW u \in erased \ late
               PROVE  /\ \A i \in Ids : ~(review'[i].state # "absent" /\ review'[i].author = u)
                      /\ u \notin favorite /\ \A v \in verification : v.user # u
    BY <1>0 DEF ErasureSticks, ReviewOf, Exists
  <2>1. req[c].user # u
    BY <1>0 DEF Knows
  <2> QED
    BY <2>1, <1>3 DEF IInv, ErasureSticks, ReviewOf, Exists
<1>11. FreshnessIsBacked' /\ AnswersAddUp'
  BY <1>0, <1>4, SameSignals, SameAnswers
<1> QED
  BY <1>5, <1>6, <1>7, <1>8, <1>9, <1>10, <1>11 DEF IInv

LEMMA AuditStep ==
    ASSUME IInv, NEW c \in Clients, RecordAudit(c)
    PROVE  IInv'
<1>0. /\ req' = [req EXCEPT ![c] = Idle] /\ req[c] \in Request
      /\ UNCHANGED <<location, review, verification, favorite, history>>
  BY DEF RecordAudit, Return, IInv, TypeOK
<1>1. audit' \in [Ids -> [created: Nat, edited: Nat]]
  <2>1. req[c].id \in Ids \cup {None} /\ audit \in [Ids -> [created: Nat, edited: Nat]]
    BY <1>0 DEF Request, IInv, TypeOK
  <2> QED
    BY <2>1 DEF RecordAudit
<1>2. req' \in [Clients -> Request] /\ Moved(c, Idle) /\ req'[c] = Idle
  BY <1>0, IdleTyped, Moves DEF IInv, Moved
<1>3. TypeOK'
  BY <1>0, <1>1, <1>2 DEF IInv, TypeOK, history
<1>4. Knows(c)'
  BY <1>0, <1>2, IdleTyped, NoneAssumption DEF Knows, Open, history, IInv, TypeOK
<1>5. Known' /\ Alone'
  BY <1>0, <1>2, <1>4, IdleTyped, OthersKnow, OthersAlone DEF Exists, history
<1>6. HealsAlone' /\ NewestIsPublished' /\ FreshnessIsBacked' /\ ErasureSticks' /\ AnswersAddUp'
  BY <1>0, SameReviews, SameSignals, SameNames, SameAnswers DEF history
<1> QED
  BY <1>3, <1>5, <1>6 DEF IInv

LEMMA DropStep ==
    ASSUME IInv, NEW c \in Clients, Drop(c)
    PROVE  IInv'
<1>0. req' = [req EXCEPT ![c] = Idle] /\ UNCHANGED <<table, history>>
  BY DEF Drop, Return
<1>1. req' \in [Clients -> Request] /\ Moved(c, Idle) /\ req'[c] = Idle
  BY <1>0, IdleTyped, Moves DEF IInv, Moved
<1>2. TypeOK'
  BY <1>0, <1>1 DEF IInv, TypeOK, table, history
<1>3. Knows(c)'
  BY <1>0, <1>1, IdleTyped, NoneAssumption DEF Knows, Open, history, IInv, TypeOK
<1>4. Known' /\ Alone'
  BY <1>0, <1>1, <1>3, IdleTyped, OthersKnow, OthersAlone DEF Exists, table, history
<1>5. HealsAlone' /\ NewestIsPublished' /\ FreshnessIsBacked' /\ ErasureSticks' /\ AnswersAddUp'
  BY <1>0, SameReviews, SameSignals, SameNames, SameAnswers DEF table, history
<1> QED
  BY <1>2, <1>4, <1>5 DEF IInv

LEMMA RecordStep ==
    ASSUME IInv, NEW c \in Clients, record(c)
    PROVE  IInv'
<1> DEFINE next == IF is_still_exists(req[c].signal) THEN "mark" ELSE "audit"
           rec == [req[c] EXCEPT !.pc = next]
           row == [user |-> req[c].user, signal |-> req[c].signal]
<1>0. /\ req[c].pc = "record" /\ Knows(c) /\ req[c] \in Request
      /\ req' = [req EXCEPT ![c] = rec] /\ verification' = verification \cup {row}
      /\ UNCHANGED <<location, review, favorite, audit, history>>
  BY DEF record, Goto, IInv, Known, TypeOK
<1>1. next \in {"mark", "audit"} /\ (next = "mark" => is_still_exists(req[c].signal))
  OBVIOUS
<1>2. row \in VerificationRow /\ row.user = req[c].user /\ row.signal = req[c].signal
  BY <1>0 DEF Knows, VerificationRow
<1> HIDE DEF next, row
<1>3. rec \in Request /\ rec.pc = next /\ rec.user = req[c].user /\ rec.snap = req[c].snap
  BY <1>0, <1>1 DEF Request
<1> HIDE DEF rec
<1>4. req' \in [Clients -> Request] /\ Moved(c, rec) /\ req'[c] = rec
  BY <1>0, <1>3, Moves DEF IInv, Moved
<1>5. TypeOK'
  BY <1>0, <1>2, <1>4 DEF IInv, TypeOK, history
<1>6. Knows(c)'
  <2>1. next = "mark" => \E v \in verification' : is_still_exists(v.signal)
    BY <1>0, <1>1, <1>2
  <2> QED
    BY <2>1, <1>0, <1>1, <1>3, <1>4 DEF Knows, Open, history
<1>7. Known' /\ Alone'
  BY <1>0, <1>1, <1>3, <1>4, <1>6, OthersKnow, OthersAlone DEF Exists, history
<1>8. HealsAlone' /\ NewestIsPublished' /\ FreshnessIsBacked' /\ AnswersAddUp'
  BY <1>0, SameReviews, SameSignals, SameAnswers DEF history
<1>9. ErasureSticks'
  <2> SUFFICES ASSUME NEW u \in erased \ late
               PROVE  /\ ReviewOf(u) = {} /\ u \notin favorite
                      /\ \A v \in verification' : v.user # u
    BY <1>0 DEF ErasureSticks, ReviewOf, Exists, history
  <2>1. req[c].user # u
    BY <1>0 DEF Knows
  <2> QED
    BY <2>1, <1>0, <1>2 DEF IInv, ErasureSticks
<1> QED
  BY <1>5, <1>7, <1>8, <1>9 DEF IInv

LEMMA MarkStep ==
    ASSUME IInv, NEW c \in Clients, mark_verified_at(c)
    PROVE  IInv'
<1> DEFINE rec == [req[c] EXCEPT !.pc = "audit"]
<1>0. /\ req[c].pc = "mark" /\ Knows(c) /\ req[c] \in Request
      /\ req' = [req EXCEPT ![c] = rec] /\ location' = [location EXCEPT !.verified = TRUE]
      /\ UNCHANGED <<review, verification, favorite, audit, history>>
  BY DEF mark_verified_at, Goto, IInv, Known, TypeOK
<1>1. rec \in Request /\ rec.pc = "audit" /\ rec.user = req[c].user /\ rec.snap = req[c].snap
  BY <1>0 DEF Request
<1> HIDE DEF rec
<1>2. req' \in [Clients -> Request] /\ Moved(c, rec) /\ req'[c] = rec
  BY <1>0, <1>1, Moves DEF IInv, Moved
<1>3. location' \in LocationRow /\ location'.counted = location.counted
  BY <1>0 DEF IInv, TypeOK, LocationRow
<1>4. TypeOK'
  BY <1>0, <1>2, <1>3 DEF IInv, TypeOK, history
<1>5. Knows(c)'
  BY <1>0, <1>1, <1>2 DEF Knows, Open, history
<1>6. Known' /\ Alone'
  BY <1>0, <1>1, <1>2, <1>5, OthersKnow, OthersAlone DEF Exists, history
<1>7. FreshnessIsBacked'
  BY <1>0 DEF Knows, FreshnessIsBacked
<1>8. HealsAlone' /\ NewestIsPublished'
  BY <1>0, <1>3 DEF IInv, HealsAlone, NewestIsPublished, ActiveReviews, Exists, history
<1>9. ErasureSticks' /\ AnswersAddUp'
  BY <1>0, SameNames, SameAnswers DEF history
<1> QED
  BY <1>4, <1>6, <1>7, <1>8, <1>9 DEF IInv

LEMMA ToggleStep ==
    ASSUME IInv, NEW c \in Clients, toggle(c)
    PROVE  IInv'
<1> DEFINE u == req[c].user
<1>0. /\ req[c].pc = "toggle" /\ Knows(c) /\ req[c] \in Request /\ u \in Users
      /\ UNCHANGED <<location, review, verification, audit, begun, erased, disturbed, late>>
  BY DEF toggle, IInv, Known, TypeOK, Knows
<1>1. u \in erased => u \in late
  BY <1>0 DEF Knows
<1>2. HealsAlone' /\ NewestIsPublished' /\ FreshnessIsBacked'
  BY <1>0, SameReviews, SameSignals
<1>3. CASE req[c].snap = TRUE
  <2>1. favorite' = favorite \ {u} /\ answered' = [answered EXCEPT ![u] = @ - 1]
        /\ req' = [Forget(u) EXCEPT ![c] = Idle] /\ u \in favorite
    BY <1>0, <1>3 DEF toggle, Knows
  <2> HIDE DEF u
  <2>2. req'[c] = Idle /\ \A d \in Clients : d # c => req'[d] = Forget(u)[d]
    BY <2>1 DEF Forget
  <2>2a. ASSUME NEW d \in Clients, d # c
        PROVE  /\ req'[d] \in Request
               /\ req'[d].pc = req[d].pc /\ req'[d].user = req[d].user
               /\ req'[d].rating = req[d].rating /\ req'[d].signal = req[d].signal
               /\ req'[d].id = req[d].id /\ req'[d].update = req[d].update
               /\ req'[d].counted = req[d].counted /\ req'[d].alone = req[d].alone
               /\ req[d].user = u => req'[d].snap = FALSE
               /\ req[d].user # u => req'[d].snap = req[d].snap
    <3>1. req'[d] = IF req[d].user = u THEN [req[d] EXCEPT !.snap = FALSE] ELSE req[d]
      BY <2>2, <2>2a DEF Forget
    <3>2. req[d] \in Request
      BY DEF IInv, TypeOK
    <3> QED
      BY <3>1, <3>2 DEF Request
  <2>3. TypeOK'
    <3>1. \A d \in Clients : req'[d] \in Request
      BY <2>2, <2>2a, IdleTyped
    <3>2. req' \in [Clients -> Request]
      BY <3>1, <2>1 DEF Forget
    <3> QED
      BY <3>2, <2>1, <1>0 DEF IInv, TypeOK
  <2>4. Known'
    <3> SUFFICES ASSUME NEW d \in Clients PROVE Knows(d)'
      BY DEF Known
    <3>1. CASE d = c
      BY <3>1, <2>2, <1>0, IdleTyped, NoneAssumption DEF Knows, Open, IInv, TypeOK
    <3>2. CASE d # c
      <4>1. Knows(d)
        BY DEF IInv, Known
      <4>2. /\ req'[d].pc = req[d].pc /\ req'[d].user = req[d].user
            /\ req'[d].rating = req[d].rating /\ req'[d].signal = req[d].signal
            /\ req'[d].id = req[d].id /\ req'[d].update = req[d].update
            /\ req[d].user = u => req'[d].snap = FALSE
            /\ req[d].user # u => req'[d].snap = req[d].snap
        BY <3>2, <2>2a
      <4> QED
        BY <4>1, <4>2, <2>1, <1>0 DEF Knows, Open, Exists
    <3> QED
      BY <3>1, <3>2
  <2>5. Alone'
    <3> SUFFICES ASSUME NEW d \in Clients, Open(d)', req'[d].alone = TRUE
                 PROVE  /\ \A e \in Clients : Open(e)' => e = d
                        /\ req'[d].pc = "commit" => req'[d].counted = ActiveReviews(WithOwnRow(d)')
      BY DEF Alone, Undisturbed, ActiveReviews
    <3>1. d # c
      BY <2>2, IdleTyped DEF Open
    <3>2. \A e \in Clients : Open(e)' => Open(e)
      <4> SUFFICES ASSUME NEW e \in Clients, Open(e)' PROVE Open(e)
        OBVIOUS
      <4>1. e # c
        BY <2>2, IdleTyped DEF Open
      <4> QED
        BY <4>1, <2>2a DEF Open
    <3>3. /\ req'[d].pc = req[d].pc /\ req'[d].user = req[d].user
          /\ req'[d].rating = req[d].rating /\ req'[d].id = req[d].id
          /\ req'[d].update = req[d].update /\ req'[d].counted = req[d].counted
          /\ req'[d].alone = req[d].alone
      BY <3>1, <2>2a
    <3>4. Undisturbed(d) /\ Open(d)
      BY <3>2 DEF IInv, Alone
    <3>5. WithOwnRow(d)' = WithOwnRow(d)
      BY <3>3, <1>0 DEF WithOwnRow, Written
    <3> QED
      BY <3>2, <3>3, <3>4, <3>5 DEF Undisturbed
  <2>6. AnswersAddUp'
    BY <2>1, <1>0 DEF IInv, AnswersAddUp, TypeOK
  <2>7. ErasureSticks'
    BY <2>1, <1>0 DEF IInv, ErasureSticks, ReviewOf, Exists
  <2> QED
    BY <1>2, <2>3, <2>4, <2>5, <2>6, <2>7 DEF IInv
<1>4. CASE req[c].snap # TRUE
  <2>1. /\ req' = [req EXCEPT ![c] = Idle]
        /\ \/ u \notin favorite /\ favorite' = favorite \cup {u}
              /\ answered' = [answered EXCEPT ![u] = @ + 1]
           \/ UNCHANGED <<favorite, answered>>
    BY <1>4 DEF toggle, Return
  <2>2. req' \in [Clients -> Request] /\ Moved(c, Idle) /\ req'[c] = Idle
    BY <2>1, IdleTyped, Moves DEF IInv, Moved
  <2> HIDE DEF u
  <2>3. TypeOK'
    BY <1>0, <2>1, <2>2 DEF IInv, TypeOK
  <2>4. Knows(c)'
    BY <1>0, <2>2, IdleTyped, NoneAssumption DEF Knows, Open, IInv, TypeOK
  <2>5. Known' /\ Alone'
    BY <1>0, <2>1, <2>2, <2>4, IdleTyped, OthersKnow, OthersAlone DEF Exists
  <2>6. AnswersAddUp'
    BY <2>1, <1>0 DEF IInv, AnswersAddUp, TypeOK
  <2>7. ErasureSticks'
    BY <2>1, <1>0, <1>1 DEF IInv, ErasureSticks, ReviewOf, Exists
  <2> QED
    BY <1>2, <2>3, <2>5, <2>6, <2>7 DEF IInv
<1> QED
  BY <1>3, <1>4

\* Hiding and restoring count as a disturbance of everybody.
LEMMA ReviewStateStep ==
    ASSUME IInv, NEW i \in Ids, NEW from \in {"ACTIVE", "HIDDEN"}, NEW to \in {"ACTIVE", "HIDDEN"},
           SetReviewState(i, from, to)
    PROVE  IInv'
<1>0. /\ review[i].state = from /\ disturbed' = TRUE
      /\ review' = [review EXCEPT ![i].state = to]
      /\ req' = [d \in Clients |-> [req[d] EXCEPT !.alone = FALSE]]
      /\ UNCHANGED <<location, verification, favorite, audit, begun, erased, late, answered>>
  BY DEF SetReviewState
<1>1. /\ review' \in [Ids -> ReviewRow \cup {NoReview}]
      /\ \A j \in Ids : /\ Exists(j)' <=> Exists(j)
                        /\ review'[j].author = review[j].author
                        /\ review'[j].rating = review[j].rating
                        /\ review'[j].newest = review[j].newest
  <2>1. review[i] \in ReviewRow
    BY <1>0 DEF IInv, TypeOK, NoReview
  <2>2. /\ [review[i] EXCEPT !.state = to] \in ReviewRow
        /\ [review[i] EXCEPT !.state = to].state = to
        /\ [review[i] EXCEPT !.state = to].author = review[i].author
        /\ [review[i] EXCEPT !.state = to].rating = review[i].rating
        /\ [review[i] EXCEPT !.state = to].newest = review[i].newest
    BY <2>1 DEF ReviewRow
  <2>3. review' = [review EXCEPT ![i] = [review[i] EXCEPT !.state = to]]
    BY <1>0 DEF IInv, TypeOK
  <2> DEFINE row == [review[i] EXCEPT !.state = to]
  <2> HIDE DEF row
  <2> QED
    BY <2>2, <2>3, <1>0 DEF IInv, TypeOK, Exists, row
<1>2. ASSUME NEW d \in Clients
      PROVE  /\ req'[d] \in Request /\ req'[d].alone = FALSE
             /\ req'[d].pc = req[d].pc /\ req'[d].user = req[d].user /\ req'[d].id = req[d].id
             /\ req'[d].rating = req[d].rating /\ req'[d].signal = req[d].signal
             /\ req'[d].snap = req[d].snap /\ req'[d].update = req[d].update
  <2>1. req'[d] = [req[d] EXCEPT !.alone = FALSE] /\ req[d] \in Request
    BY <1>0 DEF IInv, TypeOK
  <2> QED
    BY <2>1 DEF Request
<1>3. TypeOK'
  <2>1. req' \in [Clients -> Request]
    BY <1>0, <1>2
  <2> QED
    BY <2>1, <1>0, <1>1 DEF IInv, TypeOK
<1>4. Known'
  <2> SUFFICES ASSUME NEW d \in Clients PROVE Knows(d)'
    BY DEF Known
  <2>1. Knows(d)
    BY DEF IInv, Known
  <2>2. Open(d)' /\ req'[d].update = TRUE => Exists(req[d].id)'
    BY <2>1, <1>1, <1>2 DEF Knows, Open, Exists
  <2>3. UNCHANGED <<verification, favorite, erased, late>>
    BY <1>0
  <2> QED
    BY <2>1, <2>2, <2>3, <1>2 DEF Knows, Open
<1>5. Alone' /\ HealsAlone'
  BY <1>0, <1>2 DEF Alone, Undisturbed, HealsAlone
<1>6. NewestIsPublished'
  BY <1>1 DEF IInv, NewestIsPublished
<1>7. ErasureSticks'
  BY <1>0, <1>1 DEF IInv, ErasureSticks, ReviewOf
<1>8. FreshnessIsBacked' /\ AnswersAddUp'
  BY <1>0, SameSignals, SameAnswers
<1> QED
  BY <1>3, <1>4, <1>5, <1>6, <1>7, <1>8 DEF IInv

LEMMA ParkingStateStep ==
    ASSUME IInv, set_parking_state
    PROVE  IInv'
<1>0. UNCHANGED <<review, verification, favorite, audit, req, history>>
      /\ location' = [location EXCEPT !.state = IF @ = "ACTIVE" THEN "INVALID" ELSE "ACTIVE"]
  BY DEF set_parking_state
<1>1. location' \in LocationRow /\ location'.counted = location.counted
      /\ location'.verified = location.verified
  BY <1>0 DEF IInv, TypeOK, LocationRow
<1>2. TypeOK'
  BY <1>0, <1>1 DEF IInv, TypeOK, history
<1>3. Known'
  BY <1>0 DEF IInv, Known, Knows, Open, Exists, history
<1>4. Alone'
  BY <1>0 DEF IInv, Alone, Undisturbed, Open, WithOwnRow, Written, ActiveReviews
<1>5. HealsAlone' /\ NewestIsPublished'
  BY <1>0, <1>1 DEF IInv, HealsAlone, NewestIsPublished, ActiveReviews, Exists, history
<1>6. FreshnessIsBacked' /\ ErasureSticks' /\ AnswersAddUp'
  BY <1>0, <1>1, SameSignals, SameNames, SameAnswers DEF history
<1> QED
  BY <1>2, <1>3, <1>4, <1>5, <1>6 DEF IInv

\* Names go, and the ratings, states and existence signals stay.
LEMMA EraseStep ==
    ASSUME IInv, NEW u \in Users, anonymize(u)
    PROVE  IInv'
<1>0. /\ erased' = erased \cup {u} /\ favorite' = favorite \ {u}
      /\ late' = IF \E c \in Clients : req[c].user = u THEN late \cup {u} ELSE late
      /\ review' = [i \in Ids |-> IF i \in ReviewOf(u) THEN [review[i] EXCEPT !.author = None]
                                  ELSE review[i]]
      /\ answered' = [answered EXCEPT ![u] = 0] /\ req' = Forget(u)
      /\ UNCHANGED <<location, audit, begun, disturbed>>
  BY DEF anonymize
<1>1. ASSUME NEW i \in Ids
      PROVE  /\ review'[i] \in ReviewRow \cup {NoReview}
             /\ review'[i].state = review[i].state /\ review'[i].rating = review[i].rating
             /\ review'[i].newest = review[i].newest
             /\ review'[i].author = IF i \in ReviewOf(u) THEN None ELSE review[i].author
  <2>1. review[i] \in ReviewRow \cup {NoReview}
    BY DEF IInv, TypeOK
  <2>2. CASE i \in ReviewOf(u)
    <3>1. review'[i] = [review[i] EXCEPT !.author = None] /\ review[i] \in ReviewRow
      BY <2>1, <2>2, <1>0 DEF ReviewOf, Exists, NoReview
    <3> QED
      BY <2>2, <3>1 DEF ReviewRow
  <2>3. CASE i \notin ReviewOf(u)
    BY <2>1, <2>3, <1>0
  <2> QED
    BY <2>2, <2>3
<1>2. ASSUME NEW d \in Clients
      PROVE  /\ req'[d] \in Request
             /\ req'[d].pc = req[d].pc /\ req'[d].user = req[d].user
             /\ req'[d].rating = req[d].rating /\ req'[d].signal = req[d].signal
             /\ req'[d].id = req[d].id /\ req'[d].update = req[d].update
             /\ req'[d].counted = req[d].counted /\ req'[d].alone = req[d].alone
             /\ req[d].user = u => req'[d].snap = FALSE
             /\ req[d].user # u => req'[d].snap = req[d].snap
  <2>1. req'[d] = IF req[d].user = u THEN [req[d] EXCEPT !.snap = FALSE] ELSE req[d]
    BY <1>0 DEF Forget
  <2>2. req[d] \in Request
    BY DEF IInv, TypeOK
  <2> QED
    BY <2>1, <2>2 DEF Request
<1>3. /\ verification' \subseteq VerificationRow
      /\ \A v \in verification' : v.user # u /\ (v \in verification \/ v.user = None)
      /\ (\E v \in verification : is_still_exists(v.signal))
           => \E v \in verification' : is_still_exists(v.signal)
  <2> DEFINE kept == {v \in verification : v.user # u}
             gone == {w \in verification : w.user = u /\ w.signal.kind # "parked_here"}
             bare(v) == [user |-> None, signal |-> v.signal]
  <2>1. verification' = kept \cup {bare(v) : v \in gone}
    BY DEF anonymize
  <2>2. \A v \in verification : v.user \in Users \cup {None} /\ v.signal \in Signal
    BY DEF IInv, TypeOK, VerificationRow
  <2>3. \A v \in gone : bare(v) \in VerificationRow /\ bare(v).user = None
                        /\ bare(v).signal = v.signal
    BY <2>2 DEF VerificationRow
  <2>4. u # None
    BY NoneAssumption
  <2>5. verification' \subseteq VerificationRow
    BY <2>1, <2>3 DEF IInv, TypeOK
  <2>6. \A v \in verification' : v.user # u /\ (v \in verification \/ v.user = None)
    BY <2>1, <2>3, <2>4
  <2>7. ASSUME NEW v \in verification, is_still_exists(v.signal)
        PROVE  \E w \in verification' : is_still_exists(w.signal)
    <3>1. CASE v.user # u
      BY <3>1, <2>1, <2>7
    <3>2. CASE v.user = u
      <4>1. v \in gone
        BY <3>2, <2>7 DEF is_still_exists
      <4>2. bare(v) \in verification' /\ bare(v).signal = v.signal
        BY <4>1, <2>1, <2>3
      <4> QED
        BY <4>2, <2>7
    <3> QED
      BY <3>1, <3>2
  <2> QED
    BY <2>5, <2>6, <2>7
<1>4. TypeOK'
  <2>1. req' \in [Clients -> Request] /\ review' \in [Ids -> ReviewRow \cup {NoReview}]
    BY <1>0, <1>1, <1>2 DEF Forget
  <2>2. erased' \subseteq Users /\ late' \subseteq erased' /\ favorite' \subseteq Users
        /\ answered' \in [Users -> Int]
    BY <1>0 DEF IInv, TypeOK
  <2> QED
    BY <2>1, <2>2, <1>0, <1>3 DEF IInv, TypeOK
<1>5. Known'
  <2> SUFFICES ASSUME NEW d \in Clients PROVE Knows(d)'
    BY DEF Known
  <2>1. Knows(d)
    BY DEF IInv, Known
  <2>2. req'[d].user \in erased' => req'[d].user \in late'
    BY <2>1, <1>0, <1>2 DEF Knows
  <2>3. req'[d].pc = "mark" => \E v \in verification' : is_still_exists(v.signal)
    BY <2>1, <1>2, <1>3 DEF Knows
  <2>4. Open(d)' /\ req'[d].update = TRUE => Exists(req[d].id)'
    BY <2>1, <1>1, <1>2 DEF Knows, Open, Exists
  <2>5. req'[d].snap = TRUE => req'[d].pc = "toggle" /\ req'[d].user \in favorite'
    BY <2>1, <1>0, <1>2 DEF Knows
  <2> QED
    BY <2>1, <2>2, <2>3, <2>4, <2>5, <1>2 DEF Knows, Open
<1>6. Alone'
  <2> SUFFICES ASSUME NEW d \in Clients, Open(d)', req'[d].alone = TRUE
               PROVE  /\ \A e \in Clients : Open(e)' => e = d
                      /\ req'[d].pc = "commit" => req'[d].counted = ActiveReviews(WithOwnRow(d)')
    BY DEF Alone, Undisturbed, ActiveReviews
  <2>1. \A e \in Clients : Open(e)' => Open(e)
    BY <1>2 DEF Open
  <2>2. Undisturbed(d) /\ Open(d) /\ req[d].alone = TRUE
    BY <2>1, <1>2 DEF IInv, Alone
  <2>3. ActiveReviews(WithOwnRow(d)') = ActiveReviews(WithOwnRow(d))
    <3>1. req[d].id \in Ids
      BY <2>2, OwnRow
    <3>2. Written(d)' = Written(d)
      BY <3>1, <1>1, <1>2 DEF Written
    <3>3. \A i \in Ids : /\ WithOwnRow(d)[i] = IF i = req[d].id THEN Written(d) ELSE review[i]
                         /\ WithOwnRow(d)'[i] = IF i = req[d].id THEN Written(d) ELSE review'[i]
      BY <3>1, <3>2, <1>0, <1>2 DEF WithOwnRow, IInv, TypeOK
    <3>4. \A i \in Ids : /\ WithOwnRow(d)'[i].state = WithOwnRow(d)[i].state
                         /\ WithOwnRow(d)'[i].rating = WithOwnRow(d)[i].rating
      BY <3>3, <1>1
    <3> QED
      BY <3>4, SameCount
  <2> QED
    BY <2>1, <2>2, <2>3, <1>2 DEF Undisturbed
<1>7. HealsAlone'
  <2>1. ActiveReviews(review') = ActiveReviews(review)
    BY <1>1, SameCount
  <2>2. ActiveReviews(review)' = ActiveReviews(review')
    BY DEF ActiveReviews
  <2> QED
    BY <2>1, <2>2, <1>0 DEF IInv, HealsAlone
<1>8. NewestIsPublished'
  BY <1>1 DEF IInv, NewestIsPublished, Exists
<1>9. FreshnessIsBacked'
  BY <1>0, <1>3 DEF IInv, FreshnessIsBacked
<1>10. ErasureSticks'
  <2> SUFFICES ASSUME NEW w \in erased' \ late'
               PROVE  /\ \A i \in Ids : ~(review'[i].state # "absent" /\ review'[i].author = w)
                      /\ w \notin favorite' /\ \A v \in verification' : v.user # w
    BY DEF ErasureSticks, ReviewOf, Exists
  <2>1. w # None /\ u # None
    BY <1>0, NoneAssumption DEF IInv, TypeOK
  <2>2. CASE w = u
    BY <2>1, <2>2, <1>0, <1>1, <1>3 DEF ReviewOf, Exists
  <2>3. CASE w # u
    <3>1. w \in erased \ late
      BY <2>3, <1>0
    <3> QED
      BY <2>1, <3>1, <1>0, <1>1, <1>3 DEF IInv, ErasureSticks, ReviewOf, Exists
  <2> QED
    BY <2>2, <2>3
<1>11. AnswersAddUp'
  BY <1>0 DEF IInv, AnswersAddUp, TypeOK
<1> QED
  BY <1>4, <1>5, <1>6, <1>7, <1>8, <1>9, <1>10, <1>11 DEF IInv

LEMMA StutterStep == IInv /\ UNCHANGED vars => IInv'
<1> SUFFICES ASSUME IInv, UNCHANGED vars PROVE IInv'
  OBVIOUS
<1>0. UNCHANGED <<location, review, verification, favorite, audit, req>>
      /\ UNCHANGED <<begun, erased, disturbed, late, answered>>
  BY DEF vars, table, history
<1>1. TypeOK'
  BY <1>0 DEF IInv, TypeOK
<1>2. Known'
  BY <1>0 DEF IInv, Known, Knows, Open, Exists
<1>3. Alone'
  BY <1>0 DEF IInv, Alone, Undisturbed, Open, WithOwnRow, Written, ActiveReviews
<1>4. HealsAlone' /\ NewestIsPublished' /\ FreshnessIsBacked' /\ ErasureSticks' /\ AnswersAddUp'
  BY <1>0, SameReviews, SameSignals, SameNames, SameAnswers
<1> QED
  BY <1>1, <1>2, <1>3, <1>4 DEF IInv

LEMMA StepPreserves == IInv /\ [Next]_vars => IInv'
<1> SUFFICES ASSUME IInv, [Next]_vars PROVE IInv'
  OBVIOUS
<1>1. ASSUME NEW c \in Clients, NEW u \in Users, NEW n \in Stars, review_post(c, u, n)
      PROVE  IInv'
  BY <1>1, ReviewPostStep
<1>2. ASSUME NEW c \in Clients, NEW u \in Users, NEW f \in VerifyForm,
             parking_verify_post(c, u, f)
      PROVE  IInv'
  BY <1>2, VerifyStep DEF parking_verify_post
<1>3. ASSUME NEW c \in Clients, NEW u \in Users,
             parking_parked_here_post(c, u) \/ parking_favorite_post(c, u)
      PROVE  IInv'
  <2>1. ParkedHere \in Signal
    BY DEF Signal
  <2> QED
    BY <1>3, <2>1, VerifyStep, FavoriteStep DEF parking_parked_here_post
<1>4. ASSUME NEW c \in Clients,
             \/ UpsertRow(c) \/ Aggregate(c) \/ CommitReview(c)
             \/ record(c) \/ mark_verified_at(c) \/ toggle(c)
             \/ RecordAudit(c) \/ Drop(c)
      PROVE  IInv'
  BY <1>4, UpsertStep, AggregateStep, CommitStep, RecordStep, MarkStep, ToggleStep,
     AuditStep, DropStep
<1>5. ASSUME NEW i \in Ids, hide_review(i) \/ restore_review(i)
      PROVE  IInv'
  BY <1>5, ReviewStateStep DEF hide_review, restore_review
<1>6. ASSUME NEW u \in Users, anonymize(u)
      PROVE  IInv'
  BY <1>6, EraseStep
<1>7. CASE set_parking_state
  BY <1>7, ParkingStateStep
<1>8. CASE UNCHANGED vars
  BY <1>8, StutterStep
<1> QED
  BY <1>1, <1>2, <1>3, <1>4, <1>5, <1>6, <1>7, <1>8 DEF Next

-----------------------------------------------------------------------------
\* The theorems

\* The inductive invariant holds in every reachable state, however the statements of
\* the requests, the moderators and the erasures interleave.
THEOREM Invariance == Spec => []IInv
BY InitEstablishes, StepPreserves, PTL DEF Spec

\* The aggregate on the location row drifts only after a hide, a restore or two
\* overlapping upserts, and the next undisturbed upsert_review repairs it.
THEOREM AggregateHeals == Spec => []HealsAlone
<1>1. IInv => HealsAlone
  BY DEF IInv
<1> QED
  BY Invariance, <1>1, PTL

\* The newest revision of a review is what its row shows.
THEOREM RevisionsFollow == Spec => []NewestIsPublished
<1>1. IInv => NewestIsPublished
  BY DEF IInv
<1> QED
  BY Invariance, <1>1, PTL

\* A location marked as verified has a still_exists row to show for it, also after the
\* account that sent it is erased.
THEOREM FreshnessBacked == Spec => []FreshnessIsBacked
<1>1. IInv => FreshnessIsBacked
  BY DEF IInv
<1> QED
  BY Invariance, <1>1, PTL

\* Only a request in flight at the time can attribute something to an erased account.
THEOREM ErasureHolds == Spec => []ErasureSticks
<1>1. IInv => ErasureSticks
  BY DEF IInv
<1> QED
  BY Invariance, <1>1, PTL

\* What the favourite button said adds up to the row, however clicks interleave.
THEOREM TogglesAddUp == Spec => []AnswersAddUp
<1>1. IInv => AnswersAddUp
  BY DEF IInv
<1> QED
  BY Invariance, <1>1, PTL

=============================================================================
