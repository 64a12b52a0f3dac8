---------------------------- MODULE PhotosProofs ----------------------------
(***************************************************************************)
(* Theorems about Photos for every number of uploads, every set of         *)
(* parents, accounts and requests, and every page size of the store.       *)
(***************************************************************************)
EXTENDS Photos, TLAPS, FiniteSetTheorems, WellFoundedInduction

-----------------------------------------------------------------------------
\* The inductive invariant, part by part

\* What a request knows of its photo.
Knows(c) ==
    req[c].pc # "idle" =>
        LET p == req[c].photo IN
        /\ p \in Uploads /\ p <= minted /\ req[c].parent \in Parents
        /\ req[c].pc = "undo" =>
              /\ req[c].undo \subseteq KeysOf(p) /\ req[c].undo # {}
              /\ row[p].state = "absent" \/ p \in unacked
        /\ req[c].pc \in {"delete_full", "delete_thumb"} => row[p].state \in {"REJECTED", "absent"}
        /\ req[c].pc \in {"place", "approve"} /\ Exists(p) => row[p].parent = req[c].parent

\* An upload that has not come to its INSERT is alone with its id: no row, no moderator,
\* no reconciliation.  Its objects are where it put them, or it is slow.
Mine(c, p) == req[c].pc # "idle" /\ req[c].photo = p
Writing(c) == req[c].pc \in {"put_full", "put_thumb", "insert"}
Writes(c) ==
    Writing(c) =>
        LET p == req[c].photo IN
        /\ row[p].state = "absent"
        /\ p \notin job.rows
        /\ \A d \in Clients : Mine(d, p) => d = c
        /\ p \notin slow => \A k \in KeysOf(p) : k \notin aged /\ k \notin job.keys
        /\ p \notin slow /\ req[c].pc \in {"put_thumb", "insert"} => FullKey(p) \in object
        /\ p \notin slow /\ req[c].pc = "insert" => ThumbKey(p) \in object

\* A position that nobody was approved at since it was read is above the gallery's.
InGallery(p) == row[p].state \in {"APPROVED", "HIDDEN"}
Places(c) ==
    req[c].pc = "approve" /\ req[c].stale = FALSE =>
        \A q \in Uploads : InGallery(q) /\ row[q].parent = req[c].parent
                           => row[q].position < req[c].position

\* An id that was not handed out has left no trace.
Unused(p) ==
    p > minted => /\ row[p].state = "absent"
                  /\ p \notin job.rows
                  /\ \A k \in KeysOf(p) : k \notin object /\ k \notin job.keys

\* A rejected photo is gone, or somebody is deleting it.
Disposed(p) ==
    row[p].state = "REJECTED" /\ p \notin leftover =>
        \/ \A k \in KeysOf(p) : k \notin object
        \/ \E c \in Clients : req[c].photo = p /\ req[c].pc = "delete_full"
        \/ /\ FullKey(p) \notin object
           /\ \E c \in Clients : req[c].photo = p /\ req[c].pc = "delete_thumb"

\* RowHasObjects for one photo.
Backed(p) == Kept(p) /\ p \notin slow \cup unacked => \A k \in KeysOf(p) : k \in object

\* What the job is about to delete belongs to no photo that counts on it.
Spared(p) == p \in slow \cup unacked \/ ~Kept(p)
Sweepable(p) == (\E k \in KeysOf(p) : k \in job.keys) => Spared(p)
Removable(p) == job.pc = "delete" /\ p = NextRow => Spared(p)

\* The orphans the sweep began with are nobody's, and what is left of them is ahead of it.
Nobodys(p) ==
    /\ row[p].state = "absent" /\ p <= minted
    /\ \A c \in Clients : req[c].photo = p => req[c].pc \notin UploadSteps
Ahead(k) == k \in job.keys \/ (job.truncated = TRUE /\ k > job.after)
Walked(p) ==
    job.pc = "sweep" =>
        \A k \in KeysOf(p) : k \in job.due =>
            Nobodys(p) /\ (k \in object => k \in aged /\ Ahead(k))

ClientOK(c) == Knows(c) /\ Writes(c) /\ Places(c)
PhotoOK(p) == Unused(p) /\ Disposed(p) /\ Backed(p) /\ Sweepable(p) /\ Removable(p) /\ Walked(p)

\* The inductive invariant.
IInv == /\ TypeOK
        /\ aged \subseteq object
        /\ \A c \in Clients : ClientOK(c)
        /\ \A p \in Uploads : PhotoOK(p)
        /\ job.pc = "delete" => job.rows # {}
        /\ GalleryOrder

-----------------------------------------------------------------------------
\* Least and greatest numbers

\* A set of naturals has a least element.
LEMMA Least ==
    ASSUME NEW T, T \subseteq Nat, T # {}
    PROVE  \E x \in T : \A y \in T : x <= y
<1> DEFINE R == OpToRel(<, Nat)
<1>1. \A x, y \in Nat : x < y => <<x, y>> \in R
  BY DEF OpToRel
<1>2. IsWellFoundedOn(R, Nat)
  BY NatLessThanWellFounded
<1> HIDE DEF R
<1>3. PICK x \in T : \A y \in T : ~(<<y, x>> \in R)
  BY <1>2, WFMin
<1>4. ASSUME NEW y \in T PROVE x <= y
  <2>1. x \in Nat /\ y \in Nat /\ ~(<<y, x>> \in R)
    BY <1>3
  <2>2. ~(y < x)
    BY <1>1, <2>1
  <2> QED
    BY <2>1, <2>2
<1> QED
  BY <1>4

\* A set of naturals with an upper bound has a greatest element, and Highest is it.
LEMMA HighestOfBounded ==
    ASSUME NEW S, S \subseteq Nat, S # {}, NEW n \in Nat, \A x \in S : x <= n
    PROVE  Highest(S) \in S /\ \A y \in S : y <= Highest(S)
<1> DEFINE T == {m \in Nat : \E x \in S : m = n - x}
<1>1. T \subseteq Nat
  OBVIOUS
<1>2. \A x \in S : x \in Nat /\ n - x \in T
  OBVIOUS
<1>3. T # {}
  BY <1>2
<1>4. PICK t \in T : \A y \in T : t <= y
  <2> HIDE DEF T
  <2> QED
    BY <1>1, <1>3, Least
<1>5. PICK x \in S : t = n - x
  OBVIOUS
<1> HIDE DEF T
<1>6. \A y \in S : y <= x
  BY <1>2, <1>4, <1>5
<1> QED
  BY <1>6 DEF Highest

\* Finitely many naturals have an upper bound: the least length without one would be one
\* more than a length with one.
LEMMA FinitelyManyBounded ==
    ASSUME NEW n \in Nat, NEW f, \A i \in 1 .. n : f[i] \in Nat
    PROVE  \E b \in Nat : \A i \in 1 .. n : f[i] <= b
<1> DEFINE Bound(m) == \E b \in Nat : \A i \in 1 .. m : f[i] <= b
<1> DEFINE T == {m \in 0 .. n : ~Bound(m)}
<1>1. CASE T = {}
  <2>1. n \in 0 .. n
    OBVIOUS
  <2>2. Bound(n)
    <3> HIDE DEF Bound
    <3> QED
      BY <1>1, <2>1
  <2> QED
    BY <2>2
<1>2. ASSUME T # {} PROVE FALSE
  <2>1. PICK m \in T : \A y \in T : m <= y
    <3>1. T \subseteq Nat
      OBVIOUS
    <3> HIDE DEF T
    <3> QED
      BY <1>2, <3>1, Least
  <2>2. m \in 0 .. n /\ ~Bound(m)
    OBVIOUS
  <2>3. Bound(0)
    OBVIOUS
  <2>4. m # 0 /\ m - 1 \in 0 .. n
    BY <2>2, <2>3
  <2>5. Bound(m - 1)
    <3>1. m - 1 \notin T
      <4> HIDE DEF T
      <4> QED
        BY <2>1, <2>2, <2>4
    <3> QED
      BY <2>4, <3>1
  <2>6. PICK b \in Nat : \A i \in 1 .. (m - 1) : f[i] <= b
    BY <2>5
  <2>7. f[m] \in Nat
    BY <2>2, <2>4
  <2>8. PICK e \in Nat : e >= b /\ e >= f[m]
    <3>1. CASE b >= f[m]
      BY <3>1
    <3>2. CASE f[m] >= b
      BY <2>7, <3>2
    <3> QED
      BY <2>7, <3>1, <3>2
  <2>9. ASSUME NEW i \in 1 .. m PROVE f[i] <= e
    <3>1. CASE i = m
      BY <2>7, <2>8, <3>1
    <3>2. CASE i # m
      <4>1. i \in 1 .. (m - 1) /\ f[i] \in Nat
        BY <2>2, <3>2
      <4> QED
        BY <2>6, <2>8, <4>1
    <3> QED
      BY <3>1, <3>2
  <2> QED
    BY <2>2, <2>9
<1> QED
  BY <1>1, <1>2

\* max_position is above every position of the parent.
LEMMA MaxPositionBounds ==
    ASSUME TypeOK, NEW x
    PROVE  /\ max_position(x) \in Nat
           /\ \A p \in Uploads : Exists(p) /\ row[p].parent = x
                                 => row[p].position <= max_position(x)
<1> DEFINE S == {0} \cup {row[p].position : p \in Placed(x)}
<1>1. \A p \in Uploads : row[p].position \in Nat
  BY DEF TypeOK, PhotoRow, NoRow
<1>2. PICK b \in Nat : \A p \in 1 .. MaxUploads : row[p].position <= b
  <2> DEFINE f == [p \in 1 .. MaxUploads |-> row[p].position]
  <2>1. \A p \in 1 .. MaxUploads : f[p] \in Nat
    BY <1>1 DEF Uploads
  <2>2. \E b \in Nat : \A i \in 1 .. MaxUploads : f[i] <= b
    <3> HIDE DEF f
    <3> QED
      BY <2>1, BoundsAssumption, FinitelyManyBounded
  <2> QED
    BY <2>2
<1>3. S \subseteq Nat /\ S # {}
  BY <1>1 DEF Placed
<1>4. \A y \in S : y <= b
  BY <1>2 DEF Placed, Uploads
<1>5. max_position(x) = Highest(S)
  BY DEF max_position
<1>6. \A p \in Uploads : Exists(p) /\ row[p].parent = x => row[p].position \in S
  BY DEF Placed
<1> HIDE DEF S
<1>7. Highest(S) \in S /\ \A y \in S : y <= Highest(S)
  BY <1>3, <1>4, HighestOfBounded
<1> QED
  BY <1>3, <1>5, <1>6, <1>7

\* A key belongs to one upload.
LEMMA KeysApart ==
    /\ \A p \in Uploads : KeysOf(p) \subseteq Keys /\ FullKey(p) # ThumbKey(p)
    /\ \A p, q \in Uploads : \A k \in KeysOf(p) : k \in KeysOf(q) => p = q
    /\ \A p \in Uploads : \A k \in KeysOf(p) : UploadOf(k) = p
    /\ \A k \in Keys : \E p \in Uploads : k \in KeysOf(p)
<1>1. \A p \in Uploads : KeysOf(p) \subseteq Keys /\ FullKey(p) # ThumbKey(p)
  BY BoundsAssumption DEF Uploads, KeysOf, Keys, FullKey, ThumbKey
<1>2. \A p, q \in Uploads : \A k \in KeysOf(p) : k \in KeysOf(q) => p = q
  BY BoundsAssumption DEF Uploads, KeysOf, FullKey, ThumbKey
<1>3. \A p \in Uploads : \A k \in KeysOf(p) : UploadOf(k) = p
  BY <1>2 DEF UploadOf
<1>4. ASSUME NEW k \in Keys PROVE \E p \in Uploads : k \in KeysOf(p)
  <2>1. k \in Int /\ 1 <= k /\ k <= 2 * MaxUploads /\ MaxUploads \in Nat
    BY BoundsAssumption DEF Keys
  <2>2. PICK p \in Int : k = 2 * p \/ k = 2 * p - 1
    <3> DEFINE h == k \div 2
    <3>1. h \in Int
      BY <2>1
    <3>2. k = 2 * h \/ k = 2 * h + 1
      BY <2>1
    <3> HIDE DEF h
    <3>3. CASE k = 2 * h
      BY <3>1, <3>3
    <3>4. CASE k = 2 * h + 1
      <4>1. h + 1 \in Int /\ k = 2 * (h + 1) - 1
        BY <3>1, <3>4
      <4> QED
        BY <4>1
    <3> QED
      BY <3>2, <3>3, <3>4
  <2>3. p \in Uploads
    BY <2>1, <2>2 DEF Uploads
  <2> QED
    BY <2>2, <2>3 DEF KeysOf, FullKey, ThumbKey
<1> QED
  BY <1>1, <1>2, <1>3, <1>4

-----------------------------------------------------------------------------
\* Steps that are about one photo

\* A request the step leaves as it was, its stale mark apart.
Kin(d) == /\ req'[d].pc = req[d].pc
          /\ req'[d].photo = req[d].photo
          /\ req'[d].parent = req[d].parent
          /\ req'[d].position = req[d].position
          /\ req'[d].undo = req[d].undo
          /\ req'[d].stale = FALSE => req[d].stale = FALSE

\* A request about photo p, or none at all, before and after the step.
About(d, p) == /\ req[d].pc = "idle" \/ req[d].photo = p
               /\ req'[d].pc = "idle" \/ req'[d].photo = p

\* What the step leaves of another photo.
Same(q) == /\ row'[q] = row[q]
           /\ \A k \in KeysOf(q) : (k \in object' <=> k \in object) /\ (k \in aged' <=> k \in aged)
           /\ q \in slow' <=> q \in slow
           /\ q \in unacked' <=> q \in unacked
           /\ q \in leftover' <=> q \in leftover
Local(p) == /\ \A q \in Uploads : q # p => Same(q)
            /\ \A d \in Clients : Kin(d) \/ About(d, p)
            /\ job' = job
            /\ minted \in Nat /\ minted' \in Nat /\ minted <= minted'

\* A step about p keeps what the requests on other photos know.
LEMMA OtherRequests ==
    ASSUME IInv, NEW p \in Uploads, Local(p), NEW d \in Clients, ~Mine(d, p)'
    PROVE  Knows(d)' /\ Writes(d)'
<1>1. CASE req'[d].pc = "idle"
  BY <1>1 DEF Knows, Writes, Writing
<1>2. CASE req'[d].pc # "idle"
  <2>1. Kin(d) /\ req[d].pc # "idle" /\ req'[d].photo # p
    BY <1>2 DEF Local, About, Kin, Mine
  <2>2. PICK q : /\ q = req[d].photo /\ req'[d].photo = q
                 /\ req'[d].pc = req[d].pc /\ req'[d].undo = req[d].undo
                 /\ req'[d].parent = req[d].parent
    BY <2>1 DEF Kin
  <2>3. Knows(d) /\ Writes(d)
    BY DEF IInv, ClientOK
  <2>4. q \in Uploads /\ q # p
    BY <2>1, <2>2, <2>3 DEF Knows
  <2>5. Same(q) /\ job' = job /\ minted \in Nat /\ minted' \in Nat /\ minted <= minted'
    BY <2>4 DEF Local
  <2>6. q \in Int
    BY <2>4, BoundsAssumption DEF Uploads
  <2>7. Knows(d)'
    <3>1. q <= minted /\ req[d].parent \in Parents
      BY <2>1, <2>2, <2>3 DEF Knows
    <3>2. q <= minted'
      BY <2>5, <2>6, <3>1
    <3>3. row'[q] = row[q] /\ (q \in unacked' <=> q \in unacked)
      BY <2>5 DEF Same
    <3>4. req[d].pc = "undo" =>
              /\ req[d].undo \subseteq KeysOf(q) /\ req[d].undo # {}
              /\ row[q].state = "absent" \/ q \in unacked
      BY <2>1, <2>2, <2>3 DEF Knows
    <3>5. req[d].pc \in {"delete_full", "delete_thumb"} => row[q].state \in {"REJECTED", "absent"}
      BY <2>1, <2>2, <2>3 DEF Knows
    <3>6. req[d].pc \in {"place", "approve"} /\ row[q].state # "absent" => row[q].parent = req[d].parent
      BY <2>1, <2>2, <2>3 DEF Knows, Exists
    <3> QED
      BY <2>2, <2>4, <3>1, <3>2, <3>3, <3>4, <3>5, <3>6
      DEF Knows, Exists, KeysOf, FullKey, ThumbKey, Uploads
  <2>8. \A e \in Clients : Mine(e, q)' => Mine(e, q)
    BY <2>4 DEF Local, Kin, About, Mine
  <2>9. Writes(d)'
    <3>1. FullKey(q) \in KeysOf(q) /\ ThumbKey(q) \in KeysOf(q)
      BY DEF KeysOf
    <3>2. Writing(d)' => Writing(d)
      BY <2>2 DEF Writing
    <3>3. \A e \in Clients : Writing(d)' => (Mine(e, q)' => e = d)
      BY <2>2, <2>3, <2>8, <3>2 DEF Writes
    <3> QED
      BY <2>2, <2>3, <2>5, <3>1, <3>2, <3>3 DEF Writes, Same, KeysOf, FullKey, ThumbKey
  <2> QED
    BY <2>7, <2>9
<1> QED
  BY <1>1, <1>2

\* A step about p keeps what is said of the other photos.
LEMMA OtherPhotos ==
    ASSUME IInv, NEW p \in Uploads, Local(p), NEW q \in Uploads, q # p
    PROVE  PhotoOK(q)'
<1>1. PhotoOK(q)
  BY DEF IInv
<1>2. Same(q) /\ job' = job /\ minted \in Nat /\ minted' \in Nat /\ minted <= minted' /\ q \in Int
  BY BoundsAssumption DEF Local, Uploads
<1>3. \A d \in Clients : Kin(d) \/ req'[d].pc = "idle" \/ req'[d].photo # q
  BY DEF Local, About
<1>4. \A d \in Clients : Kin(d) \/ req[d].pc = "idle" \/ req[d].photo # q
  BY DEF Local, About
<1>5. FullKey(q) \in KeysOf(q) /\ ThumbKey(q) \in KeysOf(q)
  BY DEF KeysOf
<1>6. KeysOf(q)' = KeysOf(q) /\ FullKey(q)' = FullKey(q) /\ ThumbKey(q)' = ThumbKey(q)
  BY DEF KeysOf, FullKey, ThumbKey
<1>7. Unused(q)'
  <2>1. q > minted' => q > minted
    BY <1>2
  <2>2. Unused(q)
    BY <1>1 DEF PhotoOK
  <2> QED
    BY <1>2, <1>6, <2>1, <2>2 DEF Unused, Same
<1>8. Disposed(q)'
  <2>1. Disposed(q)
    BY <1>1 DEF PhotoOK
  <2> QED
    BY <1>2, <1>4, <1>5, <1>6, <2>1 DEF Disposed, Same, Kin
<1>9. Backed(q)' /\ Sweepable(q)' /\ Removable(q)'
  <2>1. Backed(q) /\ Sweepable(q) /\ Removable(q)
    BY <1>1 DEF PhotoOK
  <2>2. Kept(q)' <=> Kept(q)
    BY <1>2 DEF Kept, Same
  <2>3. NextRow' = NextRow
    BY <1>2 DEF NextRow
  <2> QED
    BY <1>2, <1>6, <2>1, <2>2, <2>3 DEF Backed, Sweepable, Removable, Spared, Same
<1>10. Walked(q)'
  <2>1. Walked(q)
    BY <1>1 DEF PhotoOK
  <2>2. Nobodys(q) => Nobodys(q)'
    <3>1. q <= minted => q <= minted'
      BY <1>2
    <3> QED
      BY <1>2, <1>3, <3>1 DEF Nobodys, Same, Kin, UploadSteps
  <2> QED
    BY <1>2, <1>6, <2>1, <2>2 DEF Walked, Same, Ahead
<1> QED
  BY <1>7, <1>8, <1>9, <1>10 DEF PhotoOK

\* So the invariant is to be shown for p and for the requests about it.
LEMMA PhotoStep ==
    ASSUME IInv, NEW p \in Uploads, Local(p),
           TypeOK', (aged \subseteq object)', GalleryOrder', PhotoOK(p)',
           \A d \in Clients : Places(d)',
           \A d \in Clients : Mine(d, p)' => Knows(d)' /\ Writes(d)'
    PROVE  IInv'
<1>1. \A d \in Clients : ClientOK(d)'
  BY OtherRequests DEF ClientOK
<1>2. \A q \in Uploads : PhotoOK(q)'
  BY OtherPhotos
<1>3. Uploads' = Uploads /\ job' = job
  BY DEF Uploads, Local
<1> QED
  BY <1>1, <1>2, <1>3 DEF IInv

\* The gallery is what it was, or has lost a photo.
GalleryKept ==
    /\ \A q \in Uploads : InGallery(q)' => /\ InGallery(q)
                                           /\ row'[q].parent = row[q].parent
                                           /\ row'[q].position = row[q].position
    /\ raced \subseteq raced'
    /\ \A d \in Clients : Kin(d) \/ req'[d].pc # "approve"

\* A step that places no photo keeps the order of the gallery.
LEMMA SameGallery ==
    ASSUME IInv, GalleryKept
    PROVE  GalleryOrder' /\ \A d \in Clients : Places(d)'
<1>1. GalleryOrder'
  <2>1. GalleryOrder
    BY DEF IInv
  <2>2. ASSUME NEW p \in Uploads, NEW q \in Uploads, p # q, p \notin raced', q \notin raced',
               InGallery(p)', InGallery(q)', row'[p].parent = row'[q].parent
        PROVE  row'[p].position # row'[q].position
    BY <2>1, <2>2 DEF GalleryOrder, GalleryKept, InGallery
  <2> QED
    BY <2>2 DEF GalleryOrder, InGallery, Uploads
<1>2. ASSUME NEW d \in Clients PROVE Places(d)'
  <2>1. CASE Kin(d)
    <3>1. Places(d)
      BY DEF IInv, ClientOK
    <3> QED
      BY <2>1, <3>1 DEF Places, Kin, GalleryKept, Uploads
  <2>2. CASE req'[d].pc # "approve"
    BY <2>2 DEF Places
  <2> QED
    BY <2>1, <2>2 DEF GalleryKept
<1> QED
  BY <1>1, <1>2

-----------------------------------------------------------------------------
\* How a request moves

Others(c) == /\ req' \in [Clients -> Request]
             /\ \A d \in Clients : d # c => req'[d] = req[d]

LEMMA OthersKin ==
    ASSUME NEW c, Others(c), NEW d \in Clients, d # c
    PROVE  Kin(d)
BY DEF Others, Kin

LEMMA Fields ==
    ASSUME TypeOK, NEW c \in Clients
    PROVE  /\ req[c] \in Request
           /\ req[c].pc \in {"idle", "place", "approve"} \cup UploadSteps \cup RejectSteps
           /\ req[c].photo \in Uploads \cup {None} /\ req[c].parent \in Parents \cup {None}
           /\ req[c].position \in Nat /\ req[c].undo \subseteq Keys /\ req[c].stale \in BOOLEAN
<1>1. req[c] \in Request
  BY DEF TypeOK
<1> QED
  BY <1>1 DEF Request

LEMMA Replacing ==
    ASSUME TypeOK, NEW c \in Clients, NEW r \in Request, req' = [req EXCEPT ![c] = r]
    PROVE  Others(c) /\ req'[c] = r
BY DEF TypeOK, Others

LEMMA Returning ==
    ASSUME TypeOK, NEW c \in Clients, Return(c)
    PROVE  Others(c) /\ req'[c].pc = "idle"
<1>1. Idle \in Request /\ Idle.pc = "idle"
  BY DEF Idle, Request
<1> HIDE DEF Idle
<1> QED
  BY <1>1, Replacing DEF Return

\* The request goes on with the same photo and parent.
Going(c, step) == /\ Others(c)
                  /\ req'[c].pc = step
                  /\ req'[c].photo = req[c].photo
                  /\ req'[c].parent = req[c].parent
                  /\ req'[c].stale = req[c].stale

LEMMA GoingTo ==
    ASSUME TypeOK, NEW c \in Clients,
           NEW step \in {"idle", "place", "approve"} \cup UploadSteps \cup RejectSteps,
           Goto(c, step)
    PROVE  Going(c, step)
<1> DEFINE r == [req[c] EXCEPT !.pc = step]
<1>1. r \in Request
  BY Fields DEF Request
<1>2. r.pc = step /\ r.photo = req[c].photo /\ r.parent = req[c].parent /\ r.stale = req[c].stale
  BY Fields DEF Request
<1>3. req' = [req EXCEPT ![c] = r]
  BY DEF Goto
<1> HIDE DEF r
<1>4. Others(c) /\ req'[c] = r
  BY <1>1, <1>3, Replacing
<1> QED
  BY <1>2, <1>4 DEF Going

LEMMA GoingToUndo ==
    ASSUME TypeOK, NEW c \in Clients, NEW U \in SUBSET Keys,
           req' = [req EXCEPT ![c].pc = "undo", ![c].undo = U]
    PROVE  Going(c, "undo") /\ req'[c].undo = U
<1> DEFINE r == [req[c] EXCEPT !.pc = "undo", !.undo = U]
<1>1. r \in Request
  BY Fields DEF Request, UploadSteps
<1>2. /\ r.pc = "undo" /\ r.photo = req[c].photo /\ r.parent = req[c].parent
      /\ r.stale = req[c].stale /\ r.undo = U
  BY Fields DEF Request
<1>3. req' = [req EXCEPT ![c] = r]
  OBVIOUS
<1> HIDE DEF r
<1>4. Others(c) /\ req'[c] = r
  BY <1>1, <1>3, Replacing
<1> QED
  BY <1>2, <1>4 DEF Going

-----------------------------------------------------------------------------
\* What the invariant says of the photo a request is about

\* The photo of a request, and what makes the step about it.
LEMMA Subject ==
    ASSUME IInv, NEW c \in Clients, req[c].pc # "idle"
    PROVE  /\ req[c].photo \in Uploads /\ req[c].photo \in Nat /\ req[c].photo <= minted
           /\ req[c].parent \in Parents /\ Mine(c, req[c].photo)
BY BoundsAssumption DEF IInv, ClientOK, Knows, Mine, Uploads

\* Two requests about one photo: neither is writing it.
LEMMA Alone ==
    ASSUME IInv, NEW c \in Clients, NEW d \in Clients, c # d, NEW p, Mine(c, p), Mine(d, p)
    PROVE  ~Writing(d)
BY DEF IInv, ClientOK, Writes, Mine

\* While a request is writing or undoing an upload, no orphan of it is to be swept.
LEMMA NotDue ==
    ASSUME IInv, NEW c \in Clients, NEW p \in Uploads, req[c].photo = p,
           req[c].pc \in UploadSteps \/ row[p].state # "absent"
    PROVE  job.pc = "sweep" => \A k \in KeysOf(p) : k \notin job.due
BY DEF IInv, PhotoOK, Walked, Nobodys

LEMMA RowNotDue ==
    ASSUME IInv, NEW p \in Uploads, row[p].state # "absent"
    PROVE  job.pc = "sweep" => \A k \in KeysOf(p) : k \notin job.due
BY DEF IInv, PhotoOK, Walked, Nobodys

\* A row that stays rejected if it was, and where it was.
RowKept(q) == /\ row'[q].state # "absent" => /\ row[q].state # "absent"
                                             /\ row'[q].parent = row[q].parent
              /\ row[q].state = "REJECTED" => row'[q].state \in {"REJECTED", "absent"}

LEMMA KnowsKept ==
    ASSUME IInv, NEW d \in Clients, Kin(d), RowKept(req[d].photo),
           minted \in Nat, minted' \in Nat, minted <= minted', unacked \subseteq unacked'
    PROVE  Knows(d)'
<1>1. CASE req[d].pc = "idle"
  BY <1>1 DEF Kin, Knows
<1>2. CASE req[d].pc # "idle"
  <2>1. PICK q : /\ q = req[d].photo /\ req'[d].photo = q
                 /\ req'[d].pc = req[d].pc /\ req'[d].undo = req[d].undo
                 /\ req'[d].parent = req[d].parent
    BY DEF Kin
  <2>2. Knows(d)
    BY DEF IInv, ClientOK
  <2>3. q \in Uploads /\ q \in Nat /\ q <= minted /\ req[d].parent \in Parents
    BY <1>2, <2>1, Subject
  <2>4. q <= minted'
    BY <2>3
  <2>5. req[d].pc = "undo" =>
              /\ req[d].undo \subseteq KeysOf(q) /\ req[d].undo # {}
              /\ row'[q].state = "absent" \/ q \in unacked'
    BY <1>2, <2>1, <2>2 DEF Knows, RowKept
  <2>6. req[d].pc \in {"delete_full", "delete_thumb"} => row'[q].state \in {"REJECTED", "absent"}
    BY <1>2, <2>1, <2>2 DEF Knows, RowKept
  <2>7. req[d].pc \in {"place", "approve"} /\ row'[q].state # "absent" => row'[q].parent = req[d].parent
    BY <1>2, <2>1, <2>2 DEF Knows, Exists, RowKept
  <2> QED
    BY <2>1, <2>3, <2>4, <2>5, <2>6, <2>7 DEF Knows, Exists, KeysOf, FullKey, ThumbKey, Uploads
<1> QED
  BY <1>1, <1>2

\* The other requests about the photo of a step: moderators, and an abandoned upload's undo.
LEMMA Bystander ==
    ASSUME IInv, NEW d \in Clients, Kin(d), RowKept(req[d].photo),
           ~Writing(d),
           minted \in Nat, minted' \in Nat, minted <= minted', unacked \subseteq unacked'
    PROVE  Knows(d)' /\ Writes(d)'
<1>1. Knows(d)'
  BY KnowsKept
<1>2. Writes(d)'
  BY DEF Writes, Writing, Kin
<1> QED
  BY <1>1, <1>2

\* No row: nothing to dispose of, to keep or to spare.
LEMMA AbsentOK ==
    ASSUME NEW p, row'[p].state = "absent"
    PROVE  Disposed(p)' /\ Backed(p)' /\ Sweepable(p)' /\ Removable(p)'
BY DEF Disposed, Backed, Sweepable, Removable, Spared, Kept

\* What the photo of a step keeps when the row, the objects and the job are the same.
LEMMA StillOK ==
    ASSUME IInv, NEW p \in Uploads, row'[p] = row[p], job' = job, minted' = minted,
           \A k \in KeysOf(p) : k \in object' <=> k \in object,
           slow \subseteq slow', unacked \subseteq unacked'
    PROVE  Unused(p)' /\ Backed(p)' /\ Sweepable(p)' /\ Removable(p)'
<1>1. PhotoOK(p)
  BY DEF IInv
<1>2. KeysOf(p)' = KeysOf(p)
  BY DEF KeysOf, FullKey, ThumbKey
<1>3. NextRow' = NextRow
  BY DEF NextRow
<1>4. Spared(p) => Spared(p)'
  BY DEF Spared, Kept
<1>5. Kept(p)' => Kept(p)
  BY DEF Kept
<1>6. Unused(p)'
  BY <1>1, <1>2 DEF PhotoOK, Unused
<1>7. Backed(p)'
  BY <1>1, <1>2, <1>5 DEF PhotoOK, Backed
<1>8. Sweepable(p)' /\ Removable(p)'
  BY <1>1, <1>2, <1>3, <1>4 DEF PhotoOK, Sweepable, Removable
<1> QED
  BY <1>6, <1>7, <1>8

-----------------------------------------------------------------------------
\* The steps of a request

\* The store after a call on a key of p.
StoreKept(p) == /\ object' \subseteq Keys /\ aged' \subseteq Keys /\ aged' \subseteq object'
                /\ \A q \in Uploads : q # p =>
                     \A k \in KeysOf(q) : (k \in object' <=> k \in object) /\ (k \in aged' <=> k \in aged)

LEMMA StoreCall ==
    ASSUME IInv, NEW p \in Uploads, NEW k \in KeysOf(p), put(k) \/ delete(k) \/ UNCHANGED store
    PROVE  StoreKept(p)
<1>1. object \subseteq Keys /\ aged \subseteq Keys /\ aged \subseteq object
  BY DEF IInv, TypeOK
<1>2. k \in Keys
  BY KeysApart
<1>3. \A q \in Uploads : q # p => k \notin KeysOf(q)
  BY KeysApart
<1> QED
  BY <1>1, <1>2, <1>3 DEF StoreKept, put, delete, store

\* A step of c about p: what it leaves of everything else.
Step(c, p) == /\ Others(c) /\ About(c, p)
              /\ \A q \in Uploads : q # p => Same(q)
              /\ job' = job
              /\ minted \in Nat /\ minted' \in Nat /\ minted <= minted'
              /\ unacked \subseteq unacked' /\ raced \subseteq raced'

LEMMA StepLocal ==
    ASSUME NEW c \in Clients, NEW p \in Uploads, Step(c, p)
    PROVE  Local(p)
BY OthersKin DEF Step, Local

\* The row of p enters no gallery.
Unplaced(p) == InGallery(p)' => /\ InGallery(p)
                                /\ row'[p].parent = row[p].parent
                                /\ row'[p].position = row[p].position

LEMMA StepGallery ==
    ASSUME IInv, NEW c \in Clients, NEW p \in Uploads, Step(c, p), Unplaced(p),
           req'[c].pc # "approve"
    PROVE  GalleryOrder' /\ \A d \in Clients : Places(d)'
<1>1. GalleryKept
  <2>1. \A q \in Uploads : q # p => row'[q] = row[q]
    BY DEF Step, Same
  <2> QED
    BY <2>1, OthersKin DEF Step, GalleryKept, Unplaced, InGallery
<1> QED
  BY <1>1, SameGallery

\* What there is to show of a step of c about p that places no photo.
LEMMA ClientStep ==
    ASSUME IInv, NEW c \in Clients, NEW p \in Uploads, Step(c, p), RowKept(p), Unplaced(p),
           Mine(c, p) \/ row[p].state # "absent",
           req'[c].pc # "approve",
           TypeOK', (aged \subseteq object)', PhotoOK(p)',
           Mine(c, p)' => Knows(c)' /\ Writes(c)'
    PROVE  IInv'
<1>1. Local(p)
  BY StepLocal
<1>2. GalleryOrder' /\ \A d \in Clients : Places(d)'
  BY StepGallery
<1>3. ASSUME NEW d \in Clients, d # c, Mine(d, p)'
      PROVE  Knows(d)' /\ Writes(d)'
  <2>1. req'[d] = req[d] /\ Kin(d)
    BY <1>3, OthersKin DEF Step, Others
  <2>2. Mine(d, p) /\ req[d].photo = p
    BY <1>3, <2>1 DEF Mine
  <2>3. ~Writing(d)
    <3>1. CASE Mine(c, p)
      BY <1>3, <2>2, <3>1, Alone
    <3>2. CASE row[p].state # "absent"
      BY <2>2, <3>2 DEF IInv, ClientOK, Writes
    <3> QED
      BY <3>1, <3>2
  <2> QED
    BY <2>1, <2>2, <2>3, Bystander DEF Step
<1> QED
  BY <1>1, <1>2, <1>3, PhotoStep

\* The photo after a step that changes the request alone.
LEMMA RequestAlone ==
    ASSUME IInv, NEW c \in Clients, NEW p \in Uploads, Step(c, p),
           UNCHANGED <<row, store, minted, slow, unacked>>, leftover \subseteq leftover',
           \/ req[c].pc \notin {"delete_full", "delete_thumb"}
           \/ p \in leftover',
           req'[c].pc \in UploadSteps => req[c].pc \in UploadSteps /\ req[c].photo = req'[c].photo
    PROVE  PhotoOK(p)'
<1>1. Unused(p)' /\ Backed(p)' /\ Sweepable(p)' /\ Removable(p)'
  BY StillOK DEF store, Step
<1>2. PhotoOK(p) /\ \A d \in Clients : d # c => req'[d] = req[d]
  BY DEF IInv, Step, Others
<1>3. KeysOf(p)' = KeysOf(p) /\ FullKey(p)' = FullKey(p) /\ job' = job /\ object' = object /\ aged' = aged
  BY DEF KeysOf, FullKey, ThumbKey, Step, store
<1>4. Disposed(p)'
  BY <1>2, <1>3 DEF PhotoOK, Disposed
<1>5. Nobodys(p) => Nobodys(p)'
  BY <1>2 DEF Nobodys
<1>6. Walked(p)'
  BY <1>2, <1>3, <1>5 DEF PhotoOK, Walked, Ahead
<1> QED
  BY <1>1, <1>4, <1>6 DEF PhotoOK

\* The types of what a step changes.
LEMMA StepTypes ==
    ASSUME TypeOK, NEW c, Others(c), row' \in [Uploads -> PhotoRow \cup {NoRow}],
           object' \subseteq Keys, aged' \subseteq Keys, settled' = settled,
           minted' \in 0 .. MaxUploads, job' = job, faults' \in 0 .. MaxFaults,
           slow' = slow, unacked' \subseteq Uploads, leftover' \subseteq Uploads,
           raced' \subseteq Uploads
    PROVE  TypeOK'
BY DEF TypeOK, Others, Uploads, Keys, PhotoRow, NoRow, Job, Request

LEMMA Faults ==
    ASSUME TypeOK, Works \/ Fails
    PROVE  faults' \in 0 .. MaxFaults
BY BoundsAssumption DEF TypeOK, Works, Fails

\* The first put and the second, and what a put that failed leaves.
LEMMA UploadPhoto ==
    ASSUME IInv, NEW c \in Clients, NEW u \in Users, NEW x \in Parents, NEW f \in Form,
           upload_photo(c, u, x, f)
    PROVE  IInv'
<1>0. PICK p : p = minted + 1
  OBVIOUS
<1> DEFINE r == [Idle EXCEPT !.pc = "put_full", !.photo = p, !.parent = x]
<1>1. TypeOK /\ minted \in Nat /\ minted' = p /\ p \in Uploads /\ p \in Nat /\ p > minted
      /\ p \in 0 .. MaxUploads /\ minted <= p
  BY <1>0, BoundsAssumption DEF upload_photo, IInv, TypeOK, Uploads
<1>2. r \in Request /\ r.pc = "put_full" /\ r.photo = p /\ r.parent = x
  BY <1>1 DEF Idle, Request, UploadSteps
<1>3. req' = [req EXCEPT ![c] = r] /\ req[c].pc = "idle"
      /\ UNCHANGED <<row, store, settled, job, faults, history>>
  BY <1>0 DEF upload_photo, At
<1> HIDE DEF r
<1>4. Others(c) /\ req'[c] = r
  BY <1>1, <1>2, <1>3, Replacing
<1>5. PhotoOK(p)
  BY <1>1 DEF IInv
<1>6. row[p].state = "absent" /\ p \notin job.rows
      /\ \A k \in KeysOf(p) : k \notin object /\ k \notin job.keys /\ k \notin aged
  BY <1>1, <1>5 DEF PhotoOK, Unused, IInv
<1>7. \A d \in Clients : ~Mine(d, p)
  <2> SUFFICES ASSUME NEW d \in Clients, Mine(d, p) PROVE FALSE
    OBVIOUS
  <2>1. req[d].photo = p /\ req[d].pc # "idle"
    BY DEF Mine
  <2>2. p <= minted
    BY <2>1, Subject
  <2> QED
    BY <1>1, <2>2
<1>8. Local(p)
  BY <1>1, <1>2, <1>3, <1>4, OthersKin DEF Local, Same, About, store, history
<1>9. TypeOK'
  BY <1>1, <1>3, <1>4, StepTypes DEF TypeOK, store, history
<1>10. GalleryOrder' /\ \A d \in Clients : Places(d)'
  <2>1. GalleryKept
    BY <1>2, <1>3, <1>4, OthersKin DEF GalleryKept, InGallery, history
  <2> QED
    BY <2>1, SameGallery
<1>11. PhotoOK(p)'
  <2>1. row'[p].state = "absent" /\ job' = job /\ minted' = p
    BY <1>1, <1>3, <1>6
  <2>2. Disposed(p)' /\ Backed(p)' /\ Sweepable(p)' /\ Removable(p)'
    BY <2>1, AbsentOK
  <2>3. Unused(p)'
    BY <1>1, <2>1 DEF Unused
  <2>4. Walked(p)'
    <3>1. ~Nobodys(p)
      BY <1>1 DEF Nobodys
    <3>2. job.pc = "sweep" => \A k \in KeysOf(p) : k \notin job.due
      BY <1>5, <3>1 DEF PhotoOK, Walked
    <3> QED
      BY <2>1, <3>2 DEF Walked, KeysOf, FullKey, ThumbKey
  <2> QED
    BY <2>2, <2>3, <2>4 DEF PhotoOK
<1>12. ASSUME NEW d \in Clients, Mine(d, p)' PROVE Knows(d)' /\ Writes(d)'
  <2>1. \A e \in Clients : Mine(e, p)' => e = c
    BY <1>1, <1>3, <1>4, <1>7 DEF Mine, Others
  <2>2. req'[c].pc = "put_full" /\ req'[c].photo = p /\ req'[c].parent = x
    BY <1>2, <1>4
  <2>3. Knows(c)'
    BY <1>1, <2>2 DEF Knows
  <2>4. Writes(c)'
    BY <1>3, <1>6, <2>1, <2>2 DEF Writes, store, history, KeysOf, FullKey, ThumbKey
  <2> QED
    BY <1>12, <2>1, <2>3, <2>4
<1>13. (aged \subseteq object)'
  BY <1>3 DEF IInv, store
<1> QED
  BY <1>1, <1>8, <1>9, <1>10, <1>11, <1>12, <1>13, PhotoStep

\* Before its INSERT an upload may put, or fail to put, a key of its own, and goes on,
\* gives up or compensates.
Proceeds(c, p) ==
    /\ Others(c)
    /\ req'[c].pc \in {"idle", "put_thumb", "insert", "undo"}
    /\ req'[c].pc # "idle" => req'[c].photo = p /\ req'[c].parent = req[c].parent
    /\ req'[c].pc = "undo" => req'[c].undo \subseteq KeysOf(p) /\ req'[c].undo # {}
    /\ req'[c].pc \in {"put_thumb", "insert"} /\ p \notin slow => FullKey(p) \in object'
    /\ req'[c].pc = "insert" /\ p \notin slow => ThumbKey(p) \in object'

LEMMA WriterStep ==
    ASSUME IInv, NEW c \in Clients, NEW p, p = req[c].photo, Writing(c), Proceeds(c, p),
           NEW k \in KeysOf(p), put(k) \/ UNCHANGED store, Works \/ Fails,
           UNCHANGED <<row, settled, minted, job, history>>
    PROVE  IInv'
<1>1. TypeOK /\ Writes(c) /\ req[c].pc # "idle" /\ req[c].pc \in UploadSteps
  BY DEF IInv, ClientOK, Writing, UploadSteps
<1>2. p \in Uploads /\ p \in Nat /\ p <= minted /\ req[c].parent \in Parents /\ Mine(c, p)
  BY <1>1, Subject
<1>3. /\ row[p].state = "absent" /\ p \notin job.rows
      /\ \A d \in Clients : Mine(d, p) => d = c
      /\ p \notin slow => \A j \in KeysOf(p) : j \notin aged /\ j \notin job.keys
  BY <1>1 DEF Writes
<1>4. StoreKept(p)
  BY <1>2, StoreCall
<1>5. minted \in Nat /\ minted' = minted /\ row' = row /\ job' = job /\ slow' = slow
      /\ unacked' = unacked /\ leftover' = leftover /\ raced' = raced /\ settled' = settled
  BY <1>1, BoundsAssumption DEF TypeOK, history
<1>6. Step(c, p)
  BY <1>4, <1>5 DEF Step, Proceeds, About, Same, StoreKept
<1>7. TypeOK'
  <2>1. faults' \in 0 .. MaxFaults
    BY <1>1, Faults
  <2> QED
    BY <1>1, <1>4, <1>5, <2>1, StepTypes DEF TypeOK, StoreKept, Proceeds
<1>8. PhotoOK(p)'
  <2>1. Disposed(p)' /\ Backed(p)' /\ Sweepable(p)' /\ Removable(p)'
    BY <1>3, <1>5, AbsentOK
  <2>2. Unused(p)'
    BY <1>2, <1>5 DEF Unused
  <2>3. job.pc = "sweep" => \A j \in KeysOf(p) : j \notin job.due
    BY <1>1, <1>2, NotDue
  <2>4. Walked(p)'
    BY <1>5, <2>3 DEF Walked, KeysOf, FullKey, ThumbKey
  <2> QED
    BY <2>1, <2>2, <2>4 DEF PhotoOK
<1>9. ASSUME Mine(c, p)' PROVE Knows(c)' /\ Writes(c)'
  <2>1. req'[c].photo = p /\ req'[c].pc # "idle" /\ req'[c].parent \in Parents
        /\ req'[c].pc \in {"put_thumb", "insert", "undo"}
    BY <1>2, <1>9 DEF Mine, Proceeds
  <2>2. Knows(c)'
    BY <1>2, <1>3, <1>5, <2>1 DEF Knows, Proceeds, KeysOf, FullKey, ThumbKey, Uploads
  <2>3. Writing(c)' => aged' = aged \/ p \in slow
    BY DEF put, store
  <2>4. \A d \in Clients : Mine(d, p)' => d = c
    BY <1>3 DEF Proceeds, Others, Mine
  <2>5. Writes(c)'
    BY <1>3, <1>5, <2>1, <2>3, <2>4 DEF Writes, Writing, Proceeds, KeysOf, FullKey, ThumbKey
  <2> QED
    BY <2>2, <2>5
<1>10. RowKept(p) /\ Unplaced(p) /\ req'[c].pc # "approve" /\ (aged \subseteq object)'
  BY <1>3, <1>4, <1>5 DEF RowKept, Unplaced, InGallery, Proceeds, StoreKept
<1> QED
  BY <1>2, <1>6, <1>7, <1>8, <1>9, <1>10, ClientStep

\* put_full.
LEMMA PutFull ==
    ASSUME IInv, NEW c \in Clients, put_full(c)
    PROVE  IInv'
<1>1. PICK p : p = req[c].photo
  OBVIOUS
<1>2. TypeOK /\ Writing(c) /\ FullKey(p) \in KeysOf(p)
      /\ UNCHANGED <<row, settled, minted, job, history>>
  BY DEF IInv, put_full, At, Writing, KeysOf
<1>3. CASE Works /\ put(FullKey(p)) /\ Goto(c, "put_thumb")
  <2>1. Going(c, "put_thumb")
    BY <1>2, <1>3, GoingTo DEF UploadSteps
  <2>2. Proceeds(c, p)
    BY <1>1, <1>3, <2>1 DEF Going, Proceeds, put
  <2> QED
    BY <1>1, <1>2, <1>3, <2>2, WriterStep
<1>4. CASE PutFails(FullKey(p)) /\ Return(c)
  <2>1. Proceeds(c, p)
    BY <1>2, <1>4, Returning DEF Proceeds
  <2> QED
    BY <1>1, <1>2, <1>4, <2>1, WriterStep DEF PutFails
<1> QED
  BY <1>1, <1>3, <1>4 DEF put_full

\* put_thumb.
LEMMA PutThumb ==
    ASSUME IInv, NEW c \in Clients, put_thumb(c)
    PROVE  IInv'
<1>1. PICK p : p = req[c].photo
  OBVIOUS
<1>2. TypeOK /\ Writing(c) /\ FullKey(p) \in KeysOf(p) /\ ThumbKey(p) \in KeysOf(p)
      /\ UNCHANGED <<row, settled, minted, job, history>>
  BY DEF IInv, put_thumb, At, Writing, KeysOf
<1>3. p \notin slow => FullKey(p) \in object
  BY <1>1, <1>2 DEF IInv, ClientOK, Writes, put_thumb, At
<1>4. p \in Uploads
  BY <1>1, <1>2, Subject DEF Writing
<1>5. CASE Works /\ put(ThumbKey(p)) /\ Goto(c, "insert")
  <2>1. Going(c, "insert")
    BY <1>2, <1>5, GoingTo DEF UploadSteps
  <2>2. Proceeds(c, p)
    BY <1>1, <1>3, <1>5, <2>1 DEF Going, Proceeds, put
  <2> QED
    BY <1>1, <1>2, <1>5, <2>2, WriterStep
<1>6. CASE PutFails(ThumbKey(p)) /\ req' = [req EXCEPT ![c].pc = "undo", ![c].undo = {FullKey(p)}]
  <2>1. {FullKey(p)} \in SUBSET Keys
    BY <1>2, <1>4, KeysApart
  <2>2. Going(c, "undo") /\ req'[c].undo = {FullKey(p)}
    BY <1>2, <1>6, <2>1, GoingToUndo
  <2>3. Proceeds(c, p)
    BY <1>1, <1>2, <2>2 DEF Going, Proceeds
  <2> QED
    BY <1>1, <1>2, <1>6, <2>3, WriterStep DEF PutFails
<1> QED
  BY <1>1, <1>5, <1>6 DEF put_thumb

\* insert_pending that committed: the row has its objects, or the upload was slow, and
\* neither the sweep nor the reconciliation holds anything of it.
LEMMA InsertCommits ==
    ASSUME IInv, NEW c \in Clients, NEW p, p = req[c].photo, At(c, "insert"),
           row' = [row EXCEPT ![p] = PendingRow(req[c].parent)],
           Others(c), Works \/ Fails,
           \/ req'[c].pc = "idle" /\ unacked' = unacked
           \/ Going(c, "undo") /\ req'[c].undo = KeysOf(p) /\ unacked' = unacked \cup {p},
           UNCHANGED <<store, settled, minted, job, slow, leftover, raced>>
    PROVE  IInv'
<1>1. TypeOK /\ Writes(c) /\ req[c].pc # "idle" /\ req[c].pc \in UploadSteps /\ Writing(c)
  BY DEF IInv, ClientOK, At, Writing, UploadSteps
<1>2. p \in Uploads /\ p \in Nat /\ p <= minted /\ req[c].parent \in Parents /\ Mine(c, p)
  BY <1>1, Subject
<1>3. /\ row[p].state = "absent" /\ p \notin job.rows
      /\ \A d \in Clients : Mine(d, p) => d = c
      /\ p \notin slow => \A k \in KeysOf(p) : k \in object /\ k \notin job.keys
  BY <1>1 DEF Writes, At, KeysOf
<1>4. row' \in [Uploads -> PhotoRow \cup {NoRow}] /\ row'[p].state = "PENDING_REVIEW"
      /\ \A q \in Uploads : q # p => row'[q] = row[q]
  BY <1>1, <1>2 DEF TypeOK, PendingRow, PhotoRow, PhotoModerationState
<1>5. minted \in Nat /\ minted' = minted /\ job' = job /\ slow' = slow /\ object' = object
      /\ aged' = aged /\ leftover' = leftover /\ raced' = raced /\ settled' = settled
  BY <1>1, BoundsAssumption DEF TypeOK, store
<1>6. req'[c].pc \in {"idle", "undo"} /\ (req'[c].pc = "undo" => req'[c].photo = p)
  BY DEF Going
<1>7. Step(c, p)
  BY <1>4, <1>5, <1>6 DEF Step, About, Same
<1>8. TypeOK'
  <2>1. faults' \in 0 .. MaxFaults
    BY <1>1, Faults
  <2> QED
    BY <1>1, <1>2, <1>4, <1>5, <2>1, StepTypes DEF TypeOK
<1>9. PhotoOK(p)'
  <2>1. Unused(p)' /\ Disposed(p)' /\ Backed(p)' /\ Sweepable(p)'
    BY <1>2, <1>3, <1>4, <1>5
    DEF Unused, Disposed, Backed, Sweepable, Spared, Kept, KeysOf, FullKey, ThumbKey
  <2>2. Removable(p)'
    <3>1. job.pc = "delete" => NextRow \in job.rows
      <4>1. job.rows \subseteq Nat
        BY <1>1, BoundsAssumption DEF TypeOK, Job, Uploads
      <4> QED
        BY <4>1, Least DEF IInv, NextRow
    <3>2. NextRow' = NextRow
      BY <1>5 DEF NextRow
    <3> QED
      BY <1>3, <1>5, <3>1, <3>2 DEF Removable
  <2>3. job.pc = "sweep" => \A k \in KeysOf(p) : k \notin job.due
    BY <1>1, <1>2, NotDue
  <2>4. Walked(p)'
    BY <1>5, <2>3 DEF Walked, KeysOf, FullKey, ThumbKey
  <2> QED
    BY <2>1, <2>2, <2>4 DEF PhotoOK
<1>10. ASSUME NEW d \in Clients, Mine(d, p)' PROVE Knows(d)' /\ Writes(d)'
  <2>1. d = c
    BY <1>3, <1>10 DEF Others, Mine
  <2>2. Going(c, "undo") /\ req'[c].undo = KeysOf(p) /\ p \in unacked'
    BY <1>10, <2>1 DEF Mine
  <2>3. req'[c].pc = "undo" /\ req'[c].photo = p /\ req'[c].parent \in Parents
    BY <1>2, <2>2 DEF Going
  <2> QED
    BY <1>2, <1>5, <2>1, <2>2, <2>3 DEF Knows, Writes, Writing, KeysOf, FullKey, ThumbKey, Uploads
<1>11. GalleryOrder' /\ \A d \in Clients : Places(d)'
  <2>1. Unplaced(p) /\ req'[c].pc # "approve"
    BY <1>4, <1>6 DEF Unplaced, InGallery
  <2> QED
    BY <1>2, <1>7, <2>1, StepGallery
<1>12. (aged \subseteq object)'
  BY <1>5 DEF IInv
<1>13. Local(p)
  BY <1>2, <1>7, StepLocal
<1> QED
  BY <1>2, <1>8, <1>9, <1>10, <1>11, <1>12, <1>13, PhotoStep

LEMMA InsertPending ==
    ASSUME IInv, NEW c \in Clients, insert_pending(c)
    PROVE  IInv'
<1>1. PICK p : p = req[c].photo
  OBVIOUS
<1> DEFINE inserted == row' = [row EXCEPT ![p] = PendingRow(req[c].parent)]
<1>2. TypeOK /\ Writing(c) /\ FullKey(p) \in KeysOf(p) /\ At(c, "insert")
      /\ UNCHANGED <<store, settled, minted, job, slow, leftover, raced>>
  BY DEF IInv, insert_pending, At, Writing, KeysOf
<1>3. CASE Works /\ inserted /\ Return(c) /\ UNCHANGED unacked
  <2>1. Others(c) /\ req'[c].pc = "idle"
    BY <1>2, <1>3, Returning
  <2> QED
    BY <1>1, <1>2, <1>3, <2>1, InsertCommits
<1>4. ASSUME Fails, req' = [req EXCEPT ![c].pc = "undo", ![c].undo = KeysOf(p)],
             \/ UNCHANGED <<row, unacked>>
             \/ inserted /\ unacked' = unacked \cup {p}
      PROVE  IInv'
  <2>1. p \in Uploads /\ KeysOf(p) \in SUBSET Keys
    BY <1>1, <1>2, Subject, KeysApart DEF Writing
  <2>2. Going(c, "undo") /\ req'[c].undo = KeysOf(p) /\ Others(c)
    BY <1>2, <1>4, <2>1, GoingToUndo DEF Going
  <2>3. CASE UNCHANGED <<row, unacked>>
    <3>1. Proceeds(c, p)
      BY <1>1, <1>2, <2>2 DEF Going, Proceeds
    <3> QED
      BY <1>1, <1>2, <1>4, <2>3, <3>1, WriterStep DEF history
  <2>4. CASE inserted /\ unacked' = unacked \cup {p}
    BY <1>1, <1>2, <1>4, <2>2, <2>4, InsertCommits
  <2> QED
    BY <1>4, <2>3, <2>4
<1> QED
  BY <1>1, <1>3, <1>4 DEF insert_pending

\* What is left of an upload given up: no row, or one whose INSERT was not acknowledged.
LEMMA UndoUpload ==
    ASSUME IInv, NEW c \in Clients, undo_upload(c)
    PROVE  IInv'
<1>1. PICK p, k : /\ p = req[c].photo
                  /\ k = CHOOSE key \in req[c].undo : \A other \in req[c].undo : other <= key
  OBVIOUS
<1>2. TypeOK /\ At(c, "undo") /\ req[c].pc # "idle" /\ req[c].pc \in UploadSteps /\ Knows(c)
      /\ UNCHANGED <<row, settled, minted, job, history>>
  BY DEF IInv, ClientOK, undo_upload, At, UploadSteps
<1>3. p \in Uploads /\ p \in Nat /\ p <= minted /\ req[c].parent \in Parents /\ Mine(c, p)
  BY <1>1, <1>2, Subject
<1>4. /\ req[c].undo \subseteq KeysOf(p) /\ req[c].undo # {}
      /\ row[p].state = "absent" \/ p \in unacked
  BY <1>1, <1>2 DEF Knows, At
<1>5. k \in req[c].undo /\ k \in KeysOf(p)
  <2>1. req[c].undo \subseteq Nat /\ \A x \in req[c].undo : x <= 2 * MaxUploads
    BY <1>3, <1>4, KeysApart, BoundsAssumption DEF Keys
  <2>2. Highest(req[c].undo) \in req[c].undo
    BY <1>4, <2>1, HighestOfBounded, BoundsAssumption
  <2>3. Highest(req[c].undo) = k
    BY <1>1 DEF Highest
  <2> QED
    BY <1>4, <2>2, <2>3
<1>6. PICK rest : /\ rest = req[c].undo \ {k}
                  /\ IF rest = {} THEN Return(c) ELSE req' = [req EXCEPT ![c].undo = rest]
                  /\ (Works /\ delete(k)) \/ DeleteFails
  BY <1>1 DEF undo_upload
<1>7. Others(c) /\ req'[c].pc \in {"idle", "undo"}
      /\ (req'[c].pc = "undo" => /\ req'[c].photo = p /\ req'[c].parent = req[c].parent
                                 /\ req'[c].undo = rest /\ rest # {})
  <2>1. CASE rest = {}
    BY <1>2, <1>6, <2>1, Returning
  <2>2. CASE rest # {}
    <3>1. rest \in SUBSET Keys
      BY <1>3, <1>4, <1>6, KeysApart
    <3>2. req' = [req EXCEPT ![c].pc = "undo", ![c].undo = rest]
      <4>1. req \in [Clients -> Request] /\ req[c].pc = "undo"
        BY <1>2 DEF TypeOK, At
      <4>2. [req[c] EXCEPT !.undo = rest] = [req[c] EXCEPT !.pc = "undo", !.undo = rest]
        BY <4>1 DEF Request
      <4> QED
        BY <1>6, <2>2, <4>1, <4>2
    <3>3. Going(c, "undo") /\ req'[c].undo = rest
      BY <1>2, <3>1, <3>2, GoingToUndo
    <3> QED
      BY <1>1, <2>2, <3>3 DEF Going
  <2> QED
    BY <2>1, <2>2
<1>8. StoreKept(p)
  BY <1>3, <1>5, <1>6, StoreCall DEF DeleteFails
<1>9. minted \in Nat /\ minted' = minted /\ row' = row /\ job' = job /\ slow' = slow
      /\ unacked' = unacked /\ leftover' = leftover /\ raced' = raced /\ settled' = settled
  BY <1>2, BoundsAssumption DEF TypeOK, history
<1>10. Step(c, p)
  BY <1>1, <1>7, <1>8, <1>9 DEF Step, About, Same, StoreKept
<1>11. TypeOK'
  <2>1. faults' \in 0 .. MaxFaults
    BY <1>2, <1>6, Faults DEF DeleteFails
  <2> QED
    BY <1>2, <1>7, <1>8, <1>9, <2>1, StepTypes DEF TypeOK, StoreKept
<1>12. PhotoOK(p)'
  <2>1. Unused(p)'
    BY <1>3, <1>9 DEF Unused
  <2>2. job.pc = "sweep" => \A j \in KeysOf(p) : j \notin job.due
    BY <1>1, <1>2, <1>3, NotDue
  <2>3. Walked(p)'
    BY <1>9, <2>2 DEF Walked, KeysOf, FullKey, ThumbKey
  <2>4. CASE row[p].state = "absent"
    BY <1>9, <2>1, <2>3, <2>4, AbsentOK DEF PhotoOK
  <2>5. CASE p \in unacked
    <3>1. Backed(p)' /\ Sweepable(p)' /\ Removable(p)'
      BY <1>9, <2>5 DEF Backed, Sweepable, Removable, Spared
    <3>2. Disposed(p)'
      <4>1. Disposed(p)
        BY <1>3 DEF IInv, PhotoOK
      <4>2. \A j \in object' : j \in object
        BY <1>6 DEF delete, DeleteFails, store
      <4>3. \A d \in Clients : req[d].pc \in {"delete_full", "delete_thumb"} => req'[d] = req[d]
        BY <1>2, <1>7 DEF Others, At
      <4> QED
        BY <1>9, <4>1, <4>2, <4>3 DEF Disposed, KeysOf, FullKey, ThumbKey
    <3> QED
      BY <2>1, <2>3, <3>1, <3>2 DEF PhotoOK
  <2> QED
    BY <1>4, <2>4, <2>5
<1>13. ASSUME Mine(c, p)' PROVE Knows(c)' /\ Writes(c)'
  <2>1. req'[c].photo = p /\ req'[c].pc = "undo" /\ req'[c].parent \in Parents
        /\ req'[c].undo \subseteq KeysOf(p) /\ req'[c].undo # {}
    BY <1>3, <1>4, <1>6, <1>7, <1>13 DEF Mine
  <2> QED
    BY <1>3, <1>4, <1>9, <2>1 DEF Knows, Writes, Writing, KeysOf, FullKey, ThumbKey, Uploads
<1>14. RowKept(p) /\ Unplaced(p) /\ req'[c].pc # "approve" /\ (aged \subseteq object)'
  BY <1>7, <1>8, <1>9 DEF RowKept, Unplaced, InGallery, StoreKept
<1> QED
  BY <1>3, <1>10, <1>11, <1>12, <1>13, <1>14, ClientStep

\* A step that changes the request alone, or ends it.
LEMMA RequestOnly ==
    ASSUME IInv, NEW c \in Clients, NEW p \in Uploads, Others(c), About(c, p),
           Mine(c, p) \/ row[p].state # "absent",
           UNCHANGED <<row, store, settled, minted, job, slow, unacked, raced>>,
           leftover' = leftover \/ leftover' = leftover \cup {p},
           Works \/ Fails,
           \/ req[c].pc \notin {"delete_full", "delete_thumb"}
           \/ p \in leftover',
           req'[c].pc \notin UploadSteps, req'[c].pc # "approve",
           Mine(c, p)' => Knows(c)'
    PROVE  IInv'
<1>1. TypeOK
  BY DEF IInv
<1>2. minted \in Nat /\ minted' = minted /\ row' = row /\ job' = job /\ slow' = slow
      /\ object' = object /\ aged' = aged /\ unacked' = unacked /\ raced' = raced
      /\ settled' = settled
  BY <1>1, BoundsAssumption DEF TypeOK, store
<1>3. Step(c, p)
  BY <1>2 DEF Step, Same
<1>4. TypeOK'
  <2>1. faults' \in 0 .. MaxFaults
    BY <1>1, Faults
  <2> QED
    BY <1>1, <1>2, <2>1, StepTypes DEF TypeOK
<1>5. PhotoOK(p)'
  BY <1>3, RequestAlone
<1>6. Writes(c)'
  BY DEF Writes, Writing, UploadSteps
<1>7. RowKept(p) /\ Unplaced(p) /\ (aged \subseteq object)'
  BY <1>2 DEF RowKept, Unplaced, InGallery, IInv
<1> QED
  BY <1>3, <1>4, <1>5, <1>6, <1>7, ClientStep

LEMMA GetForModeration ==
    ASSUME IInv, NEW c \in Clients, NEW p \in Uploads, NEW step \in {"place", "reject"},
           get_for_moderation(c, p, step)
    PROVE  IInv'
<1>1. TypeOK /\ req[c].pc = "idle" /\ row[p].state = "PENDING_REVIEW"
      /\ UNCHANGED <<row, store, settled, minted, job, faults, history>>
  BY DEF IInv, get_for_moderation, At
<1>2. row[p].parent \in Parents
  BY <1>1 DEF TypeOK, PhotoRow, NoRow
<1> DEFINE r == [Idle EXCEPT !.pc = step, !.photo = p, !.parent = row[p].parent]
<1>3. r \in Request /\ r.pc = step /\ r.photo = p /\ r.parent = row[p].parent
  BY <1>2 DEF Idle, Request, RejectSteps
<1>4. req' = [req EXCEPT ![c] = r]
  BY DEF get_for_moderation
<1> HIDE DEF r
<1>5. Others(c) /\ req'[c] = r
  BY <1>1, <1>3, <1>4, Replacing
<1>6. req'[c].pc = step /\ req'[c].photo = p /\ req'[c].parent = row[p].parent
  BY <1>3, <1>5
<1>7. p <= minted
  <2>1. p \in Nat /\ minted \in Nat /\ Unused(p)
    BY <1>1, BoundsAssumption DEF TypeOK, Uploads, IInv, PhotoOK
  <2> QED
    BY <1>1, <2>1 DEF Unused
<1>8. Knows(c)'
  BY <1>1, <1>2, <1>6, <1>7 DEF Knows, Exists
<1>9. About(c, p) /\ req'[c].pc \notin UploadSteps /\ req'[c].pc # "approve"
  BY <1>1, <1>6 DEF About, UploadSteps
<1> QED
  BY <1>1, <1>5, <1>8, <1>9, RequestOnly DEF history, Works

\* The request ends early; a delete it did not make is a leftover.
LEMMA Dropped ==
    ASSUME IInv, NEW c \in Clients, Drop(c)
    PROVE  IInv'
<1>1. PICK p : p = req[c].photo
  OBVIOUS
<1>2. TypeOK /\ req[c].pc # "idle" /\ Fails /\ Return(c)
      /\ UNCHANGED <<row, store, settled, minted, job, slow, unacked, raced>>
  BY DEF IInv, Drop
<1>3. p \in Uploads /\ Mine(c, p)
  BY <1>1, <1>2, Subject
<1>4. Others(c) /\ req'[c].pc = "idle"
  BY <1>2, Returning
<1>5. /\ leftover' = leftover \/ leftover' = leftover \cup {p}
      /\ req[c].pc \notin {"delete_full", "delete_thumb"} \/ p \in leftover'
  BY <1>1 DEF Drop
<1>6. About(c, p) /\ req'[c].pc \notin UploadSteps /\ req'[c].pc # "approve" /\ ~Mine(c, p)'
  BY <1>1, <1>4 DEF About, UploadSteps, Mine
<1> QED
  BY <1>2, <1>3, <1>4, <1>5, <1>6, RequestOnly

\* A request that finds its photo no longer pending.
LEMMA NotPending ==
    ASSUME IInv, NEW c \in Clients, At(c, "approve") \/ At(c, "reject"), Return(c),
           UNCHANGED <<row, store, settled, minted, job, faults, history>>
    PROVE  IInv'
<1>1. PICK p : p = req[c].photo
  OBVIOUS
<1>2. TypeOK /\ req[c].pc # "idle" /\ req[c].pc \notin {"delete_full", "delete_thumb"}
  BY DEF IInv, At
<1>3. p \in Uploads /\ Mine(c, p)
  BY <1>1, <1>2, Subject
<1>4. Others(c) /\ req'[c].pc = "idle"
  BY <1>2, Returning
<1>5. About(c, p) /\ req'[c].pc \notin UploadSteps /\ req'[c].pc # "approve" /\ ~Mine(c, p)'
  BY <1>1, <1>4 DEF About, UploadSteps, Mine
<1> QED
  BY <1>2, <1>3, <1>4, <1>5, RequestOnly DEF history, Works

\* The position read is above every position of the parent.
LEMMA PlaceStep ==
    ASSUME IInv, NEW c \in Clients, place(c)
    PROVE  IInv'
<1>1. PICK p, n : p = req[c].photo /\ n = max_position(req[c].parent)
  OBVIOUS
<1>2. TypeOK /\ req[c].pc = "place" /\ Knows(c)
      /\ UNCHANGED <<row, store, settled, minted, job, faults, history>>
  BY DEF IInv, ClientOK, place, At
<1>3. p \in Uploads /\ p \in Nat /\ p <= minted /\ req[c].parent \in Parents /\ Mine(c, p)
  BY <1>1, <1>2, Subject
<1>4. n \in Nat /\ \A q \in Uploads : Exists(q) /\ row[q].parent = req[c].parent => row[q].position <= n
  BY <1>1, <1>2, MaxPositionBounds
<1> DEFINE r == [req[c] EXCEPT !.pc = "approve", !.position = n + 1]
<1>5. /\ r \in Request /\ r.pc = "approve" /\ r.photo = p /\ r.parent = req[c].parent
      /\ r.position = n + 1
  <2>1. req[c] \in Request /\ n + 1 \in Nat
    BY <1>2, <1>4, Fields
  <2> QED
    BY <1>1, <2>1 DEF Request
<1>6. req' = [req EXCEPT ![c] = r]
  BY <1>1 DEF place
<1> HIDE DEF r
<1>7. Others(c) /\ req'[c] = r
  BY <1>2, <1>5, <1>6, Replacing
<1>8. req'[c].pc = "approve" /\ req'[c].photo = p /\ req'[c].parent = req[c].parent
      /\ req'[c].position = n + 1
  BY <1>5, <1>7
<1>9. minted \in Nat /\ minted' = minted /\ row' = row /\ job' = job /\ slow' = slow
      /\ object' = object /\ aged' = aged /\ unacked' = unacked /\ raced' = raced
      /\ settled' = settled /\ leftover' = leftover
  BY <1>2, BoundsAssumption DEF TypeOK, store, history
<1>10. Step(c, p)
  BY <1>1, <1>7, <1>8, <1>9 DEF Step, Same, About
<1>11. TypeOK'
  BY <1>2, <1>7, <1>9, StepTypes DEF TypeOK
<1>12. PhotoOK(p)'
  BY <1>2, <1>3, <1>8, <1>9, <1>10, RequestAlone DEF UploadSteps, store
<1>13. GalleryOrder'
  <2>1. GalleryOrder
    BY DEF IInv
  <2> QED
    BY <1>9, <2>1 DEF GalleryOrder, Uploads
<1>14. ASSUME NEW d \in Clients PROVE Places(d)'
  <2>1. CASE d = c
    <3>1. ASSUME NEW q \in Uploads, row[q].state \in {"APPROVED", "HIDDEN"},
                 row[q].parent = req[c].parent
          PROVE  row[q].position < n + 1
      <4>1. row[q].position <= n
        BY <1>4, <3>1 DEF Exists
      <4>2. row[q].position \in Nat
        BY <1>2 DEF TypeOK, PhotoRow, NoRow
      <4> QED
        BY <1>4, <4>1, <4>2
    <3> QED
      BY <1>8, <1>9, <2>1, <3>1 DEF Places, InGallery, Uploads
  <2>2. CASE d # c
    <3>1. Places(d) /\ req'[d] = req[d]
      BY <1>7, <2>2 DEF IInv, ClientOK, Others
    <3> QED
      BY <1>9, <3>1 DEF Places, InGallery, Uploads
  <2> QED
    BY <2>1, <2>2
<1>15. ASSUME NEW d \in Clients, Mine(d, p)' PROVE Knows(d)' /\ Writes(d)'
  <2>1. CASE d = c
    <3>1. Exists(p) => row[p].parent = req[c].parent
      BY <1>1, <1>2 DEF Knows
    <3> QED
      BY <1>3, <1>8, <1>9, <2>1, <3>1 DEF Knows, Writes, Writing, Exists
  <2>2. CASE d # c
    <3>1. Kin(d) /\ Mine(d, p) /\ RowKept(req[d].photo)
      BY <1>7, <1>9, <1>15, <2>2, OthersKin DEF Mine, Others, RowKept
    <3>2. ~Writing(d)
      BY <1>3, <2>2, <3>1, Alone
    <3> QED
      BY <1>9, <3>1, <3>2, Bystander
  <2> QED
    BY <2>1, <2>2
<1>16. Local(p) /\ (aged \subseteq object)'
  BY <1>3, <1>9, <1>10, StepLocal DEF IInv
<1> QED
  BY <1>3, <1>11, <1>12, <1>13, <1>14, <1>15, <1>16, PhotoStep

\* approve takes its place in the gallery: the requests that read a position before it
\* are marked stale, so that no other position is at or below one in the gallery.
LEMMA Approves ==
    ASSUME IInv, NEW c \in Clients, NEW p, p = req[c].photo, At(c, "approve"),
           row[p].state = "PENDING_REVIEW",
           row' = [row EXCEPT ![p].state = "APPROVED", ![p].position = req[c].position],
           raced' = IF req[c].stale THEN raced \cup {p} ELSE raced,
           req' = [d \in Clients |->
                     IF d = c THEN Idle
                     ELSE [req[d] EXCEPT !.stale = @ \/ (/\ req[d].pc = "approve"
                                                         /\ req[d].parent = req[c].parent)]],
           UNCHANGED <<store, settled, minted, job, faults, slow, unacked, leftover>>
    PROVE  IInv'
<1>1. TypeOK /\ req[c].pc = "approve" /\ Knows(c) /\ Places(c)
  BY DEF IInv, ClientOK, At
<1>2. p \in Uploads /\ p \in Nat /\ p <= minted /\ req[c].parent \in Parents /\ Mine(c, p)
  BY <1>1, Subject
<1>3. row[p].parent = req[c].parent /\ row[p] \in PhotoRow
  BY <1>1, <1>2 DEF Knows, Exists, TypeOK, NoRow
<1>4. minted \in Nat /\ minted' = minted /\ job' = job /\ slow' = slow
      /\ object' = object /\ aged' = aged /\ unacked' = unacked
      /\ settled' = settled /\ leftover' = leftover /\ faults' = faults
  BY <1>1, BoundsAssumption DEF TypeOK, store
<1>5. /\ row' \in [Uploads -> PhotoRow \cup {NoRow}]
      /\ row'[p].state = "APPROVED" /\ row'[p].position = req[c].position
      /\ row'[p].parent = req[c].parent
      /\ \A q \in Uploads : q # p => row'[q] = row[q]
  <2>1. req[c].position \in Nat
    BY <1>1, Fields
  <2> DEFINE r == [row[p] EXCEPT !.state = "APPROVED", !.position = req[c].position]
  <2>2. r \in PhotoRow /\ r.state = "APPROVED" /\ r.position = req[c].position
        /\ r.parent = req[c].parent
    BY <1>3, <2>1 DEF PhotoRow, PhotoModerationState
  <2>3. row' = [row EXCEPT ![p] = r]
    OBVIOUS
  <2> HIDE DEF r
  <2>4. row \in [Uploads -> PhotoRow \cup {NoRow}]
    BY <1>1 DEF TypeOK
  <2>5. row'[p] = r /\ \A q \in Uploads : q # p => row'[q] = row[q]
    BY <1>2, <2>3, <2>4
  <2>6. row' \in [Uploads -> PhotoRow \cup {NoRow}]
    BY <1>2, <2>2, <2>3, <2>4
  <2> QED
    BY <2>2, <2>5, <2>6
<1>6. req' \in [Clients -> Request] /\ req'[c].pc = "idle"
  <2>1. ASSUME NEW d \in Clients PROVE req'[d] \in Request
    <3>1. Idle \in Request
      BY DEF Idle, Request
    <3>2. req[d] \in Request
      BY <1>1, Fields
    <3>3. [req[d] EXCEPT !.stale = @ \/ (req[d].pc = "approve" /\ req[d].parent = req[c].parent)]
          \in Request
      BY <3>2 DEF Request
    <3> QED
      BY <3>1, <3>3
  <2>2. req'[c].pc = "idle"
    BY DEF Idle
  <2>3. req' = [d \in Clients |-> req'[d]]
    OBVIOUS
  <2> QED
    BY <2>1, <2>2, <2>3
<1>7. ASSUME NEW d \in Clients, d # c
      PROVE  /\ Kin(d)
             /\ req'[d].pc = "approve" /\ req'[d].stale = FALSE => req[d].parent # req[c].parent
  <2>1. req[d] \in Request
    BY <1>1, Fields
  <2> DEFINE b == req[d].stale \/ (req[d].pc = "approve" /\ req[d].parent = req[c].parent)
  <2>2. req'[d] = [req[d] EXCEPT !.stale = b]
    BY <1>7
  <2>3. req'[d].stale = b /\ req'[d].pc = req[d].pc /\ req'[d].photo = req[d].photo
        /\ req'[d].parent = req[d].parent /\ req'[d].undo = req[d].undo
        /\ req'[d].position = req[d].position
    BY <2>1, <2>2 DEF Request
  <2>4. req[d].stale \in BOOLEAN
    BY <1>1, Fields
  <2>5. (req'[d].stale = FALSE) => ~b
    BY <2>3
  <2> QED
    BY <2>3, <2>4, <2>5 DEF Kin
<1>8. \A d \in Clients : Kin(d) \/ About(d, p)
  BY <1>6, <1>7 DEF About
<1>9. Local(p)
  BY <1>4, <1>5, <1>8 DEF Local, Same
<1>10. raced' \subseteq Uploads /\ raced \subseteq raced' /\ (p \notin raced' => req[c].stale = FALSE)
       /\ \A q \in Uploads : q # p => (q \in raced' <=> q \in raced)
  <2>1. req[c].stale \in BOOLEAN
    BY <1>1, Fields
  <2> QED
    BY <1>1, <1>2, <2>1 DEF TypeOK
<1>11. TypeOK'
  BY <1>1, <1>4, <1>5, <1>6, <1>10 DEF TypeOK, Uploads, Keys, PhotoRow, NoRow, Job, Request
<1>12. PhotoOK(p)'
  <2>1. PhotoOK(p) /\ Kept(p) /\ KeysOf(p)' = KeysOf(p) /\ NextRow' = NextRow
    BY <1>2, <1>4 DEF IInv, Kept, KeysOf, FullKey, ThumbKey, NextRow
  <2>2. Unused(p)' /\ Disposed(p)'
    BY <1>2, <1>4, <1>5 DEF Unused, Disposed
  <2>3. Backed(p)' /\ Sweepable(p)' /\ Removable(p)'
    BY <1>4, <2>1 DEF PhotoOK, Backed, Sweepable, Removable, Spared
  <2>4. job.pc = "sweep" => \A k \in KeysOf(p) : k \notin job.due
    BY <1>2, RowNotDue
  <2>5. Walked(p)'
    BY <1>4, <2>1, <2>4 DEF Walked
  <2> QED
    BY <2>2, <2>3, <2>5 DEF PhotoOK
<1>13. ASSUME NEW d \in Clients, Mine(d, p)' PROVE Knows(d)' /\ Writes(d)'
  <2>1. d # c /\ Kin(d)
    BY <1>6, <1>7, <1>13 DEF Mine
  <2>2. Mine(d, p) /\ req[d].photo = p
    BY <1>13, <2>1 DEF Kin, Mine
  <2>3. ~Writing(d)
    BY <1>2, <2>1, <2>2, Alone
  <2>4. RowKept(p)
    BY <1>3, <1>5 DEF RowKept
  <2> QED
    BY <1>4, <2>1, <2>2, <2>3, <2>4, Bystander
<1>14. ASSUME NEW d \in Clients PROVE Places(d)'
  <2>1. CASE d = c
    BY <1>6, <2>1 DEF Places
  <2>2. CASE d # c
    <3>1. Places(d) /\ Kin(d)
      BY <1>7, <2>2 DEF IInv, ClientOK
    <3>2. ASSUME req'[d].pc = "approve", req'[d].stale = FALSE, NEW q \in Uploads,
                 InGallery(q)', row'[q].parent = req'[d].parent
          PROVE  row'[q].position < req'[d].position
      <4>1. q # p
        <5>1. req[d].parent # req[c].parent
          BY <1>7, <2>2, <3>2
        <5>2. row'[q].parent = req[d].parent
          BY <3>1, <3>2 DEF Kin
        <5> QED
          BY <1>5, <5>1, <5>2
      <4> QED
        BY <1>5, <3>1, <3>2, <4>1 DEF Places, Kin, InGallery
    <3> QED
      BY <3>2 DEF Places, Uploads
  <2> QED
    BY <2>1, <2>2
<1>15. GalleryOrder'
  <2>1. GalleryOrder
    BY DEF IInv
  <2>2. ASSUME NEW q \in Uploads, q # p, p \notin raced', InGallery(q)', row'[q].parent = row'[p].parent
        PROVE  row'[q].position # row'[p].position
    <3>1. row[q].position < req[c].position
      BY <1>1, <1>5, <1>10, <2>2 DEF Places, InGallery
    <3>2. row[q].position \in Nat /\ req[c].position \in Nat
      <4>1. row[q].position \in Nat
        BY <1>1 DEF TypeOK, PhotoRow, NoRow
      <4> QED
        BY <1>1, <4>1, Fields
    <3> QED
      BY <1>5, <2>2, <3>1, <3>2
  <2>3. ASSUME NEW q \in Uploads, NEW s \in Uploads, q # s, q # p, s # p,
               q \notin raced', s \notin raced', InGallery(q)', InGallery(s)',
               row'[q].parent = row'[s].parent
        PROVE  row'[q].position # row'[s].position
    BY <1>5, <1>10, <2>1, <2>3 DEF GalleryOrder, InGallery
  <2> QED
    BY <2>2, <2>3 DEF GalleryOrder, InGallery, Uploads
<1>16. (aged \subseteq object)'
  BY <1>4 DEF IInv
<1> QED
  BY <1>2, <1>9, <1>11, <1>12, <1>13, <1>14, <1>15, <1>16, PhotoStep

LEMMA ApproveStep ==
    ASSUME IInv, NEW c \in Clients, approve(c)
    PROVE  IInv'
BY Approves, NotPending DEF approve, history

\* reject answers with the row rejected and its two objects to delete.
LEMMA RejectStep ==
    ASSUME IInv, NEW c \in Clients, reject(c)
    PROVE  IInv'
<1>1. PICK p : p = req[c].photo
  OBVIOUS
<1>2. TypeOK /\ At(c, "reject") /\ req[c].pc = "reject"
      /\ UNCHANGED <<store, settled, minted, job, faults, history>>
  BY DEF IInv, reject, At
<1>3. p \in Uploads /\ p \in Nat /\ p <= minted /\ req[c].parent \in Parents /\ Mine(c, p)
  BY <1>1, <1>2, Subject
<1>4. CASE row[p].state # "PENDING_REVIEW" /\ Return(c) /\ UNCHANGED row
  BY <1>2, <1>4, NotPending
<1>5. ASSUME row[p].state = "PENDING_REVIEW", row' = [row EXCEPT ![p].state = "REJECTED"],
             Goto(c, "delete_full")
      PROVE  IInv'
  <2>1. Going(c, "delete_full")
    BY <1>2, <1>5, GoingTo DEF RejectSteps
  <2>2. Others(c) /\ req'[c].pc = "delete_full" /\ req'[c].photo = p /\ req'[c].parent = req[c].parent
    BY <1>1, <2>1 DEF Going
  <2>3. row[p] \in PhotoRow
    BY <1>2, <1>3, <1>5 DEF TypeOK, NoRow
  <2>4. /\ row' \in [Uploads -> PhotoRow \cup {NoRow}]
        /\ row'[p].state = "REJECTED" /\ row'[p].parent = row[p].parent
        /\ \A q \in Uploads : q # p => row'[q] = row[q]
    BY <1>2, <1>3, <1>5, <2>3 DEF TypeOK, PhotoRow, PhotoModerationState
  <2>5. minted \in Nat /\ minted' = minted /\ job' = job /\ slow' = slow
        /\ object' = object /\ aged' = aged /\ unacked' = unacked /\ raced' = raced
        /\ settled' = settled /\ leftover' = leftover /\ faults' = faults
    BY <1>2, BoundsAssumption DEF TypeOK, store, history
  <2>6. Step(c, p)
    BY <1>1, <2>2, <2>4, <2>5 DEF Step, Same, About
  <2>7. TypeOK'
    BY <1>2, <2>2, <2>4, <2>5, StepTypes DEF TypeOK
  <2>8. PhotoOK(p)'
    <3>1. Unused(p)' /\ Disposed(p)' /\ Backed(p)' /\ Sweepable(p)' /\ Removable(p)'
      BY <1>3, <2>2, <2>4, <2>5 DEF Unused, Disposed, Backed, Sweepable, Removable, Spared, Kept
    <3>2. job.pc = "sweep" => \A k \in KeysOf(p) : k \notin job.due
      BY <1>3, <1>5, RowNotDue
    <3>3. Walked(p)'
      BY <2>5, <3>2 DEF Walked, KeysOf, FullKey, ThumbKey
    <3> QED
      BY <3>1, <3>3 DEF PhotoOK
  <2>9. Knows(c)' /\ Writes(c)'
    BY <1>3, <2>2, <2>4, <2>5 DEF Knows, Writes, Writing
  <2>10. RowKept(p) /\ Unplaced(p) /\ req'[c].pc # "approve" /\ (aged \subseteq object)'
    BY <1>5, <2>2, <2>4, <2>5 DEF RowKept, Unplaced, InGallery, IInv
  <2> QED
    BY <1>3, <2>6, <2>7, <2>8, <2>9, <2>10, ClientStep
<1> QED
  BY <1>1, <1>4, <1>5 DEF reject

\* A delete of a rejected photo's object that is made, or leaves a leftover.
LEMMA DeleteStep ==
    ASSUME IInv, NEW c \in Clients, NEW p, p = req[c].photo, NEW k \in KeysOf(p),
           DeleteRejected(c, k),
           \/ At(c, "delete_full") /\ k = FullKey(p) /\ Going(c, "delete_thumb")
           \/ At(c, "delete_thumb") /\ k = ThumbKey(p) /\ Others(c) /\ req'[c].pc = "idle"
    PROVE  IInv'
<1>1. TypeOK /\ Knows(c) /\ req[c].pc \in {"delete_full", "delete_thumb"}
      /\ UNCHANGED <<row, settled, minted, job, slow, unacked, raced>>
  BY DEF IInv, ClientOK, DeleteRejected, At
<1>2. p \in Uploads /\ p \in Nat /\ p <= minted /\ req[c].parent \in Parents /\ Mine(c, p)
  BY <1>1, Subject
<1>3. row[p].state \in {"REJECTED", "absent"} /\ Others(c)
  BY <1>1 DEF Knows, Going
<1>4. minted \in Nat /\ minted' = minted /\ row' = row /\ job' = job /\ slow' = slow
      /\ unacked' = unacked /\ raced' = raced /\ settled' = settled
  BY <1>1, BoundsAssumption DEF TypeOK
<1>5. /\ (delete(k) /\ leftover' = leftover) \/ (UNCHANGED store /\ leftover' = leftover \cup {p})
      /\ Works \/ Fails
  BY DEF DeleteRejected, DeleteFails
<1>6. StoreKept(p)
  BY <1>2, <1>5, StoreCall
<1>7. req'[c].pc \in {"idle", "delete_thumb"}
      /\ (req'[c].pc = "delete_thumb" => req'[c].photo = p /\ req'[c].parent = req[c].parent)
  BY DEF Going
<1>8. Step(c, p)
  BY <1>2, <1>3, <1>4, <1>5, <1>6, <1>7 DEF Step, Same, About, StoreKept
<1>9. TypeOK'
  <2>1. faults' \in 0 .. MaxFaults
    BY <1>1, <1>5, Faults
  <2> QED
    BY <1>1, <1>2, <1>3, <1>4, <1>5, <1>6, <2>1, StepTypes DEF TypeOK, StoreKept
<1>10. PhotoOK(p)'
  <2>1. Unused(p)' /\ Backed(p)' /\ Sweepable(p)' /\ Removable(p)'
    BY <1>2, <1>3, <1>4 DEF Unused, Backed, Sweepable, Removable, Spared, Kept
  <2>2. PhotoOK(p) /\ \A d \in Clients : d # c => req'[d] = req[d]
    BY <1>2, <1>3 DEF IInv, Others
  <2>3. /\ \A j : j \in object' => j \in object
        /\ \A j : j \in object' /\ j \in aged => j \in aged'
    BY <1>5 DEF delete, store
  <2>4. Disposed(p)'
    <3>1. CASE leftover' = leftover \cup {p}
      BY <3>1 DEF Disposed
    <3>2. CASE delete(k) /\ leftover' = leftover /\ At(c, "delete_full") /\ k = FullKey(p)
               /\ Going(c, "delete_thumb")
      BY <1>7, <3>2 DEF Disposed, delete, Going, FullKey
    <3>3. CASE delete(k) /\ leftover' = leftover /\ At(c, "delete_thumb") /\ k = ThumbKey(p)
      <4>1. Disposed(p)
        BY <2>2 DEF PhotoOK
      <4>2. \A d \in Clients : req[d].pc = "delete_full" => req'[d] = req[d]
        BY <2>2, <3>3 DEF At
      <4>3. ThumbKey(p) \notin object'
        BY <3>3 DEF delete
      <4>4. FullKey(p) \notin object => \A j \in KeysOf(p) : j \notin object'
        BY <2>3, <4>3 DEF KeysOf
      <4> QED
        BY <1>4, <2>3, <3>3, <4>1, <4>2, <4>4 DEF Disposed, KeysOf, FullKey, ThumbKey
    <3> QED
      BY <1>5, <3>1, <3>2, <3>3
  <2>5. Walked(p)'
    <3>1. Nobodys(p) => Nobodys(p)'
      BY <1>4, <1>7, <2>2 DEF Nobodys, UploadSteps
    <3> QED
      BY <1>4, <2>2, <2>3, <3>1 DEF PhotoOK, Walked, Ahead, KeysOf, FullKey, ThumbKey
  <2> QED
    BY <2>1, <2>4, <2>5 DEF PhotoOK
<1>11. Mine(c, p)' => Knows(c)' /\ Writes(c)'
  BY <1>2, <1>3, <1>4, <1>7 DEF Knows, Writes, Writing, Mine
<1>12. RowKept(p) /\ Unplaced(p) /\ req'[c].pc # "approve" /\ (aged \subseteq object)'
  BY <1>4, <1>6, <1>7 DEF RowKept, Unplaced, InGallery, StoreKept
<1> QED
  BY <1>2, <1>8, <1>9, <1>10, <1>11, <1>12, ClientStep

LEMMA DeleteFull ==
    ASSUME IInv, NEW c \in Clients, delete_full(c)
    PROVE  IInv'
<1>1. PICK p : p = req[c].photo
  OBVIOUS
<1>2. TypeOK /\ At(c, "delete_full") /\ DeleteRejected(c, FullKey(p)) /\ Goto(c, "delete_thumb")
      /\ FullKey(p) \in KeysOf(p)
  BY <1>1 DEF IInv, delete_full, KeysOf
<1>3. Going(c, "delete_thumb")
  BY <1>2, GoingTo DEF RejectSteps
<1> QED
  BY <1>1, <1>2, <1>3, DeleteStep

LEMMA DeleteThumb ==
    ASSUME IInv, NEW c \in Clients, delete_thumb(c)
    PROVE  IInv'
<1>1. PICK p : p = req[c].photo
  OBVIOUS
<1>2. TypeOK /\ At(c, "delete_thumb") /\ DeleteRejected(c, ThumbKey(p)) /\ Return(c)
      /\ ThumbKey(p) \in KeysOf(p)
  BY <1>1 DEF IInv, delete_thumb, KeysOf
<1>3. Others(c) /\ req'[c].pc = "idle"
  BY <1>2, Returning
<1> QED
  BY <1>1, <1>2, <1>3, DeleteStep

-----------------------------------------------------------------------------
\* The steps of no request

\* hide_photo and restore_photo keep the photo and its place.
LEMMA SetStateStep ==
    ASSUME IInv, NEW p \in Uploads, NEW from \in {"APPROVED", "HIDDEN"},
           NEW to \in {"APPROVED", "HIDDEN"}, SetState(p, from, to)
    PROVE  IInv'
<1>1. TypeOK /\ row[p].state = from /\ req' = req
      /\ UNCHANGED <<store, settled, minted, req, job, faults, history>>
  BY DEF IInv, SetState
<1>2. row[p] \in PhotoRow
  BY <1>1 DEF TypeOK, NoRow
<1>3. /\ row' \in [Uploads -> PhotoRow \cup {NoRow}]
      /\ row'[p].state = to /\ row'[p].parent = row[p].parent /\ row'[p].position = row[p].position
      /\ \A q \in Uploads : q # p => row'[q] = row[q]
  BY <1>1, <1>2 DEF TypeOK, SetState, PhotoRow, PhotoModerationState
<1>4. minted \in Nat /\ minted' = minted /\ job' = job /\ slow' = slow
      /\ object' = object /\ aged' = aged /\ unacked' = unacked /\ raced' = raced
      /\ settled' = settled /\ leftover' = leftover /\ faults' = faults
  BY <1>1, BoundsAssumption DEF TypeOK, store, history
<1>5. \A d \in Clients : Kin(d)
  BY <1>1 DEF Kin
<1>6. Local(p)
  BY <1>3, <1>4, <1>5 DEF Local, Same
<1>7. TypeOK'
  BY <1>1, <1>3, <1>4 DEF TypeOK, Uploads, Keys, PhotoRow, NoRow, Job, Request
<1>8. PhotoOK(p)'
  <2>1. PhotoOK(p) /\ Kept(p) /\ Kept(p)' /\ KeysOf(p)' = KeysOf(p) /\ NextRow' = NextRow
    BY <1>1, <1>3, <1>4 DEF IInv, Kept, KeysOf, FullKey, ThumbKey, NextRow
  <2>2. Unused(p)'
    BY <1>1, <1>4, <2>1 DEF PhotoOK, Unused
  <2>3. Disposed(p)'
    BY <1>3 DEF Disposed
  <2>4. Backed(p)' /\ Sweepable(p)' /\ Removable(p)'
    BY <1>4, <2>1 DEF PhotoOK, Backed, Sweepable, Removable, Spared
  <2>5. job.pc = "sweep" => \A k \in KeysOf(p) : k \notin job.due
    BY <1>1, RowNotDue
  <2>6. Walked(p)'
    BY <1>4, <2>1, <2>5 DEF Walked
  <2> QED
    BY <2>2, <2>3, <2>4, <2>6 DEF PhotoOK
<1>9. ASSUME NEW d \in Clients, Mine(d, p)' PROVE Knows(d)' /\ Writes(d)'
  <2>1. Mine(d, p) /\ req[d].photo = p /\ Kin(d)
    BY <1>1, <1>5, <1>9 DEF Mine
  <2>2. ~Writing(d)
    BY <1>1, <2>1 DEF IInv, ClientOK, Writes
  <2>3. RowKept(p)
    BY <1>1, <1>3 DEF RowKept
  <2> QED
    BY <1>4, <2>1, <2>2, <2>3, Bystander
<1>10. GalleryOrder' /\ \A d \in Clients : Places(d)'
  <2>1. GalleryKept
    BY <1>1, <1>3, <1>4, <1>5 DEF GalleryKept, InGallery
  <2> QED
    BY <2>1, SameGallery
<1>11. (aged \subseteq object)'
  BY <1>4 DEF IInv
<1> QED
  BY <1>6, <1>7, <1>8, <1>9, <1>10, <1>11, PhotoStep

\* Objects that pass the TTL during their upload make it slow.
LEMMA AgeStep ==
    ASSUME IInv, NEW p \in Uploads, Age(p)
    PROVE  IInv'
<1>1. TypeOK /\ aged' = aged \cup (KeysOf(p) \cap object)
      /\ UNCHANGED <<row, object, settled, minted, req, job, faults, unacked, leftover, raced>>
  BY DEF IInv, Age
<1>2. minted \in Nat
  BY <1>1, BoundsAssumption DEF TypeOK
<1>3. /\ \A q \in Uploads : q # p => \A k \in KeysOf(q) : k \in aged' <=> k \in aged
      /\ aged' \subseteq Keys /\ aged \subseteq aged' /\ (aged \subseteq object)'
  <2>1. aged \subseteq Keys /\ aged \subseteq object /\ object \subseteq Keys
    BY DEF IInv, TypeOK
  <2>2. \A q \in Uploads : q # p => \A k \in KeysOf(q) : k \notin KeysOf(p)
    BY KeysApart
  <2> QED
    BY <1>1, <2>1, <2>2
<1>4. slow \subseteq slow' /\ slow' \subseteq slow \cup {p} /\ slow' \subseteq Uploads
      /\ (Uploading(p) => p \in slow')
  BY <1>1 DEF Age, TypeOK
<1>5. \A d \in Clients : Kin(d)
  BY <1>1 DEF Kin
<1>6. Local(p)
  <2>1. \A q \in Uploads : q # p => (q \in slow' <=> q \in slow)
    BY <1>4
  <2> QED
    BY <1>1, <1>2, <1>3, <1>5, <2>1 DEF Local, Same
<1>7. TypeOK'
  BY <1>1, <1>3, <1>4 DEF TypeOK, Uploads, Keys, PhotoRow, NoRow, Job, Request
<1>8. PhotoOK(p)'
  <2>1. Unused(p)' /\ Backed(p)' /\ Sweepable(p)' /\ Removable(p)'
    BY <1>1, <1>4, StillOK
  <2>2. PhotoOK(p) /\ KeysOf(p)' = KeysOf(p) /\ FullKey(p)' = FullKey(p)
    BY DEF IInv, KeysOf, FullKey, ThumbKey
  <2>3. Disposed(p)'
    BY <1>1, <2>2 DEF PhotoOK, Disposed
  <2>4. Walked(p)'
    BY <1>1, <1>3, <2>2 DEF PhotoOK, Walked, Nobodys, Ahead
  <2> QED
    BY <2>1, <2>3, <2>4 DEF PhotoOK
<1>9. ASSUME NEW d \in Clients, Mine(d, p)' PROVE Knows(d)' /\ Writes(d)'
  <2>1. Mine(d, p) /\ req[d].photo = p /\ Kin(d) /\ RowKept(p) /\ Writes(d)
    BY <1>1, <1>5, <1>9 DEF Mine, RowKept, IInv, ClientOK
  <2>2. Knows(d)'
    BY <1>1, <1>2, <2>1, KnowsKept
  <2>3. Writing(d) => p \in slow'
    BY <1>4, <2>1 DEF Uploading, Writing, UploadSteps
  <2>4. Writes(d)'
    BY <1>1, <2>1, <2>3 DEF Writes, Writing, Mine
  <2> QED
    BY <2>2, <2>4
<1>10. GalleryOrder' /\ \A d \in Clients : Places(d)'
  <2>1. GalleryKept
    BY <1>1, <1>5 DEF GalleryKept, InGallery
  <2> QED
    BY <2>1, SameGallery
<1> QED
  BY <1>3, <1>6, <1>7, <1>8, <1>9, <1>10, PhotoStep

\* The rest of the state as it was: the clock of the rows, or nothing.
LEMMA SettleStep ==
    ASSUME IInv, settled' \subseteq Uploads,
           UNCHANGED <<row, store, minted, req, job, faults, history>>
    PROVE  IInv'
<1>1. /\ row' = row /\ object' = object /\ aged' = aged /\ minted' = minted /\ req' = req
      /\ job' = job /\ faults' = faults /\ slow' = slow /\ unacked' = unacked
      /\ leftover' = leftover /\ raced' = raced
  BY DEF store, history
<1>2. TypeOK'
  BY <1>1 DEF IInv, TypeOK, Uploads, Keys, PhotoRow, NoRow, Job, Request
<1>3. \A c \in Clients : ClientOK(c)'
  BY <1>1 DEF IInv, ClientOK, Knows, Writes, Writing, Mine, Places, InGallery, Exists,
              KeysOf, FullKey, ThumbKey, Uploads
<1>4. \A p \in Uploads : PhotoOK(p)'
  BY <1>1 DEF IInv, PhotoOK, Unused, Disposed, Backed, Sweepable, Removable, Walked, Spared, Kept,
              Nobodys, Ahead, NextRow, KeysOf, FullKey, ThumbKey
<1>5. GalleryOrder'
  BY <1>1 DEF IInv, GalleryOrder, Uploads
<1> QED
  BY <1>1, <1>2, <1>3, <1>4, <1>5 DEF IInv, Uploads

-----------------------------------------------------------------------------
\* The steps of the job

Calm == UNCHANGED <<row, object, aged, settled, minted, req, slow, unacked, leftover, raced>>

\* A step of the job alone: it may come to hold rows that exist and aged keys of none.
LEMMA JobMoves ==
    ASSUME IInv, Calm, job' \in Job, faults' \in 0 .. MaxFaults,
           \A p \in job'.rows : p \in job.rows \/ Exists(p),
           \A k \in job'.keys : k \in job.keys \/ (k \in aged /\ ~Exists(UploadOf(k))),
           job'.pc = "delete" => job'.rows # {},
           \A p \in Uploads : Removable(p)' /\ Walked(p)'
    PROVE  IInv'
<1>1. TypeOK'
  BY DEF IInv, TypeOK, Calm, Uploads, Keys, PhotoRow, NoRow, Job, Request
<1>2. aged \subseteq object
  BY DEF IInv
<1>3. ASSUME NEW p \in Uploads, NEW k \in KeysOf(p), k \in job'.keys
      PROVE  k \in job.keys \/ (k \in aged /\ row[p].state = "absent")
  <2>1. UploadOf(k) = p
    BY <1>3, KeysApart
  <2> QED
    BY <1>3, <2>1 DEF Exists
<1>4. ASSUME NEW c \in Clients PROVE ClientOK(c)'
  <2>1. Knows(c) /\ Writes(c) /\ Places(c)
    BY DEF IInv, ClientOK
  <2>2. Knows(c)' /\ Places(c)'
    BY <2>1 DEF Calm, Knows, Places, Exists, InGallery, KeysOf, FullKey, ThumbKey, Uploads
  <2>3. Writes(c)'
    <3>1. CASE ~Writing(c)
      BY <3>1 DEF Writes, Writing, Calm
    <3>2. CASE Writing(c)
      <4>1. PICK p : p = req[c].photo /\ p \in Uploads
        BY <3>2, Subject DEF Writing
      <4>2. /\ row[p].state = "absent" /\ p \notin job.rows
            /\ \A d \in Clients : Mine(d, p) => d = c
            /\ p \notin slow => \A k \in KeysOf(p) : k \notin aged /\ k \notin job.keys
            /\ p \notin slow /\ req[c].pc \in {"put_thumb", "insert"} => FullKey(p) \in object
            /\ p \notin slow /\ req[c].pc = "insert" => ThumbKey(p) \in object
        BY <2>1, <3>2, <4>1 DEF Writes
      <4>3. p \notin job'.rows
        BY <4>2 DEF Exists
      <4>4. p \notin slow => \A k \in KeysOf(p) : k \notin job'.keys
        BY <1>3, <4>1, <4>2
      <4>5. req'[c].photo = p
        BY <4>1 DEF Calm
      <4> QED
        BY <4>2, <4>3, <4>4, <4>5 DEF Writes, Writing, Calm, Mine, KeysOf, FullKey, ThumbKey
    <3> QED
      BY <3>1, <3>2
  <2> QED
    BY <2>2, <2>3 DEF ClientOK
<1>5. ASSUME NEW p \in Uploads PROVE PhotoOK(p)'
  <2>1. PhotoOK(p) /\ KeysOf(p)' = KeysOf(p) /\ FullKey(p)' = FullKey(p)
    BY DEF IInv, KeysOf, FullKey, ThumbKey
  <2>2. Unused(p)'
    BY <1>2, <1>3, <2>1 DEF PhotoOK, Unused, Calm, Exists
  <2>3. Disposed(p)' /\ Backed(p)'
    BY <2>1 DEF PhotoOK, Disposed, Backed, Kept, Calm
  <2>4. Sweepable(p)'
    BY <1>3, <2>1 DEF PhotoOK, Sweepable, Spared, Kept, Calm
  <2> QED
    BY <2>2, <2>3, <2>4 DEF PhotoOK
<1>6. GalleryOrder'
  BY DEF IInv, GalleryOrder, Calm, Uploads
<1>7. (aged \subseteq object)'
  BY <1>2 DEF Calm
<1> QED
  BY <1>1, <1>4, <1>5, <1>6, <1>7 DEF IInv, Uploads

\* list: a key past the cursor that is not in the page is past the page too, and the
\* listing says that it is truncated.
LEMMA Listing ==
    ASSUME TypeOK, NEW after \in Keys \cup {0}
    PROVE  /\ list(after).keys = Page(after) /\ Page(after) \subseteq object
           /\ list(after).truncated \in BOOLEAN /\ list(after).next \in Keys \cup {0}
           /\ \A k \in object : k > after =>
                \/ k \in Page(after)
                \/ list(after).truncated = TRUE /\ k > list(after).next
<1> DEFINE P == Page(after)
           t == P # Above(after)
           n == IF P = {} THEN after ELSE Highest(P)
<1>1. list(after).keys = P /\ list(after).truncated = t /\ list(after).next = n
  BY DEF list
<1>2. object \subseteq Keys /\ Keys \subseteq Nat /\ after \in Nat /\ \A k \in Keys : k <= 2 * MaxUploads
  BY BoundsAssumption DEF TypeOK, Keys
<1>3. Above(after) \subseteq object /\ P \subseteq Above(after)
  BY DEF Above, Page
<1>4. P # {} => Highest(P) \in P /\ \A y \in P : y <= Highest(P)
  <2>1. P \subseteq Nat /\ \A x \in P : x <= 2 * MaxUploads
    BY <1>2, <1>3
  <2>2. 2 * MaxUploads \in Nat
    BY BoundsAssumption
  <2> HIDE DEF P
  <2> QED
    BY <2>1, <2>2, HighestOfBounded
<1>5. n \in Keys \cup {0} /\ n \in Nat
  BY <1>2, <1>3, <1>4
<1>6. ASSUME NEW k \in object, k > after, k \notin P
      PROVE  t = TRUE /\ k > n
  <2>1. k \in Above(after) /\ k \in Nat
    BY <1>2, <1>6 DEF Above
  <2>2. t = TRUE
    BY <1>6, <2>1
  <2>3. CASE P = {}
    BY <1>6, <2>2, <2>3
  <2>4. CASE P # {}
    <3>1. Highest(P) \in P /\ Highest(P) \in Nat
      BY <1>2, <1>3, <1>4, <2>4
    <3>2. ASSUME k < Highest(P) PROVE FALSE
      <4> DEFINE A == {q \in Above(after) : q < k}
                 B == {q \in Above(after) : q < Highest(P)}
      <4>1. IsFiniteSet(B)
        <5>1. IsFiniteSet(Keys)
          BY FS_Interval, BoundsAssumption DEF Keys
        <5>2. B \subseteq Keys
          BY <1>2, <1>3
        <5> QED
          BY <5>1, <5>2, FS_Subset
      <4>2. A \subseteq B
        <5>1. ASSUME NEW q \in Above(after), q < k PROVE q < Highest(P)
          BY <1>2, <1>3, <2>1, <3>1, <3>2, <5>1
        <5> QED
          BY <5>1
      <4>3. Cardinality(B) < PageKeys
        BY <3>1 DEF Page
      <4>4. k \notin P => ~(Cardinality(A) < PageKeys)
        BY <2>1 DEF Page
      <4> HIDE DEF A, B, P
      <4>5. Cardinality(A) <= Cardinality(B) /\ Cardinality(A) \in Nat /\ Cardinality(B) \in Nat
        BY <4>1, <4>2, FS_Subset, FS_CardinalityType
      <4> QED
        BY <1>6, <4>3, <4>4, <4>5, BoundsAssumption
    <3>3. k # Highest(P)
      BY <1>6, <3>1
    <3> QED
      BY <2>1, <2>2, <2>4, <3>1, <3>2, <3>3
  <2> QED
    BY <2>3, <2>4
<1> QED
  BY <1>1, <1>3, <1>5, <1>6

\* The next page of the sweep.  What was to be swept, is aged and is past the cursor is in
\* it, or past it.
Pages(after, due) == /\ NextPage(after, due) \in Job
                     /\ NextPage(after, due).pc = "sweep" /\ NextPage(after, due).rows = {}
                     /\ NextPage(after, due).due = due
                     /\ \A k \in NextPage(after, due).keys : k \in aged /\ ~Exists(UploadOf(k))
                     /\ \A k \in object : k > after /\ k \in aged /\ ~Exists(UploadOf(k)) =>
                          \/ k \in NextPage(after, due).keys
                          \/ /\ NextPage(after, due).truncated = TRUE
                             /\ k > NextPage(after, due).after

LEMMA Paging ==
    ASSUME TypeOK, NEW after \in Keys \cup {0}, NEW due \in SUBSET Keys
    PROVE  Pages(after, due)
<1>1. PICK l : l = list(after)
  OBVIOUS
<1>2. PICK K : K = {k \in Page(after) \cap aged : ~Exists(UploadOf(k))}
  OBVIOUS
<1>3. l.keys = Page(after) /\ l.truncated \in BOOLEAN /\ l.next \in Keys \cup {0}
      /\ \A k \in object : k > after => k \in Page(after) \/ (l.truncated = TRUE /\ k > l.next)
  BY <1>1, Listing
<1>4. PICK j : j = NextPage(after, due)
  OBVIOUS
<1>5. j = [JobIdle EXCEPT !.pc = "sweep", !.truncated = l.truncated, !.after = l.next, !.due = due,
                          !.keys = K]
  BY <1>1, <1>2, <1>3, <1>4 DEF NextPage, Referenced
<1>6. K \subseteq Keys
  BY <1>2 DEF TypeOK
<1>7. /\ j \in Job /\ j.pc = "sweep" /\ j.rows = {} /\ j.due = due /\ j.keys = K
      /\ j.truncated = l.truncated /\ j.after = l.next
  BY <1>3, <1>5, <1>6 DEF JobIdle, Job, PhotoKind
<1>8. \A k \in K : k \in aged /\ ~Exists(UploadOf(k))
  BY <1>2
<1>9. \A k \in object : k > after /\ k \in aged /\ ~Exists(UploadOf(k)) =>
         k \in K \/ (l.truncated = TRUE /\ k > l.next)
  BY <1>2, <1>3
<1> QED
  BY <1>4, <1>7, <1>8, <1>9 DEF Pages

\* The sweep begins with what there is to sweep ahead of it.
LEMMA PurgeOrphanUploads ==
    ASSUME IInv, purge_orphan_uploads
    PROVE  IInv'
<1>1. TypeOK /\ job' = NextPage(0, Orphans) /\ Calm /\ faults' \in 0 .. MaxFaults
  BY DEF IInv, TypeOK, purge_orphan_uploads, Calm, store, history
<1>2. Orphans \in SUBSET Keys /\ 0 \in Keys \cup {0}
  BY <1>1 DEF Orphans, TypeOK
<1>3. PICK j : j = job' /\ j = NextPage(0, Orphans)
  BY <1>1
<1>4. Pages(0, Orphans)
  BY <1>1, <1>2, Paging
<1>5. /\ j \in Job /\ j.pc = "sweep" /\ j.rows = {} /\ j.due = Orphans
      /\ \A k \in j.keys : k \in aged /\ ~Exists(UploadOf(k))
      /\ \A k \in object : k > 0 /\ k \in aged /\ ~Exists(UploadOf(k)) =>
              k \in j.keys \/ (j.truncated = TRUE /\ k > j.after)
  BY <1>3, <1>4 DEF Pages
<1>6. ASSUME NEW p \in Uploads PROVE Removable(p)' /\ Walked(p)'
  <2>1. Removable(p)'
    BY <1>3, <1>5 DEF Removable
  <2>2. ASSUME NEW k \in KeysOf(p), k \in Orphans
        PROVE  Nobodys(p)' /\ (k \in object' => k \in aged' /\ Ahead(k)')
    <3>1. UploadOf(k) = p
      BY KeysApart
    <3>2. k \in object /\ k \in aged /\ ~Exists(p) /\ ~Uploading(p)
      BY <2>2, <3>1 DEF Orphans, Referenced
    <3>3. k \in Nat /\ k > 0
      BY <1>1, <3>2, BoundsAssumption DEF TypeOK, Keys
    <3>4. p <= minted
      <4>1. p \in Nat /\ minted \in Nat /\ Unused(p)
        BY <1>1, BoundsAssumption DEF TypeOK, Uploads, IInv, PhotoOK
      <4> QED
        BY <2>2, <3>2, <4>1 DEF Unused
    <3>5. Nobodys(p)'
      BY <3>2, <3>4 DEF Nobodys, Exists, Uploading, Calm, UploadSteps, purge_orphan_uploads
    <3> QED
      BY <1>1, <1>3, <1>5, <3>1, <3>2, <3>3, <3>5 DEF Ahead, Calm
  <2>3. Walked(p)'
    BY <1>3, <1>5, <2>2 DEF Walked, KeysOf, FullKey, ThumbKey
  <2> QED
    BY <2>1, <2>3
<1> QED
  BY <1>1, <1>3, <1>5, <1>6, JobMoves

\* One key of the page is deleted: nobody who counts on its upload's objects is left.
LEMMA PurgeKey ==
    ASSUME IInv, NEW k, job.pc = "sweep", k \in job.keys, delete(k),
           job' = [job EXCEPT !.keys = @ \ {k}],
           UNCHANGED <<row, settled, minted, req, faults, history>>
    PROVE  IInv'
<1>1. TypeOK /\ job \in Job
  BY DEF IInv, TypeOK
<1>2. PICK j : j = job' /\ j \in Job /\ j.pc = "sweep" /\ j.keys = job.keys \ {k}
               /\ j.rows = job.rows /\ j.due = job.due /\ j.truncated = job.truncated
               /\ j.after = job.after
  BY <1>1 DEF Job
<1>3. /\ row' = row /\ settled' = settled /\ minted' = minted /\ req' = req /\ faults' = faults
      /\ slow' = slow /\ unacked' = unacked /\ leftover' = leftover /\ raced' = raced
      /\ object' = object \ {k} /\ aged' = aged \ {k}
  BY DEF history, delete
<1>4. TypeOK'
  BY <1>1, <1>2, <1>3 DEF TypeOK, Uploads, Keys, PhotoRow, NoRow, Job, Request
<1>5. (aged \subseteq object)'
  BY <1>3 DEF IInv
<1>6. ASSUME NEW c \in Clients PROVE ClientOK(c)'
  <2>1. Knows(c) /\ Writes(c) /\ Places(c)
    BY DEF IInv, ClientOK
  <2>2. Knows(c)' /\ Places(c)'
    BY <1>3, <2>1 DEF Knows, Places, Exists, InGallery, KeysOf, FullKey, ThumbKey, Uploads
  <2>3. Writes(c)'
    <3>1. CASE ~Writing(c)
      BY <1>3, <3>1 DEF Writes, Writing
    <3>2. CASE Writing(c)
      <4>1. PICK p : p = req[c].photo /\ p \in Uploads
        BY <3>2, Subject DEF Writing
      <4>2. /\ row[p].state = "absent" /\ p \notin job.rows
            /\ \A d \in Clients : Mine(d, p) => d = c
            /\ p \notin slow => \A i \in KeysOf(p) : i \notin aged /\ i \notin job.keys
            /\ p \notin slow /\ req[c].pc \in {"put_thumb", "insert"} => FullKey(p) \in object
            /\ p \notin slow /\ req[c].pc = "insert" => ThumbKey(p) \in object
        BY <2>1, <3>2, <4>1 DEF Writes
      <4>3. p \notin slow => k \notin KeysOf(p)
        BY <4>2
      <4>4. p \notin slow => k # FullKey(p) /\ k # ThumbKey(p)
        BY <4>3 DEF KeysOf
      <4>5. req'[c].photo = p
        BY <1>3, <4>1
      <4> QED
        BY <1>2, <1>3, <4>2, <4>4, <4>5 DEF Writes, Writing, Mine, KeysOf, FullKey, ThumbKey
    <3> QED
      BY <3>1, <3>2
  <2> QED
    BY <2>2, <2>3 DEF ClientOK
<1>7. ASSUME NEW p \in Uploads PROVE PhotoOK(p)'
  <2>1. PhotoOK(p) /\ KeysOf(p)' = KeysOf(p) /\ FullKey(p)' = FullKey(p)
    BY DEF IInv, KeysOf, FullKey, ThumbKey
  <2>2. Unused(p)' /\ Disposed(p)'
    BY <1>2, <1>3, <2>1 DEF PhotoOK, Unused, Disposed
  <2>3. Backed(p)' /\ Sweepable(p)' /\ Removable(p)'
    BY <1>2, <1>3, <2>1 DEF PhotoOK, Backed, Sweepable, Removable, Spared, Kept
  <2>4. Walked(p)'
    BY <1>2, <1>3, <2>1 DEF PhotoOK, Walked, Nobodys, Ahead
  <2> QED
    BY <2>2, <2>3, <2>4 DEF PhotoOK
<1>8. GalleryOrder'
  BY <1>3 DEF IInv, GalleryOrder, Uploads
<1> QED
  BY <1>2, <1>4, <1>5, <1>6, <1>7, <1>8 DEF IInv, Uploads

LEMMA PurgeUnreferenced ==
    ASSUME IInv, purge_unreferenced
    PROVE  IInv'
<1>1. TypeOK /\ job.pc = "sweep" /\ UNCHANGED <<row, settled, minted, req, faults, history>>
      /\ job \in Job
  BY DEF IInv, TypeOK, purge_unreferenced
<1>2. ASSUME job.keys # {}, NEW k,
             k = CHOOSE key \in job.keys : \A other \in job.keys : key <= other,
             delete(k), job' = [job EXCEPT !.keys = @ \ {k}]
      PROVE  IInv'
  <2>1. job.keys \subseteq Nat
    BY <1>1, BoundsAssumption DEF Job, Keys
  <2>2. k \in job.keys
    BY <1>2, <2>1, Least
  <2> QED
    BY <1>1, <1>2, <2>2, PurgeKey
<1>3. ASSUME job.keys = {}, job.truncated = TRUE, job' = NextPage(job.after, job.due),
             UNCHANGED store
      PROVE  IInv'
  <2>1. Calm /\ faults' \in 0 .. MaxFaults
    BY <1>1, <1>3 DEF Calm, store, history, TypeOK
  <2>2. job.after \in Keys \cup {0} /\ job.due \in SUBSET Keys
    BY <1>1 DEF Job
  <2>3. PICK j, a : j = job' /\ a = job.after /\ j = NextPage(a, job.due)
    BY <1>3
  <2>4. Pages(a, job.due)
    BY <1>1, <2>2, <2>3, Paging
  <2>5. /\ j \in Job /\ j.pc = "sweep" /\ j.rows = {} /\ j.due = job.due
        /\ \A k \in j.keys : k \in aged /\ ~Exists(UploadOf(k))
        /\ \A k \in object : k > a /\ k \in aged /\ ~Exists(UploadOf(k)) =>
                k \in j.keys \/ (j.truncated = TRUE /\ k > j.after)
    BY <2>3, <2>4 DEF Pages
  <2>6. ASSUME NEW p \in Uploads PROVE Removable(p)' /\ Walked(p)'
    <3>1. Removable(p)'
      BY <2>3, <2>5 DEF Removable
    <3>2. ASSUME NEW k \in KeysOf(p), k \in job.due
          PROVE  Nobodys(p)' /\ (k \in object' => k \in aged' /\ Ahead(k)')
      <4>1. Nobodys(p) /\ (k \in object => k \in aged /\ Ahead(k))
        BY <1>1, <3>2 DEF IInv, PhotoOK, Walked
      <4>2. k \in object => k \in aged /\ k > a
        BY <1>3, <2>3, <4>1 DEF Ahead
      <4>3. ~Exists(UploadOf(k))
        <5>1. UploadOf(k) = p
          BY KeysApart
        <5> QED
          BY <4>1, <5>1 DEF Nobodys, Exists
      <4>4. Nobodys(p)'
        BY <2>1, <4>1 DEF Nobodys, Calm
      <4> QED
        BY <2>1, <2>3, <2>5, <4>2, <4>3, <4>4 DEF Ahead, Calm
    <3>3. Walked(p)'
      BY <2>3, <2>5, <3>2 DEF Walked, KeysOf, FullKey, ThumbKey
    <3> QED
      BY <3>1, <3>3
  <2> QED
    BY <2>1, <2>3, <2>5, <2>6, JobMoves
<1>4. ASSUME job' = [JobIdle EXCEPT !.pc = "reconcile"], UNCHANGED store
      PROVE  IInv'
  <2>1. Calm /\ faults' \in 0 .. MaxFaults
    BY <1>1, <1>4 DEF Calm, store, history, TypeOK
  <2>2. job' \in Job /\ job'.pc = "reconcile" /\ job'.rows = {} /\ job'.keys = {}
    BY <1>4 DEF JobIdle, Job, PhotoKind
  <2>3. \A p \in Uploads : Removable(p)' /\ Walked(p)'
    BY <2>2 DEF Removable, Walked
  <2> QED
    BY <2>1, <2>2, <2>3, JobMoves
<1>5. job.truncated \in BOOLEAN
  BY <1>1 DEF Job
<1> QED
  BY <1>2, <1>3, <1>4, <1>5 DEF purge_unreferenced

LEMMA ReconcilePendingPhotos ==
    ASSUME IInv, reconcile_pending_photos
    PROVE  IInv'
<1>1. TypeOK /\ job \in Job /\ Calm /\ faults' \in 0 .. MaxFaults
  BY DEF IInv, TypeOK, reconcile_pending_photos, Calm, store, history
<1>2. PICK R : /\ R = {p \in settled : /\ row[p].state = "PENDING_REVIEW"
                                       /\ KindOf(row[p].parent) = job.kind}
               /\ job' = [job EXCEPT !.pc = "exists", !.rows = R]
  BY DEF reconcile_pending_photos
<1>3. R \subseteq Uploads /\ \A p \in R : Exists(p)
  BY <1>1, <1>2 DEF TypeOK, Exists
<1>4. job' \in Job /\ job'.pc = "exists" /\ job'.rows = R /\ job'.keys = job.keys
  BY <1>1, <1>2, <1>3 DEF Job
<1>5. \A p \in Uploads : Removable(p)' /\ Walked(p)'
  BY <1>4 DEF Removable, Walked
<1> QED
  BY <1>1, <1>3, <1>4, <1>5, JobMoves

LEMMA JobReturns ==
    ASSUME IInv, Calm, faults' \in 0 .. MaxFaults,
           job' = JobIdle \/ job' = [JobIdle EXCEPT !.pc = "reconcile", !.kind = "review"]
    PROVE  IInv'
<1>1. job' \in Job /\ job'.pc \in {"idle", "reconcile"} /\ job'.rows = {} /\ job'.keys = {}
  <2>1. CASE job' = JobIdle
    BY <2>1 DEF JobIdle, Job, PhotoKind
  <2>2. CASE job' = [JobIdle EXCEPT !.pc = "reconcile", !.kind = "review"]
    BY <2>2 DEF JobIdle, Job, PhotoKind
  <2> QED
    BY <2>1, <2>2
<1>2. \A p \in Uploads : Removable(p)' /\ Walked(p)'
  BY <1>1 DEF Removable, Walked
<1> QED
  BY <1>1, <1>2, JobMoves

\* A row found without its object was never one that counts on it.
LEMMA LookUp ==
    ASSUME IInv, look_up
    PROVE  IInv'
<1>1. TypeOK /\ job \in Job /\ Calm /\ faults' \in 0 .. MaxFaults /\ job.pc = "exists"
  BY DEF IInv, TypeOK, look_up, Calm, store, history
<1>2. CASE job.rows = {}
  BY <1>1, <1>2, JobReturns DEF look_up, NextTable
<1>3. CASE job.rows # {} /\ exists(FullKey(NextRow))
  <2>1. job' = [job EXCEPT !.rows = @ \ {NextRow}]
    BY <1>3 DEF look_up
  <2>2. job' \in Job /\ job'.pc = "exists" /\ job'.rows = job.rows \ {NextRow} /\ job'.keys = job.keys
    BY <1>1, <2>1 DEF Job
  <2>3. \A p \in Uploads : Removable(p)' /\ Walked(p)'
    BY <2>2 DEF Removable, Walked
  <2> QED
    BY <1>1, <2>2, <2>3, JobMoves
<1>4. CASE job.rows # {} /\ ~exists(FullKey(NextRow))
  <2>1. job' = [job EXCEPT !.pc = "delete"]
    BY <1>4 DEF look_up
  <2>2. job' \in Job /\ job'.pc = "delete" /\ job'.rows = job.rows /\ job'.keys = job.keys
    BY <1>1, <2>1 DEF Job
  <2>3. NextRow' = NextRow
    BY <2>2 DEF NextRow
  <2>4. ASSUME NEW p \in Uploads PROVE Removable(p)' /\ Walked(p)'
    <3>1. Walked(p)'
      BY <2>2 DEF Walked
    <3>2. p = NextRow => Spared(p)
      BY <1>4 DEF IInv, PhotoOK, Backed, Spared, exists, KeysOf
    <3>3. Removable(p)'
      BY <1>1, <2>3, <3>2 DEF Removable, Spared, Kept, Calm
    <3> QED
      BY <3>1, <3>3
  <2> QED
    BY <1>1, <1>4, <2>2, <2>4, JobMoves
<1> QED
  BY <1>2, <1>3, <1>4

\* The next row of the job is one of its rows.
LEMMA NextRowOfJob ==
    ASSUME IInv, job.pc = "delete"
    PROVE  NextRow \in job.rows /\ NextRow \in Uploads
<1>1. job.rows \subseteq Uploads /\ job.rows # {}
  BY DEF IInv, TypeOK, Job
<1>2. job.rows \subseteq Nat
  BY <1>1, BoundsAssumption DEF Uploads
<1>3. NextRow \in job.rows
  BY <1>1, <1>2, Least DEF NextRow
<1> QED
  BY <1>1, <1>3

LEMMA DeleteRow ==
    ASSUME IInv, delete_row
    PROVE  IInv'
<1>1. PICK p : p = NextRow /\ p \in job.rows /\ p \in Uploads
  BY NextRowOfJob DEF delete_row
<1>2. TypeOK /\ job \in Job /\ job.pc = "delete" /\ row' = [row EXCEPT ![p] = NoRow]
      /\ job' = [job EXCEPT !.pc = "exists", !.rows = @ \ {p}]
      /\ UNCHANGED <<store, settled, minted, req, faults, history>>
  BY <1>1 DEF IInv, TypeOK, delete_row
<1>3. /\ row' \in [Uploads -> PhotoRow \cup {NoRow}] /\ row'[p].state = "absent"
      /\ \A q \in Uploads : q # p => row'[q] = row[q]
  BY <1>1, <1>2 DEF TypeOK, NoRow
<1>4. job' \in Job /\ job'.pc = "exists" /\ job'.rows = job.rows \ {p} /\ job'.keys = job.keys
  BY <1>2 DEF Job
<1>5. /\ settled' = settled /\ minted' = minted /\ req' = req /\ faults' = faults
      /\ slow' = slow /\ unacked' = unacked /\ leftover' = leftover /\ raced' = raced
      /\ object' = object /\ aged' = aged /\ minted \in Nat
  BY <1>2, BoundsAssumption DEF history, store, TypeOK
<1>6. TypeOK'
  BY <1>2, <1>3, <1>4, <1>5 DEF TypeOK, Uploads, Keys, PhotoRow, NoRow, Job, Request
<1>7. \A q \in Uploads : RowKept(q)
  BY <1>3 DEF RowKept
<1>8. \A d \in Clients : Kin(d)
  BY <1>5 DEF Kin
<1>9. ASSUME NEW d \in Clients PROVE Knows(d)' /\ Writes(d)'
  <2>1. CASE req[d].pc = "idle"
    BY <1>5, <2>1 DEF Knows, Writes, Writing
  <2>2. CASE req[d].pc # "idle"
    <3>1. PICK q : q = req[d].photo /\ q \in Uploads
      BY <2>2, Subject
    <3>2. Knows(d)'
      BY <1>5, <1>7, <1>8, <3>1, KnowsKept
    <3>3. Writes(d)
      BY DEF IInv, ClientOK
    <3>4. Writing(d) => q # p
      BY <1>1, <3>1, <3>3 DEF Writes
    <3>5. Writes(d)'
      BY <1>3, <1>4, <1>5, <3>1, <3>3, <3>4 DEF Writes, Writing, Mine, KeysOf, FullKey, ThumbKey
    <3> QED
      BY <3>2, <3>5
  <2> QED
    BY <2>1, <2>2
<1>10. GalleryOrder' /\ \A d \in Clients : Places(d)'
  <2>1. GalleryKept
    BY <1>3, <1>5, <1>8 DEF GalleryKept, InGallery
  <2> QED
    BY <2>1, SameGallery
<1>11. ASSUME NEW q \in Uploads PROVE PhotoOK(q)'
  <2>1. PhotoOK(q) /\ KeysOf(q)' = KeysOf(q) /\ FullKey(q)' = FullKey(q)
    BY DEF IInv, KeysOf, FullKey, ThumbKey
  <2>2. row'[q] = row[q] \/ row'[q].state = "absent"
    BY <1>3
  <2>3. Unused(q)'
    BY <1>3, <1>4, <1>5, <2>1, <2>2 DEF PhotoOK, Unused
  <2>4. Disposed(q)' /\ Backed(q)' /\ Sweepable(q)'
    BY <1>4, <1>5, <2>1, <2>2 DEF PhotoOK, Disposed, Backed, Sweepable, Spared, Kept
  <2>5. Removable(q)' /\ Walked(q)'
    BY <1>4 DEF Removable, Walked
  <2> QED
    BY <2>3, <2>4, <2>5 DEF PhotoOK
<1>12. (aged \subseteq object)'
  BY <1>5 DEF IInv
<1> QED
  BY <1>4, <1>6, <1>9, <1>10, <1>11, <1>12 DEF IInv, ClientOK, Uploads

-----------------------------------------------------------------------------
\* The theorems

LEMMA InitEstablishes == Init => IInv
<1> SUFFICES ASSUME Init PROVE IInv
  OBVIOUS
<1>1. PICK parent \in [Uploads -> Parents] :
         row = [p \in Uploads |-> IF p <= Earlier THEN PendingRow(parent[p]) ELSE NoRow]
  BY DEF Init
<1>2. /\ MaxUploads \in Nat /\ Earlier \in Nat /\ Earlier <= MaxUploads
      /\ minted = Earlier /\ req = [c \in Clients |-> Idle] /\ job = JobIdle
      /\ object = UNION {KeysOf(p) : p \in 1 .. Earlier} /\ aged = {} /\ settled = {}
      /\ faults = 0 /\ slow = {} /\ unacked = {} /\ leftover = {} /\ raced = {}
  BY BoundsAssumption DEF Init
<1>3. \A p \in Uploads : p \in Nat /\ (p <= Earlier => p \in 1 .. Earlier)
  BY <1>2 DEF Uploads
<1>4. \A p \in 1 .. Earlier : p \in Uploads /\ p \in Nat /\ p <= Earlier
  BY <1>2 DEF Uploads
<1>5. ASSUME NEW p \in Uploads
      PROVE  /\ row[p] \in PhotoRow \cup {NoRow}
             /\ row[p].state = IF p <= Earlier THEN "PENDING_REVIEW" ELSE "absent"
  BY <1>1 DEF PendingRow, NoRow, PhotoRow, PhotoModerationState
<1>6. /\ \A c \in Clients : req[c].pc = "idle"
      /\ job.pc = "idle" /\ job.keys = {} /\ job.rows = {}
  BY <1>2 DEF Idle, JobIdle
<1>7. TypeOK
  <2>1. object \subseteq Keys
    BY <1>2, <1>4, KeysApart
  <2>2. Idle \in Request /\ JobIdle \in Job
    BY DEF Idle, Request, JobIdle, Job, PhotoKind
  <2>3. row \in [Uploads -> PhotoRow \cup {NoRow}]
    BY <1>1, <1>5
  <2>4. minted \in 0 .. MaxUploads /\ faults \in 0 .. MaxFaults
    BY <1>2, BoundsAssumption
  <2> QED
    BY <1>2, <2>1, <2>2, <2>3, <2>4 DEF TypeOK
<1>8. \A c \in Clients : ClientOK(c)
  BY <1>6 DEF ClientOK, Knows, Writes, Writing, Places
<1>9. ASSUME NEW p \in Uploads PROVE PhotoOK(p)
  <2>1. Sweepable(p) /\ Removable(p) /\ Walked(p) /\ Disposed(p)
    BY <1>5, <1>6 DEF Sweepable, Removable, Walked, Disposed
  <2>2. CASE p <= Earlier
    <3>1. \A k \in KeysOf(p) : k \in object
      BY <1>2, <1>3, <2>2
    <3>2. Backed(p)
      BY <3>1 DEF Backed
    <3>3. Unused(p)
      BY <1>2, <1>3, <2>2 DEF Unused
    <3> QED
      BY <2>1, <3>2, <3>3 DEF PhotoOK
  <2>3. CASE ~(p <= Earlier)
    <3>1. row[p].state = "absent"
      BY <1>5, <2>3
    <3>2. \A q \in 1 .. Earlier : q # p
      BY <1>4, <2>3
    <3>3. \A k \in KeysOf(p) : k \notin object
      BY <1>2, <1>4, <3>2, KeysApart
    <3>4. Unused(p) /\ Backed(p)
      BY <1>6, <3>1, <3>3 DEF Unused, Backed, Kept
    <3> QED
      BY <2>1, <3>4 DEF PhotoOK
  <2> QED
    BY <2>2, <2>3
<1>10. GalleryOrder
  BY <1>5 DEF GalleryOrder
<1> QED
  BY <1>2, <1>6, <1>7, <1>8, <1>9, <1>10 DEF IInv

LEMMA NextPreserves == IInv /\ [Next]_vars => IInv'
<1> SUFFICES ASSUME IInv, [Next]_vars PROVE IInv'
  OBVIOUS
<1>1. ASSUME NEW c \in Clients, Upload(c) PROVE IInv'
  BY <1>1, UploadPhoto, PutFull, PutThumb, InsertPending, UndoUpload DEF Upload, upload_photo_post
<1>2. ASSUME NEW c \in Clients, Moderate(c) PROVE IInv'
  <2>1. ASSUME NEW u \in Users, NEW p \in Uploads, NEW kind,
               moderation_photo_approve(c, u, p, kind)
        PROVE  IInv'
    BY <2>1, GetForModeration DEF moderation_photo_approve, approve_photo
  <2>2. ASSUME NEW u \in Users, NEW p \in Uploads, NEW kind, NEW has_reason,
               moderation_photo_reject(c, u, p, kind, has_reason)
        PROVE  IInv'
    BY <2>2, GetForModeration DEF moderation_photo_reject, reject_photo
  <2> QED
    BY <1>2, <2>1, <2>2, PlaceStep, ApproveStep, RejectStep, DeleteFull, DeleteThumb DEF Moderate
<1>3. ASSUME NEW c \in Clients, Drop(c) PROVE IInv'
  BY <1>3, Dropped
<1>4. ASSUME NEW p \in Uploads, hide_photo(p) \/ restore_photo(p) PROVE IInv'
  BY <1>4, SetStateStep DEF hide_photo, restore_photo
<1>5. ASSUME NEW p \in Uploads, Settle(p) PROVE IInv'
  BY <1>5, SettleStep DEF Settle, IInv, TypeOK
<1>6. ASSUME NEW p \in Uploads, Age(p) PROVE IInv'
  BY <1>6, AgeStep
<1>7. CASE JobStep
  BY <1>7, PurgeOrphanUploads, PurgeUnreferenced, ReconcilePendingPhotos, LookUp, DeleteRow DEF JobStep
<1>8. CASE JobFails
  <2>1. Calm /\ job' = JobIdle
    BY <1>8 DEF JobFails, Calm, store, history
  <2>2. faults' \in 0 .. MaxFaults
    BY <1>8, Faults DEF JobFails, IInv
  <2> QED
    BY <2>1, <2>2, JobReturns
<1>9. CASE UNCHANGED vars
  BY <1>9, SettleStep DEF vars, store, history, IInv, TypeOK
<1> QED
  BY <1>1, <1>2, <1>3, <1>4, <1>5, <1>6, <1>7, <1>8, <1>9 DEF Next

\* The inductive invariant holds throughout: uploads, moderation, the sweep and the
\* reconciliation of photo.rs and retention.rs keep it at every step.
THEOREM Invariance == Spec => []IInv
<1> QED
  BY InitEstablishes, NextPreserves, PTL DEF Spec

\* Rows, objects, requests and the job keep their types.
THEOREM TypeCorrect == Spec => []TypeOK
<1>1. IInv => TypeOK
  BY DEF IInv
<1> QED
  BY Invariance, <1>1, PTL

\* upload_photo writes the objects before the row: a row that was not rejected has both
\* its objects, unless the upload outlasted the orphan TTL or its INSERT was reported
\* failed and had committed.
THEOREM RowsHaveObjects == Spec => []RowHasObjects
<1>1. IInv => RowHasObjects
  BY DEF IInv, PhotoOK, Backed, RowHasObjects
<1> QED
  BY Invariance, <1>1, PTL

\* reject_photo deletes both objects of the photo it rejected, whatever other requests
\* and the job do meanwhile, unless one of its own deletes failed or was not made.
THEOREM RejectedBytesGo == Spec => []RejectedBytesGone
<1>1. IInv => RejectedBytesGone
  BY DEF IInv, PhotoOK, Disposed, RejectedBytesGone, RejectSteps
<1> QED
  BY Invariance, <1>1, PTL

\* Two photos of a gallery have the same position only if their approvals overlapped
\* between max_position and the UPDATE.
THEOREM GalleryOrdered == Spec => []GalleryOrder
<1>1. IInv => GalleryOrder
  BY DEF IInv
<1> QED
  BY Invariance, <1>1, PTL

\* reconcile_pending_photos, which deletes by id a row it saw pending, deletes no
\* approved row but one whose objects were lost to a slow or an unacknowledged upload.
THEOREM ReconciliationSpares == Spec => ReconcileSpares
<1>1. IInv /\ [Next]_vars
      => [\A p \in Uploads : row[p].state \in {"APPROVED", "HIDDEN"} /\ row'[p].state = "absent"
                             => p \in slow \cup unacked]_vars
  <2> SUFFICES ASSUME IInv, Next, NEW p \in Uploads,
                      row[p].state \in {"APPROVED", "HIDDEN"}, row'[p].state = "absent"
               PROVE  p \in slow \cup unacked
    OBVIOUS
  <2>1. CASE delete_row
    <3>1. p = NextRow
      BY <2>1 DEF delete_row, IInv, TypeOK
    <3> QED
      BY <2>1, <3>1 DEF delete_row, IInv, PhotoOK, Removable, Spared, Kept
  <2>2. ASSUME ~delete_row PROVE row'[p].state # "absent"
    <3>1. row \in [Uploads -> PhotoRow \cup {NoRow}] /\ row[p] \in PhotoRow
      BY DEF IInv, TypeOK, NoRow
    <3>2. CASE row' = row
      BY <3>2
    <3>3. ASSUME NEW q, NEW r, row' = [row EXCEPT ![q] = r], r.state # "absent"
          PROVE  row'[p].state # "absent"
      BY <3>1, <3>3
    <3>4. ASSUME NEW q, NEW to \in PhotoModerationState, row' = [row EXCEPT ![q].state = to]
          PROVE  row'[p].state # "absent"
      BY <3>1, <3>4 DEF PhotoRow, PhotoModerationState
    <3>5. ASSUME NEW c \in Clients, insert_pending(c) PROVE row'[p].state # "absent"
      <4>1. PendingRow(req[c].parent).state # "absent"
        BY DEF PendingRow
      <4> QED
        BY <3>2, <3>3, <3>5, <4>1 DEF insert_pending
    <3>6. ASSUME NEW c \in Clients, approve(c) PROVE row'[p].state # "absent"
      BY <3>1, <3>6 DEF approve, PhotoRow
    <3>7. ASSUME NEW c \in Clients, reject(c) PROVE row'[p].state # "absent"
      BY <3>2, <3>4, <3>7 DEF reject, PhotoModerationState
    <3>8. ASSUME NEW q \in Uploads, hide_photo(q) \/ restore_photo(q) PROVE row'[p].state # "absent"
      BY <3>4, <3>8 DEF hide_photo, restore_photo, SetState, PhotoModerationState
    <3>9. ASSUME NEW c \in Clients, Upload(c), ~insert_pending(c) PROVE row' = row
      BY <3>9 DEF Upload, upload_photo_post, upload_photo, put_full, put_thumb, undo_upload
    <3>10. ASSUME NEW c \in Clients, Moderate(c), ~approve(c), ~reject(c) PROVE row' = row
      BY <3>10 DEF Moderate, moderation_photo_approve, moderation_photo_reject, approve_photo,
                   reject_photo, get_for_moderation, place, delete_full, delete_thumb, DeleteRejected
    <3>11. ASSUME NEW c \in Clients, Drop(c) PROVE row' = row
      BY <3>11 DEF Drop
    <3>12. ASSUME NEW q \in Uploads, Settle(q) \/ Age(q) PROVE row' = row
      BY <3>12 DEF Settle, Age
    <3>13. ASSUME JobStep \/ JobFails PROVE row' = row
      BY <2>2, <3>13 DEF JobStep, JobFails, purge_orphan_uploads, purge_unreferenced,
                         reconcile_pending_photos, look_up
    <3> QED
      BY <3>2, <3>5, <3>6, <3>7, <3>8, <3>9, <3>10, <3>11, <3>12, <3>13 DEF Next
  <2> QED
    BY <2>1, <2>2
<1> QED
  BY Invariance, <1>1, PTL DEF Spec, ReconcileSpares

\* purge_orphan_uploads misses no page: when it comes to its end, every orphan there was
\* when it began is gone, for every page size and whatever was uploaded and deleted
\* meanwhile.
THEOREM SweepsAll == Spec => SweepComplete
<1>1. IInv /\ [Next]_vars
      => [job.pc = "sweep" /\ job'.pc = "reconcile" => job.due \cap object' = {}]_vars
  <2> SUFFICES ASSUME IInv, Next, job.pc = "sweep", job'.pc = "reconcile"
               PROVE  job.due \cap object' = {}
    OBVIOUS
  <2>1. job' # job /\ job' # JobIdle
    BY DEF JobIdle
  <2>2. purge_unreferenced
    <3>1. ASSUME NEW c \in Clients, Upload(c) PROVE job' = job
      BY <3>1 DEF Upload, upload_photo_post, upload_photo, put_full, put_thumb, insert_pending, undo_upload
    <3>2. ASSUME NEW c \in Clients, Moderate(c) PROVE job' = job
      BY <3>2 DEF Moderate, moderation_photo_approve, moderation_photo_reject, approve_photo,
                  reject_photo, get_for_moderation, place, approve, reject, delete_full, delete_thumb,
                  DeleteRejected
    <3>3. ASSUME NEW c \in Clients, Drop(c) PROVE job' = job
      BY <3>3 DEF Drop
    <3>4. ASSUME NEW p \in Uploads, hide_photo(p) \/ restore_photo(p) \/ Settle(p) \/ Age(p)
          PROVE  job' = job
      BY <3>4 DEF hide_photo, restore_photo, SetState, Settle, Age
    <3>5. ~JobFails
      BY <2>1 DEF JobFails
    <3>6. JobStep => purge_unreferenced
      BY DEF JobStep, purge_orphan_uploads, reconcile_pending_photos, look_up, delete_row
    <3> QED
      BY <2>1, <3>1, <3>2, <3>3, <3>4, <3>5, <3>6 DEF Next
  <2>3. job \in Job /\ job.due \subseteq Keys
    BY DEF IInv, TypeOK, Job
  <2>4. job.keys = {} /\ job.truncated = FALSE /\ object' = object
    <3>1. ASSUME NEW S, job' = [job EXCEPT !.keys = S] PROVE FALSE
      BY <2>3, <3>1 DEF Job
    <3>2. NextPage(job.after, job.due).pc = "sweep"
      BY DEF NextPage, JobIdle
    <3>3. job.truncated \in BOOLEAN
      BY <2>3 DEF Job
    <3> QED
      BY <2>2, <3>1, <3>2, <3>3 DEF purge_unreferenced, store
  <2>5. ASSUME NEW k \in job.due, k \in object PROVE FALSE
    <3>1. PICK p \in Uploads : k \in KeysOf(p)
      BY <2>3, KeysApart
    <3>2. Ahead(k)
      BY <2>5, <3>1 DEF IInv, PhotoOK, Walked
    <3> QED
      BY <2>4, <3>2 DEF Ahead
  <2> QED
    BY <2>4, <2>5
<1> QED
  BY Invariance, <1>1, PTL DEF Spec, SweepComplete
=============================================================================
