-------------------------------- MODULE Search --------------------------------
(***************************************************************************)
(* Searching for parking: a walk through the pages of a radius search, one *)
(* request after the other, and one look at a map area, while locations    *)
(* are edited, rated, verified and hidden and the clock moves on.  Each    *)
(* request is two statements (search.rs of the infrastructure), a count    *)
(* and a page, with nothing holding the table still between them.          *)
(***************************************************************************)
EXTENDS OpeningHours

CONSTANTS
    Locations,         \* ids, in the order the tie-break uses
    Rows,              \* the rows a location may have
    KnownCodes,        \* SECURITY_FEATURE_CODES
    RADIUS_OPTIONS_M, DEFAULT_RADIUS_M,
    PageSize,          \* DEFAULT_PAGE_SIZE, after the clamp
    MarkerCap,         \* BROWSE_MARKER_CAP
    MaxLon, MaxLat, MAX_BROWSE_SPAN_DEG,   \* the globe and the widest box
    InputSorts, InputFilters, InputRadii, InputBoxes,  \* what a URL may ask for
    MaxWrites,         \* bound on the writes during a request
    Moments            \* the later instants the clock is looked at

ASSUME SearchAssumption ==
    /\ Locations \subseteq Nat /\ IsFiniteSet(Locations)
    /\ \A row \in Rows : /\ row.x \in Int /\ row.y \in Int /\ row.rating_avg \in Nat
                         /\ row.last_verified_at \in Int /\ IsFiniteSet(row.security_yes)
    /\ PageSize \in Nat \ {0} /\ MarkerCap \in Nat \ {0}
    /\ DEFAULT_RADIUS_M \in RADIUS_OPTIONS_M
    /\ \A r \in RADIUS_OPTIONS_M : r \in Nat \ {0} /\ 200 % r = 0
    /\ MaxLon \in Nat /\ MaxLat \in Nat
    /\ MaxWrites \in Nat /\ Moments \subseteq Nat

VARIABLES
    rows,       \* parking_location with its hours, attributes and aggregates
    instant,    \* the current slot
    walk,       \* the viewer's way through the pages of a search
    map,        \* the viewer's look at a map area
    writes,     \* the writes made so far
    disturbed   \* history: locations whose match or key changed under the viewer

searchVars == <<rows, instant, walk, map, writes, disturbed>>

Sort == {"recommended", "distance", "security", "rating", "recently_verified"}

-----------------------------------------------------------------------------
\* Validating a request

\* SearchInput::filters and SearchRequest::new: unknown codes are dropped, a
\* radius off the list is the default, a cursor minted for another sort is none.
from_code(code) == IF code \in Sort THEN code ELSE "recommended"
RadiusOf(r) == IF r \in RADIUS_OPTIONS_M THEN r ELSE DEFAULT_RADIUS_M
KnownOnly(filters) == [filters EXCEPT !.security = @ \cap KnownCodes]

NoCursor == [sort |-> "none", v |-> 0, id |-> 0]
CursorFor(sort, cursor) == IF cursor.sort = sort THEN cursor ELSE NoCursor

NewRequest(input, cursor) ==
    [sort |-> from_code(input.sort), radius |-> RadiusOf(input.radius),
     filters |-> KnownOnly(input.filters),
     cursor |-> CursorFor(from_code(input.sort), cursor)]

\* BoundsQuery::parse: on the globe, not inside out, not too wide.
ValidBounds(b) ==
    /\ b.west \in -MaxLon .. MaxLon /\ b.east \in -MaxLon .. MaxLon
    /\ b.south \in -MaxLat .. MaxLat /\ b.north \in -MaxLat .. MaxLat
    /\ b.west < b.east /\ b.south < b.north
    /\ b.east - b.west <= MAX_BROWSE_SPAN_DEG /\ b.north - b.south <= MAX_BROWSE_SPAN_DEG

-----------------------------------------------------------------------------
\* What matches, and how it ranks

Abs(n) == IF n < 0 THEN -n ELSE n
Distance(row, x, y) == Abs(row.x - x) + Abs(row.y - y)
FromOrigin(row) == Distance(row, 0, 0)

\* The filters FILTERS and BOUNDS_FILTERS share, bound by filter_binds.
Passes(row, filters, now) ==
    /\ row.active
    /\ filters.cost = "any" \/ row.cost = filters.cost
    /\ filters.types = {} \/ row.type \in filters.types
    /\ filters.open_now => bikesnest_is_open_at(row.hours, now % (7 * Slots))
    /\ filters.security \subseteq row.security_yes

FILTERS(row, request, now) ==
    FromOrigin(row) <= request.radius /\ Passes(row, request.filters, now)

BOUNDS_FILTERS(row, box, filters, now) ==
    /\ box.west <= row.x /\ row.x <= box.east
    /\ box.south <= row.y /\ row.y <= box.north
    /\ Passes(row, filters, now)

Never == -1
AgeInDays(row, now) == (now - row.last_verified_at) \div Slots

\* RECOMMENDED_SORT_KEY with the weights 0.35, 0.25, 0.20, 0.15 and 0.05 as
\* 7, 5, 4, 3 and 1, and every sub-score of 0 .. 1 as 0 .. 200.
RECOMMENDED_SORT_KEY(row, radius, now) ==
    LET near == 200 - (200 \div radius) * (IF FromOrigin(row) < radius THEN FromOrigin(row) ELSE radius)
        yes == Cardinality(row.security_yes)
        secure == IF yes > 0 THEN 25 * (IF yes < 8 THEN yes ELSE 8) ELSE 100
        rated == IF row.rating_avg = 0 THEN 100 ELSE 40 * row.rating_avg
        verified == row.last_verified_at # Never
    IN  -(7 * near + 5 * secure + 4 * rated
          + 3 * (IF verified THEN 2 * FreshnessScore(AgeInDays(row, now)) ELSE 100)
          + (IF verified THEN 200 ELSE 100))

\* Ratings are compared in halves: no reviews is 2.5.
sort_key_sql(sort, row, radius, now) ==
    CASE sort = "distance" -> FromOrigin(row)
      [] sort = "security" -> -Cardinality(row.security_yes)
      [] sort = "rating" -> -(IF row.rating_avg = 0 THEN 5 ELSE 2 * row.rating_avg)
      [] sort = "recently_verified" -> -(IF row.last_verified_at = Never THEN 0 ELSE row.last_verified_at)
      [] OTHER -> RECOMMENDED_SORT_KEY(row, radius, now)

KeyOf(l, table, request, now) == sort_key_sql(request.sort, table[l], request.radius, now)
Matching(table, request, now) == {l \in Locations : FILTERS(table[l], request, now)}

\* Mutant: the keyset predicate compares the key alone.
PastKey(key, l, cursor) == cursor = NoCursor \/ key > cursor.v

\* (sort_key, id) > ($9, $10)
Past(key, l, cursor) ==
    cursor = NoCursor \/ key > cursor.v \/ (key = cursor.v /\ l > cursor.id)

\* ORDER BY the key, then the id; LIMIT.
Before(key, a, b) == key[a] < key[b] \/ (key[a] = key[b] /\ a < b)
Ordered(S, key) ==
    CHOOSE s \in [1 .. Cardinality(S) -> S] :
      \A m, n \in DOMAIN s : m < n => Before(key, s[m], s[n])
First(s, limit) == SubSeq(s, 1, IF Len(s) < limit THEN Len(s) ELSE limit)

\* Statement (b): the first `limit` matches past the cursor, in order.
PageOf(request, now, limit) ==
    LET key == [l \in Locations |-> KeyOf(l, rows, request, now)]
        candidates == {l \in Matching(rows, request, now) : Past(key[l], l, request.cursor)}
    IN  First(Ordered(candidates, key), limit)

-----------------------------------------------------------------------------
\* Walking the pages

NoInput == [sort |-> "none", radius |-> 0, filters |-> {}]
IdleWalk == [pc |-> "idle", input |-> NoInput, request |-> <<>>, now |-> 0, total |-> 0,
             next |-> NoCursor, listed |-> <<>>]
IdleMap == [pc |-> "idle", box |-> <<>>, filters |-> {}, now |-> 0, total |-> 0,
            items |-> <<>>, clusters |-> <<>>, disturbed |-> FALSE]

SearchInit ==
    /\ rows = <<>> /\ instant = 0 /\ walk = IdleWalk /\ map = IdleMap
    /\ writes = 0 /\ disturbed = {}

\* The locations the database holds when the viewer arrives.
Load == rows = <<>> /\ rows' \in [Locations -> Rows]
        /\ UNCHANGED <<instant, walk, map, writes, disturbed>>

\* A request with a URL's parameters: SearchParking::resolve with coordinates.
Resolve(input, cursor, listed) ==
    walk' = [walk EXCEPT !.pc = "count", !.input = input, !.now = instant,
                         !.request = NewRequest(input, cursor), !.listed = listed]

search(input) ==
    /\ rows # <<>> /\ walk.pc = "idle" /\ map.pc = "idle"
    /\ Resolve(input, NoCursor, <<>>)
    /\ UNCHANGED <<rows, instant, map, writes, disturbed>>

\* The next-page link: query_string and the cursor of the page.
next_page ==
    /\ walk.pc = "shown" /\ walk.next # NoCursor
    /\ Resolve(walk.input, walk.next, walk.listed)
    /\ UNCHANGED <<rows, instant, map, writes, disturbed>>

\* The sort changed by hand in a URL that still carries the cursor: page one.
resort(sort) ==
    /\ walk.pc = "shown" /\ walk.next # NoCursor /\ from_code(sort) # walk.request.sort
    /\ Resolve([walk.input EXCEPT !.sort = sort], walk.next, <<>>)
    /\ disturbed' = {}
    /\ UNCHANGED <<rows, instant, map, writes>>

\* Statement (a).
count ==
    /\ walk.pc = "count"
    /\ walk' = [walk EXCEPT !.pc = "page",
                            !.total = Cardinality(Matching(rows, walk.request, walk.now))]
    /\ UNCHANGED <<rows, instant, map, writes, disturbed>>

\* Statement (b) and SearchParking::page: one row more tells of a next page.
page ==
    /\ walk.pc = "page"
    /\ LET found == PageOf(walk.request, walk.now, PageSize + 1)
           more == Len(found) > PageSize
           items == IF more THEN SubSeq(found, 1, PageSize) ELSE found
           last == items[Len(items)]
       IN  walk' = [walk EXCEPT
                      !.pc = "shown", !.listed = @ \o items,
                      !.next = IF more
                               THEN [sort |-> walk.request.sort, id |-> last,
                                     v |-> KeyOf(last, rows, walk.request, walk.now)]
                               ELSE NoCursor]
    /\ UNCHANGED <<rows, instant, map, writes, disturbed>>

-----------------------------------------------------------------------------
\* Browsing a map area

Inside(m) == {l \in Locations : BOUNDS_FILTERS(rows[l], m.box, m.filters, m.now)}

\* A box is taken only without a cursor; unknown codes are not dropped here.
browse(box, filters) ==
    /\ rows # <<>> /\ map.pc = "idle" /\ walk.pc = "idle"
    /\ map' = [map EXCEPT !.pc = IF ValidBounds(box) THEN "count" ELSE "invalid",
                          !.box = box, !.filters = filters, !.now = instant]
    /\ UNCHANGED <<rows, instant, walk, writes, disturbed>>

bounds_count ==
    /\ map.pc = "count"
    /\ map' = [map EXCEPT !.total = Cardinality(Inside(map)),
                          !.pc = IF Cardinality(Inside(map)) > MarkerCap THEN "clusters" ELSE "items"]
    /\ UNCHANGED <<rows, instant, walk, writes, disturbed>>

\* The nearest to the centre first; twice the distances, so that they are whole.
bounds_page ==
    /\ map.pc = "items"
    /\ LET b == map.box
           away == [l \in Locations |-> Abs(2 * rows[l].x - b.west - b.east)
                                          + Abs(2 * rows[l].y - b.south - b.north)]
       IN  map' = [map EXCEPT !.pc = "shown",
                              !.items = First(Ordered(Inside(map), away), MarkerCap)]
    /\ UNCHANGED <<rows, instant, walk, writes, disturbed>>

\* Counts on a grid: a cell for each distinct snapped position.
Cell(row) == <<row.x \div 2, row.y \div 2>>

bounds_clusters ==
    /\ map.pc = "clusters"
    /\ map' = [map EXCEPT !.pc = "shown",
                 !.clusters = [c \in {Cell(rows[l]) : l \in Inside(map)} |->
                                 Cardinality({l \in Inside(map) : Cell(rows[l]) = c})]]
    /\ UNCHANGED <<rows, instant, walk, writes, disturbed>>

-----------------------------------------------------------------------------
\* The world under the viewer

Ranking(table, now, l) ==
    IF walk.pc = "idle" THEN <<>>
    ELSE <<FILTERS(table[l], walk.request, now), KeyOf(l, table, walk.request, now)>>

Disturb(table, now) ==
    /\ disturbed' = disturbed \cup
         {l \in Locations : \/ Ranking(table, now, l) # Ranking(rows, instant, l)
                            \/ Ranking(table, walk.now, l) # Ranking(rows, walk.now, l)}
    /\ map' = [map EXCEPT !.disturbed = @ \/ (map.pc # "idle" /\ table # rows)]

\* Until the answer is complete; what happens later is another viewer's matter.
Viewing == \/ walk.pc \in {"count", "page"} \/ walk.next # NoCursor
           \/ map.pc \in {"count", "items", "clusters"}

\* An edit, a rating, a verification, a change of moderation state.
write(l, row) ==
    /\ Viewing /\ writes < MaxWrites /\ row # rows[l]
    /\ rows' = [rows EXCEPT ![l] = row]
    /\ writes' = writes + 1
    /\ Disturb(rows', instant)
    /\ UNCHANGED <<instant, walk>>

pass(moment) ==
    /\ Viewing /\ instant < moment
    /\ instant' = moment
    /\ Disturb(rows, instant')
    /\ UNCHANGED <<rows, walk, writes>>

SearchNext ==
    \/ Load
    \/ \E s \in InputSorts, f \in InputFilters, r \in InputRadii :
         search([sort |-> s, filters |-> f, radius |-> r])
    \/ next_page
    \/ \E s \in InputSorts : resort(s)
    \/ count
    \/ page
    \/ \E b \in InputBoxes, f \in InputFilters : browse(b, f)
    \/ bounds_count
    \/ bounds_page
    \/ bounds_clusters
    \/ \E l \in Locations, row \in Rows : write(l, row)
    \/ \E moment \in Moments : pass(moment)

SearchSpec == SearchInit /\ [][SearchNext]_searchVars

-----------------------------------------------------------------------------
\* Properties

Times(l) == Cardinality({n \in DOMAIN walk.listed : walk.listed[n] = l})
Ended == walk.pc = "shown" /\ walk.next = NoCursor

(* Whatever is written between the pages and however the clock moves the
   score, a location whose match and key stayed as they were is listed once
   when the walk ends if it matches, and never otherwise; ties included, for
   all five sorts, and the last page's total counts what was listed when
   nothing changed. *)
PagesComplete ==
    /\ \A l \in Locations \ disturbed :
         /\ Times(l) <= 1
         /\ Ended => (Times(l) = 1) = FILTERS(rows[l], walk.request, instant)
    /\ Ended /\ disturbed = {} => walk.total = Len(walk.listed)

\* What the clusters stand for, counted out.
Pins == {p \in (DOMAIN map.clusters) \X (1 .. Cardinality(Locations)) : p[2] <= map.clusters[p[1]]}

(* A map area shows markers or clusters, never both and never more markers
   than the cap, and when nothing changed between the two statements they
   stand for exactly the number the count gave. *)
BrowseAddsUp ==
    map.pc = "shown" =>
      /\ Len(map.items) <= MarkerCap
      /\ map.items = <<>> \/ map.clusters = <<>>
      /\ ~map.disturbed =>
           map.total = Len(map.items) + Cardinality(Pins)

(* The list and the map leave nothing out and show nothing twice. *)
NothingMissing == PagesComplete /\ BrowseAddsUp
=============================================================================
