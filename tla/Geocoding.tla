------------------------------ MODULE Geocoding ------------------------------
(***************************************************************************)
(* Resolving a destination: the bounded, expiring cache in front of the    *)
(* provider (geocoding.rs), and the two handlers that look into the cache, *)
(* charge the caller's budget when the call will be billed, and resolve.   *)
(* The limiter is modelled by its port: it says yes or no.                 *)
(***************************************************************************)
EXTENDS Integers, FiniteSets, Sequences, SequencesExt

CONSTANTS
    Queries,     \* normalised destinations
    Unknowns,    \* those the provider cannot resolve
    Viewers,     \* requests in progress
    CacheTTL,    \* GEOCODE_CACHE_TTL
    CacheCapacity,   \* GEOCODE_CACHE_CAPACITY
    MaxHour      \* bound on the time the model runs

ASSUME GeocodingAssumption ==
    /\ Unknowns \subseteq Queries /\ CacheTTL \in Nat \ {0}
    /\ CacheCapacity \in Nat \ {0} /\ MaxHour \in Nat

VARIABLES
    hits,       \* Cache.hits: the remembered answers, a function of their queries
    order,      \* Cache.order: their queries in the order they were first inserted
    hour,       \* time
    place,      \* the provider's answer: the hour it was last corrected, -1 before
    view,       \* each viewer's request
    lapsed      \* history: viewers not charged whose cached answer has gone since

geocodingVars == <<hits, order, hour, place, view, lapsed>>

NoView == [pc |-> "idle", query |-> "none", charged |-> FALSE, hit |-> -1, asked |-> 0]

GeocodingInit ==
    /\ hits = [q \in {} |-> 0] /\ order = <<>> /\ hour = 0
    /\ place = [q \in Queries |-> -1]
    /\ view = [v \in Viewers |-> NoView]
    /\ lapsed = {}

-----------------------------------------------------------------------------
\* The cache

Live(q, now) == q \in DOMAIN hits /\ now - hits[q].at < CacheTTL

peek(q) == Live(q, hour)

\* Keys beyond the capacity leave in the order they came.
remember(q, hit) ==
    LET queue == IF q \in DOMAIN hits THEN order ELSE Append(order, q)
        excess == IF Len(queue) > CacheCapacity THEN Len(queue) - CacheCapacity ELSE 0
        kept == SubSeq(queue, excess + 1, Len(queue))
        entry == [hit |-> hit, at |-> hour]
    IN  /\ order' = kept
        /\ hits' = [k \in ToSet(kept) |-> IF k = q THEN entry ELSE hits[k]]

-----------------------------------------------------------------------------
\* The handlers

Goto(v, pc) == view' = [view EXCEPT ![v].pc = pc]
Finish(v) == view' = [view EXCEPT ![v] = NoView]

\* Mutant: the search page asks the provider before it looks at the budget.
search_destinationFree(v, q) ==
    /\ view[v].pc = "idle"
    /\ view' = [view EXCEPT ![v] = [NoView EXCEPT !.query = q, !.pc = "geocode"]]
    /\ lapsed' = lapsed \ {v}
    /\ UNCHANGED <<hits, order, hour, place>>

\* geocode_is_billable of the search page: a cached destination is not charged.
search_destination(v, q) ==
    /\ view[v].pc = "idle"
    /\ view' = [view EXCEPT ![v] = [NoView EXCEPT !.query = q,
                                      !.pc = IF peek(q) THEN "geocode" ELSE "budget"]]
    /\ lapsed' = lapsed \ {v}
    /\ UNCHANGED <<hits, order, hour, place>>

\* geocode_api answers from what it peeked at.
geocode_api(v, q) ==
    /\ view[v].pc = "idle"
    /\ view' = [view EXCEPT ![v] = IF peek(q)
                                   THEN [NoView EXCEPT !.query = q, !.pc = "answer", !.hit = hits[q].hit]
                                   ELSE [NoView EXCEPT !.query = q, !.pc = "budget"]]
    /\ lapsed' = lapsed \ {v}
    /\ UNCHANGED <<hits, order, hour, place>>

\* The limiter's answer; an error of it is a no.
geocode_within_budget(v) ==
    /\ view[v].pc = "budget"
    /\ \/ view' = [view EXCEPT ![v].pc = "geocode", ![v].charged = TRUE]
       \/ Finish(v)   \* 429
    /\ UNCHANGED <<hits, order, hour, place, lapsed>>

\* CachingGeocoder::geocode looks again before it calls.
geocode(v) ==
    /\ view[v].pc = "geocode"
    /\ IF peek(view[v].query)
       THEN view' = [view EXCEPT ![v].pc = "answer", ![v].hit = hits[view[v].query].hit]
       ELSE view' = [view EXCEPT ![v].pc = "provider", ![v].asked = hour]
    /\ UNCHANGED <<hits, order, hour, place, lapsed>>

\* The provider reads its data; the reply is under way.
provider_reads(v) ==
    /\ view[v].pc = "provider"
    /\ view' = [view EXCEPT ![v].pc = "reply", ![v].hit = place[view[v].query]]
    /\ UNCHANGED <<hits, order, hour, place, lapsed>>

\* The reply, remembered when it is a hit; or no reply in time.
provider_replies(v) ==
    /\ view[v].pc = "reply"
    /\ IF view[v].query \in Unknowns
       THEN Finish(v) /\ UNCHANGED <<hits, order, lapsed>>
       ELSE /\ remember(view[v].query, view[v].hit)
            /\ Goto(v, "answer")
            /\ lapsed' = lapsed \cup {w \in Viewers : /\ view[w].pc = "geocode" /\ ~view[w].charged
                                                      /\ view[w].query \notin DOMAIN hits'}
    /\ UNCHANGED <<hour, place>>

provider_fails(v) ==
    /\ view[v].pc \in {"provider", "reply"}
    /\ Finish(v)   \* 503
    /\ UNCHANGED <<hits, order, hour, place, lapsed>>

answer_hit(v) ==
    /\ view[v].pc = "answer"
    /\ Finish(v)   \* 200
    /\ UNCHANGED <<hits, order, hour, place, lapsed>>

\* Time passes; no call outlasts its timeout, here one hour, and an answer is
\* given when it is there.  The provider may correct a place.
InTime == \A v \in Viewers : /\ view[v].pc # "answer"
                             /\ view[v].pc \in {"provider", "reply"} => view[v].asked = hour

geocoder_hour ==
    /\ hour < MaxHour /\ InTime
    /\ hour' = hour + 1
    /\ lapsed' = lapsed \cup {v \in Viewers : /\ view[v].pc = "geocode" /\ ~view[v].charged
                                              /\ ~Live(view[v].query, hour')}
    /\ UNCHANGED <<hits, order, place, view>>

correct(q) ==
    /\ place[q] # hour
    /\ place' = [place EXCEPT ![q] = hour]
    /\ UNCHANGED <<hits, order, hour, view, lapsed>>

GeocodingNext ==
    \/ \E v \in Viewers, q \in Queries : search_destination(v, q) \/ geocode_api(v, q)
    \/ \E v \in Viewers :
         \/ geocode_within_budget(v) \/ geocode(v) \/ provider_reads(v)
         \/ provider_replies(v) \/ provider_fails(v) \/ answer_hit(v)
    \/ geocoder_hour
    \/ \E q \in Queries \ Unknowns : correct(q)

GeocodingSpec == GeocodingInit /\ [][GeocodingNext]_geocodingVars

-----------------------------------------------------------------------------
\* Properties

(* Every call of the provider was charged to its caller's budget, except when
   the answer seen in the cache expired or was evicted before it was used. *)
CallsAreMetered ==
    \A v \in Viewers : view[v].pc \in {"provider", "reply"} => view[v].charged \/ v \in lapsed

(* A correction reaches every answer within the cache's lifetime, counted in
   hours begun: no order of peeks, calls that take their time, refreshes and
   evictions makes an older answer live on. *)
CorrectionsArrive ==
    \A v \in Viewers : view[v].pc = "answer" /\ view[v].hit # place[view[v].query]
      => hour - place[view[v].query] <= CacheTTL

(* The cache costs no caller a call that was not charged, and no reader a
   correction. *)
CacheIsSound == CallsAreMetered /\ CorrectionsArrive
=============================================================================
