-------------------------- MODULE ComponentsProofs --------------------------
(***************************************************************************)
(* Theorems about the components that share no state: Geocoding, Policies, *)
(* Browser, Startup, RateLimiter, HoursForm and Search, each about its own *)
(* specification and for every value of its constants.                     *)
(***************************************************************************)
EXTENDS Geocoding, Policies, Startup, Browser, RateLimiter, HoursForm, Search,
        FiniteSetTheorems, FunctionTheorems, SequenceTheorems, WellFoundedInduction, TLAPS

-----------------------------------------------------------------------------
\* Resolving a destination

Pcs == {"idle", "budget", "geocode", "provider", "reply", "answer"}
Views == [pc: Pcs, query: Queries \cup {"none"}, charged: BOOLEAN, hit: Int, asked: Int]

GeocodingTypeOK ==
    /\ hour \in Nat /\ place \in [Queries -> Int]
    /\ order \in Seq(Queries) /\ DOMAIN hits = ToSet(order)
    /\ \A q \in DOMAIN hits : hits[q].at \in Int /\ hits[q].hit \in Int
    /\ view \in [Viewers -> Views]
    /\ \A v \in Viewers : view[v].pc # "idle" => view[v].query \in Queries

\* Whom a request may cost a call: one not charged was let through by an answer
\* in the cache that is still there, or has gone since.
Metered(v) ==
    /\ view[v].pc = "geocode" => \/ view[v].charged = TRUE \/ v \in lapsed
                                 \/ Live(view[v].query, hour)
    /\ view[v].pc \in {"provider", "reply"} => view[v].charged = TRUE \/ v \in lapsed

\* How old what a request carries may be.
Timely(v) ==
    LET at == place[view[v].query] IN
    /\ view[v].pc \in {"provider", "reply"} => view[v].asked \in {hour - 1, hour}
    /\ view[v].pc = "reply" => view[v].hit = at \/ at >= view[v].asked
    /\ view[v].pc = "answer" => view[v].hit = at \/ hour - at <= CacheTTL

\* How old what the cache holds may be: a call takes at most an hour, so an answer
\* that has been corrected was corrected no earlier than an hour before it was stored.
Entry(q) == hits[q].at <= hour /\ (hits[q].hit = place[q] \/ place[q] >= hits[q].at - 1)

GeocodingInv ==
    /\ GeocodingTypeOK
    /\ \A v \in Viewers : Metered(v) /\ Timely(v)
    /\ \A q \in DOMAIN hits : Entry(q)
    /\ \A q \in Queries : place[q] <= hour

\* A step of one request that leaves the cache, the provider and the clock alone
\* preserves the invariant if it preserves that request's part.
LEMMA RequestStep ==
    ASSUME GeocodingInv, NEW v \in Viewers,
           view' \in [Viewers -> Views], \A w \in Viewers \ {v} : view'[w] = view[w],
           view'[v].pc # "idle" => view'[v].query \in Queries,
           UNCHANGED <<hits, order, hour, place>>, lapsed \ {v} \subseteq lapsed',
           Metered(v)', Timely(v)'
    PROVE  GeocodingInv'
<1>1. GeocodingTypeOK'
  BY DEF GeocodingInv, GeocodingTypeOK
<1>2. ASSUME NEW w \in Viewers, w # v PROVE Metered(w)' /\ Timely(w)'
  BY <1>2 DEF GeocodingInv, Metered, Timely, Live
<1>3. QED
  BY <1>1, <1>2 DEF GeocodingInv, Entry

\* The empty request.
LEMMA NoViewType == NoView \in Views /\ NoView.pc = "idle"
BY DEF NoView, Views, Pcs

\* Requests that begin: what is not charged has just been seen in the cache.
LEMMA BeginRequest ==
    ASSUME GeocodingInv, NEW v \in Viewers, NEW q \in Queries,
           search_destination(v, q) \/ geocode_api(v, q)
    PROVE  GeocodingInv'
<1>1. UNCHANGED <<hits, order, hour, place>> /\ lapsed' = lapsed \ {v}
  BY DEF search_destination, geocode_api
<1>2. view \in [Viewers -> Views] /\ hour \in Nat /\ place[q] \in Int
  BY DEF GeocodingInv, GeocodingTypeOK
<1>3. CASE search_destination(v, q)
  <2>1. view' = [view EXCEPT ![v] = [NoView EXCEPT !.query = q,
                                      !.pc = IF peek(q) THEN "geocode" ELSE "budget"]]
    BY <1>3 DEF search_destination
  <2> DEFINE new == [NoView EXCEPT !.query = q, !.pc = IF peek(q) THEN "geocode" ELSE "budget"]
  <2>2. new \in Views /\ new.query = q /\ new.pc = IF peek(q) THEN "geocode" ELSE "budget"
    BY NoViewType, Zenon DEF Views, Pcs
  <2> HIDE DEF new
  <2>3. view' \in [Viewers -> Views] /\ view'[v] = new /\ \A w \in Viewers \ {v} : view'[w] = view[w]
    BY <1>2, <2>1, <2>2 DEF new
  <2>4. Metered(v)' /\ Timely(v)'
    BY <1>1, <2>2, <2>3 DEF Metered, Timely, peek, Live
  <2>5. QED
    BY <1>1, <2>2, <2>3, <2>4, RequestStep
<1>4. CASE geocode_api(v, q) /\ peek(q)
  <2>1. view' = [view EXCEPT ![v] = [NoView EXCEPT !.query = q, !.pc = "answer", !.hit = hits[q].hit]]
    BY <1>4 DEF geocode_api
  <2>2. q \in DOMAIN hits /\ Entry(q) /\ hour - hits[q].at < CacheTTL /\ hits[q].at \in Int
    BY <1>4 DEF peek, Live, GeocodingInv, GeocodingTypeOK
  <2> DEFINE new == [NoView EXCEPT !.query = q, !.pc = "answer", !.hit = hits[q].hit]
  <2>3. new \in Views /\ new.query = q /\ new.pc = "answer" /\ new.hit = hits[q].hit
    <3>1. hits[q].hit \in Int
      BY <2>2 DEF GeocodingInv, GeocodingTypeOK
    <3>2. QED
      BY <3>1, NoViewType, Zenon DEF Views, Pcs
  <2> HIDE DEF new
  <2>4. view' \in [Viewers -> Views] /\ view'[v] = new /\ \A w \in Viewers \ {v} : view'[w] = view[w]
    BY <1>2, <2>1, <2>3 DEF new
  <2>5. Metered(v)'
    BY <2>3, <2>4 DEF Metered
  <2>6. Timely(v)'
    BY <1>1, <1>2, <2>2, <2>3, <2>4, GeocodingAssumption DEF Timely, Entry
  <2>7. QED
    BY <1>1, <2>3, <2>4, <2>5, <2>6, RequestStep
<1>5. CASE geocode_api(v, q) /\ ~peek(q)
  <2>1. view' = [view EXCEPT ![v] = [NoView EXCEPT !.query = q, !.pc = "budget"]]
    BY <1>5 DEF geocode_api
  <2> DEFINE new == [NoView EXCEPT !.query = q, !.pc = "budget"]
  <2>2. new \in Views /\ new.query = q /\ new.pc = "budget"
    BY NoViewType, Zenon DEF Views, Pcs
  <2> HIDE DEF new
  <2>3. view' \in [Viewers -> Views] /\ view'[v] = new /\ \A w \in Viewers \ {v} : view'[w] = view[w]
    BY <1>2, <2>1, <2>2 DEF new
  <2>4. Metered(v)' /\ Timely(v)'
    BY <2>2, <2>3 DEF Metered, Timely
  <2>5. QED
    BY <1>1, <2>2, <2>3, <2>4, RequestStep
<1>6. QED
  BY <1>3, <1>4, <1>5

\* A request that ends owes nothing.
LEMMA EndRequest ==
    ASSUME GeocodingInv, NEW v \in Viewers, Finish(v),
           UNCHANGED <<hits, order, hour, place, lapsed>>
    PROVE  GeocodingInv'
<1>1. view \in [Viewers -> Views]
  BY DEF GeocodingInv, GeocodingTypeOK
<1>2. NoView \in Views /\ NoView.pc = "idle"
  BY NoViewType
<1>3. view' \in [Viewers -> Views] /\ view'[v] = NoView /\ \A w \in Viewers \ {v} : view'[w] = view[w]
  BY <1>1, <1>2 DEF Finish
<1>4. Metered(v)' /\ Timely(v)'
  BY <1>2, <1>3 DEF Metered, Timely
<1>5. QED
  BY <1>2, <1>3, <1>4, RequestStep

\* The limiter's answer.
LEMMA BudgetStep ==
    ASSUME GeocodingInv, NEW v \in Viewers, geocode_within_budget(v)
    PROVE  GeocodingInv'
<1>1. view[v].pc = "budget" /\ UNCHANGED <<hits, order, hour, place, lapsed>>
  BY DEF geocode_within_budget
<1>2. CASE Finish(v)
  BY <1>1, <1>2, EndRequest
<1>3. CASE view' = [view EXCEPT ![v].pc = "geocode", ![v].charged = TRUE]
  <2>1. view \in [Viewers -> Views] /\ view[v] \in Views /\ view[v].query \in Queries
    BY <1>1 DEF GeocodingInv, GeocodingTypeOK
  <2> DEFINE new == [view[v] EXCEPT !.pc = "geocode", !.charged = TRUE]
  <2>2. /\ new \in Views /\ new.pc = "geocode" /\ new.charged = TRUE
        /\ new.query = view[v].query
    BY <2>1 DEF Views, Pcs
  <2>3. view' = [view EXCEPT ![v] = new]
    BY <1>3, <2>1 DEF Views
  <2> HIDE DEF new
  <2>4. view' \in [Viewers -> Views] /\ view'[v] = new /\ \A w \in Viewers \ {v} : view'[w] = view[w]
    BY <2>1, <2>2, <2>3
  <2>5. Metered(v)' /\ Timely(v)'
    BY <2>2, <2>4 DEF Metered, Timely
  <2>6. QED
    BY <1>1, <2>1, <2>2, <2>4, <2>5, RequestStep
<1>4. QED
  BY <1>2, <1>3 DEF geocode_within_budget

\* The second look into the cache: a call that was not charged is one whose
\* answer has gone since the first.
LEMMA GeocodeStep ==
    ASSUME GeocodingInv, NEW v \in Viewers, geocode(v)
    PROVE  GeocodingInv'
<1>1. view[v].pc = "geocode" /\ UNCHANGED <<hits, order, hour, place, lapsed>>
  BY DEF geocode
<1>2. /\ view \in [Viewers -> Views] /\ view[v] \in Views /\ view[v].query \in Queries
      /\ hour \in Nat /\ place[view[v].query] \in Int
  BY <1>1 DEF GeocodingInv, GeocodingTypeOK
<1>3. CASE peek(view[v].query)
  <2>1. view' = [view EXCEPT ![v].pc = "answer", ![v].hit = hits[view[v].query].hit]
    BY <1>3 DEF geocode
  <2>2. /\ Entry(view[v].query) /\ hour - hits[view[v].query].at < CacheTTL
        /\ hits[view[v].query].at \in Int /\ hits[view[v].query].hit \in Int
    BY <1>3 DEF peek, Live, GeocodingInv, GeocodingTypeOK
  <2> DEFINE new == [view[v] EXCEPT !.pc = "answer", !.hit = hits[view[v].query].hit]
  <2>3. /\ new \in Views /\ new.pc = "answer" /\ new.hit = hits[view[v].query].hit
        /\ new.query = view[v].query
    BY <1>2, <2>2 DEF Views, Pcs
  <2>4. view' = [view EXCEPT ![v] = new]
    BY <1>2, <2>1 DEF Views
  <2> HIDE DEF new
  <2>5. view' \in [Viewers -> Views] /\ view'[v] = new /\ \A w \in Viewers \ {v} : view'[w] = view[w]
    BY <1>2, <2>3, <2>4
  <2>6. Metered(v)'
    BY <2>3, <2>5 DEF Metered
  <2>7. Timely(v)'
    BY <1>1, <1>2, <2>2, <2>3, <2>5, GeocodingAssumption DEF Timely, Entry
  <2>8. QED
    BY <1>1, <1>2, <2>3, <2>5, <2>6, <2>7, RequestStep
<1>4. CASE ~peek(view[v].query)
  <2>1. view' = [view EXCEPT ![v].pc = "provider", ![v].asked = hour]
    BY <1>4 DEF geocode
  <2>2. view[v].charged = TRUE \/ v \in lapsed
    BY <1>1, <1>4 DEF GeocodingInv, Metered, peek
  <2> DEFINE new == [view[v] EXCEPT !.pc = "provider", !.asked = hour]
  <2>3. /\ new \in Views /\ new.pc = "provider" /\ new.asked = hour
        /\ new.query = view[v].query /\ new.charged = view[v].charged
    <3>1. hour \in Int
      BY <1>2
    <3>2. QED
      BY <1>2, <3>1, Zenon DEF Views, Pcs
  <2>4. view' = [view EXCEPT ![v] = new]
    BY <1>2, <2>1 DEF Views
  <2> HIDE DEF new
  <2>5. view' \in [Viewers -> Views] /\ view'[v] = new /\ \A w \in Viewers \ {v} : view'[w] = view[w]
    BY <1>2, <2>3, <2>4
  <2>6. Metered(v)'
    BY <1>1, <2>2, <2>3, <2>5 DEF Metered
  <2>7. Timely(v)'
    BY <1>1, <1>2, <2>3, <2>5 DEF Timely
  <2>8. QED
    BY <1>1, <1>2, <2>3, <2>5, <2>6, <2>7, RequestStep
<1>5. QED
  BY <1>3, <1>4

\* The provider answers with what it knows now.
LEMMA ProviderReads ==
    ASSUME GeocodingInv, NEW v \in Viewers, provider_reads(v)
    PROVE  GeocodingInv'
<1>1. /\ view[v].pc = "provider" /\ UNCHANGED <<hits, order, hour, place, lapsed>>
      /\ view' = [view EXCEPT ![v].pc = "reply", ![v].hit = place[view[v].query]]
  BY DEF provider_reads
<1>2. /\ view \in [Viewers -> Views] /\ view[v] \in Views /\ view[v].query \in Queries
      /\ hour \in Nat /\ place[view[v].query] \in Int
  BY <1>1 DEF GeocodingInv, GeocodingTypeOK
<1>3. (view[v].charged = TRUE \/ v \in lapsed) /\ view[v].asked \in {hour - 1, hour}
  BY <1>1 DEF GeocodingInv, Metered, Timely
<1> DEFINE new == [view[v] EXCEPT !.pc = "reply", !.hit = place[view[v].query]]
<1>4. /\ new \in Views /\ new.pc = "reply" /\ new.hit = place[view[v].query]
      /\ new.query = view[v].query /\ new.charged = view[v].charged /\ new.asked = view[v].asked
  BY <1>2 DEF Views, Pcs
<1>5. view' = [view EXCEPT ![v] = new]
  BY <1>1, <1>2 DEF Views
<1> HIDE DEF new
<1>6. view' \in [Viewers -> Views] /\ view'[v] = new /\ \A w \in Viewers \ {v} : view'[w] = view[w]
  BY <1>2, <1>4, <1>5
<1>7. Metered(v)' /\ Timely(v)'
  BY <1>1, <1>3, <1>4, <1>6 DEF Metered, Timely
<1>8. QED
  BY <1>1, <1>2, <1>4, <1>6, <1>7, RequestStep

\* What the cache holds after an answer is remembered: this answer, now, and
\* entries it held before.
LEMMA Remembers ==
    ASSUME GeocodingInv, NEW q \in Queries, NEW hit, remember(q, hit)
    PROVE  /\ order' \in Seq(Queries) /\ DOMAIN hits' = ToSet(order')
           /\ \A k \in DOMAIN hits' :
                \/ k = q /\ hits'[k] = [hit |-> hit, at |-> hour]
                \/ k # q /\ k \in DOMAIN hits /\ hits'[k] = hits[k]
<1> DEFINE queue == IF q \in DOMAIN hits THEN order ELSE Append(order, q)
           excess == IF Len(queue) > CacheCapacity THEN Len(queue) - CacheCapacity ELSE 0
           kept == SubSeq(queue, excess + 1, Len(queue))
<1>1. /\ order' = kept
      /\ hits' = [k \in ToSet(kept) |-> IF k = q THEN [hit |-> hit, at |-> hour] ELSE hits[k]]
  BY DEF remember
<1>2. order \in Seq(Queries) /\ DOMAIN hits = ToSet(order)
  BY DEF GeocodingInv, GeocodingTypeOK
<1>3. queue \in Seq(Queries) /\ Len(queue) \in Nat
  BY <1>2
<1>4. \A i \in 1 .. Len(queue) : queue[i] = q \/ queue[i] \in DOMAIN hits
  <2>1. \A i \in 1 .. Len(order) : order[i] \in DOMAIN hits
    BY <1>2 DEF ToSet
  <2>2. CASE q \in DOMAIN hits
    BY <2>1, <2>2
  <2>3. CASE q \notin DOMAIN hits
    BY <1>2, <2>1, <2>3
  <2>4. QED
    BY <2>2, <2>3
<1> HIDE DEF queue
<1>5. excess \in Nat
  BY <1>3, GeocodingAssumption
<1> HIDE DEF excess
<1>6. /\ kept \in Seq(Queries)
      /\ \A i \in DOMAIN kept : excess + i \in 1 .. Len(queue) /\ kept[i] = queue[excess + i]
  BY <1>3, <1>5
<1> HIDE DEF kept
<1>7. \A k \in ToSet(kept) : k = q \/ k \in DOMAIN hits
  BY <1>4, <1>6 DEF ToSet
<1>8. QED
  BY <1>1, <1>6, <1>7

\* The reply is remembered: whoever counted on an answer that leaves the cache
\* for it has lapsed, and the entry it makes or renews is live.
LEMMA ProviderReplies ==
    ASSUME GeocodingInv, NEW v \in Viewers, provider_replies(v)
    PROVE  GeocodingInv'
<1>1. view[v].pc = "reply" /\ UNCHANGED <<hour, place>>
  BY DEF provider_replies
<1>2. CASE view[v].query \in Unknowns
  BY <1>1, <1>2, EndRequest DEF provider_replies
<1>3. CASE view[v].query \notin Unknowns
  <2> DEFINE q == view[v].query
  <2>1. /\ remember(q, view[v].hit)
        /\ view' = [view EXCEPT ![v].pc = "answer"]
        /\ lapsed' = lapsed \cup {w \in Viewers : /\ view[w].pc = "geocode" /\ ~view[w].charged
                                                  /\ view[w].query \notin DOMAIN hits'}
    BY <1>3 DEF provider_replies, Goto
  <2>2. /\ view \in [Viewers -> Views] /\ view[v] \in Views /\ q \in Queries
        /\ hour \in Nat /\ place[q] \in Int /\ view[v].hit \in Int
    BY <1>1 DEF GeocodingInv, GeocodingTypeOK, Views
  <2>3. view[v].asked \in {hour - 1, hour} /\ (view[v].hit = place[q] \/ place[q] >= view[v].asked)
    BY <1>1 DEF GeocodingInv, Timely
  <2>4. /\ order' \in Seq(Queries) /\ DOMAIN hits' = ToSet(order')
        /\ \A k \in DOMAIN hits' :
             \/ k = q /\ hits'[k] = [hit |-> view[v].hit, at |-> hour]
             \/ k # q /\ k \in DOMAIN hits /\ hits'[k] = hits[k]
    BY <2>1, <2>2, Remembers
  <2> DEFINE new == [view[v] EXCEPT !.pc = "answer"]
  <2>5. new \in Views /\ new.pc = "answer" /\ new.hit = view[v].hit /\ new.query = q
    BY <2>2 DEF Views, Pcs
  <2>6. view' = [view EXCEPT ![v] = new]
    BY <2>1, <2>2
  <2> HIDE DEF new
  <2>7. view' \in [Viewers -> Views] /\ view'[v] = new /\ \A w \in Viewers \ {v} : view'[w] = view[w]
    BY <2>2, <2>5, <2>6
  <2>8. \A k \in DOMAIN hits' : hits'[k].at \in Int /\ hits'[k].hit \in Int /\ Entry(k)'
    <3> SUFFICES ASSUME NEW k \in DOMAIN hits'
                 PROVE  hits'[k].at \in Int /\ hits'[k].hit \in Int /\ Entry(k)'
      OBVIOUS
    <3>1. CASE k = q
      <4>1. hits'[k].hit = view[v].hit /\ hits'[k].at = hour
        BY <2>4, <3>1
      <4>2. QED
        BY <1>1, <2>2, <2>3, <3>1, <4>1 DEF Entry
    <3>2. CASE k # q
      <4>1. k \in DOMAIN hits /\ hits'[k] = hits[k]
        BY <2>4, <3>2
      <4>2. QED
        BY <1>1, <4>1 DEF Entry, GeocodingInv, GeocodingTypeOK
    <3>3. QED
      BY <3>1, <3>2
  <2>9. GeocodingTypeOK'
    BY <1>1, <2>2, <2>4, <2>5, <2>7, <2>8 DEF GeocodingInv, GeocodingTypeOK
  <2>10. Metered(v)' /\ Timely(v)'
    BY <1>1, <2>2, <2>3, <2>5, <2>7, GeocodingAssumption DEF Metered, Timely
  <2>11. ASSUME NEW w \in Viewers, w # v PROVE Metered(w)' /\ Timely(w)'
    <3>1. view'[w] = view[w] /\ Metered(w) /\ Timely(w) /\ lapsed \subseteq lapsed'
      BY <2>1, <2>7, <2>11 DEF GeocodingInv
    <3>2. Timely(w)'
      BY <1>1, <3>1 DEF Timely
    <3>3. ASSUME view[w].pc = "geocode", view[w].charged # TRUE, w \notin lapsed'
          PROVE  Live(view[w].query, hour)'
      <4>1. Live(view[w].query, hour)
        BY <3>1, <3>3 DEF Metered
      <4>2. view[w].query \in DOMAIN hits'
        <5>1. view[w].charged \in BOOLEAN
          BY <2>2 DEF Views
        <5>2. QED
          BY <2>1, <3>3, <5>1
      <4>3. CASE view[w].query = q
        <5>1. hits'[view[w].query].at = hour
          BY <2>4, <4>2, <4>3
        <5>2. hour - hour < CacheTTL
          BY <2>2, GeocodingAssumption
        <5>3. QED
          BY <1>1, <3>1, <4>2, <5>1, <5>2 DEF Live
      <4>4. CASE view[w].query # q
        BY <1>1, <2>4, <3>1, <4>1, <4>2, <4>4 DEF Live
      <4>5. QED
        BY <4>3, <4>4
    <3>4. Metered(w)'
      BY <1>1, <3>1, <3>3 DEF Metered
    <3>5. QED
      BY <3>2, <3>4
  <2>12. QED
    BY <1>1, <2>8, <2>9, <2>10, <2>11 DEF GeocodingInv
<1>4. QED
  BY <1>2, <1>3

\* An hour passes over calls made in this hour only, and over no answer.
LEMMA HourStep ==
    ASSUME GeocodingInv, geocoder_hour
    PROVE  GeocodingInv'
<1>1. /\ InTime /\ hour' = hour + 1 /\ UNCHANGED <<hits, order, place, view>>
      /\ lapsed' = lapsed \cup {v \in Viewers : /\ view[v].pc = "geocode" /\ ~view[v].charged
                                                /\ ~Live(view[v].query, hour')}
  BY DEF geocoder_hour
<1>2. hour \in Nat /\ hour' \in Nat
  BY <1>1 DEF GeocodingInv, GeocodingTypeOK
<1>3. GeocodingTypeOK'
  BY <1>1, <1>2 DEF GeocodingInv, GeocodingTypeOK
<1>4. ASSUME NEW q \in DOMAIN hits PROVE Entry(q)'
  <2>1. Entry(q) /\ hits[q].at \in Int
    BY DEF GeocodingInv, GeocodingTypeOK
  <2>2. QED
    BY <1>1, <1>2, <2>1 DEF Entry
<1>5. ASSUME NEW q \in Queries PROVE place'[q] <= hour'
  BY <1>1, <1>2 DEF GeocodingInv, GeocodingTypeOK
<1>6. ASSUME NEW v \in Viewers PROVE Metered(v)' /\ Timely(v)'
  <2>1. Metered(v) /\ Timely(v) /\ view[v] \in Views /\ lapsed \subseteq lapsed'
    BY <1>1 DEF GeocodingInv, GeocodingTypeOK
  <2>2. /\ view[v].pc # "answer"
        /\ view[v].pc \in {"provider", "reply"} => view[v].asked = hour
    BY <1>1 DEF InTime
  <2>3. Timely(v)'
    BY <1>1, <1>2, <2>1, <2>2 DEF Timely
  <2>4. ASSUME view[v].pc = "geocode", view[v].charged # TRUE, v \notin lapsed'
        PROVE  Live(view[v].query, hour)'
    <3>1. view[v].charged \in BOOLEAN
      BY <2>1 DEF Views
    <3>2. Live(view[v].query, hour')
      BY <1>1, <2>4, <3>1
    <3>3. QED
      BY <1>1, <3>2 DEF Live
  <2>5. Metered(v)'
    BY <1>1, <2>1, <2>4 DEF Metered
  <2>6. QED
    BY <2>3, <2>5
<1>7. QED
  BY <1>1, <1>3, <1>4, <1>5, <1>6 DEF GeocodingInv

\* A correction makes answers old, none older than this hour.
LEMMA CorrectStep ==
    ASSUME GeocodingInv, NEW q \in Queries, correct(q)
    PROVE  GeocodingInv'
<1>1. place' = [place EXCEPT ![q] = hour] /\ UNCHANGED <<hits, order, hour, view, lapsed>>
  BY DEF correct
<1>2. hour \in Nat /\ place \in [Queries -> Int]
  BY DEF GeocodingInv, GeocodingTypeOK
<1>3. place' \in [Queries -> Int] /\ place'[q] = hour /\ \A k \in Queries \ {q} : place'[k] = place[k]
  BY <1>1, <1>2
<1>4. GeocodingTypeOK'
  BY <1>1, <1>3 DEF GeocodingInv, GeocodingTypeOK
<1>5. ASSUME NEW k \in DOMAIN hits PROVE Entry(k)'
  <2>1. Entry(k) /\ hits[k].at \in Int /\ k \in Queries
    BY DEF GeocodingInv, GeocodingTypeOK, ToSet
  <2>2. QED
    BY <1>1, <1>2, <1>3, <2>1 DEF Entry
<1>6. ASSUME NEW k \in Queries PROVE place'[k] <= hour'
  BY <1>1, <1>2, <1>3 DEF GeocodingInv
<1>7. ASSUME NEW v \in Viewers PROVE Metered(v)' /\ Timely(v)'
  <2>1. Metered(v) /\ Timely(v) /\ (view[v].pc # "idle" => view[v].query \in Queries)
    BY DEF GeocodingInv, GeocodingTypeOK
  <2>2. Metered(v)'
    BY <1>1, <2>1 DEF Metered, Live
  <2>3. Timely(v)'
    BY <1>1, <1>2, <1>3, <2>1, GeocodingAssumption DEF Timely
  <2>4. QED
    BY <2>2, <2>3
<1>8. QED
  BY <1>1, <1>4, <1>5, <1>6, <1>7 DEF GeocodingInv

\* The inductive invariant of the geocoding cache.
THEOREM GeocodingInvariance == GeocodingSpec => []GeocodingInv
<1>1. GeocodingInit => GeocodingInv
  <2> SUFFICES ASSUME GeocodingInit PROVE GeocodingInv
    OBVIOUS
  <2>1. /\ DOMAIN hits = {} /\ order = <<>> /\ hour = 0
        /\ place = [q \in Queries |-> -1] /\ view = [v \in Viewers |-> NoView]
    BY DEF GeocodingInit
  <2>2. ToSet(order) = {} /\ order \in Seq(Queries)
    BY <2>1 DEF ToSet
  <2>3. GeocodingTypeOK
    BY <2>1, <2>2, NoViewType DEF GeocodingTypeOK
  <2>4. QED
    BY <2>1, <2>3, NoViewType DEF GeocodingInv, Metered, Timely
<1>2. GeocodingInv /\ [GeocodingNext]_geocodingVars => GeocodingInv'
  <2> SUFFICES ASSUME GeocodingInv, [GeocodingNext]_geocodingVars PROVE GeocodingInv'
    OBVIOUS
  <2>1. ASSUME NEW v \in Viewers, NEW q \in Queries, search_destination(v, q) \/ geocode_api(v, q)
        PROVE  GeocodingInv'
    BY <2>1, BeginRequest
  <2>2. ASSUME NEW v \in Viewers,
               \/ geocode_within_budget(v) \/ geocode(v) \/ provider_reads(v)
               \/ provider_replies(v) \/ provider_fails(v) \/ answer_hit(v)
        PROVE  GeocodingInv'
    <3>1. CASE provider_fails(v) \/ answer_hit(v)
      BY <3>1, EndRequest DEF provider_fails, answer_hit
    <3>2. QED
      BY <2>2, <3>1, BudgetStep, GeocodeStep, ProviderReads, ProviderReplies
  <2>3. CASE geocoder_hour
    BY <2>3, HourStep
  <2>4. ASSUME NEW q \in Queries \ Unknowns, correct(q) PROVE GeocodingInv'
    BY <2>4, CorrectStep
  <2>5. CASE UNCHANGED geocodingVars
    BY <2>5 DEF geocodingVars, GeocodingInv, GeocodingTypeOK, Metered, Timely, Live, Entry
  <2>6. QED
    BY <2>1, <2>2, <2>3, <2>4, <2>5 DEF GeocodingNext
<1>3. QED
  BY <1>1, <1>2, PTL DEF GeocodingSpec

\* No order of peeks, slow calls, refreshes and evictions makes a caller cause a
\* provider call that was not charged, or lets an answer outlive a correction by
\* more than the cache's lifetime, for every lifetime, capacity and number of
\* concurrent requests.
THEOREM CacheSound == GeocodingSpec => []CacheIsSound
<1>1. GeocodingInv => CacheIsSound
  <2> SUFFICES ASSUME GeocodingInv, NEW v \in Viewers
               PROVE  /\ view[v].pc \in {"provider", "reply"} => view[v].charged \/ v \in lapsed
                      /\ view[v].pc = "answer" /\ view[v].hit # place[view[v].query]
                           => hour - place[view[v].query] <= CacheTTL
    BY DEF CacheIsSound, CallsAreMetered, CorrectionsArrive
  <2>1. Metered(v) /\ Timely(v)
    BY DEF GeocodingInv
  <2>2. view[v].pc \in {"provider", "reply"} => view[v].charged \/ v \in lapsed
    BY <2>1 DEF Metered
  <2>3. QED
    BY <2>1, <2>2 DEF Timely
<1>2. QED
  BY <1>1, GeocodingInvariance, PTL

-----------------------------------------------------------------------------
\* The legal pages

PolicyRows == [page: Pages, version: {r.version : r \in Releases},
               superseded_at: Nat, effective_at: Nat]

Seedings == [pc: {"idle", "exists", "supersede", "insert"},
             release: Releases \cup {NoSeeding.release}, todo: Seq(Pages),
             took: BOOLEAN, saw: SUBSET PolicyRows]

PoliciesTypeOK ==
    /\ policy_version \subseteq PolicyRows
    /\ seeder \in [Seeders -> Seedings]
    /\ \A s \in Seeders : seeder[s].pc # "idle" => seeder[s].release \in Releases /\ seeder[s].todo # <<>>
    /\ shown \in [Pages -> Nat]

\* What a run looked for was not there when it looked.
Unseen(s) ==
    seeder[s].pc \in {"supersede", "insert"} =>
      \A r \in seeder[s].saw : ~(r.page = Page(s) /\ r.version = seeder[s].release.version)

\* A run that has taken a page's document down and brings one at least as new.
Restores(s, p) ==
    /\ seeder[s].pc = "insert" /\ seeder[s].took = TRUE /\ Page(s) = p
    /\ seeder[s].release.effective_at >= shown[p]

\* Nothing newer than what was shown is in force, and what was shown, or something
\* newer, is in force, unless it was taken down by a run that has yet to insert a
\* document at least as new, or that stopped before it did.
InForce(p) ==
    /\ \A r \in Unsuperseded(p) : r.effective_at <= shown[p]
    /\ \/ shown[p] = 0
       \/ p \in cut
       \/ \E s \in Seeders : Restores(s, p)
       \/ \E r \in Unsuperseded(p) : r.effective_at >= shown[p]

PoliciesInv ==
    /\ PoliciesTypeOK
    /\ \A s \in Seeders : Unseen(s)
    /\ \A p \in Pages : InForce(p)

\* The greatest element of a set of numbers.
LEMMA MaxIs ==
    ASSUME NEW S, S \subseteq Int, NEW m \in S, \A y \in S : y <= m
    PROVE  Max(S) = m
<1>1. \A y \in S : m >= y
  OBVIOUS
<1>2. Max(S) \in S /\ \A y \in S : Max(S) >= y
  BY <1>1, Zenon DEF Max
<1> PICK x : x = Max(S)
  OBVIOUS
<1>3. x \in Int /\ m \in Int /\ x >= m /\ m >= x
  BY <1>1, <1>2
<1>4. QED
  BY <1>3

\* The documents of a run: at least one, each a kind and a locale.
LEMMA DocumentsType ==
    Documents \in Seq(Pages) /\ Documents # <<>> /\ \A p \in Pages : p = <<p[1], p[2]>>
<1> DEFINE n == Len(POLICY_LOCALES) * Len(Kinds)
<1>1. n \in Nat /\ n # 0
  <2>1. Len(Kinds) \in Nat /\ Len(Kinds) # 0
    BY PoliciesAssumption
  <2>2. Len(POLICY_LOCALES) \in Nat /\ Len(POLICY_LOCALES) # 0
    BY PoliciesAssumption
  <2>3. QED
    BY <2>1, <2>2
<1>2. DOMAIN Documents = 1 .. n
  BY DEF Documents
<1>3. \A i \in 1 .. n : Documents[i] \in Pages
  BY <1>2 DEF Pages
<1>4. Documents \in [1 .. n -> Pages]
  <2>1. Documents = [i \in 1 .. n |-> Documents[i]]
    BY Zenon DEF Documents
  <2>2. QED
    BY <1>3, <2>1, Zenon
<1>5. \A i \in 1 .. n : Documents[i] = <<Documents[i][1], Documents[i][2]>>
  BY DEF Documents
<1> HIDE DEF n
<1>6. Documents \in Seq(Pages) /\ Len(Documents) = n
  BY <1>1, <1>4
<1>7. ASSUME NEW p \in Pages PROVE p = <<p[1], p[2]>>
  <2>1. PICK i \in 1 .. n : p = Documents[i]
    BY <1>2 DEF Pages
  <2>2. QED
    BY <1>5, <2>1, Zenon
<1>8. QED
  BY <1>1, <1>6, <1>7

\* A run that looks, or goes away, changes no page: what it had taken down and
\* not put back is then cut.
LEMMA SeederStep ==
    ASSUME PoliciesInv, NEW s \in Seeders,
           seeder' \in [Seeders -> Seedings], \A t \in Seeders \ {s} : seeder'[t] = seeder[t],
           seeder'[s].pc # "idle" => seeder'[s].release \in Releases /\ seeder'[s].todo # <<>>,
           Unseen(s)',
           UNCHANGED <<policy_version, shown>>, cut \subseteq cut',
           \A p \in Pages : Restores(s, p) => p \in cut'
    PROVE  PoliciesInv'
<1>1. PoliciesTypeOK'
  BY DEF PoliciesInv, PoliciesTypeOK
<1>2. ASSUME NEW t \in Seeders PROVE Unseen(t)'
  BY DEF PoliciesInv, Unseen, Page
<1>3. ASSUME NEW p \in Pages PROVE InForce(p)'
  <2>1. InForce(p) /\ Unsuperseded(p)' = Unsuperseded(p)
    BY DEF PoliciesInv, Unsuperseded
  <2>2. \A t \in Seeders \ {s} : Restores(t, p) => Restores(t, p)'
    BY DEF Restores, Page
  <2>3. QED
    BY <2>1, <2>2 DEF InForce
<1>4. QED
  BY <1>1, <1>2, <1>3 DEF PoliciesInv

\* No seeding, and its type.
LEMMA NoSeedingType ==
    NoSeeding \in Seedings /\ NoSeeding.pc = "idle"
<1>1. <<>> \in Seq(Pages) /\ {} \in SUBSET PolicyRows
  OBVIOUS
<1>2. QED
  BY <1>1 DEF NoSeeding, Seedings

\* Going on with the next document.
LEMMA NextDocument ==
    ASSUME PoliciesInv, NEW s \in Seeders, seeder[s].pc # "idle", seed_prepared_policies(s)
    PROVE  /\ seeder' \in [Seeders -> Seedings]
           /\ \A t \in Seeders \ {s} : seeder'[t] = seeder[t]
           /\ seeder'[s].pc \in {"idle", "exists"}
           /\ seeder'[s].pc # "idle" => seeder'[s].release \in Releases /\ seeder'[s].todo # <<>>
<1> DEFINE rest == Tail(seeder[s].todo)
           new == IF rest = <<>> THEN NoSeeding
                  ELSE [seeder[s] EXCEPT !.todo = rest, !.pc = "exists", !.took = FALSE, !.saw = {}]
<1>1. /\ seeder \in [Seeders -> Seedings] /\ seeder[s] \in Seedings
      /\ seeder[s].release \in Releases /\ seeder[s].todo # <<>> /\ seeder[s].todo \in Seq(Pages)
  BY DEF PoliciesInv, PoliciesTypeOK, Seedings
<1>2. seeder' = [seeder EXCEPT ![s] = new]
  BY DEF seed_prepared_policies
<1>3. rest \in Seq(Pages)
  BY <1>1
<1> HIDE DEF rest
<1>4. CASE rest = <<>>
  <2>1. new = NoSeeding
    BY <1>4
  <2>2. QED
    BY <1>1, <1>2, <2>1, NoSeedingType
<1>5. CASE rest # <<>>
  <2>1. /\ new \in Seedings /\ new.pc = "exists" /\ new.todo = rest
        /\ new.release = seeder[s].release
    BY <1>1, <1>3, <1>5 DEF Seedings
  <2> HIDE DEF new
  <2>2. QED
    BY <1>1, <1>2, <1>5, <2>1
<1>6. QED
  BY <1>4, <1>5

\* The newest a page has shown, after a step that writes rows.
LEMMA WatchedIs ==
    ASSUME PoliciesInv, NEW p \in Pages, policy_version' \subseteq PolicyRows, Watched,
           NEW m \in Nat, m >= shown[p], \A r \in Unsuperseded(p)' : r.effective_at <= m,
           m = shown[p] \/ \E r \in Unsuperseded(p)' : r.effective_at = m
    PROVE  shown'[p] = m
<1> DEFINE now == current(p)'
           S == {shown[p]} \cup {r.effective_at : r \in now}
<1>1. shown'[p] = Max(S)
  BY DEF Watched
<1>2. now = {r \in Unsuperseded(p)' : \A o \in Unsuperseded(p)' : o.effective_at <= r.effective_at}
  BY DEF current
<1>3. \A r \in Unsuperseded(p)' : r.effective_at \in Int
  BY DEF Unsuperseded, PolicyRows
<1>4. shown[p] \in Int
  BY DEF PoliciesInv, PoliciesTypeOK
<1> HIDE DEF now
<1>5. S \subseteq Int /\ \A y \in S : y <= m
  BY <1>2, <1>3, <1>4
<1>6. m \in S
  BY <1>2, <1>3
<1>7. QED
  BY <1>1, <1>5, <1>6, MaxIs

\* A run begins.
LEMMA PrepareStep ==
    ASSUME PoliciesInv, NEW s \in Seeders, NEW r \in Releases, prepare_policies(s, r)
    PROVE  PoliciesInv'
<1> DEFINE new == [NoSeeding EXCEPT !.pc = "exists", !.release = r, !.todo = Documents]
<1>1. /\ seeder[s].pc = "idle" /\ seeder' = [seeder EXCEPT ![s] = new]
      /\ UNCHANGED <<policy_version, shown, cut>>
  BY DEF prepare_policies
<1>2. new \in Seedings /\ new.pc = "exists" /\ new.release = r /\ new.todo = Documents
  BY NoSeedingType, DocumentsType DEF Seedings
<1> HIDE DEF new
<1>3. /\ seeder' \in [Seeders -> Seedings] /\ seeder'[s] = new
      /\ \A t \in Seeders \ {s} : seeder'[t] = seeder[t]
  BY <1>1, <1>2 DEF PoliciesInv, PoliciesTypeOK
<1>4. Unseen(s)' /\ \A p \in Pages : ~Restores(s, p)
  BY <1>1, <1>2, <1>3 DEF Unseen, Restores
<1>5. QED
  BY <1>1, <1>2, <1>3, <1>4, DocumentsType, SeederStep

\* A run looks whether its version is there already.
LEMMA ExistsStep ==
    ASSUME PoliciesInv, NEW s \in Seeders, seed_policy_exists(s)
    PROVE  PoliciesInv'
<1>1. seeder[s].pc = "exists" /\ UNCHANGED <<policy_version, shown, cut>>
  BY DEF seed_policy_exists, Doing
<1>2. \A p \in Pages : ~Restores(s, p)
  BY <1>1 DEF Restores
<1>3. CASE Published(s) # {}
  <2>1. /\ seeder' \in [Seeders -> Seedings]
        /\ \A t \in Seeders \ {s} : seeder'[t] = seeder[t]
        /\ seeder'[s].pc \in {"idle", "exists"}
        /\ seeder'[s].pc # "idle" => seeder'[s].release \in Releases /\ seeder'[s].todo # <<>>
    BY <1>1, <1>3, NextDocument DEF seed_policy_exists
  <2>2. Unseen(s)'
    BY <2>1 DEF Unseen
  <2>3. QED
    BY <1>1, <1>2, <2>1, <2>2, SeederStep
<1>4. CASE Published(s) = {}
  <2> DEFINE new == [seeder[s] EXCEPT !.pc = "supersede", !.saw = policy_version]
  <2>1. /\ seeder \in [Seeders -> Seedings] /\ seeder[s] \in Seedings
        /\ seeder[s].release \in Releases /\ seeder[s].todo # <<>>
        /\ policy_version \in SUBSET PolicyRows
    BY <1>1 DEF PoliciesInv, PoliciesTypeOK
  <2>2. /\ new \in Seedings /\ new.pc = "supersede" /\ new.saw = policy_version
        /\ new.release = seeder[s].release /\ new.todo = seeder[s].todo
    BY <2>1 DEF Seedings
  <2>3. seeder' = [seeder EXCEPT ![s] = new]
    BY <1>4, <2>1 DEF seed_policy_exists, Seedings
  <2> HIDE DEF new
  <2>4. /\ seeder' \in [Seeders -> Seedings] /\ seeder'[s] = new
        /\ \A t \in Seeders \ {s} : seeder'[t] = seeder[t]
    BY <2>1, <2>2, <2>3
  <2>5. Unseen(s)'
    BY <1>4, <2>2, <2>4 DEF Unseen, Published, Page
  <2>6. QED
    BY <1>1, <1>2, <2>1, <2>2, <2>4, <2>5, SeederStep
<1>5. QED
  BY <1>3, <1>4

\* A run whose row is refused, or that stops, leaves its page cut if it had
\* taken a document down.
LEMMA LeaveStep ==
    ASSUME PoliciesInv, NEW s \in Seeders, seed_policy_refused(s) \/ seeding_stops(s)
    PROVE  PoliciesInv'
<1>1. seeder' = [seeder EXCEPT ![s] = NoSeeding] /\ UNCHANGED <<policy_version, shown>>
  BY DEF seed_policy_refused, seeding_stops
<1>2. /\ seeder' \in [Seeders -> Seedings] /\ seeder'[s] = NoSeeding
      /\ \A t \in Seeders \ {s} : seeder'[t] = seeder[t]
  BY <1>1, NoSeedingType DEF PoliciesInv, PoliciesTypeOK
<1>3. Unseen(s)'
  BY <1>2, NoSeedingType DEF Unseen
<1>4. cut \subseteq cut'
  BY DEF seed_policy_refused, seeding_stops
<1>5. ASSUME NEW p \in Pages, Restores(s, p) PROVE p \in cut'
  <2>1. seeder[s].pc = "insert" /\ seeder[s].took = TRUE /\ Page(s) = p
    BY <1>5 DEF Restores
  <2>2. CASE seed_policy_refused(s)
    <3>1. Published(s) \cap seeder[s].saw = {}
      BY <2>1 DEF PoliciesInv, Unseen, Published
    <3>2. QED
      BY <2>1, <2>2, <3>1 DEF seed_policy_refused
  <2>3. CASE seeding_stops(s)
    BY <2>1, <2>3 DEF seeding_stops, Doing
  <2>4. QED
    BY <2>2, <2>3
<1>6. QED
  BY <1>1, <1>2, <1>3, <1>4, <1>5, NoSeedingType, SeederStep

\* Taking older documents down: whoever takes the newest brings a newer one.
LEMMA SupersedeStep ==
    ASSUME PoliciesInv, NEW s \in Seeders, seed_policy_supersede(s)
    PROVE  PoliciesInv'
<1> DEFINE e == seeder[s].release.effective_at
           D == Dethroned(s)
           new == [seeder[s] EXCEPT !.pc = "insert", !.took = (D # {})]
<1>1. /\ seeder[s].pc = "supersede"
      /\ policy_version' = (policy_version \ D) \cup {[r EXCEPT !.superseded_at = e] : r \in D}
      /\ Watched /\ cut' = cut
  BY DEF seed_policy_supersede, Doing
<1>2. /\ seeder \in [Seeders -> Seedings] /\ seeder[s] \in Seedings
      /\ seeder[s].release \in Releases /\ seeder[s].todo # <<>>
      /\ policy_version \subseteq PolicyRows /\ shown \in [Pages -> Nat]
  BY <1>1 DEF PoliciesInv, PoliciesTypeOK
<1>3. e \in Nat /\ e # 0
  BY <1>2, PoliciesAssumption
<1>4. /\ new \in Seedings /\ new.pc = "insert" /\ new.took = (D # {})
      /\ new.release = seeder[s].release /\ new.todo = seeder[s].todo /\ new.saw = seeder[s].saw
  BY <1>2 DEF Seedings
<1>5. seeder' = [seeder EXCEPT ![s] = new]
  BY <1>2 DEF seed_policy_supersede
<1> HIDE DEF new
<1>6. /\ seeder' \in [Seeders -> Seedings] /\ seeder'[s] = new
      /\ \A t \in Seeders \ {s} : seeder'[t] = seeder[t]
  BY <1>2, <1>4, <1>5
<1>7. \A r \in D : /\ r \in policy_version /\ r \in PolicyRows /\ r.page = Page(s)
                  /\ r.effective_at < e
  BY <1>2 DEF Dethroned, Unsuperseded
<1> HIDE DEF D, e
<1>8. \A r \in D : /\ [r EXCEPT !.superseded_at = e] \in PolicyRows
                  /\ [r EXCEPT !.superseded_at = e].superseded_at = e
  BY <1>3, <1>7 DEF PolicyRows
<1>9. policy_version' \subseteq PolicyRows
  BY <1>1, <1>2, <1>8
<1>10. \A p \in Pages : Unsuperseded(p)' = Unsuperseded(p) \ D
  <2> SUFFICES ASSUME NEW p \in Pages, NEW r
               PROVE  r \in Unsuperseded(p)' <=> r \in Unsuperseded(p) \ D
    OBVIOUS
  <2>1. r \in Unsuperseded(p)' => r \in policy_version \ D
    BY <1>1, <1>3, <1>8 DEF Unsuperseded, Null
  <2>2. r \in policy_version \ D => (r \in Unsuperseded(p)' <=> r \in Unsuperseded(p))
    BY <1>1 DEF Unsuperseded
  <2>3. r \in Unsuperseded(p) => r \in policy_version
    BY DEF Unsuperseded
  <2>4. QED
    BY <2>1, <2>2, <2>3
<1>11. \A p \in Pages : shown'[p] = shown[p]
  <2> SUFFICES ASSUME NEW p \in Pages PROVE shown'[p] = shown[p]
    OBVIOUS
  <2>1. shown[p] \in Nat /\ shown[p] >= shown[p]
    BY <1>2
  <2>2. \A r \in Unsuperseded(p)' : r.effective_at <= shown[p]
    BY <1>10 DEF PoliciesInv, InForce
  <2>3. QED
    BY <1>1, <1>9, <2>1, <2>2, WatchedIs
<1>12. shown' \in [Pages -> Nat]
  <2>1. shown' = [p \in Pages |-> shown'[p]]
    BY <1>1, Zenon DEF Watched
  <2>2. \A p \in Pages : shown'[p] \in Nat
    BY <1>2, <1>11
  <2>3. QED
    BY <2>1, <2>2, Zenon
<1>13. PoliciesTypeOK'
  BY <1>2, <1>4, <1>6, <1>9, <1>12 DEF PoliciesInv, PoliciesTypeOK
<1>14. ASSUME NEW t \in Seeders PROVE Unseen(t)'
  <2>1. CASE t = s
    BY <1>1, <1>4, <1>6, <2>1 DEF PoliciesInv, Unseen, Page
  <2>2. CASE t # s
    BY <1>6, <2>2 DEF PoliciesInv, Unseen, Page
  <2>3. QED
    BY <2>1, <2>2
<1>15. ASSUME NEW p \in Pages PROVE InForce(p)'
  <2>1. InForce(p) /\ shown'[p] = shown[p] /\ Unsuperseded(p)' = Unsuperseded(p) \ D
    BY <1>10, <1>11 DEF PoliciesInv
  <2>2. \A r \in Unsuperseded(p)' : r.effective_at <= shown'[p]
    BY <2>1 DEF InForce
  <2>3. CASE shown[p] = 0 \/ p \in cut
    BY <1>1, <2>1, <2>2, <2>3 DEF InForce
  <2>4. CASE \E t \in Seeders : Restores(t, p)
    <3>1. PICK t \in Seeders : Restores(t, p)
      BY <2>4
    <3>2. t # s
      BY <1>1, <3>1 DEF Restores
    <3>3. Restores(t, p)'
      BY <1>6, <2>1, <3>1, <3>2 DEF Restores, Page
    <3>4. QED
      BY <2>2, <3>3 DEF InForce
  <2>5. CASE \E r \in Unsuperseded(p) : r.effective_at >= shown[p]
    <3>1. PICK r \in Unsuperseded(p) : r.effective_at >= shown[p]
      BY <2>5
    <3>2. CASE r \notin D
      BY <2>1, <2>2, <3>1, <3>2 DEF InForce
    <3>3. CASE r \in D
      <4>1. p = Page(s) /\ r.effective_at < e /\ r.effective_at \in Nat
        BY <1>7, <3>1, <3>3 DEF Unsuperseded, PolicyRows
      <4>2. e >= shown[p]
        BY <1>2, <1>3, <3>1, <4>1
      <4>3. Restores(s, p)'
        BY <1>4, <1>6, <2>1, <3>3, <4>1, <4>2 DEF Restores, Page, e
      <4>4. QED
        BY <2>2, <4>3 DEF InForce
    <3>4. QED
      BY <3>2, <3>3
  <2>6. QED
    BY <2>1, <2>3, <2>4, <2>5 DEF InForce
<1>16. QED
  BY <1>13, <1>14, <1>15 DEF PoliciesInv

\* Publishing: the new document is in force, and the newest shown if it is newer.
LEMMA InsertStep ==
    ASSUME PoliciesInv, NEW s \in Seeders, seed_policy_insert(s)
    PROVE  PoliciesInv'
<1>0. PICK e, P, row :
        /\ e = seeder[s].release.effective_at /\ P = Page(s)
        /\ row = [page |-> P, version |-> seeder[s].release.version,
                  superseded_at |-> Null, effective_at |-> e]
  OBVIOUS
<1>1. /\ seeder[s].pc = "insert" /\ policy_version' = policy_version \cup {row}
      /\ seed_prepared_policies(s) /\ Watched
      /\ cut' = IF e >= shown[P] THEN cut \ {P} ELSE cut
  BY <1>0 DEF seed_policy_insert, Doing
<1>2. /\ seeder[s].release \in Releases /\ seeder[s].todo # <<>> /\ seeder[s].todo \in Seq(Pages)
      /\ policy_version \subseteq PolicyRows /\ shown \in [Pages -> Nat]
  BY <1>1 DEF PoliciesInv, PoliciesTypeOK, Seedings
<1>3. e \in Nat /\ P \in Pages
  BY <1>0, <1>2, PoliciesAssumption DEF Page
<1>4. /\ row \in PolicyRows /\ row.page = P /\ row.superseded_at = Null /\ row.effective_at = e
  BY <1>0, <1>2, <1>3 DEF PolicyRows, Null
<1>5. /\ seeder' \in [Seeders -> Seedings]
      /\ \A t \in Seeders \ {s} : seeder'[t] = seeder[t]
      /\ seeder'[s].pc \in {"idle", "exists"}
      /\ seeder'[s].pc # "idle" => seeder'[s].release \in Releases /\ seeder'[s].todo # <<>>
  BY <1>1, NextDocument
<1>6. policy_version' \subseteq PolicyRows
  BY <1>1, <1>2, <1>4
<1>7. /\ Unsuperseded(P)' = Unsuperseded(P) \cup {row}
      /\ \A p \in Pages \ {P} : Unsuperseded(p)' = Unsuperseded(p)
  <2>1. \A p : Unsuperseded(p)' = {r \in policy_version' : r.page = p /\ r.superseded_at = Null}
    BY DEF Unsuperseded
  <2>2. QED
    BY <1>1, <1>4, <2>1 DEF Unsuperseded
<1>8. \A p \in Pages \ {P} : shown'[p] = shown[p]
  <2> SUFFICES ASSUME NEW p \in Pages \ {P} PROVE shown'[p] = shown[p]
    OBVIOUS
  <2>1. shown[p] \in Nat /\ shown[p] >= shown[p]
    BY <1>2
  <2>2. \A r \in Unsuperseded(p)' : r.effective_at <= shown[p]
    BY <1>7 DEF PoliciesInv, InForce
  <2>3. QED
    BY <1>1, <1>6, <2>1, <2>2, WatchedIs
<1>9. shown[P] \in Nat /\ \A r \in Unsuperseded(P) : r.effective_at <= shown[P] /\ r.effective_at \in Nat
  BY <1>2, <1>3 DEF PoliciesInv, InForce, Unsuperseded, PolicyRows
<1>10. ASSUME e >= shown[P] PROVE InForce(P)' /\ shown'[P] \in Nat
  <2>1. shown'[P] = e
    <3>1. \A r \in Unsuperseded(P)' : r.effective_at <= e
      BY <1>3, <1>4, <1>7, <1>9, <1>10
    <3>2. \E r \in Unsuperseded(P)' : r.effective_at = e
      BY <1>4, <1>7
    <3>3. QED
      BY <1>1, <1>3, <1>6, <1>10, <3>1, <3>2, WatchedIs
  <2>2. InForce(P)'
    <3>1. \A r \in Unsuperseded(P)' : r.effective_at <= e
      BY <1>3, <1>4, <1>7, <1>9, <1>10
    <3>2. row \in Unsuperseded(P)' /\ row.effective_at >= e
      BY <1>3, <1>4, <1>7
    <3>3. QED
      BY <2>1, <3>1, <3>2 DEF InForce
  <2>3. shown'[P] \in Nat
    BY <1>3, <2>1
  <2>4. QED
    BY <2>2, <2>3
<1>11. ASSUME ~(e >= shown[P]) PROVE InForce(P)' /\ shown'[P] \in Nat
  <2>1. \A r \in Unsuperseded(P)' : r.effective_at <= shown[P]
    BY <1>3, <1>4, <1>7, <1>9, <1>11
  <2>2. shown'[P] = shown[P]
    <3>1. shown[P] >= shown[P]
      BY <1>9
    <3>2. QED
      BY <1>1, <1>3, <1>6, <1>9, <2>1, <3>1, WatchedIs
  <2>3. InForce(P)'
    <3>1. InForce(P)
      BY <1>3 DEF PoliciesInv
    <3>2. \A t \in Seeders : Restores(t, P) => Restores(t, P)'
      <4> SUFFICES ASSUME NEW t \in Seeders, Restores(t, P) PROVE Restores(t, P)'
        OBVIOUS
      <4>1. t # s
        BY <1>0, <1>11 DEF Restores
      <4>2. seeder'[t] = seeder[t]
        BY <1>5, <4>1
      <4>3. QED
        BY <2>2, <4>2 DEF Restores, Page
    <3>3. QED
      BY <1>1, <1>7, <1>11, <2>1, <2>2, <3>1, <3>2 DEF InForce
  <2>4. QED
    BY <1>9, <2>2, <2>3
<1>12. ASSUME NEW p \in Pages, p # P PROVE InForce(p)'
  <2>1. InForce(p) /\ shown'[p] = shown[p] /\ Unsuperseded(p)' = Unsuperseded(p)
    BY <1>7, <1>8, <1>12 DEF PoliciesInv
  <2>2. \A t \in Seeders : Restores(t, p) => Restores(t, p)'
    <3> SUFFICES ASSUME NEW t \in Seeders, Restores(t, p) PROVE Restores(t, p)'
      OBVIOUS
    <3>1. t # s
      BY <1>0, <1>12 DEF Restores
    <3>2. seeder'[t] = seeder[t]
      BY <1>5, <3>1
    <3>3. QED
      BY <2>1, <3>2 DEF Restores, Page
  <2>3. p \in cut => p \in cut'
    BY <1>1, <1>12
  <2>4. QED
    BY <2>1, <2>2, <2>3 DEF InForce
<1>13. shown' \in [Pages -> Nat]
  <2>1. shown' = [p \in Pages |-> shown'[p]]
    BY <1>1, Zenon DEF Watched
  <2>2. \A p \in Pages : shown'[p] \in Nat
    BY <1>2, <1>8, <1>10, <1>11
  <2>3. QED
    BY <2>1, <2>2, Zenon
<1>14. PoliciesTypeOK'
  BY <1>5, <1>6, <1>13 DEF PoliciesInv, PoliciesTypeOK
<1>15. ASSUME NEW t \in Seeders PROVE Unseen(t)'
  BY <1>5 DEF PoliciesInv, Unseen, Page
<1>16. QED
  BY <1>10, <1>11, <1>12, <1>14, <1>15 DEF PoliciesInv

\* The inductive invariant of the legal pages.
THEOREM PoliciesInvariance == PoliciesSpec => []PoliciesInv
<1>1. PoliciesInit => PoliciesInv
  <2> SUFFICES ASSUME PoliciesInit PROVE PoliciesInv
    OBVIOUS
  <2>1. PoliciesTypeOK
    BY NoSeedingType DEF PoliciesInit, PoliciesTypeOK
  <2>2. \A s \in Seeders : Unseen(s)
    BY NoSeedingType DEF PoliciesInit, Unseen
  <2>3. \A p \in Pages : InForce(p)
    BY DEF PoliciesInit, InForce, Unsuperseded
  <2>4. QED
    BY <2>1, <2>2, <2>3 DEF PoliciesInv
<1>2. PoliciesInv /\ [PoliciesNext]_policyVars => PoliciesInv'
  <2> SUFFICES ASSUME PoliciesInv, [PoliciesNext]_policyVars PROVE PoliciesInv'
    OBVIOUS
  <2>1. CASE UNCHANGED policyVars
    BY <2>1 DEF policyVars, PoliciesInv, PoliciesTypeOK, Unseen, Page, InForce, Unsuperseded, Restores
  <2>2. ASSUME NEW s \in Seeders, NEW r \in Releases, prepare_policies_fails(s, r) PROVE PoliciesInv'
    BY <2>2 DEF prepare_policies_fails, PoliciesInv, PoliciesTypeOK, Unseen, Page, InForce,
                Unsuperseded, Restores
  <2>3. QED
    BY <2>1, <2>2, PrepareStep, ExistsStep, SupersedeStep, InsertStep, LeaveStep DEF PoliciesNext
<1>3. QED
  BY <1>1, <1>2, PTL DEF PoliciesSpec

\* A legal page that has shown a document never shows an older one or none, in
\* its locale or to those that fall back to it, however many runs of any releases
\* overlap, except between a supersession and the insertion it was made for.
THEOREM NeverUnpublishes == PoliciesSpec => []NeverUnpublished
<1>1. PoliciesInv => NeverUnpublished
  <2> SUFFICES ASSUME PoliciesInv, NEW p \in Pages, shown[p] # 0, p \notin cut, ~Underway(p)
               PROVE  /\ \E r \in current_policy(p[1], p[2]) \cap policy_history(p[1], p[2]) :
                           r.effective_at >= shown[p]
                      /\ p[2] = FallbackLocale =>
                           \A i \in DOMAIN POLICY_LOCALES :
                             current_policy(p[1], POLICY_LOCALES[i]) # {}
    BY DEF NeverUnpublished
  <2>1. p = <<p[1], p[2]>> /\ InForce(p) /\ shown[p] \in Nat
    BY DocumentsType DEF PoliciesInv, PoliciesTypeOK
  <2>2. \A s \in Seeders : ~Restores(s, p)
    BY DEF Underway, Restores, Doing
  <2>3. PICK r \in Unsuperseded(p) : r.effective_at >= shown[p]
    BY <2>1, <2>2 DEF InForce
  <2>4. r \in policy_version /\ r.page = p /\ r.effective_at \in Nat
    BY <2>3 DEF Unsuperseded, PoliciesInv, PoliciesTypeOK, PolicyRows
  <2>5. \A o \in Unsuperseded(p) : o.effective_at <= r.effective_at
    <3> SUFFICES ASSUME NEW o \in Unsuperseded(p) PROVE o.effective_at <= r.effective_at
      OBVIOUS
    <3>1. o.effective_at \in Nat /\ o.effective_at <= shown[p]
      BY <2>1 DEF InForce, Unsuperseded, PoliciesInv, PoliciesTypeOK, PolicyRows
    <3>2. QED
      BY <2>1, <2>3, <2>4, <3>1
  <2>6. r \in current(p) /\ r \in history(p)
    BY <2>3, <2>4, <2>5 DEF current, history
  <2>7. current_policy(p[1], p[2]) = current(p) /\ policy_history(p[1], p[2]) = history(p)
    BY <2>1, <2>6 DEF current_policy, policy_history
  <2>8. p[2] = FallbackLocale =>
          \A i \in DOMAIN POLICY_LOCALES : current_policy(p[1], POLICY_LOCALES[i]) # {}
    BY <2>1, <2>6 DEF current_policy
  <2>9. QED
    BY <2>3, <2>6, <2>7, <2>8
<1>2. QED
  BY <1>1, PoliciesInvariance, PTL

-----------------------------------------------------------------------------
\* One tab of a browser

Answers == [kind: {"none", "page", "navigate", "cookie", "fragment"}, url: Urls \cup {""},
            token: Tokens, csrf: Tokens, session: Tokens,
            signs_out: BOOLEAN, load: BOOLEAN, again: BOOLEAN]

BrowserTypeOK ==
    /\ live \subseteq Sessions
    /\ jar \in [session: Tokens, csrf: Tokens]
    /\ tab \in [meta: Tokens, form: Tokens]
    /\ wire \in Answers

\* What an answer on its way carries: an anonymous page brings its own cookie, and
\* only an answer without a page brings a session, which nobody has seen yet.
Carries ==
    /\ wire.token \in AnonTokens => wire.csrf = wire.token
    /\ wire.kind = "page" => wire.session = NoToken /\ wire.signs_out = FALSE
    /\ wire.session # NoToken => wire.session \notin {jar.session, tab.meta, tab.form}
    /\ wire.token \in Sessions => wire.session = NoToken
    /\ wire.kind \in {"navigate", "cookie"} => wire.url \in Urls

\* While the cookie is still the session the document was loaded for, a page that
\* shows an account, in the tab or on its way there, shows that session's.
SameSession ==
    tab.meta \in Sessions /\ jar.session = tab.meta =>
      /\ tab.form \in Sessions => tab.form = tab.meta
      /\ wire.token \in Sessions => wire.token = tab.meta

\* What a page was rendered for, while nothing has overtaken it.
Steady ==
    steady = TRUE =>
      /\ tab.form \in Sessions => Principal = tab.form
      /\ tab.form \in AnonTokens => Principal = NoToken /\ jar.csrf = tab.form

BrowserInv == BrowserTypeOK /\ Carries /\ SameSession /\ Steady

\* What a handler may answer.
Fit(a) ==
    /\ a \in Answers
    /\ a.token \in AnonTokens => a.csrf = a.token
    /\ a.kind = "page" => a.session = NoToken /\ a.signs_out = FALSE
    /\ a.token \in Sessions => a.token = jar.session /\ a.session = NoToken
    /\ a.session \in NewSessions \cup {NoToken}
    /\ a.kind \in {"navigate", "cookie"} => a.url \in Urls
FitOutcome(o) == Fit(o[1]) /\ o[2] \subseteq Sessions

\* The empty answer.
LEMMA NothingType ==
    /\ Nothing \in Answers /\ Nothing.kind = "none" /\ Nothing.token = NoToken
    /\ Nothing.session = NoToken /\ Nothing.csrf = NoToken
    /\ Nothing.signs_out = FALSE /\ Nothing.load = FALSE
    /\ NoToken \in Tokens /\ NoToken \notin Sessions /\ NoToken \notin AnonTokens
<1>1. NoToken \in Tokens /\ NoToken \notin Sessions /\ NoToken \notin AnonTokens
  BY BrowserAssumption DEF Tokens
<1>2. QED
  BY <1>1 DEF Nothing, Answers

\* A page rendered for the session the cookie names, or for nobody.
LEMMA PageFits ==
    ASSUME BrowserInv, NEW who \in resolve_auth
    PROVE  Fit(for_request(who))
<1>1. who \in Tokens /\ (who \in Sessions => who = jar.session) /\ who \notin AnonTokens
  BY NothingType, BrowserAssumption
  DEF resolve_auth, Principal, PrincipalOf, BrowserInv, BrowserTypeOK, Tokens
<1> DEFINE a == for_request(who)
<1>2. /\ a \in Answers /\ a.kind = "page" /\ a.token = who /\ a.session = NoToken
      /\ a.signs_out = FALSE
  BY <1>1, NothingType DEF for_request, Answers
<1> HIDE DEF a
<1>3. Fit(a)
  BY <1>1, <1>2 DEF Fit
<1>4. QED
  BY <1>3 DEF a

\* Redirects and fragments carry no token.
LEMMA RedirectFits ==
    ASSUME NEW url \in Urls
    PROVE  /\ Fit(Redirect(url)) /\ Fit(redirect_signed_out(url)) /\ Fit(HxRedirect(url))
           /\ Redirect(url) \in Answers
           /\ Redirect(url).kind = "navigate" /\ Redirect(url).url = url
           /\ Redirect(url).token = NoToken /\ Redirect(url).session = NoToken
           /\ \A s \in NewSessions : Fit(redirect_with_cookie(url, s))
<1>1. PICK a : a = Redirect(url)
  OBVIOUS
<1>2. /\ a \in Answers /\ a.kind = "navigate" /\ a.url = url /\ a.token = NoToken
      /\ a.session = NoToken
  BY <1>1, NothingType DEF Redirect, Answers
<1>3. Fit(a)
  BY <1>2, NothingType DEF Fit
<1>4. PICK b : b = [a EXCEPT !.kind = "cookie", !.signs_out = TRUE]
  OBVIOUS
<1>5. /\ b \in Answers /\ b.kind = "cookie" /\ b.url = url /\ b.token = NoToken
      /\ b.session = NoToken
  BY <1>2, <1>4 DEF Answers
<1>6. Fit(b)
  BY <1>5, NothingType DEF Fit
<1>7. PICK c : c = [a EXCEPT !.load = TRUE]
  OBVIOUS
<1>8. /\ c \in Answers /\ c.kind = "navigate" /\ c.url = url /\ c.token = NoToken
      /\ c.session = NoToken
  BY <1>2, <1>7 DEF Answers
<1>9. Fit(c)
  BY <1>8, NothingType DEF Fit
<1>10. ASSUME NEW s \in NewSessions PROVE Fit([a EXCEPT !.kind = "cookie", !.session = s])
  <2>1. PICK d : d = [a EXCEPT !.kind = "cookie", !.session = s]
    OBVIOUS
  <2>2. s \in Tokens
    BY DEF NewSessions, Tokens
  <2>3. /\ d \in Answers /\ d.kind = "cookie" /\ d.url = url /\ d.token = NoToken
        /\ d.session = s
    BY <1>2, <2>1, <2>2 DEF Answers
  <2>4. Fit(d)
    BY <2>3, NothingType DEF Fit
  <2>5. QED
    BY <2>1, <2>4
<1>11. QED
  BY <1>1, <1>2, <1>3, <1>4, <1>6, <1>7, <1>9, <1>10
  DEF redirect_signed_out, HxRedirect, redirect_with_cookie

\* Fragments, and anonymous pages with their cookie.
LEMMA OtherAnswersFit ==
    ASSUME BrowserInv
    PROVE  Fit(Fragment) /\ \A again \in BOOLEAN : \A a \in render_anon(again) : Fit(a)
<1>1. Fit(Fragment)
  <2>1. PICK f : f = Fragment
    OBVIOUS
  <2>2. f \in Answers /\ f.kind = "fragment" /\ f.token = NoToken /\ f.session = NoToken
    BY <2>1, NothingType DEF Fragment, Answers
  <2>3. Fit(f)
    BY <2>2, NothingType DEF Fit
  <2>4. QED
    BY <2>1, <2>3
<1>2. ASSUME NEW again \in BOOLEAN, NEW a \in render_anon(again) PROVE Fit(a)
  <2>1. PICK t \in anon_csrf_token : a = [for_request(t) EXCEPT !.csrf = t, !.again = again]
    BY DEF render_anon
  <2>2. t \in AnonTokens /\ t \in Tokens /\ t \notin Sessions
    BY BrowserAssumption DEF anon_csrf_token, Tokens
  <2>3. PICK b : b = for_request(t)
    OBVIOUS
  <2>4. /\ b \in Answers /\ b.kind = "page" /\ b.token = t /\ b.session = NoToken
        /\ b.signs_out = FALSE
    BY <2>2, <2>3, NothingType DEF for_request, Answers
  <2>5. a = [b EXCEPT !.csrf = t, !.again = again]
    BY <2>1, <2>3
  <2>6. /\ a \in Answers /\ a.kind = "page" /\ a.token = t /\ a.csrf = t /\ a.session = NoToken
        /\ a.signs_out = FALSE
    BY <2>2, <2>4, <2>5 DEF Answers
  <2>7. QED
    BY <2>2, <2>6 DEF Fit
<1>3. QED
  BY <1>1, <1>2

\* Answers that leave the sessions as they are fit if the answers do; signing in
\* creates a session that nobody has seen.
LEMMA OutcomesFit ==
    ASSUME BrowserInv
    PROVE  /\ \A S : (\A a \in S : Fit(a)) => \A o \in Leave(S) : FitOutcome(o)
           /\ \A o \in SignIn : FitOutcome(o)
           /\ {"account", "login", "parking", "reset"} \subseteq Urls
           /\ \A url \in {"account", "login", "parking", "reset"} : Fit(Redirect(url))
<1>1. live \subseteq Sessions
  BY DEF BrowserInv, BrowserTypeOK
<1>2. ASSUME NEW S, \A a \in S : Fit(a), NEW o \in Leave(S) PROVE FitOutcome(o)
  BY <1>1, <1>2 DEF Leave, FitOutcome
<1>3. {"account", "login", "parking", "reset"} \subseteq Urls
  BY DEF Urls
<1>4. \A url \in {"account", "login", "parking", "reset"} : Fit(Redirect(url))
  BY <1>3, RedirectFits
<1>5. ASSUME NEW o \in SignIn PROVE FitOutcome(o)
  <2>1. PICK s \in NewSessions : o = <<redirect_with_cookie("account", s), live \cup {s}>>
    BY <1>5 DEF SignIn
  <2>2. s \in Sessions
    BY DEF NewSessions
  <2>3. Fit(redirect_with_cookie("account", s))
    BY <1>3, RedirectFits
  <2>4. QED
    BY <1>1, <2>1, <2>2, <2>3 DEF FitOutcome
<1>6. QED
  BY <1>2, <1>3, <1>4, <1>5

\* Every answer to a GET fits.
LEMMA GetFits ==
    ASSUME BrowserInv, NEW who \in resolve_auth, NEW url \in Urls, NEW o \in GetFrom(url, who)
    PROVE  FitOutcome(o)
<1>1. /\ \A S : (\A a \in S : Fit(a)) => \A x \in Leave(S) : FitOutcome(x)
      /\ \A x \in SignIn : FitOutcome(x)
  BY OutcomesFit
<1>2. Fit(Redirect("account")) /\ Fit(Redirect("login")) /\ Fit(Redirect("parking"))
  BY OutcomesFit
<1>3. \A a \in render_anon(FALSE) : Fit(a)
  BY OtherAnswersFit
<1>4. Fit(for_request(who))
  BY PageFits
<1>5. o \in SignIn \/ \E S : (\A a \in S : Fit(a)) /\ o \in Leave(S)
  <2>1. o \in UNION {login_page(who), password_reset_page(who), verify_email(who), account(who),
                     parking_details(who), auth_google_callback(who), set_lang(who)}
    BY DEF GetFrom, Urls, register_page, password_reset_new, password_reset_page,
           account_password, account_email
  <2>2. CASE o \in login_page(who)
    BY <1>2, <1>3, <2>2 DEF login_page
  <2>3. CASE o \in password_reset_page(who)
    BY <1>3, <2>3 DEF password_reset_page
  <2>4. CASE o \in verify_email(who)
    <3>1. \A a \in render_anon(FALSE) \cup {Redirect("login")} : Fit(a)
      BY <1>2, <1>3
    <3>2. QED
      BY <2>4, <3>1 DEF verify_email
  <2>5. CASE o \in account(who)
    <3>1. \A a \in {IF who = NoToken THEN login_required(FALSE) ELSE for_request(who)} : Fit(a)
      BY <1>2, <1>4 DEF login_required
    <3>2. QED
      BY <2>5, <3>1 DEF account
  <2>6. CASE o \in parking_details(who)
    BY <1>4, <2>6 DEF parking_details
  <2>7. CASE o \in auth_google_callback(who)
    <3>1. \A a \in {Redirect("login")} : Fit(a)
      BY <1>2
    <3>2. o \in SignIn \/ o \in Leave({Redirect("login")})
      BY <2>7 DEF auth_google_callback
    <3>3. QED
      BY <3>1, <3>2
  <2>8. CASE o \in set_lang(who)
    BY <1>2, <2>8 DEF set_lang
  <2>9. QED
    BY <2>1, <2>2, <2>3, <2>4, <2>5, <2>6, <2>7, <2>8
<1>6. QED
  BY <1>1, <1>5

\* Every answer to a POST fits.
LEMMA PostFits ==
    ASSUME BrowserInv, NEW who \in resolve_auth, NEW f \in Forms, NEW o \in PostFrom(f, who)
    PROVE  FitOutcome(o)
<1>1. /\ \A S : (\A a \in S : Fit(a)) => \A x \in Leave(S) : FitOutcome(x)
      /\ \A x \in SignIn : FitOutcome(x)
      /\ live \subseteq Sessions
  BY OutcomesFit DEF BrowserInv, BrowserTypeOK
<1>2. /\ Fit(Redirect("account")) /\ Fit(Redirect("login")) /\ Fit(Redirect("parking"))
      /\ Fit(Redirect("reset")) /\ Fit(redirect_signed_out("parking")) /\ Fit(HxRedirect("login"))
  BY OutcomesFit, RedirectFits
<1>3. \A a \in render_anon(TRUE) : Fit(a)
  BY OtherAnswersFit
<1>4. Fit(for_request(who)) /\ Fit(for_request(NoToken)) /\ Fit(Fragment)
  BY PageFits, OtherAnswersFit DEF resolve_auth
<1>5. CASE f = "login"
  BY <1>1, <1>2, <1>3, <1>5 DEF PostFrom, login_post
<1>6. CASE f = "register"
  <2>1. \A a \in {Redirect("login")} \cup render_anon(TRUE) : Fit(a)
    BY <1>2, <1>3
  <2>2. QED
    BY <1>1, <1>2, <1>6, <2>1 DEF PostFrom, register_post
<1>7. CASE f = "resend"
  <2>1. \A a \in {Redirect("login")} \cup render_anon(TRUE) : Fit(a)
    BY <1>2, <1>3
  <2>2. QED
    BY <1>1, <1>7, <2>1 DEF PostFrom, verify_resend
<1>8. CASE f = "reset"
  <2>1. \A a \in {Redirect("reset")} \cup render_anon(TRUE) : Fit(a)
    BY <1>2, <1>3
  <2>2. QED
    BY <1>1, <1>8, <2>1 DEF PostFrom, password_reset_post
<1>9. CASE f = "reset new"
  <2>1. CASE o \in Leave(render_anon(TRUE))
    BY <1>1, <1>3, <2>1
  <2>2. CASE \E u \in Users : o = <<Redirect("login"), {s \in live : UserOf(s) # u}>>
    BY <1>1, <1>2, <2>2 DEF FitOutcome
  <2>3. QED
    BY <1>9, <2>1, <2>2 DEF PostFrom, password_reset_new_post
<1>10. CASE f = "logout"
  <2>1. PICK left \in {live, live \ {who}} : o = <<redirect_signed_out("parking"), left>>
    BY <1>10 DEF PostFrom, logout
  <2>2. QED
    BY <1>1, <1>2, <2>1 DEF FitOutcome
<1>11. CASE f = "password"
  <2>1. CASE who = NoToken
    <3>1. o \in Leave({login_required(FALSE)})
      BY <1>11, <2>1 DEF PostFrom, account_password_post
    <3>2. \A a \in {login_required(FALSE)} : Fit(a)
      BY <1>2 DEF login_required
    <3>3. QED
      BY <1>1, <3>1, <3>2
  <2>2. CASE who # NoToken /\ o \in Leave({for_request(who)})
    <3>1. \A a \in {for_request(who)} : Fit(a)
      BY <1>4
    <3>2. QED
      BY <1>1, <2>2, <3>1
  <2>3. CASE o = <<Redirect("account"), {s \in live : s = who \/ UserOf(s) # UserOf(who)}>>
    BY <1>1, <1>2, <2>3 DEF FitOutcome
  <2>4. QED
    BY <1>11, <2>1, <2>2, <2>3 DEF PostFrom, account_password_post
<1>12. CASE f = "email"
  <2>1. PICK S : S = IF who = NoToken THEN {login_required(FALSE)}
                     ELSE {Redirect("account"), for_request(who)}
    OBVIOUS
  <2>2. \A a \in S : Fit(a)
    BY <1>2, <1>4, <2>1 DEF login_required
  <2>3. o \in Leave(S)
    BY <1>12, <2>1 DEF PostFrom, account_email_post
  <2>4. QED
    BY <1>1, <2>2, <2>3
<1>13. CASE f = "favorite"
  <2>1. PICK S : S = IF who = NoToken THEN {login_required(js)}
                     ELSE IF js THEN {Fragment} ELSE {Redirect("parking"), for_request(NoToken)}
    OBVIOUS
  <2>2. \A a \in S : Fit(a)
    BY <1>2, <1>4, <2>1 DEF login_required
  <2>3. o \in Leave(S)
    BY <1>13, <2>1 DEF PostFrom, parking_favorite_post
  <2>4. QED
    BY <1>1, <2>2, <2>3
<1>14. f \in {"login", "register", "resend", "reset", "reset new", "logout", "password", "email", "favorite"}
  BY DEF Forms
<1>15. QED
  BY <1>5, <1>6, <1>7, <1>8, <1>9, <1>10, <1>11, <1>12, <1>13, <1>14

\* A step that leaves the tab alone and keeps the page steady only when nothing it
\* relies on has changed.
LEMMA StillSteadyKeeps ==
    ASSUME Steady, StillSteady, tab' = tab
    PROVE  Steady'
<1> SUFFICES ASSUME steady' = TRUE
             PROVE  /\ tab.form \in Sessions => Principal' = tab.form
                    /\ tab.form \in AnonTokens => Principal' = NoToken /\ jar'.csrf = tab.form
  BY DEF Steady
<1>1. steady = TRUE /\ Undisturbed
  BY DEF StillSteady, Steady
<1>2. Principal' = Principal
  BY <1>1 DEF Undisturbed, Principal, PrincipalOf
<1>3. tab.form \in AnonTokens => jar'.csrf = jar.csrf
  BY <1>1, BrowserAssumption DEF Undisturbed
<1>4. QED
  BY <1>1, <1>2, <1>3 DEF Steady

\* The server answers a request.
LEMMA AnsweredStep ==
    ASSUME BrowserInv, NEW o, FitOutcome(o), NEW load \in BOOLEAN, Answered(o, load)
    PROVE  BrowserInv'
<1>1. /\ wire' = [o[1] EXCEPT !.load = @ \/ load] /\ live' = o[2]
      /\ UNCHANGED <<jar, tab>> /\ StillSteady
  BY DEF Answered
<1>2. Fit(o[1]) /\ live' \subseteq Sessions
  BY <1>1 DEF FitOutcome
<1>3. PICK a : a = o[1]
  OBVIOUS
<1>4. (a.load \/ load) \in BOOLEAN
  OBVIOUS
<1>5. a \in Answers
  BY <1>2, <1>3 DEF Fit
<1>6. /\ wire' \in Answers /\ wire'.kind = a.kind /\ wire'.token = a.token /\ wire'.csrf = a.csrf
      /\ wire'.session = a.session /\ wire'.signs_out = a.signs_out /\ wire'.url = a.url
  BY <1>1, <1>3, <1>4, <1>5, Zenon DEF Answers
<1>7. BrowserTypeOK'
  BY <1>1, <1>2, <1>6 DEF BrowserInv, BrowserTypeOK
<1>8. Carries'
  <2>1. a.session # NoToken => a.session \notin {jar.session, tab.meta, tab.form}
    BY <1>2, <1>3 DEF Fit, NewSessions, Seen
  <2>2. QED
    BY <1>1, <1>2, <1>3, <1>6, <2>1 DEF Carries, Fit
<1>9. SameSession'
  BY <1>1, <1>2, <1>3, <1>6 DEF SameSession, Fit, BrowserInv
<1>10. Steady'
  BY <1>1, StillSteadyKeeps DEF BrowserInv
<1>11. QED
  BY <1>7, <1>8, <1>9, <1>10 DEF BrowserInv

\* The cookies or the sessions change behind the tab's back.
LEMMA JarStep ==
    ASSUME BrowserInv, UNCHANGED <<tab, wire>>, StillSteady,
           jar' \in [session: Tokens, csrf: Tokens], live' \subseteq Sessions,
           jar'.session = jar.session \/ jar'.session \in NewSessions \cup {NoToken}
    PROVE  BrowserInv'
<1>1. BrowserTypeOK'
  BY DEF BrowserInv, BrowserTypeOK
<1>2. jar'.session = jar.session \/ jar'.session = NoToken
      \/ jar'.session \notin {tab.meta, tab.form, wire.session}
  BY DEF NewSessions, Seen
<1>3. Carries'
  BY <1>2 DEF BrowserInv, Carries
<1>4. SameSession'
  BY <1>2, NothingType DEF BrowserInv, SameSession
<1>5. Steady'
  BY StillSteadyKeeps DEF BrowserInv
<1>6. QED
  BY <1>1, <1>3, <1>4, <1>5 DEF BrowserInv

\* An answer without a page is done with, or lost.
LEMMA WireCleared ==
    ASSUME BrowserInv, wire' = Nothing, UNCHANGED <<live, jar, tab, steady>>
    PROVE  BrowserInv'
BY NothingType DEF BrowserInv, BrowserTypeOK, Carries, SameSession, Steady, Principal, PrincipalOf

\* A page arrives.  It brings no session, so the cookie that decides who it is for
\* is the one it was rendered with, or a newer one.
LEMMA ShowPageStep ==
    ASSUME BrowserInv, ShowPage
    PROVE  BrowserInv'
<1>1. /\ wire.kind = "page" /\ StoreCookies /\ wire' = Nothing /\ live' = live
      /\ tab' = [form |-> wire.token, meta |-> IF wire.load THEN wire.token ELSE tab.meta]
      /\ steady' = ((IF wire.token \in Sessions THEN wire.token ELSE NoToken) = Principal)
  BY DEF ShowPage
<1>2. /\ wire \in Answers /\ wire.token \in Tokens /\ wire.csrf \in Tokens
      /\ wire.session = NoToken /\ wire.signs_out = FALSE
      /\ jar \in [session: Tokens, csrf: Tokens] /\ tab \in [meta: Tokens, form: Tokens]
  BY <1>1 DEF BrowserInv, BrowserTypeOK, Carries, Answers
<1>3. /\ jar' \in [session: Tokens, csrf: Tokens] /\ jar'.session = jar.session
      /\ jar'.csrf = IF wire.csrf # NoToken THEN wire.csrf ELSE jar.csrf
  BY <1>1, <1>2 DEF StoreCookies
<1>4. /\ tab' \in [meta: Tokens, form: Tokens] /\ tab'.form = wire.token
      /\ tab'.meta \in {wire.token, tab.meta}
  BY <1>1, <1>2
<1>5. BrowserTypeOK'
  BY <1>1, <1>3, <1>4, NothingType DEF BrowserInv, BrowserTypeOK
<1>6. Carries'
  BY <1>1, NothingType DEF Carries
<1>7. SameSession'
  BY <1>1, <1>3, <1>4, NothingType DEF BrowserInv, SameSession
<1>8. Steady'
  <2>1. Principal' = Principal
    BY <1>1, <1>3 DEF Principal, PrincipalOf
  <2>2. wire.token \in AnonTokens => wire.token \notin Sessions /\ jar'.csrf = wire.token
    BY <1>3, BrowserAssumption DEF BrowserInv, Carries
  <2>3. QED
    BY <1>1, <1>4, <2>1, <2>2 DEF Steady
<1>9. QED
  BY <1>5, <1>6, <1>7, <1>8 DEF BrowserInv

\* A redirect's cookies arrive: the session they may bring is new to the tab.
LEMMA TakeCookiesStep ==
    ASSUME BrowserInv, TakeCookies
    PROVE  BrowserInv'
<1>1. /\ wire.kind = "cookie" /\ StoreCookies /\ live' = live /\ tab' = tab /\ StillSteady
      /\ wire' = [Redirect(wire.url) EXCEPT !.load = wire.load]
  BY DEF TakeCookies
<1>2. /\ wire \in Answers /\ wire.session \in Tokens /\ wire.csrf \in Tokens /\ wire.url \in Urls
      /\ wire.load \in BOOLEAN /\ jar \in [session: Tokens, csrf: Tokens]
  BY <1>1 DEF BrowserInv, BrowserTypeOK, Carries, Answers
<1>3. PICK a : a = Redirect(wire.url)
  OBVIOUS
<1>4. /\ a \in Answers /\ a.kind = "navigate" /\ a.url = wire.url
      /\ a.token = NoToken /\ a.session = NoToken
  BY <1>2, <1>3, RedirectFits
<1>5. /\ wire' \in Answers /\ wire'.kind = "navigate" /\ wire'.url = wire.url
      /\ wire'.token = NoToken /\ wire'.session = NoToken
  BY <1>1, <1>2, <1>3, <1>4 DEF Answers
<1>6. /\ jar' \in [session: Tokens, csrf: Tokens]
      /\ jar'.session \in {NoToken, jar.session, wire.session}
      /\ jar'.session = wire.session /\ wire.session # NoToken
           => wire.session \notin {tab.meta, tab.form}
  BY <1>1, <1>2, NothingType DEF StoreCookies, BrowserInv, Carries
<1>7. BrowserTypeOK'
  BY <1>1, <1>5, <1>6 DEF BrowserInv, BrowserTypeOK
<1>8. Carries'
  BY <1>2, <1>5, NothingType DEF Carries
<1>9. SameSession'
  BY <1>1, <1>5, <1>6, NothingType DEF BrowserInv, SameSession
<1>10. Steady'
  BY <1>1, StillSteadyKeeps DEF BrowserInv
<1>11. QED
  BY <1>7, <1>8, <1>9, <1>10 DEF BrowserInv

\* A GET, typed, followed or redirected to.
LEMMA GetPageStep ==
    ASSUME BrowserInv, NEW url \in Urls, NEW load \in BOOLEAN, GetPage(url, load)
    PROVE  BrowserInv'
BY GetFits, AnsweredStep DEF GetPage

\* A POST, accepted or refused by the middleware.
LEMMA SubmitFormStep ==
    ASSUME BrowserInv, NEW f \in Forms, Submit(f)
    PROVE  BrowserInv'
<1>1. PICK who \in resolve_auth :
        \/ \E o \in PostFrom(f, who) : Answered(o, ~js)
        \/ Answered(<<deny(who, js /\ f = "favorite"), live>>, ~js)
  BY DEF Submit, auth_middleware
<1>2. (~js) \in BOOLEAN
  OBVIOUS
<1>3. FitOutcome(<<deny(who, js /\ f = "favorite"), live>>)
  <2>1. Fit(for_request(who)) /\ Fit(Fragment)
    BY PageFits, OtherAnswersFit
  <2>2. Fit(deny(who, js /\ f = "favorite"))
    BY <2>1 DEF deny
  <2>3. QED
    BY <2>2 DEF FitOutcome, BrowserInv, BrowserTypeOK
<1>4. QED
  BY <1>1, <1>2, <1>3, PostFits, AnsweredStep

\* The inductive invariant of the tab.
THEOREM BrowserInvariance == BrowserSpec => []BrowserInv
<1>1. BrowserInit => BrowserInv
  BY NothingType DEF BrowserInit, BrowserInv, BrowserTypeOK, Carries, SameSession, Steady
<1>2. BrowserInv /\ [BrowserNext]_browserVars => BrowserInv'
  <2> SUFFICES ASSUME BrowserInv, [BrowserNext]_browserVars PROVE BrowserInv'
    OBVIOUS
  <2>1. ASSUME NEW url \in Urls, Open(url) \/ Follow(url) PROVE BrowserInv'
    BY <2>1, GetPageStep DEF Open, Follow
  <2>2. ASSUME NEW f \in Forms, Submit(f) PROVE BrowserInv'
    BY <2>2, SubmitFormStep
  <2>3. CASE ShowPage
    BY <2>3, ShowPageStep
  <2>4. CASE SwapFragment \/ LoseAnswer
    BY <2>4, WireCleared DEF SwapFragment, LoseAnswer
  <2>5. CASE TakeCookies
    BY <2>5, TakeCookiesStep
  <2>6. CASE Redirected
    <3>1. wire.url \in Urls /\ wire.load \in BOOLEAN
      BY <2>6 DEF Redirected, BrowserInv, BrowserTypeOK, Carries, Answers
    <3>2. QED
      BY <2>6, <3>1, GetPageStep DEF Redirected
  <2>7. CASE OtherTab
    <3>1. jar \in [session: Tokens, csrf: Tokens] /\ live \subseteq Sessions
      BY DEF BrowserInv, BrowserTypeOK
    <3>2. AnonTokens \subseteq Tokens /\ NewSessions \subseteq Tokens \cap Sessions /\ NoToken \in Tokens
      BY DEF Tokens, NewSessions
    <3>3. /\ jar' \in [session: Tokens, csrf: Tokens] /\ live' \subseteq Sessions
          /\ jar'.session = jar.session \/ jar'.session \in NewSessions \cup {NoToken}
      BY <2>7, <3>1, <3>2 DEF OtherTab, anon_csrf_token
    <3>4. QED
      BY <2>7, <3>3, JarStep DEF OtherTab
  <2>8. ASSUME NEW s \in Sessions, SessionEnds(s) PROVE BrowserInv'
    BY <2>8, JarStep DEF SessionEnds, BrowserInv, BrowserTypeOK
  <2>9. CASE CsrfCookieExpires
    <3>1. jar' \in [session: Tokens, csrf: Tokens] /\ jar'.session = jar.session
      BY <2>9, NothingType DEF CsrfCookieExpires, BrowserInv, BrowserTypeOK
    <3>2. QED
      BY <2>9, <3>1, JarStep DEF CsrfCookieExpires, BrowserInv, BrowserTypeOK
  <2>10. CASE UNCHANGED browserVars
    BY <2>10 DEF browserVars, BrowserInv, BrowserTypeOK, Carries, SameSession, Steady,
                Principal, PrincipalOf
  <2>11. QED
    BY <2>1, <2>2, <2>3, <2>4, <2>5, <2>6, <2>7, <2>8, <2>9, <2>10 DEF BrowserNext
<1>3. QED
  BY <1>1, <1>2, PTL DEF BrowserSpec

\* The middleware never accepts a form shown to one account for another, whatever
\* other tabs sign in and out of and whichever answers are lost, and accepts the
\* forms of a page loaded as one document until something it relies on changes:
\* for any number of users, sessions and tokens, with scripts and without.
THEOREM FormsFollow == BrowserSpec => []FormsFollowThePage
<1>1. BrowserInv => FormsFollowThePage
  <2> SUFFICES ASSUME BrowserInv PROVE ActsForItsPage /\ LoadedPageWorks
    BY DEF FormsFollowThePage
  <2>1. tab.form \in Tokens /\ tab.meta \in Tokens /\ live \subseteq Sessions
    BY DEF BrowserInv, BrowserTypeOK
  <2>2. ActsForItsPage
    <3> SUFFICES ASSUME tab.form \in Sessions, Principal # NoToken, csrf_ok(Principal, submitted)
                 PROVE  tab.form = Principal
      BY DEF ActsForItsPage
    <3>1. submitted = Principal /\ Principal = jar.session /\ Principal \in Sessions
      BY <2>1 DEF csrf_ok, Principal, PrincipalOf
    <3>2. CASE submitted = tab.form
      BY <3>1, <3>2
    <3>3. CASE submitted = tab.meta
      BY <3>1, <3>3 DEF BrowserInv, SameSession
    <3>4. QED
      BY <3>2, <3>3 DEF submitted
  <2>3. LoadedPageWorks
    <3> SUFFICES ASSUME steady, tab.form # NoToken, js => tab.meta = tab.form
                 PROVE  csrf_ok(Principal, submitted)
      BY DEF LoadedPageWorks
    <3>1. submitted = tab.form
      BY DEF submitted, HasHeader
    <3>2. steady = TRUE
      OBVIOUS
    <3>3. QED
      BY <2>1, <3>1, <3>2, NothingType DEF BrowserInv, Steady, csrf_ok, Tokens
  <2>4. QED
    BY <2>2, <2>3
<1>2. QED
  BY <1>1, BrowserInvariance, PTL

-----------------------------------------------------------------------------
\* One process, from its environment to its exit

Commands == {"seed-mock", "seed-admin", "seed-full-fresh", "seed-policies", "retention"}
MainPcs == {"idle", "connect", "serve", "wired", "bind", "serving", "draining", "grace"}
           \cup Commands \cup DOMAIN Steps

StartupTypeOK ==
    /\ main.pc \in MainPcs
    /\ inflight \in Nat /\ mail \in {"none", "queued"} /\ broken \in BOOLEAN

\* Who runs was configured from an environment, and validated if it was to serve.
Configured ==
    main.pc # "idle" =>
      /\ main = [pc |-> main.pc, config |-> main.config, sub |-> main.sub]
      /\ \E env \in Environments : main.config = from_lookup(env)
      /\ main.sub \in {"none", "serve"} => validate_for_production(main.config)

\* Requests are answered by a server, and one whose jobs are enabled has a worker
\* until it ends, even one that has left.
Manned ==
    /\ inflight > 0 => Serving
    /\ main.pc \in {"bind", "serving", "draining"} /\ main.config.jobs.enabled => worker # "none"

\* What is there to lose, and what has been put back so far.
Whole == "old" \in data \/ {"mock", "admin", "policies"} \subseteq data
Reseeded ==
    /\ main.pc \in DOMAIN Steps => seed_full_fresh(main.config)
    /\ main.pc \notin {"mock", "admin", "policies"} => broken = TRUE \/ Whole
    /\ main.pc = "admin" => "mock" \in data
    /\ main.pc = "policies" => {"mock", "admin"} \subseteq data
    /\ "production" \notin erasedIn

StartupInv == StartupTypeOK /\ Configured /\ Manned /\ Reseeded

LEMMA StepsDomain == DOMAIN Steps = {"reset_objects", "truncate", "mock", "admin", "policies"}
BY DEF Steps

\* main goes on in the same process, or ends it.
LEMMA Entered ==
    ASSUME NEW p, Configured, main.pc # "idle", Enter(p)
    PROVE  main'.pc = p /\ main'.config = main.config /\ main'.sub = main.sub /\ Configured'
<1>1. PICK c, s, q : main = [pc |-> q, config |-> c, sub |-> s]
  BY DEF Configured
<1>2. main' = [pc |-> p, config |-> c, sub |-> s]
  BY <1>1 DEF Enter
<1>3. main'.pc = p /\ main'.config = main.config /\ main'.sub = main.sub
  BY <1>1, <1>2
<1>4. main' = [pc |-> main'.pc, config |-> main'.config, sub |-> main'.sub]
  BY <1>2
<1>5. QED
  BY <1>3, <1>4 DEF Configured

LEMMA BootEnds ==
    ASSUME Exited
    PROVE  main'.pc = "idle" /\ Configured'
BY DEF Exited, Idle, Configured

\* A launch that is not refused has a configuration made of an environment, and
\* whoever is to serve has had it validated.
LEMMA LaunchStep ==
    ASSUME StartupInv, NEW env \in Environments, NEW sub, launch(env, sub)
    PROVE  StartupInv'
<1>1. main.pc = "idle" /\ UNCHANGED <<worker, inflight, mail, data, broken, erasedIn>>
  BY DEF launch, At
<1>2. CASE UNCHANGED main
  BY <1>1, <1>2 DEF StartupInv, StartupTypeOK, Configured, Manned, Reseeded, Serving, Whole
<1>3. CASE main' # main
  <2>1. /\ main' = [pc |-> "connect", config |-> from_lookup(env), sub |-> sub]
        /\ sub \in {"none", "serve"} => validate_for_production(from_lookup(env))
    BY <1>3 DEF launch
  <2>2. main'.pc = "connect" /\ main'.config = from_lookup(env) /\ main'.sub = sub
    BY <2>1
  <2>3. Configured'
    BY <2>1, <2>2 DEF Configured
  <2>4. StartupTypeOK' /\ Manned' /\ Reseeded'
    BY <1>1, <2>2, StepsDomain
    DEF StartupInv, StartupTypeOK, MainPcs, Manned, Reseeded, Serving, Whole
  <2>5. QED
    BY <2>3, <2>4 DEF StartupInv
<1>4. QED
  BY <1>2, <1>3

\* What main does outside the fresh seed leaves what it found, or adds to it.
LEMMA MainStep ==
    ASSUME StartupInv, main.pc # "idle", main.pc \notin DOMAIN Steps, Configured',
           main'.pc \in MainPcs, main'.pc \notin {"truncate", "mock", "admin", "policies"},
           main'.pc = "reset_objects" => seed_full_fresh(main'.config),
           inflight' \in Nat, mail' \in {"none", "queued"}, data \subseteq data',
           UNCHANGED <<broken, erasedIn>>, Manned'
    PROVE  StartupInv'
<1>1. StartupTypeOK'
  BY DEF StartupInv, StartupTypeOK
<1>2. Reseeded'
  BY StepsDomain DEF StartupInv, Reseeded, Whole
<1>3. QED
  BY <1>1, <1>2 DEF StartupInv

LEMMA ServeSteps ==
    ASSUME StartupInv,
           connect_and_migrate \/ router_deps \/ start_worker \/ bind \/ wait_for_terminate
             \/ drained \/ stop
    PROVE  StartupInv'
<1>1. /\ main.pc \in {"connect", "serve", "wired", "bind", "serving", "draining", "grace"}
      /\ main.pc # "idle" /\ main.pc \notin DOMAIN Steps
      /\ UNCHANGED <<inflight, mail, data, broken, erasedIn>>
  BY StepsDomain DEF connect_and_migrate, router_deps, start_worker, bind, wait_for_terminate,
                     drained, server_returns, stop, At
<1>2. Configured /\ inflight \in Nat /\ mail \in {"none", "queued"}
  BY DEF StartupInv, StartupTypeOK
<1>3. inflight = 0 \/ main.pc \in {"serving", "draining"}
  BY <1>2 DEF StartupInv, Manned, Serving
<1>4. ASSUME Exited, main.pc # "serving", main.pc = "draining" => inflight = 0 PROVE StartupInv'
  <2>1. main'.pc = "idle" /\ Configured'
    BY <1>4, BootEnds
  <2>2. Manned'
    BY <1>1, <1>3, <1>4, <2>1 DEF Manned, Serving
  <2>3. QED
    BY <1>1, <1>2, <2>1, <2>2, MainStep DEF MainPcs
<1>5. ASSUME NEW p \in MainPcs \ DOMAIN Steps, Enter(p),
             inflight = 0 \/ p \in {"serving", "draining"},
             p \in {"bind", "serving", "draining"} =>
               (main.config.jobs.enabled => worker' # "none")
      PROVE  StartupInv'
  <2>1. main'.pc = p /\ main'.config = main.config /\ Configured'
    BY <1>1, <1>2, <1>5, Entered
  <2>2. Manned'
    BY <1>1, <1>5, <2>1 DEF Manned, Serving
  <2>3. QED
    BY <1>1, <1>2, <1>5, <2>1, <2>2, MainStep, StepsDomain
<1>6. CASE connect_and_migrate
  <2>1. CASE Exited
    BY <1>4, <1>6, <2>1 DEF connect_and_migrate, At
  <2>2. CASE Enter(IF Serves(main.sub) THEN "serve" ELSE main.sub)
    <3>1. PICK p : p = (IF Serves(main.sub) THEN "serve" ELSE main.sub)
      OBVIOUS
    <3>2. p \in MainPcs \ DOMAIN Steps /\ p \notin {"bind", "serving", "draining"} /\ Enter(p)
      BY <2>2, <3>1, StepsDomain DEF MainPcs, Commands, Serves
    <3>3. inflight = 0
      BY <1>3, <1>6 DEF connect_and_migrate, At
    <3>4. QED
      BY <1>5, <3>2, <3>3
  <2>3. QED
    BY <1>6, <2>1, <2>2 DEF connect_and_migrate
<1>7. CASE router_deps
  <2>1. main.pc = "serve" /\ (Exited \/ Enter("wired"))
    BY <1>7 DEF router_deps, At
  <2>2. "wired" \in MainPcs \ DOMAIN Steps
    BY StepsDomain DEF MainPcs
  <2>3. QED
    BY <1>3, <1>4, <1>5, <2>1, <2>2
<1>8. CASE start_worker
  <2>1. main.pc = "wired" /\ Enter("bind") /\ (main.config.jobs.enabled => worker' # "none")
    BY <1>8 DEF start_worker, At
  <2>2. "bind" \in MainPcs \ DOMAIN Steps
    BY StepsDomain DEF MainPcs
  <2>3. QED
    BY <1>3, <1>5, <2>1, <2>2
<1>9. CASE bind
  <2>1. main.pc = "bind" /\ (Exited \/ (Enter("serving") /\ UNCHANGED worker))
    BY <1>9 DEF bind, At
  <2>2. "serving" \in MainPcs \ DOMAIN Steps /\ (main.config.jobs.enabled => worker # "none")
    BY <2>1, StepsDomain DEF MainPcs, StartupInv, Manned
  <2>3. QED
    BY <1>3, <1>4, <1>5, <2>1, <2>2
<1>10. CASE wait_for_terminate
  <2>1. main.pc = "serving" /\ Enter("draining") /\ UNCHANGED worker
    BY <1>10 DEF wait_for_terminate, At
  <2>2. "draining" \in MainPcs \ DOMAIN Steps /\ (main.config.jobs.enabled => worker # "none")
    BY <2>1, StepsDomain DEF MainPcs, StartupInv, Manned
  <2>3. QED
    BY <1>5, <2>1, <2>2
<1>11. CASE drained
  <2>1. inflight = 0 /\ Enter("grace")
    BY <1>11 DEF drained, server_returns
  <2>2. "grace" \in MainPcs \ DOMAIN Steps
    BY StepsDomain DEF MainPcs
  <2>3. QED
    BY <1>5, <2>1, <2>2
<1>12. CASE stop
  BY <1>4, <1>12 DEF stop, At
<1>13. QED
  BY <1>6, <1>7, <1>8, <1>9, <1>10, <1>11, <1>12

\* Requests and the worker: a message is queued only where a worker carries it.
LEMMA WorkSteps ==
    ASSUME StartupInv,
           request \/ respond \/ request_mails \/ worker_claims \/ worker_delivers \/ worker_leaves
    PROVE  StartupInv'
<1>1. UNCHANGED <<main, data, broken, erasedIn>>
  BY DEF request, respond, request_mails, worker_claims, worker_delivers, worker_leaves
<1>2. inflight \in Nat /\ mail \in {"none", "queued"}
  BY DEF StartupInv, StartupTypeOK
<1>3. /\ inflight' \in Nat /\ (inflight' > 0 => Serving)
      /\ worker = "none" <=> worker' = "none"
  BY <1>2 DEF StartupInv, Manned, Serving, request, respond, request_mails, worker_claims,
              worker_delivers, worker_leaves, At
<1>4. mail' \in {"none", "queued"}
  <2>1. CASE request_mails
    <3>1. inflight > 0 /\ email_queue
      BY <2>1 DEF request_mails
    <3>2. main.config.jobs.enabled => worker # "none"
      BY <3>1 DEF StartupInv, Manned, Serving
    <3>3. QED
      BY <1>2, <3>1, <3>2 DEF email_queue
  <2>2. CASE ~request_mails
    BY <1>2, <2>2 DEF request, respond, worker_claims, worker_delivers, worker_leaves
  <2>3. QED
    BY <2>1, <2>2
<1>5. Configured' /\ Reseeded'
  BY <1>1 DEF StartupInv, Configured, Reseeded, Whole
<1>6. StartupTypeOK' /\ Manned'
  BY <1>1, <1>3, <1>4 DEF StartupInv, StartupTypeOK, Manned, Serving
<1>7. QED
  BY <1>5, <1>6 DEF StartupInv

\* A crash, and the commands that only add: the process ends with no request.
LEMMA EndingSteps ==
    ASSUME StartupInv, crash \/ seed_mock \/ seed_admin \/ seed_policies_or_retention
    PROVE  StartupInv'
<1>1. /\ main.pc # "idle" /\ main.pc \notin DOMAIN Steps
      /\ Exited /\ UNCHANGED <<mail, broken, erasedIn>>
  BY StepsDomain DEF crash, seed_mock, seed_admin, seed_policies_or_retention, At
<1>2. data \subseteq data'
  BY DEF crash, seed_mock, seed_admin, seed_policies_or_retention
<1>3. inflight \in Nat /\ mail \in {"none", "queued"} /\ (inflight > 0 => Serving)
  BY DEF StartupInv, StartupTypeOK, Manned
<1>4. inflight' = 0
  BY <1>3 DEF crash, seed_mock, seed_admin, seed_policies_or_retention, At, Serving
<1>5. main'.pc = "idle" /\ Configured'
  BY <1>1, BootEnds
<1>6. Manned'
  BY <1>4, <1>5 DEF Manned
<1>7. QED
  BY <1>1, <1>2, <1>3, <1>4, <1>5, <1>6, MainStep DEF MainPcs

\* The fresh seed begins only with all it takes to end.
LEMMA FreshBegins ==
    ASSUME StartupInv, fresh_begins
    PROVE  StartupInv'
<1>1. /\ main.pc = "seed-full-fresh" /\ main.pc \notin DOMAIN Steps /\ Configured
      /\ UNCHANGED <<worker, inflight, mail, data, broken, erasedIn>>
  BY StepsDomain DEF fresh_begins, At, StartupInv
<1>2. inflight = 0 /\ inflight \in Nat /\ mail \in {"none", "queued"}
  BY <1>1 DEF StartupInv, StartupTypeOK, Manned, Serving
<1>3. CASE seed_full_fresh(main.config)
  <2>1. Enter("reset_objects")
    BY <1>3 DEF fresh_begins
  <2>2. main'.pc = "reset_objects" /\ main'.config = main.config /\ Configured'
    BY <1>1, <2>1, Entered
  <2>3. Manned'
    BY <1>1, <1>2, <2>2 DEF Manned
  <2>4. "reset_objects" \in MainPcs
    BY StepsDomain DEF MainPcs
  <2>5. QED
    BY <1>1, <1>2, <1>3, <2>2, <2>3, <2>4, MainStep
<1>4. CASE ~seed_full_fresh(main.config)
  <2>1. main'.pc = "idle" /\ Configured'
    BY <1>4, BootEnds DEF fresh_begins
  <2>2. Manned'
    BY <1>1, <1>2, <2>1 DEF Manned
  <2>3. QED
    BY <1>1, <1>2, <2>1, <2>2, MainStep DEF MainPcs
<1>5. QED
  BY <1>3, <1>4

\* Its steps put back what they erase: none of them can be refused, so only a
\* failure leaves the sequence before the policies, its last step, are there.
LEMMA FreshStep ==
    ASSUME StartupInv, fresh_step
    PROVE  StartupInv'
<1>1. /\ main.pc \in {"reset_objects", "truncate", "mock", "admin", "policies"} /\ Configured
      /\ UNCHANGED <<worker, inflight>> /\ erasedIn' = erasedIn \cup {main.config.app_env}
  BY StepsDomain DEF fresh_step, StartupInv
<1>2. inflight = 0 /\ inflight \in Nat /\ mail \in {"none", "queued"} /\ broken \in BOOLEAN
  BY <1>1 DEF StartupInv, StartupTypeOK, Manned, Serving
<1>3. /\ seed_full_fresh(main.config) /\ validate_admin_seed(main.config) /\ main.config.policies
      /\ main.config.app_env # "production"
  BY <1>1, StepsDomain DEF StartupInv, Reseeded, seed_full_fresh, is_production
<1>4. "production" \notin erasedIn'
  BY <1>1, <1>3 DEF StartupInv, Reseeded
<1>5. /\ data' = IF main.pc = "truncate" THEN {}
                 ELSE data \cup (IF main.pc \in {"mock", "admin", "policies"} THEN {main.pc} ELSE {})
      /\ mail' = IF main.pc = "truncate" THEN "none" ELSE mail
      /\ broken' = (broken /\ main.pc # "policies")
      /\ IF main.pc = "policies" THEN Exited ELSE Enter(Steps[main.pc])
  BY <1>3 DEF fresh_step
<1>6. mail' \in {"none", "queued"} /\ broken' \in BOOLEAN
  BY <1>2, <1>5
<1>7. CASE main.pc = "policies"
  <2>1. main'.pc = "idle" /\ Configured'
    BY <1>5, <1>7, BootEnds
  <2>2. Whole'
    BY <1>5, <1>7 DEF StartupInv, Reseeded, Whole
  <2>3. Reseeded'
    BY <1>4, <2>1, <2>2, StepsDomain DEF Reseeded
  <2>4. StartupTypeOK' /\ Manned'
    BY <1>1, <1>2, <1>6, <2>1 DEF StartupTypeOK, MainPcs, Manned
  <2>5. QED
    BY <2>1, <2>3, <2>4 DEF StartupInv
<1>8. CASE main.pc # "policies"
  <2>1. /\ main'.pc = Steps[main.pc] /\ main'.config = main.config /\ Configured'
    BY <1>1, <1>5, <1>8, Entered
  <2>2. /\ main.pc = "reset_objects" => main'.pc = "truncate"
        /\ main.pc = "truncate" => main'.pc = "mock"
        /\ main.pc = "mock" => main'.pc = "admin"
        /\ main.pc = "admin" => main'.pc = "policies"
    BY <2>1 DEF Steps
  <2>3. main.pc = "reset_objects" => broken' = TRUE \/ Whole'
    <3> SUFFICES ASSUME main.pc = "reset_objects" PROVE broken' = TRUE \/ Whole'
      OBVIOUS
    <3>1. (broken = TRUE \/ Whole) /\ data \subseteq data'
      BY <1>5 DEF StartupInv, Reseeded
    <3>2. broken = TRUE => broken' = TRUE
      BY <1>5
    <3>3. QED
      BY <3>1, <3>2 DEF Whole
  <2>4. /\ main'.pc = "admin" => "mock" \in data'
        /\ main'.pc = "policies" => {"mock", "admin"} \subseteq data'
    BY <1>1, <1>5, <1>8, <2>2 DEF StartupInv, Reseeded
  <2>5. Reseeded'
    BY <1>1, <1>3, <1>4, <1>8, <2>1, <2>2, <2>3, <2>4 DEF Reseeded
  <2>6. StartupTypeOK' /\ Manned'
    BY <1>1, <1>2, <1>6, <1>8, <2>2, StepsDomain DEF StartupTypeOK, MainPcs, Manned
  <2>7. QED
    BY <2>1, <2>5, <2>6 DEF StartupInv
<1>9. QED
  BY <1>7, <1>8

LEMMA FreshBreaks ==
    ASSUME StartupInv, fresh_breaks
    PROVE  StartupInv'
<1>1. main.pc \in DOMAIN Steps /\ UNCHANGED <<inflight, mail, erasedIn>> /\ broken' = TRUE
  BY DEF fresh_breaks
<1>2. main'.pc = "idle" /\ Configured'
  BY BootEnds DEF fresh_breaks
<1>3. inflight = 0 /\ inflight \in Nat
  BY <1>1, StepsDomain DEF StartupInv, StartupTypeOK, Manned, Serving
<1>4. StartupTypeOK' /\ Manned'
  BY <1>1, <1>2, <1>3 DEF StartupInv, StartupTypeOK, MainPcs, Manned
<1>5. Reseeded'
  BY <1>1, <1>2, StepsDomain DEF StartupInv, Reseeded
<1>6. QED
  BY <1>2, <1>4, <1>5 DEF StartupInv

\* The inductive invariant of the process.
THEOREM StartupInvariance == StartupSpec => []StartupInv
<1>1. StartupInit => StartupInv
  <2> SUFFICES ASSUME StartupInit PROVE StartupInv
    OBVIOUS
  <2>1. main.pc = "idle" /\ Configured
    BY DEF StartupInit, Idle, Configured
  <2>2. inflight = 0 /\ mail = "none" /\ data = {"old"} /\ broken = FALSE /\ erasedIn = {}
    BY DEF StartupInit
  <2>3. StartupTypeOK
    BY <2>1, <2>2 DEF StartupTypeOK, MainPcs
  <2>4. Manned /\ Reseeded
    BY <2>1, <2>2, StepsDomain DEF Manned, Reseeded, Whole
  <2>5. QED
    BY <2>1, <2>3, <2>4 DEF StartupInv
<1>2. StartupInv /\ [StartupNext]_startupVars => StartupInv'
  <2> SUFFICES ASSUME StartupInv, [StartupNext]_startupVars PROVE StartupInv'
    OBVIOUS
  <2>1. ASSUME NEW env \in Environments, NEW sub \in Subcommands, launch(env, sub)
        PROVE  StartupInv'
    BY <2>1, LaunchStep
  <2>2. CASE connect_and_migrate \/ router_deps \/ start_worker \/ bind \/ wait_for_terminate
               \/ drained \/ stop
    BY <2>2, ServeSteps
  <2>3. CASE request \/ respond \/ request_mails \/ worker_claims \/ worker_delivers \/ worker_leaves
    BY <2>3, WorkSteps
  <2>4. CASE crash \/ seed_mock \/ seed_admin \/ seed_policies_or_retention
    BY <2>4, EndingSteps
  <2>5. CASE fresh_begins \/ fresh_step \/ fresh_breaks
    BY <2>5, FreshBegins, FreshStep, FreshBreaks
  <2>6. CASE UNCHANGED startupVars
    BY <2>6 DEF startupVars, StartupInv, StartupTypeOK, Configured, Manned, Reseeded, Serving, Whole
  <2>7. QED
    BY <2>1, <2>2, <2>3, <2>4, <2>5, <2>6 DEF StartupNext
<1>3. QED
  BY <1>1, <1>2, PTL DEF StartupSpec

\* A configuration the validation lets through for production has no fake, no
\* development credentials and a public address: whatever else it is made of.
LEMMA ValidatedIsReal ==
    ASSUME NEW env \in Environments, NEW c, c = from_lookup(env), is_production(c),
           validate_for_production(c)
    PROVE  /\ fakes_in_use(c) = {}
           /\ c.storage.endpoint # "none"
           /\ \A k \in {"bucket", "access_key_id", "secret_access_key"} : c.storage[k] = "own"
           /\ c.base_url = "public" /\ c.tls_on /\ c.media_hosts # {}
<1>1. Problems(c) = {}
  BY DEF validate_for_production
<1>2. /\ c.base_url \notin {"empty", "localhost"}
      /\ c.storage.endpoint # "none" /\ c.storage.bucket # "empty"
      /\ {c.storage.access_key_id, c.storage.secret_access_key} \cap {"empty", "minioadmin"} = {}
      /\ c.email # "fake" /\ c.geocoder # "fake" /\ c.rate_limiter # "in_memory"
      /\ c.tls_on /\ c.media_hosts # {} /\ ~c.google_oauth_enabled
  BY <1>1 DEF Problems
<1>3. AppEnv(env) = "production"
  BY DEF from_lookup, is_production
<1>4. c.storage = s3_config(env, FALSE) /\ c.base_url = string(env, "BASE_URL", "empty")
  BY <1>3 DEF from_lookup
<1>5. /\ c.storage.bucket = string(env, "S3_BUCKET", "empty")
      /\ c.storage.access_key_id = string(env, "S3_ACCESS_KEY_ID", "empty")
      /\ c.storage.secret_access_key = string(env, "S3_SECRET_ACCESS_KEY", "empty")
  BY <1>4 DEF s3_config
<1>6. /\ c.storage.bucket = "own" /\ c.storage.access_key_id = "own"
      /\ c.storage.secret_access_key = "own" /\ c.base_url = "public"
  BY <1>2, <1>4, <1>5, EnvironmentsAssumption DEF string, IsSet, raw
<1>7. fakes_in_use(c) = {}
  BY <1>2 DEF fakes_in_use
<1>8. QED
  BY <1>2, <1>6, <1>7

\* Whatever the environment, the argument and the order in which a process is
\* stopped, crashes and is started again: a validated production server runs on
\* real providers, no message waits for a worker that is not there, no request is
\* dropped by a shutdown, and a fresh seed puts back what it erases unless a call
\* of it fails.
THEOREM LaunchesSafely == StartupSpec => []StartsSafely
<1>1. StartupInv => StartsSafely
  <2> SUFFICES ASSUME StartupInv PROVE ProductionIsReal /\ MailIsCarried /\ FreshSeedIsWhole
    BY DEF StartsSafely
  <2>1. ProductionIsReal
    <3> SUFFICES ASSUME Serving, is_production(main.config), main.sub \in {"none", "serve"}
                 PROVE  /\ fakes_in_use(main.config) = {}
                        /\ main.config.storage.endpoint # "none"
                        /\ \A k \in {"bucket", "access_key_id", "secret_access_key"} :
                             main.config.storage[k] = "own"
                        /\ main.config.base_url = "public" /\ main.config.tls_on
                        /\ main.config.media_hosts # {}
      BY DEF ProductionIsReal
    <3>1. PICK env \in Environments : main.config = from_lookup(env)
      BY DEF StartupInv, Configured, Serving
    <3>2. validate_for_production(main.config)
      BY DEF StartupInv, Configured, Serving
    <3>3. QED
      BY <3>1, <3>2, ValidatedIsReal
  <2>2. MailIsCarried
    BY DEF MailIsCarried, StartupInv, StartupTypeOK, Manned, Serving
  <2>3. FreshSeedIsWhole
    BY DEF FreshSeedIsWhole, At, StartupInv, Reseeded, Whole
  <2>4. QED
    BY <2>1, <2>2, <2>3
<1>2. QED
  BY <1>1, StartupInvariance, PTL

-----------------------------------------------------------------------------
\* The rate limiters

Events == [at: Nat, nth: Nat, score: Nat]

LimiterTypeOK ==
    /\ backend \in {"unset", "memory", "valkey"} /\ clock \in Nat
    /\ IsFiniteSet(DOMAIN buckets) /\ DOMAIN buckets \subseteq Keys
    /\ \A k \in DOMAIN buckets : buckets[k].events \subseteq Events /\ IsFiniteSet(buckets[k].events)
                                 /\ buckets[k].last_seen \in Nat
    /\ zset \in [Keys -> SUBSET Events] /\ \A k \in Keys : IsFiniteSet(zset[k])
    /\ counted \in [Keys -> SUBSET Events] /\ \A k \in Keys : IsFiniteSet(counted[k])
    /\ expiry \in [Keys -> Nat]

\* The history tells two admissions of a key apart, also in the same instant.
Now(k) == {e \in counted[k] : e.at = clock}
Stamped(k) == \A e \in counted[k] : e.at <= clock /\ (e \in Now(k) => e.nth < Cardinality(Now(k)))

\* Before a check: nothing anywhere.
Untouched ==
    backend = "unset" =>
      /\ DOMAIN buckets = {} /\ verdict = NoVerdict
      /\ \A k \in Keys : zset[k] = {} /\ counted[k] = {}

\* A bucket holds its key's admissions in the window, and a key without one has none.
Recalls(k) ==
    backend = "memory" =>
      /\ k \in DOMAIN buckets =>
           /\ {e \in buckets[k].events : clock - e.score < Window[k]} = Recent(k, Window[k])
           /\ buckets[k].last_seen <= clock
           /\ \A e \in counted[k] : e.at <= buckets[k].last_seen
      /\ k \notin DOMAIN buckets => Recent(k, Window[k]) = {}
      /\ \A e \in counted[k] : e.score = e.at

\* A sorted set holds its key's admissions in the window less the skew, and no others
\* in the window and the skew; its expiry outlives them.
Shares(k) ==
    backend = "valkey" =>
      /\ \A e \in zset[k] \cup counted[k] : \E i \in Instances : e.score = e.at + ClockSkew[i]
      /\ {e \in zset[k] : clock - e.at < Window[k] + MaxSkew} \subseteq counted[k]
      /\ Recent(k, Window[k] - MaxSkew) \subseteq zset[k]
      /\ \A e \in counted[k] : e.at + Window[k] <= expiry[k]

\* What the store and the history know of one key, and the bound itself.
KeyOK(k) ==
    Stamped(k) /\ Recalls(k) /\ Shares(k) /\ Cardinality(Recent(k, Window[k] - Skew)) <= Limit

LimiterInv ==
    /\ LimiterTypeOK /\ Untouched /\ NoFalse429 /\ BucketsBounded
    /\ \A k \in Keys : KeyOK(k)

\* A set of naturals has a least element.
LEMMA Least ==
    ASSUME NEW T, T \subseteq Nat, T # {}
    PROVE  \E x \in T : \A y \in T : x <= y
<1> DEFINE R == OpToRel(<, Nat)
<1>1. \A x, y \in Nat : x < y => <<x, y>> \in R
  BY DEF OpToRel
<1>2. IsWellFoundedOn(R, Nat)
  BY NatLessThanWellFounded
<1> HIDE DEF R
<1>3. PICK x \in T : \A y \in T : ~(<<y, x>> \in R)
  BY <1>2, WFMin
<1>4. ASSUME NEW y \in T PROVE x <= y
  <2>1. x \in Nat /\ y \in Nat /\ ~(<<y, x>> \in R)
    BY <1>3
  <2>2. ~(y < x)
    BY <1>1, <2>1
  <2> QED
    BY <2>1, <2>2
<1> QED
  BY <1>4

\* One of finitely many has the greatest value: the one with the fewest at or above it.
LEMMA Greatest ==
    ASSUME NEW I, IsFiniteSet(I), I # {}, NEW f \in [I -> Int]
    PROVE  \E i \in I : \A j \in I : f[i] >= f[j]
<1> DEFINE Above(i) == {j \in I : f[j] >= f[i]}
           T == {m \in Nat : \E i \in I : m = Cardinality(Above(i))}
<1>1. ASSUME NEW i \in I PROVE IsFiniteSet(Above(i)) /\ Cardinality(Above(i)) \in Nat
  BY FS_Subset, FS_CardinalityType
<1>2. T \subseteq Nat /\ T # {}
  BY <1>1
<1>3. PICK m \in T : \A n \in T : m <= n
  <2> HIDE DEF T
  <2> QED
    BY <1>2, Least
<1>4. PICK i \in I : m = Cardinality(Above(i))
  OBVIOUS
<1>5. ASSUME NEW j \in I, ~(f[i] >= f[j]) PROVE FALSE
  <2>1. f[i] \in Int /\ f[j] \in Int /\ f[j] > f[i]
    BY <1>5
  <2>2. Above(j) \subseteq Above(i) /\ i \in Above(i) /\ i \notin Above(j)
    BY <2>1
  <2>3. Cardinality(Above(j)) \in T
    BY <1>1
  <2> HIDE DEF Above, T
  <2>4. Cardinality(Above(j)) <= Cardinality(Above(i)) /\ Cardinality(Above(i)) # Cardinality(Above(j))
    BY <1>1, <2>2, FS_Subset
  <2>5. QED
    BY <1>1, <1>3, <1>4, <2>3, <2>4
<1>6. QED
  BY <1>5

\* MaxSkew is the greatest difference between two clocks.
LEMMA SkewBound ==
    /\ MaxSkew \in Nat
    /\ \A i, j \in Instances : ClockSkew[i] - ClockSkew[j] <= MaxSkew
<1> DEFINE D == {ClockSkew[i] - ClockSkew[j] : i, j \in Instances}
<1>1. ClockSkew \in [Instances -> Int] /\ \A i \in Instances : ClockSkew[i] \in Int
  BY LimiterAssumption
<1>2. PICK hi \in Instances : \A j \in Instances : ClockSkew[hi] >= ClockSkew[j]
  BY <1>1, LimiterAssumption, Greatest
<1>3. PICK lo \in Instances : \A j \in Instances : ClockSkew[j] >= ClockSkew[lo]
  <2> DEFINE g == [i \in Instances |-> 0 - ClockSkew[i]]
  <2>1. g \in [Instances -> Int] /\ \A i \in Instances : g[i] = 0 - ClockSkew[i]
    BY <1>1
  <2> HIDE DEF g
  <2>2. PICK lo \in Instances : \A j \in Instances : g[lo] >= g[j]
    BY <2>1, LimiterAssumption, Greatest
  <2>3. QED
    BY <1>1, <2>1, <2>2
<1> DEFINE top == ClockSkew[hi] - ClockSkew[lo]
<1>4. top \in D /\ top \in Nat
  BY <1>1, <1>2
<1>5. \A y \in D : top >= y
  BY <1>1, <1>2, <1>3
<1>6. MaxSkew \in D /\ \A y \in D : MaxSkew >= y
  <2> HIDE DEF top
  <2>1. \E x \in D : \A y \in D : x >= y
    BY <1>4, <1>5
  <2>2. MaxSkew = CHOOSE x \in D : \A y \in D : x >= y
    BY DEF MaxSkew, Max
  <2> HIDE DEF D
  <2>3. QED
    BY <2>1, <2>2
<1>7. D \subseteq Int /\ \A i, j \in Instances : ClockSkew[i] - ClockSkew[j] \in D
  BY <1>1
<1>8. MaxSkew >= top
  BY <1>4, <1>6
<1> HIDE DEF D, top
<1>9. MaxSkew \in Int /\ \A i, j \in Instances : MaxSkew >= ClockSkew[i] - ClockSkew[j]
  BY <1>6, <1>7
<1>10. MaxSkew \in Nat
  BY <1>4, <1>8, <1>9
<1>11. QED
  BY <1>1, <1>9, <1>10

\* Part of a finite set is finite and no larger.
LEMMA PartOf ==
    ASSUME NEW T, IsFiniteSet(T), NEW S, S \subseteq T
    PROVE  /\ IsFiniteSet(S) /\ Cardinality(S) \in Nat /\ Cardinality(T) \in Nat
           /\ Cardinality(S) <= Cardinality(T)
BY FS_Subset, FS_CardinalityType

\* With at most one element more, it is at most one larger.
LEMMA OneMore ==
    ASSUME NEW T, IsFiniteSet(T), NEW a
    PROVE  /\ IsFiniteSet(T \cup {a}) /\ Cardinality(T) \in Nat
           /\ Cardinality(T \cup {a}) \in Nat /\ Cardinality(T \cup {a}) <= Cardinality(T) + 1
BY FS_AddElement, FS_CardinalityType

\* The types of what one key has.
LEMMA KeyTypes ==
    ASSUME LimiterTypeOK, NEW k \in Keys
    PROVE  /\ clock \in Nat /\ Window[k] \in Nat /\ Window[k] > 0 /\ Limit \in Nat /\ Limit > 0
           /\ counted[k] \subseteq Events /\ IsFiniteSet(counted[k])
           /\ zset[k] \subseteq Events /\ IsFiniteSet(zset[k]) /\ expiry[k] \in Nat
BY LimiterAssumption DEF LimiterTypeOK

\* An admission is not the same as an earlier one.
LEMMA AdmissionNew ==
    ASSUME LimiterTypeOK, NEW k \in Keys, Stamped(k), NEW stamp \in Nat
    PROVE  /\ Admission(k, stamp) \in Events
           /\ Admission(k, stamp).at = clock /\ Admission(k, stamp).score = stamp
           /\ Admission(k, stamp).nth = Cardinality(Now(k))
           /\ Admission(k, stamp) \notin counted[k]
<1>1. IsFiniteSet(Now(k)) /\ Cardinality(Now(k)) \in Nat /\ clock \in Nat
  BY KeyTypes, PartOf DEF Now
<1>2. Admission(k, stamp) = [at |-> clock, nth |-> Cardinality(Now(k)), score |-> stamp]
  BY DEF Admission, Now
<1>3. /\ Admission(k, stamp) \in Events
      /\ Admission(k, stamp).at = clock /\ Admission(k, stamp).score = stamp
      /\ Admission(k, stamp).nth = Cardinality(Now(k))
  BY <1>1, <1>2 DEF Events
<1>4. Admission(k, stamp) \notin counted[k]
  BY <1>1, <1>3 DEF Stamped, Now
<1>5. QED
  BY <1>3, <1>4

LEMMA StampedNext ==
    ASSUME LimiterTypeOK, NEW k \in Keys, Stamped(k), NEW a \in Events, UNCHANGED clock,
           a.at = clock, a.nth = Cardinality(Now(k)), counted'[k] = counted[k] \cup {a}
    PROVE  Stamped(k)'
<1>1. IsFiniteSet(Now(k)) /\ Cardinality(Now(k)) \in Nat /\ clock \in Nat
  BY KeyTypes, PartOf DEF Now
<1>2. Now(k)' = Now(k) \cup {a} /\ a \notin Now(k)
  BY <1>1 DEF Now, Stamped
<1>3. Cardinality(Now(k)') = Cardinality(Now(k)) + 1
  BY <1>1, <1>2, FS_AddElement
<1>4. \A e \in counted[k] : e \in Events
  BY KeyTypes
<1>5. ASSUME NEW e \in counted'[k]
      PROVE  e.at <= clock /\ (e \in Now(k)' => e.nth < Cardinality(Now(k)'))
  <2>1. CASE e = a
    BY <1>1, <1>3, <2>1
  <2>2. CASE e \in counted[k]
    BY <1>1, <1>2, <1>3, <1>4, <2>2 DEF Stamped, Now, Events
  <2>3. QED
    BY <2>1, <2>2
<1>6. QED
  BY <1>5 DEF Stamped

\* Selecting the store: both are empty.
LEMMA ConfigStep ==
    ASSUME LimiterInv, rate_limiter_from_config
    PROVE  LimiterInv'
<1>1. /\ backend = "unset" /\ backend' \in {"memory", "valkey"}
      /\ UNCHANGED <<clock, buckets, zset, expiry, counted, verdict>>
  BY DEF rate_limiter_from_config, memory, valkey
<1>2. DOMAIN buckets = {} /\ verdict = NoVerdict
  BY <1>1 DEF LimiterInv, Untouched
<1>3. LimiterTypeOK' /\ Untouched' /\ BucketsBounded'
  BY <1>1 DEF LimiterInv, LimiterTypeOK, Untouched, BucketsBounded
<1>4. NoFalse429'
  BY <1>1, <1>2 DEF NoFalse429, NoVerdict
<1>5. ASSUME NEW k \in Keys PROVE KeyOK(k)'
  <2>1. zset'[k] = {} /\ counted'[k] = {}
    BY <1>1 DEF LimiterInv, Untouched
  <2>2. \A age : Recent(k, age)' = {}
    BY <2>1 DEF Recent
  <2>3. Cardinality(Recent(k, Window[k] - Skew)') <= Limit
    BY <2>2, FS_EmptySet, LimiterAssumption
  <2>4. QED
    BY <1>1, <1>2, <2>1, <2>2, <2>3 DEF KeyOK, Stamped, Recalls, Shares
<1>6. QED
  BY <1>3, <1>4, <1>5 DEF LimiterInv

\* Time passes: windows lose admissions, never gain any, and what expires with its
\* sorted set was outside the window.
LEMMA LimiterTickStep ==
    ASSUME LimiterInv, LimiterTick
    PROVE  LimiterInv'
<1>0. /\ zset' = [k \in Keys |-> IF expiry[k] <= clock' THEN {} ELSE zset[k]]
      /\ counted' = [k \in Keys |-> {e \in counted[k] : clock' - e.at < Window[k] + MaxSkew}]
  BY DEF LimiterTick
<1>1. /\ backend # "unset" /\ clock' = clock + 1 /\ verdict' = NoVerdict
      /\ UNCHANGED <<backend, buckets, expiry>>
  BY DEF LimiterTick, memory
<1>2. LimiterTypeOK /\ MaxSkew \in Nat
  BY SkewBound DEF LimiterInv
<1>3. ASSUME NEW k \in Keys
      PROVE  /\ counted'[k] = {e \in counted[k] : clock' - e.at < Window[k] + MaxSkew}
             /\ zset'[k] = (IF expiry[k] <= clock' THEN {} ELSE zset[k])
             /\ counted'[k] \subseteq counted[k] /\ zset'[k] \subseteq zset[k]
             /\ IsFiniteSet(counted'[k]) /\ IsFiniteSet(zset'[k])
  <2>1. /\ counted'[k] = {e \in counted[k] : clock' - e.at < Window[k] + MaxSkew}
        /\ zset'[k] = (IF expiry[k] <= clock' THEN {} ELSE zset[k])
    BY <1>0
  <2>2. counted'[k] \subseteq counted[k] /\ zset'[k] \subseteq zset[k]
    BY <2>1
  <2>3. QED
    BY <1>2, <2>1, <2>2, KeyTypes, PartOf
<1>4. LimiterTypeOK'
  <2>1. zset' \in [Keys -> SUBSET Events] /\ counted' \in [Keys -> SUBSET Events]
    BY <1>0, <1>2 DEF LimiterTypeOK
  <2>2. \A k \in Keys : IsFiniteSet(zset'[k]) /\ IsFiniteSet(counted'[k])
    BY <1>3
  <2>3. QED
    BY <1>1, <1>2, <2>1, <2>2 DEF LimiterTypeOK
<1>5. Untouched' /\ NoFalse429' /\ BucketsBounded'
  BY <1>1 DEF LimiterInv, Untouched, NoFalse429, NoVerdict, BucketsBounded
<1>6. ASSUME NEW k \in Keys PROVE KeyOK(k)'
  <2>1. /\ clock \in Nat /\ Window[k] \in Nat /\ Window[k] > 0
        /\ \A e \in counted[k] \cup zset[k] : e.at \in Nat /\ e.score \in Nat
        /\ Limit \in Nat /\ expiry[k] \in Nat
    BY <1>2, KeyTypes DEF Events
  <2>2. Stamped(k) /\ Recalls(k) /\ Shares(k) /\ Cardinality(Recent(k, Window[k] - Skew)) <= Limit
    BY DEF LimiterInv, KeyOK
  <2>3. ASSUME NEW age \in Int, age <= Window[k] + MaxSkew
        PROVE  Recent(k, age)' = {e \in counted[k] : clock + 1 - e.at < age}
               /\ Recent(k, age)' \subseteq Recent(k, age)
    BY <1>1, <1>2, <1>3, <2>1, <2>3 DEF Recent
  <2>4. Stamped(k)'
    <3>1. \A e \in counted'[k] : e.at < clock'
      BY <1>1, <1>3, <2>1, <2>2 DEF Stamped
    <3>2. \A e \in counted'[k] : e.at \in Nat /\ e.at # clock'
      BY <1>1, <1>3, <2>1, <3>1
    <3>3. QED
      BY <1>1, <2>1, <3>1, <3>2 DEF Stamped, Now
  <2>5. Cardinality(Recent(k, Window[k] - Skew)') <= Limit
    <3>1. PICK age : age = Window[k] - Skew
      OBVIOUS
    <3>2. age \in Int /\ age <= Window[k] + MaxSkew /\ age = Window[k] - Skew'
      BY <1>1, <1>2, <2>1, <3>1 DEF Skew
    <3>3. IsFiniteSet(Recent(k, age)) /\ Recent(k, age)' \subseteq Recent(k, age)
      BY <1>2, <2>3, <3>2, KeyTypes, PartOf DEF Recent
    <3>4. Cardinality(Recent(k, age)') <= Limit
      BY <2>1, <2>2, <3>1, <3>3, PartOf
    <3>5. Recent(k, Window[k] - Skew)' = Recent(k, age)'
      BY <3>2 DEF Recent
    <3>6. QED
      BY <3>4, <3>5
  <2>6. Recalls(k)'
    <3> SUFFICES ASSUME backend = "memory" PROVE Recalls(k)'
      BY <1>1 DEF Recalls
    <3>1. /\ Recent(k, Window[k])' = {e \in counted[k] : clock + 1 - e.at < Window[k]}
          /\ Recent(k, Window[k])' \subseteq Recent(k, Window[k])
      BY <1>2, <2>1, <2>3
    <3>2. ASSUME k \in DOMAIN buckets
          PROVE  /\ {e \in buckets[k].events : clock' - e.score < Window[k]} = Recent(k, Window[k])'
                 /\ buckets[k].last_seen <= clock'
                 /\ \A e \in counted'[k] : e.at <= buckets[k].last_seen
      <4>1. /\ {e \in buckets[k].events : clock - e.score < Window[k]} = Recent(k, Window[k])
            /\ \A e \in counted[k] : e.score = e.at /\ e.at <= buckets[k].last_seen
            /\ buckets[k].last_seen <= clock /\ buckets[k].last_seen \in Nat
            /\ \A e \in buckets[k].events : e.score \in Nat
        BY <1>2, <2>2, <3>2 DEF Recalls, LimiterTypeOK, Events
      <4>2. ASSUME NEW e \in buckets[k].events, clock' - e.score < Window[k]
            PROVE  e \in Recent(k, Window[k])'
        <5>1. e \in Recent(k, Window[k])
          BY <1>1, <2>1, <4>1, <4>2
        <5>2. QED
          <6>1. e \in counted[k]
            BY <5>1 DEF Recent
          <6>2. e.score = e.at
            BY <4>1, <6>1
          <6>3. clock + 1 - e.at < Window[k]
            BY <1>1, <2>1, <4>2, <6>1, <6>2
          <6>4. QED
            BY <3>1, <6>1, <6>3
      <4>3. ASSUME NEW e \in Recent(k, Window[k])'
            PROVE  e \in buckets[k].events /\ clock' - e.score < Window[k]
        <5>1. e \in counted[k] /\ clock + 1 - e.at < Window[k] /\ e \in Recent(k, Window[k])
          BY <3>1, <4>3
        <5>2. e \in buckets[k].events /\ e.score = e.at
          BY <4>1, <5>1
        <5>3. clock' - e.score < Window[k]
          BY <1>1, <2>1, <5>1, <5>2
        <5>4. QED
          BY <5>2, <5>3
      <4>4. QED
        BY <1>1, <1>3, <2>1, <4>1, <4>2, <4>3
    <3>3. k \notin DOMAIN buckets => Recent(k, Window[k])' = {}
      BY <2>2, <3>1 DEF Recalls
    <3>4. QED
      BY <1>1, <1>3, <2>2, <3>2, <3>3 DEF Recalls
  <2>7. Shares(k)'
    <3> SUFFICES ASSUME backend = "valkey" PROVE Shares(k)'
      BY <1>1 DEF Shares
    <3>1. {e \in zset'[k] : clock' - e.at < Window[k] + MaxSkew} \subseteq counted'[k]
      BY <1>1, <1>2, <1>3, <2>1, <2>2 DEF Shares
    <3>2. Recent(k, Window[k] - MaxSkew)' \subseteq zset'[k]
      <4>1. /\ Recent(k, Window[k] - MaxSkew)' = {e \in counted[k] : clock + 1 - e.at < Window[k] - MaxSkew}
            /\ Recent(k, Window[k] - MaxSkew)' \subseteq Recent(k, Window[k] - MaxSkew)
        BY <1>2, <2>1, <2>3
      <4>2. CASE expiry[k] <= clock'
        BY <1>1, <1>2, <2>1, <2>2, <4>1, <4>2 DEF Shares
      <4>3. CASE ~(expiry[k] <= clock')
        BY <1>3, <2>2, <4>1, <4>3 DEF Shares
      <4>4. QED
        BY <4>2, <4>3
    <3>3. /\ \A e \in zset'[k] \cup counted'[k] : \E i \in Instances : e.score = e.at + ClockSkew[i]
          /\ \A e \in counted'[k] : e.at + Window[k] <= expiry'[k]
      BY <1>1, <1>3, <2>2 DEF Shares
    <3>4. QED
      BY <3>1, <3>2, <3>3 DEF Shares
  <2>8. QED
    BY <2>4, <2>5, <2>6, <2>7 DEF KeyOK
<1>7. QED
  BY <1>4, <1>5, <1>6 DEF LimiterInv

\* A check in memory, whichever buckets a sweep spared: the key's bucket holds its
\* window before the check and after it.
LEMMA MemoryStep ==
    ASSUME LimiterInv, backend = "memory", NEW k \in Keys, NEW spared,
           spared \subseteq DOMAIN buckets, k \in DOMAIN buckets => k \in spared,
           Cardinality(spared \cup {k}) <= MAX_BUCKETS,
           CheckMemory(k, spared), UNCHANGED <<backend, clock, zset, expiry>>
    PROVE  LimiterInv'
<1> DEFINE over == Cardinality(Trimmed(k, spared)) >= Limit
<1>0a. PICK new : new = IF over THEN {} ELSE {Admission(k, clock)}
  OBVIOUS
<1>0b. buckets' = [l \in spared \cup {k} |->
                    IF l = k THEN [events |-> Trimmed(k, spared) \cup new, last_seen |-> clock]
                    ELSE buckets[l]]
  BY <1>0a DEF CheckMemory
<1>0c. verdict' = [key |-> k, answer |-> IF over THEN "limited" ELSE "allowed"]
  BY DEF CheckMemory, Answer
<1>0d. counted' = [l \in Keys |->
                    IF l = k THEN (IF l \in DOMAIN buckets \ spared /\ l \in Fresh(clock)
                                   THEN {} ELSE counted[l]) \cup new
                    ELSE (IF l \in DOMAIN buckets \ spared /\ l \in Fresh(clock)
                          THEN {} ELSE counted[l])]
  BY <1>0a DEF CheckMemory
<1>1. LimiterTypeOK /\ KeyOK(k)
  BY DEF LimiterInv
<1>2. /\ clock \in Nat /\ Window[k] \in Nat /\ Window[k] > 0 /\ Limit \in Nat /\ Limit > 0
      /\ counted[k] \subseteq Events /\ IsFiniteSet(counted[k])
  BY <1>1, KeyTypes
<1>3. Trimmed(k, spared) = Recent(k, Window[k])
  BY <1>1 DEF KeyOK, Recalls, Trimmed
<1>4. /\ IsFiniteSet(Recent(k, Window[k])) /\ Cardinality(Recent(k, Window[k])) \in Nat
      /\ Recent(k, Window[k]) \subseteq counted[k] /\ Cardinality(Recent(k, Window[k])) <= Limit
  <2>1. Recent(k, Window[k]) \subseteq counted[k]
    BY DEF Recent
  <2>2. Window[k] - Skew = Window[k]
    BY <1>2 DEF Skew
  <2>3. QED
    BY <1>1, <1>2, <2>1, <2>2, PartOf DEF KeyOK
<1>5. /\ new \subseteq Events /\ \A e \in new : e.at = clock /\ e.score = clock
      /\ new = {} \/ (new = {Admission(k, clock)} /\ Cardinality(Recent(k, Window[k])) < Limit)
      /\ over => new = {} /\ Cardinality(Recent(k, Window[k])) >= Limit
  <2>1. CASE over
    <3>1. new = {} /\ Cardinality(Recent(k, Window[k])) >= Limit
      BY <1>0a, <1>3, <2>1
    <3>2. QED
      BY <3>1
  <2>2. CASE ~over
    <3>1. new = {Admission(k, clock)} /\ Cardinality(Recent(k, Window[k])) < Limit
      BY <1>0a, <1>2, <1>3, <1>4, <2>2
    <3>2. QED
      BY <1>1, <1>2, <2>2, <3>1, AdmissionNew DEF KeyOK
  <2>3. QED
    BY <2>1, <2>2
<1>6. /\ DOMAIN buckets' = spared \cup {k}
      /\ buckets'[k].events = Recent(k, Window[k]) \cup new /\ buckets'[k].last_seen = clock
      /\ \A l \in spared : l # k => buckets'[l] = buckets[l]
  BY <1>0b, <1>3
<1>7. /\ counted'[k] = counted[k] \cup new
      /\ \A l \in Keys : l # k =>
           counted'[l] = IF l \in DOMAIN buckets \ spared /\ l \in Fresh(clock) THEN {} ELSE counted[l]
  BY <1>0d
<1>8. verdict'.key = k /\ (verdict'.answer = "limited" => over)
  BY <1>0c
<1> HIDE DEF over
<1>9. /\ IsFiniteSet(Recent(k, Window[k]) \cup new) /\ IsFiniteSet(counted[k] \cup new)
      /\ Cardinality(Recent(k, Window[k]) \cup new) <= Limit
  <2>1. CASE new = {}
    <3>1. Recent(k, Window[k]) \cup new = Recent(k, Window[k]) /\ counted[k] \cup new = counted[k]
      BY <2>1
    <3>2. QED
      BY <1>2, <1>4, <3>1
  <2>2. CASE new # {}
    <3>1. new = {Admission(k, clock)} /\ Cardinality(Recent(k, Window[k])) < Limit
      BY <1>5, <2>2
    <3>2. IsFiniteSet(counted[k] \cup new) /\ IsFiniteSet(Recent(k, Window[k]) \cup new)
      BY <1>2, <1>4, <3>1, OneMore
    <3>3. /\ Cardinality(Recent(k, Window[k]) \cup new) \in Nat
          /\ Cardinality(Recent(k, Window[k]) \cup new) <= Cardinality(Recent(k, Window[k])) + 1
      BY <1>4, <3>1, OneMore
    <3>4. QED
      BY <1>2, <1>4, <3>1, <3>2, <3>3
  <2>3. QED
    BY <2>1, <2>2
<1>10. Recent(k, Window[k])' = Recent(k, Window[k]) \cup new
  BY <1>2, <1>5, <1>7 DEF Recent
<1>11. LimiterTypeOK'
  <2>1. IsFiniteSet(spared \cup {k}) /\ spared \cup {k} \subseteq Keys
    BY <1>1, PartOf, OneMore DEF LimiterTypeOK
  <2>2. ASSUME NEW l \in DOMAIN buckets'
        PROVE  /\ buckets'[l].events \subseteq Events /\ IsFiniteSet(buckets'[l].events)
               /\ buckets'[l].last_seen \in Nat
    <3>1. CASE l = k
      BY <1>2, <1>4, <1>5, <1>6, <1>9, <3>1
    <3>2. CASE l # k
      BY <1>1, <1>6, <3>2 DEF LimiterTypeOK
    <3>3. QED
      BY <3>1, <3>2
  <2>3. ASSUME NEW l \in Keys PROVE counted'[l] \subseteq Events /\ IsFiniteSet(counted'[l])
    <3>1. CASE l = k
      BY <1>2, <1>5, <1>7, <1>9, <3>1
    <3>2. CASE l # k
      BY <1>1, <1>7, <3>2, KeyTypes, FS_EmptySet
    <3>3. QED
      BY <3>1, <3>2
  <2>4. counted' \in [Keys -> SUBSET Events]
    <3>1. DOMAIN counted' = Keys /\ counted' = [l \in Keys |-> counted'[l]]
      BY <1>0d
    <3>2. QED
      BY <2>3, <3>1
  <2>5. QED
    BY <1>1, <1>6, <2>1, <2>2, <2>3, <2>4 DEF LimiterTypeOK
<1>12. Untouched' /\ BucketsBounded'
  BY <1>6 DEF Untouched, BucketsBounded
<1>13. NoFalse429'
  <2> SUFFICES ASSUME verdict'.answer = "limited"
               PROVE  Cardinality(Recent(k, Window[k])') >= Limit
    <3>1. (Window[k] + Skew)' = Window[k]
      BY <1>2 DEF Skew
    <3>2. Recent(verdict.key, Window[verdict.key] + Skew)' = Recent(k, Window[k])'
      BY <1>8, <3>1 DEF Recent
    <3>3. QED
      BY <3>2 DEF NoFalse429
  <2>1. Recent(k, Window[k])' = Recent(k, Window[k])
    BY <1>5, <1>8, <1>10
  <2>2. QED
    BY <1>5, <1>8, <2>1
<1>14. KeyOK(k)'
  <2>1. Stamped(k)'
    <3>1. CASE new = {}
      BY <1>1, <1>7, <3>1 DEF KeyOK, Stamped, Now
    <3>2. CASE new = {Admission(k, clock)}
      BY <1>1, <1>2, <1>7, <3>2, AdmissionNew, StampedNext DEF KeyOK
    <3>3. QED
      BY <1>5, <3>1, <3>2
  <2>2. Recalls(k)'
    <3>1. \A e \in counted'[k] : e.score = e.at /\ e.at \in Nat /\ e.at <= clock
      BY <1>1, <1>2, <1>5, <1>7 DEF KeyOK, Recalls, Stamped, Events
    <3>2. \A e \in Recent(k, Window[k]) \cup new : clock - e.score < Window[k]
      BY <1>2, <1>5, <1>7, <3>1 DEF Recent
    <3>3. {e \in buckets'[k].events : clock - e.score < Window[k]} = Recent(k, Window[k])'
      BY <1>6, <1>10, <3>2
    <3>4. k \in DOMAIN buckets' /\ buckets'[k].last_seen <= clock
      BY <1>2, <1>6
    <3>5. QED
      BY <1>6, <3>1, <3>3, <3>4 DEF Recalls
  <2>3. Cardinality(Recent(k, Window[k] - Skew)') <= Limit
    <3>1. (Window[k] - Skew)' = Window[k]
      BY <1>2 DEF Skew
    <3>2. Recent(k, Window[k] - Skew)' = Recent(k, Window[k])'
      BY <3>1 DEF Recent
    <3>3. QED
      BY <1>9, <1>10, <3>2
  <2>4. QED
    BY <2>1, <2>2, <2>3 DEF KeyOK, Shares
<1>15. ASSUME NEW l \in Keys, l # k PROVE KeyOK(l)'
  <2>1. KeyOK(l) /\ l \in DOMAIN buckets' <=> KeyOK(l) /\ l \in spared
    BY <1>6, <1>15
  <2>2. KeyOK(l) /\ Window[l] \in Nat
    BY <1>1, KeyTypes DEF LimiterInv
  <2>3. CASE l \in DOMAIN buckets \ spared /\ l \in Fresh(clock)
    <3>1. counted'[l] = {} /\ l \notin DOMAIN buckets'
      BY <1>7, <1>15, <2>1, <2>2, <2>3
    <3>2. \A age : Recent(l, age)' = {}
      BY <3>1 DEF Recent
    <3>3. Cardinality(Recent(l, Window[l] - Skew)') <= Limit
      <4>1. Recent(l, Window[l] - Skew)' = {}
        BY <3>1 DEF Recent
      <4>2. QED
        BY <1>2, <4>1, FS_EmptySet
    <3>4. QED
      BY <3>1, <3>2, <3>3 DEF KeyOK, Stamped, Recalls, Shares
  <2>4. CASE ~(l \in DOMAIN buckets \ spared /\ l \in Fresh(clock))
    <3>1. counted'[l] = counted[l]
      BY <1>7, <1>15, <2>4
    <3>2. \A age : Recent(l, age)' = Recent(l, age)
      BY <3>1 DEF Recent
    <3>3. Stamped(l)' /\ Shares(l)'
      BY <2>2, <3>1 DEF KeyOK, Stamped, Now, Shares
    <3>4. Recent(l, Window[l] - Skew)' = Recent(l, Window[l] - Skew)
      BY <3>1 DEF Recent, Skew
    <3>5. Recalls(l)'
      <4>1. CASE l \in spared
        BY <1>6, <1>15, <2>2, <3>1, <3>2, <4>1 DEF KeyOK, Recalls
      <4>2. CASE l \notin DOMAIN buckets
        BY <1>6, <1>15, <2>2, <3>1, <3>2, <4>2 DEF KeyOK, Recalls
      <4>3. CASE l \in DOMAIN buckets \ spared
        <5>1. /\ ~(clock - buckets[l].last_seen < Window[l]) /\ buckets[l].last_seen \in Nat
              /\ \A e \in counted[l] : e.at \in Nat /\ e.at <= buckets[l].last_seen
          BY <1>1, <2>2, <2>4, <4>3, KeyTypes DEF Fresh, KeyOK, Recalls, LimiterTypeOK, Events
        <5>2. Recent(l, Window[l]) = {}
          BY <1>2, <2>2, <5>1 DEF Recent
        <5>3. QED
          BY <1>6, <1>15, <2>2, <3>1, <3>2, <4>3, <5>2 DEF KeyOK, Recalls
      <4>4. QED
        BY <4>1, <4>2, <4>3
    <3>6. QED
      BY <2>2, <3>3, <3>4, <3>5 DEF KeyOK
  <2>5. QED
    BY <2>3, <2>4
<1>16. QED
  BY <1>11, <1>12, <1>13, <1>14, <1>15 DEF LimiterInv

\* The sweep leaves room for the key it makes room for.
LEMMA CheckMemoryStep ==
    ASSUME LimiterInv, NEW k \in Keys, check_memory(k)
    PROVE  LimiterInv'
<1>1. backend = "memory" /\ UNCHANGED <<backend, clock, zset, expiry>>
  BY DEF check_memory, valkey
<1>2. /\ IsFiniteSet(DOMAIN buckets) /\ Cardinality(DOMAIN buckets) \in Nat
      /\ Cardinality(DOMAIN buckets) <= MAX_BUCKETS
      /\ MAX_BUCKETS \in Nat /\ Headroom \in Nat /\ 1 <= Headroom /\ Headroom <= MAX_BUCKETS
  BY FS_CardinalityType, LimiterAssumption DEF LimiterInv, LimiterTypeOK, BucketsBounded
<1>3. CASE ~SweepDue(k)
  <2>1. CheckMemory(k, DOMAIN buckets)
    BY <1>3 DEF check_memory
  <2>2. Cardinality(DOMAIN buckets \cup {k}) <= MAX_BUCKETS
    <3>1. CASE k \in DOMAIN buckets
      <4>1. DOMAIN buckets \cup {k} = DOMAIN buckets
        BY <3>1
      <4>2. QED
        BY <1>2, <4>1
    <3>2. CASE k \notin DOMAIN buckets
      <4>1. Cardinality(DOMAIN buckets) < MAX_BUCKETS
        BY <1>2, <1>3, <3>2 DEF SweepDue
      <4>2. QED
        BY <1>2, <4>1, OneMore
    <3>3. QED
      BY <3>1, <3>2
  <2>3. QED
    BY <1>1, <2>1, <2>2, MemoryStep
<1>4. CASE SweepDue(k)
  <2>1. PICK gone \in Evicted(Fresh(clock)) : CheckMemory(k, Fresh(clock) \ gone)
    BY <1>4 DEF check_memory
  <2>2. PICK spared : spared = Fresh(clock) \ gone
    OBVIOUS
  <2>3. /\ Fresh(clock) \subseteq DOMAIN buckets /\ IsFiniteSet(Fresh(clock))
        /\ Cardinality(Fresh(clock)) \in Nat
    BY <1>2, PartOf DEF Fresh
  <2>4. /\ spared \subseteq DOMAIN buckets /\ IsFiniteSet(spared)
        /\ Cardinality(spared) \in Nat /\ Cardinality(spared) <= Cardinality(Fresh(clock))
    BY <2>2, <2>3, PartOf
  <2>5. Cardinality(spared) < MAX_BUCKETS
    <3>1. CASE Cardinality(Fresh(clock)) < MAX_BUCKETS
      BY <1>2, <2>3, <2>4, <3>1
    <3>2. CASE ~(Cardinality(Fresh(clock)) < MAX_BUCKETS)
      <4>1. /\ gone \subseteq Fresh(clock)
            /\ Cardinality(gone) = Cardinality(Fresh(clock)) - (MAX_BUCKETS - Headroom)
        BY <2>1, <3>2 DEF Evicted, Oldest
      <4>2. Cardinality(spared) = Cardinality(Fresh(clock)) - Cardinality(Fresh(clock) \cap gone)
        BY <2>2, <2>3, FS_Difference
      <4>3. Fresh(clock) \cap gone = gone
        BY <4>1
      <4>4. Cardinality(spared) = Cardinality(Fresh(clock)) - (Cardinality(Fresh(clock)) - (MAX_BUCKETS - Headroom))
        BY <4>1, <4>2, <4>3
      <4>5. QED
        BY <1>2, <2>3, <2>4, <4>4
    <3>3. QED
      BY <3>1, <3>2
  <2>6. Cardinality(spared \cup {k}) <= MAX_BUCKETS
    <3>1. /\ Cardinality(spared \cup {k}) \in Nat
          /\ Cardinality(spared \cup {k}) <= Cardinality(spared) + 1
      BY <2>4, OneMore
    <3>2. QED
      BY <1>2, <2>4, <2>5, <3>1
  <2>7. k \notin DOMAIN buckets
    BY <1>4 DEF SweepDue
  <2>8. CheckMemory(k, spared)
    BY <2>1, <2>2
  <2>9. QED
    BY <1>1, <2>4, <2>6, <2>7, <2>8, MemoryStep
<1>5. QED
  BY <1>3, <1>4

\* A step that leaves what is stored and remembered of every key alone.
LEMMA OnlyAnswers ==
    ASSUME LimiterInv, backend # "unset",
           UNCHANGED <<backend, clock, buckets, zset, expiry, counted>>, NoFalse429'
    PROVE  LimiterInv'
<1>1. LimiterTypeOK' /\ Untouched' /\ BucketsBounded'
  BY DEF LimiterInv, LimiterTypeOK, Untouched, BucketsBounded
<1>2. ASSUME NEW k \in Keys PROVE KeyOK(k)'
  <2>1. \A age : Recent(k, age)' = Recent(k, age)
    BY DEF Recent
  <2>2. Recent(k, Window[k] - Skew)' = Recent(k, Window[k] - Skew)
    BY DEF Recent, Skew
  <2>3. Stamped(k)' /\ Recalls(k)' /\ Shares(k)'
    BY <2>1 DEF LimiterInv, KeyOK, Stamped, Now, Recalls, Shares
  <2>4. QED
    BY <2>2, <2>3 DEF LimiterInv, KeyOK
<1>3. QED
  BY <1>1, <1>2 DEF LimiterInv

\* One run of the script, by any process: what it counts is at least what the window
\* less the skew holds and at most what the window and the skew hold.
LEMMA LuaCounts ==
    ASSUME LimiterInv, backend = "valkey", NEW k \in Keys, NEW i \in Instances
    PROVE  /\ Recent(k, Window[k] - MaxSkew) \subseteq Counted(k, now_millis(i))
           /\ Counted(k, now_millis(i)) \subseteq Recent(k, Window[k] + MaxSkew)
           /\ IsFiniteSet(Counted(k, now_millis(i))) /\ Cardinality(Counted(k, now_millis(i))) \in Nat
<1>1. LimiterTypeOK /\ Shares(k)
  BY DEF LimiterInv, KeyOK
<1>2. /\ clock \in Nat /\ Window[k] \in Nat /\ MaxSkew \in Nat
      /\ now_millis(i) = clock + ClockSkew[i]
      /\ \A j \in Instances : ClockSkew[j] \in Nat
                              /\ ClockSkew[i] - ClockSkew[j] <= MaxSkew
                              /\ ClockSkew[j] - ClockSkew[i] <= MaxSkew
  BY <1>1, KeyTypes, SkewBound, LimiterAssumption DEF now_millis
<1>3. ASSUME NEW e \in Recent(k, Window[k] - MaxSkew) PROVE e \in Counted(k, now_millis(i))
  <2>1. e \in zset[k] /\ e \in counted[k] /\ clock - e.at < Window[k] - MaxSkew /\ e.at \in Nat
    BY <1>1, KeyTypes DEF Shares, Recent, Events
  <2>2. PICK j \in Instances : e.score = e.at + ClockSkew[j]
    BY <1>1, <2>1 DEF Shares
  <2>3. e.score > now_millis(i) - Window[k]
    BY <1>2, <2>1, <2>2
  <2>4. QED
    BY <2>1, <2>3 DEF Counted
<1>4. ASSUME NEW e \in Counted(k, now_millis(i)) PROVE e \in Recent(k, Window[k] + MaxSkew)
  <2>1. e \in zset[k] /\ e.score > now_millis(i) - Window[k] /\ e.at \in Nat
    BY <1>1, KeyTypes DEF Counted, Events
  <2>2. PICK j \in Instances : e.score = e.at + ClockSkew[j]
    BY <1>1, <2>1 DEF Shares
  <2>3. clock - e.at < Window[k] + MaxSkew
    BY <1>2, <2>1, <2>2
  <2>4. QED
    BY <1>1, <2>1, <2>3 DEF Shares, Recent
<1>5. Counted(k, now_millis(i)) \subseteq zset[k]
  BY DEF Counted
<1>6. QED
  BY <1>1, <1>3, <1>4, <1>5, KeyTypes, PartOf

\* What the script does to the sorted set, and the history with it.
LEMMA LuaStep ==
    ASSUME LimiterInv, backend = "valkey", NEW k \in Keys, NEW i \in Instances,
           RATE_LIMIT_LUA(k, now_millis(i)),
           IF Under(k, now_millis(i)) THEN Recorded(k, now_millis(i)) ELSE UNCHANGED counted,
           UNCHANGED <<backend, clock, buckets>>,
           NoFalse429'
    PROVE  LimiterInv'
<1>1. PICK kept, now, new :
        /\ now = now_millis(i) /\ kept = Counted(k, now)
        /\ new = (IF Under(k, now) THEN {Admission(k, now)} ELSE {})
  OBVIOUS
<1>2. /\ LimiterTypeOK /\ KeyOK(k) /\ MaxSkew \in Nat /\ Skew = MaxSkew
      /\ clock \in Nat /\ Window[k] \in Nat /\ Window[k] > 0 /\ Limit \in Nat /\ Limit > 0
      /\ counted[k] \subseteq Events /\ IsFiniteSet(counted[k])
      /\ zset[k] \subseteq Events /\ IsFiniteSet(zset[k]) /\ expiry[k] \in Nat
  BY KeyTypes, SkewBound DEF LimiterInv, Skew
<1>3. now \in Nat /\ now = clock + ClockSkew[i] /\ ClockSkew[i] \in Nat
  BY <1>1, <1>2, LimiterAssumption DEF now_millis
<1>4. /\ new \subseteq Events
      /\ \A e \in new : e.at = clock /\ e.score = now
      /\ new = {} \/ (new = {Admission(k, now)} /\ Under(k, now))
  BY <1>1, <1>2, <1>3, AdmissionNew DEF KeyOK
<1>5. /\ zset'[k] = kept \cup new /\ counted'[k] = counted[k] \cup new
      /\ \A l \in Keys : l # k => zset'[l] = zset[l] /\ counted'[l] = counted[l] /\ expiry'[l] = expiry[l]
      /\ expiry'[k] = IF new = {} THEN expiry[k] ELSE clock + Window[k]
      /\ DOMAIN zset' = Keys /\ DOMAIN counted' = Keys
      /\ zset' = [l \in Keys |-> zset'[l]] /\ counted' = [l \in Keys |-> counted'[l]]
      /\ expiry' \in [Keys -> Nat]
  <2>1. CASE Under(k, now)
    BY <1>1, <1>2, <2>1 DEF RATE_LIMIT_LUA, Recorded, LimiterTypeOK
  <2>2. CASE ~Under(k, now)
    BY <1>1, <1>2, <2>2 DEF RATE_LIMIT_LUA, LimiterTypeOK
  <2>3. QED
    BY <2>1, <2>2
<1>6. /\ kept \subseteq zset[k] /\ IsFiniteSet(kept) /\ Cardinality(kept) \in Nat
      /\ Recent(k, Window[k] - MaxSkew) \subseteq kept
      /\ new = {} \/ Cardinality(kept) < Limit
  BY <1>1, <1>4, LuaCounts DEF Counted, Under
<1>7. IsFiniteSet(kept \cup new) /\ IsFiniteSet(counted[k] \cup new)
  <2>1. CASE new = {}
    <3>1. kept \cup new = kept /\ counted[k] \cup new = counted[k]
      BY <2>1
    <3>2. QED
      BY <1>2, <1>6, <3>1
  <2>2. CASE new = {Admission(k, now)}
    BY <1>2, <1>6, <2>2, OneMore
  <2>3. QED
    BY <1>4, <2>1, <2>2
<1>8. LimiterTypeOK'
  <2>1. ASSUME NEW l \in Keys
        PROVE  /\ counted'[l] \subseteq Events /\ IsFiniteSet(counted'[l])
               /\ zset'[l] \subseteq Events /\ IsFiniteSet(zset'[l])
    <3>1. CASE l = k
      BY <1>2, <1>4, <1>5, <1>6, <1>7, <3>1
    <3>2. CASE l # k
      BY <1>2, <1>5, <3>2, KeyTypes
    <3>3. QED
      BY <3>1, <3>2
  <2>2. counted' \in [Keys -> SUBSET Events] /\ zset' \in [Keys -> SUBSET Events]
    BY <1>5, <2>1
  <2>3. QED
    BY <1>2, <1>5, <2>1, <2>2 DEF LimiterTypeOK
<1>9. Untouched' /\ BucketsBounded'
  BY DEF LimiterInv, Untouched, BucketsBounded
<1>10. KeyOK(k)'
  <2>1. Stamped(k)'
    <3>1. CASE new = {}
      BY <1>2, <1>5, <3>1 DEF KeyOK, Stamped, Now
    <3>2. CASE new = {Admission(k, now)}
      BY <1>2, <1>3, <1>5, <3>2, AdmissionNew, StampedNext DEF KeyOK
    <3>3. QED
      BY <1>4, <3>1, <3>2
  <2>2. \A e \in counted[k] \cup zset[k] \cup new : e.at \in Nat /\ e.score \in Nat
    BY <1>2, <1>4 DEF Events
  <2>3. Recent(k, Window[k] - MaxSkew)' \subseteq kept \cup new
    BY <1>5, <1>6 DEF Recent
  <2>4. Cardinality(Recent(k, Window[k] - Skew)') <= Limit
    <3>1. PICK S : S = Recent(k, Window[k] - MaxSkew)'
      OBVIOUS
    <3>2. Recent(k, Window[k] - Skew)' = S
      BY <1>2, <3>1 DEF Recent, Skew
    <3>3. CASE new = {}
      <4>1. Recent(k, Window[k] - MaxSkew)' = Recent(k, Window[k] - MaxSkew)
        BY <1>5, <3>3 DEF Recent
      <4>2. QED
        BY <1>2, <3>1, <3>2, <4>1 DEF KeyOK
    <3>4. CASE new = {Admission(k, now)}
      <4>1. Cardinality(kept) < Limit
        BY <1>6, <3>4
      <4>2. /\ Cardinality(kept \cup new) \in Nat
            /\ Cardinality(kept \cup new) <= Cardinality(kept) + 1
        BY <1>6, <3>4, OneMore
      <4>3. Cardinality(S) \in Nat /\ Cardinality(S) <= Cardinality(kept \cup new)
        BY <1>7, <2>3, <3>1, PartOf
      <4>4. QED
        BY <1>2, <1>6, <3>2, <4>1, <4>2, <4>3
    <3>5. QED
      BY <1>4, <3>3, <3>4
  <2>5. Shares(k)'
    <3>1. \A e \in zset'[k] \cup counted'[k] : \E j \in Instances : e.score = e.at + ClockSkew[j]
      <4>1. \A e \in new : e.score = e.at + ClockSkew[i]
        BY <1>3, <1>4
      <4>2. QED
        BY <1>2, <1>5, <1>6, <4>1 DEF KeyOK, Shares
    <3>2. {e \in zset'[k] : clock' - e.at < Window[k] + MaxSkew} \subseteq counted'[k]
      BY <1>2, <1>5, <1>6 DEF KeyOK, Shares
    <3>3. Recent(k, Window[k] - MaxSkew)' \subseteq zset'[k]
      BY <1>5, <2>3
    <3>4. \A e \in counted'[k] : e.at + Window[k] <= expiry'[k]
      BY <1>2, <1>4, <1>5, <2>2 DEF KeyOK, Shares, Stamped
    <3>5. QED
      BY <3>1, <3>2, <3>3, <3>4 DEF Shares
  <2>6. QED
    BY <2>1, <2>4, <2>5 DEF KeyOK, Recalls
<1>11. ASSUME NEW l \in Keys, l # k PROVE KeyOK(l)'
  <2>1. zset'[l] = zset[l] /\ counted'[l] = counted[l] /\ expiry'[l] = expiry[l] /\ KeyOK(l)
    BY <1>5, <1>11 DEF LimiterInv
  <2>2. \A age : Recent(l, age)' = Recent(l, age)
    BY <2>1 DEF Recent
  <2>3. Recent(l, Window[l] - Skew)' = Recent(l, Window[l] - Skew)
    BY <2>1 DEF Recent, Skew
  <2>4. Stamped(l)' /\ Recalls(l)' /\ Shares(l)'
    BY <2>1, <2>2 DEF KeyOK, Stamped, Now, Recalls, Shares
  <2>5. QED
    BY <2>1, <2>3, <2>4 DEF KeyOK
<1>12. QED
  BY <1>8, <1>9, <1>10, <1>11 DEF LimiterInv

\* A check through ValKey: a refusal has counted as many as the limit, and what it
\* counted is in the window and the skew.
LEMMA CheckValkeyStep ==
    ASSUME LimiterInv, NEW k \in Keys, NEW i \in Instances, check_valkey(i, k)
    PROVE  LimiterInv'
<1>1. /\ backend = "valkey" /\ UNCHANGED <<backend, clock, buckets>>
      /\ RATE_LIMIT_LUA(k, now_millis(i))
      /\ IF Under(k, now_millis(i))
         THEN Answer(k, "allowed") /\ Recorded(k, now_millis(i))
         ELSE Answer(k, "limited") /\ UNCHANGED counted
  BY DEF check_valkey, memory
<1>2. NoFalse429'
  <2>1. CASE Under(k, now_millis(i))
    BY <1>1, <2>1 DEF NoFalse429, Answer
  <2>2. CASE ~Under(k, now_millis(i))
    <3>1. verdict'.key = k /\ UNCHANGED counted
      BY <1>1, <2>2 DEF Answer
    <3>2. /\ Counted(k, now_millis(i)) \subseteq Recent(k, Window[k] + MaxSkew)
          /\ Cardinality(Counted(k, now_millis(i))) \in Nat
          /\ Cardinality(Counted(k, now_millis(i))) >= Limit
      BY <1>1, <2>2, LuaCounts, LimiterAssumption DEF Under
    <3>3. IsFiniteSet(Recent(k, Window[k] + MaxSkew))
      BY KeyTypes, PartOf DEF Recent, LimiterInv
    <3>4. /\ Cardinality(Recent(k, Window[k] + MaxSkew)) \in Nat
          /\ Cardinality(Counted(k, now_millis(i))) <= Cardinality(Recent(k, Window[k] + MaxSkew))
      BY <3>2, <3>3, PartOf
    <3>5. Recent(verdict.key, Window[verdict.key] + Skew)' = Recent(k, Window[k] + MaxSkew)
      BY <1>1, <3>1 DEF Recent, Skew
    <3>6. QED
      BY <3>2, <3>4, <3>5, LimiterAssumption DEF NoFalse429
  <2>3. QED
    BY <2>1, <2>2
<1>3. QED
  BY <1>1, <1>2, LuaStep

\* A failing call of ValKey, before the script ran or after it, refuses nobody over
\* the limit.
LEMMA FailureStep ==
    ASSUME LimiterInv, NEW k \in Keys, NEW i \in Instances, connect_fails(i, k) \/ eval_fails(i, k)
    PROVE  LimiterInv'
<1>1. /\ backend = "valkey" /\ UNCHANGED <<backend, clock, buckets>>
      /\ \/ UNCHANGED <<zset, expiry, counted>>
         \/ /\ RATE_LIMIT_LUA(k, now_millis(i))
            /\ IF Under(k, now_millis(i)) THEN Recorded(k, now_millis(i)) ELSE UNCHANGED counted
  BY DEF connect_fails, eval_fails, memory
<1>2. verdict'.answer # "limited"
  BY DEF connect_fails, eval_fails, Answer
<1>3. NoFalse429'
  BY <1>2 DEF NoFalse429
<1>4. QED
  BY <1>1, <1>3, LuaStep, OnlyAnswers

\* The inductive invariant of the limiter.
THEOREM LimiterInvariance == LimiterSpec => []LimiterInv
<1>1. LimiterInit => LimiterInv
  <2> SUFFICES ASSUME LimiterInit PROVE LimiterInv
    OBVIOUS
  <2>1. /\ backend = "unset" /\ clock = 0 /\ buckets = [k \in {} |-> 0] /\ verdict = NoVerdict
        /\ zset = [k \in Keys |-> {}] /\ expiry = [k \in Keys |-> 0] /\ counted = [k \in Keys |-> {}]
    BY DEF LimiterInit
  <2>2. DOMAIN buckets = {}
    BY <2>1
  <2>3. LimiterTypeOK /\ Untouched
    BY <2>1, <2>2, FS_EmptySet DEF LimiterTypeOK, Untouched
  <2>4. NoFalse429 /\ BucketsBounded
    BY <2>1, <2>2, FS_EmptySet, LimiterAssumption DEF NoFalse429, NoVerdict, BucketsBounded
  <2>5. ASSUME NEW k \in Keys PROVE KeyOK(k)
    <3>1. counted[k] = {}
      BY <2>1
    <3>2. Recent(k, Window[k] - Skew) = {}
      BY <3>1 DEF Recent
    <3>3. Cardinality(Recent(k, Window[k] - Skew)) <= Limit
      BY <3>2, FS_EmptySet, LimiterAssumption
    <3>4. Stamped(k) /\ Recalls(k) /\ Shares(k)
      BY <2>1, <3>1 DEF Stamped, Recalls, Shares
    <3>5. QED
      BY <3>3, <3>4 DEF KeyOK
  <2>6. QED
    BY <2>3, <2>4, <2>5 DEF LimiterInv
<1>2. LimiterInv /\ [LimiterNext]_limiterVars => LimiterInv'
  <2> SUFFICES ASSUME LimiterInv, [LimiterNext]_limiterVars PROVE LimiterInv'
    OBVIOUS
  <2>1. CASE rate_limiter_from_config
    BY <2>1, ConfigStep
  <2>2. CASE LimiterTick
    BY <2>2, LimiterTickStep
  <2>3. ASSUME NEW k \in Keys, check_memory(k) PROVE LimiterInv'
    BY <2>3, CheckMemoryStep
  <2>4. ASSUME NEW k \in SharedKeys, NEW i \in Instances,
               check_valkey(i, k) \/ connect_fails(i, k) \/ eval_fails(i, k)
        PROVE  LimiterInv'
    <3>1. k \in Keys
      BY LimiterAssumption
    <3>2. QED
      BY <2>4, <3>1, CheckValkeyStep, FailureStep
  <2>5. CASE UNCHANGED limiterVars
    <3>1. UNCHANGED <<backend, clock, buckets, zset, expiry, counted, verdict>>
      BY <2>5 DEF limiterVars
    <3>2. LimiterTypeOK' /\ Untouched' /\ BucketsBounded'
      BY <3>1 DEF LimiterInv, LimiterTypeOK, Untouched, BucketsBounded
    <3>3. NoFalse429'
      BY <3>1 DEF LimiterInv, NoFalse429, Recent, Skew
    <3>4. ASSUME NEW k \in Keys PROVE KeyOK(k)'
      BY <3>1 DEF LimiterInv, KeyOK, Stamped, Now, Recalls, Shares, Recent, Skew
    <3>5. QED
      BY <3>2, <3>3, <3>4 DEF LimiterInv
  <2>6. QED
    BY <2>1, <2>2, <2>3, <2>4, <2>5 DEF LimiterNext
<1>3. QED
  BY <1>1, <1>2, PTL DEF LimiterSpec

\* For any keys, windows and limit, any number of processes and whatever their clocks
\* differ by: no window, less the skew, ever holds more admissions than the limit but
\* for evicted buckets and calls that failed open; nobody is refused over a limit that
\* was not reached in the window and the skew; and the map stays within its cap.
THEOREM LimiterIsTruthful == LimiterSpec => []LimiterTruthful
<1>1. LimiterInv => LimiterTruthful
  BY DEF LimiterInv, KeyOK, LimiterTruthful, WindowBound
<1>2. QED
  BY <1>1, LimiterInvariance, PTL

-----------------------------------------------------------------------------
\* Opening hours and their form

\* A row the form can have written, and when the SQL of the search finds it open.
WeekRow(r) ==
    /\ r.day \in IsoDay /\ r.all_day \in BOOLEAN /\ r.opens_at \in Time /\ r.closes_at \in Time
    /\ r.all_day = FALSE => r.opens_at # r.closes_at

SqlOpen(oh, at) == bikesnest_is_open_at({oh}, at)

\* Some posted form was accepted and is what was stored.
Stored(fields) == Accepted(fields) /\ hours = parse_hours(fields)
HoursInv == \E fields : Stored(fields)

\* Division as the clock uses it.
LEMMA SmallMod ==
    ASSUME NEW n \in Nat \ {0}, NEW a \in Int
    PROVE  /\ 0 <= a /\ a < n => a % n = a
           /\ -n <= a /\ a < 0 => a % n = a + n
<1>1. ASSUME 0 <= a, a < n PROVE a % n = a
  BY <1>1
<1>2. ASSUME -n <= a, a < 0 PROVE a % n = a + n
  BY <1>2
<1>3. QED
  BY <1>1, <1>2

LEMMA DaysApart ==
    ASSUME NEW n \in Nat \ {0}, NEW q \in Int, NEW t \in 0 .. n - 1
    PROVE  (q * n + t) \div n = q /\ (q * n + t) % n = t
OBVIOUS

LEMMA WeekSlots == Slots \in Nat \ {0} /\ 7 * Slots \in Nat \ {0}
BY HoursAssumption

\* An instant is a time of one of seven days; the SQL's previous day is yesterday.
LEMMA InstantParts ==
    ASSUME NEW at \in Instants
    PROVE  \E q \in 0 .. 6, t \in Time :
             /\ at = q * Slots + t /\ local_time(at) = t
             /\ today(at) = q + 1 /\ today((at - Slots) % (7 * Slots)) = yesterday(q + 1)
<1>1. Slots \in Nat \ {0} /\ at \in Int /\ 0 <= at /\ at < 7 * Slots
  BY WeekSlots DEF Instants
<1>2. PICK q \in 0 .. 6 : q * Slots <= at /\ at < q * Slots + Slots
  <2>1. CASE at < Slots
    BY <1>1, <2>1
  <2>2. CASE Slots <= at /\ at < 2 * Slots
    BY <1>1, <2>2
  <2>3. CASE 2 * Slots <= at /\ at < 3 * Slots
    BY <1>1, <2>3
  <2>4. CASE 3 * Slots <= at /\ at < 4 * Slots
    BY <1>1, <2>4
  <2>5. CASE 4 * Slots <= at /\ at < 5 * Slots
    BY <1>1, <2>5
  <2>6. CASE 5 * Slots <= at /\ at < 6 * Slots
    BY <1>1, <2>6
  <2>7. CASE 6 * Slots <= at
    BY <1>1, <2>7
  <2>8. QED
    BY <1>1, <2>1, <2>2, <2>3, <2>4, <2>5, <2>6, <2>7
<1>3. PICK t : t = at - q * Slots
  OBVIOUS
<1>4. t \in Time /\ at = q * Slots + t
  BY <1>1, <1>2, <1>3 DEF Time
<1>5. at \div Slots = q /\ at % Slots = t
  BY <1>1, <1>4, DaysApart DEF Time
<1>6. today((at - Slots) % (7 * Slots)) = yesterday(q + 1)
  <2>1. CASE q = 0
    <3>1. (at - Slots) % (7 * Slots) = 6 * Slots + t
      BY <1>1, <1>4, <2>1, WeekSlots, SmallMod DEF Time
    <3>2. (6 * Slots + t) \div Slots = 6
      BY <1>1, <1>4, DaysApart DEF Time
    <3>3. QED
      BY <2>1, <3>1, <3>2 DEF today, yesterday
  <2>2. CASE q # 0
    <3>1. at - Slots = (q - 1) * Slots + t
      BY <1>1, <1>4 DEF Time
    <3>2. 0 <= at - Slots /\ at - Slots < 7 * Slots
      BY <1>1, <1>2, <2>2
    <3>3. (at - Slots) % (7 * Slots) = (q - 1) * Slots + t
      <4>1. at - Slots \in Int
        BY <1>1
      <4>2. (at - Slots) % (7 * Slots) = at - Slots
        BY <3>2, <4>1, WeekSlots, SmallMod
      <4>3. QED
        BY <3>1, <4>2
    <3>4. ((q - 1) * Slots + t) \div Slots = q - 1
      <4>1. q - 1 \in Int
        OBVIOUS
      <4>2. QED
        BY <1>1, <1>4, <4>1, DaysApart DEF Time
    <3>5. QED
      BY <2>2, <3>3, <3>4 DEF today, yesterday
  <2>3. QED
    BY <2>1, <2>2
<1>7. QED
  BY <1>4, <1>5, <1>6 DEF local_time, today

\* One row is open at an instant when its interval on the circle of the week covers it,
\* for the details page and for the search alike.
LEMMA RowAgrees ==
    ASSUME NEW r, WeekRow(r), NEW at \in Instants
    PROVE  /\ OpenFor(r, today(at), local_time(at)) <=> Covers(r, at)
           /\ SqlOpen(r, at) <=> Covers(r, at)
<1>1. PICK q \in 0 .. 6, t \in Time :
        /\ at = q * Slots + t /\ local_time(at) = t
        /\ today(at) = q + 1 /\ today((at - Slots) % (7 * Slots)) = yesterday(q + 1)
  BY InstantParts
<1>2. PICK k \in 0 .. 6 : r.day = k + 1
  <2>1. r.day - 1 \in 0 .. 6 /\ r.day = (r.day - 1) + 1
    BY DEF WeekRow, IsoDay
  <2>2. QED
    BY <2>1
<1>3. PICK o, c : o = (IF r.all_day THEN 0 ELSE r.opens_at) /\ c = r.closes_at
  OBVIOUS
<1>4. PICK L : L = (IF r.all_day THEN Slots ELSE IF c > o THEN c - o ELSE Slots - o + c)
  OBVIOUS
<1>5. /\ Slots \in Nat \ {0} /\ t \in Int /\ 0 <= t /\ t < Slots
      /\ o \in Int /\ 0 <= o /\ o < Slots /\ c \in Int /\ 0 <= c /\ c < Slots
      /\ L \in Int /\ 0 < L /\ L <= Slots
  BY <1>3, <1>4, WeekSlots DEF WeekRow, Time
<1>6. PICK p : p = (q - k) * Slots
  OBVIOUS
<1>7. PICK far : far = p + t - o
  OBVIOUS
<1>8. /\ p \in Int /\ far \in Int
      /\ q - k = 0 => p = 0
      /\ q - k = 1 => p = Slots
      /\ q - k = -6 => p = -6 * Slots
      /\ q - k >= 2 => p >= 2 * Slots /\ p <= 6 * Slots
      /\ q - k <= -1 /\ q - k >= -5 => p <= -Slots /\ p >= -5 * Slots
  BY <1>5, <1>6, <1>7
<1>9. at - ((r.day - 1) * Slots + o) = far
  BY <1>1, <1>2, <1>5, <1>6, <1>7
<1>10. Covers(r, at) <=> far % (7 * Slots) < L
  BY <1>3, <1>4, <1>9 DEF Covers
<1>11. Covers(r, at) <=> \/ q = k /\ t >= o /\ t - o < L
                         \/ (q - k = 1 \/ q - k = -6) /\ Slots + t - o < L
  <2>1. CASE q - k = 0
    <3>1. far = t - o
      BY <1>5, <1>7, <1>8, <2>1
    <3>2. CASE t >= o
      BY <1>5, <1>10, <2>1, <3>1, <3>2, WeekSlots, SmallMod
    <3>3. CASE t < o
      <4>1. far % (7 * Slots) = far + 7 * Slots
        BY <1>5, <1>8, <3>1, <3>3, WeekSlots, SmallMod
      <4>2. QED
        BY <1>5, <1>10, <2>1, <3>1, <3>3, <4>1
    <3>4. QED
      BY <1>5, <3>2, <3>3
  <2>2. CASE q - k = 1 \/ q - k = -6
    <3>1. far % (7 * Slots) = Slots + t - o
      <4>1. far = Slots + t - o \/ far = -6 * Slots + t - o
        BY <1>5, <1>7, <1>8, <2>2
      <4>2. CASE far = Slots + t - o
        <5>1. 0 <= far /\ far < 7 * Slots
          BY <1>5, <4>2
        <5>2. QED
          BY <1>8, <4>2, <5>1, WeekSlots, SmallMod
      <4>3. CASE far = -6 * Slots + t - o
        <5>1. -(7 * Slots) <= far /\ far < 0 /\ far + 7 * Slots = Slots + t - o
          BY <1>5, <4>3
        <5>2. QED
          BY <1>8, <5>1, WeekSlots, SmallMod
      <4>4. QED
        BY <4>1, <4>2, <4>3
    <3>2. QED
      BY <1>10, <2>2, <3>1
  <2>3. CASE q - k >= 2
    <3>1. far % (7 * Slots) = far /\ far > Slots
      <4>1. far > Slots /\ 0 <= far /\ far < 7 * Slots
        BY <1>5, <1>7, <1>8, <2>3
      <4>2. QED
        BY <1>8, <4>1, WeekSlots, SmallMod
    <3>2. QED
      BY <1>5, <1>8, <1>10, <2>3, <3>1
  <2>4. CASE q - k <= -1 /\ q - k >= -5
    <3>1. far % (7 * Slots) = far + 7 * Slots /\ far + 7 * Slots > Slots
      <4>1. far + 7 * Slots > Slots /\ -(7 * Slots) <= far /\ far < 0
        BY <1>5, <1>7, <1>8, <2>4
      <4>2. QED
        BY <1>8, <4>1, WeekSlots, SmallMod
    <3>2. QED
      BY <1>5, <1>8, <1>10, <2>4, <3>1
  <2>5. QED
    BY <2>1, <2>2, <2>3, <2>4
<1>12. /\ r.day = today(at) <=> q = k
       /\ r.day = yesterday(today(at)) <=> (q - k = 1 \/ q - k = -6)
  BY <1>1, <1>2 DEF yesterday
<1>13. /\ q = k /\ (r.all_day \/ (overnight(r) /\ o <= t) \/ (~overnight(r) /\ o <= t /\ t < c))
            <=> q = k /\ t >= o /\ t - o < L
       /\ overnight(r) /\ t < c <=> Slots + t - o < L
  BY <1>3, <1>4, <1>5 DEF overnight, WeekRow
<1>14. OpenFor(r, today(at), local_time(at)) <=> Covers(r, at)
  BY <1>1, <1>3, <1>11, <1>12, <1>13 DEF OpenFor, overnight
<1>15. SqlOpen(r, at) <=> OpenFor(r, today(at), local_time(at))
  BY <1>1, <1>5 DEF SqlOpen, bikesnest_is_open_at, OpenFor, overnight, WeekRow, Time
<1>16. QED
  BY <1>14, <1>15

\* What an accepted form stores, day by day.
LEMMA ParsedUnknown ==
    ASSUME NEW fields, Accepted(fields), NEW h, h = parse_hours(fields)
    PROVE  /\ h.unknown \in BOOLEAN /\ (h.unknown = TRUE <=> AllUnknown(fields))
           /\ h.unknown = TRUE => h.rows = {}
<1>1. CASE AllUnknown(fields)
  BY <1>1 DEF parse_hours, Unknown
<1>2. CASE ~AllUnknown(fields)
  BY <1>2 DEF parse_hours, Weekly
<1>3. QED
  BY <1>1, <1>2

WeekRows(fields) == UNION {DayRows(d, fields[d]) : d \in IsoDay}

LEMMA ParsedRows ==
    ASSUME NEW fields, Accepted(fields), NEW h, h = parse_hours(fields), h.unknown = FALSE
    PROVE  /\ h = Weekly(WeekRows(fields))
           /\ \A r \in h.rows : \E d \in IsoDay : r \in DayRows(d, fields[d])
           /\ \A d \in IsoDay : /\ ValidDay(fields[d])
                               /\ {r \in h.rows : r.day = d} = DayRows(d, fields[d])
<1>1. ~AllUnknown(fields)
  BY ParsedUnknown
<1>2. h.rows = WeekRows(fields) /\ h = Weekly(WeekRows(fields))
  BY <1>1 DEF parse_hours, Weekly, WeekRows
<1>3. \A d \in IsoDay : ValidDay(fields[d])
  BY <1>1 DEF Accepted
<1>4. \A d \in IsoDay : \A r \in DayRows(d, fields[d]) : r.day = d
  BY DEF DayRows, AllDayRange, RangeRow
<1>5. \A r \in h.rows : \E d \in IsoDay : r \in DayRows(d, fields[d])
  BY <1>2 DEF WeekRows
<1>6. ASSUME NEW d \in IsoDay PROVE {r \in h.rows : r.day = d} = DayRows(d, fields[d])
  BY <1>2, <1>4 DEF WeekRows
<1>7. QED
  BY <1>2, <1>3, <1>5, <1>6

LEMMA ParsedRowsAreWeekRows ==
    ASSUME NEW fields, Accepted(fields), NEW r \in parse_hours(fields).rows
    PROVE  WeekRow(r)
<1>1. PICK h : h = parse_hours(fields)
  OBVIOUS
<1>2. h.unknown = FALSE
  BY <1>1, ParsedUnknown
<1>3. PICK d \in IsoDay : r \in DayRows(d, fields[d])
  BY <1>1, <1>2, ParsedRows
<1>4. ValidDay(fields[d])
  BY <1>1, <1>2, ParsedRows
<1>5. CASE r = AllDayRange(d)
  BY <1>5, WeekSlots DEF AllDayRange, WeekRow, Time
<1>6. CASE fields[d].state = "ranges" /\ \E x \in Given(fields[d]) : r = RangeRow(d, x)
  BY <1>4, <1>6 DEF ValidDay, ValidRange, RangeRow, WeekRow
<1>7. QED
  BY <1>3, <1>5, <1>6 DEF DayRows

\* The two readers of a stored week, and the two of a verification's age.
LEMMA StoredReadersAgree ==
    ASSUME NEW fields, Stored(fields)
    PROVE  ReadersAgree
<1>1. ASSUME NEW at \in Instants
      PROVE  LET covered == \E r \in hours.rows : Covers(r, at)
             IN  /\ bikesnest_is_open_at(hours.rows, at) = covered
                 /\ (status_at(hours, at) = "Open") = covered
  <2>1. \A r \in hours.rows : /\ OpenFor(r, today(at), local_time(at)) <=> Covers(r, at)
                              /\ SqlOpen(r, at) <=> Covers(r, at)
    BY ParsedRowsAreWeekRows, RowAgrees DEF Stored
  <2>2. bikesnest_is_open_at(hours.rows, at) = \E r \in hours.rows : SqlOpen(r, at)
    BY DEF SqlOpen, bikesnest_is_open_at
  <2>3. status_at(hours, at) = "Open" <=> \E r \in hours.rows : OpenFor(r, today(at), local_time(at))
    <3>1. hours.unknown \in BOOLEAN /\ (hours.unknown = TRUE => hours.rows = {})
      BY ParsedUnknown DEF Stored
    <3>2. PICK open \in BOOLEAN :
            open = TRUE <=> \E r \in hours.rows : OpenFor(r, today(at), local_time(at))
      OBVIOUS
    <3>3. CASE hours.unknown = TRUE
      <4>1. status_at(hours, at) = "Unknown"
        BY <3>3 DEF status_at
      <4>2. QED
        BY <3>1, <3>3, <4>1
    <3>4. CASE hours.unknown = FALSE /\ open = TRUE
      <4>1. status_at(hours, at) = "Open"
        BY <3>2, <3>4 DEF status_at
      <4>2. QED
        BY <3>2, <3>4, <4>1
    <3>5. CASE hours.unknown = FALSE /\ open = FALSE
      <4>1. status_at(hours, at) = "Closed"
        BY <3>2, <3>5 DEF status_at
      <4>2. QED
        BY <3>2, <3>5, <4>1
    <3>6. QED
      BY <3>1, <3>3, <3>4, <3>5
  <2>4. PICK covered : covered = \E r \in hours.rows : Covers(r, at)
    OBVIOUS
  <2>5. /\ (\E r \in hours.rows : SqlOpen(r, at)) = covered
        /\ (\E r \in hours.rows : OpenFor(r, today(at), local_time(at))) = covered
    BY <2>1, <2>4
  <2>6. bikesnest_is_open_at(hours.rows, at) = covered
    BY <2>2, <2>5
  <2>7. (status_at(hours, at) = "Open") = covered
    BY <2>3, <2>5
  <2>8. QED
    BY <2>4, <2>6, <2>7
<1>2. ASSUME NEW age \in -1 .. stale_days + 1
      PROVE  FreshnessScore(age) = CASE categorize(age) = "Fresh" -> 100
                                   [] categorize(age) = "RecentlyVerified" -> 75
                                   [] categorize(age) = "Aging" -> 50
                                   [] categorize(age) = "Stale" -> 25
                                   [] OTHER -> 10
  <2>1. days(age) \in Int
    BY HoursAssumption DEF days
  <2>2. QED
    BY <2>1, HoursAssumption DEF FreshnessScore, categorize
<1>3. QED
  BY <1>1, <1>2 DEF ReadersAgree

\* The fields of one day that the edit page is filled with.
Filled(s) ==
    IF DOMAIN s = {} THEN DayFields("closed", NoRange, NoRange)
    ELSE IF \E n \in DOMAIN s : s[n].all_day THEN DayFields("all_day", NoRange, NoRange)
    ELSE DayFields("ranges", IF 1 \in DOMAIN s THEN <<s[1].opens_at, s[1].closes_at>> ELSE NoRange,
                             IF 2 \in DOMAIN s THEN <<s[2].opens_at, s[2].closes_at>> ELSE NoRange)

LEMMA FilledDay ==
    ASSUME NEW h, h.unknown = FALSE, NEW d \in IsoDay
    PROVE  hours_fields_from(h)[d] = Filled(rows_by_day(h, d))
BY DEF hours_fields_from, Filled

\* The rows of a day as the page orders them, when they can be ordered.
InOrder(s) == \A m, n \in DOMAIN s : m < n => Earlier(s[m], s[n])

LEMMA RowsInOrder ==
    ASSUME NEW h, NEW d, NEW R, R = {r \in h.rows : r.day = d},
           \E s \in [1 .. Cardinality(R) -> R] : InOrder(s)
    PROVE  rows_by_day(h, d) \in [1 .. Cardinality(R) -> R] /\ InOrder(rows_by_day(h, d))
<1>1. rows_by_day(h, d) = CHOOSE s \in [1 .. Cardinality(R) -> R] : InOrder(s)
  BY DEF rows_by_day, InOrder
<1>2. QED
  BY <1>1

\* Ranges with one start overlap, and overlapping is mutual.
LEMMA Overlaps ==
    /\ \A x, y : ValidRange(x) /\ ValidRange(y) /\ x[1] = y[1] => ranges_overlap(x, y)
    /\ \A x, y : ranges_overlap(x, y) = ranges_overlap(y, x)
<1>1. ASSUME NEW x, NEW y, ValidRange(x), ValidRange(y), x[1] = y[1] PROVE ranges_overlap(x, y)
  <2>1. x[1] \in segments(x) /\ x[1] \in segments(y)
    BY <1>1, WeekSlots DEF segments, ValidRange, Time
  <2>2. QED
    BY <2>1 DEF ranges_overlap
<1>2. \A x, y : segments(x) \cap segments(y) = segments(y) \cap segments(x)
  OBVIOUS
<1>3. QED
  BY <1>1, <1>2 DEF ranges_overlap

\* Saving a day's fields as the edit page fills them is accepted and stores its rows
\* again: nothing, the whole day, or one range or two in order.
Keeps(h, d, f) == \A r : (r \in h.rows /\ r.day = d) <=> r \in DayRows(d, f)
ShowsAgain(d, f, g) ==
    ValidDay(g) /\ g.state # "unknown" /\ DayRows(d, g) = DayRows(d, f)

LEMMA DayRoundTrip ==
    ASSUME NEW h, NEW d \in IsoDay, NEW f, NEW g,
           h.unknown = FALSE, ValidDay(f), Keeps(h, d, f),
           g = hours_fields_from(h)[d]
    PROVE  ShowsAgain(d, f, g)
<1> SUFFICES ValidDay(g) /\ g.state # "unknown" /\ DayRows(d, g) = DayRows(d, f)
  BY DEF ShowsAgain
<1>1. PICK R, s : R = DayRows(d, f) /\ s = rows_by_day(h, d)
  OBVIOUS
<1>2. R = {r \in h.rows : r.day = d}
  BY <1>1 DEF Keeps
<1>3. g = Filled(s)
  BY <1>1, FilledDay
<1>4. CASE R = {}
  <2>1. Cardinality(R) = 0
    BY <1>4, FS_EmptySet
  <2>2. \E e \in [1 .. Cardinality(R) -> R] : InOrder(e)
    <3> DEFINE e == [n \in 1 .. 0 |-> 0]
    <3>1. e \in [1 .. Cardinality(R) -> R] /\ InOrder(e)
      BY <2>1 DEF InOrder
    <3>2. QED
      BY <3>1
  <2>3. DOMAIN s = {}
    <3>1. s \in [1 .. 0 -> R]
      BY <1>1, <1>2, <2>1, <2>2, RowsInOrder
    <3>2. 1 .. 0 = {}
      OBVIOUS
    <3>3. QED
      BY <3>1, <3>2
  <2>4. g = DayFields("closed", NoRange, NoRange)
    BY <2>3, <1>3 DEF Filled
  <2>5. QED
    BY <1>1, <1>4, <2>4 DEF DayFields, ValidDay, DayRows
<1>5. ASSUME NEW r, R = {r}
      PROVE  s \in [{1} -> {r}] /\ s[1] = r /\ DOMAIN s = {1}
  <2>1. Cardinality(R) = 1
    BY <1>5, FS_Singleton
  <2>2. \E e \in [1 .. Cardinality(R) -> R] : InOrder(e)
    <3> DEFINE e == [n \in 1 .. 1 |-> r]
    <3>1. e \in [1 .. Cardinality(R) -> R] /\ InOrder(e)
      BY <1>5, <2>1 DEF InOrder
    <3>2. QED
      BY <3>1
  <2>3. 1 .. 1 = {1}
    OBVIOUS
  <2>4. s \in [1 .. 1 -> {r}]
    BY <1>1, <1>2, <1>5, <2>1, <2>2, RowsInOrder
  <2>5. QED
    BY <2>3, <2>4
<1>6. CASE f.state = "all_day"
  <2>1. R = {AllDayRange(d)}
    BY <1>1, <1>6 DEF DayRows
  <2>2. s[1] = AllDayRange(d) /\ DOMAIN s = {1}
    BY <1>5, <2>1
  <2>3. s[1].all_day = TRUE
    BY <2>2 DEF AllDayRange
  <2>4. DOMAIN s # {} /\ \E n \in DOMAIN s : s[n].all_day
    BY <2>2, <2>3
  <2>5. g = DayFields("all_day", NoRange, NoRange)
    BY <2>4, <1>3 DEF Filled
  <2>6. QED
    BY <1>1, <2>1, <2>5 DEF DayFields, ValidDay, DayRows
<1>7. CASE f.state = "ranges"
  <2>1. /\ R = {RangeRow(d, x) : x \in Given(f)}
        /\ Given(f) # {} /\ \A x \in Given(f) : ValidRange(x)
        /\ f.r1 # NoRange /\ f.r2 # NoRange => ~ranges_overlap(f.r1, f.r2)
    BY <1>1, <1>7 DEF DayRows, ValidDay
  <2>2. \A r \in R : \E x : ValidRange(x) /\ r = RangeRow(d, x)
    BY <2>1
  <2>3. ASSUME NEW x, ValidRange(x), NEW y, y = <<RangeRow(d, x).opens_at, RangeRow(d, x).closes_at>>
        PROVE  y # NoRange /\ ValidRange(y) /\ RangeRow(d, y) = RangeRow(d, x)
               /\ y[1] = x[1] /\ y[2] = x[2] /\ segments(y) = segments(x)
    BY <2>3, WeekSlots DEF RangeRow, NoRange, Blank, ValidRange, Time, segments
  <2>4. ASSUME NEW x, ValidRange(x), R = {RangeRow(d, x)}
        PROVE  ValidDay(g) /\ g.state # "unknown" /\ DayRows(d, g) = R
    <3>1. s[1] = RangeRow(d, x) /\ DOMAIN s = {1}
      BY <1>5, <2>4
    <3>2. PICK y : y = <<RangeRow(d, x).opens_at, RangeRow(d, x).closes_at>>
      OBVIOUS
    <3>3. g = DayFields("ranges", y, NoRange)
      <4>1. RangeRow(d, x).all_day = FALSE
        BY DEF RangeRow
      <4>2. DOMAIN s # {} /\ ~(\E n \in DOMAIN s : s[n].all_day) /\ 1 \in DOMAIN s /\ 2 \notin DOMAIN s
        BY <3>1, <4>1
      <4>3. QED
        BY <3>1, <3>2, <4>2, <1>3 DEF Filled
    <3>4. g.state = "ranges" /\ g.r1 = y /\ g.r2 = NoRange /\ Given(g) = {y}
      BY <2>3, <2>4, <3>2, <3>3 DEF DayFields, Given
    <3>5. DayRows(d, g) = {RangeRow(d, y)}
      BY <3>4 DEF DayRows
    <3>6. QED
      BY <2>3, <2>4, <3>2, <3>4, <3>5 DEF ValidDay
  <2>5. CASE f.r1 = NoRange \/ f.r2 = NoRange
    <3>1. PICK x : Given(f) = {x}
      BY <2>1, <2>5 DEF Given
    <3>2. QED
      BY <1>1, <2>1, <2>4, <3>1
  <2>6. CASE f.r1 # NoRange /\ f.r2 # NoRange
    <3>1. PICK a, b : a = RangeRow(d, f.r1) /\ b = RangeRow(d, f.r2)
      OBVIOUS
    <3>2. R = {a, b} /\ ValidRange(f.r1) /\ ValidRange(f.r2) /\ ~ranges_overlap(f.r1, f.r2)
      BY <2>1, <2>6, <3>1 DEF Given
    <3>3. Earlier(a, b) \/ Earlier(b, a)
      <4>1. f.r1[1] # f.r2[1]
        BY <3>2, Overlaps
      <4>2. QED
        BY <3>1, <3>2, <4>1, WeekSlots DEF Earlier, RangeRow, ValidRange, Time
    <3>4. \A r \in R : ~Earlier(r, r)
      BY <3>1, <3>2, WeekSlots DEF Earlier, RangeRow, ValidRange, Time
    <3>5. a # b /\ Cardinality(R) = 2
      <4>1. a # b
        BY <3>2, <3>3, <3>4
      <4>2. {a} \cup {b} = {a, b} /\ b \notin {a}
        BY <4>1
      <4>3. Cardinality({a} \cup {b}) = 1 + 1
        <5>1. IsFiniteSet({a}) /\ Cardinality({a}) = 1
          BY FS_Singleton
        <5>2. QED
          BY <4>2, <5>1, FS_AddElement
      <4>4. QED
        BY <3>2, <4>1, <4>2, <4>3
    <3>6. \E e \in [1 .. Cardinality(R) -> R] : InOrder(e)
      <4>1. PICK p \in R, q \in R : Earlier(p, q)
        BY <3>2, <3>3
      <4> DEFINE e == [n \in 1 .. 2 |-> IF n = 1 THEN p ELSE q]
      <4>2. e \in [1 .. Cardinality(R) -> R]
        BY <3>5
      <4>3. InOrder(e)
        BY <4>1 DEF InOrder
      <4>4. QED
        BY <4>2, <4>3
    <3>7. s \in [1 .. 2 -> R] /\ InOrder(s)
      BY <1>1, <1>2, <3>5, <3>6, RowsInOrder
    <3>8. 1 .. 2 = {1, 2}
      OBVIOUS
    <3>9. /\ DOMAIN s = {1, 2} /\ s[1] \in R /\ s[2] \in R /\ Earlier(s[1], s[2])
      BY <3>7, <3>8 DEF InOrder
    <3>10. R = {s[1], s[2]} /\ s[1] # s[2]
      BY <3>2, <3>4, <3>9
    <3>11. PICK x, y : {x, y} = {f.r1, f.r2} /\ s[1] = RangeRow(d, x) /\ s[2] = RangeRow(d, y)
      <4>1. CASE s[1] = a /\ s[2] = b
        BY <3>1, <4>1
      <4>2. CASE s[1] = b /\ s[2] = a
        BY <3>1, <4>2
      <4>3. QED
        BY <3>2, <3>10, <4>1, <4>2
    <3>12. ValidRange(x) /\ ValidRange(y) /\ ~ranges_overlap(x, y)
      <4>1. (x = f.r1 /\ y = f.r2) \/ (x = f.r2 /\ y = f.r1) \/ x = y
        BY <3>11
      <4>2. x # y
        BY <3>10, <3>11
      <4>3. QED
        BY <3>2, <4>1, <4>2, Overlaps
    <3>13. PICK v, w : /\ v = <<RangeRow(d, x).opens_at, RangeRow(d, x).closes_at>>
                       /\ w = <<RangeRow(d, y).opens_at, RangeRow(d, y).closes_at>>
      OBVIOUS
    <3>14. /\ v # NoRange /\ ValidRange(v) /\ RangeRow(d, v) = s[1] /\ segments(v) = segments(x)
           /\ w # NoRange /\ ValidRange(w) /\ RangeRow(d, w) = s[2] /\ segments(w) = segments(y)
      BY <2>3, <3>11, <3>12, <3>13
    <3>15. g = DayFields("ranges", v, w)
      <4>1. s[1].all_day = FALSE /\ s[2].all_day = FALSE
        BY <3>11 DEF RangeRow
      <4>2. DOMAIN s # {} /\ ~(\E n \in DOMAIN s : s[n].all_day) /\ 1 \in DOMAIN s /\ 2 \in DOMAIN s
        BY <3>9, <4>1
      <4>3. v = <<s[1].opens_at, s[1].closes_at>> /\ w = <<s[2].opens_at, s[2].closes_at>>
        BY <3>11, <3>13
      <4>4. g = DayFields("ranges",
                  IF 1 \in DOMAIN s THEN <<s[1].opens_at, s[1].closes_at>> ELSE NoRange,
                  IF 2 \in DOMAIN s THEN <<s[2].opens_at, s[2].closes_at>> ELSE NoRange)
        BY <4>2, <1>3 DEF Filled
      <4>5. QED
        BY <4>2, <4>3, <4>4
    <3>16. g.state = "ranges" /\ g.r1 = v /\ g.r2 = w /\ Given(g) = {v, w}
      BY <3>14, <3>15 DEF DayFields, Given
    <3>17. ~ranges_overlap(v, w)
      BY <3>12, <3>14 DEF ranges_overlap
    <3>18. DayRows(d, g) = {RangeRow(d, v), RangeRow(d, w)}
      BY <3>16 DEF DayRows
    <3>19. QED
      BY <1>1, <3>10, <3>14, <3>16, <3>17, <3>18 DEF ValidDay
  <2>7. QED
    BY <2>5, <2>6
<1>8. CASE f.state \notin {"all_day", "ranges"}
  BY <1>1, <1>4, <1>8 DEF DayRows
<1>9. QED
  BY <1>6, <1>7, <1>8

\* The whole week saved as the edit page fills it.
LEMMA WeekRoundTrip ==
    ASSUME NEW fields, Accepted(fields), NEW h, h = parse_hours(fields),
           NEW again, again = hours_fields_from(h)
    PROVE  Accepted(again) /\ parse_hours(again) = h
<1>1. CASE h.unknown = TRUE
  <2>1. \A d \in IsoDay : again[d] = DayFields("unknown", NoRange, NoRange)
    BY <1>1 DEF hours_fields_from
  <2>2. AllUnknown(again)
    BY <2>1 DEF AllUnknown, DayFields
  <2>3. AllUnknown(fields)
    BY <1>1, ParsedUnknown
  <2>4. QED
    BY <2>2, <2>3 DEF Accepted, parse_hours
<1>2. CASE h.unknown = FALSE
  <2>1. \A d \in IsoDay : /\ ValidDay(again[d]) /\ again[d].state # "unknown"
                          /\ DayRows(d, again[d]) = DayRows(d, fields[d])
    <3> SUFFICES ASSUME NEW d \in IsoDay
                 PROVE  /\ ValidDay(again[d]) /\ again[d].state # "unknown"
                        /\ DayRows(d, again[d]) = DayRows(d, fields[d])
      OBVIOUS
    <3>1. ValidDay(fields[d]) /\ {r \in h.rows : r.day = d} = DayRows(d, fields[d])
      BY <1>2, ParsedRows
    <3>2. PICK f, g : f = fields[d] /\ g = hours_fields_from(h)[d]
      OBVIOUS
    <3>3. ValidDay(f) /\ Keeps(h, d, f)
      BY <3>1, <3>2 DEF Keeps
    <3>4. ValidDay(g) /\ g.state # "unknown" /\ DayRows(d, g) = DayRows(d, f)
      <4>1. ShowsAgain(d, f, g)
        BY <1>2, <3>2, <3>3, DayRoundTrip
      <4>2. QED
        BY <4>1 DEF ShowsAgain
    <3>5. g = again[d]
      BY <3>2
    <3>6. QED
      BY <3>2, <3>4, <3>5
  <2>2. ~AllUnknown(again) /\ Accepted(again)
    BY <2>1 DEF AllUnknown, Accepted, IsoDay
  <2>3. WeekRows(again) = WeekRows(fields)
    <3>1. ASSUME NEW r \in WeekRows(again) PROVE r \in WeekRows(fields)
      <4>1. PICK d \in IsoDay : r \in DayRows(d, again[d])
        BY DEF WeekRows
      <4>2. r \in DayRows(d, fields[d])
        BY <2>1, <4>1
      <4>3. QED
        BY <4>2 DEF WeekRows
    <3>2. ASSUME NEW r \in WeekRows(fields) PROVE r \in WeekRows(again)
      <4>1. PICK d \in IsoDay : r \in DayRows(d, fields[d])
        BY DEF WeekRows
      <4>2. r \in DayRows(d, again[d])
        BY <2>1, <4>1
      <4>3. QED
        BY <4>2 DEF WeekRows
    <3>3. QED
      BY <3>1, <3>2
  <2>4. h = Weekly(WeekRows(fields))
    BY <1>2, ParsedRows
  <2>5. QED
    BY <2>2, <2>3, <2>4 DEF parse_hours, WeekRows
<1>3. QED
  BY <1>1, <1>2, ParsedUnknown

\* The inductive invariant of a location's hours.
THEOREM HoursInvariance == HoursSpec => []HoursInv
<1>1. HoursInit => HoursInv
  <2> SUFFICES ASSUME HoursInit PROVE HoursInv
    OBVIOUS
  <2>1. PICK blank : blank = [d \in IsoDay |-> DayFields("unknown", NoRange, NoRange)]
    OBVIOUS
  <2>2. AllUnknown(blank)
    BY <2>1 DEF AllUnknown, DayFields
  <2>3. Stored(blank)
    BY <2>2 DEF Stored, Accepted, parse_hours, HoursInit
  <2>4. QED
    BY <2>3 DEF HoursInv
<1>2. HoursInv /\ [HoursNext]_hoursVars => HoursInv'
  <2> SUFFICES ASSUME HoursInv, [HoursNext]_hoursVars PROVE HoursInv'
    OBVIOUS
  <2>1. hours' = hours \/ (Accepted(form') /\ hours' = parse_hours(form'))
    BY DEF HoursNext, create_hours, edit_hours, hoursVars
  <2>2. QED
    BY <2>1 DEF HoursInv, Stored
<1>3. QED
  BY <1>1, <1>2, PTL DEF HoursSpec

\* For any division of the day, any schedule the form accepts and every instant of the
\* week, the details page, the search and the circle of the week agree on when a
\* location is open; so do the category and the score of a verification's age.
THEOREM ReadersAlwaysAgree == HoursSpec => []ReadersAgree
<1>1. HoursInv => ReadersAgree
  BY StoredReadersAgree DEF HoursInv
<1>2. QED
  BY <1>1, HoursInvariance, PTL

\* Opening the edit page and saving it untouched is never refused and stores the same
\* week again, whatever schedule the form once accepted.
THEOREM EditsKeepHours == HoursSpec => EditKeepsHours
<1>1. HoursInv /\ [HoursNext]_hoursVars =>
        [form # NoForm => /\ ~formError'
                          /\ \A at \in Instants : status_at(hours', at) = status_at(hours, at)]_hoursVars
  <2> SUFFICES ASSUME HoursInv, HoursNext, form # NoForm
               PROVE  ~formError' /\ \A at \in Instants : status_at(hours', at) = status_at(hours, at)
    BY DEF hoursVars
  <2>1. PICK fields : Accepted(fields) /\ hours = parse_hours(fields)
    BY DEF HoursInv, Stored
  <2>2. edit_hours
    BY DEF HoursNext, create_hours
  <2>3. Accepted(form') /\ parse_hours(form') = hours
    BY <2>1, <2>2, WeekRoundTrip DEF edit_hours
  <2>4. ~formError' /\ hours' = hours
    BY <2>2, <2>3 DEF edit_hours
  <2>5. QED
    BY <2>4
<1>2. QED
  BY <1>1, HoursInvariance, PTL DEF HoursSpec, EditKeepsHours

-----------------------------------------------------------------------------
\* Searching for parking

\* A finite set of ids whose keys are numbers can be put in the order of the page, and
\* the sequence in that order has each of them once.
Keyed(S, key) == \A l \in S : key[l] \in Int
Sorted(S, key, s) ==
    /\ Cardinality(S) \in Nat
    /\ s \in [1 .. Cardinality(S) -> S]
    /\ \A m, n \in 1 .. Cardinality(S) : m < n => Before(key, s[m], s[n])
    /\ \A l \in S : \E n \in 1 .. Cardinality(S) : s[n] = l

LEMMA InItsOrder ==
    ASSUME NEW S, NEW key, NEW s, IsFiniteSet(S), S \subseteq Nat, Keyed(S, key),
           s = Ordered(S, key)
    PROVE  Sorted(S, key, s)
<1> DEFINE N == Cardinality(S)
           Below(l) == {k \in S : Before(key, k, l)}
           Rank == [l \in S |-> Cardinality(Below(l)) + 1]
<1>1. N \in Nat
  BY FS_CardinalityType
<1>2. \A k, l \in S : k = l \/ Before(key, k, l) \/ Before(key, l, k)
  BY DEF Before, Keyed
<1>3. \A l \in S : ~Before(key, l, l)
  BY DEF Before, Keyed
<1>4. \A j, k, l \in S : Before(key, j, k) /\ Before(key, k, l) => Before(key, j, l)
  BY DEF Before, Keyed
<1>5. \A l \in S : /\ IsFiniteSet(Below(l)) /\ Cardinality(Below(l)) \in Nat
                   /\ Cardinality(Below(l)) < N
  <2> SUFFICES ASSUME NEW l \in S
               PROVE  /\ IsFiniteSet(Below(l)) /\ Cardinality(Below(l)) \in Nat
                      /\ Cardinality(Below(l)) < N
    OBVIOUS
  <2>1. Below(l) \in SUBSET S /\ Below(l) # S
    BY <1>3
  <2>2. IsFiniteSet(Below(l)) /\ Cardinality(Below(l)) <= N /\ Cardinality(Below(l)) # N
    BY <2>1, FS_Subset
  <2>3. Cardinality(Below(l)) \in Nat
    BY <2>2, FS_CardinalityType
  <2>4. QED
    BY <1>1, <2>2, <2>3
<1>6. ASSUME NEW k \in S, NEW l \in S, Before(key, k, l)
      PROVE  Cardinality(Below(k)) < Cardinality(Below(l))
  <2>1. Below(k) \in SUBSET Below(l) /\ Below(k) # Below(l)
    BY <1>3, <1>4, <1>6
  <2>2. Cardinality(Below(k)) <= Cardinality(Below(l)) /\ Cardinality(Below(k)) # Cardinality(Below(l))
    BY <1>5, <2>1, FS_Subset
  <2>3. QED
    BY <1>5, <2>2
<1>7. Rank \in [S -> 1 .. N]
  BY <1>1, <1>5
<1>8. \A k, l \in S : k # l => Rank[k] # Rank[l]
  <2> SUFFICES ASSUME NEW k \in S, NEW l \in S, k # l PROVE Rank[k] # Rank[l]
    OBVIOUS
  <2>1. Cardinality(Below(k)) # Cardinality(Below(l))
    BY <1>2, <1>5, <1>6
  <2>2. QED
    BY <1>5, <2>1
<1>9. Rank \in Injection(S, 1 .. N)
  BY <1>7, <1>8 DEF Injection, IsInjective
<1>10. IsFiniteSet(1 .. N) /\ Cardinality(1 .. N) = N
  BY <1>1, FS_Interval
<1>11. Rank \in Surjection(S, 1 .. N)
  BY <1>9, <1>10, FS_Injection
<1>12. \A n \in 1 .. N : \E l \in S : Rank[l] = n
  BY <1>11 DEF Surjection
<1> DEFINE e == [n \in 1 .. N |-> CHOOSE l \in S : Rank[l] = n]
<1>13. e \in [1 .. N -> S] /\ \A n \in 1 .. N : Rank[e[n]] = n
  BY <1>12
<1>14. \A m, n \in 1 .. N : m < n => Before(key, e[m], e[n])
  <2> SUFFICES ASSUME NEW m \in 1 .. N, NEW n \in 1 .. N, m < n PROVE Before(key, e[m], e[n])
    OBVIOUS
  <2>1. PICK k \in S, l \in S : k = e[m] /\ l = e[n] /\ Rank[k] = m /\ Rank[l] = n
    BY <1>13
  <2>2. Cardinality(Below(k)) < Cardinality(Below(l))
    <3>1. Rank[k] = Cardinality(Below(k)) + 1 /\ Rank[l] = Cardinality(Below(l)) + 1
      OBVIOUS
    <3>2. Rank[k] < Rank[l]
      BY <2>1
    <3>3. Cardinality(Below(k)) \in Nat /\ Cardinality(Below(l)) \in Nat
      BY <1>5
    <3> HIDE DEF Rank, Below
    <3>4. QED
      BY <3>1, <3>2, <3>3
  <2>3. ~Before(key, l, k) /\ k # l
    BY <1>5, <1>6, <2>2
  <2>4. QED
    BY <1>2, <2>1, <2>3
<1>15. \E f \in [1 .. Cardinality(S) -> S] :
          \A m, n \in DOMAIN f : m < n => Before(key, f[m], f[n])
  <2>1. DOMAIN e = 1 .. N
    OBVIOUS
  <2> HIDE DEF e
  <2>2. QED
    BY <1>13, <1>14, <2>1
<1>16. /\ s \in [1 .. Cardinality(S) -> S]
       /\ \A m, n \in DOMAIN s : m < n => Before(key, s[m], s[n])
  <2>1. s = CHOOSE f \in [1 .. Cardinality(S) -> S] :
              \A m, n \in DOMAIN f : m < n => Before(key, f[m], f[n])
    BY DEF Ordered
  <2>2. QED
    BY <1>15, <2>1
<1>17. s \in Injection(1 .. N, S)
  <2>1. \A m, n \in 1 .. N : m # n => s[m] # s[n]
    <3> SUFFICES ASSUME NEW m \in 1 .. N, NEW n \in 1 .. N, m # n PROVE s[m] # s[n]
      OBVIOUS
    <3>1. m < n \/ n < m
      BY <1>1
    <3>2. Before(key, s[m], s[n]) \/ Before(key, s[n], s[m])
      BY <1>16, <3>1
    <3>3. QED
      BY <1>3, <1>16, <3>2
  <2>2. QED
    BY <1>16, <2>1 DEF Injection, IsInjective
<1>18. s \in Surjection(1 .. N, S)
  BY <1>10, <1>17, FS_Injection
<1>19. \A l \in S : \E n \in 1 .. N : s[n] = l
  BY <1>18 DEF Surjection
<1>20. QED
  BY <1>1, <1>16, <1>19 DEF Sorted

\* A page: the first of the sequence, each as far as the limit goes.
StartOf(S, n, s, limit, t) ==
    /\ t \in Seq(S)
    /\ Len(t) = IF n < limit THEN n ELSE limit
    /\ \A i \in 1 .. Len(t) : t[i] = s[i]

LEMMA FirstOf ==
    ASSUME NEW S, NEW n \in Nat, NEW s, NEW limit \in Nat, NEW t,
           s \in [1 .. n -> S], t = First(s, limit)
    PROVE  StartOf(S, n, s, limit, t)
<1>1. Len(s) = n
  <2>1. s \in Seq(S)
    BY SeqDef
  <2>2. Len(s) \in Nat /\ DOMAIN s = 1 .. Len(s) /\ DOMAIN s = 1 .. n
    BY <2>1, LenProperties
  <2>3. QED
    BY <2>2
<1>2. PICK m \in Nat : m = IF n < limit THEN n ELSE limit
  OBVIOUS
<1>3. First(s, limit) = SubSeq(s, 1, m) /\ m <= n
  BY <1>1, <1>2 DEF First
<1>4. \A i \in 1 .. m : s[i] \in S
  BY <1>3
<1>5. /\ SubSeq(s, 1, m) \in Seq(S)
      /\ Len(SubSeq(s, 1, m)) = IF 1 <= m THEN m - 1 + 1 ELSE 0
      /\ \A i \in 1 .. m - 1 + 1 : SubSeq(s, 1, m)[i] = s[1 + i - 1]
  BY <1>4, SubSeqProperties
<1>6. Len(SubSeq(s, 1, m)) = m
  BY <1>5
<1>7. \A i \in 1 .. m : SubSeq(s, 1, m)[i] = s[i]
  <2> SUFFICES ASSUME NEW i \in 1 .. m PROVE SubSeq(s, 1, m)[i] = s[i]
    OBVIOUS
  <2>1. m - 1 + 1 = m /\ 1 + i - 1 = i
    OBVIOUS
  <2>2. QED
    BY <1>5, <2>1
<1>8. QED
  BY <1>2, <1>3, <1>5, <1>6, <1>7 DEF StartOf

\* The sort keys are numbers, for every sort, row, radius and instant.
LEMMA KeysAreNumbers ==
    ASSUME NEW sort, NEW row \in Rows, NEW radius \in RADIUS_OPTIONS_M, NEW now \in Int
    PROVE  sort_key_sql(sort, row, radius, now) \in Int
<1>1. /\ row.x \in Int /\ row.y \in Int /\ row.rating_avg \in Nat
      /\ row.last_verified_at \in Int /\ IsFiniteSet(row.security_yes)
      /\ radius \in Nat \ {0}
  BY SearchAssumption
<1>2. FromOrigin(row) \in Int
  BY <1>1 DEF FromOrigin, Distance, Abs
<1>3. Cardinality(row.security_yes) \in Int
  BY <1>1, FS_CardinalityType
<1>4. FreshnessScore(AgeInDays(row, now)) \in Int
  BY DEF FreshnessScore
<1>5. RECOMMENDED_SORT_KEY(row, radius, now) \in Int
  <2> DEFINE near == 200 - (200 \div radius) * (IF FromOrigin(row) < radius THEN FromOrigin(row) ELSE radius)
             secure == IF Cardinality(row.security_yes) > 0
                       THEN 25 * (IF Cardinality(row.security_yes) < 8
                                  THEN Cardinality(row.security_yes) ELSE 8) ELSE 100
             rated == IF row.rating_avg = 0 THEN 100 ELSE 40 * row.rating_avg
             verified == row.last_verified_at # Never
  <2>1. near \in Int
    <3>1. 200 \div radius \in Int
      BY <1>1
    <3>2. (IF FromOrigin(row) < radius THEN FromOrigin(row) ELSE radius) \in Int
      BY <1>1, <1>2
    <3>3. QED
      BY <3>1, <3>2
  <2>2. secure \in Int /\ rated \in Int
    BY <1>1, <1>3
  <2>3. (IF verified THEN 2 * FreshnessScore(AgeInDays(row, now)) ELSE 100) \in Int
    BY <1>4
  <2>4. RECOMMENDED_SORT_KEY(row, radius, now) =
          -(7 * near + 5 * secure + 4 * rated
            + 3 * (IF verified THEN 2 * FreshnessScore(AgeInDays(row, now)) ELSE 100)
            + (IF verified THEN 200 ELSE 100))
    BY DEF RECOMMENDED_SORT_KEY
  <2> HIDE DEF near, secure, rated, verified
  <2>5. QED
    BY <2>1, <2>2, <2>3, <2>4
<1>6. QED
  BY <1>1, <1>2, <1>3, <1>5 DEF sort_key_sql

\* A location in a list exactly once, and not at all.
OnceIn(s, l) == \E n \in 1 .. Len(s) : s[n] = l /\ \A m \in 1 .. Len(s) : s[m] = l => m = n
NoneIn(s, l) == \A m \in 1 .. Len(s) : s[m] # l

\* What a second page adds to the list.
LEMMA ListedThen ==
    ASSUME NEW S, NEW a \in Seq(S), NEW b \in Seq(S), NEW l
    PROVE  /\ NoneIn(a, l) /\ NoneIn(b, l) => NoneIn(a \o b, l)
           /\ OnceIn(a, l) /\ NoneIn(b, l) => OnceIn(a \o b, l)
           /\ NoneIn(a, l) /\ OnceIn(b, l) => OnceIn(a \o b, l)
<1> PICK c : c = a \o b
  OBVIOUS
<1>1. /\ Len(a) \in Nat /\ Len(b) \in Nat /\ Len(c) = Len(a) + Len(b)
      /\ \A i \in 1 .. Len(a) : c[i] = a[i]
      /\ \A i \in 1 .. Len(c) : i > Len(a) => i - Len(a) \in 1 .. Len(b) /\ c[i] = b[i - Len(a)]
  <2>1. Len(a) \in Nat /\ Len(b) \in Nat
    BY LenProperties
  <2>2. Len(c) = Len(a) + Len(b)
    BY ConcatProperties
  <2>3. \A i \in 1 .. Len(a) + Len(b) : c[i] = IF i <= Len(a) THEN a[i] ELSE b[i - Len(a)]
    BY ConcatProperties
  <2>4. QED
    BY <2>1, <2>2, <2>3
<1>2. \A i \in 1 .. Len(b) : Len(a) + i \in 1 .. Len(c) /\ c[Len(a) + i] = b[i]
  <2> SUFFICES ASSUME NEW i \in 1 .. Len(b)
               PROVE  Len(a) + i \in 1 .. Len(c) /\ c[Len(a) + i] = b[i]
    OBVIOUS
  <2>1. Len(a) + i \in 1 .. Len(c) /\ Len(a) + i > Len(a) /\ (Len(a) + i) - Len(a) = i
    BY <1>1
  <2>2. QED
    BY <1>1, <2>1
<1>3. ASSUME NoneIn(a, l), NoneIn(b, l) PROVE NoneIn(c, l)
  <2> SUFFICES ASSUME NEW m \in 1 .. Len(c) PROVE c[m] # l
    BY DEF NoneIn
  <2>1. CASE m <= Len(a)
    BY <1>1, <1>3, <2>1 DEF NoneIn
  <2>2. CASE m > Len(a)
    BY <1>1, <1>3, <2>2 DEF NoneIn
  <2>3. QED
    BY <1>1, <2>1, <2>2
<1>4. ASSUME OnceIn(a, l), NoneIn(b, l) PROVE OnceIn(c, l)
  <2>1. PICK n \in 1 .. Len(a) : a[n] = l /\ \A m \in 1 .. Len(a) : a[m] = l => m = n
    BY <1>4 DEF OnceIn
  <2>2. n \in 1 .. Len(c) /\ c[n] = l
    BY <1>1, <2>1
  <2>3. ASSUME NEW m \in 1 .. Len(c), c[m] = l PROVE m = n
    <3>1. CASE m <= Len(a)
      BY <1>1, <2>1, <2>3, <3>1
    <3>2. CASE m > Len(a)
      BY <1>1, <1>4, <2>3, <3>2 DEF NoneIn
    <3>3. QED
      BY <1>1, <3>1, <3>2
  <2>4. QED
    BY <2>2, <2>3 DEF OnceIn
<1>5. ASSUME NoneIn(a, l), OnceIn(b, l) PROVE OnceIn(c, l)
  <2>1. PICK n \in 1 .. Len(b) : b[n] = l /\ \A m \in 1 .. Len(b) : b[m] = l => m = n
    BY <1>5 DEF OnceIn
  <2>2. Len(a) + n \in 1 .. Len(c) /\ c[Len(a) + n] = l
    BY <1>2, <2>1
  <2>3. ASSUME NEW m \in 1 .. Len(c), c[m] = l PROVE m = Len(a) + n
    <3>1. CASE m <= Len(a)
      BY <1>1, <1>5, <2>3, <3>1 DEF NoneIn
    <3>2. CASE m > Len(a)
      <4>1. m - Len(a) \in 1 .. Len(b) /\ b[m - Len(a)] = l
        BY <1>1, <2>3, <3>2
      <4>2. m - Len(a) = n
        BY <2>1, <4>1
      <4>3. QED
        BY <1>1, <4>2
    <3>3. QED
      BY <1>1, <3>1, <3>2
  <2>4. QED
    BY <2>2, <2>3 DEF OnceIn
<1>6. QED
  BY <1>3, <1>4, <1>5

\* What the database holds, and that the viewer looks at one thing at a time.
SearchTypeOK ==
    /\ instant \in Nat
    /\ rows = <<>> \/ rows \in [Locations -> Rows]
    /\ walk.pc \in {"idle", "count", "page", "shown"}
    /\ map.pc \in {"idle", "count", "items", "clusters", "shown", "invalid"}
    /\ walk = [pc |-> walk.pc, input |-> walk.input, request |-> walk.request, now |-> walk.now,
               total |-> walk.total, next |-> walk.next, listed |-> walk.listed]
    /\ map = [pc |-> map.pc, box |-> map.box, filters |-> map.filters, now |-> map.now,
              total |-> map.total, items |-> map.items, clusters |-> map.clusters,
              disturbed |-> map.disturbed]
    /\ walk.pc # "idle" => rows # <<>> /\ map.pc = "idle"
    /\ walk.pc = "idle" => walk.listed = <<>> /\ walk.next = NoCursor
    /\ map.pc # "idle" => rows # <<>>

\* A walk asks one question: its pages differ in the cursor alone, which is of its sort.
OwnCursor(cursor) ==
    cursor = NoCursor \/ /\ cursor # NoCursor /\ cursor.sort = walk.request.sort
                         /\ cursor.v \in Int /\ cursor.id \in Locations
Asked ==
    walk.pc # "idle" =>
      /\ walk.input = [sort |-> walk.input.sort, radius |-> walk.input.radius,
                       filters |-> walk.input.filters]
      /\ walk.now \in Nat /\ walk.listed \in Seq(Locations)
      /\ walk.request.sort = from_code(walk.input.sort)
      /\ walk.request.radius = RadiusOf(walk.input.radius)
      /\ walk.request.filters = KnownOnly(walk.input.filters)
      /\ OwnCursor(walk.request.cursor)
      /\ walk.pc = "shown" => OwnCursor(walk.next)

\* What a location is for the request under way: whether it matches, its key, and
\* whether the walk has passed it.
Found(l) == FILTERS(rows[l], walk.request, walk.now)
KeyNow(l) == KeyOf(l, rows, walk.request, walk.now)
Passed(l) == IF walk.pc = "shown" THEN walk.next = NoCursor \/ ~Past(KeyNow(l), l, walk.next)
             ELSE ~Past(KeyNow(l), l, walk.request.cursor)

\* A location that stayed as it was is listed once if it matches and the walk has
\* passed it, and is not listed otherwise.
ListedTruly(l) == IF Found(l) /\ Passed(l) THEN OnceIn(walk.listed, l) ELSE NoneIn(walk.listed, l)
Unmoved(l) == Ranking(rows, instant, l) = Ranking(rows, walk.now, l)
Walking == walk.pc # "idle" => \A l \in Locations \ disturbed : ListedTruly(l) /\ Unmoved(l)

\* The last count is that of the matches, when nothing has changed.
Tallied ==
    /\ walk.pc = "page" \/ (walk.pc = "shown" /\ walk.next = NoCursor)
    /\ disturbed = {}
    => walk.total = Cardinality(Matching(rows, walk.request, walk.now))

\* The map between its two statements.
Browsing ==
    /\ map.pc \in {"idle", "count", "items", "clusters"} =>
         map.items = <<>> /\ map.clusters = <<>>
    /\ map.pc \in {"count", "items", "clusters"} => ValidBounds(map.box)
    /\ map.pc \in {"items", "clusters"} /\ map.disturbed = FALSE =>
         map.total = Cardinality(Inside(map))
    /\ map.pc = "clusters" /\ map.disturbed = FALSE => map.total > MarkerCap
    /\ map.pc = "items" /\ map.disturbed = FALSE => map.total <= MarkerCap
    /\ map.disturbed \in BOOLEAN

SearchInv == SearchTypeOK /\ Asked /\ Walking /\ Tallied /\ Browsing /\ BrowseAddsUp

\* What a page holds of the candidates for it, and where it ends.
PageOfThem(C, key, found, items, last) ==
    /\ items \in Seq(Locations)
    /\ \A l : l \notin C => NoneIn(items, l)
    /\ Len(found) <= PageSize => \A l \in C : OnceIn(items, l)
    /\ Len(found) > PageSize =>
         /\ last \in C
         /\ \A l \in C : l = last \/ Before(key, l, last) => OnceIn(items, l)
         /\ \A l \in C : Before(key, last, l) => NoneIn(items, l)
         /\ \A l \in C : l = last \/ Before(key, l, last) \/ Before(key, last, l)

LEMMA PageHolds ==
    ASSUME NEW C, NEW key, NEW found, NEW items, NEW last,
           C \subseteq Locations, Keyed(Locations, key),
           found = First(Ordered(C, key), PageSize + 1),
           items = IF Len(found) > PageSize THEN SubSeq(found, 1, PageSize) ELSE found,
           last = items[Len(items)]
    PROVE  PageOfThem(C, key, found, items, last)
<1>1. /\ IsFiniteSet(C) /\ C \subseteq Nat /\ Keyed(C, key)
      /\ PageSize \in Nat /\ PageSize > 0
  <2>1. IsFiniteSet(C)
    BY SearchAssumption, FS_Subset
  <2>2. Locations \subseteq Nat /\ PageSize \in Nat /\ PageSize > 0
    BY SearchAssumption
  <2>3. Keyed(C, key)
    BY DEF Keyed
  <2>4. QED
    BY <2>1, <2>2, <2>3
<1>2. PICK s, N : s = Ordered(C, key) /\ N = Cardinality(C)
  OBVIOUS
<1>3. /\ N \in Nat /\ s \in [1 .. N -> C]
      /\ \A m, n \in 1 .. N : m < n => Before(key, s[m], s[n])
      /\ \A l \in C : \E n \in 1 .. N : s[n] = l
  <2>1. Sorted(C, key, s)
    BY <1>1, <1>2, InItsOrder
  <2>2. QED
    BY <1>2, <2>1 DEF Sorted
<1>4. /\ found \in Seq(C)
      /\ Len(found) = IF N < PageSize + 1 THEN N ELSE PageSize + 1
      /\ \A i \in 1 .. Len(found) : found[i] = s[i]
  <2>1. PageSize + 1 \in Nat /\ found = First(s, PageSize + 1)
    BY <1>1, <1>2
  <2>2. StartOf(C, N, s, PageSize + 1, found)
    BY <1>3, <2>1, FirstOf
  <2>3. QED
    BY <2>2 DEF StartOf
<1>5. PICK M : M = IF N > PageSize THEN PageSize ELSE N
  OBVIOUS
<1>6. M \in Nat /\ M <= N /\ (Len(found) > PageSize <=> N > PageSize)
      /\ (N > PageSize => M = PageSize) /\ (N <= PageSize => M = N)
  BY <1>1, <1>3, <1>4, <1>5
<1>7. items \in Seq(C) /\ Len(items) = M /\ \A i \in 1 .. M : items[i] = s[i]
  <2>1. CASE N > PageSize
    <3>1. items = SubSeq(found, 1, PageSize)
      BY <1>6, <2>1
    <3>2. \A i \in 1 .. PageSize : i \in 1 .. Len(found) /\ found[i] = s[i] /\ found[i] \in C
      BY <1>1, <1>3, <1>4, <2>1
    <3>3. /\ SubSeq(found, 1, PageSize) \in Seq(C)
          /\ Len(SubSeq(found, 1, PageSize)) = IF 1 <= PageSize THEN PageSize - 1 + 1 ELSE 0
          /\ \A i \in 1 .. PageSize - 1 + 1 : SubSeq(found, 1, PageSize)[i] = found[1 + i - 1]
      BY <1>1, <3>2, SubSeqProperties
    <3>4. \A i \in 1 .. PageSize : SubSeq(found, 1, PageSize)[i] = found[i]
      <4> SUFFICES ASSUME NEW i \in 1 .. PageSize PROVE SubSeq(found, 1, PageSize)[i] = found[i]
        OBVIOUS
      <4>1. PageSize - 1 + 1 = PageSize /\ 1 + i - 1 = i
        BY <1>1
      <4>2. QED
        BY <3>3, <4>1
    <3>5. Len(SubSeq(found, 1, PageSize)) = PageSize
      BY <1>1, <3>3
    <3>6. QED
      BY <1>6, <2>1, <3>1, <3>2, <3>3, <3>4, <3>5
  <2>2. CASE N <= PageSize
    <3>1. items = found
      BY <1>1, <1>3, <1>6, <2>2
    <3>2. Len(found) = N
      BY <1>1, <1>3, <1>4, <2>2
    <3>3. QED
      BY <1>4, <1>6, <2>2, <3>1, <3>2
  <2>3. QED
    BY <1>1, <1>3, <2>1, <2>2
<1>8. \A j, k, l \in C : /\ ~Before(key, l, l)
                         /\ Before(key, k, l) => ~Before(key, l, k) /\ k # l
                         /\ k = l \/ Before(key, k, l) \/ Before(key, l, k)
  BY <1>1 DEF Before, Keyed
<1>9. \A m, n \in 1 .. N : s[m] = s[n] => m = n
  <2> SUFFICES ASSUME NEW m \in 1 .. N, NEW n \in 1 .. N, m # n PROVE s[m] # s[n]
    OBVIOUS
  <2>1. m < n \/ n < m
    BY <1>3
  <2>2. Before(key, s[m], s[n]) \/ Before(key, s[n], s[m])
    BY <1>3, <2>1
  <2>3. s[m] \in C /\ s[n] \in C
    BY <1>3
  <2>4. QED
    BY <1>8, <2>2, <2>3
<1>10. items \in Seq(Locations)
  BY <1>7, SeqMonotonic
<1>11. ASSUME NEW l, l \notin C PROVE NoneIn(items, l)
  <2>1. \A i \in 1 .. M : i \in 1 .. N /\ items[i] \in C
    BY <1>3, <1>6, <1>7
  <2>2. QED
    BY <1>7, <1>11, <2>1 DEF NoneIn
<1>12. ASSUME NEW n \in 1 .. N
       PROVE  /\ n <= M => OnceIn(items, s[n])
              /\ n > M => NoneIn(items, s[n])
  <2>1. \A i \in 1 .. M : i \in 1 .. N /\ (items[i] = s[n] => i = n)
    BY <1>3, <1>6, <1>7, <1>9
  <2>2. CASE n <= M
    <3>1. n \in 1 .. M /\ items[n] = s[n]
      BY <1>3, <1>6, <1>7, <2>2
    <3>2. OnceIn(items, s[n])
      BY <1>7, <2>1, <3>1 DEF OnceIn
    <3>3. QED
      BY <1>6, <2>2, <3>2
  <2>3. CASE n > M
    <3>1. \A i \in 1 .. M : items[i] # s[n]
      BY <1>6, <2>1, <2>3
    <3>2. QED
      BY <1>6, <1>7, <2>3, <3>1 DEF NoneIn
  <2>4. QED
    BY <2>2, <2>3
<1>13. ASSUME Len(found) <= PageSize, NEW l \in C PROVE OnceIn(items, l)
  <2>1. M = N
    BY <1>1, <1>3, <1>4, <1>6, <1>13
  <2>2. PICK n \in 1 .. N : s[n] = l
    BY <1>3
  <2>3. QED
    BY <1>3, <1>12, <2>1, <2>2
<1>14. ASSUME Len(found) > PageSize
       PROVE  /\ last \in C
              /\ \A l \in C : l = last \/ Before(key, l, last) => OnceIn(items, l)
              /\ \A l \in C : Before(key, last, l) => NoneIn(items, l)
              /\ \A l \in C : l = last \/ Before(key, l, last) \/ Before(key, last, l)
  <2>1. M = PageSize /\ M \in 1 .. N
    BY <1>1, <1>3, <1>6, <1>14
  <2>2. last = s[M] /\ last \in C
    BY <1>3, <1>7, <2>1
  <2>3. ASSUME NEW l \in C
        PROVE  /\ l = last \/ Before(key, l, last) => OnceIn(items, l)
               /\ Before(key, last, l) => NoneIn(items, l)
    <3>1. PICK n \in 1 .. N : s[n] = l
      BY <1>3
    <3> N \in Nat /\ M \in Nat /\ n \in Nat
      BY <1>3, <1>6
    <3>2. CASE n = M
      BY <1>6, <1>8, <1>12, <2>1, <2>2, <3>1, <3>2
    <3>3. CASE n < M
      <4>1. Before(key, l, last)
        BY <1>3, <2>1, <2>2, <3>1, <3>3
      <4>2. OnceIn(items, l)
        BY <1>6, <1>12, <3>1, <3>3
      <4>3. QED
        BY <1>8, <2>2, <4>1, <4>2
    <3>4. CASE n > M
      <4>1. Before(key, last, l)
        BY <1>3, <2>1, <2>2, <3>1, <3>4
      <4>2. NoneIn(items, l)
        BY <1>12, <3>1, <3>4
      <4>3. QED
        BY <1>8, <2>2, <4>1, <4>2
    <3>5. n = M \/ n < M \/ n > M
      OBVIOUS
    <3>6. QED
      BY <3>2, <3>3, <3>4, <3>5
  <2>4. QED
    BY <1>8, <2>2, <2>3
<1>15. QED
  BY <1>10, <1>11, <1>13, <1>14 DEF PageOfThem

LEMMA SearchStarts ==
    ASSUME SearchInit
    PROVE  SearchInv
<1>1. /\ rows = <<>> /\ instant = 0 /\ disturbed = {} /\ writes = 0
      /\ walk = IdleWalk /\ map = IdleMap
  BY DEF SearchInit
<1>2. /\ walk.pc = "idle" /\ walk.listed = <<>> /\ walk.next = NoCursor
      /\ map.pc = "idle" /\ map.disturbed = FALSE /\ map.items = <<>> /\ map.clusters = <<>>
  BY <1>1 DEF IdleWalk, IdleMap
<1>3. SearchTypeOK
  BY <1>1, <1>2 DEF SearchTypeOK, IdleWalk, IdleMap
<1>4. Asked /\ Walking /\ Tallied /\ Browsing /\ BrowseAddsUp
  BY <1>2 DEF Asked, Walking, Tallied, Browsing, BrowseAddsUp
<1>5. QED
  BY <1>3, <1>4 DEF SearchInv

\* The walk stands still while the map is looked at, and the map while the walk goes on.
LEMMA WalkKept ==
    ASSUME Asked, Walking, Tallied, UNCHANGED <<rows, instant, walk, disturbed>>
    PROVE  Asked' /\ Walking' /\ Tallied'
<1>1. Asked'
  BY DEF Asked, OwnCursor
<1>2. Walking'
  <2>1. \A l : ListedTruly(l)' <=> ListedTruly(l)
    BY DEF ListedTruly, Found, Passed, KeyNow, KeyOf
  <2>2. \A l : Unmoved(l)' <=> Unmoved(l)
    BY DEF Unmoved, Ranking, KeyOf
  <2>3. QED
    BY <2>1, <2>2 DEF Walking
<1>3. Tallied'
  BY DEF Tallied, Matching
<1>4. QED
  BY <1>1, <1>2, <1>3

LEMMA MapKept ==
    ASSUME Browsing, BrowseAddsUp, UNCHANGED <<rows, map>>
    PROVE  Browsing' /\ BrowseAddsUp'
BY DEF Browsing, BrowseAddsUp, Inside, Pins

\* The radius of a q is one of those offered, so its keys are numbers.
LEMMA KeysOfRequest ==
    ASSUME NEW table, NEW q, NEW now, NEW l \in Locations,
           table \in [Locations -> Rows], q.radius \in RADIUS_OPTIONS_M, now \in Int
    PROVE  KeyOf(l, table, q, now) \in Int
<1>1. table[l] \in Rows
  OBVIOUS
<1>2. sort_key_sql(q.sort, table[l], q.radius, now) \in Int
  BY <1>1, KeysAreNumbers
<1>3. QED
  BY <1>2 DEF KeyOf

LEMMA RadiusOffered ==
    ASSUME NEW r
    PROVE  RadiusOf(r) \in RADIUS_OPTIONS_M
BY SearchAssumption DEF RadiusOf

LEMMA KeysNow ==
    ASSUME SearchTypeOK, Asked, walk.pc # "idle", NEW l \in Locations
    PROVE  KeyNow(l) \in Int
<1>1. rows \in [Locations -> Rows]
  BY DEF SearchTypeOK
<1>2. walk.request.radius \in RADIUS_OPTIONS_M /\ walk.now \in Int
  BY RadiusOffered DEF Asked
<1>3. QED
  BY <1>1, <1>2, KeysOfRequest DEF KeyNow

\* A location that has not moved matches, and has its key, at both instants.
LEMMA SameRank ==
    ASSUME walk.pc # "idle", NEW l, Unmoved(l)
    PROVE  /\ FILTERS(rows[l], walk.request, instant) <=> FILTERS(rows[l], walk.request, walk.now)
           /\ KeyOf(l, rows, walk.request, instant) = KeyOf(l, rows, walk.request, walk.now)
BY DEF Unmoved, Ranking

\* A request resolved: the walk is at its first statement.
LEMMA ResolvedWalk ==
    ASSUME SearchTypeOK, NEW input, NEW cursor, NEW listed, Resolve(input, cursor, listed)
    PROVE  /\ walk'.pc = "count" /\ walk'.input = input /\ walk'.now = instant
           /\ walk'.next = walk.next /\ walk'.listed = listed
           /\ walk'.request = NewRequest(input, cursor)
           /\ walk' = [pc |-> walk'.pc, input |-> walk'.input, request |-> walk'.request,
                       now |-> walk'.now, total |-> walk'.total, next |-> walk'.next,
                       listed |-> walk'.listed]
<1>1. walk = [pc |-> walk.pc, input |-> walk.input, request |-> walk.request,
              now |-> walk.now, total |-> walk.total, next |-> walk.next,
              listed |-> walk.listed]
  BY DEF SearchTypeOK
<1>2. walk' = [walk EXCEPT !.pc = "count", !.input = input, !.now = instant,
                           !.request = NewRequest(input, cursor), !.listed = listed]
  BY DEF Resolve
<1>3. PICK i, q, n, t, x, s : /\ i = walk.input /\ q = walk.request /\ n = walk.now
                              /\ t = walk.total /\ x = walk.next /\ s = walk.listed
  OBVIOUS
<1>4. PICK r : r = NewRequest(input, cursor)
  OBVIOUS
<1>5. walk' = [pc |-> "count", input |-> input, request |-> r, now |-> instant,
               total |-> t, next |-> x, listed |-> listed]
  BY <1>1, <1>2, <1>3, <1>4
<1>6. QED
  BY <1>3, <1>4, <1>5

\* The fields of a request.
LEMMA RequestFields ==
    ASSUME NEW input, NEW cursor, NEW q, q = NewRequest(input, cursor)
    PROVE  /\ q.sort = from_code(input.sort) /\ q.radius = RadiusOf(input.radius)
           /\ q.filters = KnownOnly(input.filters)
           /\ q.cursor = CursorFor(from_code(input.sort), cursor)
BY DEF NewRequest

\* What matches and how it ranks takes from a request its radius, filters and sort.
LEMMA SameQuestion ==
    ASSUME NEW q, NEW r, q.sort = r.sort, q.radius = r.radius, q.filters = r.filters
    PROVE  /\ \A row, now : FILTERS(row, q, now) <=> FILTERS(row, r, now)
           /\ \A l, table, now : KeyOf(l, table, q, now) = KeyOf(l, table, r, now)
BY DEF FILTERS, KeyOf

\* A sort the code knows is never the sort of no cursor.
LEMMA SortKnown ==
    ASSUME NEW code
    PROVE  from_code(code) # NoCursor.sort /\ CursorFor(from_code(code), NoCursor) = NoCursor
BY DEF from_code, NoCursor, CursorFor, Sort

\* Nothing is in an empty list.
LEMMA EmptyList == \A l : NoneIn(<<>>, l)
BY DEF NoneIn

\* A request for the first page: nothing is listed and nothing passed.
LEMMA FirstPage ==
    ASSUME SearchInv, NEW input, NEW cursor, Resolve(input, cursor, <<>>),
           CursorFor(from_code(input.sort), cursor) = NoCursor,
           input = [sort |-> input.sort, radius |-> input.radius, filters |-> input.filters],
           rows # <<>>, map.pc = "idle", UNCHANGED <<rows, instant, map>>
    PROVE  SearchInv'
<1>1. /\ walk'.pc = "count" /\ walk'.input = input /\ walk'.now = instant
      /\ walk'.listed = <<>> /\ walk'.request = NewRequest(input, cursor)
      /\ walk' = [pc |-> walk'.pc, input |-> walk'.input, request |-> walk'.request,
                  now |-> walk'.now, total |-> walk'.total, next |-> walk'.next,
                  listed |-> walk'.listed]
  BY ResolvedWalk DEF SearchInv
<1>2. /\ walk'.request.sort = from_code(input.sort)
      /\ walk'.request.radius = RadiusOf(input.radius)
      /\ walk'.request.filters = KnownOnly(input.filters)
      /\ walk'.request.cursor = NoCursor
  BY <1>1, RequestFields
<1>3. SearchTypeOK'
  BY <1>1 DEF SearchInv, SearchTypeOK
<1>4. Asked'
  <2>1. <<>> \in Seq(Locations) /\ instant \in Nat
    BY DEF SearchInv, SearchTypeOK
  <2>2. OwnCursor(walk.request.cursor)'
    BY <1>2 DEF OwnCursor
  <2>3. QED
    BY <1>1, <1>2, <2>1, <2>2 DEF Asked
<1>5. Walking'
  <2>1. ASSUME NEW l PROVE ListedTruly(l)' /\ Unmoved(l)'
    <3>1. ~Passed(l)'
      BY <1>1, <1>2 DEF Passed, Past
    <3>2. NoneIn(walk.listed, l)'
      BY <1>1, EmptyList DEF NoneIn
    <3>3. Unmoved(l)'
      BY <1>1 DEF Unmoved
    <3>4. QED
      BY <3>1, <3>2, <3>3 DEF ListedTruly
  <2>2. QED
    BY <2>1 DEF Walking
<1>6. Tallied'
  BY <1>1 DEF Tallied
<1>7. Browsing' /\ BrowseAddsUp'
  BY MapKept DEF SearchInv
<1>8. QED
  BY <1>3, <1>4, <1>5, <1>6, <1>7 DEF SearchInv

LEMMA SearchStep ==
    ASSUME SearchInv, NEW input, search(input),
           input = [sort |-> input.sort, radius |-> input.radius, filters |-> input.filters]
    PROVE  SearchInv'
<1>1. /\ Resolve(input, NoCursor, <<>>) /\ rows # <<>> /\ map.pc = "idle"
      /\ UNCHANGED <<rows, instant, map>>
  BY DEF search
<1>2. CursorFor(from_code(input.sort), NoCursor) = NoCursor
  BY SortKnown
<1>3. QED
  BY <1>1, <1>2, FirstPage

\* A cursor minted for the sort before is none for the sort after.
LEMMA ResortStep ==
    ASSUME SearchInv, NEW sort, resort(sort)
    PROVE  SearchInv'
<1>1. PICK input : input = [walk.input EXCEPT !.sort = sort]
  OBVIOUS
<1>2. /\ Resolve(input, walk.next, <<>>) /\ walk.pc = "shown" /\ walk.next # NoCursor
      /\ from_code(sort) # walk.request.sort /\ UNCHANGED <<rows, instant, map>>
  BY <1>1 DEF resort
<1>3. rows # <<>> /\ map.pc = "idle"
  BY <1>2 DEF SearchInv, SearchTypeOK
<1>4. walk.next.sort = walk.request.sort
  BY <1>2 DEF SearchInv, Asked, OwnCursor
<1>5. walk.input = [sort |-> walk.input.sort, radius |-> walk.input.radius,
                    filters |-> walk.input.filters]
  BY <1>2 DEF SearchInv, Asked
<1>6. input = [sort |-> sort, radius |-> walk.input.radius, filters |-> walk.input.filters]
  BY <1>1, <1>5
<1>7. CursorFor(from_code(input.sort), walk.next) = NoCursor
  BY <1>2, <1>4, <1>6 DEF CursorFor
<1>8. input = [sort |-> input.sort, radius |-> input.radius, filters |-> input.filters]
  BY <1>6
<1>9. QED
  BY <1>2, <1>3, <1>7, <1>8, FirstPage

\* The next page asks the same question, past where the page ended.
LEMMA NextPageStep ==
    ASSUME SearchInv, next_page
    PROVE  SearchInv'
<1>1. /\ Resolve(walk.input, walk.next, walk.listed) /\ walk.pc = "shown"
      /\ walk.next # NoCursor /\ UNCHANGED <<rows, instant, map, disturbed>>
  BY DEF next_page
<1>2. /\ walk'.pc = "count" /\ walk'.input = walk.input /\ walk'.now = instant
      /\ walk'.listed = walk.listed /\ walk'.request = NewRequest(walk.input, walk.next)
      /\ walk' = [pc |-> walk'.pc, input |-> walk'.input, request |-> walk'.request,
                  now |-> walk'.now, total |-> walk'.total, next |-> walk'.next,
                  listed |-> walk'.listed]
  BY <1>1, ResolvedWalk DEF SearchInv
<1>3. /\ walk.input = [sort |-> walk.input.sort, radius |-> walk.input.radius,
                       filters |-> walk.input.filters]
      /\ walk.request.sort = from_code(walk.input.sort)
      /\ walk.request.radius = RadiusOf(walk.input.radius)
      /\ walk.request.filters = KnownOnly(walk.input.filters)
      /\ OwnCursor(walk.next) /\ walk.listed \in Seq(Locations)
  BY <1>1 DEF SearchInv, Asked
<1>4. CursorFor(walk.request.sort, walk.next) = walk.next
  BY <1>1, <1>3 DEF OwnCursor, CursorFor
<1>5. /\ walk'.request.sort = walk.request.sort
      /\ walk'.request.radius = walk.request.radius
      /\ walk'.request.filters = walk.request.filters
      /\ walk'.request.cursor = walk.next
  BY <1>2, <1>3, <1>4, RequestFields
<1>6. SearchTypeOK'
  BY <1>1, <1>2 DEF SearchInv, SearchTypeOK
<1>7. Asked'
  <2>1. OwnCursor(walk.request.cursor)'
    BY <1>3, <1>5 DEF OwnCursor
  <2>2. instant \in Nat
    BY DEF SearchInv, SearchTypeOK
  <2>3. QED
    BY <1>2, <1>3, <1>5, <2>1, <2>2 DEF Asked
<1>8. Walking'
  <2>1. ASSUME NEW l \in Locations \ disturbed PROVE ListedTruly(l)' /\ Unmoved(l)'
    <3>1. ListedTruly(l) /\ Unmoved(l)
      BY <1>1 DEF SearchInv, Walking
    <3>2. /\ \A row, now : FILTERS(row, walk'.request, now) <=> FILTERS(row, walk.request, now)
          /\ \A table, now : KeyOf(l, table, walk'.request, now) = KeyOf(l, table, walk.request, now)
      BY <1>5, SameQuestion
    <3>3. /\ FILTERS(rows[l], walk.request, instant) <=> FILTERS(rows[l], walk.request, walk.now)
          /\ KeyOf(l, rows, walk.request, instant) = KeyOf(l, rows, walk.request, walk.now)
      BY <1>1, <3>1, SameRank
    <3>4. (Found(l)' <=> Found(l)) /\ KeyNow(l)' = KeyNow(l)
      BY <1>1, <1>2, <3>2, <3>3 DEF Found, KeyNow
    <3>5. Passed(l)' <=> Passed(l)
      BY <1>1, <1>2, <1>5, <3>4 DEF Passed
    <3>6. ListedTruly(l)'
      BY <1>2, <3>1, <3>4, <3>5 DEF ListedTruly
    <3>7. Unmoved(l)'
      BY <1>1, <1>2 DEF Unmoved
    <3>8. QED
      BY <3>6, <3>7
  <2>2. QED
    BY <1>1, <2>1 DEF Walking
<1>9. Tallied'
  BY <1>2 DEF Tallied
<1>10. Browsing' /\ BrowseAddsUp'
  BY <1>1, MapKept DEF SearchInv
<1>11. QED
  BY <1>6, <1>7, <1>8, <1>9, <1>10 DEF SearchInv

LEMMA CountStep ==
    ASSUME SearchInv, count
    PROVE  SearchInv'
<1>1. PICK t : t = Cardinality(Matching(rows, walk.request, walk.now))
  OBVIOUS
<1>2. /\ walk.pc = "count" /\ walk' = [walk EXCEPT !.pc = "page", !.total = t]
      /\ UNCHANGED <<rows, instant, map, disturbed>>
  BY <1>1 DEF count
<1>3. /\ walk' = [pc |-> "page", input |-> walk.input, request |-> walk.request,
                  now |-> walk.now, total |-> t, next |-> walk.next, listed |-> walk.listed]
  <2>1. walk = [pc |-> walk.pc, input |-> walk.input, request |-> walk.request,
                now |-> walk.now, total |-> walk.total, next |-> walk.next,
                listed |-> walk.listed]
    BY DEF SearchInv, SearchTypeOK
  <2>2. PICK i, q, n, x, s : /\ i = walk.input /\ q = walk.request /\ n = walk.now
                             /\ x = walk.next /\ s = walk.listed
    OBVIOUS
  <2>3. walk' = [pc |-> "page", input |-> i, request |-> q, now |-> n, total |-> t,
                 next |-> x, listed |-> s]
    BY <1>2, <2>1, <2>2
  <2>4. QED
    BY <2>2, <2>3
<1>4. /\ walk'.pc = "page" /\ walk'.input = walk.input /\ walk'.request = walk.request
      /\ walk'.now = walk.now /\ walk'.total = t /\ walk'.next = walk.next
      /\ walk'.listed = walk.listed
  BY <1>3
<1>5. SearchTypeOK'
  BY <1>2, <1>3, <1>4 DEF SearchInv, SearchTypeOK
<1>6. Asked'
  BY <1>2, <1>4 DEF SearchInv, Asked, OwnCursor
<1>7. Walking'
  <2>1. ASSUME NEW l \in Locations \ disturbed PROVE ListedTruly(l)' /\ Unmoved(l)'
    <3>1. ListedTruly(l) /\ Unmoved(l)
      BY <1>2 DEF SearchInv, Walking
    <3>2. (Found(l)' <=> Found(l)) /\ (Passed(l)' <=> Passed(l))
      BY <1>2, <1>4 DEF Found, Passed, KeyNow, KeyOf
    <3>3. ListedTruly(l)'
      BY <1>4, <3>1, <3>2 DEF ListedTruly
    <3>4. Unmoved(l)'
      BY <1>2, <1>4, <3>1 DEF Unmoved, Ranking, KeyOf
    <3>5. QED
      BY <3>3, <3>4
  <2>2. QED
    BY <1>2, <2>1 DEF Walking
<1>8. Tallied'
  BY <1>1, <1>2, <1>4 DEF Tallied, Matching
<1>9. Browsing' /\ BrowseAddsUp'
  BY <1>2, MapKept DEF SearchInv
<1>10. QED
  BY <1>5, <1>6, <1>7, <1>8, <1>9 DEF SearchInv

\* The page takes up the matches past the cursor, and ends where the next begins.
LEMMA PageStep ==
    ASSUME SearchInv, page
    PROVE  SearchInv'
<1> PICK q, c : q = walk.request /\ c = walk.request.cursor
  OBVIOUS
<1> DEFINE key == [l \in Locations |-> KeyOf(l, rows, q, walk.now)]
           C == {l \in Matching(rows, q, walk.now) : Past(key[l], l, c)}
<1>1. PICK K, D : K = key /\ D = C
  OBVIOUS
<1>2. PICK found, items, last :
        /\ found = First(Ordered(D, K), PageSize + 1)
        /\ items = (IF Len(found) > PageSize THEN SubSeq(found, 1, PageSize) ELSE found)
        /\ last = items[Len(items)]
  OBVIOUS
<1>3. PICK next : next = IF Len(found) > PageSize
                         THEN [sort |-> q.sort, id |-> last, v |-> KeyOf(last, rows, q, walk.now)]
                         ELSE NoCursor
  OBVIOUS
<1>4. found = PageOf(walk.request, walk.now, PageSize + 1)
  BY <1>1, <1>2 DEF PageOf
<1>5. /\ walk.pc = "page" /\ UNCHANGED <<rows, instant, map, disturbed>>
      /\ walk' = [walk EXCEPT !.pc = "shown", !.listed = @ \o items, !.next = next]
  BY <1>2, <1>3, <1>4 DEF page
<1>6. walk' = [pc |-> "shown", input |-> walk.input, request |-> q, now |-> walk.now,
               total |-> walk.total, next |-> next, listed |-> walk.listed \o items]
  <2>1. walk = [pc |-> walk.pc, input |-> walk.input, request |-> walk.request,
                now |-> walk.now, total |-> walk.total, next |-> walk.next,
                listed |-> walk.listed]
    BY DEF SearchInv, SearchTypeOK
  <2>2. PICK i, n, t, s, b : /\ i = walk.input /\ n = walk.now /\ t = walk.total
                             /\ s = walk.listed /\ b = walk.listed \o items
    OBVIOUS
  <2>3. walk' = [walk EXCEPT !.pc = "shown", !.listed = b, !.next = next]
    BY <1>5, <2>2
  <2>4. walk' = [pc |-> "shown", input |-> i, request |-> q, now |-> n, total |-> t,
                 next |-> next, listed |-> b]
    BY <2>1, <2>2, <2>3
  <2>5. QED
    BY <2>2, <2>4
<1>7. /\ walk'.pc = "shown" /\ walk'.input = walk.input /\ walk'.request = q
      /\ walk'.now = walk.now /\ walk'.total = walk.total /\ walk'.next = next
      /\ walk'.listed = walk.listed \o items
  BY <1>6
<1>8. \A l \in Locations : K[l] = KeyNow(l) /\ K[l] \in Int
  <2>1. \A l \in Locations : K[l] = KeyNow(l)
    BY <1>1 DEF KeyNow
  <2>2. \A l \in Locations : KeyNow(l) \in Int
    BY <1>5, KeysNow DEF SearchInv
  <2>3. QED
    BY <2>1, <2>2
<1>9. D \subseteq Locations /\ \A l \in Locations : l \in D <=> Found(l) /\ Past(K[l], l, c)
  BY <1>1 DEF Matching, Found
<1>10. PageOfThem(D, K, found, items, last)
  <2>1. Keyed(Locations, K)
    BY <1>8 DEF Keyed
  <2>2. QED
    BY <1>2, <1>9, <2>1, PageHolds
<1>11. /\ walk.listed \in Seq(Locations) /\ items \in Seq(Locations)
       /\ q.sort = from_code(walk.input.sort) /\ OwnCursor(c)
  BY <1>5, <1>10 DEF SearchInv, Asked, PageOfThem
<1>12. Locations \subseteq Int /\ PageSize \in Nat /\ Len(found) \in Int
  <2>1. found \in Seq(Locations)
    <3>1. IsFiniteSet(D) /\ D \subseteq Nat /\ Keyed(D, K) /\ PageSize + 1 \in Nat
      <4>1. Locations \subseteq Nat /\ IsFiniteSet(Locations) /\ PageSize \in Nat
        BY SearchAssumption
      <4>2. IsFiniteSet(D)
        BY <1>9, <4>1, FS_Subset
      <4>3. QED
        BY <1>8, <1>9, <4>1, <4>2 DEF Keyed
    <3>2. PICK s : s = Ordered(D, K)
      OBVIOUS
    <3>3. Sorted(D, K, s)
      BY <3>1, <3>2, InItsOrder
    <3>4. StartOf(D, Cardinality(D), s, PageSize + 1, found)
      <4>1. Cardinality(D) \in Nat /\ s \in [1 .. Cardinality(D) -> D]
        BY <3>3 DEF Sorted
      <4>2. QED
        BY <1>2, <3>1, <3>2, <4>1, FirstOf
    <3>5. QED
      BY <1>9, <3>4, SeqMonotonic DEF StartOf
  <2>2. Len(found) \in Nat
    BY <2>1, LenProperties
  <2>3. Locations \subseteq Nat /\ PageSize \in Nat
    BY SearchAssumption
  <2>4. QED
    BY <2>2, <2>3
<1>13. ASSUME Len(found) > PageSize
       PROVE  Asked' /\ Tallied' /\ \A l \in Locations \ disturbed : ListedTruly(l)'
  <2>1. /\ next = [sort |-> q.sort, id |-> last, v |-> K[last]]
        /\ last \in D /\ last \in Locations /\ K[last] \in Int
    <3>1. last \in D
      BY <1>10, <1>13 DEF PageOfThem
    <3>2. K[last] = KeyOf(last, rows, q, walk.now)
      BY <1>1, <1>9, <3>1
    <3>3. QED
      BY <1>3, <1>8, <1>9, <1>13, <3>1, <3>2
  <2>2. /\ next # NoCursor /\ next.sort = q.sort /\ next.id = last /\ next.v = K[last]
    <3>1. next.sort = q.sort /\ next.id = last /\ next.v = K[last]
      BY <2>1
    <3>2. next.sort # NoCursor.sort
      BY <1>11, <3>1, SortKnown
    <3>3. QED
      BY <3>1, <3>2
  <2>3. Asked'
    <3>1. OwnCursor(walk.next)'
      BY <1>7, <2>1, <2>2 DEF OwnCursor
    <3>2. OwnCursor(walk.request.cursor)'
      BY <1>7, <1>11 DEF OwnCursor
    <3>3. (walk.listed \o items) \in Seq(Locations)
      BY <1>11, ConcatProperties
    <3>4. QED
      BY <1>5, <1>7, <3>1, <3>2, <3>3 DEF SearchInv, Asked
  <2>4. Tallied'
    BY <1>7, <2>2 DEF Tallied
  <2>5. ASSUME NEW l \in Locations \ disturbed PROVE ListedTruly(l)'
    <3>1. ListedTruly(l)
      BY <1>5 DEF SearchInv, Walking
    <3>2. Found(l)' <=> Found(l)
      BY <1>5, <1>7 DEF Found
    <3>3. Passed(l)' <=> ~Past(K[l], l, next)
      <4>1. KeyNow(l)' = K[l]
        BY <1>5, <1>7, <1>8 DEF KeyNow, KeyOf
      <4>2. QED
        BY <1>7, <2>2, <4>1 DEF Passed
    <3>4. Passed(l) <=> ~Past(K[l], l, c)
      BY <1>5, <1>8 DEF Passed
    <3>5. Past(K[l], l, next) <=> K[l] > K[last] \/ (K[l] = K[last] /\ l > last)
      BY <2>2 DEF Past
    <3>6. CASE l \in D
      <4>1. Found(l) /\ NoneIn(walk.listed, l)
        BY <1>9, <3>1, <3>4, <3>6 DEF ListedTruly
      <4>2. CASE l = last \/ Before(K, l, last)
        <5>1. OnceIn(items, l)
          BY <1>10, <1>13, <3>6, <4>2 DEF PageOfThem
        <5>2. OnceIn(walk.listed \o items, l)
          BY <1>11, <4>1, <5>1, ListedThen
        <5>3. ~Past(K[l], l, next)
          BY <1>8, <1>12, <2>1, <3>5, <4>2 DEF Before
        <5>4. QED
          BY <1>7, <3>2, <3>3, <4>1, <5>2, <5>3 DEF ListedTruly, OnceIn
      <4>3. CASE Before(K, last, l)
        <5>1. NoneIn(items, l)
          BY <1>10, <1>13, <3>6, <4>3 DEF PageOfThem
        <5>2. NoneIn(walk.listed \o items, l)
          BY <1>11, <4>1, <5>1, ListedThen
        <5>3. Past(K[l], l, next)
          BY <1>8, <1>12, <2>1, <3>5, <4>3 DEF Before
        <5>4. QED
          BY <1>7, <3>2, <3>3, <4>1, <5>2, <5>3 DEF ListedTruly, NoneIn
      <4>4. QED
        BY <1>10, <1>13, <3>6, <4>2, <4>3 DEF PageOfThem
    <3>7. CASE l \notin D
      <4>1. NoneIn(items, l)
        BY <1>10, <3>7 DEF PageOfThem
      <4>2. CASE Found(l)
        <5>1. ~Past(K[l], l, c)
          BY <1>9, <3>7, <4>2
        <5>2. OnceIn(walk.listed, l)
          BY <3>1, <3>4, <4>2, <5>1 DEF ListedTruly
        <5>3. OnceIn(walk.listed \o items, l)
          BY <1>11, <4>1, <5>2, ListedThen
        <5>4. ~Past(K[l], l, next)
          <6>1. c # NoCursor /\ c.v \in Int /\ c.id \in Int
            BY <1>11, <1>12, <5>1 DEF Past, OwnCursor
          <6>2. Past(K[last], last, c)
            BY <1>9, <2>1
          <6>3. K[last] > c.v \/ (K[last] = c.v /\ last > c.id)
            BY <6>1, <6>2 DEF Past
          <6>4. ~(K[l] > c.v) /\ ~(K[l] = c.v /\ l > c.id)
            BY <5>1 DEF Past
          <6>5. K[l] \in Int /\ K[last] \in Int /\ l \in Int /\ last \in Int
            BY <1>8, <1>12, <2>1
          <6>6. ~(K[l] > K[last] \/ (K[l] = K[last] /\ l > last))
            BY <6>1, <6>3, <6>4, <6>5
          <6>7. QED
            BY <3>5, <6>6
        <5>5. QED
          BY <1>7, <3>2, <3>3, <4>2, <5>3, <5>4 DEF ListedTruly, OnceIn
      <4>3. CASE ~Found(l)
        <5>1. NoneIn(walk.listed, l)
          BY <3>1, <4>3 DEF ListedTruly
        <5>2. NoneIn(walk.listed \o items, l)
          BY <1>11, <4>1, <5>1, ListedThen
        <5>3. QED
          BY <1>7, <3>2, <4>3, <5>2 DEF ListedTruly, NoneIn
      <4>4. QED
        BY <4>2, <4>3
    <3>8. QED
      BY <3>6, <3>7
  <2>6. QED
    BY <2>3, <2>4, <2>5
<1>14. ASSUME ~(Len(found) > PageSize)
       PROVE  Asked' /\ Tallied' /\ \A l \in Locations \ disturbed : ListedTruly(l)'
  <2>1. next = NoCursor /\ Len(found) <= PageSize
    BY <1>3, <1>12, <1>14
  <2>2. Asked'
    <3>1. OwnCursor(walk.next)'
      BY <1>7, <2>1 DEF OwnCursor
    <3>2. OwnCursor(walk.request.cursor)'
      BY <1>7, <1>11 DEF OwnCursor
    <3>3. (walk.listed \o items) \in Seq(Locations)
      BY <1>11, ConcatProperties
    <3>4. QED
      BY <1>5, <1>7, <3>1, <3>2, <3>3 DEF SearchInv, Asked
  <2>3. Tallied'
    BY <1>5, <1>7 DEF SearchInv, Tallied, Matching
  <2>4. ASSUME NEW l \in Locations \ disturbed PROVE ListedTruly(l)'
    <3>1. ListedTruly(l)
      BY <1>5 DEF SearchInv, Walking
    <3>2. (Found(l)' <=> Found(l)) /\ Passed(l)'
      BY <1>5, <1>7, <2>1 DEF Found, Passed
    <3>3. Passed(l) <=> ~Past(K[l], l, c)
      BY <1>5, <1>8 DEF Passed
    <3>4. CASE l \in D
      <4>1. Found(l) /\ NoneIn(walk.listed, l) /\ OnceIn(items, l)
        BY <1>9, <1>10, <2>1, <3>1, <3>3, <3>4 DEF ListedTruly, PageOfThem
      <4>2. OnceIn(walk.listed \o items, l)
        BY <1>11, <4>1, ListedThen
      <4>3. QED
        BY <1>7, <3>2, <4>1, <4>2 DEF ListedTruly, OnceIn
    <3>5. CASE l \notin D
      <4>1. NoneIn(items, l)
        BY <1>10, <3>5 DEF PageOfThem
      <4>2. CASE Found(l)
        <5>1. OnceIn(walk.listed, l)
          BY <1>9, <3>1, <3>3, <3>5, <4>2 DEF ListedTruly
        <5>2. OnceIn(walk.listed \o items, l)
          BY <1>11, <4>1, <5>1, ListedThen
        <5>3. QED
          BY <1>7, <3>2, <4>2, <5>2 DEF ListedTruly, OnceIn
      <4>3. CASE ~Found(l)
        <5>1. NoneIn(walk.listed, l)
          BY <3>1, <4>3 DEF ListedTruly
        <5>2. NoneIn(walk.listed \o items, l)
          BY <1>11, <4>1, <5>1, ListedThen
        <5>3. QED
          BY <1>7, <3>2, <4>3, <5>2 DEF ListedTruly, NoneIn
      <4>4. QED
        BY <4>2, <4>3
    <3>6. QED
      BY <3>4, <3>5
  <2>5. QED
    BY <2>2, <2>3, <2>4
<1>15. Asked' /\ Tallied' /\ \A l \in Locations \ disturbed : ListedTruly(l)'
  BY <1>13, <1>14
<1>16. Walking'
  <2>1. ASSUME NEW l \in Locations \ disturbed PROVE Unmoved(l)'
    <3>1. Unmoved(l)
      BY <1>5 DEF SearchInv, Walking
    <3>2. QED
      BY <1>5, <1>7, <3>1 DEF Unmoved, Ranking, KeyOf
  <2>2. QED
    BY <1>5, <1>15, <2>1 DEF Walking
<1>17. SearchTypeOK'
  BY <1>5, <1>6, <1>7 DEF SearchInv, SearchTypeOK
<1>18. Browsing' /\ BrowseAddsUp'
  BY <1>5, MapKept DEF SearchInv
<1>19. QED
  BY <1>15, <1>16, <1>17, <1>18 DEF SearchInv

\* The map with the mark that something changed under it.
LEMMA Disturbed ==
    ASSUME SearchInv, NEW table, NEW now, Disturb(table, now)
    PROVE  /\ map' = [pc |-> map.pc, box |-> map.box, filters |-> map.filters, now |-> map.now,
                      total |-> map.total, items |-> map.items, clusters |-> map.clusters,
                      disturbed |-> map'.disturbed]
           /\ map'.pc = map.pc /\ map'.box = map.box /\ map'.filters = map.filters
           /\ map'.now = map.now /\ map'.total = map.total /\ map'.items = map.items
           /\ map'.clusters = map.clusters
           /\ map'.disturbed = (map.disturbed \/ (map.pc # "idle" /\ table # rows))
<1>1. map = [pc |-> map.pc, box |-> map.box, filters |-> map.filters, now |-> map.now,
             total |-> map.total, items |-> map.items, clusters |-> map.clusters,
             disturbed |-> map.disturbed]
  BY DEF SearchInv, SearchTypeOK
<1>2. PICK b : b = (map.disturbed \/ (map.pc # "idle" /\ table # rows))
  OBVIOUS
<1>3. map' = [map EXCEPT !.disturbed = b]
  BY <1>2 DEF Disturb
<1>4. PICK p, x, f, n, t, i, c : /\ p = map.pc /\ x = map.box /\ f = map.filters
                                 /\ n = map.now /\ t = map.total /\ i = map.items
                                 /\ c = map.clusters
  OBVIOUS
<1>5. map' = [pc |-> p, box |-> x, filters |-> f, now |-> n, total |-> t, items |-> i,
              clusters |-> c, disturbed |-> b]
  BY <1>1, <1>3, <1>4
<1>6. QED
  BY <1>2, <1>4, <1>5

\* A location whose match or key a step changes is disturbed; the others are listed as
\* truly after it as before.
LEMMA WorldStep ==
    ASSUME SearchInv, NEW table, NEW now, Disturb(table, now),
           rows' = table, instant' = now, walk' = walk,
           table \in [Locations -> Rows], now \in Nat, Viewing
    PROVE  SearchInv'
<1>1. /\ map' = [pc |-> map.pc, box |-> map.box, filters |-> map.filters, now |-> map.now,
                 total |-> map.total, items |-> map.items, clusters |-> map.clusters,
                 disturbed |-> map'.disturbed]
      /\ map'.pc = map.pc /\ map'.box = map.box /\ map'.filters = map.filters
      /\ map'.now = map.now /\ map'.total = map.total /\ map'.items = map.items
      /\ map'.clusters = map.clusters
      /\ map'.disturbed = (map.disturbed \/ (map.pc # "idle" /\ table # rows))
  BY Disturbed
<1>2. ASSUME NEW l \in Locations \ disturbed'
      PROVE  /\ l \notin disturbed
             /\ Ranking(rows', instant', l) = Ranking(rows, instant, l)
             /\ Ranking(rows', walk.now, l) = Ranking(rows, walk.now, l)
  BY <1>2 DEF Disturb
<1>3. rows # <<>>
  BY DEF Viewing, SearchInv, SearchTypeOK
<1>4. SearchTypeOK'
  <2>1. rows' # <<>>
    <3>1. rows \in [Locations -> Rows]
      BY <1>3 DEF SearchInv, SearchTypeOK
    <3>2. DOMAIN rows = DOMAIN rows'
      BY <3>1
    <3>3. PICK l : l \in Locations
      <4>1. CASE Locations = {}
        <5>1. rows = [l \in {} |-> rows[l]]
          BY <3>1, <4>1
        <5>2. rows = <<>>
          BY <5>1
        <5>3. QED
          BY <1>3, <5>2
      <4>2. QED
        BY <4>1
    <3>4. DOMAIN rows' # {}
      BY <3>3
    <3>5. QED
      BY <3>4
  <2>2. QED
    BY <1>1, <2>1 DEF SearchInv, SearchTypeOK
<1>5. Asked'
  BY DEF SearchInv, Asked, OwnCursor
<1>6. ASSUME walk.pc # "idle", NEW l \in Locations \ disturbed'
      PROVE  (Found(l)' <=> Found(l)) /\ KeyNow(l)' = KeyNow(l)
  BY <1>2, <1>6 DEF Ranking, Found, KeyNow
<1>7. Walking'
  <2> SUFFICES ASSUME walk.pc # "idle", NEW l \in Locations \ disturbed'
               PROVE  ListedTruly(l)' /\ Unmoved(l)'
    BY DEF Walking
  <2>1. ListedTruly(l) /\ Unmoved(l)
    BY <1>2 DEF SearchInv, Walking
  <2>2. (Found(l)' <=> Found(l)) /\ KeyNow(l)' = KeyNow(l)
    BY <1>6
  <2>3. Passed(l)' <=> Passed(l)
    BY <2>2 DEF Passed
  <2>4. ListedTruly(l)'
    BY <2>1, <2>2, <2>3 DEF ListedTruly
  <2>5. Ranking(rows', instant', l) = Ranking(rows', walk.now, l)
    BY <1>2, <2>1 DEF Unmoved
  <2>6. Unmoved(l)'
    BY <2>5 DEF Unmoved, Ranking
  <2>7. QED
    BY <2>4, <2>6
<1>8. Tallied'
  <2> SUFFICES ASSUME walk.pc = "page" \/ (walk.pc = "shown" /\ walk.next = NoCursor),
                      disturbed' = {}
               PROVE  walk.total = Cardinality(Matching(rows', walk.request, walk.now))
    BY DEF Tallied, Matching
  <2>1. disturbed = {} /\ walk.pc # "idle"
    BY DEF Disturb
  <2>2. \A l \in Locations : Found(l)' <=> Found(l)
    BY <1>6, <2>1
  <2>3. \A l \in Locations : FILTERS(rows'[l], walk.request, walk.now)
                             <=> FILTERS(rows[l], walk.request, walk.now)
    BY <2>2 DEF Found
  <2>4. Matching(rows', walk.request, walk.now) = Matching(rows, walk.request, walk.now)
    BY <2>3 DEF Matching
  <2>5. QED
    BY <2>1, <2>4 DEF SearchInv, Tallied
<1>9. map.pc # "shown"
  BY DEF Viewing, SearchInv, SearchTypeOK
<1>10. map'.disturbed \in BOOLEAN /\ (map.disturbed = TRUE => map'.disturbed = TRUE)
       /\ (map.pc # "idle" /\ map'.disturbed = FALSE => map.disturbed = FALSE /\ table = rows)
  BY <1>1 DEF SearchInv, Browsing
<1>11. Browsing'
  BY <1>1, <1>10 DEF SearchInv, Browsing, Inside
<1>12. BrowseAddsUp'
  BY <1>1, <1>9 DEF BrowseAddsUp
<1>13. QED
  BY <1>4, <1>5, <1>7, <1>8, <1>11, <1>12 DEF SearchInv

LEMMA WriteStep ==
    ASSUME SearchInv, NEW l \in Locations, NEW row \in Rows, write(l, row)
    PROVE  SearchInv'
<1>1. rows # <<>> /\ Viewing
  BY DEF write, Viewing, SearchInv, SearchTypeOK
<1>2. rows \in [Locations -> Rows] /\ instant \in Nat
  BY <1>1 DEF SearchInv, SearchTypeOK
<1>3. PICK table : table = [rows EXCEPT ![l] = row]
  OBVIOUS
<1>4. /\ rows' = table /\ table \in [Locations -> Rows] /\ instant' = instant /\ walk' = walk
      /\ Disturb(table, instant)
  BY <1>2, <1>3 DEF write
<1>5. QED
  BY <1>1, <1>2, <1>4, WorldStep

LEMMA PassStep ==
    ASSUME SearchInv, NEW moment \in Moments, pass(moment)
    PROVE  SearchInv'
<1>1. rows # <<>> /\ Viewing
  BY DEF pass, Viewing, SearchInv, SearchTypeOK
<1>2. rows \in [Locations -> Rows] /\ moment \in Nat
  BY <1>1, SearchAssumption DEF SearchInv, SearchTypeOK
<1>3. rows' = rows /\ instant' = moment /\ walk' = walk /\ Disturb(rows, moment)
  BY DEF pass
<1>4. QED
  BY <1>1, <1>2, <1>3, WorldStep

LEMMA LoadStep ==
    ASSUME SearchInv, Load
    PROVE  SearchInv'
<1>1. /\ rows = <<>> /\ rows' \in [Locations -> Rows]
      /\ UNCHANGED <<instant, walk, map, disturbed>>
  BY DEF Load
<1>2. walk.pc = "idle" /\ map.pc = "idle"
  BY <1>1 DEF SearchInv, SearchTypeOK
<1>3. SearchTypeOK'
  BY <1>1, <1>2 DEF SearchInv, SearchTypeOK
<1>4. Asked' /\ Walking' /\ Tallied'
  BY <1>1, <1>2 DEF Asked, Walking, Tallied
<1>5. Browsing' /\ BrowseAddsUp'
  BY <1>1, <1>2 DEF SearchInv, Browsing, BrowseAddsUp
<1>6. QED
  BY <1>3, <1>4, <1>5 DEF SearchInv

\* A look at the map, field by field.
MapIs(m, pc, box, filters, now, total, items, clusters) ==
    /\ m = [pc |-> m.pc, box |-> m.box, filters |-> m.filters, now |-> m.now,
            total |-> m.total, items |-> m.items, clusters |-> m.clusters,
            disturbed |-> m.disturbed]
    /\ m.pc = pc /\ m.box = box /\ m.filters = filters /\ m.now = now
    /\ m.total = total /\ m.items = items /\ m.clusters = clusters
    /\ m.disturbed = map.disturbed

LEMMA MapFields ==
    ASSUME SearchTypeOK, NEW pc, NEW box, NEW filters, NEW now, NEW total, NEW items,
           NEW clusters, NEW m,
           m = [map EXCEPT !.pc = pc, !.box = box, !.filters = filters, !.now = now,
                           !.total = total, !.items = items, !.clusters = clusters]
    PROVE  MapIs(m, pc, box, filters, now, total, items, clusters)
<1>1. map = [pc |-> map.pc, box |-> map.box, filters |-> map.filters, now |-> map.now,
             total |-> map.total, items |-> map.items, clusters |-> map.clusters,
             disturbed |-> map.disturbed]
  BY DEF SearchTypeOK
<1>2. PICK b : b = map.disturbed
  OBVIOUS
<1>3. m = [pc |-> pc, box |-> box, filters |-> filters, now |-> now, total |-> total,
           items |-> items, clusters |-> clusters, disturbed |-> b]
  BY <1>1, <1>2
<1>4. QED
  BY <1>2, <1>3 DEF MapIs

\* A step of the map leaves the walk as it is.
LEMMA MapStep ==
    ASSUME SearchInv, NEW pc, NEW box, NEW filters, NEW now, NEW total, NEW items,
           NEW clusters, MapIs(map', pc, box, filters, now, total, items, clusters),
           pc \in {"idle", "count", "items", "clusters", "shown", "invalid"},
           walk.pc = "idle", rows # <<>>, UNCHANGED <<rows, instant, walk, disturbed>>
    PROVE  SearchTypeOK' /\ Asked' /\ Walking' /\ Tallied'
<1>1. SearchTypeOK'
  BY DEF SearchInv, SearchTypeOK, MapIs
<1>2. QED
  BY <1>1, WalkKept DEF SearchInv

LEMMA BrowseStep ==
    ASSUME SearchInv, NEW box, NEW filters, browse(box, filters)
    PROVE  SearchInv'
<1>1. PICK pc : pc = IF ValidBounds(box) THEN "count" ELSE "invalid"
  OBVIOUS
<1>2. /\ map.pc = "idle" /\ walk.pc = "idle" /\ rows # <<>>
      /\ UNCHANGED <<rows, instant, walk, disturbed>>
      /\ map' = [map EXCEPT !.pc = pc, !.box = box, !.filters = filters, !.now = instant]
  BY <1>1 DEF browse
<1>3. map' = [map EXCEPT !.pc = pc, !.box = box, !.filters = filters, !.now = instant,
                         !.total = map.total, !.items = map.items, !.clusters = map.clusters]
  BY <1>2 DEF SearchInv, SearchTypeOK
<1>4. MapIs(map', pc, box, filters, instant, map.total, map.items, map.clusters)
  BY <1>3, MapFields DEF SearchInv
<1>5. SearchTypeOK' /\ Asked' /\ Walking' /\ Tallied'
  BY <1>1, <1>2, <1>4, MapStep
<1>6. map.items = <<>> /\ map.clusters = <<>>
  BY <1>2 DEF SearchInv, Browsing
<1>7. Browsing' /\ BrowseAddsUp'
  BY <1>1, <1>4, <1>6 DEF SearchInv, Browsing, BrowseAddsUp, MapIs
<1>8. QED
  BY <1>5, <1>7 DEF SearchInv

\* What lies inside a box depends on the box, the filters and the instant of the look.
LEMMA SameInside ==
    ASSUME NEW m, NEW n, m.box = n.box, m.filters = n.filters, m.now = n.now
    PROVE  Inside(m) = Inside(n)
BY DEF Inside

\* A finite number of the locations lie inside.
LEMMA InsideFinite ==
    ASSUME NEW m
    PROVE  /\ Inside(m) \subseteq Locations /\ IsFiniteSet(Inside(m))
           /\ Cardinality(Inside(m)) \in Nat /\ Inside(m) \subseteq Nat
<1>1. Locations \subseteq Nat /\ IsFiniteSet(Locations)
  BY SearchAssumption
<1>2. Inside(m) \subseteq Locations
  BY DEF Inside
<1>3. IsFiniteSet(Inside(m))
  BY <1>1, <1>2, FS_Subset
<1>4. QED
  BY <1>1, <1>2, <1>3, FS_CardinalityType

LEMMA BoundsCountStep ==
    ASSUME SearchInv, bounds_count
    PROVE  SearchInv'
<1>1. PICK n : n = Cardinality(Inside(map))
  OBVIOUS
<1>2. PICK pc : pc = IF n > MarkerCap THEN "clusters" ELSE "items"
  OBVIOUS
<1>3. /\ map.pc = "count" /\ UNCHANGED <<rows, instant, walk, disturbed>>
      /\ map' = [map EXCEPT !.total = n, !.pc = pc]
  BY <1>1, <1>2 DEF bounds_count
<1>4. map' = [map EXCEPT !.pc = pc, !.box = map.box, !.filters = map.filters,
                         !.now = map.now, !.total = n, !.items = map.items,
                         !.clusters = map.clusters]
  BY <1>3 DEF SearchInv, SearchTypeOK
<1>5. MapIs(map', pc, map.box, map.filters, map.now, n, map.items, map.clusters)
  BY <1>4, MapFields DEF SearchInv
<1>6. walk.pc = "idle" /\ rows # <<>>
  BY <1>3 DEF SearchInv, SearchTypeOK
<1>7. SearchTypeOK' /\ Asked' /\ Walking' /\ Tallied'
  BY <1>2, <1>3, <1>5, <1>6, MapStep
<1>8. map.items = <<>> /\ map.clusters = <<>> /\ ValidBounds(map.box)
      /\ map.disturbed \in BOOLEAN
  BY <1>3 DEF SearchInv, Browsing
<1>9. Inside(map)' = Inside(map)
  BY <1>3, <1>5 DEF Inside, MapIs
<1>10. n \in Nat /\ MarkerCap \in Nat
  BY <1>1, InsideFinite, SearchAssumption
<1>11. Browsing'
  BY <1>1, <1>2, <1>5, <1>8, <1>9, <1>10 DEF Browsing, MapIs
<1>12. BrowseAddsUp'
  BY <1>2, <1>5 DEF BrowseAddsUp, MapIs
<1>13. QED
  BY <1>7, <1>11, <1>12 DEF SearchInv

LEMMA BoundsPageStep ==
    ASSUME SearchInv, bounds_page
    PROVE  SearchInv'
<1> DEFINE b == map.box
           away == [l \in Locations |-> Abs(2 * rows[l].x - b.west - b.east)
                                          + Abs(2 * rows[l].y - b.south - b.north)]
<1>1. PICK K, s, items : /\ K = away /\ s = Ordered(Inside(map), K)
                         /\ items = First(s, MarkerCap)
  OBVIOUS
<1>2. /\ map.pc = "items" /\ UNCHANGED <<rows, instant, walk, disturbed>>
      /\ map' = [map EXCEPT !.pc = "shown", !.items = items]
  BY <1>1 DEF bounds_page
<1>3. map' = [map EXCEPT !.pc = "shown", !.box = map.box, !.filters = map.filters,
                         !.now = map.now, !.total = map.total, !.items = items,
                         !.clusters = map.clusters]
  BY <1>2 DEF SearchInv, SearchTypeOK
<1>4. MapIs(map', "shown", map.box, map.filters, map.now, map.total, items, map.clusters)
  BY <1>3, MapFields DEF SearchInv
<1>5. walk.pc = "idle" /\ rows # <<>> /\ rows \in [Locations -> Rows]
  BY <1>2 DEF SearchInv, SearchTypeOK
<1>6. SearchTypeOK' /\ Asked' /\ Walking' /\ Tallied'
  BY <1>2, <1>4, <1>5, MapStep
<1>7. map.clusters = <<>> /\ ValidBounds(map.box) /\ map.disturbed \in BOOLEAN
  BY <1>2 DEF SearchInv, Browsing
<1>8. \A l \in Locations : K[l] \in Int
  <2> SUFFICES ASSUME NEW l \in Locations PROVE K[l] \in Int
    OBVIOUS
  <2>1. rows[l].x \in Int /\ rows[l].y \in Int
    <3>1. rows[l] \in Rows
      BY <1>5
    <3>2. QED
      BY <3>1, SearchAssumption
  <2>2. b.west \in Int /\ b.east \in Int /\ b.south \in Int /\ b.north \in Int
    BY <1>7 DEF ValidBounds
  <2>3. PICK x, y, w, e, o, n : /\ x = rows[l].x /\ y = rows[l].y /\ w = b.west /\ e = b.east
                                /\ o = b.south /\ n = b.north
    OBVIOUS
  <2>4. K[l] = Abs(2 * x - w - e) + Abs(2 * y - o - n)
    BY <1>1, <2>3
  <2>5. QED
    BY <2>1, <2>2, <2>3, <2>4 DEF Abs
<1>9. PICK N : N = Cardinality(Inside(map))
  OBVIOUS
<1>10. N \in Nat /\ MarkerCap \in Nat /\ MarkerCap > 0
  BY <1>9, InsideFinite, SearchAssumption
<1>11. StartOf(Inside(map), N, s, MarkerCap, items)
  <2>1. Keyed(Inside(map), K)
    BY <1>8, InsideFinite DEF Keyed
  <2>2. Sorted(Inside(map), K, s)
    BY <1>1, <2>1, InsideFinite, InItsOrder
  <2>3. s \in [1 .. N -> Inside(map)]
    BY <1>9, <2>2 DEF Sorted
  <2>4. QED
    BY <1>1, <1>10, <2>3, FirstOf
<1>12. Len(items) = IF N < MarkerCap THEN N ELSE MarkerCap
  BY <1>11 DEF StartOf
<1>13. Pins' = {}
  <2>1. DOMAIN map'.clusters = {}
    BY <1>4, <1>7 DEF MapIs
  <2>2. QED
    BY <2>1 DEF Pins
<1>14. Cardinality(Pins') = 0
  BY <1>13, FS_EmptySet
<1>15. map.disturbed = FALSE => map.total = N /\ N <= MarkerCap
  BY <1>2, <1>9 DEF SearchInv, Browsing
<1>16. Len(items) <= MarkerCap /\ (map.disturbed = FALSE => map.total = Len(items) + 0)
  BY <1>10, <1>12, <1>15
<1>17. BrowseAddsUp'
  <2>1. map'.pc = "shown" /\ map'.items = items /\ map'.clusters = <<>>
        /\ map'.total = map.total /\ map'.disturbed = map.disturbed
    BY <1>4, <1>7 DEF MapIs
  <2>2. QED
    BY <1>7, <1>14, <1>16, <2>1 DEF BrowseAddsUp
<1>18. Browsing'
  BY <1>4, <1>7 DEF Browsing, MapIs
<1>19. QED
  BY <1>6, <1>17, <1>18 DEF SearchInv

\* The pins of the clusters, cell by cell, are the locations inside the box.
Clustered(S, cell, clusters) ==
    clusters = [c \in {cell[l] : l \in S} |-> Cardinality({l \in S : cell[l] = c})]
PinsOf(clusters, n) == {p \in (DOMAIN clusters) \X (1 .. n) : p[2] <= clusters[p[1]]}

LEMMA PinsAreInside ==
    ASSUME NEW S, NEW n, NEW cell, NEW P, NEW clusters,
           S \subseteq Locations, n = Cardinality(Locations),
           Clustered(S, cell, clusters), P = PinsOf(clusters, n)
    PROVE  Cardinality(P) = Cardinality(S)
<1> USE DEF Clustered, PinsOf
<1> DEFINE In(c) == {l \in S : cell[l] = c}
           Cells == {cell[l] : l \in S}
           key == [l \in Locations |-> 0]
           Nth == [c \in Cells |-> Ordered(In(c), key)]
           g == [p \in P |-> Nth[p[1]][p[2]]]
<1>1. Locations \subseteq Nat /\ IsFiniteSet(Locations) /\ n \in Nat
  BY SearchAssumption, FS_CardinalityType
<1>2. ASSUME NEW c \in Cells
      PROVE  /\ Sorted(In(c), key, Nth[c]) /\ Cardinality(In(c)) \in Nat
             /\ Cardinality(In(c)) <= n /\ clusters[c] = Cardinality(In(c))
  <2>1. IsFiniteSet(In(c)) /\ Cardinality(In(c)) <= n /\ In(c) \subseteq Nat
    BY <1>1, FS_Subset
  <2>2. Keyed(In(c), key)
    <3>1. \A l \in In(c) : key[l] = 0
      OBVIOUS
    <3> HIDE DEF key, In
    <3>2. QED
      BY <3>1 DEF Keyed
  <2>3. Nth[c] = Ordered(In(c), key)
    OBVIOUS
  <2>4. clusters[c] = Cardinality(In(c))
    OBVIOUS
  <2> HIDE DEF Nth, In, key
  <2>5. Sorted(In(c), key, Nth[c])
    BY <2>1, <2>2, <2>3, InItsOrder
  <2>6. QED
    BY <2>1, <2>4, <2>5 DEF Sorted
<1>3. ASSUME NEW c \in Cells
      PROVE  /\ \A i \in 1 .. clusters[c] : Nth[c][i] \in In(c)
             /\ \A i, j \in 1 .. clusters[c] : i < j => Nth[c][i] # Nth[c][j]
             /\ \A l \in In(c) : \E i \in 1 .. clusters[c] : Nth[c][i] = l
             /\ clusters[c] \in Nat /\ clusters[c] <= n
  <2>1. Sorted(In(c), key, Nth[c]) /\ clusters[c] = Cardinality(In(c))
        /\ clusters[c] \in Nat /\ clusters[c] <= n
    BY <1>2
  <2>2. In(c) \subseteq Nat
    BY <1>1
  <2>3. PICK k : k = key
    OBVIOUS
  <2>4. \A l \in In(c) : k[l] = 0
    BY <2>3
  <2> HIDE DEF Nth, In, key
  <2>5. \A l \in In(c) : ~Before(k, l, l)
    BY <2>2, <2>4 DEF Before
  <2>6. QED
    BY <2>1, <2>3, <2>5 DEF Sorted
<1>4. \A p \in P : p = <<p[1], p[2]>> /\ p[1] \in Cells /\ p[2] \in 1 .. clusters[p[1]]
  <2> SUFFICES ASSUME NEW p \in P
               PROVE  p = <<p[1], p[2]>> /\ p[1] \in Cells /\ p[2] \in 1 .. clusters[p[1]]
    OBVIOUS
  <2>1. DOMAIN clusters = Cells
    OBVIOUS
  <2>2. p = <<p[1], p[2]>> /\ p[1] \in Cells /\ p[2] \in 1 .. n /\ p[2] <= clusters[p[1]]
    BY <2>1
  <2>3. clusters[p[1]] \in Nat
    BY <1>3, <2>2
  <2>4. QED
    BY <2>2, <2>3
<1>5. ASSUME NEW c \in Cells, NEW i \in 1 .. clusters[c]
      PROVE  <<c, i>> \in P
  <2>1. DOMAIN clusters = Cells
    OBVIOUS
  <2>2. clusters[c] \in Nat /\ clusters[c] <= n
    BY <1>3
  <2>3. i \in 1 .. n /\ i <= clusters[c]
    BY <1>1, <2>2
  <2>4. QED
    BY <2>1, <2>3
<1>6. \A p \in P : g[p] = Nth[p[1]][p[2]] /\ g[p] \in S /\ cell[g[p]] = p[1]
  <2> SUFFICES ASSUME NEW p \in P
               PROVE  g[p] = Nth[p[1]][p[2]] /\ g[p] \in S /\ cell[g[p]] = p[1]
    OBVIOUS
  <2>1. g[p] = Nth[p[1]][p[2]]
    OBVIOUS
  <2>2. g[p] \in In(p[1])
    BY <1>3, <1>4, <2>1
  <2> HIDE DEF g, Nth
  <2>3. QED
    BY <2>1, <2>2
<1>7. g \in [P -> S]
  BY <1>6
<1>8. ASSUME NEW p \in P, NEW q \in P, g[p] = g[q] PROVE p = q
  <2> HIDE DEF g, Nth, In, Cells, Clustered, PinsOf
  <2>1. p[1] = q[1]
    BY <1>6, <1>8
  <2>2. PICK c, i, j : c = p[1] /\ i = p[2] /\ j = q[2]
    OBVIOUS
  <2>3. /\ c \in Cells /\ i \in 1 .. clusters[c] /\ j \in 1 .. clusters[c]
        /\ p = <<c, i>> /\ q = <<c, j>> /\ Nth[c][i] = Nth[c][j]
    BY <1>4, <1>6, <1>8, <2>1, <2>2
  <2>4. PICK s, k : s = Nth[c] /\ k = clusters[c]
    OBVIOUS
  <2>5. k \in Nat /\ \A a, b \in 1 .. k : a < b => s[a] # s[b]
    BY <1>3, <2>3, <2>4
  <2>6. i \in 1 .. k /\ j \in 1 .. k /\ s[i] = s[j]
    BY <2>3, <2>4
  <2>7. i = j
    BY <2>5, <2>6
  <2>8. QED
    BY <2>3, <2>7
<1>9. ASSUME NEW l \in S PROVE \E p \in P : g[p] = l
  <2>1. PICK c : c = cell[l]
    OBVIOUS
  <2>2. c \in Cells /\ l \in In(c)
    BY <2>1
  <2> HIDE DEF g, Nth, In, Cells
  <2>3. PICK i \in 1 .. clusters[c] : Nth[c][i] = l
    BY <1>3, <2>2
  <2>4. <<c, i>> \in P
    BY <1>5, <2>2
  <2>5. g[<<c, i>>] = Nth[c][i]
    BY <1>6, <2>4
  <2>6. QED
    BY <2>3, <2>4, <2>5
<1>10. g \in Bijection(P, S)
  <2> HIDE DEF g
  <2>1. QED
    BY <1>7, <1>8, <1>9 DEF Bijection, Injection, Surjection, IsInjective
<1>11. ExistsBijection(P, S)
  BY <1>10 DEF ExistsBijection
<1>12. IsFiniteSet(S)
  BY <1>1, FS_Subset
<1>13. ExistsBijection(S, P)
  BY <1>11, Fun_ExistsBijSymmetric
<1>14. IsFiniteSet(P) /\ Cardinality(P) = Cardinality(S)
  BY <1>12, <1>13, FS_Bijection
<1>15. QED
  BY <1>14

LEMMA BoundsClustersStep ==
    ASSUME SearchInv, bounds_clusters
    PROVE  SearchInv'
<1>1. PICK S, cell : S = Inside(map) /\ cell = [l \in Locations |-> Cell(rows[l])]
  OBVIOUS
<1>2. PICK clusters :
        clusters = [c \in {cell[l] : l \in S} |-> Cardinality({l \in S : cell[l] = c})]
  OBVIOUS
<1>3. S \subseteq Locations /\ Cardinality(S) \in Nat
  BY <1>1, InsideFinite
<1>4. clusters = [c \in {Cell(rows[l]) : l \in Inside(map)} |->
                    Cardinality({l \in Inside(map) : Cell(rows[l]) = c})]
  <2>1. \A l \in S : cell[l] = Cell(rows[l])
    BY <1>1, <1>3
  <2>2. {cell[l] : l \in S} = {Cell(rows[l]) : l \in S}
    BY <2>1
  <2>3. \A c : {l \in S : cell[l] = c} = {l \in S : Cell(rows[l]) = c}
    BY <2>1
  <2>4. QED
    BY <1>1, <1>2, <2>2, <2>3
<1>5. /\ map.pc = "clusters" /\ UNCHANGED <<rows, instant, walk, disturbed>>
      /\ map' = [map EXCEPT !.pc = "shown", !.clusters = clusters]
  BY <1>4 DEF bounds_clusters
<1>6. map' = [map EXCEPT !.pc = "shown", !.box = map.box, !.filters = map.filters,
                         !.now = map.now, !.total = map.total, !.items = map.items,
                         !.clusters = clusters]
  BY <1>5 DEF SearchInv, SearchTypeOK
<1>7. MapIs(map', "shown", map.box, map.filters, map.now, map.total, map.items, clusters)
  BY <1>6, MapFields DEF SearchInv
<1>8. walk.pc = "idle" /\ rows # <<>>
  BY <1>5 DEF SearchInv, SearchTypeOK
<1>9. SearchTypeOK' /\ Asked' /\ Walking' /\ Tallied'
  BY <1>5, <1>7, <1>8, MapStep
<1>10. map.items = <<>> /\ map.disturbed \in BOOLEAN
  BY <1>5 DEF SearchInv, Browsing
<1>11. Len(map.items) = 0 /\ MarkerCap \in Nat
  BY <1>10, SearchAssumption
<1>12. PICK n, P : /\ n = Cardinality(Locations)
                   /\ P = {p \in (DOMAIN clusters) \X (1 .. n) : p[2] <= clusters[p[1]]}
  OBVIOUS
<1>13. Cardinality(P) = Cardinality(S)
  <2>1. Clustered(S, cell, clusters)
    BY <1>2 DEF Clustered
  <2>2. P = PinsOf(clusters, n)
    BY <1>12 DEF PinsOf
  <2>3. QED
    BY <1>3, <1>12, <2>1, <2>2, PinsAreInside
<1>14. Pins' = P
  <2>1. map'.clusters = clusters
    BY <1>7 DEF MapIs
  <2>2. QED
    BY <1>12, <2>1 DEF Pins
<1>15. map.disturbed = FALSE => map.total = Cardinality(S)
  BY <1>1, <1>5 DEF SearchInv, Browsing
<1>16. BrowseAddsUp'
  <2>1. map'.pc = "shown" /\ map'.items = map.items /\ map'.total = map.total
        /\ map'.disturbed = map.disturbed
    BY <1>7 DEF MapIs
  <2>2. QED
    BY <1>3, <1>10, <1>11, <1>13, <1>14, <1>15, <2>1 DEF BrowseAddsUp
<1>17. Browsing'
  BY <1>7, <1>10 DEF Browsing, MapIs
<1>18. QED
  BY <1>9, <1>16, <1>17 DEF SearchInv

\* The inductive invariant of a search.
THEOREM SearchInvariance == SearchSpec => []SearchInv
<1>1. SearchInit => SearchInv
  BY SearchStarts
<1>2. SearchInv /\ [SearchNext]_searchVars => SearchInv'
  <2> SUFFICES ASSUME SearchInv, [SearchNext]_searchVars PROVE SearchInv'
    OBVIOUS
  <2>1. CASE Load
    BY <2>1, LoadStep
  <2>2. ASSUME NEW s \in InputSorts, NEW f \in InputFilters, NEW r \in InputRadii,
               search([sort |-> s, filters |-> f, radius |-> r])
        PROVE  SearchInv'
    <3>1. PICK input : input = [sort |-> s, filters |-> f, radius |-> r]
      OBVIOUS
    <3>2. input = [sort |-> input.sort, radius |-> input.radius, filters |-> input.filters]
      BY <3>1
    <3>3. search(input)
      BY <2>2, <3>1
    <3>4. QED
      BY <3>2, <3>3, SearchStep
  <2>3. CASE next_page
    BY <2>3, NextPageStep
  <2>4. ASSUME NEW s \in InputSorts, resort(s) PROVE SearchInv'
    BY <2>4, ResortStep
  <2>5. CASE count
    BY <2>5, CountStep
  <2>6. CASE page
    BY <2>6, PageStep
  <2>7. ASSUME NEW b \in InputBoxes, NEW f \in InputFilters, browse(b, f) PROVE SearchInv'
    BY <2>7, BrowseStep
  <2>8. CASE bounds_count
    BY <2>8, BoundsCountStep
  <2>9. CASE bounds_page
    BY <2>9, BoundsPageStep
  <2>10. CASE bounds_clusters
    BY <2>10, BoundsClustersStep
  <2>11. ASSUME NEW l \in Locations, NEW row \in Rows, write(l, row) PROVE SearchInv'
    BY <2>11, WriteStep
  <2>12. ASSUME NEW moment \in Moments, pass(moment) PROVE SearchInv'
    BY <2>12, PassStep
  <2>13. CASE UNCHANGED searchVars
    <3>1. UNCHANGED <<rows, instant, walk, map, disturbed>>
      BY <2>13 DEF searchVars
    <3>2. SearchTypeOK'
      BY <3>1 DEF SearchInv, SearchTypeOK
    <3>3. QED
      BY <3>1, <3>2, WalkKept, MapKept DEF SearchInv
  <2>14. QED
    BY <2>1, <2>2, <2>3, <2>4, <2>5, <2>6, <2>7, <2>8, <2>9, <2>10, <2>11, <2>12, <2>13
       DEF SearchNext
<1>3. QED
  BY <1>1, <1>2, PTL DEF SearchSpec

\* How often a location is listed.
LEMMA HowOften ==
    ASSUME NEW s, NEW l, DOMAIN s = 1 .. Len(s)
    PROVE  /\ OnceIn(s, l) => Cardinality({n \in DOMAIN s : s[n] = l}) = 1
           /\ NoneIn(s, l) => Cardinality({n \in DOMAIN s : s[n] = l}) = 0
<1>1. ASSUME OnceIn(s, l) PROVE Cardinality({n \in DOMAIN s : s[n] = l}) = 1
  <2>1. PICK n \in 1 .. Len(s) : s[n] = l /\ \A m \in 1 .. Len(s) : s[m] = l => m = n
    BY <1>1 DEF OnceIn
  <2>2. {m \in DOMAIN s : s[m] = l} = {n}
    BY <2>1
  <2>3. QED
    BY <2>2, FS_Singleton
<1>2. ASSUME NoneIn(s, l) PROVE Cardinality({n \in DOMAIN s : s[n] = l}) = 0
  <2>1. {m \in DOMAIN s : s[m] = l} = {}
    BY <1>2 DEF NoneIn
  <2>2. QED
    BY <2>1, FS_EmptySet
<1>3. QED
  BY <1>1, <1>2

\* A list that has each member of a set once, and nothing else, is as long as the set.
LEMMA ListOfAll ==
    ASSUME NEW s \in Seq(Locations), NEW S, S \subseteq Locations,
           \A l \in Locations : IF l \in S THEN OnceIn(s, l) ELSE NoneIn(s, l)
    PROVE  Len(s) = Cardinality(S)
<1>1. Len(s) \in Nat /\ DOMAIN s = 1 .. Len(s) /\ \A n \in 1 .. Len(s) : s[n] \in Locations
  BY LenProperties, ElementOfSeq
<1>2. PICK N : N = Len(s)
  OBVIOUS
<1>3. \A n \in 1 .. N : s[n] \in S
  BY <1>1, <1>2 DEF NoneIn
<1>4. \A m, n \in 1 .. N : s[m] = s[n] => m = n
  <2> SUFFICES ASSUME NEW m \in 1 .. N, NEW n \in 1 .. N, s[m] = s[n] PROVE m = n
    OBVIOUS
  <2>1. OnceIn(s, s[n])
    BY <1>1, <1>2, <1>3
  <2>2. QED
    BY <1>2, <2>1 DEF OnceIn
<1>5. \A l \in S : \E n \in 1 .. N : s[n] = l
  BY <1>2 DEF OnceIn
<1> DEFINE g == [n \in 1 .. N |-> s[n]]
<1>6. g \in Bijection(1 .. N, S)
  <2>1. g \in [1 .. N -> S] /\ \A n \in 1 .. N : g[n] = s[n]
    BY <1>3
  <2> HIDE DEF g
  <2>2. QED
    BY <1>4, <1>5, <2>1 DEF Bijection, Injection, Surjection, IsInjective
<1>7. ExistsBijection(1 .. N, S)
  BY <1>6 DEF ExistsBijection
<1>8. IsFiniteSet(1 .. N) /\ Cardinality(1 .. N) = N
  <2>1. N \in Nat
    BY <1>1, <1>2
  <2>2. QED
    BY <2>1, FS_Interval
<1>9. QED
  BY <1>2, <1>7, <1>8, FS_Bijection

LEMMA SearchHolds == SearchInv => NothingMissing
<1> SUFFICES ASSUME SearchInv PROVE PagesComplete
  BY DEF SearchInv, NothingMissing
<1>1. CASE walk.pc = "idle"
  <2>1. walk.listed = <<>> /\ ~Ended
    BY <1>1 DEF SearchInv, SearchTypeOK, Ended
  <2>2. \A l : Times(l) = 0
    <3>1. \A l : {n \in DOMAIN walk.listed : walk.listed[n] = l} = {}
      BY <2>1
    <3>2. QED
      BY <3>1, FS_EmptySet DEF Times
  <2>3. QED
    BY <2>1, <2>2 DEF PagesComplete
<1>2. CASE walk.pc # "idle"
  <2>1. walk.listed \in Seq(Locations) /\ DOMAIN walk.listed = 1 .. Len(walk.listed)
    BY <1>2, LenProperties DEF SearchInv, Asked
  <2>2. ASSUME NEW l \in Locations \ disturbed
        PROVE  /\ Times(l) <= 1
               /\ Ended => (Times(l) = 1) = FILTERS(rows[l], walk.request, instant)
    <3>1. ListedTruly(l) /\ Unmoved(l)
      BY <1>2 DEF SearchInv, Walking
    <3>2. FILTERS(rows[l], walk.request, instant) <=> Found(l)
      BY <1>2, <3>1, SameRank DEF Found
    <3>3. Ended => Passed(l)
      BY DEF Ended, Passed
    <3>4. CASE Found(l) /\ Passed(l)
      <4>1. Times(l) = 1
        BY <2>1, <3>1, <3>4, HowOften DEF ListedTruly, Times
      <4>2. QED
        BY <3>2, <3>4, <4>1 DEF FILTERS, Passes
    <3>5. CASE ~(Found(l) /\ Passed(l))
      <4>1. Times(l) = 0
        BY <2>1, <3>1, <3>5, HowOften DEF ListedTruly, Times
      <4>2. QED
        BY <3>2, <3>3, <3>5, <4>1 DEF FILTERS, Passes
    <3>6. QED
      BY <3>4, <3>5
  <2>3. ASSUME Ended, disturbed = {} PROVE walk.total = Len(walk.listed)
    <3>1. PICK S : S = Matching(rows, walk.request, walk.now)
      OBVIOUS
    <3>2. walk.total = Cardinality(S)
      BY <2>3, <3>1 DEF SearchInv, Tallied, Ended
    <3>3. \A l \in Locations : IF l \in S THEN OnceIn(walk.listed, l) ELSE NoneIn(walk.listed, l)
      <4> SUFFICES ASSUME NEW l \in Locations
                   PROVE  IF l \in S THEN OnceIn(walk.listed, l) ELSE NoneIn(walk.listed, l)
        OBVIOUS
      <4>1. ListedTruly(l)
        BY <1>2, <2>3 DEF SearchInv, Walking
      <4>2. Passed(l) /\ (Found(l) <=> l \in S)
        BY <2>3, <3>1 DEF Ended, Passed, Found, Matching
      <4>3. QED
        BY <4>1, <4>2 DEF ListedTruly
    <3>4. S \subseteq Locations
      BY <3>1 DEF Matching
    <3>5. QED
      BY <2>1, <3>2, <3>3, <3>4, ListOfAll
  <2>4. QED
    BY <2>2, <2>3 DEF PagesComplete
<1>3. QED
  BY <1>1, <1>2

(* Whatever is written between the pages of a search and however the clock moves the
   score, what stayed as it was is listed once if it matches and never otherwise, and a
   map area's markers or clusters stand for the number counted. *)
THEOREM SearchLeavesNothingOut == SearchSpec => []NothingMissing
BY SearchInvariance, SearchHolds, PTL
=============================================================================
