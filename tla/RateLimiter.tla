----------------------------- MODULE RateLimiter -----------------------------
(***************************************************************************)
(* The two rate-limit stores of rate_limit.rs behind the port              *)
(* RateLimiter: buckets in the memory of one process, bounded in number,   *)
(* and sorted sets in ValKey that several processes share, each reading    *)
(* its own clock.                                                          *)
(***************************************************************************)
EXTENDS Integers, FiniteSets, FiniteSetsExt

CONSTANTS
    Keys,          \* rate-limit keys
    Window,        \* the window each key is always checked with
    Limit,         \* the limit each key is checked with
    SharedKeys,    \* those ValKey is asked about: its sets do not touch each other
    Instances,     \* processes that share a ValKey store
    ClockSkew,     \* how far each process's clock is ahead of real time
    FailOpen,      \* RATE_LIMIT_FAIL_OPEN
    MAX_BUCKETS, Headroom,   \* the cap on buckets, and the tenth of it a sweep frees
    SWEEP_EVERY_NEW_KEYS,
    MaxClock,      \* bound on the time the model runs
    MaxOutages     \* bound on the number of failing calls of ValKey

ASSUME LimiterAssumption ==
    /\ SharedKeys \subseteq Keys
    /\ IsFiniteSet(Instances) /\ Instances # {}
    /\ Window \in [Keys -> Nat \ {0}] /\ ClockSkew \in [Instances -> Nat]
    /\ Limit \in Nat \ {0} /\ FailOpen \in BOOLEAN
    /\ MAX_BUCKETS \in Nat \ {0} /\ Headroom \in 1 .. MAX_BUCKETS
    /\ SWEEP_EVERY_NEW_KEYS \in Nat \ {0}
    /\ MaxClock \in Nat /\ MaxOutages \in Nat

VARIABLES
    backend,     \* the store the configuration selected
    clock,       \* real time
    buckets,     \* the map of InMemoryRateLimiter, a function of the live keys
    sinceSweep,  \* new keys since the last sweep
    zset,        \* ValKey: each key's sorted set
    expiry,      \* ValKey: when each key's set is dropped
    connected,   \* the processes whose lazy connection is made
    outages,
    counted,     \* history: each key's remembered admissions
    verdict      \* the last answer of a check

limiterVars == <<backend, clock, buckets, sinceSweep, zset, expiry, connected,
                 outages, counted, verdict>>
memory == <<buckets, sinceSweep>>
valkey == <<zset, expiry, connected, outages>>

MaxSkew == Max({ClockSkew[i] - ClockSkew[j] : i, j \in Instances})

NoVerdict == [key |-> "none", answer |-> "none"]

LimiterInit ==
    /\ backend = "unset"
    /\ clock = 0
    /\ buckets = [k \in {} |-> 0] /\ sinceSweep = 0
    /\ zset = [k \in Keys |-> {}] /\ expiry = [k \in Keys |-> 0]
    /\ connected = {} /\ outages = 0
    /\ counted = [k \in Keys |-> {}]
    /\ verdict = NoVerdict

rate_limiter_from_config ==
    /\ backend = "unset"
    /\ backend' \in {"memory", "valkey"}
    /\ UNCHANGED <<clock, memory, valkey, counted, verdict>>

Answer(k, answer) == verdict' = [key |-> k, answer |-> answer]

\* An entry of a deque or a sorted set: its stamp, and what tells it from the
\* others, which is the random part of a member.  When it was really made is history.
Admission(k, stamp) ==
    [at |-> clock, nth |-> Cardinality({e \in counted[k] : e.at = clock}), score |-> stamp]
Recorded(k, stamp) == counted' = [counted EXCEPT ![k] = @ \cup {Admission(k, stamp)}]

-----------------------------------------------------------------------------
\* In memory

\* The keys a sweep keeps: those whose own window has not passed, and of these
\* the most recently touched when there are too many.
Fresh(now) == {k \in DOMAIN buckets : now - buckets[k].last_seen < Window[k]}

Oldest(live, n) ==
    {S \in SUBSET live : /\ Cardinality(S) = n
                         /\ \A k \in S, l \in live \ S :
                              buckets[k].last_seen <= buckets[l].last_seen}

Evicted(live) ==
    IF Cardinality(live) < MAX_BUCKETS
    THEN {{}}
    ELSE Oldest(live, Cardinality(live) - (MAX_BUCKETS - Headroom))

SweepDue(k) ==
    /\ k \notin DOMAIN buckets
    /\ \/ sinceSweep + 1 >= SWEEP_EVERY_NEW_KEYS
       \/ Cardinality(DOMAIN buckets) >= MAX_BUCKETS

\* Mutant: an event exactly one window old still counts.
TrimmedLate(k, live) ==
    IF k \in live
    THEN {e \in buckets[k].events : clock - e.score <= Window[k]}
    ELSE {}

\* The bucket of k with the events outside its window dropped.
Trimmed(k, live) ==
    IF k \in live
    THEN {e \in buckets[k].events : clock - e.score < Window[k]}
    ELSE {}

\* InMemoryRateLimiter::check, in the mutex from start to end.
CheckMemory(k, live) ==
    LET events == Trimmed(k, live)
        over == Cardinality(events) >= Limit
        new == IF over THEN {} ELSE {Admission(k, clock)}
    IN  /\ buckets' = [l \in live \cup {k} |->
                         IF l = k THEN [events |-> events \cup new, last_seen |-> clock]
                         ELSE buckets[l]]
        /\ Answer(k, IF over THEN "limited" ELSE "allowed")
        /\ counted' = [l \in Keys |->
                         LET held == IF l \in DOMAIN buckets \ live /\ l \in Fresh(clock)
                                     THEN {} ELSE counted[l]
                         IN  IF l = k THEN held \cup new ELSE held]

check_memory(k) ==
    /\ backend = "memory"
    /\ \/ /\ ~SweepDue(k)
          /\ sinceSweep' = sinceSweep + (IF k \in DOMAIN buckets THEN 0 ELSE 1)
          /\ CheckMemory(k, DOMAIN buckets)
       \/ /\ SweepDue(k)
          /\ sinceSweep' = 0
          /\ \E gone \in Evicted(Fresh(clock)) : CheckMemory(k, Fresh(clock) \ gone)
    /\ UNCHANGED <<backend, clock, valkey>>

-----------------------------------------------------------------------------
\* ValKey

\* now_millis of a process.
now_millis(i) == clock + ClockSkew[i]

\* RATE_LIMIT_LUA: one script, atomic in the store.
Counted(k, now) == {e \in zset[k] : e.score > now - Window[k]}

Under(k, now) == Cardinality(Counted(k, now)) < Limit

RATE_LIMIT_LUA(k, now) ==
    LET count == Counted(k, now)
    IN  IF Under(k, now)
        THEN /\ zset' = [zset EXCEPT ![k] = count \cup {Admission(k, now)}]
             /\ expiry' = [expiry EXCEPT ![k] = clock + Window[k]]
        ELSE zset' = [zset EXCEPT ![k] = count] /\ UNCHANGED expiry

Outage == outages < MaxOutages /\ outages' = outages + 1

\* The connection is made on first use: when it cannot be, the answer is yes,
\* whatever FailOpen says.
connect_fails(i, k) ==
    /\ backend = "valkey" /\ i \notin connected
    /\ Outage
    /\ Answer(k, "unmetered")
    /\ UNCHANGED <<backend, clock, memory, zset, expiry, connected, counted>>

check_valkey(i, k) ==
    /\ backend = "valkey"
    /\ connected' = connected \cup {i}
    /\ RATE_LIMIT_LUA(k, now_millis(i))
    /\ IF Under(k, now_millis(i))
       THEN Answer(k, "allowed") /\ Recorded(k, now_millis(i))
       ELSE Answer(k, "limited") /\ UNCHANGED counted
    /\ UNCHANGED <<backend, clock, memory, outages>>

\* The script fails, or its answer is lost after it ran.
eval_fails(i, k) ==
    /\ backend = "valkey"
    /\ connected' = connected \cup {i}
    /\ Outage
    /\ Answer(k, IF FailOpen THEN "unmetered" ELSE "unavailable")
    /\ \/ UNCHANGED <<zset, expiry, counted>>
       \/ /\ RATE_LIMIT_LUA(k, now_millis(i))
          /\ IF Under(k, now_millis(i)) THEN Recorded(k, now_millis(i)) ELSE UNCHANGED counted
    /\ UNCHANGED <<backend, clock, memory>>

\* Time passes; ValKey drops the sets that expire.  The history keeps what a
\* property may still look at.
Recent(k, age) == {e \in counted[k] : clock - e.at < age}

LimiterTick ==
    /\ backend # "unset" /\ clock < MaxClock
    /\ clock' = clock + 1
    /\ zset' = [k \in Keys |-> IF expiry[k] <= clock' THEN {} ELSE zset[k]]
    /\ counted' = [k \in Keys |-> {e \in counted[k] : clock' - e.at < Window[k] + MaxSkew}]
    /\ verdict' = NoVerdict
    /\ UNCHANGED <<backend, memory, expiry, connected, outages>>

LimiterNext ==
    \/ rate_limiter_from_config
    \/ LimiterTick
    \/ \E k \in Keys : check_memory(k)
    \/ \E k \in SharedKeys, i \in Instances :
         check_valkey(i, k) \/ connect_fails(i, k) \/ eval_fails(i, k)

LimiterSpec == LimiterInit /\ [][LimiterNext]_limiterVars

-----------------------------------------------------------------------------
\* Properties

Skew == IF backend = "valkey" THEN MaxSkew ELSE 0

(* Sweeps, expiry and clocks that disagree never let more than Limit requests
   through in a window, less the skew between the clocks: only the eviction of
   live buckets at the cap, and calls that failed open, are not counted. *)
WindowBound == \A k \in Keys : Cardinality(Recent(k, Window[k] - Skew)) <= Limit

(* "Never a false 429": a request is refused over the limit only when Limit
   requests of its key went through in the last window, plus the skew between
   the clocks, whatever was swept, evicted, expired or lost. *)
NoFalse429 ==
    verdict.answer = "limited" => Cardinality(Recent(verdict.key, Window[verdict.key] + Skew)) >= Limit

(* The map never holds more than MAX_BUCKETS keys. *)
BucketsBounded == Cardinality(DOMAIN buckets) <= MAX_BUCKETS

(* The limiter refuses whom it must, nobody else, and within its memory. *)
LimiterTruthful == WindowBound /\ NoFalse429 /\ BucketsBounded
=============================================================================
