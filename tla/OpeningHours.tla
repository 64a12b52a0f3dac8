----------------------------- MODULE OpeningHours -----------------------------
(***************************************************************************)
(* The two readers of a location's weekly hours, the details page in Rust  *)
(* (hours.rs) and the search in SQL (migration 0020), and the two readers  *)
(* of its last verification, the freshness category of the details page    *)
(* and the ladder inside the search's score.  Wall-clock times are slots   *)
(* of a day; instants are already in the location's own time zone, as both *)
(* readers convert once.                                                   *)
(***************************************************************************)
EXTENDS Integers, FiniteSets, Sequences, SequencesExt

CONSTANTS
    Slots,       \* wall-clock times a day is divided into
    fresh_days, recent_days, aging_days, stale_days

ASSUME HoursAssumption ==
    /\ Slots \in Nat \ {0}
    /\ {fresh_days, recent_days, aging_days, stale_days} \subseteq Nat
    /\ fresh_days < recent_days /\ recent_days < aging_days /\ aging_days < stale_days

IsoDay == 1 .. 7
Time == 0 .. Slots - 1

AllDayRange(d) == [day |-> d, opens_at |-> 0, closes_at |-> Slots - 1, all_day |-> TRUE]
RangeRow(d, r) == [day |-> d, opens_at |-> r[1], closes_at |-> r[2], all_day |-> FALSE]

\* hours_unknown of the location, and the rows of opening_hours.
Unknown == [unknown |-> TRUE, rows |-> {}]
Weekly(rows) == [unknown |-> FALSE, rows |-> rows]

-----------------------------------------------------------------------------
\* The readers.  An instant is a slot of the week.

Instants == 0 .. 7 * Slots - 1
today(at) == at \div Slots + 1
yesterday(d) == IF d = 1 THEN 7 ELSE d - 1
local_time(at) == at % Slots

overnight(r) == ~r.all_day /\ r.closes_at <= r.opens_at

OpenFor(r, d, t) ==
    \/ /\ r.day = d
       /\ \/ r.all_day
          \/ overnight(r) /\ r.opens_at <= t
          \/ ~overnight(r) /\ r.opens_at <= t /\ t < r.closes_at
    \/ r.day = yesterday(d) /\ overnight(r) /\ t < r.closes_at

status_at(h, at) ==
    CASE h.unknown -> "Unknown"
      [] ~h.unknown /\ \E r \in h.rows : OpenFor(r, today(at), local_time(at)) -> "Open"
      [] OTHER -> "Closed"

\* Mutant: the day before Monday is day 0.
bikesnest_is_open_atUnwrapped(rows, at) ==
    LET dow == today(at)
        t == local_time(at)
    IN  \E oh \in rows :
          \/ /\ oh.day = dow
             /\ \/ oh.all_day
                \/ oh.opens_at <= t /\ t < oh.closes_at
                \/ oh.closes_at <= oh.opens_at /\ oh.opens_at <= t
          \/ /\ oh.day = dow - 1 /\ ~oh.all_day
             /\ oh.closes_at <= oh.opens_at /\ t < oh.closes_at

\* The function of migration 0020: it reads the rows and not hours_unknown.
bikesnest_is_open_at(rows, at) ==
    LET dow == today(at)
        prev_dow == today((at - Slots) % (7 * Slots))
        t == local_time(at)
    IN  \E oh \in rows :
          \/ /\ oh.day = dow
             /\ \/ oh.all_day
                \/ oh.opens_at <= t /\ t < oh.closes_at
                \/ oh.closes_at <= oh.opens_at /\ oh.opens_at <= t
          \/ /\ oh.day = prev_dow /\ ~oh.all_day
             /\ oh.closes_at <= oh.opens_at /\ t < oh.closes_at

\* Freshness.  Ages are in days, negative when verified in the future.
days(age) == IF age < 0 THEN 0 ELSE age

categorize(age) ==
    CASE days(age) < fresh_days -> "Fresh"
      [] fresh_days <= days(age) /\ days(age) < recent_days -> "RecentlyVerified"
      [] recent_days <= days(age) /\ days(age) < aging_days -> "Aging"
      [] aging_days <= days(age) /\ days(age) < stale_days -> "Stale"
      [] OTHER -> "VeryStale"

\* The freshness term of RECOMMENDED_SORT_KEY, in hundredths.
FreshnessScore(age) ==
    LET d == days(age)
    IN  IF d < fresh_days THEN 100 ELSE IF d < recent_days THEN 75
        ELSE IF d < aging_days THEN 50 ELSE IF d < stale_days THEN 25 ELSE 10
=============================================================================
