------------------------------ MODULE HoursForm ------------------------------
(***************************************************************************)
(* A location's weekly hours on their way from the contribution form       *)
(* through the table opening_hours to the details page, the search and     *)
(* back into the edit form.                                                *)
(***************************************************************************)
EXTENDS OpeningHours

CONSTANT BusyDays    \* the pairs of days whose fields are filled in

ASSUME BusyDaysAssumption == BusyDays \subseteq (1 .. 7) \X (1 .. 7)

VARIABLES
    form,       \* the fields last posted
    hours,      \* what the details reader loads
    formError   \* whether the form was refused

hoursVars == <<form, hours, formError>>

Blank == -1      \* an empty time field
Garbled == -2    \* one that does not parse

-----------------------------------------------------------------------------
\* The form

DayState == {"unknown", "closed", "all_day", "ranges"}
DayFields(state, r1, r2) == [state |-> state, r1 |-> r1, r2 |-> r2]
NoRange == <<Blank, Blank>>

Given(f) == {r \in {f.r1, f.r2} : r # NoRange}

\* Minutes a range covers of the day it is given for, read as one circle.
segments(r) == IF r[2] > r[1] THEN {t \in Time : r[1] <= t /\ t < r[2]}
               ELSE {t \in Time : r[1] <= t \/ t < r[2]}
ranges_overlap(a, b) == segments(a) \cap segments(b) # {}

ValidRange(r) == r[1] \in Time /\ r[2] \in Time /\ r[1] # r[2]

ValidDay(f) ==
    f.state = "ranges" =>
      /\ Given(f) # {}
      /\ \A r \in Given(f) : ValidRange(r)
      /\ f.r1 # NoRange /\ f.r2 # NoRange => ~ranges_overlap(f.r1, f.r2)

DayRows(d, f) ==
    CASE f.state = "all_day" -> {AllDayRange(d)}
      [] f.state = "ranges" -> {RangeRow(d, r) : r \in Given(f)}
      [] OTHER -> {}

AllUnknown(fields) == \A d \in IsoDay : fields[d].state = "unknown"
Accepted(fields) == AllUnknown(fields) \/ \A d \in IsoDay : ValidDay(fields[d])

parse_hours(fields) ==
    IF AllUnknown(fields) THEN Unknown
    ELSE Weekly(UNION {DayRows(d, fields[d]) : d \in IsoDay})

Earlier(a, b) == a.opens_at < b.opens_at

\* The rows of a day, in order.
rows_by_day(h, d) ==
    LET rows == {r \in h.rows : r.day = d}
    IN  CHOOSE s \in [1 .. Cardinality(rows) -> rows] :
          \A m, n \in DOMAIN s : m < n => Earlier(s[m], s[n])

\* Mutant: only the first range of a day is filled in.
hours_fields_fromFirst(h) ==
    [d \in IsoDay |->
       LET rows == rows_by_day(h, d)
       IN  CASE h.unknown -> DayFields("unknown", NoRange, NoRange)
             [] ~h.unknown /\ DOMAIN rows = {} -> DayFields("closed", NoRange, NoRange)
             [] ~h.unknown /\ \E n \in DOMAIN rows : rows[n].all_day ->
                  DayFields("all_day", NoRange, NoRange)
             [] OTHER -> DayFields("ranges", <<rows[1].opens_at, rows[1].closes_at>>, NoRange)]

\* The fields the edit page is filled with.
hours_fields_from(h) ==
    [d \in IsoDay |->
       LET rows == rows_by_day(h, d)
           field(n) == IF n \in DOMAIN rows THEN <<rows[n].opens_at, rows[n].closes_at>>
                       ELSE NoRange
       IN  CASE h.unknown -> DayFields("unknown", NoRange, NoRange)
             [] ~h.unknown /\ DOMAIN rows = {} -> DayFields("closed", NoRange, NoRange)
             [] ~h.unknown /\ \E n \in DOMAIN rows : rows[n].all_day ->
                  DayFields("all_day", NoRange, NoRange)
             [] OTHER -> DayFields("ranges", field(1), field(2))]

-----------------------------------------------------------------------------
\* Posting and editing

RangeFields == {NoRange, <<Garbled, 0>>, <<0, Blank>>} \cup (Time \X Time)
AnyDay == {DayFields(s, NoRange, NoRange) : s \in DayState}
            \cup {DayFields("ranges", r1, r2) : r1, r2 \in RangeFields}
PlainDay == {f \in AnyDay : f.r2 = NoRange}

PostedForms ==
    UNION {{[d \in IsoDay |-> IF d = busy[1] THEN f ELSE IF d = busy[2] THEN g
                              ELSE DayFields(rest, NoRange, NoRange)] :
            f \in AnyDay, g \in PlainDay, rest \in {"unknown", "closed"}} :
           busy \in BusyDays}

NoForm == <<>>

HoursInit == form = NoForm /\ hours = Unknown /\ formError = FALSE

\* The form of a new location, or one edited by hand.
create_hours ==
    /\ form = NoForm
    /\ form' \in PostedForms
    /\ formError' = ~Accepted(form')
    /\ hours' = IF Accepted(form') THEN parse_hours(form') ELSE hours

\* The edit page opened and saved as it is.
edit_hours ==
    /\ form # NoForm
    /\ form' = hours_fields_from(hours)
    /\ formError' = ~Accepted(form')
    /\ hours' = IF Accepted(form') THEN parse_hours(form') ELSE hours

HoursNext == create_hours \/ edit_hours

HoursSpec == HoursInit /\ [][HoursNext]_hoursVars

-----------------------------------------------------------------------------
\* Properties

\* When a row is open, counted around the circle of the week from when it opens.
Covers(r, at) ==
    LET start == (r.day - 1) * Slots + (IF r.all_day THEN 0 ELSE r.opens_at)
        length == IF r.all_day THEN Slots
                  ELSE IF r.closes_at > r.opens_at THEN r.closes_at - r.opens_at
                  ELSE Slots - r.opens_at + r.closes_at
    IN  (at - start) % (7 * Slots) < length

(* The card of the search and the details page agree on when a location is
   open, overnight ranges and the turn of the week included, and both agree
   with the schedule read as intervals on the circle of the week; so do the
   freshness category and the freshness term of the recommendation. *)
ReadersAgree ==
    form # NoForm =>
      /\ \A at \in Instants :
           LET covered == \E r \in hours.rows : Covers(r, at)
           IN  /\ bikesnest_is_open_at(hours.rows, at) = covered
               /\ (status_at(hours, at) = "Open") = covered
      /\ \A age \in -1 .. stale_days + 1 :
           FreshnessScore(age) = CASE categorize(age) = "Fresh" -> 100
                                   [] categorize(age) = "RecentlyVerified" -> 75
                                   [] categorize(age) = "Aging" -> 50
                                   [] categorize(age) = "Stale" -> 25
                                   [] OTHER -> 10

(* Opening the edit page and saving it untouched is accepted, and changes the
   status at no instant: the form can say everything it once accepted. *)
EditKeepsHours ==
    [][form # NoForm => /\ ~formError'
                        /\ \A at \in Instants : status_at(hours', at) = status_at(hours, at)]_hoursVars
=============================================================================
