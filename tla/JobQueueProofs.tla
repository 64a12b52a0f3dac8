--------------------------- MODULE JobQueueProofs ---------------------------
(***************************************************************************)
(* Theorems about JobQueue for every set of rows, workers and keys, every  *)
(* budget, batch size, lease and number of failing round trips.            *)
(***************************************************************************)
EXTENDS JobQueue, FiniteSetTheorems, TLAPS

-----------------------------------------------------------------------------
\* A row carries a claim exactly while it is running.
ClaimedIffRunning ==
    \A i \in Ids : jobs[i].claimed_by \in Workers <=> jobs[i].state = "running"

\* Every row that exists has an idempotency key.
KeyedRows == \A i \in Ids : jobs[i].state # "absent" => jobs[i].key \in Keys

\* A worker that is running or recording has a claim in hand, with a key.
InHand == \A w \in Workers : pc[w] \in {"run", "record"} => cur[w] \in Claim

\* An Ok outcome that is about to be recorded stands for a run that happened.
OkMeansRan ==
    \A w \in Workers : pc[w] = "record" /\ result[w] = "ok" => cur[w].id \in ran

\* The inductive invariant.
IInv == /\ TypeOK
        /\ ClaimedIffRunning
        /\ KeyedRows
        /\ InHand
        /\ ClaimIsCurrent
        /\ NothingStranded
        /\ RetryWithinBudget
        /\ OkMeansRan

-----------------------------------------------------------------------------
\* The row operators stay within the row type.
LEMMA RowTypes ==
    ASSUME NEW row \in Row
    PROVE  /\ NoRow \in Row
           /\ Aged(row) \in Row
           /\ Released(row) \in Row
           /\ Failed(row) \in Row
           /\ \A s \in Schedules : Succeeded(row, s) \in Row
           /\ \A d \in 0 .. MaxDelay : Retried(row, d) \in Row
           /\ \A k \in Keys : NewRow(k) \in Row
           /\ \A w \in Workers : ClaimedRow(row, w) \in Row
<1>1. /\ 0 \in AttemptRange /\ 0 \in 0 .. LeaseTTL /\ 0 \in 0 .. HistoryAge
      /\ 0 \in -MaxDelay .. MaxDelay /\ MaxDelay \in -MaxDelay .. MaxDelay
      /\ LeaseTTL \in 0 .. LeaseTTL
      /\ 0 .. MaxDelay \subseteq -MaxDelay .. MaxDelay
  BY NumberAssumption DEF AttemptRange
<1>2. /\ {"absent", "pending", "running", "succeeded", "failed"} \subseteq States
      /\ "null" \in Schedules
  BY DEF States, Schedules
<1>3. NoRow \in Row
  BY <1>1, <1>2, Zenon DEF Row, NoRow
<1>4. Aged(row) \in Row
  <2>1. /\ (IF row.run_at > -MaxDelay THEN row.run_at - 1 ELSE row.run_at) \in -MaxDelay .. MaxDelay
        /\ (IF row.lease > 0 THEN row.lease - 1 ELSE row.lease) \in 0 .. LeaseTTL
        /\ (IF row.state \in Terminal /\ row.finished < HistoryAge
            THEN row.finished + 1 ELSE row.finished) \in 0 .. HistoryAge
    BY NumberAssumption DEF Row
  <2>2. QED
    BY <2>1, Zenon DEF Aged, Row
<1>5. Released(row) \in Row
  BY <1>1, Zenon DEF Released, Row
<1>6. Failed(row) \in Row
  BY <1>1, <1>2, <1>5, Zenon DEF Failed, Row
<1>7. \A s \in Schedules : Succeeded(row, s) \in Row
  BY <1>1, <1>2, <1>5, Zenon DEF Succeeded, EveryDelay, Row
<1>8. \A d \in 0 .. MaxDelay : Retried(row, d) \in Row
  BY <1>1, <1>2, <1>5, Zenon DEF Retried, Row
<1>9. \A k \in Keys : NewRow(k) \in Row
  BY <1>2, <1>3, Zenon DEF NewRow, Row
<1>10. \A w \in Workers : ClaimedRow(row, w) \in Row
  <2>1. Bump(row.attempts) \in AttemptRange
    BY NumberAssumption DEF Bump, Row, AttemptRange
  <2>2. QED
    BY <1>1, <1>2, <2>1, Zenon DEF ClaimedRow, Row
<1> QED
  BY <1>3, <1>4, <1>5, <1>6, <1>7, <1>8, <1>9, <1>10

\* Every backoff delay is within the delay bound.
LEMMA BackoffBounded ==
    ASSUME NEW a
    PROVE  backoff(a) \subseteq 0 .. MaxDelay
BY NumberAssumption DEF backoff, Saturate

\* What the row operators do to the columns the invariant reads.
LEMMA RowFields ==
    ASSUME NEW row \in Row
    PROVE  /\ NoRow.state = "absent" /\ NoRow.claimed_by = None /\ NoRow.attempts = 0
           /\ Aged(row).state = row.state /\ Aged(row).claimed_by = row.claimed_by
           /\ Aged(row).key = row.key /\ Aged(row).attempts = row.attempts
           /\ Failed(row).state = "failed" /\ Failed(row).claimed_by = None /\ Failed(row).key = row.key
           /\ \A s \in Schedules :
                /\ Succeeded(row, s).state = IF s = "null" THEN "succeeded" ELSE "pending"
                /\ Succeeded(row, s).claimed_by = None
                /\ s # "null" => Succeeded(row, s).attempts = 0
                /\ Succeeded(row, s).key = row.key
           /\ \A d : /\ Retried(row, d).state = "pending"
                     /\ Retried(row, d).claimed_by = None
                     /\ Retried(row, d).attempts = row.attempts
                     /\ Retried(row, d).key = row.key
           /\ \A k : /\ NewRow(k).state = "pending" /\ NewRow(k).claimed_by = None
                     /\ NewRow(k).attempts = 0 /\ NewRow(k).key = k
           /\ \A w : /\ ClaimedRow(row, w).state = "running"
                     /\ ClaimedRow(row, w).claimed_by = w
                     /\ ClaimedRow(row, w).key = row.key
                     /\ ClaimedRow(row, w).attempts = Bump(row.attempts)
<1>1. /\ NoRow.state = "absent" /\ NoRow.claimed_by = None /\ NoRow.attempts = 0
      /\ \A k : /\ NewRow(k).state = "pending" /\ NewRow(k).claimed_by = None
                /\ NewRow(k).attempts = 0 /\ NewRow(k).key = k
  BY DEF NoRow, NewRow
<1>2. /\ Aged(row).state = row.state /\ Aged(row).claimed_by = row.claimed_by
      /\ Aged(row).key = row.key /\ Aged(row).attempts = row.attempts
  BY DEF Row, Aged
<1>3. Failed(row).state = "failed" /\ Failed(row).claimed_by = None /\ Failed(row).key = row.key
  BY DEF Row, Failed, Released
<1>4. \A s \in Schedules :
        /\ Succeeded(row, s).state = IF s = "null" THEN "succeeded" ELSE "pending"
        /\ Succeeded(row, s).claimed_by = None
        /\ s # "null" => Succeeded(row, s).attempts = 0
        /\ Succeeded(row, s).key = row.key
  BY DEF Row, Succeeded, Released
<1>5. \A d : /\ Retried(row, d).state = "pending" /\ Retried(row, d).claimed_by = None
            /\ Retried(row, d).attempts = row.attempts /\ Retried(row, d).key = row.key
  BY DEF Row, Retried, Released
<1>6. \A w : /\ ClaimedRow(row, w).state = "running" /\ ClaimedRow(row, w).claimed_by = w
            /\ ClaimedRow(row, w).key = row.key
            /\ ClaimedRow(row, w).attempts = Bump(row.attempts)
  BY DEF Row, ClaimedRow
<1> QED
  BY <1>1, <1>2, <1>3, <1>4, <1>5, <1>6

\* Whatever outcome is recorded, the row is released; it is put back only with
\* attempts left and completed only when the handler returned Ok.
LEMMA RecordedRow ==
    ASSUME NEW row \in Row, NEW c \in Claim, NEW r \in Outcomes,
           NEW new \in Recorded(row, c, r)
    PROVE  /\ new \in Row
           /\ new.claimed_by = None /\ new.key = row.key
           /\ new.state \in {"pending", "succeeded", "failed"}
           /\ new.state = "pending" /\ row.attempts = c.attempts => new.attempts < MaxAttempts
           /\ new.state = "succeeded" => r = "ok"
<1>0. c.schedule \in Schedules /\ c.attempts \in AttemptRange
  BY DEF Claim
<1>1. CASE r = "ok" /\ c.schedule # "invalid"
  <2>1. new = Succeeded(row, c.schedule)
    BY <1>1, Zenon DEF Recorded
  <2>2. new \in Row
    BY <1>0, <2>1, RowTypes
  <2>3. /\ new.claimed_by = None /\ new.key = row.key
        /\ new.state = IF c.schedule = "null" THEN "succeeded" ELSE "pending"
        /\ c.schedule # "null" => new.attempts = 0
    BY <1>0, <2>1, RowFields
  <2>4. QED
    BY <1>1, <2>2, <2>3, NumberAssumption
<1>2. CASE r = "failed" /\ c.attempts < MaxAttempts
  <2>1. PICK d \in backoff(c.attempts) : new = Retried(row, d)
    BY <1>2 DEF Recorded
  <2>2. d \in 0 .. MaxDelay
    BY BackoffBounded
  <2>3. new \in Row
    BY <2>1, <2>2, RowTypes
  <2>4. new.state = "pending" /\ new.claimed_by = None
        /\ new.attempts = row.attempts /\ new.key = row.key
    BY <2>1, RowFields
  <2>5. QED
    BY <1>2, <2>3, <2>4
<1>3. CASE ~(r = "ok" /\ c.schedule # "invalid") /\ ~(r = "failed" /\ c.attempts < MaxAttempts)
  <2>1. new = Failed(row)
    BY <1>3, Zenon DEF Recorded
  <2>2. QED
    BY <2>1, RowTypes, RowFields
<1> QED
  BY <1>1, <1>2, <1>3

-----------------------------------------------------------------------------
\* Inserting a row disturbs no claim: the new identity is in nobody's memory.
LEMMA EnqueueStep ==
    ASSUME IInv, NEW k \in Keys, enqueue(k),
           UNCHANGED <<cur, result, batch>>,
           \A v \in Workers : Held(v)' = Held(v),
           \A v \in Workers : pc'[v] # pc[v] => pc[v] = "boot" /\ pc'[v] \in {"boot", "poll"}
    PROVE  /\ jobs' \in [Ids -> Row] /\ ran' \in SUBSET Ids
           /\ ClaimedIffRunning' /\ KeyedRows' /\ InHand' /\ ClaimIsCurrent' /\ RetryWithinBudget'
           /\ OkMeansRan' /\ (faults' = faults => NothingStranded')
<1>1. CASE KeyTaken(k)
  BY <1>1 DEF IInv, TypeOK, enqueue, ClaimedIffRunning, KeyedRows, InHand, ClaimIsCurrent,
              RetryWithinBudget, OkMeansRan, NothingStranded
<1>2. CASE ~KeyTaken(k)
  <2>1. PICK i \in FreshIds : jobs' = [jobs EXCEPT ![i] = NewRow(k)] /\ ran' = ran \ {i}
    BY <1>2 DEF enqueue
  <2>2. i \in Ids /\ \A v \in Workers : \A c \in Held(v) : c.id # i
    BY DEF FreshIds
  <2>3. jobs \in [Ids -> Row] /\ NewRow(k) \in Row
    <3>1. jobs \in [Ids -> Row] /\ jobs[i] \in Row
      BY <2>2 DEF IInv, TypeOK
    <3>2. QED
      BY <3>1, RowTypes
  <2>4. NewRow(k).state = "pending" /\ NewRow(k).claimed_by = None
        /\ NewRow(k).attempts = 0 /\ NewRow(k).key = k
    BY <2>3, RowFields
  <2>5. jobs' \in [Ids -> Row] /\ ran' \in SUBSET Ids
    BY <2>1, <2>2, <2>3 DEF IInv, TypeOK
  <2>6. ClaimedIffRunning' /\ KeyedRows'
    BY <2>1, <2>2, <2>3, <2>4, NoneAssumption DEF IInv, ClaimedIffRunning, KeyedRows
  <2>7. InHand'
    BY DEF IInv, InHand
  <2>8. ClaimIsCurrent'
    BY <2>1, <2>2, <2>3 DEF IInv, ClaimIsCurrent
  <2>9. RetryWithinBudget'
    BY <2>1, <2>2, <2>3, <2>4, NumberAssumption DEF IInv, RetryWithinBudget
  <2>10. OkMeansRan'
    <3> SUFFICES ASSUME NEW v \in Workers, pc'[v] = "record", result'[v] = "ok"
                 PROVE  cur'[v].id \in ran'
      BY DEF OkMeansRan
    <3>1. pc[v] = "record" /\ result[v] = "ok" /\ cur[v] \in Held(v)
      BY DEF Held
    <3>2. QED
      BY <2>1, <2>2, <3>1 DEF IInv, OkMeansRan
  <2>11. faults' = faults => NothingStranded'
    BY <2>1, <2>2, <2>3, <2>4 DEF IInv, NothingStranded
  <2> QED
    BY <2>5, <2>6, <2>7, <2>8, <2>9, <2>10, <2>11
<1> QED
  BY <1>1, <1>2

\* What a worker remembers are claims on rows of the table.
LEMMA HeldClaims ==
    ASSUME IInv, NEW w \in Workers
    PROVE  Held(w) \subseteq Claim /\ \A c \in Held(w) : c.id \in Ids /\ jobs[c.id] \in Row
<1>1. Held(w) \subseteq Claim
  BY DEF IInv, TypeOK, InHand, Held
<1>2. QED
  BY <1>1 DEF IInv, TypeOK, Claim

\* Queueing a message or a foreign row preserves the invariant.
LEMMA SubmitStep ==
    ASSUME IInv, NEW k \in Keys, Submit(k)
    PROVE  IInv'
<1>1. enqueue(k) /\ UNCHANGED <<pc, stop, todo, batch, cur, result, beating, faults>>
  BY DEF Submit
<1>2. \A v \in Workers : Held(v)' = Held(v)
  BY <1>1 DEF Held
<1>3. QED
  BY <1>1, <1>2, EnqueueStep DEF IInv, TypeOK

\* Starting a worker preserves the invariant.
LEMMA StartStep ==
    ASSUME IInv, NEW w \in Workers, Start(w)
    PROVE  IInv'
<1>1. \A v \in Workers : Held(v)' = Held(v)
  BY DEF Start, Held, IInv, TypeOK
<1>2. TypeOK'
  BY DEF Start, IInv, TypeOK
<1>3. InHand' /\ OkMeansRan'
  BY DEF Start, IInv, TypeOK, InHand, OkMeansRan
<1>4. ClaimIsCurrent' /\ NothingStranded'
  BY <1>1 DEF Start, IInv, TypeOK, ClaimIsCurrent, NothingStranded
<1>5. ClaimedIffRunning' /\ KeyedRows' /\ RetryWithinBudget'
  BY DEF Start, IInv, ClaimedIffRunning, KeyedRows, RetryWithinBudget
<1> QED
  BY <1>2, <1>3, <1>4, <1>5 DEF IInv

\* Bootstrapping a recurring row preserves the invariant.
LEMMA BootstrapStep ==
    ASSUME IInv, NEW w \in Workers, Bootstrap(w)
    PROVE  IInv'
<1>1. PICK k \in todo[w] :
        /\ todo' = [todo EXCEPT ![w] = @ \ {k}]
        /\ pc' = [pc EXCEPT ![w] = IF todo[w] = {k} THEN "poll" ELSE "boot"]
        /\ \/ enqueue(k) /\ UNCHANGED faults
           \/ /\ faults < MaxFaults /\ faults' = faults + 1
              /\ UNCHANGED <<jobs, ran>>
  BY DEF Bootstrap
<1>2. pc[w] = "boot" /\ UNCHANGED <<stop, batch, cur, result, beating>>
  BY DEF Bootstrap
<1>3. k \in Keys
  BY DEF IInv, TypeOK, Keys
<1>4. \A v \in Workers : Held(v)' = Held(v)
  BY <1>1, <1>2 DEF Held, IInv, TypeOK
<1>5. pc' \in [Workers -> {"off", "boot", "poll", "run", "record", "stopped", "crashed"}]
      /\ \A v \in Workers : pc'[v] # pc[v] => pc[v] = "boot" /\ pc'[v] \in {"boot", "poll"}
  BY <1>1, <1>2 DEF IInv, TypeOK
<1>6. todo' \in [Workers -> SUBSET RecurringKeys]
  BY <1>1 DEF IInv, TypeOK
<1>7. CASE enqueue(k) /\ UNCHANGED faults
  BY <1>2, <1>3, <1>4, <1>5, <1>6, <1>7, EnqueueStep DEF IInv, TypeOK
<1>8. CASE faults < MaxFaults /\ faults' = faults + 1 /\ UNCHANGED <<jobs, ran>>
  <2>1. TypeOK'
    BY <1>2, <1>5, <1>6, <1>8, NumberAssumption DEF IInv, TypeOK
  <2>2. InHand' /\ OkMeansRan'
    BY <1>2, <1>5, <1>8 DEF IInv, InHand, OkMeansRan
  <2>3. ClaimIsCurrent' /\ ClaimedIffRunning' /\ KeyedRows' /\ RetryWithinBudget'
    BY <1>4, <1>8 DEF IInv, ClaimIsCurrent, ClaimedIffRunning, KeyedRows, RetryWithinBudget
  <2>4. NothingStranded'
    BY <1>8 DEF IInv, TypeOK, NothingStranded
  <2> QED
    BY <2>1, <2>2, <2>3, <2>4 DEF IInv
<1> QED
  BY <1>1, <1>7, <1>8

\* Taking the next row of a batch preserves the invariant.
LEMMA BeginStep ==
    ASSUME IInv, NEW w \in Workers, Begin(w)
    PROVE  IInv'
<1>1. PICK c \in batch[w] :
        /\ batch' = [batch EXCEPT ![w] = @ \ {c}]
        /\ cur' = [cur EXCEPT ![w] = c]
        /\ \/ /\ pc' = [pc EXCEPT ![w] = "record"]
              /\ result' = [result EXCEPT ![w] = "no_handler"]
              /\ UNCHANGED beating
           \/ /\ pc' = [pc EXCEPT ![w] = "run"]
              /\ beating' = [beating EXCEPT ![w] = TRUE]
              /\ UNCHANGED result
  BY DEF Begin
<1>2. pc[w] = "poll" /\ UNCHANGED <<jobs, stop, todo, ran, faults>>
  BY DEF Begin
<1>3. c \in Claim
  BY DEF IInv, TypeOK
<1>4. TypeOK'
  BY <1>1, <1>2, <1>3 DEF IInv, TypeOK, Outcomes
<1>5. \A v \in Workers : Held(v)' = Held(v)
  BY <1>1, <1>2 DEF Held, IInv, TypeOK
<1>6. InHand' /\ OkMeansRan'
  BY <1>1, <1>2, <1>3 DEF IInv, TypeOK, InHand, OkMeansRan
<1>7. ClaimIsCurrent' /\ NothingStranded'
  BY <1>1, <1>2, <1>5 DEF IInv, TypeOK, ClaimIsCurrent, NothingStranded
<1>8. ClaimedIffRunning' /\ KeyedRows' /\ RetryWithinBudget'
  BY <1>2 DEF IInv, ClaimedIffRunning, KeyedRows, RetryWithinBudget
<1> QED
  BY <1>4, <1>6, <1>7, <1>8 DEF IInv

\* A worker claims only with an empty memory, so the claim it reads back is its
\* only claim on each row; whoever held a row before has lost it.
LEMMA ClaimStep ==
    ASSUME IInv, NEW w \in Workers, claim(w)
    PROVE  IInv'
<1>1. PICK S \in Batches :
        /\ jobs' = [i \in Ids |-> IF i \in S THEN ClaimedRow(jobs[i], w) ELSE jobs[i]]
        /\ \/ batch' = [batch EXCEPT ![w] = {ClaimOf(i) : i \in S}] /\ UNCHANGED faults
           \/ faults < MaxFaults /\ faults' = faults + 1 /\ UNCHANGED batch
  BY DEF claim
<1>2. pc[w] = "poll" /\ batch[w] = {} /\ UNCHANGED <<pc, stop, todo, cur, result, beating, ran>>
  BY DEF claim
<1>3. S \subseteq Ids /\ \A i \in S : jobs[i].state \in {"pending", "running"}
  BY DEF Batches, Due
<1>4. \A i \in Ids : jobs[i] \in Row
  BY DEF IInv, TypeOK
<1>5. \A i \in S : /\ jobs'[i] \in Row
                  /\ jobs'[i].state = "running" /\ jobs'[i].claimed_by = w
                  /\ jobs'[i].key = jobs[i].key
                  /\ jobs'[i].attempts = Bump(jobs[i].attempts)
  <2> TAKE i \in S
  <2>1. i \in Ids /\ jobs[i] \in Row /\ jobs'[i] = ClaimedRow(jobs[i], w)
    BY <1>1, <1>3, <1>4
  <2>2. jobs'[i] \in Row
    BY <2>1, RowTypes
  <2>3. QED
    BY <2>1, <2>2, RowFields
<1>6. \A i \in Ids \ S : jobs'[i] = jobs[i]
  BY <1>1
<1>7. \A i \in S : jobs[i].key \in Keys
  <2> TAKE i \in S
  <2>1. jobs[i].state # "absent"
    BY <1>3
  <2>2. QED
    BY <1>3, <1>4, <2>1 DEF IInv, KeyedRows
<1>8. \A i \in S : ClaimOf(i) \in Claim
  <2> TAKE i \in S
  <2>1. Bump(jobs[i].attempts) \in AttemptRange
    BY <1>3, <1>4, NumberAssumption DEF Bump, Row, AttemptRange
  <2>2. jobs[i].schedule \in Schedules
    BY <1>3, <1>4 DEF Row
  <2>3. QED
    BY <1>3, <1>7, <2>1, <2>2 DEF ClaimOf, Claim
<1>9. TypeOK'
  <2>1. jobs' \in [Ids -> Row]
    BY <1>1, <1>4, <1>5, <1>6
  <2>2. batch' \in [Workers -> SUBSET Claim] /\ faults' \in 0 .. MaxFaults
    BY <1>1, <1>8, NumberAssumption DEF IInv, TypeOK
  <2>3. QED
    BY <1>2, <2>1, <2>2 DEF IInv, TypeOK
<1>10. /\ \A v \in Workers \ {w} : Held(v)' = Held(v)
       /\ Held(w) = {}
       /\ Held(w)' = {} \/ (faults' = faults /\ Held(w)' = {ClaimOf(i) : i \in S})
  BY <1>1, <1>2 DEF Held, IInv, TypeOK
<1>11. ClaimIsCurrent'
  <2> SUFFICES ASSUME NEW v \in Workers, NEW c \in Held(v)', jobs'[c.id].claimed_by = v
               PROVE  /\ jobs'[c.id].state = "running"
                      /\ jobs'[c.id].key = c.key
                      /\ jobs'[c.id].attempts = c.attempts
    BY DEF ClaimIsCurrent
  <2>1. CASE v = w
    <3>1. PICK i \in S : c = ClaimOf(i)
      BY <1>10, <2>1
    <3>2. c.id = i /\ c.key = jobs[i].key /\ c.attempts = Bump(jobs[i].attempts)
      BY <3>1 DEF ClaimOf
    <3>3. QED
      BY <1>5, <3>2
  <2>2. CASE v # w
    <3>1. c \in Held(v) /\ c.id \in Ids
      BY <1>10, <2>2, HeldClaims
    <3>2. c.id \notin S
      BY <1>5, <2>2
    <3>3. jobs'[c.id] = jobs[c.id]
      BY <1>6, <3>1, <3>2
    <3>4. QED
      BY <3>1, <3>3 DEF IInv, ClaimIsCurrent
  <2> QED
    BY <2>1, <2>2
<1>12. NothingStranded'
  <2> SUFFICES ASSUME faults' = 0, NEW i \in Ids, jobs'[i].state = "running"
               PROVE  \E v \in Workers : /\ jobs'[i].claimed_by = v
                                         /\ \/ pc'[v] = "crashed"
                                            \/ \E c \in Held(v)' : c.id = i
    BY DEF NothingStranded
  <2>1. faults = 0 /\ faults' = faults
    BY <1>1 DEF IInv, TypeOK
  <2>2. CASE i \in S
    <3>1. ClaimOf(i) \in Held(w)' /\ ClaimOf(i).id = i
      <4>1. Held(w)' = {ClaimOf(k) : k \in S}
        BY <1>1, <1>2, <2>1 DEF Held, IInv, TypeOK
      <4>2. QED
        BY <2>2, <4>1 DEF ClaimOf
    <3>2. QED
      BY <1>5, <2>2, <3>1
  <2>3. CASE i \notin S
    <3>1. jobs'[i] = jobs[i]
      BY <1>6, <2>3
    <3>2. PICK v \in Workers : /\ jobs[i].claimed_by = v
                               /\ pc[v] = "crashed" \/ \E c \in Held(v) : c.id = i
      BY <2>1, <3>1 DEF IInv, NothingStranded
    <3>3. CASE v = w
      BY <1>2, <1>10, <3>2, <3>3
    <3>4. CASE v # w
      BY <1>2, <1>10, <3>1, <3>2, <3>4
    <3> QED
      BY <3>3, <3>4
  <2> QED
    BY <2>2, <2>3
<1>13. ClaimedIffRunning' /\ RetryWithinBudget' /\ KeyedRows'
  <2> SUFFICES ASSUME NEW i \in Ids
               PROVE  /\ jobs'[i].claimed_by \in Workers <=> jobs'[i].state = "running"
                      /\ jobs'[i].state = "pending" => jobs'[i].attempts < MaxAttempts
                      /\ jobs'[i].state # "absent" => jobs'[i].key \in Keys
    BY DEF ClaimedIffRunning, RetryWithinBudget, KeyedRows
  <2>1. CASE i \in S
    BY <1>5, <1>7, <2>1
  <2>2. CASE i \notin S
    BY <1>6, <2>2 DEF IInv, ClaimedIffRunning, RetryWithinBudget, KeyedRows
  <2> QED
    BY <2>1, <2>2
<1>14. InHand' /\ OkMeansRan'
  BY <1>2 DEF IInv, InHand, OkMeansRan
<1> QED
  BY <1>9, <1>11, <1>12, <1>13, <1>14 DEF IInv

\* A step that changes rows without touching what the invariant reads of them,
\* or removes settled rows, and leaves every memory alone, preserves the claims.
LEMMA RowsStep ==
    ASSUME IInv,
           jobs' \in [Ids -> Row],
           \A i \in Ids :
              \/ /\ jobs'[i].state = jobs[i].state /\ jobs'[i].claimed_by = jobs[i].claimed_by
                 /\ jobs'[i].key = jobs[i].key /\ jobs'[i].attempts = jobs[i].attempts
              \/ jobs[i].state \in Terminal /\ jobs'[i] = NoRow,
           \A v \in Workers : Held(v)' = Held(v) /\ (pc[v] = "crashed" => pc'[v] = "crashed"),
           faults' = 0 => faults = 0
    PROVE  /\ ClaimedIffRunning' /\ KeyedRows' /\ ClaimIsCurrent'
           /\ NothingStranded' /\ RetryWithinBudget'
<1>1. NoRow.state = "absent" /\ NoRow.claimed_by = None
  BY DEF NoRow
<1>2. \A i \in Ids : jobs[i].state \in Terminal => jobs[i].claimed_by \notin Workers
  BY DEF IInv, ClaimedIffRunning, Terminal
<1>3. ClaimedIffRunning' /\ KeyedRows' /\ RetryWithinBudget'
  BY <1>1, <1>2, NoneAssumption
  DEF IInv, ClaimedIffRunning, KeyedRows, RetryWithinBudget
<1>4. ClaimIsCurrent'
  <2> SUFFICES ASSUME NEW v \in Workers, NEW c \in Held(v), jobs'[c.id].claimed_by = v
               PROVE  /\ jobs'[c.id].state = "running"
                      /\ jobs'[c.id].key = c.key
                      /\ jobs'[c.id].attempts = c.attempts
    BY DEF ClaimIsCurrent
  <2>1. c.id \in Ids
    BY HeldClaims
  <2>2. QED
    BY <1>1, <2>1, NoneAssumption DEF IInv, ClaimIsCurrent
<1>5. NothingStranded'
  <2> SUFFICES ASSUME faults' = 0, NEW i \in Ids, jobs'[i].state = "running"
               PROVE  \E v \in Workers : /\ jobs'[i].claimed_by = v
                                         /\ \/ pc'[v] = "crashed"
                                            \/ \E c \in Held(v)' : c.id = i
    BY DEF NothingStranded
  <2>1. jobs[i].state = "running" /\ jobs'[i].claimed_by = jobs[i].claimed_by
    BY <1>1
  <2>2. QED
    BY <2>1 DEF IInv, NothingStranded
<1> QED
  BY <1>3, <1>4, <1>5

\* Extending a lease, or failing to, preserves the invariant.
LEMMA HeartbeatStep ==
    ASSUME IInv, NEW w \in Workers, Heartbeat(w)
    PROVE  IInv'
<1>1. pc[w] = "run" /\ UNCHANGED <<pc, stop, todo, batch, cur, result, ran>>
  BY DEF Heartbeat
<1>2. cur[w].id \in Ids
  BY <1>1 DEF IInv, InHand, Claim
<1>3. \/ jobs' = [jobs EXCEPT ![cur[w].id].lease = LeaseTTL] /\ UNCHANGED <<beating, faults>>
      \/ /\ faults < MaxFaults /\ faults' = faults + 1
         /\ beating' = [beating EXCEPT ![w] = FALSE] /\ UNCHANGED jobs
  BY DEF Heartbeat
<1>4. /\ [jobs[cur[w].id] EXCEPT !.lease = LeaseTTL] \in Row
      /\ jobs \in [Ids -> Row]
  <2>1. LeaseTTL \in 0 .. LeaseTTL
    BY NumberAssumption
  <2>2. jobs \in [Ids -> Row] /\ jobs[cur[w].id] \in Row
    BY <1>2 DEF IInv, TypeOK
  <2>3. QED
    BY <2>1, <2>2 DEF Row
<1>5. jobs' \in [Ids -> Row]
  BY <1>2, <1>3, <1>4
<1>6. TypeOK'
  <2>1. beating' \in [Workers -> BOOLEAN]
    BY <1>3, Zenon DEF IInv, TypeOK
  <2>2. faults' \in 0 .. MaxFaults
    BY <1>3, NumberAssumption DEF IInv, TypeOK
  <2>3. QED
    BY <1>1, <1>5, <2>1, <2>2 DEF IInv, TypeOK
<1>7. \A i \in Ids : /\ jobs'[i].state = jobs[i].state /\ jobs'[i].claimed_by = jobs[i].claimed_by
                    /\ jobs'[i].key = jobs[i].key /\ jobs'[i].attempts = jobs[i].attempts
  BY <1>2, <1>3, <1>4 DEF Row
<1>8. \A v \in Workers : Held(v)' = Held(v)
  BY <1>1 DEF Held
<1>9. faults' = 0 => faults = 0
  BY <1>3 DEF IInv, TypeOK
<1>10. InHand' /\ OkMeansRan'
  BY <1>1 DEF IInv, InHand, OkMeansRan
<1> QED
  BY <1>1, <1>5, <1>6, <1>7, <1>8, <1>9, <1>10, RowsStep DEF IInv

\* The return of a handler, with the gc it may have run, preserves the invariant.
LEMMA HandlerReturnsStep ==
    ASSUME IInv, NEW w \in Workers, HandlerReturns(w)
    PROVE  IInv'
<1>1. PICK r \in {"ok", "failed", "permanent"} :
        /\ result' = [result EXCEPT ![w] = r]
        /\ ran' = IF r = "ok" THEN ran \cup {cur[w].id} ELSE ran
        /\ jobs' = IF r = "ok" /\ cur[w].key = GcKey THEN gc ELSE jobs
  BY DEF HandlerReturns
<1>2. /\ pc[w] = "run" /\ pc' = [pc EXCEPT ![w] = "record"]
      /\ beating' = [beating EXCEPT ![w] = FALSE]
      /\ UNCHANGED <<stop, todo, batch, cur, faults>>
  BY DEF HandlerReturns
<1>3. cur[w] \in Claim /\ cur[w].id \in Ids
  BY <1>2 DEF IInv, InHand, Claim
<1>4. jobs \in [Ids -> Row] /\ NoRow \in Row
  <2>1. jobs \in [Ids -> Row] /\ jobs[cur[w].id] \in Row
    BY <1>3 DEF IInv, TypeOK
  <2>2. QED
    BY <2>1, RowTypes
<1>5. jobs' \in [Ids -> Row]
  BY <1>1, <1>4 DEF gc
<1>6. \A i \in Ids : jobs'[i] = jobs[i] \/ (jobs[i].state \in Terminal /\ jobs'[i] = NoRow)
  <2>1. CASE jobs' = gc
    BY <2>1 DEF gc
  <2>2. CASE jobs' = jobs
    BY <2>2
  <2> QED
    BY <1>1, <2>1, <2>2
<1>7. TypeOK'
  BY <1>1, <1>2, <1>3, <1>5 DEF IInv, TypeOK, Outcomes
<1>8. \A v \in Workers : Held(v)' = Held(v) /\ (pc[v] = "crashed" => pc'[v] = "crashed")
  BY <1>2 DEF Held, IInv, TypeOK
<1>9. InHand' /\ OkMeansRan'
  BY <1>1, <1>2, <1>3 DEF IInv, TypeOK, InHand, OkMeansRan
<1> QED
  BY <1>2, <1>5, <1>6, <1>7, <1>8, <1>9, RowsStep DEF IInv

\* The outcome lands only on the worker's own latest claim, whose attempt number
\* is the row's; everybody else's memory concerns other claims.
LEMMA RecordStep ==
    ASSUME IInv, NEW w \in Workers, Record(w)
    PROVE  IInv'
<1> DEFINE i == cur[w].id
<1>1. /\ pc[w] = "record" /\ pc' = [pc EXCEPT ![w] = "poll"]
      /\ cur' = [cur EXCEPT ![w] = NoClaim] /\ result' = [result EXCEPT ![w] = "none"]
      /\ UNCHANGED <<stop, todo, batch, beating, ran>>
  BY DEF Record
<1>2. cur[w] \in Claim /\ i \in Ids /\ jobs \in [Ids -> Row] /\ jobs[i] \in Row
  BY <1>1 DEF IInv, TypeOK, InHand, Claim
<1>3. cur[w] \in Held(w)
  BY <1>1 DEF Held
<1>4. \A v \in Workers : /\ v # w => Held(v)' = Held(v)
                         /\ Held(w)' = batch[w] /\ Held(w) = batch[w] \cup {cur[w]}
                         /\ pc[v] = "crashed" => pc'[v] = "crashed"
  BY <1>1 DEF Held, IInv, TypeOK
<1>5. InHand' /\ OkMeansRan'
  BY <1>1 DEF IInv, TypeOK, InHand, OkMeansRan
<1>6. pc' \in [Workers -> {"off", "boot", "poll", "run", "record", "stopped", "crashed"}]
      /\ cur' \in [Workers -> Claim \cup {NoClaim}] /\ result' \in [Workers -> Outcomes]
  BY <1>1 DEF IInv, TypeOK, Outcomes
<1>7. ASSUME jobs[i].claimed_by = w,
             NEW row \in Recorded(jobs[i], cur[w], result[w]),
             jobs' = [jobs EXCEPT ![i] = row], UNCHANGED faults
      PROVE  IInv'
  <2>1. /\ row \in Row /\ row.claimed_by = None /\ row.key = jobs[i].key
        /\ row.state \in {"pending", "succeeded", "failed"}
        /\ row.state = "pending" /\ jobs[i].attempts = cur[w].attempts
             => row.attempts < MaxAttempts
    BY <1>2, <1>7, RecordedRow DEF IInv, TypeOK
  <2>2. jobs[i].attempts = cur[w].attempts /\ jobs[i].state = "running"
    BY <1>3, <1>7 DEF IInv, ClaimIsCurrent
  <2>3. TypeOK'
    BY <1>1, <1>2, <1>6, <1>7, <2>1 DEF IInv, TypeOK
  <2>4. ClaimedIffRunning' /\ KeyedRows' /\ RetryWithinBudget'
    BY <1>2, <1>7, <2>1, <2>2, NoneAssumption
    DEF IInv, ClaimedIffRunning, KeyedRows, RetryWithinBudget
  <2>5. ClaimIsCurrent'
    <3> SUFFICES ASSUME NEW v \in Workers, NEW c \in Held(v)', jobs'[c.id].claimed_by = v
                 PROVE  /\ jobs'[c.id].state = "running"
                        /\ jobs'[c.id].key = c.key
                        /\ jobs'[c.id].attempts = c.attempts
      BY DEF ClaimIsCurrent
    <3>1. c \in Held(v) /\ c.id \in Ids
      BY <1>4, HeldClaims
    <3>2. jobs'[c.id] = jobs[c.id]
      BY <1>2, <1>7, <2>1, <3>1, NoneAssumption
    <3>3. QED
      BY <3>1, <3>2 DEF IInv, ClaimIsCurrent
  <2>6. NothingStranded'
    <3> SUFFICES ASSUME faults' = 0, NEW k \in Ids, jobs'[k].state = "running"
                 PROVE  \E v \in Workers : /\ jobs'[k].claimed_by = v
                                           /\ \/ pc'[v] = "crashed"
                                              \/ \E c \in Held(v)' : c.id = k
      BY DEF NothingStranded
    <3>1. k # i /\ jobs'[k] = jobs[k]
      BY <1>2, <1>7, <2>1
    <3>2. PICK v \in Workers : /\ jobs[k].claimed_by = v
                               /\ pc[v] = "crashed" \/ \E c \in Held(v) : c.id = k
      BY <1>7, <3>1 DEF IInv, NothingStranded
    <3>3. QED
      BY <1>4, <3>1, <3>2
  <2> QED
    BY <1>5, <2>3, <2>4, <2>5, <2>6 DEF IInv
<1>8. ASSUME jobs' = jobs, \/ faults' = faults /\ jobs[i].claimed_by # w
                           \/ faults < MaxFaults /\ faults' = faults + 1
      PROVE  IInv'
  <2>1. TypeOK'
    BY <1>1, <1>6, <1>8, NumberAssumption DEF IInv, TypeOK
  <2>2. ClaimedIffRunning' /\ KeyedRows' /\ RetryWithinBudget'
    BY <1>8 DEF IInv, ClaimedIffRunning, KeyedRows, RetryWithinBudget
  <2>3. ClaimIsCurrent'
    BY <1>4, <1>8 DEF IInv, ClaimIsCurrent
  <2>4. NothingStranded'
    <3> SUFFICES ASSUME faults' = 0, NEW k \in Ids, jobs[k].state = "running"
                 PROVE  \E v \in Workers : /\ jobs[k].claimed_by = v
                                           /\ \/ pc'[v] = "crashed"
                                              \/ \E c \in Held(v)' : c.id = k
      BY <1>8 DEF NothingStranded
    <3>1. faults = 0 /\ jobs[i].claimed_by # w
      BY <1>8 DEF IInv, TypeOK
    <3>2. PICK v \in Workers : /\ jobs[k].claimed_by = v
                               /\ pc[v] = "crashed" \/ \E c \in Held(v) : c.id = k
      BY <3>1 DEF IInv, NothingStranded
    <3>3. QED
      BY <1>4, <3>1, <3>2
  <2> QED
    BY <1>5, <2>1, <2>2, <2>3, <2>4 DEF IInv
<1>9. \/ /\ jobs[i].claimed_by = w
         /\ \E row \in Recorded(jobs[i], cur[w], result[w]) : jobs' = [jobs EXCEPT ![i] = row]
         /\ UNCHANGED faults
      \/ /\ jobs' = jobs
         /\ \/ faults' = faults /\ jobs[i].claimed_by # w
            \/ faults < MaxFaults /\ faults' = faults + 1
  BY DEF Record
<1> QED
  BY <1>7, <1>8, <1>9

\* Cancelling the shutdown token preserves the invariant.
LEMMA ShutdownStep ==
    ASSUME IInv, NEW w \in Workers, Shutdown(w)
    PROVE  IInv'
<1>1. \A v \in Workers : Held(v)' = Held(v)
  BY DEF Shutdown, Held
<1>2. QED
  BY <1>1 DEF Shutdown, IInv, TypeOK, ClaimedIffRunning, KeyedRows, InHand, ClaimIsCurrent,
              NothingStranded, RetryWithinBudget, OkMeansRan

\* Leaving the worker loop preserves the invariant.
LEMMA ExitStep ==
    ASSUME IInv, NEW w \in Workers, Exit(w)
    PROVE  IInv'
<1>1. \A v \in Workers : Held(v)' = Held(v) /\ (pc[v] = "crashed" => pc'[v] = "crashed")
  BY DEF Exit, Held, IInv, TypeOK
<1>2. TypeOK' /\ InHand' /\ OkMeansRan'
  BY DEF Exit, IInv, TypeOK, InHand, OkMeansRan
<1>3. jobs' = jobs /\ faults' = faults
  BY DEF Exit
<1>4. QED
  BY <1>1, <1>2, <1>3, RowsStep DEF IInv, TypeOK

\* The death of a worker preserves the invariant.
LEMMA CrashStep ==
    ASSUME IInv, NEW w \in Workers, Crash(w)
    PROVE  IInv'
<1>1. /\ pc' = [pc EXCEPT ![w] = "crashed"] /\ pc[w] # "crashed"
      /\ batch' = [batch EXCEPT ![w] = {}] /\ UNCHANGED <<jobs, faults, ran>>
  BY DEF Crash
<1>2. TypeOK'
  BY DEF Crash, IInv, TypeOK, Outcomes
<1>3. InHand' /\ OkMeansRan'
  BY DEF Crash, IInv, TypeOK, InHand, OkMeansRan
<1>4. \A v \in Workers : /\ Held(v)' \subseteq Held(v)
                         /\ v # w => Held(v)' = Held(v) /\ pc'[v] = pc[v]
                         /\ pc'[w] = "crashed"
  BY DEF Crash, Held, IInv, TypeOK
<1>5. ClaimIsCurrent' /\ NothingStranded'
  BY <1>1, <1>4 DEF IInv, ClaimIsCurrent, NothingStranded
<1>6. ClaimedIffRunning' /\ KeyedRows' /\ RetryWithinBudget'
  BY <1>1 DEF IInv, ClaimedIffRunning, KeyedRows, RetryWithinBudget
<1> QED
  BY <1>2, <1>3, <1>5, <1>6 DEF IInv

\* The passing of time preserves the invariant.
LEMMA TickStep ==
    ASSUME IInv, Tick
    PROVE  IInv'
<1>1. /\ jobs' = [i \in Ids |-> Aged(jobs[i])]
      /\ UNCHANGED <<pc, stop, todo, batch, cur, result, beating, ran, faults>>
  BY DEF Tick
<1>2. \A i \in Ids : jobs[i] \in Row
  BY DEF IInv, TypeOK
<1>3. jobs' \in [Ids -> Row]
  BY <1>1, <1>2, RowTypes
<1>4. \A i \in Ids : /\ jobs'[i].state = jobs[i].state /\ jobs'[i].claimed_by = jobs[i].claimed_by
                    /\ jobs'[i].key = jobs[i].key /\ jobs'[i].attempts = jobs[i].attempts
  <2> TAKE i \in Ids
  <2>1. jobs[i] \in Row /\ jobs'[i] = Aged(jobs[i])
    BY <1>1, <1>2
  <2>2. QED
    BY <2>1, RowFields
<1>5. \A v \in Workers : Held(v)' = Held(v)
  BY <1>1 DEF Held
<1>6. TypeOK' /\ InHand' /\ OkMeansRan'
  BY <1>1, <1>3 DEF IInv, TypeOK, InHand, OkMeansRan
<1> QED
  BY <1>1, <1>3, <1>4, <1>5, <1>6, RowsStep DEF IInv

-----------------------------------------------------------------------------
\* The invariant holds initially and every step preserves it.
LEMMA InitIInv == Init => IInv
<1> SUFFICES ASSUME Init PROVE IInv
  OBVIOUS
<1>1. NoRow \in Row /\ NoRow.claimed_by = None /\ NoRow.state = "absent"
  <2>1. /\ 0 \in AttemptRange /\ 0 \in 0 .. LeaseTTL /\ 0 \in 0 .. HistoryAge
        /\ 0 \in -MaxDelay .. MaxDelay
    BY NumberAssumption DEF AttemptRange
  <2>2. QED
    BY <2>1 DEF NoRow, Row, States, Schedules
<1>2. TypeOK
  BY <1>1, NumberAssumption DEF Init, TypeOK, Outcomes
<1>3. \A w \in Workers : Held(w) = {}
  BY DEF Init, Held
<1>4. QED
  BY <1>1, <1>2, <1>3, NoneAssumption
  DEF IInv, Init, ClaimedIffRunning, KeyedRows, InHand, ClaimIsCurrent, NothingStranded,
      RetryWithinBudget, OkMeansRan

\* Every step preserves the inductive invariant.
LEMMA NextIInv == IInv /\ [Next]_vars => IInv'
<1> SUFFICES ASSUME IInv, [Next]_vars PROVE IInv'
  OBVIOUS
<1>1. ASSUME NEW k \in Keys, Submit(k) PROVE IInv'
  BY <1>1, SubmitStep
<1>2. ASSUME NEW w \in Workers, WorkerStep(w) PROVE IInv'
  BY <1>2, StartStep, BootstrapStep, ClaimStep, BeginStep, HeartbeatStep, HandlerReturnsStep,
     RecordStep, ShutdownStep, ExitStep, CrashStep
  DEF WorkerStep
<1>3. CASE Tick
  BY <1>3, TickStep
<1>4. CASE UNCHANGED vars
  <2>1. \A v \in Workers : Held(v)' = Held(v)
    BY <1>4 DEF vars, Held
  <2>2. QED
    BY <1>4, <2>1 DEF vars, IInv, TypeOK, ClaimedIffRunning, KeyedRows, InHand,
        ClaimIsCurrent, NothingStranded, RetryWithinBudget, OkMeansRan
<1> QED
  BY <1>1, <1>2, <1>3, <1>4 DEF Next

\* The inductive invariant holds throughout: no interleaving of workers, crashes,
\* expired leases and failing statements breaks it.
THEOREM Invariance == Spec => []IInv
BY InitIInv, NextIInv, PTL DEF Spec

\* Type correctness of the table and of the workers' memory.
THEOREM TypeCorrect == Spec => []TypeOK
<1>1. IInv => TypeOK
  BY DEF IInv
<1>2. QED
  BY <1>1, Invariance, PTL

\* Every claim a worker has in memory is lost or is the row's latest claim.
THEOREM ClaimsAreCurrent == Spec => []ClaimIsCurrent
<1>1. IInv => ClaimIsCurrent
  BY DEF IInv
<1>2. QED
  BY <1>1, Invariance, PTL

\* Without failed round trips only a crash leaves a running row unattended.
THEOREM NothingIsStranded == Spec => []NothingStranded
<1>1. IInv => NothingStranded
  BY DEF IInv
<1>2. QED
  BY <1>1, Invariance, PTL

\* A row that waits for a retry has attempts left.
THEOREM RetriesWithinBudget == Spec => []RetryWithinBudget
<1>1. IInv => RetryWithinBudget
  BY DEF IInv
<1>2. QED
  BY <1>1, Invariance, PTL

-----------------------------------------------------------------------------
\* What one step can do to the state of a row: nothing but the holder's Record
\* takes a row out of "running", and nothing but gc touches a settled row.
LEMMA RowChange ==
    ASSUME IInv, [Next]_vars, NEW i \in Ids, jobs'[i].state # jobs[i].state
    PROVE  \/ /\ jobs[i].state = "absent" /\ jobs'[i].state = "pending"
              /\ ran' = ran \ {i}
              /\ \A k \in Ids : k # i => jobs'[k] = jobs[k]
           \/ /\ jobs[i].state = "pending" /\ jobs'[i].state = "running"
              /\ ran' = ran
              /\ \A k \in Ids : 
                      \/ jobs'[k].state = jobs[k].state
                      \/ jobs[k].state = "pending" /\ jobs'[k].state = "running"
           \/ /\ jobs[i].state \in Terminal /\ jobs'[i].state = "absent"
              /\ \E w \in Workers : cur[w].id \in Ids /\ ran' = ran \cup {cur[w].id}
              /\ \A k \in Ids : 
                      \/ jobs'[k].state = jobs[k].state
                      \/ jobs[k].state \in Terminal /\ jobs'[k].state = "absent"
           \/ \E w \in Workers :
              /\ jobs[i].state = "running" /\ jobs[i].claimed_by = w
              /\ pc[w] = "record" /\ cur[w].id = i /\ pc'[w] = "poll"
              /\ jobs'[i].state \in {"pending", "succeeded", "failed"}
              /\ jobs'[i].state = "succeeded" => i \in ran
              /\ ran' = ran
              /\ \A k \in Ids : k # i => jobs'[k] = jobs[k]
<1> USE DEF IInv
<1>0. jobs \in [Ids -> Row] /\ \A k \in Ids : jobs[k] \in Row
  BY DEF TypeOK
<1>1. ASSUME NEW k, enqueue(k)
      PROVE  /\ jobs[i].state = "absent" /\ jobs'[i].state = "pending"
             /\ ran' = ran \ {i}
             /\ \A j \in Ids : j # i => jobs'[j] = jobs[j]
  <2>1. PICK f \in FreshIds : jobs' = [jobs EXCEPT ![f] = NewRow(k)] /\ ran' = ran \ {f}
    BY <1>1 DEF enqueue
  <2>2. f \in Ids /\ jobs[f].state = "absent" /\ jobs'[f] = NewRow(k)
        /\ \A j \in Ids : j # f => jobs'[j] = jobs[j]
    BY <1>0, <2>1 DEF FreshIds
  <2>3. f = i
    BY <2>2
  <2>4. NewRow(k).state = "pending"
    BY DEF NewRow, NoRow
  <2>5. QED
    BY <2>1, <2>2, <2>3, <2>4
<1>2. ASSUME NEW k \in Keys, Submit(k) PROVE enqueue(k)
  BY <1>2 DEF Submit
<1>3. ASSUME NEW w \in Workers, Bootstrap(w) PROVE \E k : enqueue(k)
  BY <1>3 DEF Bootstrap
<1>4. ASSUME NEW w \in Workers, claim(w)
      PROVE  /\ jobs[i].state = "pending" /\ jobs'[i].state = "running" /\ ran' = ran
             /\ \A k \in Ids : 
                     \/ jobs'[k].state = jobs[k].state
                     \/ jobs[k].state = "pending" /\ jobs'[k].state = "running"
  <2>1. PICK S \in Batches :
            jobs' = [k \in Ids |-> IF k \in S THEN ClaimedRow(jobs[k], w) ELSE jobs[k]]
    BY <1>4 DEF claim
  <2>2. \A k \in S : k \in Ids /\ jobs[k].state \in {"pending", "running"}
    BY DEF Batches, Due
  <2>3. \A k \in S : jobs'[k].state = "running"
    <3> TAKE k \in S
    <3>1. jobs[k] \in Row /\ jobs'[k] = ClaimedRow(jobs[k], w)
      BY <1>0, <2>1, <2>2
    <3>2. QED
      BY <3>1, RowFields
  <2>4. \A k \in Ids \ S : jobs'[k] = jobs[k]
    BY <2>1
  <2>5. QED
    BY <1>4, <2>2, <2>3, <2>4 DEF claim
<1>5. ASSUME NEW w \in Workers, Heartbeat(w) PROVE FALSE
  <2>1. \/ jobs' = [jobs EXCEPT ![cur[w].id].lease = LeaseTTL]
        \/ jobs' = jobs
    BY <1>5 DEF Heartbeat
  <2>2. jobs'[i].state = jobs[i].state
    BY <1>0, <2>1 DEF Row
  <2>3. QED
    BY <2>2
<1>6. ASSUME NEW w \in Workers, HandlerReturns(w)
      PROVE  /\ jobs[i].state \in Terminal /\ jobs'[i].state = "absent"
             /\ cur[w].id \in Ids /\ ran' = ran \cup {cur[w].id}
             /\ \A k \in Ids : 
                     \/ jobs'[k].state = jobs[k].state
                     \/ jobs[k].state \in Terminal /\ jobs'[k].state = "absent"
  <2>1. cur[w].id \in Ids
    BY <1>6 DEF HandlerReturns, InHand, Claim
  <2>2. jobs' = gc /\ ran' = ran \cup {cur[w].id}
    BY <1>6 DEF HandlerReturns
  <2>3. \A k \in Ids : jobs'[k] = jobs[k] \/ (jobs[k].state \in Terminal /\ jobs'[k] = NoRow)
    BY <2>2 DEF gc
  <2>4. NoRow.state = "absent"
    BY DEF NoRow
  <2>5. QED
    BY <2>1, <2>2, <2>3, <2>4
<1>7. ASSUME NEW w \in Workers, Record(w)
      PROVE  /\ jobs[i].state = "running" /\ jobs[i].claimed_by = w
             /\ pc[w] = "record" /\ cur[w].id = i /\ pc'[w] = "poll"
             /\ jobs'[i].state \in {"pending", "succeeded", "failed"}
             /\ jobs'[i].state = "succeeded" => i \in ran
             /\ ran' = ran
             /\ \A k \in Ids : k # i => jobs'[k] = jobs[k]
  <2>1. pc[w] = "record" /\ pc'[w] = "poll" /\ ran' = ran
    BY <1>7 DEF Record, TypeOK
  <2>2. cur[w] \in Claim /\ cur[w].id \in Ids /\ cur[w] \in Held(w)
    BY <2>1 DEF InHand, Claim, Held
  <2>3. jobs[cur[w].id].claimed_by = w
    BY <1>7 DEF Record
  <2>4. PICK row \in Recorded(jobs[cur[w].id], cur[w], result[w]) :
            jobs' = [jobs EXCEPT ![cur[w].id] = row]
    BY <1>7 DEF Record
  <2>5. cur[w].id = i
    BY <1>0, <2>4
  <2>6. jobs[i].state = "running" /\ jobs[i].claimed_by = w
    BY <2>2, <2>3, <2>5 DEF ClaimIsCurrent
  <2>7. jobs'[i] = row
    BY <1>0, <2>4, <2>5
  <2>8. /\ row.state \in {"pending", "succeeded", "failed"}
        /\ row.state = "succeeded" => result[w] = "ok"
    BY <1>0, <2>2, <2>4, <2>5, RecordedRow DEF TypeOK
  <2>9. result[w] = "ok" => i \in ran
    BY <2>1, <2>5 DEF OkMeansRan
  <2>10. \A k \in Ids : k # i => jobs'[k] = jobs[k]
    BY <1>0, <2>4, <2>5
  <2> QED
    BY <2>1, <2>5, <2>6, <2>7, <2>8, <2>9, <2>10
<1>8. ASSUME Tick PROVE FALSE
  <2>1. jobs[i] \in Row /\ jobs'[i] = Aged(jobs[i])
    BY <1>0, <1>8 DEF Tick
  <2>2. QED
    BY <2>1, RowFields
<1>9. ASSUME UNCHANGED jobs PROVE FALSE
  BY <1>9
<1>10. \A w \in Workers : Start(w) \/ Begin(w) \/ Shutdown(w) \/ Exit(w) \/ Crash(w)
                            => UNCHANGED jobs
  BY DEF Start, Begin, Shutdown, Exit, Crash
<1>11. UNCHANGED vars => UNCHANGED jobs
  BY DEF vars
<1> QED
  BY <1>1, <1>2, <1>3, <1>4, <1>5, <1>6, <1>7, <1>8, <1>9, <1>10, <1>11 DEF Next, WorkerStep

\* Fencing: a running row leaves that state only when the worker it names
\* records the outcome of this very row; a superseded worker's write is void.
THEOREM OutcomesAreFenced == Spec => FencedOutcome
<1>1. IInv /\ [Next]_vars => [Fenced]_vars
  <2> SUFFICES ASSUME IInv, [Next]_vars, NEW i \in Ids,
                      jobs[i].state = "running", jobs'[i].state # "running"
               PROVE  \E w \in Workers : /\ jobs[i].claimed_by = w
                                         /\ pc[w] = "record" /\ cur[w].id = i
                                         /\ pc'[w] = "poll"
    BY DEF Fenced
  <2>1. QED
    BY RowChange DEF Terminal
<1>2. QED
  BY <1>1, Invariance, PTL DEF Spec, FencedOutcome

-----------------------------------------------------------------------------
\* The history of executed rows grows by one row at a time, except that a new
\* row starts without history.
LEMMA RanChange ==
    ASSUME IInv, [Next]_vars, \A i \in Ids : jobs'[i].state = jobs[i].state
    PROVE  ran' = ran \/ \E i \in Ids : ran' = ran \cup {i}
<1> USE DEF IInv
<1>1. ASSUME NEW k, enqueue(k) PROVE ran' = ran
  <2>1. CASE KeyTaken(k)
    BY <1>1, <2>1 DEF enqueue
  <2>2. CASE ~KeyTaken(k)
    <3>1. PICK f \in FreshIds : jobs' = [jobs EXCEPT ![f] = NewRow(k)]
      BY <1>1, <2>2 DEF enqueue
    <3>2. f \in Ids /\ jobs[f].state = "absent" /\ jobs'[f].state = "pending"
      BY <3>1 DEF FreshIds, TypeOK, NewRow, NoRow
    <3>3. QED
      BY <3>2
  <2> QED
    BY <2>1, <2>2
<1>2. ASSUME NEW k \in Keys, Submit(k) PROVE ran' = ran
  BY <1>1, <1>2 DEF Submit
<1>3. ASSUME NEW w \in Workers, Bootstrap(w) PROVE ran' = ran
  BY <1>1, <1>3 DEF Bootstrap
<1>4. ASSUME NEW w \in Workers, HandlerReturns(w)
      PROVE  ran' = ran \/ \E i \in Ids : ran' = ran \cup {i}
  <2>1. cur[w].id \in Ids
    BY <1>4 DEF HandlerReturns, InHand, Claim
  <2>2. QED
    BY <1>4, <2>1 DEF HandlerReturns
<1>5. \A w \in Workers :
        Start(w) \/ claim(w) \/ Begin(w) \/ Heartbeat(w) \/ Record(w) \/ Shutdown(w)
            \/ Exit(w) \/ Crash(w) => ran' = ran
  BY DEF Start, claim, Begin, Heartbeat, Record, Shutdown, Exit, Crash
<1>6. Tick \/ UNCHANGED vars => ran' = ran
  BY DEF Tick, vars
<1> QED
  BY <1>2, <1>3, <1>4, <1>5, <1>6 DEF Next, WorkerStep

\* The queue implements the at-least-once lifecycle of JobLifecycle: the
\* refinement mapping forgets workers, leases and time.
THEOREM Refinement == Spec => ImplementsLifecycle
<1> DEFINE st == [i \in Ids |-> StatusOf(jobs[i].state)]
<1>1. Init => Lifecycle!Init
  <2> SUFFICES ASSUME Init PROVE Lifecycle!Init
    OBVIOUS
  <2>1. NoRow.state = "absent"
    BY DEF NoRow
  <2>2. \A i \in Ids : jobs[i].state = "absent"
    BY <2>1 DEF Init
  <2>3. st = [i \in Ids |-> "absent"]
    BY <2>2 DEF StatusOf
  <2>4. QED
    BY <2>3 DEF Init, Lifecycle!Init
<1>2. IInv /\ [Next]_vars => [Lifecycle!Next]_<<st, ran>>
  <2> SUFFICES ASSUME IInv, [Next]_vars
               PROVE  Lifecycle!Next \/ (st' = st /\ ran' = ran)
    OBVIOUS
  <2>0. /\ StatusOf("absent") = "absent" /\ StatusOf("pending") = "queued"
        /\ StatusOf("running") = "queued" /\ StatusOf("succeeded") = "done"
        /\ StatusOf("failed") = "dead"
    BY DEF StatusOf
  <2>1. CASE \A i \in Ids : jobs'[i].state = jobs[i].state
    <3>1. st' = st
      BY <2>1
    <3>2. CASE ran' = ran
      BY <3>1, <3>2
    <3>3. CASE \E i \in Ids : ran' = ran \cup {i}
      <4>1. PICK i \in Ids : ran' = ran \cup {i}
        BY <3>3
      <4>2. Lifecycle!Execute(i, {})
        BY <3>1, <4>1 DEF Lifecycle!Execute
      <4>3. QED
        BY <4>1, <4>2 DEF Lifecycle!Next
    <3> QED
      BY <2>1, <3>2, <3>3, RanChange
  <2>2. ASSUME NEW i \in Ids, jobs'[i].state # jobs[i].state
        PROVE  Lifecycle!Next \/ (st' = st /\ ran' = ran)
    <3>1. CASE /\ jobs[i].state = "absent" /\ jobs'[i].state = "pending"
               /\ ran' = ran \ {i}
               /\ \A k \in Ids : k # i => jobs'[k] = jobs[k]
      <4>1. st[i] = "absent" /\ st' = [st EXCEPT ![i] = "queued"]
        BY <2>0, <3>1
      <4>2. Lifecycle!Submit(i)
        BY <3>1, <4>1 DEF Lifecycle!Submit
      <4>3. QED
        BY <4>2 DEF Lifecycle!Next
    <3>2. CASE /\ ran' = ran
               /\ \A k \in Ids :
                    \/ jobs'[k].state = jobs[k].state
                    \/ jobs[k].state = "pending" /\ jobs'[k].state = "running"
      <4>1. st' = st
        BY <2>0, <3>2
      <4>2. QED
        BY <3>2, <4>1
    <3>3. CASE /\ \E w \in Workers : cur[w].id \in Ids /\ ran' = ran \cup {cur[w].id}
               /\ \A k \in Ids :
                    \/ jobs'[k].state = jobs[k].state
                    \/ jobs[k].state \in Terminal /\ jobs'[k].state = "absent"
      <4> DEFINE G == {k \in Ids : jobs[k].state \in Terminal /\ jobs'[k].state = "absent"}
      <4>1. PICK w \in Workers : cur[w].id \in Ids /\ ran' = ran \cup {cur[w].id}
        BY <3>3
      <4>2. \A k \in G : st[k] \in {"done", "dead"}
        BY <2>0 DEF Terminal
      <4>3. st' = [k \in Ids |-> IF k \in G THEN "absent" ELSE st[k]]
        BY <2>0, <3>3
      <4>4. Lifecycle!Execute(cur[w].id, G)
        BY <4>1, <4>2, <4>3 DEF Lifecycle!Execute
      <4>5. QED
        BY <4>1, <4>4 DEF Lifecycle!Next
    <3>4. CASE /\ jobs[i].state = "running"
               /\ jobs'[i].state \in {"pending", "succeeded", "failed"}
               /\ jobs'[i].state = "succeeded" => i \in ran
               /\ ran' = ran
               /\ \A k \in Ids : k # i => jobs'[k] = jobs[k]
      <4>1. CASE jobs'[i].state = "pending"
        <5>1. st' = st
          BY <2>0, <3>4, <4>1
        <5>2. QED
          BY <3>4, <5>1
      <4>2. CASE jobs'[i].state = "succeeded"
        <5>1. st[i] = "queued" /\ st' = [st EXCEPT ![i] = "done"] /\ i \in ran
          BY <2>0, <3>4, <4>2
        <5>2. Lifecycle!Complete(i)
          BY <3>4, <5>1 DEF Lifecycle!Complete
        <5>3. QED
          BY <5>2 DEF Lifecycle!Next
      <4>3. CASE jobs'[i].state = "failed"
        <5>1. st[i] = "queued" /\ st' = [st EXCEPT ![i] = "dead"]
          BY <2>0, <3>4, <4>3
        <5>2. Lifecycle!DeadLetter(i)
          BY <3>4, <5>1 DEF Lifecycle!DeadLetter
        <5>3. QED
          BY <5>2 DEF Lifecycle!Next
      <4> QED
        BY <3>4, <4>1, <4>2, <4>3
    <3> QED
      BY <2>2, <3>1, <3>2, <3>3, <3>4, RowChange
  <2> QED
    BY <2>1, <2>2
<1>3. QED
  BY <1>1, <1>2, Invariance, PTL DEF Spec, ImplementsLifecycle, Lifecycle!Spec

-----------------------------------------------------------------------------
\* Leases.  With batches of one and workers that act promptly, a row that a
\* worker has claimed and not begun, or is running with its heartbeat alive,
\* is claimed by that worker and its lease has not expired.

Leads(w, i) == jobs[i].claimed_by = w /\ jobs[i].lease > 0

LeasedBy(w) ==
    /\ pc[w] # "poll" => batch[w] = {}
    /\ \A c \in batch[w] : batch[w] = {c} /\ Leads(w, c.id)
    /\ pc[w] = "run" /\ beating[w] = TRUE => Leads(w, cur[w].id)

Leased == \A w \in Workers : LeasedBy(w)

\* A step keeps the rows a worker leads.
Keeps(w) == \A i \in Ids : Leads(w, i) => Leads(w, i)'

\* A worker whose memory a step leaves alone stays leased if it keeps its rows.
LEMMA LeasedAside ==
    ASSUME IInv, NEW w \in Workers, LeasedBy(w), Keeps(w),
           pc'[w] = pc[w], batch'[w] = batch[w], cur'[w] = cur[w], beating'[w] = beating[w]
    PROVE  LeasedBy(w)'
<1>1. \A c \in batch[w] : c.id \in Ids
  BY DEF IInv, TypeOK, Claim
<1>2. pc[w] = "run" => cur[w].id \in Ids
  BY DEF IInv, InHand, Claim
<1>3. QED
  BY <1>1, <1>2 DEF LeasedBy, Keeps

\* A led row is running, and so is not one that a statement may insert, claim
\* or delete.
LEMMA LedRows ==
    ASSUME IInv, NEW w \in Workers, NEW i \in Ids, Leads(w, i)
    PROVE  jobs[i].state = "running" /\ i \notin Due
<1>1. jobs[i].state = "running"
  BY DEF IInv, ClaimedIffRunning, Leads
<1>2. jobs[i].lease # 0
  BY DEF Leads, IInv, TypeOK, Row
<1>3. QED
  BY <1>1, <1>2 DEF Due

\* Inserting a row takes none from its worker.
LEMMA EnqueueKeeps ==
    ASSUME IInv, NEW k, enqueue(k), NEW w \in Workers
    PROVE  Keeps(w)
<1> SUFFICES ASSUME NEW i \in Ids, Leads(w, i)
             PROVE  jobs'[i] = jobs[i]
  BY DEF Keeps, Leads
<1>1. jobs[i].state = "running"
  BY LedRows
<1>2. CASE jobs' = jobs
  BY <1>2
<1>3. CASE \E f \in FreshIds : jobs' = [jobs EXCEPT ![f] = NewRow(k)]
  BY <1>1, <1>3 DEF FreshIds, IInv, TypeOK
<1>4. QED
  BY <1>2, <1>3 DEF enqueue

\* A claim of one row leases it to the worker and takes it from nobody.
LEMMA ClaimLeased ==
    ASSUME IInv, Leased, BatchSize = 1, IsFiniteSet(Ids), NEW w \in Workers, claim(w)
    PROVE  Leased'
<1>1. PICK S \in Batches :
        /\ S # {}
        /\ jobs' = [i \in Ids |-> IF i \in S THEN ClaimedRow(jobs[i], w) ELSE jobs[i]]
        /\ \/ batch' = [batch EXCEPT ![w] = {ClaimOf(i) : i \in S}]
           \/ UNCHANGED batch
  BY DEF claim
<1>2. pc[w] = "poll" /\ batch[w] = {} /\ UNCHANGED <<pc, cur, beating>>
  BY DEF claim
<1>3. S \subseteq Due /\ S \subseteq Ids
  BY DEF Batches, Due
<1>4. \A v \in Workers : Keeps(v)
  <2> SUFFICES ASSUME NEW v \in Workers, NEW i \in Ids, Leads(v, i)
               PROVE  jobs'[i] = jobs[i]
    BY DEF Keeps, Leads
  <2>1. i \notin S
    BY <1>3, LedRows
  <2>2. QED
    BY <1>1, <2>1
<1>5. PICK i \in S : S = {i}
  <2>1. IsFiniteSet(S) /\ Cardinality(S) \in Nat /\ Cardinality(S) # 0
    <3>1. IsFiniteSet(S)
      BY <1>3, FS_Subset
    <3>2. QED
      BY <1>1, <3>1, FS_CardinalityType, FS_EmptySet
  <2>2. Cardinality(S) = 1
    BY <2>1 DEF Batches
  <2>3. QED
    BY <2>1, <2>2, FS_Singleton
<1>6. i \in Ids /\ Leads(w, i)'
  <2>1. i \in Ids /\ jobs[i] \in Row /\ jobs'[i] = ClaimedRow(jobs[i], w)
    BY <1>1, <1>3 DEF IInv, TypeOK
  <2>2. jobs'[i].claimed_by = w /\ jobs'[i].lease = LeaseTTL
    BY <2>1 DEF ClaimedRow, Row
  <2>3. QED
    BY <2>1, <2>2, NumberAssumption DEF Leads
<1>7. batch'[w] = {} \/ (batch'[w] = {ClaimOf(i)} /\ ClaimOf(i).id = i)
  BY <1>1, <1>2, <1>5 DEF ClaimOf, IInv, TypeOK
<1>8. LeasedBy(w)'
  BY <1>2, <1>6, <1>7 DEF LeasedBy
<1>9. ASSUME NEW v \in Workers, v # w PROVE LeasedBy(v)'
  <2>1. batch'[v] = batch[v]
    BY <1>1, <1>9 DEF IInv, TypeOK
  <2>2. QED
    BY <1>2, <1>4, <2>1, LeasedAside DEF Leased
<1> QED
  BY <1>8, <1>9 DEF Leased

\* Taking the row in hand starts the heartbeat on a row that is still leased.
LEMMA BeginLeased ==
    ASSUME IInv, Leased, NEW w \in Workers, Begin(w)
    PROVE  Leased'
<1>1. PICK c \in batch[w] :
        /\ batch' = [batch EXCEPT ![w] = @ \ {c}]
        /\ cur' = [cur EXCEPT ![w] = c]
        /\ \/ pc' = [pc EXCEPT ![w] = "record"] /\ UNCHANGED beating
           \/ pc' = [pc EXCEPT ![w] = "run"] /\ beating' = [beating EXCEPT ![w] = TRUE]
  BY DEF Begin
<1>2. pc[w] = "poll" /\ jobs' = jobs
  BY DEF Begin
<1>3. batch[w] = {c} /\ Leads(w, c.id)
  BY <1>1 DEF Leased, LeasedBy
<1>4. batch'[w] = {} /\ cur'[w] = c /\ Leads(w, c.id)'
  BY <1>1, <1>2, <1>3 DEF IInv, TypeOK, Leads
<1>5. pc'[w] \in {"run", "record"}
  BY <1>1 DEF IInv, TypeOK
<1>6. LeasedBy(w)'
  BY <1>4, <1>5 DEF LeasedBy
<1>7. ASSUME NEW v \in Workers, v # w PROVE LeasedBy(v)'
  <2>1. pc'[v] = pc[v] /\ batch'[v] = batch[v] /\ cur'[v] = cur[v] /\ beating'[v] = beating[v]
    BY <1>1, <1>7 DEF IInv, TypeOK
  <2>2. Keeps(v)
    BY <1>2 DEF Keeps, Leads
  <2>3. QED
    BY <2>1, <2>2, LeasedAside DEF Leased
<1> QED
  BY <1>6, <1>7 DEF Leased

\* A heartbeat renews the lease it finds, or ends.
LEMMA HeartbeatLeased ==
    ASSUME IInv, Leased, NEW w \in Workers, Heartbeat(w)
    PROVE  Leased'
<1>1. pc[w] = "run" /\ UNCHANGED <<pc, batch, cur>>
  BY DEF Heartbeat
<1>2. cur[w].id \in Ids
  BY <1>1 DEF IInv, InHand, Claim
<1>3. \/ jobs' = [jobs EXCEPT ![cur[w].id].lease = LeaseTTL] /\ UNCHANGED beating
      \/ beating' = [beating EXCEPT ![w] = FALSE] /\ UNCHANGED jobs
  BY DEF Heartbeat
<1>4. \A v \in Workers : Keeps(v)
  <2> SUFFICES ASSUME NEW v \in Workers, NEW i \in Ids, Leads(v, i)
               PROVE  Leads(v, i)'
    BY DEF Keeps
  <2>1. jobs \in [Ids -> Row] /\ jobs[i] \in Row /\ jobs[cur[w].id] \in Row
    BY <1>2 DEF IInv, TypeOK
  <2>2. jobs'[i].claimed_by = jobs[i].claimed_by /\ jobs'[i].lease \in {jobs[i].lease, LeaseTTL}
    BY <1>2, <1>3, <2>1 DEF Row
  <2>3. QED
    BY <2>2, NumberAssumption DEF Leads
<1>5. CASE beating' = beating
  BY <1>1, <1>4, <1>5, LeasedAside DEF Leased
<1>6. CASE beating' = [beating EXCEPT ![w] = FALSE]
  <2>1. beating'[w] = FALSE /\ \A v \in Workers \ {w} : beating'[v] = beating[v]
    BY <1>6 DEF IInv, TypeOK
  <2>2. LeasedBy(w)'
    <3>1. batch'[w] = {}
      BY <1>1 DEF Leased, LeasedBy
    <3>2. QED
      BY <2>1, <3>1 DEF LeasedBy
  <2>3. QED
    BY <1>1, <1>4, <2>1, <2>2, LeasedAside DEF Leased
<1> QED
  BY <1>3, <1>5, <1>6

\* The gc a handler may run spares what is running; the heartbeat ends with it.
LEMMA HandlerReturnsLeased ==
    ASSUME IInv, Leased, NEW w \in Workers, HandlerReturns(w)
    PROVE  Leased'
<1>1. /\ pc[w] = "run" /\ pc' = [pc EXCEPT ![w] = "record"]
      /\ beating' = [beating EXCEPT ![w] = FALSE] /\ UNCHANGED <<batch, cur>>
      /\ jobs' = gc \/ jobs' = jobs
  BY DEF HandlerReturns
<1>2. \A v \in Workers : Keeps(v)
  <2> SUFFICES ASSUME NEW v \in Workers, NEW i \in Ids, Leads(v, i)
               PROVE  jobs'[i] = jobs[i]
    BY DEF Keeps, Leads
  <2>1. jobs[i].state = "running"
    BY LedRows
  <2>2. QED
    BY <1>1, <2>1 DEF gc, Terminal
<1>3. pc'[w] = "record" /\ batch'[w] = {}
  BY <1>1 DEF IInv, TypeOK, Leased, LeasedBy
<1>4. LeasedBy(w)'
  BY <1>3 DEF LeasedBy
<1>5. \A v \in Workers \ {w} : pc'[v] = pc[v] /\ beating'[v] = beating[v]
  BY <1>1 DEF IInv, TypeOK
<1> QED
  BY <1>1, <1>2, <1>4, <1>5, LeasedAside DEF Leased

\* An outcome releases only the row its own worker holds.
LEMMA RecordLeased ==
    ASSUME IInv, Leased, NEW w \in Workers, Record(w)
    PROVE  Leased'
<1>1. /\ pc[w] = "record" /\ pc' = [pc EXCEPT ![w] = "poll"]
      /\ cur' = [cur EXCEPT ![w] = NoClaim] /\ UNCHANGED <<batch, beating>>
  BY DEF Record
<1>2. \/ jobs' = jobs
      \/ jobs[cur[w].id].claimed_by = w /\ \E row : jobs' = [jobs EXCEPT ![cur[w].id] = row]
  BY DEF Record
<1>3. \A v \in Workers \ {w} : Keeps(v)
  <2> SUFFICES ASSUME NEW v \in Workers \ {w}, NEW i \in Ids, Leads(v, i)
               PROVE  jobs'[i] = jobs[i]
    BY DEF Keeps, Leads
  <2>1. jobs[i].claimed_by # w
    BY DEF Leads
  <2>2. QED
    BY <1>2, <2>1 DEF IInv, TypeOK
<1>4. pc'[w] = "poll" /\ batch'[w] = {}
  BY <1>1 DEF IInv, TypeOK, Leased, LeasedBy
<1>5. LeasedBy(w)'
  BY <1>4 DEF LeasedBy
<1>6. \A v \in Workers \ {w} : pc'[v] = pc[v] /\ cur'[v] = cur[v]
  BY <1>1 DEF IInv, TypeOK
<1> QED
  BY <1>1, <1>3, <1>5, <1>6, LeasedAside DEF Leased

\* Starting, bootstrapping, shutting down and dying take no row from anybody.
LEMMA OthersLeased ==
    ASSUME IInv, Leased, NEW w \in Workers,
           Start(w) \/ Bootstrap(w) \/ Shutdown(w) \/ Exit(w) \/ Crash(w)
    PROVE  Leased'
<1>1. \A v \in Workers : Keeps(v)
  <2>1. jobs' = jobs \/ \E k : enqueue(k)
    BY DEF Start, Bootstrap, Shutdown, Exit, Crash
  <2>2. CASE jobs' = jobs
    BY <2>2 DEF Keeps, Leads
  <2>3. CASE \E k : enqueue(k)
    BY <2>3, EnqueueKeeps
  <2> QED
    BY <2>1, <2>2, <2>3
<1>2. \A v \in Workers \ {w} :
        pc'[v] = pc[v] /\ batch'[v] = batch[v] /\ cur'[v] = cur[v] /\ beating'[v] = beating[v]
  BY DEF Start, Bootstrap, Shutdown, Exit, Crash, IInv, TypeOK
<1>3. CASE Shutdown(w)
  BY <1>1, <1>3, LeasedAside DEF Shutdown, Leased
<1>4. CASE Start(w) \/ Bootstrap(w) \/ Exit(w) \/ Crash(w)
  <2>1. batch'[w] = {} /\ pc'[w] # "run"
    BY <1>4 DEF Start, Bootstrap, Exit, Crash, IInv, TypeOK, Leased, LeasedBy
  <2>2. LeasedBy(w)'
    BY <2>1 DEF LeasedBy
  <2>3. QED
    BY <1>1, <1>2, <2>2, LeasedAside DEF Leased
<1> QED
  BY <1>3, <1>4

\* Time passes only between heartbeats and never over a row not yet begun.
LEMMA TickLeased ==
    ASSUME IInv, Leased, Prompt = TRUE, Tick
    PROVE  Leased'
<1>1. /\ \A w \in Workers : OnTime(w)
      /\ jobs' = [i \in Ids |-> Aged(jobs[i])]
      /\ UNCHANGED <<pc, batch, cur, beating>>
  BY DEF Tick
<1>2. ASSUME NEW w \in Workers PROVE batch[w] = {}
  BY <1>1 DEF Leased, LeasedBy, OnTime
<1>3. ASSUME NEW w \in Workers, pc[w] = "run", beating[w] = TRUE
      PROVE  Leads(w, cur[w].id)'
  <2>1. cur[w].id \in Ids /\ jobs[cur[w].id] \in Row
    BY <1>3 DEF IInv, TypeOK, InHand, Claim
  <2>2. jobs[cur[w].id].claimed_by = w /\ jobs[cur[w].id].lease > 0
    BY <1>3 DEF Leased, LeasedBy, Leads
  <2>3. jobs[cur[w].id].lease # 1
    BY <1>1, <1>3, <2>2 DEF OnTime
  <2>4. jobs'[cur[w].id] = Aged(jobs[cur[w].id]) /\ cur'[w] = cur[w]
    BY <1>1, <2>1
  <2>5. /\ Aged(jobs[cur[w].id]).claimed_by = w
        /\ Aged(jobs[cur[w].id]).lease \in {jobs[cur[w].id].lease, jobs[cur[w].id].lease - 1}
    BY <2>1, <2>2 DEF Aged, Row
  <2>6. jobs[cur[w].id].lease \in Int
    BY <2>1 DEF Row
  <2>7. Aged(jobs[cur[w].id]).lease > 0
    BY <2>2, <2>3, <2>5, <2>6
  <2>8. QED
    BY <2>4, <2>5, <2>7 DEF Leads
<1>4. QED
  BY <1>1, <1>2, <1>3 DEF Leased, LeasedBy

\* What the heartbeat is for: in a deployment that claims one row at a time and
\* whose workers keep their timers, no other worker ever takes a row from a
\* handler whose heartbeat is alive, for any lease, any number of workers, crashes
\* and failing statements.
THEOREM HeartbeatKeepsClaim ==
    ASSUME Prompt = TRUE, BatchSize = 1, IsFiniteSet(Ids)
    PROVE  Spec => []NotReclaimedMidRun
<1>1. Init => Leased
  BY DEF Init, Leased, LeasedBy
<1>2. IInv /\ Leased /\ [Next]_vars => Leased'
  <2> SUFFICES ASSUME IInv, Leased, [Next]_vars PROVE Leased'
    OBVIOUS
  <2>1. ASSUME NEW k \in Keys, Submit(k) PROVE Leased'
    <3>1. enqueue(k) /\ UNCHANGED <<pc, batch, cur, beating>>
      BY <2>1 DEF Submit
    <3>2. QED
      BY <3>1, EnqueueKeeps, LeasedAside DEF Leased
  <2>2. ASSUME NEW w \in Workers, WorkerStep(w) PROVE Leased'
    BY <2>2, ClaimLeased, BeginLeased, HeartbeatLeased, HandlerReturnsLeased, RecordLeased, OthersLeased
    DEF WorkerStep
  <2>3. CASE Tick
    BY <2>3, TickLeased
  <2>4. CASE UNCHANGED vars
    BY <2>4 DEF vars, Leased, LeasedBy, Leads
  <2> QED
    BY <2>1, <2>2, <2>3, <2>4 DEF Next
<1>3. IInv /\ Leased => NotReclaimedMidRun
  BY DEF IInv, TypeOK, Leased, LeasedBy, Leads, NotReclaimedMidRun
<1>4. QED
  BY <1>1, <1>2, <1>3, Invariance, PTL DEF Spec
=============================================================================
