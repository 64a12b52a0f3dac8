------------------------------ MODULE JobQueue ------------------------------
(***************************************************************************)
(* The PostgreSQL-backed background job queue and the workers that drain   *)
(* it: job/repo.rs (one SQL statement per operation), job/worker.rs (the   *)
(* poll, claim, run, record loop), job/registry.rs (the built-in kinds),   *)
(* job/schedule.rs and the producer email/queue.rs.                        *)
(*                                                                         *)
(* Time is kept relative to now: a row stores how far its run_at is ahead, *)
(* how much of its lease is left and how long ago it finished, and Tick    *)
(* lets one unit pass.  Nothing else in the code reads a clock.            *)
(*                                                                         *)
(* Every SQL statement is one atomic step.  For the claim this is exact    *)
(* although it SKIPs LOCKED rows: each statement that can hold such a row  *)
(* (another claim, a heartbeat, an outcome, the gc) leaves it unclaimable. *)
(***************************************************************************)
EXTENDS Integers, FiniteSets

CONSTANTS
    Ids,           \* identities a row can have (reused once nobody refers to them)
    Workers,       \* worker identities; a restarted process is a new one
    EmailKeys,     \* idempotency keys of messages requests may queue
    ForeignKeys,   \* keys of rows whose kind has no handler in this version
    RecurringKeys, \* keys of registry.recurring(): "recurring:retention", ...
    GcKey,         \* "recurring:jobs.gc"
    None,          \* SQL NULL
    BatchSize,     \* config.batch_size
    MaxAttempts,   \* config.max_attempts
    LeaseTTL,      \* config.lease_ttl
    BackoffBase,   \* config.backoff_base_ms
    HistoryAge,    \* config.history_retention_days
    MaxDelay,      \* bound: the longest delay and the longest overdue told apart
    MaxFaults,     \* bound: database round trips that fail
    Prompt         \* TRUE: time passes only while a handler runs or all is idle

Keys == EmailKeys \cup ForeignKeys \cup RecurringKeys

ASSUME NoneAssumption == None \notin Ids \cup Workers \cup Keys
ASSUME KeyAssumption ==
    /\ GcKey \in RecurringKeys
    /\ EmailKeys \cap ForeignKeys = {}
    /\ RecurringKeys \cap (EmailKeys \cup ForeignKeys) = {}
ASSUME NumberAssumption ==
    /\ BatchSize \in Nat \ {0}   /\ MaxAttempts \in Nat \ {0}
    /\ LeaseTTL \in Nat \ {0}    /\ BackoffBase \in Nat \ {0}
    /\ HistoryAge \in Nat \ {0}  /\ MaxDelay \in Nat \ {0}
    /\ MaxFaults \in Nat         /\ Prompt \in BOOLEAN

VARIABLES
    jobs,     \* the background_job table
    pc,       \* where each worker is in Worker::run
    stop,     \* whether each worker's shutdown token is cancelled
    todo,     \* recurring keys each worker has still to bootstrap
    batch,    \* claimed rows each worker has in memory and has not begun
    cur,      \* the claimed row each worker is running
    result,   \* what its handler returned
    beating,  \* whether its heartbeat task is still looping
    ran,      \* history: rows whose handler has returned Ok
    faults    \* history: database round trips that have failed

vars == <<jobs, pc, stop, todo, batch, cur, result, beating, ran, faults>>

-----------------------------------------------------------------------------
\* The table

States == {"absent", "pending", "running", "succeeded", "failed"}
Terminal == {"succeeded", "failed"}

\* schedule is NULL, an object with every_seconds or cron, or something else
Schedules == {"null", "every", "invalid"}

\* Attempts are told apart up to one more than the budget.
AttemptRange == 0 .. MaxAttempts + 1

Row == [key: Keys \cup {None}, state: States, attempts: AttemptRange,
        schedule: Schedules, run_at: -MaxDelay .. MaxDelay,
        claimed_by: Workers \cup {None}, lease: 0 .. LeaseTTL,
        finished: 0 .. HistoryAge]

NoRow == [key |-> None, state |-> "absent", attempts |-> 0, schedule |-> "null",
          run_at |-> 0, claimed_by |-> None, lease |-> 0, finished |-> 0]

\* What the RETURNING clause of a claim hands to the worker.
Claim == [id: Ids, key: Keys, attempts: AttemptRange, schedule: Schedules]
NoClaim == [id |-> None, key |-> None, attempts |-> 0, schedule |-> "null"]

Outcomes == {"none", "ok", "failed", "permanent", "no_handler"}

\* The claims a worker has in memory: it is the only worker-side record of them.
Held(w) == batch[w] \cup (IF pc[w] \in {"run", "record"} THEN {cur[w]} ELSE {})

\* BIGINT identities never repeat; one nobody refers to stands for a new one.
FreshIds == {i \in Ids : /\ jobs[i].state = "absent"
                         /\ \A w \in Workers : \A c \in Held(w) : c.id # i}

KeyTaken(k) == \E i \in Ids : jobs[i].state # "absent" /\ jobs[i].key = k

\* INSERT ... ON CONFLICT (idempotency_key) DO NOTHING.  The column list leaves
\* schedule out, so the row gets the column default, NULL.
NewRow(k) == [NoRow EXCEPT !.key = k, !.state = "pending"]

enqueue(k) ==
    IF KeyTaken(k)
    THEN UNCHANGED <<jobs, ran>>
    ELSE \E i \in FreshIds : /\ jobs' = [jobs EXCEPT ![i] = NewRow(k)]
                             /\ ran' = ran \ {i}

\* next_run_at and backoff_ms, in ticks from now; delays saturate at MaxDelay.
Saturate(d) == IF d \in 0 .. MaxDelay THEN d ELSE MaxDelay

backoff(attempt) == {Saturate(BackoffBase * 2 ^ (attempt - 1) + jitter) :
                        jitter \in 0 .. BackoffBase - 1}
EveryDelay == MaxDelay

Released(row) == [row EXCEPT !.claimed_by = None, !.lease = 0]

\* The row after finish_success, retry and fail, each WHERE claimed_by = worker.
Succeeded(row, schedule) ==
    IF schedule = "null"
    THEN [Released(row) EXCEPT !.state = "succeeded", !.finished = 0]
    ELSE [Released(row) EXCEPT !.state = "pending", !.attempts = 0, !.run_at = EveryDelay]
Retried(row, delay) == [Released(row) EXCEPT !.state = "pending", !.run_at = delay]
Failed(row) == [Released(row) EXCEPT !.state = "failed", !.finished = 0]

-----------------------------------------------------------------------------
\* Producers

\* JobEmailQueue::enqueue, or a row written by another version of the program.
Submit(k) ==
    /\ k \in EmailKeys \cup ForeignKeys
    /\ ~KeyTaken(k)
    /\ enqueue(k)
    /\ UNCHANGED <<pc, stop, todo, batch, cur, result, beating, faults>>

-----------------------------------------------------------------------------
\* Worker::run

\* The process starts and its worker begins to bootstrap the recurring rows.
Start(w) ==
    /\ pc[w] = "off"
    /\ pc' = [pc EXCEPT ![w] = "boot"]
    /\ todo' = [todo EXCEPT ![w] = RecurringKeys]
    /\ UNCHANGED <<jobs, stop, batch, cur, result, beating, ran, faults>>

\* One enqueue of Worker::bootstrap; an error is logged and the loop goes on.
Bootstrap(w) ==
    /\ pc[w] = "boot"
    /\ \E k \in todo[w] :
        /\ todo' = [todo EXCEPT ![w] = @ \ {k}]
        /\ pc' = [pc EXCEPT ![w] = IF todo[w] = {k} THEN "poll" ELSE "boot"]
        /\ \/ enqueue(k) /\ UNCHANGED faults
           \/ /\ faults < MaxFaults
              /\ faults' = faults + 1
              /\ UNCHANGED <<jobs, ran>>
    /\ UNCHANGED <<stop, batch, cur, result, beating>>

\* Mutants of Due: leases are not looked at; expired leases are not reclaimed.
DueIgnoringLease == {i \in Ids : jobs[i].state \in {"pending", "running"} /\ jobs[i].run_at <= 0}
DueOnlyPending == {i \in Ids : jobs[i].state = "pending" /\ jobs[i].run_at <= 0}

\* Rows the claim query may take, and the batches ORDER BY run_at LIMIT can pick.
Due == {i \in Ids : /\ \/ jobs[i].state = "pending"
                       \/ jobs[i].state = "running" /\ jobs[i].lease = 0
                    /\ jobs[i].run_at <= 0}

Batches ==
    {S \in SUBSET Due :
        /\ \/ Cardinality(S) = BatchSize
           \/ S = Due /\ Cardinality(S) < BatchSize
        /\ \A i \in S, k \in Due \ S : jobs[i].run_at <= jobs[k].run_at}

\* attempts + 1, told apart up to MaxAttempts + 1
Bump(n) == IF n <= MaxAttempts THEN n + 1 ELSE n

ClaimedRow(row, w) ==
    [row EXCEPT !.state = "running", !.claimed_by = w, !.lease = LeaseTTL,
                !.attempts = Bump(@)]

ClaimOf(i) == [id |-> i, key |-> jobs[i].key, attempts |-> Bump(jobs[i].attempts),
               schedule |-> jobs[i].schedule]

\* The claim statement.  The reply may be lost after the commit; run() then
\* logs, sleeps and polls again, and the rows wait for their lease to expire.
claim(w) ==
    /\ pc[w] = "poll" /\ batch[w] = {} /\ ~stop[w]
    /\ \E S \in Batches :
        /\ S # {}
        /\ jobs' = [i \in Ids |-> IF i \in S THEN ClaimedRow(jobs[i], w) ELSE jobs[i]]
        /\ \/ batch' = [batch EXCEPT ![w] = {ClaimOf(i) : i \in S}] /\ UNCHANGED faults
           \/ /\ faults < MaxFaults
              /\ faults' = faults + 1
              /\ UNCHANGED batch
    /\ UNCHANGED <<pc, stop, todo, cur, result, beating, ran>>

\* run_job up to the handler call: look the handler up, spawn the heartbeat.
\* The rows of a batch are run one by one, in the order RETURNING gave.
Begin(w) ==
    /\ pc[w] = "poll"
    /\ \E c \in batch[w] :
        /\ batch' = [batch EXCEPT ![w] = @ \ {c}]
        /\ cur' = [cur EXCEPT ![w] = c]
        /\ \/ /\ c.key \in ForeignKeys
              /\ pc' = [pc EXCEPT ![w] = "record"]
              /\ result' = [result EXCEPT ![w] = "no_handler"]
              /\ UNCHANGED beating
           \/ /\ c.key \notin ForeignKeys
              /\ pc' = [pc EXCEPT ![w] = "run"]
              /\ beating' = [beating EXCEPT ![w] = TRUE]
              /\ UNCHANGED result
    /\ UNCHANGED <<jobs, stop, todo, ran, faults>>

\* The heartbeat task: one UPDATE ... WHERE running AND claimed_by = worker, or
\* an error, after which the task ends and the lease is no longer extended.
Heartbeat(w) ==
    /\ pc[w] = "run" /\ beating[w]
    /\ LET i == cur[w].id IN
        \/ /\ jobs[i].state = "running" /\ jobs[i].claimed_by = w
           /\ jobs' = [jobs EXCEPT ![i].lease = LeaseTTL]
           /\ UNCHANGED <<beating, faults>>
        \/ /\ faults < MaxFaults
           /\ faults' = faults + 1
           /\ beating' = [beating EXCEPT ![w] = FALSE]
           /\ UNCHANGED jobs
    /\ UNCHANGED <<pc, stop, todo, batch, cur, result, ran>>

\* Mutant of gc: the state filter only spares pending rows.
gcRunningToo == [i \in Ids |-> IF jobs[i].state \notin {"absent", "pending"} THEN NoRow ELSE jobs[i]]

\* jobs.gc: DELETE terminal rows that finished before the cutoff.
gc == [i \in Ids |-> IF jobs[i].state \in Terminal /\ jobs[i].finished = HistoryAge
                     THEN NoRow ELSE jobs[i]]

\* handler.run returns and the heartbeat is aborted.  Only an email payload can
\* be undecodable (Permanent); retention and jobs.gc fail transiently.
HandlerReturns(w) ==
    /\ pc[w] = "run"
    /\ \E r \in {"ok", "failed", "permanent"} :
        /\ r = "permanent" => cur[w].key \in EmailKeys
        /\ result' = [result EXCEPT ![w] = r]
        /\ ran' = IF r = "ok" THEN ran \cup {cur[w].id} ELSE ran
        /\ jobs' = IF r = "ok" /\ cur[w].key = GcKey THEN gc ELSE jobs
    /\ pc' = [pc EXCEPT ![w] = "record"]
    /\ beating' = [beating EXCEPT ![w] = FALSE]
    /\ UNCHANGED <<stop, todo, batch, cur, faults>>

\* Mutant of Recorded: the budget comparison is off by one.
RecordedOffByOne(row, c, r) ==
    CASE r = "ok" /\ c.schedule # "invalid"        -> {Succeeded(row, c.schedule)}
      [] r = "failed" /\ c.attempts <= MaxAttempts -> {Retried(row, d) : d \in backoff(c.attempts)}
      [] OTHER                                     -> {Failed(row)}

\* The row that run_job's match on the outcome writes.
Recorded(row, c, r) ==
    CASE r = "ok" /\ c.schedule # "invalid"       -> {Succeeded(row, c.schedule)}
      [] r = "failed" /\ c.attempts < MaxAttempts -> {Retried(row, d) : d \in backoff(c.attempts)}
      [] OTHER                                    -> {Failed(row)}

\* Mutant of Record: the outcome is written whoever holds the claim.
RecordUnfenced(w) ==
    /\ pc[w] = "record"
    /\ jobs[cur[w].id].state # "absent"
    /\ \E row \in Recorded(jobs[cur[w].id], cur[w], result[w]) :
            jobs' = [jobs EXCEPT ![cur[w].id] = row]
    /\ pc' = [pc EXCEPT ![w] = "poll"]
    /\ cur' = [cur EXCEPT ![w] = NoClaim]
    /\ result' = [result EXCEPT ![w] = "none"]
    /\ UNCHANGED <<stop, todo, batch, beating, ran, faults>>

\* The outcome is written if the row is still claimed by this worker; whether
\* the statement failed is ignored (let _ =), and the next row is taken.
Record(w) ==
    /\ pc[w] = "record"
    /\ LET i == cur[w].id IN
        \/ /\ jobs[i].claimed_by = w
           /\ \E row \in Recorded(jobs[i], cur[w], result[w]) : jobs' = [jobs EXCEPT ![i] = row]
           /\ UNCHANGED faults
        \/ /\ jobs[i].claimed_by # w
           /\ UNCHANGED <<jobs, faults>>
        \/ /\ jobs[i].claimed_by = w
           /\ faults < MaxFaults
           /\ faults' = faults + 1
           /\ UNCHANGED jobs
    /\ pc' = [pc EXCEPT ![w] = "poll"]
    /\ cur' = [cur EXCEPT ![w] = NoClaim]
    /\ result' = [result EXCEPT ![w] = "none"]
    /\ UNCHANGED <<stop, todo, batch, beating, ran>>

\* The shutdown token is cancelled; the loop condition sees it between batches.
Shutdown(w) ==
    /\ pc[w] \in {"boot", "poll", "run", "record"} /\ ~stop[w]
    /\ stop' = [stop EXCEPT ![w] = TRUE]
    /\ UNCHANGED <<jobs, pc, todo, batch, cur, result, beating, ran, faults>>

\* Mutant of Exit: shutdown abandons what is left of the batch.
ExitMidBatch(w) ==
    /\ pc[w] = "poll" /\ stop[w]
    /\ pc' = [pc EXCEPT ![w] = "stopped"]
    /\ batch' = [batch EXCEPT ![w] = {}]
    /\ UNCHANGED <<jobs, stop, todo, cur, result, beating, ran, faults>>

Exit(w) ==
    /\ pc[w] = "poll" /\ batch[w] = {} /\ stop[w]
    /\ pc' = [pc EXCEPT ![w] = "stopped"]
    /\ UNCHANGED <<jobs, stop, todo, batch, cur, result, beating, ran, faults>>

\* The process dies (or the worker task panics): its memory is gone.
Crash(w) ==
    /\ pc[w] \in {"boot", "poll", "run", "record"}
    /\ pc' = [pc EXCEPT ![w] = "crashed"]
    /\ batch' = [batch EXCEPT ![w] = {}]
    /\ cur' = [cur EXCEPT ![w] = NoClaim]
    /\ result' = [result EXCEPT ![w] = "none"]
    /\ beating' = [beating EXCEPT ![w] = FALSE]
    /\ todo' = [todo EXCEPT ![w] = {}]
    /\ UNCHANGED <<jobs, stop, ran, faults>>

-----------------------------------------------------------------------------
\* Time

Aged(row) ==
    IF row.state = "absent" THEN row
    ELSE [row EXCEPT !.run_at = IF @ > -MaxDelay THEN @ - 1 ELSE @,
                     !.lease = IF @ > 0 THEN @ - 1 ELSE @,
                     !.finished = IF row.state \in Terminal /\ @ < HistoryAge THEN @ + 1 ELSE @]

\* Prompt workers pick up and record without delay, and the heartbeat interval
\* (a third of the lease) is kept.
OnTime(w) ==
    /\ pc[w] = "poll" => batch[w] = {}
    /\ pc[w] # "record"
    /\ pc[w] = "run" /\ beating[w] /\ jobs[cur[w].id].claimed_by = w => jobs[cur[w].id].lease # 1

Tick ==
    /\ Prompt => \A w \in Workers : OnTime(w)
    /\ jobs' = [i \in Ids |-> Aged(jobs[i])]
    /\ UNCHANGED <<pc, stop, todo, batch, cur, result, beating, ran, faults>>

-----------------------------------------------------------------------------
Init ==
    /\ jobs = [i \in Ids |-> NoRow]
    /\ pc = [w \in Workers |-> "off"]
    /\ stop = [w \in Workers |-> FALSE]
    /\ todo = [w \in Workers |-> {}]
    /\ batch = [w \in Workers |-> {}]
    /\ cur = [w \in Workers |-> NoClaim]
    /\ result = [w \in Workers |-> "none"]
    /\ beating = [w \in Workers |-> FALSE]
    /\ ran = {}
    /\ faults = 0

WorkerStep(w) == \/ Start(w) \/ Bootstrap(w) \/ claim(w) \/ Begin(w) \/ Heartbeat(w)
                 \/ HandlerReturns(w) \/ Record(w) \/ Shutdown(w) \/ Exit(w) \/ Crash(w)

Next ==
    \/ \E k \in Keys : Submit(k)
    \/ \E w \in Workers : WorkerStep(w)
    \/ Tick

Spec == Init /\ [][Next]_vars

\* Time passes, a worker that runs keeps taking its own next step, its handler
\* returns and its heartbeat timer fires; nothing is assumed of producers,
\* shutdowns, crashes or failures.
Fairness ==
    /\ WF_vars(Tick)
    /\ \A w \in Workers : /\ WF_vars(Start(w))
                          /\ WF_vars(Bootstrap(w))
                          /\ WF_vars(claim(w))
                          /\ WF_vars(Begin(w))
                          /\ WF_vars(Heartbeat(w))
                          /\ WF_vars(HandlerReturns(w))
                          /\ WF_vars(Record(w))
                          /\ WF_vars(Exit(w))

FairSpec == Spec /\ Fairness

-----------------------------------------------------------------------------
\* The types of the table and of the workers' memory.
TypeOK ==
    /\ jobs \in [Ids -> Row]
    /\ pc \in [Workers -> {"off", "boot", "poll", "run", "record", "stopped", "crashed"}]
    /\ stop \in [Workers -> BOOLEAN]
    /\ todo \in [Workers -> SUBSET RecurringKeys]
    /\ batch \in [Workers -> SUBSET Claim]
    /\ cur \in [Workers -> Claim \cup {NoClaim}]
    /\ result \in [Workers -> Outcomes]
    /\ beating \in [Workers -> BOOLEAN]
    /\ ran \in SUBSET Ids
    /\ faults \in 0 .. MaxFaults

\* A claim in a worker's memory is either lost (the row names somebody else or
\* nobody) or it is the row's latest claim: same job and same attempt number, so
\* the outcome the worker writes and the budget it compares are those of this run.
ClaimIsCurrent ==
    \A w \in Workers : \A c \in Held(w) :
        jobs[c.id].claimed_by = w =>
            /\ jobs[c.id].state = "running"
            /\ jobs[c.id].key = c.key
            /\ jobs[c.id].attempts = c.attempts

\* While no round trip has failed, a running row is in the memory of the worker
\* it names, or that worker crashed: in particular a worker that shut down
\* gracefully left no row waiting for a lease to expire.
NothingStranded ==
    faults = 0 =>
        \A i \in Ids : jobs[i].state = "running" =>
            \E w \in Workers : /\ jobs[i].claimed_by = w
                               /\ pc[w] = "crashed" \/ \E c \in Held(w) : c.id = i

\* A row is put back in the queue only while it has attempts left.
RetryWithinBudget ==
    \A i \in Ids : jobs[i].state = "pending" => jobs[i].attempts < MaxAttempts

\* Fencing (the header of job/repo.rs): a running row leaves that state only by
\* the step in which the worker it names records the outcome of this very row.
Fenced ==
    \A i \in Ids :
        jobs[i].state = "running" /\ jobs'[i].state # "running" =>
            \E w \in Workers : /\ jobs[i].claimed_by = w
                               /\ pc[w] = "record" /\ cur[w].id = i
                               /\ pc'[w] = "poll"
FencedOutcome == [][Fenced]_vars

\* What the heartbeat is for (worker.rs:181): while a worker runs a job and its
\* heartbeat is alive, the row stays claimed by that worker.
NotReclaimedMidRun ==
    \A w \in Workers :
        pc[w] = "run" /\ beating[w] => jobs[cur[w].id].claimed_by = w

\* Every row that is queued is eventually settled: succeeded, dead-lettered (or
\* already collected), unless every worker has stopped or crashed.
EventuallySettled ==
    \A i \in Ids :
        jobs[i].state \in {"pending", "running"} ~>
            \/ jobs[i].state \notin {"pending", "running"}
            \/ \A w \in Workers : pc[w] \in {"stopped", "crashed"}

\* docs/deployment.md:304: recurring jobs never go terminal on success.
RecurringStaysQueued ==
    \A i \in Ids : jobs[i].key \in RecurringKeys => jobs[i].state # "succeeded"

\* The queue implements an at-least-once job lifecycle.
StatusOf(state) == CASE state = "absent"    -> "absent"
                     [] state = "succeeded" -> "done"
                     [] state = "failed"    -> "dead"
                     [] OTHER               -> "queued"
Lifecycle == INSTANCE JobLifecycle WITH
    status <- [i \in Ids |-> StatusOf(jobs[i].state)],
    executed <- ran
\* Every behaviour of the queue is one of the abstract lifecycle: a job is done
\* only after a run returned Ok, terminal rows never come back, and only
\* terminal rows are deleted.
ImplementsLifecycle == Lifecycle!Spec
=============================================================================
