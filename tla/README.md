# A TLA+ development of bikesnest

bikesnest is a community catalogue of bicycle parking: a Rust web application (axum, sqlx)
on PostgreSQL/PostGIS, with object storage for photos, an in-process worker that drains a job
queue in the same database, and any number of instances. Requests and workers share nothing
but the database, under READ COMMITTED; what one statement reads may be gone when the next
one writes. This directory models the parts where that matters, checks them with TLC on small
instances and proves the central properties with TLAPS for every instance.

## Inventory

| component | state it keeps | operations | interacts with | what makes it correct |
|---|---|---|---|---|
| job queue (`infrastructure/src/job`) | `background_job` rows: state, attempts, run_at, claim, lease; in each worker its batch and the job it runs | enqueue, claim, heartbeat, finish_success, retry, fail, gc; worker: bootstrap, poll, run, shut down | email queue and registry produce rows; handlers run retention, gc, email.send | a job runs at least once or is dead-lettered; a superseded worker cannot write; every job is settled |
| email queue (`infrastructure/src/email`) | none of its own | enqueue one row per message, keyed by its content | auth and privacy services call it; job queue delivers | a message asked for twice is queued once |
| parking locations (`community/contribution.rs`) | `parking_location` (with `version`), `opening_hours`, `parking_security`, `parking_revision` | add, open and apply an edit | moderation writes the same rows; the edit page reads them in several statements | no lost update; history complete and current |
| proposals (`moderation/actions.rs`) | `parking_proposal`: base version, status, resolver | propose, approve, reject; invalidate and restore a location | locks location, proposal and siblings; erasure locks the same rows | resolved once, on the version it was made for; no lock is kept |
| accounts (`application/src/auth.rs`, `infrastructure/src/auth`) | users, identities, sessions, tokens, roles | register, verify, log in, reset, change email and password, grant, revoke, suspend, restore | erasure deletes the rows; every request resolves a session | an administrator remains; one login key per account; tokens are used once |
| reviews, verifications, favourites (`infrastructure/src/community`) | `review`, `review_revision`, the aggregate on the location, `verification`, `favorite` | upsert, hide, restore, confirm, toggle | moderation hides reviews | the aggregate equals the reviews that count |
| photos (`application/src/photo.rs`, `infrastructure/src/photo`) | rows and objects in storage | upload, approve, reject, the orphan and pending sweeps | object storage fails independently | no row without object, no object kept without row |
| reports (`moderation/report.rs`) | `report`: status, claim | submit, claim, resolve, hide the target | hides reviews, photos, locations | one resolution; the target follows it |
| privacy (`application/src/privacy.rs`, `infrastructure/src/privacy`) | `privacy_request`, `personal_data_export`, the account shell | export, delete (anonymize in place), retention sweep | touches every table that names a person | erasure is complete and final; the last administrator stays |
| rate limiting (`auth/rate_limit.rs`) | sliding windows in memory or ValKey | check | every service | never more than the limit in a window; memory is bounded |
| opening hours, freshness (`domain`) | none | is it open at an instant | search repeats it in SQL | intervals across midnight and the week's end |
| search (`parking/search.rs`, `application/src/search.rs`) | none; a walk carries a keyset cursor in its URL | a page of a radius search, a look at a map area | reads what the others write, between two of its own statements | nothing listed twice or skipped |
| geocoding (`geocoding.rs`) | a bounded, expiring cache in memory; the caller's budget | peek, charge, resolve | rate limiting charges it | calls are metered; a correction arrives |
| policies (`privacy/policy_seed.rs`, `policy.rs`) | `policy_version` | seed a release; the current page and its history | started by hand, several at once | a published page stays published |
| startup (`main.rs`, `config.rs`, `wiring.rs`, `fresh_seed.rs`) | one process: configuration, worker, requests in flight | launch, subcommands, drain, seed-full-fresh | starts everything else | production uses real providers; mail is carried; a fresh seed is whole |
| web layer (`web/src/auth.rs`, `routes/auth.rs`, `auth.js`) | session and CSRF cookies, the tab's page | the middleware, the account routes, boosted navigation | other tabs share the cookies | a form is accepted for the account it was shown to |
| views, templates, i18n, image decoding, transports, pool, dev data | stateless or external | | | not modelled (see below) |

**What is hard here.** Workers and requests interleave at every statement; a process may stop
between two of them (crash, shutdown, client gone, lost reply); leases expire under a live
run; a page is read long before its form comes back; approvals and erasures lock the same rows
in different orders; an audit event is written after the commit it reports; the object store
fails by itself; clocks of processes disagree; cookies change under a page. `PROJECT.json`
lists these hazards at their lines, with the properties that cover them.

## Plan

The modules in the order they were planned, all written and checked:

1. `JobLifecycle`, `JobQueue`: the queue with its workers, and the abstract lifecycle it
   implements; refinement, safety, liveness; proofs.
2. `Parking`: locations, revisions and proposals, with the row locks of an approval and of an
   erasure; safety, liveness; proofs.
3. `Accounts`: accounts, identities, sessions, tokens and roles with the last-admin guard, and
   what an erasure and the purges do to these rows; proofs.
4. `Photos`: rows against objects in a store that fails, uploads against the two sweeps; proofs.
5. `Reviews`, `Reports`: the rating aggregate, the resolution of a report and the hiding of its
   target; proofs.
6. `Privacy`: exports, deletion and rights requests, with the retention job; proofs.
7. `RateLimiter`, `OpeningHours` with `HoursForm`, `Search`, `Geocoding`, `Policies`, `Startup`,
   `Browser`: components that share no state with each other; proofs (`ComponentsProofs`).

Each `MC` module fixes the symmetries and the definitions that a `.cfg` cannot write. The
modules of step 7 are composed in `MCComponents`: a behaviour picks one of them (`focus`) and
only that one moves, so that one run explores each completely. `MCAccounts` lets a behaviour
sign up with emailed tokens or through the OAuth provider (`signup`), never both: the two meet
only in the account row. Every safety invariant and action property of the passing runs is proved;
what stays model-checked is under *Proofs*.

## JobQueue

`jobs` is the table; `pc`, `stop`, `todo`, `batch`, `cur`, `result` and `beating` are the
locals of `Worker::run`, `run_job` and the heartbeat task; `ran` and `faults` are history
variables. Time is relative to now: a row holds how far `run_at` is ahead, what is left of its
lease and how long ago it finished; `Tick` moves them all.

| action | code |
|---|---|
| `Submit` | `JobEmailQueue::enqueue` and rows of kinds this build does not know |
| `Start`, `Bootstrap` | `main` spawns the worker; one `enqueue` per recurring kind, errors logged |
| `claim` | the poll: the `UPDATE ... FOR UPDATE SKIP LOCKED ... RETURNING`, or its lost reply |
| `Begin` | `process`/`run_job` up to the handler: the heartbeat is spawned, or there is no handler |
| `Heartbeat` | one round of `spawn_heartbeat`; its first error ends it |
| `HandlerReturns` | the handler's result; `jobs.gc` deletes old terminal rows |
| `Record` | the `match` on the result: finish_success, retry, fail, each fenced by `claimed_by` |
| `Shutdown`, `Exit`, `Crash` | the token, the end of the loop, the end of the process |

A statement is atomic. For `claim` this is exact although it skips locked rows: every
statement that can hold such a row (another claim, a heartbeat, an outcome, the gc) leaves it
unclaimable. Payloads are left out; `on_dead_letter` only logs. `schedule` is in the model
with its three forms although no code path writes it: that is the finding of `jobs_recurring`.

`JobLifecycle` is the promise: a job is queued, executed any number of times, and completed
only after an execution or dead-lettered; only settled jobs are forgotten.

## Parking

`loc`, `hours`, `revs` and `props` are the tables; `lock` holds the row locks kept between two
steps of a transaction; `pc` and `req` are each account's one open request, with what it has
read. A transaction that works on one locked location is a single step taken when the lock is
free; `approve_proposal` and `anonymize` are split at their locks, and service calls between
statements.

| action | code |
|---|---|
| `add_parking_location` | the service and `create`: row, hours, security, revision 1 |
| `OpenEdit`, `ReadHours` | the edit page: `details` reads the row, then hours and security |
| `SubmitEdit`, `apply_edit` | `parking_edit_post`, `require_active`; then lock, compare, write, snapshot |
| `invalidate_parking`, `restore_parking` | the services over `set_parking_state` |
| `Propose`, `create_proposal` | `require_active` reads the base version; the INSERT |
| `Approve`, `LockLocation`, `LockProposal`, `approve_proposal` | the service's read and `merge`; the location lock; the proposal lock with its two checks; UPDATE, revision, siblings, COMMIT |
| `reject_proposal` | one guarded UPDATE |
| `Anonymize`, `EraseProposals`, `EraseLocations` | the statements of an erasure that lock these rows |
| `RecordAudit` | the audit event, a statement of its own after the commit |
| `Drop`, `BreakDeadlock` | a request dropped at an await; PostgreSQL's 40P01 |

Abstracted: field values to `Contents` and `Places`; the proposed value, since `merge` lets the
moderator replace it by any other of its kind; proposer and resolver to one set, because the
erasure matches and clears them together. The siblings of an approval are locked in one step
when all are free; an approval that waits holding some of them can only be undone by the
deadlock detector, which is the step `Drop` takes as well. Every account may moderate: the
role check does not touch this state.

## Accounts

`users`, `pw` and `google` (the two kinds of `authentication_identities`), `admins` (the ADMIN
rows of `user_roles`), `sess`, `verifs` and `resets` are the tables; `lock` and `scan` are the
locks and the snapshot of a `SELECT ... FOR UPDATE` over the ADMIN rows; `pc` and `req` are the
requests in flight, with what each has read or been given.

| action | code |
|---|---|
| `register`, `issue_verification`, `resend_verification` | the services; `create` (account and password identity in one transaction) and the token's INSERT, which the foreign key refuses for a row that is gone |
| `consume_verification`, `verify_email`, `confirm_email` | the link in the mail: the guarded UPDATE, `find_by_id`, and the transaction that writes address, state and identity |
| `login`, `CreateSession` | the identity, the password and `can_log_in`; then the session |
| `oauth_callback`, `CreateOAuth`, `link_identity`, `SignInNew` | the three branches of the callback, each statement by itself |
| `resolve_session`, `logout`, `revoke_all_for_user_except` | the middleware; the revocations that end several operations |
| `request_password_reset`, `issue_reset`, `consume_reset`, `change_password`, `change_email` | the services of the same names |
| `grant_role`, `suspend_user`, `restore_user` | the administrator's operations, on the role the middleware has read |
| `revoke_role`, `LockAdminRow`, `GuardLastAdmin`, `revoke_role_guarded` | the snapshot of the ADMIN rows, their locks one by one, the count, the DELETE and COMMIT |
| `request_deletion`, `anonymize_inactive_accounts`, `last_admin_locked`, `anonymize` | an erasure asked for by its owner or found by the sweep, behind the same guard |
| `purge_deleted_accounts`, `ExpireSession`, `ExpireToken` | the retention job and the clock |
| `Drop` | a request dropped at an await, a failed statement, PostgreSQL's 40P01 |

A `SELECT ... FOR UPDATE` sees the rows of its snapshot, waits for each lock, skips a row that
was deleted while it waited and does not see one inserted since. This is why the guard is right
for the rows it returned and no further: a revoke of ADMIN from an account that did not have it
when the snapshot was taken deletes a row granted meanwhile, and that row may be the last one;
and ADMIN granted to a DELETED shell goes with the purge. `LastAdminGuarded` states exactly what
the guard gives, and the hazards name what it does not.

Abstracted: ids are never reused ("PURGED" is a row that is gone); revoked and expired sessions
and spent tokens are forgotten; hashes are left out, so any caller may pass a password check;
`None` stands for every role but ADMIN. Reads that only decide whether a request goes on are
taken with its next statement; the middleware's two reads are taken together. The transaction of
`anonymize` is one step after its guard: its statements on other tables are in the modules of
those tables. Mail delivery is `JobQueue`'s; audit events, rate limits, locales, `granted_by` and
`privacy_request` are left out.

## Reviews

`location` holds the aggregate and `last_verified_at`; `review`, `verification`, `favorite` and
`audit` are tables; `req` is each client's request; `disturbed`, `late` and `answered` are
history. READ COMMITTED is modelled by splitting a statement from its snapshot where the outcome
depends on it: the aggregate of `upsert_review` counts the committed reviews and its own row.

| action | code |
|---|---|
| `review_post`, `upsert_review`, `UpsertRow`, `Aggregate`, `CommitReview`, `RecordAudit` | handler, service, the row with its revision, the snapshot of the aggregate, the commit, the event |
| `parking_verify_post`, `parking_parked_here_post`, `record_verification`, `record`, `mark_verified_at` | the signal's INSERT, then the freshness mark, two statements |
| `parking_favorite_post`, `toggle` | one statement that deletes or inserts; its snapshot and its effect, since it may wait for another click in between |
| `hide_review`, `restore_review`, `set_parking_state`, `anonymize` | the statements of others on these rows |
| `Drop` | a request that ends between two statements |

Hiding a review leaves the aggregate as it was and two overlapping upserts may each miss the
other's row; `HealsAlone` says exactly how long such a drift lasts: until the next upsert that
runs alone.

## Reports

`report`, `content` and `audit` are tables; `filer`, `claimer`, `judge`, `cut`, `shown` and `did`
are history. Every statement commits on its own: `resolve_report` reads for its guard, `resolve`
is the guarded UPDATE, `hide_resolved_target` the take-down, `RecordAudit` the event, and `Fail`
may end the request between them. The direct moderation actions (`hide_*`, `restore_*`,
`approve_photo`, `invalidate_parking`, `restore_parking`) and `anonymize` are steps too.
`OwnReportOnlyIfScrubbed` is the sharpest true form of the self-resolve rule: when a claimant is
erased the statement clears `reporter_id` of the claimed reports as well, and the reporter may
then resolve the report.

## Photos

`row` (both tables) and `object` (keys in the store) are changed by separate calls; `aged` and
`settled` say what is past the two time limits; `slow`, `unacked`, `leftover` and `raced` are the
histories of the four races the code does not exclude, which the properties name. An upload
stores the image and its thumbnail, inserts, and compensates on error; approval reads `max_position`
and then updates; rejection updates and then deletes the objects with errors ignored. The
retention job is one actor: the orphan sweep lists the store page by page and asks per page which
keys are referenced, the reconciliation lists pending rows and looks each object up. A call may
fail with or without effect.

## Privacy

`pexport`, `prequest`, `account`, `identity`, `admins`, `sessions` and `actors` (whom audit
events name) are the tables; `answer` is what the last step told its caller. Download is payload,
check, consume and audit; deletion is guard, request row, audit, erasure, fulfilment, audit and
revocation of sessions: `Fail` and a lost request may come between any two. The retention job
purges exports, shells and inactive accounts. What an erasure does to the tables of other modules
is in those modules.

## The components of MCComponents

| module | what it models | property |
|---|---|---|
| `RateLimiter` | the in-memory buckets (deques as sets of stamped admissions, since only their number and their stamps are read) with `sweep` and the cap, the ValKey sorted sets under clocks that disagree, expiry, connections and scripts that fail | `LimiterTruthful`: never more than the limit in a window, never a false 429, memory bounded |
| `OpeningHours`, `HoursForm` | `status_at` against the SQL function, the freshness category against the SQL score; the form's parsing and refilling | `ReadersAgree` (also with the week read as a circle), `EditKeepsHours` |
| `Search` | count and page as two statements, the keyset cursor over every sort, the map's box, cap and clusters, with writes in between | `NothingMissing` |
| `Geocoding` | the cache with its order of eviction and expiry, the peek before the charge, the provider that answers, misses or fails | `CacheIsSound` |
| `Policies` | the three statements of a seeded document, runs that overlap or stop, pages with fallback and history | `NeverUnpublished` |
| `Startup` | configuration and validation, the subcommands, adapters, worker, drain; the order of `seed-full-fresh` | `StartsSafely` |
| `Browser` | one tab: cookies, middleware, account routes and htmx's swaps, answers that are late or lost, other tabs | `FormsFollowThePage` |

## Runs

| run | instance | shows |
|---|---|---|
| `jobs_safety` | 2 workers, 2 rows, batches of 2, lease 1, one fault, any timing | nothing stranded, retry budget, fencing, refinement of `JobLifecycle` |
| `jobs_live` | 2 workers, a recurring and a foreign row, batches of 1, lease 2, one fault, prompt timing | a live heartbeat keeps its row; every row is settled unless all workers are gone |
| `jobs_recurring` | 2 workers, a recurring row and an email | the first disagreement below |
| `parking_proposals` | 2 accounts, 2 proposals, versions to 3 | proposals resolved once and on their base |
| `parking_edits` | 2 accounts, 1 proposal, 2 contents, versions to 3, fair row locks | no lost update; complete history; every lock is released |
| `accounts` | 2 accounts, 2 addresses, 1 subject, 1 token, 1 session, 2 requests | the login key follows the address; a token is spent once; the last administrator the guard has seen stays |
| `reviews` | 2 users, 2 clients, 2 reviews, stars 0, 1 and 5, 3 requests | the aggregate heals; revisions, freshness, erasure and the favourite button stay true |
| `reports` | 2 moderators, 2 clients, one review, photo and location, 1 report, 3 requests | settled and logged once; taken down; truthful answers; who may resolve their own |
| `photos` | 2 uploads, one of them earlier, 2 clients, pages of 2 keys, one fault | rows keep their objects, rejected bytes go, positions are distinct, the sweeps spare and are complete |
| `privacy` | 2 accounts, 2 clients, 1 export, 2 requests rows, time to 2, 3 requests, one fault | one download; erasure is complete; deletions end as they say |
| `components` | per component: 3 keys and 2 processes; weeks with two filled days; 3 locations and pages of 1; 2 viewers and a cache of 1; 2 seeders and 3 seedings; 2 launches; 2 users and 3 anonymous tokens | the properties of the table above |
| `browser_retry` | 2 users, 2 anonymous tokens | the second disagreement below |

The longest of them take three to four minutes with two TLC workers.

*Bounds.* Two workers give every race between a worker and its successor; two rows give a
batch with a waiting row and a gc that runs beside another job; `MaxAttempts = 2` gives a retry
and a dead letter; one failed round trip is enough because the code does not count them.
Attempts are told apart up to one past the budget, delays and overdue times up to `MaxDelay`,
on which no comparison depends. Two accounts give every pair of requests; a third could only
wait behind them. Versions to 3 let a form or a proposal go stale, be refused and be retried; a
statement that would pass the bound fails, as a dropped request does. One location suffices
because no statement but an erasure reads two.
For `Accounts`, two requests give every pair of transactions on the ADMIN rows and two holders of
one link; two addresses give a change of address against a registration; the second account is
granted ADMIN, so revokes and erasures meet with two rows to lock in either order.
`Reviews`, `Reports` and `Privacy` start at most `MaxRequests = 3` requests, two at a time: a pair
that races and one that finds what they left. Stars 0, 1 and 5 are the refused value and the two
ends. `Photos` has one upload made before and one made while the job runs, and a page that ends
between their objects. In `MCComponents` the bounds sit at the boundaries the code has: a window
of 3 beside one of 2, a cap of 2 buckets for 3 keys, pages of one row with rows that tie, a box
over the edge of the map, a cache of one entry, releases with equal, older and later dates.
The `MC` modules declare the symmetry of interchangeable identities; the liveness runs do not use
it. `MCPrivacy` also gives TLC a view without `answer`: no action reads it, and `DeletionAnswer`
looks only at its value after a step. The runs but those of the queue do not check for deadlock:
at a bound, or when every id has been used, users may have nothing left to do.

*Fairness.* Workers are tokio tasks: an enabled step is eventually taken, handlers return (each
call they make has a timeout) and timers fire, so weak fairness on each worker step and on
`Tick`. Nothing is assumed of producers, shutdowns, crashes or faults. `Prompt` (in `jobs_live`)
states that a worker records and heartbeats within its interval; without it a paused process may
lose a lease, which `jobs_safety` covers. For `Parking`, row locks are granted in turn and
deadlocks are broken: strong fairness on the transaction steps, weak on `BreakDeadlock`.

## Disagreements between the documents and the code

- `jobs_recurring`: `enqueue` never writes `schedule`, so retention and gc run once and stay
  `succeeded`; `docs/deployment.md:304` says recurring jobs never go terminal.
- `browser_retry`: `hx-boost` swaps the body and keeps the head, so a form shown again after a
  refused submission is sent with the stale token of `<meta name="csrf">` as a header, which wins
  over the fresh field; `routes/auth.rs:133` says the next POST validates. After a login from a
  page loaded whole, every later htmx POST of that tab is refused until a full reload.

Seen while modelling, not stated as runs:

- the claim ignores the retry budget, so a job that kills its worker is claimed again
  (`job/repo.rs:133` against `job/repo.rs:4`); a row that waits in a batch has no heartbeat
  (`job/worker.rs:77` against `job/worker.rs:181`);
- an erasure locks proposals before locations, the reverse of `moderation/actions.rs:485`; the
  deadlock it makes with an approval is a step of `Parking`;
- `confirm_email` writes by id alone and can put an address back on a shell
  (`account_repo.rs:232` against `docs/retention-policy.md:18`);
- the ValKey limiter answers yes when the connection fails, also with `RATE_LIMIT_FAIL_OPEN`
  off, against its module comment;
- browsing keeps unknown filter codes and finds nothing, where the comment on
  `SearchInput::filters` says they are dropped;
- a geocoding entry may expire between the peek and the resolution, and that call is not charged;
- two seeders of one version with different dates can leave a page without a current document
  (`NeverUnpublished` names the window);
- an unknown first argument in production serves without the validation `serve` gets;
- an administrator may close a deletion request while its handler runs: the account is erased,
  the handler reports NotFound and its revocation and event are skipped; of two administrators
  who delete themselves at once the loser's request stays OPEN;
- a reporter may resolve their own report after its claimant was erased.

## Proofs

Each `...Proofs` module proves, for all values of the constants that satisfy the named
assumptions (distinct identities, positive bounds), that its specification implies `[]IInv` from
one lemma per action or per conjunct, and derives the theorems listed in `PROJECT.json`. Every
inductive invariant was first checked by TLC on the run of its module. The assumptions are those
of the modules, which TLC evaluates in the runs. Some were added because a proof asked for them
and say what kind of values the constants are: the abstract settings of `EnvironmentsAssumption`
(`Startup`), tokens that are not sessions (`BrowserAssumption`), effective dates that are numbers
(`PoliciesAssumption`), finitely many processes and a sweep that frees at least one bucket
(`LimiterAssumption`; the code frees a tenth of 100000), freshness limits that are numbers
(`HoursAssumption`), finitely many locations on an integer grid (`SearchAssumption`).

*JobQueue.* The properties are not inductive alone: fencing needs that a row carries a claim
exactly while it runs, that a claim in memory is the row's latest (`ClaimIsCurrent`), and that
an Ok about to be recorded stands for a run (`OkMeansRan`), which is what the refinement's
`Complete` step needs. `Refinement` maps each row state to its lifecycle status and each step to
a step or a stutter.

`HeartbeatKeepsClaim` states `NotReclaimedMidRun` for batches of one row and prompt workers, which
is all it holds for: a row that waits in a larger batch has no heartbeat. Its invariant `Leased`
says that a claim just taken, or run under a live heartbeat, leads: the row names the worker and
its lease has not run out. Time passes only between heartbeats, and never over a row that was
claimed and not yet begun.

*Parking.* `NoLostUpdate` rests on `Shown`: a form's fields and hours are those of the row for as
long as the form's version is the row's, because every write moves the version on. It holds
although the page is read in two statements: an edit between them makes the version stale.
`ApprovedOnItsBase` rests on `Locking`: between its second lock and its commit an approval holds
both rows, so nobody else writes the location (`LocationEffect`, `VersionsGrow`) or resolves the
proposal (`ProposalEffect`). `HistoryComplete` gives that an approved base lies below the current
version, which keeps two approvals apart.

*Accounts.* `Carried` says what a request has in hand at each point, so that every write keeps
its type. `OneLoginKey` needs `Blank` (an id without a row has no address, so a new account meets
no old identity). `TokenSpentOnce` needs `OneKind` (a token is a verification or a reset, never
both) and that only its spender carries a token. `LastAdminGuarded` needs `Guards`: a scan holds
only rows that exist (`ScansLive`), and between its guard and its COMMIT a transaction holds the
lock of every row it scanned, which are more than the one it deletes (`Passed`). `RowSteps` lists
the six things a step can do to the ADMIN rows; no other transaction's deletion and no purge can
take a row out of a scan that has passed, because it would need that row's lock.

*Reviews.* `HealsAlone` needs `Undisturbed`: while a transaction has met no other it is the only
open one, and the snapshot it took is what the reviews will be once it commits. `Knows` says what
a request has in hand, in particular that a freshness mark about to be set has its row, and that
a request of an erased account was in flight when it was erased. `AnswersAddUp` needs that a
row a toggle has seen is there as long as no other statement has deleted it (`snap`).

*Reports.* `Carries` ties a request to the state of its report: who is about to record an end has
brought the report there. `Logs` says that every claim and every end is recorded or owed by
exactly one client, which makes `AuditedOnce` inductive. `Names` relates the columns, which an
erasure clears, to the history of who filed, claimed and resolved; `Judges` carries the guard's
read over to the guarded UPDATE, which does not repeat it.

*Privacy.* `Used` follows the payload of each export: it is in the hands of one request, or was
given or lost once, and only after the row said DOWNLOADED; this makes `SingleUse` inductive.
`Owed` says what the tables owe to the handler of a deletion at each of its steps, and `Sole` that
a request row is in the hands of one handler; with them `DeletionSettled` survives every failure
between two steps. `Known` marks the requests that were under way when their account was erased,
the only ones `ErasureScrubs` lets write its name. `DeletionAnswered` reads the answer off the
same facts, step by step.

*Photos.* `Writes` says that an upload short of its INSERT is alone with its id and that its
objects are neither aged nor on the sweep's list unless it is slow; from it `Backed`
(`RowHasObjects` for one photo) survives the sweep, whose list holds only keys nobody counts on
(`Sweepable`), and the reconciliation (`Removable`). `Disposed` says who still deletes what a
rejection left. `Places` relates the position an approval has read to the gallery it will join.
`Walked` says that an orphan there was when the sweep began is on its page or ahead of it in the
listing, which gives `SweepComplete` for every page size.

*Geocoding.* `Metered`: a request not charged was let through by an entry that is live or has gone
since. `Timely` and `Entry` bound the age of what a request and the cache hold by the one hour a
call may take.

*Policies.* `InForce`: what a page has shown, or something newer, is in force, unless a run has
superseded it and has yet to insert, or stopped in between. `Unseen` makes that run insert.

*Browser.* `SameSession`: while the cookie is the session the document was loaded for, a page that
shows an account, in the tab or on its way, shows that session's. `Steady` keeps a page loaded
whole true to cookie and session until something overtakes it.

*Startup.* `Configured` remembers that the running configuration is one the environment gives and
was validated if it serves; `Manned` that enabled jobs have a worker until the process ends;
`Reseeded` what each step of `seed-full-fresh` has put back.

*RateLimiter.* `Recalls` (memory) and `Shares` (ValKey) say which admissions of the history the
store still holds: those in the window, widened and narrowed by the skew. `Stamped` tells two
admissions in one instant apart, so that counting the store's set counts the history's.

*HoursForm.* The reachable weeks are those that some accepted form parses to. For one row,
`RowAgrees` splits on the distance between its day and the instant's and proves both readers equal
to the interval on the circle of the week; `DayRoundTrip` follows the fields of a day through
storage and back.

*Search.* `InItsOrder` shows that finitely many ids with numbers for keys have an order and that
the sequence in that order holds each once (an id's place is the number of those before it), and
`PageHolds` what a page takes of them and where it ends. `Walking` is the invariant of the walk: a
location that has not moved is listed once if it matches and the walk has passed it, and not
otherwise; `Passed` compares with the cursor of the request under way, or of the next one once the
page is shown. `Unmoved` ties what a location is now to what it was at the instant the request
took, so that the next request, at a later instant, goes on where the last one ended. `Tallied`
and `Browsing` carry the count from the first statement to the second. `PinsAreInside` counts the
clusters out: cell by cell, they are the locations inside the box.

*Model-checked only.* Liveness (`EventuallySettled`, `LocksAreReleased`), which needs fairness and
ENABLED. `NotReclaimedMidRun` for other batches and timing is not claimed at all. Sorting and
folding operators of the library are recursive and cannot be reasoned about; where one stood in
the way and a plain one says the same, the model uses the plain one: sets of admissions instead of
filtered sequences, the rows of a day and of a page as the sequence that is in order instead of a
sorted one, the pins of the clusters instead of their sum. Inductions over numbers are done by the
least counterexample, which `WellFoundedInduction` gives for the order on Nat.

## Not modelled

- View models, templates, message catalogues, response headers: stateless formatting of what the
  handlers return. The routes of parking, moderation, privacy and administration are part of the
  actions they call; of the web layer's own state `Browser` has all but the `next` parameter and
  the OAuth state cookie.
- Image decoding and resizing (accepted or refused), the time-zone lookup and the geometry of
  PostGIS (a small grid): pure functions of libraries and bundled data.
- The SMTP and Resend transports and the mail templates: the handler's outcome is what the queue
  sees. The S3 client: a call that works, fails, or fails after it has worked.
- The database pool and the table of SQLSTATE codes: a classified error is a failed step.
- The content of an export, the queries of the audit log, the lists and filters of the moderation
  and administration pages: reads that change nothing.
- Development data: invented rows for a developer's machine.
