------------------------------- MODULE Startup -------------------------------
(***************************************************************************)
(* One process from its environment to its exit: the configuration read    *)
(* once (config.rs), the subcommands and the order main.rs does things in, *)
(* the providers the router and the worker get (wiring.rs), the drain on   *)
(* SIGTERM, and seed-full-fresh, which erases everything (fresh_seed.rs).  *)
(* Values of settings are abstracted to what the code tells apart.         *)
(***************************************************************************)
EXTENDS Integers, FiniteSets

CONSTANTS
    Environments,   \* what the process may find in its environment
    Subcommands,    \* and as its first argument
    MaxLaunches,    \* bound on the launches
    MaxRequests     \* bound on the requests in flight

ASSUME StartupAssumption == MaxLaunches \in Nat /\ MaxRequests \in Nat \ {0}

\* What the values of the settings validated for production are abstracted to:
\* a set one is the deployment's own, or a default of development.
ASSUME EnvironmentsAssumption ==
    \A env \in Environments :
      /\ env["BASE_URL"] \in {"unset", "blank", "localhost", "public"}
      /\ env["S3_BUCKET"] \in {"unset", "blank", "own"}
      /\ \A k \in {"S3_ACCESS_KEY_ID", "S3_SECRET_ACCESS_KEY"} :
           env[k] \in {"unset", "blank", "minioadmin", "own"}

VARIABLES
    main,       \* the process: where main is, its configuration and its argument
    worker,     \* its worker task
    inflight,   \* requests it is answering
    mail,       \* a message in background_job, stray when its process has no worker
    data,       \* what the database and the bucket hold
    launches,
    broken,     \* history: a fresh seed was broken off by a failing call
    erasedIn    \* history: the deployments whose data a command erased

startupVars == <<main, worker, inflight, mail, data, launches, broken, erasedIn>>

-----------------------------------------------------------------------------
\* The environment: a value is "unset", "blank", or what it says.

raw(env, key) == env[key]
IsSet(env, key) == raw(env, key) \notin {"unset", "blank"}
string(env, key, default) == IF IsSet(env, key) THEN raw(env, key) ELSE default
list(env, key) == IF IsSet(env, key) THEN {raw(env, key)} ELSE {}
bool(env, key, default) == CASE raw(env, key) = "true" -> TRUE
                             [] raw(env, key) = "false" -> FALSE
                             [] OTHER -> default
Required(env, keys) == \A k \in keys : IsSet(env, k)

AppEnv(env) == IF raw(env, "APP_ENV") \in {"production", "prod"} THEN "production" ELSE "development"
is_production(c) == c.app_env = "production"

-----------------------------------------------------------------------------
\* The sections, and what makes the whole unreadable

email_config(env) == string(env, "EMAIL_PROVIDER", "fake")
email_config_ok(env) ==
    \/ email_config(env) = "fake"
    \/ email_config(env) = "smtp" /\ Required(env, {"SMTP_HOST"})
    \/ email_config(env) = "resend" /\ Required(env, {"RESEND_API_KEY"})

geocoder_config(env) == string(env, "GEOCODER", "fake")
geocoder_config_ok(env) ==
    \/ geocoder_config(env) = "fake"
    \/ geocoder_config(env) = "mapbox" /\ Required(env, {"MAPBOX_ACCESS_TOKEN"})

rate_limiter_config(env) ==
    CASE list(env, "VALKEY_CLUSTER_URLS") # {} -> raw(env, "VALKEY_CLUSTER_URLS")
      [] list(env, "VALKEY_CLUSTER_URLS") = {} /\ IsSet(env, "VALKEY_URL") -> raw(env, "VALKEY_URL")
      [] OTHER -> "in_memory"

\* Mutant: a production deployment gets the defaults too.
s3_configDefaults(env, dev) ==
    [endpoint |-> string(env, "S3_ENDPOINT", "minio"), bucket |-> string(env, "S3_BUCKET", "bikesnest"),
     access_key_id |-> string(env, "S3_ACCESS_KEY_ID", "minioadmin"),
     secret_access_key |-> string(env, "S3_SECRET_ACCESS_KEY", "minioadmin")]

\* Only development has defaults; an explicitly empty endpoint is AWS's own.
s3_config(env, dev) ==
    LET dev_default(value) == IF dev THEN value ELSE "empty"
    IN  [endpoint |-> CASE raw(env, "S3_ENDPOINT") = "unset" -> IF dev THEN "minio" ELSE "none"
                        [] raw(env, "S3_ENDPOINT") = "blank" -> "none"
                        [] OTHER -> raw(env, "S3_ENDPOINT"),
         bucket |-> string(env, "S3_BUCKET", dev_default("bikesnest")),
         access_key_id |-> string(env, "S3_ACCESS_KEY_ID", dev_default("minioadmin")),
         secret_access_key |-> string(env, "S3_SECRET_ACCESS_KEY", dev_default("minioadmin"))]

security_config(env) == list(env, "CSP_MEDIA_HOSTS")

\* Mapbox's token is embedded in the page only with a Mapbox style.
map_config(env) ==
    LET style == string(env, "MAP_STYLE_URL", "demotiles")
    IN  [style_url |-> style,
         access_token |-> IF style = "mapbox"
                          THEN string(env, "MAPBOX_MAP_ACCESS_TOKEN", string(env, "MAPBOX_ACCESS_TOKEN", "empty"))
                          ELSE "empty"]

job_config(env) == [enabled |-> bool(env, "JOBS_ENABLED", TRUE),
                    claims |-> string(env, "JOBS_BATCH_SIZE", "4") # "0"]

\* seed-admin's credentials and the documents' placeholders, which only the
\* seeding commands look at.
admin_seed(env) == [email |-> string(env, "ADMIN_EMAIL", "none"), password |-> string(env, "ADMIN_PASSWORD", "none")]
policy_config(env) == IsSet(env, "POLICY_OPERATOR_NAME")

from_lookup_ok(env) ==
    Required(env, {"DATABASE_URL"}) /\ email_config_ok(env) /\ geocoder_config_ok(env)

from_lookup(env) ==
    LET dev == AppEnv(env) = "development"
    IN  [app_env |-> AppEnv(env),
         base_url |-> string(env, "BASE_URL", IF dev THEN "localhost" ELSE "empty"),
         tls_on |-> bool(env, "TLS_ON", FALSE),
         email |-> email_config(env), geocoder |-> geocoder_config(env),
         rate_limiter |-> rate_limiter_config(env), storage |-> s3_config(env, dev),
         media_hosts |-> security_config(env), map |-> map_config(env), jobs |-> job_config(env),
         admin_seed |-> admin_seed(env), policies |-> policy_config(env),
         google_oauth_enabled |-> bool(env, "GOOGLE_OAUTH_ENABLED", FALSE)]

fakes_in_use(c) ==
    {f \in {"email", "geocoder", "rate_limiter", "google"} :
        \/ f = "email" /\ c.email = "fake"
        \/ f = "geocoder" /\ c.geocoder = "fake"
        \/ f = "rate_limiter" /\ c.rate_limiter = "in_memory"
        \/ f = "google" /\ c.google_oauth_enabled}

Problems(c) ==
    {p \in {"BASE_URL", "S3", "EMAIL_PROVIDER", "GEOCODER", "VALKEY_URL", "TLS_ON",
            "CSP_MEDIA_HOSTS", "GOOGLE_OAUTH_ENABLED"} :
        \/ p = "BASE_URL" /\ c.base_url \in {"empty", "localhost"}
        \/ p = "S3" /\ \/ c.storage.endpoint = "none" \/ c.storage.bucket = "empty"
                       \/ {c.storage.access_key_id, c.storage.secret_access_key} \cap {"empty", "minioadmin"} # {}
        \/ p = "EMAIL_PROVIDER" /\ c.email = "fake"
        \/ p = "GEOCODER" /\ c.geocoder = "fake"
        \/ p = "VALKEY_URL" /\ c.rate_limiter = "in_memory"
        \/ p = "TLS_ON" /\ ~c.tls_on
        \/ p = "CSP_MEDIA_HOSTS" /\ c.media_hosts = {}
        \/ p = "GOOGLE_OAUTH_ENABLED" /\ c.google_oauth_enabled}

validate_for_production(c) == ~is_production(c) \/ Problems(c) = {}

-----------------------------------------------------------------------------
\* main

Idle == [pc |-> "idle"]
Exited == main' = Idle
At(pc) == main.pc = pc
Enter(pc) == main' = [main EXCEPT !.pc = pc]
Serves(sub) == sub \notin {"seed-mock", "seed-admin", "seed-full-fresh", "seed-policies", "retention"}

StartupInit ==
    /\ main = Idle /\ worker = "none" /\ inflight = 0 /\ mail = "none"
    /\ data = {"old"} /\ launches = 0 /\ broken = FALSE /\ erasedIn = {}

\* Configuration first, its validation for those who mean to serve, then the
\* database.  Every failure ends the process.
launch(env, sub) ==
    /\ At("idle") /\ launches < MaxLaunches
    /\ launches' = launches + 1
    /\ IF from_lookup_ok(env) /\ (sub \in {"none", "serve"} => validate_for_production(from_lookup(env)))
       THEN main' = [pc |-> "connect", config |-> from_lookup(env), sub |-> sub]
       ELSE UNCHANGED main
    /\ UNCHANGED <<worker, inflight, mail, data, broken, erasedIn>>

connect_and_migrate ==
    /\ At("connect")
    /\ \/ Enter(IF Serves(main.sub) THEN "serve" ELSE main.sub)
       \/ Exited
    /\ UNCHANGED <<worker, inflight, mail, data, launches, broken, erasedIn>>

-----------------------------------------------------------------------------
\* serve

\* A provider that was asked for and cannot be built ends the process.
router_deps ==
    /\ At("serve")
    /\ IF main.config.rate_limiter = "malformed" THEN Exited
       ELSE Enter("wired") \/ Exited
    /\ UNCHANGED <<worker, inflight, mail, data, launches, broken, erasedIn>>

start_worker ==
    /\ At("wired")
    /\ worker' = IF main.config.jobs.enabled THEN "polling" ELSE "none"
    /\ Enter("bind")
    /\ UNCHANGED <<inflight, mail, data, launches, broken, erasedIn>>

\* A taken address ends the process, and with it the job the worker holds.
bind ==
    /\ At("bind")
    /\ \/ Enter("serving") /\ UNCHANGED worker
       \/ Exited /\ worker' = "none"
    /\ UNCHANGED <<inflight, mail, data, launches, broken, erasedIn>>

request ==
    /\ At("serving") /\ inflight < MaxRequests
    /\ inflight' = inflight + 1
    /\ UNCHANGED <<main, worker, mail, data, launches, broken, erasedIn>>

respond ==
    /\ inflight > 0
    /\ inflight' = inflight - 1
    /\ UNCHANGED <<main, worker, mail, data, launches, broken, erasedIn>>

\* app_router_with: queued where the process has a worker, sent on the spot if not.
email_queue ==
    mail' = IF ~main.config.jobs.enabled THEN mail ELSE IF worker = "none" THEN "stray" ELSE "queued"

request_mails ==
    /\ inflight > 0 /\ mail = "none"
    /\ email_queue
    /\ inflight' = inflight - 1
    /\ UNCHANGED <<main, worker, data, launches, broken, erasedIn>>

worker_claims ==
    /\ worker = "polling" /\ mail # "none" /\ main.config.jobs.claims
    /\ main.pc \in {"bind", "serving"}   \* before the token is cancelled
    /\ worker' = "busy"
    /\ UNCHANGED <<main, inflight, mail, data, launches, broken, erasedIn>>

worker_delivers ==
    /\ worker = "busy"
    /\ worker' = "polling" /\ mail' = "none"
    /\ UNCHANGED <<main, inflight, data, launches, broken, erasedIn>>

\* SIGTERM cancels the token: nothing new is accepted or claimed.
wait_for_terminate ==
    /\ At("serving")
    /\ Enter("draining")
    /\ UNCHANGED <<worker, inflight, mail, data, launches, broken, erasedIn>>

worker_leaves ==
    /\ At("draining") /\ worker = "polling"
    /\ worker' = "left"
    /\ UNCHANGED <<main, inflight, mail, data, launches, broken, erasedIn>>

server_returns == inflight = 0 /\ Enter("grace") /\ UNCHANGED inflight

drained ==
    /\ At("draining")
    /\ server_returns
    /\ UNCHANGED <<worker, mail, data, launches, broken, erasedIn>>

\* The worker has left, or WORKER_SHUTDOWN_GRACE is over.
stop ==
    /\ At("grace")
    /\ Exited
    /\ worker' = "none"
    /\ UNCHANGED <<inflight, mail, data, launches, broken, erasedIn>>

\* SIGKILL, out of memory: the process is gone with what it was doing.
crash ==
    /\ main.pc \in {"serving", "draining", "grace"}
    /\ Exited /\ worker' = "none" /\ inflight' = 0
    /\ UNCHANGED <<mail, data, launches, broken, erasedIn>>

-----------------------------------------------------------------------------
\* The seeding commands

validate_admin_seed(c) == c.admin_seed = [email |-> "ok", password |-> "ok"]

seed_mock ==
    /\ At("seed-mock")
    /\ \/ data' = data \cup {"mock"}
       \/ UNCHANGED data
    /\ Exited
    /\ UNCHANGED <<worker, inflight, mail, launches, broken, erasedIn>>

seed_admin ==
    /\ At("seed-admin")
    /\ \/ validate_admin_seed(main.config) /\ data' = data \cup {"admin"}
       \/ UNCHANGED data
    /\ Exited
    /\ UNCHANGED <<worker, inflight, mail, launches, broken, erasedIn>>

\* The documents are modelled in Policies, the retention job in Privacy.
seed_policies_or_retention ==
    /\ main.pc \in {"seed-policies", "retention"}
    /\ \/ At("seed-policies") /\ main.config.policies /\ data' = data \cup {"policies"}
       \/ UNCHANGED data
    /\ Exited
    /\ UNCHANGED <<worker, inflight, mail, launches, broken, erasedIn>>

\* Never in production, and only with all it takes to seed again.
seed_full_fresh(c) == ~is_production(c) /\ validate_admin_seed(c) /\ c.policies

fresh_begins ==
    /\ At("seed-full-fresh")
    /\ IF seed_full_fresh(main.config) THEN Enter("reset_objects") ELSE Exited
    /\ UNCHANGED <<worker, inflight, mail, data, launches, broken, erasedIn>>

\* reset_all_data: the bucket, then one TRUNCATE; then mock data in one
\* transaction, the administrator, the policies.
Steps == [reset_objects |-> "truncate", truncate |-> "mock", mock |-> "admin", admin |-> "policies", policies |-> "end"]

fresh_step ==
    /\ main.pc \in DOMAIN Steps
    /\ LET made == IF main.pc \in {"mock", "admin", "policies"} THEN {main.pc} ELSE {}
           works == /\ main.pc = "admin" => validate_admin_seed(main.config)
                    /\ main.pc = "policies" => main.config.policies
       IN  IF works
           THEN /\ data' = IF main.pc = "truncate" THEN {} ELSE data \cup made
                /\ mail' = IF main.pc = "truncate" THEN "none" ELSE mail
                /\ broken' = (broken /\ main.pc # "policies")
                /\ IF main.pc = "policies" THEN Exited ELSE Enter(Steps[main.pc])
           ELSE Exited /\ UNCHANGED <<data, mail, broken>>
    /\ erasedIn' = erasedIn \cup {main.config.app_env}
    /\ UNCHANGED <<worker, inflight, launches>>

\* The database or the bucket fails, or the process stops.
fresh_breaks ==
    /\ main.pc \in DOMAIN Steps
    /\ Exited /\ broken' = TRUE
    /\ UNCHANGED <<worker, inflight, mail, data, launches, erasedIn>>

StartupNext ==
    \/ \E env \in Environments, sub \in Subcommands : launch(env, sub)
    \/ connect_and_migrate \/ router_deps \/ start_worker \/ bind
    \/ request \/ respond \/ request_mails \/ worker_claims \/ worker_delivers
    \/ wait_for_terminate \/ worker_leaves \/ drained \/ stop \/ crash
    \/ seed_mock \/ seed_admin \/ seed_policies_or_retention \/ fresh_begins \/ fresh_step \/ fresh_breaks

StartupSpec == StartupInit /\ [][StartupNext]_startupVars

-----------------------------------------------------------------------------
\* Properties

Serving == main.pc \in {"serving", "draining"}

(* A process that serves a production deployment, started with no argument or
   with serve, sends its mail, resolves its places and counts its callers with
   real providers, keeps photos with credentials of its own and lets pages show
   them, and mails links that lead to it.  (Another argument serves as well,
   without the validation.) *)
ProductionIsReal ==
    Serving /\ is_production(main.config) /\ main.sub \in {"none", "serve"} =>
      /\ fakes_in_use(main.config) = {}
      /\ main.config.storage.endpoint # "none"
      /\ \A k \in {"bucket", "access_key_id", "secret_access_key"} : main.config.storage[k] = "own"
      /\ main.config.base_url = "public" /\ main.config.tls_on /\ main.config.media_hosts # {}

(* No message waits in the queue of a process that has no worker, and a
   shutdown ends no request: whoever is still answered when the worker has left
   finds its message kept for the next process. *)
MailIsCarried ==
    /\ mail # "stray"
    /\ main.pc \in {"idle", "grace"} => inflight = 0

(* Whatever a fresh seed erases it puts back: it never erases a production
   deployment's data, nor anything it lacks the credentials or the documents to
   seed again, and only a failing call leaves the system without them. *)
FreshSeedIsWhole ==
    /\ "production" \notin erasedIn
    /\ At("idle") /\ ~broken => "old" \in data \/ {"mock", "admin", "policies"} \subseteq data

(* The three together: what a launch may and may not lead to. *)
StartsSafely == ProductionIsReal /\ MailIsCarried /\ FreshSeedIsWhole
=============================================================================
