----------------------------- MODULE MCComponents -----------------------------
(***************************************************************************)
(* The components that share no state, checked in one run: the behaviour   *)
(* picks one of them at the start and only that one moves.                 *)
(***************************************************************************)
EXTENDS RateLimiter, HoursForm, Search, Geocoding, Policies, Startup, Browser

VARIABLE focus

ComponentsInit ==
    /\ focus \in {"limiter", "hours", "search", "geocoding", "policies", "startup", "browser"}
    /\ LimiterInit /\ HoursInit /\ SearchInit /\ GeocodingInit /\ PoliciesInit /\ StartupInit
    /\ BrowserInit /\ (js => focus = "browser")

LimiterMoves ==
    /\ focus = "limiter" /\ LimiterNext
    /\ UNCHANGED <<focus, hoursVars, searchVars, geocodingVars, policyVars, startupVars, browserVars>>

HoursMove ==
    /\ focus = "hours" /\ HoursNext
    /\ UNCHANGED <<focus, limiterVars, searchVars, geocodingVars, policyVars, startupVars, browserVars>>

SearchMoves ==
    /\ focus = "search" /\ SearchNext
    /\ UNCHANGED <<focus, limiterVars, hoursVars, geocodingVars, policyVars, startupVars, browserVars>>

GeocodingMoves ==
    /\ focus = "geocoding" /\ GeocodingNext
    /\ UNCHANGED <<focus, limiterVars, hoursVars, searchVars, policyVars, startupVars, browserVars>>

PoliciesMove ==
    /\ focus = "policies" /\ PoliciesNext
    /\ UNCHANGED <<focus, limiterVars, hoursVars, searchVars, geocodingVars, startupVars, browserVars>>

StartupMoves ==
    /\ focus = "startup" /\ StartupNext
    /\ UNCHANGED <<focus, limiterVars, hoursVars, searchVars, geocodingVars, policyVars, browserVars>>

BrowserMoves ==
    /\ focus = "browser" /\ BrowserNext
    /\ UNCHANGED <<focus, limiterVars, hoursVars, searchVars, geocodingVars, policyVars, startupVars>>

ComponentsNext ==
    LimiterMoves \/ HoursMove \/ SearchMoves \/ GeocodingMoves \/ PoliciesMove \/ StartupMoves
    \/ BrowserMoves

ComponentsSpec ==
    ComponentsInit
    /\ [][ComponentsNext]_<<focus, limiterVars, hoursVars, searchVars, geocodingVars, policyVars, startupVars, browserVars>>

-----------------------------------------------------------------------------
MCSymmetry == Permutations(Viewers) \cup Permutations(Seeders)

\* The limiter: one key with a longer window, processes one second apart

MCKeys == {"a", "b", "c"}
MCWindow == [k \in MCKeys |-> IF k = "a" THEN 3 ELSE 2]
MCSkew == [i \in {1, 2} |-> i - 1]

\* Hours: a day with two ranges, the second past midnight, next to other days
MCBusyDays == {<<7, 1>>, <<2, 3>>}

\* Search: locations that tie, one that is inactive, one behind the map's edge
MCRow(x, yes, avg, verified, cost, hrs) ==
    [active |-> TRUE, x |-> x, y |-> 0, security_yes |-> yes, rating_avg |-> avg,
     last_verified_at |-> verified, cost |-> cost, type |-> "rack", hours |-> hrs]
MCRows ==
    {MCRow(1, {"cctv"}, 0, Never, "free", {}),
     MCRow(1, {"cctv", "indoor"}, 4, 0, "free", {RangeRow(1, <<0, 1>>)}),
     MCRow(-1, {"cctv"}, 0, 0, "paid", {AllDayRange(1)}),
     [MCRow(1, {"cctv"}, 4, 0, "free", {}) EXCEPT !.active = FALSE]}
MCFilters ==
    {[cost |-> "any", types |-> {}, security |-> {}, open_now |-> FALSE],
     [cost |-> "free", types |-> {"rack"}, security |-> {"cctv", "zz"}, open_now |-> TRUE]}
MCBox(west, east) == [west |-> west, south |-> -1, east |-> east, north |-> 1]
MCBoxes == {MCBox(-2, 2), MCBox(2, -2), MCBox(0, 2)}

\* Policies: releases of one version with two dates, an older and an incomplete one
MCKinds == <<"privacy">>
MCLocales == <<"pt-BR", "en">>
MCTokens == <<"privacy", "pt-BR">> :> {"NAME"} @@ <<"privacy", "en">> :> {"NAME", "EMAIL"}
MCRelease(v, e) == [version |-> v, effective_at |-> e, placeholders |-> {"NAME", "EMAIL"}]
MCReleases ==
    {MCRelease("v1", 1), MCRelease("v1", 2), MCRelease("v2", 2), MCRelease("v2", 3),
     [MCRelease("v3", 3) EXCEPT !.placeholders = {"NAME"}]}

\* Startup: a fit production environment, and those one or two settings away
MCFit ==
    [APP_ENV |-> "production", DATABASE_URL |-> "set", BASE_URL |-> "public", TLS_ON |-> "true",
     EMAIL_PROVIDER |-> "smtp", SMTP_HOST |-> "set", RESEND_API_KEY |-> "unset",
     GEOCODER |-> "mapbox", MAPBOX_ACCESS_TOKEN |-> "set", MAPBOX_MAP_ACCESS_TOKEN |-> "unset",
     MAP_STYLE_URL |-> "unset", VALKEY_CLUSTER_URLS |-> "unset", VALKEY_URL |-> "valkey",
     S3_ENDPOINT |-> "own", S3_BUCKET |-> "own", S3_ACCESS_KEY_ID |-> "own",
     S3_SECRET_ACCESS_KEY |-> "own", CSP_MEDIA_HOSTS |-> "own", JOBS_ENABLED |-> "unset",
     JOBS_BATCH_SIZE |-> "unset", ADMIN_EMAIL |-> "ok", ADMIN_PASSWORD |-> "ok",
     POLICY_OPERATOR_NAME |-> "set", GOOGLE_OAUTH_ENABLED |-> "unset"]
MCOther(k) ==
    CASE k = "APP_ENV" -> {"prod", "staging"}
      [] k = "BASE_URL" -> {"unset", "localhost"}
      [] k \in {"TLS_ON", "JOBS_ENABLED"} -> {"false", "maybe"}
      [] k = "EMAIL_PROVIDER" -> {"unset", "resend", "pigeon"}
      [] k = "GEOCODER" -> {"blank", "fake", "other"}
      [] k = "VALKEY_CLUSTER_URLS" -> {"blank", "cluster"}
      [] k = "VALKEY_URL" -> {"unset", "malformed"}
      [] k \in {"S3_ENDPOINT", "S3_BUCKET", "CSP_MEDIA_HOSTS"} -> {"unset", "blank"}
      [] k \in {"S3_ACCESS_KEY_ID", "S3_SECRET_ACCESS_KEY"} -> {"unset", "minioadmin"}
      [] k = "MAP_STYLE_URL" -> {"mapbox"}
      [] k = "JOBS_BATCH_SIZE" -> {"0"}
      [] k = "GOOGLE_OAUTH_ENABLED" -> {"true"}
      [] k = "RESEND_API_KEY" -> {"set"}
      [] OTHER -> {"unset"}
MCNear == {MCFit} \cup UNION {{[MCFit EXCEPT ![k] = v] : v \in MCOther(k)} : k \in DOMAIN MCFit}
MCEnvironments ==
    MCNear \cup UNION {{[e EXCEPT !.APP_ENV = "unset"], [e EXCEPT !.S3_BUCKET = "unset"]} : e \in MCNear}
=============================================================================
