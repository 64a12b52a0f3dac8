------------------------------- MODULE Policies -------------------------------
(***************************************************************************)
(* The versioned legal pages: seed-policies publishes one document per     *)
(* kind and locale, each with three statements outside any transaction     *)
(* (policy_seed.rs), several runs of it may overlap or stop anywhere, and  *)
(* the public pages read the current document with a fallback locale       *)
(* (policy.rs, routes/legal.rs).                                           *)
(***************************************************************************)
EXTENDS Integers, FiniteSets, FiniteSetsExt, Sequences, Functions

CONSTANTS
    Kinds,           \* kinds of document, in the order they are prepared
    POLICY_LOCALES,  \* locales, in the order they are prepared
    FallbackLocale,  \* POLICY_FALLBACK_LOCALE
    PolicyTokens,    \* the {{TOKEN}}s of each document
    Releases,        \* what a run may publish: version, effective_at, placeholders
    Seeders,         \* runs of seed-policies in progress
    MaxSeedings      \* bound on the number of runs

ASSUME PoliciesAssumption ==
    /\ Kinds \in Seq(Range(Kinds)) /\ Kinds # <<>> /\ POLICY_LOCALES \in Seq(Range(POLICY_LOCALES))
    /\ FallbackLocale \in {POLICY_LOCALES[i] : i \in 1 .. Len(POLICY_LOCALES)}
    /\ \A r \in Releases : r.effective_at \in Nat \ {0}
    /\ MaxSeedings \in Nat

VARIABLES
    policy_version,  \* the rows
    seeder,          \* each run
    seedings,        \* runs started so far
    shown,           \* history: the newest effective_at each page has shown, 0 before
    cut              \* history: pages a run left between its UPDATE and its INSERT

policyVars == <<policy_version, seeder, seedings, shown, cut>>

Null == 0
NoSeeding == [pc |-> "idle", release |-> [version |-> "none", effective_at |-> 0, placeholders |-> {}],
              todo |-> <<>>, took |-> FALSE, saw |-> {}]

\* The documents of a run: every kind of the first locale, then of the next.
Documents ==
    [i \in 1 .. Len(POLICY_LOCALES) * Len(Kinds) |->
        <<Kinds[((i - 1) % Len(Kinds)) + 1], POLICY_LOCALES[((i - 1) \div Len(Kinds)) + 1]>>]
Pages == {Documents[i] : i \in DOMAIN Documents}

PoliciesInit ==
    /\ policy_version = {} /\ seedings = 0
    /\ seeder = [s \in Seeders |-> NoSeeding]
    /\ shown = [p \in Pages |-> 0] /\ cut = {}

-----------------------------------------------------------------------------
\* Reading

\* The rows of a page that nothing supersedes, the latest of them first.
Unsuperseded(p) == {r \in policy_version : r.page = p /\ r.superseded_at = Null}
current(p) == {r \in Unsuperseded(p) : \A o \in Unsuperseded(p) : o.effective_at <= r.effective_at}

\* What a visitor's locale shows, or nothing: then the page says so.
current_policy(kind, locale) ==
    IF current(<<kind, locale>>) # {} THEN current(<<kind, locale>>)
    ELSE current(<<kind, FallbackLocale>>)

history(p) == {r \in policy_version : r.page = p}
policy_history(kind, locale) ==
    IF history(<<kind, locale>>) # {} THEN history(<<kind, locale>>)
    ELSE history(<<kind, FallbackLocale>>)

Watched == shown' = [p \in Pages |-> Max({shown[p]} \cup {r.effective_at : r \in current(p)'})]

-----------------------------------------------------------------------------
\* Seeding

\* The tokens no variable supplies; a document with one is not published.
fill_policy_placeholders(p, release) == PolicyTokens[p] \ release.placeholders

\* prepare_policies reads and fills every document before the first is seeded.
prepare_policies(s, release) ==
    /\ seeder[s].pc = "idle" /\ seedings < MaxSeedings
    /\ \A p \in Pages : fill_policy_placeholders(p, release) = {}
    /\ seeder' = [seeder EXCEPT ![s] = [NoSeeding EXCEPT !.pc = "exists", !.release = release,
                                                        !.todo = Documents]]
    /\ seedings' = seedings + 1
    /\ UNCHANGED <<policy_version, shown, cut>>

prepare_policies_fails(s, release) ==
    /\ seeder[s].pc = "idle" /\ seedings < MaxSeedings
    /\ \E p \in Pages : fill_policy_placeholders(p, release) # {}
    /\ seedings' = seedings + 1
    /\ UNCHANGED <<policy_version, seeder, shown, cut>>

\* seed_prepared_policies goes on with the next document, or is done.
seed_prepared_policies(s) ==
    LET rest == Tail(seeder[s].todo)
    IN  seeder' = [seeder EXCEPT ![s] = IF rest = <<>> THEN NoSeeding
                       ELSE [@ EXCEPT !.todo = rest, !.pc = "exists", !.took = FALSE, !.saw = {}]]

Doing(s, pc) == seeder[s].pc = pc
Page(s) == Head(seeder[s].todo)
Published(s) == {r \in policy_version : r.page = Page(s) /\ r.version = seeder[s].release.version}

seed_policy_exists(s) ==
    /\ Doing(s, "exists")
    /\ IF Published(s) # {} THEN seed_prepared_policies(s)
       ELSE seeder' = [seeder EXCEPT ![s].pc = "supersede", ![s].saw = policy_version]
    /\ UNCHANGED <<policy_version, seedings, shown, cut>>

\* Mutant: an older release dethrones a newer one.
DethronedAny(s) == Unsuperseded(Page(s))

Dethroned(s) == {r \in Unsuperseded(Page(s)) : r.effective_at < seeder[s].release.effective_at}

seed_policy_supersede(s) ==
    /\ Doing(s, "supersede")
    /\ policy_version' = (policy_version \ Dethroned(s))
         \cup {[r EXCEPT !.superseded_at = seeder[s].release.effective_at] : r \in Dethroned(s)}
    /\ seeder' = [seeder EXCEPT ![s].pc = "insert", ![s].took = Dethroned(s) # {}]
    /\ Watched
    /\ UNCHANGED <<seedings, cut>>

\* The row is there, unless UNIQUE (kind, locale, version) refuses it: a run of
\* the same version inserted it after this one had looked.
seed_policy_insert(s) ==
    /\ Doing(s, "insert") /\ Published(s) = {}
    /\ policy_version' = policy_version \cup
         {[page |-> Page(s), version |-> seeder[s].release.version, superseded_at |-> Null,
           effective_at |-> seeder[s].release.effective_at]}
    /\ seed_prepared_policies(s)
    /\ Watched
    /\ cut' = IF seeder[s].release.effective_at >= shown[Page(s)] THEN cut \ {Page(s)} ELSE cut
    /\ UNCHANGED seedings

seed_policy_refused(s) ==
    /\ Doing(s, "insert") /\ Published(s) # {}
    /\ seeder' = [seeder EXCEPT ![s] = NoSeeding]
    /\ cut' = IF seeder[s].took /\ Published(s) \cap seeder[s].saw = {} THEN cut \cup {Page(s)} ELSE cut
    /\ UNCHANGED <<policy_version, seedings, shown>>

\* The process stops, or the database fails a statement.
seeding_stops(s) ==
    /\ seeder[s].pc # "idle"
    /\ cut' = IF Doing(s, "insert") /\ seeder[s].took THEN cut \cup {Page(s)} ELSE cut
    /\ seeder' = [seeder EXCEPT ![s] = NoSeeding]
    /\ UNCHANGED <<policy_version, seedings, shown>>

PoliciesNext ==
    \E s \in Seeders :
      \/ \E r \in Releases : prepare_policies(s, r) \/ prepare_policies_fails(s, r)
      \/ seed_policy_exists(s) \/ seed_policy_supersede(s) \/ seed_policy_insert(s)
      \/ seed_policy_refused(s) \/ seeding_stops(s)

PoliciesSpec == PoliciesInit /\ [][PoliciesNext]_policyVars

-----------------------------------------------------------------------------
\* Properties

\* A run has taken this page's document down and not put its own up yet.
Underway(p) == \E s \in Seeders : Doing(s, "insert") /\ seeder[s].took /\ Page(s) = p

(* Once a page has shown a document it shows that one or a later one, in its own
   locale and to every locale that falls back to it, and its history lists it:
   whatever order releases are seeded in, however runs overlap and wherever they
   stop, except from a supersession that has no successor yet until one is
   inserted. *)
NeverUnpublished ==
    \A p \in Pages : shown[p] # 0 /\ p \notin cut /\ ~Underway(p) =>
      /\ \E r \in current_policy(p[1], p[2]) \cap policy_history(p[1], p[2]) : r.effective_at >= shown[p]
      /\ p[2] = FallbackLocale =>
           \A i \in DOMAIN POLICY_LOCALES : current_policy(p[1], POLICY_LOCALES[i]) # {}
=============================================================================
