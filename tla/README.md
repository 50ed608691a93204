# Formal models of grype's matching and database commands

This directory holds TLA+ models of parts of grype (the sources under `src/`).
Each model comes with TLC configurations that check it on small instances.
TLAPS proofs show, for every value of the constants: the distro matcher's
main invariants and its refinement of an abstract matcher; the truthfulness of `db check`'s exit code; that the differ
releases its stores and installs the database a URL asked for; and that the
two views of the environment `environWithoutCI` gives agree. `PROJECT.json` lists the components, the runs, the mutants, the
source lines each definition models, the findings, the hazards and the theorems.

## The system

grype scans an inventory of packages and reports the vulnerabilities that
affect them. Only some of its code is under `src/`:

- **Distro matcher** (`src/unnamed/part_000`, `MatchPackageByDistro`,
  `isUnknownVersion`). It is given one package.
  - It returns no matches for a package with no distro, or whose version is
    `unknown` in any letter case.
  - Otherwise it queries the vulnerability provider once, by name, distro,
    RPM-modularity qualifier and version constraint.
  - Each record the provider returns becomes an `exact-direct` match, whose
    searched-by data names the distro and the package it was called with.
  - A provider error makes the call return nothing but the error.
  - The scan calls it for every package. It also calls it for each upstream
    (source) identity of a package (spec 4.3); those matches are relabelled
    `exact-indirect` and reported against the installed package.
- **`grype db check`** (`src/cmd/grype/cli/commands/db_check.go`) and the
  exit-code mapping (`src/cmd/grype/cli/cli.go`, `WithMapExitCode`).
  - The command reads the installed database's description and asks the
    distribution client whether an update is available.
  - It prints a text or JSON report, or fails on an unsupported `--output`.
  - It returns `ErrDBUpgradeAvailable` when a candidate exists.
  - The application maps that error to exit 100, the severity-threshold error
    to 2, any other error to 1, and nil to 0. It tests them in that order.
  - The UI constructor hands the terminal renderer `environWithoutCI`. This
    view of the process environment hides `CI` through `Environ` (by the
    prefix `CI=`) and through `Getenv` (by the name `CI`). It reads the live
    environment on every call.
- **v5 database differ** (`src/grype/db/v5/differ/differ.go`).
  - It holds two curators, base and target. Each is set from a local directory
    or from a URL: the URL is looked up in the listing fetched through the
    *base* curator, then downloaded.
  - `DiffDatabases` opens both stores with deferred closes and diffs them.
  - `DeleteDatabases` removes both roots, the base first.
- Not modelled:
  - `src/unnamed/part_001` holds the JSON presenter's `newPackage`, a pure
    field conversion, and tests of the v6 store.
  - `dbsearch/affected_packages_test.go` is test code.
- Parts the spec describes whose code is not under `src/` are modelled from the
  spec where the matcher needs them. These are the version constraint algebra
  (4.1), the provider's query (4.2) and upstream expansion (4.3). Each such
  definition is marked `spec_modelled` in the map.

## Modules

| Module | Models | State | Actions |
|---|---|---|---|
| `DistroMatcher` | `MatchPackageByDistro` and the scan applying it | `status` per package (pending/done/failed), `matches` | `MatchPackageByDistro(p)`: early return, provider error, or matches |
| `UpstreamMatcher` | the same call on upstream identities (spec 4.3), for the finding below | adds `upstreamStatus` per (package, upstream) | `MatchUpstream(p,u)`, interleaved with the direct calls |
| `DBCheck` | PreRunE, runDBCheck, presentNewDBCheck, WithMapExitCode | environment (installed DB, listing, client, format), `pc`, `runErr`, `report`, `exitCode` | `PreRunE`, `RunE`, `Exit` |
| `Differ` | NewDiffer, Set*DB / setOrDownload, DiffDatabases, DeleteDatabases | `curator` per side, `openStores`, `deferred`, `dpc`, `lastSet`, `result` | `SetBaseDB(r)`, `SetTargetDB(r)`, `DiffOpenBase`, `DiffOpenTarget`, `DiffStore`, `DeleteDatabases` |
| `AbstractMatcher` | what a matcher call promises (spec 4.2): a package ends done with exactly its affected records, or failed with none | `status`, `found` per package | `Handle(p)` |
| `MatcherRefinement` | the refinement mapping from `DistroMatcher` to `AbstractMatcher` | (that of `DistroMatcher`) | |
| `CLIEnviron` | `environWithoutCI.Environ` / `Getenv` over the process environment | `env`, a sequence of variables in `os.Environ` order | `Setenv(k,v)`, `Unsetenv(k)` by other code of the process |
| `DistroMatcherProofs` | TLAPS proofs about `DistroMatcher` and the refinement | | |
| `DBCheckProofs` | TLAPS proof of `ExitCodeTruthful` | | |
| `DifferProofs` | TLAPS proofs of `StoresReleased` and `InstalledIsRequested` | | |
| `CLIEnvironProofs` | TLAPS proof of `ViewsAgree` | | |
| `SeqFilter` | `FilterSeq`, the filter of a sequence by a test, used for `listings.Available[v5]`, `Environ` and `os.Unsetenv` | | |
| `SeqFilterCheck` | TLC check that `FilterSeq` is the standard `SelectSeq` on all short sequences | | |
| `SeqFilterProofs` | TLAPS proof of what `FilterSeq` computes | | |

How the models correspond to the code:

- **Versions.** A version is a sequence of one-character strings, so that
  `strings.ToLower` and the `"unknown"` comparison are modelled by what they
  do. The distro scheme's parser is reduced to single digits. Anything else,
  `unknown` included, is rejected, and then `onlyVulnerableVersions` matches
  nothing.
- **Errors.** An error is the set of sentinels its `%w` chain wraps, so
  `errors.Is` is set membership. Messages are left out.
- **`DiffDatabases`.** It is split at each store call, because its property is
  about the states in between. Its deferred closes are an explicit stack that
  `Return` runs.
- **`runDBCheck`.** It is one step, because its environment is fixed in `Init`.
  Its early returns, and the tests of `WithMapExitCode`, are ordered IF/ELSE
  chains, as in the code. A CASE would leave the choice between overlapping
  arms open, for example an unsupported format together with an available
  update.
- **Refinement mapping.** `found[p]` is the set of records carried by the
  matches of `p`.
- **Filters.** The v5 listing, `Environ` and `os.Unsetenv` keep the elements
  of a sequence that pass a test, in order. They use `FilterSeq` from
  `SeqFilter`. It is `SelectSeq` written out as a recursive function over the
  prefixes of the sequence, so that the provers can unfold it. The TLA+
  standard `SelectSeq` is a built-in that tlapm does not expand. `SeqFilterCheck`,
  extended by `MCDiffer` and `MCCLIEnviron`, has TLC confirm in every run
  that the two agree on every sequence of up to three elements over three
  values and every test.
- **`environWithoutCI`.** Names and values are sequences of characters, so the
  `CI=` prefix test is modelled by what it does. Setting and unsetting
  variables stand for any other code of the process, because both methods
  read the live environment.

## Runs

| Run | Config | Expect | What it shows |
|---|---|---|---|
| `distro_matcher` | `MCDistroMatcher.cfg` | pass | See below. |
| `upstream_searched_by` | `MCUpstreamMatcherSearchedBy.cfg` | violation | See the finding below. |
| `db_check_exit` | `MCDBCheck.cfg` | pass | `ExitCodeTruthful`: exit 0 only when nothing newer is listed; exit 100 only when something newer is listed *and* the report announced that candidate. |
| `cli_environ` | `MCCLIEnviron.cfg` | pass | `ViewsAgree`: `CI` is invisible through both methods, and every other name is seen through `Environ` with the value `Getenv` gives it. The names include `C` and `CIX`, and one value contains `=`. |
| `differ` | `MCDiffer.cfg` | pass | `StoresReleased`: no store stays open after `DiffDatabases`, on any exit path. `InstalledIsRequested`: while the last `Set*DB` call on a side named a URL and returned nil, that side holds the last listed v5 entry with that URL, through calls on the other side, failed calls and a base that lost its listing URL. |

The `distro_matcher` run checks `TypeOK` and `MatchesExact` over every order
of calls, each of which may fail. `MatchesExact` says each package's matches
are exactly the records that affect it: none while its call is pending or
after it failed, each `exact-direct` and searched by the package itself.

Every property of a passing run has a mutant in `PROJECT.json`: a plausible bug
in the mapped code that makes TLC report the property violated. The mutants
are:

- the qualifier filter dropped;
- the version left out of searched-by;
- the upgrade error returned before the report is presented;
- the base store's deferred close dropped;
- the listing loop taking the address of the loop variable;
- `Environ` filtering on the prefix `CI` without the `=`.

**Bounds.** Each instance is small but holds the cases that matter:

- **`MCDistroMatcher`** has eight packages:
  - versions `UNKNOWN` and `Unknown`;
  - a package with no distro;
  - a malformed version (`unk`);
  - a qualified package, and a record whose qualifier does not match;
  - a two-clause constraint;
  - two distros, one of them with no records.
- **`MCUpstreamMatcher`** (the finding's run) has an upstream without a
  version, one with a version, and one with an unknown version. The `openssl`
  package is installed as well, and it is the upstream identity of both
  `libssl` packages.
- **`MCDBCheck`** enumerates every combination of these in `Init`:
  - installed database: absent, older, newer or unreadable;
  - listing: nothing, two builds, or unreachable;
  - client failing or not;
  - all three formats.
- **`MCDiffer`** has:
  - a listing with two v5 entries that share a URL (the last must win);
  - a v6 entry;
  - an unlisted URL;
  - a user directory;
  - I/O failures, a failed `NewCurator` among them: the code assigns its
    result (the zero `Curator{}`) before it checks the error (`ZeroCurator`).

  Every action and every disjunct fires.

**Fairness.** No run assumes fairness, and no liveness property is claimed.
The scan's pool is not under `src/`, and spec 7 has the first provider error
cancel it. Weak fairness of every package's call would therefore be stronger
than what the scan guarantees. "Every package is eventually handled" would
then hold only by the fairness assumption, whatever the matcher does.

Runs other than `cli_environ` disable deadlock checking. Each of those models
stops once its finitely many calls have been made.

## Finding

In `src/unnamed/part_000:52`, `MatchPackageByDistro` records in
`SearchedBy.Package` the package it was called with. Upstream expansion calls
it with the source identity, so a match for `libssl1.1` found through `openssl`
has a searched-by name of `openssl`.

Spec scenario 2 says the searched-by package is `libssl1.1`. Spec invariant 3
says both identities are recorded. The code's comment at lines 49-51 says the
source package is recorded on purpose. The `upstream_searched_by` run shows
this divergence.

## Proofs

`DistroMatcherProofs` proves two theorems for every inventory and every
provider content, under the `ASSUME`s of `DistroMatcher`:

- `TypeCorrect == Spec => []TypeOK`
- `MatchesExactInvariant == Spec => []MatchesExact`

The `ASSUME`s are:

- packages and records are well-formed records;
- `NoDistro` is not a distro;
- `Malformed` is not a number.

**The argument.** `TypeOK /\ MatchesExact` is inductive (`InitIInv`,
`NextIInv`). `MatchesExact` needs `TypeOK` to know that matches are records
with a `pkg` field. A step handles one pending package `p`. That package had
no matches (by `MatchesExact`), and every other package keeps its status and
its matches. Three lemmas carry the rest:

- `FindVulnerabilitiesExact`: the provider's four filters select exactly
  `Affects`.
- `ShortCircuitUnaffected`: no record affects a package that returns early.
  This needs `UnknownIsMalformed`: a string that lower-cases to `unknown` has
  seven characters, so the scheme rejects it.
- `NewMatchType`: a built match is well typed.

`DistroMatcherProofs` also proves **`Refinement`**: `Spec => AM!Spec`, the
safety part of the abstract matcher.

- Under `IInv`, the mapped `found` is a function of `status` alone
  (`FoundIsExpected`): a done package has its affected records, and every
  other package has none.
- A step changes one pending package to done, or to failed when the provider
  can fail. That is a `Handle` step.

`DBCheckProofs` proves **`ExitCodeTruthfulInvariant`**.

- **The inductive invariant.** The environment never changes. After `RunE`,
  `runErr` and `report` are `runDBCheckResult`'s. After `Exit`, the exit code
  is `MapExitCode(runErr)`.
- **`ResultTruthful`.** This lemma goes through `runDBCheck`'s returns in
  order. It needs the assumptions that `Nil` is neither a build time nor an
  error, and that build times are naturals.

`DifferProofs` proves **`StoresReleasedInvariant`**.

- **Why it needs a strengthening.** `StoresReleased` alone is not inductive: a
  return closes only what was deferred.
- **`StoreInv`.** It ties each point of `DiffDatabases` to the open stores and
  the defer stack (`<<"base">>`, then `<<"base","target">>`).

`DifferProofs` also proves **`InstalledIsRequestedInvariant`**:
`Spec => []InstalledIsRequested`.

- **The model.** `lastSet[s]` remembers the last `Set*DB` call on side `s`
  (its request, and whether it returned nil) until `DeleteDatabases` clears
  it. A failed `NewCurator` leaves `ZeroCurator`, as the code's assignment
  before the error check does.
- **The inductive invariant.** `InstalledInv` adds to the property that
  `curator` and `lastSet` are functions of the side, with curators typed
  records. `SideStep` shows that replacing one side's curator and call keeps
  the invariant, provided the new pair satisfies the property. Every
  `SetOrDownload` disjunct is discharged through it. `Entries` never
  changes, so the property needs nothing more. The record type,
  `CuratorShape`, writes the roots as the model's `"diff/" \o s`. The provers
  cannot evaluate a concatenation of literals.
- **`FindListingLast`.** When some entry has URL `u`, the loop of
  `setOrDownload` (`FindListing`) returns an entry with URL `u` and no later
  entry has it. The last such position is found as the least element of
  `{Len(dbs) - i : ...}`.
- **`AvailableListing`.** This lemma carries that entry back from the v5
  listing to `Entries` through `FilterSeqSelection`. The increasing position
  map turns "later in the v5 listing" into "later in `Entries` with schema 5".
- `SetURLStep` is the one step that installs. A failed call records
  `ok = FALSE`, a path request records a request that is not a URL, and a
  delete clears `lastSet`, so for them the property holds vacuously on that
  side.

TLC checked `InstalledInv` as an invariant of the `differ` instance first.

`CLIEnvironProofs` proves **`ViewsAgreeInvariant`**: `Spec => []ViewsAgree`,
for every set of names and values.

- **Assumptions.** `KeysAssumption` says names are non-empty strings without
  `=`, as for POSIX environment names. `ValuesAssumption` says values are
  strings.
- **The inductive invariant.** `EnvInv`: the environment is a sequence of
  typed variables, and no name occurs twice (`UniqueKeys`). `os.Setenv`
  replaces in place or appends an unset name, and `os.Unsetenv` keeps a
  subsequence (`SetenvInv`, `UnsetenvInv`). `ViewsAgree` says nothing about
  duplicate names, yet the lookup in `Environ` takes the first line of a name
  while the model of `os.Getenv` takes any one of them. The two agree only
  because names are unique, so uniqueness is part of the invariant.
- **The string lemmas.** `LinePrefix`: since no name holds `=`, the line
  `k=v` starts with `p=` exactly when `p = k`. `LineValue`: the text after
  `k=` is `v`. They are proved position by position over `Chr`, which is
  `STRING` with the literals the code writes added; the provers do not know
  a literal to be in `STRING`.
- **`EnvInvViewsAgree`.** Through `FilterSeqSelection`, `Environ`'s lines are
  the `os.Environ` lines that do not start with `CI=`. For a name `k` other
  than `CI`, the lines starting with `k=` are the lines of `k`: none when `k`
  is unset, otherwise exactly one, which the filter keeps. So the lookup
  returns what `os.Getenv` returns.

TLC checked `EnvInv` on the `cli_environ` instance first.

`SeqFilterProofs` proves **`FilterSeqSelection`**: `FilterSeq(s, Test)` is a
sequence over the same set, and an increasing map of its positions sends them
onto exactly the positions of `s` whose elements pass `Test`.

- **Induction over a set.** The library's induction theorems take the
  property as an operator parameter, which the installed provers cannot
  instantiate. Induction is instead done with `NatLeast` (the least element of
  a non-empty set of naturals, from `WFMin` on `<`) and `SetInduction` over a
  set of naturals.
- **`FilterPrefixesDef`.** The recursive function satisfies its defining
  equation; the function's existence on `0 .. m` is shown by induction on `m`.
- **`FilterPrefixSelection`.** Each prefix result is a selection; this is
  shown by induction on the length of the prefix.

**Out of the prover's reach.** These are checked only by TLC:

- **Liveness.** No liveness property is claimed (see Fairness). TLAPS does
  not reason about liveness or `ENABLED` either.
- **`FilterSeq` is `SelectSeq`.** `SelectSeq` is opaque to tlapm. That the two
  filters agree is checked by `SeqFilterCheck`'s `ASSUME` on bounded inputs.
  It is not proved.

The models use no `RECURSIVE` operators.

## Plan for later work

- **Scan, from spec sections 5 and 7.** Model a bounded worker pool, the first
  error aborting the scan, cancellation discarding results, and the liveness
  property that every package is eventually handled under weak fairness of the
  workers.
- **Aggregation and ignore rules.** Model the merge key, the ignore partition
  and the VEX override (spec 4.4-4.6).
- **Store semantics.** Model the v6 store's open, close and index-drop
  behaviour from the spec; the tests in `part_001` pin it down.

## Not modelled

- **`Differ.Present` and `newTable`.** They only format a diff that has
  already been computed, as a table or as JSON.
- **The rest of `cli.go`.** This covers the UI collection choice, which
  depends on clio's `AllowUI`; the initialisers that hoist the bus and logger;
  sub-command registration; and the version strings. None of it holds state
  that a property tells apart.
- **`db_check.go` lines 1-29.** These are option types and flag registration.
- **The JSON encoder's error** (`db_check.go` lines 122-124). This is a write
  to stdout failing. The model's `presentNewDBCheck` always writes the
  document, so exit 1 from a failed write is not among the outcomes checked.
- **Upstream expansion beyond the finding.** `UpstreamMatcher` (spec 4.3 with
  the code's `MatchPackageByDistro`) serves only the `upstream_searched_by`
  run. The finding makes searched-by wrong for every indirect match.
- **Two differ sequences are reached by the model but not checked.** Neither
  the spec nor a comment says what the code should do in either case:
  - Setting the base from a path and then the target from a URL fails,
    because the listing is fetched through the base curator.
  - `DeleteDatabases` can stop after deleting the base.
