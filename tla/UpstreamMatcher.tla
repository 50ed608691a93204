-------------------------- MODULE UpstreamMatcher --------------------------
(***************************************************************************)
(* Upstream/source expansion (spec 4.3) around MatchPackageByDistro: a     *)
(* package that declares upstreams is matched once under its installed     *)
(* identity and once per upstream identity, and the matches of an upstream *)
(* search are reported against the installed package as exact-indirect.    *)
(* The expansion itself is not under src/ and is modelled from the spec;   *)
(* the search it performs is DistroMatcher's.                              *)
(***************************************************************************)
EXTENDS DistroMatcher

\* package -> its upstreams, a set of records [name, version] whose
\* version is <<>> when the upstream declares none (the installed one).
CONSTANT UpstreamsOf

VARIABLE upstreamStatus   \* per <<package, upstream>>: "pending", "done" or "failed"

allVars == <<status, matches, upstreamStatus>>

\* pkg.UpstreamPackages: the installed package under the upstream's name,
\* and the upstream's version when it declares one.
UpstreamPackage(p, u) ==
  [p EXCEPT !.name = u.name,
            !.version = IF u.version = <<>> THEN p.version ELSE u.version]

\* A match found for the upstream identity, reported against the installed
\* package with an exact-indirect detail.
AsIndirect(m, p) == [m EXCEPT !.pkg = p, !.type = "exact-indirect"]

UpstreamPairs == {<<p, u>> : p \in Packages, u \in UNION {UpstreamsOf[x] : x \in Packages}}

UpInit ==
  /\ Init
  /\ upstreamStatus = [pu \in {pv \in UpstreamPairs : pv[2] \in UpstreamsOf[pv[1]]} |-> "pending"]

\* MatchPackageByDistro called on the upstream identity q of p.
MatchUpstream(p, u) ==
  LET q == UpstreamPackage(p, u) IN
  /\ upstreamStatus[<<p, u>>] = "pending"
  /\ UNCHANGED status
  /\ \/ /\ ShortCircuits(q)
        /\ upstreamStatus' = [upstreamStatus EXCEPT ![<<p, u>>] = "done"]
        /\ UNCHANGED matches
     \/ /\ ~ShortCircuits(q)
        /\ ProviderCanFail
        /\ upstreamStatus' = [upstreamStatus EXCEPT ![<<p, u>>] = "failed"]
        /\ UNCHANGED matches
     \/ /\ ~ShortCircuits(q)
        /\ upstreamStatus' = [upstreamStatus EXCEPT ![<<p, u>>] = "done"]
        /\ matches' = matches \cup {AsIndirect(NewMatch(q, v), p) : v \in FindVulnerabilities(q)}

UpNext ==
  \/ (\E p \in Packages : MatchPackageByDistro(p)) /\ UNCHANGED upstreamStatus
  \/ \E pu \in DOMAIN upstreamStatus : MatchUpstream(pu[1], pu[2])

UpSpec == UpInit /\ [][UpNext]_allVars

(***************************************************************************)
(* Spec invariant 3 and scenario 2: an indirect match records the         *)
(* installed binary package in searched-by (scenario 2 expects             *)
(* searched-by.package.name "libssl1.1" for a match found through the      *)
(* upstream "openssl").  MatchPackageByDistro records in searched-by only  *)
(* the package it was called with.                                         *)
(***************************************************************************)
IndirectSearchedByInstalled ==
  \A m \in matches :
    m.type = "exact-indirect" => m.searchedPkg.name = m.pkg.name

=============================================================================
