-------------------------- MODULE MCDistroMatcher --------------------------
(***************************************************************************)
(* A small inventory for DistroMatcher: packages that hit every early      *)
(* return of MatchPackageByDistro (nil distro, "unknown" in three letter   *)
(* cases, a version the scheme rejects), records that differ from a       *)
(* package in one criterion only (name, distro, qualifier, constraint      *)
(* bound) and a constraint with two clauses.                               *)
(***************************************************************************)
EXTENDS DistroMatcher

CONSTANTS D11, D12, NoDist, NoQual, Bad

\* "1", "2", "3", "unknown", "UNKNOWN", "Unknown", "unk"
V1 == <<"1">>
V2 == <<"2">>
V3 == <<"3">>
VUnknown == <<"u", "n", "k", "n", "o", "w", "n">>
VUPPER == <<"U", "N", "K", "N", "O", "W", "N">>
VCapital == <<"U", "n", "k", "n", "o", "w", "n">>
VUnk == <<"u", "n", "k">>

Pkg(n, v, d, q) == [name |-> n, version |-> v, distro |-> d, qualifier |-> q]

MCPackages ==
  { Pkg("openssl", V1, D11, NoQual),     \* affected by <2 and by the || clause
    Pkg("openssl", V2, D11, NoQual),     \* exactly at the "<2" bound
    Pkg("openssl", VUPPER, D11, NoQual), \* "UNKNOWN": must short-circuit
    Pkg("openssl", VCapital, D12, NoQual),
    Pkg("openssl", V1, NoDist, NoQual),  \* nil distro
    Pkg("openssl", VUnk, D11, NoQual),   \* not the sentinel, not parsable
    Pkg("nodejs", V3, D12, "nodejs:18"),
    Pkg("nodejs", VUnknown, D12, NoQual) }

Lt(k) == [op |-> "<", ver |-> k]
Ge(k) == [op |-> ">=", ver |-> k]

MCVulns ==
  { [id |-> "CVE-1", pkgName |-> "openssl", distro |-> D11, qualifier |-> NoQual,
     constraint |-> {{Lt(2)}}],
    [id |-> "CVE-2", pkgName |-> "openssl", distro |-> D11, qualifier |-> NoQual,
     constraint |-> {{Ge(0), Lt(1)}, {[op |-> "=", ver |-> 1]}}],
    [id |-> "CVE-3", pkgName |-> "openssl", distro |-> D12, qualifier |-> NoQual,
     constraint |-> {{Lt(3)}}],
    [id |-> "CVE-4", pkgName |-> "nodejs", distro |-> D12, qualifier |-> "nodejs:18",
     constraint |-> {{Lt(4)}}],
    [id |-> "CVE-5", pkgName |-> "nodejs", distro |-> D12, qualifier |-> "nodejs:20",
     constraint |-> {{Lt(4)}}] }

MCDistros == {D11, D12}
=============================================================================
