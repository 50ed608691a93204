--------------------------- MODULE DistroMatcher ---------------------------
(***************************************************************************)
(* The distro matcher of grype: MatchPackageByDistro                       *)
(* (src/unnamed/part_000), applied by a scan to every package of its       *)
(* inventory in an order the scheduler picks.                              *)
(*                                                                         *)
(* One call of MatchPackageByDistro is one atomic step: it short-circuits  *)
(* on a nil distro or an "unknown" version, otherwise queries the          *)
(* provider once with four filters and turns every returned record into an *)
(* exact-direct match; a provider error discards everything and returns    *)
(* the error.  The provider and its filters are not in src/ and are        *)
(* modelled from spec sections 4.1 and 4.2.                                *)
(***************************************************************************)
EXTENDS Naturals, Sequences, FiniteSets

CONSTANTS
  Packages,         \* the inventory: records [name, version, distro, qualifier]
  Vulns,            \* provider records [id, pkgName, distro, qualifier, constraint]
  Distros,          \* distro identities (type and version)
  NoDistro,         \* p.Distro == nil
  NoQualifier,      \* a record or package without an RPM-modularity qualifier
  Malformed,        \* the result of parsing a version the scheme rejects
  ProviderCanFail   \* whether provider.FindVulnerabilities may return an error

(***************************************************************************)
(* Versions are strings, kept as sequences of one-character strings so     *)
(* that the case folding of isUnknownVersion is modelled by what it does.  *)
(***************************************************************************)
Chars == {"u", "n", "k", "o", "w", "U", "N", "K", "O", "W", "0", "1", "2", "3"}
VersionStrings == Seq(Chars)

\* Version constraints of the spec's grammar (section 4.1): a set of
\* clauses ("||"), each a set of ranges (","), each an operator and a version.
Ops == {"<", "<=", ">", ">=", "=", "!="}
Range == [op : Ops, ver : Nat]
Constraint == SUBSET SUBSET Range

Package == [name : STRING, version : VersionStrings,
            distro : Distros \cup {NoDistro}, qualifier : STRING \cup {NoQualifier}]
Vuln == [id : STRING, pkgName : STRING, distro : Distros,
         qualifier : STRING \cup {NoQualifier}, constraint : Constraint]

ASSUME PackagesAssumption == Packages \subseteq Package
ASSUME VulnsAssumption == Vulns \subseteq Vuln
ASSUME NoDistroAssumption == NoDistro \notin Distros
ASSUME MalformedAssumption == Malformed \notin Nat
ASSUME ProviderCanFailAssumption == ProviderCanFail \in BOOLEAN

(***************************************************************************)
(* A match as MatchPackageByDistro builds it: the record, the package, the *)
(* detail type and the searched-by distro and package identity.  Matcher   *)
(* name, confidence and the "found" map are constants of the code and are  *)
(* left out.                                                               *)
(***************************************************************************)
DetailTypes == {"exact-direct", "exact-indirect"}
Match == [vuln : Vuln, pkg : Package, type : DetailTypes,
          searchedDistro : Distros,
          searchedPkg : [name : STRING, version : VersionStrings]]

VARIABLES
  status,   \* per package: "pending", "done" (call returned) or "failed" (returned an error)
  matches   \* the matches the scan has collected

vars == <<status, matches>>

-----------------------------------------------------------------------------
(* strings.ToLower on the characters versions are made of. *)
ToLowerChar(c) ==
  CASE c = "U" -> "u"
    [] c = "N" -> "n"
    [] c = "K" -> "k"
    [] c = "O" -> "o"
    [] c = "W" -> "w"
    [] OTHER   -> c

ToLower(s) == [i \in 1 .. Len(s) |-> ToLowerChar(s[i])]

UnknownWord == <<"u", "n", "k", "n", "o", "w", "n">>

isUnknownVersion(v) == ToLower(v) = UnknownWord

(***************************************************************************)
(* version.NewVersionFromPkg under the distro scheme, reduced to the       *)
(* versions the model uses: a single digit parses to its value, anything   *)
(* else is rejected by the scheme.                                         *)
(***************************************************************************)
DigitValue(c) == CASE c = "0" -> 0 [] c = "1" -> 1 [] c = "2" -> 2 [] c = "3" -> 3

ParseVersion(s) ==
  IF Len(s) = 1 /\ s[1] \in {"0", "1", "2", "3"} THEN DigitValue(s[1]) ELSE Malformed

\* One range "op ver" evaluated under the scheme's order.
RangeHolds(v, r) ==
  CASE r.op = "<"  -> v < r.ver
    [] r.op = "<=" -> v <= r.ver
    [] r.op = ">"  -> v > r.ver
    [] r.op = ">=" -> v >= r.ver
    [] r.op = "="  -> v = r.ver
    [] r.op = "!=" -> v # r.ver

\* satisfies(v, c): some clause has every range satisfied.
Satisfies(v, c) == \E clause \in c : \A r \in clause : RangeHolds(v, r)

\* onlyVulnerableVersions: a version the scheme cannot parse matches nothing.
onlyVulnerableVersions(ver, vuln) == ver # Malformed /\ Satisfies(ver, vuln.constraint)

\* onlyQualifiedPackages: a qualified record applies only to a package with
\* the same qualifier.
onlyQualifiedPackages(p, vuln) ==
  vuln.qualifier = NoQualifier \/ vuln.qualifier = p.qualifier

\* Plausible fault: the onlyQualifiedPackages criterion left out of the query.
FindVulnerabilitiesUnqualified(p) ==
  { v \in Vulns : /\ v.pkgName = p.name
                  /\ v.distro = p.distro
                  /\ onlyVulnerableVersions(ParseVersion(p.version), v) }

\* provider.FindVulnerabilities(ByPackageName, ByDistro, onlyQualifiedPackages,
\* onlyVulnerableVersions): the records that pass all four criteria.
FindVulnerabilities(p) ==
  { v \in Vulns : /\ v.pkgName = p.name
                  /\ v.distro = p.distro
                  /\ onlyQualifiedPackages(p, v)
                  /\ onlyVulnerableVersions(ParseVersion(p.version), v) }

\* Plausible fault: the searched-by package map omits the version.
NewMatchNameOnly(p, v) ==
  [vuln |-> v, pkg |-> p, type |-> "exact-direct", searchedDistro |-> p.distro,
   searchedPkg |-> [name |-> p.name]]

\* The match.Match literal of the loop body.
NewMatch(p, v) ==
  [vuln |-> v, pkg |-> p, type |-> "exact-direct", searchedDistro |-> p.distro,
   searchedPkg |-> [name |-> p.name, version |-> p.version]]

\* The early returns: nil distro, or a version that is "unknown" in any case.
ShortCircuits(p) == p.distro = NoDistro \/ isUnknownVersion(p.version)

-----------------------------------------------------------------------------
Init ==
  /\ status = [p \in Packages |-> "pending"]
  /\ matches = {}

(***************************************************************************)
(* One call MatchPackageByDistro(provider, p, matcher) and the scan        *)
(* accumulating what it returns: nothing after an early return, nothing    *)
(* and an error when the provider fails, one match per returned record     *)
(* otherwise.                                                              *)
(***************************************************************************)
MatchPackageByDistro(p) ==
  /\ status[p] = "pending"
  /\ \/ /\ ShortCircuits(p)
        /\ status' = [status EXCEPT ![p] = "done"]
        /\ UNCHANGED matches
     \/ /\ ~ShortCircuits(p)
        /\ ProviderCanFail
        /\ status' = [status EXCEPT ![p] = "failed"]
        /\ UNCHANGED matches
     \/ /\ ~ShortCircuits(p)
        /\ status' = [status EXCEPT ![p] = "done"]
        /\ matches' = matches \cup {NewMatch(p, v) : v \in FindVulnerabilities(p)}

Next == \E p \in Packages : MatchPackageByDistro(p)

Spec == Init /\ [][Next]_vars

-----------------------------------------------------------------------------
(* Type invariant. *)
TypeOK ==
  /\ status \in [Packages -> {"pending", "done", "failed"}]
  /\ matches \subseteq Match

(***************************************************************************)
(* Reference definition (spec 4.1, 4.2, property 2 and 3): record v        *)
(* affects package p when names and distro agree, the qualifiers allow it  *)
(* and p's version is parsable and satisfies v's constraint.              *)
(***************************************************************************)
Affects(v, p) ==
  /\ v.pkgName = p.name
  /\ v.distro = p.distro
  /\ v.qualifier \in {NoQualifier, p.qualifier}
  /\ ParseVersion(p.version) \in Nat
  /\ Satisfies(ParseVersion(p.version), v.constraint)

(***************************************************************************)
(* The matches of a package are exactly what spec properties 2 and 3       *)
(* demand, at every point of the scan: none while its call is pending or   *)
(* after it returned an error (no partial result of a failed call), none   *)
(* for a nil distro or an "unknown" version in any letter case, and        *)
(* otherwise one exact-direct match for each record that affects it, whose *)
(* searched-by names the package itself.                                   *)
(***************************************************************************)
MatchesExact ==
  \A p \in Packages :
    LET mine == {m \in matches : m.pkg = p}
    IN  /\ status[p] # "done" => mine = {}
        /\ status[p] = "done" =>
             /\ {m.vuln : m \in mine} = {v \in Vulns : Affects(v, p)}
             /\ \A m \in mine : /\ m.type = "exact-direct"
                                /\ m.searchedPkg = [name |-> p.name, version |-> p.version]

=============================================================================
