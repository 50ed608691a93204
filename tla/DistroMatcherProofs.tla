------------------------ MODULE DistroMatcherProofs ------------------------
(***************************************************************************)
(* Proofs about DistroMatcher for every inventory and every provider       *)
(* content: the type invariant, and that the matches of every package are  *)
(* at every point exactly what spec properties 2 and 3 demand.             *)
(*                                                                         *)
(* TypeOK /\ MatchesExact is inductive: a call only adds matches for the  *)
(* package it handles, and that package, still pending, had none.  The    *)
(* core of the argument is that the provider's four filters select         *)
(* exactly the records that affect the package (FindVulnerabilitiesExact), *)
(* and that every early return is a package no record affects             *)
(* (ShortCircuitUnaffected).                                               *)
(***************************************************************************)
EXTENDS MatcherRefinement, TLAPS

IInv == TypeOK /\ MatchesExact

\* A parsed version is a natural number or Malformed.
LEMMA ParseVersionType ==
  ASSUME NEW s \in VersionStrings
  PROVE  ParseVersion(s) \in Nat \cup {Malformed}
BY DEF ParseVersion, DigitValue

\* A string that lower-cases to "unknown" has seven characters, so the
\* scheme does not parse it.
LEMMA UnknownIsMalformed ==
  ASSUME NEW s \in VersionStrings, ToLower(s) = UnknownWord
  PROVE  ParseVersion(s) = Malformed
<1>1. DOMAIN ToLower(s) = DOMAIN UnknownWord
  OBVIOUS
<1>2. Len(s) = 7
  BY <1>1 DEF ToLower, UnknownWord, VersionStrings
<1>. QED
  BY <1>2 DEF ParseVersion

\* The provider's filters select exactly the records that affect p.
LEMMA FindVulnerabilitiesExact ==
  ASSUME NEW p \in Package
  PROVE  FindVulnerabilities(p) = {v \in Vulns : Affects(v, p)}
<1>1. ParseVersion(p.version) \in Nat \cup {Malformed}
  BY ParseVersionType DEF Package
<1>2. ParseVersion(p.version) # Malformed <=> ParseVersion(p.version) \in Nat
  BY <1>1, MalformedAssumption
<1>. QED
  BY <1>2 DEF FindVulnerabilities, Affects, onlyQualifiedPackages, onlyVulnerableVersions

\* No record affects a package on which MatchPackageByDistro returns early.
LEMMA ShortCircuitUnaffected ==
  ASSUME NEW p \in Package, ShortCircuits(p)
  PROVE  {v \in Vulns : Affects(v, p)} = {}
<1>1. CASE p.distro = NoDistro
  BY <1>1, VulnsAssumption, NoDistroAssumption DEF Affects, Vuln
<1>2. CASE isUnknownVersion(p.version)
  <2>1. ParseVersion(p.version) = Malformed
    BY <1>2, UnknownIsMalformed DEF isUnknownVersion, Package
  <2>. QED
    BY <2>1, MalformedAssumption DEF Affects
<1>. QED
  BY <1>1, <1>2 DEF ShortCircuits

\* A match built by the loop body is well typed.
LEMMA NewMatchType ==
  ASSUME NEW p \in Packages, ~ShortCircuits(p), NEW v \in Vulns
  PROVE  NewMatch(p, v) \in Match
<1>1. p \in Package /\ v \in Vuln
  BY PackagesAssumption, VulnsAssumption
<1>2. p.distro \in Distros
  BY <1>1 DEF ShortCircuits, Package
<1>. QED
  BY <1>1, <1>2 DEF NewMatch, Match, Package, DetailTypes

THEOREM InitIInv == Init => IInv
BY DEF Init, IInv, TypeOK, MatchesExact

THEOREM NextIInv == IInv /\ [Next]_vars => IInv'
<1> SUFFICES ASSUME IInv, [Next]_vars PROVE IInv'
  OBVIOUS
<1>1. CASE UNCHANGED vars
  BY <1>1 DEF IInv, TypeOK, MatchesExact, vars, Affects
<1>2. CASE Next
  <2> PICK p \in Packages : MatchPackageByDistro(p)
    BY <1>2 DEF Next
  <2>0. p \in Package /\ status[p] = "pending"
    BY PackagesAssumption DEF MatchPackageByDistro
  \* Every package other than p keeps its status and its matches.
  <2>1. ASSUME NEW q \in Packages, q # p
        PROVE  /\ status'[q] = status[q]
               /\ {m \in matches' : m.pkg = q} = {m \in matches : m.pkg = q}
    BY <2>1 DEF MatchPackageByDistro, IInv, TypeOK, NewMatch
  \* p had no match before the call.
  <2>2. {m \in matches : m.pkg = p} = {}
    BY <2>0 DEF IInv, MatchesExact
  <2>3. CASE ShortCircuits(p) /\ status' = [status EXCEPT ![p] = "done"] /\ UNCHANGED matches
    <3>1. TypeOK'
      BY <2>3 DEF IInv, TypeOK
    <3>2. {v \in Vulns : Affects(v, p)} = {}
      BY <2>0, <2>3, ShortCircuitUnaffected
    <3>3. MatchesExact'
      BY <2>1, <2>2, <2>3, <3>2 DEF IInv, TypeOK, MatchesExact
    <3>. QED
      BY <3>1, <3>3 DEF IInv
  <2>4. CASE ~ShortCircuits(p) /\ status' = [status EXCEPT ![p] = "failed"] /\ UNCHANGED matches
    <3>1. TypeOK'
      BY <2>4 DEF IInv, TypeOK
    <3>2. MatchesExact'
      BY <2>1, <2>2, <2>4 DEF IInv, TypeOK, MatchesExact
    <3>. QED
      BY <3>1, <3>2 DEF IInv
  <2>5. CASE /\ ~ShortCircuits(p)
             /\ status' = [status EXCEPT ![p] = "done"]
             /\ matches' = matches \cup {NewMatch(p, v) : v \in FindVulnerabilities(p)}
    <3>0. FindVulnerabilities(p) = {v \in Vulns : Affects(v, p)}
      BY <2>0, FindVulnerabilitiesExact
    <3>1. TypeOK'
      <4>1. \A v \in FindVulnerabilities(p) : NewMatch(p, v) \in Match
        BY <2>5, NewMatchType DEF FindVulnerabilities
      <4>. QED
        BY <2>5, <4>1 DEF IInv, TypeOK
    <3>2. {m \in matches' : m.pkg = p} = {NewMatch(p, v) : v \in FindVulnerabilities(p)}
      BY <2>2, <2>5 DEF NewMatch
    <3>3. {m.vuln : m \in {m \in matches' : m.pkg = p}} = {v \in Vulns : Affects(v, p)}
      <4>1. \A v : NewMatch(p, v).vuln = v
        BY DEF NewMatch
      <4>2. {m.vuln : m \in {NewMatch(p, v) : v \in FindVulnerabilities(p)}} = FindVulnerabilities(p)
        BY <4>1, Zenon
      <4>. QED
        BY <3>0, <3>2, <4>2
    <3>4. \A m \in {m \in matches' : m.pkg = p} :
             /\ m.type = "exact-direct"
             /\ m.searchedPkg = [name |-> p.name, version |-> p.version]
      BY <3>2 DEF NewMatch
    <3>5. status'[p] = "done"
      BY <2>5, <2>0 DEF IInv, TypeOK
    <3>6. MatchesExact'
      BY <2>1, <3>3, <3>4, <3>5 DEF IInv, TypeOK, MatchesExact
    <3>. QED
      BY <3>1, <3>6 DEF IInv
  <2>. QED
    BY <2>3, <2>4, <2>5 DEF MatchPackageByDistro
<1>. QED
  BY <1>1, <1>2

\* MatchPackageByDistro keeps every value of the scan well typed.
THEOREM TypeCorrect == Spec => []TypeOK
<1>1. IInv => TypeOK
  BY DEF IInv
<1>. QED
  BY <1>1, InitIInv, NextIInv, PTL DEF Spec

(***************************************************************************)
(* For every inventory and every provider content, the matches of every   *)
(* package are at every point of the scan exactly the records that affect *)
(* it (spec properties 2 and 3), none while its call is pending or after   *)
(* it failed, each exact-direct and searched by the package itself.       *)
(***************************************************************************)
THEOREM MatchesExactInvariant == Spec => []MatchesExact
<1>1. IInv => MatchesExact
  BY DEF IInv
<1>. QED
  BY <1>1, InitIInv, NextIInv, PTL DEF Spec

-----------------------------------------------------------------------------
-----------------------------------------------------------------------------
(***************************************************************************)
(* Refinement.  Under IInv the refinement mapping of found is a function  *)
(* of status alone (Expected): the records of a done package are its       *)
(* affected records, every other package has none.  A step of             *)
(* MatchPackageByDistro changes the status of one pending package to done *)
(* or, only when the provider can fail, to failed, which is a Handle step. *)
(***************************************************************************)
Expected(st) ==
  [q \in Packages |-> IF st[q] = "done" THEN {v \in Vulns : Affects(v, q)} ELSE {}]

LEMMA FoundIsExpected ==
  ASSUME IInv
  PROVE  [q \in Packages |-> FoundOf(q)] = Expected(status)
<1>1. ASSUME NEW q \in Packages
      PROVE  FoundOf(q) = IF status[q] = "done" THEN {v \in Vulns : Affects(v, q)} ELSE {}
  <2>1. CASE status[q] = "done"
    BY <2>1, Zenon DEF IInv, MatchesExact, FoundOf
  <2>2. CASE status[q] # "done"
    <3>1. {m2 \in matches : m2.pkg = q} = {}
      BY <2>2 DEF IInv, MatchesExact
    <3>. QED
      BY <2>2, <3>1, Zenon DEF FoundOf
  <2>. QED
    BY <2>1, <2>2
<1>. QED
  BY <1>1 DEF Expected

LEMMA RefinementStep ==
  ASSUME IInv, IInv', [Next]_vars
  PROVE  [AM!Next]_AM!vars
<1>1. [q \in Packages |-> FoundOf(q)] = Expected(status)
  BY FoundIsExpected
<1>2. [q \in Packages |-> FoundOf(q)]' = Expected(status')
  <2>1. ASSUME NEW q \in Packages
        PROVE  FoundOf(q)' = IF status'[q] = "done" THEN {v \in Vulns : Affects(v, q)} ELSE {}
    <3>1. CASE status'[q] = "done"
      BY <3>1, Zenon DEF IInv, MatchesExact, FoundOf
    <3>2. CASE status'[q] # "done"
      <4>1. {m2 \in matches' : m2.pkg = q} = {}
        BY <3>2 DEF IInv, MatchesExact
      <4>. QED
        BY <3>2, <4>1, Zenon DEF FoundOf
    <3>. QED
      BY <3>1, <3>2
  <2>. QED
    BY <2>1 DEF Expected
<1>3. CASE UNCHANGED vars
  BY <1>3 DEF vars, AM!vars, FoundOf
<1>4. CASE Next
  <2> PICK p \in Packages : MatchPackageByDistro(p)
    BY <1>4 DEF Next
  <2>0. status \in [Packages -> {"pending", "done", "failed"}] /\ status[p] = "pending"
    BY DEF IInv, TypeOK, MatchPackageByDistro
  <2>1. CASE status' = [status EXCEPT ![p] = "done"]
    <3>1. Expected(status') = [Expected(status) EXCEPT ![p] = {v \in Vulns : Affects(v, p)}]
      BY <2>0, <2>1 DEF Expected
    <3>2. AM!Handle(p)
      BY <1>1, <1>2, <2>0, <2>1, <3>1 DEF AM!Handle
    <3>. QED
      BY <3>2 DEF AM!Next
  <2>2. CASE ProviderCanFail /\ status' = [status EXCEPT ![p] = "failed"]
    <3>1. Expected(status') = Expected(status)
      BY <2>0, <2>2 DEF Expected
    <3>2. AM!Handle(p)
      BY <1>1, <1>2, <2>0, <2>2, <3>1 DEF AM!Handle
    <3>. QED
      BY <3>2 DEF AM!Next
  <2>. QED
    BY <2>1, <2>2 DEF MatchPackageByDistro
<1>. QED
  BY <1>3, <1>4

(***************************************************************************)
(* For every inventory and provider content, the scan over                 *)
(* MatchPackageByDistro implements the abstract matcher: reading the       *)
(* collected matches as the records found per package, every call is a    *)
(* Handle step of that package, or leaves found unchanged.                *)
(***************************************************************************)
THEOREM Refinement == Spec => AM!Spec
<1>1. Init => AM!Init
  BY DEF Init, AM!Init, FoundOf
<1>. QED
  BY <1>1, RefinementStep, InitIInv, NextIInv, PTL DEF Spec, AM!Spec
=============================================================================
