------------------------- MODULE MatcherRefinement -------------------------
(***************************************************************************)
(* DistroMatcher implements AbstractMatcher: the matches a package has      *)
(* collected, read as the set of their records, are what the abstract       *)
(* matcher has found for it.  DistroMatcherProofs proves Spec => AM!Spec.  *)
(* No fairness is claimed: the scan cancels its pool on the first provider *)
(* error (spec 7), which the model of one matcher call does not represent. *)
(***************************************************************************)
EXTENDS DistroMatcher

\* The records the matches of package p carry.
FoundOf(p) == {m.vuln : m \in {m2 \in matches : m2.pkg = p}}

AM == INSTANCE AbstractMatcher WITH
        found <- [p \in Packages |-> FoundOf(p)],
        CanFail <- ProviderCanFail

=============================================================================
