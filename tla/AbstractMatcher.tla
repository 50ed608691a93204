-------------------------- MODULE AbstractMatcher --------------------------
(***************************************************************************)
(* What a matcher call promises the scan (spec 4.2, properties 2 and 3),   *)
(* with no provider, filter or match record in sight: each package is      *)
(* handled once, and a handled package either has found exactly the        *)
(* records that affect it or has failed and found nothing.                 *)
(***************************************************************************)
CONSTANTS
  Packages,       \* the inventory
  Vulns,          \* the provider's records
  Affects(_, _),  \* Affects(v, p): record v applies to package p
  CanFail         \* whether a call may return an error

VARIABLES
  status,   \* per package: "pending", "done" or "failed"
  found     \* per package: the records reported for it

vars == <<status, found>>

Init ==
  /\ status = [p \in Packages |-> "pending"]
  /\ found = [p \in Packages |-> {}]

\* One call for package p returns its affected records, or an error.
Handle(p) ==
  /\ status[p] = "pending"
  /\ \/ /\ status' = [status EXCEPT ![p] = "done"]
        /\ found' = [found EXCEPT ![p] = {v \in Vulns : Affects(v, p)}]
     \/ /\ CanFail
        /\ status' = [status EXCEPT ![p] = "failed"]
        /\ UNCHANGED found

Next == \E p \in Packages : Handle(p)

Spec == Init /\ [][Next]_vars

=============================================================================
