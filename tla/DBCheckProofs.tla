---------------------------- MODULE DBCheckProofs ----------------------------
(***************************************************************************)
(* `grype db check` tells the truth through its exit code, for every set of *)
(* build times.  The environment never changes; after RunE the error and   *)
(* the report are runDBCheckResult's, and after Exit the exit code is      *)
(* MapExitCode of that error (IInv).  ResultTruthful then settles the      *)
(* property by the order of runDBCheck's returns: a client or listing      *)
(* failure and an unsupported format all exit 1, the upgrade error is      *)
(* returned only with a candidate and after presenting it, and nil only   *)
(* when there is no candidate.                                            *)
(***************************************************************************)
EXTENDS DBCheck, TLAPS

Env ==
  /\ installed \in Builds \cup {Nil, Corrupt}
  /\ listing \in Builds \cup {Nil, Unreachable}
  /\ clientOK \in BOOLEAN
  /\ format \in Formats

IInv ==
  /\ Env
  /\ pc \in {"preRun", "run", "exit", "exited"}
  /\ pc \in {"exit", "exited"} => /\ runErr = runDBCheckResult.err
                                  /\ report = runDBCheckResult.out
  /\ pc = "exited" => exitCode = MapExitCode(runErr)

\* The two concatenations presentNewDBCheck writes in text mode.
LEMMA TextReport ==
  ASSUME NEW a, NEW b, NEW c
  PROVE  /\ Len(<<a>> \o <<b, c>>) = 3
         /\ (<<a>> \o <<b, c>>)[2] = b
OBVIOUS

\* What runDBCheck returns, and the exit code of it, against the environment.
LEMMA ResultTruthful ==
  ASSUME Env
  PROVE  /\ MapExitCode(runDBCheckResult.err) = 0 => ~NewerOffered
         /\ MapExitCode(runDBCheckResult.err) = 100 =>
              /\ NewerOffered
              /\ \E i \in 1 .. Len(runDBCheckResult.out) :
                   \/ runDBCheckResult.out[i] = [kind |-> "updated", build |-> listing]
                   \/ /\ runDBCheckResult.out[i].kind = "json"
                      /\ runDBCheckResult.out[i].updateAvailable
                      /\ runDBCheckResult.out[i].candidate = listing
<1> DEFINE current == ReadDescription
           check == IsUpdateAvailable(current)
           shown == presentNewDBCheck(format, check.archive # Nil, current, check.archive)
           Fail == [err |-> [wraps |-> {}], out |-> <<>>]
<1>0. /\ Fail.err # Nil
      /\ MapExitCode(Fail.err) = 1
  BY NilAssumption DEF MapExitCode, Error, Sentinels
<1>1. CASE ~clientOK
  BY <1>0, <1>1 DEF runDBCheckResult
<1>2. CASE clientOK /\ check.err # Nil
  BY <1>0, <1>2 DEF runDBCheckResult
<1>3. CASE clientOK /\ check.err = Nil /\ shown.err # Nil
  <2>1. shown.err = [wraps |-> {}]
    BY <1>3, NilAssumption DEF presentNewDBCheck, Error, Sentinels
  <2>. QED
    BY <1>0, <1>3, <2>1 DEF runDBCheckResult
<1>4. CASE clientOK /\ check.err = Nil /\ shown.err = Nil /\ check.archive # Nil
  <2>1. runDBCheckResult = [err |-> [wraps |-> {"ErrDBUpgradeAvailable"}], out |-> shown.out]
    BY <1>4 DEF runDBCheckResult
  <2>2. /\ listing \in Builds
        /\ check.archive = listing
        /\ current = Nil \/ listing > current
    BY <1>4, BuildsAssumption, UnreachableAssumption DEF Env, IsUpdateAvailable
  <2>3. installed \in Builds => current = installed
    BY DEF ReadDescription
  <2>4. NewerOffered
    BY <2>2, <2>3, BuildsAssumption, NilAssumption DEF NewerOffered
  <2>5. MapExitCode(runDBCheckResult.err) = 100
    BY <2>1, NilAssumption DEF MapExitCode, Error, Sentinels
  <2>6. format \in {"text", "json"}
    BY <1>4, NilAssumption DEF Env, Formats, presentNewDBCheck, Error
  <2>7. CASE format = "text"
    <3>1. shown.out = <<IF current # Nil THEN [kind |-> "installed", build |-> current]
                                         ELSE [kind |-> "noInstalled", build |-> Nil]>>
                      \o <<[kind |-> "updated", build |-> listing], [kind |-> "hint", build |-> Nil]>>
      BY <2>2, <2>7, BuildsAssumption, NilAssumption DEF presentNewDBCheck
    <3>2. 2 \in 1 .. Len(shown.out) /\ shown.out[2] = [kind |-> "updated", build |-> listing]
      BY <3>1, TextReport
    <3>. QED
      BY <2>1, <2>4, <2>5, <3>2
  <2>8. CASE format = "json"
    <3>1. shown.out = <<[kind |-> "json", current |-> current, candidate |-> listing,
                         updateAvailable |-> TRUE]>>
      BY <2>2, <2>8, BuildsAssumption, NilAssumption DEF presentNewDBCheck
    <3>. QED
      BY <2>1, <2>4, <2>5, <3>1
  <2>. QED
    BY <2>4, <2>6, <2>7, <2>8
<1>5. CASE clientOK /\ check.err = Nil /\ shown.err = Nil /\ check.archive = Nil
  <2>1. runDBCheckResult.err = Nil
    BY <1>5 DEF runDBCheckResult
  <2>2. listing \in Builds => current # Nil /\ ~(listing > current)
    BY <1>5, BuildsAssumption, UnreachableAssumption, NilAssumption DEF IsUpdateAvailable
  <2>3. current # Nil => installed \in Builds /\ current = installed
    BY DEF ReadDescription
  <2>4. ~NewerOffered
    BY <2>2, <2>3 DEF NewerOffered
  <2>. QED
    BY <2>1, <2>4 DEF MapExitCode
<1>. QED
  BY <1>1, <1>2, <1>3, <1>4, <1>5

THEOREM InitIInv == Init => IInv
BY DEF Init, IInv, Env

THEOREM NextIInv == IInv /\ [Next]_vars => IInv'
<1> SUFFICES ASSUME IInv, [Next]_vars PROVE IInv'
  OBVIOUS
<1>1. CASE PreRunE
  BY <1>1 DEF PreRunE, IInv, Env
<1>2. CASE RunE
  \* The environment RunE reads is unchanged, so its result is the same.
  <2>1. runDBCheckResult' = runDBCheckResult
    BY <1>2 DEF RunE, runDBCheckResult, ReadDescription, IsUpdateAvailable,
                presentNewDBCheck
  <2>. QED
    BY <1>2, <2>1 DEF RunE, IInv, Env
<1>3. CASE Exit
  <2>1. runDBCheckResult' = runDBCheckResult
    BY <1>3 DEF Exit, runDBCheckResult, ReadDescription, IsUpdateAvailable,
                presentNewDBCheck
  <2>. QED
    BY <1>3, <2>1 DEF Exit, IInv, Env
<1>4. CASE UNCHANGED vars
  <2>1. runDBCheckResult' = runDBCheckResult
    BY <1>4 DEF vars, runDBCheckResult, ReadDescription, IsUpdateAvailable,
                presentNewDBCheck
  <2>. QED
    BY <1>4, <2>1 DEF vars, IInv, Env
<1>. QED
  BY <1>1, <1>2, <1>3, <1>4 DEF Next

LEMMA IInvTruthful == IInv => ExitCodeTruthful
BY ResultTruthful DEF IInv, ExitCodeTruthful, Announces

(***************************************************************************)
(* For every set of build times, installed database, listing answer,       *)
(* client outcome and output format, `grype db check` exits 0 only when    *)
(* nothing newer than the installed database is listed, and exits 100      *)
(* only when something newer is listed and the report has announced it.    *)
(***************************************************************************)
THEOREM ExitCodeTruthfulInvariant == Spec => []ExitCodeTruthful
BY InitIInv, NextIInv, IInvTruthful, PTL DEF Spec
=============================================================================
