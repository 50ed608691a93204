------------------------------ MODULE DBCheck ------------------------------
(***************************************************************************)
(* `grype db check` (src/cmd/grype/cli/commands/db_check.go) and the exit  *)
(* code the application maps its error to (src/cmd/grype/cli/cli.go,       *)
(* WithMapExitCode).  The command runs PreRunE, then RunE = runDBCheck,    *)
(* then the process exits with the mapped code.                            *)
(*                                                                         *)
(* The environment is chosen in Init: the installed database (absent,      *)
(* readable with a build time, or unreadable), the candidate the listing   *)
(* service offers (none, one with a build time, or unreachable), whether   *)
(* the distribution client can be created, and the --output format.       *)
(* Errors are kept as the set of sentinel errors their %w chain wraps;     *)
(* messages are left out.                                                  *)
(***************************************************************************)
EXTENDS Naturals, Sequences

CONSTANTS
  Builds,        \* build times of databases, a finite set of naturals
  Nil,           \* a nil pointer or a nil error
  Corrupt,       \* an installed database whose description cannot be read
  Unreachable    \* the listing service could not be queried

ASSUME BuildsAssumption == Builds \subseteq Nat /\ Builds # {}
ASSUME UnreachableAssumption == Unreachable \notin Nat \cup {Nil}
ASSUME CorruptAssumption == Corrupt \notin Nat \cup {Nil}

Formats == {"text", "json", "table"}   \* "table" stands for any unsupported value
Sentinels == {"ErrDBUpgradeAvailable", "ErrAboveSeverityThreshold"}
Error == [wraps : SUBSET Sentinels]

\* Nil is neither a build time nor an error value.
ASSUME NilAssumption == Nil \notin Nat \cup Error

\* What presentNewDBCheck writes: text lines, or the one JSON document.
Line == [kind : {"installed", "noInstalled", "noUpdate", "updated", "hint"}, build : Builds \cup {Nil}]
Json == [kind : {"json"}, current : Builds \cup {Nil}, candidate : Builds \cup {Nil},
         updateAvailable : BOOLEAN]

VARIABLES
  installed,   \* the database on disk: Nil (none), a build time, or Corrupt
  listing,     \* the listing service: Nil (no candidate), a build time, or Unreachable
  clientOK,    \* distribution.NewClient succeeds with the configured TLS/URL options
  format,      \* opts.Output
  pc,          \* "preRun", "run", "exit", "exited"
  runErr,      \* the error RunE returned, Nil on success
  report,      \* what was written to stdout
  exitCode     \* the process exit code, Nil until the process exits

vars == <<installed, listing, clientOK, format, pc, runErr, report, exitCode>>

-----------------------------------------------------------------------------
(* db.ReadDescription: nil with an error for an absent or unreadable file. *)
ReadDescription == IF installed \in Builds THEN installed ELSE Nil

(***************************************************************************)
(* client.IsUpdateAvailable(current), which is not under src/ (spec 6:    *)
(* "100 database upgrade available"): an error when the listing cannot be *)
(* fetched, the candidate when there is none installed or it was built    *)
(* later than the installed one, nil otherwise.                           *)
(***************************************************************************)
IsUpdateAvailable(current) ==
  IF listing = Unreachable THEN [err |-> [wraps |-> {}], archive |-> Nil]
  ELSE IF listing # Nil /\ (current = Nil \/ listing > current)
       THEN [err |-> Nil, archive |-> listing]
       ELSE [err |-> Nil, archive |-> Nil]

(* presentNewDBCheck: the report, or an error for an unsupported format. *)
presentNewDBCheck(fmt, updateAvailable, current, candidate) ==
  IF fmt = "text" THEN
         [err |-> Nil,
          out |-> <<IF current # Nil THEN [kind |-> "installed", build |-> current]
                                     ELSE [kind |-> "noInstalled", build |-> Nil]>>
                  \o IF ~updateAvailable THEN <<[kind |-> "noUpdate", build |-> Nil]>>
                     ELSE <<[kind |-> "updated", build |-> candidate],
                            [kind |-> "hint", build |-> Nil]>>]
  ELSE IF fmt = "json" THEN
         [err |-> Nil,
          out |-> <<[kind |-> "json", current |-> current, candidate |-> candidate,
                     updateAvailable |-> updateAvailable]>>]
  ELSE [err |-> [wraps |-> {}], out |-> <<>>]

\* The exit code WithMapExitCode gives an error (errors.Is walks the %w chain),
\* tested in the code's order.  A nil error exits 0.
MapExitCode(e) ==
  IF e = Nil THEN 0
  ELSE IF "ErrAboveSeverityThreshold" \in e.wraps THEN 2
  ELSE IF "ErrDBUpgradeAvailable" \in e.wraps THEN 100
  ELSE 1

-----------------------------------------------------------------------------
Init ==
  /\ installed \in Builds \cup {Nil, Corrupt}
  /\ listing \in Builds \cup {Nil, Unreachable}
  /\ clientOK \in BOOLEAN
  /\ format \in Formats
  /\ pc = "preRun"
  /\ runErr = Nil
  /\ report = <<>>
  /\ exitCode = Nil

\* PreRunE: zero the update-check frequency (read by the curator, not by this
\* command's client) and disable the UI; neither touches the modelled state.
PreRunE ==
  /\ pc = "preRun"
  /\ pc' = "run"
  /\ UNCHANGED <<installed, listing, clientOK, format, runErr, report, exitCode>>

(* Plausible fault: report "upgrade available" before presenting it. *)
runDBCheckEarlyReturn ==
  LET current == ReadDescription
      check == IsUpdateAvailable(current)
      shown == presentNewDBCheck(format, check.archive # Nil, current, check.archive)
  IN  IF ~clientOK THEN [err |-> [wraps |-> {}], out |-> <<>>]
      ELSE IF check.err # Nil THEN [err |-> [wraps |-> {}], out |-> <<>>]
      ELSE IF check.archive # Nil THEN [err |-> [wraps |-> {"ErrDBUpgradeAvailable"}], out |-> <<>>]
      ELSE IF shown.err # Nil THEN [err |-> shown.err, out |-> <<>>]
      ELSE [err |-> Nil, out |-> shown.out]

(***************************************************************************)
(* runDBCheck as a function of the environment: the error it returns and  *)
(* what it wrote.  A failed ReadDescription only makes current nil.  The  *)
(* errors wrapped at lines 62 and 75 carry no sentinel.                   *)
(***************************************************************************)
runDBCheckResult ==
  LET current == ReadDescription
      check == IsUpdateAvailable(current)
      shown == presentNewDBCheck(format, check.archive # Nil, current, check.archive)
  IN  IF ~clientOK THEN [err |-> [wraps |-> {}], out |-> <<>>]
      ELSE IF check.err # Nil THEN [err |-> [wraps |-> {}], out |-> <<>>]
      ELSE IF shown.err # Nil THEN [err |-> shown.err, out |-> <<>>]
      ELSE IF check.archive # Nil THEN [err |-> [wraps |-> {"ErrDBUpgradeAvailable"}], out |-> shown.out]
      ELSE [err |-> Nil, out |-> shown.out]

RunE ==
  /\ pc = "run"
  /\ pc' = "exit"
  /\ runErr' = runDBCheckResult.err
  /\ report' = runDBCheckResult.out
  /\ UNCHANGED <<installed, listing, clientOK, format, exitCode>>

Exit ==
  /\ pc = "exit"
  /\ pc' = "exited"
  /\ exitCode' = MapExitCode(runErr)
  /\ UNCHANGED <<installed, listing, clientOK, format, runErr, report>>

Next == PreRunE \/ RunE \/ Exit

Spec == Init /\ [][Next]_vars

-----------------------------------------------------------------------------
(* Type invariant. *)
TypeOK ==
  /\ installed \in Builds \cup {Nil, Corrupt}
  /\ listing \in Builds \cup {Nil, Unreachable}
  /\ clientOK \in BOOLEAN
  /\ format \in Formats
  /\ pc \in {"preRun", "run", "exit", "exited"}
  /\ runErr \in Error \cup {Nil}
  /\ report \in Seq(Line \cup Json)
  /\ exitCode \in {Nil, 0, 1, 2, 100}

\* The listing offers a database newer than the readable installed one.
NewerOffered ==
  /\ listing \in Builds
  /\ installed \in Builds => listing > installed

\* The report announces candidate build b as an available update.
Announces(b) ==
  \E i \in 1 .. Len(report) :
    \/ report[i] = [kind |-> "updated", build |-> b]
    \/ report[i].kind = "json" /\ report[i].updateAvailable /\ report[i].candidate = b

(***************************************************************************)
(* The exit code of `grype db check` tells the truth (spec 6: 0 clean,     *)
(* 100 upgrade available): exit 0 only when the listing offers nothing     *)
(* newer than the installed database, and exit 100 only when it does and   *)
(* the report on stdout has announced that very candidate.                 *)
(***************************************************************************)
ExitCodeTruthful ==
  pc = "exited" =>
    /\ exitCode = 0 => ~NewerOffered
    /\ exitCode = 100 => NewerOffered /\ Announces(listing)

=============================================================================
