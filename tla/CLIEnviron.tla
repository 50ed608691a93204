----------------------------- MODULE CLIEnviron -----------------------------
(***************************************************************************)
(* environWithoutCI (src/cmd/grype/cli/cli.go): the view of the process    *)
(* environment that the UI constructor hands to the terminal renderer      *)
(* (termenv.WithEnvironment), so that running under CI does not switch     *)
(* colour detection off.  It keeps no state: both methods read the live    *)
(* environment on every call, which other code of the process may change *)
(* at any time (os.Setenv, os.Unsetenv).                                   *)
(*                                                                         *)
(* Strings are sequences of one-character strings, so that the prefix test *)
(* of Environ is modelled by what it does.                                 *)
(***************************************************************************)
EXTENDS Naturals, Sequences, SequencesExt, SeqFilter

CONSTANTS
  Keys,     \* variable names: non-empty strings without "="
  Values,   \* variable values (may contain "=")
  MaxVars   \* bound on the number of variables set at once

ASSUME KeysAssumption ==
  \A k \in Keys : k \in Seq(STRING) /\ Len(k) > 0 /\ \A i \in 1 .. Len(k) : k[i] # "="
ASSUME ValuesAssumption == Values \subseteq Seq(STRING)
ASSUME MaxVarsAssumption == MaxVars \in Nat

Eq == <<"=">>
CIKey == <<"C", "I">>

VARIABLE
  env   \* the process environment, in os.Environ order: records [key, val], keys unique

-----------------------------------------------------------------------------
\* os.Environ: "key=value" for every variable, in order.
OsEnviron == [i \in 1 .. Len(env) |-> env[i].key \o Eq \o env[i].val]

\* os.Getenv: the value of the variable, "" when it is unset.
OsGetenv(k) ==
  IF \E i \in 1 .. Len(env) : env[i].key = k
  THEN env[CHOOSE i \in 1 .. Len(env) : env[i].key = k].val
  ELSE <<>>

(* Plausible fault: the filter written strings.HasPrefix(s, "CI"). *)
EnvironLoose == FilterSeq(OsEnviron, LAMBDA s : ~IsPrefix(CIKey, s))

\* environWithoutCI.Environ: every entry except those starting with "CI=".
Environ == FilterSeq(OsEnviron, LAMBDA s : ~IsPrefix(CIKey \o Eq, s))

\* environWithoutCI.Getenv: "" for CI, the process value otherwise.
Getenv(s) == IF s = CIKey THEN <<>> ELSE OsGetenv(s)

-----------------------------------------------------------------------------
Init == env = <<>>

\* os.Setenv(k, v): replace the value in place, or append a new variable.
Setenv(k, v) ==
  IF \E i \in 1 .. Len(env) : env[i].key = k
  THEN env' = [i \in 1 .. Len(env) |-> IF env[i].key = k THEN [key |-> k, val |-> v] ELSE env[i]]
  ELSE /\ Len(env) < MaxVars
       /\ env' = Append(env, [key |-> k, val |-> v])

\* os.Unsetenv(k): remove the variable.
Unsetenv(k) ==
  /\ \E i \in 1 .. Len(env) : env[i].key = k
  /\ env' = FilterSeq(env, LAMBDA e : e.key # k)

Next == \E k \in Keys : \/ \E v \in Values : Setenv(k, v)
                        \/ Unsetenv(k)

Spec == Init /\ [][Next]_env

-----------------------------------------------------------------------------
\* The value an environment listing gives k: the text after "k=" in its
\* first entry that starts with "k=", "" when none does.
LookupEntry(list, k) ==
  LET hits == {i \in 1 .. Len(list) : IsPrefix(k \o Eq, list[i])}
  IN  IF hits = {} THEN <<>>
      ELSE LET s == list[CHOOSE i \in hits : \A j \in hits : i <= j]
           IN  SubSeq(s, Len(k) + 2, Len(s))

(***************************************************************************)
(* The two views environWithoutCI gives the renderer agree, whatever the   *)
(* process has set: CI is invisible through both, and every other variable *)
(* is seen through Environ with exactly the value Getenv returns for it,   *)
(* names that merely start with "CI" (CIRCLECI, CI_NAME) included.        *)
(***************************************************************************)
ViewsAgree ==
  /\ \A i \in 1 .. Len(Environ) : ~IsPrefix(CIKey \o Eq, Environ[i])
  /\ Getenv(CIKey) = <<>>
  /\ \A k \in Keys \ {CIKey} : LookupEntry(Environ, k) = Getenv(k)

=============================================================================
