---------------------------- MODULE MCCLIEnviron ----------------------------
(* Names CI, C, CIX (a CIRCLECI-like name) and T; values "", "1" and "="   *)
(* (a value holding the separator); up to three variables at once.        *)
EXTENDS CLIEnviron, SeqFilterCheck

MCKeys == {<<"C", "I">>, <<"C">>, <<"C", "I", "X">>, <<"T">>}
MCValues == {<<>>, <<"1">>, <<"=">>}
=============================================================================
