------------------------------ MODULE MCDBCheck ------------------------------
(* Two build times are enough to have a candidate older, equal and newer  *)
(* than the installed database.                                           *)
EXTENDS DBCheck
CONSTANTS NilV, CorruptV, UnreachableV
MCBuilds == {1, 2}
=============================================================================
