------------------------------ MODULE SeqFilter ------------------------------
(***************************************************************************)
(* The subsequence of the elements of s that pass Test, in order: the      *)
(* standard SelectSeq, written out as the recursive function over the      *)
(* prefixes of s that defines it.  The models use it where the code keeps  *)
(* the matching elements of a list (listings.Available[v5], Environ,       *)
(* os.Unsetenv); spelt out, the definition can be unfolded in proofs.     *)
(***************************************************************************)
EXTENDS Naturals, Sequences

\* F[i]: the elements of s[1..i] that pass Test, in order.
FilterPrefixes(s, Test(_)) ==
  LET F[i \in 0 .. Len(s)] ==
        IF i = 0 THEN <<>>
        ELSE IF Test(s[i]) THEN Append(F[i - 1], s[i]) ELSE F[i - 1]
  IN  F

FilterSeq(s, Test(_)) == FilterPrefixes(s, Test)[Len(s)]

=============================================================================
