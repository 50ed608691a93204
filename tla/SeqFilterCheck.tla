-------------------------- MODULE SeqFilterCheck --------------------------
(***************************************************************************)
(* FilterSeq checked against the standard SelectSeq by TLC, in every run  *)
(* whose MC module extends this one.  Kept out of SeqFilter, because the  *)
(* provers cannot read SelectSeq.                                          *)
(***************************************************************************)
EXTENDS SeqFilter

\* FilterSeq is SelectSeq: TLC compares them on every sequence of up to
\* three elements of a three-element set, under every test by membership.
ASSUME FilterSeqIsSelectSeq ==
  \A n \in 0 .. 3 : \A s \in [1 .. n -> {1, 2, 3}] : \A T \in SUBSET {1, 2, 3} :
    FilterSeq(s, LAMBDA x : x \in T) = SelectSeq(s, LAMBDA x : x \in T)

=============================================================================
