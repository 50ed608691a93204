--------------------------- MODULE SeqFilterProofs ---------------------------
(***************************************************************************)
(* What FilterSeq computes, for every sequence and test: the result is a   *)
(* sequence over the same set, and an increasing map idx of its positions *)
(* onto exactly the positions of s that pass Test relates the two.         *)
(*                                                                         *)
(* Induction is done through the least element of a set of naturals       *)
(* (WFMin on <), so that every induction is over a set, not a predicate.   *)
(***************************************************************************)
EXTENDS SeqFilter, WellFoundedInduction, TLAPS

\* A non-empty set of naturals has a least element.
LEMMA NatLeast ==
  ASSUME NEW M \in SUBSET Nat, M # {}
  PROVE  \E m \in M : \A k \in M : m <= k
<1>1. \A a, b \in Nat : a < b => <<a, b>> \in OpToRel(<, Nat)
  BY DEF OpToRel
<1>2. IsWellFoundedOn(OpToRel(<, Nat), Nat)
  BY NatLessThanWellFounded
<1>3. PICK x \in M : \A y \in M : ~(<<y, x>> \in OpToRel(<, Nat))
  BY <1>2, WFMin
<1>4. ASSUME NEW k \in M PROVE x <= k
  <2>1. ~(<<k, x>> \in OpToRel(<, Nat))
    BY <1>3
  <2>2. ~(k < x)
    BY <2>1, <1>1
  <2>. QED
    BY <2>2
<1>. QED
  BY <1>4

\* Induction over the naturals, for a set G of them.
LEMMA SetInduction ==
  ASSUME NEW G \in SUBSET Nat, 0 \in G, \A n \in G : n + 1 \in G
  PROVE  G = Nat
<1> SUFFICES ASSUME Nat \ G # {} PROVE FALSE
  OBVIOUS
<1>1. PICK m \in Nat \ G : \A k \in Nat \ G : m <= k
  BY NatLeast
<1>2. m # 0 /\ m - 1 \in Nat
  BY <1>1
<1>3. m - 1 \in G
  BY <1>1, <1>2
<1>. QED
  BY <1>1, <1>3


\* The recursion that defines the filtered prefixes, for a function G.
FilterRec(G, s, Test(_), i) ==
  IF i = 0 THEN <<>> ELSE IF Test(s[i]) THEN Append(G[i - 1], s[i]) ELSE G[i - 1]

\* FilterPrefixes is the function its recursive definition describes: one
\* exists, built prefix by prefix.
LEMMA FilterPrefixesDef ==
  ASSUME NEW S, NEW s \in Seq(S), NEW Test(_)
  PROVE  FilterPrefixes(s, Test) = [i \in 0 .. Len(s) |-> FilterRec(FilterPrefixes(s, Test), s, Test, i)]
<1> DEFINE Ex(m) == \E G \in [0 .. m -> Seq(S)] : \A i \in 0 .. m : G[i] = FilterRec(G, s, Test, i)
           Good == {m \in Nat : m <= Len(s) => Ex(m)}
<1>1. 0 \in Good
  <2>1. [i \in {0} |-> <<>>] \in [0 .. 0 -> Seq(S)]
    OBVIOUS
  <2>. QED
    BY <2>1 DEF FilterRec, Ex, Good
<1>2. ASSUME NEW n \in Good PROVE n + 1 \in Good
  <2> SUFFICES ASSUME n + 1 <= Len(s) PROVE Ex(n + 1)
    <3>1. n + 1 \in Nat
      BY DEF Good
    <3>. QED
      BY <3>1, Zenon DEF Good
  <2>1. PICK G \in [0 .. n -> Seq(S)] : \A i \in 0 .. n : G[i] = FilterRec(G, s, Test, i)
    BY <1>2 DEF Good, Ex
  <2> DEFINE H == [i \in 0 .. n + 1 |-> IF i <= n THEN G[i] ELSE FilterRec(G, s, Test, n + 1)]
  <2>2. FilterRec(G, s, Test, n + 1) \in Seq(S)
    BY <2>1 DEF FilterRec
  <2>3. H \in [0 .. n + 1 -> Seq(S)]
    BY <2>1, <2>2
  <2>4. ASSUME NEW i \in 0 .. n + 1 PROVE H[i] = FilterRec(H, s, Test, i)
    <3>1. CASE i = 0
      BY <3>1, <2>1 DEF FilterRec
    <3>2. CASE i \in 1 .. n
      <4>1. H[i - 1] = G[i - 1] /\ H[i] = G[i]
        BY <3>2
      <4>2. FilterRec(H, s, Test, i) = FilterRec(G, s, Test, i)
        BY <3>2, <4>1 DEF FilterRec
      <4>3. G[i] = FilterRec(G, s, Test, i)
        BY <3>2, <2>1
      <4>. QED
        BY <4>1, <4>2, <4>3
    <3>3. CASE i = n + 1
      <4>1. H[n] = G[n] /\ H[n + 1] = FilterRec(G, s, Test, n + 1)
        OBVIOUS
      <4>. QED
        BY <3>3, <4>1 DEF FilterRec
    <3>. QED
      BY <3>1, <3>2, <3>3
  <2>. QED
    BY <2>3, <2>4 DEF Ex
<1>3. Good = Nat
  BY <1>1, <1>2, SetInduction
<1>4. Ex(Len(s))
  <2>0. Len(s) \in Nat
    OBVIOUS
  <2>1. Len(s) \in Good
    BY <2>0, <1>3, Zenon
  <2>2. Len(s) <= Len(s)
    BY <2>0
  <2>. QED
    BY <2>1, <2>2, Zenon DEF Good
<1>5. PICK G \in [0 .. Len(s) -> Seq(S)] : \A i \in 0 .. Len(s) : G[i] = FilterRec(G, s, Test, i)
  BY <1>4, Zenon DEF Ex
<1>6. G = [i \in 0 .. Len(s) |-> FilterRec(G, s, Test, i)]
  BY <1>5
<1>. QED
  BY <1>6 DEF FilterPrefixes, FilterRec


(***************************************************************************)
(* f is the selection from s[1..n] of the elements that pass Test: an      *)
(* increasing idx maps the positions of f onto exactly the positions of    *)
(* s[1..n] whose element passes Test, and f holds those elements.          *)
(***************************************************************************)
Selection(f, s, n, Test(_)) ==
  \E idx \in [1 .. Len(f) -> 1 .. n] :
    /\ \A k1, k2 \in 1 .. Len(f) : k1 < k2 => idx[k1] < idx[k2]
    /\ \A k \in 1 .. Len(f) : f[k] = s[idx[k]]
    /\ \A j \in 1 .. n : Test(s[j]) <=> \E k \in 1 .. Len(f) : idx[k] = j

\* Each filtered prefix is the selection from its prefix of s.
LEMMA FilterPrefixSelection ==
  ASSUME NEW S, NEW s \in Seq(S), NEW Test(_)
  PROVE  \A i \in 0 .. Len(s) : /\ FilterPrefixes(s, Test)[i] \in Seq(S)
                                /\ Selection(FilterPrefixes(s, Test)[i], s, i, Test)
<1> DEFINE F == FilterPrefixes(s, Test)
           Good == {i \in Nat : i <= Len(s) => F[i] \in Seq(S) /\ Selection(F[i], s, i, Test)}
<1>0. F = [i \in 0 .. Len(s) |-> FilterRec(F, s, Test, i)]
  BY FilterPrefixesDef
<1>1. 0 \in Good
  <2>1. F[0] = <<>>
    BY <1>0 DEF FilterRec
  <2>2. Selection(<<>>, s, 0, Test)
    <3>1. [k \in 1 .. 0 |-> 0] \in [1 .. Len(<<>>) -> 1 .. 0]
      OBVIOUS
    <3>2. 1 .. Len(<<>>) = {} /\ 1 .. 0 = {}
      OBVIOUS
    <3>. QED
      BY <3>1, <3>2, Zenon DEF Selection
  <2>3. <<>> \in Seq(S) /\ 0 \in Nat
    OBVIOUS
  <2>. QED
    BY <2>1, <2>2, <2>3, Zenon DEF Good
<1>2. ASSUME NEW n \in Good PROVE n + 1 \in Good
  <2> SUFFICES ASSUME n + 1 <= Len(s)
               PROVE  F[n + 1] \in Seq(S) /\ Selection(F[n + 1], s, n + 1, Test)
    <3>1. n + 1 \in Nat
      BY DEF Good
    <3>. QED
      BY <3>1, Zenon DEF Good
  <2>0. n \in Nat /\ n <= Len(s)
    BY DEF Good
  <2>1. F[n] \in Seq(S) /\ Selection(F[n], s, n, Test)
    BY <2>0, Zenon DEF Good
  <2> DEFINE L == Len(F[n])
  <2>2. PICK idx \in [1 .. L -> 1 .. n] :
             /\ \A k1, k2 \in 1 .. L : k1 < k2 => idx[k1] < idx[k2]
             /\ \A k \in 1 .. L : F[n][k] = s[idx[k]]
             /\ \A j \in 1 .. n : Test(s[j]) <=> \E k \in 1 .. L : idx[k] = j
    BY <2>1 DEF Selection
  <2>a. L \in Nat
    BY <2>1
  <2>b. \A k1, k2 \in 1 .. L : k1 < k2 => idx[k1] < idx[k2]
    BY <2>2
  <2>c. \A k \in 1 .. L : F[n][k] = s[idx[k]]
    BY <2>2
  <2>d. \A j \in 1 .. n : Test(s[j]) <=> \E k \in 1 .. L : idx[k] = j
    BY <2>2
  <2>e. idx \in [1 .. L -> 1 .. n]
    BY <2>2
  <2>3. F[n + 1] = IF Test(s[n + 1]) THEN Append(F[n], s[n + 1]) ELSE F[n]
    BY <1>0, <2>0 DEF FilterRec
  <2>4. CASE Test(s[n + 1])
    <3> DEFINE idx2 == [k \in 1 .. L + 1 |-> IF k <= L THEN idx[k] ELSE n + 1]
    <3>1. F[n + 1] = Append(F[n], s[n + 1])
      BY <2>3, <2>4
    <3>2. /\ F[n + 1] \in Seq(S)
          /\ Len(F[n + 1]) = L + 1
          /\ \A k \in 1 .. L : F[n + 1][k] = F[n][k]
          /\ F[n + 1][L + 1] = s[n + 1]
      BY <3>1, <2>1, <2>0
    <3>3. idx2 \in [1 .. Len(F[n + 1]) -> 1 .. n + 1]
      BY <3>2, <2>2, <2>a
    <3>4. \A k1, k2 \in 1 .. Len(F[n + 1]) : k1 < k2 => idx2[k1] < idx2[k2]
      <4> SUFFICES ASSUME NEW k1 \in 1 .. Len(F[n + 1]), NEW k2 \in 1 .. Len(F[n + 1]), k1 < k2
                   PROVE  idx2[k1] < idx2[k2]
        OBVIOUS
      <4>1. k1 \in 1 .. L /\ idx2[k1] = idx[k1]
        BY <3>2, <2>a
      <4>2. CASE k2 \in 1 .. L
        BY <4>1, <4>2, <2>b
      <4>3. CASE k2 = L + 1
        BY <4>1, <4>3, <2>2, <2>a
      <4>. QED
        BY <3>2, <2>a, <4>2, <4>3
    <3>5. \A k \in 1 .. Len(F[n + 1]) : F[n + 1][k] = s[idx2[k]]
      <4> SUFFICES ASSUME NEW k \in 1 .. Len(F[n + 1]) PROVE F[n + 1][k] = s[idx2[k]]
        OBVIOUS
      <4>1. CASE k \in 1 .. L
        <5>1. F[n + 1][k] = F[n][k] /\ idx2[k] = idx[k]
          BY <4>1, <3>2, <2>a
        <5>. QED
          BY <5>1, <4>1, <2>c
      <4>2. CASE k = L + 1
        <5>1. F[n + 1][k] = s[n + 1] /\ idx2[k] = n + 1
          BY <4>2, <3>2, <2>a
        <5>. QED
          BY <5>1
      <4>. QED
        BY <4>1, <4>2, <3>2, <2>a
    <3>6. \A j \in 1 .. n + 1 : Test(s[j]) <=> \E k \in 1 .. Len(F[n + 1]) : idx2[k] = j
      <4> SUFFICES ASSUME NEW j \in 1 .. n + 1
                   PROVE  Test(s[j]) <=> \E k \in 1 .. Len(F[n + 1]) : idx2[k] = j
        OBVIOUS
      <4>1. CASE j \in 1 .. n
        <5>1. (\E k \in 1 .. Len(F[n + 1]) : idx2[k] = j) <=> (\E k \in 1 .. L : idx[k] = j)
          <6>1. ASSUME NEW k \in 1 .. Len(F[n + 1]), idx2[k] = j PROVE k \in 1 .. L /\ idx[k] = j
            BY <6>1, <4>1, <3>2, <2>a
          <6>2. ASSUME NEW k \in 1 .. L, idx[k] = j PROVE k \in 1 .. Len(F[n + 1]) /\ idx2[k] = j
            BY <6>2, <3>2, <2>a
          <6>. QED
            BY <6>1, <6>2
        <5>2. Test(s[j]) <=> \E k \in 1 .. L : idx[k] = j
          BY <4>1, <2>d
        <5>. QED
          BY <5>1, <5>2, Zenon
      <4>2. CASE j = n + 1
        <5>1. idx2[L + 1] = n + 1 /\ L + 1 \in 1 .. Len(F[n + 1])
          BY <3>2, <2>a
        <5>. QED
          BY <5>1, <2>4, <4>2, Zenon
      <4>3. j \in 1 .. n \/ j = n + 1
        OBVIOUS
      <4>. QED
        BY <4>1, <4>2, <4>3
    <3>. QED
      BY <3>2, <3>3, <3>4, <3>5, <3>6, Zenon DEF Selection
  <2>5. CASE ~Test(s[n + 1])
    <3>1. F[n + 1] = F[n]
      BY <2>3, <2>5
    <3>2. idx \in [1 .. Len(F[n + 1]) -> 1 .. n + 1]
      BY <3>1, <2>2, <2>0
    <3>3. \A k1, k2 \in 1 .. Len(F[n + 1]) : k1 < k2 => idx[k1] < idx[k2]
      BY <3>1, <2>b
    <3>4. \A k \in 1 .. Len(F[n + 1]) : F[n + 1][k] = s[idx[k]]
      BY <3>1, <2>c
    <3>5. \A j \in 1 .. n + 1 : Test(s[j]) <=> \E k \in 1 .. Len(F[n + 1]) : idx[k] = j
      <4> SUFFICES ASSUME NEW j \in 1 .. n + 1
                   PROVE  Test(s[j]) <=> \E k \in 1 .. Len(F[n + 1]) : idx[k] = j
        OBVIOUS
      <4>1. CASE j \in 1 .. n
        BY <4>1, <3>1, <2>d, Zenon
      <4>2. CASE j = n + 1
        <5>1. \A k \in 1 .. Len(F[n + 1]) : idx[k] # j
          BY <4>2, <3>1, <2>2, <2>0
        <5>. QED
          BY <5>1, <4>2, <2>5, Zenon
      <4>3. j \in 1 .. n \/ j = n + 1
        OBVIOUS
      <4>. QED
        BY <4>1, <4>2, <4>3
    <3>6. F[n + 1] \in Seq(S)
      BY <3>1, <2>1
    <3>. QED
      BY <3>2, <3>3, <3>4, <3>5, <3>6, Zenon DEF Selection
  <2>. QED
    BY <2>4, <2>5
<1>3. Good = Nat
  BY <1>1, <1>2, SetInduction
<1>. QED
  <2> SUFFICES ASSUME NEW i \in 0 .. Len(s)
               PROVE  F[i] \in Seq(S) /\ Selection(F[i], s, i, Test)
    OBVIOUS
  <2>1. i \in Good /\ i <= Len(s)
    BY <1>3
  <2>. QED
    BY <2>1, Zenon DEF Good

\* FilterSeq(s, Test) is the selection from s of the elements that pass Test.
THEOREM FilterSeqSelection ==
  ASSUME NEW S, NEW s \in Seq(S), NEW Test(_)
  PROVE  /\ FilterSeq(s, Test) \in Seq(S)
         /\ Selection(FilterSeq(s, Test), s, Len(s), Test)
<1>1. Len(s) \in 0 .. Len(s)
  OBVIOUS
<1>. QED
  BY <1>1, FilterPrefixSelection DEF FilterSeq

=============================================================================
