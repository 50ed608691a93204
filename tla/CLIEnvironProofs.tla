--------------------------- MODULE CLIEnvironProofs ---------------------------
(***************************************************************************)
(* The two views environWithoutCI gives the renderer agree, for every set *)
(* of names and values and every sequence of os.Setenv and os.Unsetenv.    *)
(*                                                                         *)
(* The argument rests on the shape of an os.Environ line, "key=value":     *)
(* since a name holds no "=", the line starts with "k=" exactly when its   *)
(* name is k, and the value is what follows the first "=".  With names     *)
(* unique in the environment (EnvInv), the first Environ line starting    *)
(* with "k=" is the one line of k, and Environ keeps it unless k is CI.   *)
(***************************************************************************)
EXTENDS CLIEnviron, SeqFilterProofs, SequenceTheorems, TLAPS

\* The characters of names, values and lines: the provers do not know a
\* literal to be in STRING, so the ones the code writes ("=", and "C" and
\* "I" of "CI") are added.
Chr == STRING \cup {"=", "C", "I"}

\* A name holds no "=".
NoEq(k) == \A i \in 1 .. Len(k) : k[i] # "="

\* The os.Environ line of the variable k with value v.
Line(k, v) == k \o Eq \o v

LEMMA EqFacts == Eq \in Seq(Chr) /\ Len(Eq) = 1 /\ Eq[1] = "="
BY DEF Eq, Chr

\* ConcatProperties for strings.
LEMMA ChrConcat ==
  ASSUME NEW s1 \in Seq(Chr), NEW s2 \in Seq(Chr)
  PROVE  /\ s1 \o s2 \in Seq(Chr)
         /\ Len(s1 \o s2) = Len(s1) + Len(s2)
         /\ \A i \in 1 .. Len(s1) + Len(s2) :
              (s1 \o s2)[i] = IF i <= Len(s1) THEN s1[i] ELSE s2[i - Len(s1)]
BY ConcatProperties

\* "k=" is k, then "=".
LEMMA KeyEq ==
  ASSUME NEW k \in Seq(Chr)
  PROVE  /\ k \o Eq \in Seq(Chr)
         /\ Len(k \o Eq) = Len(k) + 1
         /\ \A i \in 1 .. Len(k) : (k \o Eq)[i] = k[i]
         /\ (k \o Eq)[Len(k) + 1] = "="
<1>1. /\ k \o Eq \in Seq(Chr)
      /\ Len(k \o Eq) = Len(k) + Len(Eq)
      /\ \A i \in 1 .. Len(k) + Len(Eq) :
           (k \o Eq)[i] = IF i <= Len(k) THEN k[i] ELSE Eq[i - Len(k)]
  BY EqFacts, ConcatProperties
<1>2. Len(k) + 1 \in 1 .. Len(k) + Len(Eq) /\ ~(Len(k) + 1 <= Len(k))
  BY EqFacts
<1>3. (k \o Eq)[Len(k) + 1] = Eq[1]
  BY <1>1, <1>2
<1>. QED
  BY <1>1, <1>3, EqFacts

\* "k=v" is k, then "=", then v.
LEMMA LineFacts ==
  ASSUME NEW k \in Seq(Chr), NEW v \in Seq(Chr)
  PROVE  /\ Line(k, v) \in Seq(Chr)
         /\ Len(Line(k, v)) = Len(k) + 1 + Len(v)
         /\ \A i \in 1 .. Len(k) : Line(k, v)[i] = k[i]
         /\ Line(k, v)[Len(k) + 1] = "="
         /\ \A i \in 1 .. Len(v) : Line(k, v)[Len(k) + 1 + i] = v[i]
<1>1. /\ k \o Eq \in Seq(Chr)
      /\ Len(k \o Eq) = Len(k) + 1
      /\ \A i \in 1 .. Len(k) : (k \o Eq)[i] = k[i]
      /\ (k \o Eq)[Len(k) + 1] = "="
  BY KeyEq
<1>2. /\ (k \o Eq) \o v \in Seq(Chr)
      /\ Len((k \o Eq) \o v) = Len(k \o Eq) + Len(v)
      /\ \A i \in 1 .. Len(k \o Eq) + Len(v) :
           ((k \o Eq) \o v)[i] = IF i <= Len(k \o Eq) THEN (k \o Eq)[i] ELSE v[i - Len(k \o Eq)]
  <2>1. k \o Eq \in Seq(Chr)
    BY <1>1
  <2>. QED
    BY <2>1, ChrConcat
<1>3. Line(k, v) = (k \o Eq) \o v
  BY DEF Line
<1>4. \A i \in 1 .. Len(k) : ((k \o Eq) \o v)[i] = k[i]
  BY <1>1, <1>2
<1>5. ((k \o Eq) \o v)[Len(k) + 1] = "="
  BY <1>1, <1>2
<1>6. \A i \in 1 .. Len(v) : ((k \o Eq) \o v)[Len(k) + 1 + i] = v[i]
  <2> TAKE i \in 1 .. Len(v)
  <2>1. Len(k) + 1 + i \in 1 .. Len(k \o Eq) + Len(v) /\ ~(Len(k) + 1 + i <= Len(k \o Eq))
    BY <1>1
  <2>2. Len(k) + 1 + i - Len(k \o Eq) = i
    BY <1>1
  <2>. QED
    BY <1>2, <2>1, <2>2
<1>. QED
  BY <1>1, <1>2, <1>3, <1>4, <1>5, <1>6

\* For names without "=", the line of k starts with "p=" exactly when p = k.
LEMMA LinePrefix ==
  ASSUME NEW p \in Seq(Chr), NEW k \in Seq(Chr), NEW v \in Seq(Chr),
         NoEq(p), NoEq(k)
  PROVE  IsPrefix(p \o Eq, Line(k, v)) <=> p = k
<1> DEFINE P == p \o Eq
           l == Line(k, v)
<1>1. /\ P \in Seq(Chr)
      /\ Len(P) = Len(p) + 1
      /\ \A i \in 1 .. Len(p) : P[i] = p[i]
      /\ P[Len(p) + 1] = "="
  BY KeyEq
<1>2. /\ l \in Seq(Chr)
      /\ Len(l) = Len(k) + 1 + Len(v)
      /\ \A i \in 1 .. Len(k) : l[i] = k[i]
      /\ l[Len(k) + 1] = "="
  BY LineFacts
<1>3. SubSeq(P, 1, Len(P)) = P
  BY <1>1, SubSeqFull
<1>4. ASSUME Len(P) <= Len(l)
      PROVE  /\ SubSeq(l, 1, Len(P)) \in Seq(Chr)
             /\ Len(SubSeq(l, 1, Len(P))) = Len(P)
             /\ \A i \in 1 .. Len(P) : SubSeq(l, 1, Len(P))[i] = l[i]
  <2>1. \A i \in 1 .. Len(P) : l[i] \in Chr
    BY <1>2, <1>4
  <2>. QED
    BY <2>1, <1>1, SubSeqProperties
<1>5. ASSUME IsPrefix(P, l) PROVE p = k
  <2>1. Len(P) <= Len(l) /\ P = SubSeq(l, 1, Len(P))
    BY <1>5, <1>3 DEF IsPrefix
  <2>2. \A i \in 1 .. Len(P) : P[i] = l[i]
    BY <2>1, <1>4
  <2>3. ~(Len(p) < Len(k))
    <3> SUFFICES ASSUME Len(p) < Len(k) PROVE FALSE
      OBVIOUS
    <3>1. Len(p) + 1 \in 1 .. Len(P) /\ Len(p) + 1 \in 1 .. Len(k)
      BY <1>1
    <3>2. P[Len(p) + 1] = "=" /\ l[Len(p) + 1] = k[Len(p) + 1]
      BY <3>1, <1>1, <1>2
    <3>3. k[Len(p) + 1] # "="
      BY <3>1 DEF NoEq
    <3>. QED
      BY <3>1, <3>2, <3>3, <2>2
  <2>4. ~(Len(k) < Len(p))
    <3> SUFFICES ASSUME Len(k) < Len(p) PROVE FALSE
      OBVIOUS
    <3>1. Len(k) + 1 \in 1 .. Len(P) /\ Len(k) + 1 \in 1 .. Len(p)
      BY <1>1
    <3>2. P[Len(k) + 1] = p[Len(k) + 1] /\ l[Len(k) + 1] = "="
      BY <3>1, <1>1, <1>2
    <3>3. p[Len(k) + 1] # "="
      BY <3>1 DEF NoEq
    <3>. QED
      BY <3>1, <3>2, <3>3, <2>2
  <2>5. Len(p) = Len(k)
    BY <2>3, <2>4
  <2>. QED
    BY <2>2, <2>5, <1>1, <1>2, SeqEqual
<1>6. ASSUME p = k PROVE IsPrefix(P, l)
  <2>1. Len(P) <= Len(l)
    BY <1>6, <1>1, <1>2
  <2>2. SubSeq(l, 1, Len(P)) = P
    BY <1>6, <2>1, <1>4, <1>1, <1>2, SeqEqual
  <2>. QED
    BY <2>1, <2>2, <1>3 DEF IsPrefix
<1>. QED
  BY <1>5, <1>6

\* The text after "k=" in the line of k is its value.
LEMMA LineValue ==
  ASSUME NEW k \in Seq(Chr), NEW v \in Seq(Chr)
  PROVE  SubSeq(Line(k, v), Len(k) + 2, Len(Line(k, v))) = v
<1> DEFINE l == Line(k, v)
           m == Len(k) + 2
           n == Len(l)
<1>1. /\ l \in Seq(Chr)
      /\ n = Len(k) + 1 + Len(v)
      /\ \A i \in 1 .. Len(v) : l[Len(k) + 1 + i] = v[i]
  BY LineFacts
<1>2. \A i \in m .. n : l[i] \in Chr
  BY <1>1
<1>3. /\ SubSeq(l, m, n) \in Seq(Chr)
      /\ Len(SubSeq(l, m, n)) = IF m <= n THEN n - m + 1 ELSE 0
      /\ \A i \in 1 .. n - m + 1 : SubSeq(l, m, n)[i] = l[m + i - 1]
  BY <1>2, SubSeqProperties
<1>4. Len(SubSeq(l, m, n)) = Len(v) /\ n - m + 1 = Len(v)
  BY <1>1, <1>3
<1>5. \A i \in 1 .. Len(v) : SubSeq(l, m, n)[i] = v[i]
  BY <1>1, <1>3, <1>4
<1>. QED
  BY <1>3, <1>4, <1>5, SeqEqual

-----------------------------------------------------------------------------
\* A variable of the environment.
Entry == [key : Keys, val : Values]

(***************************************************************************)
(* The inductive invariant: the environment is a list of variables and no *)
(* name occurs twice (os.Setenv replaces a value in place, and appends    *)
(* only a name that is not set).                                           *)
(***************************************************************************)
UniqueKeys == \A i, j \in 1 .. Len(env) : env[i].key = env[j].key => i = j

EnvInv == env \in Seq(Entry) /\ UniqueKeys

\* An increasing map of positions never sends two positions to one.
LEMMA IncreasingInjective ==
  ASSUME NEW L \in Nat, NEW n \in Nat, NEW idx \in [1 .. L -> 1 .. n],
         \A k1, k2 \in 1 .. L : k1 < k2 => idx[k1] < idx[k2]
  PROVE  \A a, b \in 1 .. L : idx[a] = idx[b] => a = b
OBVIOUS

THEOREM InitEnvInv == Init => EnvInv
BY DEF Init, EnvInv, UniqueKeys

\* os.Setenv keeps every name unique.
LEMMA SetenvInv ==
  ASSUME EnvInv, NEW k \in Keys, NEW v \in Values, Setenv(k, v)
  PROVE  EnvInv'
<1>1. CASE \E i \in 1 .. Len(env) : env[i].key = k
  <2>1. env' = [i \in 1 .. Len(env) |-> IF env[i].key = k THEN [key |-> k, val |-> v] ELSE env[i]]
    BY <1>1 DEF Setenv
  <2>2. env' \in Seq(Entry) /\ Len(env') = Len(env)
    <3>1. \A i \in 1 .. Len(env) : env[i] \in Entry
      BY DEF EnvInv
    <3>2. [key |-> k, val |-> v] \in Entry
      BY DEF Entry
    <3>3. env' \in [1 .. Len(env) -> Entry]
      BY <2>1, <3>1, <3>2
    <3>. QED
      BY <3>3, Len(env) \in Nat
  <2>3. \A i \in 1 .. Len(env) : env'[i].key = env[i].key
    BY <2>1 DEF EnvInv, Entry
  <2>. QED
    BY <2>2, <2>3 DEF EnvInv, UniqueKeys
<1>2. CASE ~\E i \in 1 .. Len(env) : env[i].key = k
  <2> DEFINE e == [key |-> k, val |-> v]
  <2>1. env' = Append(env, e)
    BY <1>2 DEF Setenv
  <2>2. e \in Entry /\ env \in Seq(Entry)
    BY DEF Entry, EnvInv
  <2>3. /\ env' \in Seq(Entry)
        /\ Len(env') = Len(env) + 1
        /\ \A i \in 1 .. Len(env) : env'[i] = env[i]
        /\ env'[Len(env) + 1] = e
    BY <2>1, <2>2, AppendProperties
  <2>. QED
    BY <1>2, <2>2, <2>3 DEF EnvInv, UniqueKeys
<1>. QED
  BY <1>1, <1>2

\* os.Unsetenv removes the variable and keeps the others in order.
LEMMA UnsetenvInv ==
  ASSUME EnvInv, NEW k \in Keys, Unsetenv(k)
  PROVE  EnvInv'
<1> DEFINE T(e) == e.key # k
<1>1. env \in Seq(Entry)
  BY DEF EnvInv
<1>2. env' = FilterSeq(env, T)
  BY DEF Unsetenv
<1>3. env' \in Seq(Entry) /\ Selection(env', env, Len(env), T)
  BY <1>1, <1>2, FilterSeqSelection
<1>4. PICK idx \in [1 .. Len(env') -> 1 .. Len(env)] :
        /\ \A k1, k2 \in 1 .. Len(env') : k1 < k2 => idx[k1] < idx[k2]
        /\ \A a \in 1 .. Len(env') : env'[a] = env[idx[a]]
  BY <1>3 DEF Selection
<1>5. \A a, b \in 1 .. Len(env') : idx[a] = idx[b] => a = b
  BY <1>4, IncreasingInjective
<1>6. \A a, b \in 1 .. Len(env') : env'[a].key = env'[b].key => idx[a] = idx[b]
  BY <1>4 DEF EnvInv, UniqueKeys
<1>. QED
  BY <1>3, <1>5, <1>6 DEF EnvInv, UniqueKeys

THEOREM NextEnvInv == EnvInv /\ [Next]_env => EnvInv'
<1> SUFFICES ASSUME EnvInv, [Next]_env PROVE EnvInv'
  OBVIOUS
<1>1. CASE \E k \in Keys, v \in Values : Setenv(k, v)
  BY <1>1, SetenvInv
<1>2. CASE \E k \in Keys : Unsetenv(k)
  BY <1>2, UnsetenvInv
<1>3. CASE UNCHANGED env
  BY <1>3 DEF EnvInv, UniqueKeys
<1>. QED
  BY <1>1, <1>2, <1>3 DEF Next

\* Names and values are strings, and names hold no "=" (CI included).
LEMMA KeysChr ==
  /\ \A k \in Keys : k \in Seq(Chr) /\ NoEq(k)
  /\ \A v \in Values : v \in Seq(Chr)
  /\ CIKey \in Seq(Chr) /\ NoEq(CIKey)
<1>1. STRING \subseteq Chr
  BY DEF Chr
<1>2. \A k \in Keys : k \in Seq(Chr)
  BY <1>1, KeysAssumption, SeqMonotonic
<1>3. \A k \in Keys : NoEq(k)
  BY KeysAssumption DEF NoEq
<1>4. \A v \in Values : v \in Seq(Chr)
  BY <1>1, ValuesAssumption, SeqMonotonic
<1>5. CIKey \in Seq(Chr) /\ NoEq(CIKey)
  BY DEF CIKey, Chr, NoEq
<1>. QED
  BY <1>2, <1>3, <1>4, <1>5

\* os.Environ lists the line of every variable, in order.
LEMMA OsEnvironLines ==
  ASSUME EnvInv
  PROVE  /\ OsEnviron \in Seq(Seq(Chr))
         /\ Len(OsEnviron) = Len(env)
         /\ \A i \in 1 .. Len(env) : OsEnviron[i] = Line(env[i].key, env[i].val)
<1>0. \A i \in 1 .. Len(env) : env[i].key \in Keys /\ env[i].val \in Values
  <2>1. \A i \in 1 .. Len(env) : env[i] \in Entry
    BY DEF EnvInv
  <2>. QED
    BY <2>1 DEF Entry
<1>1. \A i \in 1 .. Len(env) : env[i].key \in Seq(Chr) /\ env[i].val \in Seq(Chr)
  BY <1>0, KeysChr, Zenon
<1>2. \A i \in 1 .. Len(env) : OsEnviron[i] = Line(env[i].key, env[i].val)
  BY DEF OsEnviron, Line
<1>3. \A i \in 1 .. Len(env) : Line(env[i].key, env[i].val) \in Seq(Chr)
  BY <1>1, LineFacts
<1>4. OsEnviron \in [1 .. Len(env) -> Seq(Chr)]
  BY <1>2, <1>3 DEF OsEnviron
<1>. QED
  BY <1>2, <1>4, Len(env) \in Nat DEF EnvInv

(***************************************************************************)
(* With names unique, the views agree: Environ drops exactly the line of  *)
(* CI, and the first Environ line starting with "k=" is the one line of k, *)
(* whose text after "k=" is the value os.Getenv returns.                  *)
(***************************************************************************)
LEMMA EnvInvViewsAgree ==
  ASSUME EnvInv
  PROVE  ViewsAgree
<1> DEFINE O == OsEnviron
           T(s) == ~IsPrefix(CIKey \o Eq, s)
           E == Environ
           n == Len(env)
<1>1. /\ O \in Seq(Seq(Chr))
      /\ Len(O) = n
      /\ \A i \in 1 .. n : O[i] = Line(env[i].key, env[i].val)
  BY OsEnvironLines
<1>2. E = FilterSeq(O, T)
  BY DEF Environ
<1>3. E \in Seq(Seq(Chr)) /\ Selection(E, O, Len(O), T)
  BY <1>1, <1>2, FilterSeqSelection
<1>4. PICK idx \in [1 .. Len(E) -> 1 .. n] :
        /\ \A k1, k2 \in 1 .. Len(E) : k1 < k2 => idx[k1] < idx[k2]
        /\ \A a \in 1 .. Len(E) : E[a] = O[idx[a]]
        /\ \A j \in 1 .. n : T(O[j]) <=> \E a \in 1 .. Len(E) : idx[a] = j
  BY <1>1, <1>3 DEF Selection
<1>a. \A a, b \in 1 .. Len(E) : idx[a] = idx[b] => a = b
  BY <1>4, IncreasingInjective
<1>b. \A a \in 1 .. Len(E) : E[a] = O[idx[a]]
  BY <1>4
<1>c. \A j \in 1 .. n : T(O[j]) <=> \E a \in 1 .. Len(E) : idx[a] = j
  BY <1>4
<1>d. \A i \in 1 .. n : /\ env[i].key \in Keys
                        /\ env[i].key \in Seq(Chr) /\ NoEq(env[i].key)
                        /\ env[i].val \in Seq(Chr)
  <2>1. \A i \in 1 .. n : env[i] \in Entry
    BY DEF EnvInv
  <2>2. \A i \in 1 .. n : env[i].key \in Keys /\ env[i].val \in Values
    BY <2>1 DEF Entry
  <2>. QED
    BY <2>2, KeysChr, Zenon
<1>5. \A a \in 1 .. Len(E) : ~IsPrefix(CIKey \o Eq, E[a])
  <2> TAKE a \in 1 .. Len(E)
  <2>1. idx[a] \in 1 .. n
    BY <1>4
  <2>2. T(O[idx[a]])
    BY <2>1, <1>c, Zenon
  <2>. QED
    BY <2>2, <1>b
<1>6. Getenv(CIKey) = <<>>
  BY DEF Getenv
<1>7. ASSUME NEW k \in Keys \ {CIKey}
      PROVE  LookupEntry(E, k) = Getenv(k)
  <2> DEFINE hits == {i \in 1 .. Len(E) : IsPrefix(k \o Eq, E[i])}
  <2>0. k \in Seq(Chr) /\ NoEq(k)
    BY KeysChr
  <2>1. \A a \in 1 .. Len(E) : IsPrefix(k \o Eq, E[a]) <=> env[idx[a]].key = k
    <3> TAKE a \in 1 .. Len(E)
    <3>1. idx[a] \in 1 .. n
      BY <1>4
    <3>2. E[a] = Line(env[idx[a]].key, env[idx[a]].val)
      BY <3>1, <1>1, <1>b
    <3>3. IsPrefix(k \o Eq, Line(env[idx[a]].key, env[idx[a]].val)) <=> k = env[idx[a]].key
      BY <3>1, <1>d, <2>0, LinePrefix
    <3>. QED
      BY <3>2, <3>3
  <2>2. Getenv(k) = OsGetenv(k)
    BY DEF Getenv
  <2>3. CASE \E p \in 1 .. n : env[p].key = k
    <3>1. PICK p \in 1 .. n : env[p].key = k
      BY <2>3
    <3>2. O[p] = Line(k, env[p].val)
      BY <3>1, <1>1
    <3>3. T(O[p])
      <4>1. IsPrefix(CIKey \o Eq, Line(k, env[p].val)) <=> CIKey = k
        BY <3>1, <1>d, <2>0, KeysChr, LinePrefix
      <4>. QED
        BY <4>1, <3>2
    <3>4. PICK q \in 1 .. Len(E) : idx[q] = p
      BY <3>1, <3>3, <1>c, Zenon
    <3>5. hits = {q}
      <4>1. q \in hits
        BY <3>1, <3>4, <2>1
      <4>2. \A i \in hits : i = q
        <5> TAKE i \in hits
        <5>1. i \in 1 .. Len(E) /\ env[idx[i]].key = k
          BY <2>1
        <5>2. idx[i] \in 1 .. n
          BY <5>1, <1>4
        <5>3. idx[i] = p
          BY <5>1, <5>2, <3>1 DEF EnvInv, UniqueKeys
        <5>. QED
          BY <5>1, <5>3, <3>4, <1>a
      <4>. QED
        BY <4>1, <4>2
    <3>6. LookupEntry(E, k) = SubSeq(E[q], Len(k) + 2, Len(E[q]))
      BY <3>5 DEF LookupEntry
    <3>7. E[q] = Line(k, env[p].val)
      BY <3>2, <3>4, <1>b
    <3>8. SubSeq(Line(k, env[p].val), Len(k) + 2, Len(Line(k, env[p].val))) = env[p].val
      BY <3>1, <1>d, <2>0, LineValue
    <3>9. OsGetenv(k) = env[p].val
      <4>1. \A i \in 1 .. n : env[i].key = k => i = p
        BY <3>1 DEF EnvInv, UniqueKeys
      <4>. QED
        BY <3>1, <4>1 DEF OsGetenv
    <3>. QED
      BY <2>2, <3>6, <3>7, <3>8, <3>9
  <2>4. CASE ~\E p \in 1 .. n : env[p].key = k
    <3>1. hits = {}
      <4>1. \A a \in 1 .. Len(E) : idx[a] \in 1 .. n
        BY <1>4
      <4>. QED
        BY <2>4, <2>1, <4>1
    <3>2. LookupEntry(E, k) = <<>>
      BY <3>1 DEF LookupEntry
    <3>3. OsGetenv(k) = <<>>
      BY <2>4 DEF OsGetenv
    <3>. QED
      BY <2>2, <3>2, <3>3
  <2>. QED
    BY <2>3, <2>4
<1>. QED
  BY <1>5, <1>6, <1>7 DEF ViewsAgree

(***************************************************************************)
(* For every set of names and values and every sequence of os.Setenv and *)
(* os.Unsetenv, the view environWithoutCI gives the renderer is coherent: *)
(* Environ lists no CI line, Getenv hides CI, and every other name        *)
(* (CIRCLECI-like ones included) has in Environ exactly the value Getenv  *)
(* returns.                                                               *)
(***************************************************************************)
THEOREM ViewsAgreeInvariant == Spec => []ViewsAgree
<1>1. EnvInv => ViewsAgree
  BY EnvInvViewsAgree
<1>. QED
  BY <1>1, InitEnvInv, NextEnvInv, PTL DEF Spec

=============================================================================
