---------------------------- MODULE ReaderProofs ----------------------------
(***************************************************************************)
(* Proofs about Reader and the read_buffer below it, for any options,      *)
(* letters, numbers of threads and streams of any length.                  *)
(***************************************************************************)
EXTENDS Reader, SequenceTheorems, FiniteSetTheorems, WellFoundedInduction, TLAPS

(* A set of numbers that is not empty has a least one. *)
LEMMA Least ==
  ASSUME NEW T \in SUBSET Nat, T # {}
  PROVE  \E m \in T : \A k \in T : m <= k
<1> DEFINE R == OpToRel(<, Nat)
<1>1. IsWellFoundedOn(R, Nat)
  BY NatLessThanWellFounded
<1>2. \A x, y \in Nat : x < y => <<x, y>> \in R
  BY DEF OpToRel
<1> HIDE DEF R
<1>3. PICK m \in T : \A y \in T : ~ (<<y, m>> \in R)
  BY <1>1, WFMin
<1>4. \A y \in T : ~(y < m)
  BY <1>2, <1>3
<1>5. \A y \in T : m <= y
  BY <1>4
<1>6. QED
  BY <1>5

(* Induction up to n, over the set of the numbers for which a thing holds. *)
LEMMA UpTo ==
  ASSUME NEW n \in Nat, NEW T, 0 \in T, \A i \in 0 .. n - 1 : i \in T => i + 1 \in T
  PROVE  \A i \in 0 .. n : i \in T
<1> DEFINE U == {i \in 0 .. n : i \notin T}
<1> SUFFICES ASSUME U # {}
             PROVE  FALSE
  OBVIOUS
<1>1. U \in SUBSET Nat
  OBVIOUS
<1> HIDE DEF U
<1>2. PICK m \in U : \A k \in U : m <= k
  BY <1>1, Least
<1>3. m \in 1 .. n /\ m \notin T
  BY <1>2 DEF U
<1>4. m - 1 \in 0 .. n - 1 /\ m - 1 \notin U
  BY <1>2, <1>3
<1>5. m - 1 \in T
  BY <1>4 DEF U
<1>6. QED
  BY <1>3, <1>4, <1>5

(* One round of the fold in FlattenSeq. *)
Joined(s, g, i) == IF i = 1 THEN s[i] ELSE g[i - 1] \o s[i]

(* The fold in FlattenSeq exists. *)
LEMMA Flattening ==
  ASSUME NEW S, NEW s \in Seq(Seq(S))
  PROVE  \E g \in [1 .. Len(s) -> Seq(S)] : \A i \in 1 .. Len(s) : g[i] = Joined(s, g, i)
<1> DEFINE Q(n) == \E g \in [1 .. n -> Seq(S)] : \A i \in 1 .. n : g[i] = Joined(s, g, i)
           T == {n \in 0 .. Len(s) : Q(n)}
<1>0. Len(s) \in Nat /\ \A i \in 1 .. Len(s) : s[i] \in Seq(S)
  OBVIOUS
<1>1. 0 \in T
  <2>1. [i \in 1 .. 0 |-> <<>>] \in [1 .. 0 -> Seq(S)]
    OBVIOUS
  <2>2. \A i \in 1 .. 0 : FALSE
    OBVIOUS
  <2>3. Q(0)
    BY <2>1, <2>2
  <2> HIDE DEF Q
  <2>4. QED
    BY <1>0, <2>3
<1>2. ASSUME NEW n \in 0 .. Len(s) - 1, n \in T
      PROVE  n + 1 \in T
  <2>1. PICK g \in [1 .. n -> Seq(S)] : \A i \in 1 .. n : g[i] = Joined(s, g, i)
    BY <1>2
  <2> DEFINE new == IF n = 0 THEN s[1] ELSE g[n] \o s[n + 1]
             h == [i \in 1 .. n + 1 |-> IF i <= n THEN g[i] ELSE new]
  <2>2. new \in Seq(S)
    <3>1. n + 1 \in 1 .. Len(s) /\ (n # 0 => n \in 1 .. n)
      BY <1>0
    <3>2. s[n + 1] \in Seq(S) /\ (n # 0 => g[n] \in Seq(S))
      BY <1>0, <3>1
    <3>3. QED
      BY <3>2
  <2>3. ASSUME NEW i \in 1 .. n + 1
        PROVE  h[i] = Joined(s, h, i)
    <3>1. CASE i <= n
      <4>1. h[i] = g[i] /\ g[i] = Joined(s, g, i)
        BY <2>1, <3>1
      <4>2. i # 1 => h[i - 1] = g[i - 1]
        BY <3>1
      <4>3. QED
        BY <4>1, <4>2 DEF Joined
    <3>2. CASE i = n + 1
      <4>1. h[i] = new /\ (n # 0 => h[n] = g[n])
        BY <3>2
      <4>2. i - 1 = n /\ (i = 1 <=> n = 0)
        BY <3>2
      <4> HIDE DEF h
      <4>3. QED
        BY <3>2, <4>1, <4>2 DEF Joined
    <3>3. i <= n \/ i = n + 1
      BY <1>0
    <3> HIDE DEF h
    <3>4. QED
      BY <3>1, <3>2, <3>3
  <2>4. n + 1 \in 0 .. Len(s)
    BY <1>0
  <2>5. h \in [1 .. n + 1 -> Seq(S)]
    <3> HIDE DEF new
    <3>1. QED
      BY <2>2
  <2> HIDE DEF h
  <2>6. Q(n + 1)
    BY <2>3, <2>5
  <2> HIDE DEF Q
  <2>7. QED
    BY <2>4, <2>6
<1> HIDE DEF T
<1>3. \A n \in 0 .. Len(s) - 1 : n \in T => n + 1 \in T
  BY <1>2
<1>4. \A n \in 0 .. Len(s) : n \in T
  BY <1>0, <1>1, <1>3, UpTo
<1>5. Len(s) \in T
  BY <1>0, <1>4
<1>6. QED
  BY <1>5 DEF T

(* It is what FlattenSeq returns the end of. *)
LEMMA FlattenIs ==
  ASSUME NEW S, NEW s \in Seq(Seq(S)), Len(s) > 0,
         NEW g \in [1 .. Len(s) -> Seq(S)], \A i \in 1 .. Len(s) : g[i] = Joined(s, g, i)
  PROVE  FlattenSeq(s) = g[Len(s)]
<1> DEFINE P(f) == f = [i \in 1 .. Len(s) |-> IF i = 1 THEN s[i] ELSE f[i - 1] \o s[i]]
           c == CHOOSE f : P(f)
<1>0. Len(s) \in Nat
  OBVIOUS
<1>1. FlattenSeq(s) = c[Len(s)]
  BY DEF FlattenSeq
<1>2. P(g)
  BY DEF Joined
<1>3. P(c)
  BY <1>2
<1> HIDE DEF c
<1>4. \A i \in 1 .. Len(s) : c[i] = Joined(s, c, i)
  BY <1>3 DEF Joined
<1> DEFINE T == {i \in Nat : i = 0 \/ c[i] = g[i]}
<1>5. ASSUME NEW i \in 0 .. Len(s) - 1, i \in T
      PROVE  i + 1 \in T
  <2>1. i + 1 \in 1 .. Len(s) /\ i + 1 \in Nat
    BY <1>0
  <2>0. (i + 1) - 1 = i
    OBVIOUS
  <2>2. c[i + 1] = Joined(s, c, i + 1) /\ g[i + 1] = Joined(s, g, i + 1)
    BY <1>4, <2>1
  <2>3. CASE i = 0
    BY <2>1, <2>2, <2>3 DEF Joined
  <2>4. CASE i # 0
    <3>1. c[i] = g[i] /\ i + 1 # 1
      BY <1>5, <2>4
    <3>2. c[i + 1] = c[i] \o s[i + 1] /\ g[i + 1] = g[i] \o s[i + 1]
      BY <2>0, <2>2, <3>1 DEF Joined
    <3>3. QED
      BY <2>1, <3>1, <3>2
  <2>5. QED
    BY <2>3, <2>4
<1>6. 0 \in T
  OBVIOUS
<1> HIDE DEF T
<1>7. \A i \in 0 .. Len(s) - 1 : i \in T => i + 1 \in T
  BY <1>5
<1>8. \A i \in 0 .. Len(s) : i \in T
  BY <1>0, <1>6, <1>7, UpTo
<1>9. Len(s) \in T
  BY <1>0, <1>8
<1>10. QED
  BY <1>0, <1>1, <1>9 DEF T

LEMMA FlattenNil == FlattenSeq(<<>>) = <<>>
BY DEF FlattenSeq

LEMMA FlattenType ==
  ASSUME NEW S, NEW s \in Seq(Seq(S))
  PROVE  FlattenSeq(s) \in Seq(S)
<1>1. CASE Len(s) = 0
  <2>1. s = <<>>
    BY <1>1
  <2>2. FlattenSeq(s) = <<>>
    BY <2>1, FlattenNil, Zenon
  <2>3. QED
    BY <2>2
<1>2. CASE Len(s) > 0
  <2>1. PICK g \in [1 .. Len(s) -> Seq(S)] : \A i \in 1 .. Len(s) : g[i] = Joined(s, g, i)
    BY Flattening
  <2>2. FlattenSeq(s) = g[Len(s)]
    BY <1>2, <2>1, FlattenIs
  <2>3. Len(s) \in 1 .. Len(s)
    BY <1>2
  <2>4. QED
    BY <2>1, <2>2, <2>3
<1>3. QED
  BY <1>1, <1>2

LEMMA FlattenAppend ==
  ASSUME NEW S, NEW s \in Seq(Seq(S)), NEW x \in Seq(S)
  PROVE  FlattenSeq(Append(s, x)) = FlattenSeq(s) \o x
<1> DEFINE t == Append(s, x)
<1>1. t \in Seq(Seq(S)) /\ Len(t) = Len(s) + 1 /\ Len(s) \in Nat /\ t[Len(t)] = x
      /\ \A i \in 1 .. Len(s) : t[i] = s[i]
  BY AppendProperties
<1> HIDE DEF t
<1>2. PICK g \in [1 .. Len(t) -> Seq(S)] : \A i \in 1 .. Len(t) : g[i] = Joined(t, g, i)
  BY <1>1, Flattening
<1>3. FlattenSeq(t) = g[Len(t)]
  <2>1. Len(t) > 0 /\ t \in Seq(Seq(S))
    BY <1>1
  <2>2. QED
    BY <1>2, <2>1, FlattenIs
<1>4. g[Len(t)] = Joined(t, g, Len(t))
  BY <1>1, <1>2
<1>5. CASE Len(s) = 0
  <2>1. s = <<>> /\ Len(t) = 1
    BY <1>1, <1>5
  <2>2. FlattenSeq(t) = x
    BY <1>1, <1>3, <1>4, <2>1 DEF Joined
  <2>3. QED
    BY <2>1, <2>2, FlattenNil DEF t
<1>6. CASE Len(s) > 0
  <2> DEFINE h == [i \in 1 .. Len(s) |-> g[i]]
  <2>1. h \in [1 .. Len(s) -> Seq(S)]
    BY <1>1
  <2>2. ASSUME NEW i \in 1 .. Len(s)
        PROVE  h[i] = Joined(s, h, i)
    <3>1. i \in 1 .. Len(t) /\ h[i] = g[i] /\ (i # 1 => h[i - 1] = g[i - 1]) /\ t[i] = s[i]
      BY <1>1
    <3>2. QED
      BY <1>2, <3>1 DEF Joined
  <2>3. h[Len(s)] = g[Len(s)]
    BY <1>1, <1>6
  <2> HIDE DEF h
  <2>4. FlattenSeq(s) = g[Len(s)]
    BY <1>6, <2>1, <2>2, <2>3, FlattenIs
  <2>5. FlattenSeq(t) = g[Len(s)] \o x
    BY <1>1, <1>3, <1>4, <1>6 DEF Joined
  <2>6. QED
    BY <2>4, <2>5 DEF t
<1>7. QED
  BY <1>1, <1>5, <1>6

(* The flattening of the first i sequences is that of one less, and the i-th. *)
LEMMA FlattenLast ==
  ASSUME NEW S, NEW s \in Seq(Seq(S)), NEW i \in 1 .. Len(s)
  PROVE  /\ FlattenSeq(SubSeq(s, 1, i)) = FlattenSeq(SubSeq(s, 1, i - 1)) \o s[i]
         /\ FlattenSeq(SubSeq(s, 1, i - 1)) \in Seq(S)
         /\ FlattenSeq(SubSeq(s, 1, i)) \in Seq(S)
<1> DEFINE t == SubSeq(s, 1, i - 1)
           u == SubSeq(s, 1, i)
<1>1. /\ t \in Seq(Seq(S)) /\ Len(t) = i - 1 /\ \A k \in 1 .. i - 1 : t[k] = s[k]
      /\ u \in Seq(Seq(S)) /\ Len(u) = i /\ \A k \in 1 .. i : u[k] = s[k]
  OBVIOUS
<1>2. s[i] \in Seq(S) /\ i \in Nat \ {0}
  OBVIOUS
<1> HIDE DEF t, u
<1>3. u = Append(t, s[i])
  <2> DEFINE v == Append(t, s[i])
  <2>1. v \in Seq(Seq(S)) /\ Len(v) = i
    BY <1>1, <1>2, AppendProperties
  <2>2. \A k \in 1 .. i : v[k] = s[k]
    BY <1>1, <1>2, AppendProperties
  <2> HIDE DEF v
  <2>3. u = v
    BY <1>1, <2>1, <2>2, SeqEqual
  <2>4. QED
    BY <2>3 DEF v
<1>4. FlattenSeq(u) = FlattenSeq(t) \o s[i]
  BY <1>1, <1>2, <1>3, FlattenAppend
<1>5. QED
  BY <1>1, <1>4, FlattenType DEF t, u

(* The flattening of a sequence begins with that of the first sequences,   *)
(* and goes on with that of the others.                                    *)
LEMMA FlattenConcat ==
  ASSUME NEW S, NEW s \in Seq(Seq(S)), NEW t \in Seq(Seq(S))
  PROVE  FlattenSeq(s \o t) = FlattenSeq(s) \o FlattenSeq(t)
<1> DEFINE T == {i \in 0 .. Len(t) : FlattenSeq(s \o SubSeq(t, 1, i))
                                     = FlattenSeq(s) \o FlattenSeq(SubSeq(t, 1, i))}
<1>0. Len(t) \in Nat /\ FlattenSeq(s) \in Seq(S)
  BY FlattenType
<1>1. 0 \in T
  <2>1. SubSeq(t, 1, 0) = <<>>
    OBVIOUS
  <2>2. s \o <<>> = s /\ FlattenSeq(s) \o <<>> = FlattenSeq(s)
    BY <1>0, ConcatEmptySeq
  <2>3. FlattenSeq(s \o SubSeq(t, 1, 0)) = FlattenSeq(s) \o FlattenSeq(SubSeq(t, 1, 0))
    BY <2>1, <2>2, FlattenNil, Zenon
  <2>4. 0 \in 0 .. Len(t)
    BY <1>0
  <2>5. QED
    BY <2>3, <2>4, Zenon
<1>2. ASSUME NEW i \in 0 .. Len(t) - 1, i \in T
      PROVE  i + 1 \in T
  <2> DEFINE u == SubSeq(t, 1, i)
             f == FlattenSeq(u)
             x == t[i + 1]
  <2>1. u \in Seq(Seq(S)) /\ x \in Seq(S) /\ i + 1 \in 1 .. Len(t)
    BY <1>0
  <2>2. SubSeq(t, 1, i + 1) = Append(u, x)
    <3> DEFINE v == Append(u, x)
               w == SubSeq(t, 1, i + 1)
    <3>1. /\ Len(u) = i /\ \A k \in 1 .. i : u[k] = t[k]
          /\ w \in Seq(Seq(S)) /\ Len(w) = i + 1 /\ \A k \in 1 .. i + 1 : w[k] = t[k]
      BY <1>0
    <3>2. x = t[i + 1] /\ i \in Nat
      BY <1>0
    <3> HIDE DEF u, w, x
    <3>3. /\ v \in Seq(Seq(S)) /\ Len(v) = Len(u) + 1
          /\ \A k \in 1 .. Len(u) : v[k] = u[k]
          /\ v[Len(u) + 1] = x
      BY <2>1, AppendProperties
    <3> HIDE DEF v
    <3>4. ASSUME NEW k \in 1 .. i + 1
          PROVE  v[k] = w[k]
      <4>1. CASE k \in 1 .. i
        BY <3>1, <3>3, <4>1
      <4>2. CASE k = i + 1
        BY <3>1, <3>2, <3>3, <4>2
      <4>3. QED
        BY <3>2, <4>1, <4>2
    <3>5. w = v
      BY <3>1, <3>3, <3>4, SeqEqual
    <3>6. QED
      BY <3>5 DEF v, w
  <2>3. FlattenSeq(s \o u) = FlattenSeq(s) \o f
    BY <1>2
  <2> HIDE DEF u
  <2>4. f \in Seq(S) /\ FlattenSeq(Append(u, x)) = f \o x
    BY <2>1, FlattenType, FlattenAppend
  <2>5. s \o u \in Seq(Seq(S)) /\ s \o Append(u, x) = Append(s \o u, x)
    <3>1. s \o u \in Seq(Seq(S))
      BY <2>1
    <3>2. s \o Append(u, x) = Append(s \o u, x)
      <4> DEFINE a == s \o Append(u, x)
                 b == Append(s \o u, x)
      <4>1. a \in Seq(Seq(S)) /\ Len(a) = Len(s) + Len(u) + 1
            /\ b \in Seq(Seq(S)) /\ Len(b) = Len(s) + Len(u) + 1
        BY <2>1
      <4>2. \A k \in 1 .. Len(a) : a[k] = b[k]
        BY <2>1
      <4> HIDE DEF a, b
      <4>3. a = b
        BY <4>1, <4>2, SeqEqual
      <4>4. QED
        BY <4>3 DEF a, b
    <3>3. QED
      BY <3>1, <3>2
  <2> HIDE DEF f, x
  <2>6. FlattenSeq(Append(s \o u, x)) = (FlattenSeq(s) \o f) \o x
    <3> DEFINE v == s \o u
    <3>1. v \in Seq(Seq(S))
      BY <2>5
    <3> HIDE DEF v
    <3>2. FlattenSeq(Append(v, x)) = FlattenSeq(v) \o x
      BY <2>1, <3>1, FlattenAppend
    <3>3. QED
      BY <2>3, <3>2 DEF v
  <2>7. (FlattenSeq(s) \o f) \o x = FlattenSeq(s) \o (f \o x)
    <3> DEFINE e == FlattenSeq(s)
    <3>1. e \in Seq(S) /\ f \in Seq(S) /\ x \in Seq(S)
      BY <1>0, <2>1, <2>4, FlattenType
    <3> HIDE DEF e
    <3>2. (e \o f) \o x = e \o (f \o x)
      BY <3>1, ConcatAssociative, SMTT(30)
    <3>3. QED
      BY <3>2 DEF e
  <2>8. FlattenSeq(s \o SubSeq(t, 1, i + 1)) = FlattenSeq(s) \o FlattenSeq(SubSeq(t, 1, i + 1))
    BY <2>2, <2>4, <2>5, <2>6, <2>7, Zenon
  <2>9. i + 1 \in 0 .. Len(t)
    BY <1>0
  <2>10. QED
    BY <2>8, <2>9, Zenon
<1> HIDE DEF T
<1>3. \A i \in 0 .. Len(t) - 1 : i \in T => i + 1 \in T
  BY <1>2
<1>4. \A i \in 0 .. Len(t) : i \in T
  BY <1>0, <1>1, <1>3, UpTo
<1>5. Len(t) \in T
  BY <1>0, <1>4
<1>6. SubSeq(t, 1, Len(t)) = t
  OBVIOUS
<1>7. QED
  BY <1>5, <1>6 DEF T
-----------------------------------------------------------------------------
(* A function on 1 .. n is a sequence of length n. *)
LEMMA Listed ==
  ASSUME NEW S, NEW n \in Nat, NEW f \in [1 .. n -> S]
  PROVE  f \in Seq(S) /\ Len(f) = n
OBVIOUS

(* The first elements of a sequence. *)
LEMMA Initial ==
  ASSUME NEW S, NEW s \in Seq(S), NEW j \in 0 .. Len(s)
  PROVE  /\ SubSeq(s, 1, j) \in Seq(S) /\ Len(SubSeq(s, 1, j)) = j
         /\ \A k \in 1 .. j : SubSeq(s, 1, j)[k] = s[k]
<1>1. j \in Nat /\ \A k \in 1 .. j : s[k] \in S
  OBVIOUS
<1>2. QED
  BY <1>1, SubSeqProperties

(* Prefixes and suffixes by what they are pieces of. *)
LEMMA PrefixIs ==
  ASSUME NEW S, NEW s \in Seq(S), NEW t \in Seq(S)
  PROVE  IsPrefix(s, t) <=> Len(s) <= Len(t) /\ SubSeq(t, 1, Len(s)) = s
<1>1. SubSeq(s, 1, Len(s)) = s
  OBVIOUS
<1>2. QED
  BY <1>1 DEF IsPrefix

LEMMA SuffixIs ==
  ASSUME NEW S, NEW s \in Seq(S), NEW t \in Seq(S)
  PROVE  IsSuffix(s, t) <=>
           Len(s) <= Len(t) /\ SubSeq(t, Len(t) - Len(s) + 1, Len(t)) = s
<1> DEFINE m == Len(s)
           n == Len(t)
           rs == Reverse(s)
           rt == Reverse(t)
           u == SubSeq(t, n - m + 1, n)
<1>1. m \in Nat /\ n \in Nat
  OBVIOUS
<1>2. /\ rs \in Seq(S) /\ Len(rs) = m /\ \A i \in 1 .. m : rs[i] = s[m - i + 1]
      /\ rt \in Seq(S) /\ Len(rt) = n /\ \A i \in 1 .. n : rt[i] = t[n - i + 1]
  BY DEF Reverse
<1> HIDE DEF rs, rt
<1>3. IsSuffix(s, t) <=> m <= n /\ SubSeq(rt, 1, m) = rs
  BY <1>2, PrefixIs DEF IsSuffix, rs, rt
<1>4. CASE m <= n
  <2> DEFINE v == SubSeq(rt, 1, m)
  <2>1. /\ v \in Seq(S) /\ Len(v) = m /\ \A i \in 1 .. m : v[i] = rt[i]
        /\ u \in Seq(S) /\ Len(u) = m /\ \A i \in 1 .. m : u[i] = t[n - m + i]
    <3>1. v \in Seq(S) /\ Len(v) = m /\ \A i \in 1 .. m : v[i] = rt[i]
      BY <1>1, <1>2, <1>4
    <3>2. n - m + 1 \in 1 .. n + 1 /\ n - (n - m + 1) + 1 = m
      BY <1>1, <1>4
    <3>3. u \in Seq(S) /\ Len(u) = m
      BY <1>1, <1>4, <3>2
    <3>4. ASSUME NEW i \in 1 .. m
          PROVE  u[i] = t[n - m + i]
      <4>1. n - m + 1 + i - 1 = n - m + i
        BY <1>1
      <4>2. QED
        BY <1>1, <1>4, <3>2, <4>1
    <3>5. QED
      BY <3>1, <3>3, <3>4
  <2> HIDE DEF v, u
  <2>2. ASSUME v = rs
        PROVE  u = s
    <3>1. ASSUME NEW i \in 1 .. m
          PROVE  u[i] = s[i]
      <4>1. m - i + 1 \in 1 .. m /\ m - (m - i + 1) + 1 = i
            /\ n - (m - i + 1) + 1 = n - m + i
        BY <1>1
      <4>2. v[m - i + 1] = rt[m - i + 1] /\ rt[m - i + 1] = t[n - m + i]
        <5> DEFINE k == m - i + 1
        <5>1. k \in 1 .. m /\ k \in 1 .. n /\ n - k + 1 = n - m + i
          BY <1>1, <1>4, <4>1
        <5> HIDE DEF k, m, n
        <5>2. v[k] = rt[k] /\ rt[k] = t[n - m + i]
          BY <1>2, <2>1, <5>1
        <5>3. QED
          BY <5>2 DEF k
      <4>3. rs[m - i + 1] = s[i]
        BY <1>2, <4>1
      <4>4. QED
        BY <2>1, <2>2, <4>2, <4>3
    <3> HIDE DEF m
    <3>2. QED
      BY <2>1, <3>1, SeqEqual DEF m
  <2>3. ASSUME u = s
        PROVE  v = rs
    <3>1. ASSUME NEW i \in 1 .. m
          PROVE  v[i] = rs[i]
      <4>1. m - i + 1 \in 1 .. m /\ i \in 1 .. n
            /\ n - i + 1 = n - m + (m - i + 1)
        BY <1>1, <1>4
      <4>2. v[i] = t[n - i + 1] /\ u[m - i + 1] = t[n - i + 1]
        <5> DEFINE k == m - i + 1
        <5>1. k \in 1 .. m /\ n - i + 1 = n - m + k
          BY <4>1
        <5> HIDE DEF k, m, n
        <5>2. v[i] = t[n - i + 1] /\ u[k] = t[n - i + 1]
          BY <1>2, <2>1, <4>1, <5>1
        <5>3. QED
          BY <5>2 DEF k
      <4>3. rs[i] = s[m - i + 1]
        BY <1>2
      <4>4. QED
        BY <2>3, <4>2, <4>3
    <3>2. QED
      BY <1>2, <2>1, <3>1, SeqEqual
  <2>4. QED
    BY <1>3, <1>4, <2>2, <2>3 DEF u, v
<1>5. QED
  BY <1>3, <1>4

(* A piece of a sequence in two. *)
LEMMA Pieced ==
  ASSUME NEW S, NEW s \in Seq(S), NEW m \in 1 .. Len(s) + 1,
         NEW k \in m - 1 .. Len(s), NEW n \in k .. Len(s)
  PROVE  /\ SubSeq(s, m, k) \o SubSeq(s, k + 1, n) = SubSeq(s, m, n)
         /\ SubSeq(s, m, k) \in Seq(S) /\ Len(SubSeq(s, m, k)) = k - m + 1
         /\ SubSeq(s, k + 1, n) \in Seq(S) /\ Len(SubSeq(s, k + 1, n)) = n - k
<1>1. SubSeq(s, m, k) \o SubSeq(s, k + 1, n) = SubSeq(s, m, n)
  BY ConcatAdjacentSubSeq
<1>2. QED
  BY <1>1

(* The two parts of a sequence. *)
LEMMA Parts ==
  ASSUME NEW S, NEW s \in Seq(S), NEW t \in Seq(S)
  PROVE  /\ s \o t \in Seq(S) /\ Len(s \o t) = Len(s) + Len(t)
         /\ SubSeq(s \o t, 1, Len(s)) = s
         /\ SubSeq(s \o t, Len(s) + 1, Len(s) + Len(t)) = t
         /\ \A i, j \in 1 .. Len(s) : SubSeq(s \o t, i, j) = SubSeq(s, i, j)
<1> DEFINE w == s \o t
           a == SubSeq(w, 1, Len(s))
           b == SubSeq(w, Len(s) + 1, Len(s) + Len(t))
<1>1. /\ w \in Seq(S) /\ Len(w) = Len(s) + Len(t)
      /\ \A i \in 1 .. Len(s) : w[i] = s[i]
      /\ \A i \in 1 .. Len(t) : w[Len(s) + i] = t[i]
      /\ Len(s) \in Nat /\ Len(t) \in Nat
  BY ConcatProperties
<1>2. \A i, j \in 1 .. Len(s) : SubSeq(w, i, j) = SubSeq(s, i, j)
  BY SubSeqOfConcat1
<1> HIDE DEF w
<1>3. /\ a \in Seq(S) /\ Len(a) = Len(s) /\ \A i \in 1 .. Len(s) : a[i] = w[i]
      /\ b \in Seq(S) /\ Len(b) = Len(t) /\ \A i \in 1 .. Len(t) : b[i] = w[Len(s) + i]
  BY <1>1
<1> HIDE DEF a, b
<1>4. a = s
  BY <1>1, <1>3, SeqEqual
<1>5. b = t
  BY <1>1, <1>3, SeqEqual
<1>6. QED
  BY <1>1, <1>2, <1>4, <1>5 DEF w, a, b
-----------------------------------------------------------------------------
(* The reference splitter: what byte i does to what is known before it.  *)
Ends(g, sep, last, i) ==
  i - Len(sep) >= last.end /\ SubSeq(g, i - Len(sep) + 1, i) = sep

Turned(g, sep, trim, last, i) ==
  LET block == SubSeq(g, last.end + 1, i - trim)
  IN  IF Ends(g, sep, last, i)
      THEN [end    |-> i,
            blocks |-> IF block = <<>> THEN last.blocks ELSE Append(last.blocks, block)]
      ELSE last

Nothing == [end |-> 0, blocks |-> <<>>]

Cuts(S) == [end : Nat, blocks : Seq(Seq(S))]

(* A function that does it byte by byte.  *)
Follows(g, sep, trim, p, n) ==
  /\ p[0] = Nothing
  /\ \A i \in 1 .. n : p[i] = Turned(g, sep, trim, p[i - 1], i)

LEMMA TurnedType ==
  ASSUME NEW S, NEW g \in Seq(S), NEW sep, Len(sep) \in Nat, NEW trim \in Nat,
         NEW i \in 1 .. Len(g), NEW last \in Cuts(S), last.end < i
  PROVE  LET q == Turned(g, sep, trim, last, i)
         IN  q \in Cuts(S) /\ last.end <= q.end /\ q.end <= i
<1> DEFINE block == SubSeq(g, last.end + 1, i - trim)
<1>1. last.end \in Nat /\ last.blocks \in Seq(Seq(S)) /\ i \in Nat /\ i <= Len(g)
  BY DEF Cuts
<1>2. block \in Seq(S)
  <2>1. \A j \in last.end + 1 .. i - trim : g[j] \in S
    BY <1>1
  <2>2. last.end + 1 \in Int /\ i - trim \in Int
    BY <1>1
  <2>3. QED
    BY <2>1, <2>2, SubSeqProperties
<1> HIDE DEF block
<1> DEFINE more == IF block = <<>> THEN last.blocks ELSE Append(last.blocks, block)
<1>3. more \in Seq(Seq(S))
  BY <1>1, <1>2
<1> HIDE DEF more
<1>4. [end |-> i, blocks |-> more] \in Cuts(S)
  BY <1>1, <1>3 DEF Cuts
<1>5. Turned(g, sep, trim, last, i)
        = IF Ends(g, sep, last, i) THEN [end |-> i, blocks |-> more] ELSE last
  BY DEF Turned, more, block
<1>6. CASE Ends(g, sep, last, i)
  BY <1>1, <1>4, <1>5, <1>6
<1>7. CASE ~Ends(g, sep, last, i)
  BY <1>1, <1>5, <1>7
<1>8. QED
  BY <1>6, <1>7

LEMMA Following ==
  ASSUME NEW S, NEW g \in Seq(S), NEW sep, Len(sep) \in Nat, NEW trim \in Nat
  PROVE  \E p \in [0 .. Len(g) -> Cuts(S)] :
           /\ Follows(g, sep, trim, p, Len(g))
           /\ \A i \in 0 .. Len(g) : p[i].end <= i
<1> DEFINE Q(n) == \E p \in [0 .. n -> Cuts(S)] :
                     /\ Follows(g, sep, trim, p, n) /\ \A i \in 0 .. n : p[i].end <= i
           T == {n \in 0 .. Len(g) : Q(n)}
<1>0. Len(g) \in Nat
  OBVIOUS
<1>1. 0 \in T
  <2> DEFINE p == [i \in 0 .. 0 |-> Nothing]
  <2>1. Nothing \in Cuts(S) /\ Nothing.end = 0
    BY DEF Nothing, Cuts
  <2>2. p \in [0 .. 0 -> Cuts(S)] /\ p[0] = Nothing /\ \A i \in 0 .. 0 : p[i].end <= i
    BY <2>1
  <2>3. Follows(g, sep, trim, p, 0)
    BY <2>2 DEF Follows
  <2> HIDE DEF p
  <2>4. Q(0)
    BY <2>2, <2>3
  <2> HIDE DEF Q
  <2>5. QED
    BY <1>0, <2>4
<1>2. ASSUME NEW n \in 0 .. Len(g) - 1, n \in T
      PROVE  n + 1 \in T
  <2>1. PICK p \in [0 .. n -> Cuts(S)] :
          Follows(g, sep, trim, p, n) /\ \A i \in 0 .. n : p[i].end <= i
    BY <1>2
  <2> DEFINE new == Turned(g, sep, trim, p[n], n + 1)
             h == [i \in 0 .. n + 1 |-> IF i <= n THEN p[i] ELSE new]
  <2>2. new \in Cuts(S) /\ new.end <= n + 1
    <3>1. n \in 0 .. n /\ n + 1 \in 1 .. Len(g)
      BY <1>0
    <3>2. p[n] \in Cuts(S) /\ p[n].end < n + 1
      <4>1. p[n] \in Cuts(S) /\ p[n].end <= n
        BY <2>1, <3>1
      <4>2. p[n].end \in Nat
        BY <4>1 DEF Cuts
      <4>3. QED
        BY <1>0, <4>1, <4>2
    <3>3. QED
      BY <3>1, <3>2, TurnedType
  <2>3. h[0] = Nothing
    BY <1>0, <2>1 DEF Follows
  <2>4. ASSUME NEW i \in 1 .. n + 1
        PROVE  h[i] = Turned(g, sep, trim, h[i - 1], i)
    <3>1. CASE i <= n
      <4>1. h[i] = p[i] /\ h[i - 1] = p[i - 1] /\ p[i] = Turned(g, sep, trim, p[i - 1], i)
        BY <2>1, <3>1 DEF Follows
      <4> HIDE DEF h
      <4>2. QED
        BY <4>1
    <3>2. CASE i = n + 1
      <4>1. h[i] = new /\ h[n] = p[n] /\ i - 1 = n
        BY <3>2
      <4> HIDE DEF h
      <4>2. QED
        BY <3>2, <4>1
    <3>3. i <= n \/ i = n + 1
      BY <1>0
    <3> HIDE DEF h
    <3>4. QED
      BY <3>1, <3>2, <3>3
  <2> HIDE DEF new
  <2>5. h \in [0 .. n + 1 -> Cuts(S)]
    BY <2>2
  <2>6. \A i \in 0 .. n + 1 : h[i].end <= i
    <3>1. \A i \in 0 .. n : h[i] = p[i]
      OBVIOUS
    <3>2. h[n + 1] = new
      OBVIOUS
    <3>3. \A i \in 0 .. n + 1 : i \in 0 .. n \/ i = n + 1
      OBVIOUS
    <3> HIDE DEF h
    <3>4. QED
      BY <2>1, <2>2, <3>1, <3>2, <3>3
  <2> HIDE DEF h
  <2>7. Follows(g, sep, trim, h, n + 1)
    BY <2>3, <2>4 DEF Follows
  <2>8. Q(n + 1)
    BY <2>5, <2>6, <2>7
  <2> HIDE DEF Q
  <2>9. QED
    BY <1>0, <2>8
<1> HIDE DEF T
<1>3. \A n \in 0 .. Len(g) - 1 : n \in T => n + 1 \in T
  BY <1>2
<1>4. \A n \in 0 .. Len(g) : n \in T
  BY <1>0, <1>1, <1>3, UpTo
<1>5. Len(g) \in T
  BY <1>0, <1>4
<1>6. QED
  BY <1>5 DEF T

(* Parsed is that function. *)
LEMMA ParsedIs ==
  ASSUME NEW S, NEW g \in Seq(S), NEW sep, Len(sep) \in Nat, NEW trim \in Nat
  PROVE  /\ Parsed(g, sep, trim) \in [0 .. Len(g) -> Cuts(S)]
         /\ Follows(g, sep, trim, Parsed(g, sep, trim), Len(g))
         /\ \A i \in 0 .. Len(g) : Parsed(g, sep, trim)[i].end <= i
<1> DEFINE Cell(f, i) == IF i = 0 THEN Nothing ELSE Turned(g, sep, trim, f[i - 1], i)
           P(f) == f = [i \in 0 .. Len(g) |-> Cell(f, i)]
           c == CHOOSE f : P(f)
<1>0. Len(g) \in Nat
  OBVIOUS
<1>1. Parsed(g, sep, trim) = c
  BY DEF Parsed, Turned, Ends, Nothing
<1>2. PICK p \in [0 .. Len(g) -> Cuts(S)] :
        /\ Follows(g, sep, trim, p, Len(g)) /\ \A i \in 0 .. Len(g) : p[i].end <= i
  BY Following
<1>3. P(p)
  <2>1. \A i \in 0 .. Len(g) : p[i] = Cell(p, i)
    BY <1>0, <1>2 DEF Follows
  <2> HIDE DEF Cell
  <2>2. QED
    BY <2>1
<1>4. P(c)
  BY <1>3
<1> HIDE DEF c
<1>5. c = [i \in 0 .. Len(g) |-> c[i]] /\ Follows(g, sep, trim, c, Len(g))
  <2>1. c = [i \in 0 .. Len(g) |-> Cell(c, i)]
    BY <1>4
  <2>2. \A i \in 0 .. Len(g) : c[i] = Cell(c, i)
    <3> HIDE DEF Cell
    <3>1. QED
      BY <2>1
  <2>3. c = [i \in 0 .. Len(g) |-> c[i]]
    <3> HIDE DEF Cell
    <3>1. QED
      BY <2>1
  <2>4. Follows(g, sep, trim, c, Len(g))
    BY <1>0, <2>2 DEF Follows
  <2>5. QED
    BY <2>3, <2>4
<1> HIDE DEF P
<1> DEFINE T == {i \in 0 .. Len(g) : c[i] = p[i]}
<1>6. 0 \in T
  BY <1>0, <1>2, <1>5 DEF Follows
<1>7. ASSUME NEW i \in 0 .. Len(g) - 1, i \in T
      PROVE  i + 1 \in T
  <2>1. i + 1 \in 1 .. Len(g) /\ (i + 1) - 1 = i /\ i + 1 \in 0 .. Len(g)
    BY <1>0
  <2>2. /\ c[i + 1] = Turned(g, sep, trim, c[i], i + 1)
        /\ p[i + 1] = Turned(g, sep, trim, p[i], i + 1)
    BY <1>2, <1>5, <2>1 DEF Follows
  <2>3. c[i] = p[i]
    BY <1>7
  <2>4. QED
    BY <2>1, <2>2, <2>3
<1> HIDE DEF T
<1>8. \A i \in 0 .. Len(g) - 1 : i \in T => i + 1 \in T
  BY <1>7
<1>9. \A i \in 0 .. Len(g) : i \in T
  BY <1>0, <1>6, <1>8, UpTo
<1>10. c = p
  <2>1. \A i \in 0 .. Len(g) : c[i] = p[i]
    BY <1>9 DEF T
  <2>2. QED
    BY <1>5, <2>1
<1>11. QED
  BY <1>1, <1>2, <1>10

(* What is known of the first bytes does not change by what comes after.  *)
LEMMA SubSeqLocal ==
  ASSUME NEW S, NEW s \in Seq(S), NEW t \in Seq(S),
         NEW a \in Nat \ {0}, NEW b \in Int, b <= Len(s)
  PROVE  SubSeq(s \o t, a, b) = SubSeq(s, a, b)
<1>1. CASE b < a
  BY <1>1, SubSeqEmpty
<1>2. CASE a <= b
  <2>1. a \in 1 .. Len(s) /\ b \in 1 .. Len(s)
    BY <1>2
  <2>2. QED
    BY <2>1, SubSeqOfConcat1
<1>3. QED
  BY <1>1, <1>2

LEMMA ParsedLocal ==
  ASSUME NEW S, NEW g \in Seq(S), NEW h \in Seq(S),
         NEW sep, Len(sep) \in Nat, NEW trim \in Nat
  PROVE  \A i \in 0 .. Len(g) : Parsed(g \o h, sep, trim)[i] = Parsed(g, sep, trim)[i]
<1> DEFINE w == g \o h
           p == Parsed(g, sep, trim)
           q == Parsed(w, sep, trim)
           T == {i \in 0 .. Len(g) : q[i] = p[i]}
<1>1. w \in Seq(S) /\ Len(w) = Len(g) + Len(h) /\ Len(g) \in Nat /\ Len(h) \in Nat
  OBVIOUS
<1>2. \A a \in Nat \ {0}, b \in Int : b <= Len(g) => SubSeq(w, a, b) = SubSeq(g, a, b)
  BY SubSeqLocal
<1> HIDE DEF w
<1>3. /\ p \in [0 .. Len(g) -> Cuts(S)] /\ Follows(g, sep, trim, p, Len(g))
      /\ \A i \in 0 .. Len(g) : p[i].end <= i
  BY ParsedIs
<1>4. Follows(w, sep, trim, q, Len(w))
  BY <1>1, ParsedIs
<1> HIDE DEF p, q
<1>5. 0 \in T
  BY <1>1, <1>3, <1>4 DEF Follows
<1>6. ASSUME NEW i \in 0 .. Len(g) - 1, i \in T
      PROVE  i + 1 \in T
  <2> DEFINE k == i + 1
  <2>1. k \in 1 .. Len(g) /\ k - 1 = i /\ k \in 0 .. Len(g) /\ k \in 1 .. Len(w)
    BY <1>1
  <2> HIDE DEF k
  <2>2. q[k] = Turned(w, sep, trim, q[i], k) /\ p[k] = Turned(g, sep, trim, p[i], k)
    BY <1>3, <1>4, <2>1 DEF Follows
  <2>3. q[i] = p[i] /\ p[i].end \in Nat /\ p[i].end <= i
    BY <1>3, <1>6 DEF Cuts
  <2>4. SubSeq(w, p[i].end + 1, k - trim) = SubSeq(g, p[i].end + 1, k - trim)
    <3> DEFINE a == p[i].end + 1
               b == k - trim
    <3>1. a \in Nat \ {0} /\ b \in Int /\ b <= Len(g)
      BY <1>1, <2>1, <2>3
    <3> HIDE DEF a, b
    <3>2. SubSeq(w, a, b) = SubSeq(g, a, b)
      BY <1>2, <3>1
    <3>3. QED
      BY <3>2 DEF a, b
  <2>5. k - Len(sep) >= p[i].end =>
          SubSeq(w, k - Len(sep) + 1, k) = SubSeq(g, k - Len(sep) + 1, k)
    <3> DEFINE a == k - Len(sep) + 1
    <3> SUFFICES ASSUME k - Len(sep) >= p[i].end
                 PROVE  SubSeq(w, a, k) = SubSeq(g, a, k)
      OBVIOUS
    <3>1. a \in Nat \ {0} /\ k \in Int /\ k <= Len(g)
      BY <1>1, <2>1, <2>3
    <3> HIDE DEF a
    <3>2. QED
      BY <1>2, <3>1
  <2>6. Turned(w, sep, trim, p[i], k) = Turned(g, sep, trim, p[i], k)
    BY <2>4, <2>5 DEF Turned, Ends
  <2>7. q[k] = p[k]
    BY <2>2, <2>3, <2>6
  <2>8. QED
    BY <2>1, <2>7 DEF k
<1> HIDE DEF T
<1>7. \A i \in 0 .. Len(g) - 1 : i \in T => i + 1 \in T
  BY <1>6
<1>8. \A i \in 0 .. Len(g) : i \in T
  BY <1>1, <1>5, <1>7, UpTo
<1>9. QED
  BY <1>8 DEF T, p, q, w

(* No separator ends with the bytes behind byte a, up to byte b. *)
Unbroken(g, sep, trim, a, b) ==
  \A i \in a + 1 .. b : ~Ends(g, sep, Parsed(g, sep, trim)[a], i)

(* Such bytes leave the blocks as they are. *)
LEMMA ParsedStill ==
  ASSUME NEW S, NEW g \in Seq(S), NEW sep, Len(sep) \in Nat, NEW trim \in Nat,
         NEW a \in 0 .. Len(g), NEW b \in a .. Len(g),
         Unbroken(g, sep, trim, a, b)
  PROVE  Parsed(g, sep, trim)[b] = Parsed(g, sep, trim)[a]
<1> DEFINE p == Parsed(g, sep, trim)
           T == {i \in 0 .. b : i >= a => p[i] = p[a]}
<1>1. a \in Nat /\ b \in Nat /\ a <= b /\ Len(g) \in Nat /\ b <= Len(g)
  OBVIOUS
<1>2. Follows(g, sep, trim, p, Len(g))
  BY ParsedIs
<1> HIDE DEF p
<1>3. 0 \in T
  BY <1>1
<1>4. ASSUME NEW i \in 0 .. b - 1, i \in T
      PROVE  i + 1 \in T
  <2>1. i + 1 \in 0 .. b /\ i + 1 \in 1 .. Len(g) /\ (i + 1) - 1 = i
    BY <1>1
  <2>2. CASE i < a
    <3>1. i + 1 >= a => i + 1 = a
      BY <1>1, <2>2
    <3>2. QED
      BY <2>1, <3>1
  <2>3. CASE i >= a
    <3>1. p[i] = p[a]
      BY <1>4, <2>3
    <3>2. i + 1 \in a + 1 .. b
      BY <1>1, <2>3
    <3>3. p[i + 1] = Turned(g, sep, trim, p[i], i + 1)
      BY <1>2, <2>1 DEF Follows
    <3>4. ~Ends(g, sep, p[a], i + 1)
      BY <3>2 DEF p, Unbroken
    <3>5. p[i + 1] = p[a]
      BY <3>1, <3>3, <3>4 DEF Turned
    <3>6. QED
      BY <2>1, <3>5
  <2>4. QED
    BY <1>1, <2>2, <2>3
<1> HIDE DEF T
<1>5. \A i \in 0 .. b - 1 : i \in T => i + 1 \in T
  BY <1>4
<1>6. \A i \in 0 .. b : i \in T
  BY <1>1, <1>3, <1>5, UpTo
<1>7. b \in T
  BY <1>1, <1>6
<1>8. QED
  BY <1>1, <1>7 DEF T, p

(* Blocks only come behind those that were there. *)
LEMMA ParsedGrows ==
  ASSUME NEW S, NEW g \in Seq(S), NEW sep, Len(sep) \in Nat, NEW trim \in Nat,
         NEW a \in 0 .. Len(g), NEW b \in a .. Len(g)
  PROVE  IsPrefix(Parsed(g, sep, trim)[a].blocks, Parsed(g, sep, trim)[b].blocks)
<1> DEFINE p == Parsed(g, sep, trim)
           B(i) == p[i].blocks
           T == {i \in 0 .. b : i >= a => IsPrefix(B(a), B(i))}
<1>1. a \in Nat /\ b \in Nat /\ a <= b /\ Len(g) \in Nat /\ b <= Len(g)
  OBVIOUS
<1>2. p \in [0 .. Len(g) -> Cuts(S)] /\ Follows(g, sep, trim, p, Len(g))
      /\ \A i \in 0 .. Len(g) : p[i].end <= i
  BY ParsedIs
<1> HIDE DEF p
<1>3. \A i \in 0 .. Len(g) : B(i) \in Seq(Seq(S)) /\ p[i].end \in Nat
  BY <1>2 DEF Cuts
<1>4. IsPrefix(B(a), B(a))
  <2>1. B(a) \in Seq(Seq(S))
    BY <1>3
  <2> HIDE DEF B
  <2>2. Len(B(a)) <= Len(B(a)) /\ SubSeq(B(a), 1, Len(B(a))) = B(a)
    BY <2>1
  <2>3. QED
    BY <2>1, <2>2, PrefixIs
<1>5. ASSUME NEW i \in 0 .. b - 1, i \in T
      PROVE  i + 1 \in T
  <2>1. i + 1 \in 0 .. b /\ i + 1 \in 1 .. Len(g) /\ (i + 1) - 1 = i /\ i \in 0 .. Len(g)
    BY <1>1
  <2>2. CASE i < a
    <3>1. i + 1 >= a => i + 1 = a
      BY <1>1, <2>2
    <3> HIDE DEF B
    <3>2. QED
      BY <1>4, <2>1, <3>1
  <2>3. CASE i >= a
    <3>1. IsPrefix(B(a), B(i))
      BY <1>5, <2>3
    <3>2. p[i + 1] = Turned(g, sep, trim, p[i], i + 1)
      BY <1>2, <2>1 DEF Follows
    <3> DEFINE piece == SubSeq(g, p[i].end + 1, i + 1 - trim)
    <3>3. B(i + 1) = B(i) \/ B(i + 1) = Append(B(i), piece)
      <4> DEFINE more == IF piece = <<>> THEN p[i].blocks ELSE Append(p[i].blocks, piece)
      <4> HIDE DEF more
      <4>0. Turned(g, sep, trim, p[i], i + 1)
              = IF Ends(g, sep, p[i], i + 1) THEN [end |-> i + 1, blocks |-> more]
                ELSE p[i]
        BY DEF Turned, more
      <4>1. p[i + 1] = IF Ends(g, sep, p[i], i + 1) THEN [end |-> i + 1, blocks |-> more]
                       ELSE p[i]
        BY <3>2, <4>0
      <4> HIDE DEF piece
      <4>2. more = B(i) \/ more = Append(B(i), piece)
        BY DEF more
      <4>3. QED
        BY <4>1, <4>2
    <3>4. piece \in Seq(S)
      <4>1. \A j \in p[i].end + 1 .. i + 1 - trim : g[j] \in S
        BY <1>1, <1>3, <2>1
      <4>2. p[i].end + 1 \in Int /\ i + 1 - trim \in Int
        <5>1. p[i].end \in Nat /\ i \in Nat
          BY <1>3, <2>1
        <5>2. QED
          BY <5>1
      <4>3. QED
        BY <4>1, <4>2, SubSeqProperties
    <3>5. B(a) \in Seq(Seq(S)) /\ B(i) \in Seq(Seq(S))
      BY <1>3, <2>1
    <3> HIDE DEF B, piece
    <3>6. IsPrefix(B(a), Append(B(i), piece))
      <4> DEFINE new == Append(B(i), piece)
                 m == Len(B(a))
      <4>1. m <= Len(B(i)) /\ SubSeq(B(i), 1, m) = B(a)
        BY <3>1, <3>5, PrefixIs
      <4>2. new = B(i) \o <<piece>> /\ <<piece>> \in Seq(Seq(S))
        BY <3>4, <3>5, AppendIsConcat
      <4>3. SubSeq(B(i) \o <<piece>>, 1, m) = SubSeq(B(i), 1, m)
        BY <3>5, <4>1, <4>2, SubSeqLocal
      <4>4. new \in Seq(Seq(S)) /\ Len(new) = Len(B(i)) + 1
        BY <3>4, <3>5, AppendProperties
      <4>5. m <= Len(new) /\ SubSeq(new, 1, m) = B(a)
        BY <3>5, <4>1, <4>2, <4>3, <4>4
      <4> HIDE DEF new, m
      <4>6. QED
        BY <3>5, <4>4, <4>5, PrefixIs DEF new, m
    <3>7. IsPrefix(B(a), B(i + 1))
      BY <3>1, <3>3, <3>6
    <3>8. QED
      BY <2>1, <3>7
  <2>4. QED
    BY <1>1, <2>2, <2>3
<1>6. 0 \in T
  <2> HIDE DEF B
  <2>1. QED
    BY <1>1, <1>4
<1> HIDE DEF T
<1>7. \A i \in 0 .. b - 1 : i \in T => i + 1 \in T
  BY <1>5
<1>8. \A i \in 0 .. b : i \in T
  BY <1>1, <1>6, <1>7, UpTo
<1>9. b \in T
  BY <1>1, <1>8
<1>10. QED
  BY <1>1, <1>9 DEF T, p
-----------------------------------------------------------------------------
(* The flattening of the first i sequences of s. *)
Flat(s, i) == FlattenSeq(SubSeq(s, 1, i))

LEMMA FlatSplit ==
  ASSUME NEW S, NEW s \in Seq(Seq(S)), NEW j \in 0 .. Len(s), NEW i \in 0 .. j
  PROVE  /\ Flat(s, j) = Flat(s, i) \o FlattenSeq(SubSeq(s, i + 1, j))
         /\ Flat(s, i) \in Seq(S) /\ Flat(s, j) \in Seq(S)
         /\ FlattenSeq(SubSeq(s, i + 1, j)) \in Seq(S)
         /\ Len(Flat(s, i)) <= Len(Flat(s, j))
<1> DEFINE a == SubSeq(s, 1, i)
           c == SubSeq(s, i + 1, j)
           w == SubSeq(s, 1, j)
<1>1. 1 \in 1 .. Len(s) + 1 /\ i \in 0 .. Len(s) /\ j \in i .. Len(s)
  OBVIOUS
<1>2. a \o c = w /\ a \in Seq(Seq(S)) /\ c \in Seq(Seq(S))
  <2>1. i \in (1 - 1) .. Len(s)
    BY <1>1
  <2>2. QED
    BY <1>1, <2>1, Pieced
<1> HIDE DEF a, c, w
<1>3. FlattenSeq(w) = FlattenSeq(a) \o FlattenSeq(c)
  BY <1>2, FlattenConcat
<1>4. FlattenSeq(a) \in Seq(S) /\ FlattenSeq(c) \in Seq(S)
  BY <1>2, FlattenType
<1>5. FlattenSeq(w) \in Seq(S) /\ Len(FlattenSeq(a)) <= Len(FlattenSeq(w))
  <2> DEFINE x == FlattenSeq(a)
             y == FlattenSeq(c)
  <2>1. x \in Seq(S) /\ y \in Seq(S)
    BY <1>4
  <2> HIDE DEF x, y
  <2>2. x \o y \in Seq(S) /\ Len(x) <= Len(x \o y)
    BY <2>1
  <2>3. QED
    BY <1>3, <2>2 DEF x, y
<1>6. QED
  BY <1>3, <1>4, <1>5 DEF Flat, a, c, w

LEMMA FlatWhole ==
  ASSUME NEW S, NEW s \in Seq(Seq(S))
  PROVE  Flat(s, Len(s)) = FlattenSeq(s) /\ Flat(s, 0) = <<>>
<1>1. SubSeq(s, 1, Len(s)) = s /\ SubSeq(s, 1, 0) = <<>>
  OBVIOUS
<1>2. QED
  BY <1>1, FlattenNil DEF Flat

(* Each place of a flattening is in one of the sequences. *)
LEMMA FlatFind ==
  ASSUME NEW S, NEW s \in Seq(Seq(S)), NEW q \in 1 .. Len(FlattenSeq(s))
  PROVE  \E i \in 1 .. Len(s) : Len(Flat(s, i - 1)) < q /\ q <= Len(Flat(s, i))
<1> DEFINE T == {i \in 0 .. Len(s) : q <= Len(Flat(s, i))}
<1>1. Len(s) \in Nat /\ \A i \in 0 .. Len(s) : Len(Flat(s, i)) \in Nat
  <2>1. ASSUME NEW i \in 0 .. Len(s)
        PROVE  Flat(s, i) \in Seq(S)
    BY FlatSplit
  <2>2. QED
    BY <2>1
<1>2. Len(s) \in T
  <2>1. Flat(s, Len(s)) = FlattenSeq(s) /\ Len(FlattenSeq(s)) \in Nat
    BY <1>1, FlatWhole
  <2>2. QED
    BY <1>1, <2>1
<1>3. 0 \notin T
  BY FlatWhole
<1>4. T \in SUBSET Nat /\ T # {}
  <2>1. T \subseteq 0 .. Len(s)
    OBVIOUS
  <2> HIDE DEF T
  <2>2. QED
    BY <1>1, <1>2, <2>1
<1>5. PICK m \in T : \A k \in T : m <= k
  <2> HIDE DEF T
  <2>1. QED
    BY <1>4, Least
<1>6. m \in 1 .. Len(s) /\ m - 1 \in 0 .. Len(s) /\ q <= Len(Flat(s, m))
  BY <1>1, <1>3, <1>5
<1>7. m - 1 \notin T
  BY <1>4, <1>5, <1>6
<1>8. ~(q <= Len(Flat(s, m - 1)))
  BY <1>6, <1>7
<1>9. QED
  BY <1>1, <1>6, <1>8
-----------------------------------------------------------------------------
(* What a byte of a buffer can be. *)
Bytes == Alphabet \cup {Junk}

(* next() would use the tail of buffer k. *)
Roomy(b, k) == Minbuf # 0 /\ Bufsize - Len(b.buffers[k].data) > Minbuf

(* No buffer is empty, only the last may have a tail to be used, and no    *)
(* two have one address.                                                   *)
Filled(b) ==
  /\ \A k \in 1 .. Len(b.buffers) :
       /\ Len(b.buffers[k].data) \in 1 .. Bufsize
       /\ k < Len(b.buffers) => ~Roomy(b, k)
  /\ \A j, k \in 1 .. Len(b.buffers) : b.buffers[j].id = b.buffers[k].id => j = k

(* The parse cursor is at a byte that has been read, or where the next     *)
(* will come, and not behind the last of a buffer that has a successor.    *)
Cursor(b) ==
  /\ b.parsebuf \in 1 .. Len(b.buffers)
  /\ Begin(b, b.parsebuf) <= b.parsepos
  /\ b.parsepos <= End(b, b.parsebuf)
  /\ b.parsebuf < Len(b.buffers) => b.parsepos < Len(b.buffers[b.parsebuf].data)

(* A buffer with a read under way: into the last one, from behind what it  *)
(* holds, and only the first is handed out in part.                        *)
Good(b) ==
  LET n == Len(b.buffers)
  IN  /\ Filled(b) /\ n > 0 /\ b.readbuf = n
      /\ Len(b.buffers[n].data) = Bufsize /\ b.readpos < Bufsize
      /\ b.readpos # 0 => Minbuf # 0 /\ Bufsize - b.readpos > Minbuf
      /\ IF n = 1 THEN b.offset <= b.readpos ELSE b.offset < Len(b.buffers[1].data)
      /\ Cursor(b)

(* The same between confirm() and next(). *)
Settled(b) ==
  LET n == Len(b.buffers)
  IN  /\ Filled(b) /\ b.readbuf = 0 /\ b.readpos = 0
      /\ n = 0 => b.offset = 0
      /\ n = 1 => /\ b.offset <= Len(b.buffers[1].data)
                  /\ b.offset = Len(b.buffers[1].data) => Roomy(b, 1)
      /\ n > 1 => b.offset < Len(b.buffers[1].data)
      /\ \/ Cursor(b)
         \/ b.parsebuf = n + 1 /\ b.parsepos = 0 /\ (n > 0 => ~Roomy(b, n))

(* The bytes of buffer k that were read and not handed out. *)
Piece(b, k) == SubSeq(b.buffers[k].data, Begin(b, k) + 1, End(b, k))
Pieces(b)   == [k \in 1 .. Len(b.buffers) |-> Piece(b, k)]

Spans(b) == \A k \in 1 .. Len(b.buffers) :
  Begin(b, k) <= End(b, k) /\ End(b, k) <= Len(b.buffers[k].data)

(* How many bytes of Rest(b) are before place p of buffer i, and before    *)
(* the parse cursor.                                                       *)
Pos(b, i, p) == Len(Flat(Pieces(b), i - 1)) + (p - Begin(b, i))
Cur(b)       == Pos(b, b.parsebuf, b.parsepos)

LEMMA BufferFacts ==
  ASSUME NEW b \in Buffer
  PROVE  /\ b.size \in Nat /\ b.offset \in Nat /\ b.readbuf \in Nat /\ b.readpos \in Nat
         /\ b.parsebuf \in Nat \ {0} /\ b.parsepos \in Nat
         /\ b.buffers \in Seq([id : Nat, data : Seq(Bytes)]) /\ Len(b.buffers) \in Nat
         /\ \A k \in 1 .. Len(b.buffers) :
              /\ b.buffers[k] \in [id : Nat, data : Seq(Bytes)]
              /\ b.buffers[k].data \in Seq(Bytes) /\ b.buffers[k].id \in Nat
              /\ Len(b.buffers[k].data) \in Nat
              /\ Begin(b, k) \in Nat /\ End(b, k) \in Nat
<1>1. /\ b.size \in Nat /\ b.offset \in Nat /\ b.readbuf \in Nat /\ b.readpos \in Nat
      /\ b.parsebuf \in Nat \ {0} /\ b.parsepos \in Nat
      /\ b.buffers \in Seq([id : Nat, data : Seq(Bytes)])
  BY DEF Buffer, Bytes
<1>2. Len(b.buffers) \in Nat
  BY <1>1
<1>3. ASSUME NEW k \in 1 .. Len(b.buffers)
      PROVE  /\ b.buffers[k] \in [id : Nat, data : Seq(Bytes)]
             /\ b.buffers[k].data \in Seq(Bytes) /\ b.buffers[k].id \in Nat
             /\ Len(b.buffers[k].data) \in Nat
             /\ Begin(b, k) \in Nat /\ End(b, k) \in Nat
  <2>1. b.buffers[k] \in [id : Nat, data : Seq(Bytes)]
    BY <1>1, ElementOfSeq
  <2>2. b.buffers[k].data \in Seq(Bytes) /\ b.buffers[k].id \in Nat
    BY <2>1
  <2>3. Len(b.buffers[k].data) \in Nat
    BY <2>2
  <2>4. Begin(b, k) \in Nat /\ End(b, k) \in Nat
    BY <1>1, <2>3 DEF Begin, End
  <2>5. QED
    BY <2>1, <2>2, <2>3, <2>4
<1>4. QED
  BY <1>1, <1>2, <1>3

LEMMA PiecesType ==
  ASSUME NEW b \in Buffer, Spans(b)
  PROVE  /\ Pieces(b) \in Seq(Seq(Bytes)) /\ Len(Pieces(b)) = Len(b.buffers)
         /\ \A k \in 1 .. Len(b.buffers) :
              /\ Pieces(b)[k] = Piece(b, k) /\ Piece(b, k) \in Seq(Bytes)
              /\ Len(Piece(b, k)) = End(b, k) - Begin(b, k)
<1>1. ASSUME NEW k \in 1 .. Len(b.buffers)
      PROVE  Piece(b, k) \in Seq(Bytes) /\ Len(Piece(b, k)) = End(b, k) - Begin(b, k)
  <2> DEFINE d == b.buffers[k].data
  <2>1. /\ d \in Seq(Bytes) /\ Len(d) \in Nat /\ Begin(b, k) \in Nat /\ End(b, k) \in Nat
        /\ Begin(b, k) <= End(b, k) /\ End(b, k) <= Len(d)
    BY BufferFacts DEF Spans
  <2> HIDE DEF d
  <2>2. \A j \in Begin(b, k) + 1 .. End(b, k) : d[j] \in Bytes
    BY <2>1
  <2>3. /\ SubSeq(d, Begin(b, k) + 1, End(b, k)) \in Seq(Bytes)
        /\ Len(SubSeq(d, Begin(b, k) + 1, End(b, k))) = End(b, k) - Begin(b, k)
    BY <2>1, <2>2, SubSeqProperties
  <2>4. QED
    BY <2>3 DEF Piece, d
<1>2. Len(b.buffers) \in Nat
  BY BufferFacts
<1>3. QED
  BY <1>1, <1>2 DEF Pieces

LEMMA RestIs ==
  ASSUME NEW b \in Buffer, Spans(b)
  PROVE  /\ Rest(b) = FlattenSeq(Pieces(b)) /\ Rest(b) = Flat(Pieces(b), Len(b.buffers))
         /\ Rest(b) \in Seq(Bytes)
<1>1. Rest(b) = FlattenSeq(Pieces(b))
  BY DEF Rest, Pieces, Piece
<1>2. QED
  BY <1>1, PiecesType, FlatWhole, FlattenType

(* A place in the buffers, and what Rest(b) has up to it. *)
Place(b, i, p) == /\ i \in 1 .. Len(b.buffers)
                  /\ p \in Begin(b, i) .. End(b, i)

LEMMA CutIs ==
  ASSUME NEW b \in Buffer, Spans(b), NEW i, NEW p, Place(b, i, p)
  PROVE  LET cut  == Cut(b, [buf |-> i, pos |-> p])
             here == SubSeq(b.buffers[i].data, Begin(b, i) + 1, p)
             there == SubSeq(b.buffers[i].data, p + 1, End(b, i))
             tail  == FlattenSeq(SubSeq(Pieces(b), i + 1, Len(Pieces(b))))
         IN  /\ cut = Flat(Pieces(b), i - 1) \o here
             /\ Flat(Pieces(b), i - 1) \in Seq(Bytes)
             /\ here \in Seq(Bytes) /\ Len(here) = p - Begin(b, i)
             /\ cut \in Seq(Bytes) /\ Len(cut) = Pos(b, i, p)
             /\ Pos(b, i, p) \in 0 .. Len(Rest(b))
             /\ SubSeq(Rest(b), 1, Pos(b, i, p)) = cut
             /\ there \in Seq(Bytes) /\ tail \in Seq(Bytes)
             /\ Rest(b) = cut \o (there \o tail)
<1> DEFINE s    == Pieces(b)
           d    == b.buffers[i].data
           here == SubSeq(d, Begin(b, i) + 1, p)
           t    == SubSeq(s, 1, i - 1)
           f    == [k \in 1 .. i |-> IF k = i THEN here ELSE Piece(b, k)]
           cut  == Cut(b, [buf |-> i, pos |-> p])
           there == SubSeq(d, p + 1, End(b, i))
           tail  == FlattenSeq(SubSeq(s, i + 1, Len(s)))
<1>1. /\ i \in 1 .. Len(b.buffers) /\ Len(b.buffers) \in Nat /\ i \in Nat \ {0}
      /\ d \in Seq(Bytes) /\ Len(d) \in Nat /\ Begin(b, i) \in Nat /\ End(b, i) \in Nat
      /\ Begin(b, i) <= p /\ p <= End(b, i) /\ End(b, i) <= Len(d) /\ p \in Nat
  <2>1. i \in 1 .. Len(b.buffers) /\ p \in Begin(b, i) .. End(b, i)
    BY DEF Place
  <2>2. /\ Len(b.buffers) \in Nat
        /\ d \in Seq(Bytes) /\ Len(d) \in Nat /\ Begin(b, i) \in Nat /\ End(b, i) \in Nat
    BY <2>1, BufferFacts
  <2>3. End(b, i) <= Len(d)
    BY <2>1 DEF Spans
  <2> HIDE DEF d
  <2>4. QED
    BY <2>1, <2>2, <2>3
<1>2. /\ s \in Seq(Seq(Bytes)) /\ Len(s) = Len(b.buffers)
      /\ \A k \in 1 .. Len(s) : s[k] = Piece(b, k)
  BY PiecesType
<1> HIDE DEF s
<1>3. /\ here \o there = Piece(b, i)
      /\ here \in Seq(Bytes) /\ Len(here) = p - Begin(b, i)
      /\ there \in Seq(Bytes)
  <2> DEFINE m == Begin(b, i) + 1
             e == End(b, i)
  <2>1. m \in 1 .. Len(d) + 1 /\ e \in p .. Len(d)
    <3> HIDE DEF d
    <3>1. QED
      BY <1>1
  <2>2. p \in m - 1 .. Len(d) /\ p - m + 1 = p - Begin(b, i)
    <3> HIDE DEF d
    <3>1. QED
      BY <1>1
  <2> HIDE DEF d, m, e
  <2>3. /\ SubSeq(d, m, p) \o SubSeq(d, p + 1, e) = SubSeq(d, m, e)
        /\ SubSeq(d, m, p) \in Seq(Bytes) /\ Len(SubSeq(d, m, p)) = p - m + 1
        /\ SubSeq(d, p + 1, e) \in Seq(Bytes)
    BY <1>1, <2>1, <2>2, Pieced
  <2>4. QED
    BY <2>2, <2>3 DEF Piece, d, m, e
<1> HIDE DEF here, there
<1>4. /\ t \in Seq(Seq(Bytes)) /\ Len(t) = i - 1 /\ \A k \in 1 .. i - 1 : t[k] = Piece(b, k)
  <2> DEFINE j == i - 1
  <2>1. j \in 0 .. Len(s) /\ \A k \in 1 .. j : k \in 1 .. Len(s)
    BY <1>1, <1>2
  <2> HIDE DEF j
  <2>2. /\ SubSeq(s, 1, j) \in Seq(Seq(Bytes)) /\ Len(SubSeq(s, 1, j)) = j
        /\ \A k \in 1 .. j : SubSeq(s, 1, j)[k] = s[k]
    BY <1>2, <2>1, Initial
  <2>3. QED
    BY <1>2, <2>1, <2>2 DEF j
<1> HIDE DEF t
<1>5. cut = FlattenSeq(f)
  BY DEF Cut, here, d, Piece
<1>6. f = Append(t, here)
  <2>1. f \in Seq(Seq(Bytes)) /\ Len(f) = i
    <3> SUFFICES f \in [1 .. i -> Seq(Bytes)] /\ i \in Nat
      <4> HIDE DEF f
      <4>1. QED
        BY Listed
    <3>1. \A k \in 1 .. i : Piece(b, k) \in Seq(Bytes)
      <4>1. \A k \in 1 .. i : k \in 1 .. Len(s) /\ s[k] = Piece(b, k)
        BY <1>1, <1>2
      <4>2. QED
        BY <1>2, <4>1, ElementOfSeq
    <3>2. f \in [1 .. i -> Seq(Bytes)]
      BY <1>3, <3>1
    <3>3. i \in Nat
      BY <1>1
    <3>4. QED
      BY <3>2, <3>3
  <2>2. \A k \in 1 .. i : f[k] = IF k = i THEN here ELSE Piece(b, k)
    OBVIOUS
  <2> HIDE DEF f
  <2> DEFINE v == Append(t, here)
  <2>3. v \in Seq(Seq(Bytes)) /\ Len(v) = i /\ v[i] = here /\ \A k \in 1 .. i - 1 : v[k] = t[k]
    BY <1>1, <1>3, <1>4, AppendProperties
  <2> HIDE DEF v
  <2>4. ASSUME NEW k \in 1 .. i
        PROVE  f[k] = v[k]
    <3>1. CASE k = i
      BY <2>2, <2>3, <3>1
    <3>2. CASE k # i
      <4>1. k \in 1 .. i - 1
        BY <1>1, <3>2
      <4>2. QED
        BY <1>4, <2>2, <2>3, <3>2, <4>1
    <3>3. QED
      BY <3>1, <3>2
  <2>5. f = v
    BY <2>1, <2>3, <2>4, SeqEqual
  <2>6. QED
    BY <2>5 DEF v
<1> HIDE DEF f, cut
<1>7. cut = FlattenSeq(t) \o here
  BY <1>3, <1>4, <1>5, <1>6, FlattenAppend
<1>8. FlattenSeq(t) = Flat(s, i - 1)
  BY DEF Flat, t
<1> DEFINE a == Flat(s, i - 1)
<1>9. a \in Seq(Bytes) /\ Len(a) \in Nat
  <2>1. a \in Seq(Bytes)
    BY <1>4, <1>8, FlattenType
  <2> HIDE DEF a
  <2>2. QED
    BY <2>1
<1>10. Flat(s, i) = a \o Piece(b, i)
  BY <1>1, <1>2, FlattenLast DEF Flat
<1>11. /\ Rest(b) = Flat(s, i) \o tail
       /\ Flat(s, i) \in Seq(Bytes) /\ tail \in Seq(Bytes)
  <2>1. Rest(b) = Flat(s, Len(s)) /\ Len(s) \in 0 .. Len(s) /\ i \in 0 .. Len(s)
    BY <1>1, <1>2, RestIs DEF s
  <2>2. QED
    BY <1>2, <2>1, FlatSplit
<1> HIDE DEF a, tail
<1>12. cut \in Seq(Bytes) /\ Len(cut) = Len(a) + (p - Begin(b, i))
  <2>1. cut = a \o here
    BY <1>7, <1>8 DEF a
  <2>2. a \o here \in Seq(Bytes) /\ Len(a \o here) = Len(a) + Len(here)
    BY <1>3, <1>9, ConcatProperties
  <2>3. QED
    BY <1>3, <2>1, <2>2
<1>13. Len(cut) = Pos(b, i, p)
  BY <1>12 DEF Pos, a, s
<1>14. Rest(b) = cut \o (there \o tail)
  <2>1. \A x, y, z \in Seq(Bytes) : (x \o y) \o z = x \o (y \o z)
    OBVIOUS
  <2>2. Flat(s, i) = (a \o here) \o there
    <3>1. (a \o here) \o there = a \o (here \o there)
      BY <1>3, <1>9, <2>1
    <3>2. QED
      BY <1>3, <1>10, <3>1
  <2>3. Flat(s, i) = cut \o there
    BY <1>7, <1>8, <2>2 DEF a
  <2>4. QED
    <3>1. (cut \o there) \o tail = cut \o (there \o tail)
      BY <1>3, <1>11, <1>12, <2>1
    <3>2. QED
      BY <1>11, <2>3, <3>1
<1>15. there \o tail \in Seq(Bytes)
  BY <1>3, <1>11, ConcatProperties
<1>16. Pos(b, i, p) \in 0 .. Len(Rest(b)) /\ SubSeq(Rest(b), 1, Pos(b, i, p)) = cut
  <2> DEFINE u == there \o tail
  <2> HIDE DEF u
  <2>1. u \in Seq(Bytes) /\ Rest(b) = cut \o u
    BY <1>14, <1>15 DEF u
  <2>2. Len(Rest(b)) = Len(cut) + Len(u) /\ SubSeq(Rest(b), 1, Len(cut)) = cut
    BY <1>12, <2>1, Parts
  <2>3. Len(u) \in Nat /\ Len(cut) \in Nat
    BY <1>12, <2>1
  <2>4. QED
    BY <1>13, <2>2, <2>3
<1>17. QED
  BY <1>3, <1>7, <1>8, <1>9, <1>11, <1>12, <1>13, <1>14, <1>16
  DEF a, here, there, tail, d, cut, s

LEMMA GoodSpans ==
  ASSUME NEW b \in Buffer, Good(b) \/ Settled(b)
  PROVE  Spans(b)
<1> SUFFICES ASSUME NEW k \in 1 .. Len(b.buffers)
             PROVE  Begin(b, k) <= End(b, k) /\ End(b, k) <= Len(b.buffers[k].data)
  BY DEF Spans
<1>1. /\ b.offset \in Nat /\ b.readpos \in Nat /\ b.readbuf \in Nat
      /\ Len(b.buffers) \in Nat /\ Len(b.buffers[k].data) \in Nat
      /\ Len(b.buffers[1].data) \in Nat /\ k \in Nat
  <2>1. Len(b.buffers) \in Nat
    BY BufferFacts
  <2> DEFINE n == Len(b.buffers)
  <2>2. n \in Nat /\ k \in 1 .. n
    BY <2>1
  <2> HIDE DEF n
  <2>3. 1 \in 1 .. n /\ k \in Nat
    BY <2>2
  <2>4. Len(b.buffers[k].data) \in Nat /\ Len(b.buffers[1].data) \in Nat
    BY <2>3, BufferFacts DEF n
  <2>5. QED
    BY <2>1, <2>3, <2>4, BufferFacts
<1>2. Len(b.buffers[k].data) >= 1
  BY <1>1 DEF Good, Settled, Filled
<1>3. CASE Good(b)
  <2>1. CASE k = Len(b.buffers)
    <3>1. End(b, k) = b.readpos /\ b.readpos < Len(b.buffers[k].data)
      BY <1>3, <2>1 DEF Good, End
    <3>2. Begin(b, k) <= b.readpos
      BY <1>1, <1>3, <2>1 DEF Good, Begin
    <3>3. QED
      BY <1>1, <3>1, <3>2
  <2>2. CASE k # Len(b.buffers)
    <3>1. End(b, k) = Len(b.buffers[k].data)
      BY <1>3, <2>2 DEF Good, End
    <3>2. k = 1 => b.offset < Len(b.buffers[1].data)
      BY <1>1, <1>3, <2>2 DEF Good
    <3>3. Begin(b, k) <= Len(b.buffers[k].data)
      BY <1>1, <1>2, <3>2 DEF Begin
    <3>4. QED
      BY <1>1, <3>1, <3>3
  <2>3. QED
    BY <2>1, <2>2
<1>4. CASE Settled(b)
  <2>1. End(b, k) = Len(b.buffers[k].data)
    BY <1>4 DEF Settled, End
  <2>2. k = 1 => b.offset <= Len(b.buffers[1].data)
    <3> DEFINE n == Len(b.buffers)
    <3>1. n \in Nat /\ k \in 1 .. n
      BY <1>1
    <3> HIDE DEF n
    <3>2. n = 1 \/ n > 1
      BY <3>1
    <3>3. QED
      BY <1>1, <1>4, <3>2 DEF Settled, n
  <2>3. Begin(b, k) <= Len(b.buffers[k].data)
    BY <1>1, <1>2, <2>2 DEF Begin
  <2>4. QED
    BY <1>1, <2>1, <2>3
<1>5. QED
  BY <1>3, <1>4

(* The places are in the order of the bytes. *)
LEMMA Order ==
  ASSUME NEW b \in Buffer, Spans(b), NEW i, NEW p, NEW j, NEW r,
         Place(b, i, p), Place(b, j, r), i < j \/ (i = j /\ p <= r)
  PROVE  Pos(b, i, p) <= Pos(b, j, r)
<1>1. /\ i \in 1 .. Len(b.buffers) /\ j \in 1 .. Len(b.buffers) /\ Len(b.buffers) \in Nat
      /\ Begin(b, i) \in Nat /\ Begin(b, j) \in Nat /\ End(b, i) \in Nat /\ End(b, j) \in Nat
      /\ p \in Begin(b, i) .. End(b, i) /\ r \in Begin(b, j) .. End(b, j)
  BY BufferFacts DEF Place
<1> DEFINE s == Pieces(b)
<1>2. s \in Seq(Seq(Bytes)) /\ Len(s) = Len(b.buffers)
  BY PiecesType
<1>3. s[i] \in Seq(Bytes) /\ Len(s[i]) = End(b, i) - Begin(b, i)
  BY <1>1, PiecesType
<1> HIDE DEF s
<1>4. Flat(s, i - 1) \in Seq(Bytes) /\ Flat(s, j - 1) \in Seq(Bytes)
  BY <1>1, CutIs DEF s
<1>5. CASE i = j
  <2>1. Len(Flat(s, i - 1)) \in Nat
    BY <1>4
  <2>2. QED
    BY <1>1, <1>5, <2>1 DEF Pos, s
<1>6. CASE i < j
  <2>1. Flat(s, i) = Flat(s, i - 1) \o s[i]
    BY <1>1, <1>2, FlattenLast DEF Flat
  <2>2. Len(Flat(s, i)) = Len(Flat(s, i - 1)) + (End(b, i) - Begin(b, i))
    <3>1. Len(Flat(s, i - 1) \o s[i]) = Len(Flat(s, i - 1)) + Len(s[i])
      BY <1>3, <1>4, ConcatProperties
    <3>2. QED
      BY <1>3, <2>1, <3>1
  <2>3. Len(Flat(s, i)) <= Len(Flat(s, j - 1))
    <3>1. j - 1 \in 0 .. Len(s) /\ i \in 0 .. j - 1
      BY <1>1, <1>2, <1>6
    <3>2. QED
      BY <1>2, <3>1, FlatSplit
  <2>4. Len(Flat(s, i - 1)) \in Nat /\ Len(Flat(s, j - 1)) \in Nat
    BY <1>4
  <2>5. QED
    BY <1>1, <2>2, <2>3, <2>4, SMTT(30) DEF Pos, s
<1>7. QED
  BY <1>5, <1>6

(* Every byte has its place. *)
LEMMA Locate ==
  ASSUME NEW b \in Buffer, Spans(b), NEW q \in 1 .. Len(Rest(b))
  PROVE  \E i, p : /\ Place(b, i, p) /\ Begin(b, i) < p /\ Pos(b, i, p) = q
<1> DEFINE s == Pieces(b)
<1>1. s \in Seq(Seq(Bytes)) /\ Len(s) = Len(b.buffers) /\ Rest(b) = FlattenSeq(s)
  BY PiecesType, RestIs
<1>2. \A i \in 1 .. Len(b.buffers) : s[i] \in Seq(Bytes) /\ Len(s[i]) = End(b, i) - Begin(b, i)
  BY PiecesType
<1> HIDE DEF s
<1>3. PICK i \in 1 .. Len(s) : Len(Flat(s, i - 1)) < q /\ q <= Len(Flat(s, i))
  BY <1>1, FlatFind
<1>4. /\ Begin(b, i) \in Nat /\ End(b, i) \in Nat /\ Begin(b, i) <= End(b, i)
      /\ i \in 1 .. Len(b.buffers)
  BY <1>1, BufferFacts DEF Spans
<1>5. Place(b, i, Begin(b, i))
  BY <1>4 DEF Place
<1>6. Flat(s, i - 1) \in Seq(Bytes)
  BY <1>5, CutIs DEF s
<1>7. Flat(s, i) = Flat(s, i - 1) \o s[i]
  BY <1>1, <1>3, FlattenLast DEF Flat
<1>8. Len(Flat(s, i)) = Len(Flat(s, i - 1)) + (End(b, i) - Begin(b, i))
  <2>1. s[i] \in Seq(Bytes) /\ Len(s[i]) = End(b, i) - Begin(b, i)
    BY <1>2, <1>4
  <2>2. Len(Flat(s, i - 1) \o s[i]) = Len(Flat(s, i - 1)) + Len(s[i])
    BY <1>6, <2>1, ConcatProperties
  <2>3. QED
    BY <1>7, <2>1, <2>2
<1> DEFINE c == Len(Flat(s, i - 1))
           p == Begin(b, i) + (q - c)
<1>9. c \in Nat /\ q \in Nat /\ c < q /\ q <= c + (End(b, i) - Begin(b, i))
  BY <1>3, <1>6, <1>8
<1>10. c = Len(Flat(Pieces(b), i - 1))
  BY DEF s
<1> HIDE DEF c
<1>11. Place(b, i, p) /\ Begin(b, i) < p /\ Pos(b, i, p) = q
  <2>1. p \in Begin(b, i) + 1 .. End(b, i) /\ c + (p - Begin(b, i)) = q
    BY <1>4, <1>9
  <2>2. Pos(b, i, p) = c + (p - Begin(b, i))
    BY <1>10 DEF Pos
  <2> HIDE DEF p
  <2>3. QED
    BY <1>4, <2>1, <2>2 DEF Place
<1>12. QED
  BY <1>11

(* check_sep_() sees what has not been handed out, over all its buffers. *)
LEMMA SepAtIs ==
  ASSUME NEW b \in Buffer, Good(b), NEW i, NEW p, Place(b, i, p)
  PROVE  IsSepAt(b, i, p) <=> IsSuffix(Sep, SubSeq(Rest(b), 1, Pos(b, i, p)))
<1>1. /\ i \in 1 .. Len(b.buffers) /\ Len(b.buffers) \in Nat /\ b.readbuf = Len(b.buffers)
  BY BufferFacts DEF Place, Good
<1>2. ASSUME NEW k \in 1 .. i, k # i
      PROVE  Behind(b, k) = Piece(b, k)
  <2>1. k \in 1 .. Len(b.buffers) /\ k < Len(b.buffers)
    BY <1>1, <1>2
  <2>2. /\ Len(b.buffers[k].data) \in Nat \ {0} /\ b.offset \in Nat
        /\ k = 1 => b.offset < Len(b.buffers[1].data)
    <3>1. Len(b.buffers[k].data) \in 1 .. Bufsize
      BY <2>1 DEF Good, Filled
    <3>2. Len(b.buffers[k].data) \in Nat /\ b.offset \in Nat
      BY <2>1, BufferFacts
    <3>3. k = 1 => Len(b.buffers) # 1
      <4> DEFINE n == Len(b.buffers)
      <4>1. n \in Nat /\ k < n
        BY <1>1, <2>1
      <4> HIDE DEF n
      <4>2. k = 1 => n # 1
        BY <4>1
      <4>3. QED
        BY <4>2 DEF n
    <3>4. QED
      BY <3>1, <3>2, <3>3 DEF Good
  <2>3. Begin(b, k) # Len(b.buffers[k].data)
    BY <2>2 DEF Begin
  <2>4. QED
    BY <2>3 DEF Behind, Piece
<1> DEFINE f == [k \in 1 .. i |-> IF k = i THEN SubSeq(b.buffers[i].data, Begin(b, i) + 1, p)
                                  ELSE Behind(b, k)]
           g == [k \in 1 .. i |-> SubSeq(b.buffers[k].data, Begin(b, k) + 1,
                                         IF k = i THEN p ELSE End(b, k))]
<1>3. f = g
  <2>1. \A k \in 1 .. i : f[k] = g[k]
    BY <1>2 DEF Piece
  <2>2. QED
    BY <2>1
<1>4. FlattenSeq(g) = Cut(b, [buf |-> i, pos |-> p])
  BY DEF Cut
<1>5. IsSepAt(b, i, p) <=> IsSuffix(Sep, FlattenSeq(f))
  BY DEF IsSepAt
<1>6. SubSeq(Rest(b), 1, Pos(b, i, p)) = Cut(b, [buf |-> i, pos |-> p])
  BY GoodSpans, CutIs
<1> HIDE DEF f, g
<1>7. QED
  BY <1>3, <1>4, <1>5, <1>6
-----------------------------------------------------------------------------
(* The members that set_options assigns. *)
OptOK == \E o \in Options : opt = SetOptions(o)

LEMMA OptFacts ==
  ASSUME OptOK
  PROVE  /\ Bufsize \in Nat \ {0} /\ Minbuf \in Nat /\ Minbuf <= Bufsize
         /\ Sep \in Seq(Alphabet) /\ TrimSep \in BOOLEAN /\ MaxSize \in Nat
<1>1. PICK o \in Options : opt = SetOptions(o)
  BY DEF OptOK
<1>2. /\ o \in [sep : Seq(Alphabet), bufsize : Nat, maxbuf : Nat, minbuf : Nat,
                maxsize : Nat, trimsep : BOOLEAN]
      /\ DefBufsize \in Nat \ {0}
  BY ReadOptionsAssumption
<1>3. QED
  BY <1>1, <1>2 DEF SetOptions, Sep, TrimSep, Bufsize, Minbuf, MaxSize

(* Sequences that begin alike have flattenings that begin alike. *)
LEMMA SameFlat ==
  ASSUME NEW S, NEW s \in Seq(Seq(S)), NEW t \in Seq(Seq(S)),
         NEW j \in 0 .. Len(s), j <= Len(t), \A k \in 1 .. j : s[k] = t[k]
  PROVE  Flat(s, j) = Flat(t, j)
<1>1. SubSeq(s, 1, j) = SubSeq(t, 1, j)
  <2>1. j \in 0 .. Len(t) /\ j \in 0 .. Len(s)
    OBVIOUS
  <2> DEFINE a == SubSeq(s, 1, j)
             b == SubSeq(t, 1, j)
  <2>2. /\ a \in Seq(Seq(S)) /\ Len(a) = j /\ \A k \in 1 .. j : a[k] = s[k]
        /\ b \in Seq(Seq(S)) /\ Len(b) = j /\ \A k \in 1 .. j : b[k] = t[k]
    BY <2>1, Initial
  <2> HIDE DEF a, b
  <2>3. a = b
    BY <2>2, SeqEqual
  <2>4. QED
    BY <2>3 DEF a, b
<1>2. QED
  BY <1>1 DEF Flat

(* What the places of a buffer are, seen in another that begins with the   *)
(* same pieces.                                                            *)
LEMMA SamePos ==
  ASSUME NEW b \in Buffer, NEW c \in Buffer, Spans(b), Spans(c), NEW i \in Nat \ {0}, NEW p,
         i - 1 <= Len(b.buffers), i - 1 <= Len(c.buffers), b.offset = c.offset,
         \A k \in 1 .. i - 1 : Piece(b, k) = Piece(c, k)
  PROVE  Flat(Pieces(b), i - 1) = Flat(Pieces(c), i - 1) /\ Pos(b, i, p) = Pos(c, i, p)
<1> DEFINE s == Pieces(b)
           t == Pieces(c)
           m == Len(b.buffers)
           n == Len(c.buffers)
<1>1. /\ s \in Seq(Seq(Bytes)) /\ Len(s) = m /\ \A k \in 1 .. m : s[k] = Piece(b, k)
      /\ t \in Seq(Seq(Bytes)) /\ Len(t) = n /\ \A k \in 1 .. n : t[k] = Piece(c, k)
      /\ m \in Nat /\ n \in Nat /\ i - 1 <= m /\ i - 1 <= n
  BY PiecesType, BufferFacts
<1> HIDE DEF s, t, m, n
<1>0. m \in Nat /\ n \in Nat /\ i - 1 <= m /\ i - 1 <= n /\ Len(s) = m /\ Len(t) = n
  BY <1>1
<1>2. /\ i - 1 \in 0 .. Len(s) /\ i - 1 <= Len(t)
      /\ \A k \in 1 .. i - 1 : k \in 1 .. m /\ k \in 1 .. n
  BY <1>0
<1>3. \A k \in 1 .. i - 1 : s[k] = t[k]
  BY <1>1, <1>2
<1>4. Flat(s, i - 1) = Flat(t, i - 1)
  BY <1>1, <1>2, <1>3, SameFlat
<1>5. Begin(b, i) = Begin(c, i)
  BY DEF Begin
<1>6. QED
  BY <1>4, <1>5 DEF Pos, s, t
-----------------------------------------------------------------------------
(* The last buffer after a read of bytes, cut off behind them.  *)
Taken(b, bytes) == SubSeq(b.buffers[Len(b.buffers)].data, 1, b.readpos) \o bytes

(* What confirm() leaves: a buffer that holds nothing is given up.  *)
Confirmed(b, bytes) ==
  LET n == Len(b.buffers)
  IN  [b EXCEPT !.size = @ + Len(bytes), !.readbuf = 0, !.readpos = 0,
                !.buffers = IF Taken(b, bytes) = <<>> THEN SubSeq(@, 1, n - 1)
                            ELSE [@ EXCEPT ![n].data = Taken(b, bytes)]]

LEMMA GoodFacts ==
  ASSUME OptOK, NEW b \in Buffer, Good(b), NEW n, n = Len(b.buffers)
  PROVE  /\ n \in Nat \ {0} /\ n \in 1 .. n /\ b.readbuf = n
         /\ b.buffers[n] \in [id : Nat, data : Seq(Bytes)]
         /\ b.buffers[n].data \in Seq(Bytes)
         /\ Len(b.buffers[n].data) = Bufsize /\ Bufsize \in Nat /\ Minbuf \in Nat
         /\ b.readpos \in Nat /\ b.readpos < Bufsize
         /\ Window(b) = [id |-> b.buffers[n].id, pos |-> b.readpos,
                         len |-> Bufsize - b.readpos]
<1>1. n \in Nat /\ n > 0 /\ b.readbuf = n /\ Len(b.buffers[n].data) = Bufsize
      /\ b.readpos < Bufsize
  BY BufferFacts DEF Good
<1>2. n \in Nat \ {0} /\ n \in 1 .. n
  BY <1>1
<1>3. /\ b.buffers[n] \in [id : Nat, data : Seq(Bytes)] /\ b.readpos \in Nat
      /\ b.buffers[n].data \in Seq(Bytes)
  BY <1>2, BufferFacts
<1>4. Bufsize \in Nat /\ Minbuf \in Nat
  BY OptFacts
<1>5. QED
  BY <1>1, <1>2, <1>3, <1>4 DEF Window

LEMMA TakenIs ==
  ASSUME OptOK, NEW b \in Buffer, Good(b), NEW bytes \in Seq(Alphabet),
         Len(bytes) <= Bufsize - b.readpos
  PROVE  /\ Taken(b, bytes) \in Seq(Bytes)
         /\ Len(Taken(b, bytes)) = b.readpos + Len(bytes)
         /\ Taken(b, bytes) = <<>> <=> b.readpos = 0 /\ bytes = <<>>
         /\ \A i \in 1 .. b.readpos + Len(bytes) : Taken(b, bytes)[i] =
              IF i <= b.readpos THEN b.buffers[Len(b.buffers)].data[i]
              ELSE bytes[i - b.readpos]
<1> DEFINE n == Len(b.buffers)
           d == b.buffers[n].data
           a == SubSeq(d, 1, b.readpos)
           t == a \o bytes
<1>1. d \in Seq(Bytes) /\ Len(d) = Bufsize /\ Bufsize \in Nat
      /\ b.readpos \in Nat /\ b.readpos < Bufsize
  BY GoodFacts
<1> HIDE DEF d
<1>2. a \in Seq(Bytes) /\ Len(a) = b.readpos /\ \A i \in 1 .. b.readpos : a[i] = d[i]
  BY <1>1
<1>3. bytes \in Seq(Bytes) /\ Len(bytes) \in Nat
  BY DEF Bytes
<1> HIDE DEF a
<1>4. t \in Seq(Bytes) /\ Len(t) = Len(a) + Len(bytes)
      /\ \A i \in 1 .. Len(a) + Len(bytes) :
           t[i] = IF i <= Len(a) THEN a[i] ELSE bytes[i - Len(a)]
  BY <1>2, <1>3, ConcatProperties
<1>5. Taken(b, bytes) = t
  BY DEF Taken, a, d
<1> HIDE DEF t
<1>6. t = <<>> <=> b.readpos = 0 /\ bytes = <<>>
  <2>1. t = <<>> <=> Len(t) = 0
    BY <1>4
  <2>2. bytes = <<>> <=> Len(bytes) = 0
    OBVIOUS
  <2>3. QED
    BY <1>1, <1>2, <1>3, <1>4, <2>1, <2>2
<1>7. ASSUME NEW i \in 1 .. b.readpos + Len(bytes)
      PROVE  t[i] = IF i <= b.readpos THEN d[i] ELSE bytes[i - b.readpos]
  <2>1. CASE i <= b.readpos
    <3>1. i \in 1 .. b.readpos
      BY <1>1, <1>3, <2>1
    <3>2. QED
      BY <1>2, <1>4, <2>1, <3>1
  <2>2. CASE ~(i <= b.readpos)
    BY <1>2, <1>4, <2>2
  <2>3. QED
    BY <2>1, <2>2
<1>8. QED
  BY <1>2, <1>4, <1>5, <1>6, <1>7 DEF d

(* The kernel writes into one buffer, since no two have one address. *)
LEMMA StoreIs ==
  ASSUME OptOK, NEW b \in Buffer, Good(b), NEW bytes \in Seq(Alphabet),
         Len(bytes) <= Bufsize - b.readpos
  PROVE  Confirm(Store(b, Window(b), bytes), Window(b), Len(bytes)) = Confirmed(b, bytes)
<1> DEFINE n  == Len(b.buffers)
           w  == Window(b)
           l  == Len(bytes)
           d  == b.buffers[n].data
           nd == [i \in DOMAIN d |-> IF i \in w.pos + 1 .. w.pos + l THEN bytes[i - w.pos]
                                     ELSE d[i]]
           c  == Store(b, w, bytes)
           v  == c.buffers
           kept == Taken(b, bytes)
<1>1. /\ n \in Nat \ {0} /\ n \in 1 .. n /\ b.readbuf = n
      /\ d \in Seq(Bytes) /\ Len(d) = Bufsize /\ Bufsize \in Nat
      /\ b.readpos \in Nat /\ b.readpos < Bufsize
      /\ w.id = b.buffers[n].id /\ w.pos = b.readpos
  BY GoodFacts, SMTT(30)
<1>2. l \in Nat /\ b.readpos + l <= Bufsize
  BY <1>1
<1>3. /\ DOMAIN b.buffers = 1 .. n
      /\ \A k \in 1 .. n : b.buffers[k] \in [id : Nat, data : Seq(Bytes)]
      /\ \A k \in 1 .. n : b.buffers[k].id = w.id <=> k = n
  <2>1. \A j, k \in 1 .. n : b.buffers[j].id = b.buffers[k].id => j = k
    BY DEF Good, Filled
  <2>2. b.buffers \in Seq([id : Nat, data : Seq(Bytes)])
    BY BufferFacts
  <2>3. \A k \in 1 .. n : b.buffers[k] \in [id : Nat, data : Seq(Bytes)]
    BY BufferFacts
  <2>4. QED
    BY <1>1, <2>1, <2>2, <2>3, SMTT(30)
<1>4. v = [b.buffers EXCEPT ![n].data = nd]
  <2> DEFINE f == [k \in DOMAIN b.buffers |->
                IF b.buffers[k].id # w.id THEN b.buffers[k]
                ELSE [id   |-> w.id,
                      data |-> [i \in DOMAIN b.buffers[k].data |->
                                 IF i \in w.pos + 1 .. w.pos + Len(bytes)
                                 THEN bytes[i - w.pos] ELSE b.buffers[k].data[i]]]]
  <2>1. c = [b EXCEPT !.buffers = f]
    BY DEF Store
  <2> HIDE DEF f, c
  <2>2. c.buffers = f
    BY <2>1 DEF Buffer
  <2> USE DEF f
  <2>3. f = [b.buffers EXCEPT ![n].data = nd]
    BY <1>1, <1>3
  <2>4. QED
    BY <2>2, <2>3
<1>5. c = [b EXCEPT !.buffers = v]
  BY DEF Store, Buffer
<1>6. /\ nd \in Seq(Bytes) /\ Len(nd) = Bufsize
      /\ \A i \in 1 .. Bufsize : nd[i] =
           IF i \in b.readpos + 1 .. b.readpos + l THEN bytes[i - b.readpos] ELSE d[i]
  <2>1. DOMAIN d = 1 .. Bufsize
    BY <1>1
  <2> HIDE DEF d, w
  <2>2. \A i \in 1 .. Bufsize : nd[i] =
           IF i \in b.readpos + 1 .. b.readpos + l THEN bytes[i - b.readpos] ELSE d[i]
    BY <1>1, <2>1
  <2> HIDE DEF nd
  <2>3. ASSUME NEW i \in 1 .. Bufsize
        PROVE  nd[i] \in Bytes
    <3>1. d[i] \in Bytes
      BY <1>1
    <3>2. CASE i \in b.readpos + 1 .. b.readpos + l
      <4>1. i - b.readpos \in 1 .. Len(bytes)
        BY <1>1, <1>2, <3>2
      <4>2. bytes[i - b.readpos] \in Alphabet
        BY <4>1
      <4>3. QED
        BY <2>2, <3>2, <4>2 DEF Bytes
    <3>3. CASE ~(i \in b.readpos + 1 .. b.readpos + l)
      BY <2>2, <3>1, <3>3
    <3>4. QED
      BY <3>2, <3>3
  <2>4. nd = [i \in 1 .. Bufsize |-> nd[i]]
    BY <2>1 DEF nd
  <2>5. nd \in Seq(Bytes) /\ Len(nd) = Bufsize
    <3> DEFINE m == Bufsize
    <3>1. m \in Nat /\ nd \in [1 .. m -> Bytes]
      BY <1>1, <2>3, <2>4
    <3> HIDE DEF m
    <3>2. nd \in Seq(Bytes) /\ Len(nd) = m
      BY <3>1
    <3>3. QED
      BY <3>2 DEF m
  <2>6. QED
    BY <2>2, <2>5
<1> HIDE DEF w, d, nd, c, kept
<1>7. SubSeq(nd, 1, b.readpos + l) = kept
  <2> DEFINE x == SubSeq(nd, 1, b.readpos + l)
  <2>1. x \in Seq(Bytes) /\ Len(x) = b.readpos + l
        /\ \A i \in 1 .. b.readpos + l : x[i] = nd[i]
    BY <1>1, <1>2, <1>6
  <2>2. kept \in Seq(Bytes) /\ Len(kept) = b.readpos + l
        /\ \A i \in 1 .. b.readpos + l : kept[i] =
             IF i <= b.readpos THEN d[i] ELSE bytes[i - b.readpos]
    BY TakenIs DEF kept, d
  <2>3. ASSUME NEW i \in 1 .. b.readpos + l
        PROVE  x[i] = kept[i]
    <3>1. i \in 1 .. Bufsize /\ (i \in b.readpos + 1 .. b.readpos + l <=> ~(i <= b.readpos))
      BY <1>1, <1>2
    <3>2. nd[i] = IF i <= b.readpos THEN d[i] ELSE bytes[i - b.readpos]
      BY <1>6, <3>1
    <3>3. QED
      BY <2>1, <2>2, <3>2
  <2> HIDE DEF x
  <2>4. x = kept
    BY <2>1, <2>2, <2>3, SeqEqual
  <2>5. QED
    BY <2>4 DEF x
<1>8. /\ v[n] = [b.buffers[n] EXCEPT !.data = nd] /\ Len(v) = n
      /\ v[n].data = nd /\ v[n].id = b.buffers[n].id
  <2>1. n \in DOMAIN b.buffers
    BY <1>1, <1>3
  <2>2. b.buffers[n] \in [id : Nat, data : Seq(Bytes)]
    BY <1>1, <1>3
  <2>3. b.buffers \in Seq([id : Nat, data : Seq(Bytes)])
    BY BufferFacts
  <2>4. v[n] = [b.buffers[n] EXCEPT !.data = nd]
    BY <1>4, <2>1
  <2>5. v[n].data = nd /\ v[n].id = b.buffers[n].id
    BY <2>2, <2>4
  <2>6. Len(v) = n
    <3> DEFINE u == b.buffers
    <3>1. u \in Seq([id : Nat, data : Seq(Bytes)]) /\ v = [u EXCEPT ![n].data = nd]
          /\ DOMAIN u = 1 .. n /\ n \in Nat
      BY <1>1, <1>3, <1>4, <2>3
    <3>2. v = [k \in 1 .. n |-> v[k]]
      BY <3>1
    <3>3. QED
      BY <1>1, <3>2
  <2>7. QED
    BY <2>4, <2>5, <2>6
<1>9. /\ c.readbuf = n /\ c.readpos = b.readpos
      /\ c.size = b.size /\ c.buffers = v
  BY <1>1, <1>5 DEF Buffer
<1>10. CanConfirm(c, w, l)
  <2>1. c.buffers[c.readbuf].id = w.id /\ Len(c.buffers[c.readbuf].data) = Bufsize
    BY <1>1, <1>6, <1>8, <1>9
  <2>2. QED
    BY <1>1, <1>2, <1>8, <1>9, <2>1 DEF CanConfirm, Waiting
<1>11. Confirm(c, w, l) = [c EXCEPT !.size = @ + l, !.readbuf = 0, !.readpos = 0,
          !.buffers = IF kept = <<>> THEN RemoveAt(v, n) ELSE [v EXCEPT ![n].data = kept]]
  <2>1. SubSeq(c.buffers[c.readbuf].data, 1, c.readpos + l) = kept
    BY <1>7, <1>8, <1>9
  <2>2. QED
    BY <1>9, <1>10, <2>1 DEF Confirm
<1>12. RemoveAt(v, n) = SubSeq(b.buffers, 1, n - 1)
  <2> DEFINE u == b.buffers
             S == [id : Nat, data : Seq(Bytes)]
  <2>1. u \in Seq(S) /\ Len(u) = n /\ n \in Nat \ {0} /\ DOMAIN u = 1 .. n
    BY <1>1, <1>3, BufferFacts
  <2>2. v = [u EXCEPT ![n].data = nd]
    BY <1>4
  <2> HIDE DEF u, S, v, n
  <2>3. \A k \in 1 .. n - 1 : v[k] = u[k]
    BY <2>1, <2>2
  <2>4. Len(v) = n
    BY <1>8 DEF n
  <2>5. SubSeq(v, 1, n - 1) = SubSeq(u, 1, n - 1) /\ SubSeq(u, 1, n - 1) \in Seq(S)
    BY <2>1, <2>3
  <2>6. SubSeq(v, n + 1, n) = <<>>
    BY <2>1
  <2>7. SubSeq(u, 1, n - 1) \o <<>> = SubSeq(u, 1, n - 1)
    <3> DEFINE z == SubSeq(u, 1, n - 1)
    <3> HIDE DEF z
    <3>1. z \in Seq(S)
      BY <2>5 DEF z
    <3>2. z \o <<>> = z
      BY <3>1
    <3>3. QED
      BY <3>2 DEF z
  <2>8. QED
    BY <2>4, <2>5, <2>6, <2>7 DEF RemoveAt, u
<1>13. [v EXCEPT ![n].data = kept] = [b.buffers EXCEPT ![n].data = kept]
  <2>1. DOMAIN v = 1 .. n /\ \A k \in 1 .. n : k # n => v[k] = b.buffers[k]
    BY <1>3, <1>4
  <2>2. [v[n] EXCEPT !.data = kept] = [b.buffers[n] EXCEPT !.data = kept]
    BY <1>1, <1>3, <1>8
  <2>3. QED
    BY <1>3, <2>1, <2>2
<1>14. QED
  <2>1. Confirm(c, w, l) = [b EXCEPT !.size = @ + l, !.readbuf = 0, !.readpos = 0,
          !.buffers = IF kept = <<>> THEN SubSeq(b.buffers, 1, n - 1)
                      ELSE [b.buffers EXCEPT ![n].data = kept]]
    <3> DEFINE z == IF kept = <<>> THEN RemoveAt(v, n) ELSE [v EXCEPT ![n].data = kept]
               y == IF kept = <<>> THEN SubSeq(b.buffers, 1, n - 1)
                    ELSE [b.buffers EXCEPT ![n].data = kept]
    <3>1. z = y
      BY <1>12, <1>13
    <3> HIDE DEF z, y, v
    <3>2. [c EXCEPT !.size = @ + l, !.readbuf = 0, !.readpos = 0, !.buffers = z]
          = [b EXCEPT !.size = @ + l, !.readbuf = 0, !.readpos = 0, !.buffers = z]
      BY <1>5 DEF Buffer
    <3>3. QED
      BY <1>11, <3>1, <3>2 DEF z, y, v
  <2>2. QED
    BY <2>1 DEF Confirmed, kept, c, w, l, n
-----------------------------------------------------------------------------
(* What confirm() changes. *)
LEMMA ConfirmedIs ==
  ASSUME OptOK, NEW b \in Buffer, Good(b), NEW bytes \in Seq(Alphabet),
         Len(bytes) <= Bufsize - b.readpos
  PROVE  LET c == Confirmed(b, bytes)
             n == Len(b.buffers)
         IN  /\ c \in Buffer /\ c.size = b.size + Len(bytes) /\ c.offset = b.offset
             /\ c.readbuf = 0 /\ c.readpos = 0
             /\ c.parsebuf = b.parsebuf /\ c.parsepos = b.parsepos
             /\ \A k \in 1 .. n - 1 : c.buffers[k] = b.buffers[k]
             /\ IF Taken(b, bytes) = <<>> THEN Len(c.buffers) = n - 1
                ELSE /\ Len(c.buffers) = n /\ c.buffers[n].id = b.buffers[n].id
                     /\ c.buffers[n].data = Taken(b, bytes)
<1> DEFINE c == Confirmed(b, bytes)
           n == Len(b.buffers)
           u == b.buffers
           S == [id : Nat, data : Seq(Bytes)]
           t == Taken(b, bytes)
           v == IF t = <<>> THEN SubSeq(u, 1, n - 1) ELSE [u EXCEPT ![n].data = t]
<1>1. /\ n \in Nat \ {0} /\ n \in 1 .. n /\ u \in Seq(S) /\ u[n] \in S
      /\ b.size \in Nat
  BY GoodFacts, BufferFacts
<1>2. t \in Seq(Bytes) /\ Len(bytes) \in Nat
  BY TakenIs
<1>3. b \in [size : Nat, offset : Nat, readbuf : Nat, readpos : Nat,
             parsebuf : Nat \ {0}, parsepos : Nat, buffers : Seq(S)]
  BY DEF Buffer, Bytes
<1>4. c = [b EXCEPT !.size = @ + Len(bytes), !.readbuf = 0, !.readpos = 0, !.buffers = v]
  BY DEF Confirmed
<1> HIDE DEF t, c
<1>5. /\ v \in Seq(S) /\ \A k \in 1 .. n - 1 : v[k] = u[k]
      /\ t = <<>> => Len(v) = n - 1
      /\ t # <<>> => Len(v) = n /\ v[n].id = u[n].id /\ v[n].data = t
  <2> DEFINE x == [u[n] EXCEPT !.data = t]
             y == [u EXCEPT ![n] = x]
  <2>1. x \in S /\ x.id = u[n].id /\ x.data = t
    BY <1>1, <1>2
  <2>2. [u EXCEPT ![n].data = t] = y
    OBVIOUS
  <2>3. n \in 1 .. Len(u)
    BY <1>1
  <2> HIDE DEF x, u
  <2>4. y \in Seq(S) /\ Len(y) = Len(u) /\ \A k \in 1 .. Len(u) : y[k] = IF k = n THEN x ELSE u[k]
    BY <1>1, <2>1, <2>3, ExceptSeq, SMTT(30)
  <2>5. n = Len(u)
    BY DEF u
  <2> HIDE DEF n, y, S
  <2>6. CASE t = <<>>
    <3>1. v = SubSeq(u, 1, n - 1)
      BY <2>6
    <3>2. SubSeq(u, 1, n - 1) \in Seq(S) /\ Len(SubSeq(u, 1, n - 1)) = n - 1
          /\ \A k \in 1 .. n - 1 : SubSeq(u, 1, n - 1)[k] = u[k]
      BY <1>1, <2>5
    <3>3. QED
      BY <2>6, <3>1, <3>2
  <2>7. CASE t # <<>>
    <3>1. v = y
      BY <2>2, <2>7
    <3>2. y[n] = x /\ \A k \in 1 .. n - 1 : y[k] = u[k]
      BY <1>1, <2>4, <2>5
    <3> HIDE DEF v
    <3>3. QED
      BY <2>1, <2>4, <2>5, <2>7, <3>1, <3>2
  <2>8. QED
    BY <2>6, <2>7
<1> HIDE DEF v, u, n
<1>6. /\ c \in Buffer /\ c.size = b.size + Len(bytes) /\ c.offset = b.offset
      /\ c.readbuf = 0 /\ c.readpos = 0
      /\ c.parsebuf = b.parsebuf /\ c.parsepos = b.parsepos
      /\ c.buffers = v
  <2> DEFINE B == [size : Nat, offset : Nat, readbuf : Nat, readpos : Nat,
             parsebuf : Nat \ {0}, parsepos : Nat, buffers : Seq(S)]
  <2>1. B = Buffer
    BY DEF Buffer, Bytes
  <2> HIDE DEF S
  <2> DEFINE z == b.size + Len(bytes)
  <2>2. c = [b EXCEPT !.size = z, !.readbuf = 0, !.readpos = 0, !.buffers = v]
    BY <1>4
  <2>3. z \in Nat /\ v \in Seq(S)
    BY <1>1, <1>2, <1>5
  <2> DEFINE Q == Seq(S)
  <2> HIDE DEF z, Q
  <2>4. /\ c \in B /\ c.size = z /\ c.offset = b.offset
        /\ c.readbuf = 0 /\ c.readpos = 0
        /\ c.parsebuf = b.parsebuf /\ c.parsepos = b.parsepos
        /\ c.buffers = v
    <3>1. v \in Q /\ b \in [size : Nat, offset : Nat, readbuf : Nat, readpos : Nat,
             parsebuf : Nat \ {0}, parsepos : Nat, buffers : Q]
      BY <1>3, <2>3 DEF Q
    <3>2. c \in [size : Nat, offset : Nat, readbuf : Nat, readpos : Nat,
             parsebuf : Nat \ {0}, parsepos : Nat, buffers : Q]
      BY <2>2, <2>3, <3>1
    <3>3. QED
      BY <2>2, <3>1, <3>2 DEF Q
  <2>5. QED
    BY <2>1, <2>4 DEF z
<1>7. QED
  BY <1>5, <1>6 DEF c, n, u, t

LEMMA ConfirmedSettles ==
  ASSUME OptOK, NEW b \in Buffer, Good(b), NEW bytes \in Seq(Alphabet),
         Len(bytes) <= Bufsize - b.readpos
  PROVE  Settled(Confirmed(b, bytes))
<1> DEFINE c == Confirmed(b, bytes)
           n == Len(b.buffers)
           t == Taken(b, bytes)
           D(k) == b.buffers[k].data
<1>1. /\ c \in Buffer /\ c.size = b.size + Len(bytes) /\ c.offset = b.offset
      /\ c.readbuf = 0 /\ c.readpos = 0
      /\ c.parsebuf = b.parsebuf /\ c.parsepos = b.parsepos
      /\ \A k \in 1 .. n - 1 : c.buffers[k] = b.buffers[k]
      /\ IF t = <<>> THEN Len(c.buffers) = n - 1
         ELSE Len(c.buffers) = n /\ c.buffers[n].id = b.buffers[n].id /\ c.buffers[n].data = t
  BY ConfirmedIs
<1>2. /\ n \in Nat \ {0} /\ b.readbuf = n /\ Bufsize \in Nat /\ Minbuf \in Nat
      /\ b.readpos \in Nat /\ b.readpos < Bufsize /\ b.offset \in Nat
      /\ b.parsebuf \in Nat \ {0} /\ b.parsepos \in Nat
  BY GoodFacts, BufferFacts
<1>3. /\ Len(t) = b.readpos + Len(bytes) /\ Len(bytes) \in Nat
      /\ t = <<>> <=> b.readpos = 0 /\ bytes = <<>>
      /\ bytes = <<>> <=> Len(bytes) = 0
  BY TakenIs
<1>4. /\ \A k \in 1 .. n : Len(D(k)) \in 1 .. Bufsize /\ (k < n => ~Roomy(b, k))
      /\ \A j, k \in 1 .. n : b.buffers[j].id = b.buffers[k].id => j = k
      /\ b.readpos # 0 => Minbuf # 0 /\ Bufsize - b.readpos > Minbuf
      /\ IF n = 1 THEN b.offset <= b.readpos ELSE b.offset < Len(D(1))
      /\ Cursor(b)
  BY DEF Good, Filled
<1>5. \A k \in 1 .. n - 1 : Roomy(c, k) <=> Roomy(b, k)
  BY <1>1 DEF Roomy
<1>6. /\ b.parsebuf \in 1 .. n /\ Begin(b, b.parsebuf) <= b.parsepos
      /\ b.parsepos <= End(b, b.parsebuf)
      /\ b.parsebuf < n => b.parsepos < Len(D(b.parsebuf))
      /\ b.parsebuf = n => b.parsepos <= b.readpos
  BY <1>2, <1>4 DEF Cursor, End
<1>7. Begin(c, c.parsebuf) = Begin(b, b.parsebuf)
  BY <1>1 DEF Begin
<1>8. \A k \in 1 .. n - 1 : k \in 1 .. n /\ k < n /\ End(c, k) = Len(D(k))
  BY <1>1, <1>2, SMTT(30) DEF End
<1> HIDE DEF c, t, n
<1>9. CASE t = <<>>
  <2>1. Len(c.buffers) = n - 1 /\ b.readpos = 0 /\ n - 1 \in Nat
    <3>1. Len(c.buffers) = n - 1
      BY <1>1, <1>9
    <3>2. b.readpos = 0
      BY <1>3, <1>9
    <3>3. n - 1 \in Nat
      BY <1>2
    <3>4. QED
      BY <3>1, <3>2, <3>3
  <2> DEFINE m == n - 1
  <2>2. /\ m \in Nat /\ n = m + 1 /\ Len(c.buffers) = m
        /\ \A k \in 1 .. m : k \in 1 .. n /\ k < n
    BY <1>2, <2>1
  <2>3. Filled(c)
    <3>1. \A k \in 1 .. m : Len(c.buffers[k].data) \in 1 .. Bufsize /\ ~Roomy(c, k)
      BY <1>1, <1>4, <1>5, <2>2
    <3>2. \A j, k \in 1 .. m : c.buffers[j].id = c.buffers[k].id => j = k
      BY <1>1, <1>4, <2>2
    <3>3. QED
      BY <2>2, <3>1, <3>2 DEF Filled
  <2>4. /\ m = 0 => c.offset = 0
        /\ m > 0 => c.offset < Len(c.buffers[1].data)
    BY <1>1, <1>2, <1>4, <2>1, <2>2
  <2>5. Cursor(c) \/ (c.parsebuf = m + 1 /\ c.parsepos = 0 /\ (m > 0 => ~Roomy(c, m)))
    <3>1. CASE b.parsebuf = n
      <4>1. c.parsebuf = m + 1 /\ c.parsepos = 0
        BY <1>1, <1>2, <1>6, <2>1, <2>2, <3>1
      <4>2. m > 0 => m \in 1 .. n - 1
        BY <2>2
      <4>3. m > 0 => ~Roomy(c, m)
        BY <1>4, <1>5, <1>8, <4>2
      <4>4. QED
        BY <4>1, <4>3
    <3>2. CASE b.parsebuf # n
      <4>1. c.parsebuf \in 1 .. m /\ c.parsebuf < n /\ c.parsepos < Len(D(c.parsebuf))
        BY <1>1, <1>2, <1>6, <2>2, <3>2
      <4>2. c.parsebuf \in 1 .. n - 1
        BY <4>1
      <4>3. End(c, c.parsebuf) = Len(D(c.parsebuf))
            /\ Len(D(c.parsebuf)) \in Nat
            /\ Len(c.buffers[c.parsebuf].data) = Len(D(c.parsebuf))
        BY <1>1, <1>4, <1>8, <4>2, SMTT(30)
      <4>4. c.parsepos <= End(c, c.parsebuf)
        <5> DEFINE e == End(c, c.parsebuf)
        <5>1. e = Len(D(c.parsebuf)) /\ e \in Nat /\ c.parsepos < Len(D(c.parsebuf))
          BY <4>1, <4>3
        <5>2. c.parsepos \in Nat /\ c.parsepos < e
          BY <1>1, <1>2, <5>1
        <5> HIDE DEF e
        <5>3. c.parsepos <= e
          BY <5>1, <5>2
        <5>4. QED
          BY <5>3 DEF e
      <4>5. Begin(c, c.parsebuf) <= c.parsepos
        BY <1>1, <1>6, <1>7
      <4>6. QED
        BY <2>2, <4>1, <4>3, <4>4, <4>5 DEF Cursor
    <3>3. QED
      BY <3>1, <3>2
  <2> HIDE DEF m
  <2>6. c.offset \in Nat /\ (m > 0 => Len(c.buffers[1].data) \in Nat)
    <3>1. m > 0 => 1 \in 1 .. m
      BY <2>2
    <3>2. QED
      BY <1>1, <2>2, <3>1, BufferFacts
  <2> DEFINE L == Len(c.buffers[1].data)
  <2>7. /\ m = 0 => c.offset = 0
        /\ m = 1 => c.offset <= L /\ (c.offset = L => Roomy(c, 1))
        /\ m > 1 => c.offset < L
    <3> HIDE DEF L
    <3>1. m > 0 => c.offset < L /\ L \in Nat /\ c.offset \in Nat
      BY <2>4, <2>6 DEF L
    <3>2. m = 1 \/ m > 1 => c.offset <= L /\ c.offset # L /\ c.offset < L
      BY <2>2, <3>1
    <3>3. QED
      BY <2>2, <2>4, <3>2
  <2>8. c.readbuf = 0 /\ c.readpos = 0 /\ Len(c.buffers) = m
    BY <1>1, <2>2
  <2> HIDE DEF L
  <2>9. QED
    BY <2>3, <2>5, <2>7, <2>8 DEF Settled, L, c
<1>10. CASE t # <<>>
  <2>1. /\ Len(c.buffers) = n /\ c.buffers[n].id = b.buffers[n].id /\ c.buffers[n].data = t
        /\ Len(t) \in 1 .. Bufsize
    BY <1>1, <1>2, <1>3, <1>10
  <2>2. \A k \in 1 .. n : k = n \/ (k \in 1 .. n - 1 /\ k < n)
    BY <1>2
  <2>3. \A k \in 1 .. n : c.buffers[k].id = b.buffers[k].id
    BY <1>1, <2>1, <2>2
  <2>4. Filled(c)
    <3>1. \A k \in 1 .. n : Len(c.buffers[k].data) \in 1 .. Bufsize /\ (k < n => ~Roomy(c, k))
      <4>1. ASSUME NEW k \in 1 .. n
            PROVE  Len(c.buffers[k].data) \in 1 .. Bufsize /\ (k < n => ~Roomy(c, k))
        <5>1. CASE k = n
          BY <1>2, <2>1, <5>1
        <5>2. CASE k \in 1 .. n - 1 /\ k < n
          BY <1>1, <1>4, <1>5, <5>2
        <5>3. QED
          BY <2>2, <5>1, <5>2
      <4>2. QED
        BY <4>1
    <3>2. \A j, k \in 1 .. n : c.buffers[j].id = c.buffers[k].id => j = k
      BY <1>4, <2>3
    <3>3. QED
      BY <2>1, <3>1, <3>2 DEF Filled
  <2>5. /\ n = 1 => c.offset <= Len(c.buffers[1].data)
        /\ n = 1 /\ c.offset = Len(c.buffers[1].data) => Roomy(c, 1)
    <3> SUFFICES ASSUME n = 1
                 PROVE  /\ c.offset <= Len(c.buffers[1].data)
                        /\ c.offset = Len(c.buffers[1].data) => Roomy(c, 1)
      OBVIOUS
    <3>1. c.buffers[1].data = t /\ c.offset <= b.readpos
      BY <1>1, <1>4, <2>1
    <3>2. c.offset <= Len(t) /\ (c.offset = Len(t) => Len(t) = b.readpos)
      BY <1>1, <1>2, <1>3, <3>1
    <3>3. Len(t) = b.readpos => Minbuf # 0 /\ Bufsize - Len(t) > Minbuf
      BY <1>2, <1>3, <1>4, <1>10
    <3>4. QED
      BY <3>1, <3>2, <3>3 DEF Roomy
  <2>6. n > 1 => c.offset < Len(c.buffers[1].data)
    <3>1. n > 1 => 1 \in 1 .. n - 1
      BY <1>2
    <3>2. QED
      BY <1>1, <1>2, <1>4, <3>1
  <2>7. Cursor(c)
    <3>1. c.parsebuf \in 1 .. n /\ Begin(c, c.parsebuf) <= c.parsepos
      BY <1>1, <1>6, <1>7
    <3>2. CASE b.parsebuf = n
      <4>1. End(c, c.parsebuf) = Len(t)
        BY <1>1, <1>2, <2>1, <3>2 DEF End
      <4>2. c.parsepos <= Len(t)
        BY <1>1, <1>2, <1>3, <1>6, <3>2
      <4>3. ~(c.parsebuf < n)
        BY <1>1, <1>2, <3>2
      <4>4. QED
        BY <2>1, <3>1, <4>1, <4>2, <4>3 DEF Cursor
    <3>3. CASE b.parsebuf # n
      <4>1. c.parsebuf \in 1 .. n - 1 /\ c.parsepos < Len(D(c.parsebuf))
        BY <1>1, <1>2, <1>6, <3>3
      <4>2. /\ End(c, c.parsebuf) = Len(D(c.parsebuf))
            /\ Len(D(c.parsebuf)) \in Nat
            /\ Len(c.buffers[c.parsebuf].data) = Len(D(c.parsebuf))
        <5>1. c.parsebuf \in 1 .. n
          BY <1>8, <4>1
        <5>2. Len(D(c.parsebuf)) \in Nat
          BY <1>4, <5>1
        <5>3. QED
          BY <1>1, <1>8, <4>1, <5>2
      <4>3. c.parsepos <= End(c, c.parsebuf)
        <5> DEFINE e == End(c, c.parsebuf)
        <5>1. e = Len(D(c.parsebuf)) /\ e \in Nat /\ c.parsepos < Len(D(c.parsebuf))
          BY <4>1, <4>2
        <5>2. c.parsepos \in Nat /\ c.parsepos < e
          BY <1>1, <1>2, <5>1
        <5> HIDE DEF e
        <5>3. c.parsepos <= e
          BY <5>1, <5>2
        <5>4. QED
          BY <5>3 DEF e
      <4>4. QED
        BY <2>1, <3>1, <4>1, <4>2, <4>3 DEF Cursor
    <3>4. QED
      BY <3>2, <3>3
  <2>8. n = 0 => c.offset = 0
    BY <1>2
  <2>9. c.readbuf = 0 /\ c.readpos = 0 /\ Len(c.buffers) = n
    BY <1>1, <2>1
  <2>10. QED
    BY <2>4, <2>5, <2>6, <2>7, <2>8, <2>9 DEF Settled, c
<1>11. QED
  BY <1>9, <1>10

(* A piece that grows at its end. *)
LEMMA TailOfConcat ==
  ASSUME NEW S, NEW x \in Seq(S), NEW y \in Seq(S), NEW m \in 0 .. Len(x)
  PROVE  SubSeq(x \o y, m + 1, Len(x) + Len(y)) = SubSeq(x, m + 1, Len(x)) \o y
<1> DEFINE w == x \o y
           p == SubSeq(w, m + 1, Len(x) + Len(y))
           a == SubSeq(x, m + 1, Len(x))
           q == a \o y
<1>1. /\ w \in Seq(S) /\ Len(w) = Len(x) + Len(y)
      /\ \A i \in 1 .. Len(x) + Len(y) : w[i] = IF i <= Len(x) THEN x[i] ELSE y[i - Len(x)]
  BY ConcatProperties
<1>2. Len(x) \in Nat /\ Len(y) \in Nat /\ m \in Nat /\ m <= Len(x)
  OBVIOUS
<1> HIDE DEF w
<1>3. /\ p \in Seq(S) /\ Len(p) = Len(x) + Len(y) - m
      /\ \A i \in 1 .. Len(x) + Len(y) - m : p[i] = w[m + i]
  <2>1. \A i \in m + 1 .. Len(x) + Len(y) : w[i] \in S
    BY <1>1, <1>2
  <2>2. m + 1 \in Int /\ Len(x) + Len(y) \in Int
    BY <1>2
  <2> DEFINE k == m + 1
             e == Len(x) + Len(y)
  <2> HIDE DEF k, e
  <2>3. /\ SubSeq(w, k, e) \in Seq(S)
        /\ Len(SubSeq(w, k, e)) = IF k <= e THEN e - k + 1 ELSE 0
        /\ \A i \in 1 .. e - k + 1 : SubSeq(w, k, e)[i] = w[k + i - 1]
    BY <2>1, <2>2, SubSeqProperties DEF k, e
  <2>4. e - k + 1 = Len(x) + Len(y) - m /\ (~(k <= e) => Len(x) + Len(y) - m = 0)
        /\ \A i \in Nat : k + i - 1 = m + i
    BY <1>2 DEF k, e
  <2>5. QED
    BY <2>3, <2>4 DEF k, e
<1>4. /\ a \in Seq(S) /\ Len(a) = Len(x) - m
      /\ \A i \in 1 .. Len(x) - m : a[i] = x[m + i]
  BY <1>2
<1> HIDE DEF a, p
<1>5. /\ q \in Seq(S) /\ Len(q) = Len(a) + Len(y)
      /\ \A i \in 1 .. Len(a) + Len(y) : q[i] = IF i <= Len(a) THEN a[i] ELSE y[i - Len(a)]
  BY <1>4, ConcatProperties
<1> HIDE DEF q
<1>6. Len(p) = Len(q)
  BY <1>2, <1>3, <1>4, <1>5
<1>7. ASSUME NEW i \in 1 .. Len(p)
      PROVE  p[i] = q[i]
  <2>1. i \in Nat /\ i >= 1 /\ i <= Len(x) + Len(y) - m /\ p[i] = w[m + i]
    BY <1>2, <1>3
  <2>2. m + i \in 1 .. Len(x) + Len(y) /\ i \in 1 .. Len(a) + Len(y)
    BY <1>2, <1>4, <2>1
  <2>3. CASE i <= Len(x) - m
    <3>1. m + i <= Len(x) /\ i \in 1 .. Len(x) - m /\ i <= Len(a)
      BY <1>2, <1>4, <2>1, <2>3
    <3>2. w[m + i] = x[m + i] /\ q[i] = a[i] /\ a[i] = x[m + i]
      BY <1>1, <1>4, <1>5, <2>2, <3>1
    <3>3. QED
      BY <2>1, <3>2
  <2>4. CASE ~(i <= Len(x) - m)
    <3>1. ~(m + i <= Len(x)) /\ ~(i <= Len(a)) /\ m + i - Len(x) = i - Len(a)
      BY <1>2, <1>4, <2>1, <2>4
    <3>2. w[m + i] = y[m + i - Len(x)] /\ q[i] = y[i - Len(a)]
      BY <1>1, <1>5, <2>2, <3>1, SMTT(30)
    <3>3. QED
      BY <2>1, <3>1, <3>2
  <2>5. QED
    BY <2>3, <2>4
<1>8. p = q
  BY <1>3, <1>5, <1>6, <1>7, SeqEqual
<1>9. QED
  BY <1>8 DEF p, q, a, w

LEMMA ConfirmedRest ==
  ASSUME OptOK, NEW b \in Buffer, Good(b), NEW bytes \in Seq(Alphabet),
         Len(bytes) <= Bufsize - b.readpos
  PROVE  LET c == Confirmed(b, bytes)
         IN  /\ Rest(c) = Rest(b) \o bytes /\ Cur(c) = Cur(b)
             /\ Rest(b) \in Seq(Bytes) /\ Rest(c) \in Seq(Bytes)
<1> DEFINE c == Confirmed(b, bytes)
           n == Len(b.buffers)
           d == b.buffers[n].data
           T == Taken(b, bytes)
           s == Pieces(b)
           t == Pieces(c)
           B == Begin(b, n)
           r == b.readpos
<1>1. /\ c \in Buffer /\ c.offset = b.offset /\ c.readbuf = 0
      /\ c.parsebuf = b.parsebuf /\ c.parsepos = b.parsepos
      /\ \A k \in 1 .. n - 1 : c.buffers[k] = b.buffers[k]
      /\ IF T = <<>> THEN Len(c.buffers) = n - 1
         ELSE Len(c.buffers) = n /\ c.buffers[n].data = T
  BY ConfirmedIs
<1>2. /\ n \in Nat \ {0} /\ n \in 1 .. n /\ b.readbuf = n /\ d \in Seq(Bytes)
      /\ Len(d) = Bufsize /\ Bufsize \in Nat
      /\ r \in Nat /\ r < Bufsize /\ B \in Nat
  BY GoodFacts, BufferFacts
<1>3. Settled(c)
  BY ConfirmedSettles
<1> HIDE DEF c
<1>4. Spans(b) /\ Spans(c)
  BY <1>1, <1>3, GoodSpans
<1>5. B <= r
  BY <1>2, <1>4 DEF Spans, End
<1>6. /\ s \in Seq(Seq(Bytes)) /\ Len(s) = n /\ \A k \in 1 .. n : s[k] = Piece(b, k)
      /\ t \in Seq(Seq(Bytes)) /\ Len(t) = Len(c.buffers)
      /\ \A k \in 1 .. Len(c.buffers) : t[k] = Piece(c, k)
      /\ Rest(b) = Flat(s, n) /\ Rest(c) = Flat(t, Len(c.buffers))
      /\ Rest(b) \in Seq(Bytes) /\ Rest(c) \in Seq(Bytes)
  BY <1>1, <1>4, PiecesType, RestIs
<1>7. \A k \in 1 .. n - 1 : Piece(b, k) = Piece(c, k)
  <2>1. ASSUME NEW k \in 1 .. n - 1
        PROVE  Piece(b, k) = Piece(c, k)
    <3>1. k # n /\ k # 0
      BY <1>2
    <3>2. c.buffers[k] = b.buffers[k] /\ Begin(c, k) = Begin(b, k) /\ End(c, k) = End(b, k)
      BY <1>1, <1>2, <3>1 DEF Begin, End
    <3>3. QED
      BY <3>2 DEF Piece
  <2>2. QED
    BY <2>1
<1>8. bytes \in Seq(Bytes)
  BY DEF Bytes
<1> HIDE DEF n, s, t
<1>9. \A i \in 1 .. n : /\ Flat(s, i - 1) = Flat(t, i - 1)
                        /\ \A p : Pos(b, i, p) = Pos(c, i, p)
  <2>1. ASSUME NEW i \in 1 .. n, NEW p
        PROVE  Flat(s, i - 1) = Flat(t, i - 1) /\ Pos(b, i, p) = Pos(c, i, p)
    <3>1. i \in Nat \ {0} /\ i - 1 <= n /\ i - 1 <= n - 1 /\ \A k \in 1 .. i - 1 : k \in 1 .. n - 1
      BY <1>2
    <3>2. i - 1 <= Len(b.buffers) /\ i - 1 <= Len(c.buffers)
      BY <1>1, <3>1 DEF n
    <3>3. \A k \in 1 .. i - 1 : Piece(b, k) = Piece(c, k)
      BY <1>7, <3>1
    <3>4. QED
      BY <1>1, <1>4, <3>1, <3>2, <3>3, SamePos DEF s, t
  <2>2. QED
    BY <2>1
<1>10. Cur(c) = Cur(b)
  <2>1. b.parsebuf \in 1 .. n
    BY DEF Good, Cursor, n
  <2>2. QED
    BY <1>1, <1>9, <2>1 DEF Cur
<1>11. s[n] = SubSeq(d, B + 1, r)
  BY <1>2, <1>6 DEF Piece, End, n
<1>12. /\ Flat(s, n - 1) \in Seq(Bytes) /\ s[n] \in Seq(Bytes)
       /\ Flat(s, n) = Flat(s, n - 1) \o s[n]
  <2>1. n - 1 \in 0 .. n /\ n \in 0 .. n /\ n \in 1 .. Len(s)
    BY <1>2, <1>6
  <2>2. Flat(s, n - 1) \in Seq(Bytes)
    BY <1>6, <2>1, FlatSplit
  <2>3. QED
    BY <1>6, <2>1, <2>2, ElementOfSeq, FlattenLast DEF Flat
<1> DEFINE f == Flat(s, n - 1)
<1>13. CASE T = <<>>
  <2>1. Rest(c) = Flat(t, n - 1) /\ Rest(c) = f
    BY <1>1, <1>2, <1>6, <1>9, <1>13
  <2>2. r = 0 /\ bytes = <<>>
    BY <1>13, TakenIs
  <2>3. s[n] = <<>>
    BY <1>2, <1>5, <1>11, <2>2
  <2>4. Rest(b) = f
    <3>1. Rest(b) = f \o <<>>
      BY <1>6, <1>12, <2>3
    <3>2. f \o <<>> = f
      BY <1>12, ConcatEmptySeq
    <3>3. QED
      BY <3>1, <3>2
  <2>5. Rest(b) \o bytes = Rest(b)
    BY <1>6, <2>2, ConcatEmptySeq
  <2>6. QED
    BY <1>6, <1>10, <2>1, <2>4, <2>5 DEF c
<1>14. CASE T # <<>>
  <2> DEFINE x == SubSeq(d, 1, r)
  <2>1. Len(c.buffers) = n /\ c.buffers[n].data = T
    BY <1>1, <1>14
  <2>2. /\ x \in Seq(Bytes) /\ Len(x) = r /\ T = x \o bytes
        /\ SubSeq(x, B + 1, r) = SubSeq(d, B + 1, r)
    <3>1. x \in Seq(Bytes) /\ Len(x) = r
      BY <1>2
    <3>2. T = x \o bytes
      BY DEF Taken, n
    <3>3. SubSeq(x, B + 1, r) = SubSeq(d, B + 1, r)
      <4> DEFINE l == Len(d)
      <4>1. d \in Seq(Bytes) /\ l = Len(d) /\ l \in Nat /\ r \in Nat /\ r < l
            /\ B \in Nat /\ B <= r
        BY <1>2, <1>5
      <4> HIDE DEF d, B, r, l
      <4>2. SubSeq(SubSeq(d, 1, r), B + 1, r) = SubSeq(d, B + 1, r)
        BY <4>1
      <4>3. QED
        BY <4>2
    <3>4. QED
      BY <3>1, <3>2, <3>3
  <2>3. t[n] = SubSeq(T, B + 1, Len(T))
    <3>1. Begin(c, n) = B /\ End(c, n) = Len(T)
      BY <1>1, <1>2, <2>1 DEF Begin, End
    <3>2. QED
      BY <1>2, <1>6, <2>1, <3>1 DEF Piece
  <2> HIDE DEF x, T, d, B
  <2>4. t[n] = s[n] \o bytes
    <3>0. B \in 0 .. Len(x)
      BY <1>2, <1>5, <2>2
    <3>1. Len(x \o bytes) = Len(x) + Len(bytes) /\ B \in 0 .. Len(x)
      BY <1>8, <2>2, <3>0, ConcatProperties
    <3>2. SubSeq(x \o bytes, B + 1, Len(x) + Len(bytes)) = SubSeq(x, B + 1, Len(x)) \o bytes
      BY <1>8, <2>2, <3>1, TailOfConcat
    <3>3. QED
      BY <1>11, <2>2, <2>3, <3>1, <3>2
  <2>5. Flat(t, n) = Flat(t, n - 1) \o t[n]
    <3>1. n \in 1 .. Len(t)
      BY <1>2, <1>6, <2>1
    <3>2. QED
      BY <1>6, <3>1, FlattenLast DEF Flat
  <2>6. Rest(c) = f \o (s[n] \o bytes)
    BY <1>2, <1>6, <1>9, <2>1, <2>4, <2>5
  <2>7. f \o (s[n] \o bytes) = (f \o s[n]) \o bytes
    <3> DEFINE y == s[n]
    <3>1. f \in Seq(Bytes) /\ y \in Seq(Bytes)
      BY <1>12
    <3> HIDE DEF f, y
    <3>2. (f \o y) \o bytes = f \o (y \o bytes)
      BY <1>8, <3>1, ConcatAssociative, SMTT(30)
    <3>3. QED
      BY <3>2 DEF f, y
  <2>8. Rest(c) = Rest(b) \o bytes
    BY <1>6, <1>12, <2>6, <2>7
  <2>9. QED
    BY <1>6, <1>10, <2>8 DEF c
<1>15. QED
  BY <1>13, <1>14
-----------------------------------------------------------------------------
(* There is an address that no buffer has. *)
LEMMA FreshIs ==
  ASSUME NEW b \in Buffer
  PROVE  /\ FreshId(b) \in Nat
         /\ \A k \in 1 .. Len(b.buffers) : b.buffers[k].id # FreshId(b)
<1> DEFINE n == Len(b.buffers)
           id(k) == b.buffers[k].id
           free(i) == \A k \in 1 .. n : id(k) # i
<1>1. n \in Nat
  BY BufferFacts
<1> HIDE DEF n, id
<1>2. \E i \in 1 .. n + 1 : free(i)
  <2> SUFFICES ASSUME \A i \in 1 .. n + 1 : \E k \in 1 .. n : id(k) = i
               PROVE  FALSE
    OBVIOUS
  <2> DEFINE f == [i \in 1 .. n + 1 |-> CHOOSE k \in 1 .. n : id(k) = i]
  <2>1. f \in [1 .. n + 1 -> 1 .. n] /\ \A i \in 1 .. n + 1 : id(f[i]) = i
    OBVIOUS
  <2> HIDE DEF f
  <2>2. /\ IsFiniteSet(1 .. n + 1) /\ IsFiniteSet(1 .. n)
        /\ Cardinality(1 .. n) < Cardinality(1 .. n + 1)
    <3> DEFINE m == n + 1
    <3>1. n \in Int /\ m \in Int /\ 1 \in Int
      BY <1>1
    <3> HIDE DEF m
    <3>2. /\ IsFiniteSet(1 .. n) /\ Cardinality(1 .. n) = IF 1 > n THEN 0 ELSE n - 1 + 1
          /\ IsFiniteSet(1 .. m) /\ Cardinality(1 .. m) = IF 1 > m THEN 0 ELSE m - 1 + 1
      BY <3>1, FS_Interval
    <3>3. (IF 1 > n THEN 0 ELSE n - 1 + 1) < (IF 1 > m THEN 0 ELSE m - 1 + 1)
      BY <1>1 DEF m
    <3>4. QED
      BY <3>2, <3>3 DEF m
  <2>3. \E x, y \in 1 .. n + 1 : x # y /\ f[x] = f[y]
    BY <2>1, <2>2, FS_PigeonHole
  <2>4. QED
    BY <2>1, <2>3
<1>3. FreshId(b) = CHOOSE i \in 1 .. n + 1 : free(i)
  BY DEF FreshId, n, id
<1>4. FreshId(b) \in 1 .. n + 1 /\ free(FreshId(b))
  BY <1>2, <1>3
<1>5. QED
  BY <1>1, <1>4 DEF n, id

(* next() of a settled buffer, by cases. *)
LEMMA NextIs ==
  ASSUME OptOK, NEW c \in Buffer, Settled(c)
  PROVE  LET m    == Next(c)
             n    == Len(c.buffers)
             used == Len(c.buffers[n].data)
             at   == n > 0 /\ c.parsebuf = n /\ c.parsepos = used
         IN  /\ m \in Buffer /\ m.size = c.size /\ m.offset = c.offset
             /\ \A k \in 1 .. n : m.buffers[k].id = c.buffers[k].id
             /\ IF n > 0 /\ Roomy(c, n)
                THEN /\ Len(m.buffers) = n /\ m.readbuf = n /\ m.readpos = used
                     /\ m.parsebuf = c.parsebuf /\ m.parsepos = c.parsepos
                     /\ \A k \in 1 .. n - 1 : m.buffers[k].data = c.buffers[k].data
                     /\ m.buffers[n].data = c.buffers[n].data \o Unread(Bufsize - used)
                ELSE /\ Len(m.buffers) = n + 1 /\ m.readbuf = n + 1 /\ m.readpos = 0
                     /\ m.parsebuf = IF at THEN n + 1 ELSE c.parsebuf
                     /\ m.parsepos = IF at THEN 0 ELSE c.parsepos
                     /\ \A k \in 1 .. n : m.buffers[k].data = c.buffers[k].data
                     /\ m.buffers[n + 1].data = Unread(Bufsize)
                     /\ \A k \in 1 .. n : m.buffers[k].id # m.buffers[n + 1].id
<1> DEFINE m == Next(c)
           n == Len(c.buffers)
           u == c.buffers
           used == Len(u[n].data)
           room == Bufsize - used
           S == [id : Nat, data : Seq(Bytes)]
           at == n > 0 /\ c.parsebuf = n /\ c.parsepos = used
<1>1. /\ n \in Nat /\ u \in Seq(S) /\ n = Len(u) /\ c.parsebuf \in Nat \ {0}
      /\ \A k \in 1 .. n : u[k] \in S /\ u[k].data \in Seq(Bytes) /\ Len(u[k].data) \in Nat
      /\ Bufsize \in Nat \ {0} /\ Minbuf \in Nat
  BY BufferFacts, OptFacts
<1>2. c \in [size : Nat, offset : Nat, readbuf : Nat, readpos : Nat,
             parsebuf : Nat \ {0}, parsepos : Nat, buffers : Seq(S)]
  BY DEF Buffer, Bytes
<1>3. ~Waiting(c) /\ c.readbuf = 0
  BY DEF Settled, Waiting
<1>4. \A k \in 1 .. n : Len(u[k].data) \in 1 .. Bufsize
  BY DEF Settled, Filled
<1>5. ASSUME NEW i \in Nat
      PROVE  Unread(i) \in Seq(Bytes) /\ Len(Unread(i)) = i
  <2>1. Junk \in Bytes
    BY DEF Bytes
  <2>2. Unread(i) \in [1 .. i -> Bytes]
    BY <2>1 DEF Unread
  <2> HIDE DEF Bytes
  <2>3. QED
    BY <2>2
<1>6. Buffer = [size : Nat, offset : Nat, readbuf : Nat, readpos : Nat,
             parsebuf : Nat \ {0}, parsepos : Nat, buffers : Seq(S)]
  BY DEF Buffer, Bytes
<1>7. CASE n > 0 /\ Roomy(c, n)
  <2>1. n \in 1 .. n /\ n # 0 /\ u[n] \in S /\ used \in Nat /\ room \in Nat
    <3> HIDE DEF n
    <3>1. n \in 1 .. n /\ n # 0
      BY <1>1, <1>7
    <3>2. u[n] \in S /\ used \in 1 .. Bufsize
      BY <1>1, <1>4, <3>1
    <3> HIDE DEF used
    <3>3. QED
      BY <1>1, <3>1, <3>2
  <2> DEFINE new == u[n].data \o Unread(room)
             x == [u[n] EXCEPT !.data = new]
             y == [u EXCEPT ![n] = x]
  <2>2. m = [c EXCEPT !.readbuf = n, !.readpos = used, !.buffers = y]
    BY <1>3, <1>7, <2>1 DEF Next, Roomy
  <2>3. new \in Seq(Bytes)
    BY <1>1, <1>5, <2>1, ConcatProperties
  <2>4. x \in S /\ x.id = u[n].id /\ x.data = new
    <3> HIDE DEF new, u
    <3>1. QED
      BY <2>1, <2>3
  <2> HIDE DEF x, u, S
  <2>5. y \in Seq(S) /\ Len(y) = n /\ \A k \in 1 .. n : y[k] = IF k = n THEN x ELSE u[k]
    BY <1>1, <2>1, <2>4, ExceptSeq
  <2> HIDE DEF y, n, m
  <2> DEFINE Q == Seq(S)
  <2> HIDE DEF Q, used
  <2>6. /\ m \in [size : Nat, offset : Nat, readbuf : Nat, readpos : Nat,
             parsebuf : Nat \ {0}, parsepos : Nat, buffers : Q]
        /\ m.size = c.size /\ m.offset = c.offset
        /\ m.readbuf = n /\ m.readpos = used
        /\ m.parsebuf = c.parsebuf /\ m.parsepos = c.parsepos /\ m.buffers = y
    <3>1. y \in Q /\ c \in [size : Nat, offset : Nat, readbuf : Nat, readpos : Nat,
             parsebuf : Nat \ {0}, parsepos : Nat, buffers : Q]
      BY <1>2, <2>5 DEF Q
    <3>2. QED
      BY <1>1, <2>1, <2>2, <3>1
  <2>7. m \in Buffer
    BY <1>6, <2>6 DEF Q
  <2>8. /\ \A k \in 1 .. n : m.buffers[k].id = u[k].id
        /\ \A k \in 1 .. n - 1 : m.buffers[k].data = u[k].data
        /\ m.buffers[n].data = new /\ Len(m.buffers) = n
    <3>1. \A k \in 1 .. n - 1 : k \in 1 .. n /\ k # n
      BY <1>1
    <3> HIDE DEF new
    <3>2. QED
      BY <2>1, <2>4, <2>5, <2>6, <3>1
  <2>9. QED
    BY <1>7, <2>6, <2>7, <2>8 DEF m, n, u, used
<1>8. CASE ~(n > 0 /\ Roomy(c, n))
  <2> DEFINE x == [id |-> FreshId(c), data |-> Unread(Bufsize)]
             y == Append(u, x)
             pb == IF at THEN n + 1 ELSE c.parsebuf
             pp == IF at THEN 0 ELSE c.parsepos
  <2>1. ~(n # 0 /\ room > Minbuf /\ Minbuf # 0) /\ (n # 0 <=> n > 0)
    BY <1>1, <1>8 DEF Roomy
  <2>2. m = CreateForNext(c)
    BY <1>3, <2>1 DEF Next
  <2>3. m = [c EXCEPT !.parsebuf = pb, !.parsepos = pp, !.readbuf = n + 1,
                      !.readpos = 0, !.buffers = y]
    BY <2>1, <2>2 DEF CreateForNext
  <2>4. x \in S /\ x.id = FreshId(c) /\ x.data = Unread(Bufsize)
    BY <1>1, <1>5, FreshIs
  <2> HIDE DEF x, u, S
  <2>5. y \in Seq(S) /\ Len(y) = n + 1 /\ y[n + 1] = x /\ \A k \in 1 .. n : y[k] = u[k]
    BY <1>1, <2>4, AppendProperties
  <2>6. pb \in Nat \ {0} /\ pp \in Nat /\ n + 1 \in Nat
    BY <1>1, <1>2
  <2> DEFINE Q == Seq(S)
             l == n + 1
  <2> HIDE DEF y, m, pb, pp, Q, l
  <2>7. /\ m \in [size : Nat, offset : Nat, readbuf : Nat, readpos : Nat,
             parsebuf : Nat \ {0}, parsepos : Nat, buffers : Q]
        /\ m.size = c.size /\ m.offset = c.offset
        /\ m.readbuf = n + 1 /\ m.readpos = 0
        /\ m.parsebuf = pb /\ m.parsepos = pp /\ m.buffers = y
    <3>1. y \in Q /\ c \in [size : Nat, offset : Nat, readbuf : Nat, readpos : Nat,
             parsebuf : Nat \ {0}, parsepos : Nat, buffers : Q]
      BY <1>2, <2>5 DEF Q
    <3>2. m = [c EXCEPT !.parsebuf = pb, !.parsepos = pp, !.readbuf = l,
                      !.readpos = 0, !.buffers = y]
      BY <2>3 DEF l
    <3>3. l \in Nat /\ l = n + 1
      BY <2>6 DEF l
    <3>4. QED
      BY <2>6, <3>1, <3>2, <3>3
  <2>8. m \in Buffer
    BY <1>6, <2>7 DEF Q
  <2>9. \A k \in 1 .. n : u[k].id # FreshId(c)
    BY FreshIs DEF u
  <2> HIDE DEF n
  <2>10. /\ \A k \in 1 .. n : m.buffers[k] = u[k]
         /\ m.buffers[n + 1].data = Unread(Bufsize) /\ Len(m.buffers) = n + 1
         /\ m.buffers[n + 1].id = FreshId(c)
    BY <2>4, <2>5, <2>7
  <2>11. QED
    BY <1>8, <2>7, <2>8, <2>9, <2>10 DEF m, n, u, pb, pp
<1>9. QED
  BY <1>7, <1>8

LEMMA NextGood ==
  ASSUME OptOK, NEW c \in Buffer, Settled(c)
  PROVE  Good(Next(c))
<1> DEFINE m == Next(c)
           n == Len(c.buffers)
           D(k) == c.buffers[k].data
           used == Len(D(n))
           at == n > 0 /\ c.parsebuf = n /\ c.parsepos = used
           roomy == n > 0 /\ Roomy(c, n)
           new == D(n) \o Unread(Bufsize - used)
<1>1. /\ m \in Buffer /\ m.offset = c.offset
      /\ \A k \in 1 .. n : m.buffers[k].id = c.buffers[k].id
      /\ roomy =>
           /\ Len(m.buffers) = n /\ m.readbuf = n /\ m.readpos = used
           /\ m.parsebuf = c.parsebuf /\ m.parsepos = c.parsepos
           /\ \A k \in 1 .. n - 1 : m.buffers[k].data = D(k)
           /\ m.buffers[n].data = new
      /\ ~roomy =>
           /\ Len(m.buffers) = n + 1 /\ m.readbuf = n + 1 /\ m.readpos = 0
           /\ m.parsebuf = IF at THEN n + 1 ELSE c.parsebuf
           /\ m.parsepos = IF at THEN 0 ELSE c.parsepos
           /\ \A k \in 1 .. n : m.buffers[k].data = D(k)
           /\ m.buffers[n + 1].data = Unread(Bufsize)
           /\ \A k \in 1 .. n : m.buffers[k].id # m.buffers[n + 1].id
  BY NextIs
<1>2. /\ n \in Nat /\ c.offset \in Nat /\ c.parsebuf \in Nat \ {0} /\ c.parsepos \in Nat
      /\ Bufsize \in Nat \ {0} /\ Minbuf \in Nat
      /\ \A k \in 1 .. n : D(k) \in Seq(Bytes) /\ Len(D(k)) \in Nat
  BY BufferFacts, OptFacts
<1>3. /\ \A k \in 1 .. n : Len(D(k)) \in 1 .. Bufsize /\ (k < n => ~Roomy(c, k))
      /\ \A j, k \in 1 .. n : c.buffers[j].id = c.buffers[k].id => j = k
      /\ c.readbuf = 0
      /\ n = 0 => c.offset = 0
      /\ n = 1 => c.offset <= Len(D(1)) /\ (c.offset = Len(D(1)) => Roomy(c, 1))
      /\ n > 1 => c.offset < Len(D(1))
      /\ Cursor(c) \/ (c.parsebuf = n + 1 /\ c.parsepos = 0 /\ (n > 0 => ~Roomy(c, n)))
  BY DEF Settled, Filled
<1>4. Cursor(c) => /\ c.parsebuf \in 1 .. n /\ Begin(c, c.parsebuf) <= c.parsepos
                   /\ c.parsepos <= Len(D(c.parsebuf))
                   /\ c.parsebuf < n => c.parsepos < Len(D(c.parsebuf))
  <2> SUFFICES ASSUME Cursor(c)
               PROVE  /\ c.parsebuf \in 1 .. n /\ Begin(c, c.parsebuf) <= c.parsepos
                      /\ c.parsepos <= Len(D(c.parsebuf))
                      /\ c.parsebuf < n => c.parsepos < Len(D(c.parsebuf))
    OBVIOUS
  <2>1. c.parsebuf # c.readbuf
    BY <1>2, <1>3
  <2>2. End(c, c.parsebuf) = Len(D(c.parsebuf))
    BY <2>1 DEF End
  <2>3. QED
    BY <2>2 DEF Cursor
<1>5. \A i : Begin(m, i) = Begin(c, i)
  BY <1>1 DEF Begin
<1> HIDE DEF m, n
<1>6. CASE roomy
  <2>1. /\ n \in 1 .. n /\ n > 0 /\ used \in Nat /\ used >= 1 /\ Minbuf # 0
        /\ Bufsize - used > Minbuf /\ used < Bufsize
        /\ D(n) \in Seq(Bytes) /\ Bufsize - used \in Nat
    <3>1. n \in 1 .. n /\ n > 0
      BY <1>2, <1>6
    <3>2. used \in 1 .. Bufsize /\ Bufsize - used > Minbuf /\ Minbuf # 0
      BY <1>3, <1>6, <3>1 DEF Roomy
    <3>3. D(n) \in Seq(Bytes)
      BY <1>2, <3>1
    <3> HIDE DEF used, D
    <3>4. QED
      BY <1>2, <3>1, <3>2, <3>3
  <2>2. /\ Len(m.buffers) = n /\ m.readbuf = n /\ m.readpos = used
        /\ m.parsebuf = c.parsebuf /\ m.parsepos = c.parsepos
        /\ \A k \in 1 .. n - 1 : m.buffers[k].data = D(k)
        /\ m.buffers[n].data = new
    BY <1>1, <1>6
  <2>3. Len(new) = Bufsize
    <3>1. Unread(Bufsize - used) \in Seq(Bytes) /\ Len(Unread(Bufsize - used)) = Bufsize - used
      <4> DEFINE r == Bufsize - used
      <4>1. r \in Nat
        BY <2>1
      <4> HIDE DEF r
      <4>2. Unread(r) \in Seq(Bytes) /\ Len(Unread(r)) = r
        BY <4>1 DEF Unread, Bytes
      <4>3. QED
        BY <4>2 DEF r
    <3>2. Len(new) = used + (Bufsize - used)
      <4> DEFINE x == D(n)
                 y == Unread(Bufsize - used)
      <4>1. x \in Seq(Bytes) /\ y \in Seq(Bytes) /\ Len(x) = used /\ Len(y) = Bufsize - used
        BY <2>1, <3>1
      <4> HIDE DEF x, y
      <4>2. Len(x \o y) = Len(x) + Len(y)
        BY <4>1, ConcatProperties
      <4>3. QED
        BY <4>1, <4>2 DEF x, y
    <3>3. used + (Bufsize - used) = Bufsize
      <4> HIDE DEF used
      <4>1. QED
        BY <1>2, <2>1
    <3>4. QED
      BY <3>2, <3>3, Zenon
  <2>4. \A k \in 1 .. n : k = n \/ (k \in 1 .. n - 1 /\ k < n)
    BY <1>2
  <2> HIDE DEF new, used, roomy
  <2>5. Filled(m)
    <3>1. \A k \in 1 .. n - 1 : Roomy(m, k) <=> Roomy(c, k)
      BY <2>2 DEF Roomy
    <3>2. ASSUME NEW k \in 1 .. n
          PROVE  Len(m.buffers[k].data) \in 1 .. Bufsize /\ (k < n => ~Roomy(m, k))
      <4>1. CASE k = n
        BY <1>2, <2>2, <2>3, <4>1
      <4>2. CASE k \in 1 .. n - 1 /\ k < n
        BY <1>3, <2>2, <3>1, <4>2
      <4>3. QED
        BY <2>4, <4>1, <4>2
    <3>3. QED
      BY <1>1, <1>3, <2>2, <3>2 DEF Filled
  <2>6. n = 1 => m.offset <= m.readpos
    BY <1>1, <1>3, <2>2 DEF used
  <2>7. n # 1 => m.offset < Len(m.buffers[1].data)
    <3>1. n # 1 => n > 1 /\ 1 \in 1 .. n - 1
      BY <1>2, <2>1
    <3>2. QED
      BY <1>1, <1>3, <2>2, <3>1
  <2>8. Cursor(m)
    <3>1. /\ c.parsebuf \in 1 .. n /\ Begin(c, c.parsebuf) <= c.parsepos
          /\ c.parsepos <= Len(D(c.parsebuf))
          /\ c.parsebuf < n => c.parsepos < Len(D(c.parsebuf))
      BY <1>3, <1>4, <1>6 DEF roomy
    <3>2. c.parsebuf = n => End(m, n) = Len(D(n)) /\ ~(c.parsebuf < n)
      BY <1>2, <2>2 DEF End, used
    <3>3. c.parsebuf # n => /\ m.buffers[c.parsebuf].data = D(c.parsebuf)
                            /\ End(m, c.parsebuf) = Len(D(c.parsebuf))
      <4>1. c.parsebuf # n => c.parsebuf \in 1 .. n - 1
        BY <2>4, <3>1
      <4>2. QED
        BY <2>2, <4>1 DEF End
    <3> HIDE DEF D
    <3>4. QED
      BY <1>5, <2>2, <3>1, <3>2, <3>3 DEF Cursor
  <2>9. /\ m.readpos < Bufsize /\ Minbuf # 0 /\ Bufsize - m.readpos > Minbuf
        /\ Len(m.buffers[n].data) = Bufsize
    BY <2>1, <2>2, <2>3
  <2>10. QED
    BY <2>1, <2>2, <2>5, <2>6, <2>7, <2>8, <2>9 DEF Good, m
<1>7. CASE ~roomy
  <2> DEFINE l == n + 1
  <2>1. /\ Len(m.buffers) = l /\ m.readbuf = l /\ m.readpos = 0
        /\ m.parsebuf = IF at THEN l ELSE c.parsebuf
        /\ m.parsepos = IF at THEN 0 ELSE c.parsepos
        /\ \A k \in 1 .. n : m.buffers[k].data = D(k)
        /\ m.buffers[l].data = Unread(Bufsize)
        /\ \A k \in 1 .. n : m.buffers[k].id # m.buffers[l].id
    BY <1>1, <1>7
  <2>2. Len(m.buffers[l].data) = Bufsize
    BY <1>2, <2>1 DEF Unread
  <2>3. /\ \A k \in 1 .. l : k = l \/ (k \in 1 .. n /\ k < l)
        /\ l \in Nat /\ l > n /\ n < l /\ ~(l < l)
        /\ \A k \in 1 .. n : k \in 1 .. l /\ k < l /\ k # l
        /\ l \in 1 .. l /\ l # 0 /\ l > 0
    BY <1>2
  <2> HIDE DEF l
  <2>4. Filled(m)
    <3>1. \A k \in 1 .. n : Roomy(m, k) <=> Roomy(c, k)
      BY <2>1 DEF Roomy
    <3>2. \A k \in 1 .. n : ~Roomy(c, k)
      <4>1. ASSUME NEW k \in 1 .. n
            PROVE  ~Roomy(c, k)
        <5>1. k = n \/ k < n
          BY <1>2
        <5>2. k = n => n > 0
          BY <1>2
        <5>3. QED
          BY <1>3, <1>7, <5>1, <5>2
      <4>2. QED
        BY <4>1
    <3>3. ASSUME NEW k \in 1 .. l
          PROVE  Len(m.buffers[k].data) \in 1 .. Bufsize /\ (k < l => ~Roomy(m, k))
      <4>1. CASE k = l
        BY <1>2, <2>2, <2>3, <4>1
      <4>2. CASE k \in 1 .. n /\ k < l
        BY <1>3, <2>1, <3>1, <3>2, <4>2
      <4>3. QED
        BY <2>3, <4>1, <4>2
    <3>4. ASSUME NEW j \in 1 .. l, NEW k \in 1 .. l, m.buffers[j].id = m.buffers[k].id
          PROVE  j = k
      <4>1. CASE j \in 1 .. n /\ k \in 1 .. n
        BY <1>1, <1>3, <3>4, <4>1
      <4>2. CASE j = l \/ k = l
        BY <2>1, <2>3, <3>4, <4>2
      <4>3. QED
        BY <2>3, <4>1, <4>2
    <3>5. QED
      BY <2>1, <3>3, <3>4 DEF Filled
  <2>5. l = 1 => m.offset <= m.readpos
    <3>1. l = 1 => n = 0
      BY <1>2 DEF l
    <3>2. QED
      BY <1>1, <1>3, <2>1, <3>1
  <2>6. l # 1 => m.offset < Len(m.buffers[1].data)
    <3> SUFFICES ASSUME l # 1
                 PROVE  m.offset < Len(m.buffers[1].data)
      OBVIOUS
    <3>1. 1 \in 1 .. n /\ n > 0 /\ (n = 1 \/ n > 1)
      BY <1>2 DEF l
    <3>2. n = 1 => c.offset # Len(D(1))
      BY <1>3, <1>7, <3>1
    <3>3. Len(D(1)) \in Nat /\ c.offset \in Nat
      BY <1>2, <3>1
    <3>4. c.offset < Len(D(1))
      BY <1>3, <3>1, <3>2, <3>3
    <3>5. QED
      BY <1>1, <2>1, <3>1, <3>4
  <2>7. Cursor(m)
    <3>1. Begin(m, l) = 0 \/ l = 1
      BY DEF Begin
    <3>2. End(m, l) = 0
      BY <2>1 DEF End
    <3>3. Begin(m, l) <= 0
      <4>1. l = 1 => m.offset <= 0
        BY <2>1, <2>5
      <4>2. QED
        BY <3>1, <4>1 DEF Begin
    <3>4. CASE m.parsebuf = l /\ m.parsepos = 0
      BY <2>1, <2>3, <3>2, <3>3, <3>4 DEF Cursor
    <3>5. CASE ~at /\ Cursor(c)
      <4>1. m.parsebuf = c.parsebuf /\ m.parsepos = c.parsepos
        BY <2>1, <3>5
      <4>2. /\ c.parsebuf \in 1 .. n /\ Begin(c, c.parsebuf) <= c.parsepos
            /\ c.parsepos <= Len(D(c.parsebuf))
            /\ c.parsebuf < n => c.parsepos < Len(D(c.parsebuf))
        BY <1>4, <3>5
      <4>3. c.parsepos < Len(D(c.parsebuf))
        <5>1. c.parsebuf = n => c.parsepos # used /\ n > 0
          BY <1>2, <3>5, <4>2
        <5>2. Len(D(c.parsebuf)) \in Nat
          BY <1>2, <4>2
        <5>3. c.parsebuf = n \/ c.parsebuf < n
          BY <1>2, <4>2
        <5> DEFINE e == Len(D(c.parsebuf))
        <5>4. /\ c.parsepos \in Nat /\ e \in Nat /\ c.parsepos <= e
              /\ c.parsebuf = n => c.parsepos # e
              /\ c.parsebuf < n => c.parsepos < e
          BY <1>2, <4>2, <5>1, <5>2
        <5> HIDE DEF e
        <5>5. c.parsepos < e
          BY <5>3, <5>4
        <5>6. QED
          BY <5>5 DEF e
      <4>4. End(m, c.parsebuf) = Len(D(c.parsebuf))
        BY <2>1, <2>3, <4>2 DEF End
      <4>5. m.buffers[c.parsebuf].data = D(c.parsebuf)
        BY <2>1, <4>2
      <4>6. QED
        BY <1>5, <2>1, <2>3, <4>1, <4>2, <4>3, <4>4, <4>5 DEF Cursor
    <3>6. QED
      <4>1. at => m.parsebuf = l /\ m.parsepos = 0
        BY <2>1
      <4>2. ~at /\ ~Cursor(c) => m.parsebuf = l /\ m.parsepos = 0
        BY <1>3, <2>1 DEF l
      <4> HIDE DEF at
      <4>3. QED
        BY <3>4, <3>5, <4>1, <4>2
  <2>8. m.readpos < Bufsize /\ ~(m.readpos # 0)
    BY <1>2, <2>1
  <2>9. QED
    BY <2>1, <2>2, <2>3, <2>4, <2>5, <2>6, <2>7, <2>8 DEF Good, m
<1>8. QED
  BY <1>6, <1>7

LEMMA NextRest ==
  ASSUME OptOK, NEW c \in Buffer, Settled(c)
  PROVE  /\ Rest(Next(c)) = Rest(c) /\ Cur(Next(c)) = Cur(c)
         /\ Rest(c) \in Seq(Bytes)
<1> DEFINE m == Next(c)
           n == Len(c.buffers)
           D(k) == c.buffers[k].data
           used == Len(D(n))
           at == n > 0 /\ c.parsebuf = n /\ c.parsepos = used
           roomy == n > 0 /\ Roomy(c, n)
           new == D(n) \o Unread(Bufsize - used)
           s == Pieces(c)
           t == Pieces(m)
<1>1. /\ m \in Buffer /\ m.offset = c.offset
      /\ roomy =>
           /\ Len(m.buffers) = n /\ m.readbuf = n /\ m.readpos = used
           /\ m.parsebuf = c.parsebuf /\ m.parsepos = c.parsepos
           /\ \A k \in 1 .. n - 1 : m.buffers[k].data = D(k)
           /\ m.buffers[n].data = new
      /\ ~roomy =>
           /\ Len(m.buffers) = n + 1 /\ m.readbuf = n + 1 /\ m.readpos = 0
           /\ m.parsebuf = IF at THEN n + 1 ELSE c.parsebuf
           /\ m.parsepos = IF at THEN 0 ELSE c.parsepos
           /\ \A k \in 1 .. n : m.buffers[k].data = D(k)
           /\ m.buffers[n + 1].data = Unread(Bufsize)
  BY NextIs
<1>2. /\ n \in Nat /\ c.offset \in Nat /\ c.parsebuf \in Nat \ {0} /\ c.parsepos \in Nat
      /\ \A k \in 1 .. n : D(k) \in Seq(Bytes) /\ Len(D(k)) \in Nat
      /\ c.readbuf = 0
  BY BufferFacts DEF Settled
<1>3. Spans(c) /\ Spans(m)
  BY <1>1, NextGood, GoodSpans
<1>4. /\ s \in Seq(Seq(Bytes)) /\ Len(s) = n /\ \A k \in 1 .. n : s[k] = Piece(c, k)
      /\ t \in Seq(Seq(Bytes)) /\ Len(t) = Len(m.buffers)
      /\ \A k \in 1 .. Len(m.buffers) : t[k] = Piece(m, k)
      /\ Rest(c) = Flat(s, n) /\ Rest(m) = Flat(t, Len(m.buffers))
      /\ Rest(c) \in Seq(Bytes)
  BY <1>1, <1>3, PiecesType, RestIs
<1>5. \A k \in 1 .. n : End(c, k) = Len(D(k)) /\ Begin(c, k) = Begin(m, k)
  BY <1>1, <1>2 DEF End, Begin
<1>6. c.parsebuf \in 1 .. n + 1
  BY <1>2 DEF Settled, Cursor
<1> HIDE DEF m, s, t, n
<1>7. CASE roomy
  <2>1. /\ n \in 1 .. n /\ D(n) \in Seq(Bytes) /\ used \in Nat /\ Bufsize - used \in Nat
        /\ Begin(c, n) \in Nat /\ Begin(c, n) <= used
    <3>1. n \in 1 .. n
      BY <1>2, <1>7
    <3>2. used \in 1 .. Bufsize
      BY <3>1 DEF Settled, Filled, n
    <3>3. Begin(c, n) \in Nat /\ Begin(c, n) <= End(c, n)
      BY <1>3, <3>1, BufferFacts DEF Spans, n
    <3>4. D(n) \in Seq(Bytes) /\ End(c, n) = used /\ Bufsize \in Nat
      BY <1>2, <1>5, <3>1, OptFacts
    <3> HIDE DEF used, D
    <3>5. QED
      BY <3>1, <3>2, <3>3, <3>4
  <2>2. /\ Len(m.buffers) = n /\ m.readbuf = n /\ m.readpos = used
        /\ m.parsebuf = c.parsebuf /\ m.parsepos = c.parsepos
        /\ \A k \in 1 .. n - 1 : m.buffers[k].data = D(k)
        /\ m.buffers[n].data = new
    BY <1>1, <1>7
  <2>3. SubSeq(new, Begin(c, n) + 1, used) = SubSeq(D(n), Begin(c, n) + 1, used)
    <3> DEFINE x == D(n)
               y == Unread(Bufsize - used)
               B == Begin(c, n) + 1
    <3>1. y \in Seq(Bytes)
      <4> DEFINE r == Bufsize - used
      <4>1. r \in Nat
        BY <2>1
      <4> HIDE DEF r
      <4>2. Unread(r) \in Seq(Bytes)
        BY <4>1 DEF Unread, Bytes
      <4>3. QED
        BY <4>2 DEF r
    <3>2. x \in Seq(Bytes) /\ B \in Nat \ {0} /\ used \in Int /\ used <= Len(x)
      BY <2>1
    <3> HIDE DEF y, B
    <3>3. SubSeq(x \o y, B, used) = SubSeq(x, B, used)
      BY <3>1, <3>2, SubSeqLocal
    <3>4. QED
      BY <3>3 DEF y, B
  <2> HIDE DEF new, used
  <2>4. \A k \in 1 .. n : s[k] = t[k]
    <3>1. ASSUME NEW k \in 1 .. n
          PROVE  s[k] = t[k]
      <4>0. s[k] = Piece(c, k) /\ t[k] = Piece(m, k)
        BY <1>4, <2>2
      <4>1. CASE k = n
        <5>1. End(m, n) = used /\ End(c, n) = used
          BY <1>5, <2>1, <2>2 DEF End, used
        <5>2. QED
          BY <1>5, <2>1, <2>2, <2>3, <4>0, <4>1, <5>1 DEF Piece
      <4>2. CASE k # n
        <5>1. k \in 1 .. n - 1
          BY <1>2, <4>2
        <5>2. m.buffers[k].data = D(k) /\ End(m, k) = Len(D(k))
          BY <2>2, <4>2, <5>1 DEF End
        <5>3. QED
          BY <1>5, <4>0, <5>2 DEF Piece
      <4>3. QED
        BY <4>1, <4>2
    <3>2. QED
      BY <3>1
  <2>5. s = t
    BY <1>4, <2>2, <2>4, SeqEqual
  <2>6. QED
    <3>1. Rest(m) = Rest(c)
      BY <1>4, <2>2, <2>5
    <3>2. Begin(m, c.parsebuf) = Begin(c, c.parsebuf)
      BY <1>1 DEF Begin
    <3>3. Cur(m) = Cur(c)
      BY <2>2, <2>5, <3>2 DEF Cur, Pos, s, t
    <3>4. QED
      BY <1>4, <3>1, <3>3 DEF m
<1>8. CASE ~roomy
  <2> DEFINE l == n + 1
  <2>1. /\ Len(m.buffers) = l /\ m.readbuf = l /\ m.readpos = 0
        /\ m.parsebuf = IF at THEN l ELSE c.parsebuf
        /\ m.parsepos = IF at THEN 0 ELSE c.parsepos
        /\ \A k \in 1 .. n : m.buffers[k].data = D(k)
    BY <1>1, <1>8
  <2>2. /\ l \in Nat \ {0} /\ l - 1 = n /\ l \in 1 .. l
        /\ \A k \in 1 .. n : k \in 1 .. l /\ k # l
    BY <1>2
  <2> HIDE DEF l
  <2>3. \A k \in 1 .. n : s[k] = t[k] /\ Piece(m, k) = Piece(c, k)
    <3>1. ASSUME NEW k \in 1 .. n
          PROVE  s[k] = t[k] /\ Piece(m, k) = Piece(c, k)
      <4>0. s[k] = Piece(c, k) /\ t[k] = Piece(m, k)
        BY <1>4, <2>1, <2>2
      <4>1. m.buffers[k].data = D(k) /\ End(m, k) = Len(D(k))
        BY <2>1, <2>2 DEF End
      <4>2. QED
        BY <1>5, <4>0, <4>1 DEF Piece
    <3>2. QED
      BY <3>1
  <2>4. t[l] = <<>>
    <3>1. t[l] = SubSeq(m.buffers[l].data, Begin(m, l) + 1, 0)
      BY <1>4, <2>1, <2>2 DEF Piece, End
    <3>2. Begin(m, l) \in Nat
      BY <1>1, <2>1, <2>2, BufferFacts
    <3>3. QED
      BY <3>1, <3>2, SubSeqEmpty
  <2>5. Flat(t, n) = Flat(s, n)
    <3>1. n \in 0 .. Len(s) /\ n <= Len(t)
      BY <1>2, <1>4, <2>1, <2>2
    <3>2. QED
      BY <1>4, <2>3, <3>1, SameFlat
  <2>6. Rest(m) = Rest(c)
    <3>1. Flat(t, l) = Flat(t, n) \o t[l]
      <4>1. l \in 1 .. Len(t)
        BY <1>4, <2>1, <2>2
      <4>2. QED
        BY <1>4, <2>2, <4>1, FlattenLast DEF Flat
    <3>2. Rest(m) = Rest(c) \o <<>>
      BY <1>4, <2>1, <2>4, <2>5, <3>1
    <3>3. QED
      BY <1>4, <3>2, ConcatEmptySeq
  <2>7. Cur(m) = Cur(c)
    <3>1. CASE at
      <4>0. n \in 1 .. n /\ n - 1 \in 0 .. n
        BY <1>2, <3>1
      <4>2. Begin(m, l) = 0
        <5>1. l # 1
          BY <1>2, <2>2, <3>1
        <5>2. QED
          BY <5>1 DEF Begin
      <4>3. Cur(c) = Len(Flat(s, n - 1)) + (used - Begin(c, n))
        BY <3>1 DEF Cur, Pos, s
      <4>4. Flat(s, n) = Flat(s, n - 1) \o s[n] /\ Flat(s, n - 1) \in Seq(Bytes)
            /\ Flat(s, n) \in Seq(Bytes) /\ s[n] \in Seq(Bytes)
        <5>1. n \in 1 .. Len(s) /\ n - 1 \in 0 .. n /\ n \in 0 .. Len(s)
          BY <1>2, <1>4, <4>0
        <5>2. s[n] \in Seq(Bytes)
          BY <1>4, <5>1, ElementOfSeq
        <5>3. QED
          BY <1>4, <5>1, <5>2, FlattenLast, FlatSplit DEF Flat
      <4>5. Len(s[n]) = used - Begin(c, n)
        BY <1>3, <1>4, <1>5, <4>0, PiecesType DEF n
      <4>6. Len(Flat(s, n)) = Len(Flat(s, n - 1)) + Len(s[n])
        BY <4>4, ConcatProperties
      <4>7. Cur(m) = Len(Flat(t, n)) + (0 - Begin(m, l))
        BY <2>1, <2>2, <3>1 DEF Cur, Pos, t
      <4>8. Len(Flat(s, n)) \in Nat
        BY <4>4, LenProperties
      <4>9. QED
        BY <2>5, <4>2, <4>3, <4>5, <4>6, <4>7, <4>8
    <3>2. CASE ~at
      <4>1. m.parsebuf = c.parsebuf /\ m.parsepos = c.parsepos
        BY <2>1, <3>2
      <4> DEFINE i == c.parsebuf
      <4>2. /\ i \in Nat \ {0} /\ i - 1 <= n /\ i - 1 <= Len(m.buffers)
            /\ \A k \in 1 .. i - 1 : k \in 1 .. n
        BY <1>2, <1>6, <2>1, <2>2
      <4> HIDE DEF i
      <4>3. \A k \in 1 .. i - 1 : Piece(c, k) = Piece(m, k)
        BY <2>3, <4>2
      <4>4. Pos(c, i, c.parsepos) = Pos(m, i, c.parsepos)
        BY <1>1, <1>3, <4>2, <4>3, SamePos DEF n
      <4>5. QED
        BY <4>1, <4>4 DEF Cur, i
    <3> HIDE DEF at
    <3>3. QED
      BY <3>1, <3>2
  <2>8. QED
    BY <1>4, <2>6, <2>7 DEF m
<1>9. QED
  BY <1>7, <1>8
-----------------------------------------------------------------------------
(* What detach() leaves when the block ends at place p of buffer i. *)
Detached(b, i, p) ==
  LET at == [buf |-> i, pos |-> p]
  IN  [Prepare(b, at) EXCEPT !.size = @ - Len(Cut(b, at))]

(* The buffers that are dropped.  *)
Gone(b, i, p) == IF p = Len(b.buffers[i].data) THEN i ELSE i - 1

LEMMA DetachedIs ==
  ASSUME OptOK, NEW b \in Buffer, Good(b), NEW i, NEW p, Place(b, i, p),
         b.size = Len(Rest(b))
  PROVE  LET a    == Detached(b, i, p)
             n    == Len(b.buffers)
             gone == Gone(b, i, p)
             rest == IF p = Len(b.buffers[i].data) THEN 0 ELSE p
         IN  /\ a \in Buffer /\ a.size = b.size - Pos(b, i, p)
             /\ gone \in 0 .. n - 1 /\ i \in 1 .. n /\ p \in Nat
             /\ p = Len(b.buffers[i].data) => i < n
             /\ Len(a.buffers) = n - gone
             /\ \A k \in 1 .. n - gone : a.buffers[k] = b.buffers[gone + k]
             /\ a.readbuf = n - gone /\ a.readpos = b.readpos
             /\ a.parsebuf = 1 /\ a.parsepos = rest /\ a.offset = rest
<1> DEFINE a == Detached(b, i, p)
           n == Len(b.buffers)
           u == b.buffers
           at == [buf |-> i, pos |-> p]
           whole == p = Len(u[i].data)
           gone == Gone(b, i, p)
           rest == IF whole THEN 0 ELSE p
           S == [id : Nat, data : Seq(Bytes)]
           v == SubSeq(u, gone + 1, n)
           cut == Cut(b, at)
<1>1. /\ n \in Nat \ {0} /\ b.readbuf = n /\ b.readpos < Bufsize /\ b.readpos \in Nat
      /\ Len(u[n].data) = Bufsize /\ Bufsize \in Nat /\ u \in Seq(S)
  BY GoodFacts, BufferFacts
<1>2. /\ i \in 1 .. n /\ Begin(b, i) \in Nat /\ End(b, i) \in Nat
      /\ p \in Begin(b, i) .. End(b, i)
  BY BufferFacts DEF Place
<1>3. p \in Nat /\ p <= End(b, i)
  BY <1>2
<1>4. whole => i < n
  <2>1. i = n => p <= b.readpos
    BY <1>1, <1>3 DEF End
  <2>2. i = n => p # Len(u[n].data)
    BY <1>1, <1>3, <2>1
  <2>3. i = n \/ i < n
    BY <1>1, <1>2
  <2>4. QED
    BY <2>2, <2>3
<1>5. gone \in 0 .. n - 1 /\ gone = IF whole THEN i ELSE i - 1
  <2>1. gone = IF whole THEN i ELSE i - 1
    BY DEF Gone
  <2> HIDE DEF whole, gone, n
  <2>2. QED
    BY <1>1, <1>2, <1>4, <2>1
<1>6. cut \in Seq(Bytes) /\ Len(cut) = Pos(b, i, p) /\ Pos(b, i, p) \in 0 .. Len(Rest(b))
  BY GoodSpans, CutIs
<1>7. a = [b EXCEPT !.size = b.size - Len(cut), !.buffers = v, !.readbuf = n - gone,
                    !.parsebuf = 1, !.parsepos = rest, !.offset = rest]
  <2>1. Waiting(b)
    BY <1>1 DEF Waiting
  <2>2. Prepare(b, at) = [b EXCEPT !.buffers = v, !.readbuf = n - gone,
                    !.parsebuf = 1, !.parsepos = rest, !.offset = rest]
    BY <1>1, <1>5, <2>1 DEF Prepare
  <2>3. a = [Prepare(b, at) EXCEPT !.size = @ - Len(cut)]
    BY DEF Detached
  <2>4. Prepare(b, at).size = b.size
    BY <2>2 DEF Buffer
  <2> HIDE DEF cut, v, n, gone, rest, at, a
  <2>5. a = [Prepare(b, at) EXCEPT !.size = b.size - Len(cut)]
    BY <2>3, <2>4
  <2>6. QED
    BY <2>2, <2>5 DEF Buffer
<1>8. v \in Seq(S) /\ Len(v) = n - gone /\ \A k \in 1 .. n - gone : v[k] = u[gone + k]
  <2>0. n = Len(u)
    OBVIOUS
  <2> HIDE DEF u, n, gone, S
  <2>1. gone \in Nat /\ gone < n /\ \A k \in gone + 1 .. n : u[k] \in S
    BY <1>1, <1>5, <2>0
  <2>2. QED
    BY <1>1, <2>0, <2>1
<1>9. rest \in Nat /\ n - gone \in Nat /\ b.size - Len(cut) \in Nat
  <2>1. rest \in Nat
    BY <1>3
  <2>2. Len(Rest(b)) \in Nat
    BY GoodSpans, RestIs, LenProperties
  <2> HIDE DEF rest, n, gone, cut
  <2>3. QED
    BY <1>1, <1>5, <1>6, <2>1, <2>2
<1> DEFINE Q == Seq(S)
           z == b.size - Len(cut)
           l == n - gone
<1>10. /\ b \in [size : Nat, offset : Nat, readbuf : Nat, readpos : Nat,
             parsebuf : Nat \ {0}, parsepos : Nat, buffers : Q]
       /\ Buffer = [size : Nat, offset : Nat, readbuf : Nat, readpos : Nat,
             parsebuf : Nat \ {0}, parsepos : Nat, buffers : Q]
  BY DEF Buffer, Bytes
<1>11. a = [b EXCEPT !.size = z, !.buffers = v, !.readbuf = l,
                    !.parsebuf = 1, !.parsepos = rest, !.offset = rest]
       /\ v \in Q /\ z \in Nat /\ l \in Nat
  BY <1>7, <1>8, <1>9
<1> HIDE DEF Q, z, l, a, v, rest, n, gone
<1>12. /\ a \in [size : Nat, offset : Nat, readbuf : Nat, readpos : Nat,
             parsebuf : Nat \ {0}, parsepos : Nat, buffers : Q]
       /\ a.size = z /\ a.buffers = v /\ a.readbuf = l /\ a.readpos = b.readpos
       /\ a.parsebuf = 1 /\ a.parsepos = rest /\ a.offset = rest
  <2>1. rest \in Nat /\ 1 \in Nat \ {0} /\ v \in Q /\ z \in Nat /\ l \in Nat
    BY <1>9, <1>11
  <2>2. /\ a.size = z /\ a.buffers = v /\ a.readbuf = l /\ a.readpos = b.readpos
        /\ a.parsebuf = 1 /\ a.parsepos = rest /\ a.offset = rest
    BY <1>10, <1>11
  <2>3. a = [size |-> z, offset |-> rest, readbuf |-> l, readpos |-> b.readpos,
             parsebuf |-> 1, parsepos |-> rest, buffers |-> v]
    BY <1>10, <1>11
  <2>4. b.readpos \in Nat
    BY <1>1
  <2>5. QED
    BY <2>1, <2>2, <2>3, <2>4
<1>13. QED
  BY <1>2, <1>3, <1>4, <1>5, <1>6, <1>8, <1>10, <1>12 DEF z, l, a, rest, n, gone

LEMMA DetachedGood ==
  ASSUME OptOK, NEW b \in Buffer, Good(b), NEW i, NEW p, Place(b, i, p),
         b.size = Len(Rest(b))
  PROVE  Good(Detached(b, i, p)) /\ Window(Detached(b, i, p)) = Window(b)
<1> DEFINE a == Detached(b, i, p)
           n == Len(b.buffers)
           D(k) == b.buffers[k].data
           whole == p = Len(D(i))
           gone == Gone(b, i, p)
           rest == IF whole THEN 0 ELSE p
           l == n - gone
<1>1. /\ a \in Buffer
      /\ gone \in 0 .. n - 1 /\ i \in 1 .. n /\ p \in Nat
      /\ whole => i < n
      /\ Len(a.buffers) = l
      /\ \A k \in 1 .. l : a.buffers[k] = b.buffers[gone + k]
      /\ a.readbuf = l /\ a.readpos = b.readpos
      /\ a.parsebuf = 1 /\ a.parsepos = rest /\ a.offset = rest
  BY DetachedIs
<1>2. gone = IF whole THEN i ELSE i - 1
  BY DEF Gone
<1>3. /\ n \in Nat \ {0} /\ b.readbuf = n /\ b.readpos \in Nat /\ b.readpos < Bufsize
      /\ Len(D(n)) = Bufsize /\ Bufsize \in Nat
      /\ b.readpos # 0 => Minbuf # 0 /\ Bufsize - b.readpos > Minbuf
      /\ \A k \in 1 .. n : Len(D(k)) \in 1 .. Bufsize /\ (k < n => ~Roomy(b, k))
      /\ \A j, k \in 1 .. n : b.buffers[j].id = b.buffers[k].id => j = k
  BY GoodFacts DEF Good, Filled
<1>4. p <= End(b, i) /\ (i = n => p <= b.readpos) /\ (i # n => p <= Len(D(i)))
  BY <1>3, BufferFacts, SMTT(30) DEF Place, End
<1> HIDE DEF a, n, gone, l
<1>5. /\ l \in Nat \ {0} /\ l \in 1 .. l /\ gone + l = n /\ gone \in Nat
      /\ \A k \in 1 .. l : gone + k \in 1 .. n /\ (k < l => gone + k < n)
      /\ 1 \in 1 .. l
  BY <1>1, <1>3 DEF l
<1>6. Filled(a)
  <2>1. ASSUME NEW k \in 1 .. l
        PROVE  Len(a.buffers[k].data) \in 1 .. Bufsize /\ (k < l => ~Roomy(a, k))
    <3>1. a.buffers[k] = b.buffers[gone + k] /\ gone + k \in 1 .. n /\ (k < l => gone + k < n)
      BY <1>1, <1>5
    <3>2. Roomy(a, k) <=> Roomy(b, gone + k)
      BY <3>1 DEF Roomy
    <3>3. QED
      BY <1>3, <3>1, <3>2
  <2>2. ASSUME NEW j \in 1 .. l, NEW k \in 1 .. l, a.buffers[j].id = a.buffers[k].id
        PROVE  j = k
    <3>1. b.buffers[gone + j].id = b.buffers[gone + k].id
      BY <1>1, <2>2
    <3>2. gone + j \in 1 .. n /\ gone + k \in 1 .. n
      BY <1>5
    <3>3. gone + j = gone + k
      BY <1>3, <3>1, <3>2
    <3>4. QED
      BY <1>5, <3>3
  <2>3. QED
    BY <1>1, <2>1, <2>2 DEF Filled
<1>7. a.buffers[l] = b.buffers[n]
  BY <1>1, <1>5
<1>8. rest \in Nat
  BY <1>1
<1>9. /\ l = 1 => rest <= b.readpos
      /\ l # 1 => rest < Len(a.buffers[1].data)
  <2>1. a.buffers[1] = b.buffers[gone + 1] /\ gone + 1 \in 1 .. n
    BY <1>1, <1>5
  <2>2. CASE whole
    <3>1. Len(a.buffers[1].data) \in 1 .. Bufsize
      BY <1>3, <2>1
    <3>2. rest = 0
      BY <2>2
    <3> HIDE DEF rest
    <3>3. QED
      BY <1>3, <3>1, <3>2
  <2>3. CASE ~whole
    <3>1. gone + 1 = i /\ rest = p /\ (l = 1 <=> i = n)
      BY <1>1, <1>2, <1>3, <1>5, <2>3
    <3>2. Len(D(i)) \in Nat
      BY <1>1, <1>3, SMTT(30)
    <3>3. i # n => p < Len(D(i))
      BY <1>1, <1>4, <2>3, <3>2
    <3> HIDE DEF rest
    <3>4. QED
      BY <1>4, <2>1, <3>1, <3>3
  <2>4. QED
    BY <2>2, <2>3
<1> HIDE DEF rest
<1>10. Cursor(a)
  <2>1. Begin(a, 1) = rest
    BY <1>1 DEF Begin
  <2>2. rest <= End(a, 1)
    <3>1. CASE l = 1
      BY <1>1, <1>9, <3>1 DEF End
    <3>2. CASE l # 1
      <4>1. End(a, 1) = Len(a.buffers[1].data)
        BY <1>1, <3>2 DEF End
      <4>2. Len(a.buffers[1].data) \in Nat
        BY <1>1, <1>5, BufferFacts
      <4> DEFINE e == Len(a.buffers[1].data)
      <4>3. rest < e /\ e \in Nat /\ End(a, 1) = e
        BY <1>9, <3>2, <4>1, <4>2
      <4> HIDE DEF e
      <4>4. QED
        BY <1>8, <4>3
    <3>3. QED
      BY <3>1, <3>2
  <2>3. rest <= rest /\ (1 < l => l # 1)
    BY <1>5, <1>8
  <2>4. QED
    BY <1>1, <1>5, <1>9, <2>1, <2>2, <2>3 DEF Cursor
<1>11. Good(a)
  <2>1. l > 0
    BY <1>5
  <2>2. QED
    BY <1>1, <1>3, <1>6, <1>7, <1>9, <1>10, <2>1 DEF Good
<1>12. Window(a) = Window(b)
  BY <1>1, <1>3, <1>7 DEF Window
<1>13. QED
  BY <1>11, <1>12 DEF a

LEMMA DetachedRest ==
  ASSUME OptOK, NEW b \in Buffer, Good(b), NEW i, NEW p, Place(b, i, p),
         b.size = Len(Rest(b))
  PROVE  LET a   == Detached(b, i, p)
             cut == Cut(b, [buf |-> i, pos |-> p])
         IN  /\ Rest(b) = cut \o Rest(a) /\ a.size = Len(Rest(a)) /\ Cur(a) = 0
             /\ Rest(a) \in Seq(Bytes)
<1> DEFINE a == Detached(b, i, p)
           n == Len(b.buffers)
           D(k) == b.buffers[k].data
           whole == p = Len(D(i))
           gone == Gone(b, i, p)
           rest == IF whole THEN 0 ELSE p
           l == n - gone
           s == Pieces(b)
           t == Pieces(a)
           cut == Cut(b, [buf |-> i, pos |-> p])
           there == SubSeq(D(i), p + 1, End(b, i))
           rest2 == SubSeq(s, i + 1, n)
           tail == FlattenSeq(rest2)
<1>1. /\ a \in Buffer /\ a.size = b.size - Pos(b, i, p)
      /\ gone \in 0 .. n - 1 /\ i \in 1 .. n /\ p \in Nat
      /\ whole => i < n
      /\ Len(a.buffers) = l
      /\ \A k \in 1 .. l : a.buffers[k] = b.buffers[gone + k]
      /\ a.readbuf = l /\ a.readpos = b.readpos
      /\ a.parsebuf = 1 /\ a.parsepos = rest /\ a.offset = rest
  BY DetachedIs, SMTT(30)
<1>2. gone = IF whole THEN i ELSE i - 1
  BY DEF Gone
<1>3. n \in Nat \ {0} /\ b.readbuf = n
  BY GoodFacts
<1>4. Spans(b) /\ Spans(a)
  BY <1>1, DetachedGood, GoodSpans
<1>5. /\ s \in Seq(Seq(Bytes)) /\ Len(s) = n /\ \A k \in 1 .. n : s[k] = Piece(b, k)
      /\ t \in Seq(Seq(Bytes)) /\ Len(t) = l /\ \A k \in 1 .. l : t[k] = Piece(a, k)
      /\ Rest(a) = FlattenSeq(t) /\ Rest(a) = Flat(t, l) /\ Rest(a) \in Seq(Bytes)
  BY <1>1, <1>4, PiecesType, RestIs
<1>6. /\ cut \in Seq(Bytes) /\ Len(cut) = Pos(b, i, p)
      /\ there \in Seq(Bytes) /\ tail \in Seq(Bytes)
      /\ Rest(b) = cut \o (there \o tail)
  BY <1>4, <1>5, CutIs
<1> HIDE DEF a, n, gone, l, s, t
<1>7. /\ l \in Nat \ {0} /\ l \in 1 .. l /\ gone + l = n /\ gone \in Nat
      /\ \A k \in 1 .. l : gone + k \in 1 .. n /\ (k = l <=> gone + k = n)
      /\ 1 \in 1 .. l
  BY <1>1, <1>3 DEF l
<1>8. \A k \in 1 .. l : End(a, k) = End(b, gone + k)
  <2>1. ASSUME NEW k \in 1 .. l
        PROVE  End(a, k) = End(b, gone + k)
    <3>1. a.buffers[k] = b.buffers[gone + k] /\ (k = a.readbuf <=> gone + k = b.readbuf)
      BY <1>1, <1>3, <1>7
    <3>2. QED
      BY <1>1, <3>1 DEF End
  <2>2. QED
    BY <2>1
<1>9. ASSUME NEW k \in 1 .. l, k # 1 \/ whole
      PROVE  t[k] = s[gone + k]
  <2>1. Begin(a, k) = 0
    BY <1>1, <1>9 DEF Begin
  <2>2. gone + k # 1
    BY <1>1, <1>2, <1>7, <1>9
  <2>3. Begin(b, gone + k) = 0
    BY <2>2 DEF Begin
  <2>4. a.buffers[k] = b.buffers[gone + k] /\ gone + k \in 1 .. n
    BY <1>1, <1>7
  <2>5. t[k] = Piece(a, k) /\ s[gone + k] = Piece(b, gone + k)
    BY <1>5, <2>4
  <2>6. QED
    BY <1>8, <2>1, <2>3, <2>4, <2>5 DEF Piece
<1>10. rest2 \in Seq(Seq(Bytes)) /\ Len(rest2) = n - i /\ \A k \in 1 .. n - i : rest2[k] = s[i + k]
  BY <1>1, <1>3, <1>5
<1> HIDE DEF rest2, cut, there
<1>11. Rest(a) = there \o tail
  <2>1. CASE whole
    <3>1. gone = i /\ l = n - i
      BY <1>2, <2>1 DEF l
    <3>2. t = rest2
      <4>1. \A k \in 1 .. l : t[k] = rest2[k]
        BY <1>9, <1>10, <2>1, <3>1
      <4>2. QED
        BY <1>5, <1>10, <3>1, <4>1, SeqEqual
    <3>3. there = <<>>
      <4>1. i # b.readbuf
        BY <1>1, <1>3, <2>1
      <4>2. End(b, i) = p
        BY <2>1, <4>1 DEF End
      <4>3. p + 1 \in Int /\ p \in Int /\ p < p + 1
        BY <1>1
      <4> DEFINE q == p + 1
      <4> HIDE DEF q
      <4>4. SubSeq(D(i), q, p) = <<>>
        BY <4>3, SubSeqEmpty DEF q
      <4>5. QED
        BY <4>2, <4>4 DEF there, q
    <3>4. there \o tail = tail
      BY <1>6, <3>3, ConcatEmptySeq
    <3>5. QED
      BY <1>5, <3>2, <3>4
  <2>2. CASE ~whole
    <3>1. gone = i - 1 /\ gone + 1 = i /\ l = n - i + 1 /\ n - i \in Nat
      <4>1. gone = i - 1
        BY <1>2, <2>2
      <4>2. i \in 1 .. n /\ n \in Nat
        BY <1>1, <1>3
      <4>3. QED
        BY <4>1, <4>2 DEF l
    <3>2. t[1] = there
      <4>1. t[1] = Piece(a, 1) /\ a.buffers[1] = b.buffers[i] /\ End(a, 1) = End(b, i)
        BY <1>1, <1>5, <1>7, <1>8, <3>1
      <4>2. Begin(a, 1) = p
        BY <1>1, <2>2 DEF Begin
      <4>3. QED
        BY <4>1, <4>2 DEF Piece, there
    <3> DEFINE x == SubSeq(t, 2, l)
    <3>3. x \in Seq(Seq(Bytes)) /\ Len(x) = l - 1 /\ \A k \in 1 .. l - 1 : x[k] = t[k + 1]
      BY <1>5, <1>7
    <3> HIDE DEF x
    <3>4. x = rest2
      <4>1. ASSUME NEW k \in 1 .. l - 1
            PROVE  x[k] = rest2[k]
        <5>1. k + 1 \in 1 .. l /\ k + 1 # 1 /\ k \in 1 .. n - i /\ gone + (k + 1) = i + k
          BY <1>1, <1>3, <1>7, <3>1
        <5>2. t[k + 1] = s[gone + (k + 1)]
          BY <1>9, <5>1
        <5>3. QED
          BY <1>10, <3>3, <5>1, <5>2
      <4>2. Len(x) = Len(rest2) /\ Len(x) = l - 1
        BY <1>10, <3>1, <3>3, <1>1, <1>3
      <4>3. QED
        BY <1>10, <3>3, <4>1, <4>2, SeqEqual
    <3>5. Flat(t, l) = Flat(t, 1) \o FlattenSeq(SubSeq(t, 1 + 1, l))
      <4> DEFINE j == 1
      <4>1. l \in 0 .. Len(t) /\ j \in 0 .. l
        BY <1>5, <1>7
      <4> HIDE DEF j
      <4>2. Flat(t, l) = Flat(t, j) \o FlattenSeq(SubSeq(t, j + 1, l))
        BY <1>5, <4>1, FlatSplit
      <4>3. QED
        BY <4>2 DEF j
    <3>6. SubSeq(t, 1 + 1, l) = x
      BY DEF x
    <3>7. Flat(t, 1) = there
      <4>1. Flat(t, 1) = Flat(t, 1 - 1) \o t[1]
        <5>1. 1 \in 1 .. Len(t)
          BY <1>5, <1>7
        <5>2. QED
          BY <1>5, <5>1, FlattenLast DEF Flat
      <4>2. Flat(t, 1 - 1) = <<>>
        BY <1>5, FlatWhole
      <4>3. QED
        BY <1>6, <3>2, <4>1, <4>2, ConcatEmptySeq
    <3>8. QED
      BY <1>5, <3>4, <3>5, <3>6, <3>7
  <2>3. QED
    BY <2>1, <2>2
<1>12. Rest(b) = cut \o Rest(a)
  BY <1>6, <1>11
<1>13. a.size = Len(Rest(a))
  <2>1. Len(Rest(b)) = Len(cut) + Len(Rest(a))
    <3>1. Len(cut \o Rest(a)) = Len(cut) + Len(Rest(a))
      BY <1>5, <1>6, ConcatProperties
    <3>2. QED
      BY <1>12, <3>1
  <2>2. Len(Rest(a)) \in Nat /\ Len(cut) \in Nat
    BY <1>5, <1>6, LenProperties
  <2>3. QED
    BY <1>1, <1>6, <2>1, <2>2
<1>14. Cur(a) = 0
  <2>1. Flat(t, 1 - 1) = <<>>
    BY <1>5, FlatWhole
  <2>2. Begin(a, 1) = rest /\ rest \in Nat
    BY <1>1 DEF Begin
  <2>3. Cur(a) = Len(<<>>) + (rest - rest)
    BY <1>1, <2>1, <2>2 DEF Cur, Pos, t
  <2> HIDE DEF rest
  <2>4. QED
    BY <2>2, <2>3
<1>15. QED
  BY <1>5, <1>12, <1>13, <1>14 DEF a, cut
-----------------------------------------------------------------------------
LEMMA MinIs ==
  ASSUME NEW T \in SUBSET Nat, T # {}
  PROVE  Min(T) \in T /\ \A k \in T : Min(T) <= k
<1>1. \E m \in T : \A k \in T : m <= k
  BY Least
<1>2. QED
  BY <1>1 DEF Min

(* The place where the next byte will come is behind all the bytes. *)
LEMMA EndPos ==
  ASSUME OptOK, NEW b \in Buffer, Good(b), NEW n, n = Len(b.buffers)
  PROVE  Place(b, n, b.readpos) /\ Pos(b, n, b.readpos) = Len(Rest(b))
         /\ Len(Rest(b)) \in Nat
<1> DEFINE s == Pieces(b)
<1>1. n \in Nat \ {0} /\ n \in 1 .. n /\ b.readbuf = n /\ b.readpos \in Nat
  BY GoodFacts
<1>2. Spans(b)
  BY GoodSpans
<1>3. /\ s \in Seq(Seq(Bytes)) /\ Len(s) = n
      /\ s[n] \in Seq(Bytes) /\ Len(s[n]) = End(b, n) - Begin(b, n)
      /\ Rest(b) = Flat(s, n) /\ Rest(b) \in Seq(Bytes)
  BY <1>1, <1>2, PiecesType, RestIs
<1>4. End(b, n) = b.readpos /\ Begin(b, n) \in Nat /\ Begin(b, n) <= End(b, n)
  BY <1>1, <1>2, BufferFacts DEF Spans, End
<1>5. Place(b, n, b.readpos)
  BY <1>1, <1>4 DEF Place
<1>6. Flat(s, n - 1) \in Seq(Bytes)
  BY <1>2, <1>5, CutIs
<1> HIDE DEF s
<1>7. Flat(s, n) = Flat(s, n - 1) \o s[n]
  BY <1>1, <1>3, FlattenLast DEF Flat
<1>8. Len(Flat(s, n - 1) \o s[n]) = Len(Flat(s, n - 1)) + Len(s[n])
  BY <1>3, <1>6, ConcatProperties
<1>9. Pos(b, n, b.readpos) = Len(Rest(b))
  BY <1>3, <1>4, <1>7, <1>8 DEF Pos, s
<1>10. QED
  BY <1>3, <1>5, <1>9, LenProperties

LEMMA CursorPlace ==
  ASSUME OptOK, NEW b \in Buffer, Good(b)
  PROVE  /\ Place(b, b.parsebuf, b.parsepos) /\ Cur(b) \in 0 .. Len(Rest(b))
         /\ Len(b.buffers[b.parsebuf].data) # b.parsepos
<1> DEFINE n == Len(b.buffers)
           L == Len(b.buffers[b.parsebuf].data)
<1>1. /\ n \in Nat \ {0} /\ b.readbuf = n /\ b.readpos \in Nat /\ b.readpos < Bufsize
      /\ Len(b.buffers[n].data) = Bufsize /\ Bufsize \in Nat
  BY GoodFacts
<1>2. /\ b.parsebuf \in 1 .. n /\ Begin(b, b.parsebuf) <= b.parsepos
      /\ b.parsepos <= End(b, b.parsebuf)
      /\ b.parsebuf < n => b.parsepos < L
  BY DEF Good, Cursor
<1>3. b.parsepos \in Nat /\ L \in Nat /\ Begin(b, b.parsebuf) \in Nat /\ End(b, b.parsebuf) \in Nat
  BY <1>2, BufferFacts
<1>4. Place(b, b.parsebuf, b.parsepos)
  BY <1>2, <1>3 DEF Place
<1>5. Cur(b) \in 0 .. Len(Rest(b))
  BY <1>4, GoodSpans, CutIs DEF Cur
<1>6. b.parsepos # L
  <2>1. CASE b.parsebuf = n
    <3>1. End(b, b.parsebuf) = b.readpos /\ L = Bufsize
      BY <1>1, <2>1 DEF End
    <3> HIDE DEF L
    <3>2. QED
      BY <1>1, <1>2, <1>3, <3>1
  <2>2. CASE b.parsebuf # n
    <3>1. b.parsebuf < n
      BY <1>1, <1>2, <2>2
    <3> HIDE DEF L
    <3>2. QED
      BY <1>2, <1>3, <3>1
  <2>3. QED
    BY <2>1, <2>2
<1>7. QED
  BY <1>4, <1>5, <1>6

(* Where search_() looks. *)
From(b, i) == IF i = b.parsebuf THEN b.parsepos ELSE Begin(b, i)
Hits(b, i) == {p \in From(b, i) + 1 .. End(b, i) : IsSepAt(b, i, p)}
ToParse(b) == IF Waiting(b) /\ b.readpos = 0 THEN Len(b.buffers) - 1 ELSE Len(b.buffers)
Hit(b)     == {i \in b.parsebuf .. ToParse(b) : Hits(b, i) # {}}

(* Whether Rest(b) has a separator that ends with byte q. *)
SepEnds(b, q) == IsSuffix(Sep, SubSeq(Rest(b), 1, q))

LEMMA SepSearchIs ==
  ASSUME NEW b
  PROVE  SepSearch(b) =
           IF \/ b.readbuf = b.parsebuf /\ b.readpos = b.parsepos
              \/ Len(b.buffers[b.parsebuf].data) = b.parsepos
              \/ Hit(b) = {}
           THEN NotFound
           ELSE [buf |-> Min(Hit(b)), pos |-> Min(Hits(b, Min(Hit(b))))]
BY DEF SepSearch, Hit, Hits, From, ToParse

(* A separator behind the cursor is where search_() looks. *)
LEMMA Seen ==
  ASSUME OptOK, NEW b \in Buffer, Good(b), NEW q \in Cur(b) + 1 .. Len(Rest(b)), SepEnds(b, q)
  PROVE  \E i, p : i \in Hit(b) /\ p \in Hits(b, i) /\ Place(b, i, p) /\ Pos(b, i, p) = q
<1> DEFINE n == Len(b.buffers)
<1>1. Spans(b)
  BY GoodSpans
<1>2. /\ Place(b, b.parsebuf, b.parsepos) /\ Cur(b) \in 0 .. Len(Rest(b))
      /\ Len(Rest(b)) \in Nat
  BY CursorPlace, EndPos
<1>3. q \in 1 .. Len(Rest(b)) /\ Cur(b) < q /\ Cur(b) \in Nat
  BY <1>2
<1>4. PICK i, p : Place(b, i, p) /\ Begin(b, i) < p /\ Pos(b, i, p) = q
  BY <1>1, <1>3, Locate
<1>5. ~(i < b.parsebuf \/ (i = b.parsebuf /\ p <= b.parsepos))
  <2> SUFFICES ASSUME i < b.parsebuf \/ (i = b.parsebuf /\ p <= b.parsepos)
               PROVE  FALSE
    OBVIOUS
  <2>1. Pos(b, i, p) <= Pos(b, b.parsebuf, b.parsepos)
    BY <1>1, <1>2, <1>4, Order
  <2>2. QED
    BY <1>3, <1>4, <2>1 DEF Cur
<1>6. /\ i \in 1 .. n /\ n \in Nat /\ b.parsebuf \in 1 .. n /\ b.readbuf = n
      /\ p \in Begin(b, i) .. End(b, i) /\ Begin(b, i) \in Nat /\ End(b, i) \in Nat
      /\ b.parsepos \in Nat
  BY <1>2, <1>4, GoodFacts, BufferFacts DEF Place
<1> HIDE DEF n
<1>7. p \in From(b, i) + 1 .. End(b, i)
  <2>1. From(b, i) \in Nat /\ From(b, i) < p
    BY <1>4, <1>5, <1>6 DEF From
  <2>2. QED
    BY <1>6, <2>1
<1>8. IsSepAt(b, i, p)
  BY <1>4, SepAtIs DEF SepEnds
<1>9. i \in b.parsebuf .. ToParse(b)
  <2>1. i >= b.parsebuf
    BY <1>5, <1>6
  <2>2. i = n => b.readpos # 0
    <3>1. i = n => End(b, i) = b.readpos
      BY <1>6 DEF End
    <3>2. End(b, i) > 0
      BY <1>4, <1>6
    <3>3. QED
      BY <3>1, <3>2
  <2>3. ToParse(b) = IF b.readpos = 0 THEN n - 1 ELSE n
    BY <1>6 DEF ToParse, Waiting, n
  <2>4. QED
    BY <1>6, <2>1, <2>2, <2>3
<1>10. QED
  BY <1>4, <1>7, <1>8, <1>9 DEF Hit, Hits

(* search_() finds the first separator behind the cursor, or there is none. *)
LEMMA SepSearchFinds ==
  ASSUME OptOK, NEW b \in Buffer, Good(b)
  PROVE  LET at == SepSearch(b)
             q  == Pos(b, at.buf, at.pos)
         IN  IF at = NotFound
             THEN \A r \in Cur(b) + 1 .. Len(Rest(b)) : ~SepEnds(b, r)
             ELSE /\ Place(b, at.buf, at.pos) /\ at = [buf |-> at.buf, pos |-> at.pos]
                  /\ q \in Cur(b) + 1 .. Len(Rest(b)) /\ SepEnds(b, q)
                  /\ \A r \in Cur(b) + 1 .. q - 1 : ~SepEnds(b, r)
<1> DEFINE at == SepSearch(b)
           n  == Len(b.buffers)
           q  == Pos(b, at.buf, at.pos)
<1>1. Spans(b)
  BY GoodSpans
<1>2. /\ Place(b, b.parsebuf, b.parsepos) /\ Cur(b) \in 0 .. Len(Rest(b))
      /\ Len(b.buffers[b.parsebuf].data) # b.parsepos
  BY CursorPlace
<1>3. /\ Place(b, n, b.readpos) /\ Pos(b, n, b.readpos) = Len(Rest(b))
      /\ Len(Rest(b)) \in Nat
  BY EndPos
<1>4. n \in Nat \ {0} /\ b.readbuf = n /\ b.readpos \in Nat
  BY GoodFacts
<1>5. CASE b.readbuf = b.parsebuf /\ b.readpos = b.parsepos
  <2>1. at = NotFound
    BY <1>5, SepSearchIs
  <2>2. Cur(b) = Len(Rest(b))
    BY <1>3, <1>4, <1>5 DEF Cur
  <2> HIDE DEF at
  <2>3. \A r \in Cur(b) + 1 .. Len(Rest(b)) : FALSE
    BY <1>3, <2>2
  <2>4. QED
    BY <2>1, <2>3 DEF at
<1>6. CASE Hit(b) = {}
  <2>1. at = NotFound
    BY <1>6, SepSearchIs
  <2>2. ASSUME NEW r \in Cur(b) + 1 .. Len(Rest(b)), SepEnds(b, r)
        PROVE  FALSE
    BY <1>6, <2>2, Seen
  <2>3. QED
    BY <2>1, <2>2
<1>7. CASE ~(b.readbuf = b.parsebuf /\ b.readpos = b.parsepos) /\ Hit(b) # {}
  <2> DEFINE i == Min(Hit(b))
             p == Min(Hits(b, i))
  <2>1. at = [buf |-> i, pos |-> p]
    BY <1>2, <1>7, SepSearchIs
  <2>2. b.parsebuf \in 1 .. n /\ b.parsepos \in Nat /\ ToParse(b) \in 0 .. n
    BY <1>2, <1>4, BufferFacts, SMTT(30) DEF Place, ToParse
  <2>3. Hit(b) \in SUBSET Nat /\ \A k \in Hit(b) : k \in 1 .. n /\ k >= b.parsebuf
    BY <1>4, <2>2 DEF Hit
  <2>4. i \in Hit(b) /\ \A k \in Hit(b) : i <= k
    BY <1>7, <2>3, MinIs
  <2> HIDE DEF at, i, n
  <2>5. /\ i \in 1 .. n /\ i >= b.parsebuf /\ Hits(b, i) # {}
        /\ From(b, i) \in Nat /\ Begin(b, i) \in Nat /\ End(b, i) \in Nat
        /\ Begin(b, i) <= From(b, i) /\ Begin(b, i) <= End(b, i)
    <3>1. i \in 1 .. n /\ i >= b.parsebuf /\ Hits(b, i) # {}
      BY <2>3, <2>4 DEF Hit
    <3>2. Begin(b, i) \in Nat /\ End(b, i) \in Nat /\ Begin(b, i) <= End(b, i)
      BY <1>1, <3>1, BufferFacts DEF Spans, n
    <3>3. i = b.parsebuf => Begin(b, i) <= b.parsepos
      BY <1>2, <3>2 DEF Place
    <3>4. QED
      BY <2>2, <3>1, <3>2, <3>3 DEF From
  <2>6. Hits(b, i) \in SUBSET Nat
    BY <2>5 DEF Hits
  <2>7. p \in Hits(b, i) /\ \A k \in Hits(b, i) : p <= k
    BY <2>5, <2>6, MinIs
  <2> HIDE DEF p
  <2>8. /\ p \in Nat /\ From(b, i) < p /\ p <= End(b, i) /\ IsSepAt(b, i, p)
    BY <2>5, <2>7 DEF Hits
  <2>9. Place(b, i, p) /\ Place(b, i, Begin(b, i))
    BY <2>5, <2>8 DEF Place, n
  <2>10. Pos(b, i, p) \in 0 .. Len(Rest(b)) /\ SepEnds(b, Pos(b, i, p))
    BY <1>1, <2>8, <2>9, CutIs, SepAtIs DEF SepEnds
  <2>11. Cur(b) < Pos(b, i, p)
    <3> DEFINE f == Len(Flat(Pieces(b), i - 1))
    <3>1. f \in Nat
      BY <1>1, <2>9, CutIs, LenProperties
    <3>2. Pos(b, i, p) = f + (p - Begin(b, i))
      BY DEF Pos
    <3> HIDE DEF f
    <3>3. CASE i = b.parsebuf
      <4>1. Cur(b) = f + (b.parsepos - Begin(b, i)) /\ b.parsepos < p
        BY <2>8, <3>3 DEF Cur, Pos, f, From
      <4>2. QED
        BY <2>2, <2>5, <2>8, <3>1, <3>2, <4>1
    <3>4. CASE i # b.parsebuf
      <4>1. b.parsebuf < i
        BY <2>2, <2>5, <3>4
      <4>2. Cur(b) <= Pos(b, i, Begin(b, i))
        BY <1>1, <1>2, <2>9, <4>1, Order DEF Cur
      <4>3. Pos(b, i, Begin(b, i)) = f + (Begin(b, i) - Begin(b, i))
        BY DEF Pos, f
      <4>4. Begin(b, i) < p
        BY <2>8, <3>4 DEF From
      <4>5. Cur(b) \in Nat
        BY <1>2, <1>3
      <4>6. QED
        BY <2>5, <2>8, <3>1, <3>2, <4>2, <4>3, <4>4, <4>5
    <3>5. QED
      BY <3>3, <3>4
  <2>12. ASSUME NEW r \in Cur(b) + 1 .. Pos(b, i, p) - 1, SepEnds(b, r)
         PROVE  FALSE
    <3>1. r \in Cur(b) + 1 .. Len(Rest(b)) /\ r < Pos(b, i, p) /\ Pos(b, i, p) \in Nat
      BY <1>2, <1>3, <2>10
    <3>2. PICK j, k : j \in Hit(b) /\ k \in Hits(b, j) /\ Place(b, j, k) /\ Pos(b, j, k) = r
      BY <2>12, <3>1, Seen
    <3>3. i < j \/ (i = j /\ p <= k)
      <4>1. i <= j /\ (i = j => p <= k)
        BY <2>4, <2>7, <3>2
      <4>2. i \in Nat /\ j \in Nat
        BY <2>3, <2>4, <3>2
      <4>3. QED
        BY <4>1, <4>2
    <3>4. Pos(b, i, p) <= Pos(b, j, k)
      BY <1>1, <2>9, <3>2, <3>3, Order
    <3>5. QED
      BY <1>2, <1>3, <3>1, <3>2, <3>4
  <2>13. at # NotFound /\ at.buf = i /\ at.pos = p
    BY <2>1, <2>5 DEF NotFound
  <2>14. Pos(b, i, p) \in Cur(b) + 1 .. Len(Rest(b))
    BY <1>2, <1>3, <2>10, <2>11
  <2>15. QED
    BY <2>1, <2>9, <2>10, <2>12, <2>13, <2>14 DEF at
<1>8. QED
  BY <1>5, <1>6, <1>7

(* Without a separator: everything that was read, and nothing only if the  *)
(* next read comes to the start of the only buffer.                        *)
LEMMA NosepSearchFinds ==
  ASSUME OptOK, NEW b \in Buffer, Good(b)
  PROVE  LET at == NosepSearch(b)
         IN  /\ at # NotFound =>
                  /\ Place(b, at.buf, at.pos) /\ at = [buf |-> at.buf, pos |-> at.pos]
                  /\ b.readpos = 0 => at.pos = Len(b.buffers[at.buf].data)
             /\ at = NotFound /\ b.readpos = 0 /\ b.offset = 0 => Rest(b) = <<>>
<1> DEFINE at == NosepSearch(b)
           n  == Len(b.buffers)
           D(k) == b.buffers[k].data
<1>1. /\ n \in Nat \ {0} /\ b.readbuf = n /\ b.readpos \in Nat
  BY GoodFacts
<1>2. Place(b, n, b.readpos) /\ Pos(b, n, b.readpos) = Len(Rest(b)) /\ Spans(b)
  BY EndPos, GoodSpans
<1>3. at = IF b.offset # 0 /\ b.parsebuf = 1 /\ b.offset = b.parsepos THEN NotFound
           ELSE IF b.readpos # 0 THEN [buf |-> n, pos |-> b.readpos]
           ELSE IF n # 1 THEN [buf |-> n - 1, pos |-> Len(D(n - 1))]
           ELSE NotFound
  BY <1>1 DEF NosepSearch
<1>4. n # 1 => Place(b, n - 1, Len(D(n - 1)))
  <2> SUFFICES ASSUME n # 1
               PROVE  Place(b, n - 1, Len(D(n - 1)))
    OBVIOUS
  <2> DEFINE k == n - 1
  <2>1. k \in 1 .. n /\ k # n
    <3>1. n \in Nat \ {0} /\ n # 1
      BY <1>1
    <3> HIDE DEF n
    <3>2. QED
      BY <3>1
  <2> HIDE DEF k
  <2>2. End(b, k) = Len(D(k))
    BY <1>1, <2>1 DEF End
  <2>3. Begin(b, k) \in Nat /\ End(b, k) \in Nat /\ Begin(b, k) <= End(b, k)
    BY <1>2, <2>1, BufferFacts DEF Spans
  <2>4. End(b, k) \in Begin(b, k) .. End(b, k)
    BY <2>3
  <2>5. Place(b, k, Len(D(k)))
    BY <2>1, <2>2, <2>4 DEF Place
  <2>6. QED
    BY <2>5 DEF k
<1> HIDE DEF at
<1>5. ASSUME at # NotFound
      PROVE  /\ Place(b, at.buf, at.pos) /\ at = [buf |-> at.buf, pos |-> at.pos]
             /\ b.readpos = 0 => at.pos = Len(D(at.buf))
  <2>1. CASE b.readpos # 0
    BY <1>2, <1>3, <1>5, <2>1
  <2>2. CASE b.readpos = 0
    <3>1. n # 1 /\ at = [buf |-> n - 1, pos |-> Len(D(n - 1))]
      BY <1>3, <1>5, <2>2
    <3>2. at.buf = n - 1 /\ at.pos = Len(D(n - 1))
      BY <3>1
    <3>3. QED
      BY <1>4, <3>1, <3>2
  <2>3. QED
    BY <2>1, <2>2
<1>6. ASSUME at = NotFound, b.readpos = 0, b.offset = 0
      PROVE  Rest(b) = <<>>
  <2>1. n = 1
    <3>1. n # 1 => at.buf = n - 1
      BY <1>3, <1>6
    <3>2. at.buf = 0
      BY <1>6 DEF NotFound
    <3>3. QED
      BY <1>1, <3>1, <3>2
  <2>2. Flat(Pieces(b), 1 - 1) = <<>>
    BY <1>2, PiecesType, FlatWhole
  <2>3. Begin(b, 1) = 0
    BY <1>6 DEF Begin
  <2>4. Pos(b, 1, 0) = 0
    BY <2>2, <2>3 DEF Pos
  <2>5. Len(Rest(b)) = 0 /\ Rest(b) \in Seq(Bytes)
    BY <1>2, <1>6, <2>1, <2>4, RestIs
  <2>6. QED
    BY <2>5, EmptySeq
<1>7. QED
  BY <1>5, <1>6 DEF at

(* A search that fails moves the cursor only. *)
LEMMA ParsedAllIs ==
  ASSUME OptOK, NEW b \in Buffer, Good(b)
  PROVE  LET a == ParsedAll(b)
         IN  /\ a \in Buffer /\ Good(a) /\ Window(a) = Window(b)
             /\ Rest(a) = Rest(b) /\ Cur(a) = Len(Rest(b))
             /\ a.size = b.size /\ a.offset = b.offset /\ a.readpos = b.readpos
<1> DEFINE a == ParsedAll(b)
           n == Len(b.buffers)
           S == [id : Nat, data : Seq(Bytes)]
           Q == Seq(S)
<1>1. /\ n \in Nat \ {0} /\ n \in 1 .. n /\ b.readbuf = n /\ b.readpos \in Nat
  BY GoodFacts
<1>2. Place(b, n, b.readpos) /\ Pos(b, n, b.readpos) = Len(Rest(b))
  BY EndPos
<1>3. a = [b EXCEPT !.parsebuf = n, !.parsepos = b.readpos]
  BY <1>1 DEF ParsedAll, Waiting
<1>4. /\ b \in [size : Nat, offset : Nat, readbuf : Nat, readpos : Nat,
             parsebuf : Nat \ {0}, parsepos : Nat, buffers : Q]
      /\ Buffer = [size : Nat, offset : Nat, readbuf : Nat, readpos : Nat,
             parsebuf : Nat \ {0}, parsepos : Nat, buffers : Q]
  BY DEF Buffer, Bytes
<1> HIDE DEF a, n, Q
<1>5. /\ a \in Buffer /\ a.buffers = b.buffers
      /\ a.size = b.size /\ a.offset = b.offset /\ a.readpos = b.readpos
      /\ a.readbuf = b.readbuf /\ a.parsebuf = n /\ a.parsepos = b.readpos
  BY <1>1, <1>3, <1>4
<1>6. \A k : Begin(a, k) = Begin(b, k) /\ End(a, k) = End(b, k) /\ Piece(a, k) = Piece(b, k)
  BY <1>5 DEF Begin, End, Piece
<1>7. Pieces(a) = Pieces(b)
  BY <1>5, <1>6 DEF Pieces
<1>8. Rest(a) = Rest(b)
  BY <1>5, <1>6 DEF Rest
<1>9. Cur(a) = Len(Rest(b))
  BY <1>2, <1>5, <1>6, <1>7 DEF Cur, Pos
<1>10. Cursor(a)
  <2>1. Begin(b, n) <= b.readpos /\ b.readpos <= End(b, n)
    <3>1. b.readpos \in Begin(b, n) .. End(b, n)
      BY <1>2 DEF Place
    <3>2. Begin(b, n) \in Nat /\ End(b, n) \in Nat
      BY <1>1, BufferFacts DEF n
    <3>3. QED
      BY <3>1, <3>2
  <2>2. ~(n < n) /\ n = Len(b.buffers)
    BY <1>1 DEF n
  <2>3. QED
    BY <1>1, <1>5, <1>6, <2>1, <2>2 DEF Cursor
<1>11. \A k : Roomy(a, k) <=> Roomy(b, k)
  BY <1>5 DEF Roomy
<1>12. Filled(a)
  BY <1>5, <1>11 DEF Filled, Good
<1>13. Good(a)
  BY <1>5, <1>10, <1>12 DEF Good
<1>14. Window(a) = Window(b)
  BY <1>5 DEF Window
<1>15. QED
  BY <1>5, <1>8, <1>9, <1>13, <1>14 DEF a

(* detach(), by what the search returns. *)
LEMMA DetachIs ==
  ASSUME OptOK, NEW b \in Buffer, Good(b)
  PROVE  LET at == Search(b)
         IN  Detach(b) = IF at = NotFound
               THEN [found |-> FALSE, block |-> <<>>, buf |-> ParsedAll(b)]
               ELSE [found |-> TRUE, block |-> Trimmed(Cut(b, at)),
                     buf |-> [Prepare(b, at) EXCEPT !.size = @ - Len(Cut(b, at))]]
<1>1. b.buffers # <<>>
  <2>1. Len(b.buffers) # 0
    BY GoodFacts
  <2>2. QED
    BY <2>1, EmptySeq
<1>2. QED
  BY <1>1 DEF Detach
-----------------------------------------------------------------------------
(* Parts of what comes second, and of what begins a sequence. *)
LEMMA Shift ==
  ASSUME NEW S, NEW s \in Seq(S), NEW t \in Seq(S),
         NEW m \in 1 .. Len(t) + 1, NEW n \in m - 1 .. Len(t)
  PROVE  SubSeq(s \o t, Len(s) + m, Len(s) + n) = SubSeq(t, m, n)
<1>1. Len(s) \in Nat /\ Len(t) \in Nat /\ m \in Nat \ {0} /\ n \in Nat /\ m <= n + 1 /\ n <= Len(t)
  OBVIOUS
<1> DEFINE a == Len(s) + m
           e == Len(s) + n
<1>2. CASE n < m
  <2>1. a \in Int /\ e \in Int /\ e < a
    BY <1>1, <1>2
  <2> HIDE DEF a, e
  <2>2. SubSeq(s \o t, a, e) = <<>> /\ SubSeq(t, m, n) = <<>>
    BY <1>1, <1>2, <2>1, SubSeqEmpty
  <2>3. QED
    BY <2>2 DEF a, e
<1>3. CASE m <= n
  <2>1. a \in Len(s) + 1 .. Len(s) + Len(t) /\ e \in Len(s) + 1 .. Len(s) + Len(t)
        /\ a - Len(s) = m /\ e - Len(s) = n
    BY <1>1, <1>3
  <2> HIDE DEF a, e
  <2>2. SubSeq(s \o t, a, e) = SubSeq(t, a - Len(s), e - Len(s))
    BY <2>1, SubSeqOfConcat2
  <2>3. QED
    BY <2>1, <2>2 DEF a, e
<1>4. QED
  BY <1>1, <1>2, <1>3

LEMMA Within ==
  ASSUME NEW S, NEW s \in Seq(S), NEW k \in 0 .. Len(s), NEW m \in Nat \ {0},
         NEW n \in Int, n <= k
  PROVE  SubSeq(SubSeq(s, 1, k), m, n) = SubSeq(s, m, n)
OBVIOUS

(* The separator ends with a byte of the stream, seen from behind h. *)
LEMMA EndsIs ==
  ASSUME NEW S, NEW h \in Seq(S), NEW r \in Seq(S), NEW sep \in Seq(S), NEW last,
         last.end = Len(h), NEW q \in 1 .. Len(r)
  PROVE  Ends(h \o r, sep, last, Len(h) + q) <=> IsSuffix(sep, SubSeq(r, 1, q))
<1> DEFINE l == Len(sep)
           N == Len(h)
           c == SubSeq(r, 1, q)
           g == h \o r
<1>1. l \in Nat /\ N \in Nat /\ q \in Nat /\ Len(r) \in Nat /\ q >= 1 /\ q <= Len(r)
  OBVIOUS
<1>2. c \in Seq(S) /\ Len(c) = q
  BY <1>1
<1>3. IsSuffix(sep, c) <=> l <= q /\ SubSeq(c, q - l + 1, q) = sep
  <2> HIDE DEF c
  <2>1. IsSuffix(sep, c) <=> l <= Len(c) /\ SubSeq(c, Len(c) - l + 1, Len(c)) = sep
    BY <1>2, SuffixIs
  <2>2. QED
    BY <1>2, <2>1
<1>4. ASSUME l <= q
      PROVE  /\ SubSeq(c, q - l + 1, q) = SubSeq(r, q - l + 1, q)
             /\ SubSeq(g, N + q - l + 1, N + q) = SubSeq(r, q - l + 1, q)
  <2> DEFINE m == q - l + 1
  <2>1. m \in 1 .. Len(r) + 1 /\ q \in m - 1 .. Len(r) /\ q \in 0 .. Len(r)
        /\ m \in Nat \ {0} /\ q \in Int /\ q <= q
    BY <1>1, <1>4
  <2>2. N + q - l + 1 = N + m
    BY <1>1
  <2> HIDE DEF m
  <2>3. SubSeq(c, m, q) = SubSeq(r, m, q)
    BY <2>1, Within
  <2>4. SubSeq(g, N + m, N + q) = SubSeq(r, m, q)
    BY <2>1, Shift
  <2>5. QED
    BY <2>2, <2>3, <2>4 DEF m
<1> DEFINE i == N + q
<1>5. Ends(g, sep, last, i) <=> i - l >= N /\ SubSeq(g, i - l + 1, i) = sep
  BY DEF Ends
<1>6. i - l >= N <=> l <= q
  BY <1>1
<1> HIDE DEF c, g, i
<1>7. CASE l <= q
  <2>1. SubSeq(g, i - l + 1, i) = SubSeq(c, q - l + 1, q)
    BY <1>4, <1>7 DEF i
  <2>2. QED
    BY <1>3, <1>5, <1>6, <1>7, <2>1 DEF c, g, i
<1>8. CASE ~(l <= q)
  BY <1>3, <1>5, <1>6, <1>8 DEF c, g, i
<1>9. QED
  BY <1>7, <1>8

LEMMA TrimFacts ==
  ASSUME OptOK
  PROVE  Sep \in Seq(Alphabet) /\ Len(Sep) \in Nat /\ Trim \in Nat
BY OptFacts, LenProperties DEF Trim

(* No separator ends with one of these bytes. *)
Unseen(r, m, n) == \A i \in m .. n : ~IsSuffix(Sep, SubSeq(r, 1, i))

(* No separator ends between the cursor and byte k: nothing is cut off. *)
LEMMA StillIs ==
  ASSUME OptOK, NEW h \in Seq(Alphabet), NEW r \in Seq(Alphabet),
         NEW c \in 0 .. Len(r), NEW k \in c .. Len(r), NEW o,
         Parsed(h \o r, Sep, Trim)[Len(h) + c] = [end |-> Len(h), blocks |-> o],
         Unseen(r, c + 1, k)
  PROVE  Parsed(h \o r, Sep, Trim)[Len(h) + k] = [end |-> Len(h), blocks |-> o]
<1> DEFINE g == h \o r
           N == Len(h)
           last == Parsed(g, Sep, Trim)[N + c]
<1>1. g \in Seq(Alphabet) /\ Len(g) = N + Len(r)
  BY ConcatProperties
<1>2. N \in Nat /\ Len(r) \in Nat /\ c \in Nat /\ k \in Nat /\ c <= k /\ k <= Len(r)
  OBVIOUS
<1>3. last.end = N
  OBVIOUS
<1> DEFINE a == N + c
           b == N + k
<1>4. a \in 0 .. Len(g) /\ b \in a .. Len(g)
  BY <1>1, <1>2
<1>5. ASSUME NEW i \in a + 1 .. b
      PROVE  ~Ends(g, Sep, last, i)
  <2> DEFINE q == i - N
  <2>1. q \in 1 .. Len(r) /\ q \in c + 1 .. k /\ i = N + q
    BY <1>2
  <2> HIDE DEF q, last
  <2>2. Ends(h \o r, Sep, last, N + q) <=> IsSuffix(Sep, SubSeq(r, 1, q))
    BY <1>3, <2>1, EndsIs, TrimFacts
  <2>3. QED
    BY <2>1, <2>2 DEF Unseen
<1>6. Unbroken(g, Sep, Trim, a, b)
  BY <1>5 DEF Unbroken
<1> HIDE DEF a, b, g
<1>7. Parsed(g, Sep, Trim)[b] = Parsed(g, Sep, Trim)[a]
  <2>1. Len(Sep) \in Nat /\ Trim \in Nat
    BY TrimFacts
  <2>2. QED
    BY <1>1, <1>4, <1>6, <2>1, ParsedStill
<1>8. QED
  BY <1>7 DEF a, b, g

(* After h, which ended a block, the first c bytes of r ended none, no separator ends before its
   k-th byte and one ends there. *)
CutsOff(h, r, c, k, o, block) ==
  /\ h \in Seq(Alphabet) /\ r \in Seq(Alphabet)
  /\ c \in 0 .. Len(r) /\ k \in c + 1 .. Len(r)
  /\ Parsed(h \o r, Sep, Trim)[Len(h) + c] = [end |-> Len(h), blocks |-> o]
  /\ Unseen(r, c + 1, k - 1)
  /\ IsSuffix(Sep, SubSeq(r, 1, k)) /\ block = Trimmed(SubSeq(r, 1, k))

(* After h and k bytes of r the blocks are q, and the last of them just ended. *)
TurnsInto(h, r, k, q) ==
  Parsed(h \o r, Sep, Trim)[Len(h) + k] = [end |-> Len(h) + k, blocks |-> q]

(* A separator ends there first: the bytes up to it are a block. *)
LEMMA CutOff ==
  ASSUME OptOK, NEW h, NEW r, NEW c, NEW k, NEW o, NEW block, CutsOff(h, r, c, k, o, block)
  PROVE  TurnsInto(h, r, k, IF block = <<>> THEN o ELSE Append(o, block))
<1>a. /\ h \in Seq(Alphabet) /\ r \in Seq(Alphabet)
      /\ c \in 0 .. Len(r) /\ k \in c + 1 .. Len(r)
      /\ Parsed(h \o r, Sep, Trim)[Len(h) + c] = [end |-> Len(h), blocks |-> o]
      /\ Unseen(r, c + 1, k - 1)
      /\ IsSuffix(Sep, SubSeq(r, 1, k)) /\ block = Trimmed(SubSeq(r, 1, k))
  BY DEF CutsOff
<1> USE <1>a
<1> DEFINE g == h \o r
           N == Len(h)
           cut == SubSeq(r, 1, k)
           piece == Trimmed(cut)
           P == Parsed(g, Sep, Trim)
           last == [end |-> N, blocks |-> o]
<1>1. g \in Seq(Alphabet) /\ Len(g) = N + Len(r)
  BY ConcatProperties
<1>2. /\ N \in Nat /\ Len(r) \in Nat /\ c \in Nat /\ k \in Nat /\ c < k /\ k <= Len(r) /\ k >= 1
      /\ Sep \in Seq(Alphabet) /\ Len(Sep) \in Nat /\ Trim \in Nat
  BY TrimFacts
<1>3. k - 1 \in c .. Len(r) /\ k \in 1 .. Len(r)
  BY <1>2
<1>4. P[N + (k - 1)] = last
  <2> DEFINE j == k - 1
  <2>1. j \in c .. Len(r) /\ Unseen(r, c + 1, j)
    BY <1>3
  <2> HIDE DEF j
  <2>2. Parsed(h \o r, Sep, Trim)[Len(h) + j] = [end |-> Len(h), blocks |-> o]
    BY <2>1, StillIs
  <2>3. QED
    BY <2>2 DEF j
<1> DEFINE i == N + k
<1>5. i \in 1 .. Len(g) /\ i - 1 = N + (k - 1)
  BY <1>1, <1>2
<1>6. P[i] = Turned(g, Sep, Trim, P[i - 1], i)
  <2> HIDE DEF g, i
  <2>1. Follows(g, Sep, Trim, P, Len(g))
    BY <1>1, <1>2, ParsedIs
  <2>2. QED
    BY <1>5, <2>1 DEF Follows
<1>7. Ends(g, Sep, last, i)
  <2>1. Ends(h \o r, Sep, last, N + k) <=> IsSuffix(Sep, SubSeq(r, 1, k))
    <3>1. last.end = Len(h)
      OBVIOUS
    <3> HIDE DEF last
    <3>2. QED
      BY <1>2, <1>3, <3>1, EndsIs
  <2>2. QED
    BY <2>1
<1>8. SubSeq(g, N + 1, i - Trim) = piece
  <2>1. cut \in Seq(Alphabet) /\ Len(cut) = k
    BY <1>2
  <2>2. Len(Sep) <= k
    <3> HIDE DEF cut
    <3>1. IsSuffix(Sep, cut) <=>
            /\ Len(Sep) <= Len(cut)
            /\ SubSeq(cut, Len(cut) - Len(Sep) + 1, Len(cut)) = Sep
      BY <1>2, <2>1, SuffixIs
    <3>2. IsSuffix(Sep, cut)
      BY DEF cut
    <3>3. QED
      BY <2>1, <3>1, <3>2
  <2> DEFINE e == k - Trim
  <2>3. e \in 0 .. Len(r) /\ e <= k /\ e \in Int /\ i - Trim = N + e /\ e \in 1 - 1 .. Len(r)
        /\ 1 \in 1 .. Len(r) + 1 /\ k \in 0 .. Len(r)
    BY <1>2, <2>2 DEF Trim
  <2> HIDE DEF e
  <2>4. SubSeq(g, N + 1, N + e) = SubSeq(r, 1, e)
    BY <2>3, Shift
  <2>5. piece = SubSeq(cut, 1, e)
    <3>1. CASE TrimSep
      <4>1. Trim = Len(Sep) /\ Len(cut) >= Len(Sep)
        BY <1>2, <2>1, <2>2, <3>1 DEF Trim
      <4> HIDE DEF cut
      <4>2. QED
        BY <2>1, <3>1, <4>1 DEF Trimmed, e
    <3>2. CASE ~TrimSep
      <4>1. Trim = 0 /\ e = k
        BY <1>2, <3>2 DEF Trim, e
      <4> HIDE DEF cut
      <4>2. SubSeq(cut, 1, e) = cut
        BY <2>1, <4>1
      <4>3. QED
        BY <3>2, <4>2 DEF Trimmed
    <3>3. QED
      BY <3>1, <3>2
  <2>6. SubSeq(cut, 1, e) = SubSeq(r, 1, e)
    BY <2>3, Within
  <2>7. QED
    BY <2>3, <2>4, <2>5, <2>6
<1>0. block = piece
  OBVIOUS
<1> HIDE DEF g, i, P, piece
<1>9. P[i] = Turned(g, Sep, Trim, last, i)
  BY <1>4, <1>5, <1>6
<1>10. P[i] = [end |-> i, blocks |-> IF piece = <<>> THEN o ELSE Append(o, piece)]
  BY <1>7, <1>8, <1>9 DEF Turned
<1>11. QED
  BY <1>0, <1>10 DEF P, i, g, TurnsInto
-----------------------------------------------------------------------------
(* What has become of the stream g: its first bytes h were handed out as   *)
(* the blocks o, or were found to be empty blocks, and b holds the others; *)
(* no separator ends with those before the parse cursor.                   *)
Told(h, b, g, o) ==
  /\ g = h \o Rest(b) /\ b.size = Len(Rest(b))
  /\ IF Sep = <<>> THEN h = FlattenSeq(o)
     ELSE Parsed(g, Sep, Trim)[Len(h) + Cur(b)] = [end |-> Len(h), blocks |-> o]

(* The letters of what follows. *)
LEMMA TailType ==
  ASSUME NEW S, NEW T, NEW h \in Seq(T), NEW r \in Seq(T), h \o r \in Seq(S)
  PROVE  r \in Seq(S)
<1> DEFINE g == h \o r
<1>1. Len(g) = Len(h) + Len(r) /\ SubSeq(g, Len(h) + 1, Len(h) + Len(r)) = r
  BY Parts
<1>2. g \in Seq(S)
  OBVIOUS
<1>3. Len(h) \in Nat /\ Len(r) \in Nat
  OBVIOUS
<1> HIDE DEF g
<1>4. \A i \in Len(h) + 1 .. Len(h) + Len(r) : g[i] \in S
  BY <1>1, <1>2, <1>3
<1> DEFINE m == Len(h) + 1
           n == Len(h) + Len(r)
<1>5. m \in Int /\ n \in Int
  BY <1>3
<1> HIDE DEF m, n
<1>6. SubSeq(g, m, n) \in Seq(S)
  BY <1>4, <1>5, SubSeqProperties DEF m, n
<1>7. QED
  BY <1>1, <1>6 DEF m, n

LEMMA EmptyIs ==
  ASSUME OptOK
  PROVE  /\ EmptyBuffer \in Buffer /\ Settled(EmptyBuffer)
         /\ Rest(EmptyBuffer) = <<>> /\ Cur(EmptyBuffer) = 0
         /\ Told(<<>>, EmptyBuffer, <<>>, <<>>)
<1> DEFINE e == EmptyBuffer
           S == [id : Nat, data : Seq(Bytes)]
           Q == Seq(S)
<1>1. Len(e.buffers) = 0 /\ e.size = 0 /\ e.offset = 0 /\ e.parsebuf = 1 /\ e.parsepos = 0
      /\ e.readbuf = 0 /\ e.readpos = 0
  BY DEF EmptyBuffer
<1>2. e \in Buffer
  <2>1. <<>> \in Q
    BY EmptySeq
  <2>2. Buffer = [size : Nat, offset : Nat, readbuf : Nat, readpos : Nat,
             parsebuf : Nat \ {0}, parsepos : Nat, buffers : Q]
    BY DEF Buffer, Bytes
  <2> HIDE DEF Q
  <2>3. QED
    BY <2>1, <2>2 DEF EmptyBuffer
<1> HIDE DEF e
<1>3. Filled(e)
  BY <1>1 DEF Filled
<1>4. Settled(e)
  BY <1>1, <1>3 DEF Settled
<1>5. /\ Rest(e) = Flat(Pieces(e), 0) /\ Pieces(e) \in Seq(Seq(Bytes))
  BY <1>1, <1>2, <1>4, GoodSpans, PiecesType, RestIs
<1>6. Flat(Pieces(e), 0) = <<>>
  BY <1>5, FlatWhole
<1>7. Cur(e) = 0
  <2>1. Begin(e, 1) = 0
    BY <1>1 DEF Begin
  <2>2. Cur(e) = Len(<<>>) + (0 - 0)
    BY <1>1, <1>6, <2>1 DEF Cur, Pos
  <2>3. QED
    BY <2>2
<1>8. Parsed(<<>>, Sep, Trim)[0] = [end |-> 0, blocks |-> <<>>]
  <2> DEFINE g == <<>>
  <2>1. g \in Seq(Alphabet) /\ Len(g) = 0
    BY EmptySeq
  <2> HIDE DEF g
  <2>2. Follows(g, Sep, Trim, Parsed(g, Sep, Trim), Len(g))
    BY <2>1, TrimFacts, ParsedIs
  <2>3. QED
    BY <2>2 DEF Follows, Nothing, g
<1>9. Told(<<>>, e, <<>>, <<>>)
  <2>1. <<>> \o <<>> = <<>> /\ Len(<<>>) = 0 /\ Len(<<>>) + 0 = 0
    OBVIOUS
  <2>2. FlattenSeq(<<>>) = <<>>
    BY FlattenNil
  <2>3. QED
    BY <1>1, <1>5, <1>6, <1>7, <1>8, <2>1, <2>2 DEF Told
<1>10. QED
  BY <1>2, <1>4, <1>5, <1>6, <1>7, <1>9 DEF e

LEMMA StoreNil ==
  ASSUME OptOK, NEW b \in Buffer, Good(b)
  PROVE  Store(b, Window(b), <<>>) = b
<1> DEFINE w == Window(b)
           u == b.buffers
           n == Len(u)
           c == Store(b, w, <<>>)
           f == [k \in DOMAIN u |-> IF u[k].id # w.id THEN u[k]
                 ELSE [id   |-> w.id,
                       data |-> [i \in DOMAIN u[k].data |->
                                  IF i \in w.pos + 1 .. w.pos + Len(<<>>)
                                  THEN <<>>[i - w.pos] ELSE u[k].data[i]]]]
<1>1. c = [b EXCEPT !.buffers = f]
  BY DEF Store
<1>2. w.pos \in Nat /\ w.pos + Len(<<>>) = w.pos
  BY BufferFacts DEF Window
<1>3. u \in Seq([id : Nat, data : Seq(Bytes)]) /\ DOMAIN u = 1 .. n
  <2>1. u \in Seq([id : Nat, data : Seq(Bytes)])
    BY BufferFacts
  <2>2. QED
    BY <2>1, LenProperties
<1>4. \A k \in 1 .. n : u[k] \in [id : Nat, data : Seq(Bytes)]
  BY BufferFacts
<1>5. \A i : ~(i \in w.pos + 1 .. w.pos + Len(<<>>))
  BY <1>2
<1> HIDE DEF w, u, n, c
<1>6. ASSUME NEW k \in 1 .. n
      PROVE  f[k] = u[k]
  <2>1. u[k].data \in Seq(Bytes) /\ u[k] = [id |-> u[k].id, data |-> u[k].data]
    BY <1>4
  <2>2. [i \in DOMAIN u[k].data |-> u[k].data[i]] = u[k].data
    BY <2>1
  <2>3. f[k] = IF u[k].id # w.id THEN u[k]
               ELSE [id |-> w.id, data |-> [i \in DOMAIN u[k].data |-> u[k].data[i]]]
    BY <1>3, <1>5
  <2>4. QED
    BY <2>1, <2>2, <2>3
<1>7. f = u
  <2>1. u = [k \in DOMAIN u |-> u[k]]
    BY <1>3
  <2>2. QED
    BY <1>3, <1>6, <2>1
<1> HIDE DEF f
<1>8. c = [b EXCEPT !.buffers = u]
  BY <1>1, <1>7
<1>9. QED
  BY <1>8 DEF Buffer, c, w, u

(* A read: its bytes come behind those of the stream. *)
LEMMA TakeIn ==
  ASSUME OptOK, NEW b \in Buffer, Good(b), NEW bytes \in Seq(Alphabet),
         Len(bytes) <= Bufsize - b.readpos,
         NEW h \in Seq(Alphabet), NEW g \in Seq(Alphabet), NEW o, Told(h, b, g, o)
  PROVE  LET c == Confirm(Store(b, Window(b), bytes), Window(b), Len(bytes))
         IN  /\ c \in Buffer /\ Settled(c) /\ c.offset = b.offset
             /\ Rest(c) = Rest(b) \o bytes /\ Cur(c) = Cur(b)
             /\ g \o bytes \in Seq(Alphabet) /\ Told(h, c, g \o bytes, o)
<1> DEFINE c == Confirmed(b, bytes)
<1>1. Confirm(Store(b, Window(b), bytes), Window(b), Len(bytes)) = c
  BY StoreIs
<1>2. /\ c \in Buffer /\ c.offset = b.offset /\ c.size = b.size + Len(bytes)
      /\ Settled(c) /\ Rest(c) = Rest(b) \o bytes /\ Cur(c) = Cur(b)
      /\ Rest(b) \in Seq(Bytes)
  BY ConfirmedIs, ConfirmedSettles, ConfirmedRest
<1> HIDE DEF c
<1>3. g \o bytes \in Seq(Alphabet)
  BY ConcatProperties
<1>4. h \in Seq(Bytes) /\ bytes \in Seq(Bytes)
  BY DEF Bytes
<1>5. g \o bytes = h \o Rest(c)
  <2> DEFINE r == Rest(b)
  <2>1. r \in Seq(Bytes) /\ g = h \o r
    BY <1>2 DEF Told
  <2> HIDE DEF r
  <2>2. (h \o r) \o bytes = h \o (r \o bytes)
    BY <1>4, <2>1, ConcatAssociative
  <2>3. QED
    BY <1>2, <2>1, <2>2 DEF r
<1>6. c.size = Len(Rest(c))
  <2>1. Len(Rest(b) \o bytes) = Len(Rest(b)) + Len(bytes)
    BY <1>2, <1>4, ConcatProperties
  <2>2. QED
    BY <1>2, <2>1 DEF Told
<1>7. ASSUME Sep # <<>>
      PROVE  Parsed(g \o bytes, Sep, Trim)[Len(h) + Cur(c)] = [end |-> Len(h), blocks |-> o]
  <2>1. Parsed(g, Sep, Trim)[Len(h) + Cur(b)] = [end |-> Len(h), blocks |-> o]
    BY <1>7 DEF Told
  <2>2. Len(h) + Cur(b) \in 0 .. Len(g)
    <3>1. Cur(b) \in 0 .. Len(Rest(b)) /\ Len(Rest(b)) \in Nat
      BY CursorPlace, EndPos
    <3>2. Len(g) = Len(h) + Len(Rest(b)) /\ Len(h) \in Nat
      <4>1. g = h \o Rest(b)
        BY DEF Told
      <4>2. Len(h \o Rest(b)) = Len(h) + Len(Rest(b))
        BY <1>2, <1>4, ConcatProperties
      <4>3. QED
        BY <4>1, <4>2, LenProperties
    <3>3. QED
      BY <3>1, <3>2
  <2>3. Parsed(g \o bytes, Sep, Trim)[Len(h) + Cur(b)] = Parsed(g, Sep, Trim)[Len(h) + Cur(b)]
    <3>1. \A i \in 0 .. Len(g) : Parsed(g \o bytes, Sep, Trim)[i] = Parsed(g, Sep, Trim)[i]
      BY TrimFacts, ParsedLocal
    <3>2. QED
      BY <2>2, <3>1
  <2>4. QED
    BY <1>2, <2>1, <2>3
<1>8. Told(h, c, g \o bytes, o)
  BY <1>5, <1>6, <1>7 DEF Told
<1>9. QED
  BY <1>1, <1>2, <1>3, <1>8

(* A block: the bytes up to where the search ended leave the buffer. *)
LEMMA HandOut ==
  ASSUME OptOK, NEW b \in Buffer, Good(b), NEW h \in Seq(Alphabet), NEW g \in Seq(Alphabet),
         NEW o \in Seq(Seq(Alphabet)), Told(h, b, g, o), Search(b) # NotFound
  PROVE  LET at    == Search(b)
             a     == [Prepare(b, at) EXCEPT !.size = @ - Len(Cut(b, at))]
             block == Trimmed(Cut(b, at))
             q     == IF block = <<>> THEN o ELSE Append(o, block)
         IN  /\ a \in Buffer /\ Good(a) /\ Window(a) = Window(b)
             /\ q \in Seq(Seq(Alphabet)) /\ \E k \in Seq(Alphabet) : Told(k, a, g, q)
             /\ Sep = <<>> /\ b.readpos = 0 => a.readpos = 0 /\ a.offset = 0
<1> DEFINE at    == Search(b)
           i     == at.buf
           p     == at.pos
           a     == Detached(b, i, p)
           cut   == Cut(b, at)
           block == Trimmed(cut)
           q     == IF block = <<>> THEN o ELSE Append(o, block)
           r     == Rest(b)
<1>1. /\ Place(b, i, p) /\ at = [buf |-> i, pos |-> p]
      /\ Sep = <<>> /\ b.readpos = 0 => p = Len(b.buffers[i].data)
  <2>1. CASE Sep = <<>>
    <3>1. at = NosepSearch(b) /\ at # NotFound
      BY <2>1 DEF Search
    <3>2. QED
      BY <3>1, NosepSearchFinds
  <2>2. CASE Sep # <<>>
    <3>1. at = SepSearch(b) /\ at # NotFound
      BY <2>2 DEF Search
    <3>2. QED
      BY <2>2, <3>1, SepSearchFinds
  <2>3. QED
    BY <2>1, <2>2
<1>2. a = [Prepare(b, at) EXCEPT !.size = @ - Len(cut)]
  BY <1>1 DEF Detached
<1>3. b.size = Len(r) /\ g = h \o r
  BY DEF Told
<1> HIDE DEF at
<1>4. /\ a \in Buffer /\ Good(a) /\ Window(a) = Window(b)
      /\ p = Len(b.buffers[i].data) => a.offset = 0
      /\ a.readpos = b.readpos
      /\ r = cut \o Rest(a) /\ a.size = Len(Rest(a)) /\ Cur(a) = 0
      /\ Rest(a) \in Seq(Bytes)
  BY <1>1, <1>3, DetachedIs, DetachedGood, DetachedRest
<1> HIDE DEF i, p
<1>5. /\ cut \in Seq(Bytes) /\ Len(cut) = Pos(b, i, p)
      /\ SubSeq(r, 1, Pos(b, i, p)) = cut /\ r \in Seq(Bytes)
  <2>1. Spans(b)
    BY GoodSpans
  <2>2. /\ Cut(b, [buf |-> i, pos |-> p]) \in Seq(Bytes)
        /\ Len(Cut(b, [buf |-> i, pos |-> p])) = Pos(b, i, p)
        /\ SubSeq(r, 1, Pos(b, i, p)) = Cut(b, [buf |-> i, pos |-> p])
    BY <1>1, <2>1, CutIs
  <2>3. cut = Cut(b, [buf |-> i, pos |-> p])
    BY <1>1
  <2>4. r \in Seq(Bytes)
    BY <2>1, RestIs
  <2>5. QED
    BY <2>2, <2>3, <2>4
<1> HIDE DEF a, cut, r
<1>6. r \in Seq(Alphabet) /\ h \in Seq(Bytes)
  <2>1. h \in Seq(Bytes)
    BY DEF Bytes
  <2>2. h \o r \in Seq(Alphabet)
    BY <1>3
  <2>3. QED
    BY <1>5, <2>1, <2>2, TailType
<1>7. cut \in Seq(Alphabet)
  <2>1. \A j \in 1 .. Len(cut) : cut[j] = r[j] /\ j \in 1 .. Len(r)
    <3> DEFINE x == Rest(a)
    <3>0. r = cut \o x /\ x \in Seq(Bytes)
      BY <1>4
    <3> HIDE DEF x
    <3>1. r = cut \o x /\ Len(r) = Len(cut) + Len(x)
          /\ \A j \in 1 .. Len(cut) + Len(x) :
               r[j] = IF j <= Len(cut) THEN cut[j] ELSE x[j - Len(cut)]
      <4>1. /\ Len(cut \o x) = Len(cut) + Len(x)
            /\ \A j \in 1 .. Len(cut) + Len(x) :
                 (cut \o x)[j] = IF j <= Len(cut) THEN cut[j] ELSE x[j - Len(cut)]
        BY <1>5, <3>0, ConcatProperties, Zenon
      <4>2. QED
        BY <3>0, <4>1, Zenon
    <3>2. Len(cut) \in Nat /\ Len(x) \in Nat
      BY <1>5, <3>0, LenProperties
    <3>3. QED
      BY <3>1, <3>2
  <2>2. \A j \in 1 .. Len(cut) : cut[j] \in Alphabet
    BY <1>6, <2>1, ElementOfSeq
  <2>3. QED
    BY <1>5, <2>2
<1>8. block \in Seq(Alphabet)
  <2>1. Len(Sep) \in Nat /\ Len(cut) \in Nat
    BY <1>7, TrimFacts, LenProperties
  <2> DEFINE e == Len(cut) - Len(Sep)
  <2>2. e \in Int /\ e <= Len(cut)
    BY <2>1
  <2> HIDE DEF e
  <2>3. SubSeq(cut, 1, e) \in Seq(Alphabet)
    BY <1>7, <2>1, <2>2
  <2>4. QED
    BY <1>7, <2>3 DEF Trimmed, e
<1> HIDE DEF block
<1>9. q \in Seq(Seq(Alphabet))
  BY <1>8, AppendProperties
<1> DEFINE k == h \o cut
<1>10. k \in Seq(Alphabet) /\ Len(k) = Len(h) + Len(cut)
  BY <1>7, ConcatProperties
<1>11. g = k \o Rest(a)
  <2> DEFINE x == Rest(a)
  <2>1. x \in Seq(Bytes) /\ g = h \o (cut \o x)
    BY <1>3, <1>4
  <2> HIDE DEF x
  <2>2. (h \o cut) \o x = h \o (cut \o x)
    BY <1>5, <1>6, <2>1, ConcatAssociative, SMTT(30)
  <2>3. QED
    BY <2>1, <2>2 DEF x
<1>12. CASE Sep = <<>>
  <2>1. block = cut
    <3>1. Len(Sep) = 0
      BY <1>12
    <3>2. Len(cut) \in Nat
      BY <1>7, LenProperties
    <3>3. SubSeq(cut, 1, Len(cut)) = cut
      BY <1>7, SubSeqFull
    <3>4. Len(cut) - Len(Sep) = Len(cut)
      BY <3>1, <3>2
    <3>5. QED
      BY <3>3, <3>4 DEF block, Trimmed
  <2>2. h = FlattenSeq(o)
    BY <1>12 DEF Told
  <2>3. k = FlattenSeq(q)
    <3>1. CASE block = <<>>
      <4>1. k = h \o <<>>
        BY <2>1, <3>1
      <4>2. h \o <<>> = h
        BY ConcatEmptySeq
      <4>3. QED
        BY <2>2, <3>1, <4>1, <4>2
    <3>2. CASE block # <<>>
      <4>1. FlattenSeq(Append(o, cut)) = FlattenSeq(o) \o cut
        BY <1>7, FlattenAppend
      <4>2. QED
        BY <2>1, <2>2, <3>2, <4>1
    <3>3. QED
      BY <3>1, <3>2
  <2> HIDE DEF k, q
  <2>4. Told(k, a, g, q)
    BY <1>4, <1>11, <1>12, <2>3 DEF Told
  <2>5. QED
    BY <1>1, <1>2, <1>4, <1>9, <1>10, <2>4 DEF q, block, cut, at, a
<1>13. CASE Sep # <<>>
  <2> DEFINE m == Pos(b, i, p)
  <2>1. /\ m \in Cur(b) + 1 .. Len(r) /\ SepEnds(b, m)
        /\ \A j \in Cur(b) + 1 .. m - 1 : ~SepEnds(b, j)
    <3>1. at = SepSearch(b) /\ at # NotFound
      BY <1>13 DEF Search, at
    <3>2. QED
      BY <3>1, SepSearchFinds DEF r, i, p
  <2>2. Parsed(h \o r, Sep, Trim)[Len(h) + Cur(b)] = [end |-> Len(h), blocks |-> o]
    BY <1>3, <1>13 DEF Told
  <2>3. Cur(b) \in 0 .. Len(r)
    BY CursorPlace DEF r
  <2>4. Unseen(r, Cur(b) + 1, m - 1)
    BY <2>1 DEF SepEnds, r, Unseen
  <2>5. IsSuffix(Sep, SubSeq(r, 1, m))
    BY <2>1 DEF SepEnds, r
  <2> DEFINE c == Cur(b)
  <2> HIDE DEF m, c
  <2>6. LET bl == Trimmed(SubSeq(r, 1, m))
        IN  Parsed(h \o r, Sep, Trim)[Len(h) + m] =
              [end |-> Len(h) + m, blocks |-> IF bl = <<>> THEN o ELSE Append(o, bl)]
    <3>1. /\ c \in 0 .. Len(r) /\ m \in c + 1 .. Len(r)
          /\ Parsed(h \o r, Sep, Trim)[Len(h) + c] = [end |-> Len(h), blocks |-> o]
          /\ Unseen(r, c + 1, m - 1)
      BY <2>1, <2>2, <2>3, <2>4 DEF c
    <3> DEFINE bl == Trimmed(SubSeq(r, 1, m))
    <3>2. Parsed(h \o r, Sep, Trim)[Len(h) + m] =
            [end |-> Len(h) + m, blocks |-> IF bl = <<>> THEN o ELSE Append(o, bl)]
      <4>1. bl = Trimmed(SubSeq(r, 1, m))
        OBVIOUS
      <4> HIDE DEF bl
      <4>2. CutsOff(h, r, c, m, o, bl)
        BY <1>6, <2>5, <3>1, <4>1, Zenon DEF CutsOff
      <4>3. TurnsInto(h, r, m, IF bl = <<>> THEN o ELSE Append(o, bl))
        BY <4>2, CutOff, Zenon
      <4>4. QED
        BY <4>3, Zenon DEF TurnsInto
    <3>3. QED
      BY <3>2
  <2>7. SubSeq(r, 1, m) = cut /\ Len(cut) = m
    BY <1>5 DEF m
  <2>8. Parsed(g, Sep, Trim)[Len(k)] = [end |-> Len(k), blocks |-> q]
    BY <1>3, <1>10, <2>6, <2>7 DEF block
  <2>9. Len(k) + Cur(a) = Len(k)
    <3>1. Len(k) \in Nat
      BY <1>10, LenProperties
    <3>2. QED
      BY <1>4, <3>1
  <2> HIDE DEF k, q
  <2>10. Told(k, a, g, q)
    BY <1>4, <1>11, <1>13, <2>8, <2>9 DEF Told
  <2>11. QED
    BY <1>1, <1>2, <1>4, <1>9, <1>10, <1>13, <2>10 DEF q, block, cut, at, a
<1>14. QED
  BY <1>12, <1>13

(* No block: what was read stays, and the search goes on behind it. *)
LEMMA LeaveAlone ==
  ASSUME OptOK, NEW b \in Buffer, Good(b), NEW h \in Seq(Alphabet), NEW g \in Seq(Alphabet),
         NEW o, Told(h, b, g, o), Search(b) = NotFound
  PROVE  LET a == ParsedAll(b)
         IN  /\ a \in Buffer /\ Good(a) /\ Window(a) = Window(b) /\ Told(h, a, g, o)
             /\ a.readpos = b.readpos /\ a.offset = b.offset /\ Cur(a) = Len(Rest(a))
             /\ Sep = <<>> /\ b.readpos = 0 /\ b.offset = 0 => Rest(a) = <<>>
<1> DEFINE a == ParsedAll(b)
           r == Rest(b)
<1>1. /\ a \in Buffer /\ Good(a) /\ Window(a) = Window(b)
      /\ Rest(a) = r /\ Cur(a) = Len(r)
      /\ a.size = b.size /\ a.offset = b.offset /\ a.readpos = b.readpos
  BY ParsedAllIs
<1>2. g = h \o r /\ b.size = Len(r)
  BY DEF Told
<1>3. r \in Seq(Alphabet)
  <2>1. h \in Seq(Bytes) /\ r \in Seq(Bytes)
    BY GoodSpans, RestIs DEF Bytes
  <2> HIDE DEF r
  <2>2. QED
    BY <1>2, <2>1, TailType
<1> HIDE DEF a
<1>4. CASE Sep = <<>>
  <2>1. Told(h, a, g, o)
    BY <1>1, <1>2, <1>4 DEF Told
  <2>2. b.readpos = 0 /\ b.offset = 0 => Rest(a) = <<>>
    <3>1. NosepSearch(b) = NotFound
      BY <1>4 DEF Search
    <3>2. QED
      BY <1>1, <3>1, NosepSearchFinds
  <2>3. QED
    BY <1>1, <2>1, <2>2 DEF a
<1>5. CASE Sep # <<>>
  <2> DEFINE c == Cur(b)
             k == Len(r)
  <2>1. SepSearch(b) = NotFound
    BY <1>5 DEF Search
  <2>2. \A q \in Cur(b) + 1 .. Len(Rest(b)) : ~SepEnds(b, q)
    BY <2>1, SepSearchFinds
  <2>3. Unseen(r, c + 1, k)
    BY <2>2 DEF Unseen, SepEnds
  <2>4. c \in 0 .. Len(r) /\ k \in c .. Len(r) /\ k \in Nat
    BY CursorPlace, EndPos
  <2>5. Parsed(h \o r, Sep, Trim)[Len(h) + c] = [end |-> Len(h), blocks |-> o]
    BY <1>2, <1>5 DEF Told
  <2> HIDE DEF c, k, r
  <2>6. Parsed(h \o r, Sep, Trim)[Len(h) + k] = [end |-> Len(h), blocks |-> o]
    BY <1>3, <2>3, <2>4, <2>5, StillIs
  <2>7. Told(h, a, g, o)
    BY <1>1, <1>2, <1>5, <2>6 DEF Told, k
  <2>8. QED
    BY <1>1, <1>5, <2>7 DEF a, r
<1>6. QED
  BY <1>4, <1>5

(* No buffer that holds a byte has room for another read. *)
Emptied == Minbuf = 0 \/ Minbuf + 1 >= Bufsize

(* next() finds a place for the next read and moves no byte. *)
LEMMA GoOn ==
  ASSUME OptOK, NEW c \in Buffer, Settled(c), NEW h \in Seq(Alphabet), NEW g \in Seq(Alphabet),
         NEW o, Told(h, c, g, o)
  PROVE  LET m == Next(c)
         IN  /\ m \in Buffer /\ Good(m) /\ Told(h, m, g, o) /\ m.offset = c.offset
             /\ Rest(m) = Rest(c) /\ Cur(m) = Cur(c)
             /\ Emptied => m.readpos = 0
<1> DEFINE m == Next(c)
           n == Len(c.buffers)
<1>1. /\ m \in Buffer /\ m.size = c.size /\ m.offset = c.offset
      /\ ~(n > 0 /\ Roomy(c, n)) => m.readpos = 0
  BY NextIs
<1>2. Good(m)
  BY NextGood
<1>3. Rest(m) = Rest(c) /\ Cur(m) = Cur(c)
  BY NextRest
<1>4. ASSUME Emptied, n > 0
      PROVE  ~Roomy(c, n)
  <2>1. n \in Nat
    BY BufferFacts
  <2>2. Len(c.buffers[n].data) \in 1 .. Bufsize
    <3> HIDE DEF n
    <3>1. n \in 1 .. n
      BY <1>4, <2>1
    <3>2. \A k \in 1 .. n : Len(c.buffers[k].data) \in 1 .. Bufsize
      BY DEF Settled, Filled, n
    <3>3. QED
      BY <3>1, <3>2
  <2> DEFINE used == Len(c.buffers[n].data)
  <2>3. used \in 1 .. Bufsize
    BY <2>2
  <2>4. Bufsize \in Nat /\ Minbuf \in Nat
    BY OptFacts
  <2>5. Roomy(c, n) <=> Minbuf # 0 /\ Bufsize - used > Minbuf
    BY DEF Roomy
  <2> HIDE DEF used, n
  <2>6. QED
    BY <1>4, <2>3, <2>4, <2>5 DEF Emptied
<1>5. Told(h, m, g, o)
  <2> HIDE DEF m
  <2>1. QED
    BY <1>1, <1>3 DEF Told
<1> HIDE DEF m, n
<1>6. QED
  BY <1>1, <1>2, <1>3, <1>4, <1>5 DEF m
-----------------------------------------------------------------------------
(* A session: the read that is out has its place in the buffer, and the    *)
(* bytes received were handed out as the blocks out, or are held.          *)
Held(b, w, g, o) == /\ b \in Buffer /\ Good(b) /\ w = Window(b)
                    /\ \E h \in Seq(Alphabet) : Told(h, b, g, o)

(* Between two reads all that was read has been searched.  Without a       *)
(* separator it has been handed out, unless next() may read into the tail  *)
(* of a buffer that was handed out in part: see NosepSearchFinds.          *)
Rested(b, m, bz) ==
  /\ Sep # <<>> /\ m = Nobody /\ bz = {} => Cur(b) = Len(Rest(b))
  /\ Sep = <<>> /\ Emptied =>
       /\ b.readpos = 0 /\ b.offset = 0
       /\ m = Nobody /\ bz = {} => Rest(b) = <<>>

Core(b, w, g, o, m, bz, isopen) ==
  /\ g \in Seq(Alphabet) /\ o \in Seq(Seq(Alphabet))
  /\ m \in Threads \cup {Nobody} /\ bz \subseteq Threads
  /\ \/ isopen = TRUE /\ Held(b, w, g, o) /\ Rested(b, m, bz)
     \/ isopen = FALSE /\ b = EmptyBuffer /\ w = NoOp /\ g = <<>> /\ o = <<>>

IInv == OptOK /\ Core(rbuf, op, got, out, mutex, busy, open)

LEMMA Carry ==
  ASSUME OptOK, opt' = opt, Core(rbuf', op', got', out', mutex', busy', open')
  PROVE  IInv'
<1>1. /\ Sep' = Sep /\ Bufsize' = Bufsize /\ Minbuf' = Minbuf /\ TrimSep' = TrimSep
      /\ OptOK'
  BY DEF Sep, Bufsize, Minbuf, TrimSep, OptOK
<1>2. Trim' = Trim /\ (Emptied' <=> Emptied)
  BY <1>1 DEF Trim, Emptied
<1>3. Good(rbuf') => Good(rbuf)'
  BY <1>1 DEF Good, Filled, Roomy
<1>4. ASSUME NEW h \in Seq(Alphabet), Told(h, rbuf', got', out')
      PROVE  Told(h, rbuf, got, out)'
  BY <1>1, <1>2, <1>4 DEF Told
<1>5. Held(rbuf', op', got', out') => Held(rbuf, op, got, out)'
  BY <1>3, <1>4 DEF Held
<1>6. Rested(rbuf', mutex', busy') => Rested(rbuf, mutex, busy)'
  BY <1>1, <1>2 DEF Rested
<1>7. Core(rbuf, op, got, out, mutex, busy, open)'
  BY <1>5, <1>6 DEF Core
<1>8. QED
  BY <1>1, <1>7 DEF IInv

(* What the next read begins with. *)
Resting(c, m, bz) ==
  /\ Sep # <<>> /\ m = Nobody /\ bz = {} => Cur(c) = Len(Rest(c))
  /\ Sep = <<>> /\ Emptied => /\ c.offset = 0
                              /\ m = Nobody /\ bz = {} => Rest(c) = <<>>

LEMMA NextRests ==
  ASSUME OptOK, NEW c \in Buffer, Settled(c), NEW h \in Seq(Alphabet), NEW g \in Seq(Alphabet),
         NEW o, Told(h, c, g, o), NEW m, NEW bz, Resting(c, m, bz)
  PROVE  Held(Next(c), Window(Next(c)), g, o) /\ Rested(Next(c), m, bz)
<1> DEFINE d == Next(c)
<1>1. /\ d \in Buffer /\ Good(d) /\ Told(h, d, g, o) /\ d.offset = c.offset
      /\ Rest(d) = Rest(c) /\ Cur(d) = Cur(c) /\ (Emptied => d.readpos = 0)
  BY GoOn
<1> HIDE DEF d
<1>2. Held(d, Window(d), g, o)
  BY <1>1 DEF Held
<1>3. Rested(d, m, bz)
  BY <1>1 DEF Rested, Resting
<1>4. QED
  BY <1>2, <1>3 DEF d

LEMMA MoreKeeps ==
  ASSUME OptOK, NEW c \in Buffer, Settled(c), NEW h \in Seq(Alphabet), NEW g \in Seq(Alphabet),
         out \in Seq(Seq(Alphabet)), Told(h, c, g, out),
         mutex' \in Threads \cup {Nobody}, busy' \subseteq Threads,
         Resting(c, mutex', busy'), More(c, g)
  PROVE  Core(rbuf', op', got', out', mutex', busy', open')
<1>1. CASE Closed
  <2>1. <<>> \in Seq(Alphabet) /\ <<>> \in Seq(Seq(Alphabet))
    BY EmptySeq
  <2>2. /\ rbuf' = EmptyBuffer /\ op' = NoOp /\ open' = FALSE
        /\ got' = <<>> /\ out' = <<>>
    BY <1>1 DEF Closed
  <2>3. QED
    BY <2>1, <2>2 DEF Core
<1>2. CASE /\ rbuf' = Next(c) /\ op' = Window(Next(c)) /\ open' = TRUE
           /\ got' = g /\ out' = out
  <2>1. Held(rbuf', op', got', out') /\ Rested(rbuf', mutex', busy')
    BY <1>2, NextRests
  <2>2. QED
    BY <1>2, <2>1 DEF Core
<1>3. QED
  BY <1>1, <1>2 DEF More

LEMMA OpenHeld ==
  ASSUME IInv, open \/ op # NoOp
  PROVE  /\ OptOK /\ open = TRUE /\ Held(rbuf, op, got, out) /\ Rested(rbuf, mutex, busy)
         /\ rbuf \in Buffer /\ Good(rbuf) /\ op = Window(rbuf)
BY DEF IInv, Core, Held

LEMMA InitCore ==
  ASSUME Init
  PROVE  IInv
<1>1. OptOK /\ rbuf = Next(EmptyBuffer) /\ op = Window(Next(EmptyBuffer))
      /\ got = <<>> /\ out = <<>> /\ mutex = Nobody /\ busy = {} /\ open = TRUE
  BY DEF Init, OptOK
<1>2. <<>> \in Seq(Alphabet) /\ <<>> \in Seq(Seq(Alphabet)) /\ Len(<<>>) = 0
  BY EmptySeq
<1> DEFINE e == EmptyBuffer
<1>3. /\ e \in Buffer /\ Settled(e) /\ Rest(e) = <<>> /\ Cur(e) = 0
      /\ Told(<<>>, e, <<>>, <<>>) /\ e.offset = 0
  BY <1>1, EmptyIs DEF EmptyBuffer
<1> HIDE DEF e
<1>4. Resting(e, mutex, busy)
  BY <1>2, <1>3 DEF Resting
<1>5. Held(Next(e), Window(Next(e)), <<>>, <<>>) /\ Rested(Next(e), mutex, busy)
  BY <1>1, <1>2, <1>3, <1>4, NextRests
<1>6. Core(rbuf, op, got, out, mutex, busy, open)
  BY <1>1, <1>2, <1>5 DEF Core, e
<1>7. QED
  BY <1>1, <1>6 DEF IInv

LEMMA ReadDoneKeeps ==
  ASSUME IInv, opt' = opt, NEW t \in Threads, NEW bytes \in Inputs, ReadDone(t, bytes)
  PROVE  IInv'
<1> DEFINE c == Confirm(Store(rbuf, op, bytes), op, Len(bytes))
<1>1. /\ op # NoOp /\ Len(bytes) <= op.len /\ More(c, got \o bytes)
      /\ mutex' = t /\ busy' = busy
  BY DEF ReadDone
<1>2. /\ OptOK /\ Held(rbuf, op, got, out) /\ rbuf \in Buffer /\ Good(rbuf)
      /\ op = Window(rbuf) /\ Rested(rbuf, mutex, busy)
  BY <1>1, OpenHeld
<1>3. bytes \in Seq(Alphabet)
  BY DEF Inputs
<1>4. Len(bytes) <= Bufsize - rbuf.readpos
  <2> DEFINE n == Len(rbuf.buffers)
  <2>1. Window(rbuf).len = Bufsize - rbuf.readpos
    <3>1. n = Len(rbuf.buffers)
      OBVIOUS
    <3> HIDE DEF n
    <3>2. Window(rbuf) = [id |-> rbuf.buffers[n].id, pos |-> rbuf.readpos,
                          len |-> Bufsize - rbuf.readpos]
      BY <1>2, <3>1, GoodFacts
    <3>3. QED
      BY <3>2
  <2>2. QED
    BY <1>1, <1>2, <2>1
<1>5. got \in Seq(Alphabet) /\ out \in Seq(Seq(Alphabet)) /\ busy \subseteq Threads
  BY DEF IInv, Core
<1>6. PICK h \in Seq(Alphabet) : Told(h, rbuf, got, out)
  BY <1>2 DEF Held
<1>7. /\ c \in Buffer /\ Settled(c) /\ c.offset = rbuf.offset
      /\ got \o bytes \in Seq(Alphabet) /\ Told(h, c, got \o bytes, out)
  BY <1>2, <1>3, <1>4, <1>5, <1>6, TakeIn
<1> HIDE DEF c
<1>8. mutex' \in Threads \cup {Nobody} /\ mutex' # Nobody /\ busy' \subseteq Threads
  BY <1>1, <1>5, ReaderBounds
<1>9. Resting(c, mutex', busy')
  BY <1>2, <1>7, <1>8 DEF Resting, Rested
<1>10. Core(rbuf', op', got', out', mutex', busy', open')
  BY <1>1, <1>2, <1>5, <1>7, <1>8, <1>9, MoreKeeps
<1>11. QED
  BY <1>2, <1>10, Carry

LEMMA WouldBlockKeeps ==
  ASSUME IInv, opt' = opt, WouldBlock
  PROVE  IInv'
<1> DEFINE none == <<>>
           c    == Confirm(Store(rbuf, op, none), op, Len(none))
<1>1. /\ op # NoOp /\ mutex = Nobody /\ More(Rollback(rbuf, op), got)
      /\ mutex' = mutex /\ busy' = busy
  BY DEF WouldBlock
<1>2. /\ OptOK /\ Held(rbuf, op, got, out) /\ rbuf \in Buffer /\ Good(rbuf)
      /\ op = Window(rbuf) /\ Rested(rbuf, mutex, busy)
  BY <1>1, OpenHeld
<1>3. Rollback(rbuf, op) = c
  <2>1. Store(rbuf, op, <<>>) = rbuf /\ Len(<<>>) = 0
    BY <1>2, StoreNil
  <2>2. QED
    BY <2>1 DEF Rollback
<1>4. none \in Seq(Alphabet) /\ Len(none) <= Bufsize - rbuf.readpos
  <2>1. rbuf.readpos < Bufsize /\ rbuf.readpos \in Nat /\ Bufsize \in Nat
    BY <1>2, GoodFacts
  <2>2. <<>> \in Seq(Alphabet) /\ Len(<<>>) = 0
    BY EmptySeq
  <2>3. QED
    BY <2>1, <2>2
<1>5. /\ got \in Seq(Alphabet) /\ out \in Seq(Seq(Alphabet)) /\ busy \subseteq Threads
      /\ got \o none = got
  <2>1. got \in Seq(Alphabet) /\ out \in Seq(Seq(Alphabet)) /\ busy \subseteq Threads
    BY DEF IInv, Core
  <2>2. QED
    BY <2>1, ConcatEmptySeq
<1> HIDE DEF none
<1>6. PICK h \in Seq(Alphabet) : Told(h, rbuf, got, out)
  BY <1>2 DEF Held
<1>7. /\ c \in Buffer /\ Settled(c) /\ c.offset = rbuf.offset
      /\ Told(h, c, got, out) /\ Rest(c) = Rest(rbuf) \o none /\ Cur(c) = Cur(rbuf)
  <2>1. /\ c \in Buffer /\ Settled(c) /\ c.offset = rbuf.offset
        /\ Rest(c) = Rest(rbuf) \o none /\ Cur(c) = Cur(rbuf)
        /\ Told(h, c, got \o none, out)
    BY <1>2, <1>4, <1>5, <1>6, TakeIn
  <2> HIDE DEF c
  <2>2. QED
    BY <1>5, <2>1
<1>8. Rest(c) = Rest(rbuf)
  <2>1. Rest(rbuf) \in Seq(Bytes)
    BY <1>2, GoodSpans, RestIs
  <2>2. QED
    BY <1>7, <2>1, ConcatEmptySeq DEF none
<1> HIDE DEF c
<1>9. mutex' \in Threads \cup {Nobody} /\ busy' \subseteq Threads
  BY <1>1, <1>5
<1>10. Resting(c, mutex', busy')
  BY <1>1, <1>2, <1>7, <1>8 DEF Resting, Rested
<1>11. Core(rbuf', op', got', out', mutex', busy', open')
  BY <1>1, <1>2, <1>3, <1>5, <1>7, <1>9, <1>10, MoreKeeps
<1>12. QED
  BY <1>2, <1>11, Carry

LEMMA StartKeeps ==
  ASSUME IInv, opt' = opt, Start
  PROVE  IInv'
<1> DEFINE e == EmptyBuffer
<1>1. ~open /\ More(e, <<>>) /\ mutex' = mutex /\ busy' = busy
  BY DEF Start
<1>2. /\ OptOK /\ out = <<>> /\ busy \subseteq Threads /\ mutex \in Threads \cup {Nobody}
      /\ out \in Seq(Seq(Alphabet))
  BY <1>1 DEF IInv, Core
<1>3. <<>> \in Seq(Alphabet) /\ Len(<<>>) = 0
  BY EmptySeq
<1>4. /\ e \in Buffer /\ Settled(e) /\ Rest(e) = <<>> /\ Cur(e) = 0
      /\ Told(<<>>, e, <<>>, out) /\ e.offset = 0
  BY <1>2, EmptyIs DEF EmptyBuffer
<1> HIDE DEF e
<1>5. Resting(e, mutex', busy')
  BY <1>3, <1>4 DEF Resting
<1>6. Core(rbuf', op', got', out', mutex', busy', open')
  BY <1>1, <1>2, <1>3, <1>4, <1>5, MoreKeeps
<1>7. QED
  BY <1>2, <1>6, Carry

LEMMA StopKeeps ==
  ASSUME IInv, opt' = opt, Stop
  PROVE  IInv'
<1>1. /\ rbuf' = EmptyBuffer /\ op' = NoOp /\ open' = FALSE
      /\ got' = <<>> /\ out' = <<>> /\ mutex' = mutex /\ busy' = busy
  BY DEF Stop, Closed
<1>2. OptOK /\ busy \subseteq Threads /\ mutex \in Threads \cup {Nobody}
  BY DEF IInv, Core
<1>3. <<>> \in Seq(Alphabet) /\ <<>> \in Seq(Seq(Alphabet))
  BY EmptySeq
<1>4. Core(rbuf', op', got', out', mutex', busy', open')
  BY <1>1, <1>2, <1>3 DEF Core
<1>5. QED
  BY <1>2, <1>4, Carry

LEMMA ReturnKeeps ==
  ASSUME IInv, opt' = opt, NEW t \in Threads, Return(t)
  PROVE  IInv'
<1>1. /\ mutex' = t /\ busy' = busy \ {t} /\ rbuf' = rbuf /\ op' = op
      /\ got' = got /\ out' = out /\ open' = open
  BY DEF Return
<1>2. OptOK /\ Core(rbuf, op, got, out, mutex, busy, open) /\ t # Nobody
  BY ReaderBounds DEF IInv
<1>3. Rested(rbuf, mutex, busy) => Rested(rbuf, mutex', busy')
  BY <1>1, <1>2 DEF Rested
<1>4. Core(rbuf', op', got', out', mutex', busy', open')
  BY <1>1, <1>2, <1>3 DEF Core
<1>5. QED
  BY <1>2, <1>4, Carry

LEMMA DetachOneKeeps ==
  ASSUME IInv, opt' = opt, NEW t \in Threads, DetachOne(t)
  PROVE  IInv'
<1> DEFINE d == Detach(rbuf)
           found == d.found /\ d.block # <<>>
<1>1. /\ mutex = t /\ rbuf' = d.buf
      /\ found => out' = Append(out, d.block) /\ busy' = busy \cup {t} /\ mutex' = Nobody
      /\ ~found => /\ mutex' = IF d.found THEN t ELSE Nobody
                   /\ out' = out /\ busy' = busy
      /\ op' = op /\ got' = got /\ open' = open
  BY DEF DetachOne
<1>2. /\ OptOK /\ t # Nobody /\ got \in Seq(Alphabet) /\ out \in Seq(Seq(Alphabet))
      /\ busy \subseteq Threads
  BY ReaderBounds DEF IInv, Core
<1>3. CASE open = TRUE
  <2>1. /\ Held(rbuf, op, got, out) /\ rbuf \in Buffer /\ Good(rbuf)
        /\ op = Window(rbuf) /\ Rested(rbuf, mutex, busy)
    BY <1>3, OpenHeld
  <2>2. PICK h \in Seq(Alphabet) : Told(h, rbuf, got, out)
    BY <2>1 DEF Held
  <2> DEFINE at    == Search(rbuf)
             block == Trimmed(Cut(rbuf, at))
  <2>3. CASE at = NotFound
    <3> DEFINE a == ParsedAll(rbuf)
    <3>1. d = [found |-> FALSE, block |-> <<>>, buf |-> a]
      BY <1>2, <2>1, <2>3, DetachIs
    <3>2. /\ a \in Buffer /\ Good(a) /\ Window(a) = Window(rbuf) /\ Told(h, a, got, out)
          /\ a.readpos = rbuf.readpos /\ a.offset = rbuf.offset /\ Cur(a) = Len(Rest(a))
          /\ Sep = <<>> /\ rbuf.readpos = 0 /\ rbuf.offset = 0 => Rest(a) = <<>>
      BY <1>2, <2>1, <2>2, <2>3, LeaveAlone
    <3> HIDE DEF d, a
    <3>3. /\ rbuf' = a /\ out' = out /\ busy' = busy /\ mutex' = Nobody
          /\ op' = op /\ got' = got /\ open' = open
      BY <1>1, <3>1
    <3>4. Held(a, op, got, out)
      BY <2>1, <2>2, <3>2 DEF Held
    <3>5. Rested(a, Nobody, busy)
      BY <2>1, <3>2 DEF Rested
    <3>6. Core(rbuf', op', got', out', mutex', busy', open')
      BY <1>2, <1>3, <3>3, <3>4, <3>5 DEF Core
    <3>7. QED
      BY <1>2, <3>6, Carry
  <2>4. CASE at # NotFound
    <3> DEFINE a == [Prepare(rbuf, at) EXCEPT !.size = @ - Len(Cut(rbuf, at))]
               q == IF block = <<>> THEN out ELSE Append(out, block)
    <3>1. d = [found |-> TRUE, block |-> block, buf |-> a]
      BY <1>2, <2>1, <2>4, DetachIs
    <3>2. /\ a \in Buffer /\ Good(a) /\ Window(a) = Window(rbuf)
          /\ q \in Seq(Seq(Alphabet)) /\ \E k \in Seq(Alphabet) : Told(k, a, got, q)
          /\ Sep = <<>> /\ rbuf.readpos = 0 => a.readpos = 0 /\ a.offset = 0
      BY <1>2, <2>1, <2>2, <2>4, HandOut
    <3> HIDE DEF d, a, block, at
    <3>3. /\ rbuf' = a /\ out' = q /\ op' = op /\ got' = got /\ open' = open
          /\ mutex' \in Threads \cup {Nobody} /\ busy' \subseteq Threads
          /\ ~(mutex' = Nobody /\ busy' = {})
      <4>1. CASE block = <<>>
        BY <1>1, <1>2, <3>1, <4>1
      <4>2. CASE block # <<>>
        BY <1>1, <1>2, <3>1, <4>2
      <4>3. QED
        BY <4>1, <4>2
    <3> HIDE DEF q
    <3>4. Held(a, op, got, q)
      BY <2>1, <3>2 DEF Held
    <3>5. Rested(a, mutex', busy')
      BY <2>1, <3>2, <3>3 DEF Rested
    <3>6. Core(rbuf', op', got', out', mutex', busy', open')
      BY <1>2, <1>3, <3>2, <3>3, <3>4, <3>5 DEF Core
    <3>7. QED
      BY <1>2, <3>6, Carry
  <2>5. QED
    BY <2>3, <2>4
<1>4. CASE open # TRUE
  <2>1. /\ open = FALSE /\ rbuf = EmptyBuffer /\ op = NoOp /\ got = <<>> /\ out = <<>>
    BY <1>4 DEF IInv, Core
  <2>2. d = [found |-> FALSE, block |-> <<>>, buf |-> EmptyBuffer]
    BY <2>1 DEF Detach, EmptyBuffer
  <2> HIDE DEF d
  <2>3. /\ rbuf' = EmptyBuffer /\ out' = out /\ busy' = busy /\ mutex' = Nobody
        /\ op' = op /\ got' = got /\ open' = open
    BY <1>1, <2>2
  <2>4. Core(rbuf', op', got', out', mutex', busy', open')
    BY <1>2, <2>1, <2>3 DEF Core
  <2>5. QED
    BY <1>2, <2>4, Carry
<1>5. QED
  BY <1>3, <1>4
-----------------------------------------------------------------------------
LEMMA StepKeeps ==
  ASSUME IInv, [ReaderNext]_vars
  PROVE  IInv'
<1>1. CASE ReaderNext
  <2>1. opt' = opt
    BY <1>1 DEF ReaderNext
  <2>2. ASSUME NEW t \in Threads, NEW bytes \in Inputs, ReadDone(t, bytes)
        PROVE  IInv'
    BY <2>1, <2>2, ReadDoneKeeps
  <2>3. ASSUME NEW t \in Threads, DetachOne(t)
        PROVE  IInv'
    BY <2>1, <2>3, DetachOneKeeps
  <2>4. ASSUME NEW t \in Threads, Return(t)
        PROVE  IInv'
    BY <2>1, <2>4, ReturnKeeps
  <2>5. CASE WouldBlock
    BY <2>1, <2>5, WouldBlockKeeps
  <2>6. CASE Stop
    BY <2>1, <2>6, StopKeeps
  <2>7. CASE Start
    BY <2>1, <2>7, StartKeeps
  <2>8. QED
    BY <1>1, <2>2, <2>3, <2>4, <2>5, <2>6, <2>7 DEF ReaderNext
<1>2. CASE UNCHANGED vars
  <2>1. /\ opt' = opt /\ rbuf' = rbuf /\ op' = op /\ got' = got /\ out' = out
        /\ mutex' = mutex /\ busy' = busy /\ open' = open
    BY <1>2 DEF vars
  <2>2. OptOK /\ Core(rbuf', op', got', out', mutex', busy', open')
    BY <2>1 DEF IInv
  <2>3. QED
    BY <2>1, <2>2, Carry
<1>3. QED
  BY <1>1, <1>2

(* Every reachable state satisfies the inductive invariant. *)
THEOREM Invariance == Spec => []IInv
<1>1. Init => IInv
  BY InitCore
<1>2. IInv /\ [ReaderNext]_vars => IInv'
  BY StepKeeps
<1>3. QED
  BY <1>1, <1>2, PTL DEF Spec

(* The read_buffer and the read that is out keep their types. *)
THEOREM TypeCorrect == Spec => []TypeOK
<1>1. ASSUME IInv
      PROVE  TypeOK
  <2>1. CASE open = TRUE
    <3>1. OptOK /\ rbuf \in Buffer /\ Good(rbuf) /\ op = Window(rbuf)
      BY <1>1, <2>1, OpenHeld
    <3> DEFINE n == Len(rbuf.buffers)
    <3>2. n = Len(rbuf.buffers)
      OBVIOUS
    <3> HIDE DEF n
    <3>3. /\ op = [id |-> rbuf.buffers[n].id, pos |-> rbuf.readpos,
                   len |-> Bufsize - rbuf.readpos]
          /\ rbuf.buffers[n] \in [id : Nat, data : Seq(Bytes)]
          /\ rbuf.readpos \in Nat /\ rbuf.readpos < Bufsize /\ Bufsize \in Nat
      BY <3>1, <3>2, GoodFacts
    <3>4. op \in [id : Nat, pos : Nat, len : Nat]
      BY <3>3
    <3>5. QED
      BY <1>1, <2>1, <3>1, <3>4 DEF IInv, Core, TypeOK
  <2>2. CASE open # TRUE
    <3>1. OptOK /\ open = FALSE /\ rbuf = EmptyBuffer /\ op = NoOp
      BY <1>1, <2>2 DEF IInv, Core
    <3>2. rbuf \in Buffer /\ op \in [id : Nat, pos : Nat, len : Nat]
      BY <3>1, EmptyIs DEF NoOp
    <3>3. QED
      BY <1>1, <3>1, <3>2 DEF IInv, Core, TypeOK
  <2>3. QED
    BY <2>1, <2>2
<1>2. QED
  BY <1>1, Invariance, PTL

(* detach() drops and renumbers buffers under the read that is out, and    *)
(* confirm() still finds the one the kernel writes into.                   *)
THEOREM WindowOwnedHolds == Spec => []WindowOwned
<1>1. ASSUME IInv
      PROVE  WindowOwned
  <2>1. SUFFICES ASSUME op # NoOp
                 PROVE  CanConfirm(rbuf, op, op.len)
    BY DEF WindowOwned
  <2>2. OptOK /\ rbuf \in Buffer /\ Good(rbuf) /\ op = Window(rbuf)
    BY <1>1, <2>1, OpenHeld
  <2> DEFINE n == Len(rbuf.buffers)
  <2>3. n = Len(rbuf.buffers)
    OBVIOUS
  <2> HIDE DEF n
  <2>4. /\ n \in Nat \ {0} /\ rbuf.readbuf = n
        /\ Len(rbuf.buffers[n].data) = Bufsize /\ Bufsize \in Nat
        /\ rbuf.readpos \in Nat /\ rbuf.readpos < Bufsize
        /\ op = [id |-> rbuf.buffers[n].id, pos |-> rbuf.readpos,
                 len |-> Bufsize - rbuf.readpos]
    BY <2>2, <2>3, GoodFacts
  <2>5. QED
    BY <2>3, <2>4 DEF CanConfirm, Waiting
<1>2. QED
  BY <1>1, Invariance, PTL

(* size() counts the bytes that were received and not handed out, and they *)
(* are the last bytes of the stream.                                       *)
THEOREM KeptHolds == Spec => []Kept
<1>1. ASSUME IInv
      PROVE  Kept
  <2>1. SUFFICES ASSUME open
                 PROVE  IsSuffix(Rest(rbuf), got) /\ rbuf.size = Len(Rest(rbuf))
    BY DEF Kept
  <2>2. Held(rbuf, op, got, out) /\ rbuf \in Buffer /\ Good(rbuf)
    BY <1>1, <2>1, OpenHeld
  <2>3. PICK h \in Seq(Alphabet) : Told(h, rbuf, got, out)
    BY <2>2 DEF Held
  <2> DEFINE r == Rest(rbuf)
             g == h \o r
  <2>4. got = g /\ rbuf.size = Len(r)
    BY <2>3 DEF Told
  <2>5. r \in Seq(Bytes) /\ h \in Seq(Bytes)
    BY <2>2, GoodSpans, RestIs DEF Bytes
  <2> HIDE DEF r
  <2>6. /\ g \in Seq(Bytes) /\ Len(g) = Len(h) + Len(r)
        /\ SubSeq(g, Len(h) + 1, Len(h) + Len(r)) = r
        /\ Len(h) \in Nat /\ Len(r) \in Nat
    BY <2>5, Parts, LenProperties
  <2>7. IsSuffix(r, g) <=> Len(r) <= Len(g) /\ SubSeq(g, Len(g) - Len(r) + 1, Len(g)) = r
    BY <2>5, <2>6, SuffixIs
  <2> HIDE DEF g
  <2>8. Len(r) <= Len(g) /\ Len(g) - Len(r) + 1 = Len(h) + 1
    BY <2>6
  <2>9. QED
    BY <2>4, <2>6, <2>7, <2>8 DEF r
<1>2. QED
  BY <1>1, Invariance, PTL

(* The blocks handed to the user are the first blocks of the stream; bytes *)
(* without a separator are its first bytes.                                *)
THEOREM InOrderHolds == Spec => []InOrder
<1>1. ASSUME IInv
      PROVE  InOrder
  <2>1. SUFFICES ASSUME open
                 PROVE  IF Sep = <<>> THEN IsPrefix(FlattenSeq(out), got)
                        ELSE IsPrefix(out, Blocks(got))
    BY DEF InOrder
  <2>2. /\ OptOK /\ Held(rbuf, op, got, out) /\ rbuf \in Buffer /\ Good(rbuf)
        /\ got \in Seq(Alphabet)
    BY <1>1, <2>1, OpenHeld DEF IInv, Core
  <2>3. PICK h \in Seq(Alphabet) : Told(h, rbuf, got, out)
    BY <2>2 DEF Held
  <2> DEFINE r == Rest(rbuf)
             g == h \o r
             c == Cur(rbuf)
  <2>4. got = g
    BY <2>3 DEF Told
  <2>5. r \in Seq(Bytes) /\ h \in Seq(Bytes)
    BY <2>2, GoodSpans, RestIs DEF Bytes
  <2>6. c \in 0 .. Len(r) /\ Len(r) \in Nat
    BY <2>2, <2>5, CursorPlace, LenProperties
  <2> HIDE DEF r, c
  <2>7. /\ g \in Seq(Bytes) /\ Len(g) = Len(h) + Len(r) /\ SubSeq(g, 1, Len(h)) = h
        /\ Len(h) \in Nat
    BY <2>5, Parts, LenProperties
  <2> HIDE DEF g
  <2>8. CASE Sep = <<>>
    <3>1. h = FlattenSeq(out)
      BY <2>3, <2>8 DEF Told
    <3>2. IsPrefix(h, g) <=> Len(h) <= Len(g) /\ SubSeq(g, 1, Len(h)) = h
      BY <2>5, <2>7, PrefixIs
    <3>3. Len(h) <= Len(g)
      BY <2>6, <2>7
    <3>4. QED
      BY <2>4, <2>7, <2>8, <3>1, <3>2, <3>3
  <2>9. CASE Sep # <<>>
    <3> DEFINE a == Len(h) + c
               b == Len(g)
    <3>1. a \in 0 .. Len(g) /\ b \in a .. Len(g)
      BY <2>6, <2>7
    <3>2. Parsed(got, Sep, Trim)[a] = [end |-> Len(h), blocks |-> out]
      BY <2>3, <2>9 DEF Told, c
    <3> HIDE DEF a, b
    <3>3. IsPrefix(Parsed(got, Sep, Trim)[a].blocks, Parsed(got, Sep, Trim)[b].blocks)
      BY <2>2, <2>4, <3>1, TrimFacts, ParsedGrows
    <3>4. QED
      BY <2>4, <2>9, <3>2, <3>3 DEF Blocks, b
  <2>10. QED
    BY <2>8, <2>9
<1>2. QED
  BY <1>1, Invariance, PTL

(* Options under which next() takes no tail of a buffer that holds bytes,  *)
(* for the users who read without a separator.                             *)
NoTailReuse == \A o \in Options :
  LET p == SetOptions(o)
  IN  p.sep = <<>> => p.minbuf = 0 \/ p.minbuf + 1 >= p.bufsize

(* Between two reads every block of the stream has been handed out, and    *)
(* without a separator every byte.  This second part fails when next()     *)
(* gives out the tail of a buffer: the search then stops at the offset     *)
(* that equals the cursor, whatever was read behind it.                    *)
THEOREM CompleteHolds == ASSUME NoTailReuse PROVE Spec => []Complete
<1>1. ASSUME IInv
      PROVE  Complete
  <2>1. SUFFICES ASSUME open, Quiet
                 PROVE  IF Sep = <<>> THEN FlattenSeq(out) = got ELSE out = Blocks(got)
    BY DEF Complete
  <2>2. /\ OptOK /\ Held(rbuf, op, got, out) /\ rbuf \in Buffer /\ Good(rbuf)
        /\ Rested(rbuf, mutex, busy)
    BY <1>1, <2>1, OpenHeld
  <2>3. PICK h \in Seq(Alphabet) : Told(h, rbuf, got, out)
    BY <2>2 DEF Held
  <2>4. got = h \o Rest(rbuf)
    BY <2>3 DEF Told
  <2>5. CASE Sep = <<>>
    <3>1. Emptied
      <4>1. PICK o \in Options : opt = SetOptions(o)
        BY <2>2 DEF OptOK
      <4>2. QED
        BY <2>5, <4>1 DEF NoTailReuse, Emptied, Sep, Minbuf, Bufsize
    <3>2. Rest(rbuf) = <<>>
      BY <2>1, <2>2, <2>5, <3>1 DEF Rested, Quiet
    <3>3. h = FlattenSeq(out)
      BY <2>3, <2>5 DEF Told
    <3>4. h \o <<>> = h
      BY ConcatEmptySeq
    <3>5. QED
      BY <2>4, <2>5, <3>2, <3>3, <3>4
  <2>6. CASE Sep # <<>>
    <3> DEFINE r == Rest(rbuf)
    <3>1. Cur(rbuf) = Len(r)
      BY <2>1, <2>2, <2>6 DEF Rested, Quiet
    <3>2. r \in Seq(Bytes) /\ h \in Seq(Bytes)
      BY <2>2, GoodSpans, RestIs DEF Bytes
    <3>3. Parsed(got, Sep, Trim)[Len(h) + Cur(rbuf)] = [end |-> Len(h), blocks |-> out]
      BY <2>3, <2>6 DEF Told
    <3> HIDE DEF r
    <3>4. Len(h \o r) = Len(h) + Len(r)
      BY <3>2, ConcatProperties
    <3>5. Parsed(got, Sep, Trim)[Len(got)] = [end |-> Len(h), blocks |-> out]
      BY <2>4, <3>1, <3>3, <3>4 DEF r
    <3>6. QED
      BY <2>6, <3>5 DEF Blocks
  <2>7. QED
    BY <2>5, <2>6
<1>2. QED
  BY <1>1, Invariance, PTL
=============================================================================
