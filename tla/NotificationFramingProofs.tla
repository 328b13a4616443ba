--------------------- MODULE NotificationFramingProofs ---------------------
(***************************************************************************)
(* Lemmas about the operators of NotificationFraming and the sequences     *)
(* they work on: the searches of the parser, Total, FlattenSeq, EomSplit   *)
(* and Orderly.                                                            *)
(*                                                                         *)
(* The three that are recursive are treated alike.  Induction is over a    *)
(* set (NatInduct, from the least element of its complement), IsFold says  *)
(* what the recursion asks of a function, FoldExists builds one and        *)
(* TotalIs, FlattenIs and EomSplitIs say that it is the one the operator   *)
(* names; from there each is described by what it does to an appended      *)
(* element and to a concatenation.                                         *)
(*                                                                         *)
(* Equations between concatenations are stated as predicates (Regroups,    *)
(* MovesOn, CutKept, Lengthens, Rearranges): a predicate is instantiated   *)
(* in one step and unfolded in the next.                                   *)
(***************************************************************************)
EXTENDS NotificationFraming, TLAPS, SequenceTheorems, WellFoundedInduction

\* Induction over the naturals, for a set instead of a predicate.
LEMMA NatInduct ==
    ASSUME NEW S, 0 \in S, \A n \in Nat : n \in S => n + 1 \in S
    PROVE  Nat \subseteq S
<1> DEFINE below == {p \in Nat \X Nat : p[1] < p[2]}
           left  == Nat \ S
<1>1. IsWellFoundedOn(below, Nat)
    BY NatLessThanWellFounded, Zenon DEF OpToRel
<1>2. SUFFICES ASSUME left # {} PROVE FALSE
    OBVIOUS
<1>3. PICK m \in left : \A n \in left : <<n, m>> \notin below
  <2> HIDE DEF below
  <2> QED
    BY <1>1, <1>2, WFMin
<1>4. m # 0 /\ m - 1 \in Nat /\ <<m - 1, m>> \in below
    OBVIOUS
<1>5. m - 1 \in S
    BY <1>3, <1>4
<1>6. QED
    BY <1>4, <1>5

\* Induction up to a bound.
LEMMA BoundedInduct ==
    ASSUME NEW S, NEW n \in Nat, 0 \in S, \A i \in 1..n : i - 1 \in S => i \in S
    PROVE  0..n \subseteq S
<1> DEFINE good == {i \in Nat : i <= n => i \in S}
<1>1. 0 \in good
    OBVIOUS
<1>2. ASSUME NEW i \in Nat, i \in good PROVE i + 1 \in good
  <2>1. i + 1 <= n => i \in S /\ i + 1 \in 1..n /\ (i + 1) - 1 = i
    BY <1>2
  <2>2. QED
    BY <2>1
<1>3. Nat \subseteq good
  <2> HIDE DEF good
  <2> QED
    BY <1>1, <1>2, NatInduct
<1>4. QED
    BY <1>3

\* Induction over sequences.
LEMMA SeqInduct ==
    ASSUME NEW T, NEW P, <<>> \in P, \A s \in Seq(T), e \in T : s \in P => Append(s, e) \in P
    PROVE  Seq(T) \subseteq P
<1> DEFINE lens == {n \in Nat : \A s \in Seq(T) : Len(s) = n => s \in P}
<1>1. 0 \in lens
    BY EmptySeq
<1>2. ASSUME NEW n \in Nat, n \in lens PROVE n + 1 \in lens
  <2>1. ASSUME NEW s \in Seq(T), Len(s) = n + 1 PROVE s \in P
    <3>1. s # <<>>
      BY <1>2, <2>1
    <3>2. PICK r \in Seq(T), e \in T : s = Append(r, e)
      BY <3>1, SequenceEmptyOrAppend
    <3>3. Len(r) = n
      BY <2>1, <3>2, AppendProperties, LenProperties
    <3>4. QED
      BY <1>2, <3>2, <3>3
  <2>2. QED
    BY <2>1
<1>3. Nat \subseteq lens
  <2> HIDE DEF lens
  <2> QED
    BY <1>1, <1>2, NatInduct
<1>4. QED
    BY <1>3, LenProperties

-----------------------------------------------------------------------------
\* g folds d from the left: its value at i is that of the first i elements.
IsFold(g, A, a, step, d) ==
    /\ g \in [0..Len(d) -> A]
    /\ g[0] = a
    /\ \A i \in 1..Len(d) : g[i] = step[<<g[i - 1], d[i]>>]

\* Every sequence can be folded.
LEMMA FoldExists ==
    \A A, T : \A a \in A, step \in [A \X T -> A], d \in Seq(T) :
        \E g : IsFold(g, A, a, step, d)
<1> SUFFICES ASSUME NEW A, NEW T, NEW a \in A, NEW step \in [A \X T -> A], NEW d \in Seq(T)
             PROVE  \E g : IsFold(g, A, a, step, d)
    OBVIOUS
<1> DEFINE Folds(s, g) == g[0] = a /\ \A i \in 1..Len(s) : g[i] = step[<<g[i - 1], s[i]>>]
           P == {s \in Seq(T) : \E g \in [0..Len(s) -> A] : Folds(s, g)}
<1>1. <<>> \in P
  <2> DEFINE g == [i \in 0..0 |-> a]
  <2>1. g \in [0..Len(<<>>) -> A] /\ Folds(<<>>, g)
    BY EmptySeq
  <2>2. QED
    BY <2>1, EmptySeq
<1>2. ASSUME NEW s \in Seq(T), NEW e \in T, s \in P PROVE Append(s, e) \in P
  <2> DEFINE n == Len(s)
             r == Append(s, e)
  <2>1. PICK g \in [0..n -> A] : Folds(s, g)
    BY <1>2
  <2> DEFINE h == [i \in 0..(n + 1) |-> IF i <= n THEN g[i] ELSE step[<<g[n], e>>]]
  <2>2. n \in Nat /\ r \in Seq(T) /\ Len(r) = n + 1 /\ r[n + 1] = e /\ \A i \in 1..n : r[i] = s[i]
    BY AppendProperties, LenProperties
  <2>3. h \in [0..(n + 1) -> A]
    BY <2>2
  <2>4. h[0] = a
    BY <2>1, <2>2
  <2>5. ASSUME NEW i \in 1..(n + 1) PROVE h[i] = step[<<h[i - 1], r[i]>>]
    <3>1. CASE i <= n
      <4>1. i \in 1..n /\ i - 1 \in 0..n /\ i \in 0..n
        BY <2>2, <3>1
      <4>2. h[i] = g[i] /\ h[i - 1] = g[i - 1] /\ r[i] = s[i]
        BY <2>2, <4>1
      <4>3. QED
        BY <2>1, <4>1, <4>2
    <3>2. CASE i = n + 1
      <4>1. h[i] = step[<<g[n], e>>] /\ h[i - 1] = g[n]
        BY <2>2, <3>2
      <4>2. QED
        BY <2>2, <3>2, <4>1
    <3>3. i <= n \/ i = n + 1
      BY <2>2
    <3> HIDE DEF h, r
    <3>4. QED
      BY <3>1, <3>2, <3>3
  <2>6. Folds(r, h)
    BY <2>2, <2>4, <2>5
  <2> HIDE DEF Folds, h
  <2>7. QED
    BY <2>2, <2>3, <2>6
<1>3. Seq(T) \subseteq P
  <2> HIDE DEF P
  <2> QED
    BY <1>1, <1>2, SeqInduct
<1>4. QED
    BY <1>3 DEF IsFold

-----------------------------------------------------------------------------
\* Total(d) is what any function with its recursion has at the end.
LEMMA TotalIs ==
    ASSUME NEW d \in Seq(Int), NEW g \in [0..Len(d) -> Int], g[0] = 0,
           \A i \in 1..Len(d) : g[i] = g[i - 1] + d[i]
    PROVE  Total(d) = g[Len(d)]
<1> DEFINE n == Len(d)
           F(s) == [i \in 0..n |-> IF i = 0 THEN 0 ELSE s[i - 1] + d[i]]
           G == CHOOSE s : s = F(s)
<1>1. n \in Nat
    OBVIOUS
<1>2. g = F(g)
    OBVIOUS
<1>3. G = F(G)
  <2> HIDE DEF F
  <2> QED
    BY <1>2
<1>4. 0..n \subseteq {i \in 0..n : G[i] = g[i]}
  <2> DEFINE S == {i \in 0..n : G[i] = g[i]}
  <2>1. G[0] = 0 /\ \A i \in 1..n : G[i] = G[i - 1] + d[i]
    <3> HIDE DEF G
    <3> QED
      BY <1>1, <1>3
  <2>2. 0 \in S
    BY <1>1, <2>1
  <2>3. \A i \in 1..n : i - 1 \in S => i \in S
    BY <1>1, <2>1
  <2>4. 0..n \subseteq S
    <3> HIDE DEF S, n
    <3> QED
      BY <1>1, <2>2, <2>3, BoundedInduct
  <2>5. QED
    BY <2>4
<1>5. Total(d) = G[n]
    BY DEF Total
<1>6. QED
  <2> HIDE DEF G
  <2> QED
    BY <1>1, <1>4, <1>5

\* The sum of a sequence grows by what is appended.
LEMMA TotalAppend ==
    ASSUME NEW d \in Seq(Int), NEW e \in Int
    PROVE  Total(d) \in Int /\ Total(Append(d, e)) = Total(d) + e
<1> DEFINE r == Append(d, e)
           n == Len(d)
           plus == [p \in Int \X Int |-> p[1] + p[2]]
<1>1. n \in Nat /\ r \in Seq(Int) /\ Len(r) = n + 1 /\ r[n + 1] = e /\ \A i \in 1..n : r[i] = d[i]
    BY AppendProperties, LenProperties
<1>2. PICK g \in [0..(n + 1) -> Int] :
         g[0] = 0 /\ \A i \in 1..(n + 1) : g[i] = plus[<<g[i - 1], r[i]>>]
  <2>1. plus \in [Int \X Int -> Int]
    OBVIOUS
  <2> HIDE DEF plus, r
  <2>2. PICK g : IsFold(g, Int, 0, plus, r)
    <3>1. 0 \in Int /\ r \in Seq(Int)
      BY <1>1
    <3>2. QED
      BY <2>1, <3>1, FoldExists, Zenon
  <2>3. QED
    BY <1>1, <2>2 DEF IsFold
<1>3. ASSUME NEW i \in 1..(n + 1) PROVE r[i] \in Int /\ g[i] = g[i - 1] + r[i]
  <2>1. r[i] \in Int /\ i - 1 \in 0..(n + 1)
    BY <1>1
  <2>2. <<g[i - 1], r[i]>> \in Int \X Int
    BY <1>2, <2>1
  <2>3. plus[<<g[i - 1], r[i]>>] = g[i - 1] + r[i]
    BY <2>2
  <2>4. QED
    BY <1>2, <2>1, <2>3
<1>4. Total(r) = g[n + 1]
  <2>1. g \in [0..Len(r) -> Int] /\ \A i \in 1..Len(r) : g[i] = g[i - 1] + r[i]
    BY <1>1, <1>2, <1>3
  <2> HIDE DEF r
  <2>2. QED
    BY <1>1, <1>2, <2>1, TotalIs
<1> DEFINE h == [i \in 0..n |-> g[i]]
<1>5. h \in [0..n -> Int] /\ h[0] = 0 /\ h[n] = g[n]
    BY <1>1, <1>2
<1>6. \A i \in 1..n : h[i] = h[i - 1] + d[i]
    BY <1>1, <1>3
<1>7. Total(d) = h[n]
  <2> HIDE DEF h
  <2> QED
    BY <1>5, <1>6, TotalIs
<1>8. g[n + 1] = g[n] + e
    BY <1>1, <1>3
<1>9. QED
    BY <1>1, <1>4, <1>5, <1>7, <1>8

\* The empty sum is 0, and the sum of two sequences is the sum of their sums.
LEMMA TotalConcat ==
    /\ Total(<<>>) = 0
    /\ \A s, t \in Seq(Int) : Total(s \o t) = Total(s) + Total(t)
<1>1. Total(<<>>) = 0
  <2> DEFINE g == [i \in 0..0 |-> 0]
  <2>1. g \in [0..Len(<<>>) -> Int] /\ g[0] = 0 /\ Len(<<>>) = 0 /\ <<>> \in Seq(Int)
    BY EmptySeq
  <2> HIDE DEF g
  <2>2. QED
    BY <2>1, TotalIs
<1>2. ASSUME NEW s \in Seq(Int) PROVE \A t \in Seq(Int) : Total(s \o t) = Total(s) + Total(t)
  <2> DEFINE P == {t \in Seq(Int) : Total(s \o t) = Total(s) + Total(t)}
  <2>1. <<>> \in P
    <3>1. s \o <<>> = s /\ Total(s) \in Int
      BY ConcatEmptySeq, TotalAppend
    <3>2. QED
      BY <1>1, <3>1, EmptySeq
  <2>2. ASSUME NEW t \in Seq(Int), NEW e \in Int, t \in P PROVE Append(t, e) \in P
    <3>1. s \o Append(t, e) = Append(s \o t, e)
      BY SMT
    <3>2. Total(Append(s \o t, e)) = Total(s \o t) + e
      BY ConcatProperties, TotalAppend
    <3>3. Total(s) \in Int /\ Total(t) \in Int /\ Total(Append(t, e)) = Total(t) + e
      BY TotalAppend
    <3>4. Total(s \o t) = Total(s) + Total(t)
      BY <2>2
    <3>5. Append(t, e) \in Seq(Int)
      BY AppendProperties
    <3>6. Total(s \o Append(t, e)) = Total(s) + Total(Append(t, e))
      BY <3>1, <3>2, <3>3, <3>4
    <3>7. QED
      BY <3>5, <3>6
  <2>3. QED
    <3> HIDE DEF P
    <3>1. Seq(Int) \subseteq P
      BY <2>1, <2>2, SeqInduct
    <3>2. QED
      BY <3>1 DEF P
<1>3. QED
    BY <1>1, <1>2
-----------------------------------------------------------------------------
\* FlattenSeq(d) is what any function with its recursion has at the end.
LEMMA FlattenIs ==
    ASSUME NEW T, NEW d \in Seq(Seq(T)), NEW g \in [0..Len(d) -> Seq(T)], g[0] = <<>>,
           \A i \in 1..Len(d) : g[i] = g[i - 1] \o d[i]
    PROVE  FlattenSeq(d) = g[Len(d)]
<1> DEFINE n == Len(d)
           F(s) == [i \in 1..n |-> IF i = 1 THEN d[i] ELSE s[i - 1] \o d[i]]
           G == CHOOSE s : s = F(s)
           h == [i \in 1..n |-> g[i]]
           S == {i \in 0..n : i = 0 \/ G[i] = g[i]}
<1>1. n \in Nat /\ \A i \in 1..n : d[i] \in Seq(T)
    OBVIOUS
<1>2. CASE n = 0
    BY <1>1, <1>2 DEF FlattenSeq
<1>3. CASE n # 0
  <2>1. g[1] = d[1]
    <3>1. 1 \in 1..Len(d) /\ 1 - 1 = 0
      BY <1>1, <1>3
    <3>2. g[1] = g[0] \o d[1]
      <4>1. g[1] = g[1 - 1] \o d[1]
        BY <3>1, Zenon
      <4>2. QED
        BY <3>1, <4>1, Zenon
    <3>3. d[1] \in Seq(T)
      BY <1>1, <3>1
    <3>4. QED
      BY <3>2, <3>3, ConcatEmptySeq, Zenon
  <2>2. h = F(h)
    <3>1. \A i \in 1..n : i # 1 => i - 1 \in 1..n
      BY <1>1
    <3>2. QED
      BY <1>1, <2>1, <3>1
  <2>3. G = F(G)
    <3> HIDE DEF F
    <3> QED
      BY <2>2
  <2>4. \A i \in 1..n : G[i] = IF i = 1 THEN d[i] ELSE G[i - 1] \o d[i]
    <3> HIDE DEF G
    <3> QED
      BY <1>1, <2>3
  <2>5. ASSUME NEW i \in 1..n, i - 1 \in S PROVE i \in S
    <3>1. G[i] = IF i = 1 THEN d[i] ELSE G[i - 1] \o d[i]
      BY <2>4, Zenon
    <3>2. CASE i = 1
      <4>1. G[i] = g[i]
        BY <2>1, <3>1, <3>2, Zenon
      <4>2. QED
        BY <1>1, <4>1
    <3>3. CASE i # 1
      <4>1. G[i - 1] = g[i - 1]
        <5>1. i - 1 # 0
          BY <1>1, <3>3
        <5>2. QED
          BY <2>5, <5>1, Zenon
      <4>2. G[i] = g[i]
        BY <3>1, <3>3, <4>1, Zenon
      <4>3. QED
        BY <1>1, <4>2
    <3>4. QED
      BY <3>2, <3>3
  <2>6. 0..n \subseteq S
    <3>1. 0 \in S
      BY <1>1
    <3> HIDE DEF S, n
    <3> QED
      BY <1>1, <2>5, <3>1, BoundedInduct
  <2>7. G[n] = g[n]
    <3> HIDE DEF G
    <3> QED
      BY <1>1, <1>3, <2>6
  <2>8. QED
    BY <1>3, <2>7 DEF FlattenSeq
<1>4. QED
    BY <1>2, <1>3

\* What is appended to a sequence of sequences comes last when it is flattened.
LEMMA FlattenAppend ==
    ASSUME NEW T, NEW d \in Seq(Seq(T)), NEW e \in Seq(T)
    PROVE  /\ FlattenSeq(d) \in Seq(T)
           /\ FlattenSeq(Append(d, e)) = FlattenSeq(d) \o e
<1> DEFINE r == Append(d, e)
           n == Len(d)
           A == Seq(T)
           join == [p \in A \X A |-> p[1] \o p[2]]
<1>1. /\ n \in Nat /\ r \in Seq(A) /\ Len(r) = n + 1 /\ r[n + 1] = e
      /\ \A i \in 1..n : r[i] = d[i]
    BY AppendProperties, LenProperties
<1>2. PICK g \in [0..(n + 1) -> A] :
         g[0] = <<>> /\ \A i \in 1..(n + 1) : g[i] = join[<<g[i - 1], r[i]>>]
  <2>1. join \in [A \X A -> A]
    BY ConcatProperties
  <2>2. <<>> \in A
    BY EmptySeq
  <2> HIDE DEF join, r, A
  <2>3. PICK g : IsFold(g, A, <<>>, join, r)
    <3>1. r \in Seq(A)
      BY <1>1
    <3>2. QED
      BY <2>1, <2>2, <3>1, FoldExists, Zenon
  <2>4. QED
    BY <1>1, <2>3 DEF IsFold
<1>3. ASSUME NEW i \in 1..(n + 1) PROVE r[i] \in A /\ g[i] = g[i - 1] \o r[i]
  <2>1. r[i] \in A /\ i - 1 \in 0..(n + 1)
    <3> HIDE DEF r, A
    <3> QED
      BY <1>1
  <2>2. <<g[i - 1], r[i]>> \in A \X A
    BY <1>2, <2>1
  <2>3. join[<<g[i - 1], r[i]>>] = g[i - 1] \o r[i]
    BY <2>2
  <2>4. QED
    BY <1>2, <2>1, <2>3
<1>4. FlattenSeq(r) = g[n + 1]
  <2> HIDE DEF r
  <2>1. g \in [0..Len(r) -> A] /\ r \in Seq(A)
    BY <1>1, <1>2
  <2>2. \A i \in 1..Len(r) : g[i] = g[i - 1] \o r[i]
    BY <1>1, <1>3, Zenon
  <2>3. FlattenSeq(r) = g[Len(r)]
    BY <1>2, <2>1, <2>2, FlattenIs, Zenon
  <2>4. QED
    BY <1>1, <2>3
<1> DEFINE h == [i \in 0..n |-> g[i]]
<1>5. h \in [0..n -> A] /\ h[0] = <<>> /\ h[n] = g[n]
    BY <1>1, <1>2
<1>6. ASSUME NEW i \in 1..n PROVE h[i] = h[i - 1] \o d[i]
  <2>1. i \in 1..(n + 1) /\ h[i] = g[i] /\ h[i - 1] = g[i - 1] /\ r[i] = d[i]
    BY <1>1
  <2> HIDE DEF r, h
  <2>2. QED
    BY <1>3, <2>1, Zenon
<1>7. FlattenSeq(d) = h[n]
  <2> HIDE DEF h
  <2> QED
    BY <1>5, <1>6, FlattenIs, Zenon
<1>8. g[n + 1] = g[n] \o e
  <2>1. n + 1 \in 1..(n + 1) /\ (n + 1) - 1 = n
    BY <1>1
  <2> HIDE DEF r
  <2>2. g[n + 1] = g[(n + 1) - 1] \o r[n + 1]
    BY <1>3, <2>1, Zenon
  <2>3. QED
    BY <1>1, <2>1, <2>2, Zenon
<1>9. g[n] \in A
    BY <1>1, <1>2
<1>10. QED
    BY <1>4, <1>5, <1>7, <1>8, <1>9

\* Flattening goes through concatenation.
LEMMA FlattenConcat ==
    ASSUME NEW T
    PROVE  /\ FlattenSeq(<<>>) = <<>>
           /\ \A s, t \in Seq(Seq(T)) : FlattenSeq(s \o t) = FlattenSeq(s) \o FlattenSeq(t)
<1>1. FlattenSeq(<<>>) = <<>>
    BY EmptySeq DEF FlattenSeq
<1>2. ASSUME NEW s \in Seq(Seq(T))
      PROVE  \A t \in Seq(Seq(T)) : FlattenSeq(s \o t) = FlattenSeq(s) \o FlattenSeq(t)
  <2> DEFINE P == {t \in Seq(Seq(T)) : FlattenSeq(s \o t) = FlattenSeq(s) \o FlattenSeq(t)}
  <2>1. <<>> \in P
    <3>1. <<>> \in Seq(Seq(T)) /\ <<>> \in Seq(T) /\ FlattenSeq(s) \in Seq(T)
      BY EmptySeq, FlattenAppend
    <3>2. s \o <<>> = s /\ FlattenSeq(s) \o <<>> = FlattenSeq(s)
      BY <3>1, ConcatEmptySeq
    <3>3. QED
      BY <1>1, <3>1, <3>2
  <2>2. ASSUME NEW t \in Seq(Seq(T)), NEW e \in Seq(T), t \in P PROVE Append(t, e) \in P
    <3>1. s \o Append(t, e) = Append(s \o t, e) /\ s \o t \in Seq(Seq(T))
      BY ConcatProperties, SMT
    <3>2. FlattenSeq(Append(s \o t, e)) = FlattenSeq(s \o t) \o e
      BY <3>1, FlattenAppend
    <3>3. /\ FlattenSeq(s) \in Seq(T) /\ FlattenSeq(t) \in Seq(T)
          /\ FlattenSeq(Append(t, e)) = FlattenSeq(t) \o e
      BY FlattenAppend
    <3>4. FlattenSeq(s \o t) = FlattenSeq(s) \o FlattenSeq(t)
      BY <2>2
    <3>5. (FlattenSeq(s) \o FlattenSeq(t)) \o e = FlattenSeq(s) \o (FlattenSeq(t) \o e)
      BY <3>3, ConcatAssociative
    <3>6. FlattenSeq(s \o Append(t, e)) = FlattenSeq(s) \o FlattenSeq(Append(t, e))
      BY <3>1, <3>2, <3>3, <3>4, <3>5
    <3>7. Append(t, e) \in Seq(Seq(T))
      BY AppendProperties
    <3>8. QED
      BY <3>6, <3>7
  <2>3. QED
    <3> HIDE DEF P
    <3>1. Seq(Seq(T)) \subseteq P
      BY <2>1, <2>2, SeqInduct
    <3>2. QED
      BY <3>1 DEF P
<1>3. QED
    BY <1>1, <1>2

-----------------------------------------------------------------------------
\* A stream in the course of being cut.
Splits(T) == [frames : Seq(Seq(T)), cur : Seq(T)]
NoSplit == [frames |-> <<>>, cur |-> <<>>]

\* A token more, and it is still one.
LEMMA EomStepType ==
    ASSUME NEW T, NEW s \in Splits(T), NEW t \in T
    PROVE  EomStep(s, t) \in Splits(T)
<1> DEFINE cur == Append(s.cur, t)
<1>1. s.cur \in Seq(T) /\ s.frames \in Seq(Seq(T)) /\ cur \in Seq(T) /\ <<>> \in Seq(T)
    BY AppendProperties, EmptySeq DEF Splits
<1>2. Append(s.frames, cur) \in Seq(Seq(T))
    BY <1>1, AppendProperties
<1>3. \/ EomStep(s, t) = [frames |-> Append(s.frames, cur), cur |-> <<>>]
      \/ EomStep(s, t) = [s EXCEPT !.cur = cur]
    BY DEF EomStep
<1>4. [s EXCEPT !.cur = cur] \in Splits(T)
  <2> HIDE DEF cur
  <2> QED
    BY <1>1 DEF Splits
<1>5. [frames |-> Append(s.frames, cur), cur |-> <<>>] \in Splits(T)
  <2> HIDE DEF cur
  <2> QED
    BY <1>1, <1>2 DEF Splits
<1>6. QED
    BY <1>3, <1>4, <1>5

\* EomSplit(d) is what any function with its recursion has at the end.
LEMMA EomSplitIs ==
    ASSUME NEW T, NEW d \in Seq(T), NEW g \in [0..Len(d) -> Splits(T)], g[0] = NoSplit,
           \A i \in 1..Len(d) : g[i] = EomStep(g[i - 1], d[i])
    PROVE  EomSplit(d) = g[Len(d)]
<1> DEFINE n == Len(d)
           F(s) == [i \in 0..n |-> IF i = 0 THEN NoSplit ELSE EomStep(s[i - 1], d[i])]
           G == CHOOSE s : s = F(s)
           S == {i \in 0..n : G[i] = g[i]}
<1>1. n \in Nat
    OBVIOUS
<1>2. g = F(g)
  <2> HIDE DEF NoSplit
  <2> QED
    OBVIOUS
<1>3. G = F(G)
  <2> HIDE DEF F
  <2> QED
    BY <1>2
<1>4. G[0] = NoSplit /\ \A i \in 1..n : G[i] = EomStep(G[i - 1], d[i])
  <2> HIDE DEF G
  <2> QED
    BY <1>1, <1>3
<1>5. 0..n \subseteq S
  <2>1. 0 \in S
    <3> HIDE DEF G
    <3> QED
      BY <1>1, <1>4
  <2>2. ASSUME NEW i \in 1..n, i - 1 \in S PROVE i \in S
    <3> HIDE DEF G
    <3>1. G[i - 1] = g[i - 1]
      BY <2>2
    <3>2. G[i] = g[i]
      BY <1>4, <3>1, Zenon
    <3>3. QED
      BY <1>1, <3>2
  <2> HIDE DEF S, n
  <2>3. QED
    BY <1>1, <2>1, <2>2, BoundedInduct
<1>6. EomSplit(d) = G[n]
    BY DEF EomSplit, NoSplit
<1>7. QED
  <2> HIDE DEF G
  <2> QED
    BY <1>1, <1>5, <1>6

\* Cutting a stream is cutting its last token after the others.
LEMMA EomSplitAppend ==
    ASSUME NEW T, NEW d \in Seq(T), NEW e \in T
    PROVE  /\ EomSplit(d) \in Splits(T)
           /\ EomSplit(Append(d, e)) = EomStep(EomSplit(d), e)
<1> DEFINE r == Append(d, e)
           n == Len(d)
           A == Splits(T)
           step == [p \in A \X T |-> EomStep(p[1], p[2])]
<1>1. /\ n \in Nat /\ r \in Seq(T) /\ Len(r) = n + 1 /\ r[n + 1] = e
      /\ \A i \in 1..n : r[i] = d[i]
    BY AppendProperties, LenProperties
<1>2. PICK g \in [0..(n + 1) -> A] :
         g[0] = NoSplit /\ \A i \in 1..(n + 1) : g[i] = step[<<g[i - 1], r[i]>>]
  <2>1. step \in [A \X T -> A]
    <3> HIDE DEF A
    <3> QED
      BY EomStepType DEF A
  <2>2. NoSplit \in A
    BY EmptySeq DEF Splits, NoSplit
  <2> HIDE DEF step, r, A
  <2>3. PICK g : IsFold(g, A, NoSplit, step, r)
    <3>1. r \in Seq(T)
      BY <1>1
    <3>2. QED
      BY <2>1, <2>2, <3>1, FoldExists, Zenon
  <2>4. QED
    BY <1>1, <2>3 DEF IsFold
<1> HIDE DEF A
<1>3. ASSUME NEW i \in 1..(n + 1) PROVE r[i] \in T /\ g[i] = EomStep(g[i - 1], r[i])
  <2>1. r[i] \in T /\ i - 1 \in 0..(n + 1)
    <3> HIDE DEF r
    <3> QED
      BY <1>1
  <2>2. <<g[i - 1], r[i]>> \in A \X T
    BY <1>2, <2>1
  <2>3. step[<<g[i - 1], r[i]>>] = EomStep(g[i - 1], r[i])
    BY <2>2
  <2>4. QED
    BY <1>2, <2>1, <2>3
<1>4. EomSplit(r) = g[n + 1]
  <2> HIDE DEF r, NoSplit
  <2>1. g \in [0..Len(r) -> Splits(T)] /\ r \in Seq(T)
    BY <1>1, <1>2 DEF A
  <2>2. \A i \in 1..Len(r) : g[i] = EomStep(g[i - 1], r[i])
    BY <1>1, <1>3, Zenon
  <2>3. EomSplit(r) = g[Len(r)]
    BY <1>2, <2>1, <2>2, EomSplitIs, Zenon
  <2>4. QED
    BY <1>1, <2>3
<1> DEFINE h == [i \in 0..n |-> g[i]]
<1>5. h \in [0..n -> A] /\ h[0] = NoSplit /\ h[n] = g[n]
    BY <1>1, <1>2
<1>6. ASSUME NEW i \in 1..n PROVE h[i] = EomStep(h[i - 1], d[i])
  <2>1. i \in 1..(n + 1) /\ h[i] = g[i] /\ h[i - 1] = g[i - 1] /\ r[i] = d[i]
    BY <1>1
  <2> HIDE DEF r, h
  <2>2. QED
    BY <1>3, <2>1, Zenon
<1>7. EomSplit(d) = h[n]
  <2> HIDE DEF h
  <2> QED
    BY <1>5, <1>6, EomSplitIs, Zenon DEF A
<1>8. g[n + 1] = EomStep(g[n], e)
  <2>1. n + 1 \in 1..(n + 1) /\ (n + 1) - 1 = n
    BY <1>1
  <2> HIDE DEF r
  <2>2. g[n + 1] = EomStep(g[(n + 1) - 1], r[n + 1])
    BY <1>3, <2>1, Zenon
  <2>3. QED
    BY <1>1, <2>1, <2>2, Zenon
<1>9. g[n] \in A
    BY <1>1, <1>2
<1>10. QED
    BY <1>4, <1>5, <1>7, <1>8, <1>9 DEF A

-----------------------------------------------------------------------------
\* An EOM marker begins at position i of d.
EomAt(d, i) == Kind(d[i]) = "half" /\ Kind(d[i + 1]) = "half"
NoEom(d) == \A i \in 1..(Len(d) - 1) : ~EomAt(d, i)

\* A message up to its EOM marker, and no further.
IsFrame(f) ==
    /\ Len(f) > 1
    /\ EomAt(f, Len(f) - 1)
    /\ \A i \in 1..(Len(f) - 2) : ~EomAt(f, i)

\* What EomSplit has not cut off has no marker, and neither is cut what has none.
LEMMA EomSplitOfPartial ==
    ASSUME NEW T
    PROVE  /\ EomSplit(<<>>) = NoSplit
           /\ \A d \in Seq(T) : NoEom(d) => EomSplit(d) = [frames |-> <<>>, cur |-> d]
<1>1. EomSplit(<<>>) = NoSplit
  <2> DEFINE g == [i \in 0..0 |-> NoSplit]
  <2>1. /\ g \in [0..Len(<<>>) -> Splits(T)] /\ g[0] = NoSplit /\ Len(<<>>) = 0 /\ <<>> \in Seq(T)
        /\ \A i \in 1..0 : g[i] = EomStep(g[i - 1], <<>>[i])
    BY EmptySeq DEF Splits, NoSplit
  <2> HIDE DEF g, NoSplit
  <2>2. QED
    BY <2>1, EomSplitIs
<1> DEFINE P == {d \in Seq(T) : NoEom(d) => EomSplit(d) = [frames |-> <<>>, cur |-> d]}
<1>2. <<>> \in P
    BY <1>1, EmptySeq DEF NoSplit
<1>3. ASSUME NEW d \in Seq(T), NEW e \in T, d \in P PROVE Append(d, e) \in P
  <2> DEFINE r == Append(d, e)
             n == Len(d)
  <2>1. /\ n \in Nat /\ r \in Seq(T) /\ Len(r) = n + 1 /\ r[n + 1] = e
        /\ \A i \in 1..n : r[i] = d[i]
    BY AppendProperties, LenProperties
  <2>2. SUFFICES ASSUME NoEom(r) PROVE EomSplit(r) = [frames |-> <<>>, cur |-> r]
    BY <2>1
  <2>3. NoEom(d)
    <3>1. ASSUME NEW i \in 1..(n - 1) PROVE ~EomAt(d, i)
      <4>1. i \in 1..(Len(r) - 1) /\ r[i] = d[i] /\ r[i + 1] = d[i + 1]
        BY <2>1
      <4> HIDE DEF r
      <4>2. QED
        BY <2>2, <4>1 DEF NoEom, EomAt
    <3>2. QED
      BY <3>1 DEF NoEom
  <2>4. EomSplit(d) = [frames |-> <<>>, cur |-> d]
    BY <1>3, <2>3
  <2>5. EomSplit(r) = EomStep([frames |-> <<>>, cur |-> d], e)
    BY <2>4, EomSplitAppend
  <2>6. ~(Len(r) > 1 /\ Kind(r[Len(r) - 1]) = "half" /\ Kind(r[Len(r)]) = "half")
    <3> HIDE DEF r
    <3>1. SUFFICES ASSUME Len(r) > 1, Kind(r[Len(r) - 1]) = "half", Kind(r[Len(r)]) = "half"
                   PROVE  FALSE
      OBVIOUS
    <3>2. Len(r) - 1 \in 1..(Len(r) - 1) /\ (Len(r) - 1) + 1 = Len(r)
      BY <2>1, <3>1
    <3>3. QED
      BY <2>2, <3>1, <3>2 DEF NoEom, EomAt
  <2>7. QED
    BY <2>5, <2>6 DEF EomStep
<1>4. Seq(T) \subseteq P
  <2> HIDE DEF P
  <2> QED
    BY <1>2, <1>3, SeqInduct
<1>5. QED
    BY <1>1, <1>4

\* One frame is cut into that frame.
LEMMA EomSplitOfFrame ==
    ASSUME NEW T, NEW f \in Seq(T), IsFrame(f)
    PROVE  EomSplit(f) = [frames |-> <<f>>, cur |-> <<>>]
<1>1. f # <<>>
    BY EmptySeq DEF IsFrame
<1>2. PICK d \in Seq(T), e \in T : f = Append(d, e)
    BY <1>1, SequenceEmptyOrAppend
<1> DEFINE n == Len(d)
<1>3. n \in Nat /\ Len(f) = n + 1 /\ f[n + 1] = e /\ \A i \in 1..n : f[i] = d[i]
    BY <1>2, AppendProperties, LenProperties
<1>4. n > 0 /\ Kind(f[n]) = "half" /\ Kind(f[n + 1]) = "half"
    BY <1>3 DEF IsFrame, EomAt
<1>5. NoEom(d)
  <2>1. ASSUME NEW i \in 1..(n - 1) PROVE ~EomAt(d, i)
    <3>1. i \in 1..(Len(f) - 2) /\ f[i] = d[i] /\ f[i + 1] = d[i + 1]
      BY <1>3
    <3>2. QED
      BY <3>1 DEF IsFrame, EomAt
  <2>2. QED
    BY <2>1 DEF NoEom
<1>6. EomSplit(d) = [frames |-> <<>>, cur |-> d]
    BY <1>5, EomSplitOfPartial
<1>7. EomSplit(f) = EomStep([frames |-> <<>>, cur |-> d], e)
    BY <1>2, <1>6, EomSplitAppend
<1>8. EomStep([frames |-> <<>>, cur |-> d], e) = [frames |-> Append(<<>>, f), cur |-> <<>>]
  <2>1. Len(f) > 1 /\ Kind(f[Len(f) - 1]) = "half" /\ Kind(f[Len(f)]) = "half"
    BY <1>3, <1>4
  <2>2. QED
    BY <1>2, <2>1 DEF EomStep
<1>9. Append(<<>>, f) = <<f>>
    OBVIOUS
<1>10. QED
    BY <1>7, <1>8, <1>9

\* A stream is cut into sequences of its tokens.
LEMMA EomSplitType ==
    ASSUME NEW T, NEW d \in Seq(T)
    PROVE  EomSplit(d) \in Splits(T)
<1>1. CASE d = <<>>
  <2>1. EomSplit(d) = NoSplit
    BY <1>1, EomSplitOfPartial
  <2>2. NoSplit \in Splits(T)
    BY EmptySeq DEF Splits, NoSplit
  <2>3. QED
    BY <2>1, <2>2
<1>2. CASE d # <<>>
  <2>1. PICK r \in Seq(T), e \in T : d = Append(r, e)
    BY <1>2, SequenceEmptyOrAppend
  <2>2. EomSplit(r) \in Splits(T) /\ EomSplit(d) = EomStep(EomSplit(r), e)
    BY <2>1, EomSplitAppend
  <2>3. QED
    BY <2>2, EomStepType
<1>3. QED
    BY <1>1, <1>2

\* After a marker the stream is cut as if it began there.
LEMMA EomSplitConcat ==
    ASSUME NEW T, NEW a \in Seq(T), EomSplit(a).cur = <<>>
    PROVE  \A b \in Seq(T) :
              EomSplit(a \o b) = [frames |-> EomSplit(a).frames \o EomSplit(b).frames,
                                  cur |-> EomSplit(b).cur]
<1> DEFINE Joined(b) == [frames |-> EomSplit(a).frames \o EomSplit(b).frames,
                         cur |-> EomSplit(b).cur]
           P == {b \in Seq(T) : EomSplit(a \o b) = Joined(b)}
<1>1. EomSplit(a) \in Splits(T) /\ \A b \in Seq(T) : EomSplit(b) \in Splits(T)
    BY EomSplitType
<1>2. <<>> \in P
  <2>1. a \o <<>> = a /\ EomSplit(<<>>) = NoSplit
    BY ConcatEmptySeq, EomSplitOfPartial
  <2>2. EomSplit(a).frames \in Seq(Seq(T))
    BY <1>1 DEF Splits
  <2>3. EomSplit(a).frames \o <<>> = EomSplit(a).frames
    BY <2>2, ConcatEmptySeq
  <2>4. EomSplit(a) = [frames |-> EomSplit(a).frames, cur |-> <<>>]
    BY <1>1 DEF Splits
  <2>5. EomSplit(<<>>).frames = <<>> /\ EomSplit(<<>>).cur = <<>>
    BY <2>1 DEF NoSplit
  <2>6. Joined(<<>>) = EomSplit(a)
    BY <2>3, <2>4, <2>5, Zenon
  <2> HIDE DEF Joined
  <2>7. QED
    BY <2>1, <2>6, EmptySeq
<1>3. ASSUME NEW b \in Seq(T), NEW e \in T, b \in P PROVE Append(b, e) \in P
  <2>1. a \o Append(b, e) = Append(a \o b, e) /\ a \o b \in Seq(T) /\ Append(b, e) \in Seq(T)
    BY ConcatProperties, AppendProperties, SMT
  <2>2. EomSplit(a \o Append(b, e)) = EomStep(Joined(b), e)
    BY <1>3, <2>1, EomSplitAppend
  <2>3. EomSplit(Append(b, e)) = EomStep(EomSplit(b), e)
    BY EomSplitAppend
  <2> DEFINE fa == EomSplit(a).frames
             fb == EomSplit(b).frames
             cur == Append(EomSplit(b).cur, e)
  <2>4. fa \in Seq(Seq(T)) /\ fb \in Seq(Seq(T)) /\ EomSplit(b).cur \in Seq(T) /\ cur \in Seq(T)
    BY <1>1, AppendProperties DEF Splits
  <2>5. fa \o Append(fb, cur) = Append(fa \o fb, cur)
    <3> HIDE DEF fa, fb, cur
    <3> QED
      BY <2>4, SMT
  <2>6. EomSplit(b) = [frames |-> fb, cur |-> EomSplit(b).cur]
    BY <1>1 DEF Splits
  <2> DEFINE whole == Len(cur) > 1 /\ Kind(cur[Len(cur) - 1]) = "half" /\ Kind(cur[Len(cur)]) = "half"
  <2>7. EomStep(Joined(b), e) = IF whole THEN [frames |-> Append(fa \o fb, cur), cur |-> <<>>]
                                ELSE [frames |-> fa \o fb, cur |-> cur]
    <3> DEFINE s == Joined(b)
    <3>1. EomStep(s, e) = IF whole THEN [frames |-> Append(fa \o fb, cur), cur |-> <<>>]
                          ELSE [s EXCEPT !.cur = cur]
      BY DEF EomStep
    <3>2. [s EXCEPT !.cur = cur] = [frames |-> fa \o fb, cur |-> cur]
      <4>1. \A x, y, z : [[frames |-> x, cur |-> y] EXCEPT !.cur = z] = [frames |-> x, cur |-> z]
        OBVIOUS
      <4> DEFINE y == EomSplit(b).cur
      <4>2. s = [frames |-> fa \o fb, cur |-> y]
        OBVIOUS
      <4> HIDE DEF s, cur, fb, fa, y
      <4>3. QED
        BY <4>1, <4>2, Zenon
    <3> HIDE DEF s, cur, fb, fa, whole
    <3>3. QED
      BY <3>1, <3>2, Zenon DEF s
  <2>8. EomStep(EomSplit(b), e) = IF whole THEN [frames |-> Append(fb, cur), cur |-> <<>>]
                                  ELSE [frames |-> fb, cur |-> cur]
    <3> DEFINE s == [frames |-> fb, cur |-> EomSplit(b).cur]
    <3>1. EomStep(s, e) = IF whole THEN [frames |-> Append(fb, cur), cur |-> <<>>]
                          ELSE [s EXCEPT !.cur = cur]
      BY DEF EomStep
    <3>2. [s EXCEPT !.cur = cur] = [frames |-> fb, cur |-> cur]
      <4> HIDE DEF cur, fb
      <4> QED
        OBVIOUS
    <3>3. EomStep(s, e) = IF whole THEN [frames |-> Append(fb, cur), cur |-> <<>>]
                          ELSE [frames |-> fb, cur |-> cur]
      BY <3>1, <3>2
    <3>4. EomSplit(b) = s
      BY <2>6
    <3> HIDE DEF s, cur, fb, whole
    <3>5. QED
      BY <3>3, <3>4
  <2>9. EomSplit(a \o Append(b, e)) = Joined(Append(b, e))
    <3>1. Joined(Append(b, e)) = [frames |-> fa \o EomStep(EomSplit(b), e).frames,
                                  cur |-> EomStep(EomSplit(b), e).cur]
      BY <2>3
    <3> HIDE DEF fa, fb, cur, whole, Joined
    <3>2. CASE whole
      <4>1. /\ EomStep(EomSplit(b), e).frames = Append(fb, cur)
            /\ EomStep(EomSplit(b), e).cur = <<>>
        BY <2>8, <3>2
      <4>2. Joined(Append(b, e)) = [frames |-> Append(fa \o fb, cur), cur |-> <<>>]
        BY <2>5, <3>1, <4>1, Zenon
      <4>3. QED
        BY <2>2, <2>7, <3>2, <4>2, Zenon
    <3>3. CASE ~whole
      <4>1. EomStep(EomSplit(b), e).frames = fb /\ EomStep(EomSplit(b), e).cur = cur
        BY <2>8, <3>3
      <4>2. Joined(Append(b, e)) = [frames |-> fa \o fb, cur |-> cur]
        BY <3>1, <4>1, Zenon
      <4>3. QED
        BY <2>2, <2>7, <3>3, <4>2, Zenon
    <3>4. QED
      BY <3>2, <3>3
  <2>10. QED
    <3> HIDE DEF Joined
    <3> QED
      BY <2>1, <2>9
<1>4. Seq(T) \subseteq P
  <2> HIDE DEF P
  <2> QED
    BY <1>2, <1>3, SeqInduct
<1>5. QED
    BY <1>4

\* A stream of frames is cut into these frames, whatever comes after.
LEMMA EomSplitOfFrames ==
    ASSUME NEW T
    PROVE  \A fs \in Seq(Seq(T)), r \in Seq(T) :
              (\A i \in 1..Len(fs) : IsFrame(fs[i])) =>
                 EomSplit(FlattenSeq(fs) \o r) = [frames |-> fs \o EomSplit(r).frames,
                                                  cur |-> EomSplit(r).cur]
<1> DEFINE Framed(fs) == \A i \in 1..Len(fs) : IsFrame(fs[i])
           P == {fs \in Seq(Seq(T)) : Framed(fs) =>
                    EomSplit(FlattenSeq(fs)) = [frames |-> fs, cur |-> <<>>]}
<1>1. <<>> \in P
    BY FlattenConcat, EomSplitOfPartial, EmptySeq DEF NoSplit
<1>2. ASSUME NEW fs \in Seq(Seq(T)), NEW f \in Seq(T), fs \in P PROVE Append(fs, f) \in P
  <2>1. /\ Append(fs, f) \in Seq(Seq(T)) /\ Len(Append(fs, f)) = Len(fs) + 1
        /\ Append(fs, f)[Len(fs) + 1] = f /\ Len(fs) \in Nat
        /\ \A i \in 1..Len(fs) : Append(fs, f)[i] = fs[i]
    BY AppendProperties, LenProperties
  <2>2. SUFFICES ASSUME Framed(Append(fs, f))
                 PROVE  EomSplit(FlattenSeq(Append(fs, f))) = [frames |-> Append(fs, f), cur |-> <<>>]
    BY <2>1
  <2>3. Framed(fs) /\ IsFrame(f)
    <3>1. IsFrame(Append(fs, f)[Len(fs) + 1])
      BY <2>1, <2>2
    <3>2. ASSUME NEW i \in 1..Len(fs) PROVE IsFrame(fs[i])
      <4>1. i \in 1..Len(Append(fs, f))
        BY <2>1
      <4>2. IsFrame(Append(fs, f)[i]) /\ Append(fs, f)[i] = fs[i]
        BY <2>1, <2>2, <4>1
      <4>3. QED
        BY <4>2
    <3>3. QED
      BY <2>1, <3>1, <3>2
  <2>4. EomSplit(FlattenSeq(fs)) = [frames |-> fs, cur |-> <<>>]
    BY <1>2, <2>3
  <2>5. EomSplit(f) = [frames |-> <<f>>, cur |-> <<>>]
    BY <2>3, EomSplitOfFrame
  <2>6. FlattenSeq(fs) \in Seq(T) /\ FlattenSeq(Append(fs, f)) = FlattenSeq(fs) \o f
    BY FlattenAppend
  <2>7. EomSplit(FlattenSeq(fs) \o f) = [frames |-> fs \o <<f>>, cur |-> <<>>]
    <3> DEFINE a == FlattenSeq(fs)
    <3>1. a \in Seq(T) /\ EomSplit(a).cur = <<>> /\ EomSplit(a).frames = fs
      BY <2>4, <2>6
    <3>2. EomSplit(f).cur = <<>> /\ EomSplit(f).frames = <<f>>
      BY <2>5
    <3> HIDE DEF a
    <3>3. EomSplit(a \o f) = [frames |-> EomSplit(a).frames \o EomSplit(f).frames,
                              cur |-> EomSplit(f).cur]
      BY <3>1, EomSplitConcat, Zenon
    <3>4. QED
      BY <3>1, <3>2, <3>3, Zenon DEF a
  <2>8. fs \o <<f>> = Append(fs, f)
    BY AppendIsConcat
  <2>9. QED
    BY <2>6, <2>7, <2>8
<1>3. Seq(Seq(T)) \subseteq P
  <2> HIDE DEF P
  <2> QED
    BY <1>1, <1>2, SeqInduct
<1>4. ASSUME NEW fs \in Seq(Seq(T)), NEW r \in Seq(T), Framed(fs)
      PROVE  EomSplit(FlattenSeq(fs) \o r) = [frames |-> fs \o EomSplit(r).frames,
                                              cur |-> EomSplit(r).cur]
  <2>1. EomSplit(FlattenSeq(fs)) = [frames |-> fs, cur |-> <<>>]
    BY <1>3, <1>4
  <2>2. FlattenSeq(fs) \in Seq(T)
    <3>1. <<>> \in Seq(T)
      BY EmptySeq
    <3>2. QED
      BY <3>1, FlattenAppend
  <2> DEFINE a == FlattenSeq(fs)
  <2>3. a \in Seq(T) /\ EomSplit(a).cur = <<>> /\ EomSplit(a).frames = fs
    BY <2>1, <2>2
  <2> HIDE DEF a
  <2>4. EomSplit(a \o r) = [frames |-> EomSplit(a).frames \o EomSplit(r).frames,
                            cur |-> EomSplit(r).cur]
    BY <2>3, EomSplitConcat, Zenon
  <2>5. QED
    BY <2>3, <2>4, Zenon DEF a
<1>5. QED
    BY <1>4

\* What has no marker yet stays together: the first message of whatever it becomes
\* begins with it.
LEMMA EomSplitKeepsPartial ==
    ASSUME NEW T, NEW a \in Seq(T), NoEom(a)
    PROVE  \A b \in Seq(T) : LET s == EomSplit(a \o b)
           IN  IF s.frames = <<>> THEN s.cur = a \o b
               ELSE \E u \in Seq(T) : s.frames[1] = a \o u
<1> DEFINE Kept(b) == LET s == EomSplit(a \o b)
                      IN  IF s.frames = <<>> THEN s.cur = a \o b
                          ELSE \E u \in Seq(T) : s.frames[1] = a \o u
           P == {b \in Seq(T) : Kept(b)}
<1>1. <<>> \in P
  <2>1. a \o <<>> = a /\ EomSplit(a) = [frames |-> <<>>, cur |-> a]
    BY ConcatEmptySeq, EomSplitOfPartial
  <2>2. QED
    BY <2>1, EmptySeq
<1>2. ASSUME NEW b \in Seq(T), NEW e \in T, b \in P PROVE Append(b, e) \in P
  <2> DEFINE s == EomSplit(a \o b)
             cur == Append(s.cur, e)
             r == EomSplit(a \o Append(b, e))
  <2>1. /\ a \o Append(b, e) = Append(a \o b, e) /\ a \o b \in Seq(T)
        /\ Append(b, e) \in Seq(T)
    BY ConcatProperties, AppendProperties, SMT
  <2>2. s \in Splits(T) /\ r = EomStep(s, e)
    BY <2>1, EomSplitAppend
  <2>3. s.frames \in Seq(Seq(T)) /\ s.cur \in Seq(T) /\ cur \in Seq(T)
    BY <2>2, AppendProperties DEF Splits
  <2>4. \/ r.frames = s.frames /\ r.cur = cur
        \/ r.frames = Append(s.frames, cur)
    <3> HIDE DEF s, r
    <3>1. \/ EomStep(s, e) = [s EXCEPT !.cur = cur]
          \/ EomStep(s, e) = [frames |-> Append(s.frames, cur), cur |-> <<>>]
      BY DEF EomStep
    <3> HIDE DEF cur
    <3>2. QED
      BY <2>2, <3>1 DEF Splits
  <2>5. s.frames = <<>> => s.cur = a \o b
    BY <1>2
  <2>6. s.frames # <<>> => \E u \in Seq(T) : s.frames[1] = a \o u
    BY <1>2
  <2> HIDE DEF s, r
  <2>7. s.frames = <<>> => cur = a \o Append(b, e)
    BY <2>1, <2>5
  <2> HIDE DEF cur
  <2>8. s.frames = <<>> => Append(s.frames, cur) = <<cur>> /\ Append(s.frames, cur)[1] = cur
    OBVIOUS
  <2>9. s.frames # <<>> => Append(s.frames, cur)[1] = s.frames[1]
    BY <2>3, EmptySeq, AppendProperties
  <2>10. Append(s.frames, cur) # <<>>
    BY <2>3, AppendProperties
  <2>11. IF r.frames = <<>> THEN r.cur = a \o Append(b, e)
         ELSE \E u \in Seq(T) : r.frames[1] = a \o u
    <3>1. CASE r.frames = s.frames /\ r.cur = cur
      BY <2>6, <2>7, <3>1
    <3>2. CASE r.frames = Append(s.frames, cur)
      BY <2>1, <2>6, <2>7, <2>8, <2>9, <2>10, <3>2
    <3>3. QED
      BY <2>4, <3>1, <3>2
  <2>12. QED
    BY <2>1, <2>11 DEF r
<1>3. Seq(T) \subseteq P
  <2> HIDE DEF P
  <2> QED
    BY <1>1, <1>2, SeqInduct
<1>4. QED
    BY <1>3

-----------------------------------------------------------------------------
\* A set of positions has a least element, which is the one Min chooses.
LEMMA MinIsIn ==
    ASSUME NEW S, S \subseteq Nat, S # {}
    PROVE  Min(S) \in S /\ \A n \in S : Min(S) <= n
<1> DEFINE below == {p \in Nat \X Nat : p[1] < p[2]}
<1>1. IsWellFoundedOn(below, Nat)
    BY NatLessThanWellFounded DEF OpToRel
<1>2. PICK m \in S : \A n \in S : <<n, m>> \notin below
  <2> HIDE DEF below
  <2> QED
    BY <1>1, WFMin
<1>3. ASSUME NEW n \in S PROVE m <= n
  <2>1. n \in Nat /\ m \in Nat
    OBVIOUS
  <2>2. n < m => <<n, m>> \in below
    BY <2>1
  <2>3. QED
    BY <1>2, <2>1, <2>2
<1>4. QED
    BY <1>3 DEF Min

\* The searches of the parser find a position of the buffer, or nothing.
LEMMA SearchesStayInside ==
    ASSUME NEW T, NEW data \in Seq(T), NEW from \in Nat \ {0}
    PROVE  /\ \A k \in {"open", "close"} : FindKind(data, from, k) \in {0} \cup from..Len(data)
           /\ FindEom(data) \in {0} \cup 1..(Len(data) - 1)
<1>1. Len(data) \in Nat
    OBVIOUS
<1>2. ASSUME NEW k PROVE FindKind(data, from, k) \in {0} \cup from..Len(data)
  <2> DEFINE hits == {i \in from..Len(data) : Kind(data[i]) = k}
  <2>1. hits \subseteq Nat
    BY <1>1
  <2>2. hits # {} => Min(hits) \in hits
    BY <2>1, MinIsIn
  <2>3. QED
    BY <2>2 DEF FindKind
<1>3. FindEom(data) \in {0} \cup 1..(Len(data) - 1)
  <2> DEFINE hits == {i \in 1..(Len(data) - 1) : Kind(data[i]) = "half" /\ Kind(data[i + 1]) = "half"}
  <2>1. hits \subseteq Nat
    BY <1>1
  <2>2. hits # {} => Min(hits) \in hits
    BY <2>1, MinIsIn
  <2>3. QED
    BY <2>2 DEF FindEom
<1>4. QED
    BY <1>2, <1>3

\* A cut inside a sequence is a sequence of the same things.
LEMMA Cut ==
    ASSUME NEW T, NEW s \in Seq(T), NEW m \in Nat \ {0}, NEW n \in 0..Len(s)
    PROVE  /\ SubSeq(s, m, n) \in Seq(T)
           /\ Len(SubSeq(s, m, n)) = IF m <= n THEN n - m + 1 ELSE 0
           /\ n < m => SubSeq(s, m, n) = <<>>
<1>1. \A i \in m..n : s[i] \in T
    OBVIOUS
<1>2. QED
    BY <1>1, SubSeqProperties, SubSeqEmpty

\* What a search finds: the first position from from on whose token has the kind, and
\* nothing only when there is none.
LEMMA FindKindIs ==
    ASSUME NEW T, NEW data \in Seq(T), NEW from \in Nat \ {0}, NEW k
    PROVE  LET p == FindKind(data, from, k)
           IN  \/ p = 0 /\ \A i \in from..Len(data) : Kind(data[i]) # k
               \/ /\ p \in from..Len(data) /\ Kind(data[p]) = k
                  /\ \A i \in from..(p - 1) : Kind(data[i]) # k
<1> DEFINE hits == {i \in from..Len(data) : Kind(data[i]) = k}
           p == FindKind(data, from, k)
<1>1. Len(data) \in Nat /\ hits \subseteq Nat
    OBVIOUS
<1>2. CASE hits = {}
    BY <1>2 DEF FindKind
<1>3. CASE hits # {}
  <2>1. p \in hits /\ \A n \in hits : p <= n
    <3>1. p = Min(hits)
      BY <1>3 DEF FindKind
    <3> HIDE DEF hits, p
    <3>2. QED
      BY <1>1, <1>3, <3>1, MinIsIn
  <2>2. ASSUME NEW i \in from..(p - 1) PROVE Kind(data[i]) # k
    <3>1. p \in Nat /\ i \in Nat /\ i < p /\ i \in from..Len(data)
      BY <1>1, <2>1
    <3> HIDE DEF p
    <3>2. QED
      BY <2>1, <3>1
  <2>3. QED
    BY <2>1, <2>2
<1>4. QED
    BY <1>2, <1>3

\* The search for the marker finds the first one, and cuts a frame off.
LEMMA FindEomIs ==
    ASSUME NEW T, NEW data \in Seq(T)
    PROVE  LET p == FindEom(data)
           IN  \/ p = 0 /\ NoEom(data)
               \/ p \in 1..(Len(data) - 1) /\ IsFrame(SubSeq(data, 1, p + 1))
<1> DEFINE hits == {i \in 1..(Len(data) - 1) : EomAt(data, i)}
           p == FindEom(data)
           f == SubSeq(data, 1, p + 1)
<1>1. Len(data) \in Nat /\ hits \subseteq Nat
    OBVIOUS
<1>2. p = IF hits = {} THEN 0 ELSE Min(hits)
    BY DEF FindEom, EomAt
<1>3. CASE hits = {}
    BY <1>2, <1>3 DEF NoEom
<1>4. CASE hits # {}
  <2>1. p \in hits /\ \A n \in hits : p <= n
    <3> HIDE DEF hits, p
    <3> QED
      BY <1>1, <1>2, <1>4, MinIsIn
  <2>2. p \in Nat /\ p >= 1 /\ p + 1 <= Len(data) /\ EomAt(data, p)
    BY <1>1, <2>1
  <2> HIDE DEF p
  <2>3. Len(f) = p + 1 /\ \A i \in 1..(p + 1) : f[i] = data[i]
    BY <1>1, <2>2, SubSeqProperties
  <2>4. EomAt(f, Len(f) - 1) /\ Len(f) > 1
    BY <2>2, <2>3 DEF EomAt
  <2>5. ASSUME NEW i \in 1..(Len(f) - 2) PROVE ~EomAt(f, i)
    <3>1. i \in Nat /\ i >= 1 /\ i < p /\ i \in 1..(p + 1) /\ i + 1 \in 1..(p + 1)
      BY <2>2, <2>3
    <3>2. i \in 1..(Len(data) - 1) /\ ~(p <= i)
      BY <1>1, <2>2, <3>1
    <3>3. ~EomAt(data, i)
      BY <2>1, <3>2
    <3>4. QED
      BY <2>3, <3>1, <3>3 DEF EomAt
  <2>6. IsFrame(f) /\ p \in 1..(Len(data) - 1)
    BY <1>1, <2>2, <2>4, <2>5 DEF IsFrame
  <2>7. QED
    BY <2>6 DEF p
<1>5. QED
    BY <1>3, <1>4

\* The only start tag of a message is at position p, after white space.
StartsAt(m, p) ==
    /\ Kind(m[p]) = "open"
    /\ \A i \in 1..(p - 1) : Kind(m[i]) = "ws"
    /\ \A i \in (p + 1)..Len(m) : Kind(m[i]) # "open"

\* A message is orderly if it is white space, or starts once after white space; then
\* that is where find_notification_start_tag finds it.
LEMMA OrderlyIs ==
    ASSUME NEW T, NEW m \in Seq(T)
    PROVE  /\ Orderly(m) <=> Blank(m) \/ \E p \in 1..Len(m) : StartsAt(m, p)
           /\ \A p \in 1..Len(m) : StartsAt(m, p) => FindStart(m, 1) = p
<1>1. Len(m) \in Nat /\ DOMAIN m = 1..Len(m)
    OBVIOUS
<1> DEFINE start == FindStart(m, 1)
<1>2. \/ start = 0 /\ \A i \in 1..Len(m) : Kind(m[i]) # "open"
      \/ start \in 1..Len(m) /\ Kind(m[start]) = "open" /\ \A i \in 1..(start - 1) : Kind(m[i]) # "open"
    BY FindKindIs DEF FindStart
<1>3. ASSUME start \in 1..Len(m)
      PROVE  /\ Blank(SubSeq(m, 1, start - 1)) <=> \A i \in 1..(start - 1) : Kind(m[i]) = "ws"
             /\ FindStart(m, start + 1) = 0 <=> \A i \in (start + 1)..Len(m) : Kind(m[i]) # "open"
  <2> HIDE DEF start
  <2> DEFINE f == SubSeq(m, 1, start - 1)
  <2>1. start \in Nat /\ start >= 1 /\ start + 1 \in Nat \ {0} /\ start - 1 \in Nat /\ start - 1 <= Len(m)
    BY <1>1, <1>3
  <2>2. DOMAIN f = 1..(start - 1) /\ \A i \in 1..(start - 1) : f[i] = m[i]
    BY <1>1, <2>1, SubSeqProperties
  <2>3. Blank(f) <=> \A i \in 1..(start - 1) : Kind(m[i]) = "ws"
    <3> HIDE DEF f
    <3> QED
      BY <2>2 DEF Blank
  <2>4. FindStart(m, start + 1) = 0 <=> \A i \in (start + 1)..Len(m) : Kind(m[i]) # "open"
    <3> DEFINE p == FindStart(m, start + 1)
    <3>1. \/ p = 0 /\ \A i \in (start + 1)..Len(m) : Kind(m[i]) # "open"
          \/ p \in (start + 1)..Len(m) /\ Kind(m[p]) = "open"
      BY <2>1, FindKindIs DEF FindStart
    <3> HIDE DEF p
    <3>2. QED
      BY <1>1, <2>1, <3>1 DEF p
  <2>5. QED
    BY <2>3, <2>4
<1>4. ASSUME NEW p \in 1..Len(m), StartsAt(m, p) PROVE start = p
  <2>1. p \in Nat /\ start \in Nat
    BY <1>1, <1>2
  <2>2. start # 0
    BY <1>2, <1>4 DEF StartsAt
  <2>3. ~(start < p)
    <3>1. start < p => start \in 1..(p - 1)
      BY <1>2, <2>1, <2>2
    <3> HIDE DEF start
    <3>2. QED
      BY <1>2, <1>4, <2>2, <3>1 DEF StartsAt
  <2>4. ~(p < start)
    <3>1. p < start => p \in 1..(start - 1)
      BY <2>1
    <3> HIDE DEF start
    <3>2. QED
      BY <1>2, <1>4, <2>2, <3>1 DEF StartsAt
  <2>5. QED
    BY <2>1, <2>3, <2>4
<1>5. Orderly(m) <=> Blank(m) \/ \E p \in 1..Len(m) : StartsAt(m, p)
  <2>1. CASE start = 0
    <3>1. ~\E p \in 1..Len(m) : StartsAt(m, p)
      BY <1>1, <1>4, <2>1
    <3>2. QED
      BY <2>1, <3>1 DEF Orderly
  <2>2. CASE start # 0
    <3>1. start \in 1..Len(m) /\ Kind(m[start]) = "open"
      BY <1>2, <2>2
    <3>2. Orderly(m) <=> Blank(m) \/ StartsAt(m, start)
      BY <1>3, <2>2, <3>1 DEF Orderly, StartsAt
    <3> HIDE DEF start
    <3>3. QED
      BY <1>4, <3>1, <3>2
  <2>3. QED
    BY <2>1, <2>2
<1>6. QED
    BY <1>4, <1>5

\* What has come so far of an orderly message is orderly.
LEMMA OrderlyPrefix ==
    ASSUME NEW T, NEW a \in Seq(T), NEW u \in Seq(T), Orderly(a \o u)
    PROVE  Orderly(a)
<1> DEFINE m == a \o u
<1>1. /\ m \in Seq(T) /\ Len(a) \in Nat /\ Len(u) \in Nat /\ Len(m) = Len(a) + Len(u)
      /\ \A i \in 1..Len(a) : m[i] = a[i]
      /\ DOMAIN a = 1..Len(a) /\ DOMAIN m = 1..Len(m)
    BY ConcatProperties, LenProperties
<1>2. 1..Len(a) \subseteq 1..Len(m)
    BY <1>1
<1>3. Blank(m) \/ \E p \in 1..Len(m) : StartsAt(m, p)
  <2> HIDE DEF m
  <2> QED
    BY <1>1, OrderlyIs DEF m
<1> HIDE DEF m
<1>4. CASE Blank(m)
  <2>1. Blank(a)
    BY <1>1, <1>2, <1>4 DEF Blank
  <2>2. QED
    BY <2>1 DEF Orderly
<1>5. ASSUME NEW p \in 1..Len(m), StartsAt(m, p) PROVE Orderly(a)
  <2>1. CASE p \in 1..Len(a)
    <3>1. 1..(p - 1) \subseteq 1..Len(a) /\ (p + 1)..Len(a) \subseteq (p + 1)..Len(m)
          /\ (p + 1)..Len(a) \subseteq 1..Len(a)
      BY <1>1, <2>1
    <3>2. StartsAt(a, p)
      BY <1>1, <1>5, <2>1, <3>1 DEF StartsAt
    <3>3. QED
      BY <2>1, <3>2, OrderlyIs
  <2>2. CASE p \notin 1..Len(a)
    <3>1. 1..Len(a) \subseteq 1..(p - 1)
      BY <1>1, <1>5, <2>2
    <3>2. Blank(a)
      BY <1>1, <1>5, <3>1 DEF Blank, StartsAt
    <3>3. QED
      BY <3>2 DEF Orderly
  <2>3. QED
    BY <2>1, <2>2
<1>6. QED
    BY <1>3, <1>4, <1>5

\* An orderly frame holds a start tag, with nothing but white space before it.
LEMMA OrderlyFrame ==
    ASSUME NEW T, NEW f \in Seq(T), IsFrame(f), Orderly(f)
    PROVE  \E p \in 1..(Len(f) - 2) : StartsAt(f, p)
<1>1. Len(f) \in Nat /\ Len(f) > 1 /\ DOMAIN f = 1..Len(f)
    BY DEF IsFrame
<1>2. Kind(f[Len(f) - 1]) = "half" /\ Kind(f[Len(f)]) = "half"
  <2>1. (Len(f) - 1) + 1 = Len(f)
    BY <1>1
  <2>2. QED
    BY <2>1 DEF IsFrame, EomAt
<1>3. ~Blank(f)
    BY <1>1, <1>2 DEF Blank
<1>4. PICK p \in 1..Len(f) : StartsAt(f, p)
    BY <1>3, OrderlyIs
<1>5. p # Len(f) /\ p # Len(f) - 1
    BY <1>2, <1>4 DEF StartsAt
<1>6. p \in 1..(Len(f) - 2)
  <2> DEFINE n == Len(f)
  <2>1. n \in Nat /\ n > 1 /\ p \in 1..n /\ p # n /\ p # n - 1
    BY <1>1, <1>5
  <2> HIDE DEF n
  <2>2. p \in 1..(n - 2)
    BY <2>1
  <2>3. QED
    BY <2>2 DEF n
<1>7. QED
    BY <1>4, <1>6

\* Every message of a stream is orderly.
AllOrderly(d) ==
    /\ Orderly(EomSplit(d).cur)
    /\ \A i \in 1..Len(EomSplit(d).frames) : Orderly(EomSplit(d).frames[i])

\* If they are once a token came, they were before.
LEMMA AllOrderlyBefore ==
    ASSUME NEW T, NEW d \in Seq(T), NEW e \in T, AllOrderly(Append(d, e))
    PROVE  AllOrderly(d)
<1> DEFINE s == EomSplit(d)
           r == EomSplit(Append(d, e))
           c == Append(s.cur, e)
<1>1. s \in Splits(T) /\ r = EomStep(s, e)
    BY EomSplitAppend
<1>2. s.cur \in Seq(T) /\ s.frames \in Seq(Seq(T)) /\ c \in Seq(T) /\ c = s.cur \o <<e>> /\ <<e>> \in Seq(T)
    BY <1>1 DEF Splits
<1>3. \/ r.frames = Append(s.frames, c)
      \/ r.frames = s.frames /\ r.cur = c
    BY <1>1 DEF EomStep, Splits
<1>4. Orderly(r.cur) /\ \A i \in 1..Len(r.frames) : Orderly(r.frames[i])
    BY DEF AllOrderly
<1> HIDE DEF s, r, c
<1>5. Orderly(c) => Orderly(s.cur)
    BY <1>2, OrderlyPrefix
<1>6. CASE r.frames = s.frames /\ r.cur = c
    BY <1>4, <1>5, <1>6 DEF AllOrderly, s
<1>7. CASE r.frames = Append(s.frames, c)
  <2>1. /\ Len(s.frames) \in Nat /\ Len(r.frames) = Len(s.frames) + 1
        /\ r.frames[Len(s.frames) + 1] = c
        /\ \A i \in 1..Len(s.frames) : r.frames[i] = s.frames[i]
    BY <1>2, <1>7, AppendProperties
  <2>2. Len(s.frames) + 1 \in 1..Len(r.frames) /\ 1..Len(s.frames) \subseteq 1..Len(r.frames)
    BY <2>1
  <2>3. QED
    BY <1>4, <1>5, <2>1, <2>2 DEF AllOrderly, s
<1>8. QED
    BY <1>3, <1>6, <1>7

\* The first message of an orderly stream, or what has come of it, is orderly.
LEMMA FirstOrderly ==
    ASSUME NEW T, NEW a \in Seq(T), NEW u \in Seq(T), AllOrderly(a \o u)
    PROVE  /\ NoEom(a) => Orderly(a)
           /\ IsFrame(a) => Orderly(a)
<1> DEFINE s == EomSplit(a \o u)
<1>1. a \o u \in Seq(T) /\ s \in Splits(T)
    BY ConcatProperties, EomSplitType
<1>2. s.frames \in Seq(Seq(T)) /\ s.cur \in Seq(T) /\ (s.frames # <<>> => 1 \in 1..Len(s.frames))
    BY <1>1 DEF Splits
<1>3. Orderly(s.cur) /\ \A i \in 1..Len(s.frames) : Orderly(s.frames[i])
    BY DEF AllOrderly
<1>4. ASSUME NoEom(a) PROVE Orderly(a)
  <2>1. IF s.frames = <<>> THEN s.cur = a \o u ELSE \E v \in Seq(T) : s.frames[1] = a \o v
    BY <1>4, EomSplitKeepsPartial
  <2> HIDE DEF s
  <2>2. QED
    BY <1>2, <1>3, <2>1, OrderlyPrefix
<1>5. ASSUME IsFrame(a) PROVE Orderly(a)
  <2>1. EomSplit(a) = [frames |-> <<a>>, cur |-> <<>>]
    BY <1>5, EomSplitOfFrame
  <2>2. EomSplit(a).cur = <<>> /\ EomSplit(a).frames = <<a>>
    BY <2>1
  <2>3. s = [frames |-> EomSplit(a).frames \o EomSplit(u).frames, cur |-> EomSplit(u).cur]
    BY <2>2, EomSplitConcat
  <2>4. s.frames = <<a>> \o EomSplit(u).frames
    BY <2>2, <2>3
  <2>5. EomSplit(u).frames \in Seq(Seq(T)) /\ <<a>> \in Seq(Seq(T)) /\ Len(<<a>>) = 1 /\ <<a>>[1] = a
    BY EomSplitType DEF Splits
  <2> HIDE DEF s
  <2>6. s.frames[1] = a /\ 1 \in 1..Len(s.frames)
    <3> DEFINE g == EomSplit(u).frames
               h == <<a>>
    <3>1. s.frames = h \o g /\ g \in Seq(Seq(T)) /\ h \in Seq(Seq(T)) /\ Len(h) = 1 /\ h[1] = a
      BY <2>4, <2>5
    <3> HIDE DEF g, h
    <3> DEFINE hg == h \o g
    <3>2. /\ Len(hg) = Len(h) + Len(g)
          /\ \A i \in 1..(Len(h) + Len(g)) : hg[i] = IF i <= Len(h) THEN h[i] ELSE g[i - Len(h)]
      BY <3>1, ConcatProperties, Zenon
    <3>3. Len(g) \in Nat
      BY <3>1, LenProperties
    <3> HIDE DEF hg
    <3>4. hg[1] = a /\ 1 \in 1..Len(hg)
      BY <3>1, <3>2, <3>3
    <3>5. QED
      BY <3>1, <3>4, Zenon DEF hg
  <2>7. QED
    BY <1>3, <2>6
<1>6. QED
    BY <1>4, <1>5

-----------------------------------------------------------------------------
\* What the elements of a sequence count for, in order.
Mapped(m, s) == [i \in DOMAIN s |-> m[s[i]]]

\* The mapped sequence has the length of the first, and what is appended to one
\* counts at the end of the other.
LEMMA MappedIs ==
    ASSUME NEW T, NEW m \in [T -> Int], NEW s \in Seq(T)
    PROVE  /\ Mapped(m, s) \in Seq(Int)
           /\ \A e \in T : Mapped(m, Append(s, e)) = Append(Mapped(m, s), m[e])
           /\ \A t \in Seq(T) : Mapped(m, s \o t) = Mapped(m, s) \o Mapped(m, t)
<1> DEFINE F(t) == Mapped(m, t)
<1>1. ASSUME NEW t \in Seq(T)
      PROVE  /\ F(t) \in Seq(Int) /\ Len(F(t)) = Len(t) /\ Len(t) \in Nat
             /\ \A i \in 1..Len(t) : F(t)[i] = m[t[i]] /\ t[i] \in T
  <2>1. DOMAIN t = 1..Len(t) /\ Len(t) \in Nat /\ \A i \in 1..Len(t) : t[i] \in T
    BY LenProperties
  <2>2. F(t) = [i \in 1..Len(t) |-> m[t[i]]]
    BY <2>1 DEF Mapped
  <2>3. \A i \in 1..Len(t) : m[t[i]] \in Int
    BY <2>1
  <2> HIDE DEF F
  <2>4. F(t) \in Seq(Int) /\ Len(F(t)) = Len(t)
    BY <2>1, <2>2, <2>3
  <2>5. QED
    BY <2>1, <2>2, <2>4
<1>2. ASSUME NEW e \in T PROVE F(Append(s, e)) = Append(F(s), m[e])
  <2> DEFINE r == Append(s, e)
             n == Len(s)
  <2>1. r \in Seq(T) /\ Len(r) = n + 1 /\ r[n + 1] = e /\ \A i \in 1..n : r[i] = s[i]
    BY AppendProperties
  <2>2. m[e] \in Int /\ F(s) \in Seq(Int) /\ Len(F(s)) = n /\ n \in Nat
    BY <1>1
  <2>3. /\ Append(F(s), m[e]) \in Seq(Int) /\ Len(Append(F(s), m[e])) = n + 1
        /\ Append(F(s), m[e])[n + 1] = m[e]
        /\ \A i \in 1..n : Append(F(s), m[e])[i] = F(s)[i]
    BY <2>2, AppendProperties
  <2>4. /\ F(r) \in Seq(Int) /\ Len(F(r)) = n + 1
        /\ \A i \in 1..(n + 1) : F(r)[i] = m[r[i]]
    BY <1>1, <2>1
  <2> DEFINE a == F(r)
             b == Append(F(s), m[e])
  <2>5. \A i \in 1..n : F(s)[i] = m[s[i]]
    BY <1>1
  <2> HIDE DEF F, r
  <2>6. ASSUME NEW i \in 1..(n + 1) PROVE a[i] = b[i]
    <3>1. CASE i \in 1..n
      BY <2>1, <2>3, <2>4, <2>5, <3>1
    <3>2. CASE i = n + 1
      BY <2>1, <2>3, <2>4, <3>2
    <3>3. QED
      BY <2>2, <3>1, <3>2
  <2>7. Len(a) = Len(b) /\ Len(a) = n + 1 /\ a \in Seq(Int) /\ b \in Seq(Int)
    BY <2>3, <2>4
  <2> HIDE DEF a, b
  <2>8. a = b
    BY <2>6, <2>7, SeqEqual
  <2>9. QED
    BY <2>8 DEF a, b, r
<1>3. ASSUME NEW t \in Seq(T) PROVE F(s \o t) = F(s) \o F(t)
  <2> DEFINE r == s \o t
             k == Len(s)
             n == Len(t)
             a == F(r)
             b == F(s) \o F(t)
  <2>1. /\ r \in Seq(T) /\ Len(r) = k + n
        /\ \A i \in 1..(k + n) : r[i] = IF i <= k THEN s[i] ELSE t[i - k]
    BY ConcatProperties
  <2>2. /\ F(s) \in Seq(Int) /\ F(t) \in Seq(Int) /\ Len(F(s)) = k /\ Len(F(t)) = n
        /\ k \in Nat /\ n \in Nat
        /\ \A i \in 1..k : F(s)[i] = m[s[i]]
        /\ \A i \in 1..n : F(t)[i] = m[t[i]]
    BY <1>1
  <2>3. /\ b \in Seq(Int) /\ Len(b) = k + n
        /\ \A i \in 1..(k + n) : b[i] = IF i <= k THEN F(s)[i] ELSE F(t)[i - k]
    <3> DEFINE x == F(s)
               y == F(t)
    <3>1. x \in Seq(Int) /\ y \in Seq(Int) /\ Len(x) = k /\ Len(y) = n
      BY <2>2
    <3> HIDE DEF x, y, k, n
    <3>2. /\ x \o y \in Seq(Int) /\ Len(x \o y) = Len(x) + Len(y)
          /\ \A i \in 1..(Len(x) + Len(y)) : (x \o y)[i] = IF i <= Len(x) THEN x[i] ELSE y[i - Len(x)]
      BY <3>1, ConcatProperties, Zenon
    <3>3. QED
      BY <3>1, <3>2, Zenon DEF x, y
  <2>4. a \in Seq(Int) /\ Len(a) = k + n /\ \A i \in 1..(k + n) : a[i] = m[r[i]]
    <3> HIDE DEF r, k, n
    <3> QED
      BY <1>1, <2>1
  <2> HIDE DEF F, r, k, n, a, b
  <2>5. ASSUME NEW i \in 1..(k + n) PROVE a[i] = b[i]
    <3>1. CASE i <= k
      <4>1. i \in 1..k
        BY <2>2, <3>1
      <4>2. r[i] = s[i] /\ b[i] = F(s)[i] /\ F(s)[i] = m[s[i]]
        BY <2>1, <2>2, <2>3, <3>1, <4>1
      <4>3. QED
        BY <2>4, <4>2
    <3>2. CASE ~(i <= k)
      <4>1. i - k \in 1..n
        BY <2>2, <3>2
      <4>2. r[i] = t[i - k] /\ b[i] = F(t)[i - k] /\ F(t)[i - k] = m[t[i - k]]
        BY <2>1, <2>2, <2>3, <3>2, <4>1
      <4>3. QED
        BY <2>4, <4>2
    <3>3. QED
      BY <3>1, <3>2
  <2>6. a = b
    BY <2>3, <2>4, <2>5, SeqEqual
  <2>7. QED
    BY <2>6 DEF a, b, r
<1>4. QED
  <2>1. F(s) \in Seq(Int)
    BY <1>1
  <2>2. QED
    BY <1>2, <1>3, <2>1

\* The total of what the elements count for.
LEMMA TotalOfMapped ==
    ASSUME NEW T, NEW m \in [T -> Int], NEW s \in Seq(T)
    PROVE  /\ Total(Mapped(m, s)) \in Int /\ Total(Mapped(m, <<>>)) = 0
           /\ \A e \in T : Total(Mapped(m, Append(s, e))) = Total(Mapped(m, s)) + m[e]
           /\ \A t \in Seq(T) : Total(Mapped(m, s \o t)) = Total(Mapped(m, s)) + Total(Mapped(m, t))
<1>1. Mapped(m, s) \in Seq(Int) /\ \A t \in Seq(T) : Mapped(m, t) \in Seq(Int)
    BY MappedIs
<1>2. Total(Mapped(m, s)) \in Int
    BY <1>1, TotalAppend
<1>3. Mapped(m, <<>>) = <<>>
    BY DEF Mapped
<1>4. ASSUME NEW e \in T PROVE Total(Mapped(m, Append(s, e))) = Total(Mapped(m, s)) + m[e]
  <2>1. m[e] \in Int /\ Mapped(m, Append(s, e)) = Append(Mapped(m, s), m[e])
    BY MappedIs
  <2>2. QED
    BY <1>1, <2>1, TotalAppend
<1>5. ASSUME NEW t \in Seq(T)
      PROVE  Total(Mapped(m, s \o t)) = Total(Mapped(m, s)) + Total(Mapped(m, t))
  <2>1. Mapped(m, s \o t) = Mapped(m, s) \o Mapped(m, t)
    BY MappedIs
  <2>2. QED
    BY <1>1, <2>1, TotalConcat, Zenon
<1>6. QED
    BY <1>2, <1>3, <1>4, <1>5, TotalConcat

-----------------------------------------------------------------------------
\* What is cut off the front and the rest make the whole.
LEMMA CutJoins ==
    ASSUME NEW T, NEW s \in Seq(T), NEW n \in 0..Len(s)
    PROVE  /\ SubSeq(s, 1, n) \in Seq(T) /\ SubSeq(s, n + 1, Len(s)) \in Seq(T)
           /\ SubSeq(s, 1, n) \o SubSeq(s, n + 1, Len(s)) = s
           /\ Len(SubSeq(s, n + 1, Len(s))) = Len(s) - n
<1>1. Len(s) \in Nat /\ n \in Nat /\ n + 1 \in Nat \ {0} /\ Len(s) \in 0..Len(s) /\ 1 \in Nat \ {0}
    OBVIOUS
<1>2. SubSeq(s, 1, n) \in Seq(T) /\ SubSeq(s, n + 1, Len(s)) \in Seq(T)
    BY <1>1, Cut
<1>3. Len(SubSeq(s, n + 1, Len(s))) = IF n + 1 <= Len(s) THEN Len(s) - (n + 1) + 1 ELSE 0
    BY <1>1, Cut
<1>4. Len(SubSeq(s, n + 1, Len(s))) = Len(s) - n
  <2> DEFINE k == Len(SubSeq(s, n + 1, Len(s)))
  <2> HIDE DEF k
  <2>1. k = IF n + 1 <= Len(s) THEN Len(s) - (n + 1) + 1 ELSE 0
    BY <1>3 DEF k
  <2>2. k = Len(s) - n
    BY <1>1, <2>1
  <2>3. QED
    BY <2>2 DEF k
<1>5. SubSeq(s, 1, n) \o SubSeq(s, n + 1, Len(s)) = s
  <2>1. 1 \in 1..(Len(s) + 1) /\ n \in (1 - 1)..Len(s) /\ Len(s) \in n..Len(s)
    BY <1>1
  <2>2. SubSeq(s, 1, n) \o SubSeq(s, n + 1, Len(s)) = SubSeq(s, 1, Len(s))
    BY <2>1, ConcatAdjacentSubSeq
  <2>3. SubSeq(s, 1, Len(s)) = s
    BY SubSeqFull
  <2>4. QED
    BY <2>2, <2>3
<1>6. QED
    BY <1>2, <1>4, <1>5

\* The head of one sequence, moved to the end of the one before it.
LEMMA HeadMoves ==
    ASSUME NEW T, NEW a \in Seq(T), NEW b \in Seq(T), b # <<>>
    PROVE  Append(a, Head(b)) \o Tail(b) = a \o b
<1>1. Head(b) \in T /\ Tail(b) \in Seq(T) /\ Len(b) \in Nat \ {0}
    BY HeadTailProperties, EmptySeq
<1>2. <<Head(b)>> \in Seq(T) /\ Append(a, Head(b)) = a \o <<Head(b)>>
    BY <1>1, AppendIsConcat
<1>3. b = <<Head(b)>> \o Tail(b)
  <2>1. 1 \in 1..Len(b) /\ Len(b) \in 1..Len(b)
    BY <1>1
  <2>2. SubSeq(b, 1, Len(b)) = <<b[1]>> \o SubSeq(b, 1 + 1, Len(b))
    BY <2>1, SubSeqRecursiveFirst
  <2>3. SubSeq(b, 1, Len(b)) = b /\ Tail(b) = SubSeq(b, 2, Len(b)) /\ Head(b) = b[1]
    BY SubSeqFull, TailIsSubSeq
  <2>4. QED
    BY <2>2, <2>3
<1>4. (a \o <<Head(b)>>) \o Tail(b) = a \o (<<Head(b)>> \o Tail(b))
    BY <1>1, <1>2, ConcatAssociative
<1>5. QED
    BY <1>2, <1>3, <1>4, Zenon

\* What is appended to the second of two sequences is appended to both.
LEMMA AppendAfter ==
    ASSUME NEW T, NEW a \in Seq(T), NEW b \in Seq(T), NEW e \in T
    PROVE  a \o Append(b, e) = Append(a \o b, e)
<1>1. /\ <<e>> \in Seq(T) /\ Append(b, e) = b \o <<e>> /\ a \o b \in Seq(T)
    BY AppendIsConcat, ConcatProperties
<1>2. Append(a \o b, e) = (a \o b) \o <<e>>
    BY <1>1, AppendIsConcat
<1>3. (a \o b) \o <<e>> = a \o (b \o <<e>>)
    BY <1>1, ConcatAssociative
<1>4. QED
    BY <1>1, <1>2, <1>3, Zenon

\* A sequence that is cut into two parts, appended one after the other.
LEMMA JoinAgain ==
    ASSUME NEW T, NEW a \in Seq(T), NEW x \in Seq(T), NEW n \in 0..Len(x)
    PROVE  (a \o SubSeq(x, 1, n)) \o SubSeq(x, n + 1, Len(x)) = a \o x
<1> DEFINE b == SubSeq(x, 1, n)
           c == SubSeq(x, n + 1, Len(x))
<1>1. b \in Seq(T) /\ c \in Seq(T) /\ b \o c = x
    BY CutJoins
<1> HIDE DEF b, c
<1>2. b \in Seq(T) /\ c \in Seq(T)
    BY <1>1
<1>3. (a \o b) \o c = a \o (b \o c)
    BY <1>2, ConcatAssociative
<1>4. (a \o b) \o c = a \o x
    BY <1>1, <1>3, Zenon
<1>5. QED
    BY <1>4 DEF b, c

\* What came out, popped or queued, and what is still in the buffer, end to end.
Stream(popped, queue, rx) == FlattenSeq(popped \o queue) \o rx

\* A cut of n tokens from the front of the buffer x: moved to the end of the queue it
\* keeps the stream, thrown away it makes it n shorter.
CutKept(d, q, x, n) ==
    /\ SubSeq(x, 1, n) \o SubSeq(x, n + 1, Len(x)) = x
    /\ Stream(d, Append(q, SubSeq(x, 1, n)), SubSeq(x, n + 1, Len(x))) = Stream(d, q, x)
    /\ Len(Stream(d, q, SubSeq(x, n + 1, Len(x)))) = Len(Stream(d, q, x)) - n

\* So does every cut, of any stream.
LEMMA FlattenCut ==
    ASSUME NEW T, NEW d \in Seq(Seq(T)), NEW q \in Seq(Seq(T)), NEW x \in Seq(T), NEW n \in 0..Len(x)
    PROVE  CutKept(d, q, x, n)
<1> DEFINE frame == SubSeq(x, 1, n)
           rest  == SubSeq(x, n + 1, Len(x))
           all   == FlattenSeq(d \o q)
           y     == FlattenSeq(d \o Append(q, frame))
<1>1. frame \in Seq(T) /\ rest \in Seq(T) /\ frame \o rest = x /\ Len(rest) = Len(x) - n
    BY CutJoins
<1>2. d \o q \in Seq(Seq(T))
    BY ConcatProperties
<1>3. all \in Seq(T)
    BY <1>2, FlattenAppend, <1>1
<1>4. (all \o frame) \o rest = all \o x
  <2> HIDE DEF all
  <2>1. QED
    BY <1>3, JoinAgain
<1> HIDE DEF frame, rest
<1>5. y = all \o frame
  <2>1. d \o Append(q, frame) = Append(d \o q, frame)
    <3>1. \A e \in Seq(T) : d \o Append(q, e) = Append(d \o q, e)
      BY AppendAfter
    <3>2. QED
      BY <1>1, <3>1, Zenon
  <2>2. FlattenSeq(Append(d \o q, frame)) = all \o frame
    BY <1>1, <1>2, FlattenAppend
  <2>3. QED
    BY <2>1, <2>2
<1> HIDE DEF all, y
<1>6. y \o rest = all \o x
    BY <1>4, <1>5, Zenon
<1>7. Len(all \o rest) = Len(all \o x) - n
  <2>1. Len(all \o rest) = Len(all) + Len(rest) /\ Len(all \o x) = Len(all) + Len(x)
    BY <1>1, <1>3, ConcatProperties
  <2>2. Len(all) \in Nat /\ Len(x) \in Nat /\ n \in Nat
    BY <1>3, LenProperties
  <2> DEFINE a == Len(all)
             b == Len(x)
             c == Len(rest)
             e == Len(all \o rest)
             f == Len(all \o x)
  <2>3. e = a + c /\ f = a + b /\ c = b - n /\ a \in Nat /\ b \in Nat
    BY <1>1, <2>1, <2>2
  <2> HIDE DEF a, b, c, e, f
  <2>4. e = f - n
    BY <2>2, <2>3
  <2>5. QED
    BY <2>4 DEF e, f
<1>8. QED
    BY <1>1, <1>6, <1>7 DEF frame, rest, all, y, Stream, CutKept

\* Concatenation is associative, as a predicate: easier to cite than an equation.
Regroups(a, b, c) == (a \o b) \o c = a \o (b \o c)

\* Sequences regroup.
LEMMA Regroup ==
    ASSUME NEW T, NEW a \in Seq(T), NEW b \in Seq(T), NEW c \in Seq(T)
    PROVE  Regroups(a, b, c)
BY ConcatAssociative DEF Regroups

\* A cut of n tokens from x, moved to the end of the frames d, leaves frames, x and
\* what follows it as they were end to end.
MovesOn(d, x, y, n) ==
    FlattenSeq(Append(d, SubSeq(x, 1, n))) \o (SubSeq(x, n + 1, Len(x)) \o y)
        = FlattenSeq(d) \o (x \o y)

\* Every cut does.
LEMMA CutMovesOn ==
    ASSUME NEW T, NEW d \in Seq(Seq(T)), NEW x \in Seq(T), NEW y \in Seq(T), NEW n \in 0..Len(x)
    PROVE  MovesOn(d, x, y, n)
<1> DEFINE b == SubSeq(x, 1, n)
           c == SubSeq(x, n + 1, Len(x))
           f == FlattenSeq(d)
           g == FlattenSeq(Append(d, b))
<1>1. b \in Seq(T) /\ c \in Seq(T) /\ b \o c = x
    BY CutJoins
<1>2. f \in Seq(T) /\ g = f \o b
    BY <1>1, FlattenAppend
<1> HIDE DEF b, c, f, g
<1>3. Regroups(f, b, c \o y)
  <2>1. f \in Seq(T) /\ b \in Seq(T) /\ c \o y \in Seq(T)
    BY <1>1, <1>2, ConcatProperties
  <2>2. QED
    BY <2>1, Regroup, Zenon
<1>4. Regroups(b, c, y)
    BY <1>1, Regroup, Zenon
<1>5. g \o (c \o y) = f \o (x \o y)
    BY <1>1, <1>2, <1>3, <1>4, Zenon DEF Regroups
<1>6. QED
    BY <1>5 DEF b, c, f, g, MovesOn

\* The first token that is not white space, if it is a start tag, is what the parser
\* looks for.
LEMMA BlankBefore ==
    ASSUME NEW T, NEW x \in Seq(T), NEW p \in 1..Len(x), Kind(x[p]) = "open",
           \A i \in 1..(p - 1) : Kind(x[i]) = "ws"
    PROVE  FindStart(x, 1) = p /\ Blank(SubSeq(x, 1, p - 1))
<1>1. Len(x) \in Nat /\ p \in Nat
    BY LenProperties
<1>2. FindStart(x, 1) = p
  <2> DEFINE q == FindKind(x, 1, "open")
  <2>1. \/ q = 0 /\ \A i \in 1..Len(x) : Kind(x[i]) # "open"
        \/ /\ q \in 1..Len(x) /\ Kind(x[q]) = "open"
           /\ \A i \in 1..(q - 1) : Kind(x[i]) # "open"
    BY FindKindIs
  <2> HIDE DEF q
  <2>2. q \in 1..Len(x) /\ Kind(x[q]) = "open" /\ \A i \in 1..(q - 1) : Kind(x[i]) # "open"
    BY <2>1
  <2>3. ~(q < p)
    BY <1>1, <2>2
  <2>4. ~(p < q)
    BY <1>1, <2>2
  <2>5. QED
    BY <1>1, <2>2, <2>3, <2>4 DEF q, FindStart
<1>3. Blank(SubSeq(x, 1, p - 1))
  <2>1. DOMAIN SubSeq(x, 1, p - 1) = 1..(p - 1) /\ \A i \in 1..(p - 1) : SubSeq(x, 1, p - 1)[i] = x[i]
    BY <1>1, SubSeqProperties
  <2>2. QED
    BY <2>1 DEF Blank
<1>4. QED
    BY <1>2, <1>3

\* The tokens of a sequence keep their place in what it is cut from.
LEMMA CutElements ==
    ASSUME NEW T, NEW x \in Seq(T), NEW n \in 0..Len(x)
    PROVE  Len(SubSeq(x, 1, n)) = n /\ \A i \in 1..n : SubSeq(x, 1, n)[i] = x[i]
BY LenProperties, SubSeqProperties

\* In an orderly stream the parser finds no orphan: what comes before the first start
\* tag of the buffer is white space.
LEMMA NoOrphan ==
    ASSUME NEW T, NEW x \in Seq(T), NEW u \in Seq(T), AllOrderly(x \o u), FindStart(x, 1) > 1
    PROVE  Blank(SubSeq(x, 1, FindStart(x, 1) - 1))
<1>1. Len(x) \in Nat
    BY LenProperties
<1> DEFINE q == FindStart(x, 1)
<1>2. q \in 1..Len(x) /\ Kind(x[q]) = "open" /\ q > 1
  <2>1. \/ q = 0
        \/ q \in 1..Len(x) /\ Kind(x[q]) = "open"
    BY FindKindIs DEF FindStart
  <2>2. QED
    BY <2>1
<1>3. CASE NoEom(x)
  <2>1. Orderly(x)
    BY <1>3, FirstOrderly
  <2> HIDE DEF q
  <2>2. CASE Blank(x)
    BY <1>2, <2>2 DEF Blank
  <2>3. ASSUME NEW p \in 1..Len(x), StartsAt(x, p)
        PROVE  Blank(SubSeq(x, 1, q - 1))
    <3>1. Kind(x[p]) = "open" /\ \A i \in 1..(p - 1) : Kind(x[i]) = "ws"
      BY <2>3 DEF StartsAt
    <3>2. FindStart(x, 1) = p /\ Blank(SubSeq(x, 1, p - 1))
      BY <3>1, BlankBefore
    <3>3. QED
      BY <3>2 DEF q
  <2>4. Blank(x) \/ \E p \in 1..Len(x) : StartsAt(x, p)
    BY <2>1, OrderlyIs
  <2>5. QED
    BY <2>2, <2>3, <2>4 DEF q
<1>4. CASE ~NoEom(x)
  <2> DEFINE e == FindEom(x)
             f == SubSeq(x, 1, e + 1)
             r == SubSeq(x, e + 2, Len(x))
  <2>1. e \in 1..(Len(x) - 1) /\ IsFrame(f)
    BY <1>4, FindEomIs
  <2>2. e + 1 \in 0..Len(x) /\ (e + 1) + 1 = e + 2
    BY <1>1, <2>1
  <2>3. f \in Seq(T) /\ r \in Seq(T) /\ f \o r = x
    BY <2>2, CutJoins
  <2>4. Len(f) = e + 1 /\ \A i \in 1..(e + 1) : f[i] = x[i]
    BY <2>2, CutElements
  <2> HIDE DEF f, r, e, q
  <2>5. Orderly(f)
    <3>1. Regroups(f, r, u)
      BY <2>3, Regroup, Zenon
    <3>2. r \o u \in Seq(T)
      BY <2>3, ConcatProperties
    <3>3. AllOrderly(f \o (r \o u))
      BY <2>3, <3>1, Zenon DEF Regroups
    <3>4. QED
      BY <2>1, <2>3, <3>2, <3>3, FirstOrderly
  <2>6. PICK p \in 1..(Len(f) - 2) : StartsAt(f, p)
    BY <2>1, <2>3, <2>5, OrderlyFrame
  <2>7. p \in 1..Len(x) /\ p \in 1..(e + 1) /\ \A i \in 1..(p - 1) : i \in 1..(e + 1)
    BY <1>1, <2>1, <2>4, <2>6
  <2>8. Kind(x[p]) = "open" /\ \A i \in 1..(p - 1) : Kind(x[i]) = "ws"
    BY <2>4, <2>6, <2>7 DEF StartsAt
  <2>9. FindStart(x, 1) = p /\ Blank(SubSeq(x, 1, p - 1))
    BY <2>7, <2>8, BlankBefore
  <2>10. QED
    BY <2>9 DEF q
<1>5. QED
    BY <1>3, <1>4

\* In an orderly stream a frame is never empty: something that is not white space comes
\* before its marker.
LEMMA NoEmptyFrame ==
    ASSUME NEW T, NEW x \in Seq(T), NEW u \in Seq(T), AllOrderly(x \o u), FindEom(x) # 0
    PROVE  ~Blank(SubSeq(x, 1, FindEom(x) - 1))
<1> DEFINE e == FindEom(x)
           f == SubSeq(x, 1, e + 1)
           r == SubSeq(x, e + 2, Len(x))
           b == SubSeq(x, 1, e - 1)
<1>1. e \in 1..(Len(x) - 1) /\ IsFrame(f) /\ Len(x) \in Nat
    BY FindEomIs, LenProperties
<1>2. e + 1 \in 0..Len(x) /\ (e + 1) + 1 = e + 2 /\ e - 1 \in 0..Len(x)
    BY <1>1
<1>3. f \in Seq(T) /\ r \in Seq(T) /\ f \o r = x
    BY <1>2, CutJoins
<1>4. Len(f) = e + 1 /\ \A i \in 1..(e + 1) : f[i] = x[i]
    BY <1>2, CutElements
<1>5. Len(b) = e - 1 /\ (\A i \in 1..(e - 1) : b[i] = x[i]) /\ b \in Seq(T)
    BY <1>2, CutElements, CutJoins
<1> HIDE DEF f, r, e, b
<1>6. Orderly(f)
  <2>1. Regroups(f, r, u)
    BY <1>3, Regroup, Zenon
  <2>2. r \o u \in Seq(T)
    BY <1>3, ConcatProperties
  <2>3. AllOrderly(f \o (r \o u))
    BY <1>3, <2>1, Zenon DEF Regroups
  <2>4. QED
    BY <1>1, <1>3, <2>2, <2>3, FirstOrderly
<1>7. PICK p \in 1..(Len(f) - 2) : StartsAt(f, p)
    BY <1>1, <1>3, <1>6, OrderlyFrame
<1>8. p \in 1..(e - 1) /\ p \in 1..(e + 1)
    BY <1>1, <1>4, <1>7
<1>9. Kind(b[p]) = "open"
    BY <1>4, <1>5, <1>7, <1>8 DEF StartsAt
<1>10. p \in DOMAIN b
    BY <1>5, <1>8, LenProperties
<1>11. QED
    BY <1>9, <1>10 DEF Blank, b, e

\* Nor does an orderly stream have a second start tag before the next marker.
LEMMA OneStart ==
    ASSUME NEW T, NEW x \in Seq(T), NEW u \in Seq(T), AllOrderly(x \o u), NoEom(x),
           FindStart(x, 1) # 0
    PROVE  \A k \in FindStart(x, 1)..Len(x) : FindStart(x, k + 1) = 0
<1>1. Len(x) \in Nat
    BY LenProperties
<1> DEFINE q == FindStart(x, 1)
<1>2. q \in 1..Len(x) /\ Kind(x[q]) = "open"
  <2>1. q = 0 \/ (q \in 1..Len(x) /\ Kind(x[q]) = "open")
    BY FindKindIs DEF FindStart
  <2>2. QED
    BY <2>1
<1>3. Orderly(x)
    BY FirstOrderly
<1>4. \A i \in (q + 1)..Len(x) : Kind(x[i]) # "open"
  <2>1. Blank(x) \/ \E p \in 1..Len(x) : StartsAt(x, p)
    BY <1>3, OrderlyIs
  <2>2. ~Blank(x)
    BY <1>2 DEF Blank
  <2>3. PICK p \in 1..Len(x) : StartsAt(x, p)
    BY <2>1, <2>2
  <2>4. q = p
    BY <2>3, OrderlyIs
  <2> HIDE DEF q
  <2>5. QED
    BY <2>3, <2>4 DEF StartsAt
<1> HIDE DEF q
<1>5. ASSUME NEW k \in q..Len(x) PROVE FindStart(x, k + 1) = 0
  <2> DEFINE r == FindKind(x, k + 1, "open")
  <2>1. k + 1 \in Nat \ {0} /\ \A i \in (k + 1)..Len(x) : i \in (q + 1)..Len(x)
    BY <1>1, <1>2
  <2>2. r = 0 \/ (r \in (k + 1)..Len(x) /\ Kind(x[r]) = "open")
    BY <2>1, FindKindIs
  <2> HIDE DEF r
  <2>3. r = 0
    BY <1>4, <2>1, <2>2
  <2>4. QED
    BY <2>3 DEF r, FindStart
<1>6. QED
    BY <1>5 DEF q

\* What is left of a sequence without a marker has none.
LEMMA NoEomAfterCut ==
    ASSUME NEW T, NEW x \in Seq(T), NoEom(x), NEW n \in 1..Len(x)
    PROVE  NoEom(SubSeq(x, n + 1, Len(x)))
<1> DEFINE y == SubSeq(x, n + 1, Len(x))
<1>1. Len(x) \in Nat /\ n \in Nat
    BY LenProperties
<1>2. Len(y) = Len(x) - n /\ \A i \in 1..(Len(x) - n) : y[i] = x[n + i]
    BY <1>1, SubSeqProperties
<1> HIDE DEF y
<1>3. ASSUME NEW i \in 1..(Len(y) - 1) PROVE ~EomAt(y, i)
  <2>1. i \in 1..(Len(x) - n) /\ i + 1 \in 1..(Len(x) - n) /\ n + i \in 1..(Len(x) - 1)
        /\ n + (i + 1) = (n + i) + 1
    BY <1>1, <1>2
  <2>2. y[i] = x[n + i] /\ y[i + 1] = x[(n + i) + 1]
    BY <1>2, <2>1
  <2>3. QED
    BY <2>1, <2>2 DEF NoEom, EomAt
<1>4. QED
    BY <1>3 DEF NoEom, y

\* Complete frames.
Whole(fs) == \A i \in 1..Len(fs) : IsFrame(fs[i])

\* What follows some frames of an orderly stream is orderly.
LEMMA RestOrderly ==
    ASSUME NEW T, NEW fs \in Seq(Seq(T)), NEW w \in Seq(T), Whole(fs),
           AllOrderly(FlattenSeq(fs) \o w)
    PROVE  AllOrderly(w)
<1> DEFINE a == EomSplit(FlattenSeq(fs) \o w)
           b == EomSplit(w)
<1>1. a.frames = fs \o b.frames /\ a.cur = b.cur
    BY EomSplitOfFrames DEF Whole
<1>2. b.frames \in Seq(Seq(T))
    BY EomSplitType DEF Splits
<1>3. Orderly(a.cur) /\ \A i \in 1..Len(a.frames) : Orderly(a.frames[i])
    BY DEF AllOrderly
<1> HIDE DEF a, b
<1>4. ASSUME NEW i \in 1..Len(b.frames) PROVE Orderly(b.frames[i])
  <2>1. Len(fs) \in Nat /\ Len(b.frames) \in Nat /\ Len(a.frames) = Len(fs) + Len(b.frames)
    BY <1>1, <1>2, ConcatProperties, LenProperties
  <2>2. Len(fs) + i \in 1..Len(a.frames)
    BY <2>1
  <2>3. a.frames[Len(fs) + i] = b.frames[i]
    BY <1>1, <1>2, <2>1, <2>2, ConcatProperties
  <2>4. QED
    BY <1>3, <2>2, <2>3
<1>5. QED
    BY <1>1, <1>3, <1>4 DEF AllOrderly, b

\* Frames at the front of a stream are the first it is cut into, and all when no
\* marker follows.
LEMMA FramesAreFirst ==
    ASSUME NEW T, NEW fs \in Seq(Seq(T)), NEW w \in Seq(T), Whole(fs)
    PROVE  /\ IsPrefix(fs, EomSplit(FlattenSeq(fs) \o w).frames)
           /\ NoEom(w) => EomSplit(FlattenSeq(fs) \o w).frames = fs
<1> DEFINE a == EomSplit(FlattenSeq(fs) \o w).frames
           b == EomSplit(w).frames
<1>1. a = fs \o b
    BY EomSplitOfFrames DEF Whole
<1>2. b \in Seq(Seq(T))
    BY EomSplitType DEF Splits
<1>3. NoEom(w) => b = <<>>
    BY EomSplitOfPartial
<1> HIDE DEF a, b
<1>4. NoEom(w) => a = fs
    BY <1>1, <1>3, ConcatEmptySeq
<1>5. IsPrefix(fs, a)
  <2>1. /\ Len(fs) \in Nat /\ Len(b) \in Nat /\ Len(a) = Len(fs) + Len(b)
        /\ a \in Seq(Seq(T)) /\ \A i \in 1..Len(fs) : a[i] = fs[i]
    BY <1>1, <1>2, ConcatProperties, LenProperties
  <2>2. Len(fs) <= Len(a) /\ Len(fs) \in 0..Len(a)
    BY <2>1
  <2>3. SubSeq(fs, 1, Len(fs)) = SubSeq(a, 1, Len(fs))
    <3>1. SubSeq(fs, 1, Len(fs)) = fs
      BY SubSeqFull
    <3> DEFINE c == SubSeq(a, 1, Len(fs))
    <3>2. c \in Seq(Seq(T)) /\ Len(c) = Len(fs) /\ \A i \in 1..Len(fs) : c[i] = a[i]
      BY <2>1, <2>2, CutElements, CutJoins
    <3> HIDE DEF c
    <3>3. c = fs
      BY <2>1, <3>2, SeqEqual
    <3>4. QED
      BY <3>1, <3>3 DEF c
  <2>4. QED
    BY <2>2, <2>3 DEF IsPrefix
<1>6. QED
    BY <1>4, <1>5 DEF a

\* A token at the end of the last part is at the end of the whole, and a part moves
\* into the empty place of the one before it.
Lengthens(f, x, b, w, t) == f \o (x \o (b \o Append(w, t))) = Append(f \o (x \o (b \o w)), t)
Rearranges(x, b, w) ==
    /\ x \o (w \o <<>>) = x \o (<<>> \o w)
    /\ (x \o b) \o (<<>> \o w) = x \o (b \o w)

\* Both hold of any parts of a stream.
LEMMA PartsMove ==
    ASSUME NEW T, NEW f \in Seq(T), NEW x \in Seq(T), NEW b \in Seq(T), NEW w \in Seq(T), NEW t \in T
    PROVE  Lengthens(f, x, b, w, t) /\ Rearranges(x, b, w)
<1>1. b \o w \in Seq(T) /\ x \o (b \o w) \in Seq(T) /\ <<>> \in Seq(T)
  <2>1. b \o w \in Seq(T)
    BY ConcatProperties
  <2>2. QED
    BY <2>1, ConcatProperties, EmptySeq
<1>2. b \o Append(w, t) = Append(b \o w, t)
    BY AppendAfter
<1> DEFINE z == b \o w
<1>3. z \in Seq(T) /\ x \o z \in Seq(T)
    BY <1>1
<1>4. Lengthens(f, x, b, w, t)
  <2> HIDE DEF z
  <2>1. x \o Append(z, t) = Append(x \o z, t)
    BY <1>3, AppendAfter
  <2> DEFINE y == x \o z
  <2>2. y \in Seq(T)
    BY <1>3
  <2> HIDE DEF y
  <2>3. f \o Append(y, t) = Append(f \o y, t)
    BY <2>2, AppendAfter
  <2>4. QED
    BY <1>2, <2>1, <2>3, Zenon DEF Lengthens, y, z
<1>5. Rearranges(x, b, w)
  <2>1. w \o <<>> = w /\ <<>> \o w = w
    BY ConcatEmptySeq
  <2>2. Regroups(x, b, w)
    BY Regroup, Zenon
  <2>3. QED
    BY <2>1, <2>2, Zenon DEF Regroups, Rearranges
<1>6. QED
    BY <1>4, <1>5

\* Of an empty whole every part is empty.
LEMMA EmptyParts ==
    ASSUME NEW T, NEW f \in Seq(T), NEW x \in Seq(T), NEW y \in Seq(T), f \o (x \o y) = <<>>
    PROVE  x = <<>>
<1>1. x \o y \in Seq(T) /\ Len(x \o y) = Len(x) + Len(y)
    BY ConcatProperties
<1> DEFINE z == x \o y
<1>2. z \in Seq(T)
    BY <1>1
<1> HIDE DEF z
<1>3. Len(f \o z) = Len(f) + Len(z) /\ Len(f \o z) = 0
    BY <1>2, ConcatProperties, EmptySeq DEF z
<1>4. Len(f) \in Nat /\ Len(x) \in Nat /\ Len(y) \in Nat /\ Len(z) = Len(x) + Len(y)
    BY <1>1, LenProperties DEF z
<1>5. Len(x) = 0
    BY <1>3, <1>4
<1>6. QED
    BY <1>5, EmptySeq

\* One more frame at the end of frames.
LEMMA WholeAppend ==
    ASSUME NEW T, NEW fs \in Seq(Seq(T)), NEW f \in Seq(T), Whole(fs), IsFrame(f)
    PROVE  Whole(Append(fs, f))
BY LenProperties, AppendProperties DEF Whole
=============================================================================
