----------------------------- MODULE DataLemmas -----------------------------
(***************************************************************************)
(* The least number and induction, stated for sets (the theorems of the    *)
(* library state them for predicates given as operators), and what         *)
(* FlattenSeq makes of a sequence of sequences.                            *)
(***************************************************************************)
EXTENDS Integers, Sequences, SequencesExt, FiniteSetTheorems, SequenceTheorems, TLAPS

\* A set of numbers that is not empty has a least member: the intervals below
\* its members are finite sets, and one of them contains no other.
LEMMA LeastNumber ==
  ASSUME NEW S \in SUBSET Nat, S # {}
  PROVE  \E x \in S : \A y \in S : x <= y
<1> DEFINE Below(y) == 0..(y - 1)
<1>1. PICK n \in S : TRUE
  OBVIOUS
<1> DEFINE T == {Below(y) : y \in {z \in S : z <= n}}
<1>2. /\ IsFiniteSet(0..n)
      /\ IsWellFoundedOn(StrictSubsetOrdering(0..n), FiniteSubsetsOf(0..n))
  BY FS_Interval, FS_StrictSubsetOrderingWellFounded
<1>3. T \subseteq FiniteSubsetsOf(0..n)
  BY <1>2, FS_Subset DEF FiniteSubsetsOf
<1>4. T # {}
  BY <1>1
<1>5. PICK t \in T : \A v \in T : <<v, t>> \notin StrictSubsetOrdering(0..n)
  <2> HIDE DEF T
  <2> QED
    BY <1>2, <1>3, <1>4, WFMin
<1>6. PICK x \in S : x <= n /\ t = Below(x)
  BY <1>5
<1>7. ASSUME NEW y \in S, y < x PROVE FALSE
  <2>1. Below(y) \in T
    BY <1>6, <1>7
  <2>2. Below(y) \subseteq Below(x) /\ Below(y) # Below(x)
    <3>1. y \in Below(x) /\ y \notin Below(y)
      BY <1>7
    <3> QED
      BY <1>7, <3>1
  <2>3. <<Below(y), t>> \in StrictSubsetOrdering(0..n)
    BY <1>6, <2>2, <2>1, <1>3, <1>5 DEF StrictSubsetOrdering, FiniteSubsetsOf
  <2> QED
    BY <1>5, <2>1, <2>3
<1> QED
  BY <1>7

\* A set of numbers with the first of m..n that has with each of them the next
\* one as well has them all.
LEMMA UpFrom ==
  ASSUME NEW m \in Nat, NEW n \in Nat, NEW S, m \in S,
         \A k \in m..(n - 1) : k \in S => k + 1 \in S
  PROVE  m..n \subseteq S
<1> SUFFICES ASSUME (m..n) \ S # {} PROVE FALSE
  OBVIOUS
<1>1. PICK x \in (m..n) \ S : \A y \in (m..n) \ S : x <= y
  <2>1. (m..n) \ S \in SUBSET Nat
    OBVIOUS
  <2> QED
    BY <2>1, LeastNumber
<1>2. x # m /\ x - 1 \in m..(n - 1)
  BY <1>1
<1>3. x - 1 \in S
  BY <1>1, <1>2
<1> QED
  BY <1>1, <1>2, <1>3

----------------------------------------------------------------------------
(* Lemmas about sequences. *)

\* part[i] is the first i of the sequences s in a row.
InARow(part, s, n) ==
  /\ part[1] = s[1]
  /\ \A i \in 2..n : part[i] = part[i - 1] \o s[i]

\* FlattenSeq is the last of these.
LEMMA FlattenParts ==
  ASSUME NEW S, NEW n \in Nat \ {0}, NEW s \in [1..n -> Seq(S)]
  PROVE  \E part \in [1..n -> Seq(S)] :
           FlattenSeq(s) = part[n] /\ InARow(part, s, n)
<1> DEFINE OK(f, k) == /\ f \in [1..k -> Seq(S)]
                       /\ f[1] = s[1]
                       /\ \A i \in 2..k : f[i] = f[i - 1] \o s[i]
           G == {k \in 1..n : \E f : OK(f, k)}
<1>1. 1 \in G
  <2> DEFINE g == [i \in 1..1 |-> s[1]]
  <2>1. OK(g, 1)
    OBVIOUS
  <2> QED
    <3> HIDE DEF OK, g
    <3> QED
      BY <2>1
<1>2. ASSUME NEW k \in 1..(n - 1), k \in G PROVE k + 1 \in G
  <2>1. PICK f : OK(f, k)
    BY <1>2
  <2>2. PICK e \in Seq(S) : e = f[k] \o s[k + 1]
    <3>1. f[k] \in Seq(S) /\ s[k + 1] \in Seq(S)
      BY <2>1
    <3>2. f[k] \o s[k + 1] \in Seq(S)
      BY <3>1, ConcatProperties
    <3> QED
      BY <3>2
  <2> DEFINE g == [i \in 1..(k + 1) |-> IF i = k + 1 THEN e ELSE f[i]]
  <2>3. g \in [1..(k + 1) -> Seq(S)]
    BY <2>1
  <2>4. g[1] = s[1]
    BY <2>1
  <2>5. ASSUME NEW i \in 2..(k + 1) PROVE g[i] = g[i - 1] \o s[i]
    <3>1. i - 1 \in 1..k /\ g[i - 1] = f[i - 1]
      BY <2>5
    <3>2. CASE i = k + 1
      <4>1. i - 1 = k /\ g[i] = e
        BY <2>5, <3>2
      <4>2. g[i - 1] = f[k]
        BY <3>1, <4>1
      <4> QED
        BY <2>2, <3>2, <4>1, <4>2
    <3>3. CASE i # k + 1
      <4>1. g[i] = f[i] /\ i \in 2..k
        BY <2>5, <3>3
      <4> QED
        BY <2>1, <3>1, <4>1
    <3> QED
      BY <3>2, <3>3
  <2>6. OK(g, k + 1)
    BY <2>3, <2>4, <2>5
  <2> QED
    <3> HIDE DEF OK, g
    <3> QED
      BY <2>6
<1>3. n \in G
  <2> HIDE DEF G
  <2>1. 1..n \subseteq G
    BY <1>1, <1>2, UpFrom
  <2> QED
    BY <2>1
<1>4. PICK f : OK(f, n)
  BY <1>3
<1> DEFINE Body(g) == [i \in 1..Len(s) |-> IF i = 1 THEN s[i] ELSE g[i - 1] \o s[i]]
<1>5. Len(s) = n
  OBVIOUS
<1>6. f = Body(f)
  <2>1. ASSUME NEW i \in 1..n PROVE f[i] = IF i = 1 THEN s[i] ELSE f[i - 1] \o s[i]
    <3>1. CASE i = 1
      BY <1>4, <3>1
    <3>2. CASE i # 1
      <4>1. i \in 2..n
        BY <3>2
      <4> QED
        BY <1>4, <3>2, <4>1
    <3> QED
      BY <3>1, <3>2
  <2> QED
    BY <1>4, <1>5, <2>1
<1>7. PICK g : g = (CHOOSE h : h = Body(h))
  OBVIOUS
<1>8. g = Body(g)
  <2> HIDE DEF Body
  <2> QED
    BY <1>6, <1>7
<1>9. FlattenSeq(s) = g[n]
  BY <1>5, <1>7 DEF FlattenSeq
<1>10. \A i \in 1..n : g[i] = IF i = 1 THEN s[i] ELSE g[i - 1] \o s[i]
  BY <1>8, <1>5
<1> DEFINE Same == {k \in 1..n : g[k] = f[k]}
<1>11. 1 \in Same
  BY <1>4, <1>10
<1>12. ASSUME NEW k \in 1..(n - 1), k \in Same PROVE k + 1 \in Same
  <2>1. k + 1 \in 2..n /\ (k + 1) - 1 = k
    OBVIOUS
  <2>2. PICK j : j = k + 1
    OBVIOUS
  <2>3. j \in 1..n /\ j \in 2..n /\ j # 1 /\ j - 1 = k
    BY <2>2
  <2>4. g[j] = g[k] \o s[j] /\ f[j] = f[k] \o s[j]
    BY <1>4, <1>10, <2>3
  <2>5. g[k] = f[k]
    BY <1>12
  <2>6. g[j] = f[j]
    BY <2>4, <2>5
  <2> QED
    BY <2>2, <2>3, <2>6
<1>13. g[n] = f[n]
  <2>1. 1..n \subseteq Same
    <3> HIDE DEF Same
    <3> QED
      BY <1>11, <1>12, UpFrom
  <2> QED
    BY <2>1
<1> QED
  BY <1>4, <1>9, <1>13 DEF InARow

\* The sequences s stand in flat behind each other, s[k] from at[k] on.
Placed(at, flat, s, n) ==
  /\ at[1] = 1
  /\ Len(flat) = at[n + 1] - 1
  /\ \A k \in 1..(n + 1) : at[k] <= at[n + 1]
  /\ \A k \in 1..n :
       /\ at[k + 1] = at[k] + Len(s[k])
       /\ \A j \in 1..Len(s[k]) : flat[at[k] + j - 1] = s[k][j]

\* FlattenSeq puts each sequence where the one before it ends.
LEMMA Flattened ==
  ASSUME NEW S, NEW n \in Nat, NEW s \in [1..n -> Seq(S)]
  PROVE  /\ FlattenSeq(s) \in Seq(S)
         /\ \E at \in [1..(n + 1) -> Nat \ {0}] : Placed(at, FlattenSeq(s), s, n)
<1>1. CASE n = 0
  <2>1. s = <<>> /\ FlattenSeq(s) = <<>>
    <3>1. s = <<>> /\ Len(s) = 0
      BY <1>1
    <3> QED
      BY <3>1 DEF FlattenSeq
  <2> DEFINE at == [k \in 1..(n + 1) |-> 1]
  <2>2. /\ at \in [1..(n + 1) -> Nat \ {0}]
        /\ at[1] = 1 /\ at[n + 1] = 1
        /\ \A k \in 1..(n + 1) : at[k] = 1
    BY <1>1
  <2>3. FlattenSeq(s) \in Seq(S) /\ Len(FlattenSeq(s)) = 0
    BY <2>1, EmptySeq
  <2>4. 1..n = {}
    BY <1>1
  <2> HIDE DEF at
  <2> QED
    BY <2>2, <2>3, <2>4 DEF Placed
<1>2. CASE n # 0
  <2>1. n \in Nat \ {0}
    BY <1>2
  <2>2. PICK part \in [1..n -> Seq(S)] :
          FlattenSeq(s) = part[n] /\ InARow(part, s, n)
    BY <2>1, FlattenParts
  <2> DEFINE at == [k \in 1..(n + 1) |-> IF k = 1 THEN 1 ELSE Len(part[k - 1]) + 1]
  <2>3. \A k \in 1..n : Len(part[k]) \in Nat /\ part[k] \in Seq(S) /\ Len(s[k]) \in Nat /\ s[k] \in Seq(S)
    BY <2>2, LenProperties
  <2>4. /\ at \in [1..(n + 1) -> Nat \ {0}]
        /\ at[1] = 1
        /\ \A k \in 1..n : at[k + 1] = Len(part[k]) + 1
    <3>1. at[1] = 1
      BY <2>1
    <3>2. ASSUME NEW k \in 1..n PROVE at[k + 1] = Len(part[k]) + 1
      <4>1. k + 1 \in 1..(n + 1) /\ k + 1 # 1 /\ (k + 1) - 1 = k
        OBVIOUS
      <4> QED
        BY <4>1
    <3>3. ASSUME NEW k \in 1..(n + 1) PROVE at[k] \in Nat \ {0}
      <4>1. CASE k = 1
        BY <3>1, <4>1
      <4>2. CASE k # 1
        <5>1. k - 1 \in 1..n /\ at[k] = Len(part[k - 1]) + 1
          BY <4>2
        <5> QED
          BY <2>3, <5>1
      <4> QED
        BY <4>1, <4>2
    <3> QED
      BY <3>1, <3>2, <3>3
  <2> HIDE DEF at
  \* Each part goes on with the next sequence.
  <2>5. ASSUME NEW k \in 2..n
        PROVE  /\ k - 1 \in 1..n
               /\ Len(part[k]) = Len(part[k - 1]) + Len(s[k])
               /\ \A i \in 1..Len(part[k - 1]) : part[k][i] = part[k - 1][i]
               /\ \A j \in 1..Len(s[k]) : part[k][Len(part[k - 1]) + j] = s[k][j]
    <3>1. k - 1 \in 1..n /\ k \in 1..n
      BY <2>1
    <3>2. PICK a, b : a = part[k - 1] /\ b = s[k] /\ a \in Seq(S) /\ b \in Seq(S)
      BY <3>1, <2>3
    <3>3. part[k] = a \o b
      BY <2>2, <3>2 DEF InARow
    <3>4. /\ Len(a \o b) = Len(a) + Len(b)
          /\ \A i \in 1..(Len(a) + Len(b)) :
               (a \o b)[i] = IF i <= Len(a) THEN a[i] ELSE b[i - Len(a)]
      BY <3>2, ConcatProperties
    <3>5. Len(a) \in Nat /\ Len(b) \in Nat
      BY <3>2, LenProperties
    <3>6. PICK c : c = a \o b
      OBVIOUS
    <3>7. /\ Len(c) = Len(a) + Len(b)
          /\ \A i \in 1..Len(a) : c[i] = a[i]
          /\ \A j \in 1..Len(b) : c[Len(a) + j] = b[j]
      <4>1. \A i \in 1..(Len(a) + Len(b)) : c[i] = IF i <= Len(a) THEN a[i] ELSE b[i - Len(a)]
        BY <3>4, <3>6
      <4>2. Len(c) = Len(a) + Len(b)
        BY <3>4, <3>6
      <4>3. \A i \in 1..Len(a) : i \in 1..(Len(a) + Len(b)) /\ i <= Len(a)
        BY <3>5
      <4>4. \A j \in 1..Len(b) : /\ Len(a) + j \in 1..(Len(a) + Len(b))
                                 /\ ~(Len(a) + j <= Len(a))
                                 /\ (Len(a) + j) - Len(a) = j
        BY <3>5
      <4> QED
        BY <4>1, <4>2, <4>3, <4>4
    <3> QED
      BY <3>1, <3>2, <3>3, <3>6, <3>7
  \* What part m has stays where it is in the ones behind it.
  <2>6. ASSUME NEW m \in 1..n
        PROVE  /\ Len(part[m]) <= Len(part[n])
               /\ \A i \in 1..Len(part[m]) : part[n][i] = part[m][i]
    <3> DEFINE G == {k \in m..n : /\ Len(part[m]) <= Len(part[k])
                                  /\ \A i \in 1..Len(part[m]) : part[k][i] = part[m][i]}
    <3>1. m \in G
      BY <2>3
    <3>2. ASSUME NEW k \in m..(n - 1), k \in G PROVE k + 1 \in G
      <4>1. PICK q : q = k + 1
        OBVIOUS
      <4>2. q \in 2..n /\ q - 1 = k /\ k \in 1..n /\ q \in m..n
        BY <4>1
      <4>3. /\ Len(part[q]) = Len(part[k]) + Len(s[q])
            /\ \A i \in 1..Len(part[k]) : part[q][i] = part[k][i]
        BY <2>5, <4>2
      <4>4. Len(s[q]) \in Nat /\ Len(part[k]) \in Nat /\ Len(part[m]) \in Nat
        BY <2>3, <4>2
      <4>5. /\ Len(part[m]) <= Len(part[k])
            /\ \A i \in 1..Len(part[m]) : part[k][i] = part[m][i]
        BY <3>2
      <4>6. q \in G
        BY <4>2, <4>3, <4>4, <4>5
      <4> QED
        BY <4>1, <4>6
    <3>3. n \in G
      <4> HIDE DEF G
      <4>1. m \in Nat /\ n \in m..n
        OBVIOUS
      <4>2. m..n \subseteq G
        BY <4>1, <3>1, <3>2, UpFrom
      <4> QED
        BY <4>1, <4>2
    <3> QED
      BY <3>3
  <2>7. Len(FlattenSeq(s)) = at[n + 1] - 1
    BY <2>1, <2>2, <2>3, <2>4
  <2>8. \A k \in 1..(n + 1) : at[k] <= at[n + 1]
    <3>1. at[n + 1] = Len(part[n]) + 1 /\ Len(part[n]) \in Nat
      BY <2>1, <2>3, <2>4
    <3>2. ASSUME NEW k \in 1..n PROVE at[k + 1] <= at[n + 1]
      <4>1. at[k + 1] = Len(part[k]) + 1 /\ Len(part[k]) \in Nat /\ Len(part[k]) <= Len(part[n])
        BY <2>3, <2>4, <2>6
      <4> QED
        BY <3>1, <4>1
    <3>3. at[1] <= at[n + 1]
      BY <3>1, <2>4
    <3>4. \A k \in 1..(n + 1) : k = 1 \/ (k - 1 \in 1..n /\ (k - 1) + 1 = k)
      OBVIOUS
    <3> QED
      BY <3>2, <3>3, <3>4
  <2>9. ASSUME NEW k \in 1..n
        PROVE  /\ at[k + 1] = at[k] + Len(s[k])
               /\ \A j \in 1..Len(s[k]) : FlattenSeq(s)[at[k] + j - 1] = s[k][j]
    <3>1. CASE k = 1
      <4>1. at[k] = 1 /\ part[k] = s[k] /\ at[k + 1] = Len(part[k]) + 1
        BY <2>2, <2>4, <3>1 DEF InARow
      <4>2. \A j \in 1..Len(s[k]) : at[k] + j - 1 = j
        BY <4>1, <2>3
      <4> QED
        BY <4>1, <4>2, <2>2, <2>3, <2>6
    <3>2. CASE k # 1
      <4>1. k \in 2..n /\ k - 1 \in 1..n /\ (k - 1) + 1 = k
        BY <3>2
      <4>2. at[k] = Len(part[k - 1]) + 1
        BY <2>4, <4>1
      <4>3. at[k + 1] = Len(part[k]) + 1
        BY <2>4
      <4>4. /\ Len(part[k]) = Len(part[k - 1]) + Len(s[k])
            /\ \A j \in 1..Len(s[k]) : part[k][Len(part[k - 1]) + j] = s[k][j]
        BY <2>5, <4>1
      <4>5. Len(part[k - 1]) \in Nat /\ Len(s[k]) \in Nat /\ Len(part[k]) \in Nat
        BY <2>3, <4>1
      <4>6. \A j \in 1..Len(s[k]) : at[k] + j - 1 = Len(part[k - 1]) + j /\ Len(part[k - 1]) + j \in 1..Len(part[k])
        BY <4>2, <4>4, <4>5
      <4>7. \A j \in 1..Len(s[k]) : part[n][Len(part[k - 1]) + j] = s[k][j]
        BY <4>4, <4>6, <2>6
      <4> QED
        BY <4>2, <4>3, <4>4, <4>5, <4>6, <4>7, <2>2
    <3> QED
      BY <3>1, <3>2
  <2>10. FlattenSeq(s) \in Seq(S)
    BY <2>1, <2>2, <2>3
  <2> QED
    BY <2>4, <2>7, <2>8, <2>9, <2>10 DEF Placed
<1> QED
  BY <1>1, <1>2
=============================================================================
