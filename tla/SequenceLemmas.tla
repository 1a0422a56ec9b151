--------------------------- MODULE SequenceLemmas ---------------------------
(***************************************************************************)
(* Facts about numbers and sequences that several proofs rest on and the   *)
(* library does not state: induction over a set of numbers or sequences,   *)
(* and the ends of sequences.                                              *)
(***************************************************************************)
EXTENDS Integers, Sequences, SequencesExt, SequenceTheorems, WellFoundedInduction, TLAPS

(* A set of naturals that is not empty has a least member.                                 *)
LEMMA LeastNatural ==
  ASSUME NEW T, T \subseteq Nat, T # {}
  PROVE  \E m \in T : \A k \in T : m <= k
<1>1. PICK m \in T : \A k \in T : ~ (<<k, m>> \in OpToRel(<, Nat))
  BY NatLessThanWellFounded, WFMin
<1>2. \A k \in T : ~ (k < m)
  BY <1>1 DEF OpToRel
<1>3. m \in Nat /\ \A k \in T : k \in Nat
  BY <1>1
<1>4. \A k \in T : m <= k
  BY <1>2, <1>3
<1> QED
  BY <1>1, <1>4

(* What holds of 0 and goes up by one holds up to N.                                       *)
LEMMA Upward ==
  ASSUME NEW N \in Nat, NEW G, 0 \in G, \A n \in 0..(N - 1) : n \in G => n + 1 \in G
  PROVE  0..N \subseteq G
<1> DEFINE T == (0..N) \ G
<1>1. SUFFICES ASSUME T # {} PROVE FALSE
  OBVIOUS
<1>a. T \subseteq Nat
  OBVIOUS
<1> HIDE DEF T
<1>b. PICK m \in T : \A k \in T : ~ (<<k, m>> \in OpToRel(<, Nat))
  BY <1>1, <1>a, NatLessThanWellFounded, WFMin
<1>2. \A k \in T : ~ (k < m)
  BY <1>a, <1>b DEF OpToRel
<1> USE DEF T
<1>3. m \in 0..N /\ m # 0
  BY <1>1
<1>4. m - 1 \in 0..(N - 1) /\ m - 1 \in 0..N /\ m - 1 < m /\ (m - 1) + 1 = m
  BY <1>3
<1>5. m - 1 \in G
  BY <1>2, <1>4
<1>6. m \in G
  BY <1>4, <1>5
<1> QED
  BY <1>6

(* What holds of the empty sequence and is kept by an append holds of all sequences.       *)
LEMMA ByAppending ==
  ASSUME NEW T, NEW G, <<>> \in G, \A s \in Seq(T) : \A e \in T : s \in G => Append(s, e) \in G
  PROVE  Seq(T) \subseteq G
<1> SUFFICES ASSUME NEW N \in Nat
             PROVE  \A s \in Seq(T) : Len(s) = N => s \in G
  BY LenProperties
<1> DEFINE H == {n \in 0..N : \A s \in Seq(T) : Len(s) = n => s \in G}
<1>1. 0 \in H
  <2>1. ASSUME NEW s \in Seq(T), Len(s) = 0 PROVE s = <<>>
    BY <2>1, EmptySeq
  <2> QED
    BY <2>1
<1>2. ASSUME NEW n \in 0..(N - 1), n \in H PROVE n + 1 \in H
  <2> SUFFICES ASSUME NEW s \in Seq(T), Len(s) = n + 1 PROVE s \in G
    OBVIOUS
  <2>1. s # <<>>
    BY EmptySeq
  <2>2. PICK r \in Seq(T), e \in T : s = Append(r, e)
    BY <2>1, SequenceEmptyOrAppend
  <2>3. Len(r) = n
    BY <2>2, AppendProperties, LenProperties
  <2>4. r \in G
    BY <1>2, <2>3
  <2> QED
    BY <2>2, <2>4
<1> HIDE DEF H
<1>3. 0..N \subseteq H
  BY <1>1, <1>2, Upward
<1>4. N \in H
  BY <1>3
<1> QED
  BY <1>4 DEF H

(* An append to the end of a concatenation is one to its second part.                      *)
LEMMA AppendToConcat ==
  ASSUME NEW T, NEW s \in Seq(T), NEW t \in Seq(T), NEW e \in T
  PROVE  s \o Append(t, e) = Append(s \o t, e)
<1>1. <<e>> \in Seq(T) /\ s \o t \in Seq(T)
  BY ConcatProperties
<1>2. Append(t, e) = t \o <<e>> /\ Append(s \o t, e) = (s \o t) \o <<e>>
  BY <1>1, AppendIsConcat
<1> QED
  BY <1>1, <1>2, ConcatAssociative

(* A sequence is its head before its tail.                                                 *)
LEMMA HeadAndTail ==
  ASSUME NEW T, NEW s \in Seq(T), s # <<>>
  PROVE  /\ Head(s) \in T /\ Tail(s) \in Seq(T) /\ <<Head(s)>> \in Seq(T)
         /\ s = <<Head(s)>> \o Tail(s)
<1>1. /\ Head(s) \in T /\ Head(s) = s[1] /\ Tail(s) \in Seq(T) /\ Tail(s) = SubSeq(s, 2, Len(s))
      /\ Len(s) \in Nat \ {0}
  BY HeadTailProperties, TailIsSubSeq, EmptySeq
<1>2. 1 \in 1..Len(s) /\ Len(s) \in 1..Len(s)
  BY <1>1
<1>3. SubSeq(s, 1, Len(s)) = <<s[1]>> \o SubSeq(s, 2, Len(s))
  BY <1>2, SubSeqRecursiveFirst, 1 + 1 = 2
<1> QED
  BY <1>1, <1>3, SubSeqFull

(* A sequence falls into its first n elements and the others.                              *)
LEMMA SplitAt ==
  ASSUME NEW T, NEW s \in Seq(T), NEW n \in 0..Len(s)
  PROVE  /\ SubSeq(s, 1, n) \in Seq(T) /\ Len(SubSeq(s, 1, n)) = n
         /\ SubSeq(s, n + 1, Len(s)) \in Seq(T) /\ Len(SubSeq(s, n + 1, Len(s))) = Len(s) - n
         /\ s = SubSeq(s, 1, n) \o SubSeq(s, n + 1, Len(s))
<1> DEFINE N == Len(s)
           a == SubSeq(s, 1, n)
           b == SubSeq(s, n + 1, N)
<1>1. N \in Nat /\ n \in Nat /\ n <= N /\ (\A i \in 1..N : s[i] \in T) /\ n \in Int /\ n + 1 \in Int
      /\ N \in Int /\ 1 \in Int
  BY LenProperties, ElementOfSeq
<1>a. (\A i \in 1..n : s[i] \in T) /\ (\A i \in (n + 1)..N : s[i] \in T)
  BY <1>1
<1>2. a \in Seq(T) /\ Len(a) = IF 1 <= n THEN n - 1 + 1 ELSE 0
  BY <1>1, <1>a, SubSeqProperties
<1>3. b \in Seq(T) /\ Len(b) = IF n + 1 <= N THEN N - (n + 1) + 1 ELSE 0
  BY <1>1, <1>a, SubSeqProperties
<1>4. 1 \in 1..(N + 1) /\ n \in (1 - 1)..N /\ N \in n..N
  BY <1>1
<1>5. a \o b = SubSeq(s, 1, N)
  BY <1>4, ConcatAdjacentSubSeq
<1>6. SubSeq(s, 1, N) = s
  BY SubSeqFull
<1> HIDE DEF a, b
<1>7. Len(a) = n /\ Len(b) = N - n
  BY <1>1, <1>2, <1>3
<1> QED
  BY <1>2, <1>3, <1>5, <1>6, <1>7 DEF a, b

(* The ends of two decompositions of one sequence that are equally long are equal.         *)
LEMMA SameEnds ==
  ASSUME NEW T, NEW x \in Seq(T), NEW s \in Seq(T), NEW y \in Seq(T), NEW t \in Seq(T),
         x \o s = y \o t, Len(s) = Len(t)
  PROVE  s = t
<1>1. /\ Len(x) \in Nat /\ Len(y) \in Nat /\ Len(s) \in Nat
      /\ Len(x \o s) = Len(x) + Len(s) /\ Len(y \o t) = Len(y) + Len(t)
  BY LenProperties, ConcatProperties
<1>2. Len(x) = Len(y)
  BY <1>1
<1> DEFINE M == Len(x)
           N == Len(s)
           u == x \o s
<1>3. (\A i \in 1..(M + N) : u[i] = IF i <= M THEN x[i] ELSE s[i - M])
      /\ \A i \in 1..(M + N) : u[i] = IF i <= M THEN y[i] ELSE t[i - M]
  <2>1. \A i \in 1..(Len(y) + Len(t)) : (y \o t)[i] = IF i <= Len(y) THEN y[i] ELSE t[i - Len(y)]
    BY ConcatProperties
  <2>2. \A i \in 1..(Len(x) + Len(s)) : (x \o s)[i] = IF i <= Len(x) THEN x[i] ELSE s[i - Len(x)]
    BY ConcatProperties
  <2> QED
    BY <1>2, <2>1, <2>2
<1> HIDE DEF u
<1>4. ASSUME NEW i \in 1..Len(s) PROVE s[i] = t[i]
  <2>1. M + i \in 1..(M + N) /\ ~(M + i <= M) /\ (M + i) - M = i
    BY <1>1
  <2> QED
    BY <1>3, <2>1
<1> QED
  BY <1>4, SeqEqual

(* A prefix agrees with a sequence as far as it goes.                                      *)
LEMMA PrefixIs ==
  ASSUME NEW T, NEW s \in Seq(T), NEW t \in Seq(T),
         Len(s) <= Len(t), \A i \in 1..Len(s) : s[i] = t[i]
  PROVE  IsPrefix(s, t)
<1> DEFINE N == Len(s)
           u == SubSeq(s, 1, N)
           v == SubSeq(t, 1, N)
<1>1. /\ N \in Nat /\ Len(t) \in Nat /\ 1 \in Int /\ N \in Int
      /\ \A i \in 1..N : s[i] \in T /\ t[i] \in T /\ s[i] = t[i]
  BY LenProperties, ElementOfSeq
<1>2. u \in Seq(T) /\ Len(u) = (IF 1 <= N THEN N - 1 + 1 ELSE 0)
      /\ \A i \in 1..(N - 1 + 1) : u[i] = s[1 + i - 1]
  BY <1>1, SubSeqProperties
<1>3. v \in Seq(T) /\ Len(v) = (IF 1 <= N THEN N - 1 + 1 ELSE 0)
      /\ \A i \in 1..(N - 1 + 1) : v[i] = t[1 + i - 1]
  BY <1>1, SubSeqProperties
<1> HIDE DEF u, v
<1>4. Len(u) = N /\ Len(v) = N
  BY <1>1, <1>2, <1>3
<1>5. \A i \in 1..N : u[i] = v[i]
  <2>1. \A i \in 1..N : i \in 1..(N - 1 + 1) /\ 1 + i - 1 = i
    BY <1>1
  <2> QED
    BY <1>1, <1>2, <1>3, <2>1
<1>6. u = v
  BY <1>2, <1>3, <1>4, <1>5, SeqEqual
<1> QED
  BY <1>6 DEF IsPrefix, u, v

(* The reverse has the same elements, counted from the other end.                          *)
LEMMA ReverseFacts ==
  ASSUME NEW T, NEW s \in Seq(T)
  PROVE  /\ Reverse(s) \in Seq(T) /\ Len(Reverse(s)) = Len(s)
         /\ \A i \in 1..Len(s) : Reverse(s)[i] = s[(Len(s) - i) + 1]
<1> DEFINE N == Len(s)
<1>1. N \in Nat /\ \A i \in 1..N : s[i] \in T
  BY LenProperties, ElementOfSeq
<1>2. \A i \in 1..N : (N - i) + 1 \in 1..N
  BY <1>1
<1>3. Reverse(s) \in [1..N -> T] /\ \A i \in 1..N : Reverse(s)[i] = s[(N - i) + 1]
  BY <1>1, <1>2 DEF Reverse
<1>4. Seq(T) = UNION {[1..n -> T] : n \in Nat}
  BY SeqDef
<1>5. Reverse(s) \in Seq(T)
  BY <1>1, <1>3, <1>4
<1>6. Len(Reverse(s)) = N
  BY <1>1, <1>3, <1>5, LenProperties
<1> QED
  BY <1>3, <1>5, <1>6

(* The parts of a concatenation are a prefix and a suffix of it.                           *)
LEMMA PartIsPrefixAndSuffix ==
  ASSUME NEW T, NEW x \in Seq(T), NEW s \in Seq(T)
  PROVE  IsPrefix(x, x \o s) /\ IsSuffix(s, x \o s)
<1> DEFINE t == x \o s
           M == Len(x)
           N == Len(s)
<1>1. M \in Nat /\ N \in Nat /\ t \in Seq(T) /\ Len(t) = M + N
      /\ \A i \in 1..(M + N) : t[i] = IF i <= M THEN x[i] ELSE s[i - M]
  BY LenProperties, ConcatProperties
<1> HIDE DEF t
<1>2. IsPrefix(x, t)
  BY <1>1, PrefixIs
<1> DEFINE r == Reverse(s)
           q == Reverse(t)
<1>3. r \in Seq(T) /\ Len(r) = N /\ \A i \in 1..N : r[i] = s[(N - i) + 1]
  BY ReverseFacts
<1>4. q \in Seq(T) /\ Len(q) = M + N /\ \A i \in 1..(M + N) : q[i] = t[((M + N) - i) + 1]
  <2>1. q \in Seq(T) /\ Len(q) = Len(t) /\ \A i \in 1..Len(t) : q[i] = t[(Len(t) - i) + 1]
    BY <1>1, ReverseFacts
  <2> HIDE DEF q
  <2> QED
    BY <1>1, <2>1
<1>5. ASSUME NEW i \in 1..N PROVE r[i] = q[i]
  <2> DEFINE j == ((M + N) - i) + 1
  <2>1. i \in 1..(M + N) /\ j \in 1..(M + N) /\ ~(j <= M) /\ j - M = (N - i) + 1
    BY <1>1
  <2>2. q[i] = t[j] /\ t[j] = s[j - M]
    BY <1>1, <1>4, <2>1
  <2> QED
    BY <1>3, <2>1, <2>2
<1> HIDE DEF r, q, M, N
<1>6. Len(r) <= Len(q) /\ \A i \in 1..Len(r) : r[i] = q[i]
  BY <1>1, <1>3, <1>4, <1>5
<1>7. IsPrefix(r, q)
  BY <1>3, <1>4, <1>6, PrefixIs
<1> QED
  BY <1>2, <1>7 DEF IsSuffix, r, q, t

(* A sequence is a prefix and a suffix of itself.                                          *)
LEMMA EndsOfItself ==
  ASSUME NEW T, NEW s \in Seq(T) PROVE IsPrefix(s, s) /\ IsSuffix(s, s)
<1>1. <<>> \in Seq(T) /\ s \o <<>> = s /\ <<>> \o s = s
  BY EmptySeq, ConcatEmptySeq
<1> QED
  BY <1>1, PartIsPrefixAndSuffix

(* A function on 1..n is a sequence of n elements.                                         *)
LEMMA FunctionIsSeq ==
  ASSUME NEW T, NEW n \in Nat, NEW f \in [1..n -> T]
  PROVE  f \in Seq(T) /\ Len(f) = n
<1>1. Seq(T) = UNION {[1..m -> T] : m \in Nat}
  BY SeqDef
<1>2. f \in Seq(T)
  BY <1>1
<1> QED
  BY <1>2, LenProperties

(* The concatenation of a sequence of sequences is one over the same elements.             *)
LEMMA FlattenIsSeq ==
  ASSUME NEW T, NEW s \in Seq(Seq(T)) PROVE FlattenSeq(s) \in Seq(T)
<1> DEFINE N == Len(s)
           Upto(n, f) == /\ f \in [1..n -> Seq(T)]
                         /\ \A i \in 1..n : f[i] = IF i = 1 THEN s[i] ELSE f[i - 1] \o s[i]
           G == {n \in 0..N : \E f : Upto(n, f)}
           flatten[i \in 1..N] == IF i = 1 THEN s[i] ELSE flatten[i - 1] \o s[i]
<1>1. N \in Nat /\ \A i \in 1..N : s[i] \in Seq(T)
  BY LenProperties, ElementOfSeq
<1>2. Upto(0, [i \in 1..0 |-> s[i]])
  OBVIOUS
<1>3. ASSUME NEW n \in 0..(N - 1), NEW f, Upto(n, f) PROVE \E g : Upto(n + 1, g)
  <2> DEFINE m == n + 1
             last == IF m = 1 THEN s[m] ELSE f[n] \o s[m]
             g == [i \in 1..m |-> IF i = m THEN last ELSE f[i]]
  <2>1. n \in Nat /\ m \in 1..N /\ s[m] \in Seq(T) /\ (m # 1 => n \in 1..n) /\ m - 1 = n
    BY <1>1
  <2>2. m # 1 => f[n] \in Seq(T)
    BY <1>3, <2>1
  <2>3. last \in Seq(T)
    BY <2>1, <2>2, ConcatProperties
  <2> HIDE DEF last
  <2>4. g \in [1..m -> Seq(T)]
    BY <1>3, <2>1, <2>3
  <2>5. ASSUME NEW i \in 1..m PROVE g[i] = IF i = 1 THEN s[i] ELSE g[i - 1] \o s[i]
    <3>1. CASE i = m
      BY <2>1, <3>1 DEF last
    <3>2. CASE i \in 1..n
      <4>1. g[i] = f[i] /\ (i # 1 => g[i - 1] = f[i - 1])
        BY <2>1, <3>2
      <4>2. f[i] = IF i = 1 THEN s[i] ELSE f[i - 1] \o s[i]
        BY <1>3, <3>2
      <4> HIDE DEF g
      <4> QED
        BY <4>1, <4>2
    <3> QED
      BY <2>1, <3>1, <3>2
  <2> HIDE DEF g
  <2>6. Upto(m, g)
    BY <2>4, <2>5
  <2> QED
    BY <2>6
<1> HIDE DEF Upto
<1>4. 0 \in G
  BY <1>1, <1>2
<1>5. ASSUME NEW n \in 0..(N - 1), n \in G PROVE n + 1 \in G
  BY <1>1, <1>3, <1>5
<1> HIDE DEF G
<1>6. 0..N \subseteq G
  BY <1>1, <1>4, <1>5, Upward
<1>7. N \in G
  BY <1>1, <1>6
<1>8. PICK f : Upto(N, f)
  BY <1>7 DEF G
<1> USE DEF Upto
<1>9. flatten = CHOOSE g : g = [i \in 1..N |-> IF i = 1 THEN s[i] ELSE g[i - 1] \o s[i]]
  BY DEF flatten
<1> HIDE DEF flatten
<1>10. f = [i \in 1..N |-> IF i = 1 THEN s[i] ELSE f[i - 1] \o s[i]]
  BY <1>8
<1>11. flatten = [i \in 1..N |-> IF i = 1 THEN s[i] ELSE flatten[i - 1] \o s[i]]
  BY <1>9, <1>10
<1> DEFINE H == {n \in 0..N : n # 0 => flatten[n] = f[n]}
<1>12. 0 \in H
  BY <1>1
<1>13. ASSUME NEW n \in 0..(N - 1), n \in H PROVE n + 1 \in H
  <2> DEFINE m == n + 1
  <2>1. m \in 1..N /\ m \in 0..N /\ m - 1 = n /\ (m # 1 => n # 0)
    BY <1>1
  <2> HIDE DEF m
  <2>2. flatten[m] = IF m = 1 THEN s[m] ELSE flatten[m - 1] \o s[m]
    BY <1>11, <2>1
  <2>3. f[m] = IF m = 1 THEN s[m] ELSE f[m - 1] \o s[m]
    BY <1>8, <2>1
  <2>4. m # 1 => flatten[m - 1] = f[m - 1]
    BY <1>13, <2>1
  <2>5. flatten[m] = f[m]
    BY <2>2, <2>3, <2>4
  <2> QED
    BY <2>1, <2>5 DEF m
<1> HIDE DEF H
<1>14. 0..N \subseteq H
  BY <1>1, <1>12, <1>13, Upward
<1>15. CASE N = 0
  BY <1>1, <1>15, EmptySeq DEF FlattenSeq
<1>16. CASE N # 0
  <2>1. N \in 1..N /\ N \in H
    BY <1>1, <1>14, <1>16
  <2>2. FlattenSeq(s) = flatten[N]
    BY <1>16 DEF FlattenSeq, flatten
  <2>3. f[N] \in Seq(T)
    BY <1>8, <2>1
  <2> QED
    BY <2>1, <2>2, <2>3, <1>16 DEF H
<1> QED
  BY <1>15, <1>16
=============================================================================
