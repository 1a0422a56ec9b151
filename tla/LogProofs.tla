------------------------------ MODULE LogProofs ------------------------------
(***************************************************************************)
(* The log store and the run of a command before it, for every set of      *)
(* processes, every capacity, limit and bound.                             *)
(*                                                                         *)
(* The sums of the account (SizeOf over a buffer, Held over the buffers)   *)
(* and the selection of rows (Keeping) are recursive functions; what they  *)
(* do when a line comes or goes is shown by induction on the set of        *)
(* numbers, or of sequences, for which it holds (Upward and ByAppending of *)
(* SequenceLemmas).                                                        *)
(*                                                                         *)
(* On IInv, the invariant of the feed and of the account, stand two more:  *)
(* EachOnce (no line is in two places), for what retention takes, and      *)
(* SameStory, for what memory and database tell of a process.  The last    *)
(* part, RunInv, is about TaskRun and uses nothing of them.                *)
(***************************************************************************)
EXTENDS LogStore, TaskRun, SequenceLemmas, FiniteSetTheorems

-----------------------------------------------------------------------------
(* Lines. *)
LEMMA LineFields ==
  ASSUME NEW l \in LineSet
  PROVE  l.process \in Processes /\ l.stamp \in 1..MaxMade /\ l.size \in 1..2
BY DEF LineSet, Line

(* A line that Line makes is one of LineSet, with its stamp and its size.              *)
LEMMA LineIsALine ==
  ASSUME NEW p \in Processes, NEW s \in 1..MaxMade, NEW n \in 1..2
  PROVE  Line(p, s, n) \in LineSet /\ Line(p, s, n).stamp = s /\ Line(p, s, n).size = n
BY DEF LineSet, Line

-----------------------------------------------------------------------------
(* f has at n the size of the first n lines of s. *)
Adds(s, f) ==
  /\ f \in [0..Len(s) -> Nat]
  /\ f[0] = 0
  /\ \A n \in 1..Len(s) : f[n] = f[n - 1] + s[n].size

(* Every sequence of lines has a function of its partial sums.                         *)
LEMMA AddsExists ==
  ASSUME NEW s \in Seq(LineSet) PROVE \E f : Adds(s, f)
<1> DEFINE N == Len(s)
           Upto(n, f) == /\ f \in [0..n -> Nat] /\ f[0] = 0
                         /\ \A i \in 1..n : f[i] = f[i - 1] + s[i].size
           G == {n \in 0..N : \E f : Upto(n, f)}
<1>1. N \in Nat /\ \A i \in 1..N : s[i].size \in Nat
  BY LenProperties, ElementOfSeq, LineFields
<1>2. Upto(0, [i \in 0..0 |-> 0])
  OBVIOUS
<1>3. ASSUME NEW n \in 0..(N - 1), NEW f, Upto(n, f) PROVE \E g : Upto(n + 1, g)
  <2> DEFINE g == [i \in 0..(n + 1) |-> IF i = n + 1 THEN f[n] + s[n + 1].size ELSE f[i]]
  <2>2. n \in Nat /\ n + 1 \in 1..N /\ f[n] \in Nat
    BY <1>1, <1>3
  <2>3. g \in [0..(n + 1) -> Nat] /\ g[0] = 0
    BY <1>1, <1>3, <2>2
  <2>4. ASSUME NEW i \in 1..(n + 1) PROVE g[i] = g[i - 1] + s[i].size
    BY <1>3, <2>2
  <2> QED
    BY <2>3, <2>4
<1> HIDE DEF Upto
<1>4. 0 \in G
  BY <1>1, <1>2
<1>5. ASSUME NEW n \in 0..(N - 1), n \in G PROVE n + 1 \in G
  BY <1>1, <1>3, <1>5
<1> HIDE DEF G
<1>6. 0..N \subseteq G
  BY <1>1, <1>4, <1>5, Upward
<1>7. N \in G
  BY <1>1, <1>6
<1> USE DEF G, Upto
<1> QED
  BY <1>7 DEF Adds

(* SizeOf is the last of the partial sums.                                             *)
LEMMA SizeIsSum ==
  ASSUME NEW s \in Seq(LineSet), NEW f, Adds(s, f)
  PROVE  SizeOf(s) = f[Len(s)] /\ SizeOf(s) \in Nat
<1> DEFINE N == Len(s)
           first[n \in 0..N] == IF n = 0 THEN 0 ELSE first[n - 1] + s[n].size
           G == {n \in 0..N : first[n] = f[n]}
<1>1. SizeOf(s) = first[N]
  BY DEF SizeOf
<1>2. first = CHOOSE g : g = [n \in 0..N |-> IF n = 0 THEN 0 ELSE g[n - 1] + s[n].size]
  BY DEF first
<1> HIDE DEF first
<1>3. N \in Nat
  BY LenProperties
<1>4. f = [n \in 0..N |-> IF n = 0 THEN 0 ELSE f[n - 1] + s[n].size]
  <2>1. ASSUME NEW n \in 0..N PROVE f[n] = IF n = 0 THEN 0 ELSE f[n - 1] + s[n].size
    BY <1>3 DEF Adds
  <2> QED
    BY <2>1 DEF Adds
<1>5. first = [n \in 0..N |-> IF n = 0 THEN 0 ELSE first[n - 1] + s[n].size]
  BY <1>2, <1>4
<1>6. 0 \in G
  BY <1>3, <1>5 DEF Adds
<1>7. ASSUME NEW n \in 0..(N - 1), n \in G PROVE n + 1 \in G
  <2>1. n + 1 \in 1..N /\ (n + 1) - 1 = n /\ n + 1 # 0 /\ first[n] = f[n]
    BY <1>3, <1>7
  <2>2. first[n + 1] = first[n] + s[n + 1].size
    BY <1>3, <1>5, <2>1
  <2> QED
    BY <1>3, <2>1, <2>2 DEF Adds
<1> HIDE DEF G
<1>a. 0..N \subseteq G
  BY <1>3, <1>6, <1>7, Upward
<1>8. N \in G
  BY <1>3, <1>a
<1> USE DEF G
<1> QED
  BY <1>1, <1>3, <1>8 DEF Adds

(* The size of a buffer: of none, of one line more, of one line less. *)
LEMMA SizeOfEmpty == SizeOf(<<>>) = 0
<1>1. <<>> \in Seq(LineSet) /\ Len(<<>>) = 0
  BY EmptySeq
<1>2. Adds(<<>>, [n \in 0..0 |-> 0])
  BY <1>1 DEF Adds
<1> QED
  BY <1>1, <1>2, SizeIsSum

(* An appended line adds its size (a line goes into a buffer).                         *)
LEMMA SizeOfAppend ==
  ASSUME NEW s \in Seq(LineSet), NEW l \in LineSet
  PROVE  SizeOf(Append(s, l)) = SizeOf(s) + l.size
<1> DEFINE N == Len(s)
           t == Append(s, l)
<1>1. PICK f : Adds(s, f)
  BY AddsExists
<1> DEFINE g == [n \in 0..(N + 1) |-> IF n = N + 1 THEN f[N] + l.size ELSE f[n]]
<1>2. /\ N \in Nat /\ t \in Seq(LineSet) /\ Len(t) = N + 1 /\ t[N + 1] = l
      /\ \A i \in 1..N : t[i] = s[i]
  BY LenProperties, AppendProperties
<1>3. l.size \in Nat /\ f[N] \in Nat
  BY <1>1, <1>2, LineFields DEF Adds
<1>4. Adds(t, g)
  <2>1. g \in [0..(N + 1) -> Nat] /\ g[0] = 0
    BY <1>1, <1>2, <1>3 DEF Adds
  <2>2. ASSUME NEW n \in 1..(N + 1) PROVE g[n] = g[n - 1] + t[n].size
    <3>1. CASE n = N + 1
      BY <1>2, <1>3, <3>1
    <3>2. CASE n \in 1..N
      BY <1>1, <1>2, <3>2 DEF Adds
    <3> QED
      BY <1>2, <3>1, <3>2
  <2> HIDE DEF g, t
  <2> QED
    BY <1>2, <2>1, <2>2 DEF Adds
<1>5. SizeOf(t) = g[N + 1]
  BY <1>2, <1>4, SizeIsSum
<1>6. SizeOf(s) = f[N]
  BY <1>1, SizeIsSum
<1> QED
  BY <1>2, <1>5, <1>6

(* The head takes its size along (a line leaves a buffer).                             *)
LEMMA SizeOfTail ==
  ASSUME NEW s \in Seq(LineSet), s # <<>>
  PROVE  SizeOf(Tail(s)) = SizeOf(s) - Head(s).size
<1> DEFINE N == Len(s)
           t == Tail(s)
<1>1. PICK f : Adds(s, f)
  BY AddsExists
<1>2. PICK h : Adds(t, h)
  BY AddsExists, HeadTailProperties
<1>3. /\ N \in Nat /\ N >= 1 /\ t \in Seq(LineSet) /\ Len(t) = N - 1
      /\ \A i \in 1..(N - 1) : t[i] = s[i + 1]
      /\ Head(s) = s[1] /\ s[1].size \in Nat
  BY LenProperties, EmptySeq, HeadTailProperties, ElementOfSeq, LineFields
<1> DEFINE G == {n \in 0..(N - 1) : h[n] = f[n + 1] - s[1].size}
<1> HIDE DEF t
<1>4. 0 \in G
  BY <1>1, <1>2, <1>3 DEF Adds
<1>5. ASSUME NEW n \in 0..((N - 1) - 1), n \in G PROVE n + 1 \in G
  <2>1. n + 1 \in 1..(N - 1) /\ n + 2 \in 1..N /\ (n + 1) - 1 = n /\ (n + 2) - 1 = n + 1
    BY <1>3
  <2>2. h[n + 1] = h[n] + t[n + 1].size /\ f[n + 2] = f[n + 1] + s[n + 2].size
    BY <1>1, <1>2, <1>3, <2>1 DEF Adds
  <2>3. t[n + 1] = s[n + 2] /\ s[n + 2].size \in Nat /\ f[n + 1] \in Nat
    <3>1. t[n + 1] = s[(n + 1) + 1] /\ (n + 1) + 1 = n + 2
      BY <1>3, <2>1
    <3>2. s[n + 2] \in LineSet
      BY <2>1, ElementOfSeq
    <3>3. n + 1 \in 0..N
      BY <1>3, <2>1
    <3> QED
      BY <1>1, <3>1, <3>2, <3>3, LineFields, SMTT(30) DEF Adds
  <2>4. h[n] = f[n + 1] - s[1].size
    BY <1>5
  <2>5. h[n + 1] = f[(n + 1) + 1] - s[1].size
    BY <1>3, <2>2, <2>3, <2>4
  <2> QED
    BY <1>3, <2>1, <2>5
<1> HIDE DEF G
<1>a. 0..(N - 1) \subseteq G
  <2>1. N - 1 \in Nat
    BY <1>3
  <2> QED
    BY <1>4, <1>5, <2>1, Upward
<1>6. N - 1 \in G
  BY <1>3, <1>a
<1> USE DEF G
<1>7. SizeOf(s) = f[N] /\ SizeOf(t) = h[N - 1]
  BY <1>1, <1>2, <1>3, SizeIsSum
<1> QED
  BY <1>3, <1>6, <1>7 DEF t

-----------------------------------------------------------------------------
(* f has at T the sum of the weights w of the processes in T. *)
OneOf(T) == CHOOSE q \in T : TRUE

Weighs(w, f) ==
  /\ f[{}] = 0
  /\ \A T \in (SUBSET Processes) \ {{}} : f[T] = f[T \ {OneOf(T)}] + w[OneOf(T)]

(* The member picked from a set is one of it.                                          *)
LEMMA OneOfIsOne == ASSUME NEW T, T # {} PROVE OneOf(T) \in T
BY DEF OneOf

\* The sets of at most n processes, and what taking one away makes of them.
Small(n) == {T \in SUBSET Processes : Cardinality(T) <= n}

(* What sums over the processes recurse over: sets of processes by their size.         *)
LEMMA SmallFacts ==
  /\ Cardinality(Processes) \in Nat /\ SUBSET Processes = Small(Cardinality(Processes))
  /\ Small(0) = {{}}
  /\ \A n \in Nat : \A T \in Small(n + 1) : T # {} => T \ {OneOf(T)} \in Small(n)
  /\ \A n \in Nat : {} \in Small(n) /\ Small(n) \subseteq Small(n + 1)
<1>1. IsFiniteSet(Processes)
  BY LogStoreAssumption
<1>2. \A T \in SUBSET Processes :
        IsFiniteSet(T) /\ Cardinality(T) \in Nat /\ Cardinality(T) <= Cardinality(Processes)
  BY <1>1, FS_Subset, FS_CardinalityType
<1>3. Cardinality(Processes) \in Nat
  BY <1>1, FS_CardinalityType
<1>4. Cardinality({}) = 0 /\ \A T \in SUBSET Processes : Cardinality(T) = 0 <=> T = {}
  BY <1>2, FS_EmptySet
<1>5. ASSUME NEW n \in Nat, NEW T \in Small(n + 1), T # {}
      PROVE  T \ {OneOf(T)} \in Small(n)
  <2>1. T \in SUBSET Processes /\ Cardinality(T) <= n + 1 /\ OneOf(T) \in T
    BY <1>5, OneOfIsOne DEF Small
  <2>2. Cardinality(T \ {OneOf(T)}) = Cardinality(T) - 1
    BY <1>2, <2>1, FS_RemoveElement
  <2>3. Cardinality(T) \in Nat
    BY <1>2, <2>1
  <2> QED
    BY <2>1, <2>2, <2>3 DEF Small
<1>6. ASSUME NEW n \in Nat PROVE {} \in Small(n) /\ Small(n) \subseteq Small(n + 1)
  BY <1>2, <1>4 DEF Small
<1>7. Small(0) = {{}}
  <2>1. \A T \in SUBSET Processes : Cardinality(T) <= 0 <=> T = {}
    BY <1>2, <1>4
  <2> QED
    BY <2>1 DEF Small
<1>8. SUBSET Processes = Small(Cardinality(Processes))
  BY <1>2 DEF Small
<1> QED
  BY <1>3, <1>5, <1>6, <1>7, <1>8

(* Every weighing of the processes has a function of its sums over sets.               *)
LEMMA WeighsExists ==
  ASSUME NEW w \in [Processes -> Nat]
  PROVE  \E f : Weighs(w, f) /\ f \in [SUBSET Processes -> Nat]
<1> DEFINE N == Cardinality(Processes)
           Upto(n, f) == /\ f \in [Small(n) -> Nat] /\ f[{}] = 0
                         /\ \A T \in Small(n) \ {{}} : f[T] = f[T \ {OneOf(T)}] + w[OneOf(T)]
           G == {n \in 0..N : \E f : Upto(n, f)}
<1>1. N \in Nat
  BY SmallFacts
<1>2. Upto(0, [T \in Small(0) |-> 0])
  BY SmallFacts
<1>3. ASSUME NEW n \in 0..(N - 1), NEW f, Upto(n, f) PROVE \E g : Upto(n + 1, g)
  <2> DEFINE g == [T \in Small(n + 1) |->
                     IF T \in Small(n) THEN f[T] ELSE f[T \ {OneOf(T)}] + w[OneOf(T)]]
  <2>1. n \in Nat
    BY <1>1
  <2>2. ASSUME NEW T \in Small(n + 1), T # {}
        PROVE  w[OneOf(T)] \in Nat /\ T \ {OneOf(T)} \in Small(n) /\ T \ {OneOf(T)} \in Small(n + 1)
    <3>1. OneOf(T) \in Processes
      BY <2>2, OneOfIsOne DEF Small
    <3> QED
      BY <2>1, <2>2, <3>1, SmallFacts
  <2>3. {} \in Small(n) /\ {} \in Small(n + 1)
    BY <2>1, SmallFacts
  <2>4. g \in [Small(n + 1) -> Nat]
    <3>1. ASSUME NEW T \in Small(n + 1), T \notin Small(n)
          PROVE  f[T \ {OneOf(T)}] + w[OneOf(T)] \in Nat
      <4>1. T # {} /\ f \in [Small(n) -> Nat]
        BY <1>3, <2>3, <3>1
      <4>2. T \ {OneOf(T)} \in Small(n) /\ w[OneOf(T)] \in Nat
        BY <2>2, <4>1
      <4>3. f[T \ {OneOf(T)}] \in Nat
        BY <4>1, <4>2
      <4> QED
        BY <4>2, <4>3
    <3> QED
      BY <1>3, <3>1
  <2>5. g[{}] = 0
    BY <1>3, <2>3
  <2>6. ASSUME NEW T \in Small(n + 1) \ {{}} PROVE g[T] = g[T \ {OneOf(T)}] + w[OneOf(T)]
    <3>1. g[T \ {OneOf(T)}] = f[T \ {OneOf(T)}]
      BY <2>2
    <3> QED
      BY <1>3, <3>1
  <2> QED
    BY <2>4, <2>5, <2>6
<1> HIDE DEF Upto
<1>4. 0 \in G
  BY <1>1, <1>2
<1>5. ASSUME NEW n \in 0..(N - 1), n \in G PROVE n + 1 \in G
  BY <1>1, <1>3, <1>5
<1> HIDE DEF G
<1>6. 0..N \subseteq G
  BY <1>1, <1>4, <1>5, Upward
<1>7. N \in G
  BY <1>1, <1>6
<1> USE DEF G
<1>8. PICK f : Upto(N, f)
  BY <1>7
<1>9. f \in [SUBSET Processes -> Nat]
  BY <1>8, SmallFacts DEF Upto
<1>10. Weighs(w, f)
  BY <1>8, SmallFacts DEF Weighs, Upto
<1> QED
  BY <1>9, <1>10

(* There is one sum over all processes.                                                *)
LEMMA WeighsIsUnique ==
  ASSUME NEW w, NEW f, NEW g, Weighs(w, f), Weighs(w, g)
  PROVE  f[Processes] = g[Processes]
<1> DEFINE N == Cardinality(Processes)
           G == {n \in 0..N : \A T \in Small(n) : f[T] = g[T]}
<1>1. N \in Nat
  BY SmallFacts
<1>2. 0 \in G
  <2>1. \A T \in Small(0) : f[T] = g[T]
    BY SmallFacts DEF Weighs
  <2> QED
    BY <1>1, <2>1
<1>3. ASSUME NEW n \in 0..(N - 1), n \in G PROVE n + 1 \in G
  <2>1. n \in Nat /\ n + 1 \in 0..N
    BY <1>1
  <2>2. ASSUME NEW T \in Small(n + 1) PROVE f[T] = g[T]
    <3>1. CASE T = {}
      BY <3>1 DEF Weighs
    <3>2. CASE T # {}
      <4>1. T \in (SUBSET Processes) \ {{}} /\ T \ {OneOf(T)} \in Small(n)
        BY <2>1, <3>2, SmallFacts DEF Small
      <4>2. f[T \ {OneOf(T)}] = g[T \ {OneOf(T)}]
        BY <1>3, <4>1
      <4> QED
        BY <4>1, <4>2 DEF Weighs
    <3> QED
      BY <3>1, <3>2
  <2> QED
    BY <2>1, <2>2
<1> HIDE DEF G
<1>4. 0..N \subseteq G
  BY <1>1, <1>2, <1>3, Upward
<1>5. N \in G
  BY <1>1, <1>4
<1> USE DEF G
<1>6. Processes \in Small(N)
  BY SmallFacts
<1> QED
  BY <1>5, <1>6

(* Held is that sum for the sizes of the buffers.                                      *)
LEMMA HeldIsSum ==
  ASSUME NEW h, NEW f \in [SUBSET Processes -> Int], Weighs([p \in Processes |-> SizeOf(h[p])], f)
  PROVE  Held(h) = f[Processes]
<1> DEFINE w == [p \in Processes |-> SizeOf(h[p])]
           of[T \in SUBSET Processes] ==
             IF T = {} THEN 0 ELSE LET p == CHOOSE q \in T : TRUE
                                   IN of[T \ {p}] + SizeOf(h[p])
<1>1. Held(h) = of[Processes]
  BY DEF Held
<1>2. of = CHOOSE g : g = [T \in SUBSET Processes |->
             IF T = {} THEN 0 ELSE g[T \ {OneOf(T)}] + SizeOf(h[OneOf(T)])]
  BY DEF of, OneOf
<1> HIDE DEF of
<1>3. f = [T \in SUBSET Processes |->
             IF T = {} THEN 0 ELSE f[T \ {OneOf(T)}] + SizeOf(h[OneOf(T)])]
  <2>1. ASSUME NEW T \in SUBSET Processes
        PROVE  f[T] = IF T = {} THEN 0 ELSE f[T \ {OneOf(T)}] + SizeOf(h[OneOf(T)])
    <3>1. T # {} => OneOf(T) \in Processes
      BY OneOfIsOne
    <3> QED
      BY <3>1 DEF Weighs
  <2> QED
    BY <2>1 DEF Weighs
<1>4. of = [T \in SUBSET Processes |->
             IF T = {} THEN 0 ELSE of[T \ {OneOf(T)}] + SizeOf(h[OneOf(T)])]
  BY <1>2, <1>3
<1> HIDE DEF w
<1>5. ASSUME NEW T \in (SUBSET Processes) \ {{}} PROVE of[T] = of[T \ {OneOf(T)}] + w[OneOf(T)]
  <2>1. OneOf(T) \in Processes /\ T # {} /\ T \in SUBSET Processes
    BY OneOfIsOne
  <2> QED
    BY <1>4, <2>1 DEF w
<1>6. of[{}] = 0
  BY <1>4
<1>7. Weighs(w, of)
  BY <1>5, <1>6 DEF Weighs
<1>8. of[Processes] = f[Processes]
  BY <1>7, WeighsIsUnique DEF w
<1> QED
  BY <1>1, <1>8

(* The account of all buffers when one of them changes. *)
LEMMA HeldFacts ==
  /\ Held([q \in Processes |-> <<>>]) = 0
  /\ \A h \in [Processes -> Seq(LineSet)], p \in Processes, s \in Seq(LineSet) :
       /\ Held(h) \in Nat /\ SizeOf(h[p]) \in Nat /\ SizeOf(s) \in Nat
       /\ Held([h EXCEPT ![p] = s]) = (Held(h) - SizeOf(h[p])) + SizeOf(s)
<1>1. \A s \in Seq(LineSet) : SizeOf(s) \in Nat
  BY AddsExists, SizeIsSum
<1>2. Held([q \in Processes |-> <<>>]) = 0
  <2> DEFINE h == [q \in Processes |-> <<>>]
             w == [p \in Processes |-> SizeOf(h[p])]
             f == [T \in SUBSET Processes |-> 0]
  <2>1. \A p \in Processes : w[p] = 0
    BY SizeOfEmpty
  <2>2. Weighs(w, f)
    BY <2>1, OneOfIsOne DEF Weighs
  <2>3. f \in [SUBSET Processes -> Int] /\ f[Processes] = 0
    OBVIOUS
  <2> HIDE DEF f, h
  <2>4. Held(h) = 0
    BY <2>2, <2>3, HeldIsSum
  <2> QED
    BY <2>4 DEF h
<1>3. ASSUME NEW h \in [Processes -> Seq(LineSet)], NEW p \in Processes, NEW s \in Seq(LineSet)
      PROVE  /\ Held(h) \in Nat /\ SizeOf(h[p]) \in Nat /\ SizeOf(s) \in Nat
             /\ Held([h EXCEPT ![p] = s]) = (Held(h) - SizeOf(h[p])) + SizeOf(s)
  <2> DEFINE k == [h EXCEPT ![p] = s]
             w == [q \in Processes |-> SizeOf(h[q])]
             v == [q \in Processes |-> SizeOf(k[q])]
             d == SizeOf(s) - SizeOf(h[p])
  <2>1. SizeOf(h[p]) \in Nat /\ SizeOf(s) \in Nat /\ d \in Int
    BY <1>1
  <2>2. w \in [Processes -> Nat]
    BY <1>1
  <2>3. \A q \in Processes : v[q] = IF q = p THEN w[q] + d ELSE w[q]
    BY <2>1
  <2>4. PICK f : Weighs(w, f) /\ f \in [SUBSET Processes -> Nat]
    BY <2>2, WeighsExists
  <2> DEFINE g == [T \in SUBSET Processes |-> IF p \in T THEN f[T] + d ELSE f[T]]
  <2> HIDE DEF w, v, d
  <2>5. g \in [SUBSET Processes -> Int]
    BY <2>1, <2>4
  <2>6. ASSUME NEW T \in (SUBSET Processes) \ {{}} PROVE g[T] = g[T \ {OneOf(T)}] + v[OneOf(T)]
    <3> DEFINE x == OneOf(T)
    <3>1. x \in T /\ x \in Processes /\ T \ {x} \in SUBSET Processes
      BY OneOfIsOne
    <3>2. f[T] = f[T \ {x}] + w[x] /\ f[T \ {x}] \in Nat /\ w[x] \in Nat
      BY <2>2, <2>4, <3>1 DEF Weighs
    <3> HIDE DEF x
    <3>3. CASE x = p
      <4>1. g[T] = f[T] + d /\ g[T \ {x}] = f[T \ {x}] /\ v[x] = w[x] + d
        BY <2>3, <3>1, <3>3
      <4> QED
        BY <2>1, <3>2, <4>1 DEF x
    <3>4. CASE x # p
      <4>1. v[x] = w[x] /\ (p \in T <=> p \in T \ {x})
        BY <2>3, <3>1, <3>4
      <4> QED
        BY <2>1, <3>1, <3>2, <4>1 DEF x
    <3> QED
      BY <3>3, <3>4
  <2>7. Weighs(v, g)
    BY <2>4, <2>6 DEF Weighs
  <2>8. Held(h) = f[Processes]
    <3>1. f \in [SUBSET Processes -> Int] /\ Weighs([q \in Processes |-> SizeOf(h[q])], f)
      BY <2>4 DEF w
    <3> QED
      BY <3>1, HeldIsSum
  <2>9. Held(k) = g[Processes]
    <3>1. Weighs([q \in Processes |-> SizeOf(k[q])], g)
      BY <2>7 DEF v
    <3> HIDE DEF k, g
    <3> QED
      BY <2>5, <3>1, HeldIsSum
  <2>10. g[Processes] = f[Processes] + d /\ f[Processes] \in Nat
    BY <2>4
  <2> QED
    BY <2>1, <2>8, <2>9, <2>10 DEF d
<1> QED
  BY <1>2, <1>3

-----------------------------------------------------------------------------
(* What is in a sequence, and that nothing is in it twice. *)
NoneTwice(s) == \A i, j \in DOMAIN s : s[i] = s[j] => i = j

(* The empty sequence has nothing, and nothing twice.                                  *)
LEMMA EmptyHasNone == ToSet(<<>>) = {} /\ NoneTwice(<<>>)
<1>1. DOMAIN <<>> = {}
  BY EmptySeq, LenProperties
<1> QED
  BY <1>1 DEF ToSet, NoneTwice

(* An append adds one element, and no second of what was not there.                    *)
LEMMA AppendedIsIn ==
  ASSUME NEW S, NEW s \in Seq(S), NEW e \in S
  PROVE  /\ ToSet(Append(s, e)) = ToSet(s) \cup {e}
         /\ NoneTwice(s) /\ e \notin ToSet(s) => NoneTwice(Append(s, e))
<1> DEFINE t == Append(s, e)
           N == Len(s)
<1>1. N \in Nat /\ DOMAIN s = 1..N /\ t \in Seq(S) /\ Len(t) = N + 1
  BY LenProperties, AppendProperties
<1>2. t[N + 1] = e /\ \A i \in 1..N : t[i] = s[i]
  BY AppendProperties
<1>3. DOMAIN t = 1..(N + 1)
  BY <1>1, LenProperties
<1> HIDE DEF t, N
<1>4. \A i \in 1..(N + 1) : i \in 1..N \/ i = N + 1
  BY <1>1
<1>5. ToSet(t) = ToSet(s) \cup {e}
  <2>1. ASSUME NEW x \in ToSet(t) PROVE x \in ToSet(s) \cup {e}
    BY <1>1, <1>2, <1>3, <1>4 DEF ToSet
  <2>2. ASSUME NEW x \in ToSet(s) \cup {e} PROVE x \in ToSet(t)
    <3>1. N + 1 \in DOMAIN t /\ 1..N \subseteq DOMAIN t
      BY <1>1, <1>3
    <3> QED
      BY <1>1, <1>2, <3>1 DEF ToSet
  <2> QED
    BY <2>1, <2>2
<1>6. ASSUME NoneTwice(s), e \notin ToSet(s), NEW i \in DOMAIN t, NEW j \in DOMAIN t, t[i] = t[j]
      PROVE  i = j
  BY <1>1, <1>2, <1>3, <1>4, <1>6 DEF NoneTwice, ToSet
<1> QED
  BY <1>5, <1>6 DEF NoneTwice, t

(* So does an element put in front.                                                    *)
LEMMA InsertedIsIn ==
  ASSUME NEW S, NEW s \in Seq(S), NEW e \in S
  PROVE  /\ <<e>> \o s \in Seq(S)
         /\ ToSet(<<e>> \o s) = ToSet(s) \cup {e}
         /\ NoneTwice(s) /\ e \notin ToSet(s) => NoneTwice(<<e>> \o s)
<1> DEFINE t == <<e>> \o s
           N == Len(s)
<1>0. <<e>> \in Seq(S) /\ Len(<<e>>) = 1 /\ <<e>>[1] = e
  OBVIOUS
<1>1. N \in Nat /\ DOMAIN s = 1..N /\ t \in Seq(S) /\ Len(t) = N + 1
  BY <1>0, LenProperties, ConcatProperties
<1>2. t[1] = e /\ \A i \in 1..N : t[i + 1] = s[i]
  <2>1. \A i \in 1..(1 + N) : t[i] = IF i <= 1 THEN <<e>>[i] ELSE s[i - 1]
    BY <1>0, ConcatProperties
  <2> HIDE DEF t
  <2>2. t[1] = e
    BY <1>0, <1>1, <2>1
  <2>3. ASSUME NEW i \in 1..N PROVE t[i + 1] = s[i]
    <3>1. i + 1 \in 1..(1 + N) /\ ~(i + 1 <= 1) /\ (i + 1) - 1 = i
      BY <1>1
    <3> QED
      BY <2>1, <3>1
  <2> QED
    BY <2>2, <2>3
<1>3. DOMAIN t = 1..(N + 1)
  BY <1>1, LenProperties
<1> HIDE DEF t, N
<1>4. \A i \in 1..(N + 1) : i = 1 \/ \E k \in 1..N : i = k + 1
  <2>1. ASSUME NEW i \in 1..(N + 1), i # 1 PROVE i - 1 \in 1..N /\ i = (i - 1) + 1
    BY <1>1, <2>1
  <2> QED
    BY <2>1
<1>5. ToSet(t) = ToSet(s) \cup {e}
  <2>1. ASSUME NEW x \in ToSet(t) PROVE x \in ToSet(s) \cup {e}
    BY <1>1, <1>2, <1>3, <1>4 DEF ToSet
  <2>2. ASSUME NEW x \in ToSet(s) \cup {e} PROVE x \in ToSet(t)
    <3>1. 1 \in DOMAIN t /\ \A i \in 1..N : i + 1 \in DOMAIN t
      BY <1>1, <1>3
    <3> QED
      BY <1>1, <1>2, <3>1 DEF ToSet
  <2> QED
    BY <2>1, <2>2
<1>6. ASSUME NoneTwice(s), e \notin ToSet(s), NEW i \in DOMAIN t, NEW j \in DOMAIN t, t[i] = t[j]
      PROVE  i = j
  <2>1. \A k \in 1..N : s[k] # e
    BY <1>1, <1>6 DEF ToSet
  <2>2. CASE i = 1
    BY <1>2, <1>3, <1>4, <1>6, <2>1, <2>2
  <2>3. CASE j = 1
    BY <1>2, <1>3, <1>4, <1>6, <2>1, <2>3
  <2>4. CASE \E k \in 1..N, m \in 1..N : i = k + 1 /\ j = m + 1
    BY <1>1, <1>2, <1>6, <2>4 DEF NoneTwice
  <2> QED
    BY <1>3, <1>4, <2>2, <2>3, <2>4
<1> QED
  BY <1>1, <1>5, <1>6 DEF NoneTwice, t

(* Without its head a sequence has the others, each as often.                          *)
LEMMA HeadIsTakenOut ==
  ASSUME NEW S, NEW s \in Seq(S), s # <<>>
  PROVE  /\ ToSet(s) = ToSet(Tail(s)) \cup {Head(s)}
         /\ NoneTwice(s) => NoneTwice(Tail(s)) /\ Head(s) \notin ToSet(Tail(s))
<1> DEFINE t == Tail(s)
           N == Len(s)
<1>1. /\ N \in Nat /\ N >= 1 /\ DOMAIN s = 1..N /\ t \in Seq(S) /\ Len(t) = N - 1
      /\ Head(s) = s[1]
  BY LenProperties, EmptySeq, HeadTailProperties
<1>2. \A i \in 1..(N - 1) : t[i] = s[i + 1]
  BY <1>1, HeadTailProperties
<1>3. DOMAIN t = 1..(N - 1)
  BY <1>1, LenProperties
<1> HIDE DEF t, N
<1>4. \A i \in 1..N : i = 1 \/ \E k \in 1..(N - 1) : i = k + 1
  <2>1. ASSUME NEW i \in 1..N, i # 1 PROVE i - 1 \in 1..(N - 1) /\ i = (i - 1) + 1
    BY <1>1, <2>1
  <2> QED
    BY <2>1
<1>a. 1 \in DOMAIN s /\ \A i \in 1..(N - 1) : i + 1 \in DOMAIN s /\ i + 1 # 1
  BY <1>1
<1>5. ToSet(s) = ToSet(t) \cup {Head(s)}
  <2>1. ASSUME NEW x \in ToSet(s) PROVE x \in ToSet(t) \cup {Head(s)}
    <3>1. PICK i \in 1..N : x = s[i]
      BY <1>1 DEF ToSet
    <3>2. CASE i = 1
      BY <1>1, <3>1, <3>2
    <3>3. CASE \E k \in 1..(N - 1) : i = k + 1
      BY <1>2, <1>3, <3>1, <3>3 DEF ToSet
    <3> QED
      BY <1>4, <3>2, <3>3
  <2>2. ASSUME NEW x \in ToSet(t) \cup {Head(s)} PROVE x \in ToSet(s)
    BY <1>1, <1>2, <1>3, <1>a DEF ToSet
  <2> QED
    BY <2>1, <2>2
<1>6. ASSUME NoneTwice(s), NEW i \in DOMAIN t, NEW j \in DOMAIN t, t[i] = t[j]
      PROVE  i = j
  <2>1. i + 1 = j + 1
    BY <1>2, <1>3, <1>6, <1>a DEF NoneTwice
  <2> QED
    BY <1>1, <1>3, <2>1
<1>7. ASSUME NoneTwice(s), NEW i \in DOMAIN t PROVE t[i] # Head(s)
  BY <1>1, <1>2, <1>3, <1>7, <1>a DEF NoneTwice
<1> QED
  BY <1>5, <1>6, <1>7 DEF NoneTwice, ToSet, t

-----------------------------------------------------------------------------
(* The queue of the abstract feed: the stamps of what waits for the subscribers. *)
Stamps(q) == [i \in DOMAIN q |-> q[i].stamp]
Queue == Stamps(rest \o channel)

(* The stamps of a queue, one for each line.                                           *)
LEMMA StampsFacts ==
  ASSUME NEW q \in Seq(LineSet)
  PROVE  /\ Stamps(q) \in Seq(1..MaxMade) /\ Len(Stamps(q)) = Len(q)
         /\ \A i \in 1..Len(q) : Stamps(q)[i] = q[i].stamp
<1>1. Len(q) \in Nat /\ DOMAIN q = 1..Len(q) /\ \A i \in 1..Len(q) : q[i].stamp \in 1..MaxMade
  BY LenProperties, ElementOfSeq, LineFields
<1>2. Stamps(q) \in [1..Len(q) -> 1..MaxMade]
  BY <1>1 DEF Stamps
<1>3. Stamps(q) \in Seq(1..MaxMade)
  <2> DEFINE S == 1..MaxMade
  <2> HIDE DEF S
  <2>1. Seq(S) = UNION {[1..n -> S] : n \in Nat}
    BY SeqDef
  <2>2. Stamps(q) \in [1..Len(q) -> S]
    BY <1>2 DEF S
  <2>3. Stamps(q) \in Seq(S)
    BY <1>1, <2>1, <2>2
  <2> QED
    BY <2>3 DEF S
<1>4. Len(Stamps(q)) = Len(q)
  BY <1>1, <1>2, <1>3, LenProperties
<1> QED
  BY <1>1, <1>3, <1>4 DEF Stamps

(* Stamps of an append.                                                                *)
LEMMA StampsOfAppend ==
  ASSUME NEW q \in Seq(LineSet), NEW l \in LineSet
  PROVE  Stamps(Append(q, l)) = Append(Stamps(q), l.stamp)
<1> DEFINE N == Len(q)
           t == Append(q, l)
           u == Append(Stamps(q), l.stamp)
<1>1. N \in Nat /\ t \in Seq(LineSet) /\ Len(t) = N + 1 /\ t[N + 1] = l
      /\ \A i \in 1..N : t[i] = q[i]
  BY LenProperties, AppendProperties
<1>2. l.stamp \in 1..MaxMade
  BY LineFields
<1>3. u \in Seq(1..MaxMade) /\ Len(u) = N + 1 /\ u[N + 1] = l.stamp
      /\ \A i \in 1..N : u[i] = q[i].stamp
  BY <1>2, StampsFacts, AppendProperties
<1> HIDE DEF t, u, N
<1>4. Stamps(t) \in Seq(1..MaxMade) /\ Len(Stamps(t)) = N + 1
      /\ \A i \in 1..(N + 1) : Stamps(t)[i] = t[i].stamp
  BY <1>1, StampsFacts
<1>5. \A i \in 1..(N + 1) : Stamps(t)[i] = u[i]
  <2>1. \A i \in 1..(N + 1) : i \in 1..N \/ i = N + 1
    BY <1>1
  <2> QED
    BY <1>1, <1>3, <1>4, <2>1
<1> QED
  BY <1>3, <1>4, <1>5, SeqEqual DEF t, u

(* Stamps of a line put in front.                                                      *)
LEMMA StampsOfInserted ==
  ASSUME NEW q \in Seq(LineSet), NEW l \in LineSet
  PROVE  Stamps(<<l>> \o q) = <<l.stamp>> \o Stamps(q)
<1> DEFINE N == Len(q)
           t == <<l>> \o q
           u == <<l.stamp>> \o Stamps(q)
<1>1. /\ <<l>> \in Seq(LineSet) /\ Len(<<l>>) = 1 /\ <<l>>[1] = l
      /\ <<l.stamp>> \in Seq(1..MaxMade) /\ Len(<<l.stamp>>) = 1 /\ <<l.stamp>>[1] = l.stamp
      /\ N \in Nat
  BY LineFields, LenProperties
<1>2. t \in Seq(LineSet) /\ Len(t) = 1 + N
      /\ \A i \in 1..(1 + N) : t[i] = IF i <= 1 THEN <<l>>[i] ELSE q[i - 1]
  BY <1>1, ConcatProperties
<1>3. u \in Seq(1..MaxMade) /\ Len(u) = 1 + N
      /\ \A i \in 1..(1 + N) : u[i] = IF i <= 1 THEN <<l.stamp>>[i] ELSE Stamps(q)[i - 1]
  BY <1>1, StampsFacts, ConcatProperties
<1> HIDE DEF t, u, N
<1>4. Stamps(t) \in Seq(1..MaxMade) /\ Len(Stamps(t)) = 1 + N
      /\ \A i \in 1..(1 + N) : Stamps(t)[i] = t[i].stamp
  BY <1>2, StampsFacts
<1>5. ASSUME NEW i \in 1..(1 + N) PROVE Stamps(t)[i] = u[i]
  <2>1. CASE i = 1
    BY <1>1, <1>2, <1>3, <1>4, <2>1
  <2>2. CASE i # 1
    <3>1. i - 1 \in 1..N /\ ~(i <= 1)
      BY <1>1, <2>2
    <3>2. Stamps(q)[i - 1] = q[i - 1].stamp
      BY <3>1, StampsFacts DEF N
    <3> QED
      BY <1>2, <1>3, <1>4, <3>1, <3>2
  <2> QED
    BY <2>1, <2>2
<1> QED
  BY <1>3, <1>4, <1>5, SeqEqual DEF t, u

(* Stamps of what is left behind the head.                                             *)
LEMMA StampsOfTail ==
  ASSUME NEW q \in Seq(LineSet), q # <<>>
  PROVE  /\ Stamps(Tail(q)) = Tail(Stamps(q))
         /\ Stamps(q) # <<>> /\ Head(Stamps(q)) = Head(q).stamp
<1> DEFINE N == Len(q)
           t == Tail(q)
           u == Tail(Stamps(q))
<1>1. N \in Nat /\ N >= 1 /\ t \in Seq(LineSet) /\ Len(t) = N - 1 /\ Head(q) = q[1]
      /\ \A i \in 1..(N - 1) : t[i] = q[i + 1]
  BY LenProperties, EmptySeq, HeadTailProperties
<1>2. Stamps(q) \in Seq(1..MaxMade) /\ Len(Stamps(q)) = N
      /\ \A i \in 1..N : Stamps(q)[i] = q[i].stamp
  BY StampsFacts
<1>3. Stamps(q) # <<>> /\ Head(Stamps(q)) = Stamps(q)[1]
  BY <1>1, <1>2, EmptySeq
<1>4. u \in Seq(1..MaxMade) /\ Len(u) = N - 1 /\ \A i \in 1..(N - 1) : u[i] = Stamps(q)[i + 1]
  BY <1>2, <1>3, HeadTailProperties
<1> HIDE DEF t, u, N
<1>5. Stamps(t) \in Seq(1..MaxMade) /\ Len(Stamps(t)) = N - 1
      /\ \A i \in 1..(N - 1) : Stamps(t)[i] = t[i].stamp
  BY <1>1, StampsFacts
<1>6. ASSUME NEW i \in 1..(N - 1) PROVE Stamps(t)[i] = u[i]
  BY <1>1, <1>2, <1>4, <1>5, SMTT(30)
<1>7. Stamps(t) = u
  BY <1>4, <1>5, <1>6, SeqEqual
<1>8. Head(Stamps(q)) = Head(q).stamp
  BY <1>1, <1>2, <1>3
<1> QED
  BY <1>3, <1>7, <1>8 DEF t, u

(* Submitted at the end, inserted in front, heard: what a step of the store makes of what  *)
(* waits.                                                                                  *)
LEMMA WaitingFacts ==
  ASSUME NEW r \in Seq(LineSet), NEW c \in Seq(LineSet)
  PROVE  /\ r \o c \in Seq(LineSet)
         /\ \A l \in LineSet : r \o Append(c, l) = Append(r \o c, l)
         /\ r = <<>> => r \o c = c
         /\ c # <<>> => Append(r, Head(c)) \o Tail(c) = r \o c
         /\ r # <<>> => /\ Tail(r \o c) = Tail(r) \o c
                        /\ Head(r \o c) = Head(r) /\ r \o c # <<>>
<1>1. r \o c \in Seq(LineSet)
  BY ConcatProperties
<1>2. ASSUME NEW l \in LineSet PROVE r \o Append(c, l) = Append(r \o c, l)
  <2>1. <<l>> \in Seq(LineSet) /\ Append(c, l) = c \o <<l>> /\ Append(r \o c, l) = (r \o c) \o <<l>>
    BY <1>1, AppendIsConcat
  <2> QED
    BY <2>1, ConcatAssociative
<1>3. r = <<>> => r \o c = c
  BY ConcatEmptySeq
<1>4. ASSUME NEW l \in LineSet, NEW d \in Seq(LineSet) PROVE Append(r, l) \o d = r \o (<<l>> \o d)
  <2>1. <<l>> \in Seq(LineSet) /\ Append(r, l) = r \o <<l>>
    BY AppendIsConcat
  <2> QED
    BY <2>1, ConcatAssociative
<1>5. ASSUME NEW d \in Seq(LineSet), d # <<>>
      PROVE  /\ d = <<Head(d)>> \o Tail(d) /\ Head(d) \in LineSet /\ Tail(d) \in Seq(LineSet)
             /\ <<Head(d)>> \in Seq(LineSet)
  <2> DEFINE N == Len(d)
             h == <<Head(d)>>
             t == Tail(d)
  <2>1. /\ N \in Nat /\ N >= 1 /\ Head(d) = d[1] /\ Head(d) \in LineSet /\ t \in Seq(LineSet)
        /\ Len(t) = N - 1 /\ \A i \in 1..(N - 1) : t[i] = d[i + 1]
    BY <1>5, LenProperties, EmptySeq, HeadTailProperties
  <2>2. h \in Seq(LineSet) /\ Len(h) = 1 /\ h[1] = d[1]
    BY <2>1
  <2>3. h \o t \in Seq(LineSet) /\ Len(h \o t) = 1 + (N - 1)
        /\ \A i \in 1..(1 + (N - 1)) : (h \o t)[i] = IF i <= 1 THEN h[i] ELSE t[i - 1]
    BY <2>1, <2>2, ConcatProperties
  <2> HIDE DEF h, t
  <2>4. ASSUME NEW i \in 1..N PROVE (h \o t)[i] = d[i]
    <3>1. CASE i = 1
      BY <2>1, <2>2, <2>3, <3>1
    <3>2. CASE i # 1
      <4>1. i - 1 \in 1..(N - 1) /\ ~(i <= 1) /\ (i - 1) + 1 = i /\ i \in 1..(1 + (N - 1))
        BY <2>1, <3>2
      <4> QED
        BY <2>1, <2>3, <4>1
    <3> QED
      BY <3>1, <3>2
  <2>5. Len(h \o t) = N
    BY <2>1, <2>3
  <2>6. d = h \o t
    BY <2>3, <2>4, <2>5, SeqEqual
  <2> QED
    BY <2>1, <2>2, <2>6 DEF h, t
<1>6. c # <<>> => Append(r, Head(c)) \o Tail(c) = r \o c
  BY <1>4, <1>5
<1>7. ASSUME r # <<>>
      PROVE  Tail(r \o c) = Tail(r) \o c /\ Head(r \o c) = Head(r) /\ r \o c # <<>>
  <2> DEFINE h == <<Head(r)>>
             t == Tail(r) \o c
  <2>1. h \in Seq(LineSet) /\ Tail(r) \in Seq(LineSet) /\ Head(r) \in LineSet
    BY <1>5, <1>7
  <2>2. r \o c = h \o t
    <3>1. (h \o Tail(r)) \o c = h \o (Tail(r) \o c)
      BY <2>1, ConcatAssociative
    <3> QED
      BY <1>5, <1>7, <3>1
  <2>3. t \in Seq(LineSet)
    BY <2>1, ConcatProperties
  <2> HIDE DEF t
  <2>4. Tail(h \o t) = t /\ Head(h \o t) = Head(r) /\ h \o t # <<>>
    BY <2>1, <2>3
  <2> QED
    BY <2>2, <2>4 DEF t
<1> QED
  BY <1>1, <1>2, <1>3, <1>6, <1>7

-----------------------------------------------------------------------------
(* The invariant of the log store. *)
StoreTypes ==
  /\ made \in 0..MaxMade
  /\ channel \in Seq(LineSet) /\ Len(channel) <= Capacity
  /\ batch \in Seq(LineSet) /\ rest \in Seq(LineSet)
  /\ heard \in Seq(1..MaxMade)
  /\ pc \in {"select", "collect", "store", "evict", "write", "sweep", "trim", "tick",
              "check", "answer", "sending", "stopping", "flush", "down"}
  /\ then \in {"select", "tick", "check", "answer", "stopping", "flush"}

Buffers == hot \in [Processes -> Seq(LineSet)] /\ MemoryAccounted

\* Only a drain has lines nobody heard yet, and an eviction belongs to one of them.
DrainUnderWay ==
  /\ pc \notin {"collect", "store", "evict"} => rest = <<>>
  /\ pc = "evict" => rest # <<>>
  /\ batch = <<>> => rest = <<>>

\* No stamp is anywhere twice, and the line that waits for room has one of its own.
HeardOnce ==
  /\ NoneTwice(Queue) /\ NoneTwice(heard) /\ ToSet(Queue) \cap ToSet(heard) = {}
  /\ Feed!Known \subseteq 1..made
StampIsFree == pc = "sending" => own \in LineSet /\ own.stamp \in (1..made) \ Feed!Known

IInv == StoreTypes /\ Buffers /\ DrainUnderWay /\ HeardOnce /\ StampIsFree

(* What the proofs use of the assumption on the constants.                             *)
LEMMA Constants ==
  /\ Capacity \in Nat /\ MaxLines \in Nat /\ MaxLines >= 1 /\ MaxMade \in Nat
  /\ MemoryLimit \in Nat /\ Threshold \in Nat /\ Target \in Nat /\ Target <= Threshold
<1>1. /\ Capacity \in Nat /\ MaxLines \in Nat /\ MaxLines >= 1 /\ MaxMade \in Nat
      /\ MemoryLimit \in Nat
  BY LogStoreAssumption
<1> QED
  BY <1>1 DEF Threshold, Target

(* The abstract feed, with the refinement mapping put in.                              *)
LEMMA FeedIs ==
  /\ Feed!feed = <<Queue, heard>> /\ Feed!feed' = <<Queue', heard'>>
  /\ Feed!Known = ToSet(Queue) \cup ToSet(heard)
  /\ Feed!Known' = ToSet(Queue') \cup ToSet(heard')
  /\ Feed!Init <=> Queue = <<>> /\ heard = <<>>
  /\ \A s \in (1..MaxMade) \ Feed!Known :
       UNCHANGED heard /\ (Queue' = Append(Queue, s) \/ Queue' = <<s>> \o Queue) => Feed!Next
  /\ Queue # <<>> /\ Queue' = Tail(Queue) /\ heard' = Append(heard, Head(Queue)) => Feed!Next
  /\ Queue' = <<>> /\ UNCHANGED heard => Feed!Next
<1>1. Feed!feed = <<Queue, heard>> /\ Feed!feed' = <<Queue', heard'>>
  BY DEF Feed!feed, Queue, Stamps
<1>2. /\ Feed!Known = ToSet(Queue) \cup ToSet(heard)
      /\ Feed!Known' = ToSet(Queue') \cup ToSet(heard')
  BY DEF Feed!Known, Feed!ToSet, ToSet, Queue, Stamps
<1>3. Feed!Init <=> Queue = <<>> /\ heard = <<>>
  BY DEF Feed!Init, Queue, Stamps
<1>4. ASSUME NEW s \in (1..MaxMade) \ Feed!Known, UNCHANGED heard,
             Queue' = Append(Queue, s) \/ Queue' = <<s>> \o Queue
      PROVE  Feed!Next
  BY <1>4 DEF Feed!Next, Feed!Submit, Feed!Jump, Queue, Stamps
<1>5. ASSUME Queue # <<>>, Queue' = Tail(Queue), heard' = Append(heard, Head(Queue))
      PROVE  Feed!Next
  BY <1>5 DEF Feed!Next, Feed!Hear, Queue, Stamps
<1>6. ASSUME Queue' = <<>>, UNCHANGED heard PROVE Feed!Next
  BY <1>6 DEF Feed!Next, Feed!GoAway, Queue, Stamps
<1> QED
  BY <1>1, <1>2, <1>3, <1>4, <1>5, <1>6

(* The queue of the feed is a sequence of stamps.                                      *)
LEMMA QueueType ==
  ASSUME StoreTypes
  PROVE  rest \o channel \in Seq(LineSet) /\ Queue \in Seq(1..MaxMade)
<1>1. rest \o channel \in Seq(LineSet)
  BY WaitingFacts DEF StoreTypes
<1> QED
  BY <1>1, StampsFacts DEF Queue

\* The four things a step does to the feed, and what they leave of the stamps.
LEMMA SubmitStep ==
  ASSUME StoreTypes, StoreTypes', HeardOnce, NEW s \in (1..MaxMade) \ Feed!Known,
         Queue' = Append(Queue, s) \/ Queue' = <<s>> \o Queue, UNCHANGED heard,
         made' \in Nat, made <= made', s <= made'
  PROVE  Feed!Next /\ HeardOnce' /\ Feed!Known' = Feed!Known \cup {s}
<1>1. Queue \in Seq(1..MaxMade) /\ Feed!Known = ToSet(Queue) \cup ToSet(heard)
      /\ Feed!Known' = ToSet(Queue') \cup ToSet(heard')
  BY QueueType, FeedIs
<1>a. s \in 1..MaxMade /\ s \notin ToSet(Queue) /\ NoneTwice(Queue)
  BY <1>1 DEF HeardOnce
<1>2. ToSet(Queue') = ToSet(Queue) \cup {s} /\ NoneTwice(Queue')
  <2> DEFINE S == 1..MaxMade
  <2>1. s \in S /\ Queue \in Seq(S)
    BY <1>1, <1>a
  <2> HIDE DEF S
  <2>2. CASE Queue' = Append(Queue, s)
    BY <1>a, <2>1, <2>2, AppendedIsIn
  <2>3. CASE Queue' = <<s>> \o Queue
    BY <1>a, <2>1, <2>3, InsertedIsIn
  <2> QED
    BY <2>2, <2>3
<1>4. Feed!Next
  BY FeedIs
<1>5. Feed!Known' \subseteq 1..made'
  BY <1>1, <1>2 DEF HeardOnce, StoreTypes
<1> QED
  BY <1>1, <1>2, <1>4, <1>5 DEF HeardOnce

(* To hear the next line is the step Hear of the feed.                                 *)
LEMMA HearStep ==
  ASSUME StoreTypes, StoreTypes', HeardOnce, UNCHANGED <<made, channel>>, rest # <<>>,
         rest' = Tail(rest), heard' = Append(heard, Head(rest).stamp)
  PROVE  Feed!Next /\ HeardOnce' /\ Feed!Known' = Feed!Known
<1>1. Queue \in Seq(1..MaxMade) /\ Feed!Known = ToSet(Queue) \cup ToSet(heard)
      /\ Feed!Known' = ToSet(Queue') \cup ToSet(heard') /\ rest \o channel \in Seq(LineSet)
  BY QueueType, FeedIs
<1>2. Tail(rest \o channel) = rest' \o channel' /\ Head(rest \o channel) = Head(rest)
      /\ rest \o channel # <<>>
  BY WaitingFacts DEF StoreTypes
<1>3. Queue' = Tail(Queue) /\ Queue # <<>> /\ Head(Queue) = Head(rest).stamp
  BY <1>1, <1>2, StampsOfTail DEF Queue
<1>4. Head(Queue) \in 1..MaxMade
  BY <1>1, <1>3, HeadTailProperties
<1>5. ToSet(Queue) = ToSet(Queue') \cup {Head(Queue)} /\ NoneTwice(Queue')
      /\ Head(Queue) \notin ToSet(Queue')
  BY <1>1, <1>3, HeadIsTakenOut DEF HeardOnce
<1>6. Head(Queue) \notin ToSet(heard)
  BY <1>5 DEF HeardOnce
<1>7. ToSet(heard') = ToSet(heard) \cup {Head(Queue)} /\ NoneTwice(heard')
  <2> DEFINE S == 1..MaxMade
  <2>1. heard \in Seq(S) /\ Head(Queue) \in S /\ NoneTwice(heard)
        /\ heard' = Append(heard, Head(Queue))
    BY <1>3, <1>4 DEF HeardOnce, StoreTypes
  <2> HIDE DEF S
  <2> QED
    BY <1>4, <1>6, <2>1, AppendedIsIn
<1>8. Feed!Next
  BY <1>3, FeedIs
<1> QED
  BY <1>1, <1>5, <1>7, <1>8 DEF HeardOnce

(* To lose all that is queued is the step of the feed that forgets.                    *)
LEMMA GoneStep ==
  ASSUME StoreTypes, StoreTypes', HeardOnce, rest' = <<>>, channel' = <<>>, UNCHANGED <<made, heard>>
  PROVE  Feed!Next /\ HeardOnce'
<1>1. Feed!Known = ToSet(Queue) \cup ToSet(heard) /\ Feed!Known' = ToSet(Queue') \cup ToSet(heard')
  BY FeedIs
<1>2. rest' \o channel' = <<>>
  BY ConcatEmptySeq DEF StoreTypes
<1>3. Queue' = <<>>
  <2>1. Queue' = Stamps(<<>>)
    BY <1>2 DEF Queue
  <2>2. Stamps(<<>>) = <<>>
    BY StampsFacts, EmptySeq
  <2> QED
    BY <2>1, <2>2
<1>4. Feed!Next
  BY <1>3, FeedIs
<1> QED
  BY <1>1, <1>3, <1>4, EmptyHasNone DEF HeardOnce

(* A step that leaves the queue alone is a stutter of the feed.                        *)
LEMMA SameStep ==
  ASSUME StoreTypes, StoreTypes', HeardOnce, Queue' = Queue, UNCHANGED heard,
         made' \in Nat, made <= made'
  PROVE  UNCHANGED Feed!feed /\ HeardOnce' /\ Feed!Known' = Feed!Known
<1>1. Feed!Known = ToSet(Queue) \cup ToSet(heard) /\ Feed!Known' = ToSet(Queue') \cup ToSet(heard')
  BY FeedIs
<1>2. UNCHANGED Feed!feed
  BY FeedIs
<1>3. Feed!Known' \subseteq 1..made'
  BY <1>1 DEF HeardOnce, StoreTypes
<1> QED
  BY <1>1, <1>2, <1>3 DEF HeardOnce

-----------------------------------------------------------------------------
(* The steps. *)
Idle == {"select", "write", "sweep", "trim", "tick", "check", "answer", "sending", "stopping",
         "flush", "down"}

\* A step that neither moves a line nor begins an eviction.
LEMMA QuietStep ==
  ASSUME IInv, UNCHANGED <<made, channel, rest, hot, memory, heard>>,
         batch' = batch \/ (batch' = <<>> /\ rest = <<>>),
         pc # "evict", pc' \in Idle \cup {"collect", "store"}, pc' \in Idle => rest = <<>>,
         pc' = "sending" => pc = "sending" /\ own' = own,
         then' \in {"select", "tick", "check", "answer", "stopping", "flush"}
  PROVE  UNCHANGED Feed!feed /\ IInv'
<1>1. StoreTypes'
  BY EmptySeq DEF IInv, StoreTypes, Idle
<1>2. Queue' = Queue
  BY DEF Queue
<1>3. UNCHANGED Feed!feed /\ HeardOnce' /\ Feed!Known' = Feed!Known
  <2>1. made' \in Nat /\ made <= made'
    BY DEF IInv, StoreTypes
  <2> QED
    BY <1>1, <1>2, <2>1, SameStep DEF IInv
<1>4. Buffers'
  BY DEF IInv, Buffers, MemoryAccounted
<1>5. DrainUnderWay'
  BY DEF IInv, DrainUnderWay, Idle
<1>6. StampIsFree'
  BY <1>3 DEF IInv, StampIsFree
<1> QED
  BY <1>1, <1>3, <1>4, <1>5, <1>6 DEF IInv

(* The actions that leave the queue alone.                                             *)
LEMMA QuietActions ==
  ASSUME IInv,
         \/ Stored \/ Write \/ Sweep \/ Trim \/ BeginPoll \/ BeginRequest \/ BeginShutdown
         \/ RetentionTick \/ EndTurn \/ EndStops \/ Elapse \/ (Collect /\ channel = <<>>)
         \/ UNCHANGED vars
  PROVE  UNCHANGED Feed!feed /\ IInv'
<1>0. /\ then \in {"select", "tick", "check", "answer", "stopping", "flush"}
      /\ pc \notin {"collect", "store", "evict"} => rest = <<>>
      /\ batch = <<>> => rest = <<>>
  BY DEF IInv, StoreTypes, DrainUnderWay
<1>1. CASE Stored \/ (Collect /\ channel = <<>>)
  <2>1. UNCHANGED <<made, channel, rest, hot, memory, heard, own, then>>
    BY <1>1 DEF Stored, Collect, lines, files, bounds
  <2>2. batch' = batch \/ (batch' = <<>> /\ rest = <<>>)
    BY <1>1 DEF Stored, Collect
  <2>3. pc \in {"store", "collect"} /\ pc' \in {then, "store", "write"}
        /\ (pc' # "store" => rest = <<>>)
    BY <1>0, <1>1 DEF Stored, Collect
  <2>4. pc' \in Idle \cup {"collect", "store"} /\ pc # "evict" /\ (pc' \in Idle => rest = <<>>)
        /\ pc' # "sending"
    BY <1>0, <2>3 DEF Idle
  <2> QED
    BY <1>0, <2>1, <2>2, <2>4, QuietStep
<1>2. CASE Write \/ Sweep \/ Trim
  <2>1. UNCHANGED <<made, channel, rest, hot, memory, heard, own, then>>
    BY <1>2 DEF Write, Sweep, Trim, lines, store, files, bounds
  <2>2. pc \in {"write", "sweep", "trim"} /\ rest = <<>>
    BY <1>0, <1>2 DEF Write, Sweep, Trim
  <2>3. batch' = batch \/ (batch' = <<>> /\ rest = <<>>)
    BY <1>2, <2>2 DEF Write, Sweep, Trim, store
  <2>4. pc' \in {then, "sweep", "trim"}
    BY <1>2 DEF Write, Sweep, Trim, Fails
  <2>5. pc' \in Idle /\ pc' # "sending" /\ pc # "evict"
    BY <1>0, <2>2, <2>4 DEF Idle
  <2> QED
    BY <1>0, <2>1, <2>2, <2>3, <2>5, QuietStep
<1>3. CASE BeginPoll \/ BeginRequest \/ BeginShutdown
  <2>1. UNCHANGED <<made, channel, rest, hot, memory, heard, batch>>
    BY <1>3 DEF BeginPoll, BeginRequest, BeginShutdown, lines, store, files, bounds
  <2>2. pc \in {"select", "check", "sending"} /\ rest = <<>>
    BY <1>0, <1>3 DEF BeginPoll, BeginRequest, BeginShutdown, Awaiting
  <2>3. pc' \in {"collect", "stopping"} /\ then' \in {"tick", "answer", "select"}
    BY <1>3 DEF BeginPoll, BeginRequest, BeginShutdown, Drain
  <2>4. pc' \in Idle \cup {"collect", "store"} /\ pc' # "sending" /\ pc # "evict"
    BY <2>2, <2>3 DEF Idle
  <2> QED
    BY <2>1, <2>2, <2>3, <2>4, QuietStep
<1>4. CASE RetentionTick \/ EndTurn \/ EndStops \/ Elapse
  <2>1. UNCHANGED <<made, channel, rest, hot, memory, heard, batch, own>>
    BY <1>4 DEF RetentionTick, EndTurn, EndStops, Elapse, lines, store, files, bounds
  <2>2. pc \in {"tick", "check", "answer", "stopping", "select"} /\ rest = <<>>
    BY <1>0, <1>4 DEF RetentionTick, EndTurn, EndStops, Elapse
  <2>3. /\ pc' \in {"sweep", "check", "select", "collect"}
        /\ then' \in {"select", "tick", "check", "answer", "stopping", "flush"}
    BY <1>0, <1>4 DEF RetentionTick, EndTurn, EndStops, Elapse, Drain
  <2>4. pc' \in Idle \cup {"collect", "store"} /\ pc' # "sending" /\ pc # "evict"
    BY <2>2, <2>3 DEF Idle
  <2> QED
    BY <2>1, <2>2, <2>3, <2>4, QuietStep
<1>5. CASE UNCHANGED vars
  <2>1. UNCHANGED <<made, channel, rest, hot, memory, heard, batch, own, pc, then>>
    BY <1>5 DEF vars, lines, store, files, bounds
  <2>2. Queue' = Queue /\ StoreTypes' /\ made' \in Nat /\ made <= made'
    BY <2>1 DEF IInv, StoreTypes, Queue
  <2>3. UNCHANGED Feed!feed /\ HeardOnce' /\ Feed!Known' = Feed!Known
    BY <2>1, <2>2, SameStep DEF IInv
  <2>4. Buffers' /\ DrainUnderWay' /\ StampIsFree'
    BY <2>1, <2>3 DEF IInv, Buffers, MemoryAccounted, DrainUnderWay, StampIsFree
  <2> QED
    BY <2>2, <2>3, <2>4 DEF IInv
<1> QED
  BY <1>1, <1>2, <1>3, <1>4, <1>5

\* A line at the end of the channel: submitted.
LEMMA SentIsSubmitted ==
  ASSUME IInv, Len(channel) < Capacity, NEW l \in LineSet, l.stamp \notin Feed!Known,
         channel' = Append(channel, l), made' \in 0..MaxMade, made <= made', l.stamp <= made',
         UNCHANGED <<batch, rest, hot, memory, heard>>,
         pc' = pc \/ pc' \in Idle \cap {"select", "check", "answer", "stopping", "tick", "flush"},
         pc = "sending" \/ pc' = pc, UNCHANGED then,
         pc' = "sending" => pc = "sending" /\ own' = own /\ own.stamp # l.stamp
  PROVE  Feed!Next /\ IInv'
<1>1. channel' \in Seq(LineSet) /\ Len(channel') = Len(channel) + 1 /\ Len(channel) \in Nat
  BY AppendProperties, LenProperties DEF IInv, StoreTypes
<1>2. StoreTypes'
  BY <1>1, Constants DEF IInv, StoreTypes, Idle
<1>3. rest' \o channel' = Append(rest \o channel, l)
  BY WaitingFacts DEF IInv, StoreTypes
<1>4. Queue' = Append(Queue, l.stamp)
  <2>1. rest \o channel \in Seq(LineSet)
    BY QueueType DEF IInv
  <2>2. Stamps(Append(rest \o channel, l)) = Append(Stamps(rest \o channel), l.stamp)
    BY <2>1, StampsOfAppend
  <2> QED
    BY <1>3, <2>2 DEF Queue
<1>5. l.stamp \in (1..MaxMade) \ Feed!Known /\ made' \in Nat
  BY LineFields
<1>6. Feed!Next /\ HeardOnce' /\ Feed!Known' = Feed!Known \cup {l.stamp}
  BY <1>2, <1>4, <1>5, SubmitStep DEF IInv
<1>7. Buffers'
  BY DEF IInv, Buffers, MemoryAccounted, Idle
<1>8. DrainUnderWay'
  BY DEF IInv, DrainUnderWay, Idle
<1>9. StampIsFree'
  <2>1. pc' = "sending" => own' \in LineSet /\ own'.stamp \in 1..made' /\ own'.stamp \notin Feed!Known'
    BY <1>6 DEF IInv, StampIsFree, StoreTypes
  <2> QED
    BY <2>1 DEF StampIsFree
<1> QED
  BY <1>2, <1>6, <1>7, <1>8, <1>9 DEF IInv

(* Reading a line of a process announces it to the feed.                               *)
LEMMA ReadStep ==
  ASSUME IInv, NEW p \in Processes, Read(p) PROVE Feed!Next /\ IInv'
<1> DEFINE l == Line(p, made + 1, 2)
<1>1. /\ Len(channel) < Capacity /\ made < MaxMade /\ made' = made + 1
      /\ channel' = Append(channel, l)
      /\ UNCHANGED <<own, batch, rest, hot, memory, heard, pc, then>>
  BY DEF Read, Fresh, store
<1>2. made \in Nat /\ made + 1 \in 1..MaxMade /\ made' \in 0..MaxMade
  BY <1>1, Constants DEF IInv, StoreTypes
<1>3. l \in LineSet /\ l.stamp = made + 1
  BY <1>2, LineIsALine
<1>4. made + 1 \notin Feed!Known /\ (pc = "sending" => own.stamp # made + 1)
  BY <1>2 DEF IInv, HeardOnce, StampIsFree
<1> HIDE DEF l
<1> QED
  BY <1>1, <1>2, <1>3, <1>4, SentIsSubmitted

(* So does the line the daemon writes itself.                                          *)
LEMMA SendOwnStep ==
  ASSUME IInv, SendOwn PROVE Feed!Next /\ IInv'
<1>1. /\ pc = "sending" /\ Len(channel) < Capacity /\ channel' = Append(channel, own)
      /\ pc' = then /\ UNCHANGED <<made, batch, rest, hot, memory, heard, then>>
  BY DEF SendOwn, store
<1>2. own \in LineSet /\ own.stamp \in 1..made /\ own.stamp \notin Feed!Known
      /\ made \in 0..MaxMade
  BY <1>1 DEF IInv, StampIsFree, StoreTypes
<1>3. pc' \in Idle \cap {"select", "check", "answer", "stopping", "tick", "flush"}
      /\ pc' # "sending"
  BY <1>1 DEF IInv, StoreTypes, Idle
<1> QED
  BY <1>1, <1>2, <1>3, SentIsSubmitted

\* The engine makes a line and waits for room.
LEMMA ReportStep ==
  ASSUME IInv, Report PROVE UNCHANGED Feed!feed /\ IInv'
<1>1. PICK p \in Processes : Fresh /\ own' = Line(p, made + 1, 1)
  BY DEF Report
<1>2. /\ pc \in {"check", "answer", "stopping"} /\ pc' = "sending" /\ then' = pc
      /\ UNCHANGED <<channel, batch, rest, hot, memory, heard>>
      /\ made < MaxMade /\ made' = made + 1
  BY <1>1 DEF Report, store, Fresh
<1>3. made \in Nat /\ made + 1 \in 1..MaxMade /\ made' \in 0..MaxMade
  BY <1>2, Constants DEF IInv, StoreTypes
<1>4. StoreTypes'
  BY <1>2, <1>3 DEF IInv, StoreTypes
<1>5. Queue' = Queue
  BY <1>2 DEF Queue
<1>6. UNCHANGED Feed!feed /\ HeardOnce' /\ Feed!Known' = Feed!Known
  BY <1>2, <1>3, <1>4, <1>5, SameStep DEF IInv
<1>7. own' \in LineSet /\ own'.stamp = made + 1
  BY <1>1, <1>3, LineIsALine
<1>8. StampIsFree'
  BY <1>2, <1>3, <1>6, <1>7 DEF IInv, HeardOnce, StampIsFree
<1>9. Buffers' /\ DrainUnderWay'
  BY <1>2 DEF IInv, Buffers, MemoryAccounted, DrainUnderWay
<1> QED
  BY <1>4, <1>6, <1>8, <1>9 DEF IInv

\* A line that goes past the channel: it jumps the queue.
LEMMA PushLogStep ==
  ASSUME IInv, PushLog PROVE Feed!Next /\ IInv'
<1>1. PICK p \in Processes : Fresh /\ batch' = <<Line(p, made + 1, 1)>>
  BY DEF PushLog
<1> DEFINE l == Line(p, made + 1, 1)
<1>2. /\ pc \in {"check", "answer"} /\ pc' = "store" /\ then' = pc /\ rest' = batch'
      /\ UNCHANGED <<channel, hot, memory, heard>>
      /\ made < MaxMade /\ made' = made + 1
  BY <1>1 DEF PushLog, Fresh
<1>3. made \in Nat /\ made + 1 \in 1..MaxMade /\ made' \in 0..MaxMade
  BY <1>2, Constants DEF IInv, StoreTypes
<1>4. l \in LineSet /\ l.stamp = made + 1
  BY <1>3, LineIsALine
<1> HIDE DEF l
<1>5. batch' = <<l>> /\ rest' = <<l>> /\ <<l>> \in Seq(LineSet) /\ <<l>> # <<>>
  BY <1>1, <1>2, <1>4 DEF l
<1>6. StoreTypes'
  BY <1>2, <1>3, <1>5 DEF IInv, StoreTypes
<1>7. rest = <<>> /\ channel \in Seq(LineSet)
  BY <1>2 DEF IInv, DrainUnderWay, StoreTypes
<1>8. Queue' = <<made + 1>> \o Queue
  <2>1. rest \o channel = channel
    BY <1>7, ConcatEmptySeq
  <2>2. Stamps(<<l>> \o channel) = <<l.stamp>> \o Stamps(channel)
    BY <1>4, <1>7, StampsOfInserted
  <2> QED
    BY <1>2, <1>4, <1>5, <2>1, <2>2 DEF Queue
<1>9. made + 1 \in (1..MaxMade) \ Feed!Known
  BY <1>3 DEF IInv, HeardOnce
<1>10. Feed!Next /\ HeardOnce'
  <2>1. made' \in Nat /\ made <= made' /\ made + 1 <= made' /\ UNCHANGED heard
    BY <1>2, <1>3
  <2> QED
    BY <1>6, <1>8, <1>9, <2>1, SubmitStep DEF IInv
<1>11. Buffers' /\ DrainUnderWay' /\ StampIsFree'
  BY <1>2, <1>5 DEF IInv, Buffers, MemoryAccounted, DrainUnderWay, StampIsFree
<1> QED
  BY <1>6, <1>10, <1>11 DEF IInv

\* The drain takes a line out of the channel: it waits on.
LEMMA CollectStep ==
  ASSUME IInv, Collect, channel # <<>> PROVE UNCHANGED Feed!feed /\ IInv'
<1>1. /\ pc = "collect" /\ channel' = Tail(channel)
      /\ batch' = Append(batch, Head(channel)) /\ rest' = Append(rest, Head(channel))
      /\ UNCHANGED <<made, own, hot, memory, heard, pc, then>>
  BY DEF Collect, lines
<1>2. /\ channel \in Seq(LineSet) /\ rest \in Seq(LineSet) /\ batch \in Seq(LineSet)
      /\ Head(channel) \in LineSet /\ Tail(channel) \in Seq(LineSet)
      /\ Len(Tail(channel)) = Len(channel) - 1 /\ Len(channel) \in Nat
      /\ Len(channel) <= Capacity
  BY HeadTailProperties, LenProperties DEF IInv, StoreTypes
<1>3. /\ batch' \in Seq(LineSet) /\ batch' # <<>> /\ rest' \in Seq(LineSet)
      /\ Len(channel') <= Capacity
  BY <1>1, <1>2, AppendProperties, Constants
<1>4. StoreTypes'
  BY <1>1, <1>2, <1>3 DEF IInv, StoreTypes
<1>5. rest' \o channel' = rest \o channel
  BY <1>1, <1>2, WaitingFacts
<1>6. Queue' = Queue /\ made' \in Nat /\ made <= made'
  <2>1. Queue' = Queue
    BY <1>5 DEF Queue
  <2>2. made \in Nat /\ made' = made
    BY <1>1 DEF IInv, StoreTypes
  <2> QED
    BY <2>1, <2>2
<1>7. UNCHANGED Feed!feed /\ HeardOnce' /\ Feed!Known' = Feed!Known
  BY <1>1, <1>4, <1>6, SameStep DEF IInv
<1>8. Buffers' /\ DrainUnderWay' /\ StampIsFree'
  BY <1>1, <1>3 DEF IInv, Buffers, MemoryAccounted, DrainUnderWay, StampIsFree
<1> QED
  BY <1>4, <1>7, <1>8 DEF IInv

(* A line goes into its buffer, and a full buffer loses its oldest.                        *)
LEMMA LastOfFacts ==
  ASSUME NEW s \in Seq(LineSet), NEW n \in Nat
  PROVE  LastOf(s, n) \in Seq(LineSet) /\ Len(LastOf(s, n)) <= n
<1>1. Len(s) \in Nat /\ \A i \in 1..Len(s) : s[i] \in LineSet
  BY LenProperties, ElementOfSeq
<1>2. CASE Len(s) > n
  <2>1. Len(s) - n + 1 \in Int /\ \A i \in (Len(s) - n + 1)..Len(s) : s[i] \in LineSet
    BY <1>1, <1>2
  <2>2. /\ SubSeq(s, Len(s) - n + 1, Len(s)) \in Seq(LineSet)
        /\ Len(SubSeq(s, Len(s) - n + 1, Len(s)))
             = IF Len(s) - n + 1 <= Len(s) THEN Len(s) - (Len(s) - n + 1) + 1 ELSE 0
    BY <1>1, <2>1, SubSeqProperties
  <2> QED
    BY <1>1, <1>2, <2>2 DEF LastOf
<1>3. CASE ~(Len(s) > n)
  BY <1>1, <1>3 DEF LastOf
<1> QED
  BY <1>2, <1>3

\* What is heard next, or an eviction: the end of Store and of Evict.
LEMMA HearOrEvict ==
  ASSUME IInv, Buffers', rest # <<>>, UNCHANGED <<made, channel, batch, then>>,
         \/ pc' = "evict" /\ UNCHANGED <<rest, heard>>
         \/ Broadcast
  PROVE  [Feed!Next]_(Feed!feed) /\ IInv'
<1>1. CASE pc' = "evict" /\ UNCHANGED <<rest, heard>>
  <2>1. StoreTypes'
    BY <1>1 DEF IInv, StoreTypes
  <2>2. Queue' = Queue
    BY <1>1 DEF Queue
  <2>3. made' \in Nat /\ made <= made'
    BY DEF IInv, StoreTypes
  <2>4. UNCHANGED Feed!feed /\ HeardOnce'
    BY <1>1, <2>1, <2>2, <2>3, SameStep DEF IInv
  <2>5. DrainUnderWay' /\ StampIsFree'
    BY <1>1 DEF IInv, DrainUnderWay, StampIsFree
  <2> QED
    BY <2>1, <2>4, <2>5 DEF IInv
<1>2. CASE Broadcast
  <2>1. heard' = Append(heard, Head(rest).stamp) /\ rest' = Tail(rest) /\ pc' = "store"
    BY <1>2 DEF Broadcast
  <2>2. rest \in Seq(LineSet) /\ heard \in Seq(1..MaxMade) /\ Head(rest).stamp \in 1..MaxMade
        /\ rest' \in Seq(LineSet)
    BY <2>1, HeadTailProperties, LineFields DEF IInv, StoreTypes
  <2>3. heard' \in Seq(1..MaxMade)
    BY <2>1, <2>2, AppendProperties
  <2>4. StoreTypes'
    BY <2>1, <2>2, <2>3 DEF IInv, StoreTypes
  <2>5. Feed!Next /\ HeardOnce'
    BY <2>1, <2>4, HearStep DEF IInv
  <2>6. DrainUnderWay' /\ StampIsFree'
    BY <2>1 DEF IInv, DrainUnderWay, StampIsFree
  <2> QED
    BY <2>4, <2>5, <2>6 DEF IInv
<1> QED
  BY <1>1, <1>2

(* Storing the next line of a drain is a step of the feed.                             *)
LEMMA StoreStep ==
  ASSUME IInv, Store PROVE [Feed!Next]_(Feed!feed) /\ IInv'
<1> DEFINE l == Head(rest)
           p == l.process
           grown == Append(hot[p], l)
           kept == LastOf(grown, MaxLines)
<1>1. /\ pc = "store" /\ rest # <<>> /\ hot' = [hot EXCEPT ![p] = kept]
      /\ memory' = memory + l.size - (SizeOf(grown) - SizeOf(kept))
      /\ UNCHANGED <<made, channel, batch, then>>
      /\ \/ memory' > Threshold /\ pc' = "evict" /\ UNCHANGED <<rest, heard>>
         \/ ~(memory' > Threshold) /\ Broadcast
  BY DEF Store, lines
<1>2. l \in LineSet /\ p \in Processes /\ l.size \in 1..2
  BY <1>1, HeadTailProperties, LineFields DEF IInv, StoreTypes
<1>3. hot \in [Processes -> Seq(LineSet)] /\ hot[p] \in Seq(LineSet) /\ memory = Held(hot)
      /\ \A q \in Processes : Len(hot[q]) <= MaxLines
  BY <1>2 DEF IInv, Buffers, MemoryAccounted
<1> HIDE DEF l, p
<1>4. grown \in Seq(LineSet) /\ SizeOf(grown) = SizeOf(hot[p]) + l.size
  BY <1>2, <1>3, AppendProperties, SizeOfAppend
<1>5. kept \in Seq(LineSet) /\ Len(kept) <= MaxLines
  BY <1>4, LastOfFacts, Constants
<1> HIDE DEF grown, kept
<1>6. /\ Held(hot) \in Nat /\ SizeOf(hot[p]) \in Nat /\ SizeOf(kept) \in Nat
      /\ Held(hot') = (Held(hot) - SizeOf(hot[p])) + SizeOf(kept)
  BY <1>1, <1>2, <1>3, <1>5, HeldFacts
<1>7. memory' = Held(hot') /\ memory' \in Int
  BY <1>1, <1>2, <1>3, <1>4, <1>6
<1>8. hot' \in [Processes -> Seq(LineSet)] /\ \A q \in Processes : Len(hot'[q]) <= MaxLines
  BY <1>1, <1>2, <1>3, <1>5
<1>9. pc' # "evict" => memory' <= Threshold
  BY <1>1, <1>7, Constants DEF Broadcast
<1>10. Buffers'
  BY <1>7, <1>8, <1>9 DEF Buffers, MemoryAccounted
<1> QED
  BY <1>1, <1>10, HearOrEvict

(* An eviction and the line that reports it are a step of the feed.                    *)
LEMMA EvictStep ==
  ASSUME IInv, Evict PROVE [Feed!Next]_(Feed!feed) /\ IInv'
<1>1. PICK p \in Longest : hot' = [hot EXCEPT ![p] = Tail(@)] /\ memory' = memory - Head(hot[p]).size
  BY DEF Evict
<1>2. /\ pc = "evict" /\ rest # <<>> /\ p \in Processes /\ hot[p] # <<>>
      /\ UNCHANGED <<made, channel, batch, then>>
      /\ \/ memory' > Target /\ pc' = "evict" /\ UNCHANGED <<rest, heard>>
         \/ ~(memory' > Target) /\ Broadcast
  BY DEF Evict, lines, Longest, IInv, DrainUnderWay
<1>3. hot \in [Processes -> Seq(LineSet)] /\ hot[p] \in Seq(LineSet) /\ memory = Held(hot)
      /\ \A q \in Processes : Len(hot[q]) <= MaxLines
  BY <1>2 DEF IInv, Buffers, MemoryAccounted
<1> DEFINE kept == Tail(hot[p])
<1>4. /\ kept \in Seq(LineSet) /\ SizeOf(kept) = SizeOf(hot[p]) - Head(hot[p]).size
      /\ Len(kept) = Len(hot[p]) - 1 /\ Len(hot[p]) \in Nat /\ Head(hot[p]).size \in 1..2
      /\ hot' = [hot EXCEPT ![p] = kept]
  BY <1>1, <1>2, <1>3, HeadTailProperties, LenProperties, LineFields, SizeOfTail
<1> HIDE DEF kept
<1>5. /\ Held(hot) \in Nat /\ SizeOf(hot[p]) \in Nat /\ SizeOf(kept) \in Nat
      /\ Held(hot') = (Held(hot) - SizeOf(hot[p])) + SizeOf(kept)
  BY <1>2, <1>3, <1>4, HeldFacts
<1>6. memory' = Held(hot') /\ memory' \in Int
  BY <1>1, <1>3, <1>4, <1>5, SMTT(30)
<1>7. Len(kept) <= MaxLines
  BY <1>2, <1>3, <1>4, Constants
<1>8. hot' \in [Processes -> Seq(LineSet)] /\ \A q \in Processes : Len(hot'[q]) <= MaxLines
  BY <1>2, <1>3, <1>4, <1>7
<1>9. pc' # "evict" => memory' <= Threshold
  BY <1>2, <1>6, Constants DEF Broadcast
<1>10. Buffers'
  BY <1>6, <1>8, <1>9 DEF Buffers, MemoryAccounted
<1> QED
  BY <1>2, <1>10, HearOrEvict

\* The daemon goes: what waits in memory goes with it.
LEMMA GoDownStep ==
  ASSUME IInv, \E where \in {"down", "select"} : GoDown(where), UNCHANGED <<made, heard>>
  PROVE  Feed!Next /\ IInv'
<1>1. /\ pc' \in {"down", "select"} /\ then' = "select"
      /\ channel' = <<>> /\ batch' = <<>> /\ rest' = <<>>
      /\ hot' = [q \in Processes |-> <<>>] /\ memory' = 0
  BY DEF GoDown
<1>2. StoreTypes'
  BY <1>1, EmptySeq, Constants DEF IInv, StoreTypes
<1>3. Feed!Next /\ HeardOnce'
  BY <1>1, <1>2, GoneStep DEF IInv
<1>4. <<>> \in Seq(LineSet) /\ Len(<<>>) = 0 /\ Held(hot') = 0
  BY <1>1, EmptySeq, HeldFacts
<1>5. Buffers'
  BY <1>1, <1>4, Constants DEF Buffers, MemoryAccounted
<1>6. DrainUnderWay' /\ StampIsFree'
  BY <1>1 DEF DrainUnderWay, StampIsFree
<1> QED
  BY <1>2, <1>3, <1>5, <1>6 DEF IInv

-----------------------------------------------------------------------------
(* Every step of the store is a step of the feed or none, and keeps the invariant.         *)
LEMMA NextKeepsIInv ==
  ASSUME IInv, [Next]_vars PROVE [Feed!Next]_(Feed!feed) /\ IInv'
<1>1. CASE Flush \/ Crash \/ Restart
  <2>1. (\E where \in {"down", "select"} : GoDown(where)) /\ UNCHANGED <<made, heard>>
    BY <1>1 DEF Flush, Crash, Restart
  <2> QED
    BY <2>1, GoDownStep
<1>2. CASE \E p \in Processes : Read(p)
  BY <1>2, ReadStep
<1>3. CASE Collect
  BY <1>3, CollectStep, QuietActions
<1>4. CASE Report \/ SendOwn \/ PushLog
  BY <1>4, ReportStep, SendOwnStep, PushLogStep
<1>5. CASE Store \/ Evict
  BY <1>5, StoreStep, EvictStep
<1>6. CASE \/ Stored \/ Write \/ Sweep \/ Trim \/ BeginPoll \/ BeginRequest \/ BeginShutdown
           \/ RetentionTick \/ EndTurn \/ EndStops \/ Elapse \/ UNCHANGED vars
  BY <1>6, QuietActions
<1> QED
  BY <1>1, <1>2, <1>3, <1>4, <1>5, <1>6 DEF Next

(* The first state.                                                                    *)
LEMMA InitEstablishesIInv == ASSUME Init PROVE Feed!Init /\ IInv
<1>1. /\ channel = <<>> /\ batch = <<>> /\ rest = <<>> /\ heard = <<>> /\ made = 0 /\ memory = 0
      /\ hot = [q \in Processes |-> <<>>] /\ pc = "select" /\ then = "select"
  BY DEF Init
<1>2. <<>> \in Seq(LineSet) /\ <<>> \in Seq(1..MaxMade) /\ Len(<<>>) = 0
  BY EmptySeq
<1>3. StoreTypes
  BY <1>1, <1>2, Constants DEF StoreTypes
<1>4. Buffers
  <2>1. Held(hot) = 0 /\ hot \in [Processes -> Seq(LineSet)]
    BY <1>1, <1>2, HeldFacts
  <2> QED
    BY <1>1, <1>2, <2>1, Constants DEF Buffers, MemoryAccounted
<1>5. Queue = <<>>
  <2>1. rest \o channel = <<>>
    BY <1>1, <1>2, ConcatEmptySeq
  <2>2. Stamps(<<>>) = <<>>
    BY StampsFacts, EmptySeq
  <2> QED
    BY <2>1, <2>2 DEF Queue
<1>6. HeardOnce
  BY <1>1, <1>5, EmptyHasNone, FeedIs DEF HeardOnce
<1>7. Feed!Init /\ DrainUnderWay /\ StampIsFree
  BY <1>1, <1>5, FeedIs DEF DrainUnderWay, StampIsFree
<1> QED
  BY <1>3, <1>4, <1>6, <1>7 DEF IInv

-----------------------------------------------------------------------------
(* The inductive invariant of the log store, for every channel, limit and policy.          *)
THEOREM StoreInvariant == Spec => []IInv
<1>1. IInv /\ [Next]_vars => IInv'
  BY NextKeepsIInv
<1> QED
  BY <1>1, InitEstablishesIInv, PTL DEF Spec

(* The log store keeps the promise of LineFeed: push, push_internal, drain and the engine's *)
(* own push_log do to the lines on their way and to what was heard only what the feed may.  *)
THEOREM StoreIsALineFeed == Spec => FeedSpec
<1>1. Init => Feed!Init
  BY InitEstablishesIInv
<1>2. IInv /\ [Next]_vars => [Feed!Next]_(Feed!feed)
  BY NextKeepsIInv
<1> QED
  BY <1>1, <1>2, StoreInvariant, PTL DEF Spec, FeedSpec, Feed!Spec

(* estimated_memory is what the buffers hold, after whichever eviction, no buffer is longer *)
(* than max_lines, and between two lines the whole is under its threshold.                  *)
THEOREM MemoryIsAccounted == Spec => []MemoryAccounted
<1>1. IInv => MemoryAccounted
  BY DEF IInv, Buffers
<1> QED
  BY <1>1, StoreInvariant, PTL

(* No subscriber hears a line twice, and none that was heard is still on its way.           *)
THEOREM LinesAreHeardOnce == Spec => []HeardOnce
<1>1. IInv => HeardOnce
  BY DEF IInv
<1> QED
  BY <1>1, StoreInvariant, PTL

-----------------------------------------------------------------------------
(* What a set of lines leaves of a sequence of them. *)

\* f has at n what S leaves of the first n lines of s.
Keeps(s, S, f) ==
  /\ f \in [0..Len(s) -> Seq(LineSet)]
  /\ f[0] = <<>>
  /\ \A n \in 1..Len(s) : f[n] = IF s[n] \in S THEN Append(f[n - 1], s[n]) ELSE f[n - 1]

(* Every sequence has a function of what its beginnings keep.                          *)
LEMMA KeepsExists ==
  ASSUME NEW s \in Seq(LineSet), NEW S PROVE \E f : Keeps(s, S, f)
<1> DEFINE N == Len(s)
           Step(n, k) == IF s[n] \in S THEN Append(k, s[n]) ELSE k
           Upto(n, f) == /\ f \in [0..n -> Seq(LineSet)] /\ f[0] = <<>>
                         /\ \A i \in 1..n : f[i] = Step(i, f[i - 1])
           G == {n \in 0..N : \E f : Upto(n, f)}
<1>1. N \in Nat /\ \A i \in 1..N : s[i] \in LineSet
  BY LenProperties, ElementOfSeq
<1>2. Upto(0, [i \in 0..0 |-> <<>>])
  BY EmptySeq
<1>3. ASSUME NEW n \in 0..(N - 1), NEW f, Upto(n, f) PROVE \E g : Upto(n + 1, g)
  <2> DEFINE g == [i \in 0..(n + 1) |-> IF i = n + 1 THEN Step(n + 1, f[n]) ELSE f[i]]
  <2>2. n \in Nat /\ n + 1 \in 1..N /\ f[n] \in Seq(LineSet) /\ s[n + 1] \in LineSet
    BY <1>1, <1>3
  <2>3. Step(n + 1, f[n]) \in Seq(LineSet)
    BY <2>2, AppendProperties
  <2> HIDE DEF Step
  <2>4. g \in [0..(n + 1) -> Seq(LineSet)] /\ g[0] = <<>>
    BY <1>3, <2>2, <2>3
  <2>5. ASSUME NEW i \in 1..(n + 1) PROVE g[i] = Step(i, g[i - 1])
    <3>1. CASE i = n + 1
      BY <2>2, <3>1
    <3>2. CASE i \in 1..n
      BY <1>3, <2>2, <3>2
    <3> QED
      BY <2>2, <3>1, <3>2
  <2> QED
    BY <2>4, <2>5
<1> HIDE DEF Upto
<1>4. 0 \in G
  BY <1>1, <1>2
<1>5. ASSUME NEW n \in 0..(N - 1), n \in G PROVE n + 1 \in G
  BY <1>1, <1>3, <1>5
<1> HIDE DEF G
<1>6. 0..N \subseteq G
  BY <1>1, <1>4, <1>5, Upward
<1>7. N \in G
  BY <1>1, <1>6
<1> USE DEF G, Upto
<1> QED
  BY <1>7 DEF Keeps

(* Keeping is the last of these.                                                       *)
LEMMA KeepingIsTheLast ==
  ASSUME NEW s \in Seq(LineSet), NEW S, NEW f, Keeps(s, S, f)
  PROVE  Keeping(s, S) = f[Len(s)] /\ Keeping(s, S) \in Seq(LineSet)
<1> DEFINE N == Len(s)
           kept[n \in 0..N] ==
             IF n = 0 THEN <<>>
             ELSE IF s[n] \in S THEN Append(kept[n - 1], s[n]) ELSE kept[n - 1]
           G == {n \in 0..N : kept[n] = f[n]}
<1>1. Keeping(s, S) = kept[N]
  BY DEF Keeping
<1>2. kept = CHOOSE g : g = [n \in 0..N |->
               IF n = 0 THEN <<>>
               ELSE IF s[n] \in S THEN Append(g[n - 1], s[n]) ELSE g[n - 1]]
  BY DEF kept
<1> HIDE DEF kept
<1>3. N \in Nat
  BY LenProperties
<1>4. f = [n \in 0..N |->
             IF n = 0 THEN <<>>
             ELSE IF s[n] \in S THEN Append(f[n - 1], s[n]) ELSE f[n - 1]]
  <2>1. ASSUME NEW n \in 0..N
        PROVE  f[n] = IF n = 0 THEN <<>>
                      ELSE IF s[n] \in S THEN Append(f[n - 1], s[n]) ELSE f[n - 1]
    <3>1. CASE n = 0
      BY <3>1 DEF Keeps
    <3>2. CASE n \in 1..N
      <4>1. n # 0
        BY <3>2
      <4> QED
        BY <3>2, <4>1 DEF Keeps
    <3> QED
      BY <1>3, <3>1, <3>2
  <2> QED
    BY <2>1 DEF Keeps
<1>5. kept = [n \in 0..N |->
                IF n = 0 THEN <<>>
                ELSE IF s[n] \in S THEN Append(kept[n - 1], s[n]) ELSE kept[n - 1]]
  BY <1>2, <1>4
<1>6. 0 \in G
  BY <1>3, <1>5 DEF Keeps
<1>7. ASSUME NEW n \in 0..(N - 1), n \in G PROVE n + 1 \in G
  <2>1. n + 1 \in 1..N /\ n + 1 \in 0..N /\ (n + 1) - 1 = n /\ n + 1 # 0 /\ kept[n] = f[n]
    BY <1>3, <1>7
  <2> DEFINE m == n + 1
  <2>3. kept[m] = IF m = 0 THEN <<>>
                  ELSE IF s[m] \in S THEN Append(kept[m - 1], s[m]) ELSE kept[m - 1]
    <3>1. m \in 0..N
      BY <2>1
    <3> HIDE DEF m
    <3> QED
      BY <1>5, <3>1
  <2>2. kept[n + 1] = IF s[n + 1] \in S THEN Append(kept[n], s[n + 1]) ELSE kept[n]
    BY <2>1, <2>3
  <2> QED
    BY <1>3, <2>1, <2>2 DEF Keeps
<1> HIDE DEF G
<1>a. 0..N \subseteq G
  BY <1>3, <1>6, <1>7, Upward
<1>8. N \in G
  BY <1>3, <1>a
<1> USE DEF G
<1> QED
  BY <1>1, <1>3, <1>8 DEF Keeps

(* Nothing is kept of nothing.                                                         *)
LEMMA KeepingOfNothing == ASSUME NEW S PROVE Keeping(<<>>, S) = <<>>
<1>1. <<>> \in Seq(LineSet) /\ Len(<<>>) = 0
  BY EmptySeq
<1>2. Keeps(<<>>, S, [n \in 0..0 |-> <<>>])
  BY <1>1 DEF Keeps
<1> QED
  BY <1>1, <1>2, KeepingIsTheLast

(* Keeping of an append.                                                               *)
LEMMA KeepingOfAppend ==
  ASSUME NEW s \in Seq(LineSet), NEW l \in LineSet, NEW S
  PROVE  /\ Keeping(Append(s, l), S) = IF l \in S THEN Append(Keeping(s, S), l) ELSE Keeping(s, S)
         /\ Keeping(s, S) \in Seq(LineSet)
<1> DEFINE N == Len(s)
           t == Append(s, l)
<1>1. PICK f : Keeps(s, S, f)
  BY KeepsExists
<1> DEFINE last == IF l \in S THEN Append(f[N], l) ELSE f[N]
           g == [n \in 0..(N + 1) |-> IF n = N + 1 THEN last ELSE f[n]]
<1>2. /\ N \in Nat /\ t \in Seq(LineSet) /\ Len(t) = N + 1 /\ t[N + 1] = l
      /\ \A i \in 1..N : t[i] = s[i]
  BY LenProperties, AppendProperties
<1>3. f[N] \in Seq(LineSet) /\ last \in Seq(LineSet)
  BY <1>1, <1>2, AppendProperties DEF Keeps
<1> HIDE DEF last, t
<1>4. Keeps(t, S, g)
  <2>1. g \in [0..(N + 1) -> Seq(LineSet)] /\ g[0] = <<>>
    BY <1>1, <1>2, <1>3 DEF Keeps
  <2>2. ASSUME NEW n \in 1..(N + 1)
        PROVE  g[n] = IF t[n] \in S THEN Append(g[n - 1], t[n]) ELSE g[n - 1]
    <3>1. CASE n = N + 1
      BY <1>2, <3>1 DEF last
    <3>2. CASE n \in 1..N
      <4>1. g[n] = f[n] /\ g[n - 1] = f[n - 1] /\ t[n] = s[n]
        BY <1>2, <3>2
      <4>2. f[n] = IF s[n] \in S THEN Append(f[n - 1], s[n]) ELSE f[n - 1]
        BY <1>1, <3>2 DEF Keeps
      <4> HIDE DEF g
      <4> QED
        BY <4>1, <4>2
    <3> QED
      BY <1>2, <3>1, <3>2
  <2> HIDE DEF g
  <2> QED
    BY <1>2, <2>1, <2>2 DEF Keeps
<1>5. Keeping(t, S) = g[N + 1]
  BY <1>2, <1>4, KeepingIsTheLast
<1>6. Keeping(s, S) = f[N]
  BY <1>1, KeepingIsTheLast
<1> QED
  BY <1>2, <1>3, <1>5, <1>6 DEF last, t

(* What is kept are lines.                                                             *)
LEMMA KeepingType ==
  ASSUME NEW s \in Seq(LineSet), NEW S PROVE Keeping(s, S) \in Seq(LineSet)
BY KeepsExists, KeepingIsTheLast

(* Keeping goes through a concatenation.                                               *)
LEMMA KeepingOfConcat ==
  ASSUME NEW s \in Seq(LineSet), NEW t \in Seq(LineSet), NEW S
  PROVE  Keeping(s \o t, S) = Keeping(s, S) \o Keeping(t, S)
<1> DEFINE G == {u \in Seq(LineSet) : Keeping(s \o u, S) = Keeping(s, S) \o Keeping(u, S)}
<1>1. <<>> \in G
  BY EmptySeq, ConcatEmptySeq, KeepingOfNothing, KeepingType
<1>2. ASSUME NEW u \in Seq(LineSet), NEW e \in LineSet, u \in G PROVE Append(u, e) \in G
  <2>1. Append(u, e) \in Seq(LineSet) /\ s \o u \in Seq(LineSet)
    BY AppendProperties, ConcatProperties
  <2>2. Keeping(s \o Append(u, e), S) = IF e \in S THEN Append(Keeping(s \o u, S), e)
                                                  ELSE Keeping(s \o u, S)
    <3>1. s \o Append(u, e) = Append(s \o u, e)
      BY AppendToConcat
    <3>2. Keeping(Append(s \o u, e), S) = IF e \in S THEN Append(Keeping(s \o u, S), e)
                                                    ELSE Keeping(s \o u, S)
      BY <2>1, KeepingOfAppend
    <3> QED
      BY <3>1, <3>2
  <2>3. Keeping(Append(u, e), S) = IF e \in S THEN Append(Keeping(u, S), e) ELSE Keeping(u, S)
    BY KeepingOfAppend
  <2>4. Keeping(s, S) \o Append(Keeping(u, S), e) = Append(Keeping(s, S) \o Keeping(u, S), e)
    BY KeepingType, AppendToConcat
  <2> QED
    BY <1>2, <2>1, <2>2, <2>3, <2>4
<1> HIDE DEF G
<1>3. Seq(LineSet) \subseteq G
  BY <1>1, <1>2, ByAppending
<1> QED
  BY <1>3 DEF G

(* What is kept is what belongs, each as often.                                        *)
LEMMA KeepingIsAMeet ==
  ASSUME NEW s \in Seq(LineSet), NEW S
  PROVE  /\ ToSet(Keeping(s, S)) = ToSet(s) \cap S
         /\ NoneTwice(s) => NoneTwice(Keeping(s, S))
<1> DEFINE G == {u \in Seq(LineSet) : /\ ToSet(Keeping(u, S)) = ToSet(u) \cap S
                                      /\ NoneTwice(u) => NoneTwice(Keeping(u, S))}
<1>1. <<>> \in G
  BY EmptySeq, EmptyHasNone, KeepingOfNothing
<1>2. ASSUME NEW u \in Seq(LineSet), NEW e \in LineSet, u \in G PROVE Append(u, e) \in G
  <2>1. Append(u, e) \in Seq(LineSet) /\ ToSet(Append(u, e)) = ToSet(u) \cup {e}
    BY AppendProperties, AppendedIsIn
  <2>2. Keeping(Append(u, e), S) = IF e \in S THEN Append(Keeping(u, S), e) ELSE Keeping(u, S)
    BY KeepingOfAppend
  <2>3. /\ ToSet(Append(Keeping(u, S), e)) = ToSet(Keeping(u, S)) \cup {e}
        /\ NoneTwice(Keeping(u, S)) /\ e \notin ToSet(Keeping(u, S))
             => NoneTwice(Append(Keeping(u, S), e))
    BY KeepingType, AppendedIsIn
  <2>4. NoneTwice(Append(u, e)) => NoneTwice(u) /\ e \notin ToSet(u)
    <3> SUFFICES ASSUME NoneTwice(Append(u, e)) PROVE NoneTwice(u) /\ e \notin ToSet(u)
      OBVIOUS
    <3> DEFINE t == Append(u, e)
    <3>1. /\ Len(u) \in Nat /\ DOMAIN u = 1..Len(u) /\ DOMAIN t = 1..(Len(u) + 1)
          /\ \A i \in 1..Len(u) : t[i] = u[i]
          /\ t[Len(u) + 1] = e
      BY <2>1, LenProperties, AppendProperties
    <3>2. \A i \in 1..Len(u) : i \in DOMAIN t /\ Len(u) + 1 \in DOMAIN t /\ i # Len(u) + 1
      BY <3>1
    <3> HIDE DEF t
    <3>3. \A i, j \in DOMAIN t : t[i] = t[j] => i = j
      BY DEF NoneTwice, t
    <3> QED
      BY <3>1, <3>2, <3>3 DEF NoneTwice, ToSet
  <2>5. ToSet(Keeping(Append(u, e), S)) = (ToSet(u) \cup {e}) \cap S
    BY <1>2, <2>2, <2>3
  <2>6. NoneTwice(Append(u, e)) => NoneTwice(Keeping(Append(u, e), S))
    BY <1>2, <2>2, <2>3, <2>4
  <2> QED
    BY <2>1, <2>5, <2>6
<1> HIDE DEF G
<1>3. Seq(LineSet) \subseteq G
  BY <1>1, <1>2, ByAppending
<1> QED
  BY <1>3 DEF G

(* Where all belong, all are kept, and none where none do.                             *)
LEMMA KeepingAllOrNone ==
  ASSUME NEW s \in Seq(LineSet), NEW S
  PROVE  /\ ToSet(s) \subseteq S => Keeping(s, S) = s
         /\ ToSet(s) \cap S = {} => Keeping(s, S) = <<>>
<1> DEFINE G == {u \in Seq(LineSet) : /\ ToSet(u) \subseteq S => Keeping(u, S) = u
                                      /\ ToSet(u) \cap S = {} => Keeping(u, S) = <<>>}
<1>1. <<>> \in G
  BY EmptySeq, KeepingOfNothing
<1>2. ASSUME NEW u \in Seq(LineSet), NEW e \in LineSet, u \in G PROVE Append(u, e) \in G
  <2>1. Append(u, e) \in Seq(LineSet) /\ ToSet(Append(u, e)) = ToSet(u) \cup {e}
    BY AppendProperties, AppendedIsIn
  <2>2. Keeping(Append(u, e), S) = IF e \in S THEN Append(Keeping(u, S), e) ELSE Keeping(u, S)
    BY KeepingOfAppend
  <2> QED
    BY <1>2, <2>1, <2>2
<1> HIDE DEF G
<1>3. Seq(LineSet) \subseteq G
  BY <1>1, <1>2, ByAppending
<1> QED
  BY <1>3 DEF G

(* To keep twice is to keep what belongs to both.                                      *)
LEMMA KeepingTwice ==
  ASSUME NEW s \in Seq(LineSet), NEW S, NEW R
  PROVE  Keeping(Keeping(s, S), R) = Keeping(s, S \cap R)
<1> DEFINE G == {u \in Seq(LineSet) : Keeping(Keeping(u, S), R) = Keeping(u, S \cap R)}
<1>1. <<>> \in G
  BY EmptySeq, KeepingOfNothing
<1>2. ASSUME NEW u \in Seq(LineSet), NEW e \in LineSet, u \in G PROVE Append(u, e) \in G
  <2>1. Append(u, e) \in Seq(LineSet)
    BY AppendProperties
  <2>2. Keeping(Append(u, e), S) = IF e \in S THEN Append(Keeping(u, S), e) ELSE Keeping(u, S)
    BY KeepingOfAppend
  <2>3. Keeping(Append(u, e), S \cap R) = IF e \in S \cap R THEN Append(Keeping(u, S \cap R), e)
                                                            ELSE Keeping(u, S \cap R)
    BY KeepingOfAppend
  <2>4. Keeping(Append(Keeping(u, S), e), R) =
          IF e \in R THEN Append(Keeping(Keeping(u, S), R), e) ELSE Keeping(Keeping(u, S), R)
    BY KeepingType, KeepingOfAppend
  <2>5. Keeping(Keeping(u, S), R) = Keeping(u, S \cap R)
    BY <1>2
  <2>6. CASE e \in S \cap R
    <3>1. Keeping(Append(u, e), S) = Append(Keeping(u, S), e) /\ e \in R
      BY <2>2, <2>6
    <3>2. Keeping(Keeping(Append(u, e), S), R) = Append(Keeping(u, S \cap R), e)
      BY <2>4, <2>5, <3>1
    <3> QED
      BY <2>1, <2>3, <2>6, <3>2
  <2>7. CASE e \in S /\ e \notin R
    <3>1. Keeping(Append(u, e), S) = Append(Keeping(u, S), e) /\ e \notin S \cap R
      BY <2>2, <2>7
    <3>2. Keeping(Keeping(Append(u, e), S), R) = Keeping(u, S \cap R)
      BY <2>4, <2>5, <2>7, <3>1
    <3> QED
      BY <2>1, <2>3, <3>1, <3>2
  <2>8. CASE e \notin S
    <3>1. Keeping(Append(u, e), S) = Keeping(u, S) /\ e \notin S \cap R
      BY <2>2, <2>8
    <3> QED
      BY <2>1, <2>3, <2>5, <3>1
  <2> QED
    BY <2>6, <2>7, <2>8
<1> HIDE DEF G
<1>3. Seq(LineSet) \subseteq G
  BY <1>1, <1>2, ByAppending
<1> QED
  BY <1>3 DEF G

(* Keeping goes by the head.                                                           *)
LEMMA KeepingOfTail ==
  ASSUME NEW s \in Seq(LineSet), s # <<>>, NEW S
  PROVE  Keeping(s, S) = IF Head(s) \in S THEN <<Head(s)>> \o Keeping(Tail(s), S)
                                          ELSE Keeping(Tail(s), S)
<1> DEFINE h == Head(s)
           t == Tail(s)
           k == Keeping(t, S)
<1>1. h \in LineSet /\ t \in Seq(LineSet) /\ <<h>> \in Seq(LineSet) /\ s = <<h>> \o t
  BY HeadAndTail
<1> HIDE DEF h, t
<1>2. Keeping(s, S) = Keeping(<<h>>, S) \o k
  BY <1>1, KeepingOfConcat
<1>a. k \in Seq(LineSet)
  BY <1>1, KeepingType
<1>3. Keeping(<<h>>, S) = IF h \in S THEN <<h>> ELSE <<>>
  <2>1. <<>> \in Seq(LineSet) /\ Append(<<>>, h) = <<h>>
    BY EmptySeq
  <2>2. Keeping(Append(<<>>, h), S) = IF h \in S THEN Append(Keeping(<<>>, S), h)
                                                 ELSE Keeping(<<>>, S)
    BY <1>1, <2>1, KeepingOfAppend
  <2> QED
    BY <2>1, <2>2, KeepingOfNothing
<1> HIDE DEF k
<1>4. <<>> \o k = k
  BY <1>a, ConcatEmptySeq
<1>5. Keeping(s, S) = IF h \in S THEN <<h>> \o k ELSE k
  BY <1>2, <1>3, <1>4
<1> QED
  BY <1>5 DEF h, t, k

(* A sequence without a repetition falls into parts that have nothing in common.           *)
LEMMA PartsAreApart ==
  ASSUME NEW T, NEW s \in Seq(T), NEW t \in Seq(T)
  PROVE  /\ ToSet(s \o t) = ToSet(s) \cup ToSet(t)
         /\ NoneTwice(s \o t)
              <=> NoneTwice(s) /\ NoneTwice(t) /\ ToSet(s) \cap ToSet(t) = {}
<1> DEFINE u == s \o t
           M == Len(s)
           N == Len(t)
<1>1. /\ M \in Nat /\ N \in Nat /\ DOMAIN s = 1..M /\ DOMAIN t = 1..N
      /\ u \in Seq(T) /\ Len(u) = M + N /\ DOMAIN u = 1..(M + N)
  BY LenProperties, ConcatProperties
<1>2. \A i \in 1..(M + N) : u[i] = IF i <= M THEN s[i] ELSE t[i - M]
  BY ConcatProperties
<1> HIDE DEF u, M, N
<1>3. \A i \in 1..M : i \in 1..(M + N) /\ u[i] = s[i]
  BY <1>1, <1>2
<1>4. \A j \in 1..N : M + j \in 1..(M + N) /\ u[M + j] = t[j] /\ M + j \notin 1..M
  <2>1. ASSUME NEW j \in 1..N
        PROVE  M + j \in 1..(M + N) /\ ~(M + j <= M) /\ (M + j) - M = j /\ M + j \notin 1..M
    BY <1>1
  <2> QED
    BY <1>2, <2>1
<1>5. \A i \in 1..(M + N) : i \in 1..M \/ \E j \in 1..N : i = M + j
  <2>1. ASSUME NEW i \in 1..(M + N), i \notin 1..M PROVE i - M \in 1..N /\ i = M + (i - M)
    BY <1>1, <2>1
  <2> QED
    BY <2>1
<1>6. ToSet(u) = ToSet(s) \cup ToSet(t)
  <2>1. ASSUME NEW x \in ToSet(u) PROVE x \in ToSet(s) \cup ToSet(t)
    <3>1. PICK i \in 1..(M + N) : x = u[i]
      BY <1>1 DEF ToSet
    <3>2. CASE i \in 1..M
      BY <1>1, <1>3, <3>1, <3>2 DEF ToSet
    <3>3. CASE \E j \in 1..N : i = M + j
      BY <1>1, <1>4, <3>1, <3>3 DEF ToSet
    <3> QED
      BY <1>5, <3>2, <3>3
  <2>2. ASSUME NEW x \in ToSet(s) PROVE x \in ToSet(u)
    BY <1>1, <1>3 DEF ToSet
  <2>3. ASSUME NEW x \in ToSet(t) PROVE x \in ToSet(u)
    BY <1>1, <1>4 DEF ToSet
  <2> QED
    BY <2>1, <2>2, <2>3
<1>7. ASSUME NoneTwice(u) PROVE NoneTwice(s) /\ NoneTwice(t) /\ ToSet(s) \cap ToSet(t) = {}
  <2>1. ASSUME NEW i \in 1..M, NEW j \in 1..M, s[i] = s[j] PROVE i = j
    BY <1>1, <1>3, <1>7, <2>1 DEF NoneTwice
  <2>2. ASSUME NEW i \in 1..N, NEW j \in 1..N, t[i] = t[j] PROVE i = j
    <3>1. M + i = M + j
      BY <1>1, <1>4, <1>7, <2>2 DEF NoneTwice
    <3> QED
      BY <1>1, <3>1
  <2>3. ASSUME NEW i \in 1..M, NEW j \in 1..N PROVE s[i] # t[j]
    BY <1>1, <1>3, <1>4, <1>7 DEF NoneTwice
  <2> QED
    BY <1>1, <2>1, <2>2, <2>3 DEF NoneTwice, ToSet
<1>8. ASSUME NoneTwice(s), NoneTwice(t), ToSet(s) \cap ToSet(t) = {} PROVE NoneTwice(u)
  <2> SUFFICES ASSUME NEW i \in 1..(M + N), NEW j \in 1..(M + N), u[i] = u[j] PROVE i = j
    BY <1>1 DEF NoneTwice
  <2>0. \A a \in 1..M, b \in 1..N : s[a] # t[b]
    BY <1>1, <1>8 DEF ToSet
  <2>1. CASE i \in 1..M /\ j \in 1..M
    BY <1>1, <1>3, <1>8, <2>1 DEF NoneTwice
  <2>2. CASE i \in 1..M /\ \E b \in 1..N : j = M + b
    BY <1>3, <1>4, <2>0, <2>2
  <2>3. CASE j \in 1..M /\ \E a \in 1..N : i = M + a
    BY <1>3, <1>4, <2>0, <2>3
  <2>4. CASE (\E a \in 1..N : i = M + a) /\ (\E b \in 1..N : j = M + b)
    <3>1. PICK a \in 1..N, b \in 1..N : i = M + a /\ j = M + b
      BY <2>4
    <3>2. t[a] = t[b]
      BY <1>4, <3>1
    <3>3. a = b
      BY <1>1, <1>8, <3>2 DEF NoneTwice
    <3> QED
      BY <3>1, <3>3
  <2> QED
    BY <1>5, <2>1, <2>2, <2>3, <2>4
<1> QED
  BY <1>6, <1>7, <1>8 DEF u

-----------------------------------------------------------------------------
(* Ends of sequences. *)
LEMMA KeepingShortens ==
  ASSUME NEW s \in Seq(LineSet), NEW S
  PROVE  Len(Keeping(s, S)) \in Nat /\ Len(Keeping(s, S)) <= Len(s)
<1> DEFINE G == {u \in Seq(LineSet) : Len(Keeping(u, S)) <= Len(u)}
<1>1. <<>> \in G
  BY EmptySeq, KeepingOfNothing
<1>2. ASSUME NEW u \in Seq(LineSet), NEW e \in LineSet, u \in G PROVE Append(u, e) \in G
  <2> DEFINE k == Keeping(u, S)
  <2>1. /\ Append(u, e) \in Seq(LineSet) /\ Len(Append(u, e)) = Len(u) + 1
        /\ k \in Seq(LineSet) /\ Len(Append(k, e)) = Len(k) + 1
    BY KeepingType, AppendProperties
  <2>2. Keeping(Append(u, e), S) = IF e \in S THEN Append(k, e) ELSE k
    BY KeepingOfAppend
  <2>3. Len(k) \in Nat /\ Len(u) \in Nat /\ Len(k) <= Len(u)
    BY <1>2, <2>1, LenProperties
  <2> HIDE DEF k
  <2>4. Len(Keeping(Append(u, e), S)) <= Len(u) + 1
    BY <2>1, <2>2, <2>3
  <2> QED
    BY <2>1, <2>4
<1> HIDE DEF G
<1>3. Seq(LineSet) \subseteq G
  BY <1>1, <1>2, ByAppending
<1>4. Len(Keeping(s, S)) \in Nat
  BY KeepingType, LenProperties
<1> QED
  BY <1>3, <1>4 DEF G

(* When what leaves a sequence without repetitions is its front, what remains is its back. *)
LEMMA FrontIsDropped ==
  ASSUME NEW x \in Seq(LineSet), NEW y \in Seq(LineSet), NoneTwice(x \o y)
  PROVE  /\ Keeping(x \o y, ToSet(y)) = y
         /\ \A S : S \cap ToSet(x \o y) = ToSet(x) => Keeping(x \o y, LineSet \ S) = y
<1>1. ToSet(x) \cap ToSet(y) = {} /\ ToSet(x \o y) = ToSet(x) \cup ToSet(y)
  BY PartsAreApart
<1>2. ToSet(y) \subseteq LineSet
  BY ElementOfSeq, LenProperties DEF ToSet
<1>3. ASSUME NEW R, ToSet(x) \cap R = {}, ToSet(y) \subseteq R
      PROVE  Keeping(x \o y, R) = y
  <2>1. Keeping(x \o y, R) = Keeping(x, R) \o Keeping(y, R)
    BY KeepingOfConcat
  <2>2. Keeping(x, R) = <<>> /\ Keeping(y, R) = y
    BY <1>3, KeepingAllOrNone
  <2> QED
    BY <2>1, <2>2, ConcatEmptySeq
<1>4. ASSUME NEW S, S \cap ToSet(x \o y) = ToSet(x)
      PROVE  ToSet(x) \cap (LineSet \ S) = {} /\ ToSet(y) \subseteq LineSet \ S
  BY <1>1, <1>2, <1>4
<1> QED
  BY <1>1, <1>3, <1>4

-----------------------------------------------------------------------------
(* The rows of a process. *)
LEMMA LinesOfFacts ==
  ASSUME NEW p \in Processes
  PROVE  /\ LinesOf(p) \subseteq LineSet
         /\ \A q \in Processes : q # p => LinesOf(p) \cap LinesOf(q) = {}
         /\ \A l \in LineSet : l \in LinesOf(p) <=> l.process = p
<1>1. ASSUME NEW l \in LinesOf(p) PROVE l \in LineSet
  <2>1. l = Line(p, l.stamp, l.size) /\ l.stamp \in 1..MaxMade /\ l.size \in 1..2
    BY DEF LinesOf, Line
  <2> QED
    BY <2>1 DEF LineSet
<1>2. ASSUME NEW q \in Processes, NEW l \in LinesOf(p) \cap LinesOf(q) PROVE q = p
  BY DEF LinesOf
<1>3. ASSUME NEW l \in LineSet PROVE l \in LinesOf(p) <=> l.process = p
  <2>1. PICK q \in Processes, s \in 1..MaxMade, n \in 1..2 : l = [process |-> q, stamp |-> s, size |-> n]
    BY DEF LineSet, Line
  <2> QED
    BY <2>1 DEF LinesOf
<1> QED
  BY <1>1, <1>2, <1>3

(* The rows of a process are its lines.                                                *)
LEMMA RowsFacts ==
  ASSUME NEW d \in Seq(LineSet), NEW p \in Processes
  PROVE  /\ RowsOf(d, p) \in Seq(LineSet) /\ ToSet(RowsOf(d, p)) \subseteq LinesOf(p)
         /\ NoneTwice(d) => NoneTwice(RowsOf(d, p))
BY KeepingType, KeepingIsAMeet DEF RowsOf

(* Rows of more rows.                                                                  *)
LEMMA RowsOfConcat ==
  ASSUME NEW d \in Seq(LineSet), NEW e \in Seq(LineSet), NEW p \in Processes
  PROVE  RowsOf(d \o e, p) = RowsOf(d, p) \o RowsOf(e, p)
BY KeepingOfConcat DEF RowsOf

(* What the policy takes of one process: nothing, or its first rows down to the limit.     *)
LEMMA SurplusFacts ==
  ASSUME disk \in Seq(LineSet), NEW q \in Crowded
  PROVE  /\ q \in Processes /\ Surplus(q) \subseteq LinesOf(q)
         /\ \E x, y \in Seq(LineSet) : /\ RowsOf(disk, q) = x \o y /\ Len(y) = DiskLines
                                       /\ Surplus(q) = ToSet(x)
<1> DEFINE mine == RowsOf(disk, q)
           n == Len(mine) - DiskLines
           x == SubSeq(mine, 1, n)
           y == SubSeq(mine, n + 1, Len(mine))
<1>1. q \in Processes /\ Len(mine) > DiskLines /\ DiskLines \in Nat
  BY LogStoreAssumption DEF Crowded
<1>2. mine \in Seq(LineSet) /\ ToSet(mine) \subseteq LinesOf(q) /\ Len(mine) \in Nat
  BY <1>1, RowsFacts, LenProperties
<1>3. n \in 0..Len(mine) /\ Len(mine) - n = DiskLines
  BY <1>1, <1>2
<1>4. /\ x \in Seq(LineSet) /\ y \in Seq(LineSet) /\ Len(y) = Len(mine) - n
      /\ mine = x \o y
  <2> HIDE DEF mine, n
  <2> QED
    BY <1>2, <1>3, SplitAt
<1>5. Surplus(q) = ToSet(x)
  BY DEF Surplus
<1> HIDE DEF mine, n, x, y
<1>6. ToSet(x \o y) = ToSet(x) \cup ToSet(y)
  BY <1>4, PartsAreApart
<1>7. ToSet(x) \subseteq ToSet(mine)
  BY <1>4, <1>6
<1>8. mine = x \o y /\ Len(y) = DiskLines
  BY <1>3, <1>4
<1> QED
  BY <1>1, <1>2, <1>4, <1>5, <1>7, <1>8 DEF mine

(* The sweep takes a front of the rows of each process.                                    *)
LEMMA SweepDropsFronts ==
  ASSUME disk \in Seq(LineSet), NoneTwice(disk), Sweep, NEW p \in Processes
  PROVE  \E x \in Seq(LineSet) : /\ RowsOf(disk, p) = x \o RowsOf(disk', p)
                                 /\ x = <<>> \/ Len(RowsOf(disk', p)) = DiskLines
<1>1. PICK done \in SUBSET Crowded :
        disk' = Keeping(disk, LineSet \ (UNION {Surplus(q) : q \in done}))
  BY DEF Sweep
<1> DEFINE gone == UNION {Surplus(q) : q \in done}
           old == RowsOf(disk, p)
           new == RowsOf(disk', p)
<1>2. old \in Seq(LineSet) /\ NoneTwice(old) /\ ToSet(old) \subseteq LinesOf(p)
  BY RowsFacts
<1>3. new = Keeping(old, LineSet \ gone)
  <2> DEFINE A == LineSet \ gone
             B == LinesOf(p)
  <2>1. disk' = Keeping(disk, A)
    BY <1>1
  <2> HIDE DEF A, B
  <2>2. Keeping(Keeping(disk, A), B) = Keeping(disk, A \cap B)
    BY KeepingTwice
  <2>3. Keeping(Keeping(disk, B), A) = Keeping(disk, B \cap A)
    BY KeepingTwice
  <2>4. A \cap B = B \cap A
    OBVIOUS
  <2>5. new = Keeping(disk', B) /\ old = Keeping(disk, B)
    BY DEF RowsOf, B
  <2> QED
    BY <2>1, <2>2, <2>3, <2>4, <2>5 DEF A
<1>4. ASSUME NEW q \in done, q # p PROVE Surplus(q) \cap ToSet(old) = {}
  BY <1>2, <1>4, SurplusFacts, LinesOfFacts
<1>5. CASE p \in done
  <2>1. PICK x \in Seq(LineSet), y \in Seq(LineSet) :
          old = x \o y /\ Len(y) = DiskLines /\ Surplus(p) = ToSet(x)
    BY <1>5, SurplusFacts
  <2>2. ToSet(x) \subseteq ToSet(old)
    BY <2>1, PartsAreApart
  <2>3. gone \cap ToSet(old) = ToSet(x)
    <3>1. ASSUME NEW l \in gone, l \in ToSet(old) PROVE l \in ToSet(x)
      <4>1. PICK q \in done : l \in Surplus(q)
        OBVIOUS
      <4>2. q = p
        BY <1>4, <3>1, <4>1
      <4> QED
        BY <2>1, <4>1, <4>2
    <3>2. ToSet(x) \subseteq gone
      BY <1>5, <2>1
    <3> QED
      BY <2>2, <3>1, <3>2
  <2> HIDE DEF gone, old, new
  <2>4. new = y
    BY <1>2, <1>3, <2>1, <2>3, FrontIsDropped
  <2> QED
    BY <2>1, <2>4 DEF old, new
<1>6. CASE p \notin done
  <2>1. gone \cap ToSet(old) = {}
    BY <1>4, <1>6
  <2>2. ToSet(old) \subseteq LineSet \ gone
    BY <1>2, <2>1, LinesOfFacts
  <2> HIDE DEF gone, old, new
  <2>3. new = old
    BY <1>2, <1>3, <2>2, KeepingAllOrNone
  <2>4. old = <<>> \o new /\ <<>> \in Seq(LineSet)
    BY <1>2, <2>3, ConcatEmptySeq
  <2> QED
    BY <2>4 DEF old, new
<1> QED
  BY <1>5, <1>6

(* The size pass takes a front of all rows, of at most a chunk, and so of each process's.  *)
LEMMA TrimTakesAFront ==
  ASSUME disk \in Seq(LineSet), Trim, disk' # disk
  PROVE  /\ LogicalBytes(disk) > DiskBytes /\ disk' \in Seq(LineSet)
         /\ \E a \in Seq(LineSet) : disk = a \o disk' /\ Len(a) <= Chunk
<1> DEFINE N == Len(disk)
<1>1. LogicalBytes(disk) > DiskBytes /\ disk' = SubSeq(disk, Chunk + 1, N)
  BY DEF Trim
<1>2. Chunk \in Nat /\ N \in Nat
  BY LogStoreAssumption, LenProperties
<1> DEFINE Ahead(a) == disk = a \o disk' /\ Len(a) <= Chunk /\ disk' \in Seq(LineSet)
<1>3. PICK a \in Seq(LineSet) : Ahead(a)
  <2>1. CASE Chunk <= N
    <3> DEFINE b == SubSeq(disk, 1, Chunk)
    <3>1. Chunk \in 0..N
      BY <1>2, <2>1
    <3>2. b \in Seq(LineSet) /\ Len(b) = Chunk /\ disk' \in Seq(LineSet) /\ disk = b \o disk'
      BY <1>1, <3>1, SplitAt
    <3> HIDE DEF b
    <3>3. Ahead(b)
      BY <1>2, <3>2
    <3> HIDE DEF Ahead
    <3> QED
      BY <3>2, <3>3
  <2>2. CASE N < Chunk
    <3>1. Chunk + 1 \in Int /\ N \in Int /\ N < Chunk + 1 /\ N <= Chunk
      BY <1>2, <2>2
    <3>2. disk' = <<>>
      BY <1>1, <3>1, SubSeqEmpty
    <3>3. disk = disk \o disk' /\ disk' \in Seq(LineSet)
      BY <3>2, ConcatEmptySeq
    <3>4. Ahead(disk)
      BY <3>1, <3>3
    <3> HIDE DEF Ahead
    <3> QED
      BY <3>4
  <2> HIDE DEF Ahead
  <2> QED
    BY <1>2, <2>1, <2>2
<1> QED
  BY <1>1, <1>3

(* A sweep drops the oldest rows of a process, a chunk at most (the DELETE of trim).   *)
LEMMA TrimDropsAFront ==
  ASSUME disk \in Seq(LineSet), Trim, disk' # disk, NEW p \in Processes
  PROVE  \E x \in Seq(LineSet) : RowsOf(disk, p) = x \o RowsOf(disk', p) /\ Len(x) <= Chunk
<1>1. disk' \in Seq(LineSet) /\ Chunk \in Nat
  BY TrimTakesAFront, LogStoreAssumption
<1>2. PICK a \in Seq(LineSet) : disk = a \o disk' /\ Len(a) <= Chunk
  BY TrimTakesAFront
<1>3. RowsOf(disk, p) = RowsOf(a, p) \o RowsOf(disk', p)
  <2>1. RowsOf(a \o disk', p) = RowsOf(a, p) \o RowsOf(disk', p)
    BY <1>1, RowsOfConcat
  <2> QED
    BY <1>2, <2>1
<1>4. RowsOf(a, p) \in Seq(LineSet) /\ Len(RowsOf(a, p)) \in Nat /\ Len(RowsOf(a, p)) <= Len(a)
      /\ Len(a) \in Nat
  BY RowsFacts, KeepingShortens, LenProperties DEF RowsOf
<1>5. Len(RowsOf(a, p)) <= Chunk
  BY <1>1, <1>2, <1>4
<1> QED
  BY <1>3, <1>4, <1>5

-----------------------------------------------------------------------------
(* No line is in two places, or in one of them twice: what retention takes, it takes once. *)
Anywhere == ToSet(disk) \cup ToSet(batch) \cup ToSet(channel)

Apart(a, b, c) ==
  /\ NoneTwice(a) /\ NoneTwice(b) /\ NoneTwice(c)
  /\ ToSet(a) \cap ToSet(b) = {} /\ ToSet(a) \cap ToSet(c) = {} /\ ToSet(b) \cap ToSet(c) = {}

EachOnce ==
  /\ disk \in Seq(LineSet) /\ Apart(disk, batch, channel)
  /\ \A l \in Anywhere : l.stamp <= made
  /\ pc = "sending" => own.stamp <= made /\ own \notin Anywhere

(* The first state.                                                                    *)
LEMMA InitEstablishesEachOnce == ASSUME Init PROVE EachOnce
<1>1. disk = <<>> /\ batch = <<>> /\ channel = <<>> /\ pc = "select" /\ disk \in Seq(LineSet)
  BY EmptySeq DEF Init
<1> QED
  BY <1>1, EmptyHasNone DEF EachOnce, Apart, Anywhere

\* A step that puts no line anywhere.
LEMMA LessIsStillOnce ==
  ASSUME EachOnce, UNCHANGED made,
         disk' \in Seq(LineSet), NoneTwice(disk'), ToSet(disk') \subseteq ToSet(disk),
         batch' \in {batch, <<>>}, channel' \in {channel, <<>>},
         pc' = "sending" => pc = "sending" /\ own' = own
  PROVE  EachOnce'
<1>1. NoneTwice(batch') /\ ToSet(batch') \subseteq ToSet(batch)
  BY EmptyHasNone DEF EachOnce, Apart
<1>2. NoneTwice(channel') /\ ToSet(channel') \subseteq ToSet(channel)
  BY EmptyHasNone DEF EachOnce, Apart
<1>3. Anywhere' = ToSet(disk') \cup ToSet(batch') \cup ToSet(channel')
  BY DEF Anywhere, ToSet
<1>4. Anywhere' \subseteq Anywhere
  BY <1>1, <1>2, <1>3 DEF Anywhere
<1>5. Apart(disk', batch', channel')
  BY <1>1, <1>2 DEF EachOnce, Apart
<1>6. \A l \in Anywhere' : l.stamp <= made'
  BY <1>4 DEF EachOnce
<1>7. pc' = "sending" => own'.stamp <= made' /\ own' \notin Anywhere'
  BY <1>4 DEF EachOnce
<1>8. Apart(disk', batch', channel') = Apart(disk, batch, channel)'
  BY DEF Apart, NoneTwice, ToSet
<1> QED
  BY <1>5, <1>6, <1>7, <1>8 DEF EachOnce

\* A new line, or the one that waited for room, goes into the channel.
LEMMA SentIsOnce ==
  ASSUME EachOnce, channel \in Seq(LineSet), NEW l \in LineSet, l \notin Anywhere, l.stamp <= made',
         made' \in Nat, made \in Nat, made <= made', channel' = Append(channel, l),
         \A k \in LineSet : k.stamp \in Nat, batch \in Seq(LineSet),
         UNCHANGED <<disk, batch>>,
         pc' = "sending" => pc = "sending" /\ own' = own /\ own # l /\ own \in LineSet
  PROVE  EachOnce'
<1>1. ToSet(channel') = ToSet(channel) \cup {l} /\ NoneTwice(channel')
  BY AppendedIsIn DEF EachOnce, Apart, Anywhere
<1>2. Anywhere' = ToSet(disk') \cup ToSet(batch') \cup ToSet(channel')
  BY DEF Anywhere, ToSet
<1>3. Anywhere' = Anywhere \cup {l}
  BY <1>1, <1>2 DEF Anywhere
<1>4. Apart(disk', batch', channel')
  BY <1>1 DEF EachOnce, Apart, Anywhere
<1>5. Anywhere \subseteq LineSet
  <2>1. \A s \in Seq(LineSet) : ToSet(s) \subseteq LineSet
    BY ElementOfSeq, LenProperties DEF ToSet
  <2> QED
    BY <2>1 DEF Anywhere, EachOnce
<1>6. \A k \in Anywhere' : k.stamp <= made'
  BY <1>3, <1>5 DEF EachOnce
<1>7. pc' = "sending" => own'.stamp <= made' /\ own' \notin Anywhere'
  BY <1>3 DEF EachOnce
<1>8. Apart(disk', batch', channel') = Apart(disk, batch, channel)'
  BY DEF Apart, NoneTwice, ToSet
<1> QED
  BY <1>4, <1>6, <1>7, <1>8 DEF EachOnce

(* What the steps use of the two invariants.                                           *)
LEMMA EachOnceFacts ==
  ASSUME IInv, EachOnce
  PROVE  /\ Anywhere \subseteq LineSet /\ \A k \in LineSet : k.stamp \in Nat
         /\ {disk, batch, channel} \subseteq Seq(LineSet) /\ made \in Nat /\ made <= MaxMade
         /\ \A l \in LineSet : l.stamp = made + 1 => l \notin Anywhere
         /\ pc = "sending" => own \in LineSet /\ own.stamp < made + 1
         /\ NoneTwice(disk) /\ NoneTwice(batch) /\ NoneTwice(channel)
<1>1. {disk, batch, channel} \subseteq Seq(LineSet) /\ made \in Nat /\ made <= MaxMade
  BY Constants DEF IInv, StoreTypes, EachOnce
<1>2. \A s \in Seq(LineSet) : ToSet(s) \subseteq LineSet
  BY ElementOfSeq, LenProperties DEF ToSet
<1>3. Anywhere \subseteq LineSet
  BY <1>1, <1>2 DEF Anywhere
<1>4. \A k \in LineSet : k.stamp \in Nat
  BY LineFields
<1>5. \A l \in LineSet : l.stamp = made + 1 => l \notin Anywhere
  <2>1. ~(made + 1 <= made)
    BY <1>1
  <2> QED
    BY <2>1 DEF EachOnce
<1>6. pc = "sending" => own \in LineSet /\ own.stamp < made + 1
  <2>1. pc = "sending" => own.stamp \in 1..made
    BY DEF IInv, StampIsFree
  <2> QED
    BY <1>1, <2>1 DEF IInv, StampIsFree
<1> QED
  BY <1>1, <1>3, <1>4, <1>5, <1>6 DEF EachOnce, Apart

(* No step puts a line into a second place.                                            *)
LEMMA NextKeepsEachOnce ==
  ASSUME IInv, EachOnce, [Next]_vars PROVE EachOnce'
<1>0. /\ {disk, batch, channel} \subseteq Seq(LineSet) /\ disk \in Seq(LineSet)
      /\ batch \in Seq(LineSet) /\ channel \in Seq(LineSet) /\ made \in Nat
      /\ NoneTwice(disk) /\ NoneTwice(batch) /\ NoneTwice(channel)
      /\ (\A k \in LineSet : k.stamp \in Nat)
      /\ then # "sending"
  BY EachOnceFacts DEF IInv, StoreTypes
<1>1. CASE \/ Collect /\ channel = <<>>
           \/ Store \/ Evict \/ Stored \/ BeginPoll \/ BeginRequest \/ BeginShutdown
           \/ RetentionTick \/ EndTurn \/ EndStops \/ Elapse \/ UNCHANGED vars
  <2>1. disk' = disk /\ channel' = channel /\ UNCHANGED made /\ batch' \in {batch, <<>>}
    BY <1>1 DEF Collect, Store, Evict, Stored, BeginPoll, BeginRequest, BeginShutdown, Broadcast,
                RetentionTick, EndTurn, EndStops, Elapse, vars, lines, store, files
  <2>2. pc' = "sending" => pc = "sending" /\ own' = own
    <3>1. CASE UNCHANGED vars
      BY <3>1 DEF vars, lines
    <3>2. CASE ~UNCHANGED vars
      BY <1>0, <1>1, <3>2
         DEF Collect, Store, Evict, Stored, BeginPoll, BeginRequest, BeginShutdown, Broadcast,
             RetentionTick, EndTurn, EndStops, Elapse, Drain
    <3> QED
      BY <3>1, <3>2
  <2> QED
    BY <1>0, <2>1, <2>2, LessIsStillOnce
<1>2. CASE Flush \/ Crash \/ Restart
  <2>1. /\ disk' = disk /\ channel' = <<>> /\ batch' = <<>> /\ UNCHANGED made
        /\ pc' \in {"down", "select"}
    BY <1>2 DEF Flush, Crash, Restart, GoDown, files
  <2> QED
    BY <1>0, <2>1, LessIsStillOnce
<1>3. CASE Write
  <2>1. batch' = <<>> /\ channel' = channel /\ UNCHANGED <<made, own>>
        /\ pc' \in {"sweep", then} /\ disk' \in {disk, disk \o batch}
    BY <1>3 DEF Write, Fails, lines
  <2>2. disk' \in Seq(LineSet) /\ NoneTwice(disk') /\ ToSet(disk') \subseteq ToSet(disk) \cup ToSet(batch)
    <3>1. CASE disk' = disk
      BY <1>0, <3>1
    <3>2. CASE disk' = disk \o batch
      <4>1. disk \o batch \in Seq(LineSet)
        BY <1>0, ConcatProperties
      <4>2. ToSet(disk \o batch) = ToSet(disk) \cup ToSet(batch) /\ NoneTwice(disk \o batch)
        BY <1>0, PartsAreApart DEF EachOnce, Apart
      <4> QED
        BY <3>2, <4>1, <4>2
    <3> QED
      BY <2>1, <3>1, <3>2
  <2>3. Anywhere' = ToSet(disk') \cup ToSet(batch') \cup ToSet(channel')
    BY DEF Anywhere, ToSet
  <2>4. Anywhere' \subseteq Anywhere /\ pc' # "sending"
    BY <1>0, <2>1, <2>2, <2>3, EmptyHasNone DEF Anywhere
  <2>5. Apart(disk', batch', channel')
    BY <2>1, <2>2, EmptyHasNone DEF EachOnce, Apart
  <2>6. Apart(disk', batch', channel') = Apart(disk, batch, channel)'
    BY DEF Apart, NoneTwice, ToSet
  <2>7. \A l \in Anywhere' : l.stamp <= made'
    BY <2>1, <2>4 DEF EachOnce
  <2> QED
    BY <2>2, <2>4, <2>5, <2>6, <2>7 DEF EachOnce
<1>4. CASE Sweep \/ Trim
  <2>1. UNCHANGED <<made, own, batch, channel>> /\ pc' # "sending"
    BY <1>0, <1>4 DEF Sweep, Trim, Fails, lines, store
  <2>2. disk' \in Seq(LineSet) /\ NoneTwice(disk') /\ ToSet(disk') \subseteq ToSet(disk)
    <3>1. CASE Sweep
      <4>1. PICK S : disk' = Keeping(disk, S)
        BY <3>1 DEF Sweep
      <4> QED
        BY <1>0, <4>1, KeepingType, KeepingIsAMeet
    <3>2. CASE Trim /\ disk' # disk
      <4>1. PICK a \in Seq(LineSet) : disk = a \o disk'
        BY <1>0, <3>2, TrimTakesAFront
      <4>2. disk' \in Seq(LineSet)
        BY <1>0, <3>2, TrimTakesAFront
      <4> QED
        BY <1>0, <4>1, <4>2, PartsAreApart
    <3> QED
      BY <1>0, <1>4, <3>1, <3>2
  <2> QED
    BY <2>1, <2>2, LessIsStillOnce
<1>5. CASE Collect /\ channel # <<>>
  <2> DEFINE h == Head(channel)
  <2>1. /\ UNCHANGED <<made, own, disk, pc>> /\ channel' = Tail(channel) /\ batch' = Append(batch, h)
        /\ pc = "collect"
    BY <1>5 DEF Collect, lines, files
  <2>2. h \in LineSet /\ ToSet(channel) = ToSet(channel') \cup {h} /\ NoneTwice(channel')
        /\ h \notin ToSet(channel')
    BY <1>0, <1>5, <2>1, HeadIsTakenOut, HeadTailProperties
  <2> HIDE DEF h
  <2>3. ToSet(batch') = ToSet(batch) \cup {h} /\ NoneTwice(batch')
    BY <1>0, <2>1, <2>2, AppendedIsIn DEF EachOnce, Apart
  <2>4. Anywhere' = ToSet(disk') \cup ToSet(batch') \cup ToSet(channel')
    BY DEF Anywhere, ToSet
  <2>5. Anywhere' = Anywhere
    BY <2>1, <2>2, <2>3, <2>4 DEF Anywhere
  <2>6. Apart(disk', batch', channel')
    BY <2>1, <2>2, <2>3 DEF EachOnce, Apart
  <2>7. Apart(disk', batch', channel') = Apart(disk, batch, channel)'
    BY DEF Apart, NoneTwice, ToSet
  <2>8. \A l \in Anywhere' : l.stamp <= made'
    BY <2>1, <2>5 DEF EachOnce
  <2> QED
    BY <1>0, <2>1, <2>6, <2>7, <2>8 DEF EachOnce
<1>6. ASSUME NEW p \in Processes, Read(p) PROVE EachOnce'
  <2> DEFINE l == Line(p, made + 1, 2)
  <2>1. channel' = Append(channel, l) /\ UNCHANGED <<disk, batch, own, pc>> /\ made' = made + 1
        /\ made < MaxMade
    BY <1>6 DEF Read, Fresh, store, files
  <2>2. made + 1 \in 1..MaxMade
    BY <1>0, <2>1, Constants
  <2>3. l \in LineSet /\ l.stamp = made + 1
    BY <2>2, LineIsALine
  <2> HIDE DEF l
  <2>4. l \notin Anywhere
    BY <2>3, EachOnceFacts
  <2>5. pc = "sending" => own # l /\ own \in LineSet
    <3>1. pc = "sending" => own \in LineSet /\ own.stamp < made + 1
      BY EachOnceFacts
    <3>2. ~(made + 1 < made + 1)
      BY <1>0
    <3> QED
      BY <2>3, <3>1, <3>2
  <2>6. made' \in Nat /\ made <= made' /\ l.stamp <= made'
    BY <1>0, <2>1, <2>3
  <2> QED
    BY <1>0, <2>1, <2>3, <2>4, <2>5, <2>6, SentIsOnce
<1>7. CASE SendOwn
  <2>1. pc = "sending" /\ channel' = Append(channel, own) /\ UNCHANGED <<disk, batch, made>>
        /\ pc' # "sending"
    BY <1>0, <1>7 DEF SendOwn, store, files
  <2>2. own \in LineSet /\ own.stamp <= made' /\ own \notin Anywhere
    BY <2>1, EachOnceFacts DEF EachOnce
  <2>3. made' \in Nat /\ made <= made'
    BY <1>0, <2>1
  <2> QED
    BY <1>0, <2>1, <2>2, <2>3, SentIsOnce
<1>8. CASE Report \/ PushLog
  <2>1. PICK p \in Processes : Fresh /\ \/ Report /\ own' = Line(p, made + 1, 1)
                                        \/ PushLog /\ batch' = <<Line(p, made + 1, 1)>>
    BY <1>8 DEF Report, PushLog
  <2> DEFINE l == Line(p, made + 1, 1)
  <2>2. made' = made + 1 /\ made < MaxMade /\ made + 1 \in 1..MaxMade
    BY <1>0, <2>1, Constants DEF Fresh
  <2>3. l \in LineSet /\ l.stamp = made + 1
    BY <2>2, LineIsALine
  <2>4. \/ Report /\ own' = l
        \/ PushLog /\ batch' = <<l>>
    BY <2>1
  <2> HIDE DEF l
  <2>5. l \notin Anywhere
    BY <2>3, EachOnceFacts
  <2>6. Anywhere' = ToSet(disk') \cup ToSet(batch') \cup ToSet(channel')
    BY DEF Anywhere, ToSet
  <2>7. Apart(disk', batch', channel') = Apart(disk, batch, channel)'
    BY DEF Apart, NoneTwice, ToSet
  <2>8. \A k \in Anywhere : k.stamp <= made'
    BY <1>0, <2>2, EachOnceFacts DEF EachOnce
  <2>9. CASE Report /\ own' = l
    <3>1. UNCHANGED <<disk, batch, channel>>
      BY <2>9 DEF Report, store, files
    <3>2. Anywhere' = Anywhere
      BY <2>6, <3>1 DEF Anywhere
    <3>3. own'.stamp <= made' /\ own' \notin Anywhere'
      BY <1>0, <2>2, <2>3, <2>5, <2>9, <3>2
    <3> QED
      BY <2>7, <2>8, <3>1, <3>2, <3>3 DEF EachOnce
  <2>10. CASE PushLog /\ batch' = <<l>>
    <3>1. UNCHANGED <<disk, channel>> /\ pc' = "store"
      BY <2>10 DEF PushLog, files
    <3>2. ToSet(batch') = {l} /\ NoneTwice(batch')
      <4>1. <<>> \in Seq(LineSet) /\ Append(<<>>, l) = <<l>>
        BY EmptySeq
      <4>2. ToSet(Append(<<>>, l)) = ToSet(<<>>) \cup {l} /\ NoneTwice(Append(<<>>, l))
        BY <2>3, <4>1, EmptyHasNone, AppendedIsIn, ZenonT(30)
      <4> QED
        BY <2>10, <4>1, <4>2, EmptyHasNone
    <3>3. Anywhere' \subseteq Anywhere \cup {l}
      BY <2>6, <3>1, <3>2 DEF Anywhere
    <3>4. Apart(disk', batch', channel')
      BY <2>5, <3>1, <3>2 DEF EachOnce, Apart, Anywhere
    <3>5. \A k \in Anywhere' : k.stamp <= made'
      BY <1>0, <2>2, <2>3, <2>8, <3>3
    <3> QED
      BY <1>0, <2>7, <3>1, <3>4, <3>5 DEF EachOnce
  <2> QED
    BY <2>4, <2>9, <2>10
<1> QED
  BY <1>1, <1>2, <1>3, <1>4, <1>5, <1>6, <1>7, <1>8 DEF Next

(* Without a front of rows the others are the end of the old and the beginning of the new.*)
LEMMA WhatFrontsLeave ==
  ASSUME NEW x \in Seq(LineSet), NEW new \in Seq(LineSet), NoneTwice(x \o new)
  PROVE  LET old == x \o new
             kept == Keeping(old, ToSet(new))
         IN IsSuffix(kept, old) /\ IsPrefix(kept, new) /\ Len(old) - Len(kept) = Len(x)
<1>1. Keeping(x \o new, ToSet(new)) = new
  BY FrontIsDropped
<1>2. IsSuffix(new, x \o new) /\ IsPrefix(new, new)
  BY PartIsPrefixAndSuffix, EndsOfItself
<1>3. Len(x \o new) - Len(new) = Len(x)
  <2>1. Len(x \o new) = Len(x) + Len(new) /\ Len(x) \in Nat /\ Len(new) \in Nat
    BY ConcatProperties, LenProperties
  <2> QED
    BY <2>1
<1> QED
  BY <1>1, <1>2, <1>3

(* Added rows leave all the old ones.                                                  *)
LEMMA WhatIsAddedTakesNothing ==
  ASSUME NEW old \in Seq(LineSet), NEW x \in Seq(LineSet)
  PROVE  LET new == old \o x
             kept == Keeping(old, ToSet(new))
         IN IsSuffix(kept, old) /\ IsPrefix(kept, new) /\ Len(old) - Len(kept) = 0
<1>1. ToSet(old) \subseteq ToSet(old \o x)
  BY PartsAreApart
<1>2. Keeping(old, ToSet(old \o x)) = old
  BY <1>1, KeepingAllOrNone
<1>3. IsSuffix(old, old) /\ IsPrefix(old, old \o x)
  BY PartIsPrefixAndSuffix, EndsOfItself
<1>4. Len(old) - Len(old) = 0
  <2>1. Len(old) \in Nat
    BY LenProperties
  <2> QED
    BY <2>1
<1> QED
  BY <1>2, <1>3, <1>4

\* What a step does to the rows: it adds a batch, drops fronts, or leaves them alone.
LEMMA RowsStep ==
  ASSUME IInv, EachOnce, [Next]_vars
  PROVE  \/ UNCHANGED disk
         \/ Write /\ disk' = disk \o batch
         \/ Sweep
         \/ Trim /\ disk' # disk
<1>1. ASSUME NEW p \in Processes, Read(p) PROVE UNCHANGED disk
  BY <1>1 DEF Read, files
<1>2. CASE \/ Collect \/ Store \/ Evict \/ Stored \/ BeginPoll \/ BeginRequest \/ BeginShutdown
           \/ RetentionTick \/ Report \/ SendOwn \/ PushLog \/ EndTurn \/ EndStops \/ Flush
           \/ Elapse \/ Crash \/ Restart \/ UNCHANGED vars
  BY <1>2 DEF Collect, Store, Evict, Stored, BeginPoll, BeginRequest, BeginShutdown, RetentionTick,
              Report, SendOwn, PushLog, EndTurn, EndStops, Flush, Elapse, Crash, Restart, vars, files
<1>3. CASE Write
  BY <1>3 DEF Write
<1> QED
  BY <1>1, <1>2, <1>3 DEF Next

(* What a step does to the rows of a process: it takes a front of them or adds some.   *)
LEMMA StepTakesTheOldest ==
  ASSUME IInv, EachOnce, [Next]_vars, NEW p \in Processes
  PROVE  LET old == RowsOf(disk, p)
             new == RowsOf(disk', p)
             kept == Keeping(old, ToSet(new))
             gone == Len(old) - Len(kept)
         IN /\ IsSuffix(kept, old) /\ IsPrefix(kept, new)
            /\ \/ gone = 0
               \/ Len(new) = DiskLines
               \/ gone <= Chunk /\ LogicalBytes(disk) > DiskBytes
<1> DEFINE old == RowsOf(disk, p)
           new == RowsOf(disk', p)
<1>1. /\ disk \in Seq(LineSet) /\ disk' \in Seq(LineSet) /\ batch \in Seq(LineSet)
      /\ NoneTwice(disk)
  <2>1. EachOnce'
    BY NextKeepsEachOnce
  <2> QED
    BY <2>1 DEF EachOnce, Apart, IInv, StoreTypes
<1>2. old \in Seq(LineSet) /\ new \in Seq(LineSet) /\ NoneTwice(old)
  BY <1>1, RowsFacts
<1>3. CASE new = old
  <2>1. <<>> \in Seq(LineSet) /\ new = old \o <<>>
    BY <1>2, <1>3, EmptySeq, ConcatEmptySeq
  <2> HIDE DEF old, new
  <2>2. LET kept == Keeping(old, ToSet(new))
        IN IsSuffix(kept, old) /\ IsPrefix(kept, new) /\ Len(old) - Len(kept) = 0
    BY <1>2, <2>1, WhatIsAddedTakesNothing
  <2> QED
    BY <2>2 DEF old, new
<1>4. CASE Write /\ disk' = disk \o batch
  <2>1. new = old \o RowsOf(batch, p) /\ RowsOf(batch, p) \in Seq(LineSet)
    BY <1>1, <1>4, RowsOfConcat, RowsFacts
  <2> HIDE DEF old, new
  <2>2. LET kept == Keeping(old, ToSet(new))
        IN IsSuffix(kept, old) /\ IsPrefix(kept, new) /\ Len(old) - Len(kept) = 0
    BY <1>2, <2>1, WhatIsAddedTakesNothing
  <2> QED
    BY <2>2 DEF old, new
<1>5. CASE Sweep
  <2>1. PICK x \in Seq(LineSet) : old = x \o new /\ (x = <<>> \/ Len(new) = DiskLines)
    BY <1>1, <1>5, SweepDropsFronts
  <2> HIDE DEF old, new
  <2>2. LET kept == Keeping(old, ToSet(new))
        IN IsSuffix(kept, old) /\ IsPrefix(kept, new) /\ Len(old) - Len(kept) = Len(x)
    BY <1>2, <2>1, WhatFrontsLeave
  <2>3. x = <<>> => Len(x) = 0
    BY EmptySeq
  <2> QED
    BY <2>1, <2>2, <2>3 DEF old, new
<1>6. CASE Trim /\ disk' # disk
  <2>1. PICK x \in Seq(LineSet) : old = x \o new /\ Len(x) <= Chunk
    BY <1>1, <1>6, TrimDropsAFront
  <2>2. LogicalBytes(disk) > DiskBytes
    BY <1>1, <1>6, TrimTakesAFront
  <2> HIDE DEF old, new
  <2>3. LET kept == Keeping(old, ToSet(new))
        IN IsSuffix(kept, old) /\ IsPrefix(kept, new) /\ Len(old) - Len(kept) = Len(x)
    BY <1>2, <2>1, WhatFrontsLeave
  <2> QED
    BY <2>1, <2>2, <2>3 DEF old, new
<1>7. CASE UNCHANGED disk
  BY <1>3, <1>7
<1> QED
  BY <1>4, <1>5, <1>6, <1>7, RowsStep

(* The rows of a process leave the database from the oldest on, down to what the policy    *)
(* keeps of it or a chunk at a time while the size is over: prune_per_process and          *)
(* prune_to_size take no row that is not among the first, whichever statements fail.       *)
THEOREM RetentionTakesTheOldest == Spec => OnlyTheOldestGo
<1>1. Init => IInv /\ EachOnce
  BY InitEstablishesIInv, InitEstablishesEachOnce
<1>2. IInv /\ EachOnce /\ [Next]_vars => (IInv /\ EachOnce)'
  BY NextKeepsIInv, NextKeepsEachOnce
<1>3. IInv /\ EachOnce /\ [Next]_vars =>
        [\A p \in Processes :
           LET old == RowsOf(disk, p)
               new == RowsOf(disk', p)
               kept == Keeping(old, ToSet(new))
               gone == Len(old) - Len(kept)
           IN /\ IsSuffix(kept, old) /\ IsPrefix(kept, new)
              /\ \/ gone = 0
                 \/ Len(new) = DiskLines
                 \/ gone <= Chunk /\ LogicalBytes(disk) > DiskBytes]_vars
  BY StepTakesTheOldest
<1> QED
  BY <1>1, <1>2, <1>3, PTL DEF Spec, OnlyTheOldestGo

-----------------------------------------------------------------------------
(* Two sequences of which one is the end of the other. *)
EndsWith(s, t) == \E x \in Seq(LineSet) : s = x \o t
OneStory(s, t) == EndsWith(s, t) \/ EndsWith(t, s)

(* Concatenation of lines associates.                                                  *)
LEMMA LinesAssociate ==
  \A a, b, c \in Seq(LineSet) : (a \o b) \o c = a \o (b \o c)
BY ConcatAssociative

(* Of two ends of one sequence the longer one ends in the shorter.                     *)
LEMMA LongerEndsInShorter ==
  ASSUME NEW b \in Seq(LineSet), NEW d \in Seq(LineSet), NEW w,
         EndsWith(w, b), EndsWith(w, d), Len(d) <= Len(b)
  PROVE  EndsWith(b, d)
<1> DEFINE n == Len(b) - Len(d)
           f == SubSeq(b, 1, n)
           g == SubSeq(b, n + 1, Len(b))
<1>1. Len(b) \in Nat /\ Len(d) \in Nat
  BY LenProperties
<1>2. n \in 0..Len(b) /\ Len(b) - n = Len(d)
  BY <1>1
<1>3. f \in Seq(LineSet) /\ g \in Seq(LineSet) /\ Len(g) = Len(b) - n /\ b = f \o g
  <2> HIDE DEF n
  <2> QED
    BY <1>2, SplitAt
<1>4. Len(g) = Len(d)
  BY <1>2, <1>3
<1> HIDE DEF f, g, n
<1>5. f \in Seq(LineSet) /\ g \in Seq(LineSet)
  BY <1>3
<1>6. PICK a \in Seq(LineSet) : w = a \o b
  BY DEF EndsWith
<1>7. PICK c \in Seq(LineSet) : w = c \o d
  BY DEF EndsWith
<1>8. a \o f \in Seq(LineSet)
  BY <1>5, ConcatProperties
<1>9. (a \o f) \o g = a \o (f \o g)
  BY <1>5, LinesAssociate
<1>10. (a \o f) \o g = c \o d
  BY <1>3, <1>6, <1>7, <1>9
<1>11. g = d
  BY <1>4, <1>5, <1>8, <1>10, SameEnds
<1>12. b = f \o d
  BY <1>3, <1>11
<1> QED
  BY <1>5, <1>12 DEF EndsWith

(* Two ends of one sequence are one story.                                             *)
LEMMA EndsAreOneStory ==
  ASSUME NEW s \in Seq(LineSet), NEW t \in Seq(LineSet), NEW w, EndsWith(w, s), EndsWith(w, t)
  PROVE  OneStory(s, t)
<1>1. Len(s) \in Nat /\ Len(t) \in Nat
  BY LenProperties
<1>2. CASE Len(t) <= Len(s)
  BY <1>2, LongerEndsInShorter DEF OneStory
<1>3. CASE Len(s) <= Len(t)
  BY <1>3, LongerEndsInShorter DEF OneStory
<1> QED
  BY <1>1, <1>2, <1>3

(* EndsWith is an order, and goes on when both sides do.                               *)
LEMMA EndsWithFacts ==
  ASSUME NEW s \in Seq(LineSet), NEW t \in Seq(LineSet), NEW u \in Seq(LineSet)
  PROVE  /\ EndsWith(s, s) /\ EndsWith(s, <<>>) /\ EndsWith(u \o s, s)
         /\ EndsWith(s, t) => EndsWith(s \o u, t \o u)
         /\ EndsWith(s, t) /\ EndsWith(t, u) => EndsWith(s, u)
<1>1. <<>> \in Seq(LineSet) /\ <<>> \o s = s /\ s \o <<>> = s
  BY EmptySeq, ConcatEmptySeq
<1>2. EndsWith(s, s)
  BY <1>1 DEF EndsWith
<1>3. EndsWith(s, <<>>)
  BY <1>1 DEF EndsWith
<1>4. EndsWith(u \o s, s)
  BY DEF EndsWith
<1>5. ASSUME EndsWith(s, t) PROVE EndsWith(s \o u, t \o u)
  <2>1. PICK x \in Seq(LineSet) : s = x \o t
    BY <1>5 DEF EndsWith
  <2>2. (x \o t) \o u = x \o (t \o u)
    BY LinesAssociate
  <2>3. s \o u = x \o (t \o u)
    BY <2>1, <2>2
  <2> QED
    BY <2>3 DEF EndsWith
<1>6. ASSUME EndsWith(s, t), EndsWith(t, u) PROVE EndsWith(s, u)
  <2>1. PICK x \in Seq(LineSet) : s = x \o t
    BY <1>6 DEF EndsWith
  <2>2. PICK y \in Seq(LineSet) : t = y \o u
    BY <1>6 DEF EndsWith
  <2>3. (x \o y) \o u = x \o (y \o u)
    BY LinesAssociate
  <2>4. s = (x \o y) \o u /\ x \o y \in Seq(LineSet)
    BY <2>1, <2>2, <2>3, ConcatProperties
  <2> QED
    BY <2>4 DEF EndsWith
<1> QED
  BY <1>2, <1>3, <1>4, <1>5, <1>6

\* Two that are one story stay so when the same is added to both, and when one forgets what
\* it begins with.
LEMMA OneStoryGoesOn ==
  ASSUME NEW s \in Seq(LineSet), NEW t \in Seq(LineSet), OneStory(s, t)
  PROVE  /\ \A u \in Seq(LineSet) : OneStory(s \o u, t \o u)
         /\ \A u \in Seq(LineSet) : EndsWith(s, u) => OneStory(u, t)
         /\ \A u \in Seq(LineSet) : EndsWith(t, u) => OneStory(s, u)
<1>1. ASSUME NEW u \in Seq(LineSet) PROVE OneStory(s \o u, t \o u)
  BY EndsWithFacts DEF OneStory
<1>2. ASSUME NEW a \in Seq(LineSet), NEW b \in Seq(LineSet), NEW u \in Seq(LineSet),
             OneStory(a, b), EndsWith(a, u)
      PROVE  OneStory(u, b)
  <2>1. CASE EndsWith(a, b)
    BY <1>2, <2>1, EndsAreOneStory
  <2>2. CASE EndsWith(b, a)
    BY <1>2, <2>2, EndsWithFacts DEF OneStory
  <2> QED
    BY <1>2, <2>1, <2>2 DEF OneStory
<1>3. \A a, b : OneStory(a, b) => OneStory(b, a)
  BY DEF OneStory
<1> QED
  BY <1>1, <1>2, <1>3

(* The last n lines are an end.                                                        *)
LEMMA LastOfIsAnEnd ==
  ASSUME NEW s \in Seq(LineSet), NEW n \in Nat PROVE EndsWith(s, LastOf(s, n))
<1>1. Len(s) \in Nat
  BY LenProperties
<1>2. CASE Len(s) > n
  <2> DEFINE m == Len(s) - n
             x == SubSeq(s, 1, m)
             y == SubSeq(s, m + 1, Len(s))
  <2>1. m \in 0..Len(s)
    BY <1>1, <1>2
  <2>2. x \in Seq(LineSet) /\ s = x \o y
    <3> HIDE DEF m
    <3> QED
      BY <2>1, SplitAt
  <2>3. LastOf(s, n) = y
    BY <1>1, <1>2 DEF LastOf
  <2> HIDE DEF x, y
  <2> QED
    BY <2>2, <2>3 DEF EndsWith
<1>3. CASE ~(Len(s) > n)
  BY <1>3, EndsWithFacts DEF LastOf
<1> QED
  BY <1>2, <1>3

-----------------------------------------------------------------------------
(* The story of a process: what its buffer holds and will hold once the drain is over, and *)
(* what the database holds and will hold.                                                  *)
Unsaid == IF pc = "evict" THEN Tail(rest) ELSE rest
Told(p) == hot[p] \o RowsOf(Unsaid, p)
Written(p) == RowsOf(disk, p) \o RowsOf(batch, p)

SameStory ==
  /\ faults \in Nat
  /\ sqlite /\ faults = 0 =>
       /\ batch # <<>> => pc \in {"collect", "store", "evict", "write"}
       /\ \A p \in Processes : OneStory(Told(p), Written(p))

(* The parts of a story are sequences of lines.                                        *)
LEMMA StoryParts ==
  \A h, d, b, u \in Seq(LineSet), p \in Processes :
    h \o RowsOf(u, p) \in Seq(LineSet) /\ RowsOf(d, p) \o RowsOf(b, p) \in Seq(LineSet)
BY RowsFacts, ConcatProperties

(* So are those of a state and the next.                                               *)
LEMMA StoryTypes ==
  ASSUME IInv, EachOnce, IInv', EachOnce'
  PROVE  /\ hot \in [Processes -> Seq(LineSet)] /\ hot' \in [Processes -> Seq(LineSet)]
         /\ disk \in Seq(LineSet) /\ batch \in Seq(LineSet) /\ channel \in Seq(LineSet)
         /\ rest \in Seq(LineSet) /\ Unsaid \in Seq(LineSet) /\ disk' \in Seq(LineSet)
         /\ \A p \in Processes : /\ Told(p) \in Seq(LineSet) /\ Written(p) \in Seq(LineSet)
                                 /\ Told(p)' \in Seq(LineSet) /\ Written(p)' \in Seq(LineSet)
<1>1. /\ hot \in [Processes -> Seq(LineSet)]
      /\ disk \in Seq(LineSet) /\ batch \in Seq(LineSet) /\ channel \in Seq(LineSet)
      /\ rest \in Seq(LineSet)
  BY DEF IInv, StoreTypes, Buffers, EachOnce
<1>2. /\ hot' \in [Processes -> Seq(LineSet)]
      /\ disk' \in Seq(LineSet) /\ batch' \in Seq(LineSet) /\ rest' \in Seq(LineSet)
  BY DEF IInv, StoreTypes, Buffers, EachOnce
<1>3. Unsaid \in Seq(LineSet) /\ Unsaid' \in Seq(LineSet)
  <2>1. (pc = "evict" => rest # <<>>) /\ (pc' = "evict" => rest' # <<>>)
    BY DEF IInv, DrainUnderWay
  <2> QED
    BY <1>1, <1>2, <2>1, HeadTailProperties DEF Unsaid
<1>4. ASSUME NEW p \in Processes
      PROVE  /\ Told(p) \in Seq(LineSet) /\ Written(p) \in Seq(LineSet)
             /\ Told(p)' \in Seq(LineSet) /\ Written(p)' \in Seq(LineSet)
  <2>1. hot[p] \in Seq(LineSet) /\ hot'[p] \in Seq(LineSet)
    BY <1>1, <1>2
  <2>2. Told(p)' = hot'[p] \o RowsOf(Unsaid', p) /\ Written(p)' = RowsOf(disk', p) \o RowsOf(batch', p)
    BY DEF Told, Written, RowsOf, LinesOf, Keeping
  <2> QED
    BY <1>1, <1>2, <1>3, <2>1, <2>2, StoryParts DEF Told, Written
<1> QED
  BY <1>1, <1>2, <1>3, <1>4

\* What a line adds to the rows of a process, and what it takes away when it leaves their front.
LEMMA RowsOfOneMore ==
  ASSUME NEW r \in Seq(LineSet), NEW p \in Processes
  PROVE  /\ \A l \in LineSet : RowsOf(Append(r, l), p) = RowsOf(r, p) \o RowsOf(<<l>>, p)
         /\ RowsOf(<<>>, p) = <<>>
         /\ r # <<>> => RowsOf(r, p) = IF Head(r).process = p THEN <<Head(r)>> \o RowsOf(Tail(r), p)
                                                             ELSE RowsOf(Tail(r), p)
<1>1. ASSUME NEW l \in LineSet PROVE RowsOf(Append(r, l), p) = RowsOf(r, p) \o RowsOf(<<l>>, p)
  <2>1. <<l>> \in Seq(LineSet) /\ Append(r, l) = r \o <<l>>
    BY AppendIsConcat
  <2> QED
    BY <2>1, RowsOfConcat, ZenonT(30)
<1>2. RowsOf(<<>>, p) = <<>>
  BY KeepingOfNothing DEF RowsOf
<1>3. ASSUME r # <<>>
      PROVE  RowsOf(r, p) = IF Head(r).process = p THEN <<Head(r)>> \o RowsOf(Tail(r), p)
                                                  ELSE RowsOf(Tail(r), p)
  <2>1. Head(r) \in LineSet
    BY <1>3, HeadTailProperties
  <2>2. Head(r) \in LinesOf(p) <=> Head(r).process = p
    BY <2>1, LinesOfFacts
  <2> QED
    BY <1>3, <2>2, KeepingOfTail DEF RowsOf
<1> QED
  BY <1>1, <1>2, <1>3

\* A step is part of the story when, for each process, both sides get the same lines or one
\* of them loses its front.
LEMMA StoryGoesOn ==
  ASSUME IInv, EachOnce, IInv', EachOnce', SameStory, sqlite' = sqlite,
         faults' \in {faults, faults + 1},
         sqlite /\ faults = 0 /\ faults' = 0 =>
           /\ batch' # <<>> => pc' \in {"collect", "store", "evict", "write"}
           /\ \A p \in Processes :
                \/ Told(p)' = Told(p) /\ Written(p)' = Written(p)
                \/ \E u \in Seq(LineSet) :
                     Told(p)' = Told(p) \o u /\ Written(p)' = Written(p) \o u
                \/ EndsWith(Told(p), Told(p)') /\ Written(p)' = Written(p)
                \/ Told(p)' = Told(p) /\ EndsWith(Written(p), Written(p)')
                \/ Told(p)' = <<>>
  PROVE  SameStory'
<1>1. faults' \in Nat /\ (faults' = 0 => faults = 0)
  BY DEF SameStory
<1>2. ASSUME sqlite, faults = 0, faults' = 0, NEW p \in Processes
      PROVE  OneStory(Told(p)', Written(p)')
  <2> DEFINE s == Told(p)
             t == Written(p)
             v == Told(p)'
             w == Written(p)'
  <2>1. OneStory(s, t)
    BY <1>2 DEF SameStory
  <2>2. s \in Seq(LineSet) /\ t \in Seq(LineSet) /\ v \in Seq(LineSet) /\ w \in Seq(LineSet)
    BY StoryTypes
  <2>3. \/ v = s /\ w = t
        \/ \E u \in Seq(LineSet) : v = s \o u /\ w = t \o u
        \/ EndsWith(s, v) /\ w = t
        \/ v = s /\ EndsWith(t, w)
        \/ v = <<>>
    BY <1>2
  <2> HIDE DEF s, t, v, w
  <2>4. OneStory(v, w)
    <3>1. CASE v = s /\ w = t
      BY <2>1, <3>1
    <3>2. CASE \E u \in Seq(LineSet) : v = s \o u /\ w = t \o u
      BY <2>1, <2>2, <3>2, OneStoryGoesOn
    <3>3. CASE EndsWith(s, v) /\ w = t
      BY <2>1, <2>2, <3>3, OneStoryGoesOn
    <3>4. CASE v = s /\ EndsWith(t, w)
      BY <2>1, <2>2, <3>4, OneStoryGoesOn
    <3>5. CASE v = <<>>
      BY <2>2, <3>5, EndsWithFacts DEF OneStory
    <3> QED
      BY <2>3, <3>1, <3>2, <3>3, <3>4, <3>5
  <2> QED
    BY <2>4 DEF v, w
<1> QED
  BY <1>1, <1>2 DEF SameStory

(* The story of a process in the next state.                                           *)
LEMMA StoryPrimes ==
  ASSUME NEW p \in Processes
  PROVE  /\ Told(p)' = hot'[p] \o RowsOf(Unsaid', p)
         /\ Written(p)' = RowsOf(disk', p) \o RowsOf(batch', p)
BY DEF Told, Written, RowsOf, LinesOf, Keeping

\* The drain takes a line: it is to be said and to be written.
LEMMA StoryOfCollect ==
  ASSUME IInv, EachOnce, IInv', EachOnce', SameStory, Collect, channel # <<>> PROVE SameStory'
<1> DEFINE l == Head(channel)
<1>1. /\ batch' = Append(batch, l) /\ rest' = Append(rest, l) /\ pc = "collect"
      /\ UNCHANGED <<pc, hot, disk, sqlite, faults>>
  BY DEF Collect, files, bounds
<1>2. l \in LineSet /\ <<l>> \in Seq(LineSet)
  BY HeadTailProperties DEF IInv, StoreTypes
<1> HIDE DEF l
<1>3. Unsaid = rest /\ Unsaid' = rest'
  BY <1>1 DEF Unsaid
<1>4. ASSUME NEW p \in Processes
      PROVE  \E u \in Seq(LineSet) : Told(p)' = Told(p) \o u /\ Written(p)' = Written(p) \o u
  <2> DEFINE u == RowsOf(<<l>>, p)
             h == hot[p]
             r == RowsOf(rest, p)
             d == RowsOf(disk, p)
             b == RowsOf(batch, p)
  <2>1. /\ u \in Seq(LineSet) /\ h \in Seq(LineSet) /\ r \in Seq(LineSet) /\ d \in Seq(LineSet)
        /\ b \in Seq(LineSet)
    BY <1>2, StoryTypes, RowsFacts
  <2>2. RowsOf(rest', p) = r \o u /\ RowsOf(batch', p) = b \o u
    BY <1>1, <1>2, StoryTypes, RowsOfOneMore
  <2>3. Told(p) = h \o r /\ Written(p) = d \o b
    BY <1>3 DEF Told, Written
  <2>4. Told(p)' = h \o (r \o u) /\ Written(p)' = d \o (b \o u)
    BY <1>1, <1>3, <2>2, StoryPrimes
  <2> HIDE DEF u, h, r, d, b
  <2>5. (h \o r) \o u = h \o (r \o u)
    BY <2>1, LinesAssociate, SMTT(30)
  <2>6. (d \o b) \o u = d \o (b \o u)
    BY <2>1, LinesAssociate
  <2> QED
    BY <2>1, <2>3, <2>4, <2>5, <2>6
<1>5. batch' # <<>> => pc' \in {"collect", "store", "evict", "write"}
  BY <1>1
<1>6. sqlite' = sqlite /\ faults' = faults
  BY <1>1
<1> QED
  BY <1>4, <1>5, <1>6, StoryGoesOn

\* A line goes into its buffer, which may forget its oldest.
LEMMA StoryOfStore ==
  ASSUME IInv, EachOnce, IInv', EachOnce', SameStory, Store PROVE SameStory'
<1> DEFINE l == Head(rest)
           q == l.process
           grown == Append(hot[q], l)
           t == Tail(rest)
<1>1. /\ pc = "store" /\ rest # <<>> /\ UNCHANGED <<batch, disk, sqlite, faults>>
      /\ hot' = [hot EXCEPT ![q] = LastOf(grown, MaxLines)]
      /\ \/ pc' = "evict" /\ rest' = rest
         \/ pc' = "store" /\ rest' = t
  BY DEF Store, Broadcast, files, bounds
<1>2. l \in LineSet /\ q \in Processes /\ t \in Seq(LineSet) /\ <<l>> \in Seq(LineSet)
  BY <1>1, HeadTailProperties, LineFields DEF IInv, StoreTypes
<1>3. Unsaid = rest /\ Unsaid' = t
  BY <1>1 DEF Unsaid
<1>4. hot \in [Processes -> Seq(LineSet)] /\ rest \in Seq(LineSet)
  BY StoryTypes
<1>5. ASSUME NEW p \in Processes PROVE EndsWith(Told(p), Told(p)')
  <2> DEFINE h == hot[p]
             k == hot'[p]
             r == RowsOf(t, p)
  <2>1. h \in Seq(LineSet) /\ r \in Seq(LineSet) /\ k \in Seq(LineSet)
    BY <1>2, <1>4, StoryTypes, RowsFacts
  <2>2. Told(p)' = k \o r
    BY <1>3, StoryPrimes
  <2>3. Told(p) = h \o RowsOf(rest, p)
    BY <1>3 DEF Told
  <2>4. RowsOf(rest, p) = IF q = p THEN <<l>> \o r ELSE r
    BY <1>1, <1>4, RowsOfOneMore
  <2>5. CASE q # p
    <3>1. k = h
      BY <1>1, <2>5
    <3>2. Told(p) = Told(p)'
      BY <2>2, <2>3, <2>4, <2>5, <3>1
    <3> QED
      BY <3>2, StoryTypes, EndsWithFacts
  <2>6. CASE q = p
    <3>1. k = LastOf(grown, MaxLines) /\ grown = Append(h, l)
      BY <1>1, <1>2, <1>4, <2>6
    <3> HIDE DEF l, q, t, h, k, r, grown
    <3>2. grown \in Seq(LineSet) /\ grown = h \o <<l>>
      BY <1>2, <2>1, <3>1, AppendProperties, AppendIsConcat
    <3>3. EndsWith(grown, k)
      BY <3>1, <3>2, LastOfIsAnEnd, Constants
    <3>4. (h \o <<l>>) \o r = h \o (<<l>> \o r)
      BY <1>2, <2>1, LinesAssociate
    <3>5. Told(p) = grown \o r
      BY <2>3, <2>4, <2>6, <3>2, <3>4
    <3>6. EndsWith(grown \o r, k \o r)
      BY <2>1, <3>2, <3>3, EndsWithFacts
    <3> QED
      BY <2>2, <3>5, <3>6
  <2> QED
    BY <2>5, <2>6
<1>6. \A p \in Processes : Written(p)' = Written(p)
  BY <1>1, StoryPrimes DEF Written
<1>7. pc' \in {"collect", "store", "evict", "write"} /\ sqlite' = sqlite /\ faults' = faults
  BY <1>1
<1> QED
  BY <1>5, <1>6, <1>7, StoryGoesOn

(* An eviction shortens what is told, from the front.                                  *)
LEMMA StoryOfEvict ==
  ASSUME IInv, EachOnce, IInv', EachOnce', SameStory, Evict PROVE SameStory'
<1>1. PICK q \in Longest : hot' = [hot EXCEPT ![q] = Tail(@)]
  BY DEF Evict
<1>2. /\ pc = "evict" /\ q \in Processes /\ hot[q] # <<>> /\ UNCHANGED <<batch, disk, sqlite, faults>>
      /\ \/ pc' = "evict" /\ rest' = rest
         \/ pc' = "store" /\ rest' = Tail(rest)
  BY DEF Evict, Broadcast, files, bounds, Longest
<1>3. Unsaid' = Unsaid
  BY <1>2 DEF Unsaid
<1>4. hot \in [Processes -> Seq(LineSet)] /\ Unsaid \in Seq(LineSet)
  BY StoryTypes
<1>5. ASSUME NEW p \in Processes PROVE EndsWith(Told(p), Told(p)')
  <2> DEFINE h == hot[p]
             k == hot'[p]
             r == RowsOf(Unsaid, p)
  <2>1. h \in Seq(LineSet) /\ r \in Seq(LineSet) /\ k \in Seq(LineSet)
    BY <1>4, StoryTypes, RowsFacts
  <2>2. Told(p) = h \o r /\ Told(p)' = k \o r
    BY <1>3, StoryPrimes DEF Told
  <2>3. EndsWith(h, k)
    <3>1. CASE p # q
      <4>1. k = h
        BY <1>1, <1>4, <3>1
      <4> QED
        BY <2>1, <4>1, EndsWithFacts
    <3>2. CASE p = q
      <4>1. h # <<>> /\ k = Tail(h)
        BY <1>1, <1>2, <1>4, <3>2
      <4>2. h = <<Head(h)>> \o Tail(h) /\ <<Head(h)>> \in Seq(LineSet)
        BY <2>1, <4>1, HeadAndTail
      <4> HIDE DEF h, k
      <4>3. EndsWith(<<Head(h)>> \o k, k)
        BY <2>1, <4>2, EndsWithFacts
      <4> QED
        BY <4>1, <4>2, <4>3
    <3> QED
      BY <3>1, <3>2
  <2> HIDE DEF h, k, r
  <2> QED
    BY <2>1, <2>2, <2>3, EndsWithFacts
<1>6. \A p \in Processes : Written(p)' = Written(p)
  BY <1>2, StoryPrimes DEF Written
<1>7. pc' \in {"collect", "store", "evict", "write"} /\ sqlite' = sqlite /\ faults' = faults
  BY <1>2
<1> QED
  BY <1>5, <1>6, <1>7, StoryGoesOn

\* What was to be written is; a statement that fails ends the story.
LEMMA StoryOfWrite ==
  ASSUME IInv, EachOnce, IInv', EachOnce', SameStory, Write PROVE SameStory'
<1>1. /\ pc = "write" /\ batch' = <<>> /\ UNCHANGED <<rest, hot, sqlite>>
      /\ \/ disk' = disk \o batch /\ pc' = "sweep" /\ faults' = faults
         \/ faults' = faults + 1 /\ pc' = then
  BY DEF Write, Fails, bounds
<1>2. faults \in Nat /\ (faults' = faults + 1 => faults' # 0)
  BY <1>1 DEF SameStory
<1>3. ASSUME faults' = 0, NEW p \in Processes
      PROVE  Told(p)' = Told(p) /\ Written(p)' = Written(p)
  <2>1. disk' = disk \o batch /\ pc' = "sweep"
    BY <1>1, <1>2, <1>3
  <2>2. Unsaid' = Unsaid
    BY <1>1, <2>1 DEF Unsaid
  <2>3. Told(p)' = Told(p)
    BY <1>1, <2>2, StoryPrimes DEF Told
  <2>4. RowsOf(disk', p) = RowsOf(disk, p) \o RowsOf(batch, p)
    BY <2>1, StoryTypes, RowsOfConcat, ZenonT(30)
  <2>5. RowsOf(batch', p) = <<>>
    BY <1>1, RowsOfOneMore, EmptySeq
  <2>6. Written(p) \in Seq(LineSet) /\ Written(p) \o <<>> = Written(p)
    BY StoryTypes, ConcatEmptySeq
  <2> QED
    BY <2>3, <2>4, <2>5, <2>6, StoryPrimes DEF Written
<1>4. sqlite' = sqlite /\ faults' \in {faults, faults + 1}
  BY <1>1
<1> QED
  BY <1>1, <1>3, <1>4, StoryGoesOn

\* Retention drops fronts.
LEMMA StoryOfRetention ==
  ASSUME IInv, EachOnce, IInv', EachOnce', SameStory, Sweep \/ Trim PROVE SameStory'
<1>1. /\ pc \in {"sweep", "trim"} /\ UNCHANGED <<batch, rest, hot, sqlite>>
      /\ \/ faults' = faults + 1
         \/ faults' = faults
      /\ pc' \in {"trim", "sweep", then}
  BY DEF Sweep, Trim, Fails, store, bounds
<1>2. then # "evict"
  BY DEF IInv, StoreTypes
<1>3. Unsaid' = Unsaid
  BY <1>1, <1>2 DEF Unsaid
<1>4. disk \in Seq(LineSet) /\ NoneTwice(disk) /\ batch \in Seq(LineSet) /\ disk' \in Seq(LineSet)
  BY StoryTypes DEF EachOnce, Apart
<1>5. ASSUME NEW p \in Processes PROVE Told(p)' = Told(p) /\ EndsWith(Written(p), Written(p)')
  <2> DEFINE d == RowsOf(disk, p)
             e == RowsOf(disk', p)
             b == RowsOf(batch, p)
  <2>1. d \in Seq(LineSet) /\ e \in Seq(LineSet) /\ b \in Seq(LineSet)
    BY <1>4, RowsFacts
  <2>2. Told(p)' = Told(p)
    BY <1>1, <1>3, StoryPrimes DEF Told
  <2>3. Written(p) = d \o b /\ Written(p)' = e \o b
    BY <1>1, StoryPrimes DEF Written
  <2>4. EndsWith(d, e)
    <3>1. CASE Sweep
      BY <1>4, <3>1, SweepDropsFronts DEF EndsWith
    <3>2. CASE Trim /\ disk' # disk
      BY <1>4, <3>2, TrimDropsAFront DEF EndsWith
    <3>3. CASE disk' = disk
      <4>1. e = d
        BY <3>3
      <4> HIDE DEF d, e
      <4> QED
        BY <2>1, <4>1, EndsWithFacts
    <3> QED
      BY <3>1, <3>2, <3>3
  <2> HIDE DEF d, e, b
  <2>5. EndsWith(d \o b, e \o b)
    BY <2>1, <2>4, EndsWithFacts
  <2> QED
    BY <2>2, <2>3, <2>5
<1>6. sqlite /\ faults = 0 => batch = <<>>
  BY <1>1 DEF SameStory
<1>7. sqlite' = sqlite /\ faults' \in {faults, faults + 1}
  BY <1>1
<1> QED
  BY <1>1, <1>5, <1>6, <1>7, StoryGoesOn

\* A line past the channel is a drain of one.
LEMMA StoryOfPushLog ==
  ASSUME IInv, EachOnce, IInv', EachOnce', SameStory, PushLog PROVE SameStory'
<1>1. PICK q \in Processes : Fresh /\ batch' = <<Line(q, made + 1, 1)>>
  BY DEF PushLog
<1> DEFINE l == Line(q, made + 1, 1)
<1>2. /\ pc \in {"check", "answer"} /\ pc' = "store" /\ rest' = batch' /\ batch' = <<l>>
      /\ UNCHANGED <<hot, disk, sqlite, faults>>
  BY <1>1 DEF PushLog, files, bounds
<1>3. batch' \in Seq(LineSet) /\ rest = <<>>
  BY <1>2 DEF IInv, StoreTypes, DrainUnderWay
<1> HIDE DEF l
<1>4. sqlite /\ faults = 0 => batch = <<>>
  BY <1>2 DEF SameStory
<1>5. Unsaid = <<>> /\ Unsaid' = batch'
  BY <1>2, <1>3 DEF Unsaid
<1>6. ASSUME sqlite, faults = 0, NEW p \in Processes
      PROVE  \E u \in Seq(LineSet) : Told(p)' = Told(p) \o u /\ Written(p)' = Written(p) \o u
  <2> DEFINE u == RowsOf(batch', p)
             h == hot[p]
             d == RowsOf(disk, p)
  <2>1. u \in Seq(LineSet) /\ h \in Seq(LineSet) /\ d \in Seq(LineSet) /\ RowsOf(<<>>, p) = <<>>
    BY <1>3, StoryTypes, RowsFacts, RowsOfOneMore, EmptySeq
  <2>2. h \o <<>> = h /\ d \o <<>> = d
    BY <2>1, ConcatEmptySeq
  <2>3. Told(p) = h /\ Written(p) = d
    BY <1>4, <1>5, <1>6, <2>1, <2>2 DEF Told, Written
  <2>4. Told(p)' = h \o u /\ Written(p)' = d \o u
    BY <1>2, <1>5, StoryPrimes
  <2> HIDE DEF u, h, d
  <2> QED
    BY <2>1, <2>3, <2>4
<1>7. pc' \in {"collect", "store", "evict", "write"} /\ sqlite' = sqlite /\ faults' = faults
  BY <1>2
<1> QED
  BY <1>6, <1>7, StoryGoesOn

\* The daemon goes: its buffers are empty.
LEMMA StoryOfGoing ==
  ASSUME IInv, EachOnce, IInv', EachOnce', SameStory, Flush \/ Crash \/ Restart PROVE SameStory'
<1>1. /\ batch' = <<>> /\ rest' = <<>> /\ hot' = [q \in Processes |-> <<>>]
      /\ pc' \in {"down", "select"} /\ UNCHANGED <<disk, sqlite, faults>>
  BY DEF Flush, Crash, Restart, GoDown, files, bounds
<1>2. Unsaid' = <<>>
  BY <1>1 DEF Unsaid
<1>3. ASSUME NEW p \in Processes PROVE Told(p)' = <<>>
  <2>1. RowsOf(<<>>, p) = <<>>
    BY RowsOfOneMore, EmptySeq
  <2>2. Told(p)' = <<>> \o <<>>
    BY <1>1, <1>2, <2>1, StoryPrimes
  <2> QED
    BY <2>2, EmptySeq, ConcatEmptySeq
<1>4. sqlite' = sqlite /\ faults' = faults
  BY <1>1
<1> QED
  BY <1>1, <1>3, <1>4, StoryGoesOn

\* Everything else leaves the story alone.
LEMMA StoryOfTheRest ==
  ASSUME IInv, EachOnce, IInv', EachOnce', SameStory,
         \/ \E p \in Processes : Read(p)
         \/ Collect /\ channel = <<>>
         \/ Stored \/ BeginPoll \/ BeginRequest \/ BeginShutdown \/ RetentionTick \/ Report
         \/ SendOwn \/ EndTurn \/ EndStops \/ Elapse \/ UNCHANGED vars
  PROVE  SameStory'
<1>1. UNCHANGED <<rest, hot, disk, sqlite, faults>>
  BY DEF Read, Collect, Stored, BeginPoll, BeginRequest, BeginShutdown, RetentionTick, Report,
         SendOwn, EndTurn, EndStops, Elapse, vars, store, files, bounds
<1>2. then \notin {"evict"} /\ (pc = "evict" => rest # <<>>)
  BY DEF IInv, StoreTypes, DrainUnderWay
<1>3. (pc = "evict") <=> (pc' = "evict")
  BY <1>2 DEF Read, Collect, Stored, BeginPoll, BeginRequest, BeginShutdown, RetentionTick, Report,
         SendOwn, EndTurn, EndStops, Elapse, vars, Awaiting, Drain
<1>4. Unsaid' = Unsaid
  BY <1>1, <1>3 DEF Unsaid
<1>5. sqlite => batch' = batch
  BY DEF Read, Collect, Stored, BeginPoll, BeginRequest, BeginShutdown, RetentionTick, Report,
         SendOwn, EndTurn, EndStops, Elapse, vars, store
<1>6. ASSUME sqlite, NEW p \in Processes PROVE Told(p)' = Told(p) /\ Written(p)' = Written(p)
  BY <1>1, <1>4, <1>5, <1>6, StoryPrimes DEF Told, Written
<1>7. sqlite /\ faults = 0 /\ batch' # <<>> => pc' \in {"collect", "store", "evict", "write"}
  <2> SUFFICES ASSUME sqlite, faults = 0, batch # <<>>
               PROVE  pc' \in {"collect", "store", "evict", "write"}
    BY <1>5
  <2>1. pc \in {"collect", "store", "evict", "write"}
    BY DEF SameStory
  <2> QED
    BY <2>1 DEF Read, Collect, Stored, BeginPoll, BeginRequest, BeginShutdown, RetentionTick,
                Report, SendOwn, EndTurn, EndStops, Elapse, vars, Awaiting
<1>8. sqlite' = sqlite /\ faults' = faults
  BY <1>1
<1> QED
  BY <1>6, <1>7, <1>8, StoryGoesOn

(* No step makes the buffer and the database tell different stories.                   *)
LEMMA NextKeepsSameStory ==
  ASSUME IInv, EachOnce, SameStory, [Next]_vars PROVE SameStory'
<1>1. IInv' /\ EachOnce'
  BY NextKeepsIInv, NextKeepsEachOnce
<1>2. CASE Collect
  BY <1>1, <1>2, StoryOfCollect, StoryOfTheRest
<1>3. CASE Store \/ Evict \/ Write
  BY <1>1, <1>3, StoryOfStore, StoryOfEvict, StoryOfWrite
<1>4. CASE Sweep \/ Trim \/ PushLog \/ Flush \/ Crash \/ Restart
  BY <1>1, <1>4, StoryOfRetention, StoryOfPushLog, StoryOfGoing
<1>5. CASE \/ \E p \in Processes : Read(p)
           \/ Stored \/ BeginPoll \/ BeginRequest \/ BeginShutdown \/ RetentionTick \/ Report
           \/ SendOwn \/ EndTurn \/ EndStops \/ Elapse \/ UNCHANGED vars
  BY <1>1, <1>5, StoryOfTheRest
<1> QED
  BY <1>2, <1>3, <1>4, <1>5 DEF Next

(* An end is a suffix.                                                                 *)
LEMMA EndsWithIsSuffix ==
  ASSUME NEW s \in Seq(LineSet), NEW t \in Seq(LineSet), EndsWith(s, t) PROVE IsSuffix(t, s)
<1>1. PICK x \in Seq(LineSet) : s = x \o t
  BY DEF EndsWith
<1>2. IsSuffix(t, x \o t)
  BY PartIsPrefixAndSuffix
<1> QED
  BY <1>1, <1>2

(* What a client reads from memory and what it reads from the database are one story, for  *)
(* every limit and policy, while no statement of the database failed: the drain stores and *)
(* writes the same lines in the same order, and evictions, the bound of a buffer and both  *)
(* retention passes forget from the front.                                                 *)
THEOREM TailAndHistoryMatch == Spec => []TailMatchesHistory
<1>1. Init => SameStory
  <2> SUFFICES ASSUME Init PROVE SameStory
    OBVIOUS
  <2>1. /\ faults = 0 /\ batch = <<>> /\ rest = <<>> /\ disk = <<>> /\ pc = "select"
        /\ hot = [q \in Processes |-> <<>>]
    BY DEF Init
  <2>2. ASSUME NEW p \in Processes PROVE OneStory(Told(p), Written(p))
    <3>1. RowsOf(<<>>, p) = <<>> /\ <<>> \o <<>> = <<>> /\ <<>> \in Seq(LineSet)
      BY RowsOfOneMore, EmptySeq, ConcatEmptySeq
    <3>2. Told(p) = <<>> /\ Written(p) = <<>>
      BY <2>1, <3>1 DEF Told, Written, Unsaid
    <3> QED
      BY <3>1, <3>2, EndsWithFacts DEF OneStory
  <2> QED
    BY <2>1, <2>2 DEF SameStory
<1>2. IInv /\ EachOnce /\ SameStory => TailMatchesHistory
  <2> SUFFICES ASSUME IInv, EachOnce, SameStory, sqlite, faults = 0, batch = <<>>,
                      pc \in {"select", "tick", "check", "answer", "sending", "flush"},
                      NEW p \in Processes
               PROVE  IsSuffix(hot[p], RowsOf(disk, p)) \/ IsSuffix(RowsOf(disk, p), hot[p])
    BY DEF TailMatchesHistory
  <2> DEFINE h == hot[p]
             d == RowsOf(disk, p)
  <2>1. rest = <<>> /\ Unsaid = <<>>
    BY DEF IInv, DrainUnderWay, Unsaid
  <2>2. h \in Seq(LineSet) /\ d \in Seq(LineSet) /\ RowsOf(<<>>, p) = <<>>
    BY RowsFacts, RowsOfOneMore, EmptySeq DEF IInv, Buffers, EachOnce
  <2>3. h \o <<>> = h /\ d \o <<>> = d
    BY <2>2, ConcatEmptySeq
  <2>4. Told(p) = h /\ Written(p) = d
    BY <2>1, <2>2, <2>3 DEF Told, Written
  <2>5. OneStory(h, d)
    BY <2>4 DEF SameStory
  <2> HIDE DEF h, d
  <2>6. IsSuffix(h, d) \/ IsSuffix(d, h)
    BY <2>2, <2>5, EndsWithIsSuffix DEF OneStory
  <2> QED
    BY <2>6 DEF h, d
<1>3. Init => IInv /\ EachOnce
  BY InitEstablishesIInv, InitEstablishesEachOnce
<1>4. IInv /\ EachOnce /\ SameStory /\ [Next]_vars => (IInv /\ EachOnce /\ SameStory)'
  BY NextKeepsIInv, NextKeepsEachOnce, NextKeepsSameStory
<1> QED
  BY <1>1, <1>2, <1>3, <1>4, PTL DEF Spec

-----------------------------------------------------------------------------
(* The run of a command. *)
Lines == Streams \X Nat
Waiting == {sending} \ {NoLine}

RunTypes ==
  /\ silence \in SUBSET Streams /\ holds \in SUBSET Streams /\ closed \in SUBSET Streams
  /\ command \in {"none", "running", "failed", "exited"}
  /\ printed \in [Streams -> Nat] /\ ours \in [Streams -> Nat]
  /\ passed \in [Streams -> Nat] /\ taken \in [Streams -> Nat]
  /\ driver \in Streams \cup {"select", "returned"} /\ cut \in BOOLEAN
  /\ output \in Seq(Lines) /\ reported \in Seq(Lines) /\ sending \in Lines \cup {NoLine}
  /\ at \in {"header", "run", "rest", "done"}

\* No stage has more lines than the one before it; a reader that closed has them all.
Counts ==
  /\ \A s \in Streams :
       /\ taken[s] <= passed[s] /\ passed[s] <= printed[s] /\ ours[s] <= printed[s]
       /\ ours[s] # 0 => command = "exited"
  /\ \A s \in closed : passed[s] = printed[s] /\ command = "exited" /\ s \notin holds

\* Where the drain stands tells which streams have nothing left.
Stages ==
  /\ driver = Stderr => Stdout \in closed /\ Empty(Stdout)
  /\ driver = "returned" /\ ~cut => \A s \in Streams : s \in closed /\ Empty(s)
  /\ at = "header" => command = "none"
  /\ at \in {"rest", "done"} => driver = "returned" \/ command = "failed"
  /\ at = "done" => output = <<>> /\ sending = NoLine

\* The lines of A come before those of B.
AllBefore(A, B) == \A a \in A, b \in B : a[1] = b[1] => a[2] < b[2]

\* The log, the line that waits for it and the output hold the lines taken, in order.
Passage ==
  /\ InOrder(reported) /\ InOrder(output)
  /\ AllBefore(ToSet(reported), Waiting) /\ AllBefore(ToSet(reported), ToSet(output))
  /\ AllBefore(Waiting, ToSet(output))
  /\ \A e \in ToSet(reported) \cup Waiting : e[1] \notin silence
  /\ \A e \in ToSet(reported) \cup Waiting \cup ToSet(output) : e[2] \in 1..taken[e[1]]
  /\ \A s \in Streams \ silence : \A n \in 1..taken[s] :
       <<s, n>> \in ToSet(reported) \cup Waiting \cup ToSet(output)

RunInv == RunTypes /\ Counts /\ Stages /\ Passage

-----------------------------------------------------------------------------
(* What the proofs use of the constants.                                               *)
LEMMA RunConstants ==
  /\ Streams = {Stdout, Stderr} /\ Stdout # Stderr
  /\ "select" \notin Streams /\ "returned" \notin Streams /\ NoLine \notin Lines
BY TaskRunAssumption DEF Lines

(* An append of what is behind all stays in order.                                     *)
LEMMA InOrderOfAppend ==
  ASSUME NEW q \in Seq(Lines), NEW e \in Lines, InOrder(q), AllBefore(ToSet(q), {e})
  PROVE  InOrder(Append(q, e))
<1> DEFINE t == Append(q, e)
           N == Len(q)
<1>1. N \in Nat /\ DOMAIN q = 1..N /\ t \in Seq(Lines) /\ Len(t) = N + 1
  BY LenProperties, AppendProperties
<1>2. t[N + 1] = e /\ \A i \in 1..N : t[i] = q[i]
  BY AppendProperties
<1>3. DOMAIN t = 1..(N + 1)
  BY <1>1, LenProperties
<1>4. \A i \in 1..N : q[i] \in ToSet(q)
  BY <1>1 DEF ToSet
<1> SUFFICES ASSUME NEW i \in DOMAIN t, NEW j \in DOMAIN t, i < j, t[i][1] = t[j][1]
             PROVE  t[i][2] < t[j][2]
  BY DEF InOrder
<1> HIDE DEF t, N
<1>5. i \in 1..N
  BY <1>1, <1>3
<1>6. CASE j = N + 1
  BY <1>2, <1>4, <1>5, <1>6 DEF AllBefore
<1>7. CASE j \in 1..N
  BY <1>1, <1>2, <1>5, <1>7 DEF InOrder
<1> QED
  BY <1>1, <1>3, <1>6, <1>7

(* The head is before the others, and they are in order.                               *)
LEMMA InOrderOfTail ==
  ASSUME NEW q \in Seq(Lines), q # <<>>, InOrder(q)
  PROVE  /\ Head(q) \in Lines /\ Tail(q) \in Seq(Lines) /\ InOrder(Tail(q))
         /\ AllBefore({Head(q)}, ToSet(Tail(q)))
<1> DEFINE t == Tail(q)
           N == Len(q)
<1>1. /\ N \in Nat /\ N >= 1 /\ DOMAIN q = 1..N /\ t \in Seq(Lines) /\ Len(t) = N - 1
      /\ Head(q) = q[1] /\ q[1] \in Lines
  BY LenProperties, EmptySeq, HeadTailProperties, ElementOfSeq
<1>2. \A i \in 1..(N - 1) : t[i] = q[i + 1]
  BY <1>1, HeadTailProperties
<1>3. DOMAIN t = 1..(N - 1)
  BY <1>1, LenProperties
<1> HIDE DEF t, N
<1>4. ASSUME NEW i \in DOMAIN t, NEW j \in DOMAIN t, i < j, t[i][1] = t[j][1]
      PROVE  t[i][2] < t[j][2]
  <2>1. i + 1 \in DOMAIN q /\ j + 1 \in DOMAIN q /\ i + 1 < j + 1
    BY <1>1, <1>3, <1>4
  <2> QED
    BY <1>2, <1>3, <1>4, <2>1 DEF InOrder
<1>5. ASSUME NEW b \in ToSet(t), Head(q)[1] = b[1] PROVE Head(q)[2] < b[2]
  <2>1. PICK i \in 1..(N - 1) : b = t[i]
    BY <1>3 DEF ToSet
  <2>2. 1 \in DOMAIN q /\ i + 1 \in DOMAIN q /\ 1 < i + 1 /\ b = q[i + 1]
    BY <1>1, <1>2, <2>1
  <2> QED
    BY <1>1, <1>5, <2>2 DEF InOrder
<1> QED
  BY <1>1, <1>4, <1>5 DEF InOrder, AllBefore, t

-----------------------------------------------------------------------------
(* What the steps do to the lines on their way. *)
LEMMA PassageStays ==
  ASSUME Passage, UNCHANGED <<silence, taken, output, sending, reported>>
  PROVE  Passage'
BY DEF Passage, Waiting, InOrder, AllBefore, ToSet

(* The task takes a line from a pipe.                                                  *)
LEMMA TakeStep ==
  ASSUME RunInv, NEW s \in Streams, Take(s)
  PROVE  RunTypes' /\ Passage'
<1> DEFINE n == taken[s] + 1
           e == <<s, n>>
<1>1. /\ taken' = [taken EXCEPT ![s] = n] /\ taken'[s] = n /\ output' = Append(output, e)
      /\ UNCHANGED <<silence, sending, reported, Waiting>>
      /\ n \in Nat /\ e \in Lines /\ e[1] = s /\ e[2] = n /\ taken[s] \in Nat
  BY DEF Take, process, task, RunInv, RunTypes, Lines, Waiting
<1>2. RunTypes'
  BY <1>1, AppendProperties DEF Take, process, task, readers, RunInv, RunTypes
<1> HIDE DEF e
<1>3. output \in Seq(Lines) /\ ToSet(output') = ToSet(output) \cup {e} /\ ToSet(reported)' = ToSet(reported)
  <2>1. output \in Seq(Lines)
    BY DEF RunInv, RunTypes
  <2>2. ToSet(Append(output, e)) = ToSet(output) \cup {e}
    BY <1>1, <2>1, AppendedIsIn
  <2>3. ToSet(reported)' = ToSet(reported)
    BY <1>1 DEF ToSet
  <2> QED
    BY <1>1, <2>1, <2>2, <2>3
<1>4. \A a \in ToSet(reported) \cup Waiting \cup ToSet(output) :
        /\ a[1] \in Streams /\ a[2] \in 1..taken[a[1]]
  <2>1. \A a \in ToSet(output) \cup ToSet(reported) : a \in Lines
    BY <1>3, LenProperties, ElementOfSeq DEF RunInv, RunTypes, ToSet
  <2>2. \A a \in Waiting : a \in Lines
    BY DEF RunInv, RunTypes, Waiting
  <2> QED
    BY <2>1, <2>2 DEF RunInv, Passage, Lines
<1>5. \A a \in ToSet(reported) \cup Waiting \cup ToSet(output) : a[1] = s => a[2] < n
  BY <1>1, <1>4
<1>6. InOrder(output') /\ InOrder(reported')
  <2>1. AllBefore(ToSet(output), {e})
    BY <1>1, <1>5 DEF AllBefore
  <2> QED
    BY <1>1, <1>3, <2>1, InOrderOfAppend DEF RunInv, Passage
<1>7. \A a \in ToSet(reported) \cup Waiting, b \in ToSet(output') : a[1] = b[1] => a[2] < b[2]
  BY <1>1, <1>3, <1>5 DEF RunInv, Passage, AllBefore
<1>8. \A a \in ToSet(reported) \cup Waiting \cup ToSet(output') : a[2] \in 1..taken'[a[1]]
  <2>1. taken \in [Streams -> Nat]
    BY DEF RunInv, RunTypes
  <2>2. \A r \in Streams : taken'[r] = IF r = s THEN n ELSE taken[r]
    BY <1>1, <2>1
  <2>3. ASSUME NEW a \in ToSet(reported) \cup Waiting \cup ToSet(output) PROVE a[2] \in 1..taken'[a[1]]
    BY <1>1, <1>4, <2>1, <2>2
  <2>4. e[2] \in 1..taken'[e[1]]
    BY <1>1
  <2> QED
    BY <1>3, <2>3, <2>4
<1>9. \A r \in Streams \ silence : \A k \in 1..taken'[r] :
        <<r, k>> \in ToSet(reported) \cup Waiting \cup ToSet(output')
  <2> SUFFICES ASSUME NEW r \in Streams \ silence, NEW k \in 1..taken'[r]
               PROVE  <<r, k>> \in ToSet(reported) \cup Waiting \cup ToSet(output')
    OBVIOUS
  <2>1. CASE r = s /\ k = n
    BY <1>3, <2>1 DEF e
  <2>2. CASE k \in 1..taken[r]
    BY <1>3, <2>2 DEF RunInv, Passage
  <2>3. taken'[r] = IF r = s THEN n ELSE taken[r]
    BY <1>1 DEF RunInv, RunTypes
  <2> QED
    BY <1>1, <2>1, <2>2, <2>3
<1> QED
  BY <1>1, <1>2, <1>3, <1>6, <1>7, <1>8, <1>9 DEF RunInv, Passage, AllBefore

(* The reader forwards it.                                                             *)
LEMMA ForwardStep ==
  ASSUME RunInv, Forward
  PROVE  RunTypes' /\ Passage'
<1> DEFINE h == Head(output)
<1>1. /\ output # <<>> /\ output' = Tail(output) /\ sending = NoLine
      /\ sending' = IF h[1] \in silence THEN NoLine ELSE h
      /\ UNCHANGED <<silence, taken, reported>>
  BY DEF Forward, PopOutput, process, drain
<1>2. /\ output \in Seq(Lines) /\ output' \in Seq(Lines) /\ h \in Lines /\ h # NoLine
      /\ InOrder(output') /\ AllBefore({h}, ToSet(output'))
      /\ ToSet(output) = ToSet(output') \cup {h}
  BY <1>1, RunConstants, InOrderOfTail, HeadIsTakenOut DEF RunInv, RunTypes, Passage
<1>3. RunTypes'
  BY <1>1, <1>2 DEF Forward, process, readers, drain, RunInv, RunTypes
<1> HIDE DEF h
<1>4. Waiting = {} /\ Waiting' = IF h[1] \in silence THEN {} ELSE {h}
  BY <1>1, <1>2 DEF Waiting
<1>5. ToSet(reported)' = ToSet(reported) /\ ToSet(output)' = ToSet(output')
  BY <1>1 DEF ToSet
<1>6. InOrder(reported')
  BY <1>1 DEF RunInv, Passage
<1>7. /\ AllBefore(ToSet(reported), Waiting') /\ AllBefore(ToSet(reported), ToSet(output'))
      /\ AllBefore(Waiting', ToSet(output'))
  BY <1>2, <1>4 DEF RunInv, Passage, AllBefore
<1>8. /\ \A e \in ToSet(reported) \cup Waiting' : e[1] \notin silence
      /\ \A e \in ToSet(reported) \cup Waiting' \cup ToSet(output') : e[2] \in 1..taken[e[1]]
  BY <1>2, <1>4 DEF RunInv, Passage
<1>9. \A s \in Streams \ silence : \A n \in 1..taken[s] :
        <<s, n>> \in ToSet(reported) \cup Waiting' \cup ToSet(output')
  <2> SUFFICES ASSUME NEW s \in Streams \ silence, NEW n \in 1..taken[s]
               PROVE  <<s, n>> \in ToSet(reported) \cup Waiting' \cup ToSet(output')
    OBVIOUS
  <2>1. <<s, n>> \in ToSet(reported) \cup ToSet(output') \cup {h}
    BY <1>2, <1>4 DEF RunInv, Passage
  <2>2. CASE <<s, n>> = h
    <3>1. h[1] = s
      BY <2>2
    <3> QED
      BY <1>4, <2>2, <3>1
  <2> QED
    BY <2>1, <2>2
<1> QED
  BY <1>1, <1>2, <1>3, <1>5, <1>6, <1>7, <1>8, <1>9 DEF Passage

(* The task hands it on.                                                               *)
LEMMA SendStep ==
  ASSUME RunInv, Send
  PROVE  RunTypes' /\ Passage'
<1>1. /\ sending \in Lines /\ sending # NoLine /\ sending' = NoLine
      /\ reported' = Append(reported, sending) /\ UNCHANGED <<silence, taken, output>>
  BY DEF Send, process, drain, RunInv, RunTypes
<1>2. Waiting = {sending} /\ Waiting' = {}
  BY <1>1 DEF Waiting
<1>3. /\ reported \in Seq(Lines) /\ reported' \in Seq(Lines)
      /\ ToSet(reported)' = ToSet(reported) \cup Waiting /\ ToSet(output)' = ToSet(output)
  <2>1. reported \in Seq(Lines)
    BY DEF RunInv, RunTypes
  <2>2. /\ ToSet(Append(reported, sending)) = ToSet(reported) \cup {sending}
        /\ Append(reported, sending) \in Seq(Lines)
    BY <1>1, <2>1, AppendedIsIn, AppendProperties
  <2>3. ToSet(reported)' = ToSet(reported') /\ ToSet(output)' = ToSet(output)
    BY <1>1 DEF ToSet
  <2> QED
    BY <1>1, <1>2, <2>1, <2>2, <2>3
<1>4. RunTypes'
  BY <1>1, <1>3 DEF Send, process, readers, drain, RunInv, RunTypes
<1>5. InOrder(reported') /\ InOrder(output')
  <2>1. AllBefore(ToSet(reported), {sending})
    BY <1>2 DEF RunInv, Passage
  <2> QED
    BY <1>1, <1>3, <2>1, InOrderOfAppend DEF RunInv, Passage
<1>6. AllBefore(ToSet(reported)', Waiting') /\ AllBefore(Waiting', ToSet(output)')
  BY <1>2 DEF AllBefore
<1>7. AllBefore(ToSet(reported)', ToSet(output)')
  BY <1>3 DEF RunInv, Passage, AllBefore
<1>8. /\ \A e \in ToSet(reported)' \cup Waiting' : e[1] \notin silence
      /\ \A e \in ToSet(reported)' \cup Waiting' \cup ToSet(output)' : e[2] \in 1..taken[e[1]]
      /\ \A s \in Streams \ silence : \A n \in 1..taken[s] :
           <<s, n>> \in ToSet(reported)' \cup Waiting' \cup ToSet(output)'
  BY <1>2, <1>3 DEF RunInv, Passage
<1> QED
  BY <1>1, <1>4, <1>5, <1>6, <1>7, <1>8 DEF Passage

-----------------------------------------------------------------------------
(* The steps that touch no line on its way. *)
TouchesNoLine ==
  \/ Wait \/ Drained \/ GiveUp \/ Yield \/ Header \/ Returned \/ Footer \/ Reader \/ GraceEnds
  \/ EngineDrains \/ Fork \/ LeftoverEnds \/ Exit \/ (\E s \in Streams : Prints(s))

(* The other steps leave the lines where they are.                                     *)
LEMMA LinesAreLeftAlone ==
  ASSUME RunInv, TouchesNoLine
  PROVE  RunTypes' /\ Passage'
<1>1. UNCHANGED <<silence, taken, output, sending, reported>>
  BY DEF TouchesNoLine, Wait, Drained, GiveUp, Yield, Header, Returned, Footer, Reader, ReadLine,
         ReadEnd, GraceEnds, EngineDrains, Fork, LeftoverEnds, Exit, Prints, process, readers,
         drain, task
<1>2. Passage'
  BY <1>1, PassageStays DEF RunInv
<1>3. CASE Wait \/ Drained \/ GiveUp \/ Yield \/ Header \/ Returned \/ Footer \/ GraceEnds
  BY <1>1, <1>2, <1>3, RunConstants
     DEF RunInv, RunTypes, Wait, Drained, GiveUp, Yield, Header, Returned, Footer, GraceEnds,
         process, readers, drain, task
<1>4. CASE Reader
  <2>1. UNCHANGED <<process, drain, task>>
    BY <1>4 DEF Reader, ReadLine, ReadEnd
  <2>2. passed' \in [Streams -> Nat] /\ closed' \in SUBSET Streams
    <3>1. passed \in [Streams -> Nat] /\ closed \in SUBSET Streams
      BY DEF RunInv, RunTypes
    <3>2. PICK s \in Streams : ReadLine(s) \/ ReadEnd(s)
      BY <1>4 DEF Reader
    <3>3. CASE ReadLine(s)
      BY <3>1, <3>3 DEF ReadLine
    <3>4. CASE ReadEnd(s)
      BY <3>1, <3>4 DEF ReadEnd
    <3> QED
      BY <3>2, <3>3, <3>4
  <2> QED
    BY <1>1, <1>2, <2>1, <2>2 DEF RunInv, RunTypes, process, drain, task
<1>5. CASE EngineDrains \/ Fork \/ LeftoverEnds \/ Exit
  BY <1>1, <1>2, <1>5 DEF RunInv, RunTypes, EngineDrains, Fork, LeftoverEnds, Exit, process, readers,
                    drain, task
<1>6. CASE \E s \in Streams : Prints(s)
  BY <1>1, <1>2, <1>6 DEF RunInv, RunTypes, Prints, readers, drain, task
<1> QED
  BY <1>2, <1>3, <1>4, <1>5, <1>6 DEF TouchesNoLine

(* What is read of a pipe, and what is printed to it. *)
LEMMA ReadStepKeeps ==
  ASSUME RunInv, NEW s \in Streams, ReadLine(s) \/ ReadEnd(s) \/ Prints(s)
  PROVE  Counts' /\ Stages'
<1>0. /\ printed \in [Streams -> Nat] /\ ours \in [Streams -> Nat] /\ passed \in [Streams -> Nat]
      /\ taken \in [Streams -> Nat]
  BY DEF RunInv, RunTypes
<1>1. UNCHANGED <<command, holds, ours, taken, driver, cut, output, sending, at>>
  BY DEF ReadLine, ReadEnd, Prints, process, readers, drain, task
<1>2. CASE ReadLine(s)
  <2>1. s \notin closed /\ passed[s] < printed[s] /\ passed' = [passed EXCEPT ![s] = @ + 1]
        /\ UNCHANGED <<printed, closed>>
    BY <1>0, <1>2 DEF ReadLine, process, RunInv, Counts
  <2>2. Counts'
    BY <1>0, <1>1, <2>1 DEF RunInv, RunTypes, Counts
  <2>3. \A r \in closed : Empty(r) => Empty(r)'
    BY <1>0, <1>1, <2>1 DEF RunInv, RunTypes, Empty
  <2>4. Stages'
    BY <1>1, <2>1, <2>3, RunConstants DEF RunInv, Stages
  <2> QED
    BY <2>2, <2>4
<1>3. CASE ReadEnd(s)
  <2>1. closed' = closed \cup {s} /\ passed[s] = printed[s] /\ command = "exited" /\ s \notin holds
        /\ UNCHANGED <<printed, passed>>
    BY <1>3 DEF ReadEnd, AtEnd, process
  <2>2. Counts'
    BY <1>1, <2>1 DEF RunInv, Counts
  <2>3. Stages'
    BY <1>1, <2>1 DEF RunInv, Stages, Empty
  <2> QED
    BY <2>2, <2>3
<1>4. CASE Prints(s)
  <2>1. /\ command = "running" \/ s \in holds
        /\ printed' = [printed EXCEPT ![s] = @ + 1] /\ UNCHANGED <<passed, closed>>
    BY <1>4 DEF Prints, readers
  <2>2. s \notin closed
    BY <2>1 DEF RunInv, Counts
  <2>3. Counts'
    BY <1>0, <1>1, <2>1, <2>2 DEF RunInv, RunTypes, Counts
  <2>4. Stages'
    BY <1>1, <2>1 DEF RunInv, Stages, Empty
  <2> QED
    BY <2>3, <2>4
<1> QED
  BY <1>2, <1>3, <1>4

(* The command, and what it leaves behind. *)
LEMMA CommandStepKeeps ==
  ASSUME RunInv, Fork \/ LeftoverEnds \/ Exit \/ Header
  PROVE  Counts' /\ Stages'
<1>0. /\ printed \in [Streams -> Nat] /\ ours \in [Streams -> Nat] /\ passed \in [Streams -> Nat]
      /\ taken \in [Streams -> Nat]
  BY DEF RunInv, RunTypes
<1>1. UNCHANGED <<printed, passed, taken, closed, driver, cut, output, sending>>
  BY DEF Fork, LeftoverEnds, Exit, Header, readers, drain, task
<1>2. CASE Fork \/ LeftoverEnds
  <2>1. UNCHANGED <<command, ours, at>> /\ (command = "running" \/ holds' = {})
    BY <1>2 DEF Fork, LeftoverEnds, task
  <2> QED
    BY <1>1, <2>1 DEF RunInv, Counts, Stages, Empty
<1>3. CASE Exit
  <2>1. command = "running" /\ command' = "exited" /\ ours' = printed /\ UNCHANGED <<holds, at>>
    BY <1>3 DEF Exit, task
  <2> QED
    BY <1>0, <1>1, <2>1 DEF RunInv, Counts, Stages, Empty
<1>4. CASE Header
  <2>1. /\ at = "header" /\ command = "none" /\ UNCHANGED <<holds, ours>>
        /\ (command' = "running" /\ at' = "run") \/ (command' = "failed" /\ at' = "rest")
    BY <1>4 DEF Header, RunInv, Stages
  <2>2. closed = {} /\ \A s \in Streams : ours[s] = 0
    BY <1>0, <2>1 DEF RunInv, Counts, RunTypes
  <2>3. Counts'
    BY <1>0, <1>1, <2>1, <2>2 DEF RunInv, Counts
  <2>4. Stages'
    BY <1>1, <2>1 DEF RunInv, Stages, Empty
  <2> QED
    BY <2>3, <2>4
<1> QED
  BY <1>2, <1>3, <1>4

(* The run itself: its drain, and the way of a line to the log. *)
LEMMA DrainStepKeeps ==
  ASSUME RunInv,
         \/ Wait \/ Drained \/ GiveUp \/ Yield \/ Forward \/ Send \/ Returned \/ Footer
         \/ GraceEnds \/ EngineDrains \/ \E s \in Streams : Take(s)
  PROVE  Counts' /\ Stages'
<1>0. /\ printed \in [Streams -> Nat] /\ ours \in [Streams -> Nat] /\ passed \in [Streams -> Nat]
      /\ taken \in [Streams -> Nat]
  BY DEF RunInv, RunTypes
<1>1. UNCHANGED <<command, holds, printed, ours, passed, closed>>
  BY DEF Wait, Drained, GiveUp, Yield, Forward, Send, Returned, Footer, GraceEnds, EngineDrains,
         Take, process, readers
<1>2. ASSUME NEW s \in Streams, Take(s) PROVE Counts' /\ Stages'
  <2>1. /\ at = "run" /\ driver # "returned" /\ taken[s] # passed[s]
        /\ taken' = [taken EXCEPT ![s] = @ + 1]
        /\ driver = Stderr => s = Stderr
        /\ UNCHANGED <<driver, cut, sending, at>>
    BY <1>2, RunConstants DEF Take, Granted, Polled, Empty, task
  <2>2. Counts'
    BY <1>0, <1>1, <2>1 DEF RunInv, Counts
  <2>3. driver = Stderr => taken'[Stdout] = taken[Stdout]
    BY <1>0, <2>1, RunConstants
  <2>4. Stages'
    BY <1>1, <2>1, <2>3 DEF RunInv, Stages, Empty
  <2> QED
    BY <2>2, <2>4
<1>3. CASE Wait \/ Drained \/ GiveUp
  <2>1. /\ at = "run" /\ driver # "returned" /\ UNCHANGED <<taken, output, sending, at>>
    BY <1>3 DEF Wait, Drained, GiveUp, Granted, Polled, task
  <2>2. Counts'
    BY <1>1, <2>1 DEF RunInv, Counts
  <2>3. /\ driver' = Stderr => driver = Stdout /\ Stdout \in closed /\ Empty(Stdout)
        /\ driver' = "returned" /\ ~cut' => driver = Stderr /\ Stderr \in closed /\ Empty(Stderr)
    BY <1>3, RunConstants DEF Wait, Drained, GiveUp, RunInv, RunTypes
  <2>4. driver' = "returned" /\ ~cut' => ~cut
    BY <1>3 DEF Wait, Drained, GiveUp
  <2>5. \A s \in Streams : Empty(s)' = Empty(s)
    BY <1>1, <2>1 DEF Empty
  <2>6. driver' = Stderr => Stdout \in closed' /\ Empty(Stdout)'
    BY <1>1, <2>1, <2>3 DEF Empty
  <2>7. driver' = "returned" /\ ~cut' => \A s \in Streams : s \in closed' /\ Empty(s)'
    BY <1>1, <2>3, <2>5, RunConstants DEF RunInv, Stages
  <2> QED
    BY <1>1, <2>1, <2>2, <2>6, <2>7 DEF Stages
<1>4. CASE Yield \/ Forward \/ Send \/ GraceEnds \/ EngineDrains
  <2>1. UNCHANGED <<taken, driver, cut, at>>
    BY <1>4 DEF Yield, Forward, Send, GraceEnds, EngineDrains, drain, task
  <2>2. at = "done" => UNCHANGED <<output, sending>>
    BY <1>4, <2>1 DEF Yield, Forward, Send, GraceEnds, EngineDrains, drain, task, Polled, Pending,
                      RunInv, Stages
  <2> QED
    BY <1>1, <2>1, <2>2 DEF RunInv, Counts, Stages, Empty
<1>5. CASE Returned \/ Footer
  <2>1. /\ UNCHANGED <<taken, driver, cut, output, sending>> /\ at' \in {"rest", "done"}
        /\ driver = "returned" \/ command = "failed"
        /\ at' = "done" => output = <<>> /\ sending = NoLine
    BY <1>5 DEF Returned, Footer, drain, RunInv, Stages
  <2> QED
    BY <1>1, <2>1 DEF RunInv, Counts, Stages, Empty
<1> QED
  BY <1>2, <1>3, <1>4, <1>5

(* Every step keeps the invariant.                                                     *)
LEMMA RunStepKeepsRunInv ==
  ASSUME RunInv, [RunNext]_runVars
  PROVE  RunInv'
<1>1. RunTypes' /\ Passage'
  <2>1. CASE TouchesNoLine
    BY <2>1, LinesAreLeftAlone
  <2>2. ASSUME NEW s \in Streams, Take(s) PROVE RunTypes' /\ Passage'
    BY <2>2, TakeStep
  <2>3. CASE Forward \/ Send
    BY <2>3, ForwardStep, SendStep
  <2>4. CASE UNCHANGED runVars
    <3>1. RunTypes'
      BY <2>4 DEF runVars, process, readers, drain, task, RunInv, RunTypes
    <3> QED
      BY <2>4, <3>1, PassageStays DEF runVars, process, readers, drain, task, RunInv
  <2> QED
    BY <2>1, <2>2, <2>3, <2>4 DEF RunNext, Run, TouchesNoLine
<1>2. Counts' /\ Stages'
  <2>1. CASE Run
    BY <2>1, CommandStepKeeps, DrainStepKeeps DEF Run
  <2>2. CASE Reader \/ \E s \in Streams : Prints(s)
    BY <2>2, ReadStepKeeps DEF Reader
  <2>3. CASE GraceEnds \/ EngineDrains \/ Fork \/ LeftoverEnds \/ Exit
    BY <2>3, CommandStepKeeps, DrainStepKeeps
  <2>4. CASE UNCHANGED runVars
    BY <2>4 DEF runVars, process, readers, drain, task, RunInv, Counts, Stages, Empty
  <2> QED
    BY <2>1, <2>2, <2>3, <2>4 DEF RunNext
<1> QED
  BY <1>1, <1>2 DEF RunInv

(* The first state.                                                                    *)
LEMMA RunInitEstablishesRunInv == ASSUME RunInit PROVE RunInv
<1>1. /\ printed = [s \in Streams |-> 0] /\ ours = printed /\ passed = printed /\ taken = printed
      /\ closed = {} /\ output = <<>> /\ reported = <<>> /\ sending = NoLine /\ driver = "select"
      /\ at = "header" /\ command = "none" /\ silence \in SUBSET Streams /\ holds = {} /\ cut = FALSE
  BY DEF RunInit
<1>2. output \in Seq(Lines) /\ reported \in Seq(Lines) /\ DOMAIN output = {} /\ DOMAIN reported = {}
  BY <1>1, EmptySeq, LenProperties
<1>3. RunTypes
  BY <1>1, <1>2 DEF RunTypes
<1>4. Counts
  BY <1>1 DEF Counts
<1>5. Stages
  BY <1>1, RunConstants DEF Stages
<1>6. ToSet(reported) = {} /\ ToSet(output) = {} /\ Waiting = {}
  BY <1>1, <1>2 DEF ToSet, Waiting
<1>7. InOrder(reported) /\ InOrder(output)
  BY <1>2 DEF InOrder
<1>8. \A s \in Streams : 1..taken[s] = {}
  BY <1>1
<1>9. Passage
  BY <1>6, <1>7, <1>8 DEF Passage, AllBefore
<1> QED
  BY <1>3, <1>4, <1>5, <1>9 DEF RunInv

(* The completion is behind the lines.                                                 *)
LEMMA DoneIsInOrder == ASSUME RunInv PROVE ReportsInOrder
<1> SUFFICES ASSUME at = "done"
             PROVE  InOrder(reported) /\
                    \A s \in Streams : \E n \in 0..printed[s] :
                      /\ LoggedOf(s) = {s} \X (1..n)
                      /\ s \in silence => n = 0
                      /\ s \notin silence /\ ~cut => n >= ours[s]
  BY DEF ReportsInOrder
<1>1. InOrder(reported)
  BY DEF RunInv, Passage
<1>2. Waiting = {} /\ ToSet(output) = {}
  BY EmptyHasNone DEF RunInv, Stages, Waiting
<1>3. \A e \in ToSet(reported) : e \in Lines /\ e[1] \notin silence /\ e[2] \in 1..taken[e[1]]
  <2>1. \A e \in ToSet(reported) : e \in Lines
    BY LenProperties, ElementOfSeq DEF RunInv, RunTypes, ToSet
  <2> QED
    BY <2>1 DEF RunInv, Passage
<1>4. ASSUME NEW s \in Streams
      PROVE  \E n \in 0..printed[s] :
               /\ LoggedOf(s) = {s} \X (1..n)
               /\ s \in silence => n = 0
               /\ s \notin silence /\ ~cut => n >= ours[s]
  <2>1. /\ taken[s] \in Nat /\ passed[s] \in Nat /\ printed[s] \in Nat /\ ours[s] \in Nat
        /\ taken[s] <= printed[s] /\ ours[s] <= printed[s]
    BY DEF RunInv, RunTypes, Counts
  <2>2. CASE s \in silence
    <3>1. LoggedOf(s) = {} /\ 1..0 = {} /\ {s} \X {} = {}
      BY <1>3, <2>2 DEF LoggedOf
    <3> QED
      BY <2>1, <2>2, <3>1
  <2>3. CASE s \notin silence
    <3>1. ASSUME NEW e \in LoggedOf(s) PROVE e \in {s} \X (1..taken[s])
      BY <1>3, <3>1 DEF LoggedOf, Lines
    <3>2. ASSUME NEW e \in {s} \X (1..taken[s]) PROVE e \in LoggedOf(s)
      <4>1. PICK n \in 1..taken[s] : e = <<s, n>>
        OBVIOUS
      <4>2. e \in ToSet(reported)
        BY <1>2, <2>3, <4>1 DEF RunInv, Passage
      <4> QED
        BY <4>1, <4>2 DEF LoggedOf
    <3>3. ~cut => taken[s] >= ours[s]
      BY <2>1 DEF RunInv, Stages, Counts, Empty
    <3> QED
      BY <2>1, <2>3, <3>1, <3>2, <3>3
  <2> QED
    BY <2>2, <2>3
<1> QED
  BY <1>1, <1>4

-----------------------------------------------------------------------------
(* Whatever the streams, the room in the log and the budget of a poll: the log has the     *)
(* lines of a run in order and without a gap, up to the last its command printed unless    *)
(* the drain was given up, and none of a silenced stream.                                  *)
THEOREM RunReportsInOrder == RunInit /\ [][RunNext]_runVars => []ReportsInOrder
<1>1. RunInit => RunInv
  BY RunInitEstablishesRunInv
<1>2. RunInv /\ [RunNext]_runVars => RunInv'
  BY RunStepKeepsRunInv
<1>3. RunInv => ReportsInOrder
  BY DoneIsInOrder
<1> QED
  BY <1>1, <1>2, <1>3, PTL
=============================================================================
