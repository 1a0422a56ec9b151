---------------------------- MODULE LogViewProofs ----------------------------
(***************************************************************************)
(* The terminal interface, for every daemon, every window and every list   *)
(* of processes: what its log holds (LogView), and what its keys act on    *)
(* (Panes).                                                                *)
(*                                                                         *)
(* The log's invariant, StreamIInv, is about one sequence: every line the  *)
(* tail got, what is on its way to it and what the task has still to send. *)
(* Its last line is the last one the task saw, which is why the run a poll *)
(* passes on starts right behind it, or at the oldest line the daemon      *)
(* keeps.  What the tail holds is of that sequence and the clear cutoff is *)
(* a place in it, so the index the filtered view gives to a line is known  *)
(* by counting: IndexIs and ClearedOrSince.                                *)
(*                                                                         *)
(* The panes' invariant, PanesIInv, says that the selected pane is one of  *)
(* the page whenever the page shows some of the list: every key of the     *)
(* grid goes to a place of a page (Goes), within it where the page is.     *)
(***************************************************************************)
EXTENDS LogView, Panes, SequenceLemmas, FiniteSetTheorems

-----------------------------------------------------------------------------
(* The log: what a poll passes on.  *)
(* What passes of lines whose first k do not belong and whose others do is what follows k. *)
LEMMA PassedIs ==
  ASSUME NEW T, NEW s \in Seq(T), NEW S, NEW k \in 0..Len(s),
         \A i \in 1..Len(s) : s[i] \in S <=> i > k
  PROVE  Passed(s, S) = SubSeq(s, k + 1, Len(s))
<1> DEFINE N == Len(s)
           f == [i \in 0..N |-> SubSeq(s, k + 1, i)]
           upto[i \in 0..N] == IF i = 0 THEN <<>>
                               ELSE IF s[i] \in S THEN Append(upto[i - 1], s[i]) ELSE upto[i - 1]
<1>1. N \in Nat /\ k \in 0..N /\ \A i \in 1..N : s[i] \in T /\ (s[i] \in S <=> i > k)
  BY LenProperties, ElementOfSeq
<1>2. f[0] = <<>>
  BY <1>1, SubSeqEmpty
<1>3. ASSUME NEW i \in 1..N
      PROVE  f[i] = IF s[i] \in S THEN Append(f[i - 1], s[i]) ELSE f[i - 1]
  <2>1. i - 1 \in 0..N /\ i \in 0..N /\ f[i] = SubSeq(s, k + 1, i) /\ f[i - 1] = SubSeq(s, k + 1, i - 1)
    BY <1>1
  <2>2. CASE i > k
    <3>1. k + 1 \in 1..Len(s) /\ i \in (k + 1)..Len(s)
      BY <1>1, <2>2
    <3>2. SubSeq(s, k + 1, i) = SubSeq(s, k + 1, i - 1) \o <<s[i]>>
      BY <3>1, SubSeqRecursiveSecond
    <3>3. k + 1 \in Int /\ i - 1 \in Int /\ \A j \in (k + 1)..(i - 1) : s[j] \in T
      BY <1>1
    <3>4. SubSeq(s, k + 1, i - 1) \in Seq(T)
      BY <3>3, SubSeqProperties
    <3>5. Append(SubSeq(s, k + 1, i - 1), s[i]) = SubSeq(s, k + 1, i - 1) \o <<s[i]>>
      BY <1>1, <3>4, AppendIsConcat
    <3> HIDE DEF f
    <3> QED
      BY <1>1, <2>1, <2>2, <3>2, <3>5
  <2>3. CASE ~(i > k)
    <3>1. SubSeq(s, k + 1, i) = <<>> /\ SubSeq(s, k + 1, i - 1) = <<>>
      BY <1>1, <2>3, SubSeqEmpty
    <3> HIDE DEF f
    <3> QED
      BY <1>1, <2>1, <2>3, <3>1
  <2> QED
    BY <2>2, <2>3
<1>4. f = [i \in 0..N |-> IF i = 0 THEN <<>>
                          ELSE IF s[i] \in S THEN Append(f[i - 1], s[i]) ELSE f[i - 1]]
  <2>1. \A i \in 0..N : i = 0 \/ i \in 1..N
    BY <1>1
  <2>2. f = [i \in 0..N |-> f[i]]
    OBVIOUS
  <2> HIDE DEF f
  <2> QED
    BY <1>2, <1>3, <2>1, <2>2
<1>5. upto = CHOOSE g : g = [i \in 0..N |-> IF i = 0 THEN <<>>
                          ELSE IF s[i] \in S THEN Append(g[i - 1], s[i]) ELSE g[i - 1]]
  BY DEF upto
<1> HIDE DEF upto, f
<1>6. upto = [i \in 0..N |-> IF i = 0 THEN <<>>
                          ELSE IF s[i] \in S THEN Append(upto[i - 1], s[i]) ELSE upto[i - 1]]
  BY <1>4, <1>5
<1> DEFINE H == {n \in 0..N : upto[n] = f[n]}
<1>7. 0 \in H
  BY <1>1, <1>2, <1>6
<1>8. ASSUME NEW n \in 0..(N - 1), n \in H PROVE n + 1 \in H
  <2> DEFINE m == n + 1
  <2>1. m \in 1..N /\ m \in 0..N /\ m - 1 = n /\ m # 0
    BY <1>1
  <2> HIDE DEF m
  <2>2. upto[m] = IF s[m] \in S THEN Append(upto[m - 1], s[m]) ELSE upto[m - 1]
    BY <1>6, <2>1
  <2>3. f[m] = IF s[m] \in S THEN Append(f[m - 1], s[m]) ELSE f[m - 1]
    BY <1>3, <2>1
  <2>4. upto[m] = f[m]
    BY <1>8, <2>1, <2>2, <2>3
  <2> QED
    BY <2>1, <2>4 DEF m
<1> HIDE DEF H
<1>9. 0..N \subseteq H
  BY <1>1, <1>7, <1>8, Upward
<1>10. N \in H /\ N \in 0..N
  BY <1>1, <1>9
<1>11. Passed(s, S) = upto[N]
  BY DEF Passed, upto
<1> QED
  BY <1>10, <1>11 DEF H, f

(* Later lines have no earlier time stamp.                                                 *)
LEMMA TimesGoOn ==
  ASSUME NEW a \in Nat, NEW b \in Nat, a <= b PROVE At(a) \in Nat /\ At(a) <= At(b)
<1> DEFINE d == LinesPerMs
           x == a + d - 1
           y == b + d - 1
           q == x \div d
           r == y \div d
<1>1. d \in Nat /\ d > 0
  BY LogViewAssumption
<1>2. x \in Nat /\ y \in Nat /\ x <= y
  BY <1>1
<1>3. At(a) = q /\ At(b) = r
  BY DEF At
<1> HIDE DEF d, x, y
<1>4. q \in Nat /\ r \in Nat /\ d * q <= x /\ x < d * q + d /\ d * r <= y /\ y < d * r + d
  BY <1>1, <1>2
<1> HIDE DEF q, r
<1>5. SUFFICES ASSUME q > r PROVE FALSE
  BY <1>3, <1>4
<1>6. PICK e \in Nat : q = r + 1 + e
  <2>1. q - r - 1 \in Nat /\ q = r + 1 + (q - r - 1)
    BY <1>4, <1>5
  <2> QED
    BY <2>1
<1>7. d * q = d * r + d + d * e
  BY <1>1, <1>4, <1>6
<1> DEFINE dq == d * q
           dr == d * r
           de == d * e
<1>8. dq \in Nat /\ dr \in Nat /\ de \in Nat /\ dq = dr + d + de /\ dq <= x /\ y < dr + d
  BY <1>1, <1>4, <1>6, <1>7
<1> HIDE DEF dq, dr, de
<1> QED
  BY <1>1, <1>2, <1>8

(* What the daemon answers is a run of its lines.                                          *)
LEMMA RowsAre ==
  ASSUME NEW f \in Nat \ {0}, NEW l \in 0..MaxLast, f <= l + 1, f = first, l = last
  PROVE  \E m \in Nat : /\ RowsFrom(0, Limit) \in Seq(LineSet) /\ Len(RowsFrom(0, Limit)) = m
                        /\ m <= l - f + 1
                        /\ \A i \in 1..m : RowsFrom(0, Limit)[i] = f + i - 1
<1> DEFINE m == Least(Limit, Minus(Rows, 0))
<1>1. Limit \in Nat /\ MaxLast \in Nat
  BY LogViewAssumption
<1>2. Rows = l - f + 1 /\ Rows \in Nat
  BY <1>1 DEF Rows
<1>3. m \in Nat /\ m <= l - f + 1
  BY <1>1, <1>2 DEF Least, Minus, Most
<1>4. RowsFrom(0, Limit) = [i \in 1..m |-> f + 0 + i - 1]
  BY DEF RowsFrom
<1> HIDE DEF m
<1> DEFINE s == [i \in 1..m |-> f + 0 + i - 1]
<1>5. s \in [1..m -> LineSet] /\ \A i \in 1..m : s[i] = f + i - 1
  BY <1>1, <1>3 DEF LineSet
<1> HIDE DEF s
<1>6. s \in Seq(LineSet) /\ Len(s) = m
  BY <1>3, <1>5, FunctionIsSeq
<1> QED
  BY <1>3, <1>4, <1>5, <1>6 DEF s

(* Of a run of lines the task passes on those behind the last it saw.                      *)
LEMMA NewerAre ==
  ASSUME NEW f \in Nat \ {0}, NEW m \in Nat, NEW s \in Seq(LineSet), Len(s) = m,
         \A i \in 1..m : s[i] = f + i - 1, seen \in Nat
  PROVE  \E k \in 0..m :
           /\ Newer(s) \in Seq(LineSet) /\ Len(Newer(s)) = m - k
           /\ \A i \in 1..(m - k) : Newer(s)[i] = (f + k) + i - 1
           /\ k < m => At(f + k) > seen
           /\ k > 0 => At(f + k - 1) <= seen
<1> DEFINE T == {i \in 0..m : i = m \/ At(f + i) > seen}
<1>1. m \in T
  OBVIOUS
<1>2. T \subseteq Nat /\ T # {}
  <2>1. \A i \in 0..m : i \in Nat
    OBVIOUS
  <2>2. T \subseteq 0..m
    OBVIOUS
  <2> HIDE DEF T
  <2> QED
    BY <1>1, <2>1, <2>2
<1> HIDE DEF T
<1>3. PICK k \in T : \A j \in T : k <= j
  BY <1>2, LeastNatural
<1>4. k \in 0..m /\ (k < m => At(f + k) > seen)
  BY DEF T
<1>5. ASSUME NEW j \in 0..m, j < k PROVE ~(At(f + j) > seen)
  <2>1. j \notin T
    BY <1>3, <1>4, <1>5
  <2> QED
    BY <2>1 DEF T
<1> DEFINE S == {n \in LineSet : At(n) > seen}
<1>6. ASSUME NEW i \in 1..Len(s) PROVE s[i] \in S <=> i > k
  <2> DEFINE j == i - 1
  <2>1. s[i] = f + j /\ s[i] \in LineSet /\ j \in 0..m /\ i \in 1..m
    BY ElementOfSeq
  <2>2. s[i] \in S <=> At(f + j) > seen
    BY <2>1
  <2>3. CASE j < k
    <3>1. ~(At(f + j) > seen)
      BY <1>5, <2>1, <2>3
    <3>2. ~(i > k)
      BY <1>4, <2>1, <2>3
    <3> HIDE DEF S
    <3> QED
      BY <2>2, <3>1, <3>2
  <2>4. CASE j >= k
    <3>1. k < m /\ f + k \in Nat /\ f + j \in Nat /\ f + k <= f + j
      BY <1>4, <2>1, <2>4
    <3>2. At(f + k) > seen /\ At(f + k) \in Nat /\ At(f + k) <= At(f + j) /\ At(f + j) \in Nat
      BY <1>4, <3>1, TimesGoOn, SMTT(30)
    <3>3. i > k
      BY <1>4, <2>1, <2>4
    <3> HIDE DEF S
    <3> QED
      BY <2>2, <3>2, <3>3
  <2> QED
    BY <1>4, <2>1, <2>3, <2>4
<1> HIDE DEF S
<1>7. Newer(s) = SubSeq(s, k + 1, Len(s))
  <2>1. k \in 0..Len(s)
    BY <1>4
  <2>2. Passed(s, S) = SubSeq(s, k + 1, Len(s))
    BY <1>6, <2>1, PassedIs
  <2> QED
    BY <2>2 DEF Newer, S
<1>8. /\ SubSeq(s, k + 1, Len(s)) \in Seq(LineSet) /\ Len(SubSeq(s, k + 1, Len(s))) = m - k
      /\ \A i \in 1..(m - k) : SubSeq(s, k + 1, Len(s))[i] = s[(k + 1) + i - 1]
  <2>1. k + 1 \in Int /\ Len(s) \in Int /\ \A i \in (k + 1)..Len(s) : s[i] \in LineSet
    BY <1>4, ElementOfSeq
  <2>2. /\ SubSeq(s, k + 1, Len(s)) \in Seq(LineSet)
        /\ Len(SubSeq(s, k + 1, Len(s))) = IF k + 1 <= Len(s) THEN Len(s) - (k + 1) + 1 ELSE 0
        /\ \A i \in 1..(Len(s) - (k + 1) + 1) : SubSeq(s, k + 1, Len(s))[i] = s[(k + 1) + i - 1]
    BY <2>1, SubSeqProperties
  <2>3. Len(s) - (k + 1) + 1 = m - k /\ (IF k + 1 <= Len(s) THEN Len(s) - (k + 1) + 1 ELSE 0) = m - k
    BY <1>4
  <2> QED
    BY <2>2, <2>3
<1>9. \A i \in 1..(m - k) : s[(k + 1) + i - 1] = (f + k) + i - 1
  BY <1>4
<1>10. k > 0 => At(f + k - 1) <= seen
  <2>1. SUFFICES ASSUME k > 0 PROVE At(f + k - 1) <= seen
    OBVIOUS
  <2>2. k - 1 \in 0..m /\ k - 1 < k /\ f + (k - 1) = f + k - 1 /\ f + k - 1 \in Nat
    BY <1>4, <2>1
  <2>3. ~(At(f + k - 1) > seen)
    BY <1>5, <2>2
  <2>4. At(f + k - 1) \in Nat
    BY <2>2, TimesGoOn
  <2> QED
    BY <2>3, <2>4
<1> QED
  BY <1>4, <1>7, <1>8, <1>9, <1>10

-----------------------------------------------------------------------------
(* The stream into the tail.  *)
Stream == (heard \o logs) \o job.lines

\* Lines in order and once; with gaps only where retention took; up to the last one seen.
Rising(s) == \A i \in 1..(Len(s) - 1) : s[i] < s[i + 1]
OnlyTaken(s, f) == \A i \in 1..(Len(s) - 1) : s[i] + 1 < s[i + 1] => s[i + 1] <= f
EndsSeen(s, n) == s # <<>> => n = At(s[Len(s)])

(* In a rising stream every later line is newer.                                       *)
LEMMA RisingAll ==
  ASSUME NEW s \in Seq(LineSet), Rising(s), NEW i \in 1..Len(s), NEW j \in 1..Len(s), i < j
  PROVE  s[i] < s[j]
<1> DEFINE N == (Len(s) - i) - 1
           G == {d \in 0..N : s[i] < s[(i + 1) + d]}
<1>1. Len(s) \in Nat /\ N \in Nat /\ \A k \in 1..Len(s) : s[k] \in Nat
  <2>1. Len(s) \in Nat
    BY LenProperties
  <2>2. MaxLast \in Nat
    BY LogViewAssumption
  <2>3. \A n \in LineSet : n \in Nat
    BY <2>2 DEF LineSet
  <2>4. \A k \in 1..Len(s) : s[k] \in LineSet
    BY ElementOfSeq
  <2> QED
    BY <2>1, <2>3, <2>4
<1>2. 0 \in G
  BY <1>1 DEF Rising
<1>3. ASSUME NEW d \in 0..(N - 1), d \in G PROVE d + 1 \in G
  <2> DEFINE k == (i + 1) + d
  <2>1. k \in 1..(Len(s) - 1) /\ k + 1 = (i + 1) + (d + 1) /\ d + 1 \in 0..N /\ k \in 1..Len(s)
        /\ k + 1 \in 1..Len(s)
    BY <1>1
  <2>2. s[i] < s[k] /\ s[k] < s[k + 1]
    BY <1>3, <2>1 DEF Rising
  <2>3. s[i] < s[k + 1]
    BY <1>1, <2>1, <2>2
  <2> QED
    BY <2>1, <2>3
<1> HIDE DEF G
<1>4. 0..N \subseteq G
  BY <1>1, <1>2, <1>3, Upward
<1>5. (j - i) - 1 \in 0..N /\ (i + 1) + ((j - i) - 1) = j
  BY <1>1
<1> QED
  BY <1>4, <1>5 DEF G

(* The beginning of a stream is a stream.                                              *)
LEMMA StartOfStream ==
  ASSUME NEW t \in Seq(LineSet), NEW e \in Seq(LineSet), NEW f
  PROVE  /\ Rising(t \o e) => Rising(t)
         /\ OnlyTaken(t \o e, f) => OnlyTaken(t, f)
<1> DEFINE s == t \o e
           N == Len(t)
<1>1. /\ N \in Nat /\ Len(e) \in Nat /\ Len(s) = N + Len(e)
      /\ \A i \in 1..(N + Len(e)) : s[i] = IF i <= N THEN t[i] ELSE e[i - N]
  BY LenProperties, ConcatProperties
<1> HIDE DEF s
<1>2. ASSUME NEW i \in 1..(N - 1)
      PROVE  i \in 1..(Len(s) - 1) /\ t[i] = s[i] /\ t[i + 1] = s[i + 1]
  <2>1. /\ i \in 1..(N + Len(e)) /\ i <= N /\ i + 1 \in 1..(N + Len(e)) /\ i + 1 <= N
        /\ i \in 1..(Len(s) - 1)
    BY <1>1
  <2> QED
    BY <1>1, <2>1
<1>3. /\ Rising(s) => Rising(t)
      /\ OnlyTaken(s, f) => OnlyTaken(t, f)
  BY <1>2 DEF Rising, OnlyTaken
<1> QED
  BY <1>3 DEF s

(* What a poll adds: a run of lines that starts behind the last one it saw.                *)
LEMMA RunBehindStream ==
  ASSUME NEW u \in Seq(LineSet), NEW r \in Seq(LineSet), NEW p \in Nat, NEW z \in Nat,
         NEW f \in Nat,
         Rising(u), EndsSeen(u, z),
         \A i \in 1..Len(r) : r[i] = p + i - 1,
         Len(r) > 0 => At(p) > z
  PROVE  /\ Rising(u \o r)
         /\ LinesPerMs = 1 /\ OnlyTaken(u, f) /\ (p <= f \/ p <= z + 1) => OnlyTaken(u \o r, f)
         /\ Len(r) = 0 => EndsSeen(u \o r, z)
         /\ Len(r) > 0 => EndsSeen(u \o r, At(p + Len(r) - 1))
<1> DEFINE s == u \o r
           M == Len(u)
           N == Len(r)
<1>1. /\ M \in Nat /\ N \in Nat /\ s \in Seq(LineSet) /\ Len(s) = M + N
      /\ \A i \in 1..(M + N) : s[i] = IF i <= M THEN u[i] ELSE r[i - M]
  BY LenProperties, ConcatProperties
<1>2. \A n \in LineSet : n \in Nat
  BY LogViewAssumption DEF LineSet
<1>3. \A i \in 1..M : u[i] \in Nat /\ s[i] = u[i]
  <2>1. \A i \in 1..M : u[i] \in LineSet
    BY ElementOfSeq
  <2> HIDE DEF s, M, N
  <2>2. \A i \in 1..M : i \in 1..(M + N) /\ i <= M
    BY <1>1
  <2>3. \A i \in 1..M : s[i] = u[i]
    BY <1>1, <2>2
  <2> QED
    BY <1>2, <2>1, <2>3
<1>4. \A i \in 1..N : s[M + i] = p + i - 1
  <2> HIDE DEF s
  <2>1. \A i \in 1..N : M + i \in 1..(M + N) /\ ~(M + i <= M) /\ (M + i) - M = i
    BY <1>1
  <2> QED
    BY <1>1, <2>1
<1>5. M > 0 /\ N > 0 => u[M] < p /\ (LinesPerMs = 1 => u[M] = z)
  <2> SUFFICES ASSUME M > 0, N > 0 PROVE u[M] < p /\ (LinesPerMs = 1 => u[M] = z)
    OBVIOUS
  <2>1. u # <<>> /\ M \in 1..M
    BY <1>1, EmptySeq
  <2>2. z = At(u[M]) /\ At(p) > z /\ u[M] \in Nat
    BY <1>3, <2>1 DEF EndsSeen
  <2>3. p <= u[M] => At(p) \in Nat /\ At(p) <= At(u[M])
    BY <2>2, TimesGoOn
  <2>4. u[M] < p
    BY <2>2, <2>3
  <2>5. ASSUME LinesPerMs = 1 PROVE u[M] = z
    BY <2>2, <2>5 DEF At
  <2> QED
    BY <2>4, <2>5
<1> HIDE DEF s, M, N
<1>6. ASSUME NEW i \in 1..(Len(s) - 1)
      PROVE  /\ s[i] < s[i + 1]
             /\ \/ i \in 1..(M - 1) /\ s[i] = u[i] /\ s[i + 1] = u[i + 1]
                \/ i = M /\ M > 0 /\ N > 0 /\ s[i] = u[M] /\ s[i + 1] = p
                \/ s[i + 1] = s[i] + 1
  <2>1. CASE i \in 1..(M - 1)
    <3>1. i \in 1..M /\ i + 1 \in 1..M
      BY <1>1, <2>1
    <3> QED
      BY <1>3, <2>1, <3>1 DEF Rising, M
  <2>2. CASE i = M
    <3>1. 1 \in 1..N /\ M > 0 /\ N > 0 /\ M \in 1..M
      BY <1>1, <2>2
    <3>2. s[M + 1] = p + 1 - 1
      BY <1>4, <3>1
    <3> QED
      BY <1>3, <1>5, <2>2, <3>1, <3>2
  <2>3. CASE i > M
    <3> DEFINE j == i - M
    <3>1. j \in 1..N /\ j + 1 \in 1..N /\ M + j = i /\ M + (j + 1) = i + 1
      BY <1>1, <2>3
    <3>2. s[M + j] = p + j - 1 /\ s[M + (j + 1)] = p + (j + 1) - 1
      BY <1>4, <3>1
    <3> QED
      BY <3>1, <3>2
  <2> QED
    BY <1>1, <2>1, <2>2, <2>3
<1>7. Rising(s)
  BY <1>6 DEF Rising
<1>8. ASSUME LinesPerMs = 1, OnlyTaken(u, f), p <= f \/ p <= z + 1 PROVE OnlyTaken(s, f)
  <2> SUFFICES ASSUME NEW i \in 1..(Len(s) - 1), s[i] + 1 < s[i + 1] PROVE s[i + 1] <= f
    BY DEF OnlyTaken
  <2>1. CASE i \in 1..(M - 1) /\ s[i] = u[i] /\ s[i + 1] = u[i + 1]
    BY <1>8, <2>1 DEF OnlyTaken, M
  <2>2. CASE i = M /\ M > 0 /\ N > 0 /\ s[i] = u[M] /\ s[i + 1] = p
    BY <1>5, <1>8, <2>2
  <2>3. CASE s[i + 1] = s[i] + 1
    <3>1. s[i] \in LineSet
      BY <1>1, ElementOfSeq
    <3> QED
      BY <1>2, <2>3, <3>1
  <2> QED
    BY <1>6, <2>1, <2>2, <2>3
<1>9. ASSUME N = 0 PROVE EndsSeen(s, z)
  <2>1. CASE M = 0
    <3>1. s = <<>>
      BY <1>1, <1>9, <2>1, EmptySeq
    <3> QED
      BY <3>1 DEF EndsSeen
  <2>2. CASE M # 0
    <3>1. M \in 1..M /\ Len(s) = M /\ u # <<>>
      BY <1>1, <1>9, <2>2, EmptySeq DEF M
    <3> QED
      BY <1>3, <3>1 DEF EndsSeen, M
  <2> QED
    BY <2>1, <2>2
<1>10. ASSUME N > 0 PROVE EndsSeen(s, At(p + N - 1))
  <2>1. N \in 1..N
    BY <1>1, <1>10
  <2> QED
    BY <1>1, <1>4, <2>1 DEF EndsSeen
<1> QED
  BY <1>7, <1>8, <1>9, <1>10 DEF s, N

\* What of the types the stream needs.
StreamTypes ==
  /\ first \in Nat \ {0} /\ last \in 0..MaxLast /\ first <= last + 1 /\ seen \in Nat
  /\ task \in {"select", "asking", "sending"} /\ job \in [lines : Seq(LineSet), total : Nat]
  /\ logs \in Seq(LineSet) /\ heard \in Seq(LineSet) /\ received \in Nat
  /\ cutoff.local \in Nat /\ cutoff.seen \in Nat

\* What was received is what was heard, and the cutoff is a place in it.
CutOfHeard ==
  /\ received = Len(heard) /\ cutoff.local = cutoff.seen /\ cutoff.seen <= received
  /\ local \subseteq ToSet(heard)

\* The inductive invariant of the log.
StreamIInv ==
  /\ StreamTypes /\ CutOfHeard
  /\ task # "sending" => job.lines = <<>>
  /\ Rising(Stream) /\ (LinesPerMs = 1 => OnlyTaken(Stream, first))
  /\ quit # "gone" => EndsSeen(Stream, seen)

(* A step that leaves the stream alone.                                                    *)
LEMMA QuietStep ==
  ASSUME StreamIInv, StreamTypes', UNCHANGED <<seen, local, heard, logs, received, cutoff>>,
         job'.lines = job.lines, first' >= first,
         task' # "sending" => job.lines = <<>>, quit' # "gone" => quit # "gone"
  PROVE  StreamIInv'
<1>1. Stream' = Stream
  BY DEF Stream
<1>2. CutOfHeard'
  BY DEF StreamIInv, CutOfHeard
<1>3. ASSUME LinesPerMs = 1 PROVE OnlyTaken(Stream, first')
  <2>1. OnlyTaken(Stream, first) /\ Stream \in Seq(LineSet)
    BY <1>3, ConcatProperties DEF StreamIInv, StreamTypes, Stream
  <2>2. ASSUME NEW i \in 1..(Len(Stream) - 1), Stream[i + 1] <= first PROVE Stream[i + 1] <= first'
    <3>1. Len(Stream) \in Nat
      BY <2>1, LenProperties
    <3>2. i + 1 \in 1..Len(Stream)
      BY <3>1
    <3>3. Stream[i + 1] \in LineSet
      BY <2>1, <3>2, ElementOfSeq
    <3>4. Stream[i + 1] \in Int
      BY <3>3, LogViewAssumption DEF LineSet
    <3>5. first \in Int /\ first' \in Int
      BY DEF StreamIInv, StreamTypes
    <3> QED
      BY <2>2, <3>4, <3>5
  <2> QED
    BY <2>1, <2>2 DEF OnlyTaken
<1>4. /\ Rising(Stream)' /\ (LinesPerMs = 1 => OnlyTaken(Stream, first)')
      /\ (quit' # "gone" => EndsSeen(Stream, seen)')
  <2>1. Rising(Stream) /\ (quit # "gone" => EndsSeen(Stream, seen))
    BY DEF StreamIInv
  <2> QED
    BY <1>1, <1>3, <2>1 DEF Rising, OnlyTaken, EndsSeen
<1> QED
  BY <1>2, <1>4 DEF StreamIInv

(* The daemon stores a line, and its retention takes old ones.                         *)
LEMMA ProduceKeeps == ASSUME StreamIInv, Produce PROVE StreamIInv'
<1>1. /\ first \in Nat \ {0} /\ last \in 0..MaxLast /\ first <= last + 1 /\ StreamTypes
      /\ task # "sending" => job.lines = <<>>
  BY DEF StreamIInv, StreamTypes
<1>2. MaxLast \in Nat /\ Kept \in Nat
  BY LogViewAssumption
<1>3. /\ last < MaxLast /\ last' = last + 1 /\ first' \in {first, Most(first, last + 2 - Kept)}
      /\ UNCHANGED <<seen, task, job, local, heard, logs, received, cutoff, quit>>
  BY DEF Produce, poller, channels, buffer, user
<1>4. first' \in Nat \ {0} /\ last' \in 0..MaxLast /\ first' <= last' + 1 /\ first' >= first
  BY <1>1, <1>2, <1>3 DEF Most
<1>5. StreamTypes'
  BY <1>1, <1>3, <1>4 DEF StreamTypes
<1> QED
  BY <1>1, <1>3, <1>4, <1>5, QuietStep

(* The steps that touch neither the stream nor the daemon's lines.                         *)
Bystander ==
  \/ GoAway \/ ComeBack \/ ConnectFails \/ Connects \/ TakeCommand \/ PollStatus \/ SendTotal
  \/ TakePage \/ RequestPages \/ (\E n \in 0..MaxLast : ScrollTo(n))
  \/ Follow \/ Restart \/ Quit

(* They keep the invariant.                                                            *)
LEMMA BystanderKeeps == ASSUME StreamIInv, Bystander PROVE StreamIInv'
<1>1. /\ StreamTypes /\ (task # "sending" => job.lines = <<>>) /\ first \in Nat
      /\ job \in [lines : Seq(LineSet), total : Nat]
  BY DEF StreamIInv, StreamTypes
<1>2. CASE PollStatus
  <2>1. /\ UNCHANGED <<first, last, seen, job, local, heard, logs, received, cutoff, quit>>
        /\ task = "select" /\ task' \in {"select", "asking"}
    BY <1>2 DEF PollStatus, Selecting, daemon, buffer, user
  <2>2. StreamTypes'
    BY <1>1, <2>1 DEF StreamTypes
  <2> QED
    BY <1>1, <2>1, <2>2, QuietStep
<1>3. CASE SendTotal
  <2>1. /\ UNCHANGED <<first, last, seen, local, heard, logs, received, cutoff, quit>>
        /\ job.lines = <<>> /\ task' = "select" /\ job' = [job EXCEPT !.total = 0]
    BY <1>3 DEF SendTotal, daemon, buffer, user
  <2>2. job' \in [lines : Seq(LineSet), total : Nat] /\ job'.lines = job.lines
    BY <1>1, <2>1
  <2>3. StreamTypes'
    BY <1>1, <2>1, <2>2 DEF StreamTypes
  <2> QED
    BY <1>1, <2>1, <2>2, <2>3, QuietStep
<1>4. CASE Quit
  <2>1. /\ UNCHANGED <<first, last, seen, task, job, local, heard, logs, received, cutoff>>
        /\ quit = "no"
    BY <1>4 DEF Quit, AtKeys, daemon, poller, buffer
  <2>2. StreamTypes'
    BY <1>1, <2>1 DEF StreamTypes
  <2> QED
    BY <1>1, <2>1, <2>2, QuietStep
<1>5. CASE \/ GoAway \/ ComeBack \/ ConnectFails \/ Connects \/ TakeCommand
           \/ TakePage \/ RequestPages \/ (\E n \in 0..MaxLast : ScrollTo(n)) \/ Follow \/ Restart
  <2>1. UNCHANGED <<first, last, seen, task, job, local, heard, logs, received, cutoff, quit>>
    <3>1. CASE GoAway \/ ComeBack \/ ConnectFails \/ Connects
      BY <3>1 DEF GoAway, ComeBack, ConnectFails, Connects, daemon, poller, channels, buffer, user
    <3>2. CASE TakeCommand
      BY <3>2 DEF TakeCommand, poller, buffer, user
    <3>3. CASE TakePage \/ RequestPages
      BY <3>3 DEF TakePage, RequestPages, daemon, poller, user
    <3>4. CASE (\E n \in 0..MaxLast : ScrollTo(n)) \/ Follow \/ Restart
      BY <3>4 DEF ScrollTo, Follow, Restart, daemon, poller, channels, buffer, user
    <3> QED
      BY <1>5, <3>1, <3>2, <3>3, <3>4
  <2>2. StreamTypes'
    BY <1>1, <2>1 DEF StreamTypes
  <2> QED
    BY <1>1, <2>1, <2>2, QuietStep
<1> QED
  BY <1>2, <1>3, <1>4, <1>5 DEF Bystander

(* A poll brings the oldest lines the daemon keeps, of which the new ones go on.       *)
LEMMA PollLogsKeeps == ASSUME StreamIInv, PollLogs PROVE StreamIInv'
<1>1. /\ StreamTypes /\ (task # "sending" => job.lines = <<>>)
      /\ job \in [lines : Seq(LineSet), total : Nat] /\ seen \in Nat
      /\ first \in Nat \ {0} /\ last \in 0..MaxLast /\ first <= last + 1
      /\ heard \in Seq(LineSet) /\ logs \in Seq(LineSet)
  BY DEF StreamIInv, StreamTypes
<1>2. /\ UNCHANGED <<first, last, local, heard, logs, received, cutoff, quit>>
      /\ quit # "gone" /\ task = "asking"
  BY DEF PollLogs, Running, daemon, channels, buffer, user
<1>3. CASE client = "broken" /\ task' = "select" /\ UNCHANGED <<seen, job>>
  <2>1. StreamTypes'
    BY <1>1, <1>2, <1>3 DEF StreamTypes
  <2> QED
    BY <1>1, <1>2, <1>3, <2>1, QuietStep
<1> DEFINE rows == RowsFrom(0, Limit)
           r == Newer(rows)
           u == heard \o logs
<1>4. CASE job' = [lines |-> Newer(rows), total |-> Rows] /\ seen' = NewSeen(rows) /\ task' = "sending"
  <2>1. PICK m \in Nat : /\ rows \in Seq(LineSet) /\ Len(rows) = m /\ m <= last - first + 1
                        /\ \A i \in 1..m : rows[i] = first + i - 1
    BY <1>1, RowsAre
  <2> HIDE DEF rows
  <2>2. PICK k \in 0..m :
           /\ r \in Seq(LineSet) /\ Len(r) = m - k
           /\ \A i \in 1..(m - k) : r[i] = (first + k) + i - 1
           /\ k < m => At(first + k) > seen
           /\ k > 0 => At(first + k - 1) <= seen
    BY <1>1, <2>1, NewerAre
  <2> HIDE DEF r
  <2>3. Rows \in Nat
    <3>1. MaxLast \in Nat
      BY LogViewAssumption
    <3>2. last \in Nat /\ first \in Nat /\ first <= last + 1
      BY <1>1, <3>1
    <3> QED
      BY <3>2 DEF Rows
  <2>4. Stream = u /\ u \in Seq(LineSet) /\ Stream' = u \o r
    <3>1. u \in Seq(LineSet) /\ job.lines = <<>>
      BY <1>1, <1>2, ConcatProperties
    <3>2. u \o <<>> = u
      BY <3>1, ConcatEmptySeq
    <3>3. job'.lines = r
      BY <1>4 DEF r
    <3> QED
      BY <1>2, <3>1, <3>2, <3>3 DEF Stream
  <2> HIDE DEF u
  <2>5. At(first + m - 1) \in Nat \/ m = 0
    <3>1. m # 0 => first + m - 1 \in Nat
      BY <1>1, <2>1
    <3> QED
      BY <3>1, TimesGoOn
  <2>6. /\ Len(r) = 0 => seen' = seen
        /\ Len(r) > 0 => seen' = At((first + k) + Len(r) - 1)
        /\ seen' \in Nat
    <3>1. CASE m = 0
      <4>1. rows = <<>>
        BY <2>1, <3>1, EmptySeq
      <4> QED
        BY <1>1, <1>4, <2>2, <3>1, <4>1 DEF NewSeen
    <3>2. CASE m # 0
      <4>1. rows # <<>> /\ m \in 1..m
        BY <2>1, <3>2, EmptySeq
      <4>2. Last(rows) = first + m - 1
        BY <2>1, <4>1 DEF Last
      <4>3. seen' = Most(seen, At(first + m - 1))
        BY <1>4, <4>1, <4>2 DEF NewSeen
      <4>4. CASE k = m
        <5>1. At(first + m - 1) <= seen
          BY <2>2, <3>2, <4>4
        <5> QED
          BY <1>1, <2>2, <2>5, <3>2, <4>3, <4>4, <5>1 DEF Most
      <4>5. CASE k < m
        <5>1. first + k \in Nat /\ first + m - 1 \in Nat /\ first + k <= first + m - 1
              /\ (first + k) + (m - k) - 1 = first + m - 1
          BY <1>1, <2>2, <4>5
        <5>2. At(first + k) \in Nat /\ At(first + k) <= At(first + m - 1) /\ At(first + k) > seen
          BY <2>2, <4>5, <5>1, TimesGoOn
        <5>3. Most(seen, At(first + m - 1)) = At(first + m - 1)
          BY <1>1, <2>5, <3>2, <5>2 DEF Most
        <5> QED
          BY <2>2, <2>5, <3>2, <4>3, <4>5, <5>1, <5>3
      <4> QED
        BY <4>4, <4>5
    <3> QED
      BY <3>1, <3>2
  <2>7. StreamTypes'
    <3>1. job' \in [lines : Seq(LineSet), total : Nat]
      BY <1>4, <2>2, <2>3 DEF r
    <3> QED
      BY <1>1, <1>2, <1>4, <2>6, <3>1 DEF StreamTypes
  <2>8. CutOfHeard'
    BY <1>2 DEF StreamIInv, CutOfHeard
  <2>9. PICK p \in Nat : p = first + k
    BY <1>1, <2>2
  <2>10. p <= first \/ (LinesPerMs = 1 => p <= seen + 1)
    <3>1. CASE k = 0
      BY <1>1, <2>9, <3>1
    <3>2. CASE k > 0 /\ LinesPerMs = 1
      <4>1. At(first + k - 1) = first + k - 1
        BY <1>1, <3>2 DEF At
      <4> QED
        BY <1>1, <2>2, <2>9, <3>2, <4>1
    <3> QED
      BY <2>2, <3>1, <3>2
  <2>11. /\ Rising(u \o r) /\ (LinesPerMs = 1 => OnlyTaken(u \o r, first))
         /\ (Len(r) = 0 => EndsSeen(u \o r, seen))
         /\ (Len(r) > 0 => EndsSeen(u \o r, At(p + Len(r) - 1)))
    <3>1. /\ Rising(u) /\ EndsSeen(u, seen) /\ (LinesPerMs = 1 => OnlyTaken(u, first))
      BY <1>2, <2>4 DEF StreamIInv
    <3>2. /\ \A i \in 1..Len(r) : r[i] = p + i - 1
          /\ Len(r) > 0 => At(p) > seen
      BY <2>2, <2>9
    <3>3. first \in Nat
      BY <1>1
    <3> QED
      BY <1>1, <2>2, <2>4, <2>10, <3>1, <3>2, <3>3, RunBehindStream
  <2>12. EndsSeen(u \o r, seen')
    <3>1. Len(r) \in Nat
      BY <2>2
    <3> QED
      BY <2>6, <2>9, <2>11, <3>1
  <2>13. /\ Rising(Stream)' /\ (LinesPerMs = 1 => OnlyTaken(Stream, first)')
         /\ EndsSeen(Stream, seen)'
    BY <1>2, <2>4, <2>11, <2>12 DEF Rising, OnlyTaken, EndsSeen
  <2> QED
    BY <1>4, <2>7, <2>8, <2>13 DEF StreamIInv
<1> QED
  BY <1>3, <1>4 DEF PollLogs

(* The task sends a line to the event loop.                                            *)
LEMMA SendLineKeeps == ASSUME StreamIInv, SendLine PROVE StreamIInv'
<1>1. /\ StreamTypes /\ CutOfHeard /\ job \in [lines : Seq(LineSet), total : Nat]
      /\ job.lines \in Seq(LineSet) /\ heard \in Seq(LineSet) /\ logs \in Seq(LineSet)
      /\ Rising(Stream) /\ (LinesPerMs = 1 => OnlyTaken(Stream, first))
      /\ (quit # "gone" => EndsSeen(Stream, seen))
  BY DEF StreamIInv, StreamTypes
<1>2. /\ UNCHANGED <<first, last, seen, task, local, heard, received, cutoff, quit>>
      /\ task = "sending" /\ job.lines # <<>>
      /\ logs' = Append(logs, Head(job.lines)) /\ job' = [job EXCEPT !.lines = Tail(@)]
  BY DEF SendLine, daemon, buffer, user
<1>3. PICK h \in LineSet, t \in Seq(LineSet) :
        /\ h = Head(job.lines) /\ t = Tail(job.lines) /\ <<h>> \in Seq(LineSet)
        /\ job.lines = <<h>> \o t
  BY <1>1, <1>2, HeadAndTail
<1>4. logs' = logs \o <<h>> /\ logs' \in Seq(LineSet)
  BY <1>1, <1>2, <1>3, AppendIsConcat, ConcatProperties
<1>5. job' \in [lines : Seq(LineSet), total : Nat] /\ job'.lines = t
  BY <1>1, <1>2, <1>3
<1>6. Stream' = Stream
  <2>1. Stream' = (heard \o (logs \o <<h>>)) \o t
    BY <1>2, <1>4, <1>5 DEF Stream
  <2>2. Stream = (heard \o logs) \o (<<h>> \o t)
    BY <1>3 DEF Stream
  <2>3. heard \o (logs \o <<h>>) = (heard \o logs) \o <<h>> /\ heard \o logs \in Seq(LineSet)
    BY <1>1, <1>3, ConcatAssociative, ConcatProperties
  <2>4. ((heard \o logs) \o <<h>>) \o t = (heard \o logs) \o (<<h>> \o t)
    <3> DEFINE a == heard \o logs
               b == <<h>>
    <3>1. a \in Seq(LineSet) /\ b \in Seq(LineSet)
      BY <1>3, <2>3
    <3> HIDE DEF a, b
    <3>2. (a \o b) \o t = a \o (b \o t)
      BY <3>1, ConcatAssociative
    <3> QED
      BY <3>2 DEF a, b
  <2> QED
    BY <2>1, <2>2, <2>3, <2>4
<1>7. StreamTypes'
  BY <1>1, <1>2, <1>4, <1>5 DEF StreamTypes
<1>8. CutOfHeard'
  BY <1>1, <1>2 DEF CutOfHeard
<1>9. /\ Rising(Stream)' /\ (LinesPerMs = 1 => OnlyTaken(Stream, first)')
      /\ (quit' # "gone" => EndsSeen(Stream, seen)')
  BY <1>1, <1>2, <1>6 DEF Rising, OnlyTaken, EndsSeen
<1> QED
  BY <1>2, <1>7, <1>8, <1>9 DEF StreamIInv

(* What two sequences hold one after the other.                                        *)
LEMMA HeldByBoth ==
  ASSUME NEW T, NEW s \in Seq(T), NEW t \in Seq(T)
  PROVE  ToSet(s) \cup ToSet(t) \subseteq ToSet(s \o t)
<1> DEFINE u == s \o t
           M == Len(s)
           N == Len(t)
<1>1. /\ M \in Nat /\ N \in Nat /\ u \in Seq(T) /\ Len(u) = M + N
      /\ \A i \in 1..(M + N) : u[i] = IF i <= M THEN s[i] ELSE t[i - M]
  BY LenProperties, ConcatProperties
<1>2. DOMAIN s = 1..M /\ DOMAIN t = 1..N /\ DOMAIN u = 1..Len(u)
  BY <1>1, LenProperties
<1> HIDE DEF u, M, N
<1>3. ASSUME NEW i \in DOMAIN s PROVE \E k \in DOMAIN u : u[k] = s[i]
  <2>1. i \in 1..(M + N) /\ i <= M /\ i \in DOMAIN u
    BY <1>1, <1>2
  <2> QED
    BY <1>1, <2>1
<1>4. ASSUME NEW i \in DOMAIN t PROVE \E k \in DOMAIN u : u[k] = t[i]
  <2>1. M + i \in 1..(M + N) /\ ~(M + i <= M) /\ (M + i) - M = i /\ M + i \in DOMAIN u
    BY <1>1, <1>2
  <2>2. u[M + i] = t[i]
    BY <1>1, <2>1
  <2> QED
    BY <2>1, <2>2
<1> QED
  BY <1>3, <1>4 DEF ToSet, u

(* The event loop drains the lines into the tail, and every queue of it is trimmed.    *)
LEMMA TakeUpdatesKeeps == ASSUME StreamIInv, TakeUpdates PROVE StreamIInv'
<1>1. /\ StreamTypes /\ CutOfHeard /\ job \in [lines : Seq(LineSet), total : Nat]
      /\ heard \in Seq(LineSet) /\ logs \in Seq(LineSet)
      /\ Rising(Stream) /\ (LinesPerMs = 1 => OnlyTaken(Stream, first))
      /\ (quit # "gone" => EndsSeen(Stream, seen)) /\ received \in Nat
      /\ (task # "sending" => job.lines = <<>>)
  BY DEF StreamIInv, StreamTypes
<1>2. /\ UNCHANGED <<first, last, seen, task, job, cutoff, quit>>
      /\ logs' = <<>> /\ local' = Newest(local \cup ToSet(logs))
      /\ received' = received + Len(logs) /\ heard' = heard \o logs
  BY DEF TakeUpdates, daemon, poller, user
<1>3. /\ heard' \in Seq(LineSet) /\ Len(heard') = Len(heard) + Len(logs)
      /\ Len(heard) \in Nat /\ Len(logs) \in Nat
  BY <1>1, <1>2, ConcatProperties, LenProperties
<1>4. Stream' = Stream
  <2>1. Stream' = ((heard \o logs) \o <<>>) \o job.lines
    BY <1>2 DEF Stream
  <2>2. (heard \o logs) \o <<>> = heard \o logs
    BY <1>2, <1>3, ConcatEmptySeq
  <2> QED
    BY <2>1, <2>2 DEF Stream
<1>5. StreamTypes'
  <2>1. logs' \in Seq(LineSet) /\ received' \in Nat
    BY <1>1, <1>2, <1>3, EmptySeq
  <2> QED
    BY <1>1, <1>2, <1>3, <2>1 DEF StreamTypes
<1>6. CutOfHeard'
  <2>1. local' \subseteq local \cup ToSet(logs)
    BY <1>2 DEF Newest
  <2>2. ToSet(heard) \cup ToSet(logs) \subseteq ToSet(heard')
    BY <1>1, <1>2, HeldByBoth
  <2>3. received = Len(heard) /\ cutoff.local = cutoff.seen /\ cutoff.seen <= received
        /\ local \subseteq ToSet(heard) /\ cutoff.seen \in Nat
    BY <1>1 DEF CutOfHeard, StreamTypes
  <2>4. local' \subseteq ToSet(heard')
    BY <2>1, <2>2, <2>3
  <2>5. received' = Len(heard') /\ cutoff'.local = cutoff'.seen /\ cutoff'.seen <= received'
    BY <1>2, <1>3, <2>3
  <2> QED
    BY <2>4, <2>5 DEF CutOfHeard
<1>7. /\ Rising(Stream)' /\ (LinesPerMs = 1 => OnlyTaken(Stream, first)')
      /\ (quit' # "gone" => EndsSeen(Stream, seen)')
  BY <1>1, <1>2, <1>4 DEF Rising, OnlyTaken, EndsSeen
<1> QED
  BY <1>1, <1>2, <1>5, <1>6, <1>7 DEF StreamIInv

(* The user clears the view.                                                           *)
LEMMA ClearKeeps == ASSUME StreamIInv, Clear PROVE StreamIInv'
<1>1. /\ StreamTypes /\ heard \in Seq(LineSet) /\ received \in Nat /\ CutOfHeard
      /\ (task # "sending" => job.lines = <<>>)
      /\ Rising(Stream) /\ (LinesPerMs = 1 => OnlyTaken(Stream, first))
      /\ (quit # "gone" => EndsSeen(Stream, seen))
  BY DEF StreamIInv, StreamTypes
<1>2. /\ UNCHANGED <<first, last, seen, task, job, logs, local, heard, received, quit>>
      /\ cutoff' = [daemon |-> RawTotal, local |-> received, seen |-> Len(heard)]
  BY DEF Clear, AtKeys, daemon, poller, channels
<1>3. cutoff'.local = received /\ cutoff'.seen = Len(heard) /\ Len(heard) = received
  BY <1>1, <1>2 DEF CutOfHeard
<1>4. StreamTypes'
  BY <1>1, <1>2, <1>3 DEF StreamTypes
<1>5. CutOfHeard'
  BY <1>1, <1>2, <1>3 DEF CutOfHeard
<1>6. Stream' = Stream
  BY <1>2 DEF Stream
<1>7. /\ Rising(Stream)' /\ (LinesPerMs = 1 => OnlyTaken(Stream, first)')
      /\ (quit' # "gone" => EndsSeen(Stream, seen)')
  BY <1>1, <1>2, <1>6 DEF Rising, OnlyTaken, EndsSeen
<1> QED
  BY <1>1, <1>2, <1>4, <1>5, <1>7 DEF StreamIInv

(* What the tail ever got begins the stream.                                           *)
LEMMA HeardIsAStream ==
  ASSUME StreamIInv
  PROVE  Rising(heard) /\ (LinesPerMs = 1 => OnlyTaken(heard, first))
<1>1. /\ job.lines \in Seq(LineSet) /\ heard \in Seq(LineSet) /\ logs \in Seq(LineSet)
      /\ Rising(Stream) /\ (LinesPerMs = 1 => OnlyTaken(Stream, first))
  BY DEF StreamIInv, StreamTypes
<1> DEFINE b == job.lines
           e == logs \o b
<1>2. e \in Seq(LineSet)
  BY <1>1, ConcatProperties
<1>3. Stream = heard \o e
  <2>1. b \in Seq(LineSet)
    BY <1>1
  <2>2. Stream = (heard \o logs) \o b
    BY DEF Stream
  <2> HIDE DEF b
  <2>3. (heard \o logs) \o b = heard \o (logs \o b)
    BY <1>1, <2>1, ConcatAssociative
  <2> QED
    BY <2>2, <2>3
<1> HIDE DEF e
<1> QED
  BY <1>1, <1>2, <1>3, StartOfStream

(* What the terminal interface leaves when it ends is the tail.                            *)
LEMMA ExitKeeps == ASSUME StreamIInv, Exit PROVE StreamIInv'
<1>1. StreamTypes /\ CutOfHeard /\ heard \in Seq(LineSet)
  BY DEF StreamIInv, StreamTypes
<1>2. /\ UNCHANGED <<first, last, seen, local, heard, received, cutoff>>
      /\ quit' = "gone" /\ task' = "select" /\ job' = [lines |-> <<>>, total |-> 0] /\ logs' = <<>>
  BY DEF Exit, daemon, buffer
<1>3. Stream' = heard
  <2>1. Stream' = (heard \o <<>>) \o <<>>
    BY <1>2 DEF Stream
  <2>2. heard \o <<>> = heard
    BY <1>1, ConcatEmptySeq
  <2> QED
    BY <2>1, <2>2
<1>4. Rising(Stream)' /\ (LinesPerMs = 1 => OnlyTaken(Stream, first)')
  <2>1. Rising(heard) /\ (LinesPerMs = 1 => OnlyTaken(heard, first))
    BY HeardIsAStream
  <2> QED
    BY <1>2, <1>3, <2>1 DEF Rising, OnlyTaken
<1>5. <<>> \in Seq(LineSet)
  BY EmptySeq
<1>6. job' \in [lines : Seq(LineSet), total : Nat] /\ job'.lines = <<>>
  BY <1>2, <1>5
<1>7. StreamTypes' /\ CutOfHeard'
  BY <1>1, <1>2, <1>5, <1>6 DEF StreamTypes, CutOfHeard
<1> QED
  BY <1>2, <1>4, <1>6, <1>7 DEF StreamIInv

(* What the stream keeps, and the cutoff with what was heard, over every poll, loss of the *)
(* connection, drain of the channels, clear and exit.                                      *)
THEOREM StreamInvariant == Spec => []StreamIInv
<1>1. Init => StreamIInv
  <2> SUFFICES ASSUME Init PROVE StreamIInv
    OBVIOUS
  <2>1. /\ first = 1 /\ last = 0 /\ seen = 0 /\ task = "select"
        /\ job = [lines |-> <<>>, total |-> 0] /\ logs = <<>> /\ local = {} /\ received = 0
        /\ heard = <<>> /\ cutoff = [daemon |-> 0, local |-> 0, seen |-> 0]
    BY DEF Init, NoCut
  <2>2. <<>> \in Seq(LineSet) /\ Len(<<>>) = 0 /\ MaxLast \in Nat
    BY EmptySeq, LogViewAssumption
  <2>3. Stream = <<>>
    <3>1. <<>> \o <<>> = <<>>
      BY <2>2, ConcatEmptySeq
    <3> QED
      BY <2>1, <3>1 DEF Stream
  <2>4. job \in [lines : Seq(LineSet), total : Nat] /\ job.lines = <<>>
    BY <2>1, <2>2
  <2>5. StreamTypes
    BY <2>1, <2>2, <2>4 DEF StreamTypes
  <2>6. CutOfHeard
    BY <2>1, <2>2 DEF CutOfHeard
  <2>7. Rising(Stream) /\ OnlyTaken(Stream, first) /\ EndsSeen(Stream, seen)
    BY <2>2, <2>3 DEF Rising, OnlyTaken, EndsSeen
  <2> QED
    BY <2>4, <2>5, <2>6, <2>7 DEF StreamIInv
<1>2. StreamIInv /\ [Next]_vars => StreamIInv'
  <2> SUFFICES ASSUME StreamIInv, [Next]_vars PROVE StreamIInv'
    OBVIOUS
  <2>1. CASE Bystander
    BY <2>1, BystanderKeeps
  <2>2. CASE Produce \/ PollLogs \/ SendLine \/ TakeUpdates \/ Clear \/ Exit
    BY <2>2, ProduceKeeps, PollLogsKeeps, SendLineKeeps, TakeUpdatesKeeps, ClearKeeps, ExitKeeps
  <2>3. CASE UNCHANGED vars
    <3>1. UNCHANGED <<first, last, seen, task, job, local, heard, logs, received, cutoff, quit>>
      BY <2>3 DEF vars, daemon, poller, channels, buffer, user
    <3>2. StreamTypes' /\ first \in Nat /\ (task # "sending" => job.lines = <<>>)
      BY <3>1 DEF StreamIInv, StreamTypes
    <3> QED
      BY <3>1, <3>2, QuietStep
  <2> QED
    BY <2>1, <2>2, <2>3 DEF Next, Bystander
<1> QED
  BY <1>1, <1>2, PTL DEF Spec

(* While lines have time stamps of their own, the tail gets each line once and in order    *)
(* and misses only what retention took (background_task of daemon.rs).                     *)
THEOREM LinesStreamOnce == LinesPerMs = 1 /\ Spec => []StreamedOnce
<1> SUFFICES ASSUME LinesPerMs = 1 PROVE Spec => []StreamedOnce
  OBVIOUS
<1>1. StreamIInv => StreamedOnce
  BY DEF StreamIInv, StreamedOnce, Stream, Rising, OnlyTaken
<1> QED
  BY <1>1, StreamInvariant, PTL

(* Lines may share time stamps: what arrives is in order, and nothing arrives twice.       *)
THEOREM LinesStayInOrder == Spec => []Rising(Stream)
<1>1. StreamIInv => Rising(Stream)
  BY DEF StreamIInv
<1> QED
  BY <1>1, StreamInvariant, PTL

(* A rising sequence holds as many lines behind a place as it has places there.            *)
LEMMA LinesBehind ==
  ASSUME NEW s \in Seq(LineSet), Rising(s), NEW k \in 0..Len(s)
  PROVE  LET F == {s[i] : i \in (k + 1)..Len(s)}
         IN IsFiniteSet(F) /\ Cardinality(F) = Len(s) - k
<1> DEFINE N == Len(s)
           D == (k + 1)..N
           F == {s[i] : i \in D}
           g == [i \in D |-> s[i]]
<1>1. N \in Nat /\ k \in 0..N /\ \A i \in 1..N : s[i] \in Nat
  <2>1. \A n \in LineSet : n \in Nat
    BY LogViewAssumption DEF LineSet
  <2>2. N \in Nat /\ \A i \in 1..N : s[i] \in LineSet
    BY LenProperties, ElementOfSeq
  <2> QED
    BY <2>1, <2>2
<1>2. IsFiniteSet(D) /\ Cardinality(D) = N - k
  <2>1. k + 1 \in Int /\ N \in Int
    BY <1>1
  <2>2. IsFiniteSet(D) /\ Cardinality(D) = IF k + 1 > N THEN 0 ELSE N - (k + 1) + 1
    BY <2>1, FS_Interval
  <2> QED
    BY <1>1, <2>2
<1>3. ASSUME NEW i \in D, NEW j \in D, s[i] = s[j] PROVE i = j
  <2>1. i \in 1..Len(s) /\ j \in 1..Len(s)
    BY <1>1
  <2>2. CASE i < j
    <3>1. s[i] < s[j]
      BY <2>1, <2>2, RisingAll
    <3> QED
      BY <1>1, <1>3, <2>1, <3>1
  <2>3. CASE j < i
    <3>1. s[j] < s[i]
      BY <2>1, <2>3, RisingAll
    <3> QED
      BY <1>1, <1>3, <2>1, <3>1
  <2> QED
    BY <2>1, <2>2, <2>3
<1>4. g \in Bijection(D, F)
  <2>1. g \in [D -> F] /\ \A i \in D : g[i] = s[i]
    OBVIOUS
  <2>2. \A y \in F : \E i \in D : g[i] = y
    BY <2>1
  <2>3. \A i, j \in D : g[i] = g[j] => i = j
    BY <1>3, <2>1
  <2> HIDE DEF D, F, g
  <2> QED
    BY <2>1, <2>2, <2>3 DEF Bijection, Injection, IsInjective, Surjection
<1>5. ExistsBijection(D, F)
  BY <1>4 DEF ExistsBijection
<1> HIDE DEF D, F, g
<1>6. IsFiniteSet(F) /\ Cardinality(F) = Cardinality(D)
  BY <1>2, <1>5, FS_Bijection
<1> QED
  BY <1>2, <1>6 DEF F, D

(* Where the filtered view counts a line of the tail: what is left of all that was         *)
(* received once it and the newer lines of the tail are taken off.                         *)
LEMMA IndexIs ==
  ASSUME StreamIInv, LinesPerMs = 1, NEW n \in local
  PROVE  LET G == {m \in local : m >= n}
         IN /\ IsFiniteSet(G) /\ Cardinality(G) \in Nat
            /\ Minus(received, Cardinality(local)) + Place(n) = received - Cardinality(G)
<1> DEFINE B == {m \in local : m < n}
           G == {m \in local : m >= n}
           H == ToSet(heard)
<1>1. heard \in Seq(LineSet) /\ received = Len(heard) /\ local \subseteq H
  BY DEF StreamIInv, StreamTypes, CutOfHeard
<1>2. Len(heard) \in Nat /\ DOMAIN heard = 1..Len(heard)
  BY <1>1, LenProperties
<1>3. \A m \in local : m \in Nat /\ PrintedBy[m] \in Nat
  <2>1. \A i \in 1..Len(heard) : heard[i] \in LineSet
    BY <1>1, ElementOfSeq
  <2>2. \A m \in LineSet : m \in Nat /\ PrintedBy[m] \in Nat
    BY LogViewAssumption DEF LineSet
  <2> QED
    BY <1>1, <1>2, <2>1, <2>2 DEF ToSet
<1>4. IsFiniteSet(H) /\ Cardinality(H) = received
  <2>1. 0 \in 0..Len(heard) /\ Rising(heard)
    BY <1>2, HeardIsAStream
  <2> DEFINE F == {heard[i] : i \in (0 + 1)..Len(heard)}
  <2>2. IsFiniteSet(F) /\ Cardinality(F) = Len(heard) - 0
    BY <1>1, <2>1, LinesBehind
  <2>3. H = F
    <3>1. 0 + 1 = 1
      OBVIOUS
    <3> QED
      BY <1>2, <3>1 DEF ToSet
  <2> HIDE DEF H, F
  <2> QED
    BY <1>1, <1>2, <2>2, <2>3
<1> HIDE DEF H
<1>5. IsFiniteSet(local) /\ Cardinality(local) <= received
  BY <1>1, <1>4, FS_Subset
<1>6. IsFiniteSet(B) /\ IsFiniteSet(G)
  <2>1. B \in SUBSET local /\ G \in SUBSET local
    OBVIOUS
  <2> HIDE DEF B, G
  <2> QED
    BY <1>5, <2>1, FS_Subset
<1>7. B \cup G = local /\ B \cap G = {}
  BY <1>3
<1>8. Place(n) = Cardinality(B)
  <2>1. ASSUME NEW m \in local PROVE Before(m, n) <=> m < n
    <3>1. m \in Nat /\ n \in Nat /\ PrintedBy[m] \in Nat /\ PrintedBy[n] \in Nat
      BY <1>3
    <3>2. At(m) = m /\ At(n) = n
      BY <3>1 DEF At
    <3> QED
      BY <3>1, <3>2 DEF Before
  <2>2. {m \in local : Before(m, n)} = B
    BY <2>1
  <2> HIDE DEF B
  <2> QED
    BY <2>2 DEF Place
<1> HIDE DEF B, G
<1>9. Cardinality(local) = Cardinality(B) + Cardinality(G)
  <2>1. Cardinality(B \cup G) = Cardinality(B) + Cardinality(G) - Cardinality(B \cap G)
    BY <1>6, FS_Union
  <2>2. Cardinality({}) = 0
    BY FS_EmptySet
  <2>3. Cardinality(B) \in Nat /\ Cardinality(G) \in Nat
    BY <1>6, FS_CardinalityType
  <2>4. Cardinality(local) = Cardinality(B) + Cardinality(G) - Cardinality({})
    BY <1>7, <2>1, Zenon
  <2> DEFINE b == Cardinality(B)
             g == Cardinality(G)
  <2>5. b \in Nat /\ g \in Nat /\ Cardinality(local) = b + g - 0
    BY <2>2, <2>3, <2>4, Zenon
  <2> HIDE DEF b, g
  <2>6. Cardinality(local) = b + g
    BY <2>5
  <2> QED
    BY <2>6 DEF b, g
<1>10. Cardinality(B) \in Nat /\ Cardinality(G) \in Nat /\ Cardinality(local) \in Nat /\ received \in Nat
  BY <1>1, <1>2, <1>5, <1>6, FS_CardinalityType
<1>11. Minus(received, Cardinality(local)) = received - Cardinality(local)
  BY <1>5, <1>10 DEF Minus, Most
<1>12. Minus(received, Cardinality(local)) + Place(n) = received - Cardinality(G)
  BY <1>8, <1>9, <1>10, <1>11
<1> QED
  BY <1>6, <1>10, <1>12 DEF G

\* What was heard since the clear.
Since == {heard[i] : i \in (cutoff.seen + 1)..Len(heard)}

(* What was heard before the clear is older than what was heard since.                     *)
LEMMA ClearedOrSince ==
  ASSUME StreamIInv
  PROVE  /\ ToSet(heard) = Cleared \cup Since
         /\ \A m \in Cleared, n \in Since : m < n
         /\ ToSet(heard) \subseteq Nat
         /\ IsFiniteSet(Since) /\ Cardinality(Since) = received - cutoff.local
         /\ received \in Nat /\ cutoff.local \in Nat
<1> DEFINE N == Len(heard)
           k == cutoff.seen
<1>1. /\ heard \in Seq(LineSet) /\ k \in Nat /\ received = N /\ cutoff.local = k /\ k <= received
      /\ cutoff.local \in Nat
  BY DEF StreamIInv, StreamTypes, CutOfHeard
<1>2. N \in Nat /\ DOMAIN heard = 1..N /\ k \in 0..N /\ Rising(heard)
  BY <1>1, LenProperties, HeardIsAStream
<1>3. ToSet(heard) = {heard[i] : i \in 1..N}
  BY <1>2 DEF ToSet
<1>4. Cleared = {heard[i] : i \in 1..k} /\ Since = {heard[i] : i \in (k + 1)..N}
  BY DEF Cleared, Since
<1>5. IsFiniteSet(Since) /\ Cardinality(Since) = N - k
  BY <1>1, <1>2, <1>4, LinesBehind
<1>6. \A i \in 1..N : heard[i] \in Nat
  <2>1. \A i \in 1..N : heard[i] \in LineSet
    BY <1>1, ElementOfSeq
  <2>2. \A m \in LineSet : m \in Nat
    BY LogViewAssumption DEF LineSet
  <2> QED
    BY <2>1, <2>2
<1>7. ASSUME NEW i \in 1..k, NEW j \in (k + 1)..N PROVE heard[i] < heard[j]
  <2>1. i \in 1..Len(heard) /\ j \in 1..Len(heard) /\ i < j
    BY <1>2
  <2> QED
    BY <1>1, <1>2, <2>1, RisingAll
<1> HIDE DEF N, k
<1>8. \A i \in 1..N : i \in 1..k \/ i \in (k + 1)..N
  BY <1>2
<1>9. (\A i \in 1..k : i \in 1..N) /\ (\A i \in (k + 1)..N : i \in 1..N)
  BY <1>2
<1>10. ToSet(heard) = Cleared \cup Since
  BY <1>3, <1>4, <1>8, <1>9
<1>11. \A m \in Cleared, n \in Since : m < n
  BY <1>4, <1>7
<1>12. ToSet(heard) \subseteq Nat
  BY <1>3, <1>6
<1> QED
  BY <1>1, <1>2, <1>5, <1>10, <1>11, <1>12

(* While lines have time stamps of their own and the queues of the processes together are  *)
(* the newest part of what came, a cleared line does not come back (clear_view and         *)
(* all_logs_combined of logs.rs).                                                          *)
THEOREM ClearHolds == LinesPerMs = 1 /\ Spec => []ClearedStayHidden
<1> SUFFICES ASSUME LinesPerMs = 1 PROVE Spec => []ClearedStayHidden
  OBVIOUS
<1>1. StreamIInv => ClearedStayHidden
  <2> SUFFICES ASSUME StreamIInv, TailIsTheNewest, NEW n \in local, n \in Cleared
               PROVE  n \notin Filtered
    BY DEF ClearedStayHidden, Filtered
  <2> DEFINE G == {m \in local : m >= n}
  <2>1. /\ IsFiniteSet(G) /\ Cardinality(G) \in Nat
        /\ Minus(received, Cardinality(local)) + Place(n) = received - Cardinality(G)
    BY IndexIs
  <2>2. /\ ToSet(heard) = Cleared \cup Since /\ (\A m \in Cleared, l \in Since : m < l)
        /\ ToSet(heard) \subseteq Nat
        /\ IsFiniteSet(Since) /\ Cardinality(Since) = received - cutoff.local
        /\ received \in Nat /\ cutoff.local \in Nat
    BY ClearedOrSince
  <2>3. Since \cup {n} \subseteq G /\ n \notin Since
    <3>1. n \in Nat /\ (\A m \in Since : m \in Nat /\ n < m /\ m \in ToSet(heard))
      BY <2>2
    <3>2. \A m \in Since : m \in local
      BY <3>1 DEF TailIsTheNewest
    <3> QED
      BY <3>1, <3>2
  <2> HIDE DEF G
  <2>4. /\ IsFiniteSet(Since \cup {n})
        /\ Cardinality(Since \cup {n}) = Cardinality(Since) + 1
    BY <2>2, <2>3, FS_AddElement
  <2>5. Cardinality(Since \cup {n}) <= Cardinality(G)
    BY <2>1, <2>3, FS_Subset
  <2>6. ~(received - Cardinality(G) >= cutoff.local)
    BY <2>1, <2>2, <2>4, <2>5
  <2> QED
    BY <2>1, <2>6 DEF Filtered
<1> QED
  BY <1>1, StreamInvariant, PTL

(* While lines have time stamps of their own, what comes after a clear is in the filtered  *)
(* view, whatever the queues of the processes lost since (push and all_logs_combined).     *)
THEOREM NewLinesAreShown == LinesPerMs = 1 /\ Spec => []NewLinesShow
<1> SUFFICES ASSUME LinesPerMs = 1 PROVE Spec => []NewLinesShow
  OBVIOUS
<1>1. StreamIInv => NewLinesShow
  <2> SUFFICES ASSUME StreamIInv, NEW n \in local, n \notin Cleared
               PROVE  n \in Filtered
    BY DEF NewLinesShow
  <2> DEFINE G == {m \in local : m >= n}
  <2>1. /\ IsFiniteSet(G) /\ Cardinality(G) \in Nat
        /\ Minus(received, Cardinality(local)) + Place(n) = received - Cardinality(G)
    BY IndexIs
  <2>2. /\ ToSet(heard) = Cleared \cup Since /\ (\A m \in Cleared, l \in Since : m < l)
        /\ ToSet(heard) \subseteq Nat
        /\ IsFiniteSet(Since) /\ Cardinality(Since) = received - cutoff.local
        /\ received \in Nat /\ cutoff.local \in Nat
    BY ClearedOrSince
  <2>3. local \subseteq ToSet(heard)
    BY DEF StreamIInv, CutOfHeard
  <2>4. G \in SUBSET Since
    <3>1. n \in Since /\ n \in Nat
      BY <2>2, <2>3
    <3>2. ASSUME NEW m \in G PROVE m \in Since
      <4>1. m \in Nat /\ m >= n /\ m \in Cleared \cup Since
        BY <2>2, <2>3
      <4>2. m \notin Cleared
        BY <2>2, <3>1, <4>1
      <4> QED
        BY <4>1, <4>2
    <3> QED
      BY <3>2
  <2> HIDE DEF G
  <2>5. Cardinality(G) <= Cardinality(Since)
    BY <2>2, <2>4, FS_Subset
  <2>6. received - Cardinality(G) >= cutoff.local
    BY <2>1, <2>2, <2>5
  <2> QED
    BY <2>1, <2>6 DEF Filtered
<1> QED
  BY <1>1, StreamInvariant, PTL

-----------------------------------------------------------------------------
(* The panes.  *)
PanesSpec == PanesInit /\ [][PanesNext]_paneVars

\* What of the types the panes need.
ScrollTypes ==
  /\ groups \in Layouts \cup {<<>>} /\ lines \in [Processes \cup {Whole} -> Nat]
  /\ style \in {"tree", "grid"} /\ turn \in {"frame", "key"}
  /\ selected \in Nat /\ page \in Nat /\ perPage \in 0..6
  /\ \A v \in DOMAIN scroll_ : scroll_[v] \in Nat
  /\ \A v \in DOMAIN follow_ : follow_[v] \in BOOLEAN
  /\ \A v \in DOMAIN height : height[v] \in Nat

(* The grid of a list is a sequence of processes.                                      *)
LEMMA LayoutIsASeq == ASSUME NEW l \in Layouts PROVE Grid(l) \in Seq(Processes)
<1>1. l \in Seq([name : STRING, members : Seq(Processes)])
  BY PanesAssumption
<1>2. DOMAIN l = 1..Len(l) /\ Len(l) \in Nat
  BY <1>1, LenProperties
<1>3. ASSUME NEW i \in 1..Len(l) PROVE l[i].members \in Seq(Processes)
  <2>1. l[i] \in [name : STRING, members : Seq(Processes)]
    BY <1>1, ElementOfSeq
  <2> QED
    BY <2>1
<1>4. [i \in DOMAIN l |-> l[i].members] \in Seq(Seq(Processes))
  BY <1>2, <1>3, FunctionIsSeq
<1> QED
  BY <1>4, FlattenIsSeq DEF Grid

(* So is that of the list the daemon brought last.                                     *)
LEMMA GridIsASeq == ASSUME ScrollTypes PROVE Grid(groups) \in Seq(Processes)
<1>1. CASE groups = <<>>
  <2>1. [i \in DOMAIN groups |-> groups[i].members] = <<>>
    BY <1>1
  <2>2. <<>> \in Seq(Seq(Processes))
    BY EmptySeq
  <2> QED
    BY <2>1, <2>2, FlattenIsSeq DEF Grid
<1>2. CASE groups \in Layouts
  BY <1>2, LayoutIsASeq
<1> QED
  BY <1>1, <1>2 DEF ScrollTypes

(* What a key that scrolls does to its view.                                           *)
LEMMA PutIs ==
  ASSUME NEW v, NEW n, NEW f, Put(v, n, f)
  PROVE  /\ ScrollOf(v)' = n /\ Follows(v)' = f
         /\ scroll_' = [w \in DOMAIN scroll_ \cup {v} |-> IF w = v THEN n ELSE scroll_[w]]
         /\ follow_' = [w \in DOMAIN follow_ \cup {v} |-> IF w = v THEN f ELSE follow_[w]]
         /\ UNCHANGED <<groups, lines, style, selected, page, perPage, height, highlighted>>
BY DEF Put, ScrollOf, Follows, Get, Key, shown, place, frame, With

(* What the proofs use of the constants.                                               *)
LEMMA PanesConstants ==
  /\ Undrawn \in Nat /\ Word \in Nat /\ Counts \subseteq Nat
  /\ \A n \in 1..6 : Heights[n] \in Nat
BY PanesAssumption

(* A view has lines, a height, a position and whether it follows.                      *)
LEMMA ViewTypes ==
  ASSUME ScrollTypes, NEW v \in Nat \cup {-1}
  PROVE  /\ TotalOf(v) \in Nat /\ HeightOf(v) \in Nat /\ MaxScroll(v) \in Nat
         /\ ScrollOf(v) \in Nat /\ Follows(v) \in BOOLEAN
<1>1. HeightOf(v) \in Nat /\ ScrollOf(v) \in Nat /\ Follows(v) \in BOOLEAN
  BY PanesConstants DEF ScrollTypes, HeightOf, ScrollOf, Follows, Get
<1>2. ProcessAt(v) \in Processes \cup {Nobody} \/ v = -1
  <2> DEFINE s == Grid(groups)
  <2>1. s \in Seq(Processes) /\ Len(s) \in Nat
    BY GridIsASeq, LenProperties
  <2> HIDE DEF s
  <2>2. CASE v \in Nat /\ v < Len(s)
    <3>1. v + 1 \in 1..Len(s)
      BY <2>1, <2>2
    <3>2. s[v + 1] \in Processes
      BY <2>1, <3>1, ElementOfSeq
    <3> QED
      BY <2>2, <3>2 DEF ProcessAt, EntryAt, s
  <2>3. CASE ~(v < Len(s))
    BY <2>3 DEF ProcessAt, EntryAt, s
  <2> QED
    BY <2>1, <2>2, <2>3
<1>3. TotalOf(v) \in Nat
  BY <1>2 DEF TotalOf, NameOf, ScrollTypes
<1> QED
  BY <1>1, <1>3 DEF MaxScroll, Less, AtLeast

(* The view the keys scroll is a pane or the combined log.                             *)
LEMMA ViewIsAView == ASSUME ScrollTypes PROVE View \in Nat \cup {-1}
BY DEF ScrollTypes, View

(* What a key that scrolls does to the view it scrolls.                                    *)
LEMMA PutShows ==
  ASSUME ScrollTypes, NEW n \in Nat, NEW f \in BOOLEAN, NEW v \in Nat \cup {-1}, v = View, Put(v, n, f)
  PROVE  Displayed(View)' = IF f THEN MaxScroll(v) ELSE AtMost(n, MaxScroll(v))
<1>1. /\ UNCHANGED <<groups, lines, style, selected, height>>
      /\ ScrollOf(v)' = n /\ Follows(v)' = f
  BY PutIs
<1>2. View' = v /\ MaxScroll(v)' = MaxScroll(v)
  BY <1>1 DEF View, MaxScroll, TotalOf, HeightOf, NameOf, ProcessAt
<1>3. Displayed(v)' = IF f THEN MaxScroll(v) ELSE AtMost(n, MaxScroll(v))
  BY <1>1, <1>2 DEF Displayed
<1> QED
  BY <1>2, <1>3 DEF Displayed, Follows, ScrollOf, MaxScroll, TotalOf, HeightOf, NameOf, ProcessAt

(* A key that scrolls starts from where the view is drawn, or from behind it.          *)
LEMMA CurrentIs ==
  ASSUME ScrollTypes
  PROVE  /\ Current(View) \in Nat /\ MaxScroll(View) \in Nat /\ HeightOf(View) \in Nat
         /\ Follows(View) \in BOOLEAN
         /\ Displayed(View) = AtMost(Current(View), MaxScroll(View))
         /\ Follows(View) => Current(View) = MaxScroll(View)
BY ViewIsAView, ViewTypes DEF Current, Displayed, AtMost

(* The keys that scroll down.                                                          *)
LEMMA DownGoesDown ==
  ASSUME ScrollTypes, LineDown \/ PagesDown
  PROVE  /\ \E n \in Nat, f \in BOOLEAN : Put(View, n, f)
         /\ Displayed(View)' >= Displayed(View)
<1> DEFINE c == Current(View)
           m == MaxScroll(View)
<1>1. /\ c \in Nat /\ m \in Nat /\ HeightOf(View) \in Nat /\ Follows(View) \in BOOLEAN
      /\ Displayed(View) = AtMost(c, m) /\ View \in Nat \cup {-1}
      /\ Follows(View) => c = m
  BY CurrentIs, ViewIsAView
<1>2. ASSUME NEW n \in Nat, NEW f \in BOOLEAN, Put(View, n, f), f \/ AtMost(n, m) >= AtMost(c, m)
      PROVE  Displayed(View)' >= Displayed(View)
  <2>1. Displayed(View)' = IF f THEN m ELSE AtMost(n, m)
    BY <1>1, <1>2, PutShows
  <2> HIDE DEF c, m
  <2> QED
    BY <1>1, <1>2, <2>1 DEF AtMost
<1>3. CASE PagesDown
  <2>1. PICK n \in Steps : Put(View, AtMost(c + n, m), FALSE)
    BY <1>3 DEF PagesDown
  <2>2. n \in Nat
    BY <1>1, <2>1 DEF Steps
  <2> HIDE DEF c, m
  <2>3. AtMost(c + n, m) \in Nat /\ AtMost(AtMost(c + n, m), m) >= AtMost(c, m)
    BY <1>1, <2>2 DEF AtMost
  <2> QED
    BY <1>2, <2>1, <2>3
<1>4. CASE style = "grid" /\ LineDown
  <2> DEFINE n == AtMost(c + 1, m)
  <2>1. View = selected /\ Put(View, n, Follows(View) /\ n = m)
    BY <1>4 DEF LineDown, View
  <2> HIDE DEF c, m
  <2>2. n \in Nat /\ (Follows(View) /\ n = m) \in BOOLEAN /\ AtMost(n, m) >= AtMost(c, m)
    BY <1>1 DEF AtMost
  <2> QED
    BY <1>2, <2>1, <2>2
<1>5. CASE style = "tree" /\ LineDown
  <2> DEFINE n == IF c < m THEN c + 1 ELSE c
  <2>1. View = -1 /\ Put(View, n, FALSE)
    BY <1>5 DEF LineDown, View
  <2> HIDE DEF c, m
  <2>2. n \in Nat /\ AtMost(n, m) >= AtMost(c, m)
    BY <1>1 DEF AtMost
  <2> QED
    BY <1>2, <2>1, <2>2
<1> QED
  BY <1>3, <1>4, <1>5 DEF ScrollTypes

(* The keys that scroll up.                                                            *)
LEMMA UpGoesUp ==
  ASSUME ScrollTypes, LineUp \/ PagesUp
  PROVE  /\ \E n \in Nat, f \in BOOLEAN : Put(View, n, f)
         /\ Displayed(View)' <= Displayed(View)
<1> DEFINE c == Current(View)
           m == MaxScroll(View)
<1>1. /\ c \in Nat /\ m \in Nat /\ HeightOf(View) \in Nat /\ Follows(View) \in BOOLEAN
      /\ Displayed(View) = AtMost(c, m) /\ View \in Nat \cup {-1}
      /\ Follows(View) => c = m
  BY CurrentIs, ViewIsAView
<1>2. ASSUME NEW n \in Nat, NEW f \in BOOLEAN, Put(View, n, f), AtMost(n, m) <= AtMost(c, m),
             f => m <= AtMost(c, m)
      PROVE  Displayed(View)' <= Displayed(View)
  <2>1. Displayed(View)' = IF f THEN m ELSE AtMost(n, m)
    BY <1>1, <1>2, PutShows
  <2> HIDE DEF c, m
  <2> QED
    BY <1>1, <1>2, <2>1
<1>3. CASE PagesUp
  <2>1. PICK n \in Steps : Put(View, Less(c, n), FALSE)
    BY <1>3 DEF PagesUp
  <2>2. n \in Nat
    BY <1>1, <2>1 DEF Steps
  <2> HIDE DEF c, m
  <2>3. Less(c, n) \in Nat /\ AtMost(Less(c, n), m) <= AtMost(c, m)
    BY <1>1, <2>2 DEF AtMost, Less, AtLeast
  <2> QED
    BY <1>2, <2>1, <2>3
<1>4. CASE style = "grid" /\ LineUp
  <2> DEFINE n == Less(c, 1)
  <2>1. View = selected /\ Put(View, n, Follows(View) /\ n >= m)
    BY <1>4 DEF LineUp, View
  <2> HIDE DEF c, m
  <2>2. n \in Nat /\ (Follows(View) /\ n >= m) \in BOOLEAN /\ AtMost(n, m) <= AtMost(c, m)
        /\ (Follows(View) /\ n >= m => m <= AtMost(c, m))
    BY <1>1 DEF AtMost, Less, AtLeast
  <2> QED
    BY <1>2, <2>1, <2>2
<1>5. CASE style = "tree" /\ LineUp
  <2>1. View = -1 /\ Put(View, Less(c, 1), FALSE)
    BY <1>5 DEF LineUp, View
  <2> HIDE DEF c, m
  <2>2. Less(c, 1) \in Nat /\ AtMost(Less(c, 1), m) <= AtMost(c, m)
    BY <1>1 DEF AtMost, Less, AtLeast
  <2> QED
    BY <1>2, <2>1, <2>2
<1> QED
  BY <1>3, <1>4, <1>5 DEF ScrollTypes

-----------------------------------------------------------------------------
\* The daemon's list keeps its length, whatever its order.
SameLength == \A l, m \in Layouts : Len(Grid(l)) = Len(Grid(m))

(* The selected pane is one of its page, as long as the page shows some of the list of n   *)
(* panes.  Where the page shows nothing, the selection may be anywhere.                    *)
OnItsPage(n) ==
  perPage # 0 /\ page * perPage < n =>
    page * perPage <= selected /\ selected < page * perPage + perPage

Placed ==
  /\ turn = "key" => groups \in Layouts /\ (style = "grid" => perPage # 0)
  /\ perPage = 0 => page = 0 /\ selected = 0
  /\ SameLength => \A l \in Layouts : OnItsPage(Len(Grid(l)))

\* The inductive invariant of the panes.
PanesIInv == ScrollTypes /\ Placed /\ (SameLength => RestartsTheHighlighted)

(* A word is a natural, and what fits into it stays itself.                            *)
LEMMA WrapIsAWord ==
  ASSUME NEW x \in Int, Word > 0
  PROVE  Wrap(x) \in Nat /\ (x \in 0..(Word - 1) => Wrap(x) = x)
<1>1. Wrap(x) \in Nat
  BY PanesConstants DEF Wrap
<1>2. ASSUME x \in 0..(Word - 1) PROVE Wrap(x) = x
  BY <1>2, PanesConstants DEF Wrap
<1> QED
  BY <1>1, <1>2

(* Products of naturals are naturals.                                                  *)
LEMMA TimesIsNat == ASSUME NEW a \in Nat, NEW b \in Nat PROVE a * b \in Nat
OBVIOUS

(* The numbers the keys of the grid compute with.                                      *)
LEMMA GridFacts ==
  ASSUME ScrollTypes, Placed, turn = "key", style = "grid"
  PROVE  /\ PP = perPage /\ PP \in 1..6 /\ Columns \in 1..PP
         /\ TaskCount \in Nat /\ TaskCount + 12 < Word /\ Word > 0 /\ Word > 12
         /\ page * PP \in Nat /\ Local \in Nat
         /\ OnItsPage(TaskCount) /\ page * PP < TaskCount => Local < PP
         /\ Visible \in 0..PP /\ Visible <= TaskCount /\ (TaskCount > 0 => Visible > 0)
<1>1. PP = perPage /\ PP \in 1..6
  BY DEF ScrollTypes, Placed, PP, AtLeast
<1>2. Columns \in 1..PP
  BY <1>1 DEF Columns
<1>3. TaskCount \in Nat /\ TaskCount + 12 < Word
  <2>1. groups \in Layouts
    BY DEF Placed
  <2>2. Len(Grid(groups)) \in Nat
    BY GridIsASeq, LenProperties
  <2> QED
    BY <2>1, <2>2, PanesAssumption DEF TaskCount
<1>4. page * PP \in Nat
  BY <1>1, TimesIsNat DEF ScrollTypes
<1>5. Local \in Nat /\ (OnItsPage(TaskCount) /\ page * PP < TaskCount => Local < PP)
  <2> DEFINE x == page * PP
  <2>1. OnItsPage(TaskCount) /\ x < TaskCount => x <= selected /\ selected < x + PP
    BY <1>1 DEF OnItsPage
  <2>2. Local = Less(selected, x) /\ selected \in Nat
    BY DEF Local, ScrollTypes
  <2> HIDE DEF x
  <2>3. x \in Nat
    BY <1>4 DEF x
  <2>4. Local \in Nat /\ (x <= selected /\ selected < x + PP => Local < PP)
    BY <1>1, <2>2, <2>3 DEF Less, AtLeast
  <2> QED
    BY <2>1, <2>4 DEF x
<1>6. Visible \in 0..PP /\ Visible <= TaskCount /\ (TaskCount > 0 => Visible > 0)
  BY <1>1, <1>3 DEF Visible, AtMost
<1> QED
  BY <1>1, <1>2, <1>3, <1>4, <1>5, <1>6, PanesConstants

\* A key of the grid goes to a pane that its page has, unless the page is behind the list.
Goes == \E p \in Nat, i \in Nat :
          Go(p, i) /\ (OnItsPage(TaskCount) /\ p * PP < TaskCount => i < PP)

(* The place in the last row of n panes is one of the n.                               *)
LEMMA LastRowIsOnThePage ==
  ASSUME ScrollTypes, Placed, turn = "key", style = "grid", NEW n \in Nat
  PROVE  InLastRow(n) \in Nat /\ (n \in 1..PP => InLastRow(n) < PP)
<1> DEFINE k == Wrap((((n + Columns - 1) \div Columns) - 1) * Columns + Local)
<1>1. /\ PP \in 1..6 /\ Columns \in 1..PP /\ Local \in Nat /\ Word > 12 /\ Word > 0 /\ Word \in Nat
  BY GridFacts, PanesConstants
<1>2. (((n + Columns - 1) \div Columns) - 1) * Columns + Local \in Int
  <2>1. (n + Columns - 1) \div Columns \in Int
    BY <1>1
  <2> QED
    BY <1>1, <2>1
<1>3. k \in Nat
  BY <1>1, <1>2, WrapIsAWord
<1>4. Wrap(n - 1) \in Nat /\ (n \in 1..PP => Wrap(n - 1) = n - 1)
  <2>1. n \in 1..PP => n - 1 \in 0..(Word - 1)
    BY <1>1, PanesConstants
  <2> QED
    BY <1>1, <2>1, WrapIsAWord
<1>5. InLastRow(n) = AtMost(k, Wrap(n - 1))
  BY DEF InLastRow
<1> HIDE DEF k
<1> QED
  BY <1>1, <1>3, <1>4, <1>5 DEF AtMost

(* The keys of the grid, one by one.                                                   *)
LEMMA BelowGoes ==
  ASSUME ScrollTypes, Placed, turn = "key", Below PROVE Goes
<1>1. /\ PP \in 1..6 /\ Columns \in 1..PP /\ Local \in Nat /\ Word > 0 /\ page \in Nat
      /\ Visible \in 0..PP
  BY GridFacts DEF Below, GridKey, ScrollTypes
<1> DEFINE next == Wrap(Local + Columns)
<1>2. next \in Nat
  BY <1>1, WrapIsAWord
<1>3. CASE next < Visible /\ Go(page, next)
  BY <1>1, <1>2, <1>3 DEF Goes
<1>4. CASE Go(page + 1, 0)
  BY <1>1, <1>4 DEF Goes
<1>5. CASE Go(page, Local % Columns)
  <2>1. Local % Columns \in Nat /\ Local % Columns < PP
    BY <1>1
  <2> QED
    BY <1>1, <1>5, <2>1 DEF Goes
<1> QED
  BY <1>3, <1>4, <1>5 DEF Below

(* Up: within the page, to the last row of the page before, or to the last row.        *)
LEMMA AboveGoes ==
  ASSUME ScrollTypes, Placed, turn = "key", Above PROVE Goes
<1>1. /\ PP \in 1..6 /\ Columns \in 1..PP /\ Local \in Nat /\ Word > 0 /\ page \in Nat
      /\ Visible \in 1..PP /\ TaskCount \in Nat /\ TaskCount < Word /\ Word \in Nat
      /\ style = "grid"
      /\ OnItsPage(TaskCount) /\ page * PP < TaskCount => Local < PP
  <2>1. style = "grid" /\ TaskCount > 0 /\ page \in Nat
    BY DEF Above, GridKey, ScrollTypes
  <2>2. /\ PP \in 1..6 /\ Columns \in 1..PP /\ Local \in Nat /\ Word > 0
        /\ Visible \in 0..PP /\ Visible > 0 /\ TaskCount \in Nat /\ TaskCount + 12 < Word
        /\ OnItsPage(TaskCount) /\ page * PP < TaskCount => Local < PP
    BY <2>1, GridFacts
  <2> QED
    BY <2>1, <2>2, PanesConstants
<1>2. CASE Local >= Columns /\ Go(page, Local - Columns)
  <2>1. Local - Columns \in Nat /\ (Local < PP => Local - Columns < PP)
    BY <1>1, <1>2
  <2> QED
    BY <1>1, <1>2, <2>1 DEF Goes
<1>3. CASE page > 0 /\ Go(page - 1, InLastRow(AtMost(PP, Wrap(TaskCount - (page - 1) * PP))))
  <2> DEFINE p == page - 1
             left_ == TaskCount - p * PP
             n == AtMost(PP, Wrap(left_))
  <2>1. p \in Nat /\ p * PP \in Nat
    BY <1>1, <1>3, TimesIsNat
  <2>2. left_ \in Int /\ (p * PP < TaskCount => left_ \in 1..TaskCount)
    <3> DEFINE x == p * PP
    <3>1. x \in Nat
      BY <2>1
    <3> HIDE DEF x
    <3>2. TaskCount - x \in Int /\ (x < TaskCount => TaskCount - x \in 1..TaskCount)
      BY <1>1, <3>1
    <3> QED
      BY <3>2 DEF x
  <2>3. Wrap(left_) \in Nat /\ (p * PP < TaskCount => Wrap(left_) = left_)
    <3> HIDE DEF left_
    <3>1. p * PP < TaskCount => left_ \in 0..(Word - 1)
      BY <1>1, <2>2
    <3> QED
      BY <1>1, <2>2, <3>1, WrapIsAWord
  <2> HIDE DEF left_
  <2>4. n \in Nat /\ (p * PP < TaskCount => n \in 1..PP)
    BY <1>1, <2>2, <2>3 DEF AtMost
  <2> HIDE DEF n
  <2>5. InLastRow(n) \in Nat /\ (p * PP < TaskCount => InLastRow(n) < PP)
    BY <1>1, <2>4, LastRowIsOnThePage
  <2>6. Go(p, InLastRow(n))
    BY <1>3 DEF n, left_
  <2> HIDE DEF p
  <2> QED
    BY <2>1, <2>5, <2>6 DEF Goes
<1>4. CASE Go(page, InLastRow(Visible))
  <2>1. InLastRow(Visible) \in Nat /\ InLastRow(Visible) < PP
    BY <1>1, LastRowIsOnThePage
  <2> QED
    BY <1>1, <1>4, <2>1 DEF Goes
<1> QED
  BY <1>2, <1>3, <1>4 DEF Above

(* Left and right stay in the row.                                                     *)
LEMMA BesideGoes ==
  ASSUME ScrollTypes, Placed, turn = "key", NEW column \in Nat, Beside(column) PROVE Goes
<1> DEFINE i == (Local \div Columns) * Columns + column
<1>1. /\ PP \in 1..6 /\ Columns \in 1..PP /\ Local \in Nat /\ page \in Nat /\ Visible \in 0..PP
  BY GridFacts DEF Beside, GridKey, ScrollTypes
<1>2. i \in Nat
  <2>1. Local \div Columns \in Nat /\ Columns \in Nat
    BY <1>1
  <2>2. (Local \div Columns) * Columns \in Nat
    BY <2>1, TimesIsNat
  <2> QED
    BY <2>2
<1>3. i < Visible /\ Go(page, i)
  BY DEF Beside
<1> HIDE DEF i
<1> QED
  BY <1>1, <1>2, <1>3 DEF Goes

(* So do the two keys for them.                                                        *)
LEMMA SidewaysGoes ==
  ASSUME ScrollTypes, Placed, turn = "key", ToLeft \/ ToRight PROVE Goes
<1>1. style = "grid" /\ TaskCount > 0
  BY DEF ToLeft, ToRight, Beside, GridKey
<1>2. /\ PP \in 1..6 /\ Columns \in 1..PP /\ Local \in Nat /\ page \in Nat /\ Visible \in 0..PP
  BY <1>1, GridFacts DEF ScrollTypes
<1> DEFINE column == Local % Columns
           rowEnd == AtMost((Local \div Columns + 1) * Columns - 1, Visible - 1)
<1>3. column \in Nat /\ column < PP
  BY <1>2
<1>4. rowEnd % Columns \in Nat
  <2>1. Local \div Columns + 1 \in Nat /\ Columns \in Nat
    BY <1>2
  <2>2. (Local \div Columns + 1) * Columns \in Nat
    BY <2>1, TimesIsNat
  <2>3. rowEnd \in Int
    BY <1>2, <2>2 DEF AtMost
  <2> HIDE DEF rowEnd
  <2> QED
    BY <1>2, <2>3
<1>5. CASE ToRight
  <2>1. Beside(IF column + 1 < Columns /\ Local + 1 < Visible THEN column + 1 ELSE 0)
    BY <1>5 DEF ToRight
  <2> HIDE DEF column
  <2>2. (IF column + 1 < Columns /\ Local + 1 < Visible THEN column + 1 ELSE 0) \in Nat
    BY <1>3
  <2> QED
    BY <2>1, <2>2, BesideGoes
<1>6. CASE ToLeft
  <2>1. Beside(IF column > 0 THEN column - 1 ELSE rowEnd % Columns)
    BY <1>6 DEF ToLeft
  <2> HIDE DEF column, rowEnd
  <2>2. (IF column > 0 THEN column - 1 ELSE rowEnd % Columns) \in Nat
    BY <1>3, <1>4
  <2> QED
    BY <2>1, <2>2, BesideGoes
<1> QED
  BY <1>5, <1>6

(* To a pane by its number: the page is that of the pane.                              *)
LEMMA GoToGoes ==
  ASSUME ScrollTypes, Placed, turn = "key", style = "grid", NEW i \in Nat, GoTo(i) PROVE Goes
<1>1. PP \in 1..6
  BY GridFacts
<1>2. i \div PP \in Nat /\ i % PP \in Nat /\ i % PP < PP
  BY <1>1
<1> QED
  BY <1>2 DEF GoTo, Goes

(* The next and the previous pane and page.                                            *)
LEMMA PanesAndPagesGo ==
  ASSUME ScrollTypes, Placed, turn = "key",
         NextPane \/ PreviousPane \/ PreviousPage \/ NextPage
  PROVE  Goes
<1>1. style = "grid"
  BY DEF NextPane, PreviousPane, PreviousPage, NextPage, GridKey
<1>2. /\ PP \in 1..6 /\ TaskCount \in Nat /\ selected \in Nat /\ page \in Nat
  BY <1>1, GridFacts DEF ScrollTypes
<1>3. CASE NextPane
  <2>1. TaskCount > 0 /\ GoTo((selected + 1) % TaskCount)
    BY <1>3 DEF NextPane, GridKey
  <2>2. (selected + 1) % TaskCount \in Nat
    BY <1>2, <2>1
  <2> QED
    BY <1>1, <2>1, <2>2, GoToGoes
<1>4. CASE PreviousPane
  <2>1. TaskCount > 0 /\ GoTo(IF selected = 0 THEN TaskCount - 1 ELSE selected - 1)
    BY <1>4 DEF PreviousPane, GridKey
  <2>2. (IF selected = 0 THEN TaskCount - 1 ELSE selected - 1) \in Nat
    BY <1>2, <2>1
  <2> QED
    BY <1>1, <2>1, <2>2, GoToGoes
<1>5. CASE PreviousPage
  BY <1>2, <1>5 DEF PreviousPage, Goes
<1>6. CASE NextPage
  BY <1>2, <1>6 DEF NextPage, Goes
<1> QED
  BY <1>3, <1>4, <1>5, <1>6

(* A key that goes to a pane of a page leaves the selected pane on its page.           *)
LEMMA GoesKeepsPlaced ==
  ASSUME ScrollTypes, Placed, turn = "key", style = "grid", Goes
  PROVE  ScrollTypes' /\ Placed'
<1>1. PICK p \in Nat, i \in Nat :
        Go(p, i) /\ (OnItsPage(TaskCount) /\ p * PP < TaskCount => i < PP)
  BY DEF Goes
<1>2. /\ page' = p /\ selected' = Wrap(p * PP + i) /\ turn' = "frame"
      /\ UNCHANGED <<groups, lines, style, scroll_, follow_, perPage, height>>
  BY <1>1 DEF Go, Key, shown, views, frame
<1>3. /\ PP = perPage /\ PP \in 1..6 /\ TaskCount \in Nat /\ TaskCount + 12 < Word
      /\ Word > 0 /\ Word \in Nat
  BY GridFacts, PanesConstants
<1>4. p * PP \in Nat
  BY <1>3, TimesIsNat
<1>5. selected' \in Nat
  <2>1. p * PP + i \in Int
    BY <1>4
  <2> QED
    BY <1>2, <1>3, <2>1, WrapIsAWord
<1>6. ScrollTypes'
  BY <1>2, <1>5 DEF ScrollTypes
<1>7. ASSUME SameLength, NEW l \in Layouts PROVE OnItsPage(Len(Grid(l)))'
  <2>1. Len(Grid(l)) = TaskCount
    BY <1>7 DEF SameLength, Placed, TaskCount
  <2>2. OnItsPage(TaskCount)
    BY <1>7, <2>1 DEF Placed
  <2> DEFINE x == p * PP
  <2>3. SUFFICES ASSUME x < TaskCount PROVE x <= selected' /\ selected' < x + PP
    BY <1>2, <1>3, <2>1 DEF OnItsPage
  <2>4. i < PP
    BY <1>1, <2>2, <2>3
  <2>5. x \in Nat /\ selected' = Wrap(x + i)
    BY <1>2, <1>4
  <2> HIDE DEF x
  <2>6. x + i \in 0..(Word - 1)
    BY <1>3, <2>3, <2>4, <2>5
  <2>7. selected' = x + i
    BY <1>3, <2>5, <2>6, WrapIsAWord
  <2> QED
    BY <1>3, <2>4, <2>5, <2>7
<1>8. perPage' # 0 /\ turn' = "frame"
  BY <1>2, <1>3
<1> QED
  BY <1>6, <1>7, <1>8 DEF Placed, SameLength

(* With other numbers of panes the page is that of the selected pane.                  *)
LEMMA ResizeKeepsPlaced ==
  ASSUME ScrollTypes, Placed, turn = "key", MorePanes \/ FewerPanes
  PROVE  ScrollTypes' /\ Placed'
<1>1. PICK n \in 1..6 : Resize(n)
  <2>1. MorePanes => Resize(perPage + 1) /\ perPage + 1 \in 1..6
    BY DEF MorePanes, Resize
  <2>2. FewerPanes => Resize(perPage - 1) /\ perPage - 1 \in 1..6
    BY DEF FewerPanes, Resize
  <2> QED
    BY <2>1, <2>2
<1>2. /\ perPage' = n /\ page' = selected \div n /\ turn' = "frame" /\ n # 0
      /\ UNCHANGED <<groups, lines, style, selected, scroll_, follow_, height>>
  BY <1>1 DEF Resize, Key, shown, views
<1>3. selected \in Nat /\ page' \in Nat /\ page' * n <= selected /\ selected < page' * n + n
  <2>1. selected \in Nat
    BY DEF ScrollTypes
  <2> QED
    BY <1>2, <2>1
<1>4. ScrollTypes'
  BY <1>2, <1>3 DEF ScrollTypes
<1> QED
  BY <1>2, <1>3, <1>4 DEF Placed, OnItsPage, SameLength

\* A key that scrolls, whichever it is.
LEMMA ScrollKeyPuts ==
  ASSUME ScrollTypes, ScrollKeys, ~ClearView
  PROVE  \E n \in Nat, f \in BOOLEAN : Put(View, n, f)
<1>1. /\ MaxScroll(View) \in Nat /\ ScrollOf(View) \in Nat /\ Follows(View) \in BOOLEAN
  BY ViewIsAView, ViewTypes
<1>2. CASE LineDown \/ PagesDown
  BY <1>2, DownGoesDown
<1>3. CASE LineUp \/ PagesUp
  BY <1>3, UpGoesUp
<1>4. CASE Top \/ Bottom
  BY <1>1, <1>4 DEF Top, Bottom
<1>5. CASE ToggleFollow
  <2>1. (~Follows(View)) \in BOOLEAN /\ Put(View, ScrollOf(View), ~Follows(View))
    BY <1>1, <1>5 DEF ToggleFollow
  <2> QED
    BY <1>1, <2>1
<1> QED
  BY <1>2, <1>3, <1>4, <1>5 DEF ScrollKeys

(* Keys that scroll move no pane.                                                      *)
LEMMA ScrollKeepsPlaced ==
  ASSUME ScrollTypes, Placed, ScrollKeys PROVE ScrollTypes' /\ Placed' /\ turn' = "frame"
<1>1. ASSUME NEW v, NEW n \in Nat, NEW f \in BOOLEAN, Put(v, n, f)
      PROVE  ScrollTypes' /\ UNCHANGED <<groups, style, selected, page, perPage>> /\ turn' = "frame"
  <2>1. /\ scroll_' = [w \in DOMAIN scroll_ \cup {v} |-> IF w = v THEN n ELSE scroll_[w]]
        /\ follow_' = [w \in DOMAIN follow_ \cup {v} |-> IF w = v THEN f ELSE follow_[w]]
        /\ UNCHANGED <<groups, lines, style, selected, page, perPage, height>>
    BY <1>1 DEF Put, With, shown, place, frame
  <2>2. turn' = "frame"
    BY <1>1 DEF Put, Key
  <2> QED
    BY <1>1, <2>1, <2>2 DEF ScrollTypes
<1>2. CASE ClearView
  <2>1. /\ scroll_' = [w \in DOMAIN scroll_ \cup {View} |-> IF w \in {View} THEN 0 ELSE scroll_[w]]
        /\ UNCHANGED <<groups, style, selected, page, perPage, height, follow_>> /\ turn' = "frame"
    BY <1>2 DEF ClearView, With, Key, place, frame
  <2>2. lines' \in [Processes \cup {Whole} -> Nat]
    BY <1>2 DEF ClearView, ScrollTypes
  <2>3. ScrollTypes'
    BY <2>1, <2>2 DEF ScrollTypes
  <2> QED
    BY <2>1, <2>3 DEF Placed, OnItsPage, SameLength
<1>3. CASE ~ClearView
  <2>1. ScrollTypes' /\ UNCHANGED <<groups, style, selected, page, perPage>> /\ turn' = "frame"
    <3>1. \E v : \E n \in Nat, f \in BOOLEAN : Put(v, n, f)
      BY <1>3, ScrollKeyPuts
    <3> QED
      BY <1>1, <3>1
  <2> QED
    BY <2>1 DEF Placed, OnItsPage, SameLength
<1> QED
  BY <1>2, <1>3

-----------------------------------------------------------------------------
(* A frame shows the selected pane, and a tree the selected item.                          *)
LEMMA FrameKeepsPlaced ==
  ASSUME PanesIInv, Frame PROVE PanesIInv'
<1>1. /\ turn = "frame" /\ turn' = "key" /\ groups' \in Layouts
      /\ lines' \in [Processes \cup {Whole} -> Nat]
      /\ perPage' \in IF style = "grid" /\ perPage = 0 THEN {2, 3} ELSE {perPage}
      /\ UNCHANGED <<style, item, selected, page, scroll_, follow_>>
  BY PanesConstants DEF Frame, place, views
<1>2. /\ ScrollTypes /\ Placed /\ perPage \in 0..6 /\ selected \in Nat /\ page \in Nat
      /\ style \in {"tree", "grid"}
  BY DEF PanesIInv, ScrollTypes
<1>3. perPage' \in 0..6 /\ (style = "grid" => perPage' # 0) /\ (perPage # 0 => perPage' = perPage)
  BY <1>1, <1>2
<1>4. PICK l \in Layouts : l = groups'
  BY <1>1
<1>5. PICK pp \in 0..6 : pp = perPage'
  BY <1>3
<1>6. Grid(l) \in Seq(Processes) /\ Len(Grid(l)) \in Nat
  BY LayoutIsASeq, LenProperties
<1> DEFINE k == Len(Grid(l))
           x == page * pp
           drawn == {i \in 0..(k - 1) : x <= i /\ i < x + pp}
           tall == IF pp = 0 THEN Undrawn ELSE Heights[AtLeast(1, AtMost(pp, k))]
<1>7. \/ /\ style = "grid" /\ height' = With(height, drawn, tall)
         /\ highlighted' = IF selected \in drawn THEN EntryAt(Grid(l), selected) ELSE Nobody
      \/ /\ style = "tree" /\ height' = With(height, {-1}, Heights[1])
         /\ highlighted' = EntryAt(Tree(l), item)
  BY <1>2, <1>4, <1>5 DEF Frame
<1>8. x \in Nat /\ k \in Nat
  BY <1>2, <1>6, TimesIsNat
<1>9. tall \in Nat
  <2> DEFINE n == AtLeast(1, AtMost(pp, k))
  <2> HIDE DEF k
  <2>1. pp # 0 => n \in 1..6
    BY <1>8 DEF AtLeast, AtMost
  <2> HIDE DEF n
  <2> QED
    BY <2>1, PanesConstants DEF n
<1>10. \A v \in DOMAIN height' : height'[v] \in Nat
  <2>1. ASSUME NEW S, NEW y \in Nat, height' = With(height, S, y)
        PROVE  \A v \in DOMAIN height' : height'[v] \in Nat
    BY <1>2, <2>1 DEF With, ScrollTypes
  <2>2. Heights[1] \in Nat
    BY PanesConstants
  <2> HIDE DEF drawn, tall
  <2> QED
    BY <1>7, <1>9, <2>1, <2>2
<1>11. ScrollTypes'
  BY <1>1, <1>2, <1>3, <1>10 DEF ScrollTypes
<1>12. ASSUME SameLength, NEW m \in Layouts
       PROVE  pp # 0 /\ x < Len(Grid(m)) => x <= selected /\ selected < x + pp
  <2>1. CASE perPage # 0
    <3>1. OnItsPage(Len(Grid(m)))
      BY <1>2, <1>12 DEF Placed
    <3> QED
      BY <1>3, <1>5, <2>1, <3>1 DEF OnItsPage
  <2>2. CASE perPage = 0
    <3>1. page = 0 /\ selected = 0
      BY <1>2, <2>2 DEF Placed
    <3>2. x = 0
      BY <3>1
    <3> HIDE DEF x
    <3> QED
      BY <3>1, <3>2
  <2> QED
    BY <2>1, <2>2
<1>13. Placed'
  <2>1. perPage' = 0 => page' = 0 /\ selected' = 0
    BY <1>1, <1>2, <1>3 DEF Placed
  <2>2. ASSUME SameLength, NEW m \in Layouts PROVE OnItsPage(Len(Grid(m)))'
    <3> DEFINE n == Len(Grid(m))
    <3>1. pp # 0 /\ page * pp < n => page * pp <= selected /\ selected < page * pp + pp
      BY <1>12, <2>2
    <3> HIDE DEF n
    <3>2. OnItsPage(n)'
      BY <1>1, <1>5, <3>1 DEF OnItsPage
    <3> QED
      BY <3>2 DEF n
  <2> QED
    BY <1>1, <1>3, <2>1, <2>2 DEF Placed, SameLength
<1>14. ASSUME SameLength PROVE RestartsTheHighlighted'
  <2>1. CASE style = "tree"
    BY <1>1, <1>4, <1>7, <2>1 DEF RestartsTheHighlighted, Selected
  <2>2. CASE style = "grid"
    <3>1. pp # 0 /\ pp \in 1..6
      BY <1>3, <1>5, <2>2
    <3>2. x < k => x <= selected /\ selected < x + pp
      BY <1>12, <1>14, <3>1
    <3>3. Selected' = EntryAt(Grid(l), selected)
      BY <1>1, <1>4, <2>2 DEF Selected, ProcessAt, EntryAt
    <3>4. highlighted' = IF selected \in drawn THEN EntryAt(Grid(l), selected) ELSE Nobody
      BY <1>7, <2>2
    <3>5. TaskCount' = k /\ (page * perPage)' = x
      BY <1>1, <1>4, <1>5 DEF TaskCount
    <3>6. selected \notin drawn /\ x < k => ~(selected < k)
      <4> HIDE DEF x, k
      <4> QED
        BY <1>2, <1>8, <3>1, <3>2
    <3>7. x < k => Selected' = highlighted'
      <4> HIDE DEF drawn, x
      <4> QED
        BY <3>3, <3>4, <3>6 DEF EntryAt
    <3>8. style' = "grid" /\ (style = "tree" \/ page * perPage < TaskCount)' => x < k
      BY <1>1, <2>2, <3>5
    <3> HIDE DEF x, drawn, k
    <3> QED
      BY <1>1, <2>2, <3>7, <3>8 DEF RestartsTheHighlighted
  <2> QED
    BY <1>2, <2>1, <2>2
<1> QED
  BY <1>11, <1>13, <1>14 DEF PanesIInv, SameLength

(* The keys that move no pane: those of the tree, the change of style, and the others.     *)
LEMMA OtherKeysKeepPlaced ==
  ASSUME ScrollTypes, Placed, TreeKeys \/ NoKey \/ (\E s \in {"tree", "grid"} : Switch(s))
  PROVE  ScrollTypes' /\ Placed' /\ turn' = "frame"
<1>1. /\ UNCHANGED <<groups, lines, selected, page, perPage, scroll_, follow_, height>>
      /\ turn' = "frame"
  BY DEF TreeKeys, ItemBelow, ItemAbove, MoveItem, ToggleFocus, NoKey, Switch, Key,
         shown, place, views, frame
<1>2. style' \in {"tree", "grid"}
  BY DEF TreeKeys, ItemBelow, ItemAbove, MoveItem, ToggleFocus, NoKey, Switch, ScrollTypes
<1> QED
  BY <1>1, <1>2 DEF ScrollTypes, Placed, OnItsPage, SameLength

(* All keys of the grid keep the selected pane on its page.                            *)
LEMMA GridKeysKeepPlaced ==
  ASSUME ScrollTypes, Placed, turn = "key", GridKeys
  PROVE  ScrollTypes' /\ Placed' /\ turn' = "frame"
<1>1. CASE MorePanes \/ FewerPanes
  BY <1>1, ResizeKeepsPlaced DEF MorePanes, FewerPanes, Resize, Key
<1>2. CASE ~(MorePanes \/ FewerPanes)
  <2>1. style = "grid"
    BY <1>2 DEF GridKeys, Below, Above, ToLeft, ToRight, Beside, NextPane, PreviousPane,
                PreviousPage, NextPage, GridKey
  <2>2. Goes
    BY <1>2, BelowGoes, AboveGoes, SidewaysGoes, PanesAndPagesGo DEF GridKeys
  <2>3. turn' = "frame"
    BY <2>2 DEF Goes, Go, Key
  <2> QED
    BY <2>1, <2>2, <2>3, GoesKeepsPlaced
<1> QED
  BY <1>1, <1>2

(* Keys are read behind a frame.                                                       *)
LEMMA KeysNeedAKey ==
  ASSUME ScrollKeys \/ GridKeys PROVE turn = "key"
BY DEF ScrollKeys, PagesDown, PagesUp, LineDown, LineUp, Top, Bottom, ToggleFollow, ClearView, Put,
       GridKeys, Below, Above, ToLeft, ToRight, Beside, NextPane, PreviousPane, GoTo,
       PreviousPage, NextPage, Go, MorePanes, FewerPanes, Resize, Key

(* What the keys of the terminal interface keep: the selected pane is one of its page.     *)
THEOREM PanesInvariant == PanesSpec => []PanesIInv
<1>1. PanesInit => PanesIInv
  <2>1. ASSUME PanesInit PROVE ScrollTypes /\ Placed /\ turn = "frame"
    <3>1. /\ groups = <<>> /\ style \in {"tree", "grid"} /\ turn = "frame"
          /\ selected = 0 /\ page = 0 /\ perPage = 0
          /\ scroll_ = <<>> /\ follow_ = <<>> /\ height = <<>>
          /\ lines \in [Processes \cup {Whole} -> Nat]
      BY <2>1 DEF PanesInit
    <3> QED
      BY <3>1 DEF ScrollTypes, Placed, OnItsPage
  <2> QED
    BY <2>1 DEF PanesIInv, RestartsTheHighlighted
<1>2. PanesIInv /\ [PanesNext]_paneVars => PanesIInv'
  <2> SUFFICES ASSUME PanesIInv, [PanesNext]_paneVars PROVE PanesIInv'
    OBVIOUS
  <2>1. ScrollTypes /\ Placed
    BY DEF PanesIInv
  <2>2. CASE Frame
    BY <2>2, FrameKeepsPlaced
  <2>3. CASE ScrollKeys \/ GridKeys \/ TreeKeys \/ NoKey \/ (\E s \in {"tree", "grid"} : Switch(s))
    <3>1. ScrollTypes' /\ Placed' /\ turn' = "frame"
      BY <2>1, <2>3, KeysNeedAKey, ScrollKeepsPlaced, GridKeysKeepPlaced, OtherKeysKeepPlaced
    <3> QED
      BY <3>1 DEF PanesIInv, RestartsTheHighlighted
  <2>4. CASE UNCHANGED paneVars
    BY <2>4 DEF paneVars, shown, place, views, frame, PanesIInv, ScrollTypes, Placed, OnItsPage,
                SameLength, RestartsTheHighlighted, Selected, ProcessAt, TaskCount
  <2> QED
    BY <2>2, <2>3, <2>4 DEF PanesNext
<1> QED
  BY <1>1, <1>2, PTL DEF PanesSpec

(* A restart is sent for what the last frame highlighted, whatever was pressed before, as  *)
(* long as the daemon's list keeps its length (handle_key of app.rs acts on selected_pane  *)
(* and selected_item, which the poll leaves alone).                                        *)
THEOREM KeysActOnTheShown == PanesSpec => [](SameLength => RestartsTheHighlighted)
<1>1. PanesIInv => (SameLength => RestartsTheHighlighted)
  BY DEF PanesIInv
<1> QED
  BY <1>1, PanesInvariant, PTL

(* No key that scrolls down shows older lines, and none that scrolls up newer ones         *)
(* (scroll_pane, page_down and navigate_down start from where the view is drawn).          *)
THEOREM ScrollingGoesItsWay == PanesSpec => ScrollsItsWay
<1>1. PanesIInv => ScrollTypes
  BY DEF PanesIInv
<1>2. ScrollTypes => [LineDown \/ PagesDown => Displayed(View)' >= Displayed(View)]_paneVars
  BY DownGoesDown
<1>3. ScrollTypes => [LineUp \/ PagesUp => Displayed(View)' <= Displayed(View)]_paneVars
  BY UpGoesUp
<1> QED
  BY <1>1, <1>2, <1>3, PanesInvariant, PTL DEF ScrollsItsWay
=============================================================================
