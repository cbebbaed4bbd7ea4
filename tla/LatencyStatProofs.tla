-------------------------- MODULE LatencyStatProofs --------------------------
(***************************************************************************)
(* Theorems about LatencyStat, for buffers of any size and any samples.    *)
(***************************************************************************)
EXTENDS LatencyStat, SequenceTheorems, FiniteSetTheorems, FunctionTheorems,
        WellFoundedInduction, TLAPS

----------------------------------------------------------------------------
(* The buffers.                                                            *)

\* The elements of a part of a sequence.
LEMMA PartElements ==
  ASSUME NEW s \in Seq(Nat), NEW k \in 0 .. Len(s), NEW cap \in Nat
  PROVE  /\ Part(s, k, cap) \in Seq(Nat)
         /\ Len(Part(s, k, cap)) = IF Len(s) < k + cap THEN Len(s) - k ELSE cap
         /\ \A i \in 1 .. Len(Part(s, k, cap)) : Part(s, k, cap)[i] = s[k + i]
<1> DEFINE last == IF Len(s) < k + cap THEN Len(s) ELSE k + cap
<1>1. last \in Int /\ k + 1 \in Int /\ \A i \in k + 1 .. last : s[i] \in Nat
  OBVIOUS
<1>2. last >= k /\ last - k = IF Len(s) < k + cap THEN Len(s) - k ELSE cap
  OBVIOUS
<1>3. Part(s, k, cap) = SubSeq(s, k + 1, last)
  BY DEF Part
<1> HIDE DEF last
<1>4. /\ SubSeq(s, k + 1, last) \in Seq(Nat)
      /\ Len(SubSeq(s, k + 1, last)) = last - k
      /\ \A i \in 1 .. last - k : SubSeq(s, k + 1, last)[i] = s[k + i]
  <2>1. /\ SubSeq(s, k + 1, last) \in Seq(Nat)
        /\ Len(SubSeq(s, k + 1, last)) = IF k + 1 <= last THEN last - (k + 1) + 1 ELSE 0
        /\ \A i \in 1 .. last - (k + 1) + 1 : SubSeq(s, k + 1, last)[i] = s[(k + 1) + i - 1]
    BY <1>1, SubSeqProperties
  <2>2. last - (k + 1) + 1 = last - k /\ \A i \in Int : (k + 1) + i - 1 = k + i
    BY <1>1
  <2>3. QED
    BY <1>1, <1>2, <2>1, <2>2
<1>5. QED
  BY <1>2, <1>3, <1>4

\* Kept or dropped, a sample leaves in the buffer what there is room for.
LEMMA PartGrows ==
  ASSUME NEW s \in Seq(Nat), NEW ns \in Nat, NEW k \in 0 .. Len(s), NEW cap \in Nat
  PROVE  Part(Append(s, ns), k, cap) = Push(Part(s, k, cap), cap, ns)
<1> DEFINE t    == Append(s, ns)
           old  == Part(s, k, cap)
           new  == Part(t, k, cap)
           push == Push(old, cap, ns)
<1>1. t \in Seq(Nat) /\ Len(t) = Len(s) + 1 /\ k \in 0 .. Len(t)
      /\ t[Len(s) + 1] = ns /\ \A i \in 1 .. Len(s) : t[i] = s[i]
  OBVIOUS
<1>2. /\ old \in Seq(Nat)
      /\ Len(old) = IF Len(s) < k + cap THEN Len(s) - k ELSE cap
      /\ \A i \in 1 .. Len(old) : old[i] = s[k + i]
  BY PartElements
<1> HIDE DEF t
<1>3. /\ new \in Seq(Nat)
      /\ Len(new) = IF Len(t) < k + cap THEN Len(t) - k ELSE cap
      /\ \A i \in 1 .. Len(new) : new[i] = t[k + i]
  BY <1>1, PartElements
<1> HIDE DEF old, new
<1>4. /\ push \in Seq(Nat)
      /\ Len(push) = IF Len(old) < cap THEN Len(old) + 1 ELSE Len(old)
      /\ \A i \in 1 .. Len(old) : push[i] = old[i]
      /\ Len(old) < cap => push[Len(old) + 1] = ns
  BY <1>2 DEF Push
<1> HIDE DEF push
<1>5. Len(new) = Len(push) /\ \A i \in 1 .. Len(new) : new[i] = push[i]
  <2>1. Len(s) \in Nat /\ Len(old) \in Nat
    BY <1>2
  <2>2. Len(new) = Len(push)
    <3>1. CASE Len(s) < k + cap
      <4>1. Len(old) = Len(s) - k /\ Len(push) = Len(s) - k + 1
        BY <1>2, <1>4, <2>1, <3>1
      <4>2. Len(new) = Len(s) + 1 - k
        BY <1>1, <1>3, <2>1, <3>1
      <4>3. QED
        BY <2>1, <4>1, <4>2
    <3>2. CASE ~(Len(s) < k + cap)
      <4>1. Len(old) = cap /\ Len(push) = cap
        BY <1>2, <1>4, <2>1, <3>2
      <4>2. Len(new) = cap
        BY <1>1, <1>3, <2>1, <3>2
      <4>3. QED
        BY <4>1, <4>2
    <3>3. QED
      BY <3>1, <3>2
  <2>3. ASSUME NEW i \in 1 .. Len(new) PROVE new[i] = push[i]
    <3>1. CASE i <= Len(old)
      BY <1>1, <1>2, <1>3, <1>4, <2>1, <3>1
    <3>2. CASE i > Len(old)
      <4>1. Len(s) < k + cap /\ i = Len(old) + 1 /\ k + i = Len(s) + 1
        BY <1>1, <1>2, <1>3, <2>1, <3>2, SMTT(40)
      <4>2. QED
        <5>1. Len(old) < cap
          BY <1>2, <2>1, <4>1
        <5>2. new[i] = t[Len(s) + 1] /\ push[i] = ns
          BY <1>3, <1>4, <4>1, <5>1
        <5>3. QED
          BY <1>1, <5>2
    <3>3. QED
      BY <1>3, <2>1, <3>1, <3>2
  <2>4. QED
    BY <2>2, <2>3
<1>6. new = push
  BY <1>3, <1>4, <1>5, SeqEqual
<1>7. QED
  BY <1>6 DEF new, push, old, t

\* A window that starts now is empty.
LEMMA PartStarts ==
  ASSUME NEW s \in Seq(Nat), NEW cap \in Nat
  PROVE  Part(s, Len(s), cap) = <<>>
<1>1. Part(s, Len(s), cap) \in Seq(Nat) /\ Len(Part(s, Len(s), cap)) = 0
  <2>1. Len(s) \in 0 .. Len(s) /\ Len(s) - Len(s) = 0 /\ (Len(s) < Len(s) + cap \/ cap = 0)
    OBVIOUS
  <2>2. QED
    BY <2>1, PartElements
<1>2. QED
  BY <1>1, EmptySeq

BuffersInv ==
  /\ heard \in Seq(Nat)
  /\ taken \in 0 .. Len(heard)
  /\ BuffersExact

\* The invariant holds initially and is kept by every step.
LEMMA BuffersInvInductive ==
  /\ Init => BuffersInv
  /\ BuffersInv /\ [Next]_vars => BuffersInv'
<1>1. Init => BuffersInv
  <2>1. /\ total_cap \in Nat /\ window_cap \in Nat
        /\ <<>> \in Seq(Nat) /\ Len(<<>>) = 0
    BY ConstantsAssumption
  <2>2. Part(<<>>, 0, total_cap) = <<>> /\ Part(<<>>, 0, window_cap) = <<>>
    BY <2>1, PartStarts
  <2>3. QED
    BY <2>1, <2>2 DEF Init, BuffersInv, BuffersExact
<1>2. BuffersInv /\ [Next]_vars => BuffersInv'
  <2> SUFFICES ASSUME BuffersInv, [Next]_vars PROVE BuffersInv'
    OBVIOUS
  <2> USE DEF BuffersInv, BuffersExact
  <2>1. ASSUME NEW ns \in Samples, Add(ns) PROVE BuffersInv'
    <3>1. ns \in Nat /\ total_cap \in Nat /\ window_cap \in Nat
      BY <2>1, ConstantsAssumption DEF Add, NotNegative
    <3>2. heard' \in Seq(Nat) /\ taken' \in 0 .. Len(heard')
      BY <2>1, <3>1 DEF Add
    <3>3. total_samples' = Part(heard, 0, total_cap)' /\ window_samples' = Part(heard, taken, window_cap)'
      BY <2>1, <3>1, PartGrows DEF Add
    <3>4. QED
      BY <3>2, <3>3
  <2>2. CASE SummaryWindowAndReset
    BY <2>2, ConstantsAssumption, PartStarts DEF SummaryWindowAndReset, Swap
  <2>3. CASE SummaryTotal \/ (\E ns \in Samples : Refuse(ns)) \/ UNCHANGED vars
    BY <2>3 DEF SummaryTotal, Refuse, vars
  <2>4. QED
    BY <2>1, <2>2, <2>3 DEF Next
<1>3. QED
  BY <1>1, <1>2

\* Samples are dropped for want of room only, and no window holds a sample of
\* another one (LatencyStat::add, summary_window_and_reset).
THEOREM BuffersKeepTheFirst == Spec => []BuffersExact
<1>1. BuffersInv => BuffersExact
  BY DEF BuffersInv
<1>2. QED
  BY <1>1, BuffersInvInductive, PTL DEF Spec

----------------------------------------------------------------------------
(* Induction along a sequence. The library's theorems take the statement   *)
(* as an operator, so these take the set of the numbers it holds for, and  *)
(* the step of a recursion as a function.                                  *)

\* A set of numbers up to n that has 0 and each next one is the whole of them.
LEMMA UpTo ==
  ASSUME NEW n \in Nat, NEW K \in SUBSET (0 .. n),
         0 \in K, \A k \in K : k < n => k + 1 \in K
  PROVE  K = 0 .. n
<1> SUFFICES ASSUME (0 .. n) \ K # {} PROVE FALSE
  OBVIOUS
<1> DEFINE less == OpToRel(<, Nat)
<1>1. PICK k \in (0 .. n) \ K : \A j \in (0 .. n) \ K : <<j, k>> \notin less
  <2>1. IsWellFoundedOn(less, Nat)
    BY NatLessThanWellFounded
  <2>2. (0 .. n) \ K \subseteq Nat
    OBVIOUS
  <2> HIDE DEF less
  <2>3. QED
    BY <2>1, <2>2, WFMin
<1>2. k - 1 \in (0 .. n) \ K /\ k - 1 < k
  OBVIOUS
<1>3. <<k - 1, k>> \in less
  BY <1>2 DEF OpToRel
<1>4. QED
  BY <1>1, <1>2, <1>3

Follows(f, a, n, F) == f[0] = a /\ \A k \in 1 .. n : f[k] = F[<<f[k - 1], k>>]

\* There is a function that begins with a and that F continues.
LEMMA Recursion ==
  ASSUME NEW S, NEW a \in S, NEW n \in Nat, NEW F \in [S \X (1 .. n) -> S]
  PROVE  \E f \in [0 .. n -> S] : Follows(f, a, n, F)
<1> DEFINE K == {m \in 0 .. n : \E f \in [0 .. m -> S] : Follows(f, a, m, F)}
<1>1. 0 \in K
  <2>1. [k \in 0 .. 0 |-> a] \in [0 .. 0 -> S] /\ Follows([k \in 0 .. 0 |-> a], a, 0, F)
    BY DEF Follows
  <2>2. 0 \in 0 .. n
    OBVIOUS
  <2>3. QED
    BY <2>1, <2>2
<1>2. ASSUME NEW m \in K, m < n PROVE m + 1 \in K
  <2>1. PICK f \in [0 .. m -> S] : Follows(f, a, m, F)
    OBVIOUS
  <2> DEFINE next == F[<<f[m], m + 1>>]
             g == [k \in 0 .. m + 1 |-> IF k <= m THEN f[k] ELSE next]
  <2>2. m \in Nat /\ m + 1 \in 0 .. n /\ next \in S
    BY <1>2
  <2>3. g \in [0 .. m + 1 -> S]
    BY <2>2
  <2>4. Follows(g, a, m + 1, F)
    <3>1. g[0] = a
      BY <2>1, <2>2 DEF Follows
    <3>2. ASSUME NEW k \in 1 .. m + 1 PROVE g[k] = F[<<g[k - 1], k>>]
      <4>1. k - 1 \in 0 .. m /\ g[k - 1] = f[k - 1]
        BY <2>2
      <4>2. CASE k <= m
        BY <2>1, <2>2, <4>1, <4>2 DEF Follows
      <4>3. CASE k = m + 1
        <5>1. g[k] = next /\ k - 1 = m
          BY <2>2, <4>3
        <5>2. QED
          BY <4>1, <4>3, <5>1
      <4>4. QED
        BY <2>2, <4>2, <4>3
    <3> HIDE DEF g
    <3>3. QED
      BY <3>1, <3>2 DEF Follows
  <2> HIDE DEF g
  <2>5. QED
    BY <2>2, <2>3, <2>4
<1>3. K = 0 .. n
  <2> HIDE DEF K
  <2>1. K \in SUBSET (0 .. n)
    BY DEF K
  <2>2. QED
    BY <1>1, <1>2, <2>1, UpTo
<1>4. QED
  BY <1>3

\* The partial sums of a sequence of naturals.
LEMMA SumsSteps ==
  ASSUME NEW s \in Seq(Nat)
  PROVE  /\ Sums(s) \in [0 .. Len(s) -> Nat]
         /\ Sums(s)[0] = 0
         /\ \A k \in 1 .. Len(s) : Sums(s)[k] = Sums(s)[k - 1] + s[k]
<1> DEFINE n == Len(s)
           F == [x \in Nat \X (1 .. n) |-> x[1] + s[x[2]]]
           Sat(g) == g = [k \in 0 .. n |-> IF k = 0 THEN 0 ELSE g[k - 1] + s[k]]
<1>1. n \in Nat /\ \A k \in 1 .. n : s[k] \in Nat
  OBVIOUS
<1>2. F \in [Nat \X (1 .. n) -> Nat]
  BY <1>1
<1> HIDE DEF n
<1>3. PICK f \in [0 .. n -> Nat] : Follows(f, 0, n, F)
  <2> HIDE DEF F
  <2>1. n \in Nat
    BY <1>1
  <2>2. QED
    BY <1>2, <2>1, Recursion
<1>4. ASSUME NEW k \in 1 .. n PROVE f[k] = f[k - 1] + s[k]
  <2>1. <<f[k - 1], k>> \in Nat \X (1 .. n)
    BY <1>1
  <2>2. QED
    BY <1>3, <2>1 DEF Follows
<1>5. Sat(f)
  BY <1>3, <1>4 DEF Follows
<1>6. Sums(s) = CHOOSE g : Sat(g)
  BY DEF Sums, n
<1> DEFINE sums == Sums(s)
<1>7. Sat(sums)
  <2> HIDE DEF Sat
  <2>1. QED
    BY <1>5, <1>6
<1> HIDE DEF sums
<1>8. sums[0] = 0 /\ \A k \in 1 .. n : sums[k] = sums[k - 1] + s[k]
  <2>1. 0 \in 0 .. n /\ \A k \in 1 .. n : k \in 0 .. n /\ k # 0
    BY <1>1
  <2>2. QED
    BY <1>7, <2>1
<1>9. \A k \in 0 .. n : sums[k] \in Nat
  <2> DEFINE K == {k \in 0 .. n : sums[k] \in Nat}
  <2>1. 0 \in K
    BY <1>1, <1>8
  <2>2. ASSUME NEW k \in K, k < n PROVE k + 1 \in K
    <3>1. k + 1 \in 1 .. n /\ k + 1 \in 0 .. n /\ (k + 1) - 1 = k
      BY <1>1, <2>2
    <3>2. sums[k + 1] = sums[k] + s[k + 1] /\ s[k + 1] \in Nat /\ sums[k] \in Nat
      BY <1>1, <1>8, <3>1
    <3>3. QED
      BY <3>1, <3>2
  <2>3. K = 0 .. n
    <3> HIDE DEF K
    <3>1. K \in SUBSET (0 .. n)
      BY DEF K
    <3>2. QED
      BY <1>1, <2>1, <2>2, <3>1, UpTo
  <2>4. QED
    BY <2>3
<1>10. sums \in [0 .. n -> Nat]
  BY <1>7, <1>9
<1>11. QED
  BY <1>8, <1>10 DEF sums, n

----------------------------------------------------------------------------
(* The mean and the variance.                                              *)

\* What is divisible by n is n times a natural.
LEMMA Divisible ==
  ASSUME NEW n \in Nat \ {0}, NEW a \in Nat, a % n = 0
  PROVE  \E q \in Nat : a = n * q
<1>1. a = n * (a \div n) + (a % n)
  OBVIOUS
<1>2. a \div n \in Nat
  OBVIOUS
<1>3. QED
  BY <1>1, <1>2

\* A mean a of n - 1 values becomes b with the n-th, x: how far b is from a,
\* and what the product of the two deviations comes to.
Moved(n, a, b, x) ==
  /\ (x - a) \div n = b - a
  /\ (x - a) * (x - b) = x * x - n * (b * b) + (n - 1) * (a * a)
  /\ (x - a) * (x - b) \in Nat

\* That is so whenever x is what the new mean takes.
LEMMA MeanMoves ==
  ASSUME NEW n \in Nat \ {0}, NEW a \in Int, NEW b \in Int, NEW x \in Int,
         x = n * b - (n - 1) * a
  PROVE  Moved(n, a, b, x)
<1>1. x - a = n * (b - a) /\ x - b = (n - 1) * (b - a)
  OBVIOUS
<1>2. \A d \in Int : (n * d) \div n = d
  OBVIOUS
<1>3. (x - a) * (x - b) = (n * (n - 1)) * ((b - a) * (b - a))
  BY <1>1
<1>4. x * x = (n * b - (n - 1) * a) * (n * b - (n - 1) * a)
  OBVIOUS
<1>5. (n * (n - 1)) * ((b - a) * (b - a))
        = (n * b - (n - 1) * a) * (n * b - (n - 1) * a) - n * (b * b) + (n - 1) * (a * a)
  OBVIOUS
<1>6. (n * (n - 1)) * ((b - a) * (b - a)) \in Nat
  <2>1. n * (n - 1) \in Nat /\ (b - a) * (b - a) \in Nat
    OBVIOUS
  <2>2. \A y, z \in Nat : y * z \in Nat
    OBVIOUS
  <2>3. QED
    BY <2>1, <2>2
<1>7. QED
  BY <1>1, <1>2, <1>3, <1>4, <1>5, <1>6 DEF Moved

\* What a pass holds.
Running == [n : Nat, mn : Nat, mx : Nat, mean : Int, m2 : Int]

\* The pass over a sequence of naturals, one sample after another.
LEMMA WelfordSteps ==
  ASSUME NEW s \in Seq(Nat), s # <<>>
  PROVE  LET w == Welford(s) IN
         /\ w[0] = [n |-> 0, mn |-> s[1], mx |-> s[1], mean |-> 0, m2 |-> 0]
         /\ \A k \in 1 .. Len(s) : w[k] = Pass(w[k - 1], s[k])
<1> DEFINE n == Len(s)
           a == [n |-> 0, mn |-> Head(s), mx |-> Head(s), mean |-> 0, m2 |-> 0]
           F == [x \in Running \X (1 .. n) |-> Pass(x[1], s[x[2]])]
           Sat(g) == g = [k \in 0 .. n |-> IF k = 0 THEN a ELSE Pass(g[k - 1], s[k])]
<1>1. /\ n \in Nat /\ \A k \in 1 .. n : s[k] \in Nat
      /\ Head(s) = s[1] /\ Head(s) \in Nat
  OBVIOUS
<1>2. a \in Running
  BY <1>1 DEF Running
<1>3. ASSUME NEW x \in Running, NEW v \in Nat PROVE Pass(x, v) \in Running
  <2> DEFINE m     == x.n + 1
             delta == Scale * v - x.mean
             mean  == x.mean + delta \div m
  <2>1. m \in Nat \ {0} /\ x.mean \in Int /\ x.m2 \in Int /\ Scale \in Int
        /\ x.mn \in Nat /\ x.mx \in Nat
    BY ConstantsAssumption DEF Running
  <2>2. delta \in Int
    BY <2>1
  <2>3. mean \in Int
    <3> HIDE DEF m, delta
    <3>1. delta \div m \in Int
      BY <2>1, <2>2
    <3>2. QED
      BY <2>1, <3>1
  <2>4. delta * (Scale * v - mean) \in Int
    <3> HIDE DEF delta, mean
    <3>1. QED
      BY <2>1, <2>2, <2>3
  <2>5. Pass(x, v) = [n    |-> m,
                      mn   |-> IF v < x.mn THEN v ELSE x.mn,
                      mx   |-> IF v > x.mx THEN v ELSE x.mx,
                      mean |-> mean,
                      m2   |-> x.m2 + delta * (Scale * v - mean)]
    BY DEF Pass
  <2> HIDE DEF m, mean, delta
  <2>6. QED
    BY <2>1, <2>2, <2>3, <2>4, <2>5 DEF Running
<1>4. F \in [Running \X (1 .. n) -> Running]
  BY <1>1, <1>3
<1>5. PICK f \in [0 .. n -> Running] : Follows(f, a, n, F)
  <2> HIDE DEF F, a, n
  <2>1. QED
    BY <1>1, <1>2, <1>4, Recursion
<1>6. ASSUME NEW k \in 1 .. n PROVE f[k] = Pass(f[k - 1], s[k])
  <2>1. k - 1 \in 0 .. n
    BY <1>1
  <2>2. f[k - 1] \in Running
    BY <2>1
  <2>3. f[k] = F[<<f[k - 1], k>>]
    BY <1>5 DEF Follows
  <2>4. QED
    BY <2>2, <2>3
<1> HIDE DEF F, n
<1>7. Sat(f)
  <2> HIDE DEF a
  <2>1. QED
    BY <1>1, <1>5, <1>6 DEF Follows
<1>8. Welford(s) = CHOOSE g : Sat(g)
  BY DEF Welford, n
<1> DEFINE w == Welford(s)
<1>9. Sat(w)
  <2> HIDE DEF Sat
  <2>1. QED
    BY <1>7, <1>8
<1> HIDE DEF w
<1>10. w[0] = a /\ \A k \in 1 .. n : w[k] = Pass(w[k - 1], s[k])
  <2> HIDE DEF a
  <2>1. 0 \in 0 .. n /\ \A k \in 1 .. n : k \in 0 .. n /\ k # 0
    BY <1>1
  <2>2. QED
    BY <1>9, <2>1
<1>11. QED
  BY <1>1, <1>10 DEF w, n

\* Every number of samples up to that of s divides Scale.
Fits(s) == \A n \in 1 .. Len(s) : Scale % n = 0

\* What the pass holds after k samples: the mean and the sum of squares are
\* those of the samples so far.
Moments(s, k) ==
  LET w == Welford(s)[k] IN
  /\ w.n = k /\ w.mean \in Nat /\ w.m2 \in Nat
  /\ k * w.mean = Scale * Sums(s)[k]
  /\ w.m2 = (Scale * Scale) * Sums(Squares(s))[k] - k * (w.mean * w.mean)

\* One more sample keeps the mean and the sum of squares right.
LEMMA MomentsStep ==
  ASSUME NEW s \in Seq(Nat), s # <<>>, Fits(s),
         NEW k \in 0 .. Len(s), k < Len(s), Moments(s, k)
  PROVE  Moments(s, k + 1)
<1> DEFINE n  == k + 1
           v  == s[n]
           w  == Welford(s)[k]
           a  == w.mean
           x  == Scale * v
           S  == Sums(s)[k]
           Q  == Sums(Squares(s))[k]
           z  == Welford(s)[n]
           SS == Scale * Scale
<1>1. n \in 1 .. Len(s) /\ n \in Nat \ {0} /\ v \in Nat /\ n - 1 = k /\ k \in Nat
  OBVIOUS
<1>2. Scale \in Nat /\ SS \in Nat /\ x \in Nat /\ a \in Nat /\ w.m2 \in Nat
  <2>1. Scale \in Nat /\ a \in Nat /\ w.m2 \in Nat
    BY ConstantsAssumption DEF Moments
  <2>2. \A c, d \in Nat : c * d \in Nat
    OBVIOUS
  <2>3. QED
    BY <1>1, <2>1, <2>2
<1>3. S \in Nat /\ Sums(s)[n] = S + v
  <2>1. Sums(s) \in [0 .. Len(s) -> Nat] /\ Sums(s)[n] = Sums(s)[n - 1] + s[n]
    BY <1>1, SumsSteps
  <2>2. QED
    BY <1>1, <2>1
<1>4. Q \in Nat /\ Sums(Squares(s))[n] = Q + v * v
  <2>1. Squares(s) \in Seq(Nat) /\ Len(Squares(s)) = Len(s) /\ Squares(s)[n] = v * v
    <3>1. \A i \in 1 .. Len(s) : s[i] * s[i] \in Nat
      <4>1. \A c, d \in Nat : c * d \in Nat
        OBVIOUS
      <4>2. \A i \in 1 .. Len(s) : s[i] \in Nat
        OBVIOUS
      <4>3. QED
        BY <4>1, <4>2
    <3>2. Squares(s) = [i \in 1 .. Len(s) |-> s[i] * s[i]] /\ Len(s) \in Nat
      BY DEF Squares
    <3>3. QED
      BY <1>1, <3>1, <3>2
  <2>2. /\ Sums(Squares(s)) \in [0 .. Len(s) -> Nat]
        /\ Sums(Squares(s))[n] = Sums(Squares(s))[n - 1] + v * v
    <3> HIDE DEF v, n
    <3>1. QED
      BY <1>1, <2>1, SumsSteps
  <2>3. QED
    BY <1>1, <2>2
<1>5. PICK q \in Nat : Scale = n * q
  <2>1. Scale % n = 0
    BY <1>1 DEF Fits
  <2> HIDE DEF n
  <2>2. QED
    BY <1>1, <1>2, <2>1, Divisible
<1> DEFINE b == q * (S + v)
<1>6. z.n = w.n + 1 /\ z.mean = a + (x - a) \div (w.n + 1)
      /\ z.m2 = w.m2 + (x - a) * (x - z.mean)
  <2>1. z = Pass(w, v)
    BY <1>1, WelfordSteps
  <2> HIDE DEF z, w, v
  <2>2. QED
    BY <2>1 DEF Pass
<1>7. w.n = k /\ k * a = Scale * S /\ w.m2 = SS * Q - k * (a * a)
  BY DEF Moments
<1> HIDE DEF n, v, w, a, x, S, Q, z
<1>8. b \in Nat /\ n * b = Scale * (S + v)
  <2>1. S + v \in Nat
    BY <1>1, <1>3
  <2>2. \A c, d \in Nat : c * d \in Nat
    OBVIOUS
  <2>3. \A c, d, e \in Nat : c * (d * e) = (c * d) * e
    OBVIOUS
  <2>4. n \in Nat
    BY <1>1
  <2>5. n * b = (n * q) * (S + v)
    BY <1>5, <2>1, <2>3, <2>4
  <2>6. QED
    BY <1>5, <2>1, <2>2, <2>5
<1> HIDE DEF b, SS
<1>9. x = n * b - (n - 1) * a
  <2>1. Scale * (S + v) = Scale * S + Scale * v
    BY <1>1, <1>2, <1>3
  <2>2. (n - 1) * a = Scale * S
    BY <1>1, <1>7
  <2>3. n * b \in Int /\ Scale * S \in Int /\ x = Scale * v
    BY <1>1, <1>2, <1>3, <1>8 DEF x
  <2>4. QED
    BY <1>2, <1>8, <2>1, <2>2, <2>3
<1>10. /\ (x - a) \div n = b - a
       /\ (x - a) * (x - b) = x * x - n * (b * b) + (n - 1) * (a * a)
       /\ (x - a) * (x - b) \in Nat
  <2>1. n \in Nat \ {0} /\ a \in Int /\ b \in Int /\ x \in Int
    BY <1>1, <1>2, <1>8
  <2>2. Moved(n, a, b, x)
    BY <1>9, <2>1, MeanMoves
  <2>3. QED
    BY <2>2 DEF Moved
<1>11. z.n = n /\ z.mean = b
  <2>1. z.n = n /\ z.mean = a + (b - a)
    BY <1>1, <1>6, <1>7, <1>10 DEF n
  <2>2. QED
    BY <1>2, <1>8, <2>1
<1>12. z.m2 = w.m2 + (x - a) * (x - b)
  BY <1>6, <1>11
<1>13. z.m2 \in Nat
  BY <1>2, <1>10, <1>12
<1>14. z.m2 = SS * (Q + v * v) - n * (b * b)
  <2>1. x * x = SS * (v * v)
    BY <1>1, <1>2 DEF x, SS
  <2>2. SS * (Q + v * v) = SS * Q + SS * (v * v)
    BY <1>1, <1>2, <1>4
  <2>3. SS * Q \in Int /\ SS * (v * v) \in Int /\ n * (b * b) \in Int /\ k * (a * a) \in Int
    BY <1>1, <1>2, <1>4, <1>8
  <2>4. z.m2 = (SS * Q - k * (a * a)) + (SS * (v * v) - n * (b * b) + k * (a * a))
    BY <1>1, <1>7, <1>10, <1>12, <2>1
  <2>5. QED
    BY <2>2, <2>3, <2>4
<1>15. QED
  BY <1>3, <1>4, <1>8, <1>11, <1>13, <1>14 DEF Moments, z, n, S, Q, SS

\* The pass ends with the mean and the sum of squares of the samples.
LEMMA MomentsAlways ==
  ASSUME NEW s \in Seq(Nat), s # <<>>, Fits(s)
  PROVE  \A k \in 0 .. Len(s) : Moments(s, k)
<1> DEFINE K == {k \in 0 .. Len(s) : Moments(s, k)}
<1>1. 0 \in K
  <2>1. Welford(s)[0] = [n |-> 0, mn |-> s[1], mx |-> s[1], mean |-> 0, m2 |-> 0]
    BY WelfordSteps
  <2>2. Sums(s)[0] = 0 /\ Sums(Squares(s))[0] = 0
    <3>1. Squares(s) \in Seq(Nat)
      <4>1. \A c, d \in Nat : c * d \in Nat
        OBVIOUS
      <4>2. \A i \in 1 .. Len(s) : s[i] * s[i] \in Nat
        <5>1. \A i \in 1 .. Len(s) : s[i] \in Nat
          OBVIOUS
        <5>2. QED
          BY <4>1, <5>1
      <4>3. Squares(s) = [i \in 1 .. Len(s) |-> s[i] * s[i]]
        BY DEF Squares
      <4>4. QED
        BY <4>2, <4>3
    <3>2. QED
      BY <3>1, SumsSteps
  <2>3. Scale * 0 = 0 /\ (Scale * Scale) * 0 = 0
    BY ConstantsAssumption
  <2>4. Moments(s, 0)
    BY <2>1, <2>2, <2>3 DEF Moments
  <2>5. QED
    BY <2>4
<1>2. ASSUME NEW k \in K, k < Len(s) PROVE k + 1 \in K
  <2>1. Moments(s, k + 1) /\ k + 1 \in 0 .. Len(s)
    BY <1>2, MomentsStep
  <2>2. QED
    BY <2>1
<1>3. K = 0 .. Len(s)
  <2> HIDE DEF K
  <2>1. K \in SUBSET (0 .. Len(s)) /\ Len(s) \in Nat
    BY DEF K
  <2>2. QED
    BY <1>1, <1>2, <2>1, UpTo
<1>4. QED
  BY <1>3

\* The least and the greatest of the samples so far are samples.
Extremes(s, k) ==
  LET w == Welford(s)[k] IN
  /\ w.mn \in Nat /\ w.mx \in Nat
  /\ \E i \in 1 .. Len(s) : w.mn = s[i]
  /\ \E i \in 1 .. Len(s) : w.mx = s[i]
  /\ \A i \in 1 .. k : w.mn <= s[i] /\ s[i] <= w.mx

\* The pass ends with the least and the greatest sample.
LEMMA ExtremesAlways ==
  ASSUME NEW s \in Seq(Nat), s # <<>>
  PROVE  \A k \in 0 .. Len(s) : Extremes(s, k)
<1> DEFINE K == {k \in 0 .. Len(s) : Extremes(s, k)}
<1>1. 0 \in K
  <2>1. Welford(s)[0] = [n |-> 0, mn |-> s[1], mx |-> s[1], mean |-> 0, m2 |-> 0]
    BY WelfordSteps
  <2>2. 1 \in 1 .. Len(s) /\ s[1] \in Nat /\ 0 \in 0 .. Len(s)
    OBVIOUS
  <2>3. Extremes(s, 0)
    BY <2>1, <2>2 DEF Extremes
  <2>4. QED
    BY <2>2, <2>3
<1>2. ASSUME NEW k \in K, k < Len(s) PROVE k + 1 \in K
  <2> DEFINE n == k + 1
             w == Welford(s)[k]
             z == Welford(s)[n]
  <2>1. n \in 1 .. Len(s) /\ n - 1 = k /\ s[n] \in Nat /\ k \in Nat
    BY <1>2
  <2>2. z = Pass(w, s[n])
    <3>1. \A j \in 1 .. Len(s) : Welford(s)[j] = Pass(Welford(s)[j - 1], s[j])
      BY WelfordSteps
    <3>2. QED
      BY <2>1, <3>1
  <2>3. Extremes(s, k)
    OBVIOUS
  <2>4. /\ z.mn = IF s[n] < w.mn THEN s[n] ELSE w.mn
        /\ z.mx = IF s[n] > w.mx THEN s[n] ELSE w.mx
    <3> HIDE DEF z, w, n
    <3>1. QED
      BY <2>2 DEF Pass
  <2>5. /\ w.mn \in Nat /\ w.mx \in Nat
        /\ \E i \in 1 .. Len(s) : w.mn = s[i]
        /\ \E i \in 1 .. Len(s) : w.mx = s[i]
        /\ \A i \in 1 .. k : w.mn <= s[i] /\ s[i] <= w.mx
    BY <2>3 DEF Extremes
  <2> HIDE DEF z, w
  <2>6. \A i \in 1 .. n : z.mn <= s[i] /\ s[i] <= z.mx
    <3>1. \A i \in 1 .. n : i \in 1 .. k \/ i = n
      BY <2>1
    <3>2. \A i \in 1 .. k : s[i] \in Nat
      BY <2>1
    <3> HIDE DEF n
    <3>3. /\ w.mn \in Nat /\ w.mx \in Nat /\ s[n] \in Nat
          /\ \A i \in 1 .. k : w.mn <= s[i] /\ s[i] <= w.mx
      BY <2>1, <2>5
    <3>4. /\ z.mn <= s[n] /\ s[n] <= z.mx
          /\ z.mn <= w.mn /\ w.mx <= z.mx /\ z.mn \in Nat /\ z.mx \in Nat
      <4>1. w.mn \in Nat /\ w.mx \in Nat /\ s[n] \in Nat
        BY <3>3
      <4>2. QED
        BY <2>4, <4>1
    <3>5. ASSUME NEW i \in 1 .. k PROVE z.mn <= s[i] /\ s[i] <= z.mx
      <4>1. w.mn <= s[i] /\ s[i] <= w.mx /\ s[i] \in Nat /\ w.mn \in Nat /\ w.mx \in Nat
        BY <3>2, <3>3
      <4>2. z.mn <= w.mn /\ w.mx <= z.mx /\ z.mn \in Nat /\ z.mx \in Nat
        BY <3>4
      <4>3. QED
        BY <4>1, <4>2
    <3>6. QED
      BY <3>1, <3>4, <3>5
  <2> HIDE DEF n
  <2>7. Extremes(s, n)
    BY <2>1, <2>4, <2>5, <2>6 DEF Extremes, z
  <2>8. n \in 0 .. Len(s)
    BY <2>1
  <2>9. QED
    BY <2>7, <2>8 DEF n
<1>3. K = 0 .. Len(s)
  <2> HIDE DEF K
  <2>1. K \in SUBSET (0 .. Len(s)) /\ Len(s) \in Nat
    BY DEF K
  <2>2. QED
    BY <1>1, <1>2, <2>1, UpTo
<1>4. QED
  BY <1>3

----------------------------------------------------------------------------
(* The sort, and what an index into it finds.                              *)

\* Those of the samples that come no later than sample j.
Upto(s, j) ==
  {k \in DOMAIN s : s[k] < s[j] \/ (s[k] = s[j] /\ k <= j)}

\* Places are those of a sequence, and a later sample has a greater one.
LEMMA Places ==
  ASSUME NEW s \in Seq(Nat)
  PROVE  /\ \A j \in 1 .. Len(s) : Place(s, j) \in 1 .. Len(s)
         /\ \A i, j \in 1 .. Len(s) :
              s[i] < s[j] \/ (s[i] = s[j] /\ i < j) => Place(s, i) < Place(s, j)
<1> DEFINE D == 1 .. Len(s)
<1>1. IsFiniteSet(D) /\ Cardinality(D) = Len(s) /\ Len(s) \in Nat
  <2>1. Len(s) \in Nat /\ Len(s) - 1 + 1 = Len(s)
    OBVIOUS
  <2>2. IsFiniteSet(D) /\ Cardinality(D) = IF 1 > Len(s) THEN 0 ELSE Len(s) - 1 + 1
    BY <2>1, FS_Interval
  <2>3. QED
    BY <2>1, <2>2
<1>2. \A j \in D : s[j] \in Nat /\ j \in Nat
  OBVIOUS
<1>3. D = DOMAIN s
  OBVIOUS
<1>4. \A j \in D : Place(s, j) = Cardinality(Upto(s, j)) /\ Upto(s, j) \in SUBSET D
  BY <1>3 DEF Place, Upto
<1> HIDE DEF D
<1>5. \A j \in D : /\ IsFiniteSet(Upto(s, j)) /\ Place(s, j) \in Nat
                   /\ Place(s, j) <= Len(s)
  BY <1>1, <1>4, FS_Subset, FS_CardinalityType
<1>6. \A j \in D : j \in Upto(s, j)
  BY <1>2, <1>3 DEF Upto
<1>7. ASSUME NEW j \in D PROVE Place(s, j) # 0
  <2>1. Cardinality(Upto(s, j)) = 0 <=> Upto(s, j) = {}
    BY <1>5, FS_EmptySet
  <2>2. QED
    BY <1>4, <1>6, <2>1
<1>8. ASSUME NEW i \in D, NEW j \in D, s[i] < s[j] \/ (s[i] = s[j] /\ i < j)
      PROVE  Place(s, i) < Place(s, j)
  <2>1. j \notin Upto(s, i)
    BY <1>2, <1>8 DEF Upto
  <2>2. Upto(s, i) \in SUBSET Upto(s, j)
    BY <1>2, <1>3, <1>8 DEF Upto
  <2>3. Cardinality(Upto(s, i)) <= Cardinality(Upto(s, j))
        /\ Cardinality(Upto(s, i)) # Cardinality(Upto(s, j))
    BY <1>5, <1>6, <2>1, <2>2, FS_Subset
  <2>4. QED
    BY <1>4, <1>5, <2>3
<1>9. QED
  BY <1>1, <1>5, <1>7, <1>8 DEF D

\* Each place is taken by one sample.
LEMMA PlacesTaken ==
  ASSUME NEW s \in Seq(Nat), NEW k \in 1 .. Len(s)
  PROVE  \E j \in 1 .. Len(s) : Place(s, j) = k
<1> DEFINE D == 1 .. Len(s)
           f == [j \in D |-> Place(s, j)]
<1>1. f \in [D -> D]
  BY Places
<1>2. ASSUME NEW i \in D, NEW j \in D, i # j PROVE f[i] # f[j]
  <2>1. \/ s[i] < s[j] \/ (s[i] = s[j] /\ i < j)
        \/ s[j] < s[i] \/ (s[j] = s[i] /\ j < i)
    <3>1. s[i] \in Nat /\ s[j] \in Nat /\ i \in Nat /\ j \in Nat
      OBVIOUS
    <3>2. QED
      BY <1>2, <3>1
  <2>2. Place(s, i) \in D /\ Place(s, j) \in D
    BY Places
  <2>3. Place(s, i) < Place(s, j) \/ Place(s, j) < Place(s, i)
    BY <2>1, Places
  <2>4. QED
    BY <2>2, <2>3
<1>3. IsFiniteSet(D)
  <2>1. Len(s) \in Int /\ 1 \in Int
    OBVIOUS
  <2>2. QED
    BY <2>1, FS_Interval
<1>4. f \in Injection(D, D)
  <2> HIDE DEF f, D
  <2>1. QED
    BY <1>1, <1>2, Fun_IsInj
<1>5. f \in Surjection(D, D)
  <2> HIDE DEF f, D
  <2>1. QED
    BY <1>3, <1>4, FS_Injection
<1>6. \E j \in D : f[j] = k
  <2> HIDE DEF f
  <2>1. QED
    BY <1>5 DEF Surjection
<1>7. QED
  BY <1>6

\* The sort puts at each place the sample whose place it is, in order.
LEMMA SortedPlaces ==
  ASSUME NEW s \in Seq(Nat)
  PROVE  /\ Sorted(s) \in Seq(Nat) /\ Len(Sorted(s)) = Len(s)
         /\ \A k \in 1 .. Len(s) :
              \E j \in 1 .. Len(s) : Place(s, j) = k /\ Sorted(s)[k] = s[j]
         /\ \A k, l \in 1 .. Len(s) : k <= l => Sorted(s)[k] <= Sorted(s)[l]
<1> DEFINE D == DOMAIN s
           at(k) == CHOOSE j \in D : Place(s, j) = k
<1>1. D = 1 .. Len(s) /\ Len(s) \in Nat /\ \A j \in D : s[j] \in Nat /\ j \in Nat
  OBVIOUS
<1>2. \A k \in D : at(k) \in D /\ Place(s, at(k)) = k
  <2>1. \A k \in D : \E j \in D : Place(s, j) = k
    BY <1>1, PlacesTaken
  <2> HIDE DEF D
  <2>2. QED
    BY <2>1
<1>3. Sorted(s) = [k \in D |-> s[at(k)]]
  BY DEF Sorted
<1> HIDE DEF at, D
<1>4. /\ Sorted(s) \in Seq(Nat) /\ Len(Sorted(s)) = Len(s)
      /\ \A k \in D : Sorted(s)[k] = s[at(k)]
  BY <1>1, <1>2, <1>3
<1>5. ASSUME NEW k \in D, NEW l \in D, k <= l PROVE Sorted(s)[k] <= Sorted(s)[l]
  <2>1. at(k) \in D /\ at(l) \in D /\ Place(s, at(k)) = k /\ Place(s, at(l)) = l
    BY <1>2
  <2>2. ASSUME s[at(l)] < s[at(k)] PROVE FALSE
    <3>1. Place(s, at(l)) < Place(s, at(k))
      BY <1>1, <2>1, <2>2, Places
    <3>2. QED
      BY <1>1, <1>5, <2>1, <3>1
  <2>3. s[at(k)] \in Nat /\ s[at(l)] \in Nat
    BY <1>1, <2>1
  <2>4. QED
    BY <1>4, <2>2, <2>3
<1>6. QED
  BY <1>1, <1>2, <1>4, <1>5

\* The sample at a place has the rank of that place.
LEMMA PlaceIsRank ==
  ASSUME NEW s \in Seq(Nat), NEW j \in 1 .. Len(s)
  PROVE  HasRank(s, s[j], Place(s, j) - 1)
<1> DEFINE D     == 1 .. Len(s)
           below == {i \in D : s[i] < s[j]}
           upto  == {i \in D : s[i] <= s[j]}
           U     == Upto(s, j)
<1>1. D = DOMAIN s /\ j \in D /\ \A i \in D : s[i] \in Nat /\ i \in Nat
  OBVIOUS
<1>2. IsFiniteSet(D)
  <2>1. Len(s) \in Int /\ 1 \in Int
    OBVIOUS
  <2>2. QED
    BY <2>1, FS_Interval
<1>3. below \in SUBSET D /\ upto \in SUBSET D /\ U \in SUBSET D
  BY <1>1 DEF Upto
<1>4. below \in SUBSET (U \ {j}) /\ U \in SUBSET upto /\ j \in U
  BY <1>1 DEF Upto
<1>5. Place(s, j) = Cardinality(U)
  BY DEF Place, Upto
<1>6. HasRank(s, s[j], Place(s, j) - 1)
        <=> Cardinality(below) <= Place(s, j) - 1 /\ Place(s, j) - 1 < Cardinality(upto)
  BY <1>1 DEF HasRank
<1> HIDE DEF D, below, upto, U
<1>7. IsFiniteSet(upto) /\ IsFiniteSet(U) /\ IsFiniteSet(below)
  BY <1>2, <1>3, FS_Subset
<1>8. IsFiniteSet(U \ {j}) /\ Cardinality(U \ {j}) = Cardinality(U) - 1
  BY <1>4, <1>7, FS_RemoveElement
<1>9. Cardinality(below) <= Cardinality(U) - 1
  BY <1>4, <1>8, FS_Subset
<1>10. Cardinality(U) <= Cardinality(upto) /\ Cardinality(U) \in Nat /\ Cardinality(upto) \in Nat
  BY <1>4, <1>7, FS_Subset, FS_CardinalityType
<1>11. QED
  BY <1>5, <1>6, <1>9, <1>10

\* The least sample has rank 0, the greatest the last rank.
LEMMA ExtremesAreRanks ==
  ASSUME NEW s \in Seq(Nat), NEW v \in Nat, \E i \in 1 .. Len(s) : v = s[i]
  PROVE  /\ (\A i \in 1 .. Len(s) : v <= s[i]) => HasRank(s, v, 0)
         /\ (\A i \in 1 .. Len(s) : s[i] <= v) => HasRank(s, v, Len(s) - 1)
<1> DEFINE D     == 1 .. Len(s)
           below == {i \in D : s[i] < v}
           upto  == {i \in D : s[i] <= v}
<1>1. D = DOMAIN s /\ Len(s) \in Nat /\ \A i \in D : s[i] \in Nat /\ i \in Nat
  OBVIOUS
<1>2. PICK j \in D : v = s[j]
  OBVIOUS
<1>3. IsFiniteSet(D) /\ Cardinality(D) = Len(s)
  <2>1. Len(s) \in Int /\ 1 \in Int /\ Len(s) - 1 + 1 = Len(s) /\ ~(1 > Len(s))
    BY <1>1, <1>2
  <2>2. IsFiniteSet(D) /\ Cardinality(D) = IF 1 > Len(s) THEN 0 ELSE Len(s) - 1 + 1
    BY <2>1, FS_Interval
  <2>3. QED
    BY <2>1, <2>2
<1>4. \A k : HasRank(s, v, k) <=> Cardinality(below) <= k /\ k < Cardinality(upto)
  BY <1>1 DEF HasRank
<1>5. /\ below \in SUBSET (D \ {j}) /\ j \in upto /\ upto \in SUBSET D
      /\ (\A i \in D : v <= s[i]) => below = {}
      /\ (\A i \in D : s[i] <= v) => upto = D
  BY <1>1, <1>2
<1> HIDE DEF below, upto, D
<1>6. IsFiniteSet(upto) /\ Cardinality(upto) \in Nat /\ Cardinality(upto) # 0
  <2>1. IsFiniteSet(upto)
    BY <1>3, <1>5, FS_Subset
  <2>2. Cardinality(upto) = 0 <=> upto = {}
    BY <2>1, FS_EmptySet
  <2>3. QED
    BY <1>5, <2>1, <2>2, FS_CardinalityType
<1>7. IsFiniteSet(D \ {j}) /\ Cardinality(D \ {j}) = Len(s) - 1
  BY <1>2, <1>3, FS_RemoveElement
<1>8. Cardinality(below) <= Len(s) - 1
  BY <1>5, <1>7, FS_Subset
<1>9. ASSUME \A i \in D : v <= s[i] PROVE HasRank(s, v, 0)
  <2>1. Cardinality(below) = 0
    BY <1>5, <1>9, FS_EmptySet
  <2>2. QED
    BY <1>4, <1>6, <2>1
<1>10. ASSUME \A i \in D : s[i] <= v PROVE HasRank(s, v, Len(s) - 1)
  <2>1. Cardinality(upto) = Len(s)
    BY <1>3, <1>5, <1>10
  <2>2. QED
    BY <1>1, <1>4, <1>8, <2>1
<1>11. QED
  BY <1>9, <1>10 DEF D

----------------------------------------------------------------------------
(* The percentiles.                                                        *)

\* However many samples there are, the index of a percentile is in the buffer,
\* is the nearest to p * (n - 1), and grows with p (pct_sorted): its clamp to
\* the last sample is never needed.
THEOREM IndexNearest ==
  ASSUME NEW n \in Nat \ {0}
  PROVE  /\ \A p \in Percentiles :
              /\ Index(p, n) \in 1 .. n
              /\ 1000 * (Index(p, n) - 1) - p * (n - 1) \in -500 .. 500
         /\ \A p, q \in Percentiles : p < q => Index(p, n) <= Index(q, n)
<1>1. /\ Index(500, n) = (1000 * (n - 1) + 1000) \div 2000 + 1
      /\ Index(900, n) = (1800 * (n - 1) + 1000) \div 2000 + 1
      /\ Index(950, n) = (1900 * (n - 1) + 1000) \div 2000 + 1
      /\ Index(990, n) = (1980 * (n - 1) + 1000) \div 2000 + 1
      /\ Index(999, n) = (1998 * (n - 1) + 1000) \div 2000 + 1
  BY DEF Index
<1>2. /\ 1 <= Index(500, n) /\ Index(500, n) <= Index(900, n)
      /\ Index(900, n) <= Index(950, n) /\ Index(950, n) <= Index(990, n)
      /\ Index(990, n) <= Index(999, n) /\ Index(999, n) <= n
  BY <1>1
<1> DEFINE Near(p) == Index(p, n) \in Int
                       /\ 1000 * (Index(p, n) - 1) - p * (n - 1) \in -500 .. 500
<1>3. Near(500) /\ Near(900) /\ Near(950) /\ Near(990) /\ Near(999)
  <2>1. Near(500)
    BY <1>1
  <2>2. Near(900)
    BY <1>1
  <2>3. Near(950)
    BY <1>1, SMTT(30)
  <2>4. Near(990)
    BY <1>1, SMTT(30)
  <2>5. Near(999)
    BY <1>1, SMTT(30)
  <2> HIDE DEF Near
  <2>6. QED
    BY <2>1, <2>2, <2>3, <2>4, <2>5
<1>4. /\ Index(500, n) \in Int /\ Index(900, n) \in Int /\ Index(950, n) \in Int
      /\ Index(990, n) \in Int /\ Index(999, n) \in Int
  BY DEF Index
<1>5. ASSUME NEW p \in Percentiles PROVE Index(p, n) \in 1 .. n
  <2>1. p = 500 \/ p = 900 \/ p = 950 \/ p = 990 \/ p = 999
    BY DEF Percentiles
  <2>2. Index(500, n) \in 1 .. n /\ Index(900, n) \in 1 .. n /\ Index(950, n) \in 1 .. n
        /\ Index(990, n) \in 1 .. n /\ Index(999, n) \in 1 .. n
    BY <1>2, <1>4
  <2>3. QED
    BY <2>1, <2>2
<1>6. ASSUME NEW p \in Percentiles, NEW q \in Percentiles, p < q
      PROVE  Index(p, n) <= Index(q, n)
  <2>1. \/ p = 500 /\ q \in {900, 950, 990, 999}
        \/ p = 900 /\ q \in {950, 990, 999}
        \/ p = 950 /\ q \in {990, 999}
        \/ p = 990 /\ q = 999
    BY <1>6 DEF Percentiles
  <2>2. \A r \in {900, 950, 990, 999} : Index(500, n) <= Index(r, n)
    BY <1>2, <1>4
  <2>3. \A r \in {950, 990, 999} : Index(900, n) <= Index(r, n)
    BY <1>2, <1>4
  <2>4. \A r \in {990, 999} : Index(950, n) <= Index(r, n)
    BY <1>2, <1>4
  <2>5. QED
    BY <1>2, <2>1, <2>2, <2>3, <2>4
<1>7. \A p \in Percentiles : Near(p)
  <2> HIDE DEF Near
  <2>1. QED
    BY <1>3 DEF Percentiles
<1>8. QED
  BY <1>5, <1>6, <1>7

----------------------------------------------------------------------------
(* The summary.                                                            *)

\* The fields of a summary of samples, one by one.
LEMMA SummaryFields ==
  ASSUME NEW s \in Seq(Nat), s # <<>>
  PROVE  LET c == ComputeSummary(s)
             w == Welford(s)[Len(s)]
         IN  /\ c = [count |-> Len(s), min |-> w.mn, max |-> w.mx, mean |-> w.mean,
                     m2  |-> IF w.n > 1 THEN w.m2 ELSE 0,
                     pct |-> [p \in Percentiles |-> PctSorted(Sorted(s), p)]]
             /\ c.count = Len(s) /\ c.min = w.mn /\ c.max = w.mx /\ c.mean = w.mean
             /\ c.m2 = IF w.n > 1 THEN w.m2 ELSE 0
             /\ \A p \in Percentiles : c.pct[p] = PctSorted(Sorted(s), p)
<1> DEFINE c == ComputeSummary(s)
           w == Welford(s)[Len(s)]
           d == [count |-> Len(s), min |-> w.mn, max |-> w.mx, mean |-> w.mean,
                 m2  |-> IF w.n > 1 THEN w.m2 ELSE 0,
                 pct |-> [p \in Percentiles |-> PctSorted(Sorted(s), p)]]
<1>1. c = d
  BY DEF ComputeSummary
<1>2. /\ d.count = Len(s) /\ d.min = w.mn /\ d.max = w.mx /\ d.mean = w.mean
      /\ d.m2 = IF w.n > 1 THEN w.m2 ELSE 0
      /\ \A p \in Percentiles : d.pct[p] = PctSorted(Sorted(s), p)
  OBVIOUS
<1> HIDE DEF c
<1>3. QED
  BY <1>1, <1>2 DEF c

\* A percentile is a sample of the nearest rank, and they are in order.
LEMMA PctIsRank ==
  ASSUME NEW s \in Seq(Nat), s # <<>>
  PROVE  /\ \A p \in Percentiles :
              /\ \E j \in 1 .. Len(s) : PctSorted(Sorted(s), p) = s[j]
              /\ \E k \in 0 .. Len(s) - 1 :
                   /\ 1000 * k - p * (Len(s) - 1) \in -500 .. 500
                   /\ HasRank(s, PctSorted(Sorted(s), p), k)
         /\ \A p, q \in Percentiles :
              p < q => PctSorted(Sorted(s), p) <= PctSorted(Sorted(s), q)
<1> DEFINE n == Len(s)
           t == Sorted(s)
           Near(p, k) == 1000 * k - p * (n - 1) \in -500 .. 500
<1>1. n \in Nat \ {0} /\ Len(t) = n
  BY SortedPlaces
<1> HIDE DEF n, t
<1>2. /\ \A p \in Percentiles : Index(p, n) \in 1 .. n /\ Near(p, Index(p, n) - 1)
      /\ \A p, q \in Percentiles : p < q => Index(p, n) <= Index(q, n)
  BY <1>1, IndexNearest
<1> HIDE DEF Near
<1>3. \A p \in Percentiles : PctSorted(t, p) = t[Index(p, n)]
  <2>1. \A i \in 1 .. n : i <= n
    BY <1>1
  <2>2. QED
    BY <1>1, <1>2, <2>1 DEF PctSorted
<1>4. ASSUME NEW p \in Percentiles
      PROVE  /\ \E j \in 1 .. n : PctSorted(t, p) = s[j]
             /\ \E k \in 0 .. n - 1 : Near(p, k) /\ HasRank(s, PctSorted(t, p), k)
  <2>1. PICK j \in 1 .. n : Place(s, j) = Index(p, n) /\ t[Index(p, n)] = s[j]
    BY <1>2, SortedPlaces DEF n, t
  <2>2. HasRank(s, s[j], Place(s, j) - 1)
    BY PlaceIsRank DEF n
  <2>3. Index(p, n) - 1 \in 0 .. n - 1
    BY <1>1, <1>2
  <2>4. PctSorted(t, p) = s[j]
    BY <1>3, <2>1
  <2>5. HasRank(s, PctSorted(t, p), Index(p, n) - 1)
    BY <2>1, <2>2, <2>4
  <2>6. QED
    BY <1>2, <2>3, <2>4, <2>5
<1>5. ASSUME NEW p \in Percentiles, NEW q \in Percentiles, p < q
      PROVE  PctSorted(t, p) <= PctSorted(t, q)
  <2>1. \A k, l \in 1 .. n : k <= l => t[k] <= t[l]
    BY SortedPlaces DEF n, t
  <2>2. QED
    BY <1>2, <1>3, <1>5, <2>1
<1>6. QED
  BY <1>4, <1>5 DEF n, t, Near

\* The last Summary is that of the samples it should be about.
SummaryInv ==
  /\ BuffersInv
  /\ about \in Seq(Nat)
  /\ Fits(about)
  /\ summary = ComputeSummary(about)

\* The samples of a buffer are as many as Scale allows for.
LEMMA PartFits ==
  ASSUME NEW s \in Seq(Nat), NEW k \in 0 .. Len(s)
  PROVE  /\ Part(s, k, total_cap) \in Seq(Nat) /\ Fits(Part(s, k, total_cap))
         /\ Part(s, k, window_cap) \in Seq(Nat) /\ Fits(Part(s, k, window_cap))
<1>1. total_cap \in Nat /\ window_cap \in Nat
  BY ConstantsAssumption
<1>2. \A cap \in {total_cap, window_cap} : \A n \in 1 .. cap : Scale % n = 0
  BY ConstantsAssumption
<1>3. ASSUME NEW cap \in {total_cap, window_cap}
      PROVE  Part(s, k, cap) \in Seq(Nat) /\ Fits(Part(s, k, cap))
  <2>1. /\ Part(s, k, cap) \in Seq(Nat)
        /\ Len(Part(s, k, cap)) = IF Len(s) < k + cap THEN Len(s) - k ELSE cap
    BY <1>1, PartElements
  <2>2. Len(Part(s, k, cap)) <= cap /\ cap \in Nat /\ Len(Part(s, k, cap)) \in Nat
    BY <1>1, <2>1
  <2>3. \A n \in 1 .. Len(Part(s, k, cap)) : n \in 1 .. cap
    BY <2>2
  <2>4. QED
    BY <1>2, <2>1, <2>3 DEF Fits
<1>4. QED
  BY <1>3

\* The invariant holds initially and is kept by every step.
LEMMA SummaryInvInductive ==
  /\ Init => SummaryInv
  /\ SummaryInv /\ [Next]_vars => SummaryInv'
<1>1. Init => SummaryInv
  <2> SUFFICES ASSUME Init PROVE SummaryInv
    OBVIOUS
  <2>1. about = <<>> /\ summary = EmptySummary
    BY DEF Init
  <2>2. about \in Seq(Nat) /\ Fits(about)
    BY <2>1 DEF Fits
  <2>3. summary = ComputeSummary(about)
    BY <2>1 DEF ComputeSummary
  <2>4. QED
    BY <2>2, <2>3, BuffersInvInductive DEF SummaryInv
<1>2. SummaryInv /\ [Next]_vars => SummaryInv'
  <2> SUFFICES ASSUME SummaryInv, [Next]_vars PROVE SummaryInv'
    OBVIOUS
  <2>1. BuffersInv'
    BY BuffersInvInductive DEF SummaryInv
  <2>2. heard \in Seq(Nat) /\ taken \in 0 .. Len(heard) /\ 0 \in 0 .. Len(heard)
    BY DEF SummaryInv, BuffersInv
  <2>3. CASE SummaryTotal
    <3>1. about' = total_samples /\ summary' = ComputeSummary(total_samples)
      BY <2>3 DEF SummaryTotal, SummaryInv, BuffersInv, BuffersExact
    <3>2. total_samples \in Seq(Nat) /\ Fits(total_samples)
      BY <2>2, PartFits DEF SummaryInv, BuffersInv, BuffersExact
    <3>3. QED
      BY <2>1, <3>1, <3>2 DEF SummaryInv, Fits
  <2>4. CASE SummaryWindowAndReset
    <3>1. about' = window_samples /\ summary' = ComputeSummary(window_samples)
      BY <2>4 DEF SummaryWindowAndReset, SummaryInv, BuffersInv, BuffersExact
    <3>2. window_samples \in Seq(Nat) /\ Fits(window_samples)
      BY <2>2, PartFits DEF SummaryInv, BuffersInv, BuffersExact
    <3>3. QED
      BY <2>1, <3>1, <3>2 DEF SummaryInv, Fits
  <2>5. CASE (\E ns \in Samples : Add(ns) \/ Refuse(ns)) \/ UNCHANGED vars
    <3>1. UNCHANGED <<summary, about>>
      BY <2>5 DEF Add, Refuse, vars
    <3>2. QED
      BY <2>1, <3>1 DEF SummaryInv, Fits
  <2>6. QED
    BY <2>3, <2>4, <2>5 DEF Next
<1>3. QED
  BY <1>1, <1>2

\* In every state the mean and the sum of squares of the last Summary are those
\* that their definitions give, however many samples it is about
\* (LatencyStat::compute_summary, Welford's pass).
THEOREM MomentsAreExact == Spec => []MomentsExact
<1>1. SummaryInv => MomentsExact
  <2> SUFFICES ASSUME SummaryInv PROVE MomentsExact
    OBVIOUS
  <2> DEFINE n == Len(about)
             S == Sum(about)
             Q == Sum(Squares(about))
  <2>1. about \in Seq(Nat) /\ Fits(about) /\ summary = ComputeSummary(about)
    BY DEF SummaryInv
  <2>2. /\ Scale \in Nat /\ n \in Nat /\ Squares(about) \in Seq(Nat)
        /\ Len(Squares(about)) = n
    <3>1. Squares(about) = [i \in 1 .. n |-> about[i] * about[i]]
      BY <2>1 DEF Squares
    <3>2. n \in Nat /\ \A i \in 1 .. n : about[i] \in Nat
      BY <2>1
    <3>3. \A a, b \in Nat : a * b \in Nat
      OBVIOUS
    <3>4. \A i \in 1 .. n : about[i] * about[i] \in Nat
      BY <3>2, <3>3
    <3> HIDE DEF n
    <3>5. QED
      BY <3>1, <3>2, <3>4, ConstantsAssumption
  <2>3. S \in Nat /\ Q \in Nat
    <3>1. Sums(about) \in [0 .. n -> Nat] /\ Sums(Squares(about)) \in [0 .. n -> Nat]
      BY <2>1, <2>2, SumsSteps
    <3>2. n \in 0 .. n
      BY <2>2
    <3>3. S = Sums(about)[n] /\ Q = Sums(Squares(about))[n]
      BY <2>2 DEF Sum
    <3>4. QED
      BY <3>1, <3>2, <3>3
  <2>4. CASE about = <<>>
    <3>1. summary = EmptySummary /\ n = 0
      BY <2>1, <2>4 DEF ComputeSummary
    <3>2. Sums(about)[0] = 0 /\ Sums(Squares(about))[0] = 0
      BY <2>1, <2>2, SumsSteps
    <3>3. S = 0 /\ Q = 0
      BY <2>2, <3>1, <3>2 DEF Sum
    <3>4. summary.count = 0 /\ summary.mean = 0 /\ summary.m2 = 0
      BY <3>1 DEF EmptySummary
    <3>5. 0 * 0 = 0 /\ Scale * 0 = 0 /\ Scale * Scale * (0 * 0 - 0 * 0) = 0
      BY <2>2
    <3> HIDE DEF n, S, Q
    <3>6. QED
      BY <3>1, <3>3, <3>4, <3>5 DEF MomentsExact, n, S, Q
  <2>5. CASE about # <<>>
    <3> DEFINE w == Welford(about)[n]
               a == w.mean
    <3>1. n \in Nat \ {0}
      BY <2>1, <2>5
    <3>2. Moments(about, n)
      BY <2>1, <2>5, <3>1, MomentsAlways
    <3>3. /\ w.n = n /\ a \in Nat /\ w.m2 \in Nat
          /\ n * a = Scale * S
          /\ w.m2 = (Scale * Scale) * Q - n * (a * a)
      BY <2>2, <3>2 DEF Moments, Sum
    <3>4. /\ summary.count = n /\ summary.mean = a
          /\ summary.m2 = IF n > 1 THEN w.m2 ELSE 0
      BY <2>1, <2>5, <3>3, SummaryFields
    <3> HIDE DEF n, S, Q, w, a
    <3>5. n * w.m2 = (Scale * Scale) * (n * Q - S * S)
      <4>1. n * w.m2 = (Scale * Scale) * (n * Q) - (n * a) * (n * a)
        BY <2>2, <2>3, <3>3
      <4>2. (n * a) * (n * a) = (Scale * Scale) * (S * S)
        BY <2>2, <2>3, <3>3
      <4>3. \A x, y, z \in Int : x * (y - z) = x * y - x * z
        OBVIOUS
      <4>4. Scale * Scale \in Int /\ n * Q \in Int /\ S * S \in Int
        BY <2>2, <2>3
      <4>5. QED
        BY <4>1, <4>2, <4>3, <4>4
    <3>6. n = 1 => n * 0 = (Scale * Scale) * (n * Q - S * S)
      <4>1. about # <<>> /\ Sums(about)[0] = 0 /\ Sums(Squares(about))[0] = 0
        BY <2>1, <2>2, <2>5, SumsSteps
      <4>2. ASSUME n = 1 PROVE Q = S * S
        <5>1. Sums(about)[1] = Sums(about)[0] + about[1]
          BY <2>1, <4>2, SumsSteps DEF n
        <5>2. Sums(Squares(about))[1] = Sums(Squares(about))[0] + Squares(about)[1]
          BY <2>2, <4>2, SumsSteps
        <5>3. Squares(about)[1] = about[1] * about[1] /\ about[1] \in Nat
          BY <2>1, <2>5 DEF Squares
        <5>4. S = about[1] /\ Q = about[1] * about[1]
          BY <2>2, <4>1, <4>2, <5>1, <5>2, <5>3 DEF S, Q, Sum, n
        <5>5. QED
          BY <5>4
      <4>3. QED
        BY <2>2, <2>3, <4>2
    <3>7. n * summary.m2 = (Scale * Scale) * (n * Q - S * S)
      <4>1. CASE n > 1
        BY <3>4, <3>5, <4>1
      <4>2. CASE n = 1
        BY <3>4, <3>6, <4>2
      <4>3. QED
        BY <3>1, <4>1, <4>2
    <3>8. QED
      BY <3>3, <3>4, <3>7 DEF MomentsExact, n, S, Q
  <2>6. QED
    BY <2>4, <2>5
<1>2. QED
  BY <1>1, SummaryInvInductive, PTL DEF Spec

\* In every state the percentiles of the last Summary are samples of the ranks
\* they are named for, in order, between the least and the greatest, which are
\* the first and the last in rank (LatencyStat::compute_summary, pct_sorted).
THEOREM RanksAreExact == Spec => []RanksExact
<1>1. SummaryInv => RanksExact
  <2> SUFFICES ASSUME SummaryInv, about # <<>>
               PROVE  /\ HasRank(about, summary.min, 0)
                      /\ HasRank(about, summary.max, Len(about) - 1)
                      /\ \A p \in Percentiles :
                           \E k \in 0 .. Len(about) - 1 :
                             /\ 1000 * k - p * (Len(about) - 1) \in -500 .. 500
                             /\ HasRank(about, summary.pct[p], k)
                      /\ \A p, q \in Percentiles : p < q =>
                           summary.min <= summary.pct[p] /\ summary.pct[p] <= summary.pct[q]
                                                         /\ summary.pct[q] <= summary.max
    BY DEF RanksExact
  <2> DEFINE n == Len(about)
             w == Welford(about)[n]
  <2>1. about \in Seq(Nat) /\ summary = ComputeSummary(about)
    BY DEF SummaryInv
  <2>2. n \in Nat \ {0} /\ n \in 0 .. n /\ \A i \in 1 .. n : about[i] \in Nat
    BY <2>1
  <2>3. /\ summary.min = w.mn /\ summary.max = w.mx
        /\ \A p \in Percentiles : summary.pct[p] = PctSorted(Sorted(about), p)
    BY <2>1, SummaryFields
  <2>4. Extremes(about, n)
    BY <2>1, <2>2, ExtremesAlways
  <2>5. /\ summary.min \in Nat /\ summary.max \in Nat
        /\ \E i \in 1 .. n : summary.min = about[i]
        /\ \E i \in 1 .. n : summary.max = about[i]
        /\ \A i \in 1 .. n : summary.min <= about[i] /\ about[i] <= summary.max
    BY <2>3, <2>4 DEF Extremes
  <2> HIDE DEF w
  <2>6. HasRank(about, summary.min, 0) /\ HasRank(about, summary.max, n - 1)
    BY <2>1, <2>5, ExtremesAreRanks
  <2> DEFINE pct(p) == PctSorted(Sorted(about), p)
             Ranked(p, v) == /\ \E j \in 1 .. n : v = about[j]
                             /\ \E k \in 0 .. n - 1 :
                                  /\ 1000 * k - p * (n - 1) \in -500 .. 500
                                  /\ HasRank(about, v, k)
  <2>7. /\ \A p \in Percentiles : Ranked(p, summary.pct[p])
        /\ \A p, q \in Percentiles : p < q => summary.pct[p] <= summary.pct[q]
    <3>1. /\ \A p \in Percentiles : Ranked(p, pct(p))
          /\ \A p, q \in Percentiles : p < q => pct(p) <= pct(q)
      BY <2>1, PctIsRank
    <3> HIDE DEF Ranked, pct
    <3>2. \A p \in Percentiles : summary.pct[p] = pct(p)
      BY <2>3 DEF pct
    <3>3. QED
      BY <3>1, <3>2
  <2>8. \A p \in Percentiles : summary.min <= summary.pct[p] /\ summary.pct[p] <= summary.max
    BY <2>5, <2>7
  <2>9. QED
    BY <2>6, <2>7, <2>8
<1>2. QED
  BY <1>1, SummaryInvInductive, PTL DEF Spec

\* Type correctness: no sample, mean, sum of squares or percentile is negative.
THEOREM TypeCorrect == Spec => []TypeOK
<1>1. SummaryInv => TypeOK
  <2> SUFFICES ASSUME SummaryInv PROVE TypeOK
    OBVIOUS
  <2>1. /\ about \in Seq(Nat) /\ Fits(about) /\ summary = ComputeSummary(about)
        /\ heard \in Seq(Nat) /\ taken \in 0 .. Len(heard)
    BY DEF SummaryInv, BuffersInv
  <2>2. total_samples \in Seq(Nat) /\ window_samples \in Seq(Nat)
    BY <2>1, PartFits DEF SummaryInv, BuffersInv, BuffersExact
  <2>3. summary \in Summaries
    <3>1. CASE about = <<>>
      BY <2>1, <3>1 DEF ComputeSummary, EmptySummary, Summaries
    <3>2. CASE about # <<>>
      <4> DEFINE n == Len(about)
                 w == Welford(about)[n]
                 pct == [p \in Percentiles |-> PctSorted(Sorted(about), p)]
      <4>1. n \in Nat /\ n \in 0 .. n /\ \A i \in 1 .. n : about[i] \in Nat
        BY <2>1
      <4>2. w.mean \in Nat /\ w.m2 \in Nat
        BY <2>1, <3>2, <4>1, MomentsAlways DEF Moments
      <4>3. w.mn \in Nat /\ w.mx \in Nat
        BY <2>1, <3>2, <4>1, ExtremesAlways DEF Extremes
      <4>4. pct \in [Percentiles -> Nat]
        <5>1. \A p \in Percentiles : \E j \in 1 .. n : PctSorted(Sorted(about), p) = about[j]
          BY <2>1, <3>2, PctIsRank
        <5>2. QED
          BY <4>1, <5>1
      <4>5. summary = [count |-> n, min |-> w.mn, max |-> w.mx, mean |-> w.mean,
                       m2 |-> IF w.n > 1 THEN w.m2 ELSE 0, pct |-> pct]
        BY <2>1, <3>2, SummaryFields
      <4> HIDE DEF n, w, pct
      <4>6. QED
        BY <4>1, <4>2, <4>3, <4>4, <4>5 DEF Summaries
    <3>3. QED
      BY <3>1, <3>2
  <2>4. QED
    BY <2>1, <2>2, <2>3 DEF TypeOK
<1>2. QED
  BY <1>1, SummaryInvInductive, PTL DEF Spec
=============================================================================
