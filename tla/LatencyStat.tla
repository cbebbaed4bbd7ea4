----------------------------- MODULE LatencyStat -----------------------------
(***************************************************************************)
(* The samples behind every latency line: one LatencyStat is fed by the    *)
(* handler that receives, and asked by the tick for the samples of the     *)
(* running second, by the summary for those of the whole run. Both buffers *)
(* stop taking samples when they are full; the tick empties its own.       *)
(*                                                                         *)
(* Each method is one step: the registry that owns the LatencyStat holds   *)
(* its mutex over the whole call, compute_summary included. A sample is a  *)
(* number of ns; a mean is kept in units of 1/Scale, so that the divisions *)
(* of the one-pass algorithm are exact, and a standard deviation as the    *)
(* sum of squares it is the root of. A percentile is named by its per      *)
(* mille.                                                                  *)
(***************************************************************************)
EXTENDS Integers, Sequences, FiniteSets

CONSTANTS
  total_cap,   \* total_cap_ (200000)
  window_cap,  \* window_cap_ (200000)
  Scale,       \* a multiple of every number of samples a buffer can hold
  Samples,     \* bound: the values that add() is called with
  MaxAdds      \* bound: how many samples are taken

ASSUME ConstantsAssumption ==
  /\ total_cap \in Nat /\ window_cap \in Nat /\ MaxAdds \in Nat
  /\ Samples \subseteq Int
  /\ Scale \in Nat \ {0}
  /\ \A n \in (1 .. total_cap) \cup (1 .. window_cap) : Scale % n = 0

VARIABLES
  total_samples,   \* total_samples_
  window_samples,  \* window_samples_
  summary,         \* the Summary last returned
  heard,           \* history: the samples that add() was given and took
  taken,           \* history: how many of them came before the running window
  about            \* history: the samples the last Summary should be about

vars == <<total_samples, window_samples, summary, heard, taken, about>>

----------------------------------------------------------------------------
(* LatencyStat::compute_summary.                                           *)

Percentiles == {500, 900, 950, 990, 999}

EmptySummary ==
  [count |-> 0, min |-> 0, max |-> 0, mean |-> 0, m2 |-> 0,
   pct |-> [p \in Percentiles |-> 0]]

\* Mutation: the square of the deviation from the mean so far.
PassOneMean(s, v) ==
  LET n     == s.n + 1
      delta == Scale * v - s.mean
  IN [n    |-> n,
      mn   |-> IF v < s.mn THEN v ELSE s.mn,
      mx   |-> IF v > s.mx THEN v ELSE s.mx,
      mean |-> s.mean + delta \div n,
      m2   |-> s.m2 + delta * delta]

\* One sample of Welford's pass.
Pass(s, v) ==
  LET n     == s.n + 1
      delta == Scale * v - s.mean
      mean  == s.mean + delta \div n
  IN [n    |-> n,
      mn   |-> IF v < s.mn THEN v ELSE s.mn,
      mx   |-> IF v > s.mx THEN v ELSE s.mx,
      mean |-> mean,
      m2   |-> s.m2 + delta * (Scale * v - mean)]

\* Mutation: the half that makes it round to the nearest is missing.
IndexTruncated(p, n) == (p * (n - 1)) \div 1000 + 1

\* round(p * (n - 1)) as an index from 1. A half goes up; where p has no exact
\* double the code may take the neighbour, which is as near.
Index(p, n) == (2 * p * (n - 1) + 1000) \div 2000 + 1

PctSorted(v, p) ==
  IF Index(p, Len(v)) <= Len(v) THEN v[Index(p, Len(v))] ELSE v[Len(v)]

\* The pass as a whole: what it holds after each sample.
Welford(samples) ==
  LET s[k \in 0 .. Len(samples)] ==
        IF k = 0
        THEN [n |-> 0, mn |-> Head(samples), mx |-> Head(samples), mean |-> 0, m2 |-> 0]
        ELSE Pass(s[k - 1], samples[k])
  IN s

\* std::sort: the place of a sample is the number of those that come no later,
\* equal ones in the order they came in.
Place(samples, j) ==
  Cardinality({k \in DOMAIN samples :
                 samples[k] < samples[j] \/ (samples[k] = samples[j] /\ k <= j)})

Sorted(samples) ==
  [k \in DOMAIN samples |-> samples[CHOOSE j \in DOMAIN samples : Place(samples, j) = k]]

ComputeSummary(samples) ==
  IF samples = <<>> THEN EmptySummary ELSE
  LET s      == Welford(samples)[Len(samples)]
      sorted == Sorted(samples)
  IN [count |-> Len(samples), min |-> s.mn, max |-> s.mx, mean |-> s.mean,
      m2 |-> IF s.n > 1 THEN s.m2 ELSE 0,
      pct |-> [p \in Percentiles |-> PctSorted(sorted, p)]]

----------------------------------------------------------------------------

Summaries ==
  [count : Nat, min : Nat, max : Nat, mean : Nat, m2 : Nat, pct : [Percentiles -> Nat]]

TypeOK ==
  /\ total_samples \in Seq(Nat)
  /\ window_samples \in Seq(Nat)
  /\ summary \in Summaries
  /\ heard \in Seq(Nat)
  /\ taken \in 0 .. Len(heard)
  /\ about \in Seq(Nat)

Init ==
  /\ total_samples = <<>>
  /\ window_samples = <<>>
  /\ summary = EmptySummary
  /\ heard = <<>>
  /\ taken = 0
  /\ about = <<>>

\* Mutation: a full buffer takes one more.
PushOneMore(samples, cap, ns) ==
  IF Len(samples) <= cap THEN Append(samples, ns) ELSE samples

Push(samples, cap, ns) ==
  IF Len(samples) < cap THEN Append(samples, ns) ELSE samples

\* Mutation: a clock that ran backwards is believed.
AnyTime(ns) == TRUE

NotNegative(ns) == ns >= 0

Add(ns) ==
  /\ Len(heard) < MaxAdds
  /\ NotNegative(ns)
  /\ total_samples' = Push(total_samples, total_cap, ns)
  /\ window_samples' = Push(window_samples, window_cap, ns)
  /\ heard' = Append(heard, ns)
  /\ UNCHANGED <<summary, taken, about>>

Refuse(ns) ==
  /\ ~NotNegative(ns)
  /\ UNCHANGED vars

\* Of the samples after the first k, those that a buffer has room for.
Part(samples, k, cap) ==
  SubSeq(samples, k + 1, IF Len(samples) < k + cap THEN Len(samples) ELSE k + cap)

SummaryTotal ==
  /\ summary' = ComputeSummary(total_samples)
  /\ about' = Part(heard, 0, total_cap)
  /\ UNCHANGED <<total_samples, window_samples, heard, taken>>

\* Mutation: the window is copied, not swapped.
SwapKeeps == window_samples

Swap == <<>>

SummaryWindowAndReset ==
  /\ summary' = ComputeSummary(window_samples)
  /\ about' = Part(heard, taken, window_cap)
  /\ window_samples' = Swap
  /\ taken' = Len(heard)
  /\ UNCHANGED <<total_samples, heard>>

Next ==
  \/ \E ns \in Samples : Add(ns) \/ Refuse(ns)
  \/ SummaryTotal
  \/ SummaryWindowAndReset

Spec == Init /\ [][Next]_vars

----------------------------------------------------------------------------
(* Properties.                                                             *)

\* The total buffer holds the first total_cap samples of the run, the window
\* the first window_cap since it was last taken: a full buffer drops the late
\* ones and a window that was full starts again (stats.hpp:31).
BuffersExact ==
  /\ total_samples = Part(heard, 0, total_cap)
  /\ window_samples = Part(heard, taken, window_cap)

Sums(s) ==
  LET sum[k \in 0 .. Len(s)] == IF k = 0 THEN 0 ELSE sum[k - 1] + s[k]
  IN sum

Sum(s) == Sums(s)[Len(s)]

Squares(s) == [k \in DOMAIN s |-> s[k] * s[k]]

\* Welford's single pass gives what the definitions of the mean and of the
\* variance give: n * mean is the sum, and n * m2 = n * sum(v^2) - sum(v)^2.
MomentsExact ==
  LET n == Len(about)
      S == Sum(about)
      Q == Sum(Squares(about))
  IN /\ summary.count = n
     /\ n * summary.mean = Scale * S
     /\ n * summary.m2 = Scale * Scale * (n * Q - S * S)

\* The value of rank k (from 0) of the samples.
HasRank(samples, v, k) ==
  /\ Cardinality({i \in DOMAIN samples : samples[i] < v}) <= k
  /\ k < Cardinality({i \in DOMAIN samples : samples[i] <= v})

\* A percentile is the sample whose rank is nearest to p * (n - 1), the least
\* and the greatest bound them all, and the percentiles are in order.
RanksExact ==
  about # <<>> =>
    /\ HasRank(about, summary.min, 0)
    /\ HasRank(about, summary.max, Len(about) - 1)
    /\ \A p \in Percentiles :
         \E k \in 0 .. Len(about) - 1 :
           /\ 1000 * k - p * (Len(about) - 1) \in -500 .. 500
           /\ HasRank(about, summary.pct[p], k)
    /\ \A p, q \in Percentiles : p < q =>
         summary.min <= summary.pct[p] /\ summary.pct[p] <= summary.pct[q]
                                       /\ summary.pct[q] <= summary.max
=============================================================================
