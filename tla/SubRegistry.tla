---------------------------- MODULE SubRegistry ----------------------------
(***************************************************************************)
(* The subscriber's accounting: PubRegistry of sub_mode.cpp, which keeps   *)
(* one PubTrack per publisher, is fed by the subscription callback (or the *)
(* waitset thread) and is read and reset once a second by the main thread. *)
(* Both sides hold the registry's mutex for the whole call, so OnMessage   *)
(* and the snapshot are one action each.                                   *)
(*                                                                         *)
(* The topic is external: samples of a publisher travel in order and       *)
(* arrive once, unless the run's network may lose, reorder or duplicate    *)
(* them (the code has a branch for a sample that does not advance).        *)
(***************************************************************************)
EXTENDS Integers, FiniteSets, FiniteSetsExt

CONSTANTS
  Publishers,   \* the GIDs of the publishers on the topic
  Networks,     \* the sets of faults a run's network may have
  StartSeqs,    \* the seq a publisher may have reached when it is matched
  MaxSeq,       \* bound: a publisher sends no seq >= MaxSeq
  MaxArrivals,  \* bound: samples that arrive, from all publishers together
  SeqMod,       \* PubTrack::last_seq is stored modulo this (2^32)
  OnewayNs,     \* one-way latencies measured; negative: none, or clocks differ
  WindowCap     \* LatencyStat's window_cap

Faults == {"lose", "reorder", "duplicate"}

ASSUME ConstantsAssumption ==
  /\ Networks \subseteq SUBSET Faults
  /\ StartSeqs \subseteq Nat
  /\ MaxSeq \in Nat
  /\ MaxArrivals \in Nat
  /\ SeqMod \in Nat \ {0}
  /\ OnewayNs \subseteq Int
  /\ WindowCap \in Nat

VARIABLES
  net,      \* external: the faults of this run's network
  sent,     \* external: sent_seq_ of each publisher, the next seq it sends
  wire,     \* external: the seqs in flight from each publisher
  dropped,  \* external: the seqs of each publisher that will never arrive
  pubs,     \* pubs_: a PubTrack for each publisher; id 0 is "no entry"
  next_id,  \* next_id_
  shown,    \* history: what the per-second lines have added up to
  obs       \* history: what really arrived from each publisher

netVars == <<net, sent, wire, dropped>>
regVars == <<pubs, next_id>>
vars    == <<netVars, regVars, shown, obs>>

----------------------------------------------------------------------------
(* State.                                                                  *)

PubTrack == [id : Nat, last_seq : Nat, recv : Nat, lost : Nat,
             recv_tick : Nat, lost_tick : Nat, lat_window : Nat]

EmptyTrack == [id |-> 0, last_seq |-> 0, recv |-> 0, lost |-> 0,
               recv_tick |-> 0, lost_tick |-> 0, lat_window |-> 0]

Known(p) == pubs[p].id # 0

\* heard: the distinct seqs that arrived; first, high: the first and the
\* highest of them; arrivals: how many samples arrived; late: how many of them
\* did not exceed the highest before; fresh: how many latency samples were
\* taken since the last per-second line.
Observation == [heard : SUBSET Nat, first : Nat, high : Nat,
                arrivals : Nat, late : Nat, fresh : Nat]

NothingSeen == [heard |-> {}, first |-> 0, high |-> 0,
                arrivals |-> 0, late |-> 0, fresh |-> 0]

TypeOK ==
  /\ net \in SUBSET Faults
  /\ sent \in [Publishers -> Nat]
  /\ wire \in [Publishers -> SUBSET Nat]
  /\ dropped \in [Publishers -> SUBSET Nat]
  /\ pubs \in [Publishers -> PubTrack]
  /\ next_id \in Nat \ {0}
  /\ shown \in [Publishers -> [recv : Nat, lost : Nat]]
  /\ obs \in [Publishers -> Observation]

Init ==
  /\ net \in Networks
  /\ sent \in [Publishers -> StartSeqs]
  /\ wire = [p \in Publishers |-> {}]
  /\ dropped = [p \in Publishers |-> {}]
  /\ pubs = [p \in Publishers |-> EmptyTrack]
  /\ next_id = 1
  /\ shown = [p \in Publishers |-> [recv |-> 0, lost |-> 0]]
  /\ obs = [p \in Publishers |-> NothingSeen]

----------------------------------------------------------------------------
(* The topic.                                                              *)

Publish(p) ==
  /\ sent[p] < MaxSeq
  /\ sent' = [sent EXCEPT ![p] = @ + 1]
  /\ wire' = [wire EXCEPT ![p] = @ \cup {sent[p]}]
  /\ UNCHANGED <<net, dropped, regVars, shown, obs>>

Lose(p, s) ==
  /\ "lose" \in net
  /\ s \in wire[p]
  /\ wire' = [wire EXCEPT ![p] = @ \ {s}]
  /\ dropped' = [dropped EXCEPT ![p] = @ \cup ({s} \ obs[p].heard)]
  /\ UNCHANGED <<net, sent, regVars, shown, obs>>

Deliverable(p, s) ==
  /\ s \in wire[p]
  /\ "reorder" \in net \/ \A q \in wire[p] : s <= q

----------------------------------------------------------------------------
(* PubRegistry::apply_seq_gap and PubRegistry::on_message.                 *)

\* Mutation: the gap counts the sample that closed it.
ApplySeqGapOffByOne(t, s) ==
  IF s <= t.last_seq THEN t
  ELSE [t EXCEPT !.lost = @ + (s - t.last_seq),
                 !.lost_tick = @ + (s - t.last_seq),
                 !.last_seq = s % SeqMod]

\* Mutation: a sample that arrives late takes last_seq back.
ApplySeqGapFollowsLate(t, s) ==
  IF s <= t.last_seq THEN [t EXCEPT !.last_seq = s % SeqMod]
  ELSE [t EXCEPT !.lost = @ + (s - t.last_seq - 1),
                 !.lost_tick = @ + (s - t.last_seq - 1),
                 !.last_seq = s % SeqMod]

\* Mutation: nothing asks whether the sample advances.
ApplySeqGapUnguarded(t, s) ==
  [t EXCEPT !.lost = @ + (s - t.last_seq - 1),
            !.lost_tick = @ + (s - t.last_seq - 1),
            !.last_seq = s % SeqMod]

ApplySeqGap(t, s) ==
  IF s <= t.last_seq THEN t
  ELSE [t EXCEPT !.lost = @ + (s - t.last_seq - 1),
                 !.lost_tick = @ + (s - t.last_seq - 1),
                 !.last_seq = s % SeqMod]

\* LatencyStat::add on the window buffer, behind on_message's own test.
LatAdd(t, ns) ==
  IF ns >= 0 /\ t.lat_window < WindowCap
  THEN [t EXCEPT !.lat_window = @ + 1]
  ELSE t

\* Mutation: the first sample of a publisher is left out of the window.
FirstSampleUnticked(t, id, s) ==
  [t EXCEPT !.id = id, !.last_seq = s % SeqMod, !.recv = 1]

FirstSample(t, id, s) ==
  [t EXCEPT !.id = id, !.last_seq = s % SeqMod, !.recv = 1, !.recv_tick = 1]

NextSample(t, s) ==
  ApplySeqGap([t EXCEPT !.recv = @ + 1, !.recv_tick = @ + 1], s)

OnMessage(p, s, ns) ==
  LET t == pubs[p]
      counted == IF t.id = 0 THEN FirstSample(t, next_id, s)
                             ELSE NextSample(t, s)
  IN  /\ pubs' = [pubs EXCEPT ![p] = LatAdd(counted, ns)]
      /\ next_id' = IF t.id = 0 THEN next_id + 1 ELSE next_id

Observe(o, s, ns) ==
  [heard    |-> o.heard \cup {s},
   first    |-> IF o.arrivals = 0 THEN s ELSE o.first,
   high     |-> IF o.arrivals = 0 \/ s > o.high THEN s ELSE o.high,
   arrivals |-> o.arrivals + 1,
   late     |-> IF o.arrivals > 0 /\ s <= o.high THEN o.late + 1 ELSE o.late,
   fresh    |-> IF ns >= 0 THEN o.fresh + 1 ELSE o.fresh]

Arrivals == MapThenSumSet(LAMBDA p : obs[p].arrivals, Publishers)

\* The callback (SubMode::handle) takes a sample off the topic and counts it.
Handle(p, s, ns) ==
  /\ Arrivals < MaxArrivals
  /\ Deliverable(p, s)
  /\ \/ wire' = [wire EXCEPT ![p] = @ \ {s}]
     \/ "duplicate" \in net /\ UNCHANGED wire
  /\ OnMessage(p, s, ns)
  /\ obs' = [obs EXCEPT ![p] = Observe(@, s, ns)]
  /\ UNCHANGED <<net, sent, dropped, shown>>

----------------------------------------------------------------------------
(* PubRegistry::snapshot with kTickReset, called by SubMode::tick. The     *)
(* kTotals variant, used by the summary, changes nothing.                  *)

Idle(t) == t.recv_tick = 0 /\ t.lost_tick = 0

\* Mutation: the latency window survives the line that printed it.
TickResetKeepsLatency(t) ==
  IF Idle(t) THEN t ELSE [t EXCEPT !.recv_tick = 0, !.lost_tick = 0]

TickReset(t) ==
  IF Idle(t) THEN t
  ELSE [t EXCEPT !.recv_tick = 0, !.lost_tick = 0, !.lat_window = 0]

Snapshot ==
  /\ pubs' = [p \in Publishers |-> TickReset(pubs[p])]
  /\ shown' = [p \in Publishers |->
                 [recv |-> shown[p].recv + pubs[p].recv_tick,
                  lost |-> shown[p].lost + pubs[p].lost_tick]]
  /\ obs' = [p \in Publishers |-> [obs[p] EXCEPT !.fresh = 0]]
  /\ UNCHANGED <<netVars, next_id>>

----------------------------------------------------------------------------

Next ==
  \/ \E p \in Publishers : Publish(p)
  \/ \E p \in Publishers : \E s \in wire[p] : Lose(p, s)
  \/ \E p \in Publishers : \E s \in wire[p], ns \in OnewayNs : Handle(p, s, ns)
  \/ Snapshot

Spec == Init /\ [][Next]_vars

----------------------------------------------------------------------------
(* Properties.                                                             *)

\* Every seq fits PubTrack::last_seq.
NoWrap == MaxSeq <= SeqMod /\ \A s \in StartSeqs : s <= MaxSeq

\* The samples counted and the samples called lost add up to the stretch of
\* sequence numbers heard, plus the arrivals that did not advance it, in any
\* order of arrival (PubRegistry::on_message, apply_seq_gap).
GapLedger ==
  \A p \in Publishers : Known(p) =>
    LET t == pubs[p]  o == obs[p] IN
    /\ t.recv = o.arrivals
    /\ t.recv + t.lost = o.high - o.first + 1 + o.late

\* A sample the network dropped between two that arrived is always in "lost
\* total"; on a topic that keeps order and never duplicates, "lost total" is
\* exactly those samples.
LossReported ==
  \A p \in Publishers : Known(p) =>
    LET o == obs[p]
        real == {s \in dropped[p] : o.first < s /\ s < o.high}
    IN  /\ Cardinality(real) <= pubs[p].lost
        /\ net \subseteq {"lose"} => pubs[p].lost = Cardinality(real)

\* Each arrival and each loss is in exactly one per-second line or in the
\* window still open, however callbacks and ticks interleave.
WindowPartition ==
  \A p \in Publishers :
    /\ pubs[p].recv = shown[p].recv + pubs[p].recv_tick
    /\ pubs[p].lost = shown[p].lost + pubs[p].lost_tick

\* The latency window holds the samples taken since the last tick, up to its
\* cap: the tick that skips an idle publisher leaves no sample behind.
LatencyWindow ==
  \A p \in Publishers :
    pubs[p].lat_window =
      IF obs[p].fresh < WindowCap THEN obs[p].fresh ELSE WindowCap

\* On a network without faults nothing is ever called lost.
NoPhantomLoss == net = {} => \A p \in Publishers : pubs[p].lost = 0

\* The windows implement the meter: the lines of a publisher, added up, are its
\* counters as they stood at the last tick.
Meter == INSTANCE TickMeter WITH
  Counters <- Publishers \X {"recv", "lost"},
  total <- [c \in Publishers \X {"recv", "lost"} |-> pubs[c[1]][c[2]]],
  shown <- [c \in Publishers \X {"recv", "lost"} |-> shown[c[1]][c[2]]]

MeterSpec == Meter!Spec
============================================================================
