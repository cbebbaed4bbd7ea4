-------------------------- MODULE SubRegistryProofs --------------------------
(***************************************************************************)
(* Theorems about SubRegistry, for any number of publishers, any network   *)
(* and any bounds.                                                         *)
(***************************************************************************)
EXTENDS SubRegistry, FiniteSetTheorems, TLAPS

----------------------------------------------------------------------------
(* What one sample does to one PubTrack.                                   *)

\* A PubTrack stays one, whichever branch of on_message it goes through.
LEMMA TrackTypes ==
  ASSUME NEW t \in PubTrack, NEW id \in Nat, NEW s \in Nat, NEW ns
  PROVE  /\ LatAdd(t, ns) \in PubTrack
         /\ FirstSample(t, id, s) \in PubTrack
         /\ NextSample(t, s) \in PubTrack
<1>1. s % SeqMod \in Nat
  BY ConstantsAssumption
<1>2. LatAdd(t, ns) \in PubTrack
  BY DEF LatAdd, PubTrack
<1>3. FirstSample(t, id, s) \in PubTrack
  BY <1>1 DEF FirstSample, PubTrack
<1>4. NextSample(t, s) \in PubTrack
  <2> DEFINE u == [t EXCEPT !.recv = @ + 1, !.recv_tick = @ + 1]
  <2>1. u \in PubTrack
    <3>1. t.recv + 1 \in Nat /\ t.recv_tick + 1 \in Nat
      BY DEF PubTrack
    <3>2. QED
      BY <3>1 DEF PubTrack
  <2>2. CASE s <= u.last_seq
    BY <2>1, <2>2 DEF NextSample, ApplySeqGap
  <2>3. CASE ~(s <= u.last_seq)
    <3> HIDE DEF u
    <3>1. /\ u.lost + (s - u.last_seq - 1) \in Nat
          /\ u.lost_tick + (s - u.last_seq - 1) \in Nat
      BY <2>1, <2>3 DEF PubTrack
    <3>2. ApplySeqGap(u, s) \in PubTrack
      BY <1>1, <2>1, <2>3, <3>1 DEF ApplySeqGap, PubTrack
    <3>3. QED
      BY <3>2 DEF NextSample, u
  <2>4. QED
    BY <2>2, <2>3
<1>5. QED
  BY <1>2, <1>3, <1>4

----------------------------------------------------------------------------
(* Type correctness.                                                       *)

LEMMA InitTypeOK == Init => TypeOK
<1> SUFFICES ASSUME Init PROVE TypeOK
  OBVIOUS
<1>1. EmptyTrack \in PubTrack
  BY DEF EmptyTrack, PubTrack
<1>2. NothingSeen \in Observation
  BY DEF NothingSeen, Observation
<1>3. net \in SUBSET Faults
  BY ConstantsAssumption, Zenon DEF Init
<1>4. sent \in [Publishers -> Nat]
  BY ConstantsAssumption DEF Init
<1>5. next_id \in Nat \ {0}
  BY DEF Init
<1>6. QED
  BY <1>1, <1>2, <1>3, <1>4, <1>5 DEF Init, TypeOK

LEMMA HandleTypeOK ==
  ASSUME TypeOK, NEW p \in Publishers, NEW s \in wire[p], NEW ns \in OnewayNs,
         Handle(p, s, ns)
  PROVE  TypeOK'
<1>1. s \in Nat /\ pubs[p] \in PubTrack /\ obs[p] \in Observation
  BY DEF TypeOK
<1>2. wire' \in [Publishers -> SUBSET Nat]
  BY DEF Handle, TypeOK
<1>3. pubs' \in [Publishers -> PubTrack] /\ next_id' \in Nat \ {0}
  <2>1. next_id \in Nat
    BY DEF TypeOK
  <2>2. LatAdd(FirstSample(pubs[p], next_id, s), ns) \in PubTrack
    BY <1>1, <2>1, TrackTypes
  <2>3. LatAdd(NextSample(pubs[p], s), ns) \in PubTrack
    BY <1>1, <2>1, TrackTypes
  <2>4. QED
    BY <2>2, <2>3 DEF Handle, OnMessage, TypeOK
<1>4. obs' \in [Publishers -> Observation]
  <2>1. Observe(obs[p], s, ns) \in Observation
    BY <1>1 DEF Observe, Observation
  <2>2. QED
    BY <2>1 DEF Handle, TypeOK
<1>5. QED
  BY <1>2, <1>3, <1>4 DEF Handle, TypeOK

LEMMA SnapshotTypeOK == TypeOK /\ Snapshot => TypeOK'
<1> SUFFICES ASSUME TypeOK, Snapshot PROVE TypeOK'
  OBVIOUS
<1>1. pubs' \in [Publishers -> PubTrack]
  <2>1. ASSUME NEW t \in PubTrack PROVE TickReset(t) \in PubTrack
    BY DEF TickReset, PubTrack
  <2>2. pubs \in [Publishers -> PubTrack]
    BY DEF TypeOK
  <2>3. pubs' = [p \in Publishers |-> TickReset(pubs[p])]
    BY DEF Snapshot
  <2>4. QED
    BY <2>1, <2>2, <2>3
<1>2. shown' \in [Publishers -> [recv : Nat, lost : Nat]]
  BY DEF Snapshot, TypeOK, PubTrack
<1>3. obs' \in [Publishers -> Observation]
  <2>1. ASSUME NEW o \in Observation PROVE [o EXCEPT !.fresh = 0] \in Observation
    BY DEF Observation
  <2>2. obs \in [Publishers -> Observation]
    BY DEF TypeOK
  <2>3. obs' = [p \in Publishers |-> [obs[p] EXCEPT !.fresh = 0]]
    BY DEF Snapshot
  <2>4. QED
    BY <2>1, <2>2, <2>3
<1>4. QED
  BY <1>1, <1>2, <1>3 DEF Snapshot, TypeOK, netVars

LEMMA NextTypeOK == TypeOK /\ [Next]_vars => TypeOK'
<1> SUFFICES ASSUME TypeOK, [Next]_vars PROVE TypeOK'
  OBVIOUS
<1>1. ASSUME NEW p \in Publishers, Publish(p) PROVE TypeOK'
  BY <1>1 DEF TypeOK, Publish, regVars
<1>2. ASSUME NEW p \in Publishers, NEW s \in wire[p], Lose(p, s) PROVE TypeOK'
  BY <1>2 DEF TypeOK, Lose, regVars
<1>3. ASSUME NEW p \in Publishers, NEW s \in wire[p], NEW ns \in OnewayNs,
             Handle(p, s, ns)
      PROVE  TypeOK'
  BY <1>3, HandleTypeOK
<1>4. CASE Snapshot
  BY <1>4, SnapshotTypeOK
<1>5. CASE UNCHANGED vars
  BY <1>5 DEF TypeOK, vars, netVars, regVars
<1>6. QED
  BY <1>1, <1>2, <1>3, <1>4, <1>5 DEF Next

\* The subscriber's state and the topic's keep their types (PubTrack).
THEOREM TypeCorrect == Spec => []TypeOK
BY InitTypeOK, NextTypeOK, PTL DEF Spec

----------------------------------------------------------------------------
(* Every arrival and every loss is in one line (WindowPartition). The      *)
(* partition needs to know that a publisher not heard of yet has nothing   *)
(* counted, because its first sample overwrites recv instead of adding.    *)

Blank == \A p \in Publishers : pubs[p].id = 0 => pubs[p] = EmptyTrack

PartitionInv == TypeOK /\ Blank /\ WindowPartition

\* What on_message makes of a track t, given the id and the seq of the sample.
Counted(t, u, id, s) ==
  /\ u.id = IF t.id = 0 THEN id ELSE t.id
  /\ u.recv = IF t.id = 0 THEN 1 ELSE t.recv + 1
  /\ u.recv_tick = IF t.id = 0 THEN 1 ELSE t.recv_tick + 1
  /\ t.id = 0 \/ s <= t.last_seq => u.lost = t.lost /\ u.lost_tick = t.lost_tick
  /\ t.id # 0 /\ ~(s <= t.last_seq) =>
       /\ u.lost = t.lost + (s - t.last_seq - 1)
       /\ u.lost_tick = t.lost_tick + (s - t.last_seq - 1)
  /\ t.id = 0 \/ ~(s <= t.last_seq) => u.last_seq = s % SeqMod
  /\ t.id # 0 /\ s <= t.last_seq => u.last_seq = t.last_seq

LEMMA CountersStep ==
  ASSUME NEW t \in PubTrack, NEW id \in Nat, NEW s \in Nat, NEW ns, NEW u,
         u = LatAdd(IF t.id = 0 THEN FirstSample(t, id, s) ELSE NextSample(t, s), ns)
  PROVE  Counted(t, u, id, s)
<1> USE DEF Counted
<1> DEFINE c == IF t.id = 0 THEN FirstSample(t, id, s) ELSE NextSample(t, s)
<1>1. c \in PubTrack
  BY TrackTypes
<1>2. /\ u.id = c.id
      /\ u.recv = c.recv /\ u.recv_tick = c.recv_tick
      /\ u.lost = c.lost /\ u.lost_tick = c.lost_tick
      /\ u.last_seq = c.last_seq
  <2> HIDE DEF c
  <2>1. u = LatAdd(c, ns)
    BY DEF c
  <2>2. QED
    BY <1>1, <2>1 DEF LatAdd, PubTrack
<1>3. CASE t.id = 0
  BY <1>2, <1>3 DEF FirstSample, PubTrack
<1>4. CASE t.id # 0 /\ s <= t.last_seq
  BY <1>2, <1>4 DEF NextSample, ApplySeqGap, PubTrack
<1>5. CASE t.id # 0 /\ ~(s <= t.last_seq)
  BY <1>2, <1>5 DEF NextSample, ApplySeqGap, PubTrack
<1>6. QED
  BY <1>3, <1>4, <1>5

LEMMA InitPartition == Init => PartitionInv
<1> SUFFICES ASSUME Init PROVE PartitionInv
  OBVIOUS
<1>1. TypeOK
  BY InitTypeOK
<1>2. Blank /\ WindowPartition
  BY DEF Init, Blank, WindowPartition, EmptyTrack
<1>3. QED
  BY <1>1, <1>2 DEF PartitionInv

LEMMA NextPartition == PartitionInv /\ [Next]_vars => PartitionInv'
<1> SUFFICES ASSUME PartitionInv, [Next]_vars PROVE PartitionInv'
  OBVIOUS
<1> USE DEF PartitionInv
<1>1. TypeOK'
  BY NextTypeOK
<1>2. ASSUME NEW p \in Publishers, NEW s \in wire[p], NEW ns \in OnewayNs,
             Handle(p, s, ns)
      PROVE  (Blank /\ WindowPartition)'
  <2>1. s \in Nat /\ pubs[p] \in PubTrack /\ next_id \in Nat \ {0}
    BY DEF TypeOK
  <2>2. shown' = shown /\ \A q \in Publishers \ {p} : pubs'[q] = pubs[q]
    BY <1>2 DEF Handle, OnMessage, TypeOK
  <2>3. pubs'[p] = LatAdd(IF pubs[p].id = 0 THEN FirstSample(pubs[p], next_id, s)
                                             ELSE NextSample(pubs[p], s), ns)
    BY <1>2 DEF Handle, OnMessage, TypeOK
  <2>counted. Counted(pubs[p], pubs'[p], next_id, s)
    BY <2>1, <2>3, CountersStep
  <2>4. pubs'[p].id # 0
    BY <2>1, <2>counted DEF Counted, PubTrack
  <2>5. /\ pubs'[p].recv = shown[p].recv + pubs'[p].recv_tick
        /\ pubs'[p].lost = shown[p].lost + pubs'[p].lost_tick
    <3>1. /\ pubs[p].recv = shown[p].recv + pubs[p].recv_tick
          /\ pubs[p].lost = shown[p].lost + pubs[p].lost_tick
          /\ shown[p].recv \in Nat /\ shown[p].lost \in Nat
      BY DEF WindowPartition, TypeOK
    <3>2. CASE pubs[p].id = 0
      <4>1. shown[p].recv = 0
        BY <3>1, <3>2 DEF Blank, EmptyTrack
      <4>2. QED
        BY <2>1, <2>counted, <3>1, <3>2, <4>1 DEF Counted, PubTrack
    <3>3. CASE pubs[p].id # 0
      BY <2>1, <2>counted, <3>1, <3>3 DEF Counted, PubTrack
    <3>4. QED
      BY <3>2, <3>3
  <2>6. QED
    BY <2>2, <2>4, <2>5 DEF Blank, WindowPartition
<1>3. ASSUME Snapshot PROVE (Blank /\ WindowPartition)'
  <2>1. ASSUME NEW p \in Publishers
        PROVE  /\ pubs'[p].id = 0 => pubs'[p] = EmptyTrack
               /\ pubs'[p].recv = shown'[p].recv + pubs'[p].recv_tick
               /\ pubs'[p].lost = shown'[p].lost + pubs'[p].lost_tick
    <3>1. /\ pubs[p] \in PubTrack
          /\ pubs[p].recv = shown[p].recv + pubs[p].recv_tick
          /\ pubs[p].lost = shown[p].lost + pubs[p].lost_tick
          /\ shown[p].recv \in Nat /\ shown[p].lost \in Nat
          /\ pubs[p].id = 0 => pubs[p] = EmptyTrack
      BY DEF WindowPartition, Blank, TypeOK
    <3>2. /\ pubs'[p] = TickReset(pubs[p])
          /\ shown'[p].recv = shown[p].recv + pubs[p].recv_tick
          /\ shown'[p].lost = shown[p].lost + pubs[p].lost_tick
      BY <1>3 DEF Snapshot, TypeOK
    <3>3. QED
      BY <3>1, <3>2 DEF TickReset, Idle, PubTrack, EmptyTrack
  <2>2. QED
    BY <2>1 DEF Blank, WindowPartition
<1>4. ASSUME UNCHANGED <<pubs, shown>> PROVE (Blank /\ WindowPartition)'
  BY <1>4 DEF Blank, WindowPartition
<1>5. QED
  BY <1>1, <1>2, <1>3, <1>4 DEF Next, Publish, Lose, vars, regVars

\* Each arrival and each loss is shown once, whatever callbacks and ticks do
\* (PubRegistry::on_message against PubRegistry::snapshot).
THEOREM Partition == Spec => []WindowPartition
<1>1. PartitionInv => WindowPartition
  BY DEF PartitionInv
<1>2. QED
  BY <1>1, InitPartition, NextPartition, PTL DEF Spec

----------------------------------------------------------------------------
(* The windows implement the meter: a callback is a Count, a snapshot is a *)
(* Report of every counter, and the rest is a stutter.                     *)

Pairs == Publishers \X {"recv", "lost"}
Total == [c \in Pairs |-> pubs[c[1]][c[2]]]
Shown == [c \in Pairs |-> shown[c[1]][c[2]]]

LEMMA MeterInit == Init => Meter!Init
BY DEF Init, Meter!Init, EmptyTrack

LEMMA MeterNext == PartitionInv /\ [Next]_vars => [Meter!Next]_<<Total, Shown>>
<1> SUFFICES ASSUME PartitionInv, [Next]_vars
             PROVE  Meter!Next \/ UNCHANGED <<Total, Shown>>
  OBVIOUS
<1> USE DEF PartitionInv
<1>1. ASSUME NEW p \in Publishers, NEW s \in wire[p], NEW ns \in OnewayNs,
             Handle(p, s, ns)
      PROVE  Meter!Count
  <2>1. s \in Nat /\ pubs[p] \in PubTrack /\ next_id \in Nat \ {0}
    BY DEF TypeOK
  <2>2. shown' = shown /\ \A q \in Publishers \ {p} : pubs'[q] = pubs[q]
    BY <1>1 DEF Handle, OnMessage, TypeOK
  <2>3. pubs'[p] = LatAdd(IF pubs[p].id = 0 THEN FirstSample(pubs[p], next_id, s)
                                             ELSE NextSample(pubs[p], s), ns)
    BY <1>1 DEF Handle, OnMessage, TypeOK
  <2>4. Counted(pubs[p], pubs'[p], next_id, s)
    BY <2>1, <2>3, CountersStep
  <2>5. pubs'[p].recv >= pubs[p].recv /\ pubs'[p].lost >= pubs[p].lost
    BY <2>1, <2>4 DEF Counted, PubTrack, Blank, EmptyTrack
  <2>6. \A q \in Publishers :
          /\ pubs'[q].recv \in Nat /\ pubs'[q].lost \in Nat
          /\ pubs'[q].recv >= pubs[q].recv /\ pubs'[q].lost >= pubs[q].lost
    <3>1. TypeOK'
      BY NextTypeOK
    <3>2. \A q \in Publishers : pubs[q] \in PubTrack /\ pubs'[q] \in PubTrack
      BY <3>1 DEF TypeOK
    <3>3. QED
      BY <2>2, <2>5, <3>2 DEF PubTrack
  <2>7. \A c \in Pairs : Total'[c] \in Nat /\ Total'[c] >= Total[c]
    BY <2>6 DEF Pairs, Total
  <2>8. QED
    BY <2>2, <2>7 DEF Meter!Count, Pairs, Total
<1>2. ASSUME Snapshot PROVE Meter!Report
  <2>1. ASSUME NEW p \in Publishers
        PROVE  /\ pubs'[p].recv = pubs[p].recv /\ pubs'[p].lost = pubs[p].lost
               /\ shown'[p].recv = pubs[p].recv /\ shown'[p].lost = pubs[p].lost
    <3>1. /\ pubs[p] \in PubTrack
          /\ pubs[p].recv = shown[p].recv + pubs[p].recv_tick
          /\ pubs[p].lost = shown[p].lost + pubs[p].lost_tick
      BY DEF WindowPartition, TypeOK
    <3>2. /\ pubs'[p] = TickReset(pubs[p])
          /\ shown'[p].recv = shown[p].recv + pubs[p].recv_tick
          /\ shown'[p].lost = shown[p].lost + pubs[p].lost_tick
      BY <1>2 DEF Snapshot, TypeOK
    <3>3. QED
      BY <3>1, <3>2 DEF TickReset, PubTrack
  <2>2. Total' = Total /\ Shown' = Total
    BY <2>1 DEF Total, Shown, Pairs
  <2>3. Shown' = [c \in Pairs |-> IF c \in Pairs THEN Total[c] ELSE Shown[c]]
    BY <2>2 DEF Total
  <2>4. \E due \in SUBSET Pairs :
          Shown' = [c \in Pairs |-> IF c \in due THEN Total[c] ELSE Shown[c]]
    BY <2>3
  <2>5. QED
    BY <2>2, <2>4 DEF Meter!Report, Total, Shown, Pairs
<1>3. ASSUME UNCHANGED <<pubs, shown>> PROVE UNCHANGED <<Total, Shown>>
  BY <1>3 DEF Total, Shown
<1>4. QED
  BY <1>1, <1>2, <1>3 DEF Next, Meter!Next, Publish, Lose, vars, regVars

\* The per-second lines of sub show each counter's growth since the line
\* before: the registry implements TickMeter.
THEOREM ImplementsMeter == Spec => MeterSpec
<1>1. Spec => []PartitionInv
  BY InitPartition, NextPartition, PTL DEF Spec
<1>2. PartitionInv /\ [Next]_vars => [Meter!Next]_<<Total, Shown>>
  BY MeterNext
<1>3. QED
  BY <1>1, <1>2, MeterInit, PTL DEF Spec, MeterSpec, Meter!Spec, Total, Shown, Pairs

----------------------------------------------------------------------------
(* The ledger of sequence numbers (GapLedger), as long as every seq fits   *)
(* last_seq. The invariant says that last_seq is then the highest seq that *)
(* arrived, which makes every gap add up.                                  *)

SeqsFit ==
  /\ \A p \in Publishers : sent[p] <= MaxSeq
  /\ \A p \in Publishers : \A s \in wire[p] : s < MaxSeq

Ledger(p) ==
  LET t == pubs[p]  o == obs[p] IN
  /\ t.id = 0 <=> o.arrivals = 0
  /\ t.id = 0 => o.late = 0
  /\ t.id # 0 =>
       /\ t.last_seq = o.high
       /\ o.first <= o.high
       /\ t.recv = o.arrivals
       /\ t.recv + t.lost = o.high - o.first + 1 + o.late

LedgerInv == PartitionInv /\ SeqsFit /\ \A p \in Publishers : Ledger(p)

LEMMA InitLedger == NoWrap /\ Init => LedgerInv
<1> SUFFICES ASSUME NoWrap, Init PROVE LedgerInv
  OBVIOUS
<1>1. PartitionInv
  BY InitPartition
<1>2. SeqsFit
  BY DEF NoWrap, Init, SeqsFit
<1>3. \A p \in Publishers : Ledger(p)
  BY DEF Init, Ledger, EmptyTrack, NothingSeen
<1>4. QED
  BY <1>1, <1>2, <1>3 DEF LedgerInv

\* A sample from p keeps p's ledger.
LEMMA HandleLedger ==
  ASSUME NoWrap, LedgerInv, NEW p \in Publishers, NEW s \in wire[p],
         NEW ns \in OnewayNs, Handle(p, s, ns)
  PROVE  Ledger(p)'
<1> USE DEF LedgerInv, PartitionInv
<1>1. /\ s \in Nat /\ pubs[p] \in PubTrack /\ next_id \in Nat \ {0}
      /\ obs[p] \in Observation
  BY DEF TypeOK
<1>2. s % SeqMod = s
  BY <1>1, ConstantsAssumption DEF NoWrap, SeqsFit
<1>3. Counted(pubs[p], pubs'[p], next_id, s)
  <2>1. pubs'[p] = LatAdd(IF pubs[p].id = 0 THEN FirstSample(pubs[p], next_id, s)
                                             ELSE NextSample(pubs[p], s), ns)
    BY DEF Handle, OnMessage, TypeOK
  <2>2. QED
    BY <1>1, <2>1, CountersStep
<1>4. obs'[p] = Observe(obs[p], s, ns)
  BY DEF Handle, TypeOK
<1>5. /\ obs'[p].arrivals = obs[p].arrivals + 1
      /\ obs'[p].first = IF obs[p].arrivals = 0 THEN s ELSE obs[p].first
      /\ obs'[p].high = IF obs[p].arrivals = 0 \/ s > obs[p].high THEN s ELSE obs[p].high
      /\ obs'[p].late = IF obs[p].arrivals > 0 /\ s <= obs[p].high
                        THEN obs[p].late + 1 ELSE obs[p].late
  BY <1>1, <1>4 DEF Observe, Observation
<1>6. CASE pubs[p].id = 0
  <2>1. pubs[p].lost = 0 /\ obs[p].arrivals = 0 /\ obs[p].late = 0
    BY <1>6 DEF Ledger, Blank, EmptyTrack
  <2>2. /\ pubs'[p].id # 0 /\ pubs'[p].recv = 1 /\ pubs'[p].lost = 0
        /\ pubs'[p].last_seq = s
    BY <1>1, <1>2, <1>3, <1>6, <2>1 DEF Counted
  <2>3. /\ obs'[p].arrivals = 1 /\ obs'[p].first = s /\ obs'[p].high = s
        /\ obs'[p].late = 0
    BY <1>5, <2>1
  <2>4. QED
    BY <1>1, <2>2, <2>3 DEF Ledger
<1>7. CASE pubs[p].id # 0
  <2>1. /\ pubs[p].last_seq = obs[p].high /\ obs[p].first <= obs[p].high
        /\ pubs[p].recv = obs[p].arrivals
        /\ pubs[p].recv + pubs[p].lost = obs[p].high - obs[p].first + 1 + obs[p].late
        /\ obs[p].arrivals > 0
    BY <1>1, <1>7 DEF Ledger, Observation
  <2>2. pubs'[p].id # 0 /\ pubs'[p].recv = pubs[p].recv + 1
    BY <1>3, <1>7 DEF Counted
  <2>3. obs'[p].arrivals = obs[p].arrivals + 1 /\ obs'[p].first = obs[p].first
    BY <1>5, <2>1
  <2>4. CASE s <= pubs[p].last_seq
    <3>1. pubs'[p].lost = pubs[p].lost /\ pubs'[p].last_seq = pubs[p].last_seq
      BY <1>3, <1>7, <2>4 DEF Counted
    <3>2. obs'[p].high = obs[p].high /\ obs'[p].late = obs[p].late + 1
      BY <1>1, <1>5, <2>1, <2>4 DEF Observation
    <3>3. QED
      BY <1>1, <2>1, <2>2, <2>3, <3>1, <3>2 DEF Ledger, PubTrack, Observation
  <2>5. CASE ~(s <= pubs[p].last_seq)
    <3>1. /\ pubs'[p].lost = pubs[p].lost + (s - pubs[p].last_seq - 1)
          /\ pubs'[p].last_seq = s
      BY <1>2, <1>3, <1>7, <2>5 DEF Counted
    <3>2. obs'[p].high = s /\ obs'[p].late = obs[p].late
      BY <1>1, <1>5, <2>1, <2>5 DEF Observation, PubTrack
    <3>3. QED
      BY <1>1, <2>1, <2>2, <2>3, <2>5, <3>1, <3>2 DEF Ledger, PubTrack, Observation
  <2>6. QED
    BY <2>4, <2>5
<1>8. QED
  BY <1>6, <1>7

LEMMA NextLedger == NoWrap /\ LedgerInv /\ [Next]_vars => LedgerInv'
<1> SUFFICES ASSUME NoWrap, LedgerInv, [Next]_vars PROVE LedgerInv'
  OBVIOUS
<1> USE DEF LedgerInv
<1>1. PartitionInv'
  BY NextPartition
<1>2. SeqsFit'
  <2>1. ASSUME NEW p \in Publishers, Publish(p) PROVE SeqsFit'
    <3>1. sent[p] \in Nat /\ sent[p] < MaxSeq
      BY <2>1 DEF Publish, PartitionInv, TypeOK
    <3>2. \A q \in Publishers : sent'[q] <= MaxSeq
      BY <2>1, <3>1, ConstantsAssumption DEF Publish, SeqsFit, PartitionInv, TypeOK
    <3>3. \A q \in Publishers : \A s \in wire'[q] : s < MaxSeq
      BY <2>1, <3>1 DEF Publish, SeqsFit, PartitionInv, TypeOK
    <3>4. QED
      BY <3>2, <3>3 DEF SeqsFit
  <2>2. ASSUME NEW p \in Publishers, NEW s \in wire[p], Lose(p, s) PROVE SeqsFit'
    BY <2>2 DEF Lose, SeqsFit, PartitionInv, TypeOK
  <2>3. ASSUME NEW p \in Publishers, NEW s \in wire[p], NEW ns \in OnewayNs,
               Handle(p, s, ns)
        PROVE  SeqsFit'
    BY <2>3 DEF Handle, SeqsFit, PartitionInv, TypeOK
  <2>4. ASSUME UNCHANGED <<sent, wire>> PROVE SeqsFit'
    BY <2>4 DEF SeqsFit
  <2>5. QED
    BY <2>1, <2>2, <2>3, <2>4 DEF Next, Snapshot, vars, netVars
<1>3. ASSUME NEW q \in Publishers PROVE Ledger(q)'
  <2>1. ASSUME NEW p \in Publishers, NEW s \in wire[p], NEW ns \in OnewayNs,
               Handle(p, s, ns)
        PROVE  Ledger(q)'
    <3>1. CASE q = p
      BY <2>1, <3>1, HandleLedger
    <3>2. CASE q # p
      <4>1. pubs'[q] = pubs[q] /\ obs'[q] = obs[q]
        BY <2>1, <3>2 DEF Handle, OnMessage, PartitionInv, TypeOK
      <4>2. QED
        BY <4>1 DEF Ledger
    <3>3. QED
      BY <3>1, <3>2
  <2>2. ASSUME Snapshot PROVE Ledger(q)'
    <3>1. pubs'[q] = TickReset(pubs[q]) /\ obs'[q] = [obs[q] EXCEPT !.fresh = 0]
      BY <2>2 DEF Snapshot
    <3>2. pubs[q] \in PubTrack /\ obs[q] \in Observation
      BY DEF PartitionInv, TypeOK
    <3>3. /\ pubs'[q].id = pubs[q].id /\ pubs'[q].last_seq = pubs[q].last_seq
          /\ pubs'[q].recv = pubs[q].recv /\ pubs'[q].lost = pubs[q].lost
          /\ obs'[q].arrivals = obs[q].arrivals /\ obs'[q].late = obs[q].late
          /\ obs'[q].first = obs[q].first /\ obs'[q].high = obs[q].high
      BY <3>1, <3>2 DEF TickReset, PubTrack, Observation
    <3>4. QED
      BY <3>3 DEF Ledger
  <2>3. ASSUME UNCHANGED <<pubs, obs>> PROVE Ledger(q)'
    BY <2>3 DEF Ledger
  <2>4. QED
    BY <2>1, <2>2, <2>3 DEF Next, Publish, Lose, vars, regVars
<1>4. QED
  BY <1>1, <1>2, <1>3

LEMMA AlwaysLedger == ASSUME NoWrap PROVE Spec => []LedgerInv
<1>1. Init => LedgerInv
  BY InitLedger
<1>2. LedgerInv /\ [Next]_vars => LedgerInv'
  BY NextLedger
<1>3. QED
  BY <1>1, <1>2, PTL DEF Spec

\* Received and lost add up to the stretch of seqs heard, for every order of
\* arrival, while seqs fit in 32 bits (PubRegistry::apply_seq_gap).
THEOREM GapsAddUp == ASSUME NoWrap PROVE Spec => []GapLedger
<1>1. LedgerInv => GapLedger
  BY DEF LedgerInv, Ledger, GapLedger, Known
<1>2. Spec => []LedgerInv
  BY AlwaysLedger
<1>3. QED
  BY <1>1, <1>2, PTL

----------------------------------------------------------------------------
(* No phantom loss on a network without faults, as long as every seq fits  *)
(* last_seq. What is in flight is then always a whole stretch of seqs, and *)
(* the one that follows last_seq.                                          *)

InFlight(p) ==
  /\ \A s \in wire[p] : s < sent[p]
  /\ \A s \in wire[p], t \in Nat : s <= t /\ t < sent[p] => t \in wire[p]
  /\ pubs[p].id # 0 =>
       /\ pubs[p].last_seq < sent[p]
       /\ \A t \in Nat : pubs[p].last_seq < t /\ t < sent[p] => t \in wire[p]
       /\ \A s \in wire[p] : pubs[p].last_seq < s

StretchInv ==
  /\ LedgerInv
  /\ net = {} => \A p \in Publishers : InFlight(p) /\ pubs[p].lost = 0

\* The next sample of p is the one last_seq expects.
LEMMA HandleStretch ==
  ASSUME NoWrap, StretchInv, net = {}, NEW p \in Publishers, NEW s \in wire[p],
         NEW ns \in OnewayNs, Handle(p, s, ns)
  PROVE  InFlight(p)' /\ pubs'[p].lost = 0
<1> USE DEF StretchInv, LedgerInv, PartitionInv
<1>1. /\ s \in Nat /\ pubs[p] \in PubTrack /\ next_id \in Nat \ {0}
      /\ sent[p] \in Nat /\ wire[p] \subseteq Nat /\ InFlight(p) /\ pubs[p].lost = 0
  BY DEF TypeOK
<1>2. s % SeqMod = s
  BY <1>1, ConstantsAssumption DEF NoWrap, SeqsFit
<1>3. Counted(pubs[p], pubs'[p], next_id, s)
  <2>1. pubs'[p] = LatAdd(IF pubs[p].id = 0 THEN FirstSample(pubs[p], next_id, s)
                                             ELSE NextSample(pubs[p], s), ns)
    BY DEF Handle, OnMessage, TypeOK
  <2>2. QED
    BY <1>1, <2>1, CountersStep
<1>4. \A q \in wire[p] : s <= q
  BY DEF Handle, Deliverable
<1>5. wire'[p] = wire[p] \ {s} /\ sent' = sent
  BY DEF Handle, TypeOK
<1>6. pubs[p].id # 0 => s = pubs[p].last_seq + 1
  <2> SUFFICES ASSUME pubs[p].id # 0 PROVE s = pubs[p].last_seq + 1
    OBVIOUS
  <2>1. pubs[p].last_seq \in Nat /\ pubs[p].last_seq < s /\ s < sent[p]
    BY <1>1 DEF InFlight, PubTrack
  <2>2. pubs[p].last_seq + 1 \in wire[p]
    BY <1>1, <2>1 DEF InFlight
  <2>3. QED
    BY <1>1, <1>4, <2>1, <2>2
<1>7. pubs'[p].id # 0 /\ pubs'[p].last_seq = s /\ pubs'[p].lost = 0
  BY <1>1, <1>2, <1>3, <1>6 DEF Counted, PubTrack
<1>8. InFlight(p)'
  <2>1. \A q \in wire'[p] : q < sent'[p] /\ s < q
    BY <1>1, <1>4, <1>5 DEF InFlight
  <2>2. \A q \in wire'[p], t \in Nat : q <= t /\ t < sent'[p] => t \in wire'[p]
    BY <1>1, <1>5, <2>1 DEF InFlight
  <2>3. s < sent'[p]
    BY <1>1, <1>5 DEF InFlight
  <2>4. \A t \in Nat : s < t /\ t < sent'[p] => t \in wire'[p]
    BY <1>1, <1>5 DEF InFlight
  <2>5. QED
    BY <1>7, <2>1, <2>2, <2>3, <2>4 DEF InFlight
<1>9. QED
  BY <1>7, <1>8

LEMMA NextStretch == NoWrap /\ StretchInv /\ [Next]_vars => StretchInv'
<1> SUFFICES ASSUME NoWrap, StretchInv, [Next]_vars PROVE StretchInv'
  OBVIOUS
<1>1. LedgerInv'
  BY NextLedger DEF StretchInv
<1>2. net' = net
  BY DEF Next, Publish, Lose, Handle, Snapshot, vars, netVars
<1>3. ASSUME net = {}, NEW q \in Publishers
      PROVE  InFlight(q)' /\ pubs'[q].lost = 0
  <2> USE DEF StretchInv, LedgerInv, PartitionInv
  <2>1. /\ InFlight(q) /\ pubs[q].lost = 0 /\ pubs[q] \in PubTrack
        /\ sent[q] \in Nat /\ wire[q] \subseteq Nat
    BY <1>3 DEF TypeOK
  <2>2. ASSUME NEW p \in Publishers, Publish(p) PROVE InFlight(q)' /\ pubs'[q].lost = 0
    <3>1. pubs' = pubs
      BY <2>2 DEF Publish, regVars
    <3>2. CASE q = p
      <4>1. sent'[q] = sent[q] + 1 /\ wire'[q] = wire[q] \cup {sent[q]}
        BY <2>2, <3>2 DEF Publish, TypeOK
      <4>2. pubs[q].last_seq \in Nat
        BY <2>1 DEF PubTrack
      <4>3. QED
        BY <2>1, <3>1, <4>1, <4>2 DEF InFlight
    <3>3. CASE q # p
      <4>1. sent'[q] = sent[q] /\ wire'[q] = wire[q]
        BY <2>2, <3>3 DEF Publish, TypeOK
      <4>2. QED
        BY <2>1, <3>1, <4>1 DEF InFlight
    <3>4. QED
      BY <3>2, <3>3
  <2>3. ASSUME NEW p \in Publishers, NEW s \in wire[p], NEW ns \in OnewayNs,
               Handle(p, s, ns)
        PROVE  InFlight(q)' /\ pubs'[q].lost = 0
    <3>1. CASE q = p
      BY <1>3, <2>3, <3>1, HandleStretch
    <3>2. CASE q # p
      <4>1. sent'[q] = sent[q] /\ wire'[q] = wire[q] /\ pubs'[q] = pubs[q]
        BY <2>3, <3>2 DEF Handle, OnMessage, TypeOK
      <4>2. QED
        BY <2>1, <4>1 DEF InFlight
    <3>3. QED
      BY <3>1, <3>2
  <2>4. ASSUME Snapshot PROVE InFlight(q)' /\ pubs'[q].lost = 0
    <3>1. sent' = sent /\ wire' = wire /\ pubs'[q] = TickReset(pubs[q])
      BY <2>4 DEF Snapshot, netVars
    <3>2. /\ pubs'[q].id = pubs[q].id /\ pubs'[q].last_seq = pubs[q].last_seq
          /\ pubs'[q].lost = pubs[q].lost
      BY <2>1, <3>1 DEF TickReset, PubTrack
    <3>3. QED
      BY <2>1, <3>1, <3>2 DEF InFlight
  <2>5. ASSUME NEW p \in Publishers, NEW s \in wire[p], Lose(p, s)
        PROVE  InFlight(q)' /\ pubs'[q].lost = 0
    BY <1>3, <2>5 DEF Lose
  <2>6. CASE UNCHANGED vars
    BY <2>1, <2>6 DEF InFlight, vars, netVars, regVars
  <2>7. QED
    BY <2>2, <2>3, <2>4, <2>5, <2>6 DEF Next
<1>4. QED
  BY <1>1, <1>2, <1>3 DEF StretchInv

\* On a network that neither loses, reorders nor duplicates, "lost total" stays
\* zero while seqs fit in 32 bits. (Beyond, it does not: PubTrack::last_seq.)
THEOREM NothingMadeUp == ASSUME NoWrap PROVE Spec => []NoPhantomLoss
<1>1. Init => StretchInv
  <2> SUFFICES ASSUME Init PROVE StretchInv
    OBVIOUS
  <2>1. LedgerInv
    BY InitLedger
  <2>2. \A p \in Publishers : InFlight(p) /\ pubs[p].lost = 0
    BY DEF Init, InFlight, EmptyTrack
  <2>3. QED
    BY <2>1, <2>2 DEF StretchInv
<1>2. StretchInv /\ [Next]_vars => StretchInv'
  BY NextStretch
<1>3. StretchInv => NoPhantomLoss
  BY DEF StretchInv, NoPhantomLoss
<1>4. QED
  BY <1>1, <1>2, <1>3, PTL DEF Spec

----------------------------------------------------------------------------
(* The latency window (LatencyWindow). The tick skips a publisher with     *)
(* nothing received and nothing lost, and leaves its window alone: that is *)
(* sound because every latency sample came with a received one.            *)

SamplesArrived == \A p \in Publishers : obs[p].fresh <= pubs[p].recv_tick

WindowInv == PartitionInv /\ LatencyWindow /\ SamplesArrived

\* A sample adds one latency at most, to a window that is not full.
LEMMA HandleWindow ==
  ASSUME WindowInv, NEW p \in Publishers, NEW s \in wire[p],
         NEW ns \in OnewayNs, Handle(p, s, ns)
  PROVE  /\ pubs'[p].lat_window =
              IF obs'[p].fresh < WindowCap THEN obs'[p].fresh ELSE WindowCap
         /\ obs'[p].fresh <= pubs'[p].recv_tick
<1> USE DEF WindowInv, PartitionInv
<1> DEFINE c == IF pubs[p].id = 0 THEN FirstSample(pubs[p], next_id, s)
                                  ELSE NextSample(pubs[p], s)
<1>1. /\ s \in Nat /\ pubs[p] \in PubTrack /\ next_id \in Nat \ {0}
      /\ obs[p] \in Observation /\ WindowCap \in Nat /\ ns \in Int
  BY ConstantsAssumption DEF TypeOK
<1>2. c \in PubTrack
  BY <1>1, TrackTypes
<1>3. pubs'[p] = LatAdd(c, ns)
  BY DEF Handle, OnMessage, TypeOK
<1>4. c.lat_window = pubs[p].lat_window
  <2>1. CASE pubs[p].id = 0
    BY <1>1, <2>1 DEF FirstSample, PubTrack
  <2>2. CASE pubs[p].id # 0 /\ s <= pubs[p].last_seq
    BY <1>1, <2>2 DEF NextSample, ApplySeqGap, PubTrack
  <2>3. CASE pubs[p].id # 0 /\ ~(s <= pubs[p].last_seq)
    BY <1>1, <2>3 DEF NextSample, ApplySeqGap, PubTrack
  <2>4. QED
    BY <2>1, <2>2, <2>3
<1>5. pubs'[p].recv_tick = pubs[p].recv_tick + 1
  <2>1. Counted(pubs[p], pubs'[p], next_id, s)
    BY <1>1, <1>3, CountersStep
  <2>2. pubs[p].id = 0 => pubs[p].recv_tick = 0
    BY DEF Blank, EmptyTrack
  <2>3. QED
    BY <1>1, <2>1, <2>2 DEF Counted, PubTrack
<1>6. obs'[p].fresh = IF ns >= 0 THEN obs[p].fresh + 1 ELSE obs[p].fresh
  BY <1>1 DEF Handle, Observe, Observation, TypeOK
<1> HIDE DEF c
<1>7. /\ pubs[p].lat_window =
           IF obs[p].fresh < WindowCap THEN obs[p].fresh ELSE WindowCap
      /\ obs[p].fresh <= pubs[p].recv_tick
      /\ obs[p].fresh \in Nat /\ pubs[p].recv_tick \in Nat
  BY <1>1 DEF LatencyWindow, SamplesArrived, Observation, PubTrack
<1>8. pubs'[p].lat_window =
        IF ns >= 0 /\ pubs[p].lat_window < WindowCap
        THEN pubs[p].lat_window + 1 ELSE pubs[p].lat_window
  BY <1>2, <1>3, <1>4 DEF LatAdd, PubTrack
<1>9. QED
  BY <1>1, <1>5, <1>6, <1>7, <1>8

LEMMA NextWindow == WindowInv /\ [Next]_vars => WindowInv'
<1> SUFFICES ASSUME WindowInv, [Next]_vars PROVE WindowInv'
  OBVIOUS
<1>1. PartitionInv'
  BY NextPartition DEF WindowInv
<1>2. ASSUME NEW q \in Publishers
      PROVE  /\ pubs'[q].lat_window =
                  IF obs'[q].fresh < WindowCap THEN obs'[q].fresh ELSE WindowCap
             /\ obs'[q].fresh <= pubs'[q].recv_tick
  <2>1. /\ pubs[q].lat_window =
              IF obs[q].fresh < WindowCap THEN obs[q].fresh ELSE WindowCap
        /\ obs[q].fresh <= pubs[q].recv_tick
        /\ pubs[q] \in PubTrack /\ obs[q] \in Observation /\ WindowCap \in Nat
    BY ConstantsAssumption
       DEF WindowInv, PartitionInv, LatencyWindow, SamplesArrived, TypeOK
  <2>2. ASSUME NEW p \in Publishers, NEW s \in wire[p], NEW ns \in OnewayNs,
               Handle(p, s, ns)
        PROVE  /\ pubs'[q].lat_window =
                    IF obs'[q].fresh < WindowCap THEN obs'[q].fresh ELSE WindowCap
               /\ obs'[q].fresh <= pubs'[q].recv_tick
    <3>1. CASE q = p
      BY <2>2, <3>1, HandleWindow
    <3>2. CASE q # p
      <4>1. pubs'[q] = pubs[q] /\ obs'[q] = obs[q]
        BY <2>2, <3>2 DEF Handle, OnMessage, WindowInv, PartitionInv, TypeOK
      <4>2. QED
        BY <2>1, <4>1
    <3>3. QED
      BY <3>1, <3>2
  <2>3. CASE Snapshot
    <3>1. pubs'[q] = TickReset(pubs[q]) /\ obs'[q] = [obs[q] EXCEPT !.fresh = 0]
      BY <2>3 DEF Snapshot
    <3>2. obs'[q].fresh = 0
      BY <2>1, <3>1 DEF Observation
    <3>3. pubs'[q].lat_window = 0 /\ pubs'[q].recv_tick = 0
      BY <2>1, <3>1 DEF TickReset, Idle, PubTrack, Observation
    <3>4. QED
      BY <2>1, <3>2, <3>3
  <2>4. CASE UNCHANGED <<pubs, obs>>
    BY <2>1, <2>4
  <2>5. QED
    BY <2>2, <2>3, <2>4 DEF Next, Publish, Lose, vars, regVars
<1>3. QED
  BY <1>1, <1>2 DEF WindowInv, LatencyWindow, SamplesArrived

\* The latency window of a line holds the samples since the line before, up to
\* its cap, also past a tick that skipped the publisher (PubRegistry::snapshot).
THEOREM WindowHoldsTheTick == Spec => []LatencyWindow
<1>1. Init => WindowInv
  <2> SUFFICES ASSUME Init PROVE WindowInv
    OBVIOUS
  <2>1. PartitionInv
    BY InitPartition
  <2>2. LatencyWindow /\ SamplesArrived
    BY ConstantsAssumption
       DEF Init, LatencyWindow, SamplesArrived, EmptyTrack, NothingSeen
  <2>3. QED
    BY <2>1, <2>2 DEF WindowInv
<1>2. WindowInv => LatencyWindow
  BY DEF WindowInv
<1>3. QED
  BY <1>1, <1>2, NextWindow, PTL DEF Spec

----------------------------------------------------------------------------
(* No loss is missed (LossReported). The arrivals that advanced last_seq   *)
(* are distinct seqs of the stretch heard, so what the ledger calls lost   *)
(* is at least what was never heard of it; in order, each arrival advances *)
(* and each seq of the stretch was heard or dropped.                       *)

\* What was heard between f and h.
Between(H, f, h) == H \cap (f .. h)

\* What was dropped strictly inside.
Missing(D, f, h) == {s \in D : f < s /\ s < h}

LEMMA BetweenFinite ==
  ASSUME NEW H, NEW f \in Nat, NEW h \in Nat
  PROVE  /\ IsFiniteSet(Between(H, f, h))
         /\ Cardinality(Between(H, f, h)) \in Nat
<1>1. IsFiniteSet(f .. h)
  BY FS_Interval
<1>2. Between(H, f, h) \in SUBSET (f .. h)
  BY DEF Between
<1>3. IsFiniteSet(Between(H, f, h))
  BY <1>1, <1>2, FS_Subset
<1>4. QED
  BY <1>3, FS_CardinalityType

\* A sample that advances is one more of the stretch.
LEMMA Advances ==
  ASSUME NEW H, NEW f \in Nat, NEW h \in Nat, NEW s \in Nat,
         f <= h, h < s, \A x \in H : x <= h
  PROVE  Cardinality(Between(H \cup {s}, f, s)) = Cardinality(Between(H, f, h)) + 1
<1>1. Between(H \cup {s}, f, s) = Between(H, f, h) \cup {s}
  BY DEF Between
<1>2. s \notin Between(H, f, h)
  BY DEF Between
<1>3. QED
  BY <1>1, <1>2, BetweenFinite, FS_AddElement

\* A sample that does not advance takes nothing from it.
LEMMA FallsBehind ==
  ASSUME NEW H, NEW f \in Nat, NEW h \in Nat, NEW s
  PROVE  Cardinality(Between(H, f, h)) <= Cardinality(Between(H \cup {s}, f, h))
<1>1. Between(H, f, h) \in SUBSET Between(H \cup {s}, f, h)
  BY DEF Between
<1>2. QED
  BY <1>1, BetweenFinite, FS_Subset

\* What was dropped strictly inside the stretch, and what was heard of it,
\* share the stretch; and fill it when nothing else happened to a seq.
LEMMA Shared ==
  ASSUME NEW H, NEW D, NEW f \in Nat, NEW h \in Nat, f <= h, H \cap D = {},
         D \in SUBSET Nat
  PROVE  LET missing == Cardinality(Missing(D, f, h))
             between == Cardinality(Between(H, f, h))
         IN  /\ missing \in Nat
             /\ missing + between <= h - f + 1
             /\ f \in H /\ h \in H /\ f .. h \subseteq H \cup D =>
                  missing + between = h - f + 1
<1> DEFINE B == Between(H, f, h)
           real == Missing(D, f, h)
<1>1. IsFiniteSet(f .. h) /\ Cardinality(f .. h) = h - f + 1
  <2>1. /\ IsFiniteSet(f .. h)
        /\ Cardinality(f .. h) = IF f > h THEN 0 ELSE h - f + 1
    BY FS_Interval
  <2>2. QED
    BY <2>1
<1>2. real \in SUBSET (f .. h) /\ real \cap B = {} /\ real \cup B \in SUBSET (f .. h)
  <2>1. \A x \in real : x \in D /\ x \in Nat /\ f < x /\ x < h
    BY DEF Missing
  <2>2. \A x \in real : x \in f .. h /\ x \notin H
    BY <2>1
  <2>3. \A x \in B : x \in f .. h /\ x \in H
    BY DEF Between
  <2> HIDE DEF B
  <2>4. QED
    BY <2>2, <2>3
<1>3. IsFiniteSet(real) /\ IsFiniteSet(B) /\ Cardinality(B) \in Nat
  BY <1>1, <1>2, FS_Subset, BetweenFinite
<1>4. Cardinality(real) \in Nat
  BY <1>3, FS_CardinalityType
<1>5. Cardinality(real \cup B) = Cardinality(real) + Cardinality(B)
  <2> HIDE DEF B
  <2>1. Cardinality(real \cup B) =
          Cardinality(real) + Cardinality(B) - Cardinality(real \cap B)
    BY <1>3, FS_Union
  <2>2. Cardinality(real \cap B) = 0
    BY <1>2, FS_EmptySet
  <2>3. QED
    BY <1>3, <1>4, <2>1, <2>2
<1>6. Cardinality(real \cup B) <= Cardinality(f .. h)
  <2> HIDE DEF B
  <2>1. QED
    BY <1>1, <1>2, FS_Subset
<1>7. ASSUME f \in H, h \in H, f .. h \subseteq H \cup D PROVE real \cup B = f .. h
  <2>1. ASSUME NEW x \in f .. h PROVE x \in real \cup B
    <3>1. CASE x \in H
      BY <3>1 DEF Between
    <3>2. CASE x \notin H
      <4>1. x \in D /\ x # f /\ x # h
        BY <1>7, <3>2
      <4>2. f < x /\ x < h
        BY <4>1
      <4>3. QED
        BY <4>1, <4>2 DEF Missing
    <3>3. QED
      BY <3>1, <3>2
  <2> HIDE DEF B, real
  <2>2. QED
    BY <1>2, <2>1
<1>8. QED
  BY <1>1, <1>4, <1>5, <1>6, <1>7

\* A seq is in flight or dropped or heard, never dropped and one of the others.
Published(p) == wire[p] \cup dropped[p] \cup obs[p].heard

Traffic(p) ==
  LET o == obs[p] IN
  /\ \A s \in Published(p) : s < sent[p]
  /\ dropped[p] \cap wire[p] = {} /\ o.heard \cap dropped[p] = {}
  /\ o.arrivals > 0 =>
       /\ o.first \in o.heard /\ o.high \in o.heard /\ o.first <= o.high
       /\ \A s \in o.heard : s <= o.high
  /\ o.arrivals = 0 => o.heard = {}

Stretch(o) == Cardinality(Between(o.heard, o.first, o.high))

Tally(p) == obs[p].arrivals > 0 => obs[p].arrivals <= Stretch(obs[p]) + obs[p].late

\* In order, nothing comes late and no seq is skipped.
InOrder(p) ==
  LET o == obs[p] IN
  /\ o.late = 0
  /\ o.arrivals > 0 =>
       o.arrivals = Stretch(o) /\ \A s \in wire[p] : o.high < s
  /\ \A s \in Published(p), t \in Nat : s <= t /\ t < sent[p] => t \in Published(p)

Seen(p) ==
  /\ Traffic(p) /\ Tally(p)
  /\ net \subseteq {"lose"} => InOrder(p)

LossInv == LedgerInv /\ \A p \in Publishers : Seen(p)

LEMMA LossTypes ==
  ASSUME LossInv, NEW p \in Publishers
  PROVE  /\ sent[p] \in Nat /\ wire[p] \in SUBSET Nat /\ dropped[p] \in SUBSET Nat
         /\ obs[p] \in Observation /\ pubs[p] \in PubTrack
         /\ obs[p].heard \in SUBSET Nat /\ obs[p].first \in Nat /\ obs[p].high \in Nat
         /\ obs[p].arrivals \in Nat /\ obs[p].late \in Nat
<1>1. /\ sent[p] \in Nat /\ wire[p] \in SUBSET Nat /\ dropped[p] \in SUBSET Nat
      /\ obs[p] \in Observation /\ pubs[p] \in PubTrack
  BY DEF LossInv, LedgerInv, PartitionInv, TypeOK
<1>2. QED
  BY <1>1 DEF Observation

\* Publishing adds the next seq to those in flight.
LEMMA PublishSeen ==
  ASSUME LossInv, NEW p \in Publishers, Publish(p)
  PROVE  Seen(p)'
<1>1. /\ sent'[p] = sent[p] + 1 /\ wire'[p] = wire[p] \cup {sent[p]}
      /\ obs' = obs /\ dropped' = dropped /\ net' = net
  BY DEF Publish, LossInv, LedgerInv, PartitionInv, TypeOK
<1>2. Seen(p)
  BY DEF LossInv
<1>3. Published(p)' = Published(p) \cup {sent[p]}
  BY <1>1 DEF Published
<1>4. \A s \in Published(p) : s < sent[p] /\ s \in Nat
  BY <1>2, LossTypes DEF Seen, Traffic, Published
<1>5. \A s \in Published(p)' : s < sent'[p]
  BY <1>1, <1>3, <1>4, LossTypes
<1>6. Traffic(p)'
  <2>1. sent[p] \notin dropped[p]
    BY <1>4, LossTypes DEF Published
  <2>2. dropped'[p] \cap wire'[p] = {}
    BY <1>1, <1>2, <2>1 DEF Seen, Traffic
  <2>3. QED
    BY <1>1, <1>2, <1>5, <2>2 DEF Seen, Traffic
<1>7. Tally(p)'
  BY <1>1, <1>2 DEF Seen, Tally, Stretch
<1>8. InOrder(p) => InOrder(p)'
  <2> SUFFICES ASSUME InOrder(p) PROVE InOrder(p)'
    OBVIOUS
  <2>1. obs[p].arrivals > 0 => \A s \in wire'[p] : obs[p].high < s
    BY <1>1, <1>2, <1>4 DEF Seen, Traffic, InOrder, Published
  <2>2. ASSUME NEW s \in Published(p)', NEW t \in Nat, s <= t, t < sent'[p]
        PROVE  t \in Published(p)'
    <3>1. CASE t = sent[p]
      BY <1>3, <3>1
    <3>2. CASE t < sent[p]
      <4>1. s \in Published(p)
        BY <1>3, <2>2, <3>2, LossTypes
      <4>2. QED
        BY <1>3, <2>2, <3>2, <4>1 DEF InOrder
    <3>3. QED
      BY <1>1, <2>2, <3>1, <3>2, LossTypes
  <2>3. QED
    BY <1>1, <2>1, <2>2 DEF InOrder, Stretch
<1>9. QED
  BY <1>1, <1>2, <1>6, <1>7, <1>8 DEF Seen

\* Losing a sample that was not heard moves its seq to the dropped ones.
LEMMA LoseSeen ==
  ASSUME LossInv, NEW p \in Publishers, NEW s \in wire[p], Lose(p, s)
  PROVE  Seen(p)'
<1>1. /\ wire'[p] = wire[p] \ {s} /\ dropped'[p] = dropped[p] \cup ({s} \ obs[p].heard)
      /\ obs' = obs /\ sent' = sent /\ net' = net
  BY DEF Lose, LossInv, LedgerInv, PartitionInv, TypeOK
<1>2. Seen(p)
  BY DEF LossInv
<1>3. Published(p)' = Published(p)
  BY <1>1 DEF Published
<1>4. Traffic(p)'
  BY <1>1, <1>2, <1>3 DEF Seen, Traffic
<1>5. Tally(p)'
  BY <1>1, <1>2 DEF Seen, Tally, Stretch
<1>6. InOrder(p) => InOrder(p)'
  BY <1>1, <1>3 DEF InOrder, Stretch
<1>7. QED
  BY <1>1, <1>2, <1>4, <1>5, <1>6 DEF Seen

\* An arrival: its seq is heard, and advances or comes late.
LEMMA HandleSeen ==
  ASSUME LossInv, NEW p \in Publishers, NEW s \in wire[p], NEW ns \in OnewayNs,
         Handle(p, s, ns)
  PROVE  Seen(p)'
<1> DEFINE o == obs[p]  n == obs'[p]
<1>1. Seen(p)
  BY DEF LossInv
<1>2. /\ s \in Nat /\ s < sent[p] /\ s \notin dropped[p]
  BY <1>1, LossTypes DEF Seen, Traffic, Published
<1>3. /\ sent' = sent /\ dropped' = dropped /\ net' = net
      /\ wire'[p] \subseteq wire[p] /\ wire[p] \subseteq wire'[p] \cup {s}
      /\ net \subseteq {"lose"} => wire'[p] = wire[p] \ {s} /\ \A q \in wire[p] : s <= q
  BY DEF Handle, Deliverable, LossInv, LedgerInv, PartitionInv, TypeOK
<1>4. n = Observe(o, s, ns)
  BY DEF Handle, LossInv, LedgerInv, PartitionInv, TypeOK
<1>5. /\ n.heard = o.heard \cup {s}
      /\ n.first = IF o.arrivals = 0 THEN s ELSE o.first
      /\ n.high = IF o.arrivals = 0 \/ s > o.high THEN s ELSE o.high
      /\ n.arrivals = o.arrivals + 1
      /\ n.late = IF o.arrivals > 0 /\ s <= o.high THEN o.late + 1 ELSE o.late
  BY <1>4 DEF Observe
<1>6. /\ o.heard \in SUBSET Nat /\ o.first \in Nat /\ o.high \in Nat
      /\ o.arrivals \in Nat /\ o.late \in Nat /\ sent[p] \in Nat
      /\ wire[p] \in SUBSET Nat /\ dropped[p] \in SUBSET Nat
  BY LossTypes
<1>7. Published(p)' = Published(p)
  BY <1>3, <1>5 DEF Published
<1> HIDE DEF o, n
<1>8. /\ o.arrivals > 0 => /\ o.first \in o.heard /\ o.high \in o.heard /\ o.first <= o.high
                           /\ \A x \in o.heard : x <= o.high
      /\ o.arrivals = 0 => o.heard = {}
      /\ o.heard \cap dropped[p] = {} /\ dropped[p] \cap wire[p] = {}
      /\ \A x \in Published(p) : x < sent[p]
      /\ o.arrivals > 0 => o.arrivals <= Stretch(o) + o.late
  BY <1>1 DEF Seen, Traffic, Tally, o
<1>9. Traffic(p)'
  <2>1. /\ n.first \in n.heard /\ n.high \in n.heard /\ n.first <= n.high
        /\ \A x \in n.heard : x <= n.high
    <3>1. CASE o.arrivals = 0
      BY <1>2, <1>5, <1>8, <3>1
    <3>2. CASE o.arrivals # 0
      <4>1. o.arrivals > 0
        BY <1>6, <3>2
      <4>2. CASE s > o.high
        BY <1>2, <1>5, <1>6, <1>8, <3>2, <4>1, <4>2
      <4>3. CASE ~(s > o.high)
        BY <1>2, <1>5, <1>6, <1>8, <3>2, <4>1, <4>3
      <4>4. QED
        BY <4>2, <4>3
    <3>3. QED
      BY <3>1, <3>2
  <2>2. n.arrivals > 0 /\ n.arrivals # 0
    BY <1>5, <1>6
  <2>3. n.heard \cap dropped'[p] = {} /\ dropped'[p] \cap wire'[p] = {}
    BY <1>2, <1>3, <1>5, <1>8
  <2>4. \A x \in Published(p)' : x < sent'[p]
    BY <1>3, <1>7, <1>8
  <2>5. QED
    BY <2>1, <2>2, <2>3, <2>4 DEF Traffic, n
<1>10. /\ o.arrivals = 0 => Stretch(n) = 1
       /\ o.arrivals > 0 /\ s > o.high => Stretch(n) = Stretch(o) + 1
       /\ o.arrivals > 0 /\ s <= o.high => Stretch(o) <= Stretch(n)
       /\ Stretch(n) \in Nat /\ Stretch(o) \in Nat
  <2>1. ASSUME o.arrivals = 0 PROVE Stretch(n) = 1
    <3>1. Between(n.heard, n.first, n.high) = {s}
      BY <1>2, <1>5, <1>8, <2>1 DEF Between
    <3>2. QED
      BY <3>1, FS_Singleton DEF Stretch
  <2>2. ASSUME o.arrivals > 0, s > o.high PROVE Stretch(n) = Stretch(o) + 1
    <3>1. n.heard = o.heard \cup {s} /\ n.first = o.first /\ n.high = s
      BY <1>5, <1>6, <2>2
    <3>2. Cardinality(Between(o.heard \cup {s}, o.first, s)) =
            Cardinality(Between(o.heard, o.first, o.high)) + 1
      BY <1>2, <1>6, <1>8, <2>2, Advances
    <3>3. QED
      BY <3>1, <3>2 DEF Stretch
  <2>3. ASSUME o.arrivals > 0, s <= o.high PROVE Stretch(o) <= Stretch(n)
    <3>1. n.heard = o.heard \cup {s} /\ n.first = o.first /\ n.high = o.high
      BY <1>2, <1>5, <1>6, <2>3
    <3>2. QED
      BY <1>6, <3>1, FallsBehind DEF Stretch
  <2>4. n.first \in Nat /\ n.high \in Nat
    BY <1>2, <1>5, <1>6
  <2>5. QED
    BY <1>6, <2>1, <2>2, <2>3, <2>4, BetweenFinite DEF Stretch
<1>11. Tally(p)'
  <2>1. n.arrivals <= Stretch(n) + n.late
    <3>1. CASE o.arrivals = 0
      BY <1>5, <1>6, <1>10, <3>1
    <3>2. CASE o.arrivals > 0 /\ s > o.high
      BY <1>2, <1>5, <1>6, <1>8, <1>10, <3>2
    <3>3. CASE o.arrivals > 0 /\ s <= o.high
      BY <1>2, <1>5, <1>6, <1>8, <1>10, <3>3
    <3>4. QED
      BY <1>2, <1>6, <3>1, <3>2, <3>3
  <2>2. QED
    BY <2>1 DEF Tally, n
<1>12. ASSUME net \subseteq {"lose"} PROVE InOrder(p)'
  <2>1. /\ o.late = 0
        /\ o.arrivals > 0 => o.arrivals = Stretch(o) /\ \A x \in wire[p] : o.high < x
        /\ \A x \in Published(p), t \in Nat : x <= t /\ t < sent[p] => t \in Published(p)
    BY <1>1, <1>12 DEF Seen, InOrder, o
  <2>2. o.arrivals = 0 \/ (o.arrivals > 0 /\ s > o.high)
    BY <1>2, <1>6, <2>1
  <2>3. n.high = s /\ n.late = 0 /\ n.arrivals = o.arrivals + 1
    BY <1>2, <1>5, <1>6, <2>1, <2>2
  <2>4. n.arrivals = Stretch(n)
    BY <1>6, <1>10, <2>1, <2>2, <2>3
  <2>5. \A x \in wire'[p] : n.high < x
    BY <1>2, <1>3, <1>6, <1>12, <2>3
  <2>6. \A x \in Published(p)', t \in Nat : x <= t /\ t < sent'[p] => t \in Published(p)'
    BY <1>3, <1>7, <2>1
  <2>7. QED
    BY <2>3, <2>4, <2>5, <2>6 DEF InOrder, n
<1>13. QED
  BY <1>3, <1>9, <1>11, <1>12 DEF Seen

LEMMA NextLoss == NoWrap /\ LossInv /\ [Next]_vars => LossInv'
<1> SUFFICES ASSUME NoWrap, LossInv, [Next]_vars PROVE LossInv'
  OBVIOUS
<1>1. LedgerInv'
  BY NextLedger DEF LossInv
<1>2. ASSUME NEW q \in Publishers PROVE Seen(q)'
  <2>1. Seen(q)
    BY DEF LossInv
  <2>2. ASSUME sent'[q] = sent[q], wire'[q] = wire[q], dropped'[q] = dropped[q],
               net' = net, obs'[q].heard = obs[q].heard,
               obs'[q].first = obs[q].first, obs'[q].high = obs[q].high,
               obs'[q].arrivals = obs[q].arrivals, obs'[q].late = obs[q].late
        PROVE  Seen(q)'
    BY <2>1, <2>2 DEF Seen, Traffic, Tally, InOrder, Published, Stretch
  <2>3. ASSUME NEW p \in Publishers, Publish(p) PROVE Seen(q)'
    <3>1. CASE q = p
      BY <2>3, <3>1, PublishSeen
    <3>2. CASE q # p
      BY <2>2, <2>3, <3>2 DEF Publish, LossInv, LedgerInv, PartitionInv, TypeOK
    <3>3. QED
      BY <3>1, <3>2
  <2>4. ASSUME NEW p \in Publishers, NEW s \in wire[p], Lose(p, s) PROVE Seen(q)'
    <3>1. CASE q = p
      BY <2>4, <3>1, LoseSeen
    <3>2. CASE q # p
      BY <2>2, <2>4, <3>2 DEF Lose, LossInv, LedgerInv, PartitionInv, TypeOK
    <3>3. QED
      BY <3>1, <3>2
  <2>5. ASSUME NEW p \in Publishers, NEW s \in wire[p], NEW ns \in OnewayNs,
               Handle(p, s, ns)
        PROVE  Seen(q)'
    <3>1. CASE q = p
      BY <2>5, <3>1, HandleSeen
    <3>2. CASE q # p
      BY <2>2, <2>5, <3>2 DEF Handle, LossInv, LedgerInv, PartitionInv, TypeOK
    <3>3. QED
      BY <3>1, <3>2
  <2>6. CASE Snapshot
    <3>1. obs[q] \in Observation
      BY LossTypes
    <3>2. obs'[q] = [obs[q] EXCEPT !.fresh = 0]
      BY <2>6 DEF Snapshot
    <3>3. /\ obs'[q].heard = obs[q].heard /\ obs'[q].late = obs[q].late
          /\ obs'[q].first = obs[q].first /\ obs'[q].high = obs[q].high
          /\ obs'[q].arrivals = obs[q].arrivals
      BY <3>1, <3>2 DEF Observation
    <3>4. QED
      BY <2>2, <2>6, <3>3 DEF Snapshot, netVars
  <2>7. CASE UNCHANGED vars
    BY <2>2, <2>7 DEF vars, netVars
  <2>8. QED
    BY <2>3, <2>4, <2>5, <2>6, <2>7 DEF Next
<1>3. QED
  BY <1>1, <1>2 DEF LossInv

\* A seq dropped between two that were heard is in "lost total" for any order of
\* arrival, and nothing else is on a topic that keeps its order, while seqs fit
\* in 32 bits (PubRegistry::apply_seq_gap).
THEOREM NoLossMissed == ASSUME NoWrap PROVE Spec => []LossReported
<1>1. Init => LossInv
  <2> SUFFICES ASSUME Init PROVE LossInv
    OBVIOUS
  <2>1. LedgerInv
    BY InitLedger
  <2>2. ASSUME NEW p \in Publishers PROVE Seen(p)
    <3>1. wire[p] = {} /\ dropped[p] = {} /\ obs[p] = NothingSeen
      BY DEF Init
    <3>2. obs[p].heard = {} /\ obs[p].arrivals = 0 /\ obs[p].late = 0
      BY <3>1 DEF NothingSeen
    <3>3. Published(p) = {}
      BY <3>1, <3>2 DEF Published
    <3>4. QED
      BY <3>1, <3>2, <3>3 DEF Seen, Traffic, Tally, InOrder
  <2>3. QED
    BY <2>1, <2>2 DEF LossInv
<1>2. LossInv /\ [Next]_vars => LossInv'
  BY NextLoss
<1>3. LossInv => LossReported
  <2> SUFFICES ASSUME LossInv, NEW p \in Publishers, Known(p)
               PROVE  LET o == obs[p]
                          real == {s \in dropped[p] : o.first < s /\ s < o.high}
                      IN  /\ Cardinality(real) <= pubs[p].lost
                          /\ net \subseteq {"lose"} => pubs[p].lost = Cardinality(real)
    BY DEF LossReported
  <2> DEFINE o == obs[p]
             real == {s \in dropped[p] : o.first < s /\ s < o.high}
  <2>1. /\ o.heard \in SUBSET Nat /\ o.first \in Nat /\ o.high \in Nat
        /\ o.arrivals \in Nat /\ o.late \in Nat /\ dropped[p] \in SUBSET Nat
        /\ pubs[p].recv \in Nat /\ pubs[p].lost \in Nat
    BY LossTypes DEF PubTrack
  <2>2. /\ o.arrivals > 0 /\ pubs[p].recv = o.arrivals
        /\ pubs[p].recv + pubs[p].lost = o.high - o.first + 1 + o.late
    BY <2>1 DEF LossInv, LedgerInv, Ledger, Known
  <2>3. Seen(p)
    BY DEF LossInv
  <2>4. /\ o.first \in o.heard /\ o.high \in o.heard /\ o.first <= o.high
        /\ o.heard \cap dropped[p] = {}
        /\ o.arrivals <= Stretch(o) + o.late
    BY <2>2, <2>3 DEF Seen, Traffic, Tally
  <2>5. Stretch(o) \in Nat
    BY <2>1, BetweenFinite DEF Stretch
  <2>6. /\ Cardinality(real) \in Nat
        /\ Cardinality(real) + Stretch(o) <= o.high - o.first + 1
        /\ o.first .. o.high \subseteq o.heard \cup dropped[p] =>
             Cardinality(real) + Stretch(o) = o.high - o.first + 1
    <3>1. real = Missing(dropped[p], o.first, o.high)
      BY DEF Missing
    <3> HIDE DEF o, real
    <3>2. QED
      BY <2>1, <2>4, <3>1, Shared DEF Stretch
  <2>7. ASSUME net \subseteq {"lose"}
        PROVE  /\ o.first .. o.high \subseteq o.heard \cup dropped[p]
               /\ o.arrivals = Stretch(o) /\ o.late = 0
    <3>1. InOrder(p)
      BY <2>3, <2>7 DEF Seen
    <3>2. ASSUME NEW t \in o.first .. o.high PROVE t \in o.heard \cup dropped[p]
      <4>1. t \in Nat /\ o.first <= t /\ t <= o.high
        BY <2>1
      <4>2. o.high < sent[p] /\ sent[p] \in Nat
        BY <2>3, <2>4, LossTypes DEF Seen, Traffic, Published
      <4>3. t \in Published(p)
        BY <2>1, <2>4, <3>1, <4>1, <4>2 DEF InOrder, Published
      <4>4. t \notin wire[p]
        BY <2>1, <2>2, <3>1, <4>1 DEF InOrder
      <4>5. QED
        BY <4>3, <4>4 DEF Published
    <3>3. QED
      BY <2>2, <3>1, <3>2 DEF InOrder
  <2> HIDE DEF o, real
  <2>8. Cardinality(real) <= pubs[p].lost
    BY <2>1, <2>2, <2>4, <2>5, <2>6
  <2>9. net \subseteq {"lose"} => pubs[p].lost = Cardinality(real)
    BY <2>1, <2>2, <2>5, <2>6, <2>7
  <2>10. QED
    BY <2>8, <2>9 DEF o, real
<1>4. QED
  BY <1>1, <1>2, <1>3, PTL DEF Spec
=============================================================================
