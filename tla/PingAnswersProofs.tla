-------------------------- MODULE PingAnswersProofs --------------------------
(***************************************************************************)
(* Theorems about the pongs that PongRegistry::on_pong accepts, for any    *)
(* number of responders, any network, any bound and any caps: each is      *)
(* counted once, its rtt is looked for in one window only, and both ends   *)
(* of the topics agree about it.                                           *)
(***************************************************************************)
EXTENDS PingPongProofs, Functions

----------------------------------------------------------------------------
(* The inductive invariant.                                                *)

\* An accepted pong has a track, whose last_seq it cannot pass again: this is
\* what keeps it from being counted twice, whether or not the seq has wrapped.
Registered ==
  /\ IsFiniteSet(answered)
  /\ \A a \in answered : Known(a[2]) /\ PongSeq(a[3]) <= pongs[a[2]].last_seq

\* Pongs of ours are for pings already numbered.
Numbered ==
  /\ \A c \in {"ping", "pong"}, r \in Responders : \A n \in wire[c][r] : n < next_seq
  /\ \A a \in answered : a[1] = "pong" => a[3] < next_seq

\* The counts of a track are those of the pongs it has an rtt of, up to the caps;
\* of our own pongs none is without.
Tracked ==
  /\ \A a \in answered : a[1] = "pong" => a \in timed
  /\ \A r \in Responders :
       /\ pongs[r].tot = AtMost(TotalCap, Cardinality(TimedBy(r)))
       /\ pongs[r].win = AtMost(WindowCap, Cardinality(TimedBy(r) \ lined))

\* pongs_total_ lags behind the registry by the pong in the handler's hands,
\* and a tick takes the windows after it has read pongs_total_.
Totalled ==
  /\ Cardinality(answered) = pongs_total + (IF pc["handler"] = "accepted" THEN 1 ELSE 0)
  /\ pc["main"] # "report" => last_pongs <= Cardinality(lined)

\* The summary was taken once nothing could move any more.
Closed ==
  pc["main"] = "done" => Joined /\ summary.sent = pings /\ summary.recv = pongs_total

AnswersInv == Registered /\ Numbered /\ Tracked /\ Totalled /\ Closed

\* A buffer that is not full keeps one more, a full one the same.
LEMMA KeepsOneMore ==
  ASSUME NEW cap \in Nat, NEW S, IsFiniteSet(S), NEW a, a \notin S
  PROVE  AtMost(cap, Cardinality(S \cup {a}))
           = LET n == AtMost(cap, Cardinality(S)) IN IF n < cap THEN n + 1 ELSE n
<1>1. Cardinality(S) \in Nat /\ Cardinality(S \cup {a}) = Cardinality(S) + 1
  BY FS_AddElement, FS_CardinalityType
<1>2. QED
  BY <1>1 DEF AtMost

LEMMA NothingKept ==
  /\ AtMost(TotalCap, Cardinality({})) = 0
  /\ AtMost(WindowCap, Cardinality({})) = 0
  BY ConstantsAssumption, FS_EmptySet DEF AtMost

LEMMA InitAnswers == Init => AnswersInv
<1> SUFFICES ASSUME Init PROVE AnswersInv
  OBVIOUS
<1>1. IsFiniteSet({}) /\ Cardinality({}) = 0
  BY FS_EmptySet
<1>2. answered = {} /\ timed = {} /\ lined = {}
  BY DEF Init
<1>3. Registered
  BY <1>1, <1>2 DEF Registered
<1>4. Numbered
  BY <1>2 DEF Init, Numbered, Pings, Pongs
<1>5. Tracked
  <2>1. \A r \in Responders : TimedBy(r) = {} /\ TimedBy(r) \ lined = {}
    BY <1>2 DEF TimedBy
  <2>2. \A r \in Responders : pongs[r] = EmptyTrack
    BY DEF Init
  <2>3. QED
    BY <1>1, <1>2, <2>1, <2>2, NothingKept DEF Tracked, EmptyTrack
<1>6. Totalled /\ Closed
  BY <1>1, <1>2 DEF Init, Totalled, Closed
<1>7. QED
  BY <1>3, <1>4, <1>5, <1>6 DEF AnswersInv

----------------------------------------------------------------------------
(* The steps that leave the registry alone.                                *)

LEMMA RegistryStays ==
  ASSUME AnswersInv, UNCHANGED <<pongs, answered, timed, lined>>
  PROVE  Registered' /\ Tracked'
  BY DEF AnswersInv, Registered, Tracked, Known, TimedBy

\* send_ping numbers a ping, counts it, or has the lock to itself; the threads
\* that call it go from label to label.
LEMMA PublishPingAnswers ==
  ASSUME CountersInv, AnswersInv, NEW t \in {"sender", "handler"}, PublishPing(t)
  PROVE  AnswersInv'
<1> USE DEF PublishPing, regVars, tickVars
<1>1. pc' \in Labels /\ pc'[t] = "sent" /\ pc[t] = "send"
      /\ \A u \in {"sender", "handler", "main"} : u # t => pc'[u] = pc[u]
  BY GotoMoves DEF CountersInv, TypeOK
<1>2. Registered' /\ Tracked'
  BY RegistryStays
<1>3. Numbered'
  <2>1. next_seq \in Nat /\ wire \in [Pings \cup Pongs -> [Responders -> SUBSET Nat]]
    BY DEF CountersInv, TypeOK
  <2>2. ASSUME NEW c \in {"ping", "pong"}, NEW r \in Responders, NEW n \in wire'[c][r]
        PROVE  n < next_seq'
    <3>1. n \in wire[c][r] \/ n = next_seq
      BY <2>1, <2>2 DEF Pings, Pongs
    <3>2. n \in wire[c][r] => n < next_seq /\ n \in Nat
      BY <2>1 DEF AnswersInv, Numbered, Pings, Pongs
    <3>3. QED
      BY <2>1, <3>1, <3>2
  <2>3. ASSUME NEW a \in answered, a[1] = "pong" PROVE a[3] < next_seq'
    <3>1. a[3] \in Nat /\ a[3] < next_seq
      BY <2>3 DEF CountersInv, TypeOK, Answer, AnswersInv, Numbered
    <3>2. QED
      BY <2>1, <3>1
  <2>4. QED
    BY <2>2, <2>3 DEF Numbered
<1>4. Totalled' /\ Closed'
  BY <1>1 DEF AnswersInv, Totalled, Closed, Joined
<1>5. QED
  BY <1>2, <1>3, <1>4 DEF AnswersInv

LEMMA CallersAnswers ==
  ASSUME CountersInv, AnswersInv,
         \/ Wake \/ Reply \/ HandlerExit
         \/ \E t \in {"sender", "handler"} : CountPing(t)
  PROVE  AnswersInv'
<1> USE DEF topicVars, sendVars, regVars, tickVars
<1>1. PICK t \in {"sender", "handler"}, label \in {"asleep", "take", "send", "done"} :
        /\ Goto(t, label)
        /\ pc[t] # "done" /\ (t = "handler" => pc[t] # "accepted" /\ label # "asleep")
        /\ t = "sender" => label # "take"
  BY DEF Wake, Reply, HandlerExit, CountPing, AfterSend
<1>2. pc' \in Labels /\ pc'[t] = label
      /\ \A u \in {"sender", "handler", "main"} : u # t => pc'[u] = pc[u]
  <2>1. pc \in Labels
    BY DEF CountersInv, TypeOK
  <2>2. QED
    BY <1>1, <2>1, GotoMoves
<1>3. UNCHANGED <<wire, next_seq, pongs_total, pongs, answered, timed, lined, last_pongs, summary>>
  BY DEF Wake, Reply, HandlerExit, CountPing
<1>4. Registered' /\ Tracked'
  BY <1>3, RegistryStays
<1>5. Numbered' /\ Totalled'
  BY <1>1, <1>2, <1>3 DEF AnswersInv, Numbered, Totalled
<1>6. Closed'
  <2>1. pc'["main"] # "done"
    BY <1>1, <1>2 DEF AnswersInv, Closed, Joined
  <2>2. QED
    BY <2>1 DEF Closed
<1>7. QED
  BY <1>4, <1>5, <1>6 DEF AnswersInv

LEMMA CountPongAnswers ==
  ASSUME CountersInv, AnswersInv, CountPong
  PROVE  AnswersInv'
<1> USE DEF CountPong, topicVars, sendVars, regVars, tickVars
<1>1. pc' \in Labels /\ pc'["handler"] = "counted" /\ pc["handler"] = "accepted"
      /\ \A u \in {"sender", "handler", "main"} : u # "handler" => pc'[u] = pc[u]
  BY GotoMoves DEF CountersInv, TypeOK
<1>2. Registered' /\ Tracked' /\ Numbered'
  BY RegistryStays DEF AnswersInv, Numbered
<1>3. pongs_total \in Nat
  BY DEF CountersInv, TypeOK
<1>4. Totalled' /\ Closed'
  BY <1>1, <1>3 DEF AnswersInv, Totalled, Closed, Joined
<1>5. QED
  BY <1>2, <1>4 DEF AnswersInv

\* The topics, the pong processes and the signal.
LEMMA OutsideAnswers ==
  ASSUME CountersInv, AnswersInv,
         (\E r \in Responders : Responder(r)) \/ Topic \/ Stop
  PROVE  AnswersInv'
<1> USE DEF topicVars, sendVars, regVars, tickVars
<1>1. UNCHANGED <<pc, next_seq, pings, pongs_total, pongs, answered, timed, lined, last_pongs, summary>>
  BY ZenonT(60) DEF Responder, Echo, CountRoundtrip, Topic, Match, Lose, Stop
<1>2. Registered' /\ Tracked' /\ Totalled' /\ Closed'
  BY <1>1, RegistryStays DEF AnswersInv, Totalled, Closed, Joined
<1>3. Numbered'
  <2>1. wire \in [Pings \cup Pongs -> [Responders -> SUBSET Nat]]
    BY DEF CountersInv, TypeOK
  <2>2. SUFFICES ASSUME NEW d \in {"ping", "pong"}, NEW q \in Responders, NEW m \in wire'[d][q]
                 PROVE  m \in wire["ping"][q] \cup wire["pong"][q]
    BY <1>1, <2>2 DEF AnswersInv, Numbered
  <2>3. ASSUME NEW c \in Pings, NEW r \in Responders, NEW n \in wire[c][r], Echo(c, r, n)
        PROVE  m \in wire["ping"][q] \cup wire["pong"][q]
    <3>1. CASE c = "ping"
      BY <2>1, <2>2, <2>3, <3>1 DEF Echo, EchoOf, Pings, Pongs
    <3>2. CASE c = "their_ping"
      BY <2>1, <2>2, <2>3, <3>2 DEF Echo, EchoOf, Pings, Pongs
    <3>3. QED
      BY <3>1, <3>2 DEF Pings
  <2>4. ASSUME NEW c \in Pings \cup Pongs, NEW r \in Responders, NEW n \in wire[c][r],
               Lose(c, r, n)
        PROVE  m \in wire["ping"][q] \cup wire["pong"][q]
    BY <2>1, <2>2, <2>4 DEF Lose, Pings, Pongs
  <2>5. CASE UNCHANGED wire
    BY <2>2, <2>5
  <2>6. UNCHANGED wire
        \/ (\E r \in Responders : \E c \in Pings : \E n \in wire[c][r] : Echo(c, r, n))
        \/ (\E c \in Pings \cup Pongs, r \in Responders : \E n \in wire[c][r] : Lose(c, r, n))
    BY Zenon DEF Responder, CountRoundtrip, Topic, Match, Stop
  <2>7. QED
    BY <2>3, <2>4, <2>5, <2>6
<1>4. QED
  BY <1>2, <1>3 DEF AnswersInv

----------------------------------------------------------------------------
(* The handler takes a pong.                                               *)

\* A pong that advances its track has not been accepted before.
LEMMA AdvancingIsNew ==
  ASSUME CountersInv, AnswersInv, NEW c \in Pongs, NEW r \in Responders, NEW n \in Nat,
         Advances(pongs[r], PongSeq(n))
  PROVE  <<c, r, n>> \notin answered
<1>1. pongs[r].last_seq \in Nat /\ PongSeq(n) \in Nat
  BY ConstantsAssumption DEF CountersInv, TypeOK, PongTrack, PongSeq, PingSeq
<1>2. ASSUME <<c, r, n>> \in answered PROVE FALSE
  <2>1. Known(r) /\ PongSeq(n) <= pongs[r].last_seq
    BY <1>2 DEF AnswersInv, Registered
  <2>2. QED
    BY <1>1, <2>1 DEF Advances, Known
<1>3. QED
  BY <1>2

LEMMA OnPongAnswers ==
  ASSUME CountersInv, AnswersInv, NEW c \in Pongs, NEW r \in Responders, NEW n \in Nat,
         Advances(pongs[r], PongSeq(n)), OnPong(c, r, n), lined' = lined
  PROVE  /\ Registered' /\ Tracked'
         /\ Cardinality(answered') = Cardinality(answered) + 1
<1> DEFINE a == <<c, r, n>>
<1>1. a \notin answered /\ answered' = answered \cup {a} /\ IsFiniteSet(answered)
  BY AdvancingIsNew DEF OnPong, AnswersInv, Registered
<1>2. /\ pongs \in [Responders -> PongTrack] /\ next_id \in Nat \ {0}
      /\ answered \subseteq Answer /\ timed \subseteq answered /\ lined \subseteq answered
  BY DEF CountersInv, TypeOK
<1>3. PongSeq(n) \in Nat
  BY ConstantsAssumption DEF PongSeq, PingSeq
<1>4. /\ pongs'[r].id # 0 /\ pongs'[r].last_seq = PongSeq(n)
      /\ \A q \in Responders \ {r} : pongs'[q] = pongs[q]
      /\ \/ /\ timed' = timed \cup {a}
            /\ pongs'[r].tot = IF pongs[r].tot < TotalCap THEN pongs[r].tot + 1 ELSE pongs[r].tot
            /\ pongs'[r].win = IF pongs[r].win < WindowCap THEN pongs[r].win + 1 ELSE pongs[r].win
         \/ /\ timed' = timed /\ c # "pong"
            /\ pongs'[r].tot = pongs[r].tot /\ pongs'[r].win = pongs[r].win
  <2>1. /\ Track(r, n).id # 0 /\ Track(r, n).last_seq = PongSeq(n)
        /\ Track(r, n).tot = pongs[r].tot /\ Track(r, n).win = pongs[r].win
    BY <1>2 DEF Track, PongTrack
  <2>2. PICK sign \in RttSigns(c) :
          /\ pongs' = [pongs EXCEPT ![r] = IF sign = "fine" THEN Add(Track(r, n)) ELSE Track(r, n)]
          /\ timed' = IF sign = "fine" THEN timed \cup {a} ELSE timed
    BY DEF OnPong
  <2>3. CASE sign = "fine"
    BY <1>2, <2>1, <2>2, <2>3 DEF Add
  <2>4. CASE sign # "fine"
    BY <1>2, <2>1, <2>2, <2>4 DEF RttSigns
  <2>5. QED
    BY <2>3, <2>4
<1>5. Cardinality(answered') = Cardinality(answered) + 1 /\ IsFiniteSet(answered')
  BY <1>1, FS_AddElement
<1>6. Registered'
  <2>1. ASSUME NEW b \in answered' PROVE pongs'[b[2]].id # 0 /\ PongSeq(b[3]) <= pongs'[b[2]].last_seq
    <3>1. CASE b = a
      BY <1>3, <1>4, <3>1
    <3>2. CASE b \in answered
      <4>1. b[2] \in Responders /\ b[3] \in Nat
        BY <1>2, <3>2 DEF Answer
      <4>2. Known(b[2]) /\ PongSeq(b[3]) <= pongs[b[2]].last_seq
        BY <3>2 DEF AnswersInv, Registered
      <4>3. PongSeq(b[3]) \in Nat /\ pongs[r].last_seq \in Nat
        BY <1>2, <4>1, ConstantsAssumption DEF PongSeq, PingSeq, PongTrack
      <4>4. QED
        BY <1>3, <1>4, <4>1, <4>2, <4>3 DEF Known, Advances
    <3>3. QED
      BY <1>1, <3>1, <3>2
  <2>2. QED
    BY <1>5, <2>1 DEF Registered, Known
<1>7. Tracked'
  <2>1. ASSUME NEW q \in Responders
        PROVE  /\ pongs'[q].tot = AtMost(TotalCap, Cardinality(TimedBy(q)'))
               /\ pongs'[q].win = AtMost(WindowCap, Cardinality(TimedBy(q)' \ lined))
    <3>1. /\ pongs[q].tot = AtMost(TotalCap, Cardinality(TimedBy(q)))
          /\ pongs[q].win = AtMost(WindowCap, Cardinality(TimedBy(q) \ lined))
      BY DEF AnswersInv, Tracked
    <3>2. IsFiniteSet(TimedBy(q)) /\ IsFiniteSet(TimedBy(q) \ lined)
      BY <1>1, <1>2, FS_Subset DEF TimedBy
    <3>3. CASE q = r /\ timed' = timed \cup {a} /\ timed' # timed
      <4>1. /\ TimedBy(q)' = TimedBy(q) \cup {a} /\ a \notin TimedBy(q)
            /\ TimedBy(q)' \ lined = (TimedBy(q) \ lined) \cup {a}
        BY <1>1, <1>2, <3>3 DEF TimedBy
      <4> HIDE DEF a
      <4>2. /\ AtMost(TotalCap, Cardinality(TimedBy(q)'))
                 = IF pongs[q].tot < TotalCap THEN pongs[q].tot + 1 ELSE pongs[q].tot
            /\ AtMost(WindowCap, Cardinality(TimedBy(q)' \ lined))
                 = IF pongs[q].win < WindowCap THEN pongs[q].win + 1 ELSE pongs[q].win
        BY <3>1, <3>2, <4>1, KeepsOneMore, ConstantsAssumption
      <4>3. QED
        BY <1>4, <3>3, <4>2
    <3>4. CASE q # r \/ timed' = timed
      <4>1. TimedBy(q)' = TimedBy(q)
        BY <1>1, <1>4, <3>4 DEF TimedBy
      <4>2. pongs'[q].tot = pongs[q].tot /\ pongs'[q].win = pongs[q].win
        BY <1>1, <1>2, <1>4, <3>4
      <4>3. QED
        BY <3>1, <4>1, <4>2
    <3>5. QED
      BY <1>4, <3>3, <3>4
  <2>2. ASSUME NEW b \in answered', b[1] = "pong" PROVE b \in timed'
    BY <1>1, <1>4, <2>2 DEF AnswersInv, Tracked
  <2>3. QED
    BY <2>1, <2>2 DEF Tracked
<1>8. QED
  BY <1>5, <1>6, <1>7

LEMMA TakePongAnswers ==
  ASSUME CountersInv, AnswersInv, NEW c \in Pongs, NEW r \in Responders,
         NEW n \in wire[c][r], TakePong(c, r, n)
  PROVE  AnswersInv'
<1>1. /\ n \in Nat /\ pc \in Labels /\ answered \subseteq Answer
      /\ wire \in [Pings \cup Pongs -> [Responders -> SUBSET Nat]]
  BY DEF CountersInv, TypeOK
<1>2. /\ pc["handler"] = "take"
      /\ UNCHANGED <<next_seq, pings, pongs_total, last_pongs, summary, lined>>
      /\ wire' = [wire EXCEPT ![c][r] = @ \ {n}] \/ wire' = wire
      /\ \/ Advances(pongs[r], PongSeq(n)) /\ OnPong(c, r, n) /\ Goto("handler", "accepted")
         \/ UNCHANGED <<pongs, answered, timed, pc>>
  BY DEF TakePong, sendVars, tickVars, regVars
<1>3. \A d \in {"ping", "pong"}, q \in Responders : wire'[d][q] \subseteq wire[d][q]
  BY <1>1, <1>2 DEF Pings, Pongs
<1>4. CASE Advances(pongs[r], PongSeq(n)) /\ OnPong(c, r, n) /\ Goto("handler", "accepted")
  <2>1. /\ pc'["handler"] = "accepted"
        /\ \A u \in {"sender", "handler", "main"} : u # "handler" => pc'[u] = pc[u]
    BY <1>1, <1>4, GotoMoves
  <2>2. /\ Registered' /\ Tracked'
        /\ Cardinality(answered') = Cardinality(answered) + 1
    BY <1>1, <1>2, <1>4, OnPongAnswers
  <2>3. Numbered'
    <3>1. c = "pong" => n < next_seq
      BY DEF AnswersInv, Numbered
    <3>2. answered' = answered \cup {<<c, r, n>>}
      BY <1>4 DEF OnPong
    <3>3. \A a \in answered' : a[1] = "pong" => a[3] < next_seq
      BY <3>1, <3>2 DEF AnswersInv, Numbered
    <3>4. QED
      BY <1>2, <1>3, <3>3 DEF AnswersInv, Numbered
  <2>4. pongs_total \in Nat
    BY DEF CountersInv, TypeOK
  <2>5. Totalled' /\ Closed'
    BY <1>2, <2>1, <2>2, <2>4 DEF AnswersInv, Totalled, Closed, Joined
  <2>6. QED
    BY <2>2, <2>3, <2>5 DEF AnswersInv
<1>5. CASE UNCHANGED <<pongs, answered, timed, pc>>
  BY <1>2, <1>3, <1>5, RegistryStays DEF AnswersInv, Numbered, Totalled, Closed, Joined
<1>6. QED
  BY <1>2, <1>4, <1>5

----------------------------------------------------------------------------
(* The main thread.                                                        *)

\* A tick reads a count that is at most what the registry holds by then.
LEMMA TickReadsAnswers ==
  ASSUME CountersInv, AnswersInv, TickDue \/ TickPongs \/ TickPings
  PROVE  AnswersInv'
<1> USE DEF topicVars, sendVars, regVars, tickVars
<1>1. PICK label \in {"tick", "pings", "report"} :
        /\ Goto("main", label)
        /\ pc["main"] # "report"
        /\ label # "report" => last_pongs' = last_pongs
  BY DEF TickDue, TickPongs, TickPings
<1>2. pc' \in Labels /\ pc'["main"] = label
      /\ \A u \in {"sender", "handler", "main"} : u # "main" => pc'[u] = pc[u]
  <2>1. pc \in Labels
    BY DEF CountersInv, TypeOK
  <2>2. QED
    BY <1>1, <2>1, GotoMoves
<1>3. UNCHANGED <<wire, next_seq, pongs_total, pongs, answered, timed, lined>>
  BY DEF TickDue, TickPongs, TickPings
<1>4. Registered' /\ Tracked'
  BY <1>3, RegistryStays
<1>5. Numbered' /\ Totalled' /\ Closed'
  BY <1>1, <1>2, <1>3 DEF AnswersInv, Numbered, Totalled, Closed
<1>6. QED
  BY <1>4, <1>5 DEF AnswersInv

\* The snapshot takes every window, so that every pong accepted is lined.
LEMMA TickReportAnswers ==
  ASSUME CountersInv, AnswersInv, TickReport
  PROVE  AnswersInv'
<1> USE DEF topicVars, sendVars
<1>1. pc' \in Labels /\ pc'["main"] = "idle"
      /\ \A u \in {"sender", "handler", "main"} : u # "main" => pc'[u] = pc[u]
  BY GotoMoves DEF TickReport, CountersInv, TypeOK
<1>2. /\ UNCHANGED <<wire, next_seq, pongs_total, answered, timed, last_pongs>>
      /\ lined' = answered
      /\ pongs' = [r \in Responders |-> [pongs[r] EXCEPT !.win = 0]]
  BY DEF TickReport
<1>3. pongs \in [Responders -> PongTrack] /\ answered \subseteq Answer /\ timed \subseteq answered
  BY DEF CountersInv, TypeOK
<1>4. \A r \in Responders :
        /\ pongs'[r].id = pongs[r].id /\ pongs'[r].last_seq = pongs[r].last_seq
        /\ pongs'[r].tot = pongs[r].tot /\ pongs'[r].win = 0
  BY <1>2, <1>3 DEF PongTrack
<1>5. Registered'
  <2>1. ASSUME NEW a \in answered
        PROVE  pongs'[a[2]].id # 0 /\ PongSeq(a[3]) <= pongs'[a[2]].last_seq
    BY <1>3, <1>4 DEF Answer, AnswersInv, Registered, Known
  <2>2. QED
    BY <1>2, <2>1 DEF AnswersInv, Registered, Known
<1>6. Tracked'
  <2>1. \A r \in Responders : TimedBy(r)' = TimedBy(r) /\ TimedBy(r)' \ lined' = {}
    BY <1>2, <1>3 DEF TimedBy
  <2>2. QED
    BY <1>2, <1>4, <2>1, NothingKept DEF AnswersInv, Tracked
<1>7. Totalled'
  <2>1. last_pongs <= pongs_total /\ last_pongs \in Nat /\ pongs_total \in Nat
    BY DEF CountersInv, Reads, TypeOK
  <2>2. QED
    BY <1>1, <1>2, <2>1 DEF AnswersInv, Totalled
<1>8. Numbered' /\ Closed'
  BY <1>1, <1>2 DEF AnswersInv, Numbered, Closed
<1>9. QED
  BY <1>5, <1>6, <1>7, <1>8 DEF AnswersInv

LEMMA SummaryAnswers ==
  ASSUME CountersInv, AnswersInv, Summary
  PROVE  AnswersInv'
<1> USE DEF topicVars, sendVars, regVars
<1>1. pc' \in Labels /\ pc'["main"] = "done" /\ pc["main"] = "idle"
      /\ \A u \in {"sender", "handler", "main"} : u # "main" => pc'[u] = pc[u]
  BY GotoMoves DEF Summary, CountersInv, TypeOK
<1>2. /\ UNCHANGED <<wire, next_seq, pings, pongs_total, pongs, answered, timed, lined, last_pongs>>
      /\ summary'.sent = pings /\ summary'.recv = pongs_total /\ Joined
  BY DEF Summary
<1>3. Registered' /\ Tracked'
  BY <1>2, RegistryStays
<1>4. Numbered' /\ Totalled' /\ Closed'
  BY <1>1, <1>2 DEF AnswersInv, Numbered, Totalled, Closed, Joined
<1>5. QED
  BY <1>3, <1>4 DEF AnswersInv

----------------------------------------------------------------------------
(* Every step.                                                             *)

LEMMA NextAnswers == CountersInv /\ AnswersInv /\ [Next]_vars => AnswersInv'
<1> SUFFICES ASSUME CountersInv, AnswersInv, [Next]_vars PROVE AnswersInv'
  OBVIOUS
<1>1. CASE Sender
  BY <1>1, CallersAnswers, PublishPingAnswers DEF Sender
<1>2. CASE Handler \/ HandlerExit
  BY <1>2, CallersAnswers, PublishPingAnswers, TakePongAnswers, CountPongAnswers DEF Handler
<1>3. CASE Main
  BY <1>3, TickReadsAnswers, TickReportAnswers, SummaryAnswers DEF Main
<1>4. CASE (\E r \in Responders : Responder(r)) \/ Topic \/ Stop
  BY <1>4, OutsideAnswers
<1>5. CASE UNCHANGED vars
  <2>1. UNCHANGED <<wire, pc, next_seq, pings, pongs_total, pongs, answered, timed, lined, last_pongs, summary>>
    BY <1>5 DEF vars, topicVars, sendVars, regVars, tickVars
  <2>2. QED
    BY <2>1, RegistryStays DEF AnswersInv, Numbered, Totalled, Closed, Joined
<1>6. QED
  BY <1>1, <1>2, <1>3, <1>4, <1>5 DEF Next

\* The registry of pongs is a record of answers, and of their rtts up to the caps.
THEOREM AnswersHold == Spec => [](CountersInv /\ AnswersInv)
  BY InitCounters, NextCounters, InitAnswers, NextAnswers, PTL DEF Spec

----------------------------------------------------------------------------
(* What follows.                                                           *)

\* Whatever the network repeats, overtakes or brings from another ping process,
\* and after the seq has wrapped, on_pong counts a pong at most once, and keeps at
\* most one rtt of it: none of a negative one and, for any caps, none beyond them.
THEOREM CountedOnce == Spec => []NoPongCountedTwice
<1>1. CountersInv /\ AnswersInv => NoPongCountedTwice
  BY DEF AnswersInv, Numbered, Tracked, Totalled, NoPongCountedTwice
<1>2. QED
  BY <1>1, AnswersHold, PTL

\* A pong comes into the window of the second in which it was accepted or into
\* none, and that is no later a window than the one of the line that counts it:
\* on_pong comes before ++pongs_total_, tick reads it before snapshot.
THEOREM RttInItsWindow == Spec => []RttNotLate
<1>1. CountersInv /\ AnswersInv => RttNotLate
  BY DEF AnswersInv, Tracked, Totalled, RttNotLate
<1>2. QED
  BY <1>1, AnswersHold, PTL

\* What the summary prints as sent and received is final: PingMode::stop and
\* main have joined the threads that count.
THEOREM SummaryIsFinal == Spec => []SummaryFinal
<1>1. CountersInv /\ AnswersInv => SummaryFinal
  <2> SUFFICES ASSUME CountersInv, AnswersInv, pc["main"] = "done"
               PROVE  /\ summary.sent = next_seq
                      /\ summary.recv = pongs_total
                      /\ pongs_total = Cardinality(answered)
    BY DEF SummaryFinal
  <2>1. Joined /\ summary.sent = pings /\ summary.recv = pongs_total
    BY DEF AnswersInv, Closed
  <2>2. next_seq = pings
    BY <2>1 DEF CountersInv, Locked, Joined
  <2>3. Cardinality(answered) = pongs_total
    BY <2>1 DEF CountersInv, TypeOK, AnswersInv, Totalled, Joined
  <2>4. QED
    BY <2>1, <2>2, <2>3
<1>2. QED
  BY <1>1, AnswersHold, PTL

----------------------------------------------------------------------------
(* The two ends of the topics.                                             *)

\* The pongs of a responder that are on their way or accepted.
Echoed(r) == AnsweredBy(r) \cup {a \in Answer : a[2] = r /\ a[3] \in wire[a[1]][r]}

\* No more pongs exist than were echoed; and those that are discovered are the
\* only ones to hear of our pings, as our own pings are the only ones to be
\* heard when nobody else is there.
EndsInv ==
  /\ \A r \in Responders :
       /\ IsFiniteSet(Echoed(r))
       /\ Cardinality(Echoed(r)) <= roundtrips[r] + (IF r \in echoing THEN 1 ELSE 0)
  /\ \A r \in Responders \ matched : wire["ping"][r] = {} /\ wire["pong"][r] = {}
  /\ \A a \in answered : a[1] = "pong" => a[2] \in matched
  /\ "foreign" \notin net =>
       /\ \A r \in Responders : wire["their_ping"][r] = {} /\ wire["their_pong"][r] = {}
       /\ \A a \in answered : a[1] = "pong"

LEMMA InitEnds == Init => EndsInv
<1> SUFFICES ASSUME Init PROVE EndsInv
  OBVIOUS
<1>1. answered = {} /\ \A c \in Pongs, r \in Responders : wire[c][r] = {}
  BY DEF Init, Pings, Pongs
<1>2. \A r \in Responders : Echoed(r) = {}
  BY <1>1 DEF Echoed, AnsweredBy, Answer
<1>3. IsFiniteSet({}) /\ Cardinality({}) = 0
  BY FS_EmptySet
<1>4. \A r \in Responders : wire["ping"][r] = {} /\ ("foreign" \notin net => wire["their_ping"][r] = {})
  BY DEF Init, Pings, Pongs
<1>5. \A r \in Responders : roundtrips[r] = 0 /\ r \notin echoing
  BY DEF Init
<1>6. \A r \in Responders :
        /\ IsFiniteSet(Echoed(r))
        /\ Cardinality(Echoed(r)) <= roundtrips[r] + (IF r \in echoing THEN 1 ELSE 0)
  <2> SUFFICES ASSUME NEW r \in Responders
               PROVE  /\ IsFiniteSet(Echoed(r))
                      /\ Cardinality(Echoed(r)) <= roundtrips[r] + (IF r \in echoing THEN 1 ELSE 0)
    OBVIOUS
  <2>1. IsFiniteSet(Echoed(r)) /\ Cardinality(Echoed(r)) = 0
    BY <1>2, <1>3
  <2>2. QED
    BY <1>5, <2>1
<1>7. QED
  BY <1>1, <1>4, <1>6 DEF EndsInv, Pongs

\* A step that echoes nothing and brings in nothing from outside.
LEMMA QuietEnds ==
  ASSUME CountersInv, EndsInv, UNCHANGED <<net, echoing, roundtrips>>,
         matched \subseteq matched', answered \subseteq answered',
         \A a \in answered' \ answered : a \in Answer /\ a[3] \in wire[a[1]][a[2]],
         \A c \in Pongs, r \in Responders : wire'[c][r] \subseteq wire[c][r],
         \A r \in Responders : wire'["their_ping"][r] \subseteq wire["their_ping"][r],
         \A r \in Responders \ matched' : wire'["ping"][r] = {}
  PROVE  EndsInv'
<1>1. ASSUME NEW r \in Responders
      PROVE  /\ IsFiniteSet(Echoed(r)')
             /\ Cardinality(Echoed(r)') <= roundtrips[r] + (IF r \in echoing THEN 1 ELSE 0)
  <2>1. Echoed(r)' \subseteq Echoed(r)
    <3>1. SUFFICES ASSUME NEW a \in Echoed(r)' PROVE a \in Echoed(r)
      OBVIOUS
    <3>2. CASE a \in answered' /\ a[2] = r
      BY <3>2 DEF Echoed, AnsweredBy
    <3>3. CASE a \in Answer /\ a[2] = r /\ a[3] \in wire'[a[1]][r]
      <4>1. a[1] \in Pongs
        BY <3>3 DEF Answer
      <4>2. QED
        BY <3>3, <4>1 DEF Echoed
    <3>4. QED
      BY <3>1, <3>2, <3>3 DEF Echoed, AnsweredBy
  <2>2. IsFiniteSet(Echoed(r)) /\ Cardinality(Echoed(r)) <= roundtrips[r] + (IF r \in echoing THEN 1 ELSE 0)
    BY DEF EndsInv
  <2>3. IsFiniteSet(Echoed(r)') /\ Cardinality(Echoed(r)') <= Cardinality(Echoed(r))
    BY <2>1, <2>2, FS_Subset
  <2>4. /\ Cardinality(Echoed(r)') \in Nat /\ Cardinality(Echoed(r)) \in Nat
        /\ roundtrips[r] \in Nat
    BY <2>2, <2>3, FS_CardinalityType DEF CountersInv, TypeOK
  <2>5. QED
    BY <2>2, <2>3, <2>4
<1>2. \A r \in Responders \ matched' : wire'["ping"][r] = {} /\ wire'["pong"][r] = {}
  BY DEF EndsInv, Pongs
<1>3. \A a \in answered' : a[1] = "pong" => a[2] \in matched'
  <2>1. SUFFICES ASSUME NEW a \in answered' \ answered, a[1] = "pong" PROVE a[2] \in matched
    BY DEF EndsInv
  <2>2. a[2] \in Responders /\ a[3] \in wire["pong"][a[2]]
    BY <2>1 DEF Answer
  <2>3. QED
    BY <2>2 DEF EndsInv
<1>4. "foreign" \notin net =>
        /\ \A r \in Responders : wire'["their_ping"][r] = {} /\ wire'["their_pong"][r] = {}
        /\ \A a \in answered' : a[1] = "pong"
  <2> SUFFICES ASSUME "foreign" \notin net
               PROVE  /\ \A r \in Responders : wire'["their_ping"][r] = {} /\ wire'["their_pong"][r] = {}
                      /\ \A a \in answered' : a[1] = "pong"
    OBVIOUS
  <2>1. \A r \in Responders : wire'["their_ping"][r] = {} /\ wire'["their_pong"][r] = {}
    BY DEF EndsInv, Pongs
  <2>2. ASSUME NEW a \in answered' \ answered PROVE a[1] = "pong"
    <3>1. a[1] \in Pongs /\ a[2] \in Responders /\ a[3] \in wire[a[1]][a[2]]
      BY DEF Answer
    <3>2. QED
      BY <3>1 DEF EndsInv, Pongs
  <2>3. QED
    BY <2>1, <2>2 DEF EndsInv
<1>5. QED
  BY <1>1, <1>2, <1>3, <1>4 DEF EndsInv

\* An echo is one more pong, and the responder is about to count it.
LEMMA EchoEnds ==
  ASSUME CountersInv, EndsInv, NEW c \in Pings, NEW r \in Responders,
         NEW n \in wire[c][r], Echo(c, r, n)
  PROVE  EndsInv'
<1>1. /\ wire \in [Pings \cup Pongs -> [Responders -> SUBSET Nat]]
      /\ roundtrips \in [Responders -> Nat] /\ EchoOf[c] \in Pongs /\ n \in Nat
  BY DEF CountersInv, TypeOK, EchoOf, Pings, Pongs
<1>2. /\ UNCHANGED <<net, matched, answered, roundtrips>>
      /\ echoing' = echoing \cup {r} /\ r \notin echoing
  BY DEF Echo, regVars
<1>3. /\ \A d \in Pings, q \in Responders : wire'[d][q] \subseteq wire[d][q]
      /\ \A d \in Pongs, q \in Responders :
           wire'[d][q] = IF d = EchoOf[c] /\ q = r THEN wire[d][q] \cup {n} ELSE wire[d][q]
  <2> DEFINE e == EchoOf[c]
  <2>1. e \in Pongs /\ c \notin Pongs /\ e \notin Pings /\ Pings \cup Pongs = DOMAIN wire
    BY <1>1 DEF Pings, Pongs
  <2>2. \/ wire' = [wire EXCEPT ![c][r] = @ \ {n}, ![e][r] = @ \cup {n}]
        \/ wire' = [wire EXCEPT ![e][r] = @ \cup {n}]
    BY DEF Echo
  <2> HIDE DEF e
  <2>3. /\ \A d \in Pings, q \in Responders : wire'[d][q] \subseteq wire[d][q]
        /\ \A d \in Pongs, q \in Responders :
             wire'[d][q] = IF d = e /\ q = r THEN wire[d][q] \cup {n} ELSE wire[d][q]
    <3>1. CASE wire' = [wire EXCEPT ![c][r] = @ \ {n}, ![e][r] = @ \cup {n}]
      BY <1>1, <2>1, <3>1
    <3>2. CASE wire' = [wire EXCEPT ![e][r] = @ \cup {n}]
      BY <1>1, <2>1, <3>2
    <3>3. QED
      BY <2>2, <3>1, <3>2
  <2>4. QED
    BY <2>3 DEF e
<1>4. ASSUME NEW q \in Responders
      PROVE  /\ IsFiniteSet(Echoed(q)')
             /\ Cardinality(Echoed(q)') <= roundtrips[q] + (IF q \in echoing' THEN 1 ELSE 0)
  <2>1. IsFiniteSet(Echoed(q)) /\ Cardinality(Echoed(q)) <= roundtrips[q] + (IF q \in echoing THEN 1 ELSE 0)
    BY DEF EndsInv
  <2>2. AnsweredBy(q)' = AnsweredBy(q)
    BY <1>2 DEF AnsweredBy
  <2>3. CASE q = r
    <3> DEFINE a == <<EchoOf[c], r, n>>
    <3>1. Echoed(q)' \subseteq Echoed(q) \cup {a}
      <4>1. SUFFICES ASSUME NEW b \in Answer, b[2] = r, b[3] \in wire'[b[1]][r],
                            b[3] \notin wire[b[1]][r]
                     PROVE  b = a
        BY <2>2, <2>3 DEF Echoed
      <4>2. b[1] = EchoOf[c] /\ b[3] = n
        <5>1. b[1] \in Pongs
          BY <4>1 DEF Answer
        <5>2. wire'[b[1]][r] = IF b[1] = EchoOf[c] /\ r = r THEN wire[b[1]][r] \cup {n} ELSE wire[b[1]][r]
          BY <1>3, <5>1
        <5>3. QED
          BY <4>1, <5>2
      <4>3. QED
        BY <4>1, <4>2 DEF Answer
    <3>2. /\ IsFiniteSet(Echoed(q) \cup {a})
          /\ Cardinality(Echoed(q) \cup {a}) <= Cardinality(Echoed(q)) + 1
      <4>1. Cardinality(Echoed(q)) \in Nat
        BY <2>1, FS_CardinalityType
      <4>2. /\ IsFiniteSet(Echoed(q) \cup {a})
            /\ Cardinality(Echoed(q) \cup {a})
                 = IF a \in Echoed(q) THEN Cardinality(Echoed(q)) ELSE Cardinality(Echoed(q)) + 1
        BY <2>1, FS_AddElement, Zenon
      <4> HIDE DEF a
      <4>3. QED
        BY <4>1, <4>2
    <3>3. IsFiniteSet(Echoed(q)') /\ Cardinality(Echoed(q)') <= Cardinality(Echoed(q) \cup {a})
      BY <3>1, <3>2, FS_Subset
    <3>4. /\ Cardinality(Echoed(q)') \in Nat /\ Cardinality(Echoed(q)) \in Nat
          /\ Cardinality(Echoed(q) \cup {a}) \in Nat /\ roundtrips[q] \in Nat
      BY <1>1, <2>1, <3>2, <3>3, FS_CardinalityType
    <3> HIDE DEF a
    <3>5. QED
      BY <1>2, <2>1, <2>3, <3>2, <3>3, <3>4
  <2>4. CASE q # r
    <3>1. Echoed(q)' = Echoed(q)
      <4>1. \A d \in Pongs : wire'[d][q] = wire[d][q]
        BY <1>3, <2>4
      <4>2. QED
        BY <2>2, <4>1 DEF Echoed, Answer
    <3>2. QED
      BY <1>2, <2>1, <2>4, <3>1
  <2>5. QED
    BY <2>3, <2>4
<1>5. \A q \in Responders \ matched : wire'["ping"][q] = {} /\ wire'["pong"][q] = {}
  <2> SUFFICES ASSUME NEW q \in Responders \ matched
               PROVE  wire'["ping"][q] = {} /\ wire'["pong"][q] = {}
    OBVIOUS
  <2>1. wire["ping"][q] = {} /\ wire["pong"][q] = {}
    BY DEF EndsInv
  <2>2. ~("pong" = EchoOf[c] /\ q = r)
    <3>1. "pong" = EchoOf[c] => c = "ping"
      BY DEF EchoOf, Pings
    <3>2. QED
      BY <2>1, <3>1
  <2>3. wire'["ping"][q] \subseteq wire["ping"][q] /\ wire'["pong"][q] = wire["pong"][q]
    BY <1>3, <2>2 DEF Pings, Pongs
  <2>4. QED
    BY <2>1, <2>3
<1>6. "foreign" \notin net =>
        \A q \in Responders : wire'["their_ping"][q] = {} /\ wire'["their_pong"][q] = {}
  <2> SUFFICES ASSUME "foreign" \notin net, NEW q \in Responders
               PROVE  wire'["their_ping"][q] = {} /\ wire'["their_pong"][q] = {}
    OBVIOUS
  <2>1. wire["their_ping"][q] = {} /\ wire["their_pong"][q] = {} /\ wire["their_ping"][r] = {}
    BY DEF EndsInv
  <2>2. "their_pong" # EchoOf[c]
    BY <2>1 DEF EchoOf, Pings
  <2>3. wire'["their_ping"][q] \subseteq wire["their_ping"][q] /\ wire'["their_pong"][q] = wire["their_pong"][q]
    BY <1>3, <2>2 DEF Pings, Pongs
  <2>4. QED
    BY <2>1, <2>3
<1>7. QED
  BY <1>2, <1>4, <1>5, <1>6 DEF EndsInv

LEMMA CountRoundtripEnds ==
  ASSUME CountersInv, EndsInv, NEW r \in Responders, CountRoundtrip(r)
  PROVE  EndsInv'
<1>1. /\ UNCHANGED <<net, matched, wire, answered>>
      /\ r \in echoing /\ echoing' = echoing \ {r}
      /\ roundtrips' = [roundtrips EXCEPT ![r] = @ + 1]
      /\ roundtrips \in [Responders -> Nat]
  BY DEF CountRoundtrip, topicVars, regVars, CountersInv, TypeOK
<1>2. ASSUME NEW q \in Responders
      PROVE  /\ IsFiniteSet(Echoed(q)')
             /\ Cardinality(Echoed(q)') <= roundtrips'[q] + (IF q \in echoing' THEN 1 ELSE 0)
  <2>1. Echoed(q)' = Echoed(q)
    BY <1>1 DEF Echoed, AnsweredBy
  <2>2. IsFiniteSet(Echoed(q)) /\ Cardinality(Echoed(q)) <= roundtrips[q] + (IF q \in echoing THEN 1 ELSE 0)
    BY DEF EndsInv
  <2>3. roundtrips'[q] + (IF q \in echoing' THEN 1 ELSE 0) = roundtrips[q] + (IF q \in echoing THEN 1 ELSE 0)
    BY <1>1
  <2>4. QED
    BY <2>1, <2>2, <2>3
<1>3. QED
  BY <1>1, <1>2 DEF EndsInv

LEMMA PublishPingEnds ==
  ASSUME CountersInv, EndsInv, NEW t \in {"sender", "handler"}, PublishPing(t)
  PROVE  EndsInv'
<1>1. UNCHANGED <<net, matched, answered, echoing, roundtrips>>
  BY DEF PublishPing, regVars, pongVars
<1>2. wire \in [Pings \cup Pongs -> [Responders -> SUBSET Nat]]
  BY DEF CountersInv, TypeOK
<1>3. /\ \A c \in (Pings \cup Pongs) \ {"ping"} : wire'[c] = wire[c]
      /\ \A r \in Responders \ matched : wire'["ping"][r] = wire["ping"][r]
  BY <1>2 DEF PublishPing, Pings
<1>4. \A r \in Responders \ matched : wire["ping"][r] = {}
  BY DEF EndsInv
<1>5. QED
  BY <1>1, <1>3, <1>4, QuietEnds DEF Pings, Pongs

LEMMA TakePongEnds ==
  ASSUME CountersInv, EndsInv, NEW c \in Pongs, NEW r \in Responders,
         NEW n \in wire[c][r], TakePong(c, r, n)
  PROVE  EndsInv'
<1>1. /\ UNCHANGED <<net, matched, echoing, roundtrips>>
      /\ wire' = [wire EXCEPT ![c][r] = @ \ {n}] \/ wire' = wire
      /\ answered' = answered \cup {<<c, r, n>>} \/ answered' = answered
  BY DEF TakePong, OnPong, regVars, pongVars
<1>2. n \in Nat /\ wire \in [Pings \cup Pongs -> [Responders -> SUBSET Nat]]
  BY DEF CountersInv, TypeOK
<1>3. \A d \in Pings \cup Pongs, q \in Responders : wire'[d][q] \subseteq wire[d][q]
  BY <1>1, <1>2
<1>4. answered \subseteq answered'
      /\ \A a \in answered' \ answered : a \in Answer /\ a[3] \in wire[a[1]][a[2]]
  BY <1>1, <1>2 DEF Answer
<1>5. \A q \in Responders \ matched : wire'["ping"][q] = {}
  BY <1>3 DEF EndsInv, Pings
<1>6. QED
  BY <1>1, <1>3, <1>4, <1>5, QuietEnds DEF Pings

\* The other steps leave the topics alone, take a sample from them, or add a
\* responder to those discovered.
LEMMA OtherEnds ==
  ASSUME CountersInv, EndsInv,
         \/ UNCHANGED <<net, matched, wire, answered, echoing, roundtrips>>
         \/ Topic
  PROVE  EndsInv'
<1>1. wire \in [Pings \cup Pongs -> [Responders -> SUBSET Nat]]
  BY DEF CountersInv, TypeOK
<1>2. /\ UNCHANGED <<net, answered, echoing, roundtrips>>
      /\ matched \subseteq matched'
  BY Zenon DEF Topic, Match, Lose, regVars, pongVars
<1>3. \A c \in Pings \cup Pongs, r \in Responders : wire'[c][r] \subseteq wire[c][r]
  <2>1. ASSUME NEW c \in Pings \cup Pongs, NEW r \in Responders, NEW n, Lose(c, r, n)
        PROVE  \A d \in Pings \cup Pongs, q \in Responders : wire'[d][q] \subseteq wire[d][q]
    BY <1>1, <2>1 DEF Lose
  <2>2. UNCHANGED wire \/ \E c \in Pings \cup Pongs, r \in Responders : \E n \in wire[c][r] : Lose(c, r, n)
    BY Zenon DEF Topic, Match
  <2>3. QED
    BY <2>1, <2>2
<1>4. \A r \in Responders \ matched' : wire'["ping"][r] = {}
  BY <1>2, <1>3 DEF EndsInv, Pings
<1>5. QED
  BY <1>2, <1>3, <1>4, QuietEnds DEF Pings

LEMMA NextEnds == CountersInv /\ EndsInv /\ [Next]_vars => EndsInv'
<1> SUFFICES ASSUME CountersInv, EndsInv, [Next]_vars PROVE EndsInv'
  OBVIOUS
<1> USE DEF topicVars, regVars, pongVars
<1>1. CASE Sender
  <2>1. CASE \E t \in {"sender", "handler"} : PublishPing(t)
    BY <2>1, PublishPingEnds
  <2>2. CASE Wake \/ CountPing("sender")
    <3>1. UNCHANGED <<net, matched, wire, answered, echoing, roundtrips>>
      BY <2>2 DEF Wake, CountPing
    <3>2. QED
      BY <3>1, OtherEnds
  <2>3. QED
    BY <1>1, <2>1, <2>2 DEF Sender
<1>2. CASE Handler \/ HandlerExit
  <2>1. CASE CountPong \/ Reply \/ CountPing("handler") \/ HandlerExit
    <3>1. UNCHANGED <<net, matched, wire, answered, echoing, roundtrips>>
      BY <2>1 DEF CountPong, Reply, CountPing, HandlerExit
    <3>2. QED
      BY <3>1, OtherEnds
  <2>2. QED
    BY <1>2, <2>1, TakePongEnds, PublishPingEnds DEF Handler
<1>3. CASE Main \/ Stop \/ UNCHANGED vars
  <2>1. UNCHANGED <<net, matched, wire, answered, echoing, roundtrips>>
    BY <1>3, Zenon DEF Main, TickDue, TickPongs, TickPings, TickReport, Summary, Stop, vars
  <2>2. QED
    BY <2>1, OtherEnds
<1>4. CASE \E r \in Responders : Responder(r)
  BY <1>4, EchoEnds, CountRoundtripEnds DEF Responder
<1>5. CASE Topic
  BY <1>5, OtherEnds
<1>6. QED
  BY <1>1, <1>2, <1>3, <1>4, <1>5 DEF Next

\* On top of it, the round trips of a responder cover its pongs on their way.
THEOREM EndsHold == Spec => [](CountersInv /\ AnswersInv /\ EndsInv)
  BY AnswersHold, InitCounters, NextCounters, InitEnds, NextEnds, PTL DEF Spec

\* A responder has echoed, and counted but for the echo in its hands, every
\* pong of it that ping accepted (PongMode::handle, PongRegistry::on_pong).
THEOREM BothEndsAgree == Spec => []EndsAgree
<1>1. CountersInv /\ AnswersInv /\ EndsInv => EndsAgree
  <2> SUFFICES ASSUME CountersInv, AnswersInv, EndsInv, NEW r \in Responders
               PROVE  LET echoed == roundtrips[r] + (IF r \in echoing THEN 1 ELSE 0)
                      IN  pongs[r].tot <= echoed /\ Cardinality(AnsweredBy(r)) <= echoed
    BY DEF EndsAgree
  <2>1. /\ IsFiniteSet(Echoed(r))
        /\ Cardinality(Echoed(r)) <= roundtrips[r] + (IF r \in echoing THEN 1 ELSE 0)
    BY DEF EndsInv
  <2>2. IsFiniteSet(AnsweredBy(r)) /\ Cardinality(AnsweredBy(r)) <= Cardinality(Echoed(r))
    BY <2>1, FS_Subset DEF Echoed
  <2>3. IsFiniteSet(TimedBy(r)) /\ Cardinality(TimedBy(r)) <= Cardinality(AnsweredBy(r))
    <3>1. TimedBy(r) \subseteq AnsweredBy(r)
      BY DEF TimedBy, AnsweredBy, CountersInv, TypeOK
    <3>2. QED
      BY <2>2, <3>1, FS_Subset
  <2>4. /\ Cardinality(TimedBy(r)) \in Nat
        /\ Cardinality(AnsweredBy(r)) \in Nat /\ Cardinality(Echoed(r)) \in Nat
    BY <2>1, <2>2, <2>3, FS_CardinalityType
  <2>5. pongs[r].tot <= Cardinality(TimedBy(r)) /\ pongs[r].tot \in Nat
    <3>1. pongs[r].tot = AtMost(TotalCap, Cardinality(TimedBy(r)))
      BY DEF AnswersInv, Tracked
    <3>2. QED
      BY <2>4, <3>1, ConstantsAssumption DEF AtMost
  <2>6. roundtrips[r] \in Nat
    BY DEF CountersInv, TypeOK
  <2>7. QED
    BY <2>1, <2>2, <2>3, <2>4, <2>5, <2>6
<1>2. QED
  BY <1>1, EndsHold, PTL

\* One responder, and no other ping process: the pings gone and the pongs
\* accepted are different pings, so that there are no more than were sent.
LEMMA GoneOrAnswered ==
  ASSUME CountersInv, AnswersInv, EndsInv, "foreign" \notin net,
         NEW r \in Responders, matched = {r}
  PROVE  /\ IsFiniteSet(Gone(r))
         /\ Cardinality(Gone(r)) + Cardinality(answered) <= next_seq
<1> DEFINE Sent == 0 .. next_seq - 1
           Heard == {n \in Sent : <<"pong", r, n>> \in answered}
           number == [a \in answered |-> a[3]]
<1>1. next_seq \in Nat /\ answered \subseteq Answer /\ IsFiniteSet(answered)
  BY DEF CountersInv, TypeOK, AnswersInv, Registered
<1>2. \A a \in answered : a = <<"pong", r, a[3]>> /\ a[3] \in Sent
  <2>1. SUFFICES ASSUME NEW a \in answered PROVE a = <<"pong", r, a[3]>> /\ a[3] \in Sent
    OBVIOUS
  <2>2. a[1] = "pong" /\ a[2] = r
    BY DEF EndsInv
  <2>3. a[3] \in Nat /\ a[3] < next_seq /\ a = <<a[1], a[2], a[3]>>
    BY <1>1, <2>2 DEF Answer, AnswersInv, Numbered
  <2>4. QED
    BY <1>1, <2>2, <2>3
<1>3. IsFiniteSet(Sent) /\ Cardinality(Sent) = next_seq
  BY <1>1, FS_Interval, FS_EmptySet
<1>4. Gone(r) \subseteq Sent /\ Heard \subseteq Sent /\ Gone(r) \cap Heard = {}
  BY DEF Gone
<1>5. IsFiniteSet(Gone(r)) /\ IsFiniteSet(Heard)
  BY <1>3, <1>4, FS_Subset
<1>6. number \in Injection(answered, Heard)
  <2>1. number \in [answered -> Heard]
    BY <1>2
  <2>2. ASSUME NEW a \in answered, NEW b \in answered, number[a] = number[b] PROVE a = b
    BY <1>2, <2>2
  <2>3. QED
    BY <2>1, <2>2 DEF Injection, IsInjective
<1> HIDE DEF Sent, Heard, number
<1>7. Cardinality(answered) <= Cardinality(Heard)
  BY <1>5, <1>6, FS_Injection
<1>8. /\ IsFiniteSet(Gone(r) \cup Heard)
      /\ Cardinality(Gone(r) \cup Heard) = Cardinality(Gone(r)) + Cardinality(Heard)
  <2>1. Cardinality(Gone(r) \cap Heard) = 0
    BY <1>4, FS_EmptySet
  <2>2. Cardinality(Gone(r)) \in Nat /\ Cardinality(Heard) \in Nat
    BY <1>5, FS_CardinalityType
  <2>3. QED
    <3>1. /\ IsFiniteSet(Gone(r) \cup Heard)
          /\ Cardinality(Gone(r) \cup Heard)
               = Cardinality(Gone(r)) + Cardinality(Heard) - Cardinality(Gone(r) \cap Heard)
      BY <1>5, FS_Union, Zenon
    <3>2. QED
      BY <2>1, <2>2, <3>1
<1>9. Cardinality(Gone(r) \cup Heard) <= next_seq
  BY <1>3, <1>4, <1>8, FS_Subset
<1>10. /\ Cardinality(Gone(r)) \in Nat /\ Cardinality(Heard) \in Nat
       /\ Cardinality(answered) \in Nat
  BY <1>1, <1>5, FS_CardinalityType
<1>11. QED
  BY <1>1, <1>5, <1>7, <1>8, <1>9, <1>10

\* Every ping that is lost for good is in lost_total_ or among the pings of the
\* running second, for any sequence of losses, overtakings and repetitions.
THEOREM NoLossHidden == Spec => []LossNeverHidden
<1>1. CountersInv /\ AnswersInv /\ EndsInv => LossNeverHidden
  <2> SUFFICES ASSUME CountersInv, AnswersInv, EndsInv, pc["main"] # "report",
                      "foreign" \notin net, NEW r \in Responders, matched = {r}
               PROVE  Cardinality(Gone(r)) <= lost_total + (next_seq - last_pings)
    BY DEF LossNeverHidden
  <2>1. IsFiniteSet(Gone(r)) /\ Cardinality(Gone(r)) + Cardinality(answered) <= next_seq
    BY GoneOrAnswered
  <2>2. last_pongs <= pongs_total /\ last_pings - last_pongs <= lost_total
    BY DEF CountersInv, Reads, Losses
  <2>3. pongs_total <= Cardinality(answered)
    BY DEF CountersInv, TypeOK, AnswersInv, Totalled
  <2>4. /\ {next_seq, pongs_total, last_pings, last_pongs, lost_total} \subseteq Nat
        /\ Cardinality(answered) \in Nat /\ Cardinality(Gone(r)) \in Nat
    BY <2>1, FS_CardinalityType DEF CountersInv, TypeOK, AnswersInv, Registered
  <2>5. QED
    BY <2>1, <2>2, <2>3, <2>4
<1>2. QED
  BY <1>1, EndsHold, PTL
=============================================================================
