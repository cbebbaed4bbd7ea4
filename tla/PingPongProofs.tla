--------------------------- MODULE PingPongProofs ---------------------------
(***************************************************************************)
(* Theorems about PingPong, for any number of responders, any network and  *)
(* any bound: what the three threads of the ping process do to its         *)
(* counters.                                                               *)
(***************************************************************************)
EXTENDS PingPong, FiniteSetTheorems, TLAPS

----------------------------------------------------------------------------
(* The inductive invariant.                                                *)

\* A tick reads counters that only grow, so that no difference is negative.
Reads ==
  /\ last_pings <= pings
  /\ last_pongs <= pongs_total
  /\ pc["main"] = "pings" => last_pongs <= tick.pongs /\ tick.pongs <= pongs_total

\* send_mu_ is held by the one thread between publish and its count, and what
\* was published is what was counted but for that thread's ping.
Locked ==
  \/ /\ send_mu = {} /\ pc["sender"] # "sent" /\ pc["handler"] # "sent"
     /\ next_seq = pings
  \/ /\ send_mu = {"sender"} /\ pc["sender"] = "sent" /\ pc["handler"] # "sent"
     /\ next_seq = pings + 1
  \/ /\ send_mu = {"handler"} /\ pc["sender"] # "sent" /\ pc["handler"] = "sent"
     /\ next_seq = pings + 1

\* In a reply-driven run, the pings sent and those that a thread is on its way
\* to send are paid for by the bootstrap and by the pongs counted.
Bootstrap == IF pc["sender"] \in {"asleep", "send"} THEN 1 ELSE 0
Asked     == IF pc["handler"] \in {"counted", "send"} THEN 1 ELSE 0
Clocked   == driven = "reply" => next_seq + Bootstrap + Asked <= 1 + pongs_total

\* LossBracket, and the same before the differences of a tick in progress.
Losses ==
  /\ pc["main"] # "report" =>
       /\ last_pings - last_pongs <= lost_total
       /\ lost_total <= last_pings
  /\ pc["main"] = "report" =>
       /\ (last_pings - tick.dpings) - (last_pongs - tick.dpongs) <= lost_total
       /\ lost_total + tick.dpings <= last_pings

\* The lines add up to what the last tick has remembered.
Remembered == lines.pings = last_pings /\ lines.pongs = last_pongs

CountersInv == TypeOK /\ Reads /\ Locked /\ Clocked /\ Losses /\ Remembered

LEMMA InitCounters == Init => CountersInv
<1> SUFFICES ASSUME Init PROVE CountersInv
  OBVIOUS
<1>1. TypeOK
  <2>1. pc \in Labels
    BY DEF Init, Labels
  <2>2. net \in SUBSET Faults /\ driven \in Drivers
    BY ConstantsAssumption, Zenon DEF Init
  <2>3. pongs \in [Responders -> PongTrack]
    BY DEF Init, PongTrack, EmptyTrack
  <2>4. wire \in [Pings \cup Pongs -> [Responders -> SUBSET Nat]]
    BY ConstantsAssumption DEF Init
  <2>5. /\ tick \in [pongs : Nat, dpongs : Nat, dpings : Nat]
        /\ summary \in [sent : Nat, recv : Nat, lost : Nat]
        /\ lines \in [pings : Nat, pongs : Nat]
    BY DEF Init
  <2>6. /\ {next_seq, pings, pongs_total, last_pings, last_pongs, lost_total} \subseteq Nat
        /\ next_id \in Nat \ {0}
    BY DEF Init
  <2>7. /\ roundtrips \in [Responders -> Nat]
        /\ answered \in SUBSET Answer /\ timed \in SUBSET answered
        /\ lined \in SUBSET answered
    BY DEF Init
  <2>8. stop \in BOOLEAN /\ matched \in SUBSET Responders
    BY Zenon DEF Init
  <2>9. send_mu \in SUBSET {"sender", "handler"} /\ echoing \in SUBSET Responders
    BY DEF Init
  <2>10. QED
    BY <2>1, <2>2, <2>3, <2>4, <2>5, <2>6, <2>7, <2>8, <2>9 DEF TypeOK
<1>2. Reads /\ Locked /\ Clocked /\ Losses /\ Remembered
  BY DEF Init, Reads, Locked, Clocked, Bootstrap, Asked, Losses, Remembered
<1>3. QED
  BY <1>1, <1>2 DEF CountersInv

----------------------------------------------------------------------------
(* One lemma for the steps of each thread.                                 *)

\* A thread of the ping process goes to one of its labels; the others stay.
LEMMA GotoMoves ==
  ASSUME pc \in Labels, NEW t \in {"sender", "handler", "main"}, NEW label,
         Goto(t, label),
         t = "sender" => label \in {"asleep", "send", "sent", "done"},
         t = "handler" => label \in {"take", "accepted", "counted", "send", "sent", "done"},
         t = "main" => label \in {"idle", "tick", "pings", "report", "done"}
  PROVE  /\ pc' \in Labels
         /\ pc'[t] = label
         /\ \A u \in {"sender", "handler", "main"} : u # t => pc'[u] = pc[u]
  BY DEF Goto, Labels

\* send_ping, called by either thread: the ping is published.
LEMMA PublishPingCounters ==
  ASSUME CountersInv, NEW t \in {"sender", "handler"}, PublishPing(t)
  PROVE  CountersInv'
<1> USE DEF CountersInv, PublishPing, sendVars, regVars, tickVars, pongVars
<1>1. /\ pc' \in Labels /\ pc'[t] = "sent"
      /\ \A u \in {"sender", "handler", "main"} : u # t => pc'[u] = pc[u]
  <2>1. pc \in Labels
    BY DEF TypeOK
  <2>2. Goto(t, "sent")
    OBVIOUS
  <2>3. QED
    BY <2>1, <2>2, GotoMoves
<1>2. next_seq \in Nat /\ pings \in Nat /\ pongs_total \in Nat
  BY DEF TypeOK
<1>3. TypeOK'
  <2>1. wire' \in [Pings \cup Pongs -> [Responders -> SUBSET Nat]]
    <3> DEFINE heard == [r \in Responders |-> IF r \in matched
                                             THEN wire["ping"][r] \cup {next_seq}
                                             ELSE wire["ping"][r]]
    <3>1. wire \in [Pings \cup Pongs -> [Responders -> SUBSET Nat]]
      BY DEF TypeOK
    <3>2. "ping" \in Pings \cup Pongs
      BY DEF Pings
    <3>3. heard \in [Responders -> SUBSET Nat]
      BY <1>2, <3>1, <3>2
    <3>4. wire' = [wire EXCEPT !["ping"] = heard]
      OBVIOUS
    <3> HIDE DEF heard, CountersInv, PublishPing
    <3>5. QED
      BY <3>1, <3>3, <3>4
  <2>2. send_mu' \in SUBSET {"sender", "handler"} /\ next_seq' \in Nat
    BY <1>2 DEF TypeOK
  <2>3. QED
    BY <1>1, <2>1, <2>2 DEF TypeOK
<1>4. Reads' /\ Losses' /\ Remembered'
  BY <1>1 DEF Reads, Losses, Remembered
<1>5. Locked'
  BY <1>1, <1>2 DEF Locked, SendFree
<1>6. Clocked'
  BY <1>1, <1>2 DEF Clocked, Bootstrap, Asked
<1>7. QED
  BY <1>3, <1>4, <1>5, <1>6

\* The ping is counted, and the lock released.
LEMMA CountPingCounters ==
  ASSUME CountersInv, NEW t \in {"sender", "handler"}, CountPing(t)
  PROVE  CountersInv'
<1> USE DEF CountersInv, CountPing, topicVars, sendVars, regVars, tickVars, pongVars
<1>1. /\ pc' \in Labels /\ pc'[t] = AfterSend(t)
      /\ \A u \in {"sender", "handler", "main"} : u # t => pc'[u] = pc[u]
  <2>1. pc \in Labels
    BY DEF TypeOK
  <2>2. Goto(t, AfterSend(t))
    OBVIOUS
  <2>3. /\ t = "sender" => AfterSend(t) \in {"asleep", "send", "sent", "done"}
        /\ t = "handler" => AfterSend(t) \in {"take", "accepted", "counted", "send", "sent", "done"}
    BY DEF AfterSend
  <2>4. QED
    BY <2>1, <2>2, <2>3, GotoMoves
<1>2. next_seq \in Nat /\ pings \in Nat /\ pongs_total \in Nat /\ last_pings \in Nat
  BY DEF TypeOK
<1>3. TypeOK'
  <2>1. send_mu' \in SUBSET {"sender", "handler"} /\ pings' \in Nat
    BY <1>2 DEF TypeOK
  <2>2. QED
    BY <1>1, <2>1 DEF TypeOK
<1>4. Reads' /\ Losses' /\ Remembered'
  BY <1>1, <1>2 DEF Reads, Losses, Remembered
<1>5. Locked'
  BY <1>1, <1>2 DEF Locked, AfterSend
<1>6. Clocked'
  BY <1>1, <1>2 DEF Clocked, Bootstrap, Asked, AfterSend
<1>7. QED
  BY <1>3, <1>4, <1>5, <1>6

\* The other steps of the sender and the handler.
LEMMA WakeCounters ==
  ASSUME CountersInv, Wake
  PROVE  CountersInv'
<1> USE DEF CountersInv, Wake, topicVars, sendVars, regVars, tickVars, pongVars
<1>1. PICK label \in {"send", "done"} : Goto("sender", label)
  OBVIOUS
<1>2. /\ pc' \in Labels /\ pc'["sender"] = label
      /\ \A u \in {"sender", "handler", "main"} : u # "sender" => pc'[u] = pc[u]
  <2>1. pc \in Labels
    BY DEF TypeOK
  <2>2. QED
    BY <1>1, <2>1, GotoMoves
<1>3. TypeOK'
  BY <1>2 DEF TypeOK
<1>4. next_seq \in Nat /\ pongs_total \in Nat
  BY DEF TypeOK
<1>5. Reads' /\ Losses' /\ Remembered' /\ Locked'
  BY <1>2 DEF Reads, Losses, Remembered, Locked
<1>6. Clocked'
  BY <1>2, <1>4 DEF Clocked, Bootstrap, Asked
<1>7. QED
  BY <1>3, <1>5, <1>6

\* What on_pong leaves of a track is a track.
LEMMA TrackTypes ==
  ASSUME TypeOK, NEW r \in Responders, NEW n \in Nat
  PROVE  Track(r, n) \in PongTrack /\ Add(Track(r, n)) \in PongTrack
<1>1. pongs[r] \in PongTrack /\ next_id \in Nat
  BY DEF TypeOK
<1>2. PongSeq(n) \in Nat
  BY ConstantsAssumption DEF PongSeq, PingSeq
<1>3. Track(r, n) \in PongTrack
  BY <1>1, <1>2 DEF Track, PongTrack
<1>4. ASSUME NEW t \in PongTrack PROVE Add(t) \in PongTrack
  <2>1. t.win + 1 \in Nat /\ t.tot + 1 \in Nat
    BY DEF PongTrack
  <2>2. QED
    BY <2>1 DEF Add, PongTrack
<1>5. QED
  BY <1>3, <1>4

LEMMA TakePongCounters ==
  ASSUME CountersInv, NEW c \in Pongs, NEW r \in Responders, NEW n \in wire[c][r],
         TakePong(c, r, n)
  PROVE  CountersInv'
<1> USE DEF CountersInv, TakePong, topicVars, sendVars, tickVars, pongVars
<1>1. n \in Nat
  BY DEF TypeOK
<1>2. /\ pc' \in Labels /\ pc'["handler"] \in {"take", "accepted"}
      /\ pc'["sender"] = pc["sender"] /\ pc'["main"] = pc["main"]
  <2>1. pc \in Labels
    BY DEF TypeOK
  <2>2. CASE Goto("handler", "accepted")
    BY <2>1, <2>2, GotoMoves
  <2>3. CASE UNCHANGED pc
    BY <2>1, <2>3
  <2>4. QED
    BY <2>2, <2>3
<1>3. TypeOK'
  <2>1. wire' \in [Pings \cup Pongs -> [Responders -> SUBSET Nat]]
    BY DEF TypeOK
  <2>2. /\ pongs' \in [Responders -> PongTrack] /\ next_id' \in Nat \ {0}
        /\ answered' \in SUBSET Answer /\ timed' \in SUBSET answered'
        /\ lined' \in SUBSET answered'
    <3>1. CASE OnPong(c, r, n)
      <4>1. pongs' \in [Responders -> PongTrack]
        <5>1. \E t \in {Track(r, n), Add(Track(r, n))} : pongs' = [pongs EXCEPT ![r] = t]
          BY <3>1 DEF OnPong
        <5>2. pongs \in [Responders -> PongTrack]
          BY DEF TypeOK
        <5>3. QED
          BY <1>1, <5>1, <5>2, TrackTypes
      <4>2. next_id' \in Nat \ {0}
        BY <3>1 DEF OnPong, TypeOK
      <4>3. <<c, r, n>> \in Answer
        BY <1>1 DEF Answer
      <4>4. /\ answered' = answered \cup {<<c, r, n>>} /\ lined' = lined
            /\ timed' = timed \cup {<<c, r, n>>} \/ timed' = timed
        BY <3>1 DEF OnPong
      <4>5. answered \in SUBSET Answer /\ timed \in SUBSET answered /\ lined \in SUBSET answered
        BY DEF TypeOK
      <4>6. QED
        BY <4>1, <4>2, <4>3, <4>4, <4>5
    <3>2. CASE UNCHANGED regVars
      BY <3>2 DEF regVars, TypeOK
    <3>3. QED
      BY <3>1, <3>2
  <2>3. QED
    BY <1>2, <2>1, <2>2 DEF TypeOK
<1>4. Reads' /\ Losses' /\ Remembered' /\ Locked'
  BY <1>2 DEF Reads, Losses, Remembered, Locked
<1>5. Clocked'
  BY <1>2 DEF Clocked, Bootstrap, Asked
<1>6. QED
  BY <1>3, <1>4, <1>5

LEMMA CountPongCounters ==
  ASSUME CountersInv, CountPong
  PROVE  CountersInv'
<1> USE DEF CountersInv, CountPong, topicVars, sendVars, regVars, tickVars, pongVars
<1>1. /\ pc' \in Labels /\ pc'["handler"] = "counted"
      /\ \A u \in {"sender", "handler", "main"} : u # "handler" => pc'[u] = pc[u]
  <2>1. pc \in Labels
    BY DEF TypeOK
  <2>2. QED
    BY <2>1, GotoMoves
<1>2. /\ next_seq \in Nat /\ pongs_total \in Nat /\ last_pongs \in Nat
      /\ tick.pongs \in Nat
  BY DEF TypeOK
<1>3. TypeOK'
  BY <1>1, <1>2 DEF TypeOK
<1>4. Reads' /\ Losses' /\ Remembered' /\ Locked'
  BY <1>1, <1>2 DEF Reads, Losses, Remembered, Locked
<1>5. Clocked'
  BY <1>1, <1>2 DEF Clocked, Bootstrap, Asked
<1>6. QED
  BY <1>3, <1>4, <1>5

LEMMA ReplyCounters ==
  ASSUME CountersInv, Reply \/ HandlerExit
  PROVE  CountersInv'
<1> USE DEF CountersInv, Reply, HandlerExit, topicVars, sendVars, regVars, tickVars, pongVars
<1>1. PICK label \in {"take", "send", "done"} :
        /\ Goto("handler", label)
        /\ pc["handler"] \in {"take", "counted"}
        /\ label = "send" => pc["handler"] = "counted"
  OBVIOUS
<1>2. /\ pc' \in Labels /\ pc'["handler"] = label
      /\ \A u \in {"sender", "handler", "main"} : u # "handler" => pc'[u] = pc[u]
  <2>1. pc \in Labels
    BY DEF TypeOK
  <2>2. QED
    BY <1>1, <2>1, GotoMoves
<1>3. UNCHANGED <<stop, driven, topicVars, sendVars, pongs_total, regVars, tickVars, pongVars>>
  OBVIOUS
<1>4. next_seq \in Nat /\ pongs_total \in Nat
  BY DEF TypeOK
<1> HIDE DEF Reply, HandlerExit
<1>5. TypeOK'
  <2>1. TypeOK
    OBVIOUS
  <2> HIDE DEF CountersInv
  <2>2. QED
    BY <1>2, <1>3, <2>1 DEF TypeOK
<1>6. Reads' /\ Losses' /\ Remembered' /\ Locked'
  BY <1>1, <1>2, <1>3 DEF Reads, Losses, Remembered, Locked
<1>7. Clocked'
  BY <1>1, <1>2, <1>3, <1>4 DEF Clocked, Bootstrap, Asked
<1>8. QED
  BY <1>5, <1>6, <1>7

----------------------------------------------------------------------------
(* The main thread.                                                        *)

LEMMA TickDueCounters ==
  ASSUME CountersInv, TickDue
  PROVE  CountersInv'
<1> USE DEF CountersInv, TickDue, topicVars, sendVars, regVars, tickVars, pongVars
<1>1. /\ pc' \in Labels /\ pc'["main"] = "tick" /\ pc["main"] = "idle"
      /\ \A u \in {"sender", "handler", "main"} : u # "main" => pc'[u] = pc[u]
  <2>1. pc \in Labels
    BY DEF TypeOK
  <2>2. QED
    BY <2>1, GotoMoves
<1>2. TypeOK'
  BY <1>1 DEF TypeOK
<1>3. Reads' /\ Losses' /\ Remembered' /\ Locked' /\ Clocked'
  BY <1>1 DEF Reads, Losses, Remembered, Locked, Clocked, Bootstrap, Asked
<1>4. QED
  BY <1>2, <1>3

LEMMA TickPongsCounters ==
  ASSUME CountersInv, TickPongs
  PROVE  CountersInv'
<1> USE DEF CountersInv, TickPongs, topicVars, sendVars, regVars, pongVars
<1>1. /\ pc' \in Labels /\ pc'["main"] = "pings"
      /\ \A u \in {"sender", "handler", "main"} : u # "main" => pc'[u] = pc[u]
  <2>1. pc \in Labels
    BY DEF TypeOK
  <2>2. QED
    BY <2>1, GotoMoves
<1>2. pongs_total \in Nat /\ tick \in [pongs : Nat, dpongs : Nat, dpings : Nat]
  BY DEF TypeOK
<1>3. tick' \in [pongs : Nat, dpongs : Nat, dpings : Nat] /\ tick'.pongs = pongs_total
  BY <1>2
<1>4. TypeOK'
  BY <1>1, <1>3 DEF TypeOK
<1>5. Reads' /\ Losses' /\ Remembered' /\ Locked' /\ Clocked'
  BY <1>1, <1>2, <1>3
     DEF Reads, Losses, Remembered, Locked, Clocked, Bootstrap, Asked
<1>6. QED
  BY <1>4, <1>5

LEMMA TickPingsCounters ==
  ASSUME CountersInv, TickPings
  PROVE  CountersInv'
<1> USE DEF CountersInv, TickPings, topicVars, sendVars, regVars, pongVars
<1>1. /\ pc' \in Labels /\ pc'["main"] = "report"
      /\ \A u \in {"sender", "handler", "main"} : u # "main" => pc'[u] = pc[u]
  <2>1. pc \in Labels
    BY DEF TypeOK
  <2>2. QED
    BY <2>1, GotoMoves
<1>2. /\ pings \in Nat /\ pongs_total \in Nat /\ lost_total \in Nat
      /\ last_pings \in Nat /\ last_pongs \in Nat
      /\ tick \in [pongs : Nat, dpongs : Nat, dpings : Nat]
      /\ lines \in [pings : Nat, pongs : Nat]
  BY DEF TypeOK
<1>3. pings - last_pings \in Nat /\ tick.pongs - last_pongs \in Nat /\ tick.pongs \in Nat
  BY <1>2 DEF Reads
<1>4. /\ tick' \in [pongs : Nat, dpongs : Nat, dpings : Nat]
      /\ tick'.dpings = pings - last_pings
      /\ tick'.dpongs = tick.pongs - last_pongs
      /\ lines' \in [pings : Nat, pongs : Nat]
      /\ lines'.pings = lines.pings + (pings - last_pings)
      /\ lines'.pongs = lines.pongs + (tick.pongs - last_pongs)
  <2>1. /\ lines.pings + (pings - last_pings) \in Nat
        /\ lines.pongs + (tick.pongs - last_pongs) \in Nat
    BY <1>2, <1>3
  <2>2. QED
    BY <1>2, <1>3, <2>1 DEF TickDeltas
<1>5. last_pings' = pings /\ last_pongs' = tick.pongs
  BY DEF Remember
<1>6. TypeOK'
  BY <1>1, <1>2, <1>3, <1>4, <1>5 DEF TypeOK
<1>7. Reads'
  BY <1>1, <1>2, <1>5 DEF Reads
<1>8. Losses'
  BY <1>1, <1>2, <1>3, <1>4, <1>5 DEF Losses
<1>9. Remembered'
  BY <1>2, <1>3, <1>4, <1>5 DEF Remembered
<1>10. Locked' /\ Clocked'
  BY <1>1 DEF Locked, Clocked, Bootstrap, Asked
<1>11. QED
  BY <1>6, <1>7, <1>8, <1>9, <1>10

\* The clamp of DeltaLost keeps the total in its bracket; so does a silent tick.
LEMMA TickReportCounters ==
  ASSUME CountersInv, TickReport
  PROVE  CountersInv'
<1> USE DEF CountersInv, TickReport, topicVars, sendVars, pongVars
<1>1. /\ pc' \in Labels /\ pc'["main"] = "idle"
      /\ \A u \in {"sender", "handler", "main"} : u # "main" => pc'[u] = pc[u]
  <2>1. pc \in Labels
    BY DEF TypeOK
  <2>2. QED
    BY <2>1, GotoMoves
<1>2. /\ lost_total \in Nat /\ last_pings \in Nat /\ last_pongs \in Nat
      /\ tick.dpings \in Nat /\ tick.dpongs \in Nat
  BY DEF TypeOK
<1>3. /\ lost_total' \in Nat
      /\ last_pings - last_pongs <= lost_total'
      /\ lost_total' <= last_pings
  <2>1. CASE Silent
    BY <1>2, <2>1 DEF Silent, Losses
  <2>2. CASE ~Silent
    BY <1>2, <2>2 DEF DeltaLost, Losses
  <2>3. QED
    BY <2>1, <2>2
<1>4. TypeOK'
  <2>1. pongs' \in [Responders -> PongTrack]
    <3>1. ASSUME NEW t \in PongTrack PROVE [t EXCEPT !.win = 0] \in PongTrack
      BY DEF PongTrack
    <3>2. pongs \in [Responders -> PongTrack]
      BY DEF TypeOK
    <3>3. pongs' = [r \in Responders |-> [pongs[r] EXCEPT !.win = 0]]
      OBVIOUS
    <3> HIDE DEF CountersInv, TickReport
    <3>4. QED
      BY <3>1, <3>2, <3>3
  <2>2. tick' \in [pongs : Nat, dpongs : Nat, dpings : Nat]
    OBVIOUS
  <2>3. QED
    BY <1>1, <1>3, <2>1, <2>2 DEF TypeOK
<1>5. Losses'
  BY <1>1, <1>3 DEF Losses
<1>6. Reads' /\ Remembered' /\ Locked' /\ Clocked'
  BY <1>1 DEF Reads, Remembered, Locked, Clocked, Bootstrap, Asked
<1>7. QED
  BY <1>4, <1>5, <1>6

LEMMA SummaryCounters ==
  ASSUME CountersInv, Summary
  PROVE  CountersInv'
<1> USE DEF CountersInv, Summary, topicVars, sendVars, regVars, pongVars
<1>1. /\ pc' \in Labels /\ pc'["main"] = "done"
      /\ \A u \in {"sender", "handler", "main"} : u # "main" => pc'[u] = pc[u]
  <2>1. pc \in Labels
    BY DEF TypeOK
  <2>2. QED
    BY <2>1, GotoMoves
<1>2. summary' \in [sent : Nat, recv : Nat, lost : Nat]
  <2>1. /\ pings \in Nat /\ pongs_total \in Nat
        /\ lost_total + DeltaLost(pings, pongs_total) \in Nat
    BY DEF TypeOK, DeltaLost
  <2>2. QED
    BY <2>1
<1>3. TypeOK'
  BY <1>1, <1>2 DEF TypeOK
<1>4. Reads' /\ Losses' /\ Remembered' /\ Locked' /\ Clocked'
  BY <1>1 DEF Reads, Losses, Remembered, Locked, Clocked, Bootstrap, Asked
<1>5. QED
  BY <1>3, <1>4

----------------------------------------------------------------------------
(* Every step.                                                             *)

\* What the topics and the pong processes do leaves the counters alone.
LEMMA OutsideCounters ==
  ASSUME CountersInv, NEW r \in Responders,
         \/ Match(r)
         \/ \E c \in Pings \cup Pongs : \E n \in wire[c][r] : Lose(c, r, n)
         \/ Responder(r)
  PROVE  CountersInv'
<1> USE DEF CountersInv, topicVars, sendVars, regVars, tickVars, pongVars
<1>1. /\ UNCHANGED <<stop, driven, net, pc, sendVars, pongs_total, regVars, tickVars>>
      /\ matched' \in SUBSET Responders
      /\ wire' \in [Pings \cup Pongs -> [Responders -> SUBSET Nat]]
      /\ echoing' \in SUBSET Responders
      /\ roundtrips' \in [Responders -> Nat]
  <2>1. CASE Match(r)
    BY <2>1 DEF Match, TypeOK
  <2>2. ASSUME NEW c \in Pings \cup Pongs, NEW n \in wire[c][r], Lose(c, r, n)
        PROVE  wire' \in [Pings \cup Pongs -> [Responders -> SUBSET Nat]]
    BY <2>2 DEF Lose, TypeOK
  <2>3. ASSUME NEW c \in Pings, NEW n \in wire[c][r], Echo(c, r, n)
        PROVE  wire' \in [Pings \cup Pongs -> [Responders -> SUBSET Nat]]
    <3>1. n \in Nat /\ wire \in [Pings \cup Pongs -> [Responders -> SUBSET Nat]]
      BY DEF TypeOK
    <3>2. QED
      BY <2>3, <3>1 DEF Echo
  <2>4. CASE CountRoundtrip(r)
    BY <2>4 DEF CountRoundtrip, TypeOK
  <2>5. CASE \E c \in Pings \cup Pongs : \E n \in wire[c][r] : Lose(c, r, n)
    BY <2>2, <2>5 DEF Lose, TypeOK
  <2>6. CASE \E c \in Pings : \E n \in wire[c][r] : Echo(c, r, n)
    BY <2>3, <2>6 DEF Echo, TypeOK
  <2>7. QED
    BY <2>1, <2>4, <2>5, <2>6 DEF Responder
<1>2. TypeOK'
  BY <1>1 DEF TypeOK
<1>3. Reads' /\ Losses' /\ Remembered' /\ Locked' /\ Clocked'
  BY <1>1 DEF Reads, Losses, Remembered, Locked, Clocked, Bootstrap, Asked
<1>4. QED
  BY <1>2, <1>3

LEMMA NextCounters == CountersInv /\ [Next]_vars => CountersInv'
<1> SUFFICES ASSUME CountersInv, [Next]_vars PROVE CountersInv'
  OBVIOUS
<1>1. CASE Sender
  BY <1>1, WakeCounters, PublishPingCounters, CountPingCounters DEF Sender
<1>2. CASE Handler \/ HandlerExit
  BY <1>2, TakePongCounters, CountPongCounters, ReplyCounters, PublishPingCounters,
     CountPingCounters DEF Handler
<1>3. CASE Main
  BY <1>3, TickDueCounters, TickPongsCounters, TickPingsCounters, TickReportCounters,
     SummaryCounters
     DEF Main
<1>4. CASE \E r \in Responders : Responder(r)
  BY <1>4, OutsideCounters
<1>5. CASE Topic
  BY <1>5, OutsideCounters DEF Topic
<1>6. CASE Stop \/ UNCHANGED vars
  <2>1. /\ UNCHANGED <<driven, topicVars, pc, sendVars, pongs_total, regVars, tickVars, pongVars>>
        /\ stop' \in BOOLEAN
    BY <1>6, Zenon DEF Stop, vars, CountersInv, TypeOK
  <2>2. QED
    BY <2>1 DEF CountersInv, TypeOK, Reads, Losses, Remembered, Locked, Clocked, Bootstrap,
       Asked, topicVars, sendVars, regVars, tickVars, pongVars
<1>7. QED
  BY <1>1, <1>2, <1>3, <1>4, <1>5, <1>6 DEF Next

\* The counters of ping stay in bounds of each other between any two steps.
THEOREM CountersHold == Spec => []CountersInv
  BY InitCounters, NextCounters, PTL DEF Spec

----------------------------------------------------------------------------
(* What follows.                                                           *)

\* The state of both ends and of the topics keeps its types; in particular no
\* difference of two counters wraps below zero (PingMode::tick).
THEOREM TypeCorrect == Spec => []TypeOK
<1>1. CountersInv => TypeOK
  BY DEF CountersInv
<1>2. QED
  BY <1>1, CountersHold, PTL

\* send_mu_ makes pings_ exact: the two callers of send_ping lose no count.
THEOREM PingsCounted == Spec => []PingsExact
<1>1. CountersInv => PingsExact
  <2> SUFFICES ASSUME CountersInv PROVE PingsExact
    OBVIOUS
  <2>1. Cardinality({}) = 0 /\ Cardinality({"sender"}) = 1 /\ Cardinality({"handler"}) = 1
    BY FS_EmptySet, FS_Singleton
  <2>2. pings \in Nat
    BY DEF CountersInv, TypeOK
  <2>3. QED
    BY <2>1, <2>2 DEF CountersInv, Locked, PingsExact
<1>2. QED
  BY <1>1, CountersHold, PTL

\* However many responders answer, a reply-driven run sends no ping that the
\* bootstrap or an accepted pong did not ask for (PingMode::handle).
THEOREM OnePingPerPong == Spec => []SelfClocked
<1>1. CountersInv => SelfClocked
  <2> SUFFICES ASSUME CountersInv PROVE SelfClocked
    OBVIOUS
  <2>1. next_seq \in Nat /\ pongs_total \in Nat
    BY DEF CountersInv, TypeOK
  <2>2. QED
    BY <2>1 DEF CountersInv, Clocked, Bootstrap, Asked, SelfClocked
<1>2. QED
  BY <1>1, CountersHold, PTL

\* lost_total_ is never below the shortfall of pongs nor above the pings it is
\* about, for any number of pongs per ping (PingMode::tick).
THEOREM LossesBracketed == Spec => []LossBracket
<1>1. CountersInv => LossBracket
  BY DEF CountersInv, Losses, LossBracket
<1>2. QED
  BY <1>1, CountersHold, PTL

----------------------------------------------------------------------------
(* The lines implement the meter.                                          *)

Total == [pings |-> pings, pongs |-> pongs_total]

Shown == [pings |-> lines.pings,
          pongs |-> IF pc["main"] = "pings"
                    THEN lines.pongs + (tick.pongs - last_pongs)
                    ELSE lines.pongs]

LEMMA MeterInit == Init => Meter!Init
  BY DEF Init, Meter!Init

\* A step that grows a counter, or none, and prints nothing.
LEMMA CountImplements ==
  ASSUME pings' \in Nat, pongs_total' \in Nat,
         pings <= pings', pongs_total <= pongs_total', UNCHANGED Shown
  PROVE  Meter!Next
<1>1. Total' \in [{"pings", "pongs"} -> Nat]
  BY DEF Total
<1>2. \A c \in {"pings", "pongs"} : Total'[c] >= Total[c]
  BY DEF Total
<1>3. QED
  BY <1>1, <1>2 DEF Meter!Next, Meter!Count, Total, Shown

\* The first load of a tick shows the pongs, the second one the pings.
LEMMA TickImplements ==
  ASSUME CountersInv, TickPongs \/ TickPings
  PROVE  Meter!Next
<1> USE DEF CountersInv
<1>1. pc \in Labels
  BY DEF TypeOK
<1>2. UNCHANGED Total
  BY DEF TickPongs, TickPings, sendVars, Total
<1>3. CASE TickPongs
  <2>1. pc["main"] = "tick" /\ pc'["main"] = "pings"
    BY <1>1, <1>3, GotoMoves DEF TickPongs
  <2>2. /\ tick'.pongs = pongs_total /\ lines' = lines /\ last_pongs' = last_pongs
        /\ lines.pongs = last_pongs /\ last_pongs \in Nat /\ pongs_total \in Nat
    BY <1>3 DEF TickPongs, TypeOK, Remembered
  <2>3. Shown' = [c \in {"pings", "pongs"} |-> IF c \in {"pongs"} THEN Total[c] ELSE Shown[c]]
    BY <2>1, <2>2 DEF Shown, Total
  <2>4. QED
    BY <1>2, <2>3 DEF Meter!Next, Meter!Report, Total, Shown
<1>4. CASE TickPings
  <2>1. pc["main"] = "pings" /\ pc'["main"] = "report"
    BY <1>1, <1>4, GotoMoves DEF TickPings
  <2>2. /\ lines'.pings = lines.pings + (pings - last_pings)
        /\ lines'.pongs = lines.pongs + (tick.pongs - last_pongs)
        /\ lines.pings = last_pings /\ last_pings \in Nat /\ pings \in Nat
    BY <1>4 DEF TickPings, TickDeltas, TypeOK, Remembered
  <2>3. Shown' = [c \in {"pings", "pongs"} |-> IF c \in {"pings"} THEN Total[c] ELSE Shown[c]]
    BY <2>1, <2>2 DEF Shown, Total
  <2>4. QED
    BY <1>2, <2>3 DEF Meter!Next, Meter!Report, Total, Shown
<1>5. QED
  BY <1>3, <1>4

\* A step prints nothing, and takes no count back.
PrintsNothing ==
  /\ pings <= pings' /\ pongs_total <= pongs_total'
  /\ lines' = lines /\ last_pongs' = last_pongs
  /\ \/ pc'["main"] = pc["main"] /\ tick' = tick
     \/ pc["main"] # "pings" /\ pc'["main"] # "pings"

LEMMA OthersPrintNothing ==
  ASSUME CountersInv, Next, ~TickPongs, ~TickPings
  PROVE  PrintsNothing
<1> USE DEF topicVars, sendVars, regVars, tickVars, pongVars, PrintsNothing
<1>1. pings \in Nat /\ pongs_total \in Nat /\ pc \in Labels
  BY DEF CountersInv, TypeOK
<1>2. ASSUME NEW t \in {"sender", "handler"}, NEW label, Goto(t, label)
      PROVE  pc'["main"] = pc["main"]
  BY <1>1, <1>2 DEF Goto, Labels
<1>3. CASE Wake \/ Reply \/ HandlerExit
  <2>1. pc'["main"] = pc["main"]
    BY <1>2, <1>3 DEF Wake, Reply, HandlerExit
  <2>2. QED
    BY <1>1, <1>3, <2>1 DEF Wake, Reply, HandlerExit
<1>4. ASSUME NEW t \in {"sender", "handler"}, PublishPing(t) \/ CountPing(t)
      PROVE  PrintsNothing
  <2>1. pc'["main"] = pc["main"]
    BY <1>2, <1>4 DEF PublishPing, CountPing
  <2>2. QED
    BY <1>1, <1>4, <2>1 DEF PublishPing, CountPing
<1>5. ASSUME NEW c \in Pongs, NEW r \in Responders, NEW n \in wire[c][r],
         TakePong(c, r, n)
      PROVE  PrintsNothing
  <2>1. pc'["main"] = pc["main"]
    BY <1>2, <1>5 DEF TakePong
  <2>2. QED
    BY <1>1, <1>5, <2>1 DEF TakePong
<1>6. CASE CountPong
  <2>1. pc'["main"] = pc["main"]
    BY <1>2, <1>6 DEF CountPong
  <2>2. QED
    BY <1>1, <1>6, <2>1 DEF CountPong
<1>7. CASE TickDue \/ TickReport \/ Summary
  <2>1. pc["main"] # "pings" /\ pc'["main"] # "pings"
    BY <1>1, <1>7 DEF TickDue, TickReport, Summary, Goto, Labels
  <2>2. QED
    BY <1>1, <1>7, <2>1 DEF TickDue, TickReport, Summary
<1>8. CASE \E r \in Responders : Responder(r)
  <2>1. UNCHANGED <<pc, sendVars, pongs_total, tickVars>>
    BY <1>8, ZenonT(60) DEF Responder, Echo, CountRoundtrip
  <2>2. QED
    BY <1>1, <2>1
<1>9. CASE Topic \/ Stop
  BY <1>1, <1>9 DEF Topic, Match, Lose, Stop
<1>10. QED
  BY <1>3, <1>4, <1>5, <1>6, <1>7, <1>8, <1>9 DEF Next, Sender, Handler, Main

LEMMA MeterNext == CountersInv /\ [Next]_vars => [Meter!Next]_<<Total, Shown>>
<1> SUFFICES ASSUME CountersInv, [Next]_vars PROVE [Meter!Next]_<<Total, Shown>>
  OBVIOUS
<1>1. CASE TickPongs \/ TickPings
  BY <1>1, TickImplements
<1>2. CASE Next /\ ~TickPongs /\ ~TickPings
  <2>1. pings' \in Nat /\ pongs_total' \in Nat
    BY NextCounters DEF CountersInv, TypeOK
  <2>2. Shown' = Shown /\ pings <= pings' /\ pongs_total <= pongs_total'
    BY <1>2, OthersPrintNothing DEF PrintsNothing, Shown
  <2>3. QED
    BY <2>1, <2>2, CountImplements
<1>3. CASE UNCHANGED vars
  BY <1>3 DEF vars, sendVars, tickVars, Total, Shown
<1>4. QED
  BY <1>1, <1>2, <1>3

\* Adding up what the lines of ping call sent and received gives the counters
\* as of the last tick, although a tick reads them at two moments (TickMeter).
THEOREM ImplementsMeter == Spec => MeterSpec
<1>1. CountersInv /\ [Next]_vars => [Meter!Next]_<<Total, Shown>>
  BY MeterNext
<1>2. QED
  BY <1>1, MeterInit, CountersHold, PTL
     DEF Spec, MeterSpec, Meter!Spec, Total, Shown
=============================================================================
