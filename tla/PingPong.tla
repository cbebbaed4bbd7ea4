------------------------------ MODULE PingPong ------------------------------
(***************************************************************************)
(* A ping process and the pong processes that answer it.                   *)
(*                                                                         *)
(* The ping process runs three threads over shared state: the sender of    *)
(* PingMode::start, the handler of incoming pongs (the executor's callback *)
(* or the waitset worker) and the main thread, which ticks once a second   *)
(* and prints the summary once the other two have been joined. They meet   *)
(* in atomics (pings_, pongs_total_, next_seq_), in send_mu_, and in       *)
(* PongRegistry, whose mutex covers a whole on_pong or snapshot. A step of *)
(* the model is what happens between two such meeting points.              *)
(*                                                                         *)
(* A pong process echoes each ping and counts the echo afterwards. The two *)
(* topics are external. A sample is known here by the number of its ping;  *)
(* PingSeq and PongSeq give the seq it carries. Pongs are not addressed:   *)
(* when another ping process uses the same topics, this one also gets the  *)
(* echoes of the other's pings ("their" channels), numbered from 0 as well *)
(* and stamped by a clock that need not be ours.                           *)
(***************************************************************************)
EXTENDS Integers, FiniteSets, FiniteSetsExt

CONSTANTS
  Responders,  \* the pong processes, by the GID of their publisher
  Drivers,     \* how a run may be driven: "rate" (rate_hz > 0), "reply" (0)
  Networks,    \* the sets of faults a run's network may have
  MaxPings,    \* bound: pings sent, for each kind of network
  TheirPings,  \* bound: the pings of another ping process, by number
  SeqMod,      \* the seq of a ping is computed modulo this (2^32)
  TotalCap,    \* total_cap of LatencyStat: the rtts a run keeps (200000)
  WindowCap    \* window_cap of LatencyStat: those a window keeps (200000)

\* "late": a responder may be discovered after pings have been sent.
\* "foreign": another ping process is at work on the same topics.
Faults == {"lose", "reorder", "duplicate", "late", "foreign"}

\* The topics seen from one ping process, and where the echo of a ping goes.
EchoOf == [ping |-> "pong", their_ping |-> "their_pong"]
Pings == {"ping", "their_ping"}
Pongs == {"pong", "their_pong"}

ASSUME ConstantsAssumption ==
  /\ Drivers \subseteq {"rate", "reply"}
  /\ Networks \subseteq SUBSET Faults
  /\ MaxPings \in [Networks -> Nat]
  /\ TheirPings \subseteq Nat
  /\ SeqMod \in Nat \ {0}
  /\ TotalCap \in Nat
  /\ WindowCap \in Nat

VARIABLES
  stop,         \* g_stop
  driven,       \* how this run is driven
  net,          \* external: the faults of this run's network
  matched,      \* external: the responders discovered
  wire,         \* external: the samples in flight to and from each responder
  pc,           \* where each thread of the ping process is
  send_mu,      \* the thread inside send_ping: at most one
  next_seq,     \* next_seq_, not yet reduced modulo 2^32
  pings,        \* pings_
  pongs_total,  \* pongs_total_
  pongs,        \* pongs_: a PongTrack for each responder; id 0 is "no entry"
  next_id,      \* PongRegistry::next_id_
  last_pings,   \* last_pings_
  last_pongs,   \* last_pongs_
  lost_total,   \* lost_total_
  tick,         \* the locals of the PingMode::tick in progress
  summary,      \* what the summary printed
  lines,        \* history: what the per-second lines have added up to
  echoing,      \* the pong processes between publish and counting it
  roundtrips,   \* roundtrips_ of each pong process
  answered,     \* history: the pongs that on_pong accepted
  timed,        \* history: those of them whose rtt was not negative
  lined         \* history: those that were accepted before the last snapshot

topicVars   == <<net, matched, wire>>
sendVars    == <<send_mu, next_seq, pings>>
regVars     == <<pongs, next_id, answered, timed>>
tickVars    == <<last_pings, last_pongs, lost_total, tick, summary, lines, lined>>
pongVars    == <<echoing, roundtrips>>
vars == <<stop, driven, topicVars, pc, sendVars, pongs_total, regVars,
          tickVars, pongVars>>

----------------------------------------------------------------------------
(* State.                                                                  *)

PongTrack == [id : Nat, last_seq : Nat, win : Nat, tot : Nat]

EmptyTrack == [id |-> 0, last_seq |-> 0, win |-> 0, tot |-> 0]

Known(r) == pongs[r].id # 0

\* A pong: its topic, its responder and the number of its ping.
Answer == Pongs \X Responders \X Nat
AnsweredBy(r) == {a \in answered : a[2] = r}
TimedBy(r) == {a \in timed : a[2] = r}

Labels == [sender  : {"asleep", "send", "sent", "done"},
           handler : {"take", "accepted", "counted", "send", "sent", "done"},
           main    : {"idle", "tick", "pings", "report", "done"}]

TypeOK ==
  /\ stop \in BOOLEAN
  /\ driven \in Drivers
  /\ net \in SUBSET Faults
  /\ matched \in SUBSET Responders
  /\ wire \in [Pings \cup Pongs -> [Responders -> SUBSET Nat]]
  /\ pc \in Labels
  /\ send_mu \in SUBSET {"sender", "handler"}
  /\ {next_seq, pings, pongs_total, last_pings, last_pongs, lost_total} \subseteq Nat
  /\ pongs \in [Responders -> PongTrack]
  /\ next_id \in Nat \ {0}
  /\ tick \in [pongs : Nat, dpongs : Nat, dpings : Nat]
  /\ summary \in [sent : Nat, recv : Nat, lost : Nat]
  /\ lines \in [pings : Nat, pongs : Nat]
  /\ echoing \in SUBSET Responders
  /\ roundtrips \in [Responders -> Nat]
  /\ answered \in SUBSET Answer
  /\ timed \in SUBSET answered
  /\ lined \in SUBSET answered

Init ==
  /\ stop = FALSE
  /\ driven \in Drivers
  /\ net \in Networks
  /\ matched \in SUBSET Responders
  /\ "late" \in net \/ matched # {}
  /\ wire = [c \in Pings \cup Pongs |-> [r \in Responders |->
               IF c = "their_ping" /\ "foreign" \in net THEN TheirPings ELSE {}]]
  /\ pc = [sender |-> "asleep", handler |-> "take", main |-> "idle"]
  /\ send_mu = {}
  /\ next_seq = 0
  /\ pings = 0
  /\ pongs_total = 0
  /\ pongs = [r \in Responders |-> EmptyTrack]
  /\ next_id = 1
  /\ last_pings = 0
  /\ last_pongs = 0
  /\ lost_total = 0
  /\ tick = [pongs |-> 0, dpongs |-> 0, dpings |-> 0]
  /\ summary = [sent |-> 0, recv |-> 0, lost |-> 0]
  /\ lines = [pings |-> 0, pongs |-> 0]
  /\ echoing = {}
  /\ roundtrips = [r \in Responders |-> 0]
  /\ answered = {}
  /\ timed = {}
  /\ lined = {}

Goto(t, label) == pc' = [pc EXCEPT ![t] = label]

----------------------------------------------------------------------------
(* The topics.                                                             *)

Match(r) ==
  /\ "late" \in net
  /\ r \notin matched
  /\ matched' = matched \cup {r}
  /\ UNCHANGED <<stop, driven, net, wire, pc, sendVars, pongs_total, regVars,
                 tickVars, pongVars>>

Lose(c, r, n) ==
  /\ "lose" \in net
  /\ n \in wire[c][r]
  /\ wire' = [wire EXCEPT ![c][r] = @ \ {n}]
  /\ UNCHANGED <<stop, driven, net, matched, pc, sendVars, pongs_total,
                 regVars, tickVars, pongVars>>

Deliverable(c, r, n) ==
  /\ n \in wire[c][r]
  /\ "reorder" \in net \/ \A m \in wire[c][r] : n <= m

\* SIGINT or the end of -D.
Stop ==
  /\ ~stop
  /\ stop' = TRUE
  /\ UNCHANGED <<driven, topicVars, pc, sendVars, pongs_total, regVars,
                 tickVars, pongVars>>

----------------------------------------------------------------------------
(* PingMode::send_ping, called by the sender thread and by the handler.    *)

\* (next_seq_++ << 1) | 1 in 32 bits, and the echo's seq & ~1.
PingSeq(n) == ((2 * n) % SeqMod) + 1

\* Mutation: the echo is given the seq of the first ping.
PongSeqStuck(n) == PingSeq(0) - 1

PongSeq(n) == PingSeq(n) - 1

\* The bound: a thread enters send_ping only while there is room.
Room ==
  next_seq + Cardinality({t \in {"sender", "handler"} : pc[t] = "send"}) < MaxPings[net]

\* Mutation: nothing keeps the two callers of send_ping apart.
Unlocked == TRUE

SendFree == send_mu = {}

\* The lock is taken, the ping is numbered and published to those matched.
PublishPing(t) ==
  /\ pc[t] = "send"
  /\ SendFree
  /\ send_mu' = send_mu \cup {t}
  /\ next_seq' = next_seq + 1
  /\ wire' = [wire EXCEPT !["ping"] =
                [r \in Responders |->
                   IF r \in matched THEN @[r] \cup {next_seq} ELSE @[r]]]
  /\ Goto(t, "sent")
  /\ UNCHANGED <<stop, driven, net, matched, pings, pongs_total, regVars,
                 tickVars, pongVars>>

\* Mutation: the bootstrap sender goes on as if the run had a rate.
AlwaysAsleep(t) == IF t = "handler" THEN "take" ELSE "asleep"

AfterSend(t) ==
  IF t = "handler" THEN "take" ELSE IF driven = "rate" THEN "asleep" ELSE "done"

\* The ping is counted only after publish returned, and the lock released.
CountPing(t) ==
  /\ pc[t] = "sent"
  /\ pings' = pings + 1
  /\ send_mu' = send_mu \ {t}
  /\ Goto(t, AfterSend(t))
  /\ UNCHANGED <<stop, driven, topicVars, next_seq, pongs_total, regVars,
                 tickVars, pongVars>>

\* Mutation: the sender sends on whatever stop says.
WakeRegardless ==
  /\ pc["sender"] = "asleep"
  /\ Room
  /\ Goto("sender", "send")
  /\ UNCHANGED <<stop, driven, topicVars, sendVars, pongs_total, regVars,
                 tickVars, pongVars>>

\* The sender's sleep ends: the first one of 200 ms, or one period.
Wake ==
  /\ pc["sender"] = "asleep"
  /\ \/ stop /\ Goto("sender", "done")
     \/ ~stop /\ Room /\ Goto("sender", "send")
  /\ UNCHANGED <<stop, driven, topicVars, sendVars, pongs_total, regVars,
                 tickVars, pongVars>>

----------------------------------------------------------------------------
(* PongRegistry::on_pong and PingMode::handle.                             *)

\* Mutation: a pong equal to the last one passes.
AdvancesOrRepeats(t, s) == t.id = 0 \/ s >= t.last_seq

Advances(t, s) == t.id = 0 \/ s > t.last_seq

\* LatencyStat::add of an rtt that is not negative: a full buffer stays as it is.
Add(t) ==
  [id |-> t.id, last_seq |-> t.last_seq,
   win |-> IF t.win < WindowCap THEN t.win + 1 ELSE t.win,
   tot |-> IF t.tot < TotalCap THEN t.tot + 1 ELSE t.tot]

Track(r, n) ==
  [pongs[r] EXCEPT !.id = IF @ = 0 THEN next_id ELSE @, !.last_seq = PongSeq(n)]

\* LatencyStat::add refuses a negative rtt. The stamp of our own ping is never
\* ahead of our clock; that of another process may be.
RttSigns(c) == {"fine"} \cup (IF c = "their_pong" THEN {"negative"} ELSE {})

\* Mutation: the pong that creates a track leaves no rtt in it.
OnPongFirstUnsampled(c, r, n) ==
  /\ \E sign \in RttSigns(c) :
       /\ pongs' = [pongs EXCEPT ![r] =
                      IF sign = "fine" /\ Known(r) THEN Add(Track(r, n)) ELSE Track(r, n)]
       /\ timed' = IF sign = "fine" THEN timed \cup {<<c, r, n>>} ELSE timed
  /\ next_id' = IF Known(r) THEN next_id ELSE next_id + 1
  /\ answered' = answered \cup {<<c, r, n>>}

OnPong(c, r, n) ==
  /\ \E sign \in RttSigns(c) :
       /\ pongs' = [pongs EXCEPT ![r] =
                      IF sign = "fine" THEN Add(Track(r, n)) ELSE Track(r, n)]
       /\ timed' = IF sign = "fine" THEN timed \cup {<<c, r, n>>} ELSE timed
  /\ next_id' = IF Known(r) THEN next_id ELSE next_id + 1
  /\ answered' = answered \cup {<<c, r, n>>}

TakePong(c, r, n) ==
  /\ pc["handler"] = "take"
  /\ Deliverable(c, r, n)
  /\ \/ wire' = [wire EXCEPT ![c][r] = @ \ {n}]
     \/ "duplicate" \in net /\ UNCHANGED wire
  /\ \/ Advances(pongs[r], PongSeq(n)) /\ OnPong(c, r, n) /\ Goto("handler", "accepted")
     \/ ~Advances(pongs[r], PongSeq(n)) /\ UNCHANGED <<regVars, pc>>
  /\ UNCHANGED <<stop, driven, net, matched, sendVars, pongs_total, tickVars,
                 pongVars>>

CountPong ==
  /\ pc["handler"] = "accepted"
  /\ pongs_total' = pongs_total + 1
  /\ Goto("handler", "counted")
  /\ UNCHANGED <<stop, driven, topicVars, sendVars, regVars, tickVars, pongVars>>

\* An accepted pong is answered with the next ping, unless the run has a rate
\* or is over.
Reply ==
  /\ pc["handler"] = "counted"
  /\ \/ (driven = "rate" \/ stop) /\ Goto("handler", "take")
     \/ ~(driven = "rate" \/ stop) /\ Room /\ Goto("handler", "send")
  /\ UNCHANGED <<stop, driven, topicVars, sendVars, pongs_total, regVars,
                 tickVars, pongVars>>

\* The executor is cancelled, or the waitset loop sees stop: no more pongs. It
\* need not come to that: a cancel() may be forgotten, and a drain that finds
\* pongs for ever does not look at stop.
HandlerExit ==
  /\ pc["handler"] = "take"
  /\ stop
  /\ Goto("handler", "done")
  /\ UNCHANGED <<stop, driven, topicVars, sendVars, pongs_total, regVars,
                 tickVars, pongVars>>

----------------------------------------------------------------------------
(* PingMode::tick and PingMode::summary, on the main thread.               *)

\* The loop of main() tests stop, and finds that a second is over.
TickDue ==
  /\ pc["main"] = "idle"
  /\ ~stop
  /\ Goto("main", "tick")
  /\ UNCHANGED <<stop, driven, topicVars, sendVars, pongs_total, regVars,
                 tickVars, pongVars>>

TickPongs ==
  /\ pc["main"] = "tick"
  /\ tick' = [tick EXCEPT !.pongs = pongs_total]
  /\ Goto("main", "pings")
  /\ UNCHANGED <<stop, driven, topicVars, sendVars, pongs_total, regVars,
                 last_pings, last_pongs, lost_total, summary, lines, lined, pongVars>>

\* The differences a tick prints, and what it remembers for the next one.
TickDeltas(pongs_now, pings_now) ==
  /\ tick' = [tick EXCEPT !.dpongs = pongs_now - last_pongs,
                          !.dpings = pings_now - last_pings]
  /\ lines' = [pings |-> lines.pings + (pings_now - last_pings),
               pongs |-> lines.pongs + (pongs_now - last_pongs)]

\* Mutation: pongs_total_ is loaded again when it is remembered.
RememberReloaded(pongs_now, pings_now) ==
  last_pongs' = pongs_total /\ last_pings' = pings_now

Remember(pongs_now, pings_now) ==
  last_pongs' = pongs_now /\ last_pings' = pings_now

TickPings ==
  /\ pc["main"] = "pings"
  /\ TickDeltas(tick.pongs, pings)
  /\ Remember(tick.pongs, pings)
  /\ Goto("main", "report")
  /\ UNCHANGED <<stop, driven, topicVars, sendVars, pongs_total, regVars,
                 lost_total, summary, lined, pongVars>>

\* Mutation: the difference of unsigned counters is not clamped, or that of
\* signed ones.
UnclampedLost(dpings, dpongs) == (dpings - dpongs) % SeqMod
SignedLost(dpings, dpongs) == dpings - dpongs

DeltaLost(dpings, dpongs) == IF dpings > dpongs THEN dpings - dpongs ELSE 0

\* Mutation: a tick without pongs returns early.
SilentWithoutPongs == tick.dpongs = 0

\* Nothing to print, and nothing is added to lost_total_.
Silent == tick.dpongs = 0 /\ tick.dpings = 0 /\ \A r \in Responders : ~Known(r)

\* The snapshot takes every rtt window, printed (a line with pongs) or not.
TickReport ==
  /\ pc["main"] = "report"
  /\ pongs' = [r \in Responders |-> [pongs[r] EXCEPT !.win = 0]]
  /\ lost_total' = IF Silent THEN lost_total
                   ELSE lost_total + DeltaLost(tick.dpings, tick.dpongs)
  /\ tick' = [pongs |-> 0, dpongs |-> 0, dpings |-> 0]
  /\ lined' = answered
  /\ Goto("main", "idle")
  /\ UNCHANGED <<stop, driven, topicVars, sendVars, pongs_total, next_id,
                 answered, timed, last_pings, last_pongs, summary, lines, pongVars>>

\* Mutation: the summary does not wait for the handler.
SenderJoined == pc["sender"] = "done"

Joined == pc["sender"] = "done" /\ pc["handler"] = "done"

Summary ==
  /\ pc["main"] = "idle"
  /\ stop
  /\ Joined
  /\ summary' = [sent |-> pings,
                 recv |-> pongs_total,
                 lost |-> lost_total + DeltaLost(pings, pongs_total)]
  /\ Goto("main", "done")
  /\ UNCHANGED <<stop, driven, topicVars, sendVars, pongs_total, regVars,
                 last_pings, last_pongs, lost_total, tick, lines, lined, pongVars>>

----------------------------------------------------------------------------
(* PongMode::handle, in each pong process.                                 *)

Echo(c, r, n) ==
  /\ r \notin echoing
  /\ Deliverable(c, r, n)
  /\ \/ wire' = [wire EXCEPT ![c][r] = @ \ {n}, ![EchoOf[c]][r] = @ \cup {n}]
     \/ /\ "duplicate" \in net
        /\ roundtrips[r] < MaxPings[net]
        /\ wire' = [wire EXCEPT ![EchoOf[c]][r] = @ \cup {n}]
  /\ echoing' = echoing \cup {r}
  /\ UNCHANGED <<stop, driven, net, matched, pc, sendVars, pongs_total,
                 regVars, tickVars, roundtrips>>

CountRoundtrip(r) ==
  /\ r \in echoing
  /\ roundtrips' = [roundtrips EXCEPT ![r] = @ + 1]
  /\ echoing' = echoing \ {r}
  /\ UNCHANGED <<stop, driven, topicVars, pc, sendVars, pongs_total, regVars,
                 tickVars>>

----------------------------------------------------------------------------

Sender == Wake \/ PublishPing("sender") \/ CountPing("sender")

Handler ==
  \/ \E c \in Pongs, r \in Responders : \E n \in wire[c][r] : TakePong(c, r, n)
  \/ CountPong
  \/ Reply
  \/ PublishPing("handler")
  \/ CountPing("handler")

Main == TickDue \/ TickPongs \/ TickPings \/ TickReport \/ Summary

Responder(r) ==
  \/ \E c \in Pings : \E n \in wire[c][r] : Echo(c, r, n)
  \/ CountRoundtrip(r)

Topic ==
  \/ \E r \in Responders : Match(r)
  \/ \E c \in Pings \cup Pongs, r \in Responders : \E n \in wire[c][r] : Lose(c, r, n)

Next ==
  \/ Sender
  \/ Handler
  \/ HandlerExit
  \/ Main
  \/ \E r \in Responders : Responder(r)
  \/ Topic
  \/ Stop

\* Threads that can run do run, and a responder that exists is discovered.
\* Nothing is assumed of HandlerExit.
Fairness ==
  /\ WF_vars(Sender)
  /\ WF_vars(Handler)
  /\ WF_vars(Main)
  /\ \A r \in Responders : WF_vars(Responder(r)) /\ WF_vars(Match(r))

Spec == Init /\ [][Next]_vars /\ Fairness

----------------------------------------------------------------------------
(* Properties.                                                             *)

AtMost(cap, n) == IF n < cap THEN n ELSE cap

\* A pong is counted once however often and in whatever order it arrives, and a
\* pong to this process only for a ping it sent; "pongs total" is what the
\* registry accepted but for the one pong in the handler's hands. The rtts of the
\* run are those of the pongs accepted, one each, up to the cap and without the
\* negative ones. This survives the wrap of the seq and the pongs of another ping
\* process (PongRegistry::on_pong).
NoPongCountedTwice ==
  /\ \A a \in answered : a[1] = "pong" => a[3] < next_seq /\ a \in timed
  /\ \A r \in Responders : pongs[r].tot = AtMost(TotalCap, Cardinality(TimedBy(r)))
  /\ Cardinality(answered) = pongs_total + (IF pc["handler"] = "accepted" THEN 1 ELSE 0)

\* A reply-driven run is clocked by its pongs: but for the bootstrap ping, no
\* ping is sent that an accepted pong did not ask for (PingMode::handle).
SelfClocked == driven = "reply" => next_seq <= 1 + pongs_total

\* pings_ is exact whenever no thread is inside send_ping, and never more than
\* one behind what was published (send_mu_).
PingsExact == next_seq = pings + Cardinality(send_mu) /\ Cardinality(send_mu) <= 1

\* "lost total" stays between the shortfall of pongs and the number of pings
\* the lines so far were about: a tick that saw more pongs than pings neither
\* wraps nor pays losses back (PingMode::tick).
LossBracket ==
  pc["main"] # "report" =>
    /\ last_pings - last_pongs <= lost_total
    /\ lost_total <= last_pings

\* The pings no pong can be accepted for any more.
Gone(r) ==
  {n \in 0 .. next_seq - 1 :
     /\ <<"pong", r, n>> \notin answered
     /\ n \notin wire["ping"][r]
     /\ n \in wire["pong"][r] => ~Advances(pongs[r], PongSeq(n))}

\* With one responder, and the topics to itself, no loss is hidden: what the
\* lines called lost and the pings they have not been about yet account for
\* every ping that is gone.
LossNeverHidden ==
  pc["main"] # "report" /\ "foreign" \notin net =>
    \A r \in Responders : matched = {r} =>
      Cardinality(Gone(r)) <= lost_total + (next_seq - last_pings)

\* Every pong a line has counted was registered before that line or an earlier
\* one took the rtt windows: the handler registers before it counts, and the tick
\* reads the count before it takes the windows. A window holds an rtt of each pong
\* accepted since the last one was taken, the negative ones and those beyond its
\* cap excepted (no line has these), and of no other pong.
RttNotLate ==
  /\ pc["main"] # "report" => last_pongs <= Cardinality(lined)
  /\ \A r \in Responders :
       pongs[r].win = AtMost(WindowCap, Cardinality(TimedBy(r) \ lined))

\* The two ends agree: ping accepts no more pongs from a responder, and keeps no
\* more rtts, than that responder counts as round trips, but for the echo it is
\* counting.
EndsAgree ==
  \A r \in Responders :
    LET echoed == roundtrips[r] + (IF r \in echoing THEN 1 ELSE 0)
    IN  pongs[r].tot <= echoed /\ Cardinality(AnsweredBy(r)) <= echoed

\* What the summary prints as sent and received is all that was ever sent and
\* accepted: every thread that counts has been joined (PingMode::stop).
SummaryFinal ==
  pc["main"] = "done" =>
    /\ summary.sent = next_seq
    /\ summary.recv = pongs_total
    /\ pongs_total = Cardinality(answered)

\* Sent pings are either received or lost (loss_rate_pct takes received + lost
\* as what was expected).
SummaryAddsUp ==
  pc["main"] = "done" => summary.recv + summary.lost <= summary.sent

\* The per-second lines implement the meter. A tick has shown the pongs it read
\* before it gets to showing the pings.
Meter == INSTANCE TickMeter WITH
  Counters <- {"pings", "pongs"},
  total <- [pings |-> pings, pongs |-> pongs_total],
  shown <- [pings |-> lines.pings,
            pongs |-> IF pc["main"] = "pings"
                      THEN lines.pongs + (tick.pongs - last_pongs)
                      ELSE lines.pongs]

MeterSpec == Meter!Spec

\* A reply-driven run has sent a ping whose seq wrapped.
Wrapped == driven = "reply" /\ next_seq > SeqMod \div 2

\* On a network without faults the pings keep coming until the end, in a run
\* with a rate and in one driven by replies; the latter only until the seq of a
\* ping has wrapped, for on_pong refuses its pong.
LoopNeverStalls ==
  net = {} => <>(stop \/ next_seq = MaxPings[net] \/ Wrapped)

\* The bootstrap ping starts the loop (ping_mode.cpp, PingMode::start).
BootstrapStartsLoop == <>(stop \/ pongs_total > 0)

\* Once the handler's thread is out of its loop nothing keeps the summary: the
\* sender gets out by itself, and a tick under way ends. That the handler gets out
\* has premises of its own (StopEnds of Lifecycle).
SummaryComes == pc["handler"] = "done" ~> pc["main"] = "done"
=============================================================================
