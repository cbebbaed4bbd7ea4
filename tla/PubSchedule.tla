---------------------------- MODULE PubSchedule ----------------------------
(***************************************************************************)
(* The clock of a process that publishes: the anchored schedule of each    *)
(* pub mode (PubMode::run) against the once-a-second loop of main(), and   *)
(* the end of the run, where main() waits for the pubs.                    *)
(*                                                                         *)
(* Time is counted from t0, the anchor of every schedule, in units of one  *)
(* poll slice or less. A thread that can move, or whose sleep is over, is  *)
(* due. As long as a run is late, time may pass at any moment, by as much  *)
(* as it likes; after that it stands still until no thread is due.         *)
(***************************************************************************)
EXTENDS Integers, FiniteSets, FiniteSetsExt

CONSTANTS
  Pubs,        \* the pub modes of the process, with a rate
  Schedules,   \* the interval_ns_ of each pub (burst is part of the rate)
  Second,      \* what the tick loop ticks by
  PollSlice,   \* kPollSlice
  MaxSlack,    \* kMaxSlack
  Durations,   \* the -D a run may be given; 0 is none
  Lateness,    \* until when a run may be late; 0 is a punctual run
  StartTimes,  \* what the clock may show when the threads are started
  MaxTime      \* bound: where the clock stops

ASSUME ConstantsAssumption ==
  /\ IsFiniteSet(Pubs)
  /\ Schedules \subseteq [Pubs -> Nat \ {0}]
  /\ {Second, PollSlice, MaxSlack} \subseteq Nat \ {0}
  /\ Durations \subseteq Nat
  /\ Lateness \subseteq Nat
  /\ StartTimes \subseteq Nat
  /\ MaxTime \in Nat

VARIABLES
  now,         \* the clock
  late,        \* until when this run is late
  interval,    \* interval_ns_ of each pub
  duration,    \* cfg.duration_s
  stop,        \* g_stop
  pc,          \* where the thread of each pub is
  msg_index,   \* msg_index of each pub
  sent,        \* sent_ of each pub
  last_sent,   \* last_sent_ of each pub: what its lines have added up to
  main,        \* where main() is
  read_now,    \* main()'s local now
  wake_at,     \* what main() sleeps until
  tick_count,  \* tick_count
  started      \* history: when the thread of each pub read the clock first

pubVars  == <<pc, msg_index, sent, started>>
mainVars == <<main, read_now, wake_at, tick_count, last_sent>>
runVars  == <<late, interval, duration>>
vars     == <<now, runVars, stop, pubVars, mainVars>>

TypeOK ==
  /\ interval \in Schedules
  /\ duration \in Durations
  /\ late \in Lateness
  /\ stop \in BOOLEAN
  /\ {now, read_now, wake_at, tick_count} \subseteq Nat
  /\ pc \in [Pubs -> {"start", "check", "sleep", "publish", "ended"}]
  /\ {msg_index, sent, last_sent, started} \subseteq [Pubs -> Nat]
  /\ main \in {"loop", "sleep", "join", "over"}

Init ==
  /\ now \in StartTimes
  /\ late \in Lateness
  /\ interval \in Schedules
  /\ duration \in Durations
  /\ stop = FALSE
  /\ pc = [p \in Pubs |-> "start"]
  /\ msg_index = [p \in Pubs |-> 0]
  /\ sent = [p \in Pubs |-> 0]
  /\ last_sent = [p \in Pubs |-> 0]
  /\ started = [p \in Pubs |-> 0]
  /\ main = "loop"
  /\ read_now = 0
  /\ wake_at = 0
  /\ tick_count = 0

----------------------------------------------------------------------------
(* PubMode::run.                                                           *)

Deadline(p) == (msg_index[p] + 1) * interval[p]

\* Mutation: the index is taken to count from one.
FirstIndexOneBack(p) == now \div interval[p] - 1

\* The samples due before the thread started are skipped.
FirstIndex(p) == now \div interval[p]

Begin(p) ==
  /\ pc[p] = "start"
  /\ msg_index' = [msg_index EXCEPT ![p] = FirstIndex(p)]
  /\ started' = [started EXCEPT ![p] = now]
  /\ pc' = [pc EXCEPT ![p] = "check"]
  /\ UNCHANGED <<now, runVars, stop, sent, mainVars>>

\* The test of stop at the top of the loop, and that of the deadline.
Check(p) ==
  /\ pc[p] = "check"
  /\ pc' = [pc EXCEPT ![p] = IF stop THEN "ended"
                             ELSE IF now < Deadline(p) THEN "sleep" ELSE "publish"]
  /\ UNCHANGED <<now, runVars, stop, msg_index, sent, started, mainVars>>

Wake(p) ==
  /\ pc[p] = "sleep"
  /\ now >= Deadline(p)
  /\ pc' = [pc EXCEPT ![p] = IF stop THEN "ended" ELSE "publish"]
  /\ UNCHANGED <<now, runVars, stop, msg_index, sent, started, mainVars>>

\* Mutation: a pub that was held up goes on from where it should be by now.
PublishOneSkips(p) ==
  /\ pc[p] = "publish"
  /\ sent' = [sent EXCEPT ![p] = @ + 1]
  /\ msg_index' = [msg_index EXCEPT ![p] = now \div interval[p]]
  /\ pc' = [pc EXCEPT ![p] = "check"]
  /\ UNCHANGED <<now, runVars, stop, started, mainVars>>

PublishOne(p) ==
  /\ pc[p] = "publish"
  /\ sent' = [sent EXCEPT ![p] = @ + 1]
  /\ msg_index' = [msg_index EXCEPT ![p] = @ + 1]
  /\ pc' = [pc EXCEPT ![p] = "check"]
  /\ UNCHANGED <<now, runVars, stop, started, mainVars>>

----------------------------------------------------------------------------
(* The tick loop of main().                                                *)

HalfInterval(p) == Max({1, interval[p] \div 2})

\* Mutation: the slack is forgotten.
NoSlack == 0

\* pub_tick_slack: the longest half interval, up to kMaxSlack.
Slack == Min({MaxSlack, Max({1} \cup {HalfInterval(p) : p \in Pubs})})

\* Mutation: the first tick is due at t0.
NextTickEarly == tick_count * Second + Slack

NextTick == (tick_count + 1) * Second + Slack

DurationOver(t) == duration > 0 /\ t >= duration

\* The end of the loop's body: with the time over, main() goes on to stop the modes.
EndOfBody(t) ==
  IF DurationOver(t) THEN stop' = TRUE /\ main' = "join"
                     ELSE stop' = stop /\ main' = "loop"

\* Every mode is ticked; PubMode::tick prints what was sent since the last one.
Tick ==
  /\ main = "loop"
  /\ ~stop
  /\ now >= NextTick
  /\ tick_count' = tick_count + 1
  /\ last_sent' = sent
  /\ read_now' = now
  /\ EndOfBody(now)
  /\ UNCHANGED <<now, runVars, wake_at, pubVars>>

\* Mutation: the loop sleeps until the next tick, however far it is.
SleepThrough == NextTick

SleepUntil == IF now < NextTick - PollSlice THEN now + PollSlice ELSE NextTick

Sleep ==
  /\ main = "loop"
  /\ ~stop
  /\ now < NextTick
  /\ wake_at' = SleepUntil
  /\ read_now' = now
  /\ main' = "sleep"
  /\ UNCHANGED <<now, runVars, stop, tick_count, last_sent, pubVars>>

\* The duration is tested with the time read before the sleep.
WakeMain ==
  /\ main = "sleep"
  /\ now >= wake_at
  /\ EndOfBody(read_now)
  /\ UNCHANGED <<now, runVars, read_now, wake_at, tick_count, last_sent, pubVars>>

\* PubMode::stop of every pub: nothing wakes a pub that sleeps, and main() waits
\* until it has woken by itself and seen stop. Then the summaries are printed.
Join ==
  /\ main = "join"
  /\ \A p \in Pubs : pc[p] = "ended"
  /\ main' = "over"
  /\ UNCHANGED <<now, runVars, stop, read_now, wake_at, tick_count, last_sent, pubVars>>

----------------------------------------------------------------------------
(* The clock.                                                              *)

Asleep(p) == pc[p] = "ended" \/ (pc[p] = "sleep" /\ now < Deadline(p))
MainAsleep ==
  \/ main = "over"
  \/ main = "join" /\ \E p \in Pubs : pc[p] # "ended"
  \/ main = "sleep" /\ now < wake_at

NobodyDue == MainAsleep /\ \A p \in Pubs : Asleep(p)

Advance ==
  /\ now < MaxTime
  /\ now < late \/ NobodyDue
  /\ now' = now + 1
  /\ UNCHANGED <<runVars, stop, pubVars, mainVars>>

----------------------------------------------------------------------------

PubStep(p) == Begin(p) \/ Check(p) \/ Wake(p) \/ PublishOne(p)
MainStep == Tick \/ Sleep \/ WakeMain \/ Join

Next ==
  \/ \E p \in Pubs : PubStep(p)
  \/ MainStep
  \/ Advance

Spec == Init /\ [][Next]_vars

----------------------------------------------------------------------------
(* Properties.                                                             *)

Due(p, t) == t \div interval[p] - started[p] \div interval[p]

\* The schedule neither runs ahead nor drifts: no sample is sent before its
\* time, and a pub that sleeps has sent exactly the samples due since it
\* started, however long it was held up before (PubMode::run).
ScheduleKept ==
  \A p \in Pubs : pc[p] # "start" =>
    /\ sent[p] <= Due(p, now)
    /\ pc[p] = "sleep" /\ now < Deadline(p) => sent[p] = Due(p, now)

\* In a punctual run a sample due in one second is not left for the line of the
\* next one; and if all pubs have one interval, which divides the second, a
\* line is about its own second only (pub_tick_slack).
LinesExact ==
  late = 0 => \A p \in Pubs : tick_count > 0 =>
    LET due == Due(p, tick_count * Second) IN
    /\ last_sent[p] >= due
    /\ (\A q \in Pubs : interval[q] = interval[p]) /\ Second % interval[p] = 0
         => last_sent[p] = due

\* main() is out of the tick loop.
LoopLeft == main \in {"join", "over"}

\* The lines come in time: none before its second is over, and in a punctual
\* run none after the next poll.
TicksInTime ==
  /\ tick_count * Second < now \/ tick_count = 0
  /\ late = 0 /\ ~LoopLeft /\ NobodyDue => now < NextTick

\* A punctual run with -D has left the tick loop two polls after its time at the
\* latest; and it is over when from then on the longest interval has passed, for
\* main() joins pubs that sleep until their next sample. It is not over sooner than
\* that for certain: "at most DUR seconds" of the README is exceeded so far.
EndsInTime ==
  late = 0 /\ duration > 0 /\ NobodyDue /\ now >= duration + 2 * PollSlice =>
    /\ LoopLeft
    /\ (\A p \in Pubs : now >= duration + 2 * PollSlice + interval[p]) => main = "over"

\* Every second of a punctual run with -D has its line.
EverySecondTicked ==
  late = 0 /\ LoopLeft => tick_count >= duration \div Second
=============================================================================
