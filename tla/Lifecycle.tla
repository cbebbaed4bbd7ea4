----------------------------- MODULE Lifecycle -----------------------------
(***************************************************************************)
(* The life of a ros2_perf process: main() sets the modes up, starts their *)
(* threads, spins the executor on a thread of its own, ticks the modes     *)
(* until it is told to stop, and then has to take all of this down again   *)
(* before it prints the summary and returns.                               *)
(*                                                                         *)
(* What the threads count is abstracted to one bit per mode: has it        *)
(* counted anything the summary has not printed? What the topics carry is  *)
(* one bit too: is a sample waiting? The executor is external: cancel()    *)
(* clears the flag spin() sets on entry and tests before each callback.    *)
(***************************************************************************)
EXTENDS Integers

CONSTANTS
  N,        \* how many modes the command line asks for
  Configs   \* the sequences of modes a run may be asked for

Kinds == {"pub", "sub", "ping", "pong"}
Triggers == {"listener", "waitset"}
ModeSpecs == [kind : Kinds, trigger : Triggers]
Modes == 1 .. N

ASSUME ConstantsAssumption ==
  /\ N \in Nat \ {0}
  /\ Configs \subseteq [Modes -> ModeSpecs]

VARIABLES
  cfg,        \* Config::modes
  pc,         \* where main() is
  i,          \* the mode main() has got to in the loop it is in
  stop,       \* g_stop
  sender,     \* worker_ of pub, sender_ of ping: where each thread is
  worker,     \* the waitset thread of sub, ping and pong
  spin,       \* spin_thread
  spinning,   \* external: the executor's flag
  calling,    \* external: the modes with a callback under way
  traffic,    \* external: other processes still publish
  inbox,      \* external: whether a sample waits for each mode
  unprinted,  \* whether each mode has counted what no summary has printed
  known       \* whether each mode's PeerTrackers know a peer

mainVars   == <<cfg, pc, i, stop>>
threadVars == <<sender, worker, spin>>
executorVars == <<spinning, calling>>
vars == <<mainVars, threadVars, executorVars, traffic, inbox, unprinted, known>>

SenderLabels == {"none", "check", "sleep", "ended", "joined"}
WorkerLabels == {"none", "check", "wait", "drain", "ended", "joined"}
SpinLabels   == {"none", "spawned", "spinning", "ended", "joined"}

TypeOK ==
  /\ cfg \in Configs
  /\ pc \in {"setup", "start", "spawn", "loop", "tick", "cancel", "join",
             "stop", "summary", "exit", "aborted"}
  /\ i \in Modes
  /\ sender \in [Modes -> SenderLabels]
  /\ worker \in [Modes -> WorkerLabels]
  /\ spin \in SpinLabels
  /\ {stop, spinning, traffic} \subseteq BOOLEAN
  /\ calling \subseteq Modes
  /\ {inbox, unprinted, known} \subseteq [Modes -> BOOLEAN]

Init ==
  /\ cfg \in Configs
  /\ pc = "setup"
  /\ i = 1
  /\ stop = FALSE
  /\ sender = [m \in Modes |-> "none"]
  /\ worker = [m \in Modes |-> "none"]
  /\ spin = "none"
  /\ spinning = FALSE
  /\ calling = {}
  /\ traffic = TRUE
  /\ inbox = [m \in Modes |-> FALSE]
  /\ unprinted = [m \in Modes |-> FALSE]
  /\ known = [m \in Modes |-> FALSE]

----------------------------------------------------------------------------
(* What each mode runs on.                                                 *)

HasSender(m) == cfg[m].kind \in {"pub", "ping"}
HasWorker(m) == cfg[m].kind # "pub" /\ cfg[m].trigger = "waitset"
NeedsExecutor(m) == cfg[m].kind # "pub" /\ cfg[m].trigger = "listener"

\* Mutation: only the first mode is asked.
FirstNeedsExecutor == NeedsExecutor(1)

AnyNeedsExecutor == \E m \in Modes : NeedsExecutor(m)

----------------------------------------------------------------------------
(* main(): setup, start, the tick loop.                                    *)

\* Every mode is created, or one throws and main() shuts down and returns.
Setup ==
  /\ pc = "setup"
  /\ pc' \in {"start", "aborted"}
  /\ UNCHANGED <<cfg, i, stop, threadVars, executorVars, traffic, inbox,
                 unprinted, known>>

\* The sender of ping sleeps before its first test of stop.
FirstLabel(m) == IF cfg[m].kind = "pub" THEN "check" ELSE "sleep"

\* Mutation: the next loop goes on from where this one ended.
StartWithoutReset ==
  /\ pc = "start"
  /\ sender' = IF HasSender(i) THEN [sender EXCEPT ![i] = FirstLabel(i)] ELSE sender
  /\ worker' = IF HasWorker(i) THEN [worker EXCEPT ![i] = "check"] ELSE worker
  /\ pc' = (IF i < N THEN pc ELSE "spawn") /\ i' = i + 1
  /\ UNCHANGED <<cfg, stop, spin, executorVars, traffic, inbox, unprinted, known>>

Start ==
  /\ pc = "start"
  /\ sender' = IF HasSender(i) THEN [sender EXCEPT ![i] = FirstLabel(i)] ELSE sender
  /\ worker' = IF HasWorker(i) THEN [worker EXCEPT ![i] = "check"] ELSE worker
  /\ IF i < N THEN pc' = pc /\ i' = i + 1 ELSE pc' = "spawn" /\ i' = 1
  /\ UNCHANGED <<cfg, stop, spin, executorVars, traffic, inbox, unprinted, known>>

Spawn ==
  /\ pc = "spawn"
  /\ spin' = IF AnyNeedsExecutor THEN "spawned" ELSE "none"
  /\ pc' = "loop"
  /\ UNCHANGED <<cfg, i, stop, sender, worker, executorVars, traffic, inbox,
                 unprinted, known>>

\* The loop sees stop, or a second is over and the modes are ticked in turn.
Loop ==
  /\ pc = "loop"
  /\ pc' = IF stop THEN "cancel" ELSE "tick"
  /\ UNCHANGED <<cfg, i, stop, threadVars, executorVars, traffic, inbox,
                 unprinted, known>>

\* -D: the main thread itself decides that the run is over.
DurationOver ==
  /\ pc = "loop"
  /\ ~stop
  /\ stop' = TRUE
  /\ pc' = "cancel"
  /\ UNCHANGED <<cfg, i, threadVars, executorVars, traffic, inbox, unprinted, known>>

\* A tick polls the graph for a mode that has no executor to tell it of peers.
PollsGraph(m) == cfg[m].kind # "pub" /\ cfg[m].trigger = "waitset"

Tick ==
  /\ pc = "tick"
  /\ \/ PollsGraph(i) /\ \E b \in BOOLEAN : known' = [known EXCEPT ![i] = b]
     \/ ~PollsGraph(i) /\ UNCHANGED known
  /\ IF i < N THEN pc' = pc /\ i' = i + 1 ELSE pc' = "loop" /\ i' = 1
  /\ UNCHANGED <<cfg, stop, threadVars, executorVars, traffic, inbox, unprinted>>

----------------------------------------------------------------------------
(* main(): the way down.                                                   *)

Cancel ==
  /\ pc = "cancel"
  /\ spinning' = FALSE
  /\ pc' = "join"
  /\ UNCHANGED <<cfg, i, stop, threadVars, calling, traffic, inbox, unprinted, known>>

\* Mutation: the executor's thread is left to end by itself.
SpinIgnored == TRUE

SpinJoinable == spin \in {"none", "ended"}

JoinSpin ==
  /\ pc = "join"
  /\ SpinJoinable
  /\ spin' = IF spin = "ended" THEN "joined" ELSE spin
  /\ pc' = "stop"
  /\ UNCHANGED <<cfg, i, stop, sender, worker, executorVars, traffic, inbox,
                 unprinted, known>>

Join(label) == IF label = "ended" THEN "joined" ELSE label

\* Mutation: only the waitset thread is joined.
WorkerJoinable(m) == worker[m] \in {"none", "ended"}

Joinable(m) == sender[m] \in {"none", "ended"} /\ worker[m] \in {"none", "ended"}

\* Mutation: only a mode with a thread to join forgets its peers.
FlushAfterJoin(m) == known' = IF HasWorker(m) THEN [known EXCEPT ![m] = FALSE] ELSE known

FlushGone(m) == known' = [known EXCEPT ![m] = FALSE]

\* ModeBase::stop: both threads are joined, then flush_gone.
StopMode ==
  /\ pc = "stop"
  /\ Joinable(i)
  /\ sender' = [sender EXCEPT ![i] = Join(@)]
  /\ worker' = [worker EXCEPT ![i] = Join(@)]
  /\ FlushGone(i)
  /\ IF i < N THEN pc' = pc /\ i' = i + 1 ELSE pc' = "summary" /\ i' = 1
  /\ UNCHANGED <<cfg, stop, spin, executorVars, traffic, inbox, unprinted>>

Summary ==
  /\ pc = "summary"
  /\ unprinted' = [unprinted EXCEPT ![i] = FALSE]
  /\ IF i < N THEN pc' = pc /\ i' = i + 1 ELSE pc' = "exit" /\ i' = 1
  /\ UNCHANGED <<cfg, stop, threadVars, executorVars, traffic, inbox, known>>

----------------------------------------------------------------------------
(* The threads of the modes.                                               *)

Count(m) == unprinted' = [unprinted EXCEPT ![m] = TRUE]

\* PubMode::run and the sender of PingMode::start.
SenderCheck(m) ==
  /\ sender[m] = "check"
  /\ sender' = [sender EXCEPT ![m] = IF stop THEN "ended" ELSE "sleep"]
  /\ UNCHANGED <<mainVars, worker, spin, executorVars, traffic, inbox, unprinted, known>>

\* The sleep is over. A pub that is behind its schedule did not sleep, and does
\* not test stop again; a ping without a rate sends once and is through.
SenderWake(m) ==
  /\ sender[m] = "sleep"
  /\ \/ stop /\ sender' = [sender EXCEPT ![m] = "ended"] /\ UNCHANGED unprinted
     \/ /\ ~stop \/ cfg[m].kind = "pub"
        /\ Count(m)
        /\ \/ sender' = [sender EXCEPT ![m] = "check"]
           \/ cfg[m].kind = "ping" /\ sender' = [sender EXCEPT ![m] = "ended"]
  /\ UNCHANGED <<mainVars, worker, spin, executorVars, traffic, inbox, known>>

\* run_waitset_loop: stop is tested before a wait, not while there are samples.

\* Mutation: nor is it tested before a wait.
WorkerCheckNever(m) ==
  /\ worker[m] = "check"
  /\ worker' = [worker EXCEPT ![m] = "wait"]
  /\ UNCHANGED <<mainVars, sender, spin, executorVars, traffic, inbox, unprinted, known>>

WorkerCheck(m) ==
  /\ worker[m] = "check"
  /\ worker' = [worker EXCEPT ![m] = IF stop THEN "ended" ELSE "wait"]
  /\ UNCHANGED <<mainVars, sender, spin, executorVars, traffic, inbox, unprinted, known>>

WorkerWait(m) ==
  /\ worker[m] = "wait"
  /\ worker' = [worker EXCEPT ![m] = IF inbox[m] THEN "drain" ELSE "check"]
  /\ UNCHANGED <<mainVars, sender, spin, executorVars, traffic, inbox, unprinted, known>>

WorkerTake(m) ==
  /\ worker[m] = "drain"
  /\ \/ /\ inbox[m]
        /\ inbox' = [inbox EXCEPT ![m] = FALSE]
        /\ Count(m)
        /\ UNCHANGED worker
     \/ /\ ~inbox[m]
        /\ worker' = [worker EXCEPT ![m] = "check"]
        /\ UNCHANGED <<inbox, unprinted>>
  /\ UNCHANGED <<mainVars, sender, spin, executorVars, traffic, known>>

\* The executor's threads: spin() sets the flag and runs callbacks, for samples
\* and for matched events, until it is cleared. The flag is tested before a
\* callback, not during one, and spin() waits for those under way.
SpinEnter ==
  /\ spin = "spawned"
  /\ spin' = "spinning"
  /\ spinning' = TRUE
  /\ UNCHANGED <<mainVars, sender, worker, calling, traffic, inbox, unprinted, known>>

CallbackBegins(m) ==
  /\ spin = "spinning"
  /\ spinning
  /\ NeedsExecutor(m)
  /\ m \notin calling
  /\ calling' = calling \cup {m}
  /\ UNCHANGED <<mainVars, threadVars, spinning, traffic, inbox, unprinted, known>>

Callback(m) ==
  /\ m \in calling
  /\ calling' = calling \ {m}
  /\ \/ inbox[m] /\ inbox' = [inbox EXCEPT ![m] = FALSE] /\ Count(m) /\ UNCHANGED known
     \/ (\E b \in BOOLEAN : known' = [known EXCEPT ![m] = b]) /\ UNCHANGED <<inbox, unprinted>>
  /\ UNCHANGED <<mainVars, threadVars, spinning, traffic>>

SpinLeave ==
  /\ spin = "spinning"
  /\ ~spinning
  /\ calling = {}
  /\ spin' = "ended"
  /\ UNCHANGED <<mainVars, sender, worker, executorVars, traffic, inbox, unprinted, known>>

----------------------------------------------------------------------------
(* The outside.                                                            *)

\* SIGINT or SIGTERM, once the handlers are installed.
Signal ==
  /\ ~stop
  /\ pc \notin {"exit", "aborted"}
  /\ stop' = TRUE
  /\ UNCHANGED <<cfg, pc, i, threadVars, executorVars, traffic, inbox, unprinted, known>>

Arrive(m) ==
  /\ traffic
  /\ cfg[m].kind # "pub"
  /\ pc \notin {"setup", "exit", "aborted"}
  /\ ~inbox[m]
  /\ inbox' = [inbox EXCEPT ![m] = TRUE]
  /\ UNCHANGED <<mainVars, threadVars, executorVars, traffic, unprinted, known>>

TrafficEnds ==
  /\ traffic
  /\ traffic' = FALSE
  /\ UNCHANGED <<mainVars, threadVars, executorVars, inbox, unprinted, known>>

----------------------------------------------------------------------------

Main == Setup \/ Start \/ Spawn \/ Loop \/ Tick \/ Cancel \/ JoinSpin \/ StopMode \/ Summary

SenderStep(m) == SenderCheck(m) \/ SenderWake(m)
WorkerStep(m) == WorkerCheck(m) \/ WorkerWait(m) \/ WorkerTake(m)

Next ==
  \/ Main
  \/ DurationOver
  \/ \E m \in Modes : SenderStep(m) \/ WorkerStep(m) \/ Arrive(m)
  \/ \E m \in Modes : CallbackBegins(m) \/ Callback(m)
  \/ SpinEnter
  \/ SpinLeave
  \/ Signal
  \/ TrafficEnds

\* Threads that can run do run, and a callback under way returns. Nothing says
\* that a run is ever stopped, or that the other processes ever fall silent.
Fairness ==
  /\ WF_vars(Main)
  /\ WF_vars(SpinEnter)
  /\ WF_vars(SpinLeave)
  /\ \A m \in Modes :
       WF_vars(SenderStep(m)) /\ WF_vars(WorkerStep(m)) /\ WF_vars(Callback(m))

Spec == Init /\ [][Next]_vars /\ Fairness

----------------------------------------------------------------------------
(* Properties.                                                             *)

\* The summary is complete: nothing any thread counted, in whatever order the
\* threads were taken down, is missing from it.
SummaryComplete == pc = "exit" => \A m \in Modes : ~unprinted[m]

\* Every peer reported as matched has been reported as gone at the end: no
\* callback and no poll adds one after flush_gone.
PeersFlushed == pc = "exit" => \A m \in Modes : ~known[m]

\* main() never returns over a thread it has not joined (the destructor of a
\* joinable std::thread ends the process), nor after a setup that failed.
NoThreadOutlivesMain ==
  pc \in {"exit", "aborted"} =>
    /\ spin \in {"none", "joined"}
    /\ \A m \in Modes : sender[m] \in {"none", "joined"} /\ worker[m] \in {"none", "joined"}

\* No mode waits for samples that nobody will hand to it: while the run is up,
\* every mode that receives has its waitset thread or an executor.
Served ==
  pc = "loop" =>
    \A m \in Modes : cfg[m].kind # "pub" => worker[m] # "none" \/ spin # "none"

\* A cancel() that comes before spin() has set its flag is forgotten.
CancelForgotten == pc \notin {"setup", "start", "spawn", "loop", "tick", "cancel"} /\ spin = "spawned"

\* A stopped process ends, provided that the executor was up before it was
\* cancelled and that the traffic for the waitset threads has gaps.
StopEnds ==
  ([]~CancelForgotten /\ <>[]~traffic) => (stop ~> pc \in {"exit", "aborted"})

\* A run is over when its time is (-D).
DurationEnds == stop ~> pc \in {"exit", "aborted"}
=============================================================================
