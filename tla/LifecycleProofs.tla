--------------------------- MODULE LifecycleProofs ---------------------------
(***************************************************************************)
(* Theorems about Lifecycle, for any number of modes in any combination:   *)
(* main() takes its threads down in an order that leaves nothing behind.   *)
(***************************************************************************)
EXTENDS Lifecycle, TLAPS

----------------------------------------------------------------------------
(* The inductive invariant.                                                *)

\* How far main() has got with a mode.
Started(m)  == pc \notin {"setup", "aborted"} /\ (pc = "start" => m < i)
Finished(m) == pc \in {"summary", "exit"} \/ (pc = "stop" /\ m < i)
Printed(m)  == pc = "exit" \/ (pc = "summary" /\ m < i)

\* Every loop over the modes starts with the first.
FromFirst == pc \in {"setup", "spawn", "loop", "cancel", "join", "exit", "aborted"} => i = 1

\* The executor's thread is there from spawn to the join, if a mode needs it,
\* and no callback outlasts spin().
SpinInv ==
  /\ pc \in {"setup", "start", "spawn", "aborted"} => spin = "none"
  /\ pc \notin {"setup", "start", "spawn", "aborted"} /\ AnyNeedsExecutor => spin # "none"
  /\ pc \in {"stop", "summary", "exit"} => spin \in {"none", "joined"}
  /\ calling # {} => spin = "spinning"

\* The threads of a mode are there from its start to its stop, where it forgets
\* its peers; what it counted stays printed once nothing of it is left.
ModeInv(m) ==
  /\ ~Started(m) => sender[m] = "none" /\ worker[m] = "none"
  /\ Started(m) /\ HasWorker(m) => worker[m] # "none"
  /\ Finished(m) => /\ sender[m] \in {"none", "joined"}
                    /\ worker[m] \in {"none", "joined"}
                    /\ ~known[m]
  /\ Printed(m) => ~unprinted[m]

LifeInv == TypeOK /\ FromFirst /\ SpinInv /\ \A m \in Modes : ModeInv(m)

LEMMA InitLife == Init => LifeInv
<1> SUFFICES ASSUME Init PROVE LifeInv
  OBVIOUS
<1>1. 1 \in Modes
  BY ConstantsAssumption DEF Modes
<1>2. TypeOK
  <2>1. sender \in [Modes -> SenderLabels] /\ worker \in [Modes -> WorkerLabels]
        /\ spin \in SpinLabels
    BY DEF Init, SenderLabels, WorkerLabels, SpinLabels
  <2>2. {stop, spinning, traffic} \subseteq BOOLEAN /\ calling \subseteq Modes
    BY DEF Init
  <2>3. {inbox, unprinted, known} \subseteq [Modes -> BOOLEAN]
    BY DEF Init
  <2>4. QED
    BY <1>1, <2>1, <2>2, <2>3 DEF TypeOK, Init
<1>3. FromFirst /\ SpinInv /\ \A m \in Modes : ModeInv(m)
  BY DEF Init, FromFirst, SpinInv, ModeInv, Started, Finished, Printed
<1>4. QED
  BY <1>2, <1>3 DEF LifeInv

----------------------------------------------------------------------------
(* main() on its way up.                                                   *)

LEMMA UpLife ==
  ASSUME LifeInv, Setup \/ Spawn \/ Loop \/ DurationOver \/ Cancel
  PROVE  LifeInv'
<1>1. /\ UNCHANGED <<cfg, i, sender, worker, calling, inbox, unprinted, known, traffic>>
      /\ stop' \in BOOLEAN /\ spinning' \in BOOLEAN /\ i = 1
      /\ spin' = spin \/ pc = "spawn"
  BY DEF LifeInv, TypeOK, FromFirst, Setup, Spawn, Loop, DurationOver, Cancel, threadVars, executorVars
<1>2. \/ pc = "setup" /\ pc' \in {"start", "aborted"} /\ spin' = spin
      \/ pc = "spawn" /\ pc' = "loop" /\ spin' = IF AnyNeedsExecutor THEN "spawned" ELSE "none"
      \/ pc = "loop" /\ pc' \in {"cancel", "tick"} /\ spin' = spin
      \/ pc = "cancel" /\ pc' = "join" /\ spin' = spin
  BY DEF Setup, Spawn, Loop, DurationOver, Cancel, threadVars
<1>3. AnyNeedsExecutor' = AnyNeedsExecutor /\ \A m \in Modes : HasWorker(m)' = HasWorker(m)
  BY <1>1 DEF AnyNeedsExecutor, NeedsExecutor, HasWorker
<1> HIDE DEF Setup, Spawn, Loop, DurationOver, Cancel
<1>4. TypeOK'
  BY <1>1, <1>2 DEF LifeInv, TypeOK, SpinLabels
<1>5. FromFirst' /\ SpinInv'
  BY <1>1, <1>2, <1>3 DEF LifeInv, FromFirst, SpinInv
<1>6. \A m \in Modes : ModeInv(m)'
  <2>1. 1 \in Nat /\ \A m \in Modes : m \in Nat /\ ~(m < 1)
    BY DEF Modes
  <2>2. QED
    BY <1>1, <1>2, <1>3, <2>1 DEF LifeInv, ModeInv, Started, Finished, Printed
<1>7. QED
  BY <1>4, <1>5, <1>6 DEF LifeInv

\* The next mode of a loop, or the first one of the next loop.
LEMMA Steps ==
  /\ N \in Modes /\ Modes \subseteq Nat /\ 1 \in Modes /\ N \in Nat
  /\ \A m \in Modes : m < N => m + 1 \in Modes
  /\ \A m \in Modes : ~(m < 1) /\ (m <= N) /\ (~(m < N) => m = N)
  BY ConstantsAssumption DEF Modes

LEMMA StartLife ==
  ASSUME LifeInv, Start
  PROVE  LifeInv'
<1>1. /\ UNCHANGED <<cfg, stop, spin, spinning, calling, inbox, unprinted, known, traffic>>
      /\ pc = "start" /\ i \in Modes
      /\ sender \in [Modes -> SenderLabels] /\ worker \in [Modes -> WorkerLabels]
      /\ sender' = IF HasSender(i) THEN [sender EXCEPT ![i] = FirstLabel(i)] ELSE sender
      /\ worker' = IF HasWorker(i) THEN [worker EXCEPT ![i] = "check"] ELSE worker
      /\ \/ i < N /\ pc' = "start" /\ i' = i + 1
         \/ ~(i < N) /\ pc' = "spawn" /\ i' = 1
  BY DEF LifeInv, TypeOK, Start, executorVars
<1>2. FirstLabel(i) \in {"check", "sleep"}
  BY DEF FirstLabel
<1>3. /\ sender' \in [Modes -> SenderLabels] /\ worker' \in [Modes -> WorkerLabels]
      /\ \A m \in Modes \ {i} : sender'[m] = sender[m] /\ worker'[m] = worker[m]
      /\ HasWorker(i) => worker'[i] = "check"
  BY <1>1, <1>2 DEF SenderLabels, WorkerLabels
<1>4. AnyNeedsExecutor' = AnyNeedsExecutor /\ \A m \in Modes : HasWorker(m)' = HasWorker(m)
  BY <1>1 DEF AnyNeedsExecutor, NeedsExecutor, HasWorker
<1>5. TypeOK'
  BY <1>1, <1>3, Steps DEF LifeInv, TypeOK
<1>6. FromFirst' /\ SpinInv'
  BY <1>1, <1>4 DEF LifeInv, FromFirst, SpinInv
<1>7. ASSUME NEW m \in Modes PROVE ModeInv(m)'
  <2>1. ~Finished(m)' /\ ~Printed(m)'
    BY <1>1 DEF Finished, Printed
  <2>2. Started(m)' <=> m <= i
    BY <1>1, Steps DEF Started
  <2>3. Started(m) <=> m < i
    BY <1>1 DEF Started
  <2>4. ModeInv(m) /\ m \in Nat /\ i \in Nat
    BY <1>1, Steps DEF LifeInv
  <2>5. QED
    BY <1>3, <1>4, <2>1, <2>2, <2>3, <2>4 DEF ModeInv
<1>8. QED
  BY <1>5, <1>6, <1>7 DEF LifeInv

LEMMA TickLife ==
  ASSUME LifeInv, Tick
  PROVE  LifeInv'
<1>1. /\ UNCHANGED <<cfg, stop, sender, worker, spin, spinning, calling, inbox, unprinted, traffic>>
      /\ pc = "tick" /\ i \in Modes
      /\ \/ i < N /\ pc' = "tick" /\ i' = i + 1
         \/ ~(i < N) /\ pc' = "loop" /\ i' = 1
  BY DEF LifeInv, TypeOK, Tick, threadVars, executorVars
<1>2. known' \in [Modes -> BOOLEAN]
  BY <1>1 DEF LifeInv, TypeOK, Tick
<1>3. AnyNeedsExecutor' = AnyNeedsExecutor /\ \A m \in Modes : HasWorker(m)' = HasWorker(m)
  BY <1>1 DEF AnyNeedsExecutor, NeedsExecutor, HasWorker
<1>4. TypeOK'
  BY <1>1, <1>2, Steps DEF LifeInv, TypeOK
<1>5. FromFirst' /\ SpinInv'
  BY <1>1, <1>3 DEF LifeInv, FromFirst, SpinInv
<1>6. \A m \in Modes : ModeInv(m)'
  BY <1>1, <1>3 DEF LifeInv, ModeInv, Started, Finished, Printed
<1>7. QED
  BY <1>4, <1>5, <1>6 DEF LifeInv

----------------------------------------------------------------------------
(* main() on its way down.                                                 *)

LEMMA JoinSpinLife ==
  ASSUME LifeInv, JoinSpin
  PROVE  LifeInv'
<1>1. /\ UNCHANGED <<cfg, i, stop, sender, worker, spinning, calling, inbox, unprinted, known, traffic>>
      /\ pc = "join" /\ pc' = "stop" /\ i = 1
      /\ spin \in {"none", "ended"} /\ spin' = IF spin = "ended" THEN "joined" ELSE spin
  BY DEF LifeInv, FromFirst, JoinSpin, SpinJoinable, executorVars
<1>2. AnyNeedsExecutor' = AnyNeedsExecutor /\ \A m \in Modes : HasWorker(m)' = HasWorker(m)
  BY <1>1 DEF AnyNeedsExecutor, NeedsExecutor, HasWorker
<1>3. TypeOK'
  BY <1>1 DEF LifeInv, TypeOK, SpinLabels
<1>4. FromFirst' /\ SpinInv'
  BY <1>1, <1>2 DEF LifeInv, FromFirst, SpinInv
<1>5. \A m \in Modes : ModeInv(m)'
  BY <1>1, <1>2, Steps DEF LifeInv, ModeInv, Started, Finished, Printed
<1>6. QED
  BY <1>3, <1>4, <1>5 DEF LifeInv

\* A mode is stopped: both its threads are joined, and no thread is left that
\* could tell it of a peer again.
LEMMA StopModeLife ==
  ASSUME LifeInv, StopMode
  PROVE  LifeInv'
<1>1. /\ UNCHANGED <<cfg, stop, spin, spinning, calling, inbox, unprinted, traffic>>
      /\ pc = "stop" /\ i \in Modes
      /\ sender \in [Modes -> SenderLabels] /\ worker \in [Modes -> WorkerLabels]
      /\ known \in [Modes -> BOOLEAN]
      /\ sender[i] \in {"none", "ended"} /\ worker[i] \in {"none", "ended"}
      /\ sender' = [sender EXCEPT ![i] = Join(@)]
      /\ worker' = [worker EXCEPT ![i] = Join(@)]
      /\ known' = [known EXCEPT ![i] = FALSE]
      /\ \/ i < N /\ pc' = "stop" /\ i' = i + 1
         \/ ~(i < N) /\ pc' = "summary" /\ i' = 1
  BY DEF LifeInv, TypeOK, StopMode, Joinable, FlushGone, executorVars
<1>2. /\ sender'[i] \in {"none", "joined"} /\ worker'[i] \in {"none", "joined"} /\ ~known'[i]
      /\ worker[i] # "none" => worker'[i] # "none"
      /\ \A m \in Modes \ {i} : /\ sender'[m] = sender[m] /\ worker'[m] = worker[m]
                                /\ known'[m] = known[m]
  BY <1>1 DEF Join
<1>3. /\ sender' \in [Modes -> SenderLabels] /\ worker' \in [Modes -> WorkerLabels]
      /\ known' \in [Modes -> BOOLEAN]
  BY <1>1 DEF Join, SenderLabels, WorkerLabels
<1>4. AnyNeedsExecutor' = AnyNeedsExecutor /\ \A m \in Modes : HasWorker(m)' = HasWorker(m)
  BY <1>1 DEF AnyNeedsExecutor, NeedsExecutor, HasWorker
<1>5. TypeOK'
  BY <1>1, <1>3, Steps DEF LifeInv, TypeOK
<1>6. FromFirst' /\ SpinInv'
  BY <1>1, <1>4 DEF LifeInv, FromFirst, SpinInv
<1>7. ASSUME NEW m \in Modes PROVE ModeInv(m)'
  <2>1. Started(m) /\ Started(m)' /\ ~Printed(m)'
    BY <1>1, Steps DEF Started, Printed
  <2>2. (Finished(m) <=> m < i) /\ (Finished(m)' <=> m <= i)
    BY <1>1, Steps DEF Finished
  <2>3. ModeInv(m) /\ m \in Nat /\ i \in Nat
    BY <1>1, Steps DEF LifeInv
  <2>4. QED
    BY <1>2, <1>4, <2>1, <2>2, <2>3 DEF ModeInv
<1>8. QED
  BY <1>5, <1>6, <1>7 DEF LifeInv

LEMMA SummaryLife ==
  ASSUME LifeInv, Summary
  PROVE  LifeInv'
<1>1. /\ UNCHANGED <<cfg, stop, sender, worker, spin, spinning, calling, inbox, known, traffic>>
      /\ pc = "summary" /\ i \in Modes /\ unprinted \in [Modes -> BOOLEAN]
      /\ unprinted' = [unprinted EXCEPT ![i] = FALSE]
      /\ \/ i < N /\ pc' = "summary" /\ i' = i + 1
         \/ ~(i < N) /\ pc' = "exit" /\ i' = 1
  BY DEF LifeInv, TypeOK, Summary, threadVars, executorVars
<1>2. AnyNeedsExecutor' = AnyNeedsExecutor /\ \A m \in Modes : HasWorker(m)' = HasWorker(m)
  BY <1>1 DEF AnyNeedsExecutor, NeedsExecutor, HasWorker
<1>3. TypeOK'
  BY <1>1, Steps DEF LifeInv, TypeOK
<1>4. FromFirst' /\ SpinInv'
  BY <1>1, <1>2 DEF LifeInv, FromFirst, SpinInv
<1>5. ASSUME NEW m \in Modes PROVE ModeInv(m)'
  <2>1. Started(m) /\ Started(m)' /\ Finished(m) /\ Finished(m)'
    BY <1>1 DEF Started, Finished
  <2>2. (Printed(m) <=> m < i) /\ (Printed(m)' <=> m <= i)
    BY <1>1, Steps DEF Printed
  <2>3. ModeInv(m) /\ m \in Nat /\ i \in Nat
    BY <1>1, Steps DEF LifeInv
  <2>4. QED
    BY <1>1, <1>2, <2>1, <2>2, <2>3 DEF ModeInv
<1>6. QED
  BY <1>3, <1>4, <1>5 DEF LifeInv

----------------------------------------------------------------------------
(* The threads.                                                            *)

\* What main() has got to stays; a thread that is there stays there, and only
\* a mode that is not finished changes.
LEMMA ThreadsLife ==
  ASSUME LifeInv, TypeOK', UNCHANGED <<cfg, pc, i>>,
         (spin = "none") <=> (spin' = "none"), spin = "joined" => spin' = "joined",
         calling' # {} => spin' = "spinning",
         \A m \in Modes :
           \/ /\ sender'[m] = sender[m] /\ worker'[m] = worker[m]
              /\ known'[m] = known[m] /\ unprinted'[m] = unprinted[m]
           \/ /\ ~Finished(m)
              /\ (sender[m] = "none") <=> (sender'[m] = "none")
              /\ (worker[m] = "none") <=> (worker'[m] = "none")
  PROVE  LifeInv'
<1>1. AnyNeedsExecutor' = AnyNeedsExecutor
  BY DEF AnyNeedsExecutor, NeedsExecutor
<1>2. FromFirst' /\ SpinInv'
  BY <1>1 DEF LifeInv, FromFirst, SpinInv
<1>3. ASSUME NEW m \in Modes PROVE ModeInv(m)'
  <2>1. /\ Started(m)' = Started(m) /\ Finished(m)' = Finished(m)
        /\ Printed(m)' = Printed(m) /\ HasWorker(m)' = HasWorker(m)
    BY DEF Started, Finished, Printed, HasWorker
  <2>2. Printed(m) => Finished(m)
    BY DEF Printed, Finished
  <2>3. ModeInv(m)
    BY DEF LifeInv
  <2>4. QED
    BY <2>1, <2>2, <2>3 DEF ModeInv
<1>4. QED
  BY <1>2, <1>3 DEF LifeInv

LEMMA SenderLife ==
  ASSUME LifeInv, NEW m \in Modes, SenderStep(m)
  PROVE  LifeInv'
<1> USE DEF SenderStep, SenderCheck, SenderWake, mainVars, Count, executorVars
<1>1. UNCHANGED <<cfg, pc, i, stop, worker, spin, spinning, calling, traffic, inbox, known>>
  OBVIOUS
<1>2. sender[m] \in {"check", "sleep"} /\ sender \in [Modes -> SenderLabels]
      /\ unprinted \in [Modes -> BOOLEAN]
  BY DEF LifeInv, TypeOK
<1>3. \E l \in {"check", "sleep", "ended"} : sender' = [sender EXCEPT ![m] = l]
  OBVIOUS
<1>4. unprinted' = unprinted \/ unprinted' = [unprinted EXCEPT ![m] = TRUE]
  OBVIOUS
<1> HIDE DEF SenderStep
<1>5. ~Finished(m)
  BY <1>2 DEF LifeInv, ModeInv
<1>6. TypeOK'
  <2>1. sender' \in [Modes -> SenderLabels]
    BY <1>2, <1>3 DEF SenderLabels
  <2>2. {unprinted', inbox'} \subseteq [Modes -> BOOLEAN]
    BY <1>1, <1>2, <1>4 DEF LifeInv, TypeOK
  <2>3. TypeOK
    BY DEF LifeInv
  <2>4. QED
    BY <1>1, <2>1, <2>2, <2>3 DEF TypeOK
<1>7. \A q \in Modes \ {m} : sender'[q] = sender[q] /\ unprinted'[q] = unprinted[q]
  BY <1>2, <1>3, <1>4
<1>8. sender[m] # "none" /\ sender'[m] # "none"
  BY <1>2, <1>3
<1>9. calling' # {} => spin' = "spinning"
  BY <1>1 DEF LifeInv, SpinInv
<1>10. QED
  BY <1>1, <1>5, <1>6, <1>7, <1>8, <1>9, ThreadsLife

LEMMA WorkerLife ==
  ASSUME LifeInv, NEW m \in Modes, WorkerStep(m)
  PROVE  LifeInv'
<1> USE DEF WorkerStep, WorkerCheck, WorkerWait, WorkerTake, mainVars, Count, executorVars
<1>1. UNCHANGED <<cfg, pc, i, stop, sender, spin, spinning, calling, traffic, known>>
  OBVIOUS
<1>2. worker[m] \in {"check", "wait", "drain"} /\ worker \in [Modes -> WorkerLabels]
      /\ {unprinted, inbox} \subseteq [Modes -> BOOLEAN]
  BY DEF LifeInv, TypeOK
<1>3. \/ \E l \in {"check", "wait", "drain", "ended"} : worker' = [worker EXCEPT ![m] = l]
      \/ worker' = worker
  OBVIOUS
<1>4. /\ unprinted' = unprinted \/ unprinted' = [unprinted EXCEPT ![m] = TRUE]
      /\ inbox' = inbox \/ inbox' = [inbox EXCEPT ![m] = FALSE]
  OBVIOUS
<1> HIDE DEF WorkerStep
<1>5. ~Finished(m)
  BY <1>2 DEF LifeInv, ModeInv
<1>6. TypeOK'
  <2>1. worker' \in [Modes -> WorkerLabels]
    BY <1>2, <1>3 DEF WorkerLabels
  <2>2. {unprinted', inbox'} \subseteq [Modes -> BOOLEAN]
    BY <1>1, <1>2, <1>4 DEF LifeInv, TypeOK
  <2>3. TypeOK
    BY DEF LifeInv
  <2>4. QED
    BY <1>1, <2>1, <2>2, <2>3 DEF TypeOK
<1>7. \A q \in Modes \ {m} : worker'[q] = worker[q] /\ unprinted'[q] = unprinted[q]
  BY <1>2, <1>3, <1>4
<1>8. worker[m] # "none" /\ worker'[m] # "none"
  BY <1>2, <1>3
<1>9. calling' # {} => spin' = "spinning"
  BY <1>1 DEF LifeInv, SpinInv
<1>10. QED
  BY <1>1, <1>5, <1>6, <1>7, <1>8, <1>9, ThreadsLife

\* The executor runs callbacks until it is joined, which is before any stop.
LEMMA ExecutorLife ==
  ASSUME LifeInv, SpinEnter \/ SpinLeave \/ \E m \in Modes : CallbackBegins(m) \/ Callback(m)
  PROVE  LifeInv'
<1>0. calling \subseteq Modes /\ (calling # {} => spin = "spinning")
  BY DEF LifeInv, TypeOK, SpinInv
<1>1. CASE SpinEnter \/ SpinLeave
  <2>1. /\ UNCHANGED <<cfg, pc, i, stop, sender, worker, calling, traffic, inbox, unprinted, known>>
        /\ spin \in {"spawned", "spinning"} /\ spin' \in {"spinning", "ended"}
        /\ spinning' \in BOOLEAN
        /\ calling = {}
    BY <1>0, <1>1 DEF SpinEnter, SpinLeave, mainVars, executorVars, LifeInv, TypeOK
  <2>2. TypeOK'
    BY <2>1 DEF LifeInv, TypeOK, SpinLabels
  <2>3. QED
    BY <2>1, <2>2, ThreadsLife
<1>2. ASSUME NEW m \in Modes, CallbackBegins(m) PROVE LifeInv'
  <2>1. /\ UNCHANGED <<cfg, pc, i, stop, sender, worker, spin, spinning, traffic, inbox,
                       unprinted, known>>
        /\ spin = "spinning"
        /\ calling' = calling \cup {m}
    BY <1>2 DEF CallbackBegins, mainVars, threadVars
  <2>2. TypeOK'
    BY <1>0, <2>1 DEF LifeInv, TypeOK
  <2>3. QED
    BY <2>1, <2>2, ThreadsLife
<1>3. ASSUME NEW m \in Modes, Callback(m) PROVE LifeInv'
  <2>1. /\ UNCHANGED <<cfg, pc, i, stop, sender, worker, spin, spinning, traffic>>
        /\ calling' = calling \ {m}
        /\ spin = "spinning"
    BY <1>0, <1>3 DEF Callback, mainVars, threadVars
  <2>2. \/ /\ inbox' = [inbox EXCEPT ![m] = FALSE]
           /\ unprinted' = [unprinted EXCEPT ![m] = TRUE] /\ known' = known
        \/ /\ \E b \in BOOLEAN : known' = [known EXCEPT ![m] = b]
           /\ UNCHANGED <<inbox, unprinted>>
    BY <1>3 DEF Callback, Count
  <2>3. ~Finished(m)
    BY <2>1 DEF LifeInv, SpinInv, Finished
  <2>4. {inbox, unprinted, known} \subseteq [Modes -> BOOLEAN]
    BY DEF LifeInv, TypeOK
  <2>5. /\ {inbox', unprinted', known'} \subseteq [Modes -> BOOLEAN]
        /\ \A q \in Modes \ {m} : unprinted'[q] = unprinted[q] /\ known'[q] = known[q]
    BY <2>2, <2>4
  <2>6. TypeOK'
    BY <1>0, <2>1, <2>5 DEF LifeInv, TypeOK
  <2>7. QED
    BY <2>1, <2>3, <2>5, <2>6, ThreadsLife
<1>4. QED
  BY <1>1, <1>2, <1>3

LEMMA OutsideLife ==
  ASSUME LifeInv, Signal \/ TrafficEnds \/ (\E m \in Modes : Arrive(m)) \/ UNCHANGED vars
  PROVE  LifeInv'
<1>1. /\ UNCHANGED <<cfg, pc, i, sender, worker, spin, spinning, calling, unprinted, known>>
      /\ stop' \in BOOLEAN /\ traffic' \in BOOLEAN
      /\ inbox' = inbox \/ \E m \in Modes : inbox' = [inbox EXCEPT ![m] = TRUE]
  BY DEF Signal, TrafficEnds, Arrive, vars, mainVars, threadVars, LifeInv, TypeOK, executorVars
<1>2. TypeOK'
  BY <1>1 DEF LifeInv, TypeOK
<1>3. calling' # {} => spin' = "spinning"
  BY <1>1 DEF LifeInv, SpinInv
<1>4. QED
  BY <1>1, <1>2, <1>3, ThreadsLife

----------------------------------------------------------------------------
(* Every step, and what follows.                                           *)

LEMMA NextLife == LifeInv /\ [Next]_vars => LifeInv'
<1> SUFFICES ASSUME LifeInv, [Next]_vars PROVE LifeInv'
  OBVIOUS
<1>1. CASE Main \/ DurationOver
  BY <1>1, UpLife, StartLife, TickLife, JoinSpinLife, StopModeLife, SummaryLife DEF Main
<1>2. CASE \E m \in Modes : SenderStep(m) \/ WorkerStep(m) \/ Arrive(m)
  BY <1>2, SenderLife, WorkerLife, OutsideLife
<1>3. CASE SpinEnter \/ SpinLeave \/ \E m \in Modes : CallbackBegins(m) \/ Callback(m)
  BY <1>3, ExecutorLife
<1>4. CASE Signal \/ TrafficEnds \/ UNCHANGED vars
  BY <1>4, OutsideLife
<1>5. QED
  BY <1>1, <1>2, <1>3, <1>4 DEF Next

\* For any list of modes, main(), the executor and the threads keep in step.
THEOREM LifeHolds == Spec => []LifeInv
  BY InitLife, NextLife, PTL DEF Spec

\* However many modes there are, main() is at one of them whenever it is in a
\* loop over them, and every thread is where a thread can be.
THEOREM TypeCorrect == Spec => []TypeOK
<1>1. LifeInv => TypeOK
  BY DEF LifeInv
<1>2. QED
  BY <1>1, LifeHolds, PTL

\* The summary of every mode comes after the last count of any of its threads:
\* cancel, join of the executor and ModeBase::stop come before all summaries.
THEOREM SummariesComplete == Spec => []SummaryComplete
<1>1. LifeInv => SummaryComplete
  BY DEF LifeInv, ModeInv, Printed, SummaryComplete
<1>2. QED
  BY <1>1, LifeHolds, PTL

\* No callback and no poll comes after flush_gone.
THEOREM PeersAllFlushed == Spec => []PeersFlushed
<1>1. LifeInv => PeersFlushed
  BY DEF LifeInv, ModeInv, Finished, PeersFlushed
<1>2. QED
  BY <1>1, LifeHolds, PTL

\* main() returns over no joinable thread, on each of its ways out.
THEOREM AllJoined == Spec => []NoThreadOutlivesMain
<1>1. LifeInv => NoThreadOutlivesMain
  BY DEF LifeInv, SpinInv, ModeInv, Started, Finished, NoThreadOutlivesMain
<1>2. QED
  BY <1>1, LifeHolds, PTL

\* Any mix of triggers has an executor if one of its modes needs one.
THEOREM AllServed == Spec => []Served
<1>1. LifeInv => Served
  <2> SUFFICES ASSUME LifeInv, pc = "loop", NEW m \in Modes, cfg[m].kind # "pub"
               PROVE  worker[m] # "none" \/ spin # "none"
    BY DEF Served
  <2>1. cfg[m].trigger \in Triggers
    BY ConstantsAssumption DEF LifeInv, TypeOK, ModeSpecs
  <2>2. CASE cfg[m].trigger = "waitset"
    BY <2>2 DEF LifeInv, ModeInv, Started, HasWorker
  <2>3. CASE cfg[m].trigger = "listener"
    BY <2>3 DEF LifeInv, SpinInv, AnyNeedsExecutor, NeedsExecutor
  <2>4. QED
    BY <2>1, <2>2, <2>3 DEF Triggers
<1>2. QED
  BY <1>1, LifeHolds, PTL
=============================================================================
