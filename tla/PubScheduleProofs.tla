------------------------- MODULE PubScheduleProofs -------------------------
(***************************************************************************)
(* Theorems about PubSchedule, for any number of pubs, any rates and any   *)
(* lateness; and about its punctual runs.                                  *)
(***************************************************************************)
EXTENDS PubSchedule, FiniteSetTheorems, TLAPS

----------------------------------------------------------------------------
(* Division.                                                               *)

LEMMA DivAtLeast ==
  ASSUME NEW n \in Nat, NEW k \in Nat, NEW i \in Nat \ {0}, k * i <= n
  PROVE  k <= n \div i
<1>1. n \div i \in Nat /\ n < (n \div i + 1) * i
  OBVIOUS
<1>2. SUFFICES ASSUME n \div i < k PROVE FALSE
  BY <1>1
<1>3. n \div i + 1 <= k
  BY <1>1, <1>2
<1>4. (n \div i + 1) * i <= k * i
  BY <1>1, <1>3
<1>5. QED
  BY <1>1, <1>4

LEMMA DivAtMost ==
  ASSUME NEW n \in Nat, NEW k \in Nat, NEW i \in Nat \ {0}, n < (k + 1) * i
  PROVE  n \div i <= k
<1>1. n \div i \in Nat /\ (n \div i) * i <= n
  OBVIOUS
<1>2. SUFFICES ASSUME k < n \div i PROVE FALSE
  BY <1>1
<1>3. k + 1 <= n \div i
  BY <1>1, <1>2
<1>4. (k + 1) * i <= (n \div i) * i
  BY <1>1, <1>3
<1>5. QED
  BY <1>1, <1>4

LEMMA DivGrows ==
  ASSUME NEW n \in Nat, NEW i \in Nat \ {0}
  PROVE  n \div i \in Nat /\ n \div i <= (n + 1) \div i
<1>1. n \div i \in Nat /\ (n \div i) * i <= n + 1
  OBVIOUS
<1>2. QED
  BY <1>1, DivAtLeast

----------------------------------------------------------------------------
(* The inductive invariant.                                                *)

PubTypes ==
  /\ now \in Nat
  /\ interval \in [Pubs -> Nat \ {0}]
  /\ pc \in [Pubs -> {"start", "check", "sleep", "publish", "ended"}]
  /\ {msg_index, sent, started} \subseteq [Pubs -> Nat]

\* The index is that of the last sample sent, counted from t0; it is never past
\* the samples due, and a thread that goes to publish has one due.
IndexKept(p) ==
  pc[p] # "start" =>
    /\ sent[p] = msg_index[p] - started[p] \div interval[p]
    /\ msg_index[p] + (IF pc[p] = "publish" THEN 1 ELSE 0) <= now \div interval[p]

\* No thread has counted or sent anything before it starts.
Unstarted(p) == pc[p] = "start" => sent[p] = 0

ScheduleInv == PubTypes /\ \A p \in Pubs : IndexKept(p) /\ Unstarted(p)

LEMMA InitSchedule == Init => ScheduleInv
<1> SUFFICES ASSUME Init PROVE ScheduleInv
  OBVIOUS
<1>1. now \in Nat
  BY ConstantsAssumption DEF Init
<1>2. interval \in [Pubs -> Nat \ {0}]
  BY ConstantsAssumption DEF Init
<1>3. QED
  BY <1>1, <1>2 DEF Init, ScheduleInv, PubTypes, IndexKept, Unstarted

----------------------------------------------------------------------------
(* The steps of one pub.                                                   *)

\* What is to be shown of a step of the thread of p: the others do not notice.
LEMMA OnlyOne ==
  ASSUME ScheduleInv, NEW p \in Pubs, PubTypes', UNCHANGED <<now, interval>>,
         \A q \in Pubs : q # p => /\ pc'[q] = pc[q] /\ msg_index'[q] = msg_index[q]
                                  /\ sent'[q] = sent[q] /\ started'[q] = started[q],
         IndexKept(p)', pc'[p] # "start"
  PROVE  ScheduleInv'
  BY DEF ScheduleInv, IndexKept, Unstarted

LEMMA BeginSchedule ==
  ASSUME ScheduleInv, NEW p \in Pubs, Begin(p)
  PROVE  ScheduleInv'
<1> USE DEF ScheduleInv, PubTypes, Begin, runVars
<1>1. now \div interval[p] \in Nat
  BY DivGrows
<1>2. PubTypes'
  BY <1>1 DEF FirstIndex
<1>3. /\ pc'[p] = "check" /\ sent'[p] = 0 /\ started'[p] = now
      /\ msg_index'[p] = now \div interval[p]
  BY DEF FirstIndex, Unstarted
<1>4. IndexKept(p)'
  BY <1>1, <1>3 DEF IndexKept
<1>5. QED
  BY <1>2, <1>3, <1>4, OnlyOne

LEMMA CheckSchedule ==
  ASSUME ScheduleInv, NEW p \in Pubs, Check(p) \/ Wake(p)
  PROVE  ScheduleInv'
<1> USE DEF ScheduleInv, PubTypes, Check, Wake, runVars
<1>1. PubTypes'
  OBVIOUS
<1>2. /\ pc[p] # "start" /\ pc[p] # "publish" /\ pc'[p] # "start"
      /\ pc'[p] = "publish" => ~(now < Deadline(p))
  BY DEF Deadline
<1>3. /\ now \in Nat /\ interval[p] \in Nat \ {0} /\ msg_index[p] \in Nat
      /\ now \div interval[p] \in Nat
  BY DivGrows
<1>4. pc'[p] = "publish" => msg_index[p] + 1 <= now \div interval[p]
  BY <1>2, <1>3, DivAtLeast DEF Deadline
<1>5. IndexKept(p)'
  BY <1>2, <1>3, <1>4 DEF IndexKept
<1>6. QED
  BY <1>1, <1>2, <1>5, OnlyOne

LEMMA PublishSchedule ==
  ASSUME ScheduleInv, NEW p \in Pubs, PublishOne(p)
  PROVE  ScheduleInv'
<1> USE DEF ScheduleInv, PubTypes, PublishOne, runVars
<1>1. PubTypes'
  OBVIOUS
<1>2. /\ pc[p] = "publish" /\ pc'[p] = "check"
      /\ msg_index'[p] = msg_index[p] + 1 /\ sent'[p] = sent[p] + 1
      /\ msg_index[p] \in Nat /\ sent[p] \in Nat
      /\ UNCHANGED <<now, interval, started>>
  OBVIOUS
<1>3. now \div interval[p] \in Nat /\ started[p] \div interval[p] \in Nat
  BY DivGrows
<1>4. IndexKept(p)'
  BY <1>2, <1>3 DEF IndexKept
<1>5. QED
  BY <1>1, <1>2, <1>4, OnlyOne

----------------------------------------------------------------------------
(* The other steps.                                                        *)

LEMMA AdvanceSchedule ==
  ASSUME ScheduleInv, Advance
  PROVE  ScheduleInv'
<1> USE DEF ScheduleInv, PubTypes, Advance, runVars, pubVars
<1>1. PubTypes'
  OBVIOUS
<1>2. ASSUME NEW p \in Pubs PROVE IndexKept(p)' /\ Unstarted(p)'
  <2>1. now' = now + 1 /\ UNCHANGED <<interval, pc, msg_index, sent, started>>
    OBVIOUS
  <2>2. /\ now \div interval[p] \in Nat /\ (now + 1) \div interval[p] \in Nat
        /\ now \div interval[p] <= (now + 1) \div interval[p]
    BY DivGrows
  <2>3. msg_index[p] \in Nat
    OBVIOUS
  <2> DEFINE before == now \div interval[p]
             after == (now + 1) \div interval[p]
  <2> HIDE DEF before, after
  <2>4. IndexKept(p)'
    <3>1. pc[p] # "start" => msg_index[p] + (IF pc[p] = "publish" THEN 1 ELSE 0) <= after
      <4>1. pc[p] # "start" => msg_index[p] + (IF pc[p] = "publish" THEN 1 ELSE 0) <= before
        BY DEF IndexKept, before
      <4>2. before \in Nat /\ after \in Nat /\ before <= after
        BY <2>2 DEF before, after
      <4>3. QED
        BY <2>3, <4>1, <4>2
    <3>2. QED
      BY <2>1, <3>1 DEF IndexKept, after
  <2>5. QED
    BY <2>1, <2>4 DEF Unstarted
<1>3. QED
  BY <1>1, <1>2

LEMMA NextSchedule == ScheduleInv /\ [Next]_vars => ScheduleInv'
<1> SUFFICES ASSUME ScheduleInv, [Next]_vars PROVE ScheduleInv'
  OBVIOUS
<1>1. CASE \E p \in Pubs : PubStep(p)
  BY <1>1, BeginSchedule, CheckSchedule, PublishSchedule DEF PubStep
<1>2. CASE Advance
  BY <1>2, AdvanceSchedule
<1>3. CASE MainStep \/ UNCHANGED vars
  <2>1. UNCHANGED <<now, interval, pc, msg_index, sent, started>>
    BY <1>3 DEF MainStep, Tick, Sleep, WakeMain, Join, vars, runVars, pubVars
  <2>2. QED
    BY <2>1 DEF ScheduleInv, PubTypes, IndexKept, Unstarted
<1>4. QED
  BY <1>1, <1>2, <1>3 DEF Next

\* Whatever held a pub up, it never sends a sample early, and once it has caught
\* up it has sent exactly the samples due (PubMode::run).
THEOREM ScheduleHolds == Spec => []ScheduleKept
<1>1. ScheduleInv => ScheduleKept
  <2> SUFFICES ASSUME ScheduleInv, NEW p \in Pubs, pc[p] # "start"
               PROVE  /\ sent[p] <= Due(p, now)
                      /\ pc[p] = "sleep" /\ now < Deadline(p) => sent[p] = Due(p, now)
    BY DEF ScheduleKept
  <2> USE DEF ScheduleInv, PubTypes
  <2>1. /\ now \in Nat /\ interval[p] \in Nat \ {0} /\ msg_index[p] \in Nat
        /\ started[p] \in Nat
    OBVIOUS
  <2>2. now \div interval[p] \in Nat /\ started[p] \div interval[p] \in Nat
    BY <2>1, DivGrows
  <2>3. pc[p] = "sleep" /\ now < Deadline(p) => now \div interval[p] <= msg_index[p]
    BY <2>1, DivAtMost DEF Deadline
  <2>4. QED
    BY <2>1, <2>2, <2>3 DEF IndexKept, Due
<1>2. QED
  BY <1>1, InitSchedule, NextSchedule, PTL DEF Spec

----------------------------------------------------------------------------
(* The slack of the tick loop, a maximum over the pubs.                    *)

LEMMA FiniteMaximum ==
  ASSUME NEW S \in SUBSET Nat, IsFiniteSet(S), S # {}
  PROVE  \E m \in S : \A x \in S : m >= x
<1> DEFINE HasMax(T) == \E m \in T : \A x \in T : m >= x
           Without == {T \in FiniteSubsetsOf(S) : T # {} /\ ~HasMax(T)}
<1>1. SUFFICES ASSUME ~HasMax(S) PROVE FALSE
  OBVIOUS
<1>2. Without \subseteq FiniteSubsetsOf(S) /\ S \in Without
  BY <1>1 DEF FiniteSubsetsOf
<1>3. PICK T \in Without : \A U \in Without : ~(<<U, T>> \in StrictSubsetOrdering(S))
  <2> HIDE DEF Without
  <2>1. IsWellFoundedOn(StrictSubsetOrdering(S), FiniteSubsetsOf(S))
    BY FS_StrictSubsetOrderingWellFounded
  <2>2. Without # {}
    BY <1>2
  <2>3. QED
    BY <1>2, <2>1, <2>2, WFMin, Zenon
<1>4. T \in SUBSET S /\ IsFiniteSet(T) /\ T # {} /\ ~HasMax(T)
  BY <1>3 DEF FiniteSubsetsOf
<1>5. PICK x \in T : TRUE
  BY <1>4
<1>6. T \ {x} \in FiniteSubsetsOf(S)
  BY <1>4, FS_RemoveElement DEF FiniteSubsetsOf
<1>7. T \ {x} # {} => HasMax(T \ {x})
  <2>1. <<T \ {x}, T>> \in StrictSubsetOrdering(S)
    <3> HIDE DEF HasMax
    <3>1. T \ {x} # T /\ T \ {x} \subseteq T /\ T \ {x} \in SUBSET S
      BY <1>4, <1>5
    <3>2. <<T \ {x}, T>> \in (SUBSET S) \X (SUBSET S)
      BY <1>4, <3>1
    <3>3. QED
      BY <3>1, <3>2 DEF StrictSubsetOrdering
  <2>2. T \ {x} \notin Without
    <3> HIDE DEF Without
    <3>1. QED
      BY <1>3, <2>1, Zenon
  <2>3. QED
    BY <1>6, <2>2
<1>8. HasMax(T)
  <2>1. CASE T \ {x} = {}
    <3>1. T = {x} /\ x \in Nat
      BY <1>4, <1>5, <2>1
    <3>2. QED
      BY <3>1
  <2>2. CASE T \ {x} # {}
    <3>1. PICK m \in T \ {x} : \A y \in T \ {x} : m >= y
      BY <1>7, <2>2
    <3>2. x \in Nat /\ m \in Nat
      BY <1>4, <1>5, <3>1
    <3>3. CASE m >= x
      BY <1>5, <3>1, <3>3
    <3>4. CASE x >= m
      BY <1>5, <3>1, <3>2, <3>4
    <3>5. QED
      BY <3>2, <3>3, <3>4
  <2>3. QED
    BY <2>1, <2>2
<1>9. QED
  BY <1>4, <1>8

LEMMA MaxOfSet ==
  ASSUME NEW S \in SUBSET Nat, IsFiniteSet(S), S # {}
  PROVE  Max(S) \in S /\ \A x \in S : Max(S) >= x
<1>1. \E m \in S : \A x \in S : m >= x
  BY FiniteMaximum
<1>2. QED
  BY <1>1 DEF Max

LEMMA MinOfTwo ==
  ASSUME NEW a \in Nat, NEW b \in Nat
  PROVE  Min({a, b}) = IF a <= b THEN a ELSE b
<1>1. \E m \in {a, b} : \A x \in {a, b} : m <= x
  BY a <= b \/ b <= a
<1>2. Min({a, b}) \in {a, b} /\ \A x \in {a, b} : Min({a, b}) <= x
  BY <1>1 DEF Min
<1>3. QED
  BY <1>2

LEMMA MaxOfOneAnd ==
  ASSUME NEW n \in Nat
  PROVE  Max({1, n}) = IF n <= 1 THEN 1 ELSE n
<1>1. \E m \in {1, n} : \A x \in {1, n} : m >= x
  BY 1 <= n \/ n <= 1
<1>2. Max({1, n}) \in {1, n} /\ \A x \in {1, n} : Max({1, n}) >= x
  BY <1>1 DEF Max
<1>3. QED
  BY <1>2

\* The slack is at least one unit, at most kMaxSlack and the longest half.
LEMMA SlackBounds ==
  ASSUME interval \in [Pubs -> Nat \ {0}]
  PROVE  /\ Slack \in Nat /\ 1 <= Slack
         /\ Slack = 1 \/ \E p \in Pubs : Slack <= interval[p] \div 2
<1> DEFINE Halves == {HalfInterval(p) : p \in Pubs}
           longest == Max({1} \cup Halves)
<1>1. MaxSlack \in Nat /\ MaxSlack >= 1
  BY ConstantsAssumption
<1>2. ASSUME NEW p \in Pubs
      PROVE  /\ interval[p] \div 2 \in Nat /\ HalfInterval(p) \in Nat
             /\ HalfInterval(p) >= 1
             /\ HalfInterval(p) = 1 \/ HalfInterval(p) = interval[p] \div 2
  <2>1. interval[p] \div 2 \in Nat
    OBVIOUS
  <2>2. QED
    BY <2>1, MaxOfOneAnd DEF HalfInterval
<1>3. IsFiniteSet({1} \cup Halves)
  <2>1. IsFiniteSet(Halves)
    <3> DEFINE half == [p \in Pubs |-> HalfInterval(p)]
    <3>1. half \in Surjection(Pubs, Halves)
      BY DEF Surjection
    <3> HIDE DEF half, Halves
    <3>2. QED
      BY <3>1, ConstantsAssumption, FS_Surjection
  <2>2. QED
    BY <2>1, FS_AddElement
<1>4. longest \in {1} \cup Halves /\ longest >= 1
  <2>1. {1} \cup Halves \in SUBSET Nat
    BY <1>2
  <2> HIDE DEF Halves
  <2>2. QED
    BY <1>3, <2>1, MaxOfSet
<1>5. longest \in Nat
  BY <1>2, <1>4
<1>6. Slack = IF MaxSlack <= longest THEN MaxSlack ELSE longest
  <2> HIDE DEF longest
  <2>1. Slack = Min({MaxSlack, longest})
    BY DEF Slack, longest
  <2>2. QED
    BY <1>1, <1>5, <2>1, MinOfTwo
<1>7. Slack <= longest /\ Slack \in Nat /\ 1 <= Slack
  <2> HIDE DEF longest, Halves
  <2>1. QED
    BY <1>1, <1>4, <1>5, <1>6
<1>8. longest = 1 \/ \E p \in Pubs : longest = interval[p] \div 2
  BY <1>2, <1>4
<1>9. QED
  <2> HIDE DEF longest, Halves
  <2>1. QED
    BY <1>5, <1>7, <1>8

----------------------------------------------------------------------------
(* Type correctness, and the tick loop of main().                          *)

\* What only main() and the line of a pub keep.
MainTypes ==
  /\ duration \in Durations /\ late \in Lateness /\ interval \in Schedules
  /\ stop \in BOOLEAN
  /\ read_now \in Nat /\ wake_at \in Nat /\ tick_count \in Nat
  /\ last_sent \in [Pubs -> Nat]
  /\ main \in {"loop", "sleep", "join", "over"}

\* A sleep is never past the next tick; the last tick was not early.
LoopInv ==
  /\ ScheduleInv /\ MainTypes
  /\ main = "sleep" => wake_at <= NextTick
  /\ tick_count = 0 \/ tick_count * Second < now

\* The arithmetic of the tick loop.
LEMMA NextTickBounds ==
  ASSUME LoopInv
  PROVE  /\ Second \in Nat /\ Second >= 1 /\ PollSlice \in Nat /\ PollSlice >= 1
         /\ now \in Nat /\ tick_count \in Nat /\ Slack \in Nat /\ Slack >= 1
         /\ tick_count * Second \in Nat
         /\ (tick_count + 1) * Second = tick_count * Second + Second
         /\ (tick_count + 2) * Second = tick_count * Second + Second + Second
         /\ NextTick = tick_count * Second + Second + Slack
         /\ NextTick \in Nat
<1>1. Second \in Nat /\ Second >= 1 /\ PollSlice \in Nat /\ PollSlice >= 1
  BY ConstantsAssumption
<1>2. now \in Nat /\ tick_count \in Nat
  BY DEF LoopInv, ScheduleInv, PubTypes, MainTypes
<1>3. Slack \in Nat /\ 1 <= Slack
  BY SlackBounds DEF LoopInv, ScheduleInv, PubTypes
<1>4. /\ tick_count * Second \in Nat
      /\ (tick_count + 1) * Second = tick_count * Second + Second
      /\ (tick_count + 2) * Second = tick_count * Second + Second + Second
  BY <1>1, <1>2
<1>5. QED
  BY <1>1, <1>2, <1>3, <1>4 DEF NextTick

LEMMA SlackFixed == interval' = interval => Slack' = Slack
BY DEF Slack, HalfInterval

LEMMA InitLoop == Init => LoopInv
<1> SUFFICES ASSUME Init PROVE LoopInv
  OBVIOUS
<1>1. ScheduleInv
  BY InitSchedule
<1>2. MainTypes
  BY DEF Init, MainTypes
<1>3. QED
  BY <1>1, <1>2 DEF Init, LoopInv

\* What main() may do to its own variables.
LEMMA NextLoop == LoopInv /\ [Next]_vars => LoopInv'
<1> SUFFICES ASSUME LoopInv, [Next]_vars PROVE LoopInv'
  OBVIOUS
<1>1. ScheduleInv'
  BY NextSchedule DEF LoopInv
<1>2. /\ main = "sleep" => wake_at <= NextTick
      /\ tick_count = 0 \/ tick_count * Second < now
      /\ MainTypes
  BY DEF LoopInv
<1>3. CASE Tick
  <2>1. /\ tick_count' = tick_count + 1 /\ now >= NextTick /\ now' = now
        /\ main' # "sleep"
    BY <1>3 DEF Tick, EndOfBody
  <2>2. tick_count' * Second < now'
    BY <2>1, NextTickBounds
  <2>3. sent \in [Pubs -> Nat] /\ now \in Nat
    BY DEF LoopInv, ScheduleInv, PubTypes
  <2>4. MainTypes'
    <3>1. /\ stop' \in BOOLEAN /\ main' \in {"loop", "join"}
          /\ read_now' = now /\ tick_count' = tick_count + 1 /\ last_sent' = sent
          /\ UNCHANGED <<duration, late, interval, wake_at>>
      BY <1>2, <1>3 DEF Tick, EndOfBody, MainTypes, runVars
    <3>2. QED
      BY <1>2, <2>3, <3>1 DEF MainTypes
  <2>5. QED
    BY <1>1, <2>1, <2>2, <2>4 DEF LoopInv
<1>4. CASE Sleep
  <2>1. /\ UNCHANGED <<tick_count, now, interval>> /\ wake_at' = SleepUntil
    BY <1>4 DEF Sleep, runVars
  <2>2. SleepUntil \in Nat /\ SleepUntil <= NextTick
    BY NextTickBounds DEF SleepUntil
  <2>3. NextTick' = NextTick
    BY <2>1, SlackFixed DEF NextTick
  <2>4. now \in Nat
    BY NextTickBounds
  <2>5. MainTypes'
    <3>1. /\ wake_at' \in Nat /\ read_now' \in Nat /\ main' = "sleep"
          /\ UNCHANGED <<stop, tick_count, last_sent, duration, late, interval>>
      BY <1>4, <2>1, <2>2, <2>4 DEF Sleep, runVars
    <3>2. QED
      BY <1>2, <3>1 DEF MainTypes
  <2>6. QED
    BY <1>1, <1>2, <2>1, <2>2, <2>3, <2>5 DEF LoopInv
<1>5. CASE WakeMain \/ Join
  <2>1. UNCHANGED <<tick_count, now>> /\ main' # "sleep"
    BY <1>5 DEF WakeMain, Join, EndOfBody
  <2>2. MainTypes'
    BY <1>2, <1>5 DEF WakeMain, Join, EndOfBody, MainTypes, runVars
  <2>3. QED
    BY <1>1, <1>2, <2>1, <2>2 DEF LoopInv
<1>6. CASE Advance
  <2>1. /\ now' = now + 1
        /\ UNCHANGED <<interval, stop, duration, late, main, read_now, wake_at,
                       tick_count, last_sent>>
    BY <1>6 DEF Advance, runVars, mainVars
  <2>2. NextTick' = NextTick
    BY <2>1, SlackFixed DEF NextTick
  <2>3. MainTypes'
    BY <1>2, <2>1 DEF MainTypes
  <2>4. tick_count' = 0 \/ tick_count' * Second < now'
    BY <1>2, <2>1, NextTickBounds
  <2>5. QED
    BY <1>1, <1>2, <2>1, <2>2, <2>3, <2>4 DEF LoopInv
<1>7. CASE (\E p \in Pubs : PubStep(p)) \/ UNCHANGED vars
  <2>1. UNCHANGED <<now, interval, stop, duration, late, main, read_now, wake_at,
                    tick_count, last_sent>>
    BY <1>7 DEF PubStep, Begin, Check, Wake, PublishOne, runVars, mainVars, vars
  <2>2. NextTick' = NextTick
    BY <2>1, SlackFixed DEF NextTick
  <2>3. MainTypes'
    BY <1>2, <2>1 DEF MainTypes
  <2>4. QED
    BY <1>1, <1>2, <2>1, <2>2, <2>3 DEF LoopInv
<1>8. QED
  BY <1>3, <1>4, <1>5, <1>6, <1>7 DEF Next, MainStep

LEMMA AlwaysLoop == Spec => []LoopInv
BY InitLoop, NextLoop, PTL DEF Spec

\* Every variable of the clock, the pubs and main() keeps its type.
THEOREM TypeCorrect == Spec => []TypeOK
<1>1. LoopInv => TypeOK
  BY DEF LoopInv, ScheduleInv, PubTypes, MainTypes, TypeOK
<1>2. QED
  BY <1>1, AlwaysLoop, PTL

\* No line before its second is over, and in a punctual run none after the
\* next poll: main() never sleeps past a tick (the tick loop of main()).
THEOREM TicksAreInTime == Spec => []TicksInTime
<1>1. LoopInv => TicksInTime
  <2> SUFFICES ASSUME LoopInv PROVE TicksInTime
    OBVIOUS
  <2>1. /\ tick_count = 0 \/ tick_count * Second < now
        /\ main = "sleep" => wake_at <= NextTick
        /\ main \in {"loop", "sleep", "join", "over"} /\ wake_at \in Nat
    BY DEF LoopInv, MainTypes
  <2>2. now \in Nat /\ NextTick \in Nat
    BY NextTickBounds
  <2>3. QED
    BY <2>1, <2>2 DEF TicksInTime, NobodyDue, MainAsleep, LoopLeft
<1>2. QED
  BY <1>1, AlwaysLoop, PTL

----------------------------------------------------------------------------
(* A punctual run. Time passes only when nobody is due, so whoever wakes   *)
(* wakes on the unit it slept for. The threads must have been started      *)
(* before the first second and before the end of the run.                  *)

StartsInTime ==
  \A t \in StartTimes : t < Second /\ \A d \in Durations : d = 0 \/ t < d

\* A pub that still runs has sent whatever was due before this moment.
UpToDate(p) ==
  pc[p] \notin {"start", "ended"} =>
    \A t \in Nat : t < now => Due(p, t) <= sent[p]

PunctualMain ==
  /\ main = "loop" => now <= NextTick /\ (duration = 0 \/ now < duration + PollSlice)
  /\ main = "sleep" =>
       /\ now <= wake_at /\ wake_at <= read_now + PollSlice
       /\ duration = 0 \/ read_now < duration + PollSlice
  /\ stop <=> LoopLeft

PunctualPub(p) ==
  /\ pc[p] = "start" => tick_count = 0 /\ now < Second
  /\ pc[p] = "ended" => stop
  /\ UpToDate(p)

PunctualInv ==
  LoopInv /\ (late = 0 => PunctualMain /\ \A p \in Pubs : PunctualPub(p))

LEMMA InitPunctual == StartsInTime /\ Init => PunctualInv
<1> SUFFICES ASSUME StartsInTime, Init PROVE PunctualInv
  OBVIOUS
<1>1. LoopInv
  BY InitLoop
<1>2. PunctualMain
  <2>1. now < Second /\ (duration = 0 \/ now < duration) /\ tick_count = 0
    BY DEF StartsInTime, Init
  <2>2. duration \in Nat
    BY ConstantsAssumption DEF Init
  <2>3. now <= NextTick /\ (duration = 0 \/ now < duration + PollSlice)
    BY <1>1, <2>1, <2>2, NextTickBounds
  <2>4. QED
    BY <2>3 DEF Init, PunctualMain, LoopLeft
<1>3. ASSUME NEW p \in Pubs PROVE PunctualPub(p)
  BY DEF StartsInTime, Init, PunctualPub, UpToDate
<1>4. QED
  BY <1>1, <1>2, <1>3 DEF PunctualInv

\* main() in a punctual run.
LEMMA NextPunctualMain ==
  ASSUME PunctualInv, [Next]_vars, late = 0
  PROVE  PunctualMain'
<1> USE DEF PunctualInv
<1>1. PunctualMain /\ LoopInv'
  BY NextLoop
<1>2. /\ duration \in Nat /\ read_now \in Nat /\ wake_at \in Nat /\ stop \in BOOLEAN
      /\ main \in {"loop", "sleep", "join", "over"}
      /\ main = "sleep" => wake_at <= NextTick
  BY ConstantsAssumption DEF LoopInv, MainTypes
<1>3. /\ now \in Nat /\ NextTick \in Nat /\ Second \in Nat /\ Second >= 1
      /\ PollSlice \in Nat /\ PollSlice >= 1
  BY NextTickBounds
<1>4. CASE Tick
  <2>1. /\ UNCHANGED <<now, duration>> /\ main' # "sleep"
        /\ main' = "loop" => ~DurationOver(now)
        /\ stop' <=> LoopLeft'
    BY <1>4 DEF Tick, EndOfBody, runVars, LoopLeft
  <2>2. NextTick' = NextTick + Second /\ now <= NextTick
    <3>1. interval' = interval /\ tick_count' = tick_count + 1 /\ main = "loop"
      BY <1>4 DEF Tick, runVars
    <3>2. Slack' = Slack
      BY <3>1, SlackFixed
    <3>3. NextTick' = (tick_count + 1 + 1) * Second + Slack
      BY <3>1, <3>2 DEF NextTick
    <3>4. tick_count + 1 + 1 = tick_count + 2
      BY NextTickBounds
    <3>5. NextTick' = (tick_count + 2) * Second + Slack
      BY <3>3, <3>4
    <3>6. QED
      BY <1>1, <3>1, <3>5, NextTickBounds DEF PunctualMain
  <2>3. main' = "loop" => duration = 0 \/ now < duration + PollSlice
    BY <1>2, <1>3, <2>1 DEF DurationOver
  <2>4. QED
    BY <1>3, <2>1, <2>2, <2>3 DEF PunctualMain
<1>5. CASE Sleep
  <2>1. /\ UNCHANGED <<now, duration, stop>> /\ main' = "sleep" /\ main = "loop"
        /\ read_now' = now /\ wake_at' = SleepUntil /\ now < NextTick /\ ~stop
    BY <1>5 DEF Sleep, runVars
  <2>2. now <= SleepUntil /\ SleepUntil <= now + PollSlice
    BY <1>3, <2>1 DEF SleepUntil
  <2>3. QED
    BY <1>1, <2>1, <2>2 DEF PunctualMain, LoopLeft
<1>6. CASE WakeMain
  <2>1. /\ UNCHANGED <<now, duration, tick_count, interval>> /\ main = "sleep"
        /\ main' # "sleep" /\ now >= wake_at
        /\ main' = "loop" => ~DurationOver(read_now)
        /\ main' = "loop" => stop' = stop
        /\ main' = "join" => stop'
        /\ main' \in {"loop", "join"}
    BY <1>6 DEF WakeMain, EndOfBody, runVars
  <2>2. NextTick' = NextTick
    BY <2>1, SlackFixed DEF NextTick
  <2>3. now <= NextTick /\ now <= read_now + PollSlice
    BY <1>1, <1>2, <1>3, <2>1 DEF PunctualMain
  <2>4. main' = "loop" => duration = 0 \/ now < duration + PollSlice
    BY <1>2, <1>3, <2>1, <2>3 DEF DurationOver
  <2>5. QED
    BY <1>1, <2>1, <2>2, <2>3, <2>4 DEF PunctualMain, LoopLeft
<1>7. CASE Advance
  <2>1. /\ now' = now + 1 /\ NobodyDue
        /\ UNCHANGED <<duration, main, read_now, wake_at, stop>>
    BY <1>3, <1>7 DEF Advance, runVars, mainVars
  <2>2. main = "sleep" => now < wake_at
    BY <2>1 DEF NobodyDue, MainAsleep
  <2>3. main # "loop"
    BY <2>1 DEF NobodyDue, MainAsleep
  <2>4. QED
    BY <1>1, <1>2, <1>3, <2>1, <2>2, <2>3 DEF PunctualMain, LoopLeft
<1>8. CASE (\E p \in Pubs : PubStep(p)) \/ UNCHANGED vars
  <2>1. UNCHANGED <<now, interval, duration, main, read_now, wake_at, stop, tick_count>>
    BY <1>8 DEF PubStep, Begin, Check, Wake, PublishOne, runVars, mainVars, vars
  <2>2. NextTick' = NextTick
    BY <2>1, SlackFixed DEF NextTick
  <2>3. QED
    BY <1>1, <2>1, <2>2 DEF PunctualMain, LoopLeft
<1>9. CASE Join
  BY <1>1, <1>9 DEF Join, PunctualMain, LoopLeft
<1>10. QED
  BY <1>4, <1>5, <1>6, <1>7, <1>8, <1>9 DEF Next, MainStep

\* The pubs in a punctual run.
LEMMA NextPunctualPub ==
  ASSUME PunctualInv, [Next]_vars, late = 0, NEW p \in Pubs
  PROVE  PunctualPub(p)'
<1> USE DEF PunctualInv
<1>1. PunctualPub(p) /\ PunctualMain /\ ScheduleInv
  BY DEF LoopInv
<1>2. /\ now \in Nat /\ interval[p] \in Nat \ {0} /\ msg_index[p] \in Nat
      /\ sent[p] \in Nat /\ started[p] \in Nat /\ stop \in BOOLEAN
      /\ pc[p] \in {"start", "check", "sleep", "publish", "ended"}
      /\ tick_count \in Nat
  BY <1>1 DEF ScheduleInv, PubTypes, LoopInv, MainTypes
<1>3. ASSUME UNCHANGED <<now, interval, stop, tick_count>>, pc'[p] = pc[p],
             sent'[p] = sent[p], started'[p] = started[p]
      PROVE  PunctualPub(p)'
  BY <1>1, <1>3 DEF PunctualPub, UpToDate, Due
<1>4. ASSUME NEW q \in Pubs, PubStep(q) PROVE PunctualPub(p)'
  <2>1. UNCHANGED <<now, interval, stop, tick_count>>
    BY <1>4 DEF PubStep, Begin, Check, Wake, PublishOne, runVars, mainVars
  <2>2. CASE q # p
    <3>1. pc'[p] = pc[p] /\ sent'[p] = sent[p] /\ started'[p] = started[p]
      BY <1>1, <1>4, <2>2
         DEF PubStep, Begin, Check, Wake, PublishOne, ScheduleInv, PubTypes
    <3>2. QED
      BY <1>3, <2>1, <3>1
  <2>3. CASE q = p /\ Begin(p)
    <3>1. /\ pc'[p] = "check" /\ started'[p] = now /\ sent'[p] = sent[p]
          /\ interval' = interval /\ now' = now
      BY <1>1, <2>1, <2>3 DEF Begin, ScheduleInv, PubTypes
    <3>2. ASSUME NEW t \in Nat, t < now
          PROVE  t \div interval[p] - now \div interval[p] <= 0
      <4>1. t \div interval[p] \in Nat /\ (t \div interval[p]) * interval[p] <= t
        BY <1>2
      <4>2. (t \div interval[p]) * interval[p] <= now
        <5> DEFINE prod == (t \div interval[p]) * interval[p]
        <5>1. prod \in Nat
          BY <1>2, <4>1
        <5> HIDE DEF prod
        <5>2. prod <= t
          BY <4>1 DEF prod
        <5>3. prod <= now
          BY <1>2, <3>2, <5>1, <5>2
        <5>4. QED
          BY <5>3 DEF prod
      <4>3. t \div interval[p] <= now \div interval[p] /\ now \div interval[p] \in Nat
        BY <1>2, <4>1, <4>2, DivAtLeast, DivGrows
      <4>4. QED
        BY <4>1, <4>3
    <3>3. \A t \in Nat : t < now' => Due(p, t)' <= sent'[p]
      <4>1. ASSUME NEW t \in Nat, t < now
            PROVE  t \div interval[p] - now \div interval[p] <= sent[p]
        <5>1. t \div interval[p] \in Nat /\ now \div interval[p] \in Nat
          BY <1>2, DivGrows
        <5>2. QED
          BY <1>2, <3>2, <4>1, <5>1
      <4>2. QED
        BY <3>1, <4>1 DEF Due
    <3>4. QED
      BY <3>1, <3>3 DEF PunctualPub, UpToDate
  <2>4. CASE q = p /\ (Check(p) \/ Wake(p))
    <3>1. /\ pc[p] \in {"check", "sleep"} /\ pc'[p] # "start"
          /\ pc'[p] = "ended" => stop
          /\ sent' = sent /\ started' = started
      BY <1>1, <2>4 DEF Check, Wake, ScheduleInv, PubTypes
    <3>2. QED
      BY <1>1, <2>1, <3>1 DEF PunctualPub, UpToDate, Due
  <2>5. CASE q = p /\ PublishOne(p)
    <3>1. /\ pc[p] = "publish" /\ pc'[p] = "check" /\ sent'[p] = sent[p] + 1
          /\ started' = started
      BY <1>1, <2>5 DEF PublishOne, ScheduleInv, PubTypes
    <3>2. \A t \in Nat : t < now => Due(p, t) <= sent[p] + 1
      <4>1. ASSUME NEW t \in Nat, t < now PROVE Due(p, t) <= sent[p] + 1
        <5>1. Due(p, t) <= sent[p]
          BY <1>1, <3>1, <4>1 DEF PunctualPub, UpToDate
        <5>2. Due(p, t) \in Int
          BY <1>2, DivGrows DEF Due
        <5>3. QED
          BY <1>2, <5>1, <5>2
      <4>2. QED
        BY <4>1
    <3>3. QED
      BY <2>1, <3>1, <3>2 DEF PunctualPub, UpToDate, Due
  <2>6. QED
    BY <1>4, <2>2, <2>3, <2>4, <2>5 DEF PubStep
<1>5. CASE Tick
  <2>1. pc[p] # "start"
    <3>1. now >= NextTick
      BY <1>5 DEF Tick
    <3>2. QED
      BY <1>1, <3>1, NextTickBounds DEF PunctualPub
  <2>2. /\ UNCHANGED <<now, interval, pc, sent, started>>
        /\ ~stop
    BY <1>5 DEF Tick, runVars, pubVars
  <2>3. QED
    BY <1>1, <2>1, <2>2 DEF PunctualPub, UpToDate, Due
<1>6. CASE Sleep \/ WakeMain \/ Join
  <2>1. /\ UNCHANGED <<now, interval, pc, sent, started, tick_count>>
        /\ stop => stop'
    BY <1>6 DEF Sleep, WakeMain, Join, EndOfBody, runVars, pubVars
  <2>2. QED
    BY <1>1, <2>1 DEF PunctualPub, UpToDate, Due
<1>7. CASE Advance
  <2>1. /\ now' = now + 1 /\ NobodyDue
        /\ UNCHANGED <<interval, stop, tick_count, pc, sent, started>>
    BY <1>2, <1>7 DEF Advance, runVars, pubVars, mainVars
  <2>2. pc[p] = "ended" \/ (pc[p] = "sleep" /\ now < Deadline(p))
    BY <2>1 DEF NobodyDue, Asleep
  <2>3. CASE pc[p] = "ended"
    BY <1>1, <2>1, <2>3 DEF PunctualPub, UpToDate
  <2>4. CASE pc[p] = "sleep" /\ now < Deadline(p)
    <3>1. Due(p, now) <= sent[p]
      <4>1. now \div interval[p] <= msg_index[p]
        BY <1>2, <2>4, DivAtMost DEF Deadline
      <4>2. sent[p] = msg_index[p] - started[p] \div interval[p]
        BY <1>1, <2>4 DEF ScheduleInv, IndexKept
      <4>3. now \div interval[p] \in Nat /\ started[p] \div interval[p] \in Nat
        BY <1>2, DivGrows
      <4>4. QED
        BY <1>2, <4>1, <4>2, <4>3 DEF Due
    <3>2. ASSUME NEW t \in Nat, t < now + 1 PROVE Due(p, t) <= sent[p]
      <4>1. t = now \/ t < now
        BY <1>2, <3>2
      <4>2. QED
        BY <1>1, <2>4, <3>1, <4>1 DEF PunctualPub, UpToDate
    <3>3. QED
      BY <2>1, <2>4, <3>2 DEF PunctualPub, UpToDate, Due
  <2>5. QED
    BY <2>2, <2>3, <2>4
<1>8. CASE UNCHANGED vars
  BY <1>3, <1>8 DEF vars, runVars, pubVars, mainVars
<1>9. QED
  BY <1>4, <1>5, <1>6, <1>7, <1>8 DEF Next, MainStep

LEMMA NextPunctual == PunctualInv /\ [Next]_vars => PunctualInv'
<1> SUFFICES ASSUME PunctualInv, [Next]_vars PROVE PunctualInv'
  OBVIOUS
<1>1. LoopInv'
  BY NextLoop DEF PunctualInv
<1>2. late' = late
  BY DEF Next, PubStep, Begin, Check, Wake, PublishOne, MainStep, Tick, Sleep, WakeMain,
         Join, Advance, vars, runVars
<1>3. QED
  BY <1>1, <1>2, NextPunctualMain, NextPunctualPub DEF PunctualInv

LEMMA AlwaysPunctual == ASSUME StartsInTime PROVE Spec => []PunctualInv
<1>1. Init => PunctualInv
  BY InitPunctual
<1>2. QED
  BY <1>1, NextPunctual, PTL DEF Spec

\* The sleep a pub is in when main() leaves the loop is its last one: it began
\* less than an interval before it ends.
LastSleep(p) ==
  LoopLeft /\ duration > 0 /\ pc[p] = "sleep" =>
    Deadline(p) < duration + 2 * PollSlice + interval[p]

SleepsInv == PunctualInv /\ (late = 0 => \A p \in Pubs : LastSleep(p))

LEMMA NextLastSleep ==
  ASSUME SleepsInv, [Next]_vars, late = 0, NEW p \in Pubs
  PROVE  LastSleep(p)'
<1> USE DEF SleepsInv, PunctualInv
<1>1. PunctualMain /\ LastSleep(p) /\ LoopInv
  OBVIOUS
<1>2. /\ now \in Nat /\ interval[p] \in Nat \ {0} /\ msg_index[p] \in Nat
      /\ PollSlice \in Nat /\ duration \in Nat /\ wake_at \in Nat /\ read_now \in Nat
      /\ pc \in [Pubs -> {"start", "check", "sleep", "publish", "ended"}]
  BY <1>1, ConstantsAssumption DEF LoopInv, ScheduleInv, PubTypes, MainTypes
<1>3. ASSUME UNCHANGED <<main, duration, interval, msg_index>>, pc'[p] = pc[p]
      PROVE  LastSleep(p)'
  BY <1>1, <1>3 DEF LastSleep, LoopLeft, Deadline
<1>4. CASE Tick \/ WakeMain
  <2>1. UNCHANGED <<duration, interval, msg_index, pc>>
    BY <1>4 DEF Tick, WakeMain, runVars, pubVars
  <2>2. duration > 0 => now < duration + 2 * PollSlice
    BY <1>1, <1>2, <1>4 DEF Tick, WakeMain, PunctualMain
  <2>3. pc[p] = "sleep" => Deadline(p) <= now + interval[p]
    <3> SUFFICES ASSUME pc[p] = "sleep" PROVE Deadline(p) <= now + interval[p]
      OBVIOUS
    <3>1. msg_index[p] <= now \div interval[p]
      BY <1>1, <1>2, DivGrows DEF LoopInv, ScheduleInv, IndexKept
    <3>2. /\ (now \div interval[p]) * interval[p] <= now
          /\ (now \div interval[p]) \in Nat
      BY <1>2
    <3>3. msg_index[p] * interval[p] <= (now \div interval[p]) * interval[p]
      BY <1>2, <3>1, <3>2
    <3>4. Deadline(p) = msg_index[p] * interval[p] + interval[p]
      BY <1>2 DEF Deadline
    <3>5. /\ msg_index[p] * interval[p] \in Nat
          /\ (now \div interval[p]) * interval[p] \in Nat
      BY <1>2, <3>2
    <3>6. QED
      BY <1>2, <3>2, <3>3, <3>4, <3>5
  <2>4. Deadline(p) \in Nat
    BY <1>2 DEF Deadline
  <2>5. duration > 0 /\ pc[p] = "sleep" => Deadline(p) < duration + 2 * PollSlice + interval[p]
    BY <1>2, <2>2, <2>3, <2>4
  <2>6. QED
    BY <2>1, <2>5 DEF LastSleep, Deadline
<1>5. CASE Sleep
  BY <1>5 DEF Sleep, LastSleep, LoopLeft
<1>6. CASE Join \/ Advance \/ UNCHANGED vars
  BY <1>1, <1>6 DEF Join, Advance, vars, runVars, pubVars, mainVars, LastSleep, LoopLeft,
     Deadline
<1>7. ASSUME NEW q \in Pubs, PubStep(q) PROVE LastSleep(p)'
  <2>1. UNCHANGED <<main, duration, interval>>
    BY <1>7 DEF PubStep, Begin, Check, Wake, PublishOne, runVars, mainVars
  <2>2. CASE q # p
    BY <1>1, <1>2, <1>7, <2>1, <2>2
       DEF PubStep, Begin, Check, Wake, PublishOne, LastSleep, LoopLeft, Deadline, LoopInv,
           ScheduleInv, PubTypes
  <2>3. CASE q = p
    <3>1. pc'[p] = "sleep" => ~stop
      BY <1>2, <1>7, <2>3 DEF PubStep, Begin, Check, Wake, PublishOne
    <3>2. QED
      BY <1>1, <2>1, <3>1 DEF LastSleep, LoopLeft, PunctualMain
  <2>4. QED
    BY <2>2, <2>3
<1>8. QED
  BY <1>4, <1>5, <1>6, <1>7 DEF Next, MainStep

LEMMA NextSleeps == SleepsInv /\ [Next]_vars => SleepsInv'
<1> SUFFICES ASSUME SleepsInv, [Next]_vars PROVE SleepsInv'
  OBVIOUS
<1>1. PunctualInv'
  BY NextPunctual DEF SleepsInv
<1>2. late' = late
  BY DEF Next, PubStep, Begin, Check, Wake, PublishOne, MainStep, Tick, Sleep, WakeMain,
         Join, Advance, vars, runVars
<1>3. QED
  BY <1>1, <1>2, NextLastSleep DEF SleepsInv

\* A punctual run with -D whose threads were started before its end leaves the tick
\* loop within two polls after it (the test of duration_s uses the time before the
\* sleep), and is over within one more interval of its slowest pub, which main()
\* joins while it sleeps.
THEOREM RunEndsInTime == ASSUME StartsInTime PROVE Spec => []EndsInTime
<1>1. SleepsInv => EndsInTime
  <2> SUFFICES ASSUME SleepsInv, late = 0, duration > 0, NobodyDue,
                      now >= duration + 2 * PollSlice
               PROVE  /\ LoopLeft
                      /\ (\A p \in Pubs : now >= duration + 2 * PollSlice + interval[p])
                           => main = "over"
    BY DEF EndsInTime
  <2>1. PunctualMain /\ \A p \in Pubs : LastSleep(p)
    BY DEF SleepsInv, PunctualInv
  <2>2. /\ now \in Nat /\ wake_at \in Nat /\ read_now \in Nat /\ duration \in Nat
        /\ PollSlice \in Nat
        /\ interval \in [Pubs -> Nat \ {0}] /\ msg_index \in [Pubs -> Nat]
        /\ main \in {"loop", "sleep", "join", "over"}
    BY ConstantsAssumption
       DEF SleepsInv, PunctualInv, LoopInv, MainTypes, ScheduleInv, PubTypes
  <2>3. LoopLeft
    <3> SUFFICES ASSUME ~LoopLeft PROVE FALSE
      OBVIOUS
    <3>1. main = "sleep" /\ now < wake_at
      BY <2>2 DEF NobodyDue, MainAsleep, LoopLeft
    <3>2. wake_at <= read_now + PollSlice /\ read_now < duration + PollSlice
      BY <2>1, <2>2, <3>1 DEF PunctualMain
    <3>3. QED
      BY <2>2, <3>1, <3>2
  <2>4. ASSUME \A p \in Pubs : now >= duration + 2 * PollSlice + interval[p], main # "over"
        PROVE  FALSE
    <3>1. PICK p \in Pubs : pc[p] # "ended"
      BY <2>3, <2>4 DEF NobodyDue, MainAsleep, LoopLeft
    <3>2. pc[p] = "sleep" /\ now < Deadline(p)
      BY <3>1 DEF NobodyDue, Asleep
    <3>3. Deadline(p) < duration + 2 * PollSlice + interval[p]
      BY <2>1, <2>3, <3>2 DEF LastSleep
    <3>4. Deadline(p) \in Nat /\ interval[p] \in Nat
      BY <2>2 DEF Deadline
    <3>5. now >= duration + 2 * PollSlice + interval[p]
      BY <2>4
    <3> HIDE DEF NobodyDue
    <3>6. QED
      BY <2>2, <3>2, <3>3, <3>4, <3>5
  <2>5. QED
    BY <2>3, <2>4
<1>2. Init => SleepsInv
  <2>1. Init => PunctualInv
    BY InitPunctual
  <2>2. Init => \A p \in Pubs : LastSleep(p)
    BY DEF Init, LastSleep, LoopLeft
  <2>3. QED
    BY <2>1, <2>2 DEF SleepsInv
<1>3. SleepsInv /\ [Next]_vars => SleepsInv'
  BY NextSleeps
<1>4. QED
  BY <1>1, <1>2, <1>3, PTL DEF Spec

----------------------------------------------------------------------------
(* The lines of a punctual run (LinesExact). main() ticks on the very unit *)
(* it slept for, one slack after the end of a second: late enough for the  *)
(* sample due at the end of it to be out, and not so late that, at one     *)
(* rate, the next one is due. Where two units make an interval at least.   *)

CoarseRates == \A s \in Schedules : \A p \in Pubs : s[p] > 1

LineExact(p) ==
  tick_count > 0 =>
    LET due == Due(p, tick_count * Second) IN
    /\ last_sent[p] >= due
    /\ (\A q \in Pubs : interval[q] = interval[p]) /\ Second % interval[p] = 0
         => last_sent[p] = due

LinesInv == PunctualInv /\ (late = 0 => \A p \in Pubs : LineExact(p))

Multiple(t, i) == \E w \in Nat : t = w * i

LEMMA SecondsAreMultiples ==
  ASSUME NEW i \in Nat \ {0}, NEW n \in Nat, NEW k \in Nat, n % i = 0
  PROVE  Multiple(k * n, i)
<1> DEFINE m == n \div i
<1>1. m \in Nat /\ n = m * i
  BY DivGrows
<1> HIDE DEF m
<1>2. k * m \in Nat /\ k * n = (k * m) * i
  BY <1>1
<1>3. QED
  BY <1>2 DEF Multiple

\* Less than an interval after a moment at which a sample is due, no other is.
LEMMA NoneInBetween ==
  ASSUME NEW i \in Nat \ {0}, NEW t \in Nat, NEW slack \in Nat,
         Multiple(t, i), slack < i
  PROVE  (t + slack) \div i = t \div i
<1>1. PICK w \in Nat : t = w * i
  BY DEF Multiple
<1>2. (w + 1) * i = w * i + i /\ w * i \in Nat /\ t + slack \in Nat
  BY <1>1
<1>3. w * i <= t /\ t < (w + 1) * i /\ w * i <= t + slack /\ t + slack < (w + 1) * i
  BY <1>1, <1>2
<1>4. t \div i = w
  <2>1. t \div i <= w /\ w <= t \div i /\ t \div i \in Nat
    BY <1>3, DivAtLeast, DivAtMost, DivGrows
  <2>2. QED
    BY <2>1
<1>5. (t + slack) \div i = w
  <2>1. (t + slack) \div i <= w /\ w <= (t + slack) \div i /\ (t + slack) \div i \in Nat
    BY <1>2, <1>3, DivAtLeast, DivAtMost, DivGrows
  <2>2. QED
    BY <2>1
<1>6. QED
  BY <1>4, <1>5

\* With one rate, the slack is shorter than the interval.
LEMMA SlackWithinInterval ==
  ASSUME interval \in [Pubs -> Nat \ {0}], NEW p \in Pubs, interval[p] > 1,
         \A q \in Pubs : interval[q] = interval[p]
  PROVE  Slack < interval[p]
<1>1. Slack \in Nat /\ (Slack = 1 \/ Slack <= interval[p] \div 2)
  BY SlackBounds
<1>2. interval[p] \in Nat /\ interval[p] \div 2 \in Nat /\ interval[p] \div 2 < interval[p]
  OBVIOUS
<1>3. QED
  BY <1>1, <1>2

LEMMA TickLines ==
  ASSUME CoarseRates, LinesInv, [Next]_vars, late = 0, Tick, NEW p \in Pubs
  PROVE  LineExact(p)'
<1> USE DEF LinesInv, PunctualInv
<1>1. PunctualMain /\ PunctualPub(p) /\ LoopInv /\ ScheduleInv
  BY DEF LoopInv
<1>2. /\ main = "loop" /\ ~stop /\ now >= NextTick
      /\ tick_count' = tick_count + 1 /\ last_sent' = sent
      /\ UNCHANGED <<now, interval, started>>
  BY DEF Tick, runVars, pubVars
<1>3. /\ now \in Nat /\ interval[p] \in Nat \ {0} /\ sent[p] \in Nat
      /\ started[p] \in Nat /\ msg_index[p] \in Nat /\ interval[p] > 1
      /\ interval \in [Pubs -> Nat \ {0}]
      /\ pc[p] \in {"start", "check", "sleep", "publish", "ended"}
  <2>1. interval \in Schedules
    BY <1>1 DEF LoopInv, MainTypes
  <2>2. interval[p] > 1
    BY <2>1 DEF CoarseRates
  <2>3. QED
    BY <1>1, <2>2 DEF ScheduleInv, PubTypes
<1> DEFINE end == (tick_count + 1) * Second
<1>4. end \in Nat /\ Slack \in Nat /\ Slack >= 1 /\ now = end + Slack /\ end < now
  <2>1. now = NextTick /\ NextTick = tick_count * Second + Second + Slack
    BY <1>1, <1>2, NextTickBounds DEF PunctualMain
  <2>2. end = tick_count * Second + Second
    BY <1>1, NextTickBounds
  <2>3. QED
    BY <1>1, <2>1, <2>2, NextTickBounds
<1> HIDE DEF end
<1>5. pc[p] \notin {"start", "ended"}
  <2>1. pc[p] # "start"
    BY <1>1, <1>2, NextTickBounds DEF PunctualPub
  <2>2. QED
    BY <1>1, <1>2, <2>1 DEF PunctualPub
<1>6. Due(p, end) <= sent[p]
  BY <1>1, <1>4, <1>5 DEF PunctualPub, UpToDate
<1>7. ASSUME \A q \in Pubs : interval[q] = interval[p], Second % interval[p] = 0
      PROVE  sent[p] = Due(p, end)
  <2>1. Slack < interval[p]
    BY <1>3, <1>7, SlackWithinInterval
  <2>2. now \div interval[p] = end \div interval[p]
    <3>1. tick_count + 1 \in Nat /\ Second \in Nat
      BY <1>1, NextTickBounds
    <3>2. end = (tick_count + 1) * Second
      BY DEF end
    <3>3. (end + Slack) \div interval[p] = end \div interval[p]
      <4>1. Multiple(end, interval[p])
        BY <1>3, <1>7, <3>1, <3>2, SecondsAreMultiples
      <4>2. QED
        BY <1>3, <1>4, <2>1, <4>1, NoneInBetween
    <3>4. QED
      BY <1>4, <3>3
  <2>3. sent[p] <= Due(p, now)
    <3>1. /\ sent[p] = msg_index[p] - started[p] \div interval[p]
          /\ msg_index[p] <= now \div interval[p]
      BY <1>1, <1>3, <1>5, DivGrows DEF ScheduleInv, IndexKept
    <3>2. now \div interval[p] \in Nat /\ started[p] \div interval[p] \in Nat
      BY <1>3, DivGrows
    <3>3. QED
      BY <1>3, <3>1, <3>2 DEF Due
  <2>4. Due(p, now) = Due(p, end) /\ Due(p, end) \in Int
    BY <1>3, <1>4, <2>2, DivGrows DEF Due
  <2>5. QED
    BY <1>3, <1>6, <2>3, <2>4
<1>8. /\ tick_count' * Second = end /\ last_sent'[p] = sent[p] /\ interval' = interval
  BY <1>2 DEF end
<1>9. Due(p, tick_count * Second)' = Due(p, end)
  BY <1>2, <1>8 DEF Due
<1>10. Due(p, end) \in Int
  BY <1>3, <1>4, DivGrows DEF Due
<1>11. QED
  BY <1>3, <1>6, <1>7, <1>8, <1>9, <1>10 DEF LineExact

LEMMA NextLines == CoarseRates /\ LinesInv /\ [Next]_vars => LinesInv'
<1> SUFFICES ASSUME CoarseRates, LinesInv, [Next]_vars PROVE LinesInv'
  OBVIOUS
<1>1. PunctualInv'
  BY NextPunctual DEF LinesInv
<1>2. late' = late
  BY DEF Next, PubStep, Begin, Check, Wake, PublishOne, MainStep, Tick, Sleep, WakeMain,
         Join, Advance, vars, runVars
<1>3. ASSUME late = 0, NEW p \in Pubs PROVE LineExact(p)'
  <2>1. CASE Tick
    BY <1>3, <2>1, TickLines
  <2>2. ASSUME UNCHANGED <<tick_count, last_sent, interval>>,
               tick_count = 0 \/ started'[p] = started[p]
        PROVE  LineExact(p)'
    BY <1>3, <2>2 DEF LinesInv, LineExact, Due
  <2>3. ASSUME NEW q \in Pubs, PubStep(q) PROVE LineExact(p)'
    <3>1. UNCHANGED <<tick_count, last_sent, interval>>
      BY <2>3 DEF PubStep, Begin, Check, Wake, PublishOne, runVars, mainVars
    <3>2. CASE Begin(q) /\ q = p
      <4>1. tick_count = 0
        BY <1>3, <3>2 DEF Begin, LinesInv, PunctualInv, PunctualPub
      <4>2. QED
        BY <2>2, <3>1, <4>1
    <3>3. CASE ~(Begin(q) /\ q = p)
      <4>1. started'[p] = started[p]
        BY <2>3, <3>3 DEF PubStep, Begin, Check, Wake, PublishOne, LinesInv, PunctualInv,
                          LoopInv, ScheduleInv, PubTypes
      <4>2. QED
        BY <2>2, <3>1, <4>1
    <3>4. QED
      BY <3>2, <3>3
  <2>4. CASE Sleep \/ WakeMain \/ Join \/ Advance \/ UNCHANGED vars
    <3>1. UNCHANGED <<tick_count, last_sent, interval, started>>
      BY <2>4 DEF Sleep, WakeMain, Join, Advance, runVars, pubVars, mainVars, vars
    <3>2. QED
      BY <2>2, <3>1
  <2>5. QED
    BY <2>1, <2>3, <2>4 DEF Next, MainStep
<1>4. QED
  BY <1>1, <1>2, <1>3 DEF LinesInv

\* The line of a second of a punctual run holds every sample due in it, and with
\* one rate that divides the second it holds no other (pub_tick_slack).
THEOREM LinesAreExact ==
  ASSUME StartsInTime, CoarseRates PROVE Spec => []LinesExact
<1>1. Init => LinesInv
  <2>1. Init => PunctualInv
    BY InitPunctual
  <2>2. Init => \A p \in Pubs : LineExact(p)
    BY DEF Init, LineExact
  <2>3. QED
    BY <2>1, <2>2 DEF LinesInv
<1>2. LinesInv /\ [Next]_vars => LinesInv'
  BY NextLines
<1>3. LinesInv => LinesExact
  BY DEF LinesInv, LineExact, LinesExact
<1>4. QED
  BY <1>1, <1>2, <1>3, PTL DEF Spec
=============================================================================
