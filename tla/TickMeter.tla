----------------------------- MODULE TickMeter -----------------------------
(***************************************************************************)
(* What every mode of ros2_perf promises about its once-a-second line.     *)
(*                                                                         *)
(* A set of counters grows while the program runs. Now and then a tick     *)
(* shows some of them, and what a line prints for a counter is the amount  *)
(* it grew by since the last line that showed it. Whatever the code does   *)
(* to compute that amount (windows reset under a mutex in sub, differences *)
(* of atomics in ping, pub and pong), adding up the lines must give the    *)
(* counter: nothing is printed twice, nothing is skipped, nothing is       *)
(* printed before it happened.                                             *)
(***************************************************************************)
EXTENDS Naturals

CONSTANT Counters    \* the counters the lines are about

VARIABLES
  total,   \* the value of each counter
  shown    \* the sum of the amounts printed for each counter so far

Init ==
  /\ total = [c \in Counters |-> 0]
  /\ shown = [c \in Counters |-> 0]

\* Something is counted: counters only grow, and no line is printed.
Count ==
  /\ total' \in [Counters -> Nat]
  /\ \A c \in Counters : total'[c] >= total[c]
  /\ UNCHANGED shown

\* A tick brings the counters it shows up to date, and leaves the others.
Report ==
  /\ \E due \in SUBSET Counters :
       shown' = [c \in Counters |-> IF c \in due THEN total[c] ELSE shown[c]]
  /\ UNCHANGED total

Next == Count \/ Report

Spec == Init /\ [][Next]_<<total, shown>>
============================================================================
