----------------------------- MODULE MCPingPong -----------------------------
(* Small instances of PingPong for TLC.                                    *)
EXTENDS PingPong

BothDrivers == {"rate", "reply"}
ReplyDriven == {"reply"}

\* What matters to one responder: no faults at all, loss with and without
\* overtaking, late discovery, samples that arrive again and again, and the pongs
\* of another ping process, one of which is ahead of ours for a while.
AllNetworks == {{}, {"lose"}, {"lose", "reorder"}, {"late"}, {"duplicate"}, {"foreign"}}
OneStranger == {1}

\* Three pings, but for the networks that repeat samples or add some, for overtaking,
\* which takes two, and for late discovery, which is about the first ones.
ThreeOrTwo ==
  [n \in AllNetworks |-> IF {"reorder", "late", "duplicate", "foreign"} \cap n = {} THEN 3 ELSE 2]

FairNetwork == {{}}
LateNetwork == {{"late"}}
TwoFair == [n \in FairNetwork |-> 2]
TwoLate == [n \in LateNetwork |-> 2]
=============================================================================
