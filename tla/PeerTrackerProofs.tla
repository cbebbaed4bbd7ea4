------------------------- MODULE PeerTrackerProofs -------------------------
(***************************************************************************)
(* Theorems about PeerTracker, for any endpoints, any number of executor   *)
(* threads and any number of changes.                                      *)
(***************************************************************************)
EXTENDS PeerTracker, TLAPS

----------------------------------------------------------------------------
(* The inductive invariant.                                                *)

\* TypeOK but for the bound on what the lines count, which follows at the end.
Types ==
  /\ way \in Ways
  /\ graph \in SUBSET Endpoints
  /\ event \in BOOLEAN
  /\ pc \in [Threads -> {"idle", "called", "read"}]
  /\ current \in [Threads -> SUBSET Endpoints]
  /\ known \in SUBSET Endpoints
  /\ appeared \in [Endpoints -> 0 .. MaxChanges]
  /\ {matched, gone} \subseteq [Endpoints -> Nat]
  /\ phase \in {"up", "stopping", "stopped"}

\* At most one thread is ever inside sync_from_graph, and none after the flush.
OneSyncs ==
  /\ \A t, u \in Threads : pc[t] # "idle" /\ pc[u] # "idle" => t = u
  /\ way = "listener" => pc["main"] = "idle"
  /\ way = "waitset" => \A t \in Spinners : pc[t] = "idle"
  /\ phase = "stopped" => known = {} /\ \A t \in Threads : pc[t] = "idle"

Paired == \A e \in Endpoints : matched[e] = gone[e] + (IF e \in known THEN 1 ELSE 0)

\* Whatever a sync may still report as matched has come up once more than it
\* was reported: what the graph shows beyond known_, what a thread has read
\* beyond known_, and what came up since that thread read.
Behind(e) == matched[e] < appeared[e]

Honest ==
  /\ \A e \in Endpoints : matched[e] <= appeared[e]
  /\ phase # "stopped" => \A e \in graph \ known : Behind(e)
  /\ \A t \in Threads : pc[t] = "read" =>
       \A e \in (current[t] \ known) \cup (graph \ current[t]) : Behind(e)

\* A listener that has no event to take has read the graph as it is.
Fresh ==
  way = "listener" /\ phase # "stopped" /\ ~event =>
    /\ \A t \in Threads : pc[t] = "read" => current[t] = graph
    /\ (\A t \in Threads : pc[t] = "idle") => known = graph

PeersInv == Types /\ OneSyncs /\ Paired /\ Honest /\ Fresh

LEMMA InitPeers == Init => PeersInv
<1> SUFFICES ASSUME Init PROVE PeersInv
  OBVIOUS
<1>1. MaxChanges \in Nat /\ 0 \in 0 .. MaxChanges
  BY ConstantsAssumption
<1>2. Types
  <2>1. /\ appeared \in [Endpoints -> 0 .. MaxChanges]
        /\ {matched, gone} \subseteq [Endpoints -> Nat]
    BY <1>1 DEF Init
  <2>2. /\ pc \in [Threads -> {"idle", "called", "read"}]
        /\ current \in [Threads -> SUBSET Endpoints]
    BY DEF Init
  <2>3. way \in Ways /\ graph \in SUBSET Endpoints /\ event \in BOOLEAN
    BY DEF Init
  <2>4. QED
    BY <2>1, <2>2, <2>3 DEF Init, Types
<1>3. OneSyncs /\ Paired /\ Honest /\ Fresh
  BY DEF Init, OneSyncs, Paired, Honest, Behind, Fresh, Threads
<1>4. QED
  BY <1>2, <1>3 DEF PeersInv

----------------------------------------------------------------------------
(* The steps.                                                              *)

LEMMA AppearPeers ==
  ASSUME PeersInv, NEW x \in Endpoints, Appear(x)
  PROVE  PeersInv'
<1> USE DEF PeersInv, Appear, lineVars
<1>1. /\ appeared' \in [Endpoints -> 0 .. MaxChanges]
      /\ appeared'[x] = appeared[x] + 1
      /\ \A e \in Endpoints : e # x => appeared'[e] = appeared[e]
      /\ \A e \in Endpoints : appeared[e] \in Nat /\ matched[e] \in Nat
  <2>1. MaxChanges \in Nat /\ appeared[x] \in 0 .. MaxChanges /\ appeared[x] + 1 \in 0 .. MaxChanges
    BY ConstantsAssumption DEF Types
  <2>2. QED
    BY <2>1 DEF Types
<1>2. Types'
  BY <1>1 DEF Types
<1>3. OneSyncs' /\ Paired' /\ Fresh'
  BY DEF OneSyncs, Paired, Fresh
<1>4. Honest'
  BY <1>1 DEF Honest, Behind
<1>5. QED
  BY <1>2, <1>3, <1>4

LEMMA VanishPeers ==
  ASSUME PeersInv, NEW x \in Endpoints, Vanish(x)
  PROVE  PeersInv'
<1> USE DEF PeersInv, Vanish, lineVars
<1>1. Types'
  BY DEF Types
<1>2. OneSyncs' /\ Paired' /\ Fresh'
  BY DEF OneSyncs, Paired, Fresh
<1>3. Honest'
  BY DEF Honest, Behind
<1>4. QED
  BY <1>1, <1>2, <1>3

\* A thread enters sync_from_graph only when no other one is in it.
LEMMA EnterPeers ==
  ASSUME PeersInv, NEW t \in Threads, MatchedCallback(t) \/ (PollingTick /\ t = "main")
  PROVE  PeersInv'
<1> USE DEF PeersInv, graphVars, lineVars
<1>1. /\ \A u \in Threads : pc[u] = "idle"
      /\ pc' = [pc EXCEPT ![t] = "called"]
      /\ phase # "stopped"
      /\ way = "listener" => t # "main"
      /\ way = "waitset" => t \notin Spinners
      /\ UNCHANGED <<way, graph, appeared, current, known, matched, gone, phase>>
  BY ConstantsAssumption DEF MatchedCallback, PollingTick, GroupFree, OneSyncs, Threads
<1>2. event' \in BOOLEAN /\ (way = "waitset" => event' = event)
  BY DEF MatchedCallback, PollingTick, Types
<1>3. Types'
  BY <1>1, <1>2 DEF Types
<1>4. OneSyncs'
  BY <1>1 DEF OneSyncs, Types, Threads
<1>5. Paired' /\ Honest'
  BY <1>1 DEF Paired, Honest, Behind, Types
<1>6. Fresh'
  BY <1>1 DEF Fresh, Types
<1>7. QED
  BY <1>3, <1>4, <1>5, <1>6

LEMMA ReadGraphPeers ==
  ASSUME PeersInv, NEW t \in Threads, ReadGraph(t)
  PROVE  PeersInv'
<1> USE DEF PeersInv, ReadGraph, graphVars, lineVars
<1>1. /\ pc'[t] = "read" /\ \A u \in Threads : u # t => pc'[u] = "idle"
      /\ \A u \in Threads : u # t => pc[u] = "idle"
      /\ current'[t] = graph
      /\ phase # "stopped"
  BY DEF OneSyncs, Types
<1>2. Types'
  BY DEF Types
<1>3. OneSyncs'
  BY <1>1 DEF OneSyncs, Types, Threads
<1>4. Paired' /\ Honest'
  BY <1>1 DEF Paired, Honest, Behind
<1>5. Fresh'
  BY <1>1 DEF Fresh
<1>6. QED
  BY <1>2, <1>3, <1>4, <1>5

LEMMA SyncUnderLockPeers ==
  ASSUME PeersInv, NEW t \in Threads, SyncUnderLock(t)
  PROVE  PeersInv'
<1> USE DEF PeersInv, SyncUnderLock, graphVars
<1> DEFINE cur == current[t]
<1>1. /\ \A u \in Threads : pc'[u] = "idle"
      /\ phase # "stopped" /\ pc[t] = "read" /\ cur \in SUBSET Endpoints
  BY DEF OneSyncs, Types
<1>2. /\ known' = cur
      /\ \A e \in Endpoints : /\ matched'[e] = matched[e] + (IF e \in cur \ known THEN 1 ELSE 0)
                              /\ gone'[e] = gone[e] + (IF e \in known \ cur THEN 1 ELSE 0)
      /\ {matched', gone'} \subseteq [Endpoints -> Nat]
  <2>1. \A e \in Endpoints : matched[e] \in Nat /\ gone[e] \in Nat
    BY DEF Types
  <2>2. QED
    BY <2>1 DEF Apply, Report
<1>3. \A e \in Endpoints : matched[e] \in Nat /\ gone[e] \in Nat /\ appeared[e] \in Nat
  BY ConstantsAssumption DEF Types
<1> HIDE DEF cur
<1>4. Types'
  <2>1. /\ pc' \in [Threads -> {"idle", "called", "read"}]
        /\ current' \in [Threads -> SUBSET Endpoints]
    BY DEF Types
  <2>2. QED
    BY <1>1, <1>2, <2>1 DEF Types
<1>5. OneSyncs'
  BY <1>1 DEF OneSyncs, Threads
<1>6. Paired'
  BY <1>2, <1>3 DEF Paired
<1>7. Honest'
  <2>1. \A e \in (cur \ known) \cup (graph \ cur) : Behind(e)
    BY <1>1 DEF Honest, cur
  <2>2. graph \in SUBSET Endpoints
    BY DEF Types
  <2>3. \A e \in Endpoints : matched'[e] <= appeared'[e]
    BY <1>1, <1>2, <1>3, <2>1 DEF Honest, Behind
  <2>4. \A e \in graph' \ known' : Behind(e)'
    BY <1>2, <1>3, <2>1, <2>2 DEF Behind
  <2>5. QED
    BY <1>1, <2>3, <2>4 DEF Honest
<1>8. Fresh'
  BY <1>1, <1>2 DEF Fresh, cur
<1>9. QED
  BY <1>4, <1>5, <1>6, <1>7, <1>8

\* The flush closes every line, and nobody is left to open one.
LEMMA FlushGonePeers ==
  ASSUME PeersInv, FlushGone
  PROVE  PeersInv'
<1> USE DEF PeersInv, FlushGone, graphVars
<1>1. \A e \in Endpoints : matched[e] \in Nat /\ gone[e] \in Nat
  BY DEF Types
<1>2. /\ \A e \in Endpoints : gone'[e] = gone[e] + (IF e \in known THEN 1 ELSE 0)
      /\ gone' \in [Endpoints -> Nat]
  BY <1>1 DEF Report
<1>3. Types'
  BY <1>2 DEF Types
<1>4. OneSyncs' /\ Honest' /\ Fresh'
  BY DEF OneSyncs, Joined, Honest, Behind, Fresh
<1>5. Paired'
  BY <1>1, <1>2 DEF Paired
<1>6. QED
  BY <1>3, <1>4, <1>5

LEMMA NextPeers == PeersInv /\ [Next]_vars => PeersInv'
<1> SUFFICES ASSUME PeersInv, [Next]_vars PROVE PeersInv'
  OBVIOUS
<1>1. CASE \E e \in Endpoints : Appear(e) \/ Vanish(e)
  BY <1>1, AppearPeers, VanishPeers
<1>2. CASE \E t \in Threads : Sync(t)
  BY <1>2, EnterPeers, ReadGraphPeers, SyncUnderLockPeers DEF Sync
<1>3. CASE PollingTick
  BY <1>3, EnterPeers DEF Threads
<1>4. CASE FlushGone
  BY <1>4, FlushGonePeers
<1>5. CASE Stop \/ UNCHANGED vars
  BY <1>5 DEF Stop, vars, graphVars, lineVars, PeersInv, Types, OneSyncs, Paired, Honest,
     Behind, Fresh
<1>6. QED
  BY <1>1, <1>2, <1>3, <1>4, <1>5 DEF Next

\* What the listeners know and have reported stays true of the graph they read.
THEOREM PeersHold == Spec => []PeersInv
  BY InitPeers, NextPeers, PTL DEF Spec

----------------------------------------------------------------------------
(* What follows.                                                           *)

\* The tracker's state keeps its types, and no endpoint has more lines than the
\* times it came up (PeerTracker).
THEOREM TypeCorrect == Spec => []TypeOK
<1>1. PeersInv => TypeOK
  <2> SUFFICES ASSUME PeersInv PROVE TypeOK
    OBVIOUS
  <2> USE DEF PeersInv
  <2>1. \A e \in Endpoints : matched[e] \in 0 .. MaxChanges /\ gone[e] \in 0 .. MaxChanges
    BY ConstantsAssumption DEF Types, Paired, Honest
  <2>2. {matched, gone} \subseteq [Endpoints -> 0 .. MaxChanges]
    BY <2>1 DEF Types
  <2>3. QED
    BY <2>2 DEF Types, TypeOK
<1>2. QED
  BY <1>1, PeersHold, PTL

\* Matched and gone lines pair up, and flush_gone closes all of them.
THEOREM PeersPaired == Spec => []LinesPaired
<1>1. PeersInv => LinesPaired
  BY DEF PeersInv, Types, OneSyncs, Paired, LinesPaired
<1>2. QED
  BY <1>1, PeersHold, PTL

\* The view read outside the lock never makes a line up, as long as callbacks
\* of a node exclude each other (PeerTracker::sync_from_graph).
THEOREM NoLineMadeUp == Spec => []NoFalseMatch
<1>1. PeersInv => NoFalseMatch
  BY DEF PeersInv, Honest, NoFalseMatch
<1>2. QED
  BY <1>1, PeersHold, PTL

\* A listener without an event to take knows what the graph shows.
THEOREM NothingMissed == Spec => []NoLostEvent
<1>1. PeersInv => NoLostEvent
  BY DEF PeersInv, Fresh, NoLostEvent
<1>2. QED
  BY <1>1, PeersHold, PTL
=============================================================================
