---------------------------- MODULE PeerTracker ----------------------------
(***************************************************************************)
(* A PeerTracker: which endpoints of the topic its mode has reported as    *)
(* matched and not yet as gone.                                            *)
(*                                                                         *)
(* It compares the graph with what it knows, when the middleware tells it  *)
(* that something changed (a listener: on a thread of the executor) or on  *)
(* every tick (a waitset: on the main thread). The tracker of a pub is     *)
(* made, ticked and flushed like the others, but its tick does not poll    *)
(* and no executor serves its node: nothing ever compares. A tracker reads *)
(* the graph before it takes its lock and applies what it read after. The  *)
(* graph and the matched event are external: an event is raised by a       *)
(* change that the graph shows already, and raised once however many       *)
(* changes there were.                                                     *)
(***************************************************************************)
EXTENDS Integers, FiniteSets

CONSTANTS
  Endpoints,  \* the endpoints of other processes, by GID
  Spinners,   \* the threads of the executor
  Ways,       \* how a run's mode learns of changes: "listener", "waitset", or,
              \* a pub, not at all: "none"
  MaxChanges  \* bound: how often each endpoint appears

ASSUME ConstantsAssumption ==
  /\ Ways \subseteq {"listener", "waitset", "none"}
  /\ "main" \notin Spinners
  /\ MaxChanges \in Nat

Threads == Spinners \cup {"main"}

VARIABLES
  way,          \* how this run's mode learns of changes
  graph,        \* external: the endpoints on the topic
  event,        \* external: the matched event waits to be taken
  appeared,     \* history: how often each endpoint came up
  pc,           \* where each thread is
  current,      \* what each thread has read of the graph
  known,        \* known_
  matched,      \* history: the lines that said matched, by endpoint
  gone,         \* history: the lines that said gone
  phase         \* "up", "stopping" (g_stop is set), "stopped" (stop is over)

graphVars == <<graph, event, appeared>>
lineVars  == <<known, matched, gone>>
vars == <<way, graphVars, pc, current, lineVars, phase>>

TypeOK ==
  /\ way \in Ways
  /\ graph \in SUBSET Endpoints
  /\ event \in BOOLEAN
  /\ pc \in [Threads -> {"idle", "called", "read"}]
  /\ current \in [Threads -> SUBSET Endpoints]
  /\ known \in SUBSET Endpoints
  /\ {appeared, matched, gone} \subseteq [Endpoints -> 0 .. MaxChanges]
  /\ phase \in {"up", "stopping", "stopped"}

Init ==
  /\ way \in Ways
  /\ graph = {}
  /\ event = FALSE
  /\ appeared = [e \in Endpoints |-> 0]
  /\ pc = [t \in Threads |-> "idle"]
  /\ current = [t \in Threads |-> {}]
  /\ known = {}
  /\ matched = [e \in Endpoints |-> 0]
  /\ gone = [e \in Endpoints |-> 0]
  /\ phase = "up"

----------------------------------------------------------------------------
(* The graph.                                                              *)

Appear(e) ==
  /\ e \notin graph
  /\ appeared[e] < MaxChanges
  /\ graph' = graph \cup {e}
  /\ appeared' = [appeared EXCEPT ![e] = @ + 1]
  /\ event' = TRUE
  /\ UNCHANGED <<way, pc, current, lineVars, phase>>

Vanish(e) ==
  /\ e \in graph
  /\ graph' = graph \ {e}
  /\ event' = TRUE
  /\ UNCHANGED <<way, appeared, pc, current, lineVars, phase>>

----------------------------------------------------------------------------
(* Who calls sync_from_graph, and when.                                    *)

\* Mutation: the callbacks of a node may run side by side.
Reentrant == TRUE

\* The callbacks of a node are in one mutually exclusive group.
GroupFree == \A t \in Spinners : pc[t] = "idle"

\* The executor takes the matched event and calls back.
MatchedCallback(t) ==
  /\ way = "listener"
  /\ phase # "stopped"
  /\ t \in Spinners
  /\ pc[t] = "idle"
  /\ GroupFree
  /\ event
  /\ event' = FALSE
  /\ pc' = [pc EXCEPT ![t] = "called"]
  /\ UNCHANGED <<way, graph, appeared, current, lineVars, phase>>

\* PeerTracker::tick with poll_graph_in_tick.
PollingTick ==
  /\ way = "waitset"
  /\ phase = "up"
  /\ pc["main"] = "idle"
  /\ pc' = [pc EXCEPT !["main"] = "called"]
  /\ UNCHANGED <<way, graphVars, current, lineVars, phase>>

----------------------------------------------------------------------------
(* PeerTracker::sync_from_graph and PeerTracker::flush_gone.               *)

ReadGraph(t) ==
  /\ pc[t] = "called"
  /\ current' = [current EXCEPT ![t] = graph]
  /\ pc' = [pc EXCEPT ![t] = "read"]
  /\ UNCHANGED <<way, graphVars, lineVars, phase>>

\* One line for each endpoint of a set.
Report(lines, es) == [e \in Endpoints |-> IF e \in es THEN lines[e] + 1 ELSE lines[e]]

\* Mutation: endpoints that are not in the graph any more are kept.
ApplyKeepsGone(cur) ==
  /\ known' = known \cup cur
  /\ matched' = Report(matched, cur \ known)
  /\ UNCHANGED gone

\* Mutation: an endpoint is reported each time the graph shows it.
ApplyRepeats(cur) ==
  /\ known' = cur
  /\ matched' = Report(matched, cur)
  /\ gone' = Report(gone, known \ cur)

Apply(cur) ==
  /\ known' = cur
  /\ matched' = Report(matched, cur \ known)
  /\ gone' = Report(gone, known \ cur)

SyncUnderLock(t) ==
  /\ pc[t] = "read"
  /\ Apply(current[t])
  /\ current' = [current EXCEPT ![t] = {}]
  /\ pc' = [pc EXCEPT ![t] = "idle"]
  /\ UNCHANGED <<way, graphVars, phase>>

\* SIGINT or the end of -D.
Stop ==
  /\ phase = "up"
  /\ phase' = "stopping"
  /\ UNCHANGED <<way, graphVars, pc, current, lineVars>>

\* Mutation: the peers are flushed while a callback may be under way.
NotJoined == pc["main"] = "idle"

\* The executor has been cancelled and joined: no callback is under way.
Joined == \A t \in Threads : pc[t] = "idle"

FlushGone ==
  /\ phase = "stopping"
  /\ Joined
  /\ gone' = Report(gone, known)
  /\ known' = {}
  /\ phase' = "stopped"
  /\ UNCHANGED <<way, graphVars, pc, current, matched>>

----------------------------------------------------------------------------

Sync(t) == MatchedCallback(t) \/ ReadGraph(t) \/ SyncUnderLock(t)

Next ==
  \/ \E e \in Endpoints : Appear(e) \/ Vanish(e)
  \/ \E t \in Threads : Sync(t)
  \/ PollingTick
  \/ Stop
  \/ FlushGone

\* The executor serves its events, ticks go on, and a thread goes on.
Fairness ==
  /\ WF_vars(\E t \in Threads : Sync(t))
  /\ WF_vars(PollingTick)

Spec == Init /\ [][Next]_vars /\ Fairness

----------------------------------------------------------------------------
(* Properties.                                                             *)

\* Every gone line closes a matched line of the same endpoint, and once the
\* mode is stopped every matched line has been closed (flush_gone).
LinesPaired ==
  /\ \A e \in Endpoints : matched[e] = gone[e] + (IF e \in known THEN 1 ELSE 0)
  /\ phase = "stopped" => matched = gone

\* No endpoint is reported as matched more often than it came up: a view that
\* was read earlier is never applied over a later one.
NoFalseMatch == \A e \in Endpoints : matched[e] <= appeared[e]

\* No wake-up is lost: a listener that has no event to take and no callback
\* under way knows exactly what the graph shows.
NoLostEvent ==
  way = "listener" /\ phase # "stopped" /\ ~event /\ (\A t \in Threads : pc[t] = "idle")
    => known = graph

\* A mode that listens, or polls, reports whoever stays on the topic, and whoever
\* leaves it. Of a pub, whose peers the README promises as well, nothing of the kind
\* is true: PubMode::tick does not poll, and no executor takes its events.
PeersFollowed ==
  way # "none" => \A e \in Endpoints :
    /\ e \in graph ~> (e \in known \/ e \notin graph \/ phase # "up")
    /\ e \notin graph ~> (e \notin known \/ e \in graph \/ phase # "up")
=============================================================================
