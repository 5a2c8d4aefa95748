------------------------------- MODULE Replay -------------------------------
(***************************************************************************)
(* Replays of recorded actions: navigate_to_node of an exploration run     *)
(* (kobe.py), and the re-exploration of an audit (commands/audit.py),      *)
(* which retries flagged edges by a replay, the flagged action and a       *)
(* second replay.                                                          *)
(*                                                                         *)
(* Where an input leads, what a screen is identified as and which replay   *)
(* checks a model confirms are choices of the environment.  An edge action *)
(* is a record of its endpoints and of what a replay sends before it.      *)
(***************************************************************************)
EXTENDS Integers, Sequences, FiniteSets

CONSTANTS
  Last,         \* bound: the in-app nodes are 1..Last; the lowest is the start node
  Preparations, \* what a replay sends before a recorded action
  MaxEdges,     \* bound: how many edge actions are recorded
  MaxMisses     \* bound: the misses of a node are told apart up to this count

\* A replay sends nothing before an action, or a setup, or one anchored to an observed
\* arrival; an action sent in a menu that no recorded action opens is "lost".
ASSUME ReplayAssumption ==
  /\ Last \in Nat \ {0} /\ MaxEdges \in Nat /\ MaxMisses \in Nat \ {0}
  /\ Preparations \subseteq {"none", "sent", "anchored", "lost"} /\ Preparations # {}

Web == 0       \* ext_web: web content from outside, shown within the app
Outside == -1  \* what identification recovers from: system surfaces, and in exploration any app
Other == -2    \* another ordinary app, which an audit identifies as a node of that app
Start == 1     \* get_start_node
InApp == 1..Last
Screens == InApp \cup {Web}
EdgeActions == [from : InApp \cup {Other}, to : Screens \cup {Outside}, prep : Preparations]

VARIABLES
  edges,     \* the edge actions of the graph
  misses,    \* replay_misses
  purpose,   \* what the run is doing: "explore", or in an audit "idle", "visit" (explore_node),
             \* "retry", "correct", "return", "look" (its exploration steps); exploration
             \* replays to "continue"
  pc,        \* where a replay stands; "rest" when none is running
  target,    \* the node the replay is to reach
  flagged,   \* the edge action the audit retries
  path,      \* the edge actions of the replay that are left
  position,  \* the node the run takes the device to be on
  front,     \* the screen the device shows
  failed     \* observed: the nodes a replay missed since a way into them was recorded

vars == <<edges, misses, purpose, pc, target, flagged, path, position, front, failed>>
place == <<position, front>>
graph == <<edges, misses, failed>>
job == <<purpose, target, flagged>>

NoEdge == CHOOSE e \in EdgeActions : TRUE
Exploring == {"explore", "continue", "resume"}

\* What _identify can find in front: exploration restarts the app when another one is there, an
\* audit recovers from system surfaces only.
Identifiable == IF purpose \in Exploring THEN Screens ELSE Screens \cup {Other}

-----------------------------------------------------------------------------
(* Paths and candidates.                                                   *)

\* _replay_options: the actions a replay can send, each weighed by the inputs it sends.
Sendable == {e \in edges : e.prep # "lost"}
Cost(p) == Len(p) + Cardinality({i \in DOMAIN p : p[i].prep # "none"})

\* find_path: a simple path of the fewest inputs.
Paths(from, to) ==
  {p \in UNION {[1..n -> Sendable] : n \in 1..Last} :
     /\ p[1].from = from /\ p[Len(p)].to = to
     /\ \A i \in 1..Len(p) - 1 : p[i].to = p[i + 1].from
     /\ \A i, j \in DOMAIN p : i # j => p[i].from # p[j].from
     /\ \A i \in DOMAIN p : p[i].from # to}
Shortest(from, to) ==
  LET paths == Paths(from, to)
  IN  IF from = to THEN { <<>> } ELSE {p \in paths : \A q \in paths : Cost(p) <= Cost(q)}

\* get_exploration_target_candidates
Candidates == {n \in InApp : Shortest(Start, n) # {} /\ (n = Start \/ misses[n] = 0)}

-----------------------------------------------------------------------------
(* The graph grows.                                                        *)
Init ==
  /\ edges = {} /\ misses = [n \in InApp |-> 0] /\ failed = {}
  /\ purpose = "explore" /\ pc = "rest"
  /\ target = Start /\ flagged = NoEdge /\ path = <<>>
  /\ position \in Screens /\ front = position

\* Fault: an action that stays on its node clears its misses as well.
ClearedByLoops(e) == IF e.to \in InApp THEN [misses EXCEPT ![e.to] = 0] ELSE misses

\* add_edge: a new action into a node from another one clears its misses.
Cleared(e) == IF e.to \in InApp /\ e.from # e.to THEN [misses EXCEPT ![e.to] = 0] ELSE misses

\* A step of exploration, or of the steps an audit explores.  After a step onto the web or
\* into another app the run presses Back or restarts, and takes up any screen it is then on;
\* only return_to_app checks that no other app is in front.
Step(e, n) ==
  /\ pc = "rest" /\ purpose \in {"explore", "look"}
  /\ e.from = position /\ (e.to \in InApp => n = e.to)
  /\ n = Other => e.to = Web
  /\ IF e \in edges THEN UNCHANGED graph
     ELSE /\ Cardinality(edges) < MaxEdges
          /\ edges' = edges \cup {e} /\ misses' = Cleared(e)
          /\ failed' = IF e.from # e.to THEN failed \ {e.to} ELSE failed
  /\ position' = n /\ front' = n
  /\ UNCHANGED <<job, pc, path>>

\* add_edge refuses an edge out of ext_web, where the step still acts; and an audit records
\* no step that leads into another app.
StepUnrecorded(n) ==
  /\ pc = "rest" /\ purpose \in {"explore", "look"}
  /\ position = Web \/ (purpose = "look" /\ n # Other)
  /\ position' = n /\ front' = n
  /\ UNCHANGED <<graph, job, pc, path>>

-----------------------------------------------------------------------------
(* A replay, from the restart of the app to the screen it ends on.         *)
Begin(why, t, e) ==
  /\ purpose' = why /\ pc' = "restart" /\ target' = t /\ flagged' = e
  /\ UNCHANGED <<graph, path, place>>

\* Its end: the run goes on with what the replay was for.
Ends(why) ==
  /\ purpose' = why /\ pc' = "rest" /\ path' = <<>>
  /\ target' = Start /\ flagged' = NoEdge

\* A coverage checkpoint, or a step that plans nothing, continues from a ranked node;
\* navigate_to_node finds a path before it restarts the app.
Continue(t) ==
  /\ pc = "rest" /\ purpose = "explore" /\ t \in Candidates \ {position}
  /\ Begin("continue", t, NoEdge)

\* --resume-from names any node of the app.
Resume(t) ==
  /\ pc = "rest" /\ purpose = "explore" /\ Shortest(Start, t) # {}
  /\ Begin("resume", t, NoEdge)

\* _explore_node and _retry_edge
Visit(t) ==
  /\ pc = "rest" /\ purpose = "idle" /\ Shortest(Start, t) # {}
  /\ Begin("visit", t, NoEdge)
Retry(e) ==
  /\ pc = "rest" /\ purpose = "idle" /\ Shortest(Start, e.from) # {}
  /\ Begin("retry", e.from, e)

\* The path leads from the screen the app opened on, or else from the start node.
Planned(n) == IF n # Web /\ Shortest(n, target) # {} THEN Shortest(n, target)
              ELSE Shortest(Start, target)

\* restart_app, and the identification of the screen the app opens on.
Open(n) ==
  /\ pc = "restart"
  /\ \E p \in Planned(n) : path' = p /\ pc' = IF p = <<>> THEN "arrived" ELSE "prepare"
  /\ position' = n /\ front' = n
  /\ UNCHANGED <<graph, job>>

\* can_replay and can_replay_action compare the owner of the screen shown with the one of the
\* screen the setup was anchored to, or the action recorded on.
SameOwner == front = Other <=> Head(path).from = Other

\* _prepare_replay_step: an anchored preparation must apply to the screen shown.
Prepare ==
  /\ pc = "prepare" /\ (Head(path).prep = "anchored" => SameOwner)
  /\ pc' = IF Head(path).prep = "none" THEN "check" ELSE "setup"
  /\ UNCHANGED <<graph, job, path, place>>

\* Whatever is shown is identified, after the app is recovered where it is outside.
Identified(n) ==
  /\ IF front = Outside THEN n \in Screens ELSE n = front
  /\ position' = n /\ front' = n

\* Fault: a replay that stops is planned again.
StopToRestart(n) ==
  pc' = (IF purpose = "correct" THEN "arrived" ELSE "restart") /\ Identified(n)

\* Fault: the screen is not identified again.
StopUnidentified(n) == pc' = "arrived" /\ UNCHANGED place

\* A replay that stops identifies the screen it stops on.
Stop(n) == pc' = "arrived" /\ Identified(n)

Inapplicable(n) ==
  /\ pc = "prepare" /\ Head(path).prep = "anchored"
  /\ IF purpose = "correct" THEN pc' = "unverified" /\ UNCHANGED place ELSE Stop(n)
  /\ UNCHANGED <<graph, job, path>>

\* _replay_setup: a setup action is identified after it is sent, wherever it leads; nothing
\* compares the screen it is sent on when it has no anchor.
SendSetup(shown) ==
  /\ pc = "setup" /\ front' = shown
  /\ pc' = IF shown \in Screens THEN "check" ELSE "interrupted"
  /\ UNCHANGED <<graph, job, path, position>>

\* can_replay_action: the action is not sent on a screen of another owner or activity, and
\* after a menu was opened for it only on one that shows its control.
Unverified(n) ==
  /\ pc = "check" /\ Identified(n)
  /\ pc' = IF purpose = "correct" THEN "unverified" ELSE "arrived"
  /\ UNCHANGED <<graph, job, path>>

\* Fault: the replay goes on after an input that left the app.
LandedInAnyCase(shown) ==
  /\ position' = IF shown \in Screens THEN shown ELSE Start
  /\ pc' = IF Len(path) = 1 THEN "arrived" ELSE "prepare"

\* An input that leads outside interrupts the replay.  Where a flagged action leads is the
\* end of its edge, for any other app the node that stands for it.
Landed(shown) ==
  IF shown \notin Screens /\ purpose # "correct"
  THEN pc' = "interrupted" /\ UNCHANGED position
  ELSE /\ position' = IF shown \in Screens THEN shown ELSE Outside
       /\ pc' = IF Len(path) = 1 THEN "arrived" ELSE "prepare"

\* _replay_action
SendAction(shown) ==
  /\ pc = "check" /\ SameOwner /\ front' = shown /\ Landed(shown)
  /\ path' = IF pc' = "interrupted" THEN path ELSE Tail(path)
  /\ UNCHANGED <<graph, job>>

\* _identify_replay recovers the app where it does, and _ReplayInterruptedError ends the
\* replay.
Interrupted(n) ==
  /\ pc = "interrupted" /\ Stop(n) /\ UNCHANGED <<graph, job, path>>

\* InputRejectedError, SystemOverlayActionError: the input is not sent.
Rejected(n) ==
  /\ pc \in {"setup", "check"}
  /\ IF purpose = "correct" THEN pc' = "unverified" /\ UNCHANGED place ELSE Stop(n)
  /\ UNCHANGED <<graph, job, path>>

\* A call that fails in another way, or times out: the run goes on from the screen that is
\* identified then, after the web was left (_identify_screen_after_failed_navigation).
FailedNavigation(n) ==
  /\ pc \in {"restart", "prepare", "setup", "check"} /\ purpose \in {"continue", "resume"}
  /\ position' = n /\ front' = n
  /\ Ends("explore") /\ UNCHANGED graph

\* An instruction the inspection policy blocks, or an input whose replay is unsafe, ends the
\* audit's issue.
Blocked ==
  /\ pc \in {"restart", "prepare", "setup", "check"}
  /\ purpose \in {"visit", "retry", "correct", "return"}
  /\ Ends("idle") /\ UNCHANGED <<graph, place>>

-----------------------------------------------------------------------------
(* The end of a replay.                                                    *)

\* Fault: the miss is counted on the node that was reached.
MissedOn(n) == IF position \in InApp THEN position ELSE n

\* record_replay_miss counts on the node that was to be reached.
Missed(n) == n
Counted(count) == IF count < MaxMisses THEN count + 1 ELSE count

\* _report_arrival
Arrive ==
  /\ pc = "arrived" /\ purpose \in {"continue", "resume"} /\ Ends("explore")
  /\ misses' = IF position = target THEN misses
               ELSE [misses EXCEPT ![Missed(target)] = Counted(@)]
  /\ failed' = IF position = target THEN failed ELSE failed \cup {target}
  /\ UNCHANGED <<edges, place>>

\* Fault: a replay that went through its whole path counts as arrived.
ReachedByPath == path = <<>>

\* The audit compares the node it was to reach with the one the screen was placed on.
Reached == position = target

\* _explore_node explores from the node it reached.
ArriveVisit ==
  /\ pc = "arrived" /\ purpose = "visit" /\ Ends("look")
  /\ UNCHANGED <<graph, place>>

\* _correct_flagged_edge: the action is looked up again on its edge, and sent on its source.
ArriveRetry ==
  /\ pc = "arrived" /\ purpose = "retry"
  /\ IF ~Reached THEN Ends("idle")
     ELSE \/ Ends("look") \* its instruction is not on the edge
          \/ flagged \notin Sendable /\ Ends("idle")
          \/ /\ flagged \in Sendable /\ UNCHANGED <<target, flagged>>
             /\ purpose' = "correct" /\ pc' = "prepare" /\ path' = <<flagged>>
  /\ UNCHANGED <<graph, place>>

\* move_edge_action, which may create the edge; or the instruction is described again.
Moved(reached) == (edges \ {flagged}) \cup {[flagged EXCEPT !.to = reached]}
Corrected ==
  /\ purpose = "correct" /\ pc = "arrived" /\ path = <<>>
  /\ edges' = IF position = flagged.to THEN edges ELSE Moved(position)
  /\ purpose' = "return" /\ pc' = "restart"
  /\ UNCHANGED <<misses, failed, target, flagged, path, place>>

\* The action was not sent, or led to an app without a node.
Uncorrected ==
  /\ purpose = "correct" /\ pc \in {"unverified", "arrived"}
  /\ pc = "arrived" => path # <<>> \/ position = Outside
  /\ Ends("idle") /\ UNCHANGED <<graph, place>>

ArriveReturn ==
  /\ pc = "arrived" /\ purpose = "return"
  /\ Ends(IF Reached THEN "look" ELSE "idle")
  /\ UNCHANGED <<graph, place>>

\* The exploration run ends, and the audit takes up its graph.
Audit ==
  /\ pc = "rest" /\ purpose = "explore" /\ Ends("idle")
  /\ UNCHANGED <<graph, place>>

\* The steps for an issue are spent.
EndIssue ==
  /\ pc = "rest" /\ purpose = "look" /\ Ends("idle")
  /\ UNCHANGED <<graph, place>>

Replaying ==
  \/ \E n \in Identifiable : Open(n) \/ Inapplicable(n) \/ Unverified(n) \/ Interrupted(n)
                             \/ Rejected(n) \/ FailedNavigation(n)
  \/ Prepare
  \/ \E shown \in Identifiable \cup {Outside} : SendSetup(shown) \/ SendAction(shown)
  \/ Blocked \/ Arrive \/ ArriveVisit \/ ArriveRetry \/ Corrected \/ Uncorrected \/ ArriveReturn

Next ==
  \/ \E e \in EdgeActions, n \in Identifiable : Step(e, n)
  \/ \E n \in Identifiable : StepUnrecorded(n)
  \/ \E t \in InApp : Continue(t) \/ Resume(t) \/ Visit(t)
  \/ \E e \in edges : Retry(e)
  \/ Audit \/ EndIssue
  \/ Replaying

Spec == Init /\ [][Next]_vars /\ WF_vars(Replaying)

-----------------------------------------------------------------------------
(* Types: what every variable holds.                                       *)
TypeOK ==
  /\ edges \subseteq EdgeActions /\ Cardinality(edges) <= MaxEdges
  /\ misses \in [InApp -> 0..MaxMisses] /\ failed \subseteq InApp
  /\ purpose \in {"explore", "continue", "resume", "idle", "visit", "retry", "correct", "return",
                  "look"}
  /\ pc \in {"rest", "restart", "prepare", "setup", "check", "interrupted", "unverified", "arrived"}
  /\ target \in InApp /\ flagged \in EdgeActions /\ path \in Seq(EdgeActions)
  /\ {position, front} \subseteq Screens \cup {Outside, Other}
  /\ (pc = "rest") = (purpose \in {"explore", "idle", "look"})

(* Exploration, and the steps of an audit, go on from the screen the       *)
(* device shows, however the replay before them was cut short.             *)
StepsStartOnTheScreenShown ==
  pc = "rest" /\ purpose \in {"explore", "look"} => position = front

(* Exploration sends no recorded input while another app is in front,      *)
(* wherever the inputs before it led.  Nor does an audit, unless another   *)
(* app was in front when its replay opened: it goes on from there.         *)
InputsStayInside ==
  pc \in {"prepare", "setup", "check"} =>
    \/ front \in Screens
    \/ purpose \notin Exploring /\ front = Other /\ position = Other

(* Unless inputs of its setup, which nothing checks, have led elsewhere, a *)
(* flagged action is sent on the source of its edge, so its edge is        *)
(* corrected by where it leads from there.                                 *)
FlaggedActionsStartOnTheirSource ==
  purpose = "correct" /\ pc \in {"prepare", "setup"} => front = flagged.from

(* A continuation never tries again what a replay missed, until an action  *)
(* from another node gives it a new way there.                             *)
MissedNodesAreNotRetried ==
  [][purpose' = "continue" /\ purpose = "explore" => target' \notin failed \ {Start}]_vars

(* Every replay ends.  Once a replay has begun its thread runs on, and     *)
(* every call it makes returns or fails.                                   *)
ReplaysEnd == pc # "rest" ~> pc = "rest"
=============================================================================
