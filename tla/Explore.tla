------------------------------- MODULE Explore -------------------------------
(***************************************************************************)
(* The exploration loop of kobe.py: explore, the step it repeats, the      *)
(* coverage checkpoint after a step, the continuation from a ranked        *)
(* target, and the recovery from a device outage.                          *)
(*                                                                         *)
(* What a screen is identified as, which node the ranking offers and where *)
(* a replay ends are choices of the environment: any node that is not      *)
(* merged away, or the shared node of outside web pages.  Every device     *)
(* call may time out, and the process may be killed at any moment.         *)
(***************************************************************************)
EXTENDS Integers, Sequences

CONSTANTS
  Nodes,         \* in-app node ids, by number; a merge keeps the lower
  Web,           \* EXTERNAL_WEB_NODE
  MaxSteps,      \* max_steps
  Interval,      \* coverage_checkpoint_steps
  HistoryLimit,  \* the maxlen of NavigationHistory
  BackPresses,   \* EXTERNAL_WEB_BACK_PRESSES
  MaxRuns        \* bound: how often the program is started on the graph

ASSUME ExploreAssumption ==
  /\ Nodes \subseteq Nat /\ Web \notin Nodes
  /\ MaxSteps \in Nat \ {0} /\ Interval \in Nat
  /\ HistoryLimit \in Nat \ {0} /\ BackPresses \in Nat \ {0} /\ MaxRuns \in Nat \ {0}

VARIABLES
  pc,        \* where explore is
  then,      \* where it goes on after save_graph
  stop,      \* why the run stopped, "none" while it runs
  steps,     \* graph.total_steps_completed
  before,    \* steps_before: its value when the step began
  node,      \* position.node
  target,    \* the target a continuation navigates to
  arrived,   \* preserve_arrival
  presses,   \* back presses sent on an outside web page
  nodes,     \* the graph's in-app nodes, merged ones included
  resolves,  \* resolve_node_id
  hist,      \* _navigation_history: the transitions it remembers
  disk,      \* the saved graph: its step count, nodes and aliases
  runs,      \* how often the program was started
  turns,     \* observed: loop iterations begun, and the steps of earlier runs
  ordinary   \* observed: known-edge steps since the last interruption

graphVars == <<nodes, resolves>>
savedVars == <<disk, runs>>
posVars == <<node, target, arrived, presses>>
walkVars == <<hist, ordinary>>
vars == <<pc, then, stop, steps, before, posVars, graphVars, walkVars, savedVars,
          turns>>

Places == Nodes \cup {Web}
Active == {"start", "loop", "step", "continue", "return", "identify", "leave", "check",
           "target", "save", "recoverStart", "recover"}

\* What identify_state can answer: a node, existing or new, that is not merged away.
Screens == {n \in Nodes : resolves[n] = n} \cup {Web}

\* The nodes once the screen was identified as n.
Known(n) == IF n = Web THEN nodes ELSE nodes \cup {n}

\* _is_coverage_checkpoint
Due(n) == Interval > 0 /\ 0 < n /\ n < MaxSteps /\ n % Interval = 0

\* NavigationHistory.clear
Cleared == hist' = <<>> /\ ordinary' = 0

\* _count_step, and the save_graph that follows before the run goes on at place.
CountThenSave(place) == steps' = steps + 1 /\ pc' = "save" /\ then' = place

\* The screen is identified as n, and the run goes on from there.
Arrive(n) == nodes' = Known(n) /\ node' = n

-----------------------------------------------------------------------------
Init ==
  /\ pc = "start" /\ then = "loop" /\ stop = "none" /\ steps = 0 /\ before = 0
  /\ node = Web /\ target = Web /\ arrived = FALSE /\ presses = 0
  /\ nodes = {} /\ resolves = [n \in Places |-> n]
  /\ hist = <<>>
  /\ disk = [steps |-> 0, nodes |-> {}, resolves |-> [n \in Places |-> n]]
  /\ runs = 1 /\ turns = 0 /\ ordinary = 0

\* save_graph
Save ==
  /\ pc = "save"
  /\ disk' = [steps |-> steps, nodes |-> nodes, resolves |-> resolves] /\ pc' = then
  /\ UNCHANGED <<then, stop, steps, before, posVars, graphVars, walkVars, runs, turns>>

\* _starting_position: a replay to resume_from or the current screen.
StartAt(n) ==
  /\ pc = "start" /\ steps < MaxSteps
  /\ pc' = "loop" /\ Arrive(n) /\ Cleared
  /\ UNCHANGED <<then, stop, steps, before, target, arrived, presses, resolves, savedVars, turns>>

\* The loop of explore: another turn, or the end of the run with its last save.
BeginStep ==
  /\ pc = "loop" /\ steps < MaxSteps
  /\ pc' = "step" /\ before' = steps /\ turns' = turns + 1 /\ arrived' = FALSE
  /\ UNCHANGED <<then, stop, steps, node, target, presses, graphVars, walkVars, savedVars>>

Finish ==
  /\ pc \in {"start", "loop"} /\ steps >= MaxSteps
  /\ pc' = "save" /\ then' = "done"
  /\ UNCHANGED <<stop, steps, before, posVars, graphVars, walkVars, savedVars, turns>>

-----------------------------------------------------------------------------
(* _explore_step.                                                          *)

\* Fault: the wait is counted, and not saved.
WaitStepUnsaved ==
  /\ pc = "step"
  /\ steps' = steps + 1 /\ pc' = "loop" /\ Cleared
  /\ UNCHANGED <<then, stop, before, posVars, graphVars, savedVars, turns>>

\* A planned wait, and an input the device refused: the node is not identified again.
WaitStep ==
  /\ pc = "step"
  /\ CountThenSave("loop") /\ Cleared
  /\ UNCHANGED <<stop, before, posVars, graphVars, savedVars, turns>>

\* The planned action is not supported.
UnsupportedStep ==
  /\ pc = "step"
  /\ CountThenSave("check") /\ Cleared
  /\ UNCHANGED <<stop, before, posVars, graphVars, savedVars, turns>>

\* System feedback covered the input: the screen is identified, a wait is counted.
OverlayStep(n) ==
  /\ pc = "step"
  /\ nodes' = Known(n) /\ node' = n
  /\ CountThenSave("check") /\ Cleared
  /\ UNCHANGED <<stop, before, target, arrived, presses, resolves, savedVars, turns>>

\* What NavigationHistory._validate leaves before a transition from node is added.
Validated(same_screen) ==
  LET stale == \E i \in DOMAIN hist : \E k \in 1..2 : resolves[hist[i][k]] # hist[i][k]
  IN IF hist # <<>> /\ (~same_screen \/ hist[Len(hist)][2] # node \/ stale) THEN <<>> ELSE hist

\* NavigationHistory.record of the step from node to n.
RecordTransition(n, known_edge, same_screen) ==
  LET longer == Append(Validated(same_screen), <<node, n>>)
  IN IF ~known_edge
     THEN Cleared
     ELSE /\ hist' = IF Len(longer) > HistoryLimit THEN Tail(longer) ELSE longer
          /\ ordinary' = IF ordinary < HistoryLimit THEN ordinary + 1 ELSE ordinary

\* _record_in_app_step; add_edge refuses every edge out of the outside-web node.
InAppStep(n, known_edge, same_screen) ==
  /\ pc = "step" /\ n # Web /\ (known_edge => node # Web)
  /\ Arrive(n) /\ RecordTransition(n, known_edge, same_screen)
  /\ CountThenSave("check")
  /\ UNCHANGED <<stop, before, target, arrived, presses, resolves, savedVars, turns>>

\* _record_external_app_step: the edge, the way back, and the screen it ends on.
ExternalAppEdge ==
  /\ pc = "step"
  /\ Cleared /\ pc' = "return"
  /\ UNCHANGED <<then, stop, steps, before, posVars, graphVars, savedVars, turns>>

ReturnedToApp ==
  /\ pc = "return"
  /\ CountThenSave("identify")
  /\ UNCHANGED <<stop, before, posVars, graphVars, walkVars, savedVars, turns>>

IdentifyAfterExternalApp(n) ==
  /\ pc = "identify"
  /\ Arrive(n) /\ pc' = "check"
  /\ UNCHANGED <<then, stop, steps, before, target, arrived, presses, resolves, walkVars,
                 savedVars, turns>>

\* _record_external_web_step: the step is counted before the page is left.
WebStep ==
  /\ pc = "step"
  /\ Cleared /\ CountThenSave("leave") /\ presses' = 0
  /\ UNCHANGED <<stop, before, node, target, arrived, graphVars, savedVars, turns>>

\* _press_back_off_external_web
StillOnWebPage ==
  /\ pc = "leave" /\ presses < BackPresses
  /\ presses' = presses + 1
  /\ UNCHANGED <<pc, then, stop, steps, before, node, target, arrived, graphVars, walkVars,
                 savedVars, turns>>

\* A back press left the page, or the presses ran out and the app was restarted.
LeftWebPage(n) ==
  /\ pc = "leave" /\ (n # Web \/ presses = BackPresses)
  /\ Arrive(n) /\ pc' = "check"
  /\ UNCHANGED <<then, stop, steps, before, target, arrived, presses, resolves, walkVars,
                 savedVars, turns>>

-----------------------------------------------------------------------------
(* The continuation from a ranked target, and the coverage checkpoint.     *)

\* The node is saturated, or Back was planned where it leaves the app.
StartContinuation(t) ==
  /\ pc = "step" /\ t \in nodes \ {node} /\ resolves[t] = t
  /\ target' = t /\ pc' = "continue"
  /\ UNCHANGED <<then, stop, steps, before, node, arrived, presses, graphVars, walkVars,
                 savedVars, turns>>

\* The navigation ended on n, its target or not.
Continued(n) ==
  /\ pc = "continue"
  /\ Arrive(n) /\ arrived' = (resolves[n] = resolves[target])
  /\ CountThenSave("check") /\ Cleared
  /\ UNCHANGED <<stop, before, target, presses, resolves, savedVars, turns>>

\* It failed before the restart: the device still is on the step's node.
ContinuationStayed ==
  /\ pc = "continue"
  /\ CountThenSave("check") /\ Cleared
  /\ UNCHANGED <<stop, before, posVars, graphVars, savedVars, turns>>

\* _apply_coverage_checkpoint_after_step when no checkpoint is due.
NoCheckpoint ==
  /\ pc = "check" /\ ~Due(steps)
  /\ pc' = "loop" /\ node' = resolves[node]
  /\ UNCHANGED <<then, stop, steps, before, target, arrived, presses, graphVars, walkVars,
                 savedVars, turns>>

\* Each node the graph has and the one the merge audit merged it into, itself when none.
Unmerged == {n \in nodes : resolves[n] = n}
Merges == {f \in [Unmerged -> Unmerged] : \A n \in Unmerged : f[n] <= n /\ f[f[n]] = f[n]}

MergedBy(f) == [n \in Places |-> IF resolves[n] \in Unmerged THEN f[resolves[n]] ELSE resolves[n]]

\* Fault: the node the loop holds is not resolved after the audit.
MergeDuplicatesKeepingNode(f, place) ==
  /\ resolves' = MergedBy(f) /\ node' = node /\ then' = place
  /\ pc' = IF MergedBy(f) = resolves THEN place ELSE "save"

\* _merge_duplicate_nodes: the graph is saved when the audit merged something.
MergeDuplicates(f, place) ==
  /\ resolves' = MergedBy(f) /\ node' = MergedBy(f)[node] /\ then' = place
  /\ pc' = IF MergedBy(f) = resolves THEN place ELSE "save"

\* The audit ran and exploration stays: on a ranked arrival, without another
\* candidate, or because the navigation failed before the restart.
CheckpointStays(f) ==
  /\ pc = "check" /\ Due(steps)
  /\ MergeDuplicates(f, "loop") /\ Cleared
  /\ UNCHANGED <<stop, steps, before, target, arrived, presses, nodes, savedVars, turns>>

\* Fault: the checkpoint leaves the navigation history as it was.
CheckpointChoosesKeepingHistory(f) ==
  /\ pc = "check" /\ Due(steps) /\ ~arrived
  /\ \E t \in nodes : MergedBy(f)[t] = t /\ t # MergedBy(f)[node]
  /\ MergeDuplicates(f, "target") /\ ordinary' = 0 /\ hist' = hist
  /\ UNCHANGED <<stop, steps, before, target, arrived, presses, nodes, savedVars, turns>>

\* It ran and chose another node to continue from.
CheckpointChooses(f) ==
  /\ pc = "check" /\ Due(steps) /\ ~arrived
  /\ \E t \in nodes : MergedBy(f)[t] = t /\ t # MergedBy(f)[node]
  /\ MergeDuplicates(f, "target") /\ Cleared
  /\ UNCHANGED <<stop, steps, before, target, arrived, presses, nodes, savedVars, turns>>

CheckpointContinues(n) ==
  /\ pc = "target"
  /\ Arrive(n) /\ pc' = "loop"
  /\ UNCHANGED <<then, stop, steps, before, target, arrived, presses, resolves, walkVars,
                 savedVars, turns>>

-----------------------------------------------------------------------------
(* Outages, stops and restarts.                                            *)

\* An adb call of the startup or of the step timed out.
Outage ==
  /\ \/ pc = "start" /\ steps < MaxSteps /\ pc' = "recoverStart"
     \/ pc \in {"step", "continue", "return", "identify", "leave", "target"} /\ pc' = "recover"
  /\ UNCHANGED <<then, stop, steps, before, posVars, graphVars, walkVars, savedVars, turns>>

\* _recover_from_outage during startup.
RecoveredAtStart(n) ==
  /\ pc = "recoverStart"
  /\ Arrive(n) /\ Cleared /\ pc' = "loop"
  /\ UNCHANGED <<then, stop, steps, before, target, arrived, presses, resolves, savedVars, turns>>

\* Faults: the interrupted step always counts, and it is taken again instead.
RecoveredCountingAgain(n) ==
  /\ pc = "recover"
  /\ steps' = steps + 1
  /\ Arrive(n) /\ Cleared /\ pc' = "save" /\ then' = "loop"
  /\ UNCHANGED <<stop, before, target, arrived, presses, resolves, savedVars, turns>>

RecoveredRetrying(n) ==
  /\ pc = "recover"
  /\ Arrive(n) /\ Cleared /\ pc' = IF steps = before THEN "step" ELSE "loop"
  /\ UNCHANGED <<then, stop, steps, before, target, arrived, presses, resolves, savedVars, turns>>

\* _explore_step_through_outage: the step counts unless it was counted already.
Recovered(n) ==
  /\ pc = "recover"
  /\ steps' = IF steps = before THEN steps + 1 ELSE steps
  /\ Arrive(n) /\ Cleared /\ pc' = "save" /\ then' = "loop"
  /\ UNCHANGED <<stop, before, target, arrived, presses, resolves, savedVars, turns>>

\* The handlers of explore save the graph and raise.
StopRun(why) ==
  /\ stop' = why /\ pc' = "save" /\ then' = "stopped"
  /\ UNCHANGED <<steps, before, posVars, graphVars, walkVars, savedVars, turns>>

\* The device did not answer within unreachable_limit.
Unreachable == pc \in {"recoverStart", "recover"} /\ StopRun("unreachable")

\* Identifying the recovered screen restarts the app, and that adb call times out.
OutageInRecovery == pc \in {"recoverStart", "recover"} /\ StopRun("timeout")

\* Ctrl-C, or an error such as another app still in front after a restart, inside the
\* try of explore: not before it, nor in the final normalization.
Interrupted ==
  /\ pc \in Active /\ stop = "none" /\ then # "done" /\ (pc = "start" => steps < MaxSteps)
  /\ StopRun("error")

\* The process dies, or an error leaves it unhandled: what was not saved is lost.
Killed ==
  /\ pc \in Active
  /\ pc' = "stopped" /\ stop' = "killed"
  /\ UNCHANGED <<then, steps, before, posVars, graphVars, walkVars, savedVars, turns>>

\* The program is started again on the saved graph.
Rerun ==
  /\ pc = "stopped" /\ runs < MaxRuns
  /\ runs' = runs + 1 /\ pc' = "start" /\ then' = "loop" /\ stop' = "none"
  /\ steps' = disk.steps /\ before' = disk.steps /\ turns' = disk.steps
  /\ nodes' = disk.nodes /\ resolves' = disk.resolves
  /\ node' = Web /\ target' = Web /\ arrived' = FALSE /\ presses' = 0
  /\ Cleared
  /\ UNCHANGED <<disk>>

Ended == pc \in {"done", "stopped"} /\ UNCHANGED vars

-----------------------------------------------------------------------------
Step ==
  \/ WaitStep \/ UnsupportedStep \/ ExternalAppEdge \/ WebStep
  \/ \E n \in Screens : OverlayStep(n)
  \/ \E n \in Screens, known_edge, same_screen \in BOOLEAN :
       InAppStep(n, known_edge, same_screen)
  \/ \E t \in nodes : StartContinuation(t)

AfterStep ==
  \/ ReturnedToApp \/ StillOnWebPage \/ NoCheckpoint \/ ContinuationStayed
  \/ \E n \in Screens : \/ IdentifyAfterExternalApp(n) \/ LeftWebPage(n)
                        \/ Continued(n) \/ CheckpointContinues(n)
  \/ \E f \in Merges : CheckpointStays(f) \/ CheckpointChooses(f)

Recovery == \/ Outage \/ Unreachable \/ OutageInRecovery
            \/ \E n \in Screens : RecoveredAtStart(n) \/ Recovered(n)

\* What explore itself does next, whatever the device answers.
Run == \/ \E n \in Screens : StartAt(n)
       \/ BeginStep \/ Finish \/ Save \/ Step \/ AfterStep \/ Recovery

Next == Run \/ Interrupted \/ Killed \/ Rerun \/ Ended

\* Sequential code, whose every device call returns or times out.
Spec == Init /\ [][Next]_vars /\ WF_vars(Run)

-----------------------------------------------------------------------------
(* The states of the loop, of the graph and of what the run observes.      *)
TypeOK ==
  /\ pc \in Active \cup {"done", "stopped"}
  /\ then \in {"loop", "check", "identify", "leave", "target", "done", "stopped"}
  /\ stop \in {"none", "unreachable", "timeout", "error", "killed"}
  /\ steps \in 0..MaxSteps /\ before \in 0..MaxSteps /\ turns \in 0..MaxSteps
  /\ runs \in 1..MaxRuns
  /\ node \in Places /\ target \in Places /\ arrived \in BOOLEAN
  /\ presses \in 0..BackPresses
  /\ nodes \subseteq Nodes /\ resolves \in [Places -> Places]
  /\ hist \in Seq(Places \X Places) /\ Len(hist) <= HistoryLimit
  /\ ordinary \in 0..HistoryLimit
  /\ disk.steps \in 0..MaxSteps /\ disk.nodes \subseteq Nodes
  /\ disk.resolves \in [Places -> Places]

(* Every turn of the loop counts one step, however it goes: a wait, an     *)
(* outage before or after its own count, a continuation that failed        *)
(* (_count_step: "counts every step here and nowhere else").               *)
OneStepPerTurn == pc = "loop" => steps = turns

(* "The graph is auto-saved after every step so crashes lose at most one   *)
(* step" (explore): whatever the run was doing when it was killed.         *)
LosesAtMostOneStep == disk.steps <= steps /\ steps <= disk.steps + 1

(* The next step starts on a node the graph still has, although the merge  *)
(* audit of a checkpoint can remove any node the loop holds.               *)
PositionIsLive == pc = "loop" => resolves[node] = node

(* The navigation history holds one unbroken walk that ends where the next *)
(* step starts: no wait, outage, outside page, replay or checkpoint falls  *)
(* inside it (README, "This history holds ...").                           *)
HistoryIsOneWalk ==
  pc = "loop" =>
    /\ Len(hist) <= ordinary
    /\ \A i \in 1..(Len(hist) - 1) : hist[i][2] = hist[i + 1][1]
    /\ hist # <<>> => hist[Len(hist)][2] = node

(* A run ends: it does not wait, recover or continue for ever.             *)
RunEnds == pc = "start" ~> pc \in {"done", "stopped"}
=============================================================================
