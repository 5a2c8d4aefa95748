---------------------------- MODULE Replay_proofs ----------------------------
(***************************************************************************)
(* Proofs about Replay for any number of nodes, edges and misses, wherever *)
(* an input leads and whatever a screen is identified as.                  *)
(*                                                                         *)
(* The position is the screen shown whenever a replay has arrived, which   *)
(* every way to stop one sees to.  A replay has an action left while it is *)
(* under way, and the flagged action alone while it corrects an edge.      *)
(***************************************************************************)
EXTENDS Replay, FiniteSetTheorems, SequenceTheorems, TLAPS

USE ReplayAssumption

-----------------------------------------------------------------------------
(* The inductive invariant.                                                *)

Stages ==
  {"rest", "restart", "prepare", "setup", "check", "interrupted", "unverified", "arrived"}
Purposes ==
  {"explore", "continue", "resume", "idle", "visit", "retry", "correct", "return", "look"}
UnderWay == {"prepare", "setup", "check"}

GraphInv ==
  /\ edges \subseteq EdgeActions /\ IsFiniteSet(edges) /\ Cardinality(edges) <= MaxEdges
  /\ misses \in [InApp -> 0..MaxMisses] /\ failed \subseteq InApp
  /\ \A n \in failed : misses[n] # 0

JobInv ==
  /\ purpose \in Purposes /\ pc \in Stages
  /\ (pc = "rest") = (purpose \in {"explore", "idle", "look"})
  /\ target \in InApp /\ flagged \in EdgeActions
  /\ purpose = "retry" => target = flagged.from
  /\ purpose = "correct" => flagged \in edges /\ pc # "restart"

PlaceInv ==
  /\ path \in Seq(EdgeActions)
  /\ position \in Screens \cup {Outside, Other} /\ front \in Screens \cup {Outside, Other}
  /\ pc \in UnderWay \cup {"interrupted"} => path # <<>>
  /\ pc \in UnderWay => \/ front \in Screens
                        \/ purpose \notin Exploring /\ front = Other /\ position = Other
  /\ pc \in UnderWay /\ purpose = "correct" => path = <<flagged>>
  /\ pc \in {"prepare", "setup"} /\ purpose = "correct" => front = flagged.from
  /\ pc = "arrived" /\ purpose # "correct" => position = front
  /\ pc = "arrived" /\ path = <<>> /\ purpose = "correct" => position \in Screens \cup {Outside}
  /\ pc = "rest" /\ purpose \in {"explore", "look"} => position = front

ReplayInv == GraphInv /\ JobInv /\ PlaceInv

-----------------------------------------------------------------------------
(* Edge actions and paths.                                                 *)

LEMMA EndsOfActions ==
  ASSUME NEW e \in EdgeActions
  PROVE  /\ e.from \in InApp \cup {Other} /\ e.to \in Screens \cup {Outside}
         /\ \A n \in Screens \cup {Outside} : [e EXCEPT !.to = n] \in EdgeActions
BY DEF EdgeActions

LEMMA NoEdgeIsAnAction == NoEdge \in EdgeActions
<1>1. PICK p \in Preparations : TRUE
  OBVIOUS
<1>2. [from |-> 1, to |-> 1, prep |-> p] \in EdgeActions
  BY DEF EdgeActions, Screens, InApp
<1> QED BY <1>2 DEF NoEdge

LEMMA NumbersOfScreens ==
  /\ Start \in InApp /\ InApp \subseteq Screens /\ Web \in Screens
  /\ Outside \notin Screens /\ Outside \notin InApp /\ Web \notin InApp
  /\ Other \notin Screens /\ Other \notin InApp /\ Other # Outside
BY DEF Start, InApp, Screens, Web, Outside, Other

LEMMA Identifiables ==
  /\ Screens \subseteq Identifiable /\ Identifiable \subseteq Screens \cup {Other}
  /\ purpose \in Exploring => Identifiable = Screens
BY DEF Identifiable

\* A path is a sequence of recorded actions.
LEMMA PathsAreSequences ==
  ASSUME edges \subseteq EdgeActions, NEW m, NEW n, NEW p \in Shortest(m, n)
  PROVE  p \in Seq(EdgeActions)
<1>1. CASE m = n
  BY <1>1 DEF Shortest
<1>2. CASE m # n
  <2>1. PICK k \in 1..Last : p \in [1..k -> Sendable]
    BY <1>2 DEF Shortest, Paths
  <2>2. p \in [1..k -> EdgeActions] /\ k \in Nat
    BY <2>1 DEF Sendable
  <2> QED BY <2>2, SeqDef
<1> QED BY <1>1, <1>2

\* A node that a path leads to from the start is no other app's.
LEMMA ReachedAreInside ==
  ASSUME edges \subseteq EdgeActions, NEW e \in EdgeActions, Shortest(Start, e.from) # {}
  PROVE  e.from \in InApp
<1>1. CASE Start = e.from
  BY <1>1, NumbersOfScreens
<1>2. CASE Start # e.from
  <2>1. PICK p \in Paths(Start, e.from) : TRUE
    BY <1>2 DEF Shortest
  <2>2. PICK k \in 1..Last : p \in [1..k -> Sendable]
    BY <2>1 DEF Paths
  <2>3. Len(p) = k
    BY <2>2
  <2>4. p[Len(p)] \in EdgeActions /\ p[Len(p)].to = e.from
    BY <2>1, <2>2, <2>3 DEF Paths, Sendable
  <2> QED BY <2>4, EndsOfActions, NumbersOfScreens
<1> QED BY <1>1, <1>2

LEMMA PlannedAreSequences ==
  ASSUME edges \subseteq EdgeActions, NEW n, NEW p \in Planned(n)
  PROVE  p \in Seq(EdgeActions)
BY PathsAreSequences DEF Planned

-----------------------------------------------------------------------------
(* The graph: what a step records, and what a replay misses or corrects.   *)

LEMMA StepRecords ==
  ASSUME ReplayInv, NEW e \in EdgeActions, NEW n \in Identifiable, Step(e, n)
  PROVE  GraphInv'
<1>1. CASE e \in edges
  BY <1>1 DEF ReplayInv, GraphInv, Step, graph
<1>2. CASE e \notin edges
  <2>1. /\ Cardinality(edges) < MaxEdges /\ edges' = edges \cup {e} /\ misses' = Cleared(e)
        /\ failed' = IF e.from # e.to THEN failed \ {e.to} ELSE failed
    BY <1>2 DEF Step
  <2>2. IsFiniteSet(edges') /\ Cardinality(edges') = Cardinality(edges) + 1
    BY <1>2, <2>1, FS_AddElement DEF ReplayInv, GraphInv
  <2>3. Cardinality(edges) \in Nat
    BY FS_CardinalityType DEF ReplayInv, GraphInv
  <2>4. Cardinality(edges') <= MaxEdges
    BY <2>1, <2>2, <2>3
  <2>5. misses' \in [InApp -> 0..MaxMisses]
    BY <2>1 DEF ReplayInv, GraphInv, Cleared
  <2>6. failed' \subseteq InApp /\ \A k \in failed' : misses'[k] # 0
    BY <2>1 DEF ReplayInv, GraphInv, Cleared
  <2> QED BY <2>1, <2>2, <2>4, <2>5, <2>6 DEF ReplayInv, GraphInv
<1> QED BY <1>1, <1>2

LEMMA ArriveCounts ==
  ASSUME ReplayInv, Arrive
  PROVE  GraphInv'
<1>1. CASE position = target
  BY <1>1 DEF ReplayInv, GraphInv, Arrive
<1>2. CASE position # target
  <2> DEFINE c == Counted(misses[target])
  <2>1. target \in InApp /\ misses[target] \in 0..MaxMisses
    BY DEF ReplayInv, JobInv, GraphInv
  <2>2. c \in 0..MaxMisses /\ c # 0
    BY <2>1 DEF Counted
  <2>3. /\ edges' = edges /\ misses' = [misses EXCEPT ![target] = c]
        /\ failed' = failed \cup {target}
    BY <1>2 DEF Arrive, Missed
  <2> HIDE DEF c
  <2> QED BY <2>1, <2>2, <2>3 DEF ReplayInv, GraphInv
<1> QED BY <1>1, <1>2

LEMMA CorrectedMoves ==
  ASSUME ReplayInv, Corrected
  PROVE  GraphInv'
<1>1. misses' = misses /\ failed' = failed
  BY DEF Corrected
<1>2. CASE position = flagged.to
  BY <1>1, <1>2 DEF ReplayInv, GraphInv, Corrected
<1>3. CASE position # flagged.to
  <2> DEFINE moved == [flagged EXCEPT !.to = position]
             rest == edges \ {flagged}
  <2>1. edges' = rest \cup {moved} /\ flagged \in edges /\ moved \in EdgeActions
    BY <1>3, EndsOfActions DEF Corrected, Moved, ReplayInv, JobInv, PlaceInv
  <2>2. IsFiniteSet(rest) /\ Cardinality(rest) = Cardinality(edges) - 1
    BY <2>1, FS_RemoveElement DEF ReplayInv, GraphInv
  <2>3. /\ IsFiniteSet(edges')
        /\ Cardinality(edges') \in {Cardinality(rest), Cardinality(rest) + 1}
    BY <2>1, <2>2, FS_AddElement
  <2>4. Cardinality(edges) \in Nat
    BY FS_CardinalityType DEF ReplayInv, GraphInv
  <2>5. Cardinality(edges') <= MaxEdges
    BY <2>2, <2>3, <2>4 DEF ReplayInv, GraphInv
  <2> QED BY <1>1, <2>1, <2>3, <2>5 DEF ReplayInv, GraphInv
<1> QED BY <1>2, <1>3

\* No other step changes the graph.
LEMMA GraphStep == ReplayInv /\ [Next]_vars => GraphInv'
<1> SUFFICES ASSUME ReplayInv, [Next]_vars PROVE GraphInv'
  OBVIOUS
<1>1. ASSUME UNCHANGED graph PROVE GraphInv'
  BY <1>1 DEF ReplayInv, GraphInv, graph
<1>2. CASE UNCHANGED vars
  BY <1>1, <1>2 DEF vars, graph
<1>3. ASSUME NEW e \in EdgeActions, NEW n \in Identifiable, Step(e, n) PROVE GraphInv'
  BY <1>3, StepRecords
<1>4. ASSUME NEW n \in Identifiable, StepUnrecorded(n) PROVE GraphInv'
  BY <1>1, <1>4 DEF StepUnrecorded
<1>5. ASSUME NEW t \in InApp, Continue(t) \/ Resume(t) \/ Visit(t) PROVE GraphInv'
  BY <1>1, <1>5 DEF Continue, Resume, Visit, Begin
<1>6. ASSUME NEW e \in edges, Retry(e) PROVE GraphInv'
  BY <1>1, <1>6 DEF Retry, Begin
<1>7. CASE Audit \/ EndIssue
  BY <1>1, <1>7 DEF Audit, EndIssue
<1>8. CASE Replaying
  <2>1. ASSUME NEW n \in Identifiable, \/ Open(n) \/ Inapplicable(n) \/ Unverified(n)
                                  \/ Interrupted(n) \/ Rejected(n) \/ FailedNavigation(n)
        PROVE  GraphInv'
    BY <1>1, <2>1 DEF Open, Inapplicable, Unverified, Interrupted, Rejected, FailedNavigation
  <2>2. ASSUME NEW shown \in Identifiable \cup {Outside}, SendSetup(shown) \/ SendAction(shown)
        PROVE  GraphInv'
    BY <1>1, <2>2 DEF SendSetup, SendAction
  <2>3. CASE Prepare \/ Blocked \/ ArriveVisit \/ ArriveRetry \/ Uncorrected \/ ArriveReturn
    BY <1>1, <2>3 DEF Prepare, Blocked, ArriveVisit, ArriveRetry, Uncorrected, ArriveReturn
  <2> QED BY <1>8, <2>1, <2>2, <2>3, ArriveCounts, CorrectedMoves DEF Replaying
<1> QED BY <1>2, <1>3, <1>4, <1>5, <1>6, <1>7, <1>8 DEF Next

-----------------------------------------------------------------------------
(* What the run does, and where the device is.                             *)

LEMMA EndsKeep ==
  ASSUME ReplayInv, NEW why \in {"explore", "idle", "look"}, Ends(why),
         \/ UNCHANGED place /\ ((pc = "arrived" /\ purpose # "correct") \/ why = "idle")
         \/ \E n \in Identifiable : position' = n /\ front' = n
  PROVE  JobInv' /\ PlaceInv'
BY NoEdgeIsAnAction, NumbersOfScreens, Identifiables
DEF Ends, place, ReplayInv, JobInv, PlaceInv, Purposes, Stages, UnderWay

\* A run at rest starts a replay, or what a replay was for.
LEMMA RestStep ==
  ASSUME ReplayInv,
         \/ \E e \in EdgeActions, n \in Identifiable : Step(e, n)
         \/ \E n \in Identifiable : StepUnrecorded(n)
         \/ \E t \in InApp : Continue(t) \/ Resume(t) \/ Visit(t)
         \/ \E e \in edges : Retry(e)
         \/ Audit \/ EndIssue
  PROVE  JobInv' /\ PlaceInv'
<1>1. ASSUME NEW n \in Identifiable, position' = n, front' = n, UNCHANGED <<job, pc, path>>, pc = "rest",
             purpose \in {"explore", "look"}
      PROVE  JobInv' /\ PlaceInv'
  BY <1>1, Identifiables DEF ReplayInv, JobInv, PlaceInv, job, Purposes, Stages, UnderWay
<1>2. ASSUME NEW why \in {"continue", "resume", "visit", "retry"}, NEW t \in InApp,
             NEW e \in EdgeActions, Begin(why, t, e), why = "retry" => t = e.from
      PROVE  JobInv' /\ PlaceInv'
  BY <1>2 DEF ReplayInv, JobInv, PlaceInv, Begin, graph, place, Purposes, Stages, UnderWay
<1>3. ASSUME NEW e \in EdgeActions, NEW n \in Identifiable, Step(e, n) PROVE JobInv' /\ PlaceInv'
  BY <1>1, <1>3 DEF Step
<1>4. ASSUME NEW n \in Identifiable, StepUnrecorded(n) PROVE JobInv' /\ PlaceInv'
  BY <1>1, <1>4 DEF StepUnrecorded
<1>5. ASSUME NEW t \in InApp, Continue(t) \/ Resume(t) \/ Visit(t) PROVE JobInv' /\ PlaceInv'
  BY <1>2, <1>5, NoEdgeIsAnAction DEF Continue, Resume, Visit
<1>6. ASSUME NEW e \in edges, Retry(e) PROVE JobInv' /\ PlaceInv'
  BY <1>2, <1>6, ReachedAreInside DEF Retry, ReplayInv, GraphInv
<1>7. CASE Audit \/ EndIssue
  BY <1>7, EndsKeep DEF Audit, EndIssue
<1> QED BY <1>3, <1>4, <1>5, <1>6, <1>7

\* A replay that stops has identified the screen it stopped on.
LEMMA StopStep ==
  ASSUME ReplayInv, NEW n \in Identifiable,
         Inapplicable(n) \/ Unverified(n) \/ Interrupted(n) \/ Rejected(n)
  PROVE  JobInv' /\ PlaceInv'
<1>1. UNCHANGED <<job, path>> /\ pc # "rest" /\ UNCHANGED edges
  BY DEF Inapplicable, Unverified, Interrupted, Rejected, graph
<1>2. \/ pc' = "arrived" /\ Identified(n)
      \/ pc' = "unverified" /\ (Identified(n) \/ UNCHANGED place)
  BY DEF Inapplicable, Unverified, Interrupted, Rejected, Stop
<1>3. pc' = "arrived" => purpose # "correct" \/ pc = "interrupted"
  BY DEF Inapplicable, Unverified, Interrupted, Rejected
<1>4. JobInv'
  BY <1>1, <1>2 DEF job, ReplayInv, JobInv, Stages
<1>5. /\ position' \in Screens \cup {Outside, Other} /\ front' \in Screens \cup {Outside, Other}
      /\ pc' = "arrived" => position' = front'
  BY <1>2, Identifiables DEF Identified, place, ReplayInv, PlaceInv
<1>6. path' = path /\ path \in Seq(EdgeActions) /\ purpose' = purpose /\ pc' \notin UnderWay
      /\ pc' \notin {"rest", "interrupted"} /\ (pc = "interrupted" => path # <<>>)
  BY <1>1, <1>2 DEF job, ReplayInv, PlaceInv, UnderWay
<1>7. PlaceInv'
  BY <1>2, <1>3, <1>5, <1>6 DEF PlaceInv, UnderWay
<1> QED BY <1>4, <1>7

LEMMA OpenStep ==
  ASSUME ReplayInv, NEW n \in Identifiable, Open(n)
  PROVE  JobInv' /\ PlaceInv'
<1>1. PICK p \in Planned(n) : path' = p /\ pc' = IF p = <<>> THEN "arrived" ELSE "prepare"
  BY DEF Open
<1>2. p \in Seq(EdgeActions)
  BY PlannedAreSequences DEF ReplayInv, GraphInv
<1>3. JobInv'
  BY <1>1 DEF Open, job, graph, ReplayInv, JobInv, Purposes, Stages
<1>4. position' = n /\ front' = n /\ path' \in Seq(EdgeActions) /\ purpose' = purpose
  BY <1>1, <1>2 DEF Open, job
<1>5. pc' \in {"arrived", "prepare"} /\ purpose # "correct" /\ (pc' = "prepare" => path' # <<>>)
  BY <1>1 DEF Open, ReplayInv, JobInv
<1>6. PlaceInv'
  BY <1>4, <1>5, NumbersOfScreens, Identifiables DEF PlaceInv, UnderWay
<1> QED BY <1>3, <1>6

LEMMA SetupStep ==
  ASSUME ReplayInv, Prepare \/ \E shown \in Identifiable \cup {Outside} : SendSetup(shown)
  PROVE  JobInv' /\ PlaceInv'
BY NumbersOfScreens, Identifiables DEF Prepare, SendSetup, job, graph, place,
       ReplayInv, JobInv, PlaceInv, Purposes, Stages, UnderWay

LEMMA ActionStep ==
  ASSUME ReplayInv, NEW shown \in Identifiable \cup {Outside}, SendAction(shown)
  PROVE  JobInv' /\ PlaceInv'
<1>1. /\ pc = "check" /\ front' = shown /\ Landed(shown) /\ UNCHANGED job /\ UNCHANGED edges
      /\ path' = IF pc' = "interrupted" THEN path ELSE Tail(path)
  BY DEF SendAction, graph
<1>2. path \in Seq(EdgeActions) /\ path # <<>> /\ (purpose = "correct" => path = <<flagged>>)
  BY <1>1 DEF ReplayInv, PlaceInv, UnderWay
<1>3. Tail(path) \in Seq(EdgeActions) /\ Len(Tail(path)) = Len(path) - 1 /\ Len(path) \in Nat
  BY <1>2
<1>4. Len(path) # 1 => Tail(path) # <<>> /\ purpose # "correct"
  <2>1. Len(<<flagged>>) = 1
    OBVIOUS
  <2>2. Tail(path) = <<>> => Len(path) = 1
    <3> DEFINE left == Tail(path)
    <3>1. left \in Seq(EdgeActions) /\ Len(left) = Len(path) - 1 /\ Len(path) \in Nat
      BY <1>3
    <3> HIDE DEF left
    <3>2. left = <<>> => Len(left) = 0
      BY <3>1, EmptySeq
    <3>3. left = <<>> => Len(path) = 1
      BY <3>1, <3>2
    <3> QED BY <3>3 DEF left
  <2> QED BY <1>2, <2>1, <2>2
<1> QED BY <1>1, <1>2, <1>3, <1>4, NumbersOfScreens, Identifiables
    DEF Landed, job, ReplayInv, JobInv, PlaceInv, Purposes, Stages, UnderWay

\* The end of a replay, or what the audit does next.
LEMMA EndStep ==
  ASSUME ReplayInv,
         \/ \E n \in Identifiable : FailedNavigation(n)
         \/ Blocked \/ Arrive \/ ArriveVisit \/ Uncorrected \/ ArriveReturn
  PROVE  JobInv' /\ PlaceInv'
<1>2. ASSUME NEW n \in Identifiable, FailedNavigation(n) PROVE JobInv' /\ PlaceInv'
  BY <1>2, EndsKeep DEF FailedNavigation
<1>3. CASE Blocked \/ Uncorrected
  BY <1>3, EndsKeep DEF Blocked, Uncorrected
<1>4. CASE Arrive \/ ArriveVisit \/ ArriveReturn
  BY <1>4, EndsKeep DEF Arrive, ArriveVisit, ArriveReturn
<1> QED BY <1>2, <1>3, <1>4

LEMMA RetryStep ==
  ASSUME ReplayInv, ArriveRetry
  PROVE  JobInv' /\ PlaceInv'
<1>1. CASE Ends("idle") \/ Ends("look")
  BY <1>1, EndsKeep DEF ArriveRetry
<1>2. CASE ~Ends("idle") /\ ~Ends("look")
  <2>1. /\ pc = "arrived" /\ purpose = "retry" /\ position = target /\ flagged \in edges
        /\ UNCHANGED <<target, flagged>> /\ UNCHANGED place /\ edges' = edges
        /\ purpose' = "correct" /\ pc' = "prepare" /\ path' = <<flagged>>
    BY <1>2 DEF ArriveRetry, Reached, Sendable, graph
  <2>2. front = flagged.from /\ front \in Screens
    BY <2>1, NumbersOfScreens DEF ReplayInv, JobInv, PlaceInv
  <2> QED BY <2>1, <2>2
      DEF place, ReplayInv, JobInv, PlaceInv, Purposes, Stages, UnderWay
<1> QED BY <1>1, <1>2

LEMMA CorrectedStep ==
  ASSUME ReplayInv, Corrected
  PROVE  JobInv' /\ PlaceInv'
BY DEF Corrected, place, ReplayInv, JobInv, PlaceInv, Purposes, Stages, UnderWay

LEMMA JobAndPlaceStep == ReplayInv /\ [Next]_vars => JobInv' /\ PlaceInv'
<1> SUFFICES ASSUME ReplayInv, [Next]_vars PROVE JobInv' /\ PlaceInv'
  OBVIOUS
<1>1. CASE UNCHANGED vars
  BY <1>1 DEF vars, ReplayInv, JobInv, PlaceInv
<1>2. CASE Replaying
  BY <1>2, StopStep, OpenStep, SetupStep, ActionStep, EndStep, RetryStep, CorrectedStep
  DEF Replaying
<1>3. CASE Next /\ ~Replaying
  BY <1>3, RestStep DEF Next
<1> QED BY <1>1, <1>2, <1>3

LEMMA ReplayInvInit == Init => ReplayInv
<1> SUFFICES ASSUME Init PROVE ReplayInv
  OBVIOUS
<1>1. GraphInv
  BY FS_EmptySet DEF Init, GraphInv
<1>2. JobInv /\ PlaceInv
  BY NoEdgeIsAnAction, NumbersOfScreens
  DEF Init, JobInv, PlaceInv, Purposes, Stages, UnderWay
<1> QED BY <1>1, <1>2 DEF ReplayInv

(* The inductive invariant holds of every reachable state.                 *)
THEOREM ReplayKeepsInv == Spec => []ReplayInv
<1>1. ReplayInv /\ [Next]_vars => ReplayInv'
  BY GraphStep, JobAndPlaceStep DEF ReplayInv
<1> QED BY <1>1, ReplayInvInit, PTL DEF Spec

-----------------------------------------------------------------------------
(* The theorems.                                                           *)

(* The types of the graph, the replay and the place of the device, for any *)
(* number of nodes and edges.                                              *)
THEOREM ReplayTypes == Spec => []TypeOK
<1>1. ReplayInv => TypeOK
  BY DEF ReplayInv, GraphInv, JobInv, PlaceInv, Purposes, Stages, TypeOK
<1> QED BY <1>1, ReplayKeepsInv, PTL

(* However a replay was cut short, exploration and the steps of an audit   *)
(* go on from the screen the device shows.                                 *)
THEOREM StepsStartWhereTheDeviceIs == Spec => []StepsStartOnTheScreenShown
<1>1. ReplayInv => StepsStartOnTheScreenShown
  BY DEF ReplayInv, PlaceInv, StepsStartOnTheScreenShown
<1> QED BY <1>1, ReplayKeepsInv, PTL

(* Exploration sends no recorded input while another app is in front, and  *)
(* an audit only where another app was in front when its replay opened,    *)
(* wherever the inputs before it led.                                      *)
THEOREM InputsAreSentInside == Spec => []InputsStayInside
<1>1. ReplayInv => InputsStayInside
  BY DEF ReplayInv, PlaceInv, UnderWay, InputsStayInside
<1> QED BY <1>1, ReplayKeepsInv, PTL

(* A flagged action, or its setup, is sent from the source of its edge.    *)
THEOREM FlaggedActionsAreSentOnTheirSource == Spec => []FlaggedActionsStartOnTheirSource
<1>1. ReplayInv => FlaggedActionsStartOnTheirSource
  BY DEF ReplayInv, PlaceInv, FlaggedActionsStartOnTheirSource
<1> QED BY <1>1, ReplayKeepsInv, PTL

(* Exploration never continues to a node that a replay missed, until an    *)
(* action from another node leads there: a node has misses as long as a    *)
(* replay to it has failed.                                                *)
THEOREM MissesAreHeeded == Spec => MissedNodesAreNotRetried
<1>1. ReplayInv /\ [Next]_vars =>
        [purpose' = "continue" /\ purpose = "explore" => target' \notin failed \ {Start}]_vars
  <2> SUFFICES ASSUME ReplayInv, [Next]_vars, purpose' = "continue", purpose = "explore"
               PROVE  target' \notin failed \ {Start}
    OBVIOUS
  <2>1. pc = "rest" /\ \A n \in failed : misses[n] # 0
    BY DEF ReplayInv, JobInv, GraphInv
  <2>2. PICK t \in InApp : Continue(t)
    <3>1. ~Replaying
      BY <2>1 DEF Replaying, Open, Inapplicable, Unverified, Interrupted, Rejected,
                  FailedNavigation, Prepare, SendSetup, SendAction, Blocked, Arrive,
                  ArriveVisit, ArriveRetry, Corrected, Uncorrected, ArriveReturn
    <3> QED BY <3>1 DEF Next, vars, Step, StepUnrecorded, job, Resume, Visit, Retry, Begin,
                        Audit, EndIssue, Ends
  <2>3. target' = t /\ t \in Candidates
    BY <2>2 DEF Continue, Begin
  <2> QED BY <2>1, <2>3 DEF Candidates
<1> QED BY <1>1, ReplayKeepsInv, PTL DEF Spec, MissedNodesAreNotRetried
=============================================================================
