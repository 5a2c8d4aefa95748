--------------------------- MODULE Explore_proofs ---------------------------
(***************************************************************************)
(* Proofs about Explore for every set of nodes, every number of steps,     *)
(* every checkpoint interval and every length of the history.              *)
(*                                                                         *)
(* One invariant for the four properties.  It says where in a turn the     *)
(* step was counted and saved, that resolve_node_id is idempotent and the  *)
(* node held is always one the graph still has, and that the history is    *)
(* one walk to that node at every moment, empty while the run is away from *)
(* the node it holds.                                                      *)
(***************************************************************************)
EXTENDS Explore, TLAPS

USE ExploreAssumption

-----------------------------------------------------------------------------
(* The inductive invariant.                                                *)

\* resolve_node_id answers a node that resolves to itself, saved and in memory.
ResolvesOK(r) == r[Web] = Web /\ \A p \in Places : r[r[p]] = r[p]
ResolutionOK == ResolvesOK(resolves) /\ ResolvesOK(disk.resolves)

NodeIsLive == resolves[node] = node

\* Where the turn's step is counted and saved already.
Ahead == {"check", "identify", "leave", "target"}

TurnIsCounted ==
  /\ pc \in {"start", "loop", "recoverStart"} => steps = turns
  /\ pc \in {"step", "continue", "return"} => steps = before /\ turns = before + 1
  /\ pc = "recover" => steps \in {before, before + 1} /\ turns = before + 1
  /\ pc \in Ahead \/ (pc = "save" /\ then \in Ahead) => steps = before + 1 /\ turns = steps
  /\ pc = "save" /\ then = "loop" => steps = turns

StepIsSaved ==
  /\ LosesAtMostOneStep
  /\ pc \notin {"save", "stopped"} => disk.steps = steps

\* Nothing is remembered while the run is off the node it holds.
AwayIsForgotten ==
  pc \in {"return", "identify", "leave", "target"}
    \/ (pc = "save" /\ then \in {"identify", "leave", "target"}) => hist = <<>>

Chained(walk) == \A i \in 1..(Len(walk) - 1) : walk[i][2] = walk[i + 1][1]

WalkIsWhole ==
  /\ Len(hist) <= ordinary /\ Chained(hist)
  /\ hist # <<>> => hist[Len(hist)][2] = node

CountInv == TypeOK /\ TurnIsCounted /\ StepIsSaved
PositionInv == ResolutionOK /\ NodeIsLive
WalkInv == AwayIsForgotten /\ WalkIsWhole
ExploreInv == CountInv /\ PositionInv /\ WalkInv

-----------------------------------------------------------------------------
USE DEF graphVars, savedVars, posVars, walkVars, Places, Active, Ahead

LEMMA ExploreInit == Init => ExploreInv
<1> SUFFICES ASSUME Init PROVE  ExploreInv
  OBVIOUS
<1>1. TypeOK
  <2>1. arrived \in BOOLEAN
    BY DEF Init
  <2>2. hist \in Seq(Places \X Places) /\ Len(hist) = 0
    BY DEF Init
  <2>3. disk.steps = 0 /\ disk.nodes = {} /\ disk.resolves \in [Places -> Places]
    BY DEF Init
  <2>4. /\ pc = "start" /\ then = "loop" /\ stop = "none"
        /\ node = Web /\ target = Web
    BY DEF Init
  <2> QED BY <2>1, <2>2, <2>3, <2>4 DEF Init, TypeOK
<1>2. TurnIsCounted /\ StepIsSaved
  BY DEF Init, TurnIsCounted, StepIsSaved, LosesAtMostOneStep
<1>3. PositionInv
  BY DEF Init, PositionInv, ResolutionOK, ResolvesOK, NodeIsLive
<1>4. WalkInv
  BY DEF Init, WalkInv, AwayIsForgotten, WalkIsWhole, Chained
<1> QED BY <1>1, <1>2, <1>3, <1>4 DEF ExploreInv, CountInv

(* What a merge audit and a recorded transition leave.                     *)

LEMMA MergesResolve ==
  ASSUME TypeOK, NEW f \in Merges
  PROVE  MergedBy(f) \in [Places -> Places]
BY DEF TypeOK, Merges, MergedBy, Unmerged

LEMMA MergesStayResolved ==
  ASSUME TypeOK, ResolvesOK(resolves), NEW f \in Merges
  PROVE  ResolvesOK(MergedBy(f))
<1> DEFINE r == MergedBy(f)
<1>1. \A p \in Places : r[p] = IF resolves[p] \in Unmerged THEN f[resolves[p]] ELSE resolves[p]
  BY DEF MergedBy
<1>2. r[Web] = Web
  <2>1. Web \in Places /\ Web \notin Unmerged
    BY DEF TypeOK, Unmerged
  <2>2. resolves[Web] = Web
    BY DEF ResolvesOK
  <2> QED BY <1>1, <2>1, <2>2
<1>3. ASSUME NEW p \in Places
      PROVE  r[r[p]] = r[p]
  <2>1. resolves[p] \in Places /\ resolves[resolves[p]] = resolves[p]
    BY DEF TypeOK, ResolvesOK
  <2>2. CASE resolves[p] \in Unmerged
    <3>1. r[p] = f[resolves[p]]
      BY <1>1, <2>2
    <3>2. r[p] \in Unmerged /\ f[r[p]] = r[p]
      BY <2>2, <3>1 DEF Merges
    <3> QED BY <1>1, <3>2 DEF Unmerged, TypeOK
  <2>3. CASE resolves[p] \notin Unmerged
    <3>1. r[p] = resolves[p]
      BY <1>1, <2>3
    <3> QED BY <1>1, <2>1, <2>3, <3>1
  <2> QED BY <2>2, <2>3
<1> QED BY <1>2, <1>3 DEF ResolvesOK

LEMMA ScreensAreLive ==
  ASSUME ResolutionOK, NEW n \in Screens
  PROVE  resolves[n] = n
BY DEF ResolutionOK, ResolvesOK, Screens

\* NavigationHistory keeps what it holds or forgets it before it adds a transition.
LEMMA ValidatedIsAWalk ==
  ASSUME TypeOK, WalkIsWhole, NEW same_screen \in BOOLEAN
  PROVE  LET v == Validated(same_screen)
         IN /\ v \in Seq(Places \X Places) /\ Len(v) <= HistoryLimit /\ Len(v) <= ordinary
            /\ Chained(v) /\ (v # <<>> => v[Len(v)][2] = node)
<1>1. Validated(same_screen) = <<>> \/ Validated(same_screen) = hist
  BY DEF Validated
<1>2. CASE Validated(same_screen) = <<>>
  BY <1>2 DEF Chained, TypeOK
<1>3. CASE Validated(same_screen) = hist
  BY <1>3 DEF TypeOK, WalkIsWhole
<1> QED BY <1>1, <1>2, <1>3

\* A walk with one more transition, without its first one when it is too long.
LEMMA RecordedIsAWalk ==
  ASSUME TypeOK, WalkIsWhole, NEW n \in Places, node' = n,
         NEW known_edge \in BOOLEAN, NEW same_screen \in BOOLEAN,
         RecordTransition(n, known_edge, same_screen)
  PROVE  /\ hist' \in Seq(Places \X Places) /\ Len(hist') <= HistoryLimit
         /\ ordinary' \in 0..HistoryLimit /\ WalkIsWhole'
<1> DEFINE v == Validated(same_screen)
           longer == Append(v, <<node, n>>)
<1>1. /\ v \in Seq(Places \X Places) /\ Len(v) <= HistoryLimit /\ Len(v) <= ordinary
      /\ Chained(v) /\ (v # <<>> => v[Len(v)][2] = node)
  BY ValidatedIsAWalk
<1>2. node \in Places /\ ordinary \in 0..HistoryLimit
  BY DEF TypeOK
<1>3. CASE ~known_edge
  <2>1. hist' = <<>> /\ ordinary' = 0
    BY <1>3 DEF RecordTransition, Cleared
  <2> QED BY <2>1 DEF WalkIsWhole, Chained
<1>4. CASE known_edge
  <2>1. /\ hist' = IF Len(longer) > HistoryLimit THEN Tail(longer) ELSE longer
        /\ ordinary' = IF ordinary < HistoryLimit THEN ordinary + 1 ELSE ordinary
    BY <1>4 DEF RecordTransition
  <2> HIDE DEF v
  <2>2. /\ longer \in Seq(Places \X Places) /\ Len(longer) = Len(v) + 1
        /\ longer[Len(v) + 1] = <<node, n>>
        /\ \A i \in 1..Len(v) : longer[i] = v[i]
    BY <1>1, <1>2
  <2>3. \A i \in 1..Len(v) : longer[i][2] = longer[i + 1][1]
    <3> SUFFICES ASSUME NEW i \in 1..Len(v) PROVE longer[i][2] = longer[i + 1][1]
      OBVIOUS
    <3>1. CASE i = Len(v)
      BY <1>1, <2>2, <3>1
    <3>2. CASE i < Len(v)
      <4>1. i \in 1..(Len(v) - 1) /\ i + 1 \in 1..Len(v)
        BY <1>1, <3>2
      <4> QED BY <1>1, <2>2, <4>1 DEF Chained
    <3> QED BY <1>1, <3>1, <3>2
  <2> HIDE DEF longer
  <2>4. CASE Len(longer) > HistoryLimit
    <3>1. /\ hist' = Tail(longer) /\ longer # <<>>
          /\ hist' \in Seq(Places \X Places) /\ Len(hist') = Len(v)
          /\ \A i \in 1..Len(v) : hist'[i] = longer[i + 1]
      BY <1>1, <2>1, <2>2, <2>4
    <3>2. Len(v) = HistoryLimit /\ ordinary' = HistoryLimit
      BY <1>1, <1>2, <2>1, <2>2, <2>4
    <3>3. \A i \in 1..(Len(v) - 1) : hist'[i][2] = hist'[i + 1][1]
      BY <1>1, <2>3, <3>1
    <3>4. hist'[Len(v)][2] = n
      BY <1>1, <2>2, <3>1, <3>2
    <3> QED BY <1>1, <1>2, <3>1, <3>2, <3>3, <3>4 DEF WalkIsWhole, Chained
  <2>5. CASE Len(longer) <= HistoryLimit
    <3>1. hist' = longer
      BY <1>1, <2>1, <2>2, <2>5
    <3>2. Len(longer) <= ordinary' /\ ordinary' \in 0..HistoryLimit
      BY <1>1, <1>2, <2>1, <2>2, <2>5
    <3> QED BY <1>1, <2>2, <2>3, <2>5, <3>1, <3>2 DEF WalkIsWhole, Chained
  <2> QED BY <1>1, <2>2, <2>4, <2>5
<1> QED BY <1>3, <1>4

\* Steps that count on the node they began on.
LEMMA StepsOnTheirNode ==
  ASSUME ExploreInv, WaitStep \/ UnsupportedStep \/ WebStep \/ ReturnedToApp
         \/ ContinuationStayed
  PROVE  ExploreInv'
<1> USE DEF ExploreInv, CountInv, PositionInv, WalkInv, TypeOK
<1>1. TypeOK'
  <2>1. CASE WaitStep
    BY <2>1 DEF TurnIsCounted, WaitStep, CountThenSave, Cleared
  <2>2. CASE UnsupportedStep
    BY <2>2 DEF TurnIsCounted, UnsupportedStep, CountThenSave, Cleared
  <2>3. CASE WebStep
    BY <2>3 DEF TurnIsCounted, WebStep, CountThenSave, Cleared
  <2>4. CASE ReturnedToApp
    BY <2>4 DEF TurnIsCounted, ReturnedToApp, CountThenSave, Cleared
  <2>5. CASE ContinuationStayed
    BY <2>5 DEF TurnIsCounted, ContinuationStayed, CountThenSave, Cleared
  <2> QED BY <2>1, <2>2, <2>3, <2>4, <2>5
<1> USE DEF WaitStep, UnsupportedStep, WebStep, ReturnedToApp, ContinuationStayed,
    CountThenSave, Cleared
<1>2. TurnIsCounted' /\ StepIsSaved'
  BY SMTT(20) DEF TurnIsCounted, StepIsSaved, LosesAtMostOneStep
<1>3. ResolutionOK' /\ NodeIsLive'
  BY DEF ResolutionOK, NodeIsLive
<1>4. AwayIsForgotten' /\ WalkIsWhole'
  BY SMTT(20) DEF AwayIsForgotten, WalkIsWhole, Chained, NodeIsLive
<1> QED BY <1>1, <1>2, <1>3, <1>4

\* Steps before the count, or after it.
LEMMA StepsWithoutCount ==
  ASSUME ExploreInv, ExternalAppEdge \/ StillOnWebPage \/ NoCheckpoint \/ Outage
         \/ \E t \in nodes : StartContinuation(t)
  PROVE  ExploreInv'
<1> USE DEF ExploreInv, CountInv, PositionInv, WalkInv, TypeOK
<1>1. TypeOK'
  <2>1. CASE ExternalAppEdge
    BY <2>1 DEF TurnIsCounted, ExternalAppEdge, Cleared
  <2>2. CASE StillOnWebPage
    BY <2>2 DEF TurnIsCounted, StillOnWebPage, Cleared
  <2>3. CASE NoCheckpoint
    BY <2>3 DEF TurnIsCounted, NoCheckpoint, Cleared
  <2>4. CASE Outage
    BY <2>4 DEF TurnIsCounted, Outage, Cleared
  <2>5. CASE \E t \in nodes : StartContinuation(t)
    BY <2>5 DEF TurnIsCounted, StartContinuation, Cleared
  <2> QED BY <2>1, <2>2, <2>3, <2>4, <2>5
<1> USE DEF ExternalAppEdge, StillOnWebPage, NoCheckpoint, Outage, StartContinuation,
    Cleared
<1>2. TurnIsCounted' /\ StepIsSaved'
  BY SMTT(20) DEF TurnIsCounted, StepIsSaved, LosesAtMostOneStep
<1>3. ResolutionOK' /\ NodeIsLive'
  BY DEF ResolutionOK, NodeIsLive
<1>4. AwayIsForgotten' /\ WalkIsWhole'
  BY SMTT(20) DEF AwayIsForgotten, WalkIsWhole, Chained, NodeIsLive
<1> QED BY <1>1, <1>2, <1>3, <1>4

\* The loop.
LEMMA LoopSteps ==
  ASSUME ExploreInv, Save \/ Finish
  PROVE  ExploreInv'
<1> USE DEF ExploreInv, CountInv, PositionInv, WalkInv, TypeOK
<1>1. TypeOK'
  <2>1. CASE Save
    BY <2>1 DEF TurnIsCounted, Save
  <2>2. CASE Finish
    BY <2>2 DEF TurnIsCounted, Finish
  <2> QED BY <2>1, <2>2
<1> USE DEF Save, Finish
<1>2. TurnIsCounted' /\ StepIsSaved'
  BY SMTT(20) DEF TurnIsCounted, StepIsSaved, LosesAtMostOneStep
<1>3. ResolutionOK' /\ NodeIsLive'
  BY DEF ResolutionOK, NodeIsLive
<1>4. AwayIsForgotten' /\ WalkIsWhole'
  BY SMTT(20) DEF AwayIsForgotten, WalkIsWhole, Chained, NodeIsLive
<1> QED BY <1>1, <1>2, <1>3, <1>4

LEMMA TurnBegins ==
  ASSUME ExploreInv, BeginStep
  PROVE  ExploreInv'
<1> USE DEF ExploreInv, CountInv, PositionInv, WalkInv, TypeOK, BeginStep
<1>1. TypeOK'
  <2>1. arrived' \in BOOLEAN
    OBVIOUS
  <2> QED BY <2>1 DEF TurnIsCounted
<1>2. TurnIsCounted' /\ StepIsSaved'
  BY SMTT(20) DEF TurnIsCounted, StepIsSaved, LosesAtMostOneStep
<1>3. ResolutionOK' /\ NodeIsLive'
  BY DEF ResolutionOK, NodeIsLive
<1>4. AwayIsForgotten' /\ WalkIsWhole'
  BY SMTT(20) DEF AwayIsForgotten, WalkIsWhole, Chained, NodeIsLive
<1> QED BY <1>1, <1>2, <1>3, <1>4

\* The start and the recoveries, which begin a new walk.
LEMMA Starts ==
  ASSUME ExploreInv, NEW n \in Screens, StartAt(n) \/ RecoveredAtStart(n) \/ Recovered(n)
  PROVE  ExploreInv'
<1> USE DEF ExploreInv, CountInv, PositionInv, WalkInv, TypeOK
<1>1. TypeOK'
  <2>1. CASE StartAt(n)
    BY <2>1 DEF TurnIsCounted, StartAt, Arrive, Cleared, Screens, Known
  <2>2. CASE RecoveredAtStart(n)
    BY <2>2 DEF TurnIsCounted, RecoveredAtStart, Arrive, Cleared, Screens, Known
  <2>3. CASE Recovered(n)
    BY <2>3 DEF TurnIsCounted, Recovered, Arrive, Cleared, Screens, Known
  <2> QED BY <2>1, <2>2, <2>3
<1> USE DEF StartAt, RecoveredAtStart, Recovered, Arrive, Cleared, Screens, Known
<1>2. TurnIsCounted' /\ StepIsSaved'
  BY SMTT(20) DEF TurnIsCounted, StepIsSaved, LosesAtMostOneStep
<1>3. ResolutionOK' /\ NodeIsLive'
  BY ScreensAreLive DEF ResolutionOK, NodeIsLive
<1>4. AwayIsForgotten' /\ WalkIsWhole'
  BY SMTT(20) DEF AwayIsForgotten, WalkIsWhole, Chained, NodeIsLive
<1> QED BY <1>1, <1>2, <1>3, <1>4

\* Arrivals on a screen after the count.
LEMMA Arrivals ==
  ASSUME ExploreInv, NEW n \in Screens, IdentifyAfterExternalApp(n) \/ LeftWebPage(n)
         \/ CheckpointContinues(n)
  PROVE  ExploreInv'
<1> USE DEF ExploreInv, CountInv, PositionInv, WalkInv, TypeOK
<1>1. TypeOK'
  <2>1. CASE IdentifyAfterExternalApp(n)
    BY <2>1 DEF TurnIsCounted, IdentifyAfterExternalApp, Arrive, Screens, Known
  <2>2. CASE LeftWebPage(n)
    BY <2>2 DEF TurnIsCounted, LeftWebPage, Arrive, Screens, Known
  <2>3. CASE CheckpointContinues(n)
    BY <2>3 DEF TurnIsCounted, CheckpointContinues, Arrive, Screens, Known
  <2> QED BY <2>1, <2>2, <2>3
<1> USE DEF IdentifyAfterExternalApp, LeftWebPage, CheckpointContinues, Arrive, Screens,
    Known
<1>2. TurnIsCounted' /\ StepIsSaved'
  <2>1. CASE IdentifyAfterExternalApp(n)
    BY <2>1, SMTT(20) DEF TurnIsCounted, StepIsSaved, LosesAtMostOneStep
  <2>2. CASE LeftWebPage(n)
    BY <2>2, SMTT(20) DEF TurnIsCounted, StepIsSaved, LosesAtMostOneStep
  <2>3. CASE CheckpointContinues(n)
    BY <2>3, SMTT(20) DEF TurnIsCounted, StepIsSaved, LosesAtMostOneStep
  <2> QED BY <2>1, <2>2, <2>3
<1>3. ResolutionOK' /\ NodeIsLive'
  BY ScreensAreLive DEF ResolutionOK, NodeIsLive
<1>4. AwayIsForgotten' /\ WalkIsWhole'
  BY SMTT(20) DEF AwayIsForgotten, WalkIsWhole, Chained, NodeIsLive
<1> QED BY <1>1, <1>2, <1>3, <1>4

\* Arrivals that count.
LEMMA CountedArrivals ==
  ASSUME ExploreInv, NEW n \in Screens, OverlayStep(n) \/ Continued(n)
  PROVE  ExploreInv'
<1> USE DEF ExploreInv, CountInv, PositionInv, WalkInv, TypeOK
<1>1. TypeOK'
  <2>1. CASE OverlayStep(n)
    BY <2>1 DEF TurnIsCounted, OverlayStep, Arrive, CountThenSave, Cleared, Screens, Known
  <2>2. CASE Continued(n)
    BY <2>2 DEF TurnIsCounted, Continued, Arrive, CountThenSave, Cleared, Screens, Known
  <2> QED BY <2>1, <2>2
<1> USE DEF OverlayStep, Continued, Arrive, CountThenSave, Cleared, Screens, Known
<1>2. TurnIsCounted' /\ StepIsSaved'
  BY SMTT(20) DEF TurnIsCounted, StepIsSaved, LosesAtMostOneStep
<1>3. ResolutionOK' /\ NodeIsLive'
  BY ScreensAreLive DEF ResolutionOK, NodeIsLive
<1>4. AwayIsForgotten' /\ WalkIsWhole'
  BY SMTT(20) DEF AwayIsForgotten, WalkIsWhole, Chained, NodeIsLive
<1> QED BY <1>1, <1>2, <1>3, <1>4

\* The only step that adds to the history.
LEMMA Transitions ==
  ASSUME ExploreInv, NEW n \in Screens, NEW known_edge \in BOOLEAN, NEW same_screen \in BOOLEAN,
         InAppStep(n, known_edge, same_screen)
  PROVE  ExploreInv'
<1> USE DEF ExploreInv, CountInv, PositionInv, WalkInv, TypeOK, InAppStep, CountThenSave,
    Arrive, Screens, Known
<1>0. /\ hist' \in Seq(Places \X Places) /\ Len(hist') <= HistoryLimit
      /\ ordinary' \in 0..HistoryLimit /\ WalkIsWhole'
  BY RecordedIsAWalk
<1>1. TypeOK'
  BY SMTT(20), <1>0 DEF TurnIsCounted
<1>2. TurnIsCounted' /\ StepIsSaved'
  BY SMTT(20) DEF TurnIsCounted, StepIsSaved, LosesAtMostOneStep
<1>3. ResolutionOK' /\ NodeIsLive'
  BY ScreensAreLive DEF ResolutionOK, NodeIsLive
<1>4. AwayIsForgotten' /\ WalkIsWhole'
  BY <1>0 DEF AwayIsForgotten
<1> QED BY <1>1, <1>2, <1>3, <1>4

\* The merge audit.
LEMMA Checkpoints ==
  ASSUME ExploreInv, NEW f \in Merges, CheckpointStays(f) \/ CheckpointChooses(f)
  PROVE  ExploreInv'
<1> USE DEF ExploreInv, CountInv, PositionInv, WalkInv, TypeOK
<1>1. TypeOK'
  <2>1. CASE CheckpointStays(f)
    BY <2>1, MergesResolve DEF TurnIsCounted, CheckpointStays, MergeDuplicates, Cleared
  <2>2. CASE CheckpointChooses(f)
    BY <2>2, MergesResolve DEF TurnIsCounted, CheckpointChooses, MergeDuplicates, Cleared
  <2> QED BY <2>1, <2>2
<1> USE DEF CheckpointStays, CheckpointChooses, MergeDuplicates, Cleared
<1>2. TurnIsCounted' /\ StepIsSaved'
  BY SMTT(20) DEF TurnIsCounted, StepIsSaved, LosesAtMostOneStep
<1>3. ResolutionOK' /\ NodeIsLive'
  BY SMTT(20), MergesStayResolved DEF ResolutionOK, ResolvesOK, NodeIsLive
<1>4. AwayIsForgotten' /\ WalkIsWhole'
  BY SMTT(20) DEF AwayIsForgotten, WalkIsWhole, Chained, NodeIsLive
<1> QED BY <1>1, <1>2, <1>3, <1>4

\* Stops and crashes.
LEMMA Stops ==
  ASSUME ExploreInv, Unreachable \/ OutageInRecovery \/ Interrupted \/ Killed
  PROVE  ExploreInv'
<1> USE DEF ExploreInv, CountInv, PositionInv, WalkInv, TypeOK
<1>1. TypeOK'
  <2>1. CASE Unreachable
    BY <2>1 DEF TurnIsCounted, Unreachable, StopRun
  <2>2. CASE OutageInRecovery
    BY <2>2 DEF TurnIsCounted, OutageInRecovery, StopRun
  <2>3. CASE Interrupted
    BY <2>3 DEF TurnIsCounted, Interrupted, StopRun
  <2>4. CASE Killed
    BY <2>4 DEF TurnIsCounted, Killed, StopRun
  <2> QED BY <2>1, <2>2, <2>3, <2>4
<1> USE DEF Unreachable, OutageInRecovery, Interrupted, Killed, StopRun
<1>2. TurnIsCounted' /\ StepIsSaved'
  BY SMTT(20) DEF TurnIsCounted, StepIsSaved, LosesAtMostOneStep
<1>3. ResolutionOK' /\ NodeIsLive'
  BY DEF ResolutionOK, NodeIsLive
<1>4. AwayIsForgotten' /\ WalkIsWhole'
  BY SMTT(20) DEF AwayIsForgotten, WalkIsWhole, Chained, NodeIsLive
<1> QED BY <1>1, <1>2, <1>3, <1>4

\* A restart on the saved graph.
LEMMA Reruns ==
  ASSUME ExploreInv, Rerun
  PROVE  ExploreInv'
<1> USE DEF ExploreInv, CountInv, PositionInv, WalkInv, TypeOK, Rerun, Cleared
<1>1. TypeOK'
  <2>1. arrived' \in BOOLEAN
    OBVIOUS
  <2>2. hist' \in Seq(Places \X Places) /\ Len(hist') = 0
    OBVIOUS
  <2>3. UNCHANGED disk
    OBVIOUS
  <2> QED BY <2>1, <2>2, <2>3 DEF TurnIsCounted
<1>2. TurnIsCounted' /\ StepIsSaved'
  BY SMTT(20) DEF TurnIsCounted, StepIsSaved, LosesAtMostOneStep
<1>3. ResolutionOK' /\ NodeIsLive'
  <2>1. resolves' = disk.resolves /\ disk' = disk /\ node' = Web
    OBVIOUS
  <2>2. ResolutionOK'
    BY <2>1 DEF ResolutionOK
  <2> QED BY <2>1, <2>2 DEF ResolutionOK, ResolvesOK, NodeIsLive
<1>4. AwayIsForgotten' /\ WalkIsWhole'
  BY SMTT(20) DEF AwayIsForgotten, WalkIsWhole, Chained, NodeIsLive
<1> QED BY <1>1, <1>2, <1>3, <1>4

-----------------------------------------------------------------------------
LEMMA ExploreStep == ExploreInv /\ [Next]_vars => ExploreInv'
<1> SUFFICES ASSUME ExploreInv, [Next]_vars
             PROVE  ExploreInv'
  OBVIOUS
<1>1. CASE Step
  BY <1>1, StepsOnTheirNode, StepsWithoutCount, CountedArrivals, Transitions DEF Step
<1>2. CASE AfterStep
  BY <1>2, StepsOnTheirNode, StepsWithoutCount, Arrivals, CountedArrivals, Checkpoints
  DEF AfterStep
<1>3. CASE Recovery
  BY <1>3, StepsWithoutCount, Stops, Starts DEF Recovery
<1>4. CASE BeginStep \/ Finish \/ Save \/ \E n \in Screens : StartAt(n)
  BY <1>4, TurnBegins, LoopSteps, Starts
<1>5. CASE Interrupted \/ Killed \/ Rerun
  BY <1>5, Stops, Reruns
<1>6. CASE UNCHANGED vars
  BY <1>6 DEF vars, ExploreInv, CountInv, PositionInv, WalkInv, TypeOK, TurnIsCounted,
              StepIsSaved, LosesAtMostOneStep, ResolutionOK, ResolvesOK, NodeIsLive,
              AwayIsForgotten, WalkIsWhole, Chained
<1> QED BY <1>1, <1>2, <1>3, <1>4, <1>5, <1>6 DEF Next, Run, Ended

LEMMA ExploreInvariant == Spec => []ExploreInv
<1>1. Init => ExploreInv
  BY ExploreInit
<1>2. ExploreInv /\ [Next]_vars => ExploreInv'
  BY ExploreStep
<1> QED BY <1>1, <1>2, PTL DEF Spec

(* Every variable of the exploration loop (kobe.py, explore) stays in its  *)
(* type; no run counts more than max_steps steps.                          *)
THEOREM ExploreTypes == Spec => []TypeOK
<1>1. ExploreInv => TypeOK
  BY DEF ExploreInv, CountInv
<1> QED BY <1>1, ExploreInvariant, PTL

(* Every turn of the loop counts one step, whether it waited, was cut off  *)
(* by an outage before or after its count, or could not continue           *)
(* (_count_step, _explore_step_through_outage).                            *)
THEOREM TurnsCountOneStep == Spec => []OneStepPerTurn
<1>1. ExploreInv => OneStepPerTurn
  BY DEF ExploreInv, CountInv, TurnIsCounted, OneStepPerTurn
<1> QED BY <1>1, ExploreInvariant, PTL

(* A crash at any point of the loop loses at most the step that was being  *)
(* taken, on every run started on the graph (save_graph after each step).  *)
THEOREM CrashesLoseOneStep == Spec => []LosesAtMostOneStep
<1>1. ExploreInv => LosesAtMostOneStep
  BY DEF ExploreInv, CountInv, StepIsSaved
<1> QED BY <1>1, ExploreInvariant, PTL

(* However many checkpoints merged nodes, and whichever they merged, the   *)
(* next step starts on a node the graph still has (resolve_node_id).       *)
THEOREM StepsStartOnLiveNodes == Spec => []PositionIsLive
<1>1. ExploreInv => PositionIsLive
  BY DEF ExploreInv, PositionInv, NodeIsLive, PositionIsLive
<1> QED BY <1>1, ExploreInvariant, PTL

(* The navigation history is one unbroken walk to the node the next step   *)
(* starts on, never longer than the ordinary steps since it was cleared    *)
(* (NavigationHistory.record, _validate and clear).                        *)
THEOREM HistoryIsAWalk == Spec => []HistoryIsOneWalk
<1>1. ExploreInv => HistoryIsOneWalk
  BY DEF ExploreInv, WalkInv, WalkIsWhole, Chained, HistoryIsOneWalk
<1> QED BY <1>1, ExploreInvariant, PTL
=============================================================================
