----------------------------- MODULE GraphEdges -----------------------------
(***************************************************************************)
(* The nodes and edges of utils/graph_manager.py while an app is explored  *)
(* or a graph is built (GraphBuild), and while an audit merges nodes       *)
(* (merge_nodes), splits them and moves their members (split_members,      *)
(* move_member), carrying the edge actions along by the transitions of the *)
(* step log.                                                               *)
(*                                                                         *)
(* What a screen is identified as and which state it shows, and what the   *)
(* audit tells apart, are choices of the environment.  Node 0 stands for   *)
(* all screens outside the app, which only web content shown within it     *)
(* lets the run stand on; observations are numbered as taken.              *)
(***************************************************************************)
EXTENDS SetupTrail, FiniteSets

CONSTANTS
  Actions,      \* device actions: two steps with the same one are a repeat
  States,       \* the states a node can be in
  MaxNode,      \* bound: the highest node number
  MaxObs,       \* bound: how many screenshots are taken
  MaxAudited,   \* bound: with how many of them an audit starts
  MaxSetup,     \* MAX_SETUP_ACTIONS
  JoinRepeated  \* whether entries of one action may come together on an edge

ASSUME EdgesAssumption ==
  /\ MaxNode \in Nat \ {0} /\ MaxObs \in Nat \ {0} /\ MaxAudited \in 1..MaxObs
  /\ MaxSetup \in Nat \ {0}
  /\ JoinRepeated \in BOOLEAN

VARIABLES
  phase,    \* "explore", then the audit's "split" and "move", then "done"; or "build"
  at,       \* the position: its node and the latest observation
  members,  \* the observations each node lists; a node without any is not there
  alias,    \* resolve_node_id
  next,     \* _next_id
  edges,    \* the edges: the lists that hold an entry per action
  log,      \* the transition records, in step order
  trail,    \* the setup trail
  apart,    \* the members outside their node's home that are still to be checked
  covered,  \* observed: the screens identified after system feedback covered an input
  screens   \* observed: the node and the state each observation was identified as

graphVars == <<members, alias, next>>
vars == <<phase, at, graphVars, edges, log, trail, apart, covered, screens>>

Outside == 0
Ids == 0..MaxNode
Obs == 1..MaxObs
Seen == Len(screens)
InApp == {n \in Ids \ {Outside} : members[n] # {}}
Screens == InApp \cup (IF next <= MaxNode THEN {next} ELSE {})
Growing == phase \in {"explore", "build"}

-----------------------------------------------------------------------------
(* Edges and their aligned lists.                                          *)
NoEdge == [actions |-> <<>>, setups |-> <<>>, anchors |-> <<>>,
           sources |-> <<>>, alternatives |-> <<>>]
EdgeOf(es, e) == IF e \in DOMAIN es THEN es[e] ELSE NoEdge
Put(es, e, edge) == [x \in DOMAIN es \cup {e} |-> IF x = e THEN edge ELSE es[x]]
IndexOf(edge, action) == SelectInSeq(edge.actions, LAMBDA a : a = action)

\* Fault: the list of anchors stays as long as it was.
JoinedWithoutAnchors(x, y) ==
  [actions |-> x.actions \o y.actions, setups |-> x.setups \o y.setups, sources |-> x.sources \o y.sources,
   anchors |-> IF x = NoEdge THEN y.anchors ELSE x.anchors,
   alternatives |-> x.alternatives \o y.alternatives]

\* _merge_edge_data
Joined(x, y) ==
  [actions |-> x.actions \o y.actions, setups |-> x.setups \o y.setups, anchors |-> x.anchors \o y.anchors,
   sources |-> x.sources \o y.sources, alternatives |-> x.alternatives \o y.alternatives]

\* The order of entries: <<e, i>> is entry i of edge e.
Before(x, y) ==
  \/ x[1][1] < y[1][1]
  \/ x[1][1] = y[1][1] /\ x[1][2] < y[1][2]
  \/ x[1] = y[1] /\ x[2] < y[2]
InOrder(entries) ==
  [k \in 1..Cardinality(entries) |->
     CHOOSE x \in entries : Cardinality({y \in entries : Before(y, x)}) = k - 1]

\* The given entries of es in order, as one edge: those _without_entries keeps, and those
\* _reassign_actions puts on another edge.
Entries(es, entries) ==
  LET slots == InOrder(entries)
  IN [actions |-> [k \in DOMAIN slots |-> es[slots[k][1]].actions[slots[k][2]]],
      setups |-> [k \in DOMAIN slots |-> es[slots[k][1]].setups[slots[k][2]]],
      anchors |-> [k \in DOMAIN slots |-> es[slots[k][1]].anchors[slots[k][2]]],
      sources |-> [k \in DOMAIN slots |-> es[slots[k][1]].sources[slots[k][2]]],
      alternatives |-> [k \in DOMAIN slots |-> es[slots[k][1]].alternatives[slots[k][2]]]]

\* A recorded setup: the steps it sends, and the step it was recorded before.
Known(setup) == setup.sent # Unknown
Length(setup) == Len(setup.sent)

\* Fault: a setup from another arrival replaces the recorded one.
RetainedFromAnywhere(edge, i, setup, anchor, source) ==
  IF ~Known(edge.setups[i])
  THEN [edge EXCEPT !.setups[i] = setup, !.anchors[i] = anchor, !.sources[i] = source]
  ELSE [edge EXCEPT !.setups[i] = IF Length(setup) < Length(@) THEN setup ELSE @]

\* _retain_preparation: the first known preparation stays, a shorter one from the same
\* arrival replaces it, and one shorter than all from another arrival is kept beside them.
Retained(edge, i, setup, anchor, source) ==
  LET preparations == << [setup |-> edge.setups[i], observation |-> edge.anchors[i]] >>
                        \o edge.alternatives[i]
      same == SelectInSeq(preparations, LAMBDA p : p.observation = anchor)
      kept == IF same # 0
              THEN IF Length(setup) < Length(preparations[same].setup)
                   THEN [preparations EXCEPT ![same].setup = setup] ELSE preparations
              ELSE IF /\ anchor # NoObservation
                      /\ \A j \in DOMAIN preparations :
                           Length(setup) < Length(preparations[j].setup)
                   THEN Append(preparations, [setup |-> setup, observation |-> anchor])
                   ELSE preparations
  IN IF ~Known(edge.setups[i])
     THEN [edge EXCEPT !.setups[i] = setup, !.anchors[i] = anchor, !.sources[i] = source]
     ELSE [edge EXCEPT !.setups[i] = kept[1].setup, !.alternatives[i] = Tail(kept),
                       !.sources[i] = IF kept[1] # preparations[1] THEN source ELSE @]

\* add_edge: a repeated action, which _count_repeat counts, may add a preparation.
AddEdge(es, e, action, setup, anchor, source) ==
  LET edge == EdgeOf(es, e)
      i == IndexOf(edge, action)
      new == [actions |-> <<action>>, setups |-> <<setup>>, anchors |-> <<anchor>>,
              sources |-> <<source>>, alternatives |-> << <<>> >>]
  IN Put(es, e, IF i = 0 THEN Joined(edge, new)
                ELSE IF Known(setup) THEN Retained(edge, i, setup, anchor, source)
                ELSE edge)

-----------------------------------------------------------------------------
(* Exploration.                                                            *)

\* _starting_position of a fresh graph: the first screen, whose state is known.
Init ==
  \E first \in {1, Outside}, s \in States :
    /\ phase \in {"explore", "build"} /\ at = [node |-> first, observation |-> 1]
    /\ members = [n \in Ids |-> IF n = first THEN {1} ELSE {}]
    /\ alias = [n \in Ids |-> n] /\ next = IF first = 1 THEN 2 ELSE 1
    /\ edges = <<>> /\ log = <<>> /\ trail = Begun(first, s, TRUE, 1)
    /\ apart = [n \in Ids |-> {}] /\ covered = {}
    /\ screens = << [node |-> first, state |-> s] >>

\* identify_state places observation o on node n, which may be new.
Place(ms, o, n) == [ms EXCEPT ![n] = @ \cup {o}]
Numbered(n) == next' = IF n = next THEN next + 1 ELSE next
Latest == Seen + 1
AnotherStep == Seen + 1 < MaxObs \* bound: what only a later step shows is left out
Shown(n, s) == [node |-> n, state |-> s]
Identify(n, s) ==
  /\ members' = Place(members, Latest, n) /\ Numbered(n)
  /\ at' = [node |-> n, observation |-> Latest]
  /\ screens' = Append(screens, Shown(n, s))
  /\ UNCHANGED <<phase, alias, apart>>

\* _recorded_setup: one that is too long is recorded as unknown.
Recorded(setup) == IF Len(setup) > MaxSetup THEN Unknown ELSE setup

\* _record_edge, with the setup that trail tr gives: the edge with its preparation, which
\* add_edge refuses out of ext_web, and the transition record, which is written all the same.
Record(tr, action, target) ==
  LET sent == Recorded(Setup(tr, alias, at.node))
      anchor == IF sent = Unknown THEN NoObservation
                ELSE SetupObservation(tr, alias, at.node)
  IN /\ edges' = IF at.node = Outside THEN edges
                  ELSE AddEdge(edges, <<at.node, target>>, action,
                               [sent |-> sent, step |-> Len(log) + 1], anchor, at.observation)
     /\ log' = Append(log, [before |-> at.observation, after |-> Latest, action |-> action,
                            from |-> at.node, to |-> target])

\* A step within the app, on trail tr.
TakeStep(tr, action, n, s, observation) ==
  /\ Seen < MaxObs /\ Record(tr, action, n) /\ Identify(n, s)
  /\ trail' = Stepped(tr, alias, Len(log) + 1, n, s, observation)
  /\ UNCHANGED covered

\* _record_in_app_step
Step(action, n, s) == phase = "explore" /\ TakeStep(trail, action, n, s, Latest)

\* A step that leads outside, and the screen the run comes back to.
LeaveApp(tr, action, n, s) ==
  /\ AnotherStep
  /\ Record(tr, action, Outside)
  /\ members' = Place(Place(members, Latest, Outside), Latest + 1, n) /\ Numbered(n)
  /\ at' = [node |-> n, observation |-> Latest + 1]
  /\ screens' = screens \o << Shown(Outside, s), Shown(n, s) >>
  /\ UNCHANGED <<phase, alias, apart, covered>>

\* _record_external_app_step, _record_external_web_step
StepOutside(action, n, s) ==
  /\ phase = "explore" /\ LeaveApp(trail, action, n, s)
  /\ trail' = Begun(n, s, FALSE, NoObservation)

\* _wait_at: the screenshot after a wait is not identified, so no node lists it.
Wait ==
  /\ Growing /\ AnotherStep
  /\ at' = [at EXCEPT !.observation = Latest]
  /\ screens' = Append(screens, screens[Seen])
  /\ UNCHANGED <<phase, graphVars, edges, log, trail, apart, covered>>

\* System feedback covers the input (SystemOverlayActionError): the run goes on from the
\* screen it then identifies, and the trail stays where it was.
OverlayStep(n, s) ==
  /\ phase = "explore" /\ AnotherStep /\ Identify(n, s)
  /\ covered' = covered \cup {Latest}
  /\ UNCHANGED <<edges, log, trail>>

\* navigate_to_node, the recovery from an outage and the start of a run: the position is
\* a screen just identified, and how the device came there is known of a replay only.
Arrive(n, s, known) ==
  /\ phase = "explore" /\ AnotherStep /\ (known => n # Outside) /\ Identify(n, s)
  /\ trail' = Begun(n, s, known, Latest)
  /\ UNCHANGED <<edges, log, covered>>

-----------------------------------------------------------------------------
(* merge_nodes.                                                            *)

\* _rewire_edges: the edges of the removed node join those of the kept one, incoming
\* edges first, then outgoing ones, then the loop.
Rewired(es, keep, remove) ==
  LET Old(x) == IF x = keep THEN {keep, remove} ELSE {x}
      Part(e, x) == IF x \in Old(e[1]) \X Old(e[2]) THEN EdgeOf(es, x) ELSE NoEdge
      Whole(e) == Joined(Joined(Joined(EdgeOf(es, e), Part(e, <<e[1], remove>>)),
                                Part(e, <<remove, e[2]>>)), Part(e, <<remove, remove>>))
      Name(x) == IF x = remove THEN keep ELSE x
  IN [e \in {<<Name(x[1]), Name(x[2])>> : x \in DOMAIN es} |-> Whole(e)]

Repeats(es) == \E e \in DOMAIN es : ~IsInjective(es[e].actions)

Merge(keep, remove) ==
  /\ Growing /\ keep < remove
  /\ JoinRepeated \/ ~Repeats(Rewired(edges, keep, remove))
  /\ edges' = Rewired(edges, keep, remove)
  /\ members' = [members EXCEPT ![keep] = @ \cup members[remove], ![remove] = {}]
  /\ alias' = [n \in Ids |-> IF alias[n] = remove THEN keep ELSE alias[n]]
  /\ at' = [at EXCEPT !.node = IF @ = remove THEN keep ELSE @]
  /\ UNCHANGED <<phase, next, log, trail, apart, covered, screens>>
-----------------------------------------------------------------------------
(* The audit's member checks.                                              *)

\* _transition_nodes: the nodes that list a transition's observations, or those it was
\* recorded with.
NodeOf(ms, o, recorded) ==
  LET listed == {n \in Ids : o \in ms[n]}
  IN IF listed = {} THEN alias[recorded] ELSE CHOOSE n \in listed : TRUE
Ends(ms, t) == <<NodeOf(ms, log[t].before, log[t].from), NodeOf(ms, log[t].after, log[t].to)>>

\* Fault: only the last transition with the action backs it.
BackingByLast(e, i) ==
  {t \in DOMAIN log : /\ Ends(members, t) = e /\ i = IndexOf(edges[e], log[t].action)
                      /\ \A u \in DOMAIN log : u > t => log[u].action # log[t].action}

\* _matched_transitions: the transitions behind entry i of edge e of node n; each backs
\* the first entry with its action.
Backing(e, i) ==
  {t \in DOMAIN log : Ends(members, t) = e /\ i = IndexOf(edges[e], log[t].action)}
EntriesOf(e) == {e} \X DOMAIN EdgeOf(edges, e).actions
Matched(n) ==
  {slot \in UNION {EntriesOf(e) : e \in {x \in DOMAIN edges : n \in {x[1], x[2]}}} :
     Backing(slot[1], slot[2]) # {}}

\* _reassign_actions and _drop_actions: once the members are ms, each matched entry is put
\* on every edge its transitions give, and taken off its own when none gives that one.
Reassigned(n, ms) ==
  LET Now(slot) == {Ends(ms, t) : t \in Backing(slot[1], slot[2])}
      Kept(e) == {slot \in EntriesOf(e) : slot \in Matched(n) => e \in Now(slot)}
      Gained(e) == {slot \in Matched(n) : e # slot[1] /\ e \in Now(slot)}
      touched == DOMAIN edges \cup UNION {Now(slot) : slot \in Matched(n)}
  IN [e \in {x \in touched : Kept(x) \cup Gained(x) # {}} |->
        Joined(Entries(edges, Kept(e)), Entries(edges, Gained(e)))]

\* _relocate: members of node from, and the actions they took, move to node to.
Relocate(from, group, to) ==
  LET ms == [members EXCEPT ![from] = @ \ group, ![to] = @ \cup group]
  IN /\ JoinRepeated \/ ~Repeats(Reassigned(from, ms))
     /\ members' = ms /\ edges' = Reassigned(from, ms)
     /\ Numbered(to)

\* member_checks: the members of every in-app node fall into groups, one of them its home.
\* What the exploration kept in memory, or showed, is no part of the audit.
BeginChecks(outside) ==
  /\ phase = "explore" /\ phase' = "split" /\ Seen <= MaxAudited
  /\ at' = [node |-> Outside, observation |-> 1] /\ covered' = {}
  /\ trail' = [sent |-> <<>>, arrivals |-> <<>>] /\ screens' = [o \in DOMAIN screens |-> screens[1]]
  /\ \A n \in InApp : ~(members[n] \subseteq outside)
  /\ apart' = [n \in Ids |-> IF n \in InApp THEN members[n] \cap outside ELSE {}]
  /\ UNCHANGED <<graphVars, edges, log>>

\* A group as large as home, and home's earliest member earlier, or smaller than home.
Smaller(group, home) ==
  \/ Cardinality(group) < Cardinality(home)
  \/ /\ Cardinality(group) = Cardinality(home)
     /\ \E o \in home : \A x \in group : o < x

\* split_members
Split(n, group) ==
  /\ phase = "split" /\ next <= MaxNode
  /\ Cardinality(group) > 1 /\ Smaller(group, members[n] \ apart[n])
  /\ Relocate(n, group, next) /\ apart' = [apart EXCEPT ![n] = @ \ group]
  /\ UNCHANGED <<phase, at, alias, log, trail, covered, screens>>

\* The move checks are asked once the splits are made.
BeginMoves ==
  /\ phase = "split" /\ phase' = "move"
  /\ UNCHANGED <<at, graphVars, edges, log, trail, apart, covered, screens>>

\* move_member
Move(n, o, to) ==
  /\ phase = "move" /\ to # n
  /\ Relocate(n, {o}, to) /\ apart' = [apart EXCEPT ![n] = @ \ {o}]
  /\ UNCHANGED <<phase, at, alias, log, trail, covered, screens>>

EndChecks ==
  /\ phase = "move" /\ phase' = "done" /\ apart' = [n \in Ids |-> {}]
  /\ UNCHANGED <<at, graphVars, edges, log, trail, covered, screens>>

Done == (phase = "done" \/ Seen = MaxObs) /\ UNCHANGED vars

Explore ==
  \E s \in States :
    \/ \E a \in Actions, n \in Screens : Step(a, n, s)
    \/ \E n \in Screens \cup {Outside} :
         \/ \E a \in Actions : StepOutside(a, n, s)
         \/ \E known \in BOOLEAN : Arrive(n, s, known)
         \/ OverlayStep(n, s)

Next ==
  \/ Explore
  \/ Wait
  \/ \E n, m \in InApp : Merge(n, m)
  \/ \E outside \in SUBSET UNION {members[n] : n \in InApp} : BeginChecks(outside)
  \/ \E n \in InApp : \E group \in SUBSET apart[n] : Split(n, group)
  \/ BeginMoves
  \/ \E n \in InApp : \E o \in apart[n], to \in Screens : Move(n, o, to)
  \/ EndChecks
  \/ Done

-----------------------------------------------------------------------------
(* Types: what every variable holds.                                       *)
Setups == [sent : {Unknown} \cup UNION {[1..n -> Obs] : n \in 0..MaxSetup}, step : Obs]
Preparations == [setup : {x \in Setups : Known(x)}, observation : Obs]
TypeOK ==
  /\ phase \in {"explore", "build", "split", "move", "done"}
  /\ at \in [node : Ids, observation : Obs] /\ covered \subseteq Obs
  /\ members \in [Ids -> SUBSET Obs] /\ alias \in [Ids -> Ids] /\ next \in 1..MaxNode + 1
  /\ DOMAIN edges \subseteq Ids \X Ids
  /\ \A e \in DOMAIN edges :
       /\ edges[e].actions \in Seq(Actions) /\ edges[e].sources \in Seq(Obs)
       /\ \A i \in DOMAIN edges[e].setups : edges[e].setups[i] \in Setups
       /\ edges[e].anchors \in Seq(Obs \cup {NoObservation})
       /\ \A i \in DOMAIN edges[e].alternatives :
            \A j \in DOMAIN edges[e].alternatives[i] :
              edges[e].alternatives[i][j] \in Preparations
  /\ \A t \in DOMAIN log :
       log[t] \in [before : Obs, after : Obs, action : Actions, from : Ids, to : Ids]
  /\ apart \in [Ids -> SUBSET Obs] /\ Seen \in Obs

(* What is saved loads again: _require_saved_fields refuses a node without  *)
(* members, an edge to a node that is not there or without actions, lists  *)
(* that do not hold one entry per action, and a preparation whose entry    *)
(* observation is no member of the graph.  A member also has one node.     *)
NodesHaveMembers ==
  /\ \A n \in Ids : members[n] # {} => alias[n] = n
  /\ \A n \in Ids : alias[n] < next => members[alias[n]] # {} \/ alias[n] = Outside
  /\ \A n, m \in Ids : n # m => members[n] \cap members[m] = {}
EdgesAreWhole ==
  \A e \in DOMAIN edges :
    /\ members[e[1]] # {} /\ members[e[2]] # {} /\ e[1] # Outside
    /\ edges[e].actions # <<>>
    /\ \A list \in DOMAIN edges[e] : Len(edges[e][list]) = Len(edges[e].actions)
AnchorsAreMembers ==
  \A e \in DOMAIN edges : \A i \in DOMAIN edges[e].actions :
    LET anchor == edges[e].anchors[i]
        preparations == edges[e].alternatives[i]
    IN /\ anchor # NoObservation =>
            Known(edges[e].setups[i]) /\ \E n \in Ids : anchor \in members[n]
       /\ \A j \in DOMAIN preparations :
            \E n \in Ids : preparations[j].observation \in members[n]
GraphLoads == NodesHaveMembers /\ EdgesAreWhole /\ AnchorsAreMembers

(* A setup leads where it says.  Sent from the screen the node was entered *)
(* with, its steps join up, each starting on a screen like the one the     *)
(* step before it reached, and the last reaches a screen like the one the  *)
(* action was sent on, however nodes were merged in between, and in a      *)
(* build as in exploration.  Only where system feedback covered an input   *)
(* on the way from that arrival to the action, none of this is certain.    *)
Alike(o, p) == /\ alias[screens[o].node] = alias[screens[p].node]
               /\ screens[o].state = screens[p].state
Chain(setup, anchor) ==
  LET first == IF setup.sent = <<>> THEN setup.step ELSE Head(setup.sent)
      Follows(t, u) == Alike(log[t].after, log[u].before)
  IN /\ anchor # NoObservation => Alike(anchor, log[first].before)
     /\ \A i \in 2..Len(setup.sent) : Follows(setup.sent[i - 1], setup.sent[i])
     /\ setup.sent # <<>> => Follows(setup.sent[Len(setup.sent)], setup.step)
Uncovered(setup, anchor) == \A o \in covered : ~(anchor < o /\ o <= log[setup.step].before)

RecordedPreparations ==
  {p \in UNION {UNION {{[setup |-> edges[e].setups[i], observation |-> edges[e].anchors[i]]}
                        \cup ToSet(edges[e].alternatives[i]) : i \in DOMAIN edges[e].actions} :
                e \in DOMAIN edges} : Known(p.setup)}
SetupsLeadToTheirAction ==
  Growing => \A p \in RecordedPreparations :
               Uncovered(p.setup, p.observation) => Chain(p.setup, p.observation)

(* SetupTrail says that a setup holds what "is in force when the action is *)
(* sent", so that it leads there, system feedback or not.                  *)
EverySetupIsInForce ==
  Growing => \A p \in RecordedPreparations : Chain(p.setup, p.observation)

(* No transition is lost: the action of each is on the edge between the    *)
(* nodes its screens belong to now, unless it was taken outside the app,   *)
(* although merges, splits and moves may bring several entries of one      *)
(* action together.                                                        *)
NoTransitionIsLost ==
  \A t \in DOMAIN log :
    LET e == Ends(members, t)
    IN e[1] # Outside => e \in DOMAIN edges /\ log[t].action \in ToSet(edges[e].actions)

(* The edges are the transitions: an action is on an edge exactly when one *)
(* took it between screens that now belong to the edge's nodes, the source *)
(* inside the app, after any merges, splits and moves.                     *)
Transitions ==
  INSTANCE TransitionGraph WITH
    log <- [t \in DOMAIN log |-> [source |-> Ends(members, t)[1], action |-> log[t].action,
                                  target |-> Ends(members, t)[2]]],
    relation <- UNION {{<<e[1], a, e[2]>> : a \in ToSet(edges[e].actions)} : e \in DOMAIN edges}
EdgesAreTheTransitions == Transitions!AbstractSpec
=============================================================================
