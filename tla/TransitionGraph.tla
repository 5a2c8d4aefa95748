-------------------------- MODULE TransitionGraph --------------------------
(***************************************************************************)
(* What a graph of an explored app promises, whatever lists it is kept in: *)
(* an action is on the edge between two nodes exactly when a transition of *)
(* the log took it between screens that now belong to these nodes.  No     *)
(* edge leads out of the node that stands for all screens outside the app. *)
(***************************************************************************)
EXTENDS Integers, Sequences

CONSTANT Outside

VARIABLES
  log,      \* the transitions: the action and the nodes their screens belong to now
  relation  \* the actions on the edges: triples of source, action, target

abstractVars == <<log, relation>>

RelationOf(l) ==
  {<<l[i].source, l[i].action, l[i].target>> : i \in {j \in DOMAIN l : l[j].source # Outside}}

AbstractInit == log = <<>> /\ relation = {}

\* A transition is taken: nothing else of the log changes.
Take ==
  /\ Len(log') = Len(log) + 1
  /\ SubSeq(log', 1, Len(log)) = log
  /\ relation' = RelationOf(log')

\* Screens change nodes, as in a merge, a split or a move: every action goes along.
Regroup ==
  /\ Len(log') = Len(log)
  /\ \A i \in DOMAIN log : log'[i].action = log[i].action
  /\ relation' = RelationOf(log')

AbstractSpec == AbstractInit /\ [][Take \/ Regroup]_abstractVars
=============================================================================
