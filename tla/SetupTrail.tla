----------------------------- MODULE SetupTrail -----------------------------
(***************************************************************************)
(* SetupTrail (utils/graph_manager.py): the device actions sent since the  *)
(* trail began and the states they left each node in, from which the setup *)
(* of an action is read.                                                   *)
(*                                                                         *)
(* A trail is a record: sent, the exploration steps whose actions it       *)
(* holds, and arrivals, the nodes it arrived at, each with the states it   *)
(* found the node in (where in sent each state's actions start) and the    *)
(* observation it was entered with.  alias is what resolve_node_id answers.*)
(***************************************************************************)
EXTENDS Integers, Sequences, SequencesExt

Unknown == <<0>>   \* a setup nobody knows (None); steps are numbered from 1
NoObservation == 0 \* None where an observation is expected

\* begin: states is empty when how the device came to the node is unknown.
Begun(node, state, known, observation) ==
  [sent |-> <<>>,
   arrivals |-> << [node |-> node,
                    states |-> IF known THEN << [start |-> 0, state |-> state] >> ELSE <<>>,
                    observation |-> IF known THEN observation ELSE NoObservation] >>]

\* _position: the latest arrival at node, 0 for none.
Position(trail, alias, node) ==
  SelectLastInSeq(trail.arrivals, LAMBDA arrival : alias[arrival.node] = alias[node])

\* Fault: arriving on a node again keeps the nodes that were reached from it.
SteppedKeepingLater(trail, alias, step, reached, state, observation) ==
  LET sent == Append(trail.sent, step)
      found == [start |-> Len(sent), state |-> state]
      position == Position(trail, alias, reached)
  IN IF position = 0
     THEN [sent |-> sent,
           arrivals |-> Append(trail.arrivals, [node |-> reached, states |-> <<found>>,
                                                observation |-> observation])]
     ELSE [sent |-> sent,
           arrivals |-> IF trail.arrivals[position].states = <<>> THEN trail.arrivals
                        ELSE [trail.arrivals EXCEPT ![position].states = Append(@, found)]]

\* step: the actions of a step, and the node they led to.
Stepped(trail, alias, step, reached, state, observation) ==
  LET sent == Append(trail.sent, step)
      found == [start |-> Len(sent), state |-> state]
      position == Position(trail, alias, reached)
      kept == SubSeq(trail.arrivals, 1, position)
  IN IF position = 0
     THEN [sent |-> sent,
           arrivals |-> Append(trail.arrivals, [node |-> reached, states |-> <<found>>,
                                                observation |-> observation])]
     ELSE [sent |-> sent,
           arrivals |-> IF kept[position].states = <<>> THEN kept
                        ELSE [kept EXCEPT ![position].states = Append(@, found)]]

\* _spans_in_force: the spans of sent that lead from the first state to the last,
\* without those between a state and the next return to it.
LedOn(found, before, after) ==
  LET back == SelectInSeq(found.path, LAMBDA state : state = after.state)
  IN IF back = 0
     THEN [spans |-> Append(found.spans, <<before.start, after.start>>),
           path |-> Append(found.path, after.state)]
     ELSE [spans |-> SubSeq(found.spans, 1, back - 1), path |-> SubSeq(found.path, 1, back)]
Spans(states) ==
  LET found[i \in 1..Len(states)] ==
        IF i = 1 THEN [spans |-> <<>>, path |-> <<states[1].state>>]
        ELSE LedOn(found[i - 1], states[i - 1], states[i])
  IN found[Len(states)].spans

\* setup
Setup(trail, alias, node) ==
  LET position == Position(trail, alias, node)
  IN IF position = 0 \/ trail.arrivals[position].states = <<>> THEN Unknown
     ELSE LET spans == Spans(trail.arrivals[position].states)
          IN FlattenSeq([i \in DOMAIN spans |-> SubSeq(trail.sent, spans[i][1] + 1, spans[i][2])])

\* setup_observation
SetupObservation(trail, alias, node) ==
  LET position == Position(trail, alias, node)
  IN IF position = 0 THEN NoObservation ELSE trail.arrivals[position].observation
=============================================================================
