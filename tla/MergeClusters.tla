--------------------------- MODULE MergeClusters ---------------------------
(***************************************************************************)
(* verify_merge_proposals (utils/graph_manager.py): the proposed pairs,    *)
(* sorted most alike first, are answered in the rounds of PairRounds, then *)
(* each pair inside a cluster of "same" answers is merged, in the order    *)
(* the pairs were proposed, following the merges made before it.           *)
(* A node is its number: the lower-numbered node of a pair is kept.        *)
(***************************************************************************)
EXTENDS PairRounds

ASSUME NodeNumbers == Nodes \subseteq Nat

VARIABLES
  alias,    \* _node_aliases: the node a removed node was merged into
  status    \* what each pair's result says, and the node it says was kept

mergeVars == <<pairs, asked, unanswered, deduced, questions, rounds, done,
               alias, status>>

Pending == [status |-> "pending", kept |-> 0]

\* resolve_node_id: follow the merges.
Resolve[n \in Nodes] == IF alias[n] = n THEN n ELSE Resolve[alias[n]]

\* Fault: the nodes of pairs without an answer are left out.
AnsweredNodes ==
  {n \in Nodes : \E i \in Idx : asked[i] # "open" /\ n \in {pairs[i][1], pairs[i][2]}}

\* PairRounds.clusters: the clusters of the nodes of the asked pairs.
AskedNodes ==
  {n \in Nodes : \E i \in Idx : (asked[i] # "open" \/ i \in unanswered)
                                /\ n \in {pairs[i][1], pairs[i][2]}}

\* Fault: a pair without an answer joins its nodes.
ClusterWithoutAnswers(n) == {m \in AskedNodes : Joined(Asked("same") \cup unanswered, n, m)}

Cluster(n) == {m \in AskedNodes : Joined(Asked("same"), n, m)}

Least(S) == CHOOSE n \in S : \A m \in S : n <= m

MergeInit ==
  /\ Init
  /\ alias = [n \in Nodes |-> n]
  /\ status = [i \in Idx |-> Pending]

AskRounds == ~done /\ Next /\ UNCHANGED <<alias, status>>

\* The rounds asked in the order of likeness; the loop of _merge_clusters goes
\* through the pairs in the order they were proposed, which may be any other.
\* It looks a pair's clusters up without a default.
Unsettled(i) ==
  /\ done /\ status[i] = Pending
  /\ {pairs[i][1], pairs[i][2]} \subseteq AskedNodes

\* Fault: a pair without an answer is left out.
KeepSeparateAnswered(i) ==
  /\ Unsettled(i) /\ i \notin unanswered
  /\ pairs[i][2] \notin Cluster(pairs[i][1])
  /\ status' = [status EXCEPT ![i] = [status |-> "kept_separate", kept |-> 0]]
  /\ UNCHANGED <<vars, alias>>

KeepSeparate(i) ==
  /\ Unsettled(i)
  /\ pairs[i][2] \notin Cluster(pairs[i][1])
  /\ status' = [status EXCEPT ![i] = [status |-> "kept_separate", kept |-> 0]]
  /\ UNCHANGED <<vars, alias>>

\* Faults: the nodes are not resolved first, and the first-named node is kept.
MergePairUnresolved(i) ==
  LET ends == {pairs[i][1], pairs[i][2]}
  IN
  /\ Unsettled(i)
  /\ pairs[i][2] \in Cluster(pairs[i][1])
  /\ status' = [status EXCEPT ![i] = [status |-> "merged",
                                      kept |-> Least(Cluster(pairs[i][1]))]]
  /\ alias' = [n \in Nodes |-> IF n \in ends THEN Least(ends) ELSE alias[n]]
  /\ UNCHANGED vars

MergePairKeepingTheFirst(i) ==
  LET ends == {Resolve[pairs[i][1]], Resolve[pairs[i][2]]}
  IN
  /\ Unsettled(i)
  /\ pairs[i][2] \in Cluster(pairs[i][1])
  /\ status' = [status EXCEPT ![i] = [status |-> "merged",
                                      kept |-> Least(Cluster(pairs[i][1]))]]
  /\ alias' = [n \in Nodes |-> IF n \in ends THEN Resolve[pairs[i][1]] ELSE alias[n]]
  /\ UNCHANGED vars

\* merge_nodes deletes the removed node and makes its id resolve to the kept one.
MergePair(i) ==
  LET ends == {Resolve[pairs[i][1]], Resolve[pairs[i][2]]}
      keep == Least(ends)
  IN
  /\ Unsettled(i)
  /\ pairs[i][2] \in Cluster(pairs[i][1])
  /\ status' = [status EXCEPT ![i] = [status |-> "merged",
                                      kept |-> Least(Cluster(pairs[i][1]))]]
  /\ alias' = [n \in Nodes |-> IF n \in ends THEN keep ELSE alias[n]]
  /\ UNCHANGED vars

Settled == done /\ \A i \in Idx : status[i] # Pending
MergesDone == Settled /\ UNCHANGED mergeVars

MergeNext ==
  \/ AskRounds
  \/ \E i \in Idx : KeepSeparate(i) \/ MergePair(i)
  \/ MergesDone

MergeSpec == MergeInit /\ [][MergeNext]_mergeVars /\ WF_mergeVars(MergeNext)

-----------------------------------------------------------------------------
(* The state of the rounds and of the merges.                              *)
MergeTypeOK ==
  /\ TypeOK
  /\ alias \in [Nodes -> Nodes]
  /\ status \in [Idx -> [status : {"pending", "merged", "kept_separate"},
                         kept : Nodes \cup {0}]]

(* Two nodes the verifier told apart, asked or deduced, never become one   *)
(* node, whatever order the merges are made in.                            *)
NeverMergesDifferent ==
  \A i \in Idx : Answer(i, deduced) = "different" =>
                   Resolve[pairs[i][1]] # Resolve[pairs[i][2]]

(* Once every pair is handled, the report tells the truth: a merged pair's *)
(* nodes both resolve to the node it says was kept, that node was itself   *)
(* never removed, and a pair kept separate still is two nodes.             *)
ReportMatchesGraph ==
  Settled =>
    \A i \in Idx :
      IF status[i].status = "merged"
      THEN /\ Resolve[pairs[i][1]] = status[i].kept
           /\ Resolve[pairs[i][2]] = status[i].kept
           /\ alias[status[i].kept] = status[i].kept
      ELSE Resolve[pairs[i][1]] # Resolve[pairs[i][2]]

(* Every proposed pair gets its status, those that were only deduced or    *)
(* never answered included, and no cluster is missing for one.             *)
EveryPairIsSettled == <>Settled
=============================================================================
