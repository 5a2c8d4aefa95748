-------------------------- MODULE MCMergeClusters --------------------------
(***************************************************************************)
(* Lists of up to MaxPairs pairs of four nodes, proposed in every order,   *)
(* and short lists that name a pair twice (two proposals whose nodes an    *)
(* earlier merge joined).  The first pair is 1-2, 1-4, 2-3 or 3-4, so the  *)
(* numbers, which decide what a merge keeps, fall on every side of the     *)
(* first answers.                                                          *)
(***************************************************************************)
EXTENDS MergeClusters
CONSTANTS MaxPairs, MaxRepeated

MCNodes == 1..4
MCEdges == {e \in MCNodes \X MCNodes : e[1] < e[2]}
Distinct(list) == \A i, j \in DOMAIN list : list[i] = list[j] => i = j
MCPairLists ==
  UNION {{list \in [1..n -> MCEdges] :
            /\ list[1] \in {<<1, 2>>, <<1, 4>>, <<2, 3>>, <<3, 4>>}
            /\ n <= MaxRepeated \/ Distinct(list)}
           : n \in 1..MaxPairs}
=============================================================================
