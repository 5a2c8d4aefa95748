----------------------------- MODULE MCExplore -----------------------------
(* Three in-app nodes are enough for a merge, a replay elsewhere, and a walk *)
(* that leaves a node and comes back to it.                                *)
EXTENDS Explore
MCNodes == 1..3
=============================================================================
