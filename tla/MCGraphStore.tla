---------------------------- MODULE MCGraphStore ----------------------------
(* Three step ids, and one more screenshot, so that a number is reused;    *)
(* two starts put a crash on both sides of a load.                         *)
EXTENDS GraphStore
MCIds == 0..2
=============================================================================
