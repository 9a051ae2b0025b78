-------------------------- MODULE MCNeighbourGossip --------------------------
(* A line of three nodes: the one in the middle tells two degrees.           *)
EXTENDS NeighbourGossip

Line == {<<1, 2>>, <<2, 1>>, <<2, 3>>, <<3, 2>>}
=============================================================================
