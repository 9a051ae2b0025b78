------------------------------ MODULE MCUdpLuby ------------------------------
(* Two nodes that run LubyMIS over UdpGossip. *)
EXTENDS UdpLuby

Pair == {<<1, 2>>, <<2, 1>>}
Values == [a \in Node |-> 8 * a]
=============================================================================
