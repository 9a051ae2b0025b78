------------------------------ MODULE MCLubyWire ------------------------------
(* The networks of MCLubyGossip, for LubyWire. *)
EXTENDS MCLubyGossip, LubyWire
=============================================================================
