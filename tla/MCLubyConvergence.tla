-------------------------- MODULE MCLubyConvergence --------------------------
(* Small networks on which LubyConvergence is checked.  The elections do not *)
(* depend on the values, which are all 0.                                    *)
EXTENDS LubyConvergence

BothWays(E) == E \cup {<<e[2], e[1]>> : e \in E}

Line == BothWays({<<1, 2>>, <<2, 3>>})

Zero == [a \in Addr |-> 0]
=============================================================================
