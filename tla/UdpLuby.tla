------------------------------- MODULE UdpLuby -------------------------------
(***************************************************************************)
(* UdpGossip with the data of class LubyMIS: the program that dmc.cc runs. *)
(* It implements LubyGossip, the network of nodes that start together,     *)
(* send whenever they like and read their packets in order.                *)
(***************************************************************************)
EXTENDS UdpGossip

CONSTANT Value   \* Value[a] is m_value of node a, scaled

ASSUME DrawAssumption == Value \in [Node -> Int]

\* The packets among the first n events that arrive on link e.
UnderWay(queue, e) ==
  LET packets[n \in 0..Len(queue)] ==
        IF n = 0 THEN <<>>
        ELSE IF Arrives(queue[n], e) THEN Append(packets[n - 1], queue[n].packet)
        ELSE packets[n - 1]
  IN  packets

\* The packets a sent to b that b has not read, the lost ones first.
NotYetRead(e) == unread[e] \o UnderWay(events, e)[Len(events)]

\* The levels of every node.  LubyGossip starts when all nodes have started.
Levels ==
  [a \in Node |-> IF a \in Started THEN m_dmc_data[a].m_levels
                  ELSE SetMyIpv4Address(m_dmc_data[a], a).m_levels]
Link == [e \in Edge |-> NotYetRead(e)]

\* LubyGossip with its theorems, so that they can be cited of the program.
Network == INSTANCE LubyGossip_proofs WITH
  Addr <- Node, Bounded <- FALSE, MaxInFlight <- 0, MaxRepDist <- 0, MaxLevels <- 0,
  levels <- Levels, link <- Link

(* LubyMIS as a DmcData. *)

\* LubyMISFactory::Create: a LubyMIS that has no address yet.
LubyCreated(a) == [m_myaddr |-> 0, m_value |-> Value[a], m_levels |-> << Network!NewLevel(0) >>]

\* LubyMIS::SetMyIpv4Address
LubyReady(data, a) ==
  [data EXCEPT !.m_myaddr = a, !.m_levels[1].rep = a, !.m_levels[1].rep_value = data.m_value]

\* LubyMIS::MarshalTo
LubyPacket(data) == Network!Packet(data.m_levels)

\* LubyMIS::MarshalFrom
LubyReceived(data, packet) ==
  {[data EXCEPT !.m_levels = Network!Received(data.m_myaddr, @, packet, lucky)] : lucky \in BOOLEAN}

-----------------------------------------------------------------------------
\* Whatever the timers, the order of events and the end of the simulation do,
\* the nodes and the packets between them behave as LubyGossip, of which all
\* that is proved is therefore true here (ProgramIsSafe): no packet is read
\* twice, out of order or by a node that does not know its address, and no
\* node sends before it knows it.
ImplementsNetwork == Network!Spec
=============================================================================
