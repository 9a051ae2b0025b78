------------------------------ MODULE UdpGossip ------------------------------
(***************************************************************************)
(* The life of the gossiping application on every node, from the start of  *)
(* the simulation to its end (udp-gossip.cc, udp-gossip-helper.cc and the   *)
(* part of dmc.cc that runs the simulator).                                *)
(*                                                                         *)
(* ns-3 keeps the events that are to happen in the order of their times,   *)
(* and those of one time in the order in which they were scheduled, and    *)
(* runs them one by one.  What is left open is what rand() returns, which  *)
(* peer a node sends to, and how long a packet takes.                      *)
(*                                                                         *)
(* The data that is gossiped is a DmcData (dmc-data.h), an interface of    *)
(* which this module knows the operations only.                            *)
(***************************************************************************)
EXTENDS Integers, Sequences, FiniteSets, SequencesExt

CONSTANTS
  Node, Edge,             \* the nodes, numbered as they are created, and the links
  Second,                 \* the length of a second
  SecsToRun,              \* the values that secsToRun may have
  Waits,                  \* the times that rand() % 100 may give
  Delays,                 \* the times a packet may take over a link
  MaxUnderWay,            \* bound: packets under way after which no wait is 0
  Asserts,                \* whether the build checks NS_ASSERT_MSG
  Create(_),              \* DmcDataFactory::Create, for a node
  SetMyIpv4Address(_, _), \* data that has been told its address
  MarshalTo(_),           \* the packet that data makes
  MarshalFrom(_, _)       \* what data may become of a packet, a set

ASSUME NodeAssumption == IsFiniteSet(Node) /\ Node = 1..Cardinality(Node)
ASSUME LinkAssumption ==
  /\ Edge \subseteq Node \X Node
  /\ \A e \in Edge : e[1] # e[2] /\ <<e[2], e[1]>> \in Edge
ASSUME TimeAssumption ==
  /\ Second \in Nat \ {0} /\ SecsToRun \subseteq Nat
  /\ Waits \subseteq Nat /\ Delays \subseteq Nat

VARIABLES
  now,              \* Simulator::Now()
  events,           \* the events that are to happen, in their order
  m_num_peers,      \* defined for the nodes that have assigned it
  m_recv_socket,    \* the nodes whose m_recv_socket is open and calls HandleRead
  m_send_sockets,   \* m_send_sockets[a] holds the peers to which a has a socket
  m_sendEvent,      \* m_sendEvent[a] is the number of the event it identifies
  m_dmc_data,
  unread,           \* unread[e] holds the packets that no socket read (history)
  destroyed         \* Simulator::Destroy has run

vars == <<now, events, m_num_peers, m_recv_socket, m_send_sockets, m_sendEvent,
          m_dmc_data, unread, destroyed>>

app == <<m_num_peers, m_recv_socket, m_send_sockets, m_sendEvent>>

-----------------------------------------------------------------------------
(* Simulator::Schedule and Simulator::Cancel *)

\* An event comes after those that happen before it or at the same time.
Schedule(queue, event) ==
  InsertAt(queue, 1 + Max({0} \cup {i \in 1..Len(queue) : queue[i].at <= event.at}), event)

\* The places of the sends of node a that are to happen, and their numbers.
Sends(queue, a) == {i \in 1..Len(queue) : queue[i].run = "Send" /\ queue[i].node = a}
Pending(queue, a) == {queue[i].id : i \in Sends(queue, a)}

\* A number that identifies an event of node a, unlike those it has used.
NewId(queue, a) ==
  CHOOSE id \in 1..(Len(queue) + 2) : id \notin Pending(queue, a) \cup {m_sendEvent[a]}

Cancel(queue, a, id) ==
  IF id \in Pending(queue, a)
  THEN RemoveAt(queue, CHOOSE i \in Sends(queue, a) : queue[i].id = id)
  ELSE queue

-----------------------------------------------------------------------------
(* dmc.cc: the applications are installed, started at 1 s and stopped after    *)
(* secsToRun seconds; when Simulator::Run is called every node schedules both. *)

\* Faulty variant of StartAndStop: the nodes start one after the other.
StartInTurn(queue, a, secs) ==
  Schedule(Schedule(queue, [at |-> a * Second, run |-> "StartApplication", node |-> a]),
           [at |-> (secs + 3) * Second, run |-> "StopApplication", node |-> a])

StartAndStop(queue, a, secs) ==
  Schedule(Schedule(queue, [at |-> Second, run |-> "StartApplication", node |-> a]),
           [at |-> (secs + 1) * Second, run |-> "StopApplication", node |-> a])

\* What the nodes 1..n have scheduled.
Installed(secs) ==
  LET queue[n \in 0..Cardinality(Node)] ==
        IF n = 0 THEN <<>> ELSE StartAndStop(queue[n - 1], n, secs)
  IN  queue

Init ==
  /\ now = 0
  /\ \E secs \in SecsToRun : events = Installed(secs)[Cardinality(Node)]
  /\ m_num_peers = [a \in {} |-> 0]
  /\ m_recv_socket = {}
  /\ m_send_sockets = [a \in Node |-> {}]
  /\ m_sendEvent = [a \in Node |-> 0]
  /\ m_dmc_data = [a \in Node |-> Create(a)]
  /\ unread = [e \in Edge |-> <<>>]
  /\ destroyed = FALSE

\* The simulator runs the next event, which is a call of handler.
Runs(handler) ==
  /\ events # <<>>
  /\ Head(events).run = handler
  /\ now' = Head(events).at
  /\ UNCHANGED destroyed

-----------------------------------------------------------------------------
(* UdpGossip *)

\* Faulty variant of ScheduleTransmit: the event is not kept.
ScheduleTransmitUnheld(queue, a, dt) ==
  LET id == NewId(queue, a)
  IN  /\ events' = Schedule(queue, [at |-> now' + dt, run |-> "Send", node |-> a, id |-> id])
      /\ UNCHANGED m_sendEvent

ScheduleTransmit(queue, a, dt) ==
  LET id == NewId(queue, a)
  IN  /\ events' = Schedule(queue, [at |-> now' + dt, run |-> "Send", node |-> a, id |-> id])
      /\ m_sendEvent' = [m_sendEvent EXCEPT ![a] = id]

\* The other ends of the links of node a.
Peers(a) == {b \in Node : <<a, b>> \in Edge}

\* A node that has no link has no address.
GetSomeAddrOf(a) == IF Peers(a) = {} THEN 0 ELSE a

AssertionFails(a) == Asserts /\ GetSomeAddrOf(a) = 0

\* Faulty variant of StartApplication: the data is not told the address.
StartApplicationSilently(a) ==
  /\ Runs("StartApplication") /\ Head(events).node = a
  /\ ~AssertionFails(a)
  /\ m_recv_socket' = m_recv_socket \cup {a}
  /\ m_num_peers' = [b \in DOMAIN m_num_peers \cup {a} |->
                       IF b = a THEN Cardinality(Peers(a)) ELSE m_num_peers[b]]
  /\ m_send_sockets' = [m_send_sockets EXCEPT ![a] = Peers(a)]
  /\ \E dt \in Waits : ScheduleTransmit(Tail(events), a, dt)
  /\ UNCHANGED <<m_dmc_data, unread>>

StartApplication(a) ==
  /\ Runs("StartApplication") /\ Head(events).node = a
  /\ ~AssertionFails(a)
  /\ m_dmc_data' = [m_dmc_data EXCEPT ![a] = SetMyIpv4Address(@, GetSomeAddrOf(a))]
  /\ m_recv_socket' = m_recv_socket \cup {a}
  /\ m_num_peers' = [b \in DOMAIN m_num_peers \cup {a} |->
                       IF b = a THEN Cardinality(Peers(a)) ELSE m_num_peers[b]]
  /\ m_send_sockets' = [m_send_sockets EXCEPT ![a] = Peers(a)]
  /\ \E dt \in Waits : ScheduleTransmit(Tail(events), a, dt)
  /\ UNCHANGED unread

\* An event is a packet that arrives on link e.
Arrives(event, e) == event.run = "HandleRead" /\ event.edge = e

\* A packet is put on link e and overtakes none.
Transmitted(queue, e, packet, delay) ==
  Schedule(queue, [at |-> now' + delay, run |-> "HandleRead", edge |-> e, packet |-> packet])

OvertakesNone(queue, e, delay) ==
  \A i \in 1..Len(queue) : Arrives(queue[i], e) => queue[i].at <= now' + delay

\* The bound on packets sent at one time.
WithinBound(dt) ==
  dt = 0 => Cardinality({i \in 1..Len(events) : events[i].run = "HandleRead"}) < MaxUnderWay

\* It takes a peer to divide by their number and a socket to send through.
Send(a) ==
  /\ Runs("Send") /\ Head(events).node = a
  /\ \E b \in Peers(a), dt \in Waits, delay \in Delays :
       /\ m_num_peers[a] > 0
       /\ b \in m_send_sockets[a]
       /\ OvertakesNone(Tail(events), <<a, b>>, delay)
       /\ WithinBound(dt)
       /\ \E queue \in {Transmitted(Tail(events), <<a, b>>, MarshalTo(m_dmc_data[a]), delay)} :
            ScheduleTransmit(queue, a, dt)
  /\ UNCHANGED <<m_num_peers, m_recv_socket, m_send_sockets, m_dmc_data, unread>>

HandleRead(e) ==
  /\ Runs("HandleRead") /\ Head(events).edge = e
  /\ e[2] \in m_recv_socket
  /\ events' = Tail(events)
  /\ \E data \in MarshalFrom(m_dmc_data[e[2]], Head(events).packet) :
       m_dmc_data' = [m_dmc_data EXCEPT ![e[2]] = data]
  /\ UNCHANGED <<app, unread>>

\* Nobody listens on the port, and the network drops the packet.
NotRead(e) ==
  /\ Runs("HandleRead") /\ Head(events).edge = e
  /\ e[2] \notin m_recv_socket
  /\ events' = Tail(events)
  /\ unread' = [unread EXCEPT ![e] = Append(@, Head(events).packet)]
  /\ UNCHANGED <<app, m_dmc_data>>

\* Faulty variants of StopApplication: the timer stays; the receiver stays; the
\* last of the sockets stays.
StopApplicationKeepingTimer(a) ==
  /\ Runs("StopApplication") /\ Head(events).node = a
  /\ m_recv_socket' = m_recv_socket \ {a}
  /\ m_send_sockets' = [m_send_sockets EXCEPT ![a] = {}]
  /\ events' = Tail(events)
  /\ UNCHANGED <<m_num_peers, m_sendEvent, m_dmc_data, unread>>
StopApplicationKeepingReceiver(a) ==
  /\ Runs("StopApplication") /\ Head(events).node = a
  /\ m_send_sockets' = [m_send_sockets EXCEPT ![a] = {}]
  /\ events' = Cancel(Tail(events), a, m_sendEvent[a])
  /\ UNCHANGED <<m_num_peers, m_recv_socket, m_sendEvent, m_dmc_data, unread>>

StopApplicationOneShort(a) ==
  /\ Runs("StopApplication") /\ Head(events).node = a
  /\ m_recv_socket' = m_recv_socket \ {a}
  /\ \E b \in Peers(a) : m_send_sockets' = [m_send_sockets EXCEPT ![a] = {b}]
  /\ events' = Cancel(Tail(events), a, m_sendEvent[a])
  /\ UNCHANGED <<m_num_peers, m_sendEvent, m_dmc_data, unread>>

\* The sockets are closed up to m_num_peers.
StopApplication(a) ==
  /\ Runs("StopApplication") /\ Head(events).node = a
  /\ a \in DOMAIN m_num_peers
  /\ m_recv_socket' = m_recv_socket \ {a}
  /\ m_send_sockets' = [m_send_sockets EXCEPT ![a] = {}]
  /\ events' = Cancel(Tail(events), a, m_sendEvent[a])
  /\ UNCHANGED <<m_num_peers, m_sendEvent, m_dmc_data, unread>>

\* Simulator::Run has returned; every UdpGossip is deleted, and its destructor
\* goes through the sockets up to m_num_peers.
Destroy ==
  /\ events = <<>>
  /\ ~destroyed
  /\ DOMAIN m_num_peers = Node
  /\ destroyed' = TRUE
  /\ m_recv_socket' = {}
  /\ m_send_sockets' = [a \in Node |-> {}]
  /\ UNCHANGED <<now, events, m_num_peers, m_sendEvent, m_dmc_data, unread>>

\* The next event fails an assertion, divides by zero or may call through a null
\* socket.
Crashes ==
  /\ events # <<>>
  /\ \/ Head(events).run = "StartApplication" /\ AssertionFails(Head(events).node)
     \/ /\ Head(events).run = "Send"
        /\ LET a == Head(events).node
           IN  Peers(a) = {} \/ m_send_sockets[a] # Peers(a)

\* The process ends: main returns or a signal kills it.
Ended == destroyed \/ Crashes

Exit == Ended /\ UNCHANGED vars

Next ==
  \/ \E a \in Node : StartApplication(a) \/ Send(a) \/ StopApplication(a)
  \/ \E e \in Edge : HandleRead(e) \/ NotRead(e)
  \/ Destroy
  \/ Exit

\* The simulator runs the next event as long as there is one.
Spec == Init /\ [][Next]_vars /\ WF_vars(Next)

-----------------------------------------------------------------------------
(* Properties. *)

Started == DOMAIN m_num_peers

\* The nodes whose StopApplication is to happen after their StartApplication.
Running == {a \in Started : \E i \in 1..Len(events) :
                              events[i].run = "StopApplication" /\ events[i].node = a}

\* Types.
TypeOK ==
  /\ now \in Nat
  /\ \A i \in 1..Len(events) : events[i].at >= now
  /\ Started \subseteq Node /\ \A a \in Started : m_num_peers[a] = Cardinality(Peers(a))
  /\ m_recv_socket \subseteq Started
  /\ \A a \in Node : m_send_sockets[a] \in {{}, Peers(a)}

\* A running node has exactly one send ahead, and it is the one that
\* StopApplication will cancel ("Simulator::Cancel(m_sendEvent)",
\* udp-gossip.cc:273); a node that is not running has none.
OneTimer ==
  \A a \in Node : Pending(events, a) = IF a \in Running THEN {m_sendEvent[a]} ELSE {}

\* A send that is to happen finds a socket to every peer it may pick: Send never
\* calls through a null Ptr<Socket> (udp-gossip.cc:303), although StopApplication
\* clears the sockets of a timer that is still set.
SocketsForSend ==
  \A a \in Node : Pending(events, a) # {} =>
    a \in Started /\ Cardinality(m_send_sockets[a]) = m_num_peers[a]

\* "pick a peer to send to" (udp-gossip.cc:301): a node that sends has one.
PeerToPick ==
  events # <<>> /\ Head(events).run = "Send" => m_num_peers[Head(events).node] > 0

\* Two nodes never start at such different times that one misses a packet of
\* the other: a packet is lost only to a node that has been stopped.
LostOnlyToStopped ==
  \A e \in Edge : unread[e] # <<>> => e[2] \in Started \ Running

\* What is open when Simulator::Run returns, and the m_num_peers that the
\* destructors read: no socket and no uninitialized value (udp-gossip.cc:77).
CleanAtEnd ==
  events = <<>> => m_recv_socket = {} /\ \A a \in Node : a \in Started /\ m_send_sockets[a] = {}

\* Simulator::Run and main return, although every send schedules the next one.
Returns == <>destroyed
=============================================================================
