------------------------------ MODULE UdpServer ------------------------------
(***************************************************************************)
(* The UDP listener of OpenFlowController: one socket, one greenthread     *)
(* that sorts datagrams by sender address into the receive queues of       *)
(* DatapathUDP objects, which it creates on demand, and the way those      *)
(* objects end: by close(), or because their receive loop ends.            *)
(*                                                                         *)
(* A datagram is the number of its arrival.  What a datapath does with one *)
(* is the subject of DatapathUDP; here it is handled, or handling raises.  *)
(***************************************************************************)
EXTENDS Integers, Sequences, FiniteSets

CONSTANTS
    Addrs,          \* addresses switches send from
    MaxRx,          \* _rx_q.maxsize, 1024 in the code
    MaxDps,         \* bound: datapath objects created in a behaviour
    MaxDatagrams,   \* bound: datagrams in a behaviour
    MaxCloses       \* calls of close() per datapath

ASSUME UdpServerAssumption ==
    /\ MaxRx \in Nat \ {0}
    /\ MaxDps \in Nat
    /\ MaxDatagrams \in Nat
    /\ MaxCloses \in Nat

Dps == 1..MaxDps

VARIABLES
    udp_datapaths,  \* address -> datapath, or 0
    created,        \* datapaths 1..created exist
    address,        \* of each datapath that exists
    state,          \* "live" or "dead" (DEAD_DISPATCHER), or "none"
    rx_q,           \* the receive queue of each datapath
    recv,           \* where its _recv_loop is
    closing,        \* a close() has not called _cleanup_cb yet
    closes,         \* number of close() calls
    building,       \* the datapath whose constructor the server is in, or 0
    server,         \* the datapath whose rx_q.put() blocks the server, or 0
    arrived,        \* number of datagrams read from the socket
    handled         \* history: datagrams each datapath took from its queue

dpVars == <<created, address, state>>
closeVars == <<closing, closes>>
loopVars == <<recv, handled>>
serverVars == <<building, server, arrived>>
vars == <<udp_datapaths, dpVars, rx_q, loopVars, closeVars, serverVars>>

Init ==
    /\ udp_datapaths = [a \in Addrs |-> 0]
    /\ created = 0
    /\ address = <<>>
    /\ state = [d \in Dps |-> "none"]
    /\ rx_q = [d \in Dps |-> <<>>]
    /\ recv = [d \in Dps |-> "spawned"]
    /\ closing = {}
    /\ closes = [d \in Dps |-> 0]
    /\ building = 0
    /\ server = 0
    /\ arrived = 0
    /\ handled = [d \in Dps |-> <<>>]

-----------------------------------------------------------------------------
(* The server greenthread waits for the next datagram.                     *)
Listening == building = 0 /\ server = 0

(* enqueue_datagram(): dropped when d is dead, appended when there is      *)
(* room, else the server blocks in put().                                  *)
EnqueueDatagram(d, n) ==
    \/ state[d] = "dead" /\ UNCHANGED <<rx_q, server>>
    \/ /\ state[d] = "live" /\ Len(rx_q[d]) < MaxRx
       /\ rx_q' = [rx_q EXCEPT ![d] = Append(@, n)]
       /\ UNCHANGED server
    \/ /\ state[d] = "live" /\ Len(rx_q[d]) >= MaxRx
       /\ server' = d
       /\ UNCHANGED rx_q

(* udp_server_loop reads a datagram from an address it knows.              *)
ReceiveKnown(a) ==
    /\ Listening
    /\ arrived < MaxDatagrams
    /\ udp_datapaths[a] # 0
    /\ arrived' = arrived + 1
    /\ EnqueueDatagram(udp_datapaths[a], arrived + 1)
    /\ UNCHANGED <<udp_datapaths, dpVars, loopVars, closeVars, building>>

(* A faulty variant: the new datapath does not keep its address.           *)
ReceiveNewUnnamed(a) ==
    LET d == created + 1 IN
    /\ Listening
    /\ arrived < MaxDatagrams
    /\ udp_datapaths[a] = 0
    /\ d <= MaxDps
    /\ arrived' = arrived + 1
    /\ created' = d
    /\ state' = [state EXCEPT ![d] = "live"]
    /\ building' = d
    /\ UNCHANGED <<udp_datapaths, address, rx_q, loopVars, closeVars, server>>

(* udp_server_loop reads a datagram from an address it does not know: the  *)
(* constructor of a new datapath sets its state, and tells the observers,  *)
(* which may block.                                                        *)
ReceiveNew(a) ==
    LET d == created + 1 IN
    /\ Listening
    /\ arrived < MaxDatagrams
    /\ udp_datapaths[a] = 0
    /\ d <= MaxDps
    /\ arrived' = arrived + 1
    /\ created' = d
    /\ address' = Append(address, a)
    /\ state' = [state EXCEPT ![d] = "live"]
    /\ building' = d
    /\ UNCHANGED <<udp_datapaths, rx_q, loopVars, closeVars, server>>

(* A faulty variant: the new datapath does not enter the dictionary.       *)
MapNewForgets ==
    /\ building # 0
    /\ EnqueueDatagram(building, arrived)
    /\ building' = 0
    /\ UNCHANGED <<udp_datapaths, dpVars, loopVars, closeVars, arrived>>

(* The constructor returns: the datapath enters the dictionary, serve() is *)
(* spawned, and the datagram goes to its queue.                            *)
MapNew ==
    /\ building # 0
    /\ udp_datapaths' = [udp_datapaths EXCEPT ![address[building]] = building]
    /\ EnqueueDatagram(building, arrived)
    /\ building' = 0
    /\ UNCHANGED <<dpVars, loopVars, closeVars, arrived>>

(* A faulty variant: the put() must catch the moment one place is free.    *)
UnblockOnEdge ==
    /\ server # 0
    /\ Len(rx_q[server]) = MaxRx - 1
    /\ rx_q' = [rx_q EXCEPT ![server] = Append(@, arrived)]
    /\ server' = 0
    /\ UNCHANGED <<udp_datapaths, dpVars, loopVars, closeVars, building, arrived>>

(* There is room again: the blocked put() goes on.                         *)
Unblock ==
    /\ server # 0
    /\ Len(rx_q[server]) < MaxRx
    /\ rx_q' = [rx_q EXCEPT ![server] = Append(@, arrived)]
    /\ server' = 0
    /\ UNCHANGED <<udp_datapaths, dpVars, loopVars, closeVars, building, arrived>>

-----------------------------------------------------------------------------
(* serve() runs for the first time and enters _recv_loop, which tests the  *)
(* state before it takes anything.                                         *)
ServeStarts(d) ==
    /\ d \in 1..created /\ d # building
    /\ recv[d] = "spawned"
    /\ recv' = [recv EXCEPT ![d] = IF state[d] = "dead" THEN "done" ELSE "get"]
    /\ UNCHANGED <<udp_datapaths, dpVars, rx_q, handled, closeVars, serverVars>>

(* A faulty variant: the queue is last in, first out.                      *)
GetLatest(d) ==
    /\ recv[d] = "get"
    /\ rx_q[d] # <<>>
    /\ rx_q' = [rx_q EXCEPT ![d] = SubSeq(@, 1, Len(@) - 1)]
    /\ handled' = [handled EXCEPT ![d] = Append(@, rx_q[d][Len(rx_q[d])])]
    /\ recv' = [recv EXCEPT ![d] = "handle"]
    /\ UNCHANGED <<udp_datapaths, dpVars, closeVars, serverVars>>

(* _recv_loop of d takes a datagram.                                       *)
Get(d) ==
    /\ recv[d] = "get"
    /\ rx_q[d] # <<>>
    /\ rx_q' = [rx_q EXCEPT ![d] = Tail(@)]
    /\ handled' = [handled EXCEPT ![d] = Append(@, Head(rx_q[d]))]
    /\ recv' = [recv EXCEPT ![d] = "handle"]
    /\ UNCHANGED <<udp_datapaths, dpVars, closeVars, serverVars>>

(* It is done with the datagram and tests the state.                       *)
HandleEnds(d) ==
    /\ recv[d] = "handle"
    /\ recv' = [recv EXCEPT ![d] = IF state[d] = "dead" THEN "done" ELSE "get"]
    /\ UNCHANGED <<udp_datapaths, dpVars, rx_q, handled, closeVars, serverVars>>

(* Handling raises: serve() ends, but nobody calls close().                *)
HandleRaises(d) ==
    /\ recv[d] = "handle"
    /\ recv' = [recv EXCEPT ![d] = "done"]
    /\ UNCHANGED <<udp_datapaths, dpVars, rx_q, handled, closeVars, serverVars>>

(* close() sets the state, and tells the observers, which may block.       *)
Close(d) ==
    /\ state[d] = "live"
    /\ closes[d] < MaxCloses
    /\ closes' = [closes EXCEPT ![d] = @ + 1]
    /\ state' = [state EXCEPT ![d] = "dead"]
    /\ closing' = closing \cup {d}
    /\ UNCHANGED <<udp_datapaths, created, address, rx_q, loopVars, serverVars>>

(* _udp_cleanup_datapath(): the entry of the address goes, whoever it is.  *)
CleanupDatapath(d) == udp_datapaths' = [udp_datapaths EXCEPT ![address[d]] = 0]

(* close() goes on to _cleanup_cb.                                         *)
CloseEnds(d) ==
    /\ d \in closing
    /\ closing' = closing \ {d}
    /\ CleanupDatapath(d)
    /\ UNCHANGED <<dpVars, rx_q, loopVars, closes, serverVars>>

(* close() of a dead datapath: set_state() returns at once.                *)
CloseAgain(d) ==
    /\ state[d] = "dead"
    /\ closes[d] < MaxCloses
    /\ closes' = [closes EXCEPT ![d] = @ + 1]
    /\ CleanupDatapath(d)
    /\ UNCHANGED <<dpVars, rx_q, loopVars, closing, serverVars>>

Next ==
    \/ \E a \in Addrs : ReceiveKnown(a) \/ ReceiveNew(a)
    \/ MapNew
    \/ Unblock
    \/ \E d \in Dps : \/ ServeStarts(d) \/ Get(d) \/ HandleEnds(d) \/ HandleRaises(d)
                      \/ Close(d) \/ CloseEnds(d) \/ CloseAgain(d)

Spec == Init /\ [][Next]_vars

(* The hub runs every greenthread that is ready, and handlers return.      *)
Fairness ==
    /\ WF_vars(Unblock)
    /\ \A d \in Dps : /\ WF_vars(ServeStarts(d))
                      /\ WF_vars(Get(d))
                      /\ WF_vars(HandleEnds(d) \/ HandleRaises(d))

FairSpec == Spec /\ Fairness

-----------------------------------------------------------------------------
(* Types of the variables.                                                 *)
TypeOK ==
    /\ udp_datapaths \in [Addrs -> 0..MaxDps]
    /\ created \in 0..MaxDps
    /\ address \in Seq(Addrs) /\ Len(address) = created
    /\ state \in [Dps -> {"none", "live", "dead"}]
    /\ rx_q \in [Dps -> Seq(1..MaxDatagrams)]
    /\ recv \in [Dps -> {"spawned", "get", "handle", "done"}]
    /\ closing \in SUBSET Dps
    /\ closes \in [Dps -> 0..MaxCloses]
    /\ building \in 0..MaxDps
    /\ server \in 0..MaxDps
    /\ arrived \in 0..MaxDatagrams
    /\ handled \in [Dps -> Seq(1..MaxDatagrams)]

(* A live datapath is the one its address is mapped to once its constructor*)
(* has returned, so that it gets the datagrams and the address has no      *)
(* other: whatever close() and the server interleave, unless a datapath of *)
(* the address was closed twice.                                           *)
LiveIsMapped ==
    \A d \in 1..created :
        state[d] = "live" =>
            \/ udp_datapaths[address[d]] = d
            \/ building = d
            \/ \E e \in 1..created : address[e] = address[d] /\ closes[e] > 1

(* The datagrams the server has read for datapath d: those its receive     *)
(* loop took, those that wait in its queue, and the one the server still   *)
(* holds.                                                                  *)
Given(d) == handled[d] \o rx_q[d] \o IF d \in {building, server} THEN <<arrived>> ELSE <<>>

(* A datapath takes its datagrams in the order of their arrival, and every *)
(* datagram is given to one datapath: when a datapath of an address is     *)
(* replaced, all that its predecessor was given had arrived before all     *)
(* that it is given.  The order in which two receive loops get to run is   *)
(* not determined: a successor may handle its first datagram before the    *)
(* predecessor has handled its last.                                       *)
ArrivalOrder ==
    \A d, e \in 1..created :
        \A i \in 1..Len(Given(d)), j \in 1..Len(Given(e)) :
            (d < e /\ address[d] = address[e]) \/ (d = e /\ i < j)
                => Given(d)[i] < Given(e)[j]

(* A full queue delays the server only as long as the receive loop of that *)
(* datapath runs: it gets on with the other switches, or the loop ended.   *)
ServerGoesOn == \A d \in Dps : server = d ~> (server = 0 \/ recv[d] = "done")

(* udp_server_loop: "Each unique (ip, port) is treated as a separate       *)
(* datapath transport."  So two live datapaths never share an address.     *)
OneDatapathPerAddress ==
    \A d, e \in 1..created : state[d] = "live" /\ state[e] = "live" /\ d # e
                                => address[d] # address[e]

(* enqueue_datagram: "Drop on overload (best-effort)."  So a full receive  *)
(* queue never stops the server.                                           *)
OverloadIsDropped == server # 0 ~> server = 0
=============================================================================
