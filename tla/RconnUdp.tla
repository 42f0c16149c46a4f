------------------------------- MODULE RconnUdp -------------------------------
(***************************************************************************)
(* The controller connection of Open vSwitch over UDP: the reconnecting    *)
(* rconn, the vconn handshake below it, and vconn-udp with its one-message *)
(* transmit buffer on a connected datagram socket.                         *)
(*                                                                         *)
(* All of it runs in one thread under rc->mutex; what varies is what the   *)
(* socket and the timers do.  A step of rconn_run() is an action.          *)
(* A datagram socket takes a message whole or not at all.  So the branch   *)
(* of vconn_udp_send() for a partial send, the only one that returns       *)
(* EAGAIN, is not taken, rconn's txq is empty whenever the mutex is free,  *)
(* and it is not a variable here.                                          *)
(***************************************************************************)
EXTENDS Naturals, Sequences

CONSTANTS
    MaxConns,   \* bound: connections opened in a behaviour
    MaxMsgs,    \* bound: messages rconn_send() accepts, and error replies
    MaxProbes   \* bound: inactivity probes

ASSUME RconnAssumption == MaxConns \in Nat /\ MaxMsgs \in Nat /\ MaxProbes \in Nat

VARIABLES
    state,      \* of the rconn: "BACKOFF", "CONNECTING", "ACTIVE" or "IDLE"
    vcs,        \* of the vconn: VCS_..., or "none" when there is no vconn
    conn,       \* number of the current connection; each has its own port
    probing,    \* rc->probe_interval is not 0
    txbuf,      \* vconn_udp's txbuf, as a sequence of at most one message
    count,      \* messages made so far
    probes,     \* inactivity probes made so far
    wire,       \* messages the socket took, in order
    freed,      \* messages passed to ofpbuf_delete()
    twice,      \* messages passed to ofpbuf_delete() again after that
    used,       \* messages written, queued and read after they were freed
    crashed,    \* the allocator noticed and aborted the process
    down        \* the controller is gone for good

bufVars == <<txbuf, wire, freed>>
madeVars == <<count, probes>>
badVars == <<twice, used, crashed>>
vars == <<state, vcs, conn, probing, bufVars, madeVars, badVars, down>>

(* Message 0 of a connection is its HELLO.                                 *)
Message == [conn : 1..MaxConns, n : 0..(MaxMsgs + MaxProbes)]

HelloOf(c) == [conn |-> c, n |-> 0]
Hello == HelloOf(conn)
NextMessage == [conn |-> conn, n |-> count + 1]

Buffered == {txbuf[i] : i \in 1..Len(txbuf)}
OnWire == {wire[i] : i \in 1..Len(wire)}

Connected == state \in {"ACTIVE", "IDLE"}

(* rconn_create(), then rconn_connect(): the udp stream class says that it *)
(* needs no probes, so the probe interval becomes 0.                       *)
Init ==
    /\ state = "CONNECTING"
    /\ vcs = "SEND_HELLO"
    /\ conn = 1
    /\ probing = FALSE
    /\ txbuf = <<>>
    /\ count = 0
    /\ probes = 0
    /\ wire = <<>>
    /\ freed = {}
    /\ twice = {}
    /\ used = {}
    /\ crashed = FALSE
    /\ down = FALSE

-----------------------------------------------------------------------------
(* A faulty variant: a full socket makes txbuf a queue.                    *)
UdpSendQueues(m) ==
    \/ wire' = Append(wire, m) /\ freed' = freed \cup {m} /\ UNCHANGED txbuf
    \/ txbuf' = Append(txbuf, m) /\ UNCHANGED <<freed, wire>>

(* A faulty variant: the message that is replaced in txbuf leaks.          *)
UdpSendLeaks(m) ==
    \/ wire' = Append(wire, m) /\ freed' = freed \cup {m} /\ UNCHANGED txbuf
    \/ txbuf' = <<m>> /\ UNCHANGED <<freed, wire>>

(* vconn_udp_send() when it returns 0: the socket takes the message, or it *)
(* is full and the message replaces the one that waits in txbuf.           *)
UdpSend(m) ==
    \/ /\ wire' = Append(wire, m)
       /\ freed' = freed \cup {m}
       /\ UNCHANGED txbuf
    \/ /\ txbuf' = <<m>>
       /\ freed' = freed \cup Buffered
       /\ UNCHANGED wire

(* vconn_udp_send() fails: it frees the message, and so does its caller,   *)
(* which the allocator may or may not notice.                              *)
FreedByBoth(m) ==
    /\ twice' = twice \cup {m}
    /\ crashed' \in BOOLEAN
    /\ UNCHANGED used

(* try_send() when vconn_udp_send() fails: before it is freed again, the   *)
(* freed message gets its header back and goes to the front of txq, from   *)
(* where flush_queue() takes it and reads the header.                      *)
Requeued(m) ==
    /\ twice' = twice \cup {m}
    /\ used' = used \cup {m}
    /\ crashed' \in BOOLEAN

(* disconnect(): vconn_close() frees txbuf, flush_queue() the messages ms. *)
Disconnect(ms) ==
    /\ state' = "BACKOFF"
    /\ vcs' = "none"
    /\ txbuf' = <<>>
    /\ freed' = freed \cup Buffered \cup ms
    /\ UNCHANGED wire

(* A connected datagram socket gets messages of the controller only after  *)
(* the controller has heard from its port.                                 *)
Heard == ~down /\ \E m \in OnWire : m.conn = conn

-----------------------------------------------------------------------------
(* run_BACKOFF: the backoff is over and a new socket is opened.  When      *)
(* vconn_open() fails, the state is BACKOFF again: no step.                *)
Reconnect ==
    /\ ~crashed
    /\ state = "BACKOFF"
    /\ conn < MaxConns
    /\ conn' = conn + 1
    /\ state' = "CONNECTING"
    /\ vcs' = "SEND_HELLO"
    /\ UNCHANGED <<probing, bufVars, madeVars, badVars, down>>

(* A faulty variant: UDP has no connection, so no HELLO is waited for.     *)
SendHelloConnects ==
    /\ ~crashed
    /\ vcs = "SEND_HELLO"
    /\ UdpSend(Hello)
    /\ vcs' = "CONNECTED"
    /\ state' = "ACTIVE"
    /\ UNCHANGED <<conn, probing, madeVars, badVars, down>>

(* vcs_send_hello.                                                         *)
SendHello ==
    /\ ~crashed
    /\ vcs = "SEND_HELLO"
    /\ UdpSend(Hello)
    /\ vcs' = "RECV_HELLO"
    /\ UNCHANGED <<state, conn, probing, madeVars, badVars, down>>

SendHelloFails ==
    /\ ~crashed
    /\ vcs = "SEND_HELLO"
    /\ FreedByBoth(Hello)
    /\ Disconnect({Hello})
    /\ UNCHANGED <<conn, probing, madeVars, down>>

(* vcs_recv_hello receives a HELLO with a common version.                  *)
RecvHello ==
    /\ ~crashed
    /\ vcs = "RECV_HELLO"
    /\ Heard
    /\ vcs' = "CONNECTED"
    /\ state' = "ACTIVE"
    /\ UNCHANGED <<conn, probing, bufVars, madeVars, badVars, down>>

(* vcs_recv_hello gets another message or an error, or run_CONNECTING      *)
(* times out.                                                              *)
ConnectFails ==
    /\ ~crashed
    /\ vcs = "RECV_HELLO"
    /\ Disconnect({})
    /\ UNCHANGED <<conn, probing, madeVars, badVars, down>>

(* vcs_recv_hello receives a HELLO without a common version: vcs_send_error*)
(* sends the error, then the vconn is disconnected.                        *)
SendError(m) ==
    /\ state' = "BACKOFF"
    /\ vcs' = "none"
    /\ txbuf' = <<>>
    /\ freed' = freed \cup Buffered \cup {m}
    /\ wire' \in {wire, Append(wire, m)}

RecvHelloIncompatible ==
    /\ ~crashed
    /\ vcs = "RECV_HELLO"
    /\ Heard
    /\ count < MaxMsgs
    /\ count' = count + 1
    /\ \/ SendError(NextMessage) /\ UNCHANGED badVars
       \/ Disconnect({NextMessage}) /\ FreedByBoth(NextMessage)
    /\ UNCHANGED <<conn, probing, probes, down>>

(* rconn_send: the message goes straight to the vconn.                     *)
Send ==
    /\ ~crashed
    /\ Connected
    /\ count < MaxMsgs
    /\ count' = count + 1
    /\ UdpSend(NextMessage)
    /\ UNCHANGED <<state, vcs, conn, probing, probes, badVars, down>>

(* try_send() fails and disconnects, which flushes txq.                    *)
SendFails ==
    /\ ~crashed
    /\ Connected
    /\ count < MaxMsgs
    /\ count' = count + 1
    /\ Requeued(NextMessage)
    /\ Disconnect({NextMessage})
    /\ UNCHANGED <<conn, probing, probes, down>>

(* A faulty variant: the probe is sent, but the state stays ACTIVE.        *)
ProbeStaysActive ==
    /\ ~crashed
    /\ state = "ACTIVE"
    /\ probing
    /\ probes < MaxProbes
    /\ probes' = probes + 1
    /\ count' = count + 1
    /\ UdpSend(NextMessage)
    /\ UNCHANGED <<state, vcs, conn, probing, badVars, down>>

(* A faulty variant: the state changes after the echo request was sent,    *)
(* also when the send has disconnected.                                    *)
ProbeThenIdle ==
    /\ ~crashed
    /\ state = "ACTIVE"
    /\ probing
    /\ probes < MaxProbes
    /\ probes' = probes + 1
    /\ count' = count + 1
    /\ state' = "IDLE"
    /\ \/ UdpSend(NextMessage) /\ UNCHANGED <<vcs, badVars>>
       \/ /\ vcs' = "none"
          /\ txbuf' = <<>>
          /\ freed' = freed \cup Buffered \cup {NextMessage}
          /\ Requeued(NextMessage)
          /\ UNCHANGED wire
    /\ UNCHANGED <<conn, probing, down>>

(* run_ACTIVE: nothing was received for the probe interval, which must not *)
(* be 0.  The state changes before the echo request is sent, as the send   *)
(* may disconnect.                                                         *)
Probe ==
    /\ ~crashed
    /\ state = "ACTIVE"
    /\ probing
    /\ probes < MaxProbes
    /\ probes' = probes + 1
    /\ count' = count + 1
    /\ \/ state' = "IDLE" /\ UdpSend(NextMessage) /\ UNCHANGED <<vcs, badVars>>
       \/ Disconnect({NextMessage}) /\ Requeued(NextMessage)
    /\ UNCHANGED <<conn, probing, down>>

(* run_IDLE: no answer to the probe either.  If the interval has become 0  *)
(* meanwhile, the time is up at once.                                      *)
ProbeFails ==
    /\ ~crashed
    /\ state = "IDLE"
    /\ Disconnect({})
    /\ UNCHANGED <<conn, probing, madeVars, badVars, down>>

(* ofconn_reconfigure(), when the configuration of the bridge is applied   *)
(* again.  It needs an ofconn, which exists while the rconn is connected   *)
(* (and briefly longer, where it is the same as just before).  The probe   *)
(* interval is set or cleared; a new DSCP value makes rconn_reconnect()    *)
(* disconnect.                                                             *)
Reconfigure ==
    /\ ~crashed
    /\ Connected
    /\ probing' \in BOOLEAN
    /\ \/ UNCHANGED <<state, vcs, bufVars>>
       \/ Disconnect({})
    /\ UNCHANGED <<conn, madeVars, badVars, down>>

(* rconn_recv gets a message.                                              *)
Recv ==
    /\ ~crashed
    /\ Connected
    /\ Heard
    /\ state' = "ACTIVE"
    /\ UNCHANGED <<vcs, conn, probing, bufVars, madeVars, badVars, down>>

(* rconn_recv gets an error, such as ECONNREFUSED.                         *)
RecvFails ==
    /\ ~crashed
    /\ Connected
    /\ Disconnect({})
    /\ UNCHANGED <<conn, probing, madeVars, badVars, down>>

(* vconn_recv gets a message of another version: it is suppressed, and an  *)
(* error reply sent; no failure of that send is passed on.                 *)
RecvBadVersion ==
    /\ ~crashed
    /\ Connected
    /\ Heard
    /\ count < MaxMsgs
    /\ count' = count + 1
    /\ \/ UdpSend(NextMessage) /\ UNCHANGED badVars
       \/ /\ freed' = freed \cup {NextMessage}
          /\ FreedByBoth(NextMessage)
          /\ UNCHANGED <<txbuf, wire>>
    /\ UNCHANGED <<state, vcs, conn, probing, probes, down>>

(* A faulty variant: txbuf is kept after it was sent.                      *)
RunKeeps ==
    /\ ~crashed
    /\ txbuf # <<>>
    /\ wire' = Append(wire, txbuf[1])
    /\ UNCHANGED <<state, vcs, conn, probing, txbuf, freed, madeVars, badVars, down>>

(* vconn_udp_run flushes txbuf: the socket takes the message or fails.     *)
Run ==
    /\ ~crashed
    /\ txbuf # <<>>
    /\ txbuf' = <<>>
    /\ freed' = freed \cup Buffered
    /\ wire' \in {wire, Append(wire, txbuf[1])}
    /\ UNCHANGED <<state, vcs, conn, probing, madeVars, badVars, down>>

ControllerFails ==
    /\ ~down
    /\ down' = TRUE
    /\ UNCHANGED <<state, vcs, conn, probing, bufVars, madeVars, badVars>>

Next ==
    \/ Reconnect \/ SendHello \/ SendHelloFails
    \/ RecvHello \/ ConnectFails \/ RecvHelloIncompatible
    \/ Send \/ SendFails \/ Probe \/ ProbeFails \/ Reconfigure
    \/ Recv \/ RecvFails \/ RecvBadVersion
    \/ Run \/ ControllerFails

Spec == Init /\ [][Next]_vars

(* ovs-vswitchd keeps calling rconn_run(), and timers fire.  Messages of   *)
(* the controller put the probe off, so it must come only once those have  *)
(* ended.  A message that is sent does not put it off.                     *)
Fairness ==
    /\ WF_vars(down /\ Probe)
    /\ WF_vars(ProbeFails)

FairSpec == Spec /\ Fairness

-----------------------------------------------------------------------------
(* Types of the variables.                                                 *)
TypeOK ==
    /\ state \in {"BACKOFF", "CONNECTING", "ACTIVE", "IDLE"}
    /\ vcs \in {"none", "SEND_HELLO", "RECV_HELLO", "CONNECTED"}
    /\ conn \in 1..MaxConns
    /\ probing \in BOOLEAN
    /\ txbuf \in Seq(Message) /\ Len(txbuf) <= 1
    /\ count \in 0..(MaxMsgs + MaxProbes)
    /\ probes \in 0..MaxProbes
    /\ wire \in Seq(Message)
    /\ freed \in SUBSET Message
    /\ twice \in SUBSET Message
    /\ used \in SUBSET Message
    /\ crashed \in BOOLEAN
    /\ down \in BOOLEAN

(* rconn and vconn agree: a message is only sent on a connection whose     *)
(* handshake is complete, and no vconn survives a disconnect.              *)
LayersAgree ==
    /\ Connected <=> vcs = "CONNECTED"
    /\ state = "BACKOFF" <=> vcs = "none"
    /\ vcs = "none" => txbuf = <<>>

(* The HELLO is the first message of its connection on the wire, although  *)
(* it may wait in txbuf and later messages are sent past txbuf.            *)
HelloIsFirst ==
    \A j \in 1..Len(wire) :
        wire[j].n # 0 => \E i \in 1..(j - 1) : wire[i].conn = wire[j].conn /\ wire[i].n = 0

(* No message leaves twice: not from txbuf and directly, nor on two        *)
(* connections.                                                            *)
SentOnce == \A i, j \in 1..Len(wire) : wire[i] = wire[j] => i = j

(* No buffer leaks, and txbuf never holds a freed one: a message, HELLO    *)
(* included, waits in txbuf, or it has been freed, whether the socket took *)
(* it, it was replaced in txbuf, or the connection ended.  What callers do *)
(* to a message that the socket refused is CallerRetainsOwnership below.   *)
FreedWhenGone ==
    /\ OnWire \subseteq freed
    /\ Buffered \cap freed = {}
    /\ \A n \in 1..count : \E m \in freed \cup Buffered : m.n = n
    /\ \A c \in 1..conn :
          (c = conn /\ vcs = "SEND_HELLO") \/ HelloOf(c) \in freed \cup Buffered

(* A controller that is gone is noticed if probes are configured and stay  *)
(* so: the switch leaves the connection, whatever it sends meanwhile and   *)
(* however many probes were answered before, as long as the bound leaves   *)
(* it a probe to send.  A new rconn has no probe interval over UDP, so     *)
(* without a later Reconfigure nothing of the kind holds.                  *)
LossIsNoticed ==
    (down /\ probing /\ probes < MaxProbes) ~> (~Connected \/ ~probing \/ crashed)

(* vconn-provider.h: "Returns a positive errno value on failure, in which  *)
(* case the caller retains ownership of 'msg'."  So the caller may use it, *)
(* and is the only one to free it.                                         *)
CallerRetainsOwnership == twice = {} /\ used = {}
=============================================================================
