----------------------------- MODULE DatapathUDP -----------------------------
(***************************************************************************)
(* The reliability layer of Ryu's DatapathUDP: the XIDs it allocates, the  *)
(* table _pending_msgs of messages that await a reply, the retransmission  *)
(* loop, the echo loop that detects a dead switch, and the receive loop    *)
(* with its duplicate filter.  The peer is a switch behind a network that  *)
(* loses, duplicates and reorders datagrams.                               *)
(*                                                                         *)
(* Greenthreads switch only where an eventlet primitive may block.  In the *)
(* receive loop that is get() and send_event_to_observers(); in the        *)
(* retransmission loop sleep() and sendto(); in the send loop get() and    *)
(* sendto(), which blocks, if it does, before the datagram leaves.         *)
(* send_q is the channel of Outbox: SendQueue refines it to semaphore and  *)
(* queue.                                                                  *)
(***************************************************************************)
EXTENDS Integers, Sequences, SeqWindow

CONSTANTS
    MAX_XID,            \* largest XID; 2^32 - 1 in the code
    StartXids,          \* the values random.randint(0, MAX_XID) may return
    MAX_RETRANSMITS,    \* 3 in the code
    MaxUnreplied,       \* CONF.maximum_unreplied_echo_requests, 0 by default
    MaxEcho,            \* bound: echo requests in a behaviour
    MaxRequests,        \* bound: other messages sent in a behaviour
    SwitchXids,         \* XIDs of messages the switch sends unasked
    Parts               \* parts of the reply to a request (multipart)

Xids == 0..MAX_XID

ASSUME DatapathAssumption ==
    /\ MAX_XID \in Nat
    /\ StartXids \subseteq Xids
    /\ MAX_RETRANSMITS \in Nat
    /\ MaxUnreplied \in Nat
    /\ MaxEcho \in Nat
    /\ MaxRequests \in Nat
    /\ SwitchXids \subseteq Xids
    /\ Parts \in Nat \ {0}
    /\ MaxEcho + MaxRequests <= MAX_XID     \* no XID is used twice

VARIABLES
    dead,       \* state = DEAD_DISPATCHER
    xid,        \* the XID allocated last
    echoes,     \* number of echo requests made
    requests,   \* number of other messages made
    send_q,     \* messages on their way to the socket; see Outbox
    sendOpen,   \* send_q is not None
    pending,    \* _pending_msgs: XID -> retransmit_count, or None
    overdue,    \* pending XIDs with now - send_time > RETRANSMIT_TIMEOUT
    retransmit, \* where _retransmit_loop is
    snapshot,   \* its to_retransmit: XID -> count when collected, or None
    echo,       \* where _echo_request_loop is
    unreplied,  \* unreplied_echo_requests
    seen,       \* _recv_seq_seen
    recv,       \* where _recv_loop is
    msg,        \* the message it handles, as a sequence of at most one
    silent,     \* the switch has failed
    toSwitch,   \* datagrams sent to the switch and not ruled out yet
    toRyu,      \* datagrams sent to the controller and not ruled out yet
    copies,     \* history: XID -> datagrams that left the socket for it
    gone,       \* history: XIDs that have left _pending_msgs
    taken,      \* history: messages the receive loop took
    dispatched, \* history: messages handed to observers and handlers
    redone      \* history: nonzero XIDs dispatched more than once

xidVars == <<xid, echoes, requests>>
sendVars == <<send_q, sendOpen>>
pendVars == <<pending, overdue, gone>>
loopVars == <<retransmit, snapshot>>
echoVars == <<echo, unreplied>>
recvVars == <<seen, recv, msg, taken, dispatched, redone>>
netVars == <<silent, toSwitch, toRyu>>
vars == <<dead, xidVars, sendVars, pendVars, loopVars, echoVars, recvVars,
          netVars, copies>>

None == -1

(* What the controller sends: the XID, the kind, and whether send() gets a *)
(* track_xid.                                                              *)
Outgoing == [xid : Xids, kind : {"echo", "request"}, track : BOOLEAN]

(* What the switch sends: the parts of a reply, or a message of its own.   *)
Incoming == [xid : Xids, kind : {"echo_reply", "reply", "own"}, part : 1..Parts]

Init ==
    /\ dead = FALSE
    /\ xid \in StartXids
    /\ echoes = 0
    /\ requests = 0
    /\ send_q = <<>>
    /\ sendOpen = TRUE
    /\ pending = [x \in Xids |-> None]
    /\ overdue = {}
    /\ retransmit = "sleep"
    /\ snapshot = [x \in Xids |-> None]
    /\ echo = IF MaxUnreplied = 0 THEN "done" ELSE "run"
    /\ unreplied = {}
    /\ seen = {}
    /\ recv = "get"
    /\ msg = <<>>
    /\ silent = FALSE
    /\ toSwitch = {}
    /\ toRyu = {}
    /\ copies = [x \in Xids |-> 0]
    /\ gone = {}
    /\ taken = {}
    /\ dispatched = {}
    /\ redone = {}

-----------------------------------------------------------------------------
(* Sending.                                                                *)

(* A faulty variant of NextXid: the counter is not masked.                 *)
NextXidUnmasked == xid + 1

(* set_xid(): the counter wraps to 0.                                      *)
NextXid == (xid + 1) % (MAX_XID + 1)

IsPending(x) == pending[x] # None

(* send_msg() of a message without an XID by an application or a handler;  *)
(* reliable=True tracks it.  The replies of OFPHandler keep the XID of the *)
(* switch's request and are never tracked, so they concern send_q alone    *)
(* and are left out; nobody sends the same message object twice with       *)
(* reliable=True.                                                          *)
SendMsg(track) ==
    /\ requests < MaxRequests
    /\ requests' = requests + 1
    /\ xid' = NextXid
    /\ send_q' = IF sendOpen
                 THEN Append(send_q, [xid |-> NextXid, kind |-> "request", track |-> track])
                 ELSE send_q
    /\ UNCHANGED <<dead, echoes, sendOpen, pendVars, loopVars, echoVars, recvVars,
                   netVars, copies>>

(* A faulty variant: the request is not noted as unreplied.                *)
EchoRequestUncounted ==
    /\ echo = "run"
    /\ sendOpen /\ Cardinality(unreplied) <= MaxUnreplied
    /\ echoes < MaxEcho
    /\ echoes' = echoes + 1
    /\ xid' = NextXid
    /\ send_q' = Append(send_q, [xid |-> NextXid, kind |-> "echo", track |-> TRUE])
    /\ UNCHANGED <<dead, requests, sendOpen, pendVars, loopVars, echoVars, recvVars,
                   netVars, copies>>

(* One turn of _echo_request_loop.                                         *)
EchoRequest ==
    /\ echo = "run"
    /\ sendOpen /\ Cardinality(unreplied) <= MaxUnreplied
    /\ echoes < MaxEcho
    /\ echoes' = echoes + 1
    /\ xid' = NextXid
    /\ unreplied' = unreplied \cup {NextXid}
    /\ send_q' = Append(send_q, [xid |-> NextXid, kind |-> "echo", track |-> TRUE])
    /\ UNCHANGED <<dead, requests, sendOpen, pendVars, loopVars, echo, recvVars,
                   netVars, copies>>

(* _echo_request_loop leaves its while statement and calls close().        *)
EchoClose ==
    /\ echo = "run"
    /\ ~(sendOpen /\ Cardinality(unreplied) <= MaxUnreplied)
    /\ echo' = "done"
    /\ dead' = TRUE
    /\ UNCHANGED <<xidVars, sendVars, pendVars, loopVars, unreplied, recvVars,
                   netVars, copies>>

(* An application calls close().                                           *)
AppClose ==
    /\ ~dead
    /\ dead' = TRUE
    /\ UNCHANGED <<xidVars, sendVars, pendVars, loopVars, echoVars, recvVars,
                   netVars, copies>>

(* The end of a turn of _send_loop: it ends with the drain when the        *)
(* datapath is dead, or when the message came with close_socket=True, as   *)
(* any message but an echo request may.                                    *)
SendTurnEnds ==
    \/ /\ dead \/ Head(send_q).kind = "request"
       /\ send_q' = <<>>
       /\ sendOpen' = FALSE
    \/ /\ ~dead
       /\ send_q' = Tail(send_q)
       /\ UNCHANGED sendOpen

(* serve() has not killed the send loop.                                   *)
SendLoopRuns == recv # "done"

(* _send_loop takes a message, the socket takes it, and it is tracked.     *)
SendTo ==
    /\ SendLoopRuns
    /\ send_q # <<>>
    /\ LET m == Head(send_q) IN
       /\ toSwitch' = toSwitch \cup {m}
       /\ copies' = [copies EXCEPT ![m.xid] = @ + 1]
       /\ pending' = IF m.track THEN [pending EXCEPT ![m.xid] = 0] ELSE pending
    /\ SendTurnEnds
    /\ UNCHANGED <<dead, xidVars, overdue, gone, loopVars, echoVars, recvVars,
                   silent, toRyu>>

(* sendto() raises: the exception is swallowed, the message not tracked.   *)
SendToRaises ==
    /\ SendLoopRuns
    /\ send_q # <<>>
    /\ SendTurnEnds
    /\ UNCHANGED <<dead, xidVars, pendVars, loopVars, echoVars, recvVars, netVars,
                   copies>>

-----------------------------------------------------------------------------
(* Retransmission.                                                         *)

(* RETRANSMIT_TIMEOUT has passed since the last transmission of x.         *)
Elapse(x) ==
    /\ IsPending(x)
    /\ x \notin overdue
    /\ overdue' = overdue \cup {x}
    /\ UNCHANGED <<dead, xidVars, sendVars, pending, gone, loopVars, echoVars,
                   recvVars, netVars, copies>>

(* A faulty variant: one retransmission too many is allowed.               *)
RetransmitCollectLate ==
    LET giveUp == {x \in overdue : pending[x] > MAX_RETRANSMITS} IN
    /\ retransmit = "sleep"
    /\ retransmit' = "send"
    /\ snapshot' = [x \in Xids |-> IF x \in overdue \ giveUp THEN pending[x] ELSE None]
    /\ pending' = [x \in Xids |-> IF x \in giveUp THEN None ELSE pending[x]]
    /\ overdue' = overdue \ giveUp
    /\ gone' = gone \cup giveUp
    /\ UNCHANGED <<dead, xidVars, sendVars, echoVars, recvVars, netVars, copies>>

(* A faulty variant: what is given up stays in the table.                  *)
RetransmitCollectKeeps ==
    LET giveUp == {x \in overdue : pending[x] >= MAX_RETRANSMITS} IN
    /\ retransmit = "sleep"
    /\ retransmit' = "send"
    /\ snapshot' = [x \in Xids |-> IF x \in overdue \ giveUp THEN pending[x] ELSE None]
    /\ UNCHANGED <<dead, xidVars, sendVars, pendVars, echoVars, recvVars, netVars, copies>>

(* _retransmit_loop wakes up: overdue messages are collected for           *)
(* retransmission, or dropped when their retransmissions are used up.      *)
RetransmitCollect ==
    LET giveUp == {x \in overdue : pending[x] >= MAX_RETRANSMITS} IN
    /\ retransmit = "sleep"
    /\ retransmit' = "send"
    /\ snapshot' = [x \in Xids |-> IF x \in overdue \ giveUp THEN pending[x] ELSE None]
    /\ pending' = [x \in Xids |-> IF x \in giveUp THEN None ELSE pending[x]]
    /\ overdue' = overdue \ giveUp
    /\ gone' = gone \cup giveUp
    /\ UNCHANGED <<dead, xidVars, sendVars, echoVars, recvVars, netVars, copies>>

(* A faulty variant: the table is written without looking again.           *)
RetransmitBlindly(x) ==
    /\ retransmit = "send"
    /\ snapshot[x] # None
    /\ snapshot' = [snapshot EXCEPT ![x] = None]
    /\ copies' = [copies EXCEPT ![x] = @ + 1]
    /\ pending' = [pending EXCEPT ![x] = snapshot[x] + 1]
    /\ overdue' = overdue \ {x}
    /\ UNCHANGED <<dead, xidVars, sendVars, gone, retransmit, echoVars, recvVars,
                   netVars>>

(* One retransmission.  The reply may have come since the message was      *)
(* collected: the datagram leaves all the same, but the table is left      *)
(* alone.                                                                  *)
Retransmit(x) ==
    /\ retransmit = "send"
    /\ snapshot[x] # None
    /\ snapshot' = [snapshot EXCEPT ![x] = None]
    /\ copies' = [copies EXCEPT ![x] = @ + 1]
    /\ IF IsPending(x)
       THEN pending' = [pending EXCEPT ![x] = snapshot[x] + 1] /\ overdue' = overdue \ {x}
       ELSE UNCHANGED <<pending, overdue>>
    /\ UNCHANGED <<dead, xidVars, sendVars, gone, retransmit, echoVars, recvVars,
                   netVars>>

(* A faulty variant: the failed attempt is counted.                        *)
RetransmitRaisesCounted(x) ==
    /\ retransmit = "send"
    /\ snapshot[x] # None
    /\ snapshot' = [snapshot EXCEPT ![x] = None]
    /\ pending' = [pending EXCEPT ![x] = IF @ = None THEN None ELSE snapshot[x] + 1]
    /\ UNCHANGED <<dead, xidVars, sendVars, overdue, gone, retransmit, echoVars,
                   recvVars, netVars, copies>>

(* sendto() raises: the count is not updated.                              *)
RetransmitRaises(x) ==
    /\ retransmit = "send"
    /\ snapshot[x] # None
    /\ snapshot' = [snapshot EXCEPT ![x] = None]
    /\ UNCHANGED <<dead, xidVars, sendVars, pendVars, retransmit, echoVars,
                   recvVars, netVars, copies>>

(* The while test of _retransmit_loop.                                     *)
RetransmitSleep ==
    /\ retransmit = "send"
    /\ \A x \in Xids : snapshot[x] = None
    /\ retransmit' = IF dead THEN "done" ELSE "sleep"
    /\ UNCHANGED <<dead, xidVars, sendVars, pendVars, snapshot, echoVars, recvVars,
                   netVars, copies>>

-----------------------------------------------------------------------------
(* The switch and the network.  Every datagram that was sent may arrive at *)
(* any later time, any number of times, or never.                          *)

(* The switch handles a message and answers, a request in Parts parts that *)
(* carry the same XID.                                                     *)
SwitchAnswers(m) ==
    /\ ~silent
    /\ toRyu' = toRyu \cup
         IF m.kind = "echo"
         THEN {[xid |-> m.xid, kind |-> "echo_reply", part |-> 1]}
         ELSE {[xid |-> m.xid, kind |-> "reply", part |-> p] : p \in 1..Parts}
    /\ UNCHANGED <<dead, xidVars, sendVars, pendVars, loopVars, echoVars, recvVars,
                   silent, toSwitch, copies>>

(* A message of the switch's own: HELLO, an error, PACKET_IN with XID 0.   *)
SwitchSends(x, p) ==
    /\ ~silent
    /\ toRyu' = toRyu \cup {[xid |-> x, kind |-> "own", part |-> p]}
    /\ UNCHANGED <<dead, xidVars, sendVars, pendVars, loopVars, echoVars, recvVars,
                   silent, toSwitch, copies>>

(* The switch fails, and what it sent before is lost.                      *)
SwitchFails ==
    /\ ~silent
    /\ silent' = TRUE
    /\ toRyu' = {}
    /\ UNCHANGED <<dead, xidVars, sendVars, pendVars, loopVars, echoVars, recvVars,
                   toSwitch, copies>>

-----------------------------------------------------------------------------
(* Receiving.                                                              *)

(* _ack_pending(x).                                                        *)
AckPending(x) ==
    /\ pending' = [pending EXCEPT ![x] = None]
    /\ overdue' = overdue \ {x}
    /\ gone' = IF IsPending(x) THEN gone \cup {x} ELSE gone

(* _recv_loop ends, and serve() kills the other greenthreads.  The send    *)
(* loop runs its finally clause, unless it is killed before its first      *)
(* turn: then send_q stays, without a reader.  The three kills are one     *)
(* step, since what may run between them could as well have run before: a  *)
(* retransmission, or a close().                                           *)
ServeEnds ==
    /\ recv' = "done"
    /\ msg' = <<>>
    /\ \/ send_q' = <<>> /\ sendOpen' = FALSE
       \/ (\A x \in Xids : copies[x] = 0) /\ UNCHANGED sendVars
    /\ echo' = "done"
    /\ retransmit' = "done"
    /\ snapshot' = [x \in Xids |-> None]

(* The while test of _recv_loop.                                           *)
RecvTurnEnds ==
    IF dead
    THEN ServeEnds
    ELSE recv' = "get" /\ msg' = <<>> /\ UNCHANGED <<sendVars, loopVars, echo>>

(* _recv_loop takes a message it has seen: it is dropped before anything   *)
(* else looks at it.                                                       *)
RecvDuplicate(m) ==
    /\ recv = "get"
    /\ IsDuplicate(seen, m.xid)
    /\ taken' = taken \cup {m}
    /\ RecvTurnEnds
    /\ UNCHANGED <<dead, xidVars, pendVars, unreplied, seen, dispatched, redone,
                   netVars, copies>>

(* A faulty variant: _ack_pending() is left to the handlers.               *)
RecvNewUnacked(m) ==
    /\ recv = "get"
    /\ ~IsDuplicate(seen, m.xid)
    /\ taken' = taken \cup {m}
    /\ IF IsSequenced(m.xid)
       THEN seen' = Remember(seen, m.xid)
       ELSE UNCHANGED seen
    /\ recv' = "dispatch"
    /\ msg' = <<m>>
    /\ UNCHANGED <<dead, xidVars, sendVars, pendVars, loopVars, echoVars, dispatched, redone,
                   netVars, copies>>

(* _recv_loop takes a new message: it enters the window and acknowledges   *)
(* whatever is pending under its XID.                                      *)
RecvNew(m) ==
    /\ recv = "get"
    /\ ~IsDuplicate(seen, m.xid)
    /\ taken' = taken \cup {m}
    /\ IF IsSequenced(m.xid)
       THEN seen' = Remember(seen, m.xid) /\ AckPending(m.xid)
       ELSE UNCHANGED <<seen, pendVars>>
    /\ recv' = "dispatch"
    /\ msg' = <<m>>
    /\ UNCHANGED <<dead, xidVars, sendVars, loopVars, echoVars, dispatched, redone,
                   netVars, copies>>

(* A faulty variant: acknowledge_echo_reply() does not call _ack_pending().*)
RecvDispatchUnacked ==
    /\ recv = "dispatch"
    /\ LET m == msg[1] IN
       /\ dispatched' = dispatched \cup {m}
       /\ redone' = IF m.xid # 0 /\ \E d \in dispatched : d.xid = m.xid
                    THEN redone \cup {m.xid} ELSE redone
       /\ IF m.kind = "echo_reply" /\ ~dead
          THEN unreplied' = unreplied \ {m.xid}
          ELSE UNCHANGED unreplied
    /\ RecvTurnEnds
    /\ UNCHANGED <<dead, xidVars, pendVars, seen, taken, netVars, copies>>

(* The message goes to the observers and to the handlers for the state of  *)
(* the datapath; none is for DEAD.  echo_reply_handler clears the echo     *)
(* request.  What other handlers send back are SendMsg steps.              *)
RecvDispatch ==
    /\ recv = "dispatch"
    /\ LET m == msg[1] IN
       /\ dispatched' = dispatched \cup {m}
       /\ redone' = IF m.xid # 0 /\ \E d \in dispatched : d.xid = m.xid
                    THEN redone \cup {m.xid} ELSE redone
       /\ IF m.kind = "echo_reply" /\ ~dead
          THEN unreplied' = unreplied \ {m.xid} /\ AckPending(m.xid)
          ELSE UNCHANGED <<unreplied, pendVars>>
    /\ RecvTurnEnds
    /\ UNCHANGED <<dead, xidVars, seen, taken, netVars, copies>>

(* The parser or a handler raises: nothing catches it below serve().       *)
RecvRaises ==
    /\ recv = "dispatch"
    /\ ServeEnds
    /\ UNCHANGED <<dead, xidVars, pendVars, unreplied, seen, taken, dispatched,
                   redone, netVars, copies>>

Next ==
    \/ \E track \in BOOLEAN : SendMsg(track)
    \/ EchoRequest
    \/ EchoClose
    \/ AppClose
    \/ SendTo
    \/ SendToRaises
    \/ RetransmitCollect
    \/ \E x \in Xids : Elapse(x) \/ Retransmit(x) \/ RetransmitRaises(x)
    \/ RetransmitSleep
    \/ \E m \in toSwitch : SwitchAnswers(m)
    \/ \E x \in SwitchXids, p \in 1..Parts : SwitchSends(x, p)
    \/ SwitchFails
    \/ \E m \in toRyu : RecvDuplicate(m) \/ RecvNew(m)
    \/ RecvDispatch
    \/ RecvRaises

Spec == Init /\ [][Next]_vars

(* Timers fire and the hub runs every greenthread that is ready; sendto()  *)
(* does not fail for ever.  Nothing is assumed of the network or the       *)
(* switch.                                                                 *)
Fairness ==
    /\ WF_vars(EchoRequest)
    /\ WF_vars(EchoClose)
    /\ WF_vars(SendTo \/ SendToRaises)
    /\ WF_vars(RetransmitCollect)
    /\ WF_vars(RetransmitSleep)
    /\ WF_vars(RecvDispatch \/ RecvRaises)
    /\ \A x \in Xids : WF_vars(Elapse(x)) /\ SF_vars(Retransmit(x))

FairSpec == Spec /\ Fairness

-----------------------------------------------------------------------------
(* Types of the variables.                                                 *)
TypeOK ==
    /\ dead \in BOOLEAN
    /\ xid \in Xids
    /\ echoes \in 0..MaxEcho
    /\ requests \in 0..MaxRequests
    /\ send_q \in Seq(Outgoing)
    /\ sendOpen \in BOOLEAN
    /\ pending \in [Xids -> {None} \cup 0..MAX_RETRANSMITS]
    /\ overdue \in SUBSET Xids
    /\ retransmit \in {"sleep", "send", "done"}
    /\ snapshot \in [Xids -> {None} \cup 0..MAX_RETRANSMITS]
    /\ echo \in {"run", "done"}
    /\ unreplied \in SUBSET Xids
    /\ seen \in SUBSET Xids
    /\ recv \in {"get", "dispatch", "done"}
    /\ msg \in Seq(Incoming)
    /\ Len(msg) = IF recv = "dispatch" THEN 1 ELSE 0
    /\ silent \in BOOLEAN
    /\ toSwitch \in SUBSET Outgoing
    /\ toRyu \in SUBSET Incoming
    /\ copies \in [Xids -> Nat]
    /\ gone \in SUBSET Xids
    /\ taken \in SUBSET Incoming
    /\ dispatched \in SUBSET Incoming
    /\ redone \in SUBSET Xids

(* At most MAX_RETRANSMITS copies of a message follow the first one, even  *)
(* when its reply, a give-up or close() comes between the moment the loop  *)
(* collects it and the moment the datagram leaves.                         *)
RetransmitBound == \A x \in Xids : copies[x] <= 1 + MAX_RETRANSMITS

(* The count in _pending_msgs is the number of copies that really left: a  *)
(* failing sendto() is not counted, and the count saved when the message   *)
(* was collected is still right when it is written back.                   *)
CountMatchesWire == \A x \in Xids : IsPending(x) => copies[x] = pending[x] + 1

(* A message that was acknowledged or given up never gets back into        *)
(* _pending_msgs, although the retransmission loop writes to the table     *)
(* after it has released the lock and sent the datagram.                   *)
GoneIsGone == \A x \in gone : ~IsPending(x)

(* A reply that _recv_loop has handled leaves nothing pending under its    *)
(* XID, whatever order retransmissions and replies come in; XIDs the       *)
(* switch uses for messages of its own, and XID 0, are excepted.           *)
ReplySettlesPending ==
    recv = "get" =>
        \A m \in taken : m.kind # "own" /\ m.xid \notin SwitchXids \cup {0}
                            => ~IsPending(m.xid)

(* Of an echo request the echo loop and the reliability layer agree: while *)
(* it is pending it is also unreplied, XID 0 after a wrap included.  So    *)
(* once its reply is handled it is not collected for retransmission again, *)
(* although a copy collected before may still leave.                       *)
PendingEchoIsUnreplied ==
    recv = "get" =>
        \A m \in toSwitch : m.kind = "echo" /\ IsPending(m.xid) => m.xid \in unreplied


(* No message with a nonzero XID is handled twice, however often the       *)
(* network duplicates it, as long as the window need not forget.           *)
DispatchedOnce == SEQ_WINDOW_SIZE >= MAX_XID => redone = {}

(* A switch that falls silent is noticed, also after it has answered some  *)
(* echo requests: the datapath goes DEAD (or its serve() has ended),       *)
(* provided the echo loop is configured and the bound leaves it the echo   *)
(* requests that are still missing.  Between two messages no reply is on   *)
(* its way any more.                                                       *)
SilenceIsDetected ==
    (/\ silent /\ recv = "get"
     /\ MaxUnreplied > 0
     /\ echoes + (MaxUnreplied + 1 - Cardinality(unreplied)) <= MaxEcho)
        ~> (dead \/ recv = "done")

(* Every tracked message leaves _pending_msgs: by its reply, or given up   *)
(* after its retransmissions; only the end of the datapath strands one.    *)
PendingIsSettled ==
    \A x \in Xids : IsPending(x) ~> (~IsPending(x) \/ dead \/ recv = "done")

-----------------------------------------------------------------------------
(* What the documentation says of the program, and the code does not do.   *)

(* README.md: "Reply with matching XID clears pending queue".  No XID is   *)
(* excepted.                                                               *)
ReplyClearsPending ==
    recv = "get" => \A m \in taken : m.kind # "own" => ~IsPending(m.xid)

(* Docstring of DatapathUDP: "Preserves Ryu's OpenFlow parsing and event   *)
(* dispatch semantics."  Every message received is dispatched, as in the   *)
(* receive loop of Datapath.                                               *)
EveryPartDispatched == recv = "get" => taken \subseteq dispatched
=============================================================================
