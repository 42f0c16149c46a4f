------------------------------ MODULE SendQueue ------------------------------
(***************************************************************************)
(* The sending half of a Ryu datapath: send(), the bounded queue send_q,   *)
(* the semaphore _send_q_sem that limits it, and the greenthread           *)
(* _send_loop that empties it.  The class for TCP (Datapath) and the class *)
(* for UDP (DatapathUDP, "keep same backpressure pattern as TCP datapath") *)
(* share the pattern; they differ in what a failing socket call does, and  *)
(* that difference is the variable transport.                              *)
(*                                                                         *)
(* Greenthreads switch only where an eventlet primitive blocks.  Hence     *)
(* send() is one step unless it blocks in acquire(); the loop is one step  *)
(* from get() to the socket call and one step from there back to get().    *)
(***************************************************************************)
EXTENDS Naturals, Sequences

CONSTANTS
    MaxQ,       \* send_q.maxsize, 16 in the code
    MaxCalls,   \* bound: number of send() calls in a behaviour
    Transports  \* the classes considered, a subset of {"udp", "tcp"}

ASSUME SendQueueAssumption ==
    /\ MaxQ \in Nat \ {0}
    /\ MaxCalls \in Nat
    /\ Transports \subseteq {"udp", "tcp"}

VARIABLES
    transport,  \* the class of the datapath: it never changes
    dead,       \* state = DEAD_DISPATCHER
    open,       \* send_q is not None
    send_q,     \* the queued messages (empty once send_q is None)
    sem,        \* counter of _send_q_sem
    waiters,    \* messages whose sender is blocked in acquire(), in order
    loop,       \* where the greenthread of _send_loop is
    cur,        \* the message the loop hands to the socket
    serving,    \* serve() has not reached its finally clause
    calls,      \* number of send() calls made so far
    sent        \* messages given to the socket, in order

vars == <<transport, dead, open, send_q, sem, waiters, loop, cur, serving, calls, sent>>

(* A message is the number of the send() call it came with and its kind:   *)
(* "close" has close_socket = True, "echo" comes from the greenthread of   *)
(* _echo_request_loop, "plain" is any other.                               *)
Kind == {"plain", "echo", "close"}
Message == [id : 1..MaxCalls, kind : Kind]

LoopState == {"spawned", "get", "tx", "done", "killed"}

Init ==
    /\ transport \in Transports
    /\ dead = FALSE
    /\ open = TRUE
    /\ send_q = <<>>
    /\ sem = MaxQ
    /\ waiters = <<>>
    /\ loop = "spawned"
    /\ cur = <<>>
    /\ serving = TRUE
    /\ calls = 0
    /\ sent = <<>>

-----------------------------------------------------------------------------
(* A faulty variant: a sender overtakes those that wait.                   *)
CanAcquireBarging == sem > 0

(* eventlet.semaphore.Semaphore.acquire() does not block.                  *)
CanAcquire == sem > 0 /\ waiters = <<>>

(* A faulty variant: send() does not test send_q.                          *)
PutAlways(m) ==
    send_q' = Append(send_q, m) /\ sem' = sem - 1

(* What send() does once it holds the semaphore: put the message, or, when *)
(* send_q is None, give the semaphore back and return False.               *)
PutOrDiscard(m) ==
    IF open
    THEN send_q' = Append(send_q, m) /\ sem' = sem - 1
    ELSE UNCHANGED <<send_q, sem>>

(* The places of the echo greenthread among the blocked senders: at most   *)
(* one, because that greenthread waits for its own send().                 *)
EchoWaits == {i \in 1..Len(waiters) : waiters[i].kind = "echo"}

(* A greenthread calls send(): either it runs through, or it blocks in     *)
(* acquire() behind the senders that already wait.                         *)
Send(kind) ==
    LET m == [id |-> calls + 1, kind |-> kind] IN
    /\ calls < MaxCalls
    /\ kind = "echo" => serving /\ open /\ EchoWaits = {}
    /\ calls' = calls + 1
    /\ IF CanAcquire
       THEN PutOrDiscard(m) /\ UNCHANGED waiters
       ELSE waiters' = Append(waiters, m) /\ UNCHANGED <<send_q, sem>>
    /\ UNCHANGED <<transport, dead, open, loop, cur, serving, sent>>

(* The hub resumes the first sender blocked in acquire().                  *)
Resume ==
    /\ waiters # <<>>
    /\ sem > 0
    /\ PutOrDiscard(Head(waiters))
    /\ waiters' = Tail(waiters)
    /\ UNCHANGED <<transport, dead, open, loop, cur, serving, calls, sent>>

(* A faulty variant: the drain does not release the semaphore.             *)
FinallyKeepsPlaces ==
    /\ open' = FALSE
    /\ send_q' = <<>>
    /\ sem' = sem
    /\ cur' = <<>>
    /\ loop' = "done"

(* A faulty variant: there is no drain.                                    *)
FinallyWithoutDrain ==
    /\ open' = FALSE
    /\ UNCHANGED <<send_q, sem>>
    /\ cur' = <<>>
    /\ loop' = "done"

(* A faulty variant: the drain releases before it tries to get an entry.   *)
FinallyReleasesFirst ==
    /\ open' = FALSE
    /\ send_q' = <<>>
    /\ sem' = sem + Len(send_q) + 1
    /\ cur' = <<>>
    /\ loop' = "done"

(* The finally clause of _send_loop: send_q becomes None, and every entry  *)
(* still queued is dropped with one release of the semaphore each.         *)
Finally ==
    /\ open' = FALSE
    /\ send_q' = <<>>
    /\ sem' = sem + Len(send_q)
    /\ cur' = <<>>
    /\ loop' = "done"

(* The test of the while statement of _send_loop.                          *)
WhileTest ==
    IF dead
    THEN Finally
    ELSE loop' = "get" /\ cur' = <<>> /\ UNCHANGED <<open, send_q, sem>>

LoopStart ==
    /\ loop = "spawned"
    /\ WhileTest
    /\ UNCHANGED <<transport, dead, waiters, serving, calls, sent>>

(* send_q.get() returns and the semaphore is released.                     *)
LoopGet ==
    /\ loop = "get"
    /\ send_q # <<>>
    /\ cur' = <<Head(send_q)>>
    /\ send_q' = Tail(send_q)
    /\ sem' = sem + 1
    /\ loop' = "tx"
    /\ UNCHANGED <<transport, dead, open, waiters, serving, calls, sent>>

(* A faulty variant: close_socket does not end the loop.                   *)
LoopSentGoesOn ==
    /\ loop = "tx"
    /\ sent' = Append(sent, cur[1])
    /\ WhileTest
    /\ UNCHANGED <<transport, dead, waiters, serving, calls>>

(* The socket takes the message; close_socket ends the loop.               *)
LoopSent ==
    /\ loop = "tx"
    /\ sent' = Append(sent, cur[1])
    /\ IF cur[1].kind = "close" THEN Finally ELSE WhileTest
    /\ UNCHANGED <<transport, dead, waiters, serving, calls>>

(* The socket call raises.  DatapathUDP swallows the exception inside the  *)
(* loop; in Datapath it leaves the loop.                                   *)
LoopFailed ==
    /\ loop = "tx"
    /\ IF transport = "tcp" \/ cur[1].kind = "close" THEN Finally ELSE WhileTest
    /\ UNCHANGED <<transport, dead, waiters, serving, calls, sent>>

(* close(), by the echo loop or an application.                            *)
Close ==
    /\ ~dead
    /\ dead' = TRUE
    /\ UNCHANGED <<transport, open, send_q, sem, waiters, loop, cur, serving, calls, sent>>

(* serve() leaves _recv_loop and kills the send loop and the echo loop.  A *)
(* greenthread that was spawned but never ran is killed outside its try    *)
(* statement, so its finally clause does not run; an echo loop blocked in  *)
(* acquire() leaves the line of blocked senders.                           *)
Without(seq, i) ==
    [j \in 1..(Len(seq) - 1) |-> IF j < i THEN seq[j] ELSE seq[j + 1]]

ServeEnds ==
    /\ serving
    /\ serving' = FALSE
    /\ CASE loop \in {"get", "tx"} -> Finally
         [] loop = "spawned" -> loop' = "killed" /\ UNCHANGED <<open, send_q, sem, cur>>
         [] OTHER -> UNCHANGED <<open, send_q, sem, cur, loop>>
    /\ IF EchoWaits = {}
       THEN UNCHANGED waiters
       ELSE \E i \in EchoWaits : waiters' = Without(waiters, i)
    /\ UNCHANGED <<transport, dead, calls, sent>>

Next ==
    \/ \E kind \in Kind : Send(kind)
    \/ Resume
    \/ LoopStart
    \/ LoopGet
    \/ LoopSent
    \/ LoopFailed
    \/ Close
    \/ ServeEnds

Spec == Init /\ [][Next]_vars

(* The hub runs every greenthread that is ready, and a socket call returns *)
(* (a datagram socket becomes writable, a TCP socket has a timeout).       *)
Fairness ==
    /\ WF_vars(Resume)
    /\ WF_vars(LoopStart)
    /\ WF_vars(LoopGet)
    /\ WF_vars(LoopSent \/ LoopFailed)

FairSpec == Spec /\ Fairness

-----------------------------------------------------------------------------
(* Types of the variables.                                                 *)
TypeOK ==
    /\ transport \in Transports
    /\ dead \in BOOLEAN
    /\ open \in BOOLEAN
    /\ send_q \in Seq(Message)
    /\ sem \in 0..MaxQ
    /\ waiters \in Seq(Message)
    /\ loop \in LoopState
    /\ cur \in Seq(Message)
    /\ Len(cur) = IF loop = "tx" THEN 1 ELSE 0
    /\ serving \in BOOLEAN
    /\ calls \in 0..MaxCalls
    /\ sent \in Seq(Message)

(* Backpressure is exact: the semaphore counts the free places of send_q.  *)
(* So send_q.put() never blocks, release() of the BoundedSemaphore never   *)
(* raises, and the drain in the finally clause gives back every place,     *)
(* whether the loop ends by close_socket, by DEAD or by hub.kill().        *)
SemaphoreCountsFreePlaces == sem + Len(send_q) = MaxQ

Increasing(s) == \A i, j \in 1..Len(s) : i < j => s[i].id < s[j].id
Before(s, t) == \A i \in 1..Len(s), j \in 1..Len(t) : s[i].id < t[j].id

(* Messages leave in the order of the send() calls, although a call may    *)
(* block in acquire(), wait in send_q, or find the socket failing; and no  *)
(* message is given to the socket twice.  Along the way of a message, from *)
(* the blocked senders to the socket, everything ahead is from an earlier  *)
(* call.                                                                   *)
CallOrder ==
    /\ Increasing(sent) /\ Increasing(cur) /\ Increasing(send_q) /\ Increasing(waiters)
    /\ Before(sent, cur) /\ Before(sent, send_q) /\ Before(sent, waiters)
    /\ Before(cur, send_q) /\ Before(cur, waiters)
    /\ Before(send_q, waiters)

(* A message sent with close_socket=True is the last one: nothing that was *)
(* queued behind it, or sent later, reaches the socket.                    *)
CloseIsLast ==
    \A i \in 1..Len(sent) : sent[i].kind = "close" => i = Len(sent) /\ ~open

(* Every sender blocked in acquire() returns from send(), unless the send  *)
(* loop was killed before it ran for the first time.                       *)
BlockedSenderReturns ==
    \A n \in 1..MaxCalls :
        (\E i \in 1..Len(waiters) : waiters[i].id = n)
            ~> (loop = "killed" \/ \A i \in 1..Len(waiters) : waiters[i].id # n)

(* A queued message reaches the socket call, or the loop ends: DEAD alone  *)
(* does not strand a message in send_q.                                    *)
QueuedMessageLeaves ==
    \A n \in 1..MaxCalls :
        (\E i \in 1..Len(send_q) : send_q[i].id = n)
            ~> (loop = "killed" \/ \A i \in 1..Len(send_q) : send_q[i].id # n)

(* What the sending half promises its callers, see Outbox.                 *)
Box == INSTANCE Outbox WITH chan <- cur \o send_q, out <- sent
ImplementsOutbox == Box!Spec
=============================================================================
