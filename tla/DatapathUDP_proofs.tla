-------------------------- MODULE DatapathUDP_proofs --------------------------
(***************************************************************************)
(* Theorems about DatapathUDP: its types, and that the table of pending    *)
(* messages and the datagrams on the wire agree, for every size of the XID *)
(* space, every number of retransmissions and any network.                 *)
(***************************************************************************)
EXTENDS DatapathUDP, SequenceTheorems, TLAPS

(* The XIDs allocated so far: the last echoes + requests values of a       *)
(* counter that runs in a circle.                                          *)
Allocated ==
    {x \in Xids : \/ x <= xid /\ xid - x < echoes + requests
                  \/ x > xid /\ xid + MAX_XID + 1 - x < echoes + requests}

(* Nothing is known under XID x.                                           *)
Unknown(x) ==
    copies[x] = 0 /\ pending[x] = None /\ snapshot[x] = None /\ x \notin gone

(* What is queued was allocated, has not been sent, and is queued once.    *)
QueueIsFresh ==
    /\ \A i \in 1..Len(send_q) : send_q[i].xid \in Allocated /\ Unknown(send_q[i].xid)
    /\ \A i, j \in 1..Len(send_q) : i # j => send_q[i].xid # send_q[j].xid

(* The table, the snapshot of the retransmission loop and the wire agree   *)
(* about x.                                                                *)
Agrees(x) ==
    /\ x \notin Allocated => Unknown(x)
    /\ x \in overdue => IsPending(x)
    /\ IsPending(x) => copies[x] = pending[x] + 1 /\ x \notin gone
    /\ snapshot[x] # None => /\ snapshot[x] < MAX_RETRANSMITS
                             /\ copies[x] = snapshot[x] + 1
                             /\ IsPending(x) => pending[x] = snapshot[x]
    /\ copies[x] <= 1 + MAX_RETRANSMITS

Tracked == TypeOK /\ QueueIsFresh /\ \A x \in Xids : Agrees(x)

-----------------------------------------------------------------------------
(* XIDs.                                                                   *)
LEMMA NextXidValue ==
    ASSUME TypeOK
    PROVE  NextXid = IF xid = MAX_XID THEN 0 ELSE xid + 1
  <1>1. xid \in Nat /\ MAX_XID \in Nat /\ xid <= MAX_XID
    BY DatapathAssumption DEF TypeOK, Xids
  <1>2. CASE xid = MAX_XID
    BY <1>1, <1>2 DEF NextXid
  <1>3. CASE xid < MAX_XID
    BY <1>1, <1>3 DEF NextXid
  <1> QED
    BY <1>1, <1>2, <1>3

LEMMA NextXidInXids ==
    ASSUME TypeOK
    PROVE  NextXid \in Xids
  <1>1. xid \in Nat /\ MAX_XID \in Nat /\ xid <= MAX_XID
    BY DatapathAssumption DEF TypeOK, Xids
  <1>2. NextXid = IF xid = MAX_XID THEN 0 ELSE xid + 1
    BY NextXidValue
  <1> QED
    BY <1>1, <1>2 DEF Xids

(* The counter does not come round to an XID it has given out: the bounds  *)
(* on the messages stand for a connection shorter than 2^32 of them.       *)
LEMMA Allocate ==
    ASSUME TypeOK, xid' = NextXid, echoes + requests < MaxEcho + MaxRequests,
           echoes' + requests' = echoes + requests + 1
    PROVE  /\ NextXid \in Xids
           /\ NextXid \notin Allocated
           /\ NextXid \in Allocated'
           /\ Allocated \subseteq Allocated'
  <1> DEFINE n == echoes + requests
  <1>1. /\ xid \in Nat /\ MAX_XID \in Nat /\ xid <= MAX_XID
        /\ echoes \in Nat /\ requests \in Nat /\ n < MAX_XID
        /\ MaxEcho \in Nat /\ MaxRequests \in Nat
    BY DatapathAssumption DEF TypeOK, Xids
  <1>2. NextXid = IF xid = MAX_XID THEN 0 ELSE xid + 1
    BY NextXidValue
  <1>3. NextXid \in Xids
    BY <1>1, <1>2 DEF Xids
  <1>4. NextXid \notin Allocated
    BY <1>1, <1>2 DEF Allocated
  <1>5. n \in Nat /\ echoes' + requests' = n + 1
    BY <1>1
  <1> HIDE DEF n
  <1>6. Allocated' = {x \in Xids : \/ x <= NextXid /\ NextXid - x < n + 1
                                   \/ x > NextXid /\ NextXid + MAX_XID + 1 - x < n + 1}
    BY <1>5 DEF Allocated
  <1>7. Allocated = {x \in Xids : \/ x <= xid /\ xid - x < n
                                  \/ x > xid /\ xid + MAX_XID + 1 - x < n}
    BY DEF Allocated, n
  <1>8. NextXid \in Allocated'
    BY <1>3, <1>5, <1>6 DEF Xids
  <1>9. Allocated \subseteq Allocated'
    BY <1>1, <1>2, <1>5, <1>6, <1>7 DEF Xids
  <1> QED
    BY <1>3, <1>4, <1>8, <1>9

-----------------------------------------------------------------------------
(* The queue.  It is shortened, and what is in it stays unknown elsewhere. *)
Shortened == \/ send_q' = send_q
             \/ send_q' = <<>>
             \/ send_q # <<>> /\ send_q' = Tail(send_q)

LEMMA QueueXids ==
    ASSUME TypeOK
    PROVE  \A i \in 1..Len(send_q) : send_q[i] \in Outgoing /\ send_q[i].xid \in Xids
  <1>1. send_q \in Seq(Outgoing)
    BY DEF TypeOK
  <1>2. \A m \in Outgoing : m.xid \in Xids
    BY DEF Outgoing
  <1> QED
    BY <1>1, <1>2

LEMMA ShortenedQueue ==
    ASSUME TypeOK, Shortened
    PROVE  \E k \in 0..1 :
              \A i \in 1..Len(send_q') : i + k \in 1..Len(send_q) /\ send_q'[i] = send_q[i + k]
  <1>1. send_q \in Seq(Outgoing) /\ Len(send_q) \in Nat
    BY DEF TypeOK
  <1>2. CASE send_q' = send_q
    <2>1. \A i \in 1..Len(send_q') : i + 0 \in 1..Len(send_q) /\ send_q'[i] = send_q[i + 0]
      BY <1>1, <1>2
    <2> QED
      BY <2>1
  <1>3. CASE send_q' = <<>>
    <2>1. \A i \in 1..Len(send_q') : i + 0 \in 1..Len(send_q) /\ send_q'[i] = send_q[i + 0]
      BY <1>3
    <2> QED
      BY <2>1
  <1>4. CASE send_q # <<>> /\ send_q' = Tail(send_q)
    <2>1. Len(send_q') = Len(send_q) - 1 /\ \A i \in 1..Len(send_q') : send_q'[i] = send_q[i + 1]
      BY <1>1, <1>4, HeadTailProperties
    <2>2. \A i \in 1..Len(send_q') : i + 1 \in 1..Len(send_q) /\ send_q'[i] = send_q[i + 1]
      BY <1>1, <2>1
    <2> QED
      BY <2>2
  <1> QED
    BY <1>2, <1>3, <1>4 DEF Shortened

LEMMA FreshKept ==
    ASSUME TypeOK, QueueIsFresh, Shortened, UNCHANGED xidVars,
           \A x \in Xids : Unknown(x) => Unknown(x)'
    PROVE  QueueIsFresh'
  <1>1. PICK k \in 0..1 :
           \A i \in 1..Len(send_q') : i + k \in 1..Len(send_q) /\ send_q'[i] = send_q[i + k]
    BY ShortenedQueue
  <1>2. Allocated' = Allocated
    BY DEF Allocated, xidVars
  <1>3. (\A i \in 1..Len(send_q) : send_q[i].xid \in Allocated /\ Unknown(send_q[i].xid))'
    <2> SUFFICES ASSUME NEW i \in 1..Len(send_q')
                 PROVE  (send_q[i].xid \in Allocated /\ Unknown(send_q[i].xid))'
      OBVIOUS
    <2>1. send_q'[i] = send_q[i + k] /\ i + k \in 1..Len(send_q)
      BY <1>1
    <2>2. /\ send_q[i + k].xid \in Xids /\ send_q[i + k].xid \in Allocated
          /\ Unknown(send_q[i + k].xid)
      BY <2>1, QueueXids DEF QueueIsFresh
    <2> QED
      BY <1>2, <2>1, <2>2 DEF Unknown
  <1>4. \A i, j \in 1..Len(send_q') : i # j => send_q'[i].xid # send_q'[j].xid
    <2> SUFFICES ASSUME NEW i \in 1..Len(send_q'), NEW j \in 1..Len(send_q'), i # j
                 PROVE  send_q'[i].xid # send_q'[j].xid
      OBVIOUS
    <2>1. i + k # j + k
      OBVIOUS
    <2> QED
      BY <1>1, <2>1, ZenonT(30) DEF QueueIsFresh
  <1> QED
    BY <1>3, <1>4 DEF QueueIsFresh

-----------------------------------------------------------------------------
(* The table.  What _ack_pending() and the end of serve() do keeps the     *)
(* agreement; so does leaving the table alone.                             *)
LEMMA Settle ==
    ASSUME Tracked, NEW y \in Xids, Shortened, UNCHANGED <<xidVars, copies>>,
           AckPending(y) \/ UNCHANGED pendVars,
           snapshot' = snapshot \/ snapshot' = [x \in Xids |-> None]
    PROVE  QueueIsFresh' /\ \A x \in Xids : Agrees(x)'
  <1>1. Allocated' = Allocated /\ copies' = copies
    BY DEF Allocated, xidVars
  <1>2. pending \in [Xids -> {None} \cup 0..MAX_RETRANSMITS]
    BY DEF Tracked, TypeOK
  <1>3. ASSUME NEW x \in Xids
        PROVE  /\ snapshot'[x] \in {snapshot[x], None}
               /\ \/ pending'[x] = pending[x] /\ (x \in gone' <=> x \in gone)
                     /\ (x \in overdue' <=> x \in overdue)
                  \/ pending'[x] = None /\ x \notin overdue' /\ (x \in gone' => x \in gone \/ IsPending(x))
    <2>1. snapshot'[x] \in {snapshot[x], None}
      OBVIOUS
    <2>2. CASE UNCHANGED pendVars
      BY <2>1, <2>2 DEF pendVars
    <2>3. CASE AckPending(y) /\ x = y
      BY <1>2, <2>1, <2>3 DEF AckPending
    <2>4. CASE AckPending(y) /\ x # y
      BY <1>2, <2>1, <2>4 DEF AckPending
    <2> QED
      BY <2>2, <2>3, <2>4
  <1>4. \A x \in Xids : Unknown(x) => Unknown(x)'
    BY <1>1, <1>3 DEF Unknown, IsPending
  <1>5. QueueIsFresh'
    BY <1>4, FreshKept DEF Tracked
  <1>6. ASSUME NEW x \in Xids PROVE Agrees(x)'
    <2>1. Agrees(x)
      BY DEF Tracked
    <2> QED
      BY <1>1, <1>3, <2>1 DEF Agrees, Unknown, IsPending
  <1> QED
    BY <1>5, <1>6

(* A timer runs out.                                                       *)
LEMMA ElapseAgrees ==
    ASSUME Tracked, NEW y \in Xids, Elapse(y)
    PROVE  QueueIsFresh' /\ \A x \in Xids : Agrees(x)'
  <1>1. Allocated' = Allocated
    BY DEF Elapse, Allocated, xidVars
  <1>2. /\ overdue' = overdue \cup {y} /\ IsPending(y)
        /\ UNCHANGED <<xidVars, send_q, pending, gone, snapshot, copies>>
    BY DEF Elapse, sendVars, loopVars
  <1>3. QueueIsFresh'
    BY <1>2, FreshKept DEF Tracked, Shortened, Unknown
  <1>4. ASSUME NEW x \in Xids PROVE Agrees(x)'
    <2>1. Agrees(x)
      BY DEF Tracked
    <2> QED
      BY <1>1, <1>2, <2>1 DEF Agrees, Unknown, IsPending
  <1> QED
    BY <1>3, <1>4

(* The loop collects what is overdue.                                      *)
LEMMA CollectAgrees ==
    ASSUME Tracked, RetransmitCollect
    PROVE  QueueIsFresh' /\ \A x \in Xids : Agrees(x)'
  <1>1. Allocated' = Allocated /\ UNCHANGED <<xidVars, send_q, copies>>
    BY DEF RetransmitCollect, Allocated, xidVars, sendVars
  <1>2. MAX_RETRANSMITS \in Nat /\ pending \in [Xids -> {None} \cup 0..MAX_RETRANSMITS]
    BY DatapathAssumption DEF Tracked, TypeOK
  <1>3. ASSUME NEW x \in Xids
        PROVE  \/ /\ x \notin overdue
                  /\ snapshot'[x] = None /\ pending'[x] = pending[x]
                  /\ x \notin overdue' /\ (x \in gone' <=> x \in gone)
               \/ /\ x \in overdue /\ pending[x] >= MAX_RETRANSMITS
                  /\ snapshot'[x] = None /\ pending'[x] = None
                  /\ x \notin overdue' /\ x \in gone'
               \/ /\ x \in overdue /\ ~(pending[x] >= MAX_RETRANSMITS)
                  /\ snapshot'[x] = pending[x] /\ pending'[x] = pending[x]
                  /\ x \in overdue' /\ (x \in gone' <=> x \in gone)
    BY DEF RetransmitCollect
  <1>4. \A x \in Xids : Agrees(x)
    BY DEF Tracked
  <1>5. \A x \in Xids : Unknown(x) => Unknown(x)'
    BY <1>1, <1>3, <1>4 DEF Unknown, Agrees, IsPending
  <1>6. QueueIsFresh'
    BY <1>1, <1>5, FreshKept DEF Tracked, Shortened
  <1>7. ASSUME NEW x \in Xids PROVE Agrees(x)'
    BY <1>1, <1>2, <1>3, <1>4 DEF Agrees, Unknown, IsPending, None
  <1> QED
    BY <1>6, <1>7

(* A copy leaves, or sendto() raises.                                      *)
LEMMA RetransmitAgrees ==
    ASSUME Tracked, NEW y \in Xids, Retransmit(y) \/ RetransmitRaises(y)
    PROVE  QueueIsFresh' /\ \A x \in Xids : Agrees(x)'
  <1>1. Allocated' = Allocated /\ UNCHANGED <<xidVars, send_q, gone>>
    BY DEF Retransmit, RetransmitRaises, Allocated, xidVars, sendVars, pendVars
  <1>2. /\ MAX_RETRANSMITS \in Nat /\ copies \in [Xids -> Nat]
        /\ pending \in [Xids -> {None} \cup 0..MAX_RETRANSMITS]
        /\ snapshot \in [Xids -> {None} \cup 0..MAX_RETRANSMITS]
    BY DatapathAssumption DEF Tracked, TypeOK
  <1>3. snapshot[y] # None /\ snapshot'[y] = None
    BY <1>2 DEF Retransmit, RetransmitRaises
  <1>4. ASSUME NEW x \in Xids, x # y
        PROVE  /\ snapshot'[x] = snapshot[x] /\ pending'[x] = pending[x]
               /\ copies'[x] = copies[x] /\ (x \in overdue' <=> x \in overdue)
    BY <1>2, <1>4 DEF Retransmit, RetransmitRaises, pendVars
  <1>5. \/ copies'[y] = copies[y] /\ pending'[y] = pending[y] /\ (y \in overdue' <=> y \in overdue)
        \/ /\ copies'[y] = copies[y] + 1
           /\ \/ IsPending(y) /\ pending'[y] = snapshot[y] + 1 /\ y \notin overdue'
              \/ ~IsPending(y) /\ pending'[y] = pending[y] /\ (y \in overdue' <=> y \in overdue)
    BY <1>2 DEF Retransmit, RetransmitRaises, pendVars
  <1>6. \A x \in Xids : Agrees(x)
    BY DEF Tracked
  <1>7. \A x \in Xids : Unknown(x) => Unknown(x)'
    BY <1>1, <1>3, <1>4 DEF Unknown
  <1>8. QueueIsFresh'
    BY <1>1, <1>7, FreshKept DEF Tracked, Shortened
  <1>9. ASSUME NEW x \in Xids PROVE Agrees(x)'
    <2>1. CASE x # y
      BY <1>1, <1>4, <1>6, <2>1 DEF Agrees, Unknown, IsPending
    <2>2. Agrees(y)'
      BY <1>1, <1>2, <1>3, <1>5, <1>6 DEF Agrees, Unknown, IsPending, None
    <2> QED
      BY <2>1, <2>2
  <1> QED
    BY <1>8, <1>9

(* A message gets the next XID and is queued, or is not when send_q is     *)
(* None.                                                                   *)
LEMMA QueuedAgrees ==
    ASSUME Tracked, NEW STATE m, m \in Outgoing, m.xid = NextXid,
           xid' = NextXid, echoes + requests < MaxEcho + MaxRequests,
           echoes' + requests' = echoes + requests + 1,
           send_q' = send_q \/ send_q' = Append(send_q, m),
           UNCHANGED <<pending, overdue, gone, snapshot, copies>>
    PROVE  QueueIsFresh' /\ \A x \in Xids : Agrees(x)'
  <1>1. /\ NextXid \in Xids /\ NextXid \notin Allocated
        /\ NextXid \in Allocated' /\ Allocated \subseteq Allocated'
    BY Allocate DEF Tracked
  <1>2. ASSUME NEW x \in Xids PROVE Agrees(x)'
    <2>1. Agrees(x)
      BY DEF Tracked
    <2> QED
      BY <1>1, <2>1 DEF Agrees, Unknown, IsPending
  <1>3. Unknown(NextXid)
    BY <1>1 DEF Tracked, Agrees
  <1>4. send_q \in Seq(Outgoing) /\ Len(send_q) \in Nat
    BY DEF Tracked, TypeOK
  <1>5. ASSUME NEW i \in 1..Len(send_q)
        PROVE  send_q[i].xid \in Allocated' /\ Unknown(send_q[i].xid) /\ send_q[i].xid # NextXid
    BY <1>1 DEF Tracked, QueueIsFresh
  <1>6. CASE send_q' = send_q
    <2>1. (\A i \in 1..Len(send_q) : send_q[i].xid \in Allocated /\ Unknown(send_q[i].xid))'
      BY <1>5, <1>6 DEF Unknown
    <2>2. \A i, j \in 1..Len(send_q') : i # j => send_q'[i].xid # send_q'[j].xid
      BY <1>6 DEF Tracked, QueueIsFresh
    <2> QED
      BY <1>2, <2>1, <2>2 DEF QueueIsFresh
  <1>7. CASE send_q' = Append(send_q, m)
    <2>1. /\ Len(send_q') = Len(send_q) + 1
          /\ \A i \in 1..Len(send_q) : send_q'[i] = send_q[i]
          /\ send_q'[Len(send_q) + 1] = m
      BY <1>4, <1>7, AppendProperties
    <2>2. ASSUME NEW i \in 1..Len(send_q')
          PROVE  (send_q[i].xid \in Allocated /\ Unknown(send_q[i].xid))'
      <3>1. CASE i \in 1..Len(send_q)
        BY <1>5, <2>1, <3>1 DEF Unknown
      <3>2. CASE i = Len(send_q) + 1
        BY <1>1, <1>3, <2>1, <3>2 DEF Unknown
      <3> QED
        BY <1>4, <2>1, <3>1, <3>2
    <2>3. ASSUME NEW i \in 1..Len(send_q'), NEW j \in 1..Len(send_q'), i # j
          PROVE  send_q'[i].xid # send_q'[j].xid
      <3>1. CASE i \in 1..Len(send_q) /\ j \in 1..Len(send_q)
        BY <2>1, <2>3, <3>1 DEF Tracked, QueueIsFresh
      <3>2. CASE i = Len(send_q) + 1 /\ j \in 1..Len(send_q)
        BY <1>5, <2>1, <3>2
      <3>3. CASE j = Len(send_q) + 1 /\ i \in 1..Len(send_q)
        BY <1>5, <2>1, <3>3
      <3> QED
        BY <1>4, <2>1, <2>3, <3>1, <3>2, <3>3
    <2> QED
      BY <1>2, <2>2, <2>3 DEF QueueIsFresh
  <1> QED
    BY <1>6, <1>7

(* A message leaves for the first time.                                    *)
LEMMA SendToAgrees ==
    ASSUME Tracked, SendTo
    PROVE  QueueIsFresh' /\ \A x \in Xids : Agrees(x)'
  <1> DEFINE m == Head(send_q)
             y == m.xid
  <1>1. send_q \in Seq(Outgoing) /\ send_q # <<>> /\ Len(send_q) \in Nat
    BY DEF SendTo, Tracked, TypeOK
  <1>2. Len(send_q) > 0 /\ m = send_q[1]
    BY <1>1, EmptySeq
  <1>3. y \in Xids /\ y \in Allocated /\ Unknown(y)
    BY <1>1, <1>2, QueueXids DEF Tracked, QueueIsFresh
  <1>4. Allocated' = Allocated /\ UNCHANGED <<overdue, gone, snapshot>>
    BY DEF SendTo, Allocated, xidVars, loopVars
  <1>5. /\ MAX_RETRANSMITS \in Nat /\ copies \in [Xids -> Nat]
        /\ pending \in [Xids -> {None} \cup 0..MAX_RETRANSMITS]
    BY DatapathAssumption DEF Tracked, TypeOK
  <1>6. ASSUME NEW x \in Xids, x # y
        PROVE  copies'[x] = copies[x] /\ pending'[x] = pending[x]
    BY <1>3, <1>5, <1>6 DEF SendTo
  <1>7. copies'[y] = copies[y] + 1 /\ pending'[y] \in {0, pending[y]}
    BY <1>3, <1>5 DEF SendTo
  <1> HIDE DEF y, m
  <1>8. \A x \in Xids : Agrees(x)
    BY DEF Tracked
  <1>9. ASSUME NEW x \in Xids PROVE Agrees(x)'
    <2>1. CASE x # y
      BY <1>4, <1>6, <1>8, <2>1 DEF Agrees, Unknown, IsPending
    <2>2. Agrees(x)' \/ x # y
      BY <1>3, <1>4, <1>5, <1>7, <1>8 DEF Agrees, Unknown, IsPending, None
    <2> QED
      BY <2>1, <2>2
  <1>10. QueueIsFresh'
    <2>1. CASE send_q' = <<>>
      BY <2>1 DEF QueueIsFresh
    <2>2. CASE send_q' = Tail(send_q)
      <3>1. /\ Len(send_q') = Len(send_q) - 1
            /\ \A i \in 1..Len(send_q') : send_q'[i] = send_q[i + 1] /\ i + 1 \in 1..Len(send_q)
        BY <1>1, <1>2, <2>2, HeadTailProperties
      <3>2. ASSUME NEW i \in 1..Len(send_q')
            PROVE  (send_q[i].xid \in Allocated /\ Unknown(send_q[i].xid))'
        <4>1. send_q'[i] = send_q[i + 1] /\ i + 1 \in 1..Len(send_q) /\ i + 1 # 1
          BY <3>1
        <4>2. 1 \in 1..Len(send_q) /\ y = send_q[1].xid
          BY <1>1, <1>2 DEF y
        <4>3. /\ send_q[i + 1].xid \in Xids /\ send_q[i + 1].xid \in Allocated
              /\ Unknown(send_q[i + 1].xid) /\ send_q[i + 1].xid # y
          BY <4>1, <4>2, QueueXids DEF Tracked, QueueIsFresh
        <4> QED
          BY <1>4, <1>6, <4>1, <4>3 DEF Unknown
      <3>3. ASSUME NEW i \in 1..Len(send_q'), NEW j \in 1..Len(send_q'), i # j
            PROVE  send_q'[i].xid # send_q'[j].xid
        <4>1. i + 1 # j + 1
          BY <3>3
        <4> QED
          BY <3>1, <4>1 DEF Tracked, QueueIsFresh
      <3> QED
        BY <3>2, <3>3 DEF QueueIsFresh
    <2> QED
      BY <2>1, <2>2 DEF SendTo, SendTurnEnds
  <1> QED
    BY <1>9, <1>10

-----------------------------------------------------------------------------
LEMMA AgreesNext ==
    ASSUME Tracked, [Next]_vars
    PROVE  QueueIsFresh' /\ \A x \in Xids : Agrees(x)'
  <1>0. /\ 0 \in Xids /\ NextXid \in Xids /\ echoes \in Nat /\ requests \in Nat
        /\ echoes <= MaxEcho /\ requests <= MaxRequests
        /\ MaxEcho \in Nat /\ MaxRequests \in Nat
    <2>1. TypeOK
      BY DEF Tracked
    <2>2. NextXid \in Xids
      BY <2>1, NextXidInXids
    <2> QED
      BY <2>1, <2>2, DatapathAssumption DEF TypeOK, Xids
  <1>1. ASSUME NEW track \in BOOLEAN, SendMsg(track)
        PROVE  QueueIsFresh' /\ \A x \in Xids : Agrees(x)'
    <2> DEFINE m == [xid |-> NextXid, kind |-> "request", track |-> track]
    <2>1. m \in Outgoing /\ m.xid = NextXid
      BY <1>0, Zenon DEF Outgoing
    <2>2. /\ xid' = NextXid /\ echoes + requests < MaxEcho + MaxRequests
          /\ echoes' + requests' = echoes + requests + 1
      BY <1>0, <1>1 DEF SendMsg
    <2>3. /\ send_q' = send_q \/ send_q' = Append(send_q, m)
          /\ UNCHANGED <<pending, overdue, gone, snapshot, copies>>
      BY <1>1 DEF SendMsg, pendVars, loopVars
    <2> HIDE DEF m
    <2> QED
      BY <2>1, <2>2, <2>3, QueuedAgrees
  <1>2. CASE EchoRequest
    <2> DEFINE m == [xid |-> NextXid, kind |-> "echo", track |-> TRUE]
    <2>1. m \in Outgoing /\ m.xid = NextXid
      BY <1>0 DEF Outgoing
    <2>2. /\ xid' = NextXid /\ echoes + requests < MaxEcho + MaxRequests
          /\ echoes' + requests' = echoes + requests + 1
      BY <1>0, <1>2 DEF EchoRequest
    <2>3. /\ send_q' = send_q \/ send_q' = Append(send_q, m)
          /\ UNCHANGED <<pending, overdue, gone, snapshot, copies>>
      BY <1>2 DEF EchoRequest, pendVars, loopVars
    <2> HIDE DEF m
    <2> QED
      BY <2>1, <2>2, <2>3, QueuedAgrees
  <1>3. CASE SendTo
    BY <1>3, SendToAgrees
  <1>4. CASE RetransmitCollect
    BY <1>4, CollectAgrees
  <1>5. ASSUME NEW x \in Xids, Elapse(x) \/ Retransmit(x) \/ RetransmitRaises(x)
        PROVE  QueueIsFresh' /\ \A z \in Xids : Agrees(z)'
    BY <1>5, ElapseAgrees, RetransmitAgrees
  <1>6. CASE EchoClose \/ AppClose \/ SendToRaises \/ RetransmitSleep \/ SwitchFails
    <2>1. Shortened /\ UNCHANGED <<xidVars, copies, pendVars, snapshot>>
      BY <1>6 DEF EchoClose, AppClose, SendToRaises, RetransmitSleep, SwitchFails,
                  SendTurnEnds, Shortened, sendVars, loopVars
    <2> QED
      BY <1>0, <2>1, Settle
  <1>7. CASE \/ \E m \in toSwitch : SwitchAnswers(m)
             \/ \E x \in SwitchXids, p \in 1..Parts : SwitchSends(x, p)
    <2>1. Shortened /\ UNCHANGED <<xidVars, copies, pendVars, snapshot>>
      BY <1>7 DEF SwitchAnswers, SwitchSends, Shortened, sendVars, loopVars
    <2> QED
      BY <1>0, <2>1, Settle
  <1>8. ASSUME NEW m \in toRyu, RecvDuplicate(m) \/ RecvNew(m)
        PROVE  QueueIsFresh' /\ \A x \in Xids : Agrees(x)'
    <2>1. m.xid \in Xids
      BY DEF Tracked, TypeOK, Incoming
    <2>2. Shortened /\ UNCHANGED <<xidVars, copies>>
      BY <1>8 DEF RecvDuplicate, RecvNew, RecvTurnEnds, ServeEnds, Shortened, sendVars
    <2>3. snapshot' = snapshot \/ snapshot' = [x \in Xids |-> None]
      BY <1>8 DEF RecvDuplicate, RecvNew, RecvTurnEnds, ServeEnds, loopVars
    <2>4. AckPending(m.xid) \/ UNCHANGED pendVars
      BY <1>8 DEF RecvDuplicate, RecvNew
    <2> QED
      BY <2>1, <2>2, <2>3, <2>4, Settle
  <1>9. CASE RecvDispatch
    <2>1. msg[1].xid \in Xids
      <3>1. msg \in Seq(Incoming) /\ Len(msg) = 1
        BY <1>9, ZenonT(30) DEF RecvDispatch, Tracked, TypeOK
      <3>2. \A m \in Incoming : m.xid \in Xids
        BY DEF Incoming
      <3> QED
        BY <3>1, <3>2
    <2>2. Shortened /\ UNCHANGED <<xidVars, copies>>
      BY <1>9 DEF RecvDispatch, RecvTurnEnds, ServeEnds, Shortened, sendVars
    <2>3. snapshot' = snapshot \/ snapshot' = [x \in Xids |-> None]
      BY <1>9 DEF RecvDispatch, RecvTurnEnds, ServeEnds, loopVars
    <2>4. AckPending(msg[1].xid) \/ UNCHANGED pendVars
      BY <1>9 DEF RecvDispatch
    <2> QED
      BY <2>1, <2>2, <2>3, <2>4, Settle
  <1>10. CASE RecvRaises
    <2>1. Shortened /\ UNCHANGED <<xidVars, copies, pendVars>>
      BY <1>10 DEF RecvRaises, ServeEnds, Shortened, sendVars
    <2>2. snapshot' = [x \in Xids |-> None]
      BY <1>10 DEF RecvRaises, ServeEnds
    <2> QED
      BY <1>0, <2>1, <2>2, Settle
  <1>11. CASE UNCHANGED vars
    <2>1. Shortened /\ UNCHANGED <<xidVars, copies, pendVars, snapshot>>
      BY <1>11 DEF vars, Shortened, sendVars, loopVars
    <2> QED
      BY <1>0, <2>1, Settle
  <1> QED
    BY <1>1, <1>2, <1>3, <1>4, <1>5, <1>6, <1>7, <1>8, <1>9, <1>10, <1>11 DEF Next

-----------------------------------------------------------------------------
(* Types.                                                                  *)
LEMMA BooleansNext ==
    ASSUME TypeOK, [Next]_vars
    PROVE  dead' \in BOOLEAN /\ sendOpen' \in BOOLEAN /\ silent' \in BOOLEAN
  <1>0. dead \in BOOLEAN /\ sendOpen \in BOOLEAN /\ silent \in BOOLEAN
    BY DEF TypeOK
  <1>1. dead' = dead \/ dead' = TRUE
    BY Zenon DEF Next, SendMsg, EchoRequest, EchoClose, AppClose, SendTo, SendToRaises,
       RetransmitCollect, Elapse, Retransmit, RetransmitRaises, RetransmitSleep,
       SwitchAnswers, SwitchSends, SwitchFails, RecvDuplicate, RecvNew, RecvDispatch,
       RecvRaises, vars
  <1>2. silent' = silent \/ silent' = TRUE
    BY Zenon DEF Next, SendMsg, EchoRequest, EchoClose, AppClose, SendTo, SendToRaises,
       RetransmitCollect, Elapse, Retransmit, RetransmitRaises, RetransmitSleep,
       SwitchAnswers, SwitchSends, SwitchFails, RecvDuplicate, RecvNew, RecvDispatch,
       RecvRaises, vars, netVars
  <1>3. sendOpen' = sendOpen \/ sendOpen' = FALSE
    BY Zenon DEF Next, SendMsg, EchoRequest, EchoClose, AppClose, SendTo, SendToRaises,
       RetransmitCollect, Elapse, Retransmit, RetransmitRaises, RetransmitSleep,
       SwitchAnswers, SwitchSends, SwitchFails, RecvDuplicate, RecvNew, RecvDispatch,
       RecvRaises, SendTurnEnds, RecvTurnEnds, ServeEnds, vars, sendVars
  <1> QED
    BY <1>0, <1>1, <1>2, <1>3, Zenon

LEMMA TurnEndsTypes ==
    ASSUME TypeOK, RecvTurnEnds \/ ServeEnds
    PROVE  /\ recv' \in {"get", "done"} /\ msg' \in Seq(Incoming) /\ Len(msg') = 0
           /\ send_q' \in Seq(Outgoing) /\ echo' \in {"run", "done"}
           /\ retransmit' \in {"sleep", "send", "done"}
           /\ snapshot' \in [Xids -> {None} \cup 0..MAX_RETRANSMITS]
  <1>1. <<>> \in Seq(Outgoing) /\ <<>> \in Seq(Incoming) /\ Len(<<>>) = 0
    OBVIOUS
  <1>2. CASE ServeEnds
    BY <1>1, <1>2 DEF ServeEnds, TypeOK, sendVars
  <1>3. CASE RecvTurnEnds /\ ~ServeEnds
    BY <1>1, <1>3, ZenonT(30) DEF RecvTurnEnds, TypeOK, sendVars, loopVars
  <1> QED
    BY <1>2, <1>3

LEMMA RememberType ==
    ASSUME NEW s \in SUBSET Xids, NEW x \in Xids
    PROVE  Remember(s, x) \in SUBSET Xids
  <1> DEFINE t == s \cup {x}
  <1>1. t \subseteq Xids
    OBVIOUS
  <1>2. Remember(s, x) = t \/ Remember(s, x) = t \ FirstHalf(t)
    BY Zenon DEF Remember
  <1> HIDE DEF t
  <1> QED
    BY <1>1, <1>2

(* What _send_loop() does to the count of copies and to _pending_msgs      *)
(* keeps their types.                                                      *)
LEMMA OutgoingXid == \A o \in Outgoing : o.xid \in Xids
  BY DEF Outgoing

LEMMA CountedOnce ==
    ASSUME NEW f \in [Xids -> Nat], NEW x \in Xids
    PROVE  [f EXCEPT ![x] = @ + 1] \in [Xids -> Nat]
  OBVIOUS

LEMMA StartsAtZero ==
    ASSUME NEW f \in [Xids -> {None} \cup 0..MAX_RETRANSMITS], NEW x
    PROVE  [f EXCEPT ![x] = 0] \in [Xids -> {None} \cup 0..MAX_RETRANSMITS]
  <1>1. 0 \in 0..MAX_RETRANSMITS
    BY DatapathAssumption
  <1> QED
    BY <1>1

LEMMA TypeNext ==
    ASSUME Tracked, [Next]_vars
    PROVE  TypeOK'
  <1>a. TypeOK /\ \A x \in Xids : Agrees(x)
    BY DEF Tracked
  <1>b. dead' \in BOOLEAN /\ sendOpen' \in BOOLEAN /\ silent' \in BOOLEAN
    BY <1>a, BooleansNext DEF TypeOK
  <1>c. NextXid \in Xids
    BY <1>a, NextXidInXids DEF TypeOK
  <1>d. Append(send_q, [xid |-> NextXid, kind |-> "echo", track |-> TRUE]) \in Seq(Outgoing)
    <2>1. [xid |-> NextXid, kind |-> "echo", track |-> TRUE] \in Outgoing
      BY <1>c, Zenon DEF Outgoing
    <2> QED
      BY <1>a, <2>1 DEF TypeOK
  <1>e. \A track \in BOOLEAN :
           Append(send_q, [xid |-> NextXid, kind |-> "request", track |-> track]) \in Seq(Outgoing)
    <2>1. \A track \in BOOLEAN :
             [xid |-> NextXid, kind |-> "request", track |-> track] \in Outgoing
      BY <1>c, Zenon DEF Outgoing
    <2> QED
      BY <1>a, <2>1 DEF TypeOK
  <1>f. <<>> \in Seq(Outgoing) /\ <<>> \in Seq(Incoming) /\ Len(<<>>) = 0
    OBVIOUS
  <1>g. send_q # <<>> => Head(send_q) \in Outgoing /\ Tail(send_q) \in Seq(Outgoing)
    BY <1>a, HeadTailProperties DEF TypeOK
  <1>1. ASSUME NEW track \in BOOLEAN, SendMsg(track) PROVE TypeOK'
    BY <1>1, <1>a, <1>b, <1>c, <1>e, DatapathAssumption
    DEF SendMsg, TypeOK, pendVars, loopVars, echoVars, recvVars, netVars
  <1>2. CASE EchoRequest
    BY <1>2, <1>a, <1>b, <1>c, <1>d, DatapathAssumption
    DEF EchoRequest, TypeOK, pendVars, loopVars, recvVars, netVars
  <1>3. CASE EchoClose
    BY <1>3, <1>a, <1>b
    DEF EchoClose, TypeOK, xidVars, sendVars, pendVars, loopVars, recvVars, netVars
  <1>4. CASE AppClose
    BY <1>4, <1>a, <1>b
    DEF AppClose, TypeOK, xidVars, sendVars, pendVars, loopVars, echoVars, recvVars, netVars
  <1>5. CASE SendTo
    <2> DEFINE m == Head(send_q)
    <2>a. send_q # <<>>
      BY <1>5, ZenonT(30) DEF SendTo
    <2>b. /\ copies' = [copies EXCEPT ![m.xid] = @ + 1]
          /\ pending' = IF m.track THEN [pending EXCEPT ![m.xid] = 0] ELSE pending
      BY <1>5, ZenonT(30) DEF SendTo
    <2>c. copies \in [Xids -> Nat] /\ pending \in [Xids -> {None} \cup 0..MAX_RETRANSMITS]
      BY <1>a, ZenonT(30) DEF TypeOK
    <2>1. m \in Outgoing /\ m.xid \in Xids
      BY <1>g, <2>a, OutgoingXid, Zenon
    <2>2. copies' \in [Xids -> Nat] /\ pending' \in [Xids -> {None} \cup 0..MAX_RETRANSMITS]
      <3>1. [copies EXCEPT ![m.xid] = @ + 1] \in [Xids -> Nat]
        BY <2>c, <2>1, CountedOnce, Zenon
      <3>2. [pending EXCEPT ![m.xid] = 0] \in [Xids -> {None} \cup 0..MAX_RETRANSMITS]
        BY <2>c, StartsAtZero, Zenon
      <3> QED
        BY <2>b, <2>c, <3>1, <3>2, Zenon
    <2>3. send_q' \in Seq(Outgoing)
      BY <1>5, <1>f, <1>g DEF SendTo, SendTurnEnds, xidVars, loopVars, echoVars, recvVars
    <2>4. toSwitch' \in SUBSET Outgoing
      BY <1>5, <1>a, <2>1 DEF SendTo, TypeOK, xidVars, loopVars, echoVars, recvVars
    <2> QED
      BY <1>5, <1>a, <1>b, <2>2, <2>3, <2>4, SMTT(30)
      DEF SendTo, TypeOK, xidVars, loopVars, echoVars, recvVars
  <1>6. CASE SendToRaises
    <2>1. send_q' \in Seq(Outgoing)
      BY <1>6, <1>f, <1>g
      DEF SendToRaises, SendTurnEnds, xidVars, pendVars, loopVars, echoVars, recvVars, netVars
    <2> QED
      BY <1>6, <1>a, <1>b, <2>1
      DEF SendToRaises, TypeOK, xidVars, pendVars, loopVars, echoVars, recvVars, netVars
  <1>7. CASE RetransmitCollect
    BY <1>7, <1>a, <1>b
    DEF RetransmitCollect, TypeOK, xidVars, sendVars, echoVars, recvVars, netVars
  <1>8. ASSUME NEW x \in Xids, Elapse(x) PROVE TypeOK'
    BY <1>8, <1>a, <1>b
    DEF Elapse, TypeOK, xidVars, sendVars, loopVars, echoVars, recvVars, netVars
  <1>9. ASSUME NEW x \in Xids, Retransmit(x) PROVE TypeOK'
    <2>1. snapshot[x] \in 0..MAX_RETRANSMITS /\ snapshot[x] + 1 \in 0..MAX_RETRANSMITS
      BY <1>9, <1>a, DatapathAssumption
      DEF Retransmit, Agrees, TypeOK, xidVars, sendVars, echoVars, recvVars, netVars
    <2>2. /\ copies' \in [Xids -> Nat] /\ pending' \in [Xids -> {None} \cup 0..MAX_RETRANSMITS]
          /\ snapshot' \in [Xids -> {None} \cup 0..MAX_RETRANSMITS]
      BY <1>9, <1>a, <2>1
      DEF Retransmit, TypeOK, xidVars, sendVars, echoVars, recvVars, netVars
    <2> QED
      BY <1>9, <1>a, <1>b, <2>2
      DEF Retransmit, TypeOK, xidVars, sendVars, echoVars, recvVars, netVars
  <1>10. ASSUME NEW x \in Xids, RetransmitRaises(x) PROVE TypeOK'
    BY <1>10, <1>a, <1>b
    DEF RetransmitRaises, TypeOK, xidVars, sendVars, pendVars, echoVars, recvVars, netVars
  <1>11. CASE RetransmitSleep
    BY <1>11, <1>a, <1>b, SMTT(30)
    DEF RetransmitSleep, TypeOK, xidVars, sendVars, pendVars, echoVars, recvVars, netVars
  <1>12. ASSUME NEW m \in toSwitch, SwitchAnswers(m) PROVE TypeOK'
    <2>1. m.xid \in Xids /\ 1 \in 1..Parts
      BY <1>a, DatapathAssumption, SMTT(30) DEF Outgoing, TypeOK
    <2>2. toRyu' \in SUBSET Incoming
      BY <1>12, <1>a, <2>1, SMTT(30)
      DEF SwitchAnswers, Incoming, TypeOK, xidVars, sendVars, pendVars, loopVars, echoVars, recvVars
    <2> QED
      BY <1>12, <1>a, <1>b, <2>2
      DEF SwitchAnswers, TypeOK, xidVars, sendVars, pendVars, loopVars, echoVars, recvVars
  <1>13. ASSUME NEW x \in SwitchXids, NEW p \in 1..Parts, SwitchSends(x, p) PROVE TypeOK'
    <2>1. toRyu' \in SUBSET Incoming
      BY <1>13, <1>a, DatapathAssumption
      DEF SwitchSends, Incoming, TypeOK, xidVars, sendVars, pendVars, loopVars, echoVars, recvVars
    <2> QED
      BY <1>13, <1>a, <1>b, <2>1
      DEF SwitchSends, TypeOK, xidVars, sendVars, pendVars, loopVars, echoVars, recvVars
  <1>14. CASE SwitchFails
    BY <1>14, <1>a, <1>b, SMTT(30)
    DEF SwitchFails, TypeOK, xidVars, sendVars, pendVars, loopVars, echoVars, recvVars
  <1>15. ASSUME NEW m \in toRyu, RecvDuplicate(m) PROVE TypeOK'
    BY <1>15, <1>a, <1>b, TurnEndsTypes
    DEF RecvDuplicate, TypeOK, xidVars, pendVars, netVars
  <1>16. ASSUME NEW m \in toRyu, RecvNew(m) PROVE TypeOK'
    <2>1. m \in Incoming /\ m.xid \in Xids
      BY <1>a DEF Incoming, TypeOK
    <2>2. /\ seen' \in SUBSET Xids /\ overdue' \in SUBSET Xids /\ gone' \in SUBSET Xids
          /\ pending' \in [Xids -> {None} \cup 0..MAX_RETRANSMITS]
      <3>1. CASE IsSequenced(m.xid)
        <4>1. seen' = Remember(seen, m.xid) /\ AckPending(m.xid)
          BY <1>16, <3>1
          DEF RecvNew, xidVars, sendVars, pendVars, loopVars, echoVars, netVars
        <4>2. Remember(seen, m.xid) \in SUBSET Xids
          BY <1>a, <2>1, RememberType DEF TypeOK
        <4> QED
          BY <1>a, <2>1, <4>1, <4>2 DEF AckPending, TypeOK
      <3>2. CASE ~IsSequenced(m.xid)
        BY <1>16, <1>a, <3>2
        DEF RecvNew, TypeOK, xidVars, sendVars, pendVars, loopVars, echoVars, netVars
      <3> QED
        BY <3>1, <3>2
    <2>3. <<m>> \in Seq(Incoming) /\ Len(<<m>>) = 1
      BY <2>1, SMTT(30)
    <2> QED
      BY <1>16, <1>a, <1>b, <2>1, <2>2, <2>3
      DEF RecvNew, TypeOK, xidVars, sendVars, pendVars, loopVars, echoVars, netVars
  <1>17. CASE RecvDispatch
    <2>1. msg[1] \in Incoming /\ msg[1].xid \in Xids
      <3>1. msg \in Seq(Incoming) /\ Len(msg) = 1
        BY <1>17, <1>a, ZenonT(30) DEF RecvDispatch, TypeOK, xidVars, pendVars, netVars
      <3>2. \A m \in Incoming : m.xid \in Xids
        BY DEF Incoming
      <3> QED
        BY <3>1, <3>2, SMTT(30)
    <2>2. /\ unreplied' \in SUBSET Xids /\ overdue' \in SUBSET Xids /\ gone' \in SUBSET Xids
          /\ pending' \in [Xids -> {None} \cup 0..MAX_RETRANSMITS]
      BY <1>17, <1>a, <2>1 DEF RecvDispatch, AckPending, TypeOK, xidVars, pendVars, netVars
    <2>3. dispatched' \in SUBSET Incoming /\ redone' \in SUBSET Xids
      BY <1>17, <1>a, <2>1 DEF RecvDispatch, TypeOK, xidVars, pendVars, netVars
    <2> QED
      BY <1>17, <1>a, <1>b, <2>2, <2>3, TurnEndsTypes, ZenonT(30)
      DEF RecvDispatch, TypeOK, xidVars, pendVars, netVars
  <1>18. CASE RecvRaises
    BY <1>18, <1>a, <1>b, TurnEndsTypes, SMTT(30)
    DEF RecvRaises, TypeOK, xidVars, pendVars, netVars
  <1>19. CASE UNCHANGED vars
    BY <1>19, <1>a
    DEF vars, TypeOK, xidVars, sendVars, pendVars, loopVars, echoVars, recvVars, netVars
  <1> QED
    BY <1>1, <1>2, <1>3, <1>4, <1>5, <1>6, <1>7, <1>8, <1>9, <1>10, <1>11, <1>12, <1>13,
       <1>14, <1>15, <1>16, <1>17, <1>18, <1>19 DEF Next

LEMMA TrackedInit == Init => Tracked
  <1> SUFFICES ASSUME Init PROVE Tracked
    OBVIOUS
  <1>1. dead \in BOOLEAN /\ sendOpen \in BOOLEAN /\ silent \in BOOLEAN
    BY Zenon DEF Init
  <1>2. <<>> \in Seq(Outgoing) /\ <<>> \in Seq(Incoming) /\ Len(<<>>) = 0
    OBVIOUS
  <1>3. TypeOK
    BY <1>1, <1>2, DatapathAssumption DEF Init, TypeOK
  <1>4. QueueIsFresh
    <2>1. send_q = <<>>
      BY DEF Init
    <2> QED
      BY <1>2, <2>1 DEF QueueIsFresh
  <1>5. \A x \in Xids : Agrees(x)
    BY DatapathAssumption DEF Init, Agrees, Unknown, IsPending
  <1> QED
    BY <1>3, <1>4, <1>5 DEF Tracked

LEMMA TrackedNext == Tracked /\ [Next]_vars => Tracked'
  BY AgreesNext, TypeNext DEF Tracked

LEMMA TrackedAlways == Spec => []Tracked
  BY TrackedInit, TrackedNext, PTL DEF Spec

(* Types of the variables; in particular the XID counter stays within      *)
(* MAX_XID and no count in _pending_msgs exceeds MAX_RETRANSMITS.          *)
THEOREM TypeCorrect == Spec => []TypeOK
  <1>1. Tracked => TypeOK
    BY DEF Tracked
  <1> QED
    BY <1>1, TrackedAlways, PTL

(* At most MAX_RETRANSMITS copies of a message follow the first, whatever  *)
(* replies, failures of sendto() and close() do between the moment         *)
(* _retransmit_loop collects a message and the moment it sends it.         *)
THEOREM CopiesAreBounded == Spec => []RetransmitBound
  <1>1. Tracked => RetransmitBound
    BY DEF Tracked, Agrees, RetransmitBound
  <1> QED
    BY <1>1, TrackedAlways, PTL

(* The retransmit_count of a pending message is the number of copies that  *)
(* really left the socket.                                                 *)
THEOREM CountIsExact == Spec => []CountMatchesWire
  <1>1. Tracked => CountMatchesWire
    BY DEF Tracked, Agrees, CountMatchesWire
  <1> QED
    BY <1>1, TrackedAlways, PTL

(* An acknowledged or abandoned message never returns to _pending_msgs,    *)
(* although _retransmit_loop writes to it without the lock it read under.  *)
THEOREM SettledForGood == Spec => []GoneIsGone
  <1>1. Tracked => GoneIsGone
    BY DEF Tracked, Agrees, GoneIsGone, TypeOK
  <1> QED
    BY <1>1, TrackedAlways, PTL
=============================================================================
