--------------------------- MODULE SendQueue_proofs ---------------------------
(***************************************************************************)
(* Theorems about SendQueue, for every queue length, every number of calls *)
(* and both transports.                                                    *)
(***************************************************************************)
EXTENDS SendQueue, SequenceTheorems, TLAPS

(* The type invariant needs the counting invariant: only that keeps the    *)
(* semaphore at MaxQ or below when the finally clause releases it.         *)
Counted == TypeOK /\ SemaphoreCountsFreePlaces

LEMMA FirstOfOne ==
    ASSUME NEW S, NEW s \in Seq(S), Len(s) = 1
    PROVE  s[1] \in S /\ s = <<s[1]>>
  <1> DEFINE o == <<s[1]>>
  <1>1. s \in [1..1 -> S] /\ o \in [1..1 -> S]
    OBVIOUS
  <1>2. o[1] = s[1]
    OBVIOUS
  <1> QED
    BY <1>1, <1>2

(* The sender that leaves the line was in it, and the rest still is.       *)
LEMMA WithoutType ==
    ASSUME NEW S, NEW s \in Seq(S), NEW i \in 1..Len(s)
    PROVE  Without(s, i) \in Seq(S) /\ Len(Without(s, i)) = Len(s) - 1
  <1> DEFINE n == Len(s) - 1
  <1>1. n \in Nat
    OBVIOUS
  <1>2. Without(s, i) \in [1..n -> S]
    BY DEF Without
  <1> QED
    BY <1>1, <1>2

(* The drain of the finally clause restores the semaphore.                 *)
LEMMA FinallyCounted ==
    ASSUME Counted, Finally
    PROVE  /\ open' \in BOOLEAN
           /\ send_q' \in Seq(Message)
           /\ sem' \in 0..MaxQ
           /\ loop' \in LoopState
           /\ cur' \in Seq(Message)
           /\ Len(cur') = IF loop' = "tx" THEN 1 ELSE 0
           /\ sem' + Len(send_q') = MaxQ
  <1>1. /\ open' = FALSE /\ send_q' = <<>> /\ cur' = <<>> /\ loop' = "done"
        /\ sem' = sem + Len(send_q)
    BY DEF Finally
  <1>2. sem' = MaxQ /\ MaxQ \in Nat
    BY <1>1, SendQueueAssumption DEF Counted, SemaphoreCountsFreePlaces
  <1>3. <<>> \in Seq(Message) /\ Len(<<>>) = 0
    OBVIOUS
  <1>4. sem' + Len(send_q') = MaxQ /\ sem' \in 0..MaxQ
    BY <1>1, <1>2, <1>3
  <1>5. open' \in BOOLEAN
    BY <1>1, Zenon
  <1> QED
    BY <1>1, <1>3, <1>4, <1>5 DEF LoopState

LEMMA WhileTestCounted ==
    ASSUME Counted, WhileTest
    PROVE  /\ open' \in BOOLEAN
           /\ send_q' \in Seq(Message)
           /\ sem' \in 0..MaxQ
           /\ loop' \in LoopState
           /\ cur' \in Seq(Message)
           /\ Len(cur') = IF loop' = "tx" THEN 1 ELSE 0
           /\ sem' + Len(send_q') = MaxQ
  <1>1. CASE Finally
    BY <1>1, FinallyCounted
  <1>2. CASE ~Finally
    <2>1. loop' = "get" /\ cur' = <<>> /\ UNCHANGED <<open, send_q, sem>>
      BY <1>2 DEF WhileTest
    <2>2. open' \in BOOLEAN
      BY <2>1, Zenon DEF Counted, TypeOK
    <2> QED
      BY <2>1, <2>2 DEF Counted, TypeOK, SemaphoreCountsFreePlaces, LoopState
  <1> QED
    BY <1>1, <1>2

LEMMA CountedInit == Init => Counted
  <1> SUFFICES ASSUME Init PROVE Counted
    OBVIOUS
  <1>1. dead \in BOOLEAN /\ open \in BOOLEAN /\ serving \in BOOLEAN
    BY Zenon DEF Init
  <1>2. <<>> \in Seq(Message) /\ Len(<<>>) = 0
    OBVIOUS
  <1> QED
    BY <1>1, <1>2, SendQueueAssumption
    DEF Init, Counted, TypeOK, SemaphoreCountsFreePlaces, LoopState

LEMMA PutCounted ==
    ASSUME Counted, sem > 0, NEW STATE m, m \in Message, PutOrDiscard(m)
    PROVE  send_q' \in Seq(Message) /\ sem' \in 0..MaxQ /\ sem' + Len(send_q') = MaxQ
  <1>1. CASE open
    <2>1. send_q' = Append(send_q, m) /\ sem' = sem - 1
      BY <1>1 DEF PutOrDiscard
    <2>2. send_q \in Seq(Message) /\ sem \in 0..MaxQ /\ MaxQ \in Nat
      BY SendQueueAssumption DEF Counted, TypeOK
    <2>3. Append(send_q, m) \in Seq(Message) /\ Len(Append(send_q, m)) = Len(send_q) + 1
      BY <2>2
    <2> QED
      BY <2>1, <2>2, <2>3 DEF Counted, SemaphoreCountsFreePlaces
  <1>2. CASE ~open
    BY <1>2 DEF PutOrDiscard, Counted, TypeOK, SemaphoreCountsFreePlaces
  <1> QED
    BY <1>1, <1>2

LEMMA CountedNext == Counted /\ [Next]_vars => Counted'
  <1> SUFFICES ASSUME Counted, [Next]_vars
               PROVE  Counted'
    OBVIOUS
  <1> USE SendQueueAssumption
  <1>1. ASSUME NEW kind \in Kind, Send(kind)
        PROVE  Counted'
    <2> DEFINE m == [id |-> calls + 1, kind |-> kind]
    <2>1. m \in Message /\ calls' \in 0..MaxCalls
      BY <1>1 DEF Send, Counted, TypeOK, Message
    <2>2. CASE CanAcquire
      <3>1. send_q' \in Seq(Message) /\ sem' \in 0..MaxQ /\ sem' + Len(send_q') = MaxQ
        BY <1>1, <2>1, <2>2, PutCounted DEF Send, CanAcquire
      <3> QED
        BY <1>1, <2>1, <2>2, <3>1
        DEF Send, Counted, TypeOK, SemaphoreCountsFreePlaces
    <2>3. CASE ~CanAcquire
      <3>1. waiters' = Append(waiters, m) /\ UNCHANGED <<send_q, sem>>
        BY <1>1, <2>3 DEF Send
      <3> QED
        BY <1>1, <2>1, <3>1 DEF Send, Counted, TypeOK, SemaphoreCountsFreePlaces
    <2> QED
      BY <2>2, <2>3
  <1>2. CASE Resume
    <2>1. Head(waiters) \in Message /\ Tail(waiters) \in Seq(Message)
      BY <1>2 DEF Resume, Counted, TypeOK
    <2>2. send_q' \in Seq(Message) /\ sem' \in 0..MaxQ /\ sem' + Len(send_q') = MaxQ
      BY <1>2, <2>1, PutCounted DEF Resume
    <2> QED
      BY <1>2, <2>1, <2>2 DEF Resume, Counted, TypeOK, SemaphoreCountsFreePlaces
  <1>3. CASE LoopStart
    BY <1>3, WhileTestCounted DEF LoopStart, Counted, TypeOK, SemaphoreCountsFreePlaces
  <1>4. CASE LoopGet
    <2>1. send_q \in Seq(Message) /\ send_q # <<>> /\ sem \in 0..MaxQ
      BY <1>4 DEF LoopGet, Counted, TypeOK
    <2>2. /\ Head(send_q) \in Message
          /\ Tail(send_q) \in Seq(Message)
          /\ Len(send_q) \in Nat \ {0}
          /\ Len(Tail(send_q)) = Len(send_q) - 1
      BY <2>1
    <2>3. sem' \in 0..MaxQ /\ sem' + Len(send_q') = MaxQ
      <3>1. sem' = sem + 1 /\ Len(send_q') = Len(send_q) - 1
        BY <1>4, <2>2 DEF LoopGet
      <3>2. sem + Len(send_q) = MaxQ
        BY DEF Counted, SemaphoreCountsFreePlaces
      <3> QED
        BY <2>1, <2>2, <3>1, <3>2, SendQueueAssumption
    <2>4. cur' \in Seq(Message) /\ Len(cur') = 1
      BY <1>4, <2>2 DEF LoopGet
    <2> QED
      BY <1>4, <2>2, <2>3, <2>4
      DEF LoopGet, Counted, TypeOK, SemaphoreCountsFreePlaces, LoopState
  <1>5. CASE LoopSent
    <2>1. cur[1] \in Message
      BY <1>5, FirstOfOne DEF LoopSent, Counted, TypeOK
    <2>2. sent' \in Seq(Message)
      BY <1>5, <2>1 DEF LoopSent, Counted, TypeOK
    <2> QED
      BY <1>5, <2>2, WhileTestCounted, FinallyCounted
      DEF LoopSent, Counted, TypeOK, SemaphoreCountsFreePlaces
  <1>6. CASE LoopFailed
    BY <1>6, WhileTestCounted, FinallyCounted
    DEF LoopFailed, Counted, TypeOK, SemaphoreCountsFreePlaces
  <1>7. CASE Close
    BY <1>7 DEF Close, Counted, TypeOK, SemaphoreCountsFreePlaces
  <1>8. CASE ServeEnds
    <2>1. waiters' \in Seq(Message)
      <3>1. CASE EchoWaits = {}
        BY <1>8, <3>1 DEF ServeEnds, Counted, TypeOK
      <3>2. CASE EchoWaits # {}
        <4>1. PICK i \in EchoWaits : waiters' = Without(waiters, i)
          BY <1>8, <3>2 DEF ServeEnds
        <4>2. i \in 1..Len(waiters) /\ waiters \in Seq(Message)
          BY DEF EchoWaits, Counted, TypeOK
        <4> QED
          BY <4>1, <4>2, WithoutType
      <3> QED
        BY <3>1, <3>2
    <2>2. CASE loop \in {"get", "tx"}
      <3>1. Finally
        BY <1>8, <2>2 DEF ServeEnds
      <3> QED
        BY <1>8, <2>1, <3>1, FinallyCounted
        DEF ServeEnds, Counted, TypeOK, SemaphoreCountsFreePlaces
    <2>3. CASE loop \notin {"get", "tx"}
      <3>1. loop' \in {loop, "killed"} /\ loop' # "tx" /\ UNCHANGED <<open, send_q, sem, cur>>
        BY <1>8, <2>3 DEF ServeEnds
      <3> QED
        BY <1>8, <2>1, <2>3, <3>1
        DEF ServeEnds, Counted, TypeOK, SemaphoreCountsFreePlaces, LoopState
    <2> QED
      BY <2>2, <2>3
  <1>9. CASE UNCHANGED vars
    BY <1>9 DEF vars, Counted, TypeOK, SemaphoreCountsFreePlaces
  <1> QED
    BY <1>1, <1>2, <1>3, <1>4, <1>5, <1>6, <1>7, <1>8, <1>9 DEF Next

LEMMA CountedAlways == Spec => []Counted
  BY CountedInit, CountedNext, PTL DEF Spec

(* Types of the variables of a datapath's sending half.                    *)
THEOREM TypeCorrect == Spec => []TypeOK
  <1>1. Counted => TypeOK
    BY DEF Counted
  <1> QED
    BY <1>1, CountedAlways, PTL

(* The semaphore of send() counts the free places of send_q at every       *)
(* moment: put() never blocks behind it, release() never raises.           *)
THEOREM Backpressure == Spec => []SemaphoreCountsFreePlaces
  <1>1. Counted => SemaphoreCountsFreePlaces
    BY DEF Counted
  <1> QED
    BY <1>1, CountedAlways, PTL

-----------------------------------------------------------------------------
(* Order.  All messages that exist come from a call that was made, so the  *)
(* message of the next call comes after them all.                          *)
Made(s) == \A i \in 1..Len(s) : s[i].id <= calls

Ordered ==
    /\ CallOrder
    /\ Made(sent) /\ Made(cur) /\ Made(send_q) /\ Made(waiters)

LEMMA OrderAppend ==
    ASSUME NEW s \in Seq(Message), NEW t \in Seq(Message), NEW m \in Message
    PROVE  /\ Increasing(s) /\ Before(s, <<m>>) => Increasing(Append(s, m))
           /\ Before(t, s) /\ Before(t, <<m>>) => Before(t, Append(s, m))
           /\ Before(s, t) /\ Before(<<m>>, t) => Before(Append(s, m), t)
  <1> DEFINE a == Append(s, m)
             o == <<m>>
  <1>1. /\ Len(a) = Len(s) + 1 /\ Len(s) \in Nat
        /\ \A i \in 1..Len(s) : a[i] = s[i]
        /\ a[Len(s) + 1] = m
    OBVIOUS
  <1>2. Len(o) = 1 /\ o[1] = m
    OBVIOUS
  <1>3. /\ \A i \in 1..Len(s) : s[i].id \in Nat
        /\ \A i \in 1..Len(t) : t[i].id \in Nat
        /\ m.id \in Nat
    <2>1. \A x \in Message : x.id \in Nat
      BY SendQueueAssumption DEF Message
    <2> QED
      BY <2>1
  <1> HIDE DEF a, o
  <1>4. ASSUME Increasing(s), Before(s, o)
        PROVE  Increasing(a)
    <2> SUFFICES ASSUME NEW i \in 1..Len(a), NEW j \in 1..Len(a), i < j
                 PROVE  a[i].id < a[j].id
      BY DEF Increasing
    <2>1. i \in 1..Len(s) /\ a[i] = s[i]
      BY <1>1
    <2>2. CASE j \in 1..Len(s)
      BY <1>1, <1>4, <2>1, <2>2 DEF Increasing
    <2>3. CASE j = Len(s) + 1
      BY <1>1, <1>2, <1>4, <2>1, <2>3 DEF Before
    <2> QED
      BY <1>1, <2>2, <2>3
  <1>5. ASSUME Before(t, s), Before(t, o)
        PROVE  Before(t, a)
    <2>1. SUFFICES ASSUME NEW i \in 1..Len(t), NEW j \in 1..Len(a)
                   PROVE  t[i].id < a[j].id
      BY DEF Before
    <2>2. CASE j \in 1..Len(s)
      <3>1. a[j] = s[j]
        BY <1>1, <2>2
      <3> QED
        BY <1>5, <2>2, <3>1 DEF Before
    <2>3. CASE j = Len(s) + 1
      <3>1. a[j] = o[1] /\ 1 \in 1..Len(o)
        BY <1>1, <1>2, <2>3
      <3> QED
        BY <1>5, <3>1 DEF Before
    <2> QED
      BY <1>1, <2>2, <2>3
  <1>6. ASSUME Before(s, t), Before(o, t)
        PROVE  Before(a, t)
    <2>1. SUFFICES ASSUME NEW i \in 1..Len(a), NEW j \in 1..Len(t)
                   PROVE  a[i].id < t[j].id
      BY DEF Before
    <2>2. CASE i \in 1..Len(s)
      <3>1. a[i] = s[i]
        BY <1>1, <2>2
      <3> QED
        BY <1>6, <2>2, <3>1 DEF Before
    <2>3. CASE i = Len(s) + 1
      <3>1. a[i] = o[1] /\ 1 \in 1..Len(o)
        BY <1>1, <1>2, <2>3
      <3> QED
        BY <1>6, <3>1 DEF Before
    <2> QED
      BY <1>1, <2>2, <2>3
  <1> QED
    BY <1>4, <1>5, <1>6 DEF a, o

LEMMA OrderTail ==
    ASSUME NEW s \in Seq(Message), NEW t \in Seq(Message), s # <<>>
    PROVE  /\ Increasing(s) => Increasing(Tail(s)) /\ Before(<<Head(s)>>, Tail(s))
           /\ Before(t, s) => Before(t, Tail(s)) /\ Before(t, <<Head(s)>>)
           /\ Before(s, t) => Before(Tail(s), t) /\ Before(<<Head(s)>>, t)
  <1> DEFINE r == Tail(s)
             o == <<Head(s)>>
  <1>1. /\ Len(r) = Len(s) - 1 /\ Len(s) \in Nat /\ Len(s) > 0
        /\ \A i \in 1..Len(r) : r[i] = s[i + 1]
    BY HeadTailProperties, EmptySeq
  <1>2. Len(o) = 1 /\ o[1] = s[1]
    OBVIOUS
  <1> HIDE DEF r, o
  <1>3. \A i \in 1..Len(r) : i + 1 \in 1..Len(s)
    BY <1>1
  <1>4. ASSUME Increasing(s) PROVE Increasing(r) /\ Before(o, r)
    <2>1. Increasing(r)
      <3>1. SUFFICES ASSUME NEW i \in 1..Len(r), NEW j \in 1..Len(r), i < j
                     PROVE  r[i].id < r[j].id
        BY DEF Increasing
      <3>2. r[i] = s[i + 1] /\ r[j] = s[j + 1]
        BY <1>1
      <3>3. i + 1 \in 1..Len(s) /\ j + 1 \in 1..Len(s)
        BY <1>3
      <3>4. i + 1 < j + 1
        BY <1>1, <3>1
      <3>5. s[i + 1].id < s[j + 1].id
        BY <1>4, <3>3, <3>4 DEF Increasing
      <3> QED
        BY <3>2, <3>5
    <2>2. Before(o, r)
      <3>1. SUFFICES ASSUME NEW i \in 1..Len(o), NEW j \in 1..Len(r)
                     PROVE  o[i].id < r[j].id
        BY DEF Before
      <3>2. o[i] = s[1] /\ r[j] = s[j + 1]
        BY <1>1, <1>2
      <3>3. 1 \in 1..Len(s) /\ j + 1 \in 1..Len(s) /\ 1 < j + 1
        BY <1>1, <1>3
      <3>4. s[1].id < s[j + 1].id
        BY <1>4, <3>3 DEF Increasing
      <3> QED
        BY <3>2, <3>4
    <2> QED
      BY <2>1, <2>2
  <1>5. ASSUME Before(t, s) PROVE Before(t, r) /\ Before(t, o)
    <2>1. Before(t, r)
      <3>1. SUFFICES ASSUME NEW i \in 1..Len(t), NEW j \in 1..Len(r)
                     PROVE  t[i].id < r[j].id
        BY DEF Before
      <3>2. r[j] = s[j + 1] /\ j + 1 \in 1..Len(s)
        BY <1>1, <1>3
      <3> QED
        BY <1>5, <3>2 DEF Before
    <2>2. Before(t, o)
      <3>1. 1 \in 1..Len(s) /\ \A j \in 1..Len(o) : o[j] = s[1]
        BY <1>1, <1>2
      <3> QED
        BY <3>1, <1>5 DEF Before
    <2> QED
      BY <2>1, <2>2
  <1>6. ASSUME Before(s, t) PROVE Before(r, t) /\ Before(o, t)
    <2>1. Before(r, t)
      <3>1. SUFFICES ASSUME NEW i \in 1..Len(r), NEW j \in 1..Len(t)
                     PROVE  r[i].id < t[j].id
        BY DEF Before
      <3>2. r[i] = s[i + 1] /\ i + 1 \in 1..Len(s)
        BY <1>1, <1>3
      <3> QED
        BY <1>6, <3>2 DEF Before
    <2>2. Before(o, t)
      <3>1. 1 \in 1..Len(s) /\ \A j \in 1..Len(o) : o[j] = s[1]
        BY <1>1, <1>2
      <3> QED
        BY <3>1, <1>6 DEF Before
    <2> QED
      BY <2>1, <2>2
  <1> QED
    BY <1>4, <1>5, <1>6 DEF r, o

LEMMA OrderWithout ==
    ASSUME NEW s \in Seq(Message), NEW t \in Seq(Message), NEW i \in 1..Len(s)
    PROVE  /\ Increasing(s) => Increasing(Without(s, i))
           /\ Before(t, s) => Before(t, Without(s, i))
  <1> DEFINE w == Without(s, i)
  <1>1. Len(w) = Len(s) - 1 /\ Len(s) \in Nat
    BY WithoutType
  <1>2. \A j \in 1..Len(w) : w[j] = IF j < i THEN s[j] ELSE s[j + 1]
    BY <1>1 DEF Without
  <1> HIDE DEF w
  <1>3. ASSUME Increasing(s) PROVE Increasing(w)
    <2> SUFFICES ASSUME NEW j \in 1..Len(w), NEW k \in 1..Len(w), j < k
                 PROVE  w[j].id < w[k].id
      BY DEF Increasing
    <2> DEFINE f(x) == IF x < i THEN x ELSE x + 1
    <2>1. f(j) \in 1..Len(s) /\ f(k) \in 1..Len(s) /\ f(j) < f(k)
      BY <1>1
    <2>2. w[j] = s[f(j)] /\ w[k] = s[f(k)]
      BY <1>2
    <2> HIDE DEF f
    <2> QED
      BY <1>3, <2>1, <2>2 DEF Increasing
  <1>4. ASSUME Before(t, s) PROVE Before(t, w)
    <2>1. SUFFICES ASSUME NEW j \in 1..Len(t), NEW k \in 1..Len(w)
                   PROVE  t[j].id < w[k].id
      BY DEF Before
    <2> DEFINE g == IF k < i THEN k ELSE k + 1
    <2>2. g \in 1..Len(s)
      BY <1>1
    <2>3. w[k] = s[g]
      BY <1>2
    <2> HIDE DEF g
    <2> QED
      BY <1>4, <2>2, <2>3 DEF Before
  <1> QED
    BY <1>3, <1>4 DEF w

LEMMA OrderEmpty ==
    ASSUME NEW s \in Seq(Message)
    PROVE  Increasing(<<>>) /\ Before(<<>>, s) /\ Before(s, <<>>)
  BY DEF Increasing, Before

LEMMA OrderOne ==
    ASSUME NEW m \in Message
    PROVE  Increasing(<<m>>)
  BY DEF Increasing

LEMMA MadeBefore ==
    ASSUME Counted, NEW STATE s, s \in Seq(Message), NEW STATE m, m \in Message,
           Made(s), m.id = calls + 1
    PROVE  Before(s, <<m>>)
  <1> DEFINE o == <<m>>
  <1>1. Len(o) = 1 /\ o[1] = m
    OBVIOUS
  <1>2. calls \in Nat /\ \A i \in 1..Len(s) : s[i].id \in Nat
    <2>1. \A x \in Message : x.id \in Nat
      BY SendQueueAssumption DEF Message
    <2>2. calls \in Nat
      BY SendQueueAssumption DEF Counted, TypeOK
    <2> QED
      BY <2>1, <2>2
  <1> HIDE DEF o
  <1>3. Before(s, o)
    BY <1>1, <1>2 DEF Made, Before
  <1> QED
    BY <1>3 DEF o

LEMMA MadeAppend ==
    ASSUME NEW s \in Seq(Message), NEW m \in Message, NEW c \in Nat,
           \A i \in 1..Len(s) : s[i].id <= c, m.id <= c
    PROVE  \A i \in 1..Len(Append(s, m)) : Append(s, m)[i].id <= c
  OBVIOUS

LEMMA MadeLater ==
    ASSUME NEW s \in Seq(Message), NEW c \in Nat,
           \A i \in 1..Len(s) : s[i].id <= c
    PROVE  \A i \in 1..Len(s) : s[i].id <= c + 1
  <1>1. \A x \in Message : x.id \in Nat
    BY SendQueueAssumption DEF Message
  <1> QED
    BY <1>1

LEMMA MadeTail ==
    ASSUME NEW s \in Seq(Message), NEW c \in Nat, s # <<>>,
           \A i \in 1..Len(s) : s[i].id <= c
    PROVE  /\ \A i \in 1..Len(Tail(s)) : Tail(s)[i].id <= c
           /\ Head(s).id <= c
  OBVIOUS

LEMMA MadeWithout ==
    ASSUME NEW s \in Seq(Message), NEW c \in Nat, NEW k \in 1..Len(s),
           \A i \in 1..Len(s) : s[i].id <= c
    PROVE  \A i \in 1..Len(Without(s, k)) : Without(s, k)[i].id <= c
  BY WithoutType DEF Without

(* A step of the loop: its message leaves, to the socket or nowhere, and   *)
(* the queue stays or is drained.                                          *)
LEMMA OrderedTurn ==
    ASSUME Counted, Ordered,
           cur' = <<>>,
           send_q' = <<>> \/ send_q' = send_q,
           sent' = sent \/ (Len(cur) = 1 /\ sent' = Append(sent, cur[1])),
           UNCHANGED <<waiters, calls>>
    PROVE  Ordered'
  <1> USE DEF Ordered, CallOrder
  <1>1. /\ sent \in Seq(Message) /\ cur \in Seq(Message) /\ calls \in Nat
        /\ send_q \in Seq(Message) /\ waiters \in Seq(Message)
    BY SendQueueAssumption DEF Counted, TypeOK
  <1>2. sent' \in Seq(Message) /\ Increasing(sent') /\ Before(sent', send_q)
        /\ Before(sent', waiters) /\ Made(sent)'
    <2>1. CASE sent' = sent
      BY <1>1, <2>1 DEF Made
    <2>2. CASE Len(cur) = 1 /\ sent' = Append(sent, cur[1])
      <3>1. cur[1] \in Message /\ cur = <<cur[1]>>
        BY <1>1, <2>2, FirstOfOne
      <3>2. cur[1].id <= calls
        BY <2>2 DEF Made
      <3>3. Made(sent)'
        BY <1>1, <2>2, <3>1, <3>2, MadeAppend DEF Made
      <3>4. Increasing(sent') /\ Before(sent', send_q) /\ Before(sent', waiters)
        BY <1>1, <2>2, <3>1, OrderAppend
      <3> QED
        BY <1>1, <2>2, <3>1, <3>3, <3>4
    <2> QED
      BY <2>1, <2>2
  <1>3. /\ send_q' \in Seq(Message) /\ Increasing(send_q') /\ Before(sent', send_q')
        /\ Before(send_q', waiters) /\ Made(send_q)'
    <2>1. CASE send_q' = send_q
      BY <1>1, <1>2, <2>1 DEF Made
    <2>2. CASE send_q' = <<>>
      BY <1>1, <1>2, <2>2, OrderEmpty DEF Made
    <2> QED
      BY <2>1, <2>2
  <1>4. /\ Increasing(cur') /\ Before(sent', cur') /\ Before(cur', send_q')
        /\ Before(cur', waiters) /\ Made(cur)'
    BY <1>1, <1>2, <1>3, OrderEmpty DEF Made
  <1>5. Made(waiters)'
    BY DEF Made
  <1> QED
    BY <1>2, <1>3, <1>4, <1>5

LEMMA OrderedNext == Counted /\ Ordered /\ [Next]_vars => Ordered'
  <1> SUFFICES ASSUME Counted, Ordered, [Next]_vars PROVE Ordered'
    OBVIOUS
  <1>0. /\ sent \in Seq(Message) /\ cur \in Seq(Message) /\ calls \in Nat
        /\ send_q \in Seq(Message) /\ waiters \in Seq(Message)
        /\ Len(cur) = IF loop = "tx" THEN 1 ELSE 0
    BY SendQueueAssumption DEF Counted, TypeOK
  <1>1. ASSUME NEW kind \in Kind, Send(kind) PROVE Ordered'
    <2> DEFINE m == [id |-> calls + 1, kind |-> kind]
    <2>1. m \in Message /\ m.id = calls + 1 /\ calls' = calls + 1
      BY <1>1, <1>0, SendQueueAssumption DEF Send, Message
    <2>2. Before(sent, <<m>>) /\ Before(cur, <<m>>) /\ Before(send_q, <<m>>) /\ Before(waiters, <<m>>)
      BY <1>0, <2>1, MadeBefore DEF Ordered
    <2>3. UNCHANGED <<sent, cur>>
      BY <1>1 DEF Send
    <2> HIDE DEF m
    <2>4. CASE send_q' = Append(send_q, m) /\ waiters = <<>> /\ waiters' = waiters
      <3>0. send_q' \in Seq(Message)
        BY <1>0, <2>1, <2>4
      <3>a. Increasing(send_q') /\ Before(sent, send_q') /\ Before(cur, send_q')
        BY <1>0, <2>1, <2>2, <2>4, OrderAppend DEF Ordered, CallOrder
      <3>b. Before(send_q', waiters')
        BY <2>4, <3>0, OrderEmpty
      <3>1. CallOrder'
        BY <2>3, <2>4, <3>a, <3>b DEF Ordered, CallOrder
      <3>2. Made(sent)' /\ Made(cur)' /\ Made(waiters)'
        BY <1>0, <2>1, <2>3, <2>4, MadeLater DEF Ordered, Made
      <3>3. Made(send_q)'
        <4>1. \A i \in 1..Len(send_q) : send_q[i].id <= calls + 1
          BY <1>0, MadeLater DEF Ordered, Made
        <4>2. calls + 1 \in Nat /\ m.id <= calls + 1
          BY <1>0, <2>1
        <4> QED
          BY <1>0, <2>1, <2>4, <4>1, <4>2, MadeAppend DEF Made
      <3> QED
        BY <3>1, <3>2, <3>3 DEF Ordered
    <2>5. CASE send_q' = send_q /\ waiters' = waiters
      BY <1>0, <2>1, <2>3, <2>5, MadeLater DEF Ordered, CallOrder, Made
    <2>6. CASE send_q' = send_q /\ waiters' = Append(waiters, m)
      <3>1. CallOrder'
        BY <1>0, <2>1, <2>2, <2>3, <2>6, OrderAppend DEF Ordered, CallOrder
      <3>2. Made(sent)' /\ Made(cur)' /\ Made(send_q)'
        BY <1>0, <2>1, <2>3, <2>6, MadeLater DEF Ordered, Made
      <3>3. Made(waiters)'
        <4>1. \A i \in 1..Len(waiters) : waiters[i].id <= calls + 1
          BY <1>0, MadeLater DEF Ordered, Made
        <4>2. calls + 1 \in Nat /\ m.id <= calls + 1
          BY <1>0, <2>1
        <4> QED
          BY <1>0, <2>1, <2>6, <4>1, <4>2, MadeAppend DEF Made
      <3> QED
        BY <3>1, <3>2, <3>3 DEF Ordered
    <2> QED
      BY <1>1, <2>4, <2>5, <2>6 DEF Send, CanAcquire, PutOrDiscard, m
  <1>2. CASE Resume
    <2> DEFINE m == Head(waiters)
    <2>1. waiters # <<>> /\ waiters' = Tail(waiters) /\ UNCHANGED <<sent, cur, calls>>
      BY <1>2 DEF Resume
    <2>2. m \in Message /\ Tail(waiters) \in Seq(Message)
      BY <1>0, <2>1
    <2>3. /\ Increasing(waiters') /\ Before(<<m>>, waiters')
          /\ Before(sent, waiters') /\ Before(cur, waiters') /\ Before(send_q, waiters')
          /\ Before(sent, <<m>>) /\ Before(cur, <<m>>) /\ Before(send_q, <<m>>)
      BY <1>0, <2>1, OrderTail DEF Ordered, CallOrder
    <2>4. Made(waiters)' /\ m.id <= calls
      BY <1>0, <2>1, MadeTail DEF Ordered, Made
    <2>5. Made(sent)' /\ Made(cur)'
      BY <2>1 DEF Ordered, Made
    <2> HIDE DEF m
    <2>6. CASE send_q' = Append(send_q, m)
      <3>1. CallOrder'
        BY <1>0, <2>1, <2>2, <2>3, <2>6, OrderAppend DEF Ordered, CallOrder
      <3>2. Made(send_q)'
        BY <1>0, <2>1, <2>2, <2>4, <2>6, MadeAppend DEF Ordered, Made
      <3> QED
        BY <2>4, <2>5, <3>1, <3>2 DEF Ordered
    <2>7. CASE send_q' = send_q
      BY <2>1, <2>3, <2>4, <2>5, <2>7 DEF Ordered, CallOrder, Made
    <2> QED
      BY <1>2, <2>6, <2>7 DEF Resume, PutOrDiscard, m
  <1>3. CASE LoopStart
    <2>1. cur = <<>>
      BY <1>0, <1>3 DEF LoopStart
    <2> QED
      BY <1>3, <2>1, OrderedTurn DEF LoopStart, WhileTest, Finally
  <1>4. CASE LoopGet
    <2> DEFINE m == Head(send_q)
    <2>1. send_q # <<>> /\ send_q' = Tail(send_q) /\ cur' = <<m>> /\ UNCHANGED <<sent, waiters, calls>>
      BY <1>4 DEF LoopGet
    <2>2. m \in Message /\ Tail(send_q) \in Seq(Message) /\ cur' \in Seq(Message)
      BY <1>0, <2>1
    <2>3. /\ Increasing(send_q') /\ Before(<<m>>, send_q') /\ Before(sent, send_q')
          /\ Before(sent, <<m>>) /\ Before(send_q', waiters) /\ Before(<<m>>, waiters)
      BY <1>0, <2>1, OrderTail DEF Ordered, CallOrder
    <2>4. Made(send_q)' /\ m.id <= calls
      BY <1>0, <2>1, MadeTail DEF Ordered, Made
    <2>5. Made(sent)' /\ Made(waiters)'
      BY <2>1 DEF Ordered, Made
    <2>6. Increasing(cur')
      BY <2>1, <2>2, OrderOne
    <2> HIDE DEF m
    <2>7. Made(cur)'
      BY <2>1, <2>2, <2>4 DEF Made
    <2> QED
      BY <2>1, <2>3, <2>4, <2>5, <2>6, <2>7 DEF Ordered, CallOrder
  <1>5. CASE LoopSent
    <2>1. Len(cur) = 1
      BY <1>0, <1>5 DEF LoopSent
    <2> QED
      BY <1>5, <2>1, OrderedTurn DEF LoopSent, WhileTest, Finally
  <1>6. CASE LoopFailed
    BY <1>6, OrderedTurn DEF LoopFailed, WhileTest, Finally
  <1>7. CASE Close
    BY <1>7 DEF Close, Ordered, CallOrder, Made
  <1>8. CASE ServeEnds
    <2>1. /\ cur' = <<>> \/ cur' = cur
          /\ send_q' = <<>> \/ send_q' = send_q
          /\ UNCHANGED <<sent, calls>>
      BY <1>8 DEF ServeEnds, Finally
    <2>2. /\ waiters' \in Seq(Message) /\ Increasing(waiters') /\ Made(waiters)'
          /\ Before(sent, waiters') /\ Before(cur, waiters') /\ Before(send_q, waiters')
      <3>1. CASE waiters' = waiters
        BY <1>0, <2>1, <3>1 DEF Ordered, CallOrder, Made
      <3>2. CASE \E i \in 1..Len(waiters) : waiters' = Without(waiters, i)
        <4>1. PICK i \in 1..Len(waiters) : waiters' = Without(waiters, i)
          BY <3>2
        <4>2. waiters' \in Seq(Message)
          BY <1>0, <4>1, WithoutType
        <4>3. Made(waiters)'
          BY <1>0, <2>1, <4>1, MadeWithout DEF Ordered, Made
        <4>4. /\ Increasing(waiters') /\ Before(sent, waiters')
              /\ Before(cur, waiters') /\ Before(send_q, waiters')
          BY <1>0, <4>1, OrderWithout DEF Ordered, CallOrder
        <4> QED
          BY <4>2, <4>3, <4>4
      <3> QED
        BY <1>8, <3>1, <3>2 DEF ServeEnds, EchoWaits
    <2>3. Increasing(cur') /\ Made(cur)' /\ Before(sent, cur') /\ Before(cur', waiters')
          /\ Before(cur', send_q)
      BY <1>0, <2>1, <2>2, OrderEmpty DEF Ordered, CallOrder, Made
    <2>4. Increasing(send_q') /\ Made(send_q)' /\ Before(sent, send_q')
          /\ Before(send_q', waiters')
      BY <1>0, <2>1, <2>2, OrderEmpty DEF Ordered, CallOrder, Made
    <2>5. Before(cur', send_q')
      <3>1. cur' \in Seq(Message)
        BY <1>0, <2>1, EmptySeq
      <3>2. CASE send_q' = <<>>
        BY <3>1, <3>2, OrderEmpty
      <3>3. CASE send_q' = send_q
        BY <2>3, <3>3
      <3> QED
        BY <2>1, <3>2, <3>3
    <2> QED
      BY <2>1, <2>2, <2>3, <2>4, <2>5 DEF Ordered, CallOrder, Made
  <1>9. CASE UNCHANGED vars
    BY <1>9 DEF vars, Ordered, CallOrder, Made
  <1> QED
    BY <1>1, <1>2, <1>3, <1>4, <1>5, <1>6, <1>7, <1>8, <1>9 DEF Next

LEMMA OrderedInit == Init => Ordered
  BY DEF Init, Ordered, CallOrder, Made, Increasing, Before

(* Messages reach the socket in the order of the send() calls and none of  *)
(* them twice, for every length of send_q and any number of senders.       *)
THEOREM InCallOrder == Spec => []CallOrder
  <1>1. Counted /\ Ordered /\ [Next]_vars => Ordered'
    BY OrderedNext
  <1>2. Ordered => CallOrder
    BY DEF Ordered
  <1> QED
    BY <1>1, <1>2, OrderedInit, CountedAlways, PTL DEF Spec

-----------------------------------------------------------------------------
(* close_socket.  send_q is None exactly when the loop has run its finally *)
(* clause, so a loop that reaches the socket again never sent a "close".   *)
Closing ==
    /\ CloseIsLast
    /\ loop = "done" => ~open
    /\ loop # "done" => open

LEMMA ClosingInit == Init => Closing
  BY DEF Init, Closing, CloseIsLast

LEMMA ClosingNext == Counted /\ Closing /\ [Next]_vars => Closing'
  <1> SUFFICES ASSUME Counted, Closing, [Next]_vars PROVE Closing'
    OBVIOUS
  <1> USE DEF Closing, CloseIsLast
  <1>1. CASE \E kind \in Kind : Send(kind)
    BY <1>1 DEF Send
  <1>2. CASE Resume
    BY <1>2 DEF Resume
  <1>3. CASE LoopStart
    BY <1>3 DEF LoopStart, WhileTest, Finally
  <1>4. CASE LoopGet
    BY <1>4 DEF LoopGet
  <1>5. CASE LoopSent
    <2>1. sent \in Seq(Message) /\ cur[1] \in Message
      BY <1>5, FirstOfOne DEF LoopSent, Counted, TypeOK
    <2>2. open /\ \A i \in 1..Len(sent) : sent[i].kind # "close"
      BY <1>5 DEF LoopSent
    <2>3. /\ Len(sent') = Len(sent) + 1 /\ Len(sent) \in Nat
          /\ \A i \in 1..Len(sent) : sent'[i] = sent[i]
          /\ sent'[Len(sent) + 1] = cur[1]
      BY <1>5, <2>1 DEF LoopSent
    <2>4. CASE cur[1].kind = "close"
      <3>1. ~open' /\ loop' = "done"
        BY <1>5, <2>4 DEF LoopSent, Finally
      <3> QED
        BY <2>2, <2>3, <3>1
    <2>5. CASE cur[1].kind # "close"
      <3>1. (loop' = "done" /\ ~open') \/ (loop' # "done" /\ open')
        BY <1>5, <2>2, <2>5 DEF LoopSent, WhileTest, Finally
      <3> QED
        BY <2>2, <2>3, <2>5, <3>1
    <2> QED
      BY <2>4, <2>5
  <1>6. CASE LoopFailed
    BY <1>6 DEF LoopFailed, WhileTest, Finally
  <1>7. CASE Close
    BY <1>7 DEF Close
  <1>8. CASE ServeEnds
    BY <1>8 DEF ServeEnds, Finally
  <1>9. CASE UNCHANGED vars
    BY <1>9 DEF vars
  <1> QED
    BY <1>1, <1>2, <1>3, <1>4, <1>5, <1>6, <1>7, <1>8, <1>9 DEF Next

(* Nothing reaches the socket after a message with close_socket=True.      *)
THEOREM NothingAfterClose == Spec => []CloseIsLast
  <1>1. Counted /\ Closing /\ [Next]_vars => Closing'
    BY ClosingNext
  <1>2. Closing => CloseIsLast
    BY DEF Closing
  <1> QED
    BY <1>1, <1>2, ClosingInit, CountedAlways, PTL DEF Spec

-----------------------------------------------------------------------------
(* Refinement.  The channel of Outbox is what the loop holds followed by   *)
(* what is queued.                                                         *)
LEMMA ChannelAppend ==
    ASSUME NEW c \in Seq(Message), NEW s \in Seq(Message), NEW m \in Message
    PROVE  c \o Append(s, m) = Append(c \o s, m)
  <1>1. <<m>> \in Seq(Message) /\ c \o s \in Seq(Message)
    BY ConcatProperties
  <1>2. Append(s, m) = s \o <<m>> /\ Append(c \o s, m) = (c \o s) \o <<m>>
    BY <1>1, AppendIsConcat
  <1> QED
    BY <1>1, <1>2, ConcatAssociative

LEMMA ChannelFirst ==
    ASSUME NEW m \in Message, NEW s \in Seq(Message)
    PROVE  /\ <<m>> \o s # <<>>
           /\ Head(<<m>> \o s) = m
           /\ Tail(<<m>> \o s) = s
  <1> DEFINE o == <<m>>
             c == o \o s
  <1>1. o \in Seq(Message) /\ Len(o) = 1 /\ o[1] = m
    OBVIOUS
  <1> HIDE DEF o
  <1>a. /\ c \in Seq(Message) /\ Len(c) = Len(o) + Len(s)
        /\ \A i \in 1..(Len(o) + Len(s)) :
              c[i] = IF i <= Len(o) THEN o[i] ELSE s[i - Len(o)]
    BY <1>1, ConcatProperties
  <1>2. /\ c \in Seq(Message) /\ Len(c) = 1 + Len(s) /\ Len(s) \in Nat
        /\ c[1] = m /\ \A i \in 1..Len(s) : c[i + 1] = s[i]
    <2> HIDE DEF c
    <2>1. Len(s) \in Nat
      BY LenProperties
    <2>2. c[1] = m
      BY <1>1, <1>a, <2>1
    <2>3. ASSUME NEW i \in 1..Len(s) PROVE c[i + 1] = s[i]
      <3>1. i + 1 \in 1..(1 + Len(s)) /\ ~(i + 1 <= 1) /\ (i + 1) - 1 = i
        BY <2>1
      <3> QED
        BY <1>1, <1>a, <3>1
    <2> QED
      BY <1>1, <1>a, <2>1, <2>2, <2>3
  <1> HIDE DEF c
  <1>3. c # <<>> /\ Head(c) = m
    BY <1>2
  <1>4. /\ Tail(c) \in Seq(Message) /\ Len(Tail(c)) = Len(s)
        /\ \A i \in 1..Len(s) : Tail(c)[i] = c[i + 1]
    BY <1>2, <1>3, HeadTailProperties
  <1>5. Tail(c) = s
    BY <1>2, <1>4, SeqEqual
  <1> QED
    BY <1>3, <1>5 DEF c, o

LEMMA ChannelGet ==
    ASSUME NEW s \in Seq(Message), s # <<>>
    PROVE  <<Head(s)>> \o Tail(s) = s
  <1> DEFINE o == <<Head(s)>>
             c == o \o Tail(s)
  <1>1. /\ Head(s) \in Message /\ Tail(s) \in Seq(Message) /\ Head(s) = s[1]
        /\ Len(s) \in Nat /\ Len(Tail(s)) = Len(s) - 1
        /\ \A i \in 1..Len(Tail(s)) : Tail(s)[i] = s[i + 1]
    BY HeadTailProperties, LenProperties
  <1>2. o \in Seq(Message) /\ Len(o) = 1 /\ o[1] = s[1]
    BY <1>1
  <1> HIDE DEF o
  <1>3. /\ c \in Seq(Message) /\ Len(c) = Len(s)
        /\ \A i \in 1..Len(s) : c[i] = IF i <= 1 THEN o[i] ELSE Tail(s)[i - 1]
    <2> DEFINE t == Tail(s)
    <2>1. t \in Seq(Message) /\ Len(o) + Len(t) = Len(s)
      BY <1>1, <1>2
    <2> HIDE DEF t
    <2>2. /\ o \o t \in Seq(Message) /\ Len(o \o t) = Len(o) + Len(t)
          /\ \A i \in 1..(Len(o) + Len(t)) :
                (o \o t)[i] = IF i <= Len(o) THEN o[i] ELSE t[i - Len(o)]
      BY <1>2, <2>1, ConcatProperties
    <2>3. c = o \o t
      BY DEF t
    <2> HIDE DEF c
    <2>4. \A i \in 1..Len(s) : c[i] = IF i <= 1 THEN o[i] ELSE t[i - 1]
      BY <1>2, <2>1, <2>2, <2>3
    <2> QED
      BY <2>1, <2>2, <2>3, <2>4 DEF t
  <1> HIDE DEF c
  <1>4. \A i \in 1..Len(s) : c[i] = s[i]
    <2> SUFFICES ASSUME NEW i \in 1..Len(s) PROVE c[i] = s[i]
      OBVIOUS
    <2>1. CASE i = 1
      BY <1>2, <1>3, <2>1
    <2>2. CASE i > 1
      <3>1. i - 1 \in 1..Len(Tail(s)) /\ (i - 1) + 1 = i
        BY <1>1, <2>2
      <3>2. Tail(s)[i - 1] = s[i]
        BY <1>1, <3>1
      <3> QED
        BY <1>3, <2>2, <3>2
    <2> QED
      BY <1>1, <2>1, <2>2
  <1> QED
    BY <1>3, <1>4, SeqEqual DEF c, o

(* While the loop is at the socket the channel starts with its message;    *)
(* otherwise the channel is send_q.                                        *)
LEMMA Channel ==
    ASSUME Counted
    PROVE  /\ loop # "tx" => cur = <<>> /\ cur \o send_q = send_q
           /\ loop = "tx" => /\ cur[1] \in Message
                             /\ cur \o send_q # <<>>
                             /\ Head(cur \o send_q) = cur[1]
                             /\ Tail(cur \o send_q) = send_q
           /\ <<>> \o send_q = send_q
  <1>1. /\ send_q \in Seq(Message) /\ cur \in Seq(Message)
        /\ Len(cur) = IF loop = "tx" THEN 1 ELSE 0
    BY DEF Counted, TypeOK
  <1>2. <<>> \o send_q = send_q
    BY <1>1, ConcatEmptySeq
  <1>3. CASE loop # "tx"
    <2>1. cur = <<>>
      BY <1>1, <1>3, EmptySeq
    <2> QED
      BY <1>2, <1>3, <2>1
  <1>4. CASE loop = "tx"
    <2>1. cur[1] \in Message /\ cur = <<cur[1]>>
      BY <1>1, <1>4, FirstOfOne
    <2> QED
      BY <1>1, <1>2, <1>4, <2>1, ChannelFirst
  <1> QED
    BY <1>3, <1>4

LEMMA RoomForOne ==
    ASSUME NEW n \in 0..1, NEW q \in Nat, NEW k \in Nat, NEW max \in Nat,
           k > 0, k + q = max
    PROVE  n + q <= max
  OBVIOUS

(* send() that holds the semaphore and finds send_q is an Accept.          *)
LEMMA PutAccepts ==
    ASSUME Counted, sem > 0, NEW STATE m, m \in Message, PutOrDiscard(m),
           UNCHANGED <<cur, sent, open>>
    PROVE  [Box!Next]_Box!vars
  <1>1. /\ send_q \in Seq(Message) /\ cur \in Seq(Message)
        /\ Len(cur) \in 0..1 /\ sem \in Nat /\ MaxQ \in Nat
        /\ sem + Len(send_q) = MaxQ
    BY SendQueueAssumption DEF Counted, TypeOK, SemaphoreCountsFreePlaces
  <1>2. CASE open
    <2>1. send_q' = Append(send_q, m)
      BY <1>2 DEF PutOrDiscard
    <2>2. cur' \o send_q' = Append(cur \o send_q, m)
      BY <1>1, <2>1, ChannelAppend
    <2>3. Len(cur \o send_q) <= MaxQ
      <3>1. Len(cur \o send_q) = Len(cur) + Len(send_q)
        BY <1>1, ConcatProperties
      <3>2. Len(send_q) \in Nat
        BY <1>1
      <3>3. Len(cur) + Len(send_q) <= MaxQ
        BY <1>1, <3>2, RoomForOne
      <3> QED
        BY <3>1, <3>3
    <2> QED
      BY <1>2, <2>2, <2>3 DEF Box!Next, Box!Accept
  <1>3. CASE ~open
    BY <1>3 DEF PutOrDiscard, Box!vars
  <1> QED
    BY <1>2, <1>3

(* The finally clause shuts the channel, its first message sent or not.    *)
LEMMA FinallyShuts ==
    ASSUME Counted, Closing, loop # "done", Finally,
           \/ sent' = sent
           \/ loop = "tx" /\ sent' = Append(sent, cur[1])
    PROVE  Box!Shut
  <1>1. <<>> \o <<>> = <<>>
    BY EmptySeq, ConcatEmptySeq
  <1>2. open /\ ~open' /\ cur' \o send_q' = <<>>
    BY <1>1 DEF Closing, Finally
  <1>3. open' = FALSE
    BY Zenon DEF Finally
  <1>4. CASE sent' = sent
    BY <1>2, <1>3, <1>4 DEF Box!Shut
  <1>5. CASE loop = "tx" /\ sent' = Append(sent, cur[1])
    BY <1>2, <1>3, <1>5, Channel DEF Box!Shut
  <1> QED
    BY <1>4, <1>5

LEMMA OutboxStep == Counted /\ Closing /\ [Next]_vars => [Box!Next]_Box!vars
  <1> SUFFICES ASSUME Counted, Closing, [Next]_vars PROVE [Box!Next]_Box!vars
    OBVIOUS
  <1>1. ASSUME NEW kind \in Kind, Send(kind) PROVE [Box!Next]_Box!vars
    <2> DEFINE m == [id |-> calls + 1, kind |-> kind]
    <2>1. m \in Message
      BY <1>1, SendQueueAssumption DEF Send, Counted, TypeOK, Message
    <2>2. UNCHANGED <<cur, sent, open>>
      BY <1>1 DEF Send
    <2>3. CASE CanAcquire
      BY <1>1, <2>1, <2>2, <2>3, PutAccepts DEF Send, CanAcquire
    <2>4. CASE ~CanAcquire
      BY <1>1, <2>2, <2>4 DEF Send, Box!vars
    <2> QED
      BY <2>3, <2>4
  <1>2. CASE Resume
    <2>1. Head(waiters) \in Message
      BY <1>2, HeadTailProperties DEF Resume, Counted, TypeOK
    <2> QED
      BY <1>2, <2>1, PutAccepts DEF Resume
  <1>3. CASE LoopStart
    <2>1. CASE Finally
      BY <1>3, <2>1, FinallyShuts DEF LoopStart, Box!Next
    <2>2. CASE ~Finally
      <3>1. cur' = <<>> /\ UNCHANGED <<open, send_q, sent>>
        BY <1>3, <2>2 DEF LoopStart, WhileTest
      <3>2. cur = <<>>
        BY <1>3, Channel DEF LoopStart
      <3> QED
        BY <3>1, <3>2 DEF Box!vars
    <2> QED
      BY <2>1, <2>2
  <1>4. CASE LoopGet
    <2>1. cur' \o send_q' = send_q
      BY <1>4, ChannelGet DEF LoopGet, Counted, TypeOK
    <2>2. cur \o send_q = send_q
      BY <1>4, Channel DEF LoopGet
    <2> QED
      BY <1>4, <2>1, <2>2 DEF LoopGet, Box!vars
  <1>5. CASE LoopSent
    <2>1. loop = "tx" /\ sent' = Append(sent, cur[1])
      BY <1>5 DEF LoopSent
    <2>2. CASE Finally
      BY <2>1, <2>2, FinallyShuts DEF Box!Next
    <2>3. CASE ~Finally
      <3>1. cur[1].kind # "close" /\ cur' = <<>> /\ UNCHANGED <<open, send_q>>
        BY <1>5, <2>3 DEF LoopSent, WhileTest
      <3> QED
        BY <2>1, <3>1, Channel DEF Box!Next, Box!Deliver
    <2> QED
      BY <2>2, <2>3
  <1>6. CASE LoopFailed
    <2>1. loop = "tx" /\ sent' = sent
      BY <1>6 DEF LoopFailed
    <2>2. CASE Finally
      BY <2>1, <2>2, FinallyShuts DEF Box!Next
    <2>3. CASE ~Finally
      <3>1. cur[1].kind # "close" /\ cur' = <<>> /\ UNCHANGED <<open, send_q>>
        BY <1>6, <2>3 DEF LoopFailed, WhileTest
      <3> QED
        BY <2>1, <3>1, Channel DEF Box!Next, Box!Lose
    <2> QED
      BY <2>2, <2>3
  <1>7. CASE Close
    BY <1>7 DEF Close, Box!vars
  <1>8. CASE ServeEnds
    <2>1. CASE loop \in {"get", "tx"}
      BY <1>8, <2>1, FinallyShuts DEF ServeEnds, Box!Next
    <2>2. CASE loop \notin {"get", "tx"}
      BY <1>8, <2>2 DEF ServeEnds, Box!vars
    <2> QED
      BY <2>1, <2>2
  <1>9. CASE UNCHANGED vars
    BY <1>9 DEF vars, Box!vars
  <1> QED
    BY <1>1, <1>2, <1>3, <1>4, <1>5, <1>6, <1>7, <1>8, <1>9 DEF Next

(* The sending half implements Outbox: behind the semaphore and the two    *)
(* greenthreads its users see one bounded channel that delivers in order,  *)
(* each message at most once, until it shuts for good.                     *)
THEOREM SendQueueImplementsOutbox == Spec => ImplementsOutbox
  <1>1. Init => Box!Init
    <2>1. <<>> \o <<>> = <<>>
      BY EmptySeq, ConcatEmptySeq
    <2> QED
      BY <2>1 DEF Init, Box!Init
  <1>2. Counted /\ Closing /\ [Next]_vars => [Box!Next]_Box!vars
    BY OutboxStep
  <1>3. Counted /\ Closing /\ [Next]_vars => Closing'
    BY ClosingNext
  <1> QED
    BY <1>1, <1>2, <1>3, ClosingInit, CountedAlways, PTL DEF Spec, ImplementsOutbox, Box!Spec
=============================================================================
