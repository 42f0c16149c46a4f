------------------------------ MODULE DupWindow ------------------------------
(***************************************************************************)
(* The duplicate filter of DatapathUDP._recv_loop on its own, fed with any *)
(* sequence of XIDs, next to the order in which it let them through: the   *)
(* reference against which the window of SeqWindow is judged.              *)
(***************************************************************************)
EXTENDS Sequences, SeqWindow

CONSTANTS
    MAX_XID,    \* largest XID
    MaxLog      \* bound: messages let through in a behaviour

ASSUME DupWindowAssumption == MAX_XID \in Nat /\ MaxLog \in Nat

Xids == 0..MAX_XID

VARIABLES
    seen,       \* _recv_seq_seen
    log         \* history: the nonzero XIDs let through, in order

vars == <<seen, log>>

Init == seen = {} /\ log = <<>>

(* A message with XID x passes the filter.                                 *)
Pass(x) ==
    /\ ~IsDuplicate(seen, x)
    /\ Len(log) < MaxLog
    /\ IF IsSequenced(x)
       THEN seen' = Remember(seen, x) /\ log' = Append(log, x)
       ELSE UNCHANGED vars

(* A message with XID x is dropped.                                        *)
Drop(x) == IsDuplicate(seen, x) /\ UNCHANGED vars

Next == \E x \in Xids : Pass(x) \/ Drop(x)

Spec == Init /\ [][Next]_vars

-----------------------------------------------------------------------------
Last(k) == {log[i] : i \in (Len(log) - k + 1)..Len(log)}

Ascending == \A i, j \in 1..Len(log) : i < j => log[i] < log[j]

(* How many entries a trim leaves, and so the number of latest XIDs a      *)
(* window that forgets the oldest first always holds.                      *)
Kept == SEQ_WINDOW_SIZE + 1 - (SEQ_WINDOW_SIZE + 1) \div 2

(* The window holds XIDs that were let through and never more than         *)
(* SEQ_WINDOW_SIZE of them, so a long-lived datapath does not grow.        *)
WindowIsBounded ==
    /\ Cardinality(seen) <= SEQ_WINDOW_SIZE
    /\ \A x \in seen : x \in {log[i] : i \in 1..Len(log)}

(* While XIDs arrive in ascending order, as from a peer that counts up and *)
(* a network that keeps order, sorting by XID is sorting by age: the       *)
(* latest half of the window is always remembered.                         *)
AscendingIsByAge ==
    Ascending => \A k \in 0..Kept : k <= Len(log) => Last(k) \subseteq seen

(* README.md: "Sliding window (1000 XIDs) detects and drops duplicates",   *)
(* and the comment on the trim: "Remove oldest entries".  So the XID that  *)
(* was let through last is in the window: its duplicate will be dropped.   *)
LatestIsRemembered == log # <<>> => log[Len(log)] \in seen
=============================================================================
