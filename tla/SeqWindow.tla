------------------------------ MODULE SeqWindow ------------------------------
(***************************************************************************)
(* The duplicate-detection window of DatapathUDP._recv_loop: the set       *)
(* _recv_seq_seen of XIDs, and how it forgets.                             *)
(***************************************************************************)
EXTENDS Naturals, FiniteSets

CONSTANT SEQ_WINDOW_SIZE

ASSUME WindowAssumption == SEQ_WINDOW_SIZE \in Nat \ {0}

(* A faulty variant: the list is sorted the other way round.               *)
FirstHalfDescending(seen) ==
    {x \in seen : Cardinality({y \in seen : y > x}) < Cardinality(seen) \div 2}

(* sorted(seen)[:len(seen)//2], the entries that are discarded.            *)
FirstHalf(seen) ==
    {x \in seen : Cardinality({y \in seen : y < x}) < Cardinality(seen) \div 2}

(* A faulty variant: the window is trimmed one entry late.                 *)
RememberTrimsLate(seen, xid) ==
    LET s == seen \cup {xid}
    IN  IF Cardinality(s) > SEQ_WINDOW_SIZE + 1 THEN s \ FirstHalf(s) ELSE s

(* A faulty variant: the trim does not look at the size.                   *)
RememberTrimsAlways(seen, xid) ==
    LET s == seen \cup {xid} IN s \ FirstHalf(s)

(* Add an XID, then trim the set if it has outgrown the window.            *)
Remember(seen, xid) ==
    LET s == seen \cup {xid}
    IN  IF Cardinality(s) > SEQ_WINDOW_SIZE THEN s \ FirstHalf(s) ELSE s


(* XID 0 is used for asynchronous messages and takes no part in this.      *)
IsSequenced(xid) == xid # 0

IsDuplicate(seen, xid) == IsSequenced(xid) /\ xid \in seen
=============================================================================
