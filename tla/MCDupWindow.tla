----------------------------- MODULE MCDupWindow -----------------------------
(* Instances of DupWindow for TLC.                                         *)
EXTENDS DupWindow
=============================================================================
