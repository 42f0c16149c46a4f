---------------------------- MODULE MCDatapathUDP ----------------------------
(* Instances of DatapathUDP for TLC.                                       *)
EXTENDS DatapathUDP
=============================================================================
