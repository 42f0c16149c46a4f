----------------------------- MODULE MCRconnUdp -----------------------------
(* Instances of RconnUdp for TLC.                                          *)
EXTENDS RconnUdp
=============================================================================
