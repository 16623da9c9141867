--------------------------- MODULE MCUpstreamHash ---------------------------
(* TLC instances of UpstreamHash.                                          *)
EXTENDS UpstreamHash

MCHash == 0 .. 4
MCHashSmall == 0 .. 3
=============================================================================
