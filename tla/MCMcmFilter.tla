----------------------------- MODULE MCMcmFilter ----------------------------
(* Small instances of McmFilter for TLC.                                   *)
EXTENDS McmFilter

\* Values shorter than, as long as and longer than the buffer.
MCRequests ==
    [method : {"GET"}, key : {TRUE}, found : {TRUE},
     prefix : {0, 2}, value : 0 .. 6, suffix : {0, 2}]
    \cup
    [method : {"GET", "HEAD", "other"}, key : BOOLEAN, found : BOOLEAN,
     prefix : {1}, value : {1}, suffix : {1}]
=============================================================================
