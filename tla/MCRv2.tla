------------------------------- MODULE MCRv2 --------------------------------
(* Small instances of Rv2 for TLC.                                         *)
EXTENDS Rv2, TLC

CONSTANTS n1, n2, k1, null, txt

MCServers == [us |-> <<n1>>]
MCServersTwo == [us |-> <<n1, n2>>]
MCHash == [h |-> 3]
MCHashTwo == [h |-> 3, g |-> 4]

Statement(op, v, rcidx) ==
    [op |-> op, us |-> "us", hkey |-> "h", key |-> k1, v |-> v, rcidx |-> rcidx]

\* Every operation, with and without a return code, on good names.
MCEveryOp ==
    {Statement("get", Empty, TRUE), Statement("get", Empty, FALSE),
     Statement("set", 0, TRUE), Statement("set", txt, FALSE),
     Statement("incr", 1, TRUE), Statement("decr", 1, TRUE), Statement("incr", 1, FALSE),
     Statement("add", txt, TRUE), Statement("delete", Empty, TRUE)}

\* Statements whose names or values are refused.
MCRefused ==
    {[Statement("get", Empty, TRUE) EXCEPT !.us = "nosuch"],
     [Statement("set", 1, TRUE) EXCEPT !.hkey = ""],
     [Statement("incr", 1, TRUE) EXCEPT !.key = Empty],
     Statement("incr", txt, TRUE)}

MCAllStatements == MCEveryOp \cup MCRefused

\* Increments and reads of a counter that lives on two nodes.
MCIncrements ==
    {Statement("incr", 1, TRUE), Statement("incr", 2, TRUE), Statement("get", Empty, TRUE),
     [Statement("incr", 1, TRUE) EXCEPT !.hkey = "g"]}

MCFewSets == {Statement("set", 1, TRUE), Statement("get", Empty, TRUE)}

MCAllLosses == {"refused", "request", "answer"}
MCNoLosses == {}
MCSymmetry == Permutations(Worker)
=============================================================================
