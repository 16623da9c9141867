------------------------------ MODULE MCArrayV ------------------------------
(* TLC instances of ArrayV.                                                *)
EXTENDS ArrayV, TLC

CONSTANTS a, b

MCVal == {a, b}

\* The largest sets of commands that stay clear of the set handler's first
\* branch, and all commands.
MCSafeConfigs ==
    {Commands \ {"unshift_array"}, Commands \ {"pop_array"},
     Commands \ {"push_array", "str_to_array"}}
MCAllCommands == {Commands}

\* Strings without a delimiter, and one of two pieces.
MCWholeStrings == {<<>>} \cup {<<v>> : v \in MCVal}
MCStrings == {<<a, b>>}

MCSymmetry == Permutations(MCVal)
=============================================================================
