-------------------------------- MODULE Deque -------------------------------
(***************************************************************************)
(* What an array variable promises (ngx_http_arrayv_module/readme.txt): a  *)
(* double-ended queue.  push_array and pop_array work at its back,         *)
(* unshift_array (the readme's ushift_array) and shift_array at its front, *)
(* str_to_array adds the pieces of a string at the back, print_array shows *)
(* the elements from front to back in rows of Step, cutting an incomplete  *)
(* last row.  There is one action per command.                             *)
(***************************************************************************)
EXTENDS Integers, Sequences

CONSTANTS
    Val,
    Strings,   \* the strings given to str_to_array, as sequences of pieces
    Step

VARIABLES
    seq,   \* the elements, front first
    out    \* the value in $out: <<>> for none, <<v>> for an element, or rows

vars == <<seq, out>>

Init == seq = <<>> /\ out = <<>>

PushArray(v) == seq' = Append(seq, v) /\ UNCHANGED out

UnshiftArray(v) == seq' = <<v>> \o seq /\ UNCHANGED out

StrToArray(s) == seq' = seq \o s /\ UNCHANGED out

\* Taking from an empty array leaves the null value in $out.
TakeNone == seq = <<>> /\ out' = <<>> /\ UNCHANGED seq

PopArray ==
    \/ TakeNone
    \/ /\ seq # <<>>
       /\ out' = <<seq[Len(seq)]>>
       /\ seq' = SubSeq(seq, 1, Len(seq) - 1)

ShiftArray ==
    \/ TakeNone
    \/ /\ seq # <<>>
       /\ out' = <<Head(seq)>>
       /\ seq' = Tail(seq)

\* Printing an empty array promises nothing about $out.
PrintArray ==
    /\ seq # <<>> => out' = SubSeq(seq, 1, Len(seq) - (Len(seq) % Step))
    /\ UNCHANGED seq

Next ==
    \/ \E v \in Val : PushArray(v) \/ UnshiftArray(v)
    \/ \E s \in Strings : StrToArray(s)
    \/ PopArray
    \/ ShiftArray
    \/ PrintArray

Spec == Init /\ [][Next]_vars
=============================================================================
