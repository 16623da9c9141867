-------------------------------- MODULE ArrayV ------------------------------
(***************************************************************************)
(* One array variable of ngx_http_arrayv_module during one request.        *)
(*                                                                         *)
(* The array is two growing stacks: pop, whose top is the back of the      *)
(* array, and sft, whose top is the front.  Taking from the side of an     *)
(* empty stack takes the bottom element of the other one, by moving its    *)
(* start.  The commands run as rewrite codes: a value code or a get        *)
(* handler leaves its value in a slot of the script's value stack, and the *)
(* code after it takes the value from that slot.                           *)
(***************************************************************************)
EXTENDS Integers, Sequences

CONSTANTS
    Val,        \* the values of variables
    Garbage,    \* what is read from memory nobody wrote
    Strings,    \* the strings given to str_to_array, as sequences of pieces
    Step,       \* joinx->step: the elements of one row of print_array
    MaxSlots,   \* bound: how many elements ngx_array_push can be asked for
    Configs     \* which commands a configuration may use

Commands ==
    {"push_array", "pop_array", "unshift_array", "shift_array", "print_array", "str_to_array"}

ASSUME GarbageAssumption == Garbage \notin Val
ASSUME StringsAssumption == Strings \subseteq Seq(Val)
ASSUME StepAssumption == Step \in Nat \ {0}
ASSUME MaxSlotsAssumption == MaxSlots \in Nat
ASSUME ConfigsAssumption == Configs \subseteq SUBSET Commands

VARIABLES
    commands,   \* the commands this configuration uses, never changed
    pop,        \* ctx->pop
    sft,        \* ctx->sft
    slot,       \* the value left in the script's stack slot, as a sequence
    out         \* $out

vars == <<commands, pop, sft, slot, out>>

Slots == 0 .. MaxSlots - 1
Cell == Val \cup {Garbage}

\* An ngx_http_av_elt: the array's memory with its nelts, and the window
\* start .. end of size elements.
Elt == [elts : [Slots -> Cell], nelts : Int, size : Int, start : Int, end : Int]

\* The lazy initialisation both handlers begin with.
EmptyElt ==
    [elts |-> [i \in Slots |-> Garbage], nelts |-> 0, size |-> 0, start |-> -1, end |-> -1]

\* A read of d.arr->elts[i]: outside the array it yields anything.
At(d, i) == IF i \in Slots THEN d.elts[i] ELSE Garbage

\* ngx_array_push and the bookkeeping after it.
PushEnd(d, v) ==
    [elts  |-> [d.elts EXCEPT ![d.nelts] = v],
     nelts |-> d.nelts + 1,
     size  |-> d.size + 1,
     start |-> IF d.size = 0 THEN d.start + 1 ELSE d.start,
     end   |-> d.end + 1]

\* Mutant of PopEnd: the bottom of a stack that becomes empty stays put.
PopEndKeepsStart(d) ==
    [elts |-> d.elts, nelts |-> d.nelts - 1, size |-> d.size - 1,
     start |-> d.start, end |-> d.end - 1]

\* Taking the top element.
PopEnd(d) ==
    [elts  |-> d.elts,
     nelts |-> d.nelts - 1,
     size  |-> d.size - 1,
     start |-> IF d.size = 1 THEN d.start - 1 ELSE d.start,
     end   |-> d.end - 1]

\* Taking the bottom element: the start moves up, unless the stack becomes
\* empty.
TakeStart(d) ==
    [elts  |-> d.elts,
     nelts |-> IF d.size = 1 THEN d.nelts - 1 ELSE d.nelts,
     size  |-> d.size - 1,
     start |-> IF d.size = 1 THEN d.start - 1 ELSE d.start + 1,
     end   |-> IF d.size = 1 THEN d.end - 1 ELSE d.end]

\* Writing arg[--start], the slot below the bottom element, and counting n
\* more elements.
PutStart(d, v, n) ==
    [elts  |-> IF d.start - 1 \in Slots THEN [d.elts EXCEPT ![d.start - 1] = v] ELSE d.elts,
     nelts |-> d.nelts,
     size  |-> d.size + n,
     start |-> d.start - 1,
     end   |-> d.end]

\* What print_array walks through: sft from its end down, then pop upwards.
ContentsOf(p, s) ==
    [i \in 1 .. s.size + p.size |->
        IF i <= s.size THEN At(s, s.end - (i - 1))
                       ELSE At(p, p.start + (i - s.size - 1))]

Contents == ContentsOf(pop, sft)

Init ==
    /\ commands \in Configs
    /\ pop = EmptyElt
    /\ sft = EmptyElt
    /\ slot = <<>>
    /\ out = <<>>

-----------------------------------------------------------------------------
(* The set handler                                                         *)

\* OP_HEAD of the set handler, which str_to_array repeats for each element.
\* The first branch means to put the element below sft's bottom, but writes
\* it through pop and counts it in sft.
PushHead(v) ==
    IF pop.size = 0 /\ sft.size > 0 /\ sft.start > 0
    THEN /\ pop' = PutStart(pop, v, 0)
         /\ sft' = [sft EXCEPT !.size = @ + 1]
    ELSE /\ pop.nelts < MaxSlots
         /\ pop' = PushEnd(pop, v)
         /\ UNCHANGED sft

\* push_array
PushArray(v) ==
    /\ "push_array" \in commands
    /\ PushHead(v)
    /\ slot' = <<v>>
    /\ UNCHANGED <<commands, out>>

\* Mutant of UnshiftArray: the copied branch still pushes on pop.
UnshiftArrayPop(v) ==
    /\ "unshift_array" \in commands
    /\ IF sft.size = 0 /\ pop.size > 0 /\ pop.start > 0
       THEN pop' = PutStart(pop, v, 1)
       ELSE pop.nelts < MaxSlots /\ pop' = PushEnd(pop, v)
    /\ slot' = <<v>>
    /\ UNCHANGED <<commands, sft, out>>

\* unshift_array
UnshiftArray(v) ==
    /\ "unshift_array" \in commands
    /\ IF sft.size = 0 /\ pop.size > 0 /\ pop.start > 0
       THEN /\ pop' = PutStart(pop, v, 1)
            /\ UNCHANGED sft
       ELSE /\ sft.nelts < MaxSlots
            /\ sft' = PushEnd(sft, v)
            /\ UNCHANGED pop
    /\ slot' = <<v>>
    /\ UNCHANGED <<commands, out>>

\* str_to_array of a string of the pieces s, the ones between delimiters.
\* The split of an empty string has no element, and that of a string without
\* delimiter has one, the string.  At a delimiter the split stands still: it
\* adds elements until an allocation fails, and the handler then returns
\* before it has touched the array.
StrToArray(s) ==
    /\ "str_to_array" \in commands
    /\ \/ Len(s) = 1 /\ PushHead(s[1])
       \/ Len(s) # 1 /\ UNCHANGED <<pop, sft>>
    /\ slot' = s
    /\ UNCHANGED <<commands, out>>

-----------------------------------------------------------------------------
(* The get handler, and the code that stores its value in $out             *)

\* Mutant of PopArray: the top is read at nelts.
PopArrayPastEnd ==
    /\ "pop_array" \in commands
    /\ \/ /\ pop.size = 0 /\ sft.size = 0
          /\ slot' = <<>>
          /\ UNCHANGED <<pop, sft>>
       \/ /\ pop.size = 0 /\ sft.size > 0
          /\ slot' = <<At(sft, sft.start)>>
          /\ sft' = TakeStart(sft)
          /\ UNCHANGED pop
       \/ /\ pop.size > 0
          /\ slot' = <<At(pop, pop.nelts)>>
          /\ pop' = PopEnd(pop)
          /\ UNCHANGED sft
    /\ out' = slot'
    /\ UNCHANGED commands

\* pop_array
PopArray ==
    /\ "pop_array" \in commands
    /\ \/ /\ pop.size = 0 /\ sft.size = 0
          /\ slot' = <<>>
          /\ UNCHANGED <<pop, sft>>
       \/ /\ pop.size = 0 /\ sft.size > 0
          /\ slot' = <<At(sft, sft.start)>>
          /\ sft' = TakeStart(sft)
          /\ UNCHANGED pop
       \/ /\ pop.size > 0
          /\ slot' = <<At(pop, pop.end)>>
          /\ pop' = PopEnd(pop)
          /\ UNCHANGED sft
    /\ out' = slot'
    /\ UNCHANGED commands

\* shift_array
ShiftArray ==
    /\ "shift_array" \in commands
    /\ \/ /\ sft.size = 0 /\ pop.size = 0
          /\ slot' = <<>>
          /\ UNCHANGED <<pop, sft>>
       \/ /\ sft.size = 0 /\ pop.size > 0
          /\ slot' = <<At(pop, pop.start)>>
          /\ pop' = TakeStart(pop)
          /\ UNCHANGED sft
       \/ /\ sft.size > 0
          /\ slot' = <<At(sft, sft.end)>>
          /\ sft' = PopEnd(sft)
          /\ UNCHANGED pop
    /\ out' = slot'
    /\ UNCHANGED commands

\* print_array.  Nothing is written to the slot when there is no element, and
\* the next code stores what the slot held before.
PrintArray ==
    /\ "print_array" \in commands
    /\ slot' = IF sft.size + pop.size = 0
               THEN slot
               ELSE SubSeq(Contents, 1, Len(Contents) - (Len(Contents) % Step))
    /\ out' = slot'
    /\ UNCHANGED <<commands, pop, sft>>

\* Some other statement of the script computes a value in the slot; a new
\* script (the location's after the server's) starts with a cleared stack.
OtherStatement ==
    /\ slot' \in {<<>>} \cup {<<v>> : v \in Val}
    /\ UNCHANGED <<commands, pop, sft, out>>

Next ==
    \/ \E v \in Val : PushArray(v) \/ UnshiftArray(v)
    \/ \E s \in Strings : StrToArray(s)
    \/ PopArray
    \/ ShiftArray
    \/ PrintArray
    \/ OtherStatement

Spec == Init /\ [][Next]_vars

-----------------------------------------------------------------------------
(* Properties                                                              *)

\* The counters of a stack stay within its memory.
BoundedElt(d) ==
    /\ d \in Elt
    /\ d.nelts \in 0 .. MaxSlots /\ d.size \in 0 .. MaxSlots
    /\ d.start \in -1 .. MaxSlots - 1 /\ d.end \in -1 .. MaxSlots - 1

\* The counters of the handlers never leave the memory, and no command reads
\* memory nobody wrote: what the get handler copies to the slot and to $out
\* (ngx_http_av_copy_vvt) was once pushed.
TypeOK ==
    /\ commands \in Configs
    /\ BoundedElt(pop) /\ BoundedElt(sft)
    /\ slot \in Seq(Val)
    /\ out \in Seq(Val)

\* The commands that, used together, reach the set handler's first branch.
SafeCommands(c) ==
    \/ "unshift_array" \notin c
    \/ "pop_array" \notin c
    \/ {"push_array", "str_to_array"} \cap c = {}

\* No string given to str_to_array has a delimiter in it.
NoDelimiters == \A s \in Strings : Len(s) <= 1

\* The window of a stack lies within what was pushed on it, and ends there.
WindowOK(d) ==
    /\ d.nelts \in 0 .. MaxSlots
    /\ d.end = d.nelts - 1
    /\ d.size >= 0
    /\ d.size = 0 => d.start = d.end
    /\ d.size > 0 => d.start = d.end - d.size + 1 /\ d.start >= 0

\* Both stacks keep size, start, end and nelts in step through every mix of
\* takes from either side (the handlers' separate counters).
WindowsOK == WindowOK(pop) /\ WindowOK(sft)

\* The double-ended queue the two stacks stand for.
D == INSTANCE Deque WITH seq <- Contents

\* Each command does its own operation of the queue, with its own argument;
\* the script's other statements do none.
OwnOperation ==
    /\ \A v \in Val : PushArray(v) => D!PushArray(v)
    /\ \A v \in Val : UnshiftArray(v) => D!UnshiftArray(v)
    /\ \A s \in Strings : StrToArray(s) => D!StrToArray(s)
    /\ PopArray => D!PopArray
    /\ ShiftArray => D!ShiftArray
    /\ PrintArray => D!PrintArray
    /\ OtherStatement => UNCHANGED D!vars

\* The two stacks behave as one double-ended queue: push_array, pop_array,
\* unshift_array, shift_array, str_to_array and print_array each do at their
\* own end what the readme says, whichever stack they have to reach into.
IsDeque == D!Spec /\ [][OwnOperation]_vars

\* print_array never puts a value in $out that is not in the array.
PrintShowsElements ==
    [][PrintArray => \A i \in DOMAIN out' : \E j \in DOMAIN Contents : out'[i] = Contents[j]]_vars
=============================================================================
