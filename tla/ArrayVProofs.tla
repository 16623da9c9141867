---------------------------- MODULE ArrayVProofs ----------------------------
(***************************************************************************)
(* Proofs about ArrayV: for any values, any row length, any bound on the   *)
(* array and any set of configurations whose commands stay clear of the    *)
(* set handler's first branch, the two stacks implement a double-ended     *)
(* queue.                                                                  *)
(***************************************************************************)
EXTENDS ArrayV, SequenceTheorems, TLAPS

\* The contents of two well-formed stacks are a sequence.
LEMMA ContentsSeq ==
    ASSUME NEW p \in Elt, NEW s \in Elt, WindowOK(p), WindowOK(s)
    PROVE  /\ ContentsOf(p, s) \in Seq(Cell)
           /\ Len(ContentsOf(p, s)) = s.size + p.size
           /\ \A i \in 1 .. s.size + p.size :
                 ContentsOf(p, s)[i] = IF i <= s.size
                                       THEN At(s, s.end - (i - 1))
                                       ELSE At(p, p.start + (i - s.size - 1))
<1>1. s.size \in Nat /\ p.size \in Nat
  BY DEF WindowOK, Elt
<1>2. \A i \in Int : At(p, i) \in Cell /\ At(s, i) \in Cell
  BY DEF At, Elt, Cell
<1>3. ContentsOf(p, s) \in [1 .. s.size + p.size -> Cell]
  BY <1>1, <1>2, MaxSlotsAssumption DEF ContentsOf, Elt
<1>4. QED
  BY <1>1, <1>3 DEF ContentsOf

\* The fields of a stack have their types; what its window says of them.
LEMMA EltFields ==
    ASSUME NEW d \in Elt
    PROVE  /\ d.elts \in [Slots -> Cell]
           /\ d.nelts \in Int /\ d.size \in Int /\ d.start \in Int /\ d.end \in Int
BY DEF Elt

\* The numbers of one of the two stacks.
LEMMA WindowFacts ==
    ASSUME NEW d \in Elt, WindowOK(d)
    PROVE  /\ d.size \in Nat /\ d.nelts \in 0 .. MaxSlots /\ d.end = d.nelts - 1
           /\ d.size = 0 => d.start = d.end
           /\ d.size > 0 => d.start = d.end - d.size + 1 /\ d.start \in Nat
BY EltFields DEF WindowOK

\* The operations on one stack keep it a stack.
LEMMA PushEndOK ==
    ASSUME NEW d \in Elt, WindowOK(d), NEW v \in Val, d.nelts < MaxSlots
    PROVE  /\ PushEnd(d, v) \in Elt
           /\ WindowOK(PushEnd(d, v))
           /\ PushEnd(d, v).size = d.size + 1
<1> DEFINE e == PushEnd(d, v)
<1>0. /\ d.elts \in [Slots -> Cell]
      /\ d.nelts \in Int /\ d.size \in Nat /\ d.start \in Int /\ d.end \in Int
      /\ d.nelts \in 0 .. MaxSlots /\ d.end = d.nelts - 1
      /\ d.size = 0 => d.start = d.end
      /\ d.size > 0 => d.start = d.end - d.size + 1 /\ d.start \in Nat
  BY EltFields, WindowFacts
<1>1. /\ e.nelts = d.nelts + 1 /\ e.size = d.size + 1 /\ e.end = d.end + 1
      /\ e.start = IF d.size = 0 THEN d.start + 1 ELSE d.start
  BY DEF PushEnd
<1>2. e \in Elt
  BY <1>0, MaxSlotsAssumption DEF PushEnd, Elt, Cell, Slots
<1> HIDE DEF e
<1>3. WindowOK(e)
  <2>1. CASE d.size = 1
    BY <2>1, <1>0, <1>1, MaxSlotsAssumption DEF WindowOK
  <2>2. CASE d.size # 1
    BY <2>2, <1>0, <1>1, MaxSlotsAssumption DEF WindowOK
  <2>3. QED
    BY <2>1, <2>2
<1>4. QED
  BY <1>1, <1>2, <1>3 DEF e

\* Taking the top element of a stack leaves its window inside the memory.
LEMMA PopEndOK ==
    ASSUME NEW d \in Elt, WindowOK(d), d.size > 0
    PROVE  PopEnd(d) \in Elt /\ WindowOK(PopEnd(d)) /\ PopEnd(d).size = d.size - 1
<1> DEFINE e == PopEnd(d)
<1>0. /\ d.elts \in [Slots -> Cell]
      /\ d.nelts \in Int /\ d.size \in Nat /\ d.start \in Int /\ d.end \in Int
      /\ d.nelts \in 0 .. MaxSlots /\ d.end = d.nelts - 1
      /\ d.size = 0 => d.start = d.end
      /\ d.size > 0 => d.start = d.end - d.size + 1 /\ d.start \in Nat
  BY EltFields, WindowFacts
<1>1. /\ e.nelts = d.nelts - 1 /\ e.size = d.size - 1 /\ e.end = d.end - 1
      /\ e.start = IF d.size = 1 THEN d.start - 1 ELSE d.start
  BY DEF PopEnd
<1>2. e \in Elt
  BY <1>0 DEF PopEnd, Elt
<1> HIDE DEF e
<1>3. WindowOK(e)
  <2>1. CASE d.size = 1
    BY <2>1, <1>0, <1>1, MaxSlotsAssumption DEF WindowOK
  <2>2. CASE d.size # 1
    BY <2>2, <1>0, <1>1, MaxSlotsAssumption DEF WindowOK
  <2>3. QED
    BY <2>1, <2>2
<1>4. QED
  BY <1>1, <1>2, <1>3 DEF e

\* Taking the bottom element of a stack leaves its window inside the memory.
LEMMA TakeStartOK ==
    ASSUME NEW d \in Elt, WindowOK(d), d.size > 0
    PROVE  TakeStart(d) \in Elt /\ WindowOK(TakeStart(d)) /\ TakeStart(d).size = d.size - 1
<1> DEFINE e == TakeStart(d)
<1>0. /\ d.elts \in [Slots -> Cell]
      /\ d.nelts \in Int /\ d.size \in Nat /\ d.start \in Int /\ d.end \in Int
      /\ d.nelts \in 0 .. MaxSlots /\ d.end = d.nelts - 1
      /\ d.size = 0 => d.start = d.end
      /\ d.size > 0 => d.start = d.end - d.size + 1 /\ d.start \in Nat
  BY EltFields, WindowFacts
<1>1. /\ e.nelts = (IF d.size = 1 THEN d.nelts - 1 ELSE d.nelts)
      /\ e.size = d.size - 1
      /\ e.end = (IF d.size = 1 THEN d.end - 1 ELSE d.end)
      /\ e.start = (IF d.size = 1 THEN d.start - 1 ELSE d.start + 1)
  BY DEF TakeStart
<1>2. e \in Elt
  <2>1. CASE d.size = 1
    BY <2>1, <1>0 DEF TakeStart, Elt
  <2>2. CASE d.size # 1
    BY <2>2, <1>0 DEF TakeStart, Elt
  <2>3. QED
    BY <2>1, <2>2
<1> HIDE DEF e
<1>3. WindowOK(e)
  <2>1. CASE d.size = 1
    BY <2>1, <1>0, <1>1, MaxSlotsAssumption DEF WindowOK
  <2>2. CASE d.size # 1
    BY <2>2, <1>0, <1>1, MaxSlotsAssumption DEF WindowOK
  <2>3. QED
    BY <2>1, <2>2
<1>4. QED
  BY <1>1, <1>2, <1>3 DEF e

\* Putting an element before the first one leaves the window inside the memory.
LEMMA PutStartOK ==
    ASSUME NEW d \in Elt, WindowOK(d), NEW v \in Val, d.size > 0, d.start > 0
    PROVE  /\ PutStart(d, v, 1) \in Elt
           /\ WindowOK(PutStart(d, v, 1))
           /\ PutStart(d, v, 1).size = d.size + 1
<1> DEFINE e == PutStart(d, v, 1)
<1>0. /\ d.elts \in [Slots -> Cell]
      /\ d.nelts \in Int /\ d.size \in Nat /\ d.start \in Int /\ d.end \in Int
      /\ d.nelts \in 0 .. MaxSlots /\ d.end = d.nelts - 1
      /\ d.size = 0 => d.start = d.end
      /\ d.size > 0 => d.start = d.end - d.size + 1 /\ d.start \in Nat
  BY EltFields, WindowFacts
<1>1. /\ e.nelts = d.nelts /\ e.size = d.size + 1 /\ e.end = d.end
      /\ e.start = d.start - 1
  BY DEF PutStart
<1>2. e \in Elt
  BY <1>0 DEF PutStart, Elt, Cell
<1> HIDE DEF e
<1>3. WindowOK(e)
  <2>1. CASE d.size = 1
    BY <2>1, <1>0, <1>1, MaxSlotsAssumption DEF WindowOK
  <2>2. CASE d.size # 1
    BY <2>2, <1>0, <1>1, MaxSlotsAssumption DEF WindowOK
  <2>3. QED
    BY <2>1, <2>2
<1>4. QED
  BY <1>1, <1>2, <1>3 DEF e

-----------------------------------------------------------------------------
\* What each operation does to the elements of its stack, counted from the
\* bottom (up from start) and from the top (down from end).

\* What PushEnd leaves at every place of the stack.
LEMMA PushEndAt ==
    ASSUME NEW d \in Elt, WindowOK(d), NEW v \in Val, d.nelts < MaxSlots
    PROVE  LET e == PushEnd(d, v)
           IN  /\ At(e, e.end) = v /\ e.end = e.start + d.size
               /\ \A k \in 0 .. d.size - 1 : At(e, e.start + k) = At(d, d.start + k)
               /\ \A k \in 0 .. d.size - 1 : At(e, e.end - (k + 1)) = At(d, d.end - k)
<1> DEFINE e == PushEnd(d, v)
<1>0. /\ d.elts \in [Slots -> Cell]
      /\ d.nelts \in Int /\ d.size \in Nat /\ d.start \in Int /\ d.end \in Int
      /\ d.nelts \in 0 .. MaxSlots /\ d.end = d.nelts - 1
      /\ d.size = 0 => d.start = d.end
      /\ d.size > 0 => d.start = d.end - d.size + 1 /\ d.start \in Nat
  BY EltFields, WindowFacts
<1>1. /\ e.elts = [d.elts EXCEPT ![d.nelts] = v] /\ e.end = d.nelts
      /\ e.start = IF d.size = 0 THEN d.start + 1 ELSE d.start
  BY <1>0 DEF PushEnd
<1> HIDE DEF e
<1>2. At(e, e.end) = v
  BY <1>0, <1>1, MaxSlotsAssumption DEF At, Slots
<1>3. \A i \in Int : i # d.nelts => At(e, i) = At(d, i)
  BY <1>0, <1>1 DEF At
<1>4. e.end = e.start + d.size
  <2>1. CASE d.size = 0
    BY <2>1, <1>0, <1>1
  <2>2. CASE d.size > 0
    BY <2>2, <1>0, <1>1
  <2>3. QED
    BY <2>1, <2>2, <1>0
<1>5. ASSUME NEW k \in 0 .. d.size - 1
      PROVE  At(e, e.start + k) = At(d, d.start + k) /\ At(e, e.end - (k + 1)) = At(d, d.end - k)
  <2>1. e.start = d.start /\ d.start + k # d.nelts /\ d.start + k \in Int
    BY <1>0, <1>1
  <2>2. e.end - (k + 1) = d.end - k /\ d.end - k # d.nelts /\ d.end - k \in Int
    BY <1>0, <1>1
  <2>3. QED
    BY <2>1, <2>2, <1>3
<1>6. QED
  BY <1>2, <1>4, <1>5 DEF e

\* An element seen through the contents, and two contents that are equal.
LEMMA ContentsAt ==
    ASSUME NEW p \in Elt, NEW s \in Elt, WindowOK(p), WindowOK(s)
    PROVE  /\ \A i \in 1 .. s.size : ContentsOf(p, s)[i] = At(s, s.end - (i - 1))
           /\ \A k \in 0 .. p.size - 1 : ContentsOf(p, s)[s.size + 1 + k] = At(p, p.start + k)
<1>1. s.size \in Nat /\ p.size \in Nat
  BY WindowFacts
<1>2. ASSUME NEW i \in 1 .. s.size
      PROVE  ContentsOf(p, s)[i] = At(s, s.end - (i - 1))
  BY <1>1, ContentsSeq
<1>3. ASSUME NEW k \in 0 .. p.size - 1
      PROVE  ContentsOf(p, s)[s.size + 1 + k] = At(p, p.start + k)
  <2>1. PICK i \in 1 .. s.size + p.size : i = s.size + 1 + k
    BY <1>1
  <2>2. ~(i <= s.size) /\ i - s.size - 1 = k
    BY <2>1, <1>1
  <2>3. ContentsOf(p, s)[i] = At(p, p.start + (i - s.size - 1))
    BY <2>2, ContentsSeq
  <2>4. QED
    BY <2>1, <2>2, <2>3
<1>4. QED
  BY <1>2, <1>3

\* A sequence with the elements of the contents, in order, is the contents.
LEMMA ContentsIs ==
    ASSUME NEW p \in Elt, NEW s \in Elt, WindowOK(p), WindowOK(s),
           NEW t \in Seq(Cell), Len(t) = s.size + p.size,
           \A i \in 1 .. s.size : t[i] = At(s, s.end - (i - 1)),
           \A k \in 0 .. p.size - 1 : t[s.size + 1 + k] = At(p, p.start + k)
    PROVE  ContentsOf(p, s) = t
<1> DEFINE c == ContentsOf(p, s)
<1>1. s.size \in Nat /\ p.size \in Nat
  BY WindowFacts
<1>2. c \in Seq(Cell) /\ Len(c) = s.size + p.size
  BY ContentsSeq
<1>3. ASSUME NEW i \in 1 .. s.size + p.size
      PROVE  c[i] = t[i]
  <2>1. CASE i <= s.size
    BY <2>1, <1>1, ContentsAt
  <2>2. CASE i > s.size
    <3>1. PICK k \in 0 .. p.size - 1 : i = s.size + 1 + k
      <4>1. i - s.size - 1 \in 0 .. p.size - 1 /\ i = s.size + 1 + (i - s.size - 1)
        BY <2>2, <1>1
      <4>2. QED
        BY <4>1
    <3>2. QED
      BY <3>1, ContentsAt
  <2>3. QED
    BY <2>1, <2>2, <1>1
<1> HIDE DEF c
<1>4. c = t
  BY <1>2, <1>3, SeqEqual
<1>5. QED
  BY <1>4 DEF c

-----------------------------------------------------------------------------
\* What each operation does to the contents.

\* At the end of pop a value is the last of the contents.
LEMMA PushEndBack ==
    ASSUME NEW p \in Elt, NEW s \in Elt, WindowOK(p), WindowOK(s),
           NEW v \in Val, p.nelts < MaxSlots
    PROVE  ContentsOf(PushEnd(p, v), s) = Append(ContentsOf(p, s), v)
<1> DEFINE e == PushEnd(p, v)
           c == ContentsOf(p, s)
           t == Append(c, v)
<1>1. e \in Elt /\ WindowOK(e) /\ e.size = p.size + 1
  BY PushEndOK
<1>2. s.size \in Nat /\ p.size \in Nat
  BY WindowFacts
<1>3. c \in Seq(Cell) /\ Len(c) = s.size + p.size
  BY ContentsSeq
<1>4. /\ \A i \in 1 .. s.size : c[i] = At(s, s.end - (i - 1))
      /\ \A k \in 0 .. p.size - 1 : c[s.size + 1 + k] = At(p, p.start + k)
  BY ContentsAt
<1>5. /\ At(e, e.start + p.size) = v
      /\ \A k \in 0 .. p.size - 1 : At(e, e.start + k) = At(p, p.start + k)
  BY PushEndAt
<1> HIDE DEF c, e
<1>6. /\ t \in Seq(Cell) /\ Len(t) = s.size + e.size
      /\ t[s.size + 1 + p.size] = v
      /\ \A i \in 1 .. s.size + p.size : t[i] = c[i]
  BY <1>1, <1>2, <1>3 DEF Cell
<1> HIDE DEF t
<1>7. \A i \in 1 .. s.size : t[i] = At(s, s.end - (i - 1))
  BY <1>2, <1>4, <1>6
<1>8. ASSUME NEW k \in 0 .. e.size - 1
      PROVE  t[s.size + 1 + k] = At(e, e.start + k)
  <2>1. CASE k = p.size
    BY <2>1, <1>5, <1>6
  <2>2. CASE k # p.size
    <3>1. k \in 0 .. p.size - 1 /\ s.size + 1 + k \in 1 .. s.size + p.size
      BY <2>2, <1>1, <1>2
    <3>2. QED
      BY <3>1, <1>4, <1>5, <1>6
  <2>3. QED
    BY <2>1, <2>2
<1>9. ContentsOf(e, s) = t
  BY <1>1, <1>6, <1>7, <1>8, ContentsIs
<1>10. QED
  BY <1>9 DEF e, c, t

\* Sequences with one element more in front, or one less at an end.
LEMMA ConsFacts ==
    ASSUME NEW c \in Seq(Cell), NEW v \in Val
    PROVE  /\ <<v>> \o c \in Seq(Cell) /\ Len(<<v>> \o c) = Len(c) + 1
           /\ (<<v>> \o c)[1] = v
           /\ \A i \in 1 .. Len(c) : (<<v>> \o c)[i + 1] = c[i]
<1>1. <<v>> \in Seq(Cell) /\ Len(<<v>>) = 1 /\ <<v>>[1] = v /\ Len(c) \in Nat
  BY DEF Cell
<1>2. /\ <<v>> \o c \in Seq(Cell) /\ Len(<<v>> \o c) = 1 + Len(c)
      /\ \A i \in 1 .. 1 + Len(c) : (<<v>> \o c)[i] = IF i <= 1 THEN <<v>>[i] ELSE c[i - 1]
  BY <1>1, ConcatProperties
<1>3. ASSUME NEW i \in 1 .. Len(c)
      PROVE  (<<v>> \o c)[i + 1] = c[i]
  BY <1>1, <1>2
<1>4. QED
  BY <1>1, <1>2, <1>3

\* A sequence without its last element.
LEMMA FrontFacts ==
    ASSUME NEW c \in Seq(Cell), Len(c) > 0
    PROVE  LET t == SubSeq(c, 1, Len(c) - 1)
           IN  t \in Seq(Cell) /\ Len(t) = Len(c) - 1 /\ \A i \in 1 .. Len(c) - 1 : t[i] = c[i]
<1>1. Len(c) \in Nat /\ \A i \in 1 .. Len(c) - 1 : c[i] \in Cell
  BY LenProperties
<1>2. Len(c) - 1 \in Int /\ Len(c) - 1 - 1 + 1 = Len(c) - 1
  BY <1>1
<1>3. /\ SubSeq(c, 1, Len(c) - 1) \in Seq(Cell)
      /\ Len(SubSeq(c, 1, Len(c) - 1)) = IF 1 <= Len(c) - 1 THEN Len(c) - 1 - 1 + 1 ELSE 0
      /\ \A i \in 1 .. Len(c) - 1 - 1 + 1 : SubSeq(c, 1, Len(c) - 1)[i] = c[1 + i - 1]
  BY <1>1, <1>2, SubSeqProperties
<1>4. \A i \in 1 .. Len(c) - 1 : 1 + i - 1 = i
  BY <1>1
<1>5. QED
  BY <1>1, <1>2, <1>3, <1>4

\* A sequence without its first element.
LEMMA TailFacts ==
    ASSUME NEW c \in Seq(Cell), Len(c) > 0
    PROVE  /\ Tail(c) \in Seq(Cell) /\ Len(Tail(c)) = Len(c) - 1 /\ Head(c) = c[1]
           /\ \A i \in 1 .. Len(c) - 1 : Tail(c)[i] = c[i + 1]
BY HeadTailProperties

\* At the end of sft a value is the first of the contents.
LEMMA PushEndFront ==
    ASSUME NEW p \in Elt, NEW s \in Elt, WindowOK(p), WindowOK(s),
           NEW v \in Val, s.nelts < MaxSlots
    PROVE  ContentsOf(p, PushEnd(s, v)) = <<v>> \o ContentsOf(p, s)
<1> DEFINE e == PushEnd(s, v)
           c == ContentsOf(p, s)
           t == <<v>> \o c
<1>1. e \in Elt /\ WindowOK(e) /\ e.size = s.size + 1
  BY PushEndOK
<1>2. s.size \in Nat /\ p.size \in Nat
  BY WindowFacts
<1>3. c \in Seq(Cell) /\ Len(c) = s.size + p.size
  BY ContentsSeq
<1>4. /\ \A i \in 1 .. s.size : c[i] = At(s, s.end - (i - 1))
      /\ \A k \in 0 .. p.size - 1 : c[s.size + 1 + k] = At(p, p.start + k)
  BY ContentsAt
<1>5. /\ At(e, e.end) = v /\ e.end \in Int
      /\ \A k \in 0 .. s.size - 1 : At(e, e.end - (k + 1)) = At(s, s.end - k)
  BY <1>1, PushEndAt, EltFields
<1> HIDE DEF c, e
<1>6. /\ t \in Seq(Cell) /\ Len(t) = e.size + p.size
      /\ t[1] = v
      /\ \A i \in 1 .. s.size + p.size : t[i + 1] = c[i]
  BY <1>1, <1>2, <1>3, ConsFacts, SMTT(30)
<1> HIDE DEF t
<1>7. ASSUME NEW i \in 1 .. e.size
      PROVE  t[i] = At(e, e.end - (i - 1))
  <2>1. CASE i = 1
    BY <2>1, <1>5, <1>6
  <2>2. CASE i # 1
    <3>1. PICK k \in 0 .. s.size - 1 : i = k + 2
      <4>1. i - 2 \in 0 .. s.size - 1 /\ i = (i - 2) + 2
        BY <2>2, <1>1, <1>2
      <4>2. QED
        BY <4>1
    <3>2. t[(k + 1) + 1] = c[k + 1] /\ c[k + 1] = At(s, s.end - ((k + 1) - 1))
      BY <1>2, <1>4, <1>6
    <3>3. (k + 1) + 1 = i /\ (k + 1) - 1 = k /\ i - 1 = k + 1
      BY <3>1
    <3>4. QED
      BY <3>2, <3>3, <1>5
  <2>3. QED
    BY <2>1, <2>2
<1>8. ASSUME NEW k \in 0 .. p.size - 1
      PROVE  t[e.size + 1 + k] = At(p, p.start + k)
  <2>1. PICK i \in 1 .. s.size + p.size : i = s.size + 1 + k
    BY <1>2
  <2>2. t[i + 1] = c[i]
    BY <1>6
  <2>3. i + 1 = e.size + 1 + k
    BY <2>1, <1>1, <1>2
  <2>4. QED
    BY <2>1, <2>2, <2>3, <1>4
<1>9. ContentsOf(p, e) = t
  BY <1>1, <1>6, <1>7, <1>8, ContentsIs
<1>10. QED
  BY <1>9 DEF e, c, t

\* Before the first element of pop, with sft empty, a
\* value is the first of the contents.
LEMMA PutStartFront ==
    ASSUME NEW p \in Elt, NEW s \in Elt, WindowOK(p), WindowOK(s),
           NEW v \in Val, s.size = 0, p.size > 0, p.start > 0
    PROVE  ContentsOf(PutStart(p, v, 1), s) = <<v>> \o ContentsOf(p, s)
<1> DEFINE e == PutStart(p, v, 1)
           c == ContentsOf(p, s)
           t == <<v>> \o c
<1>1. e \in Elt /\ WindowOK(e) /\ e.size = p.size + 1
  BY PutStartOK
<1>2. s.size \in Nat /\ p.size \in Nat
  BY WindowFacts
<1>3. c \in Seq(Cell) /\ Len(c) = s.size + p.size
  BY ContentsSeq
<1>4. /\ \A i \in 1 .. s.size : c[i] = At(s, s.end - (i - 1))
      /\ \A k \in 0 .. p.size - 1 : c[s.size + 1 + k] = At(p, p.start + k)
  BY ContentsAt
<1>5. /\ p.elts \in [Slots -> Cell] /\ p.start \in Nat /\ p.start - 1 \in Slots
      /\ e.elts = [p.elts EXCEPT ![p.start - 1] = v] /\ e.start = p.start - 1
  <2>1. /\ p.elts \in [Slots -> Cell] /\ p.start \in Int /\ p.end \in Int /\ p.nelts \in Int
        /\ p.nelts \in 0 .. MaxSlots /\ p.end = p.nelts - 1
        /\ p.start = p.end - p.size + 1
    BY EltFields, WindowFacts
  <2>2. p.start \in Nat /\ p.start - 1 \in Slots
    BY <2>1, <1>2, MaxSlotsAssumption DEF Slots
  <2>3. QED
    BY <2>1, <2>2 DEF PutStart
<1> HIDE DEF c, e
<1>6. /\ t \in Seq(Cell) /\ Len(t) = s.size + e.size
      /\ t[1] = v
      /\ \A i \in 1 .. p.size : t[i + 1] = c[i]
  BY <1>1, <1>2, <1>3, ConsFacts
<1> HIDE DEF t
<1>7. ASSUME NEW k \in 0 .. e.size - 1
      PROVE  t[s.size + 1 + k] = At(e, e.start + k)
  <2>1. CASE k = 0
    BY <2>1, <1>5, <1>6 DEF At
  <2>2. CASE k # 0
    <3>1. PICK j \in 0 .. p.size - 1 : k = j + 1
      <4>1. k - 1 \in 0 .. p.size - 1 /\ k = (k - 1) + 1
        BY <2>2, <1>1, <1>2
      <4>2. QED
        BY <4>1
    <3>2. t[(j + 1) + 1] = c[j + 1] /\ c[s.size + 1 + j] = At(p, p.start + j)
      BY <1>2, <1>4, <1>6
    <3>3. (j + 1) + 1 = s.size + 1 + k /\ s.size + 1 + j = j + 1
      BY <3>1
    <3>4. e.start + k = p.start + j /\ p.start + j # p.start - 1
      BY <3>1, <1>5
    <3>5. At(e, e.start + k) = At(p, p.start + j)
      BY <3>4, <1>5 DEF At
    <3>6. QED
      BY <3>2, <3>3, <3>5
  <2>3. QED
    BY <2>1, <2>2
<1>8. ContentsOf(e, s) = t
  BY <1>1, <1>6, <1>7, ContentsIs
<1>9. QED
  BY <1>8 DEF e, c, t

\* The last element of pop is the last of the contents.
LEMMA PopEndBack ==
    ASSUME NEW p \in Elt, NEW s \in Elt, WindowOK(p), WindowOK(s), p.size > 0
    PROVE  LET c == ContentsOf(p, s)
           IN  /\ ContentsOf(PopEnd(p), s) = SubSeq(c, 1, Len(c) - 1)
               /\ Len(c) > 0 /\ c[Len(c)] = At(p, p.end)
<1> DEFINE e == PopEnd(p)
           c == ContentsOf(p, s)
           t == SubSeq(c, 1, Len(c) - 1)
<1>1. e \in Elt /\ WindowOK(e) /\ e.size = p.size - 1
  BY PopEndOK
<1>2. s.size \in Nat /\ p.size \in Nat
  BY WindowFacts
<1>3. c \in Seq(Cell) /\ Len(c) = s.size + p.size
  BY ContentsSeq
<1>4. /\ \A i \in 1 .. s.size : c[i] = At(s, s.end - (i - 1))
      /\ \A k \in 0 .. p.size - 1 : c[s.size + 1 + k] = At(p, p.start + k)
  BY ContentsAt
<1>5. /\ p.start \in Int /\ p.end \in Int /\ p.start = p.end - p.size + 1
  BY EltFields, WindowFacts
<1>6. e.elts = p.elts /\ (p.size # 1 => e.start = p.start)
  BY DEF PopEnd
<1> HIDE DEF c, e
<1>7. t \in Seq(Cell) /\ Len(t) = s.size + e.size /\ \A i \in 1 .. s.size + e.size : t[i] = c[i]
  <2>1. Len(c) > 0 /\ Len(c) - 1 = s.size + e.size
    BY <1>1, <1>2, <1>3
  <2>2. QED
    BY <2>1, <1>3, FrontFacts
<1> HIDE DEF t
<1>8. ASSUME NEW i \in 1 .. s.size
      PROVE  t[i] = At(s, s.end - (i - 1))
  <2>1. i \in 1 .. s.size + e.size
    BY <1>1, <1>2
  <2>2. QED
    BY <2>1, <1>4, <1>7
<1>9. ASSUME NEW k \in 0 .. e.size - 1
      PROVE  t[s.size + 1 + k] = At(e, e.start + k)
  <2>1. k \in 0 .. p.size - 1 /\ p.size # 1 /\ s.size + 1 + k \in 1 .. s.size + e.size
    BY <1>1, <1>2
  <2>2. QED
    BY <2>1, <1>4, <1>6, <1>7 DEF At
<1>10. ContentsOf(e, s) = t
  BY <1>1, <1>7, <1>8, <1>9, ContentsIs
<1>11. Len(c) > 0 /\ c[Len(c)] = At(p, p.end)
  <2>1. PICK k \in 0 .. p.size - 1 : k = p.size - 1
    BY <1>2
  <2>2. Len(c) = s.size + 1 + k
    BY <2>1, <1>2, <1>3
  <2>3. p.start + k = p.end
    BY <2>1, <1>2, <1>5
  <2>4. QED
    BY <2>2, <2>3, <1>2, <1>4
<1>12. QED
  BY <1>10, <1>11 DEF e, c, t

\* The last element of sft is the first of the contents.
LEMMA PopEndFront ==
    ASSUME NEW p \in Elt, NEW s \in Elt, WindowOK(p), WindowOK(s), s.size > 0
    PROVE  LET c == ContentsOf(p, s)
           IN  /\ ContentsOf(p, PopEnd(s)) = Tail(c)
               /\ Len(c) > 0 /\ Head(c) = At(s, s.end)
<1> DEFINE e == PopEnd(s)
           c == ContentsOf(p, s)
           t == Tail(c)
<1>1. e \in Elt /\ WindowOK(e) /\ e.size = s.size - 1
  BY PopEndOK
<1>2. s.size \in Nat /\ p.size \in Nat
  BY WindowFacts
<1>3. c \in Seq(Cell) /\ Len(c) = s.size + p.size
  BY ContentsSeq
<1>4. /\ \A i \in 1 .. s.size : c[i] = At(s, s.end - (i - 1))
      /\ \A k \in 0 .. p.size - 1 : c[s.size + 1 + k] = At(p, p.start + k)
  BY ContentsAt
<1>5. /\ s.start \in Int /\ s.end \in Int /\ s.start = s.end - s.size + 1
  BY EltFields, WindowFacts
<1>6. e.elts = s.elts /\ e.end = s.end - 1
  BY DEF PopEnd
<1> HIDE DEF c, e
<1>7. /\ t \in Seq(Cell) /\ Len(t) = e.size + p.size /\ Head(c) = c[1] /\ Len(c) > 0
      /\ \A i \in 1 .. e.size + p.size : t[i] = c[i + 1]
  <2>1. Len(c) > 0 /\ Len(c) - 1 = e.size + p.size
    BY <1>1, <1>2, <1>3
  <2>2. QED
    BY <2>1, <1>3, TailFacts
<1> HIDE DEF t
<1>8. ASSUME NEW i \in 1 .. e.size
      PROVE  t[i] = At(e, e.end - (i - 1))
  <2>1. i + 1 \in 1 .. s.size /\ i \in 1 .. e.size + p.size
    BY <1>1, <1>2
  <2>2. s.end - ((i + 1) - 1) = e.end - (i - 1)
    BY <1>5, <1>6
  <2>3. QED
    BY <2>1, <2>2, <1>4, <1>6, <1>7 DEF At
<1>9. ASSUME NEW k \in 0 .. p.size - 1
      PROVE  t[e.size + 1 + k] = At(p, p.start + k)
  <2>1. e.size + 1 + k \in 1 .. e.size + p.size /\ (e.size + 1 + k) + 1 = s.size + 1 + k
    BY <1>1, <1>2
  <2>2. QED
    BY <2>1, <1>4, <1>7
<1>10. ContentsOf(p, e) = t
  BY <1>1, <1>7, <1>8, <1>9, ContentsIs
<1>11. Head(c) = At(s, s.end)
  <2>1. 1 \in 1 .. s.size /\ s.end - (1 - 1) = s.end
    BY <1>2, <1>5
  <2>2. QED
    BY <2>1, <1>4, <1>7
<1>12. QED
  BY <1>7, <1>10, <1>11 DEF e, c, t

\* With sft empty, the first element of pop is the
\* first of the contents.
LEMMA TakeStartFront ==
    ASSUME NEW p \in Elt, NEW s \in Elt, WindowOK(p), WindowOK(s), s.size = 0, p.size > 0
    PROVE  LET c == ContentsOf(p, s)
           IN  /\ ContentsOf(TakeStart(p), s) = Tail(c)
               /\ Len(c) > 0 /\ Head(c) = At(p, p.start)
<1> DEFINE e == TakeStart(p)
           c == ContentsOf(p, s)
           t == Tail(c)
<1>1. e \in Elt /\ WindowOK(e) /\ e.size = p.size - 1
  BY TakeStartOK
<1>2. s.size \in Nat /\ p.size \in Nat
  BY WindowFacts
<1>3. c \in Seq(Cell) /\ Len(c) = s.size + p.size
  BY ContentsSeq
<1>4. /\ \A i \in 1 .. s.size : c[i] = At(s, s.end - (i - 1))
      /\ \A k \in 0 .. p.size - 1 : c[s.size + 1 + k] = At(p, p.start + k)
  BY ContentsAt
<1>5. /\ p.start \in Int /\ p.end \in Int /\ p.start = p.end - p.size + 1
  BY EltFields, WindowFacts
<1>6. e.elts = p.elts /\ (p.size # 1 => e.start = p.start + 1)
  BY DEF TakeStart
<1> HIDE DEF c, e
<1>7. /\ t \in Seq(Cell) /\ Len(t) = s.size + e.size /\ Head(c) = c[1] /\ Len(c) > 0
      /\ \A i \in 1 .. e.size : t[i] = c[i + 1]
  <2>1. Len(c) > 0 /\ Len(c) - 1 = e.size /\ s.size + e.size = e.size
    BY <1>1, <1>2, <1>3
  <2>2. QED
    BY <2>1, <1>3, TailFacts
<1> HIDE DEF t
<1>8. ASSUME NEW k \in 0 .. e.size - 1
      PROVE  t[s.size + 1 + k] = At(e, e.start + k)
  <2>1. /\ s.size + 1 + k \in 1 .. e.size /\ k + 1 \in 0 .. p.size - 1 /\ p.size # 1
        /\ (s.size + 1 + k) + 1 = s.size + 1 + (k + 1)
    BY <1>1, <1>2
  <2>2. e.start + k = p.start + (k + 1)
    BY <2>1, <1>5, <1>6
  <2>3. t[s.size + 1 + k] = c[s.size + 1 + (k + 1)]
    BY <2>1, <1>7
  <2>4. QED
    BY <2>1, <2>2, <2>3, <1>4, <1>6 DEF At
<1>9. ContentsOf(e, s) = t
  BY <1>1, <1>7, <1>8, ContentsIs
<1>10. Head(c) = At(p, p.start)
  <2>1. 0 \in 0 .. p.size - 1 /\ s.size + 1 + 0 = 1 /\ p.start + 0 = p.start
    BY <1>2, <1>5
  <2>2. QED
    BY <2>1, <1>4, <1>7
<1>11. QED
  BY <1>7, <1>9, <1>10 DEF e, c, t

\* With pop empty, the first element of sft is the
\* last of the contents.
LEMMA TakeStartBack ==
    ASSUME NEW p \in Elt, NEW s \in Elt, WindowOK(p), WindowOK(s), p.size = 0, s.size > 0
    PROVE  LET c == ContentsOf(p, s)
           IN  /\ ContentsOf(p, TakeStart(s)) = SubSeq(c, 1, Len(c) - 1)
               /\ Len(c) > 0 /\ c[Len(c)] = At(s, s.start)
<1> DEFINE e == TakeStart(s)
           c == ContentsOf(p, s)
           t == SubSeq(c, 1, Len(c) - 1)
<1>1. e \in Elt /\ WindowOK(e) /\ e.size = s.size - 1
  BY TakeStartOK
<1>2. s.size \in Nat /\ p.size \in Nat
  BY WindowFacts
<1>3. c \in Seq(Cell) /\ Len(c) = s.size + p.size
  BY ContentsSeq
<1>4. /\ \A i \in 1 .. s.size : c[i] = At(s, s.end - (i - 1))
      /\ \A k \in 0 .. p.size - 1 : c[s.size + 1 + k] = At(p, p.start + k)
  BY ContentsAt
<1>5. /\ s.start \in Int /\ s.end \in Int /\ s.start = s.end - s.size + 1
  BY EltFields, WindowFacts
<1>6. e.elts = s.elts /\ (s.size # 1 => e.end = s.end)
  BY DEF TakeStart
<1> HIDE DEF c, e
<1>7. t \in Seq(Cell) /\ Len(t) = e.size + p.size /\ \A i \in 1 .. e.size : t[i] = c[i]
  <2>1. Len(c) > 0 /\ Len(c) - 1 = e.size /\ e.size + p.size = e.size
    BY <1>1, <1>2, <1>3
  <2>2. t \in Seq(Cell) /\ Len(t) = Len(c) - 1 /\ \A i \in 1 .. Len(c) - 1 : t[i] = c[i]
    BY <2>1, <1>3, FrontFacts
  <2>3. QED
    BY <2>1, <2>2
<1> HIDE DEF t
<1>8. ASSUME NEW i \in 1 .. e.size
      PROVE  t[i] = At(e, e.end - (i - 1))
  <2>1. i \in 1 .. s.size /\ s.size # 1
    BY <1>1, <1>2
  <2>2. QED
    BY <2>1, <1>4, <1>6, <1>7 DEF At
<1>9. ContentsOf(p, e) = t
  BY <1>1, <1>7, <1>8, ContentsIs
<1>10. Len(c) > 0 /\ c[Len(c)] = At(s, s.start)
  <2>1. Len(c) \in 1 .. s.size /\ s.end - (Len(c) - 1) = s.start
    BY <1>2, <1>3, <1>5
  <2>2. QED
    BY <2>1, <1>4
<1>11. QED
  BY <1>9, <1>10 DEF e, c, t

-----------------------------------------------------------------------------
(* The invariant and the refinement                                        *)

\* Without unshift_array nothing is ever on sft; without pop_array nothing is
\* ever taken from below it, so that it starts at slot 0.
UnusedInv ==
    /\ "unshift_array" \notin commands => sft.size = 0
    /\ "pop_array" \notin commands /\ sft.size = 0 => sft.start = -1
    /\ "pop_array" \notin commands /\ sft.size > 0 => sft.start = 0

\* The two stacks by themselves.
StackInv ==
    /\ commands \in Configs /\ pop \in Elt /\ sft \in Elt
    /\ WindowsOK /\ UnusedInv

\* Every value in the array, in the slot and in $out was once given to a
\* command.
ValueInv == Contents \in Seq(Val) /\ slot \in Seq(Val) /\ out \in Seq(Val)

IInv == StackInv /\ ValueInv

\* The set handler's first branch is never taken when the configuration's
\* commands are safe.
LEMMA FirstBranchDead ==
    ASSUME StackInv, SafeCommands(commands),
           "push_array" \in commands \/ "str_to_array" \in commands
    PROVE  ~(pop.size = 0 /\ sft.size > 0 /\ sft.start > 0)
BY DEF StackInv, UnusedInv, SafeCommands

\* An array has no contents exactly when both windows are empty.
LEMMA EmptyContents ==
    ASSUME NEW p \in Elt, NEW s \in Elt, WindowOK(p), WindowOK(s)
    PROVE  /\ ContentsOf(p, s) \in Seq(Cell)
           /\ ContentsOf(p, s) = <<>> <=> s.size = 0 /\ p.size = 0
<1>1. s.size \in Nat /\ p.size \in Nat
  BY WindowFacts
<1>2. ContentsOf(p, s) \in Seq(Cell) /\ Len(ContentsOf(p, s)) = s.size + p.size
  BY ContentsSeq
<1>3. QED
  BY <1>1, <1>2

\* What the steps below use of the invariant.
LEMMA StackFacts ==
    ASSUME StackInv
    PROVE  /\ commands \in Configs /\ pop \in Elt /\ sft \in Elt
           /\ WindowOK(pop) /\ WindowOK(sft) /\ UnusedInv
           /\ pop.size \in Nat /\ sft.size \in Nat
           /\ pop.start \in Int /\ pop.end \in Int /\ sft.start \in Int /\ sft.end \in Int
           /\ Contents = <<>> <=> sft.size = 0 /\ pop.size = 0
<1>1. /\ commands \in Configs /\ pop \in Elt /\ sft \in Elt
      /\ WindowOK(pop) /\ WindowOK(sft) /\ UnusedInv
  BY DEF StackInv, WindowsOK
<1>2. QED
  BY <1>1, WindowFacts, EltFields, EmptyContents DEF Contents

-----------------------------------------------------------------------------
\* Every command keeps the stacks well formed and does its own operation of
\* the queue.

\* One push at the back, as PushArray and StrToArray share it.
LEMMA PushHeadStep ==
    ASSUME StackInv, SafeCommands(commands),
           "push_array" \in commands \/ "str_to_array" \in commands,
           NEW v \in Val, PushHead(v), UNCHANGED commands
    PROVE  StackInv' /\ Contents' = Append(Contents, v)
<1>1. pop.nelts < MaxSlots /\ pop' = PushEnd(pop, v) /\ sft' = sft
  BY FirstBranchDead DEF PushHead
<1>2. /\ pop \in Elt /\ sft \in Elt /\ WindowOK(pop) /\ WindowOK(sft) /\ UnusedInv
      /\ commands \in Configs
  BY StackFacts
<1>3. ContentsOf(PushEnd(pop, v), sft) = Append(ContentsOf(pop, sft), v)
  BY <1>1, <1>2, PushEndBack
<1>4. PushEnd(pop, v) \in Elt /\ WindowOK(PushEnd(pop, v))
  BY <1>1, <1>2, PushEndOK
<1>5. WindowOK(pop') /\ WindowOK(sft')
  BY <1>1, <1>2, <1>4
<1>6. QED
  BY <1>1, <1>2, <1>3, <1>4, <1>5 DEF Contents, StackInv, WindowsOK, WindowOK, UnusedInv

\* A command that leaves the stacks alone leaves the contents alone.
LEMMA SameStacks ==
    ASSUME StackInv, UNCHANGED <<commands, pop, sft>>
    PROVE  StackInv' /\ Contents' = Contents
BY DEF StackInv, WindowsOK, WindowOK, UnusedInv, Contents

\* push_array adds its value at the back.
LEMMA PushStep ==
    ASSUME StackInv, SafeCommands(commands), NEW v \in Val, PushArray(v)
    PROVE  StackInv' /\ D!PushArray(v)
BY PushHeadStep DEF PushArray, D!PushArray

\* str_to_array adds a string without delimiter at the back.
LEMMA StrStep ==
    ASSUME StackInv, Contents \in Seq(Val), SafeCommands(commands),
           NEW s \in Seq(Val), Len(s) <= 1, StrToArray(s)
    PROVE  StackInv' /\ D!StrToArray(s)
<1>1. UNCHANGED <<commands, out>> /\ "str_to_array" \in commands
  BY DEF StrToArray
<1>2. CASE Len(s) = 1 /\ PushHead(s[1])
  <2>1. s[1] \in Val /\ s = <<s[1]>>
    BY <1>2
  <2>2. StackInv' /\ Contents' = Append(Contents, s[1])
    BY <1>1, <1>2, <2>1, PushHeadStep
  <2>3. PICK v \in Val : s = <<v>> /\ s[1] = v
    BY <2>1
  <2>4. Append(Contents, v) = Contents \o <<v>>
    OBVIOUS
  <2>5. QED
    BY <1>1, <2>2, <2>3, <2>4 DEF D!StrToArray
<1>3. CASE Len(s) # 1 /\ UNCHANGED <<pop, sft>>
  <2>1. s = <<>>
    <3>1. PICK n \in Nat : n = Len(s)
      BY LenProperties
    <3>2. n # 1 /\ n <= 1
      BY <1>3, <3>1
    <3>3. n = 0
      BY ONLY n \in Nat, <3>2
    <3>4. QED
      BY <3>1, <3>3, EmptySeq
  <2>2. Contents \o <<>> = Contents
    BY ConcatEmptySeq
  <2>3. QED
    BY <1>1, <1>3, <2>1, <2>2, SameStacks DEF D!StrToArray
<1>4. QED
  BY <1>2, <1>3 DEF StrToArray

\* unshift_array adds its value at the front.
LEMMA UnshiftStep ==
    ASSUME StackInv, NEW v \in Val, UnshiftArray(v)
    PROVE  StackInv' /\ D!UnshiftArray(v)
<1>0. /\ commands \in Configs /\ pop \in Elt /\ sft \in Elt
      /\ WindowOK(pop) /\ WindowOK(sft) /\ UnusedInv
      /\ sft.size \in Nat /\ sft.start \in Int
  BY StackFacts
<1>1. UNCHANGED <<commands, out>> /\ "unshift_array" \in commands
  BY DEF UnshiftArray
<1>2. CASE sft.size = 0 /\ pop.size > 0 /\ pop.start > 0
  <2>1. pop' = PutStart(pop, v, 1) /\ sft' = sft
    BY <1>2 DEF UnshiftArray
  <2>2. Contents' = <<v>> \o Contents
    BY <1>2, <2>1, <1>0, PutStartFront DEF Contents
  <2>3. pop' \in Elt /\ WindowOK(pop)'
    BY <1>2, <2>1, <1>0, PutStartOK DEF WindowOK
  <2>4. StackInv'
    BY <2>1, <2>3, <1>0, <1>1 DEF StackInv, WindowsOK, WindowOK, UnusedInv
  <2>5. QED
    BY <2>2, <2>4, <1>1 DEF D!UnshiftArray
<1>3. CASE ~(sft.size = 0 /\ pop.size > 0 /\ pop.start > 0)
  <2>1. sft.nelts < MaxSlots /\ sft' = PushEnd(sft, v) /\ pop' = pop
    BY <1>3 DEF UnshiftArray
  <2>2. Contents' = <<v>> \o Contents
    BY <2>1, <1>0, PushEndFront DEF Contents
  <2>3. sft' \in Elt /\ WindowOK(sft)' /\ WindowOK(pop)'
    BY <2>1, <1>0, PushEndOK DEF WindowOK
  <2>4. UnusedInv'
    <3>1. /\ sft'.size = sft.size + 1
          /\ sft'.start = IF sft.size = 0 THEN sft.start + 1 ELSE sft.start
      BY <2>1 DEF PushEnd
    <3>2. QED
      BY <3>1, <1>0, <1>1 DEF UnusedInv
  <2>5. StackInv'
    BY <2>1, <2>3, <2>4, <1>0, <1>1 DEF StackInv, WindowsOK
  <2>6. QED
    BY <2>2, <2>5, <1>1 DEF D!UnshiftArray
<1>4. QED
  BY <1>2, <1>3

\* pop_array takes the last element, from whichever stack holds it.
LEMMA PopStep ==
    ASSUME StackInv, PopArray
    PROVE  StackInv' /\ D!PopArray
<1>0. /\ commands \in Configs /\ pop \in Elt /\ sft \in Elt
      /\ WindowOK(pop) /\ WindowOK(sft) /\ UnusedInv
      /\ pop.size \in Nat /\ sft.size \in Nat
      /\ Contents = <<>> <=> sft.size = 0 /\ pop.size = 0
  BY StackFacts
<1>1. UNCHANGED commands /\ "pop_array" \in commands
  BY DEF PopArray
<1>2. CASE pop.size = 0 /\ sft.size = 0
  <2>1. pop' = pop /\ sft' = sft /\ out' = <<>>
    BY <1>2 DEF PopArray
  <2>2. QED
    BY <1>0, <1>1, <1>2, <2>1, SameStacks DEF D!PopArray, D!TakeNone
<1>3. CASE pop.size = 0 /\ sft.size > 0
  <2>1. sft' = TakeStart(sft) /\ pop' = pop /\ out' = <<At(sft, sft.start)>>
    BY <1>3, <1>0 DEF PopArray
  <2>2. D!PopArray
    BY <1>3, <2>1, <1>0, TakeStartBack DEF Contents, D!PopArray
  <2>3. sft' \in Elt /\ WindowOK(sft)' /\ WindowOK(pop)'
    BY <1>3, <2>1, <1>0, TakeStartOK DEF WindowOK
  <2>4. UnusedInv'
    BY <1>3, <2>1, <1>0, <1>1, TakeStartOK DEF UnusedInv
  <2>5. QED
    BY <2>1, <2>2, <2>3, <2>4, <1>0, <1>1 DEF StackInv, WindowsOK
<1>4. CASE pop.size > 0
  <2>1. pop' = PopEnd(pop) /\ sft' = sft /\ out' = <<At(pop, pop.end)>>
    BY <1>4, <1>0 DEF PopArray
  <2>2. D!PopArray
    BY <1>4, <2>1, <1>0, PopEndBack DEF Contents, D!PopArray
  <2>3. pop' \in Elt /\ WindowOK(pop)' /\ WindowOK(sft)'
    BY <1>4, <2>1, <1>0, PopEndOK DEF WindowOK
  <2>4. UnusedInv'
    BY <1>4, <2>1, <1>0, <1>1 DEF UnusedInv, PopEnd
  <2>5. QED
    BY <2>1, <2>2, <2>3, <2>4, <1>0, <1>1 DEF StackInv, WindowsOK
<1>5. QED
  BY <1>2, <1>3, <1>4, <1>0

\* shift_array takes the first element, from whichever stack holds it.
LEMMA ShiftStep ==
    ASSUME StackInv, ShiftArray
    PROVE  StackInv' /\ D!ShiftArray
<1>0. /\ commands \in Configs /\ pop \in Elt /\ sft \in Elt
      /\ WindowOK(pop) /\ WindowOK(sft) /\ UnusedInv
      /\ pop.size \in Nat /\ sft.size \in Nat /\ sft.start \in Int
      /\ Contents = <<>> <=> sft.size = 0 /\ pop.size = 0
  BY StackFacts
<1>1. UNCHANGED commands /\ "shift_array" \in commands
  BY DEF ShiftArray
<1>2. CASE sft.size = 0 /\ pop.size = 0
  <2>1. pop' = pop /\ sft' = sft /\ out' = <<>>
    BY <1>2 DEF ShiftArray
  <2>2. QED
    BY <1>0, <1>1, <1>2, <2>1, SameStacks DEF D!ShiftArray, D!TakeNone
<1>3. CASE sft.size = 0 /\ pop.size > 0
  <2>1. pop' = TakeStart(pop) /\ sft' = sft /\ out' = <<At(pop, pop.start)>>
    BY <1>3, <1>0 DEF ShiftArray
  <2>2. D!ShiftArray
    BY <1>3, <2>1, <1>0, TakeStartFront DEF Contents, D!ShiftArray
  <2>3. pop' \in Elt /\ WindowOK(pop)' /\ WindowOK(sft)'
    BY <1>3, <2>1, <1>0, TakeStartOK DEF WindowOK
  <2>4. UnusedInv'
    BY <2>1, <1>0, <1>1 DEF UnusedInv
  <2>5. QED
    BY <2>1, <2>2, <2>3, <2>4, <1>0, <1>1 DEF StackInv, WindowsOK
<1>4. CASE sft.size > 0
  <2>1. sft' = PopEnd(sft) /\ pop' = pop /\ out' = <<At(sft, sft.end)>>
    BY <1>4, <1>0 DEF ShiftArray
  <2>2. D!ShiftArray
    BY <1>4, <2>1, <1>0, PopEndFront DEF Contents, D!ShiftArray
  <2>3. sft' \in Elt /\ WindowOK(sft)' /\ WindowOK(pop)'
    BY <1>4, <2>1, <1>0, PopEndOK DEF WindowOK
  <2>4. UnusedInv'
    BY <1>4, <2>1, <1>0, <1>1 DEF UnusedInv, PopEnd
  <2>5. QED
    BY <2>1, <2>2, <2>3, <2>4, <1>0, <1>1 DEF StackInv, WindowsOK
<1>5. QED
  BY <1>2, <1>3, <1>4, <1>0

\* print_array shows the full rows.
LEMMA PrintStep ==
    ASSUME StackInv, PrintArray
    PROVE  /\ StackInv' /\ D!PrintArray /\ slot' = out'
           /\ Contents = <<>> => out' = slot
<1>1. UNCHANGED <<commands, pop, sft>> /\ slot' = out'
  BY DEF PrintArray
<1>2. pop.size \in Nat /\ sft.size \in Nat /\ (Contents = <<>> <=> sft.size = 0 /\ pop.size = 0)
  BY StackFacts
<1>3. Contents = <<>> <=> sft.size + pop.size = 0
  BY <1>2
<1>4. QED
  BY <1>1, <1>3, SameStacks DEF PrintArray, D!PrintArray

-----------------------------------------------------------------------------
\* The queue's operations hand out the values they were given.

\* After a push, an unshift or a split.
LEMMA AddedValues ==
    ASSUME Contents \in Seq(Val), out \in Seq(Val),
           \/ \E v \in Val : D!PushArray(v) \/ D!UnshiftArray(v)
           \/ \E s \in Seq(Val) : D!StrToArray(s)
    PROVE  Contents' \in Seq(Val) /\ out' \in Seq(Val)
<1>1. ASSUME NEW v \in Val
      PROVE  Append(Contents, v) \in Seq(Val) /\ <<v>> \o Contents \in Seq(Val)
  <2>1. <<v>> \in Seq(Val)
    OBVIOUS
  <2>2. QED
    BY <2>1, ConcatProperties, AppendProperties
<1>2. \A s \in Seq(Val) : Contents \o s \in Seq(Val)
  BY ConcatProperties
<1>3. CASE \E v \in Val : D!PushArray(v)
  BY <1>1, <1>3 DEF D!PushArray
<1>4. CASE \E v \in Val : D!UnshiftArray(v)
  BY <1>1, <1>4 DEF D!UnshiftArray
<1>5. CASE \E s \in Seq(Val) : D!StrToArray(s)
  BY <1>2, <1>5 DEF D!StrToArray
<1>6. QED
  BY <1>3, <1>4, <1>5

\* After a pop or a shift.
LEMMA TakenValues ==
    ASSUME Contents \in Seq(Val), D!PopArray \/ D!ShiftArray
    PROVE  Contents' \in Seq(Val) /\ out' \in Seq(Val)
<1>1. CASE D!TakeNone
  BY <1>1 DEF D!TakeNone
<1>2. CASE Contents # <<>> /\ ~D!TakeNone
  <2>1. PICK c \in Seq(Val) : c = Contents
    OBVIOUS
  <2>2. /\ Len(c) \in Nat /\ Len(c) \in 1 .. Len(c) /\ c[Len(c)] \in Val
        /\ Head(c) \in Val /\ Tail(c) \in Seq(Val)
        /\ \A i \in 1 .. Len(c) - 1 : c[i] \in Val
    BY <1>2, <2>1, LenProperties, EmptySeq, HeadTailProperties
  <2>3. SubSeq(c, 1, Len(c) - 1) \in Seq(Val)
    <3>1. Len(c) - 1 \in Int
      BY <2>2
    <3>2. QED
      BY <2>2, <3>1, SubSeqProperties
  <2>4. <<c[Len(c)]>> \in Seq(Val) /\ <<Head(c)>> \in Seq(Val)
    BY <2>2
  <2>5. CASE D!PopArray
    BY <1>2, <2>1, <2>3, <2>4, <2>5 DEF D!PopArray
  <2>6. CASE D!ShiftArray
    BY <1>2, <2>1, <2>2, <2>4, <2>6 DEF D!ShiftArray
  <2>7. QED
    BY <2>5, <2>6
<1>3. QED
  BY <1>1, <1>2 DEF D!PopArray, D!ShiftArray

\* After a print of an array that is not empty.
LEMMA PrintedValues ==
    ASSUME Contents \in Seq(Val), Contents # <<>>, D!PrintArray
    PROVE  Contents' \in Seq(Val) /\ out' \in Seq(Val)
<1>1. PICK c \in Seq(Val) : c = Contents
  OBVIOUS
<1>2. PICK n : n = Len(c) - (Len(c) % Step)
  OBVIOUS
<1>3. Len(c) \in Nat /\ n \in Int /\ n <= Len(c)
  BY <1>2, StepAssumption, LenProperties
<1>4. \A i \in 1 .. n : c[i] \in Val
  BY <1>3, LenProperties
<1>5. SubSeq(c, 1, n) \in Seq(Val)
  BY <1>3, <1>4, SubSeqProperties
<1>6. QED
  BY <1>1, <1>2, <1>5 DEF D!PrintArray

-----------------------------------------------------------------------------
(* The theorems                                                            *)

\* Every command keeps the invariant and does its own operation.
LEMMA ArrayStep ==
    ASSUME \A c \in Configs : SafeCommands(c), NoDelimiters, IInv, [Next]_vars
    PROVE  IInv' /\ [D!Next]_(D!vars) /\ OwnOperation
<1>0. /\ StackInv /\ SafeCommands(commands)
      /\ Contents \in Seq(Val) /\ slot \in Seq(Val) /\ out \in Seq(Val)
  BY DEF IInv, StackInv, ValueInv
<1>1. ASSUME NEW v \in Val
      PROVE  /\ PushArray(v) => StackInv' /\ D!PushArray(v) /\ slot' = <<v>>
             /\ UnshiftArray(v) => StackInv' /\ D!UnshiftArray(v) /\ slot' = <<v>>
             /\ <<v>> \in Seq(Val)
  <2>1. PushArray(v) => StackInv' /\ D!PushArray(v)
    BY <1>0, PushStep
  <2>2. UnshiftArray(v) => StackInv' /\ D!UnshiftArray(v)
    BY <1>0, UnshiftStep
  <2>3. QED
    BY <2>1, <2>2 DEF PushArray, UnshiftArray
<1>2. ASSUME NEW s \in Strings
      PROVE  /\ StrToArray(s) => StackInv' /\ D!StrToArray(s) /\ slot' = s
             /\ s \in Seq(Val)
  <2>1. s \in Seq(Val) /\ Len(s) <= 1
    BY StringsAssumption DEF NoDelimiters
  <2>2. StrToArray(s) => StackInv' /\ D!StrToArray(s)
    BY <1>0, <2>1, StrStep
  <2>3. QED
    BY <2>1, <2>2 DEF StrToArray
<1>3. PopArray => StackInv' /\ D!PopArray /\ slot' = out'
  BY <1>0, PopStep DEF PopArray
<1>4. ShiftArray => StackInv' /\ D!ShiftArray /\ slot' = out'
  BY <1>0, ShiftStep DEF ShiftArray
<1>5. PrintArray => /\ StackInv' /\ D!PrintArray /\ slot' = out'
                    /\ Contents = <<>> => out' = slot
  BY <1>0, PrintStep
<1>6. OtherStatement => StackInv' /\ UNCHANGED D!vars /\ slot' \in Seq(Val)
  <2>1. ASSUME OtherStatement
        PROVE  /\ UNCHANGED <<commands, pop, sft>> /\ out' = out
               /\ slot' = <<>> \/ \E v \in Val : slot' = <<v>>
    BY <2>1 DEF OtherStatement
  <2>2. OtherStatement => slot' \in Seq(Val)
    BY <2>1, <1>1, EmptySeq
  <2>3. QED
    BY <2>1, <2>2, <1>0, SameStacks DEF D!vars
<1>7. UNCHANGED vars => IInv' /\ UNCHANGED D!vars
  <2>1. ASSUME UNCHANGED vars
        PROVE  UNCHANGED <<commands, pop, sft>> /\ slot' = slot /\ out' = out
    BY <2>1 DEF vars
  <2>2. QED
    BY <2>1, <1>0, SameStacks DEF IInv, ValueInv, D!vars
<1>8. OwnOperation
  BY <1>1, <1>2, <1>3, <1>4, <1>5, <1>6 DEF OwnOperation
<1>9. CASE \E v \in Val : PushArray(v) \/ UnshiftArray(v)
  <2>1. PICK v \in Val : PushArray(v) \/ UnshiftArray(v)
    BY <1>9
  <2>2. /\ StackInv' /\ slot' \in Seq(Val)
        /\ D!PushArray(v) \/ D!UnshiftArray(v)
    BY <2>1, <1>1
  <2>3. Contents' \in Seq(Val) /\ out' \in Seq(Val)
    BY <2>2, <1>0, AddedValues
  <2>4. QED
    BY <2>2, <2>3, <1>8 DEF IInv, ValueInv, D!Next
<1>10. CASE \E s \in Strings : StrToArray(s)
  <2>1. PICK s \in Strings : StrToArray(s)
    BY <1>10
  <2>2. StackInv' /\ slot' \in Seq(Val) /\ D!StrToArray(s) /\ s \in Seq(Val)
    BY <2>1, <1>2
  <2>3. Contents' \in Seq(Val) /\ out' \in Seq(Val)
    BY <2>2, <1>0, AddedValues
  <2>4. QED
    BY <2>2, <2>3, <1>8 DEF IInv, ValueInv, D!Next
<1>11. CASE PopArray \/ ShiftArray
  <2>1. StackInv' /\ slot' = out' /\ (D!PopArray \/ D!ShiftArray)
    BY <1>3, <1>4, <1>11
  <2>2. Contents' \in Seq(Val) /\ out' \in Seq(Val)
    BY <2>1, <1>0, TakenValues
  <2>3. QED
    BY <2>1, <2>2, <1>8 DEF IInv, ValueInv, D!Next
<1>12. CASE PrintArray
  <2>1. /\ StackInv' /\ D!PrintArray /\ slot' = out'
        /\ Contents = <<>> => out' = slot
    BY <1>5, <1>12
  <2>2. Contents' \in Seq(Val)
    BY <2>1, <1>0 DEF D!PrintArray
  <2>3. out' \in Seq(Val)
    <3>1. CASE Contents = <<>>
      BY <3>1, <2>1, <1>0
    <3>2. CASE Contents # <<>>
      BY <3>2, <2>1, <1>0, PrintedValues
    <3>3. QED
      BY <3>1, <3>2
  <2>4. QED
    BY <2>1, <2>2, <2>3, <1>8 DEF IInv, ValueInv, D!Next
<1>13. CASE OtherStatement
  <2>1. StackInv' /\ UNCHANGED D!vars /\ slot' \in Seq(Val)
    BY <1>6, <1>13
  <2>2. Contents' = Contents /\ out' = out
    BY <2>1 DEF D!vars
  <2>3. QED
    BY <2>1, <2>2, <1>0, <1>8 DEF IInv, ValueInv
<1>14. CASE UNCHANGED vars
  BY <1>7, <1>8, <1>14
<1>15. QED
  BY <1>9, <1>10, <1>11, <1>12, <1>13, <1>14 DEF Next

\* The empty array is the empty queue.
LEMMA ArrayInit ==
    ASSUME Init
    PROVE  IInv /\ D!Init
<1>1. EmptyElt \in Elt /\ WindowOK(EmptyElt) /\ EmptyElt.size = 0 /\ EmptyElt.start = -1
  BY MaxSlotsAssumption DEF EmptyElt, Elt, WindowOK, Cell
<1>2. Contents = <<>>
  BY <1>1, EmptyContents DEF Init, Contents
<1>3. StackInv
  BY <1>1 DEF Init, StackInv, WindowsOK, UnusedInv
<1>4. ValueInv
  BY <1>2, EmptySeq DEF Init, ValueInv
<1>5. QED
  BY <1>2, <1>3, <1>4 DEF Init, IInv, D!Init

\* A window within its stack bounds the counters.
LEMMA WindowBounds ==
    ASSUME NEW d \in Elt, WindowOK(d)
    PROVE  BoundedElt(d)
<1>1. PICK n \in Int, z \in Int, b \in Int, e \in Int :
          n = d.nelts /\ z = d.size /\ b = d.start /\ e = d.end
  BY EltFields
<1>2. /\ z \in Nat /\ n \in 0 .. MaxSlots /\ e = n - 1
      /\ z = 0 => b = e
      /\ z > 0 => b = e - z + 1 /\ b \in Nat
  BY <1>1, WindowFacts
<1>3. z \in 0 .. MaxSlots /\ b \in -1 .. MaxSlots - 1 /\ e \in -1 .. MaxSlots - 1
  BY ONLY n \in Int, z \in Int, b \in Int, e \in Int, <1>2, MaxSlotsAssumption
<1>4. QED
  BY <1>1, <1>2, <1>3 DEF BoundedElt

\* The invariant holds throughout when the commands are safe and no string
\* has a delimiter.
LEMMA ArrayInvariant ==
    ASSUME \A c \in Configs : SafeCommands(c), NoDelimiters
    PROVE  Spec => []IInv
<1>1. Init => IInv
  BY ArrayInit
<1>2. IInv /\ [Next]_vars => IInv'
  BY ArrayStep
<1>3. QED
  BY <1>1, <1>2, PTL DEF Spec

\* With safe commands and whole strings, the counters of both stacks stay in
\* step through every mix of takes and pushes.
THEOREM ArrayWindows ==
    ASSUME \A c \in Configs : SafeCommands(c), NoDelimiters
    PROVE  Spec => []WindowsOK
<1>1. IInv => WindowsOK
  BY DEF IInv, StackInv
<1>2. QED
  BY <1>1, ArrayInvariant, PTL

\* With safe commands and whole strings, no command reaches outside the
\* arrays' memory or hands out memory nobody wrote.
THEOREM ArrayTypes ==
    ASSUME \A c \in Configs : SafeCommands(c), NoDelimiters
    PROVE  Spec => []TypeOK
<1>1. IInv => TypeOK
  <2>1. ASSUME IInv
        PROVE  BoundedElt(pop) /\ BoundedElt(sft)
    BY <2>1, WindowBounds, StackFacts DEF IInv
  <2>2. QED
    BY <2>1 DEF IInv, StackInv, ValueInv, TypeOK
<1>2. QED
  BY <1>1, ArrayInvariant, PTL

\* With safe commands and whole strings, every command on an array variable
\* does its own operation of a double-ended queue: push_array, pop_array and
\* str_to_array at the back, unshift_array and shift_array at the front.
THEOREM ArrayIsDeque ==
    ASSUME \A c \in Configs : SafeCommands(c), NoDelimiters
    PROVE  Spec => IsDeque
<1>1. Init => IInv /\ D!Init
  BY ArrayInit
<1>2. IInv /\ [Next]_vars => [D!Next]_(D!vars) /\ [OwnOperation]_vars
  BY ArrayStep
<1>3. QED
  BY <1>1, <1>2, ArrayInvariant, PTL DEF Spec, IsDeque, D!Spec
=============================================================================
