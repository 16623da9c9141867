-------------------------- MODULE Rv2CounterProofs --------------------------
(***************************************************************************)
(* What rv_incr promises of a key that is only incremented and read, for   *)
(* any number of workers and nodes and whatever calls are lost.            *)
(***************************************************************************)
EXTENDS Rv2Proofs

\* Keys are only read and incremented, by positive deltas that take the
\* default to a number that fits an int; and memcached keeps what it holds.
CounterOnly ==
    /\ ~Evicts
    /\ \A q \in Requests :
          /\ q.op \in {"get", "incr"}
          /\ q.op = "incr" /\ q.v \in Nat => q.v > 0 /\ 2 * (DefaultNumber + q.v) < IntMod

\* A counter s, the values g its successful increments gave and the sum a of
\* their deltas.
CellOK(s, g, a) ==
    /\ s = None => g = <<>> /\ a = 0
    /\ s # None => s \in Nat /\ s >= DefaultNumber + a
    /\ a >= 0
    /\ s # None /\ 2 * s < IntMod => \A i \in 1 .. Len(g) : g[i] <= s
    /\ s # None /\ 2 * s < IntMod => \A i, j \in 1 .. Len(g) : i < j => g[i] < g[j]

CInv == \A c \in Cells : CellOK(store[c], given[c], acked[c])

\* A cell without a value holds no number.
LEMMA NoneIsNoNumber == None \notin Int
BY StringAssumption

\* An increment of an existing counter, lost or answered.
LEMMA CellGrows ==
    ASSUME NEW s \in Nat, NEW d \in Nat, d > 0, NEW g \in Seq(Int), NEW a \in Int, CellOK(s, g, a)
    PROVE  /\ CellOK(s + d, g, a)
           /\ CellOK(s + d, Append(g, FormatInt(s + d)), a + d)
<1>1. s # None /\ s + d # None /\ DefaultNumber \in Nat /\ IntMod \in Nat
  BY NoneIsNoNumber, DefaultNumberType, IntModAssumption
<1>2. s >= DefaultNumber + a /\ a >= 0
  BY <1>1 DEF CellOK
<1>3. 2 * (s + d) < IntMod => 2 * s < IntMod
  BY <1>1
<1>4. CellOK(s + d, g, a)
  BY <1>1, <1>2, <1>3 DEF CellOK
<1> DEFINE h == Append(g, FormatInt(s + d))
<1>5. CASE 2 * (s + d) < IntMod
  <2>1. FormatInt(s + d) = s + d
    BY <1>5, FormatIntSmall
  <2>2. /\ Len(h) = Len(g) + 1 /\ Len(g) \in Nat /\ h[Len(g) + 1] = s + d
        /\ \A i \in 1 .. Len(g) : h[i] = g[i] /\ g[i] \in Int
    BY <2>1, AppendProperties, LenProperties
  <2>3. \A i \in 1 .. Len(g) : g[i] <= s
    BY <1>1, <1>3, <1>5 DEF CellOK
  <2>4. \A i, j \in 1 .. Len(g) : i < j => g[i] < g[j]
    BY <1>1, <1>3, <1>5 DEF CellOK
  <2> HIDE DEF h
  <2>5. \A i \in 1 .. Len(h) : h[i] <= s + d
    BY <2>2, <2>3, SMTT(30)
  <2>6. \A i, j \in 1 .. Len(h) : i < j => h[i] < h[j]
    <3> SUFFICES ASSUME NEW i \in 1 .. Len(h), NEW j \in 1 .. Len(h), i < j
                 PROVE  h[i] < h[j]
      OBVIOUS
    <3>1. i \in 1 .. Len(g)
      BY <2>2
    <3>2. CASE j = Len(g) + 1
      <4>1. h[i] = g[i] /\ g[i] \in Int /\ g[i] <= s /\ h[j] = s + d
        BY <2>2, <2>3, <3>1, <3>2
      <4>2. QED
        BY <4>1
    <3>3. CASE j \in 1 .. Len(g)
      BY <2>2, <2>4, <3>1, <3>3
    <3>4. QED
      BY <2>2, <3>2, <3>3
  <2>7. QED
    BY <1>1, <1>2, <1>4, <2>5, <2>6 DEF CellOK, h
<1>6. CASE ~(2 * (s + d) < IntMod)
  BY <1>1, <1>2, <1>4, <1>6 DEF CellOK
<1>7. QED
  BY <1>4, <1>5, <1>6

\* The first increment, which adds the default plus its delta.
LEMMA CellStarts ==
    ASSUME NEW d \in Nat, d > 0, 2 * (DefaultNumber + d) < IntMod,
           NEW g \in Seq(Int), NEW a \in Int, CellOK(None, g, a)
    PROVE  /\ CellOK(DefaultNumber + d, g, a)
           /\ CellOK(DefaultNumber + d, Append(g, DefaultNumber + d), a + d)
<1>1. DefaultNumber \in Nat /\ IntMod \in Nat /\ DefaultNumber + d # None
  BY NoneIsNoNumber, DefaultNumberType, IntModAssumption
<1>2. g = <<>> /\ a = 0
  BY DEF CellOK
<1>3. CellOK(DefaultNumber + d, g, a)
  BY <1>1, <1>2 DEF CellOK
<1>4. Append(g, DefaultNumber + d) = <<DefaultNumber + d>>
  BY <1>2
<1>5. CellOK(DefaultNumber + d, <<DefaultNumber + d>>, a + d)
  BY <1>1, <1>2 DEF CellOK
<1>6. QED
  BY <1>3, <1>4, <1>5

\* A call leaves the other cells alone.
LEMMA CellStep ==
    ASSUME CInv, NEW c \in Cells, CellOK(store'[c], given'[c], acked'[c]),
           \A d \in Cells : d # c => /\ store'[d] = store[d]
                                     /\ given'[d] = given[d]
                                     /\ acked'[d] = acked[d]
    PROVE  CInv'
<1>1. \A d \in Cells : CellOK(store'[d], given'[d], acked'[d])
  BY DEF CInv
<1>2. QED
  BY <1>1 DEF CInv, CellOK

\* What recording a successful increment does to the history.
LEMMA TicketFacts ==
    ASSUME TypeOK, NEW w \in Worker, NEW v, req[w].op = "incr", CellOf(req[w]) \in Cells, Ticket(w, v)
    PROVE  /\ given'[CellOf(req[w])] = Append(given[CellOf(req[w])], v)
           /\ acked'[CellOf(req[w])] = acked[CellOf(req[w])] + Atoi(req[w].v)
           /\ \A d \in Cells : d # CellOf(req[w]) => given'[d] = given[d] /\ acked'[d] = acked[d]
BY DEF Ticket, TypeOK

\* incr and decr keep the counter invariant.
LEMMA CountKeeps ==
    ASSUME CounterOnly, IInv, CInv, NEW w \in Worker, Count(w)
    PROVE  CInv'
<1> DEFINE c == CellOf(req[w])
           d == Atoi(req[w].v)
           reply == Reply("incr", store[c], d)
<1>1. /\ TypeOK /\ phase[w] = "run" /\ req[w].op = "incr" /\ MayCall(w, req[w])
  BY DEF IInv, TypeOK, Count, Connected, CounterOnly, Counting
<1>2. c \in Cells /\ d \in Nat /\ d \in String /\ d > 0 /\ "incr" \in Ops
  BY <1>1, CellFacts DEF TypeOK, Ops, String, Counting, CounterOnly
<1>0. Offset(req[w]) = d
  <2>1. req[w] \in Requests /\ req[w].v \in Nat /\ d = req[w].v
    BY <1>1, CellFacts DEF TypeOK, Counting
  <2>2. 2 * (DefaultNumber + req[w].v) < IntMod
    BY <1>1, <2>1 DEF CounterOnly
  <2>3. req[w].v < IntMod
    BY <2>1, <2>2, DefaultNumberType, IntModAssumption
  <2>4. QED
    BY <2>1, <2>3, OffsetType
<1>3. /\ store \in [Cells -> String \cup {None}] /\ effects \in [Worker -> Nat]
      /\ given \in [Cells -> Seq(Int)] /\ acked \in [Cells -> Int]
  BY <1>1 DEF TypeOK
<1>4. PICK rc \in McReturns :
        /\ Call(w, "incr", c, d, rc)
        /\ \/ rc = "SUCCESS" /\ Ticket(w, FormatInt(reply.new))
           \/ UNCHANGED <<given, acked>>
  BY <1>0, <1>1 DEF Count
<1> HIDE DEF c, d
<1>5. /\ \A e \in Cells : e # c => store'[e] = store[e]
      /\ rc = "SUCCESS" => reply.rc = "SUCCESS" /\ store'[c] = reply.new
      /\ store'[c] = store[c] \/ (store'[c] = reply.new /\ reply.rc = "SUCCESS")
  BY <1>2, <1>3, <1>4, CallFacts
<1>6. reply.rc = "SUCCESS" => store[c] \in Nat /\ reply.new = store[c] + d
  <2>1. store[c] \in String \cup {None}
    BY <1>2, <1>3
  <2>2. QED
    BY <1>2, <2>1, ReplyFacts
<1> HIDE DEF reply
<1>7. CellOK(store[c], given[c], acked[c]) /\ given[c] \in Seq(Int) /\ acked[c] \in Int
  BY <1>2, <1>3 DEF CInv
<1>8. CASE rc = "SUCCESS" /\ Ticket(w, FormatInt(reply.new))
  <2>1. store'[c] = store[c] + d /\ store[c] \in Nat
    BY <1>5, <1>6, <1>8
  <2>2. /\ given'[c] = Append(given[c], FormatInt(store[c] + d)) /\ acked'[c] = acked[c] + d
        /\ \A e \in Cells : e # c => given'[e] = given[e] /\ acked'[e] = acked[e]
    BY <1>1, <1>2, <1>5, <1>6, <1>8, TicketFacts DEF c, d
  <2>3. CellOK(store'[c], given'[c], acked'[c])
    BY <1>2, <1>7, <2>1, <2>2, CellGrows
  <2>4. QED
    BY <1>2, <1>5, <2>2, <2>3, CellStep
<1>9. CASE UNCHANGED <<given, acked>>
  <2>1. CellOK(store'[c], given'[c], acked'[c])
    BY <1>2, <1>5, <1>6, <1>7, <1>9, CellGrows
  <2>2. QED
    BY <1>2, <1>5, <1>9, <2>1, CellStep
<1>10. QED
  BY <1>4, <1>8, <1>9

\* Adding the default value keeps the counter invariant.
LEMMA AddDefaultKeeps ==
    ASSUME CounterOnly, IInv, CInv, NEW w \in Worker, AddDefault(w)
    PROVE  CInv'
<1> DEFINE c == CellOf(req[w])
           d == Atoi(req[w].v)
           v == DefaultPlus(req[w])
           reply == Reply("add", store[c], v)
<1>1. /\ TypeOK /\ req[w].op = "incr" /\ MayCall(w, req[w])
  BY DEF IInv, WorkerOK, TypeOK, AddDefault, CounterOnly, Counting
<1>2. /\ c \in Cells /\ d \in Nat /\ d > 0 /\ 2 * (DefaultNumber + d) < IntMod
      /\ "add" \in Ops /\ "add" \notin Counting
  BY <1>1, CellFacts DEF TypeOK, Ops, Storing, Counting, CounterOnly
<1>3. v = DefaultNumber + d /\ v \in String
  <2>1. DefaultNumber + d \in Nat
    BY <1>2, DefaultNumberType
  <2>2. FormatInt(DefaultNumber + d) = DefaultNumber + d
    BY <1>2, <2>1, FormatIntSmall
  <2>3. QED
    BY <1>1, <2>1, <2>2 DEF DefaultPlus, String
<1>4. /\ store \in [Cells -> String \cup {None}] /\ effects \in [Worker -> Nat]
      /\ given \in [Cells -> Seq(Int)] /\ acked \in [Cells -> Int]
  BY <1>1 DEF TypeOK
<1>5. PICK rc \in McReturns :
        /\ Call(w, "add", c, v, rc)
        /\ \/ rc = "SUCCESS" /\ Ticket(w, v)
           \/ UNCHANGED <<given, acked>>
  BY DEF AddDefault
<1> HIDE DEF c, d, v
<1>6. /\ \A e \in Cells : e # c => store'[e] = store[e]
      /\ rc = "SUCCESS" => reply.rc = "SUCCESS" /\ store'[c] = reply.new
      /\ store'[c] = store[c] \/ (store'[c] = reply.new /\ reply.rc = "SUCCESS")
  <2>1. /\ "add" \in Counting => v \in Nat
        /\ c \in Cells /\ v \in String /\ "add" \in Ops
        /\ store \in [Cells -> String \cup {None}] /\ effects \in [Worker -> Nat]
    BY <1>2, <1>3, <1>4
  <2>2. Call(w, "add", c, v, rc)
    BY <1>5
  <2> HIDE DEF reply
  <2>3. \A e \in Cells : e # c => store'[e] = store[e]
    BY <2>1, <2>2, CallFacts
  <2>4. rc = "SUCCESS" => Reply("add", store[c], v).rc = "SUCCESS"
                          /\ store'[c] = Reply("add", store[c], v).new
    BY <2>1, <2>2, CallFacts
  <2>5. \/ store'[c] = store[c]
        \/ store'[c] = Reply("add", store[c], v).new /\ Reply("add", store[c], v).rc = "SUCCESS"
    BY <2>1, <2>2, CallFacts
  <2>6. QED
    BY <2>3, <2>4, <2>5 DEF reply
<1>7. reply.rc = "SUCCESS" => store[c] = None /\ reply.new = v
  <2>1. store[c] \in String \cup {None}
    BY <1>2, <1>4
  <2>2. QED
    BY <1>2, <1>3, <2>1, ReplyFacts
<1> HIDE DEF reply
<1>8. CellOK(store[c], given[c], acked[c]) /\ given[c] \in Seq(Int) /\ acked[c] \in Int
  BY <1>2, <1>4 DEF CInv
<1>9. CASE rc = "SUCCESS" /\ Ticket(w, v)
  <2>1. store'[c] = DefaultNumber + d /\ store[c] = None
    BY <1>3, <1>6, <1>7, <1>9
  <2>2. /\ given'[c] = Append(given[c], DefaultNumber + d) /\ acked'[c] = acked[c] + d
        /\ \A e \in Cells : e # c => given'[e] = given[e] /\ acked'[e] = acked[e]
    BY <1>1, <1>2, <1>3, <1>9, TicketFacts DEF c, d
  <2>3. CellOK(store'[c], given'[c], acked'[c])
    BY <1>2, <1>8, <2>1, <2>2, CellStarts
  <2>4. QED
    BY <1>2, <1>6, <2>2, <2>3, CellStep
<1>10. CASE UNCHANGED <<given, acked>>
  <2>1. CellOK(store'[c], given'[c], acked'[c])
    BY <1>2, <1>3, <1>6, <1>7, <1>8, <1>10, CellStarts
  <2>2. QED
    BY <1>2, <1>6, <1>10, <2>1, CellStep
<1>11. QED
  BY <1>5, <1>9, <1>10

\* A read leaves the servers alone.
LEMMA GetKeeps ==
    ASSUME IInv, NEW w \in Worker, Get(w)
    PROVE  UNCHANGED <<store, given, acked>>
<1> DEFINE c == CellOf(req[w])
<1>1. TypeOK /\ MayCall(w, req[w])
  BY DEF IInv, Get, Connected
<1>2. c \in Cells /\ "get" \in Ops /\ "get" \notin Counting /\ Empty \in String
  BY <1>1, CellFacts DEF TypeOK, Ops, Reading, Counting, String
<1>3. store \in [Cells -> String \cup {None}] /\ effects \in [Worker -> Nat]
  BY <1>1 DEF TypeOK
<1>4. PICK rc \in McReturns : Call(w, "get", c, Empty, rc)
  BY DEF Get
<1> HIDE DEF c
<1>5. /\ store' \in [Cells -> String \cup {None}] /\ store'[c] = store[c]
      /\ \A e \in Cells : e # c => store'[e] = store[e]
  BY <1>2, <1>3, <1>4, CallFacts
<1>6. store' = store
  BY <1>2, <1>3, <1>5
<1>7. QED
  BY <1>6 DEF Get

\* Every step keeps the counter invariant.
LEMMA CInvStep ==
    ASSUME CounterOnly, IInv, CInv, [Next]_vars
    PROVE  CInv'
<1>1. CASE UNCHANGED <<store, given, acked>>
  BY <1>1 DEF CInv, CellOK
<1>2. ASSUME NEW w \in Worker, Count(w) \/ AddDefault(w)
      PROVE  CInv'
  BY <1>2, CountKeeps, AddDefaultKeeps
<1>3. \A w \in Worker : ~Store(w)
  BY DEF Store, Storing, CounterOnly, IInv, TypeOK
<1>4. \A c \in Cells : ~Evict(c)
  BY DEF Evict, CounterOnly
<1>5. ASSUME NEW w \in Worker,
             \/ InitProc(w) \/ Refuse(w) \/ Crash(w) \/ SetVar(w) \/ End(w)
             \/ \E q \in Requests : Begin(w, q)
      PROVE  UNCHANGED <<store, given, acked>>
  BY <1>5 DEF InitProc, Refuse, Crash, SetVar, End, Begin, history
<1>6. CASE UNCHANGED vars
  BY <1>1, <1>6 DEF vars, history
<1>7. QED
  BY <1>1, <1>2, <1>3, <1>4, <1>5, <1>6, GetKeeps DEF Next

\* The counter invariant holds when the workers start.
LEMMA CInvInit == Init => CInv
BY NoneIsNoNumber DEF Init, CInv, CellOK

\* The counter invariant always holds.
LEMMA CounterInvariant ==
    ASSUME CounterOnly
    PROVE  Spec => [](IInv /\ CInv)
<1>1. Init => IInv /\ CInv
  BY IInvInit, CInvInit
<1>2. IInv /\ CInv /\ [Next]_vars => (IInv /\ CInv)'
  BY IInvStep, CInvStep
<1>3. QED
  BY <1>1, <1>2, PTL DEF Spec

\* No two successful increments of a counter give the same number, and later
\* ones give larger numbers, for any number of workers and nodes.
THEOREM IncrementsGiveNewNumbers ==
    ASSUME CounterOnly
    PROVE  Spec => []TicketsIncrease
<1>1. CInv => TicketsIncrease
  BY NoneIsNoNumber DEF CInv, CellOK, TicketsIncrease
<1>2. QED
  BY <1>1, CounterInvariant, PTL

\* No increment that was reported as done is lost, for any number of workers
\* and nodes, although the default is added by a second call.
THEOREM IncrementsAreKept ==
    ASSUME CounterOnly
    PROVE  Spec => []AckedIncrementsKept
<1>1. IInv /\ CInv => AckedIncrementsKept
  BY DefaultNumberType DEF CInv, CellOK, AckedIncrementsKept, IInv, TypeOK
<1>2. QED
  BY <1>1, CounterInvariant, PTL
=============================================================================
