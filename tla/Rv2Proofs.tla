----------------------------- MODULE Rv2Proofs ------------------------------
(***************************************************************************)
(* Proofs about Rv2, for any workers, nodes, statements and failures.      *)
(***************************************************************************)
EXTENDS Rv2, SequenceTheorems, TLAPS

Ops == Reading \cup Counting \cup Storing

-----------------------------------------------------------------------------
(* Facts about the operators                                               *)

\* What rv2_push_i prints is a number.
LEMMA FormatIntType == \A n \in Int : FormatInt(n) \in Int
BY IntModAssumption DEF FormatInt

\* A number that fits an int is printed as it is.
LEMMA FormatIntSmall == \A n \in Nat : 2 * n < IntMod => FormatInt(n) = n
BY IntModAssumption DEF FormatInt

\* ngx_atoi gives -1 or the number it was given.
LEMMA AtoiType == \A s : Atoi(s) \in Int /\ (Atoi(s) # -1 => s \in Nat /\ Atoi(s) = s)
BY DEF Atoi

\* The delta that reaches memcached, which is the statement's if it fits.
LEMMA OffsetType ==
    ASSUME NEW q, q.v \in Nat
    PROVE  Offset(q) \in Nat /\ (q.v < IntMod => Offset(q) = q.v)
<1>1. Offset(q) = q.v % IntMod
  BY DEF Offset, Atoi
<1>2. \A n \in Nat : n % IntMod \in Nat /\ (n < IntMod => n % IntMod = n)
  BY IntModAssumption
<1>3. QED
  BY <1>1, <1>2

\* The default number is a natural number.
LEMMA DefaultNumberType == DefaultNumber \in Nat
BY AtoiType DEF DefaultNumber, Atoi

\* The value added for a missing counter is a number.
LEMMA DefaultPlusType == \A q : DefaultPlus(q) \in Int
BY FormatIntType, DefaultNumberType, AtoiType DEF DefaultPlus

\* A statement of the configuration.
LEMMA RequestFacts ==
    \A q \in Requests : /\ q.op \in Ops /\ q.v \in String /\ q.key \in Key \cup {Empty}
                        /\ q.rcidx \in BOOLEAN
BY RequestsAssumption DEF Request, Ops

\* A statement that may call memcached has a node and a cell.
LEMMA CellFacts ==
    ASSUME NEW w, NEW q \in Requests, MayCall(w, q)
    PROVE  /\ GetMcdNode(q) \in Node
           /\ CellOf(q) \in Cells
           /\ q.op \in Counting => q.v \in Nat /\ Atoi(q.v) = q.v
<1>1. /\ Servers[q.us] \in Seq(Node) /\ Len(Servers[q.us]) \in Nat /\ Len(Servers[q.us]) > 0
      /\ Hash[q.hkey] \in Nat
  BY ServersAssumption, HashAssumption DEF MayCall
<1>2. (Hash[q.hkey] % Len(Servers[q.us])) + 1 \in 1 .. Len(Servers[q.us])
  BY <1>1
<1>3. GetMcdNode(q) \in Node
  BY <1>1, <1>2 DEF GetMcdNode
<1>4. q.key \in Key
  BY RequestFacts DEF MayCall
<1>5. CellOf(q) \in Cells
  BY <1>3, <1>4 DEF CellOf, Cells
<1>6. QED
  BY <1>3, <1>5, AtoiType DEF MayCall

\* What memcached answers to a command.
LEMMA ReplyFacts ==
    ASSUME NEW op \in Ops, NEW s \in String \cup {None}, NEW v \in String,
           op \in Counting => v \in Nat
    PROVE  /\ Reply(op, s, v).rc \in {"SUCCESS", "NOTFOUND", "NOTSTORED", "other"}
           /\ Reply(op, s, v).new \in String \cup {None}
           /\ Reply(op, s, v).hit \in {0, 1}
           /\ Reply(op, s, v).rc # "SUCCESS" => Reply(op, s, v).hit = 0 /\ Reply(op, s, v).new = s
           /\ Reply(op, s, v).rc = "SUCCESS" /\ op # "get" => Reply(op, s, v).hit = 1
           /\ op = "get" => Reply(op, s, v).hit = 0 /\ Reply(op, s, v).new = s
           /\ op \in Reading \cup Counting /\ Reply(op, s, v).rc = "SUCCESS" => s # None
           /\ op \in Counting /\ Reply(op, s, v).rc = "SUCCESS" => Reply(op, s, v).new \in Nat
           /\ op = "incr" /\ Reply(op, s, v).rc = "SUCCESS" =>
                 s \in Nat /\ Reply(op, s, v).new = s + v
           /\ op = "add" /\ Reply(op, s, v).rc = "SUCCESS" => s = None /\ Reply(op, s, v).new = v
<1>1. CASE op = "get"
  BY <1>1 DEF Reply, Reading, Counting, Storing
<1>2. CASE op = "set"
  BY <1>2 DEF Reply, Reading, Counting, Storing
<1>3. CASE op = "add"
  BY <1>3 DEF Reply, Reading, Counting, Storing
<1>4. CASE op = "delete"
  BY <1>4 DEF Reply, Reading, Counting, Storing
<1>5. CASE op = "incr"
  BY <1>5, StringAssumption DEF Reply, Reading, Counting, Storing, String
<1>6. CASE op = "decr"
  BY <1>6, StringAssumption DEF Reply, Reading, Counting, Storing, String
<1>7. QED
  BY <1>1, <1>2, <1>3, <1>4, <1>5, <1>6 DEF Ops, Reading, Counting, Storing

\* What a call may do to the server and to the count of its changes.
CallOK(w, op, c, v, rc) ==
    /\ store' \in [Cells -> String \cup {None}]
    /\ effects' \in [Worker -> Nat]
    /\ \A u \in Worker : u # w => effects'[u] = effects[u]
    /\ \A d \in Cells : d # c => store'[d] = store[d]
    /\ rc \in McReturns
    /\ rc \in {"NOTFOUND", "NOTSTORED", "refused"} \/ op = "get" =>
          effects'[w] = effects[w] /\ store'[c] = store[c]
    /\ rc = "SUCCESS" => Reply(op, store[c], v).rc = "SUCCESS"
                         /\ store'[c] = Reply(op, store[c], v).new
    /\ rc = "SUCCESS" /\ op # "get" => effects'[w] = effects[w] + 1
    /\ \/ store'[c] = store[c]
       \/ store'[c] = Reply(op, store[c], v).new /\ Reply(op, store[c], v).rc = "SUCCESS"

\* What a memcached call does to the server and to the history.
LEMMA CallIsOK ==
    ASSUME NEW w \in Worker, NEW op \in Ops, NEW c \in Cells, NEW v \in String, NEW rc,
           op \in Counting => v \in Nat,
           store \in [Cells -> String \cup {None}], effects \in [Worker -> Nat],
           Call(w, op, c, v, rc)
    PROVE  CallOK(w, op, c, v, rc)
<1>0. store[c] \in String \cup {None} /\ effects[w] \in Nat
  OBVIOUS
<1> DEFINE reply == Reply(op, store[c], v)
<1>1. /\ reply.rc \in {"SUCCESS", "NOTFOUND", "NOTSTORED", "other"}
      /\ reply.new \in String \cup {None}
      /\ reply.hit \in {0, 1}
      /\ reply.rc # "SUCCESS" => reply.hit = 0 /\ reply.new = store[c]
      /\ reply.rc = "SUCCESS" /\ op # "get" => reply.hit = 1
      /\ op = "get" => reply.hit = 0 /\ reply.new = store[c]
  BY <1>0, ReplyFacts
<1>2. CASE /\ rc = reply.rc \/ (rc = "other" /\ "answer" \in Losses)
           /\ store' = [store EXCEPT ![c] = reply.new]
           /\ effects' = [effects EXCEPT ![w] = @ + reply.hit]
  <2> HIDE DEF reply
  <2>1. store'[c] = reply.new /\ effects'[w] = effects[w] + reply.hit
    BY <1>2
  <2>2. store' \in [Cells -> String \cup {None}] /\ effects' \in [Worker -> Nat]
    BY <1>0, <1>1, <1>2
  <2>3. /\ \A u \in Worker : u # w => effects'[u] = effects[u]
        /\ \A d \in Cells : d # c => store'[d] = store[d]
    BY <1>2
  <2>4. QED
    BY <1>0, <1>1, <1>2, <2>1, <2>2, <2>3 DEF McReturns, reply, CallOK
<1>3. CASE (rc = "refused" \/ rc = "other") /\ UNCHANGED <<store, effects>>
  BY <1>3 DEF McReturns, CallOK
<1>4. QED
  BY <1>2, <1>3 DEF Call

\* The same, spelled out.
LEMMA CallFacts ==
    ASSUME NEW w \in Worker, NEW op \in Ops, NEW c \in Cells, NEW v \in String, NEW rc,
           op \in Counting => v \in Nat,
           store \in [Cells -> String \cup {None}], effects \in [Worker -> Nat],
           Call(w, op, c, v, rc)
    PROVE  /\ store' \in [Cells -> String \cup {None}]
           /\ effects' \in [Worker -> Nat]
           /\ \A u \in Worker : u # w => effects'[u] = effects[u]
           /\ \A d \in Cells : d # c => store'[d] = store[d]
           /\ rc \in McReturns
           /\ rc \in {"NOTFOUND", "NOTSTORED", "refused"} \/ op = "get" =>
                 effects'[w] = effects[w] /\ store'[c] = store[c]
           /\ rc = "SUCCESS" => Reply(op, store[c], v).rc = "SUCCESS"
                                /\ store'[c] = Reply(op, store[c], v).new
           /\ rc = "SUCCESS" /\ op # "get" => effects'[w] = effects[w] + 1
           /\ \/ store'[c] = store[c]
              \/ store'[c] = Reply(op, store[c], v).new /\ Reply(op, store[c], v).rc = "SUCCESS"
BY CallIsOK DEF CallOK

\* What a statement's set codes need on the stack.
Pushed(q, rc, v) ==
    (IF q.rcidx THEN <<[rc |-> rc]>> ELSE <<>>) \o (IF HasValue(q) THEN <<[val |-> v]>> ELSE <<>>)

\* The op code of w returns rc and v, and has pushed what the set codes need.
Returns(w, rc, v) == Return(w, Pushed(req[w], rc, v), rc, v)

\* Both returns of the getter push what its set codes need.
LEMMA GetterReturns ==
    ASSUME NEW w, req[w].op \in Reading, NEW rc, NEW v
    PROVE  /\ GetterSuccess(w, v) => Returns(w, "SUCCESS", v)
           /\ GetterError(w, rc, v) => Returns(w, rc, IF rc = "NOTFOUND" THEN v ELSE Empty)
<1>1. HasValue(req[w])
  BY DEF HasValue
<1>2. \A r, x : Pushed(req[w], r, x) = RcPush(w, r) \o <<[val |-> x]>>
  BY <1>1 DEF Pushed, RcPush
<1>3. QED
  BY <1>2, Zenon DEF GetterSuccess, GetterError, Returns

\* A setter without a value pushes only the return code.
LEMMA StoreReturns ==
    ASSUME NEW w, req[w].op \in Storing, StoreSuccess(w)
    PROVE  Returns(w, "SUCCESS", Empty)
<1>1. ~HasValue(req[w])
  BY DEF HasValue, Reading, Counting, Storing
<1>2. RcPush(w, "SUCCESS") \o <<>> = RcPush(w, "SUCCESS")
  <2>1. <<[rc |-> "SUCCESS"]>> \o <<>> = <<[rc |-> "SUCCESS"]>> /\ <<>> \o <<>> = <<>>
    OBVIOUS
  <2>2. QED
    BY <2>1 DEF RcPush
<1>3. Pushed(req[w], "SUCCESS", Empty) = RcPush(w, "SUCCESS") \o <<>>
  BY <1>1 DEF Pushed, RcPush
<1>4. QED
  BY <1>2, <1>3, Zenon DEF StoreSuccess, Returns

\* rv2_push_str pushes what the set codes of incr and decr need.
LEMMA PushStrReturns ==
    ASSUME NEW w, req[w].op \in Counting, NEW rc, NEW v, PushStr(w, rc, v)
    PROVE  Returns(w, rc, v)
<1>1. Pushed(req[w], rc, v) = RcPush(w, rc) \o <<[val |-> v]>>
  BY DEF Pushed, RcPush, HasValue
<1>2. QED
  BY <1>1, Zenon DEF PushStr, Returns

\* error_return of the setter pushes what the set codes need.
LEMMA SetterErrorReturns ==
    ASSUME NEW w, NEW rc, SetterError(w, rc)
    PROVE  Returns(w, rc, IF rc = "NOTSTORED" THEN Default ELSE Empty)
BY Zenon DEF SetterError, RcPush, Pushed, Returns

\* What an op code's return does.
LEMMA ReturnFacts ==
    ASSUME TypeOK, NEW w \in Worker, NEW rc \in ReturnCodes, NEW v \in Value, Returns(w, rc, v)
    PROVE  /\ stack' \in [Worker -> Seq(Item)]
           /\ phase' \in [Worker -> {"down", "idle", "run", "add", "set"}]
           /\ answer' \in [Worker -> [rc : ReturnCodes, v : Value] \cup {Unset}]
           /\ phase'[w] = "set"
           /\ answer'[w] = [rc |-> rc, v |-> v]
           /\ stack'[w] = stack[w] \o Pushed(req[w], rc, v)
           /\ \A u \in Worker : u # w => /\ phase'[u] = phase[u]
                                         /\ answer'[u] = answer[u]
                                         /\ stack'[u] = stack[u]
           /\ UNCHANGED <<mem, mc, req, todo, valVar, rcVar>>
<1>1. [rc |-> rc] \in Item /\ [val |-> v] \in Item
  BY DEF Item
<1>2. Pushed(req[w], rc, v) \in Seq(Item)
  <2>1. \A x, y \in Seq(Item) : x \o y \in Seq(Item)
    OBVIOUS
  <2>2. <<[rc |-> rc]>> \in Seq(Item) /\ <<[val |-> v]>> \in Seq(Item) /\ <<>> \in Seq(Item)
    BY <1>1
  <2>3. QED
    BY <2>1, <2>2 DEF Pushed
<1>3. stack[w] \o Pushed(req[w], rc, v) \in Seq(Item)
  BY <1>2 DEF TypeOK
<1>4. [rc |-> rc, v |-> v] \in [rc : ReturnCodes, v : Value]
  OBVIOUS
<1>5. QED
  BY <1>3, <1>4 DEF Returns, Return, TypeOK

-----------------------------------------------------------------------------
(* The invariant: what holds of a worker at each phase of its statement    *)

\* How far the set codes have come.
StackOK(w) ==
    \/ todo[w] = SetCodes(req[w]) /\ stack[w] = Pushed(req[w], answer[w].rc, answer[w].v)
    \/ /\ HasValue(req[w]) /\ req[w].rcidx
       /\ todo[w] = <<"rc">> /\ stack[w] = <<[rc |-> answer[w].rc]>>
       /\ valVar[w] = [val |-> answer[w].v]
    \/ /\ todo[w] = <<>> /\ stack[w] = <<>>
       /\ HasValue(req[w]) => valVar[w] = [val |-> answer[w].v]
       /\ req[w].rcidx => rcVar[w] = [rc |-> answer[w].rc]

\* ReturnCodeIsHonest, of one worker.
Honest(w) ==
    /\ answer[w].rc \in NoEffect \/ req[w].op = "get" => effects[w] = 0
    /\ answer[w].rc = "SUCCESS" /\ req[w].op # "get" =>
           effects[w] = 1 \/ mc[w][GetMcdNode(req[w])] = "NULL"

WorkerOK(w) ==
    /\ phase[w] # "set" => effects[w] = 0 /\ stack[w] = <<>>
    /\ phase[w] \in {"run", "add"} => todo[w] = SetCodes(req[w])
    /\ phase[w] = "add" => req[w].op \in Counting /\ MayCall(w, req[w])
    /\ phase[w] = "set" =>
           answer[w] \in [rc : ReturnCodes, v : Value] /\ Honest(w) /\ StackOK(w)

IInv == TypeOK /\ \A w \in Worker : WorkerOK(w)

\* Nothing of worker w changes.
Same(w) ==
    /\ phase'[w] = phase[w] /\ mc'[w] = mc[w] /\ req'[w] = req[w]
    /\ stack'[w] = stack[w] /\ todo'[w] = todo[w]
    /\ valVar'[w] = valVar[w] /\ rcVar'[w] = rcVar[w]
    /\ answer'[w] = answer[w] /\ effects'[w] = effects[w]

\* A worker that does not move keeps its part of the invariant.
LEMMA SameKeeps ==
    ASSUME NEW w, WorkerOK(w), Same(w)
    PROVE  WorkerOK(w)'
BY DEF WorkerOK, Same, StackOK, Honest, MayCall

\* Only worker w moved, and it moved well.
Moved(w) == TypeOK' /\ WorkerOK(w)' /\ \A u \in Worker : u # w => Same(u)

\* When one worker moves to a state that satisfies the invariant, the whole does.
LEMMA MovedKeeps ==
    ASSUME IInv, NEW w \in Worker, Moved(w)
    PROVE  IInv'
BY SameKeeps DEF IInv, Moved

\* An op code that returns leaves a worker in order.
LEMMA ReturnMoves ==
    ASSUME IInv, NEW w \in Worker, NEW rc \in ReturnCodes, NEW v \in Value,
           phase[w] \in {"run", "add"},
           Returns(w, rc, v),
           store' \in [Cells -> String \cup {None}], effects' \in [Worker -> Nat],
           given' \in [Cells -> Seq(Int)], acked' \in [Cells -> Int],
           \A u \in Worker : u # w => effects'[u] = effects[u],
           rc \in NoEffect \/ req[w].op = "get" => effects'[w] = 0,
           rc = "SUCCESS" /\ req[w].op # "get" =>
               effects'[w] = 1 \/ mc[w][GetMcdNode(req[w])] = "NULL"
    PROVE  Moved(w)
<1>0. TypeOK /\ WorkerOK(w)
  BY DEF IInv
<1>1. /\ stack' \in [Worker -> Seq(Item)]
      /\ phase' \in [Worker -> {"down", "idle", "run", "add", "set"}]
      /\ answer' \in [Worker -> [rc : ReturnCodes, v : Value] \cup {Unset}]
      /\ phase'[w] = "set"
      /\ answer'[w] = [rc |-> rc, v |-> v]
      /\ stack'[w] = stack[w] \o Pushed(req[w], rc, v)
      /\ \A u \in Worker : u # w => /\ phase'[u] = phase[u]
                                    /\ answer'[u] = answer[u]
                                    /\ stack'[u] = stack[u]
      /\ UNCHANGED <<mem, mc, req, todo, valVar, rcVar>>
  BY <1>0, ReturnFacts
<1>2. TypeOK'
  BY <1>0, <1>1 DEF TypeOK
<1>3. Honest(w)'
  BY <1>1 DEF Honest
<1>4. stack'[w] = Pushed(req[w], rc, v)
  <2>1. stack[w] = <<>> /\ Pushed(req[w], rc, v) \in Seq(Item)
    <3>1. [rc |-> rc] \in Item /\ [val |-> v] \in Item
      BY DEF Item
    <3>2. <<[rc |-> rc]>> \in Seq(Item) /\ <<[val |-> v]>> \in Seq(Item) /\ <<>> \in Seq(Item)
      BY <3>1
    <3>3. \A x, y \in Seq(Item) : x \o y \in Seq(Item)
      OBVIOUS
    <3>4. QED
      BY <1>0, <3>2, <3>3 DEF WorkerOK, Pushed
  <2>2. QED
    BY <1>1, <2>1
<1>5. StackOK(w)'
  <2>1. todo[w] = SetCodes(req[w])
    BY <1>0 DEF WorkerOK
  <2>2. answer'[w].rc = rc /\ answer'[w].v = v /\ req' = req /\ todo' = todo
    BY <1>1
  <2>3. todo'[w] = SetCodes(req'[w]) /\ stack'[w] = Pushed(req'[w], answer'[w].rc, answer'[w].v)
    BY ONLY <1>4, <2>1, <2>2
  <2>4. QED
    BY <2>3, Zenon DEF StackOK
<1>6. WorkerOK(w)'
  <2>1. phase'[w] = "set" /\ answer'[w] \in [rc : ReturnCodes, v : Value]
    BY <1>1
  <2>2. QED
    BY ONLY <1>3, <1>5, <2>1 DEF WorkerOK
<1>7. QED
  BY <1>1, <1>2, <1>6 DEF Moved, Same

-----------------------------------------------------------------------------
(* The steps of a worker                                                   *)

\* Every worker has its part of the state.
LEMMA Domains ==
    ASSUME TypeOK
    PROVE  /\ DOMAIN phase = Worker /\ DOMAIN mc = Worker /\ DOMAIN req = Worker
           /\ DOMAIN stack = Worker /\ DOMAIN todo = Worker
           /\ DOMAIN valVar = Worker /\ DOMAIN rcVar = Worker
           /\ DOMAIN answer = Worker /\ DOMAIN effects = Worker
BY DEF TypeOK

\* init_proc moves one worker as the invariant allows.
LEMMA InitProcMoves ==
    ASSUME IInv, NEW w \in Worker, InitProc(w)
    PROVE  Moved(w)
<1>1. PICK h \in [Node -> {"handle", "NULL", "garbage"}] : mc' = [mc EXCEPT ![w] = h]
  BY DEF InitProc
<1>2. TypeOK'
  BY <1>1 DEF IInv, TypeOK, InitProc, workerVars, history
<1>3. WorkerOK(w)'
  BY DEF IInv, TypeOK, WorkerOK, InitProc, workerVars, history
<1>4. TypeOK /\ UNCHANGED <<req, stack, todo, valVar, rcVar, answer, effects>>
      /\ phase' = [phase EXCEPT ![w] = "idle"]
  BY DEF IInv, InitProc, workerVars, history
<1>5. \A u \in Worker : u # w => Same(u)
  BY <1>1, <1>4, Domains DEF Same
<1>6. QED
  BY <1>2, <1>3, <1>5 DEF Moved

\* The set codes of a statement.
LEMMA SetCodesType == \A q : SetCodes(q) \in Seq({"val", "rc"})
<1>1. \A x, y \in Seq({"val", "rc"}) : x \o y \in Seq({"val", "rc"})
  OBVIOUS
<1>2. <<"val">> \in Seq({"val", "rc"}) /\ <<"rc">> \in Seq({"val", "rc"}) /\ <<>> \in Seq({"val", "rc"})
  OBVIOUS
<1>3. QED
  BY <1>1, <1>2 DEF SetCodes

\* The first code of a statement moves one worker as the invariant allows.
LEMMA BeginMoves ==
    ASSUME IInv, NEW w \in Worker, NEW q \in Requests, Begin(w, q)
    PROVE  Moved(w)
<1>1. SetCodes(q) \in Seq({"val", "rc"})
  BY SetCodesType
<1>2. /\ TypeOK /\ WorkerOK(w)
      /\ req' = [req EXCEPT ![w] = q] /\ todo' = [todo EXCEPT ![w] = SetCodes(q)]
      /\ phase' = [phase EXCEPT ![w] = "run"] /\ phase[w] = "idle"
      /\ UNCHANGED <<mem, store, mc, stack, valVar, rcVar, answer, effects, given, acked>>
  BY DEF IInv, Begin, history
<1>3. TypeOK'
  BY <1>1, <1>2 DEF TypeOK
<1>4. WorkerOK(w)'
  BY <1>2 DEF TypeOK, WorkerOK
<1>5. \A u \in Worker : u # w => Same(u)
  BY <1>2, Domains DEF Same
<1>6. QED
  BY <1>3, <1>4, <1>5 DEF Moved

\* A refused statement has a return code other than SUCCESS, or no server.
LEMMA RefusalCodes ==
    ASSUME NEW w, NEW q, NEW rc \in Refusals(w, q)
    PROVE  /\ rc \in ReturnCodes
           /\ rc \in NoEffect \cup {"SUCCESS", "INTERNAL"}
           /\ rc = "SUCCESS" => mc[w][GetMcdNode(q)] = "NULL"
BY DEF Refusals, ReturnCodes, NoEffect

\* An early return moves one worker as the invariant allows.
LEMMA RefuseMoves ==
    ASSUME IInv, NEW w \in Worker, Refuse(w)
    PROVE  Moved(w)
<1>1. PICK rc \in Refusals(w, req[w]) :
        IF req[w].op \in Reading THEN GetterError(w, rc, Default) ELSE SetterError(w, rc)
  BY DEF Refuse
<1>2. /\ TypeOK /\ WorkerOK(w) /\ phase[w] = "run"
      /\ UNCHANGED <<store, effects, given, acked>>
  BY DEF IInv, Refuse
<1>3. effects'[w] = 0
  BY <1>2 DEF WorkerOK
<1>4. Empty \in Value
  BY DEF Value, String
<1>5. /\ rc \in ReturnCodes
      /\ rc = "SUCCESS" => mc[w][GetMcdNode(req[w])] = "NULL"
  BY RefusalCodes
<1>6. PICK v \in Value : Returns(w, rc, v)
  <2>1. Default \in Value
    BY DefaultAssumption DEF Value
  <2>2. CASE req[w].op \in Reading
    BY <1>1, <1>4, <2>1, <2>2, GetterReturns
  <2>3. CASE req[w].op \notin Reading
    BY <1>1, <1>4, <2>1, <2>3, SetterErrorReturns
  <2>4. QED
    BY <2>2, <2>3
<1>7. QED
  BY <1>2, <1>3, <1>5, <1>6, ReturnMoves DEF TypeOK

\* The getter without a connection moves one worker as the invariant allows.
LEMMA CrashMoves ==
    ASSUME IInv, NEW w \in Worker, Crash(w)
    PROVE  Moved(w)
<1>1. /\ TypeOK /\ WorkerOK(w) /\ phase[w] = "run"
      /\ phase' = [phase EXCEPT ![w] = "down"] /\ mc' = [mc EXCEPT ![w] = mem]
      /\ stack' = [stack EXCEPT ![w] = <<>>] /\ todo' = [todo EXCEPT ![w] = <<>>]
      /\ UNCHANGED <<mem, store, req, valVar, rcVar, answer, effects, given, acked>>
  BY DEF IInv, Crash, history
<1>2. mem \in [Node -> {"handle", "NULL", "garbage"}]
  BY <1>1 DEF TypeOK
<1>3. TypeOK'
  BY <1>1, <1>2 DEF TypeOK
<1>4. WorkerOK(w)'
  BY <1>1 DEF TypeOK, WorkerOK
<1>5. \A u \in Worker : u # w => Same(u)
  BY <1>1, Domains DEF Same
<1>6. QED
  BY <1>3, <1>4, <1>5 DEF Moved

\* The getter moves one worker as the invariant allows.
LEMMA GetMoves ==
    ASSUME IInv, NEW w \in Worker, Get(w)
    PROVE  Moved(w)
<1> DEFINE c == CellOf(req[w])
<1>1. /\ TypeOK /\ WorkerOK(w) /\ phase[w] = "run" /\ req[w].op = "get"
      /\ MayCall(w, req[w]) /\ UNCHANGED <<given, acked>>
      /\ effects[w] = 0
  BY DEF IInv, Get, Connected, WorkerOK
<1>2. c \in Cells /\ store[c] \in String \cup {None}
  BY <1>1, CellFacts DEF TypeOK
<1>3. PICK rc \in McReturns, ok \in Alloc :
        /\ Call(w, "get", c, Empty, rc)
        /\ CASE rc = "SUCCESS" /\ ok -> GetterSuccess(w, store[c])
             [] rc = "SUCCESS" /\ ~ok -> GetterError(w, "INTERNAL", Default)
             [] rc = "NOTFOUND" -> GetterError(w, "NOTFOUND", IF ok THEN Default ELSE Garbage)
             [] rc = "refused" -> GetterError(w, "CONNECTION", Default)
             [] OTHER -> GetterError(w, "ERROR", Default)
  BY DEF Get
<1>4. "get" \in Ops /\ "get" \notin Counting /\ Empty \in String
  BY DEF Ops, Reading, Counting, String
<1> HIDE DEF c
<1>5. /\ store' \in [Cells -> String \cup {None}] /\ effects' \in [Worker -> Nat]
      /\ \A u \in Worker : u # w => effects'[u] = effects[u]
      /\ effects'[w] = effects[w]
      /\ rc = "SUCCESS" => Reply("get", store[c], Empty).rc = "SUCCESS"
  <2>1. store \in [Cells -> String \cup {None}] /\ effects \in [Worker -> Nat]
    BY <1>1 DEF TypeOK
  <2>2. CallOK(w, "get", c, Empty, rc)
    BY <1>2, <1>3, <1>4, <2>1, CallIsOK
  <2>3. QED
    BY ONLY <2>2 DEF CallOK
<1>6. rc = "SUCCESS" => store[c] \in Value
  BY <1>2, <1>4, <1>5, ReplyFacts DEF Value, Reading
<1>7. /\ Default \in Value /\ Garbage \in Value /\ Empty \in Value
      /\ {"SUCCESS", "INTERNAL", "NOTFOUND", "CONNECTION", "ERROR"} \subseteq ReturnCodes
  BY DefaultAssumption DEF Value, String, ReturnCodes
<1>8. PICK r \in ReturnCodes, v \in Value : Returns(w, r, v)
  <2>1. \/ GetterSuccess(w, store[c]) /\ rc = "SUCCESS"
        \/ \E r \in {"INTERNAL", "NOTFOUND", "CONNECTION", "ERROR"}, v \in {Default, Garbage} :
              GetterError(w, r, v)
    BY <1>3
  <2>2. req[w].op \in Reading
    BY <1>1 DEF Reading
  <2>3. CASE GetterSuccess(w, store[c]) /\ rc = "SUCCESS"
    BY <1>6, <1>7, <2>2, <2>3, GetterReturns
  <2>4. ASSUME NEW r \in {"INTERNAL", "NOTFOUND", "CONNECTION", "ERROR"},
               NEW v \in {Default, Garbage}, GetterError(w, r, v)
        PROVE  \E x \in Value : Returns(w, r, x)
    BY <1>7, <2>2, <2>4, GetterReturns
  <2>5. QED
    BY <1>7, <2>1, <2>3, <2>4
<1>9. QED
  BY <1>1, <1>5, <1>8, ReturnMoves DEF TypeOK

\* set, add and the like move one worker as the invariant allows.
LEMMA StoreMoves ==
    ASSUME IInv, NEW w \in Worker, Store(w)
    PROVE  Moved(w)
<1> DEFINE c == CellOf(req[w])
<1>1. /\ TypeOK /\ WorkerOK(w) /\ phase[w] = "run" /\ req[w].op \in Storing
      /\ MayCall(w, req[w]) /\ UNCHANGED <<given, acked>>
      /\ effects[w] = 0
  BY DEF IInv, Store, Connected, WorkerOK
<1>2. c \in Cells /\ req[w].v \in String
  BY <1>1, CellFacts, RequestFacts DEF TypeOK
<1>3. PICK rc \in McReturns :
        /\ Call(w, req[w].op, c, req[w].v, rc)
        /\ CASE rc = "SUCCESS" -> StoreSuccess(w)
             [] rc = "NOTSTORED" -> SetterError(w, "NOTSTORED")
             [] rc = "refused" -> SetterError(w, "CONNECTION")
             [] OTHER -> SetterError(w, "ERROR")
  BY DEF Store
<1>4. req[w].op \in Ops /\ req[w].op \notin Counting /\ req[w].op # "get"
  BY <1>1 DEF Ops, Counting, Storing
<1> HIDE DEF c
<1>5. /\ store' \in [Cells -> String \cup {None}] /\ effects' \in [Worker -> Nat]
      /\ \A u \in Worker : u # w => effects'[u] = effects[u]
      /\ rc \in {"NOTSTORED", "refused"} => effects'[w] = effects[w]
      /\ rc = "SUCCESS" => effects'[w] = effects[w] + 1
  <2>1. store \in [Cells -> String \cup {None}] /\ effects \in [Worker -> Nat]
    BY <1>1 DEF TypeOK
  <2>2. CallOK(w, req[w].op, c, req[w].v, rc)
    BY <1>1, <1>2, <1>3, <1>4, <2>1, CallIsOK
  <2>3. QED
    BY <1>4, <2>2 DEF CallOK
<1>6. /\ Empty \in Value /\ Default \in Value
      /\ {"SUCCESS", "NOTSTORED", "CONNECTION", "ERROR"} \subseteq ReturnCodes
      /\ "ERROR" \notin NoEffect /\ "SUCCESS" \notin NoEffect
  BY DefaultAssumption DEF Value, String, ReturnCodes, NoEffect
<1>7. PICK r \in {"SUCCESS", "NOTSTORED", "CONNECTION", "ERROR"}, v \in Value :
        /\ Returns(w, r, v)
        /\ r = "SUCCESS" => rc = "SUCCESS"
        /\ r \in {"NOTSTORED", "CONNECTION"} => rc \in {"NOTSTORED", "refused"}
  <2>1. CASE rc = "SUCCESS"
    BY <1>1, <1>3, <1>6, <2>1, StoreReturns
  <2>2. CASE rc # "SUCCESS"
    <3>1. PICK r \in {"NOTSTORED", "CONNECTION", "ERROR"} :
            /\ SetterError(w, r)
            /\ r \in {"NOTSTORED", "CONNECTION"} => rc \in {"NOTSTORED", "refused"}
      BY <1>3, <2>2
    <3>2. Returns(w, r, IF r = "NOTSTORED" THEN Default ELSE Empty)
      BY <3>1, SetterErrorReturns
    <3>3. QED
      BY <1>6, <3>1, <3>2
  <2>3. QED
    BY <2>1, <2>2
<1>8. /\ r \in NoEffect => effects'[w] = 0
      /\ r = "SUCCESS" => effects'[w] = 1
  <2>1. /\ rc \in {"NOTSTORED", "refused"} => effects'[w] = 0
        /\ rc = "SUCCESS" => effects'[w] = 1
    <3>1. effects[w] = 0
      BY <1>1
    <3>2. QED
      BY ONLY <1>5, <3>1
  <2>2. r \in NoEffect => r \in {"NOTSTORED", "CONNECTION"}
    <3>1. r \in {"SUCCESS", "NOTSTORED", "CONNECTION", "ERROR"}
      BY <1>7
    <3>2. QED
      BY ONLY <1>6, <3>1
  <2>3. /\ r = "SUCCESS" => rc = "SUCCESS"
        /\ r \in {"NOTSTORED", "CONNECTION"} => rc \in {"NOTSTORED", "refused"}
    BY <1>7
  <2>4. QED
    BY ONLY <2>1, <2>2, <2>3
<1>9. r \in ReturnCodes /\ (r \in NoEffect \/ req[w].op = "get" => effects'[w] = 0)
  BY <1>4, <1>6, <1>7, <1>8
<1>10. given' \in [Cells -> Seq(Int)] /\ acked' \in [Cells -> Int]
  BY <1>1 DEF TypeOK
<1>11. QED
  BY <1>1, <1>5, <1>6, <1>7, <1>8, <1>9, <1>10, ReturnMoves

\* A ticket has its type.
LEMMA TicketType ==
    ASSUME TypeOK, NEW w \in Worker, NEW v \in Int, MayCall(w, req[w]), Ticket(w, v)
    PROVE  given' \in [Cells -> Seq(Int)] /\ acked' \in [Cells -> Int]
<1>1. CellOf(req[w]) \in Cells /\ Atoi(req[w].v) \in Int
  BY CellFacts, AtoiType DEF TypeOK
<1>2. CASE req[w].op = "incr"
  <2>1. Append(given[CellOf(req[w])], v) \in Seq(Int)
    BY <1>1 DEF TypeOK
  <2>2. acked[CellOf(req[w])] + Atoi(req[w].v) \in Int
    BY <1>1 DEF TypeOK
  <2>3. /\ given' = [given EXCEPT ![CellOf(req[w])] = Append(given[CellOf(req[w])], v)]
        /\ acked' = [acked EXCEPT ![CellOf(req[w])] = acked[CellOf(req[w])] + Atoi(req[w].v)]
    BY <1>2 DEF Ticket
  <2>4. given \in [Cells -> Seq(Int)] /\ acked \in [Cells -> Int]
    BY DEF TypeOK
  <2>5. QED
    BY <1>1, <2>1, <2>2, <2>3, <2>4
<1>3. CASE req[w].op # "incr"
  BY <1>3 DEF Ticket, TypeOK
<1>4. QED
  BY <1>2, <1>3

\* incr and decr move one worker as the invariant allows.
LEMMA CountMoves ==
    ASSUME IInv, NEW w \in Worker, Count(w)
    PROVE  Moved(w)
<1> DEFINE c == CellOf(req[w])
           d == Offset(req[w])
           new == FormatInt(Reply(req[w].op, store[c], d).new)
<1>1. /\ TypeOK /\ WorkerOK(w) /\ phase[w] = "run" /\ req[w].op \in Counting
      /\ MayCall(w, req[w]) /\ effects[w] = 0
  BY DEF IInv, Count, Connected, WorkerOK
<1>2. c \in Cells /\ d \in Nat /\ d \in String /\ req[w].op \in Ops /\ req[w].op # "get"
  BY <1>1, CellFacts, OffsetType DEF TypeOK, Ops, String, Counting
<1>3. PICK rc \in McReturns, ok \in Alloc :
        /\ Call(w, req[w].op, c, d, rc)
        /\ \/ /\ rc = "SUCCESS" /\ ok
              /\ PushStr(w, "SUCCESS", new)
              /\ Ticket(w, new)
           \/ /\ rc = "NOTFOUND" /\ ok
              /\ phase' = [phase EXCEPT ![w] = "add"]
              /\ UNCHANGED <<mem, mc, req, workerVars, answer, given, acked>>
           \/ /\ rc \in {"SUCCESS", "NOTFOUND"} /\ ~ok
              /\ SetterError(w, "INTERNAL")
              /\ UNCHANGED <<given, acked>>
           \/ /\ rc \notin {"SUCCESS", "NOTFOUND"}
              /\ SetterError(w, IF rc = "refused" THEN "CONNECTION" ELSE "ERROR")
              /\ UNCHANGED <<given, acked>>
  BY DEF Count
<1> HIDE DEF c, d, new
<1>4. /\ store' \in [Cells -> String \cup {None}] /\ effects' \in [Worker -> Nat]
      /\ \A u \in Worker : u # w => effects'[u] = effects[u]
      /\ rc \in {"NOTFOUND", "NOTSTORED", "refused"} => effects'[w] = 0
      /\ rc = "SUCCESS" => effects'[w] = 1 /\ Reply(req[w].op, store[c], d).rc = "SUCCESS"
  <2>1. Call(w, req[w].op, c, d, rc)
    BY <1>3
  <2>2. store \in [Cells -> String \cup {None}] /\ effects \in [Worker -> Nat]
    BY <1>1 DEF TypeOK
  <2>3. /\ req[w].op \in Ops /\ req[w].op # "get" /\ d \in String /\ d \in Nat /\ c \in Cells
        /\ effects[w] = 0
    BY <1>1, <1>2
  <2>4. CallOK(w, req[w].op, c, d, rc)
    BY <2>1, <2>2, <2>3, CallIsOK
  <2>5. /\ store' \in [Cells -> String \cup {None}] /\ effects' \in [Worker -> Nat]
        /\ \A u \in Worker : u # w => effects'[u] = effects[u]
    BY ONLY <2>4 DEF CallOK
  <2>6. rc \in {"NOTFOUND", "NOTSTORED", "refused"} => effects'[w] = effects[w]
    BY ONLY <2>4 DEF CallOK
  <2>7. /\ rc = "SUCCESS" => Reply(req[w].op, store[c], d).rc = "SUCCESS"
        /\ rc = "SUCCESS" /\ req[w].op # "get" => effects'[w] = effects[w] + 1
    BY ONLY <2>4 DEF CallOK
  <2>8. req[w].op # "get" /\ effects[w] = 0
    BY ONLY <2>3
  <2>9. QED
    BY ONLY <2>5, <2>6, <2>7, <2>8
<1>5. /\ Empty \in Value
      /\ {"SUCCESS", "INTERNAL", "CONNECTION", "ERROR"} \subseteq ReturnCodes
      /\ NoEffect \cap {"SUCCESS", "INTERNAL", "ERROR"} = {}
  BY DEF Value, String, ReturnCodes, NoEffect
<1>6. CASE rc = "SUCCESS" /\ PushStr(w, "SUCCESS", new) /\ Ticket(w, new)
  <2>1. store[c] \in String \cup {None}
    BY <1>1, <1>2 DEF TypeOK
  <2>2. Reply(req[w].op, store[c], d).new \in Nat
    BY <1>1, <1>2, <1>4, <1>6, <2>1, ReplyFacts
  <2>3. new \in Int /\ new \in Value
    BY <2>2, FormatIntType DEF new, Value, String
  <2>4. given' \in [Cells -> Seq(Int)] /\ acked' \in [Cells -> Int]
    BY <1>1, <1>6, <2>3, TicketType
  <2>5. Returns(w, "SUCCESS", new)
    BY <1>1, <1>6, PushStrReturns
  <2>6. QED
    BY <1>1, <1>2, <1>4, <1>5, <1>6, <2>3, <2>4, <2>5, ReturnMoves
<1>7. CASE /\ rc = "NOTFOUND"
           /\ phase' = [phase EXCEPT ![w] = "add"]
           /\ UNCHANGED <<mem, mc, req, workerVars, answer, given, acked>>
  <2>1. TypeOK'
    BY <1>1, <1>4, <1>7 DEF TypeOK, workerVars
  <2>2. phase'[w] = "add" /\ effects'[w] = 0 /\ stack'[w] = <<>> /\ todo'[w] = SetCodes(req'[w])
    BY <1>1, <1>4, <1>7 DEF TypeOK, WorkerOK, workerVars
  <2>3. req'[w].op \in Counting /\ MayCall(w, req[w])'
    BY <1>1, <1>7 DEF MayCall
  <2>4. WorkerOK(w)'
    BY <2>2, <2>3 DEF WorkerOK
  <2>5. QED
    BY <1>1, <1>4, <1>7, <2>1, <2>4 DEF Moved, Same, TypeOK, workerVars
<1>8. ASSUME NEW r \in {"INTERNAL", "CONNECTION", "ERROR"}, SetterError(w, r),
             r = "CONNECTION" => rc = "refused", UNCHANGED <<given, acked>>
      PROVE  Moved(w)
  <2>1. given' \in [Cells -> Seq(Int)] /\ acked' \in [Cells -> Int]
    BY <1>1, <1>8 DEF TypeOK
  <2>2. r \in ReturnCodes /\ r # "SUCCESS" /\ (r \in NoEffect \/ req[w].op = "get" => effects'[w] = 0)
    BY <1>2, <1>4, <1>5, <1>8
  <2>3. Returns(w, r, Empty)
    BY <1>8, SetterErrorReturns
  <2>4. QED
    BY <1>1, <1>4, <1>5, <2>1, <2>2, <2>3, ReturnMoves
<1>9. QED
  BY <1>3, <1>6, <1>7, <1>8

\* rv2_add_default_value moves one worker as the invariant allows.
LEMMA AddDefaultMoves ==
    ASSUME IInv, NEW w \in Worker, AddDefault(w)
    PROVE  Moved(w)
<1> DEFINE c == CellOf(req[w])
           v == DefaultPlus(req[w])
<1>1. /\ TypeOK /\ WorkerOK(w) /\ phase[w] = "add" /\ req[w].op \in Counting
      /\ MayCall(w, req[w]) /\ effects[w] = 0
  BY DEF IInv, AddDefault, WorkerOK
<1>2. c \in Cells /\ v \in Int /\ v \in String /\ "add" \in Ops /\ "add" \notin Counting
      /\ req[w].op # "get"
  BY <1>1, CellFacts, DefaultPlusType DEF TypeOK, Ops, Storing, String, Counting
<1>3. PICK rc \in McReturns :
        /\ Call(w, "add", c, v, rc)
        /\ IF rc = "SUCCESS"
           THEN PushStr(w, "SUCCESS", v) /\ Ticket(w, v)
           ELSE /\ PushStr(w, IF rc = "NOTSTORED" THEN "NOTSTORED" ELSE "INTERNAL", Default)
                /\ UNCHANGED <<given, acked>>
  BY DEF AddDefault
<1> HIDE DEF c, v
<1>4. /\ store' \in [Cells -> String \cup {None}] /\ effects' \in [Worker -> Nat]
      /\ \A u \in Worker : u # w => effects'[u] = effects[u]
      /\ rc = "NOTSTORED" => effects'[w] = 0
      /\ rc = "SUCCESS" => effects'[w] = 1
  <2>1. store \in [Cells -> String \cup {None}] /\ effects \in [Worker -> Nat]
    BY <1>1 DEF TypeOK
  <2>2. Call(w, "add", c, v, rc) /\ effects[w] = 0
    BY <1>1, <1>3
  <2>3. /\ store' \in [Cells -> String \cup {None}] /\ effects' \in [Worker -> Nat]
        /\ \A u \in Worker : u # w => effects'[u] = effects[u]
        /\ rc = "NOTSTORED" => effects'[w] = effects[w]
        /\ rc = "SUCCESS" => effects'[w] = effects[w] + 1
    <3>1. CallOK(w, "add", c, v, rc)
      BY <1>2, <2>1, <2>2, CallIsOK
    <3>2. QED
      BY ONLY <3>1 DEF CallOK
  <2>4. QED
    BY <2>2, <2>3
<1>5. /\ {"SUCCESS", "NOTSTORED", "INTERNAL"} \subseteq ReturnCodes
      /\ NoEffect \cap {"SUCCESS", "INTERNAL"} = {}
      /\ v \in Value /\ Default \in Value
  BY <1>2, DefaultAssumption DEF Value, ReturnCodes, NoEffect
<1>6. CASE rc = "SUCCESS"
  <2>1. Returns(w, "SUCCESS", v) /\ Ticket(w, v)
    BY <1>1, <1>3, <1>6, PushStrReturns
  <2>2. given' \in [Cells -> Seq(Int)] /\ acked' \in [Cells -> Int]
    BY <1>1, <1>2, <2>1, TicketType
  <2>3. QED
    BY <1>1, <1>2, <1>4, <1>5, <1>6, <2>1, <2>2, ReturnMoves
<1>7. CASE rc # "SUCCESS"
  <2>1. PICK r \in {"NOTSTORED", "INTERNAL"} :
          PushStr(w, r, Default) /\ (r = "NOTSTORED" => rc = "NOTSTORED")
    BY <1>3, <1>7
  <2>2. given' \in [Cells -> Seq(Int)] /\ acked' \in [Cells -> Int]
    BY <1>1, <1>3, <1>7 DEF TypeOK
  <2>3. r \in ReturnCodes /\ r # "SUCCESS" /\ (r \in NoEffect \/ req[w].op = "get" => effects'[w] = 0)
    BY <1>2, <1>4, <1>5, <2>1
  <2>4. Returns(w, r, Default)
    BY <1>1, <2>1, PushStrReturns
  <2>5. QED
    BY <1>1, <1>4, <1>5, <2>2, <2>3, <2>4, ReturnMoves
<1>8. QED
  BY <1>6, <1>7

\* Short stacks.
LEMMA ShortStacks ==
    ASSUME NEW a, NEW b
    PROVE  /\ <<a>> \o <<b>> = <<a, b>> /\ <<a>> \o <<>> = <<a>> /\ <<>> \o <<b>> = <<b>>
           /\ Len(<<a, b>>) = 2 /\ Len(<<a>>) = 1
           /\ <<a, b>>[2] = b /\ <<a>>[1] = a
           /\ SubSeq(<<a, b>>, 1, 1) = <<a>> /\ SubSeq(<<a>>, 1, 0) = <<>>
           /\ Head(<<a, b>>) = a /\ Head(<<a>>) = a
           /\ Tail(<<a, b>>) = <<b>> /\ Tail(<<a>>) = <<>>
<1> DEFINE S == {a, b}
<1>1. <<a>> \in Seq(S) /\ <<b>> \in Seq(S) /\ <<a, b>> \in Seq(S) /\ <<>> \in Seq(S)
  OBVIOUS
<1>3. Len(<<a, b>>) = 2 /\ Len(<<a>>) = 1 /\ <<a, b>>[2] = b /\ <<a, b>>[1] = a /\ <<a>>[1] = a
  OBVIOUS
<1>2. <<a>> \o <<b>> = <<a, b>> /\ <<a>> \o <<>> = <<a>> /\ <<>> \o <<b>> = <<b>>
  <2>1. <<a>> \o <<b>> \in Seq(S) /\ Len(<<a>> \o <<b>>) = 2
    BY <1>1, ConcatProperties
  <2>2. (<<a>> \o <<b>>)[1] = a /\ (<<a>> \o <<b>>)[2] = b
    BY <1>1, ConcatProperties
  <2>3. \A i \in 1 .. 2 : (<<a>> \o <<b>>)[i] = <<a, b>>[i]
    BY <1>3, <2>2
  <2>4. <<a>> \o <<b>> = <<a, b>>
    BY <1>1, <1>3, <2>1, <2>3, SeqEqual
  <2>5. QED
    BY <1>1, <2>4, ConcatEmptySeq
<1>4. SubSeq(<<a, b>>, 1, 1) = <<a>>
  <2>1. \A i \in 1 .. 1 : <<a, b>>[i] \in S
    OBVIOUS
  <2>2. /\ SubSeq(<<a, b>>, 1, 1) \in Seq(S) /\ Len(SubSeq(<<a, b>>, 1, 1)) = 1
        /\ SubSeq(<<a, b>>, 1, 1)[1] = a
    BY <1>3, <2>1, SubSeqProperties
  <2>3. \A i \in 1 .. 1 : SubSeq(<<a, b>>, 1, 1)[i] = <<a>>[i]
    BY <1>3, <2>2
  <2>4. QED
    BY <1>1, <1>3, <2>2, <2>3, SeqEqual
<1>5. SubSeq(<<a>>, 1, 0) = <<>>
  BY <1>1, <1>3
<1>6. Head(<<a, b>>) = a /\ Head(<<a>>) = a
  BY <1>1, <1>3
<1>7. Tail(<<a, b>>) = <<b>> /\ Tail(<<a>>) = <<>>
  BY <1>1, <1>3
<1>8. QED
  BY <1>2, <1>3, <1>4, <1>5, <1>6, <1>7

\* Two pushes on an empty stack.
LEMMA ConcatOfTwo == \A a, b : <<a>> \o <<b>> = <<a, b>>
BY ShortStacks

\* The pop of a stack of two.
LEMMA PopOfTwo == \A a, b : <<a, b>>[2] = b /\ SubSeq(<<a, b>>, 1, 1) = <<a>>
BY ShortStacks

\* What the statement q generates for its variables is what its op code pushes.
Matches(q, rc, v) ==
    \/ /\ HasValue(q) /\ q.rcidx
       /\ SetCodes(q) = <<"val", "rc">> /\ Pushed(q, rc, v) = <<[rc |-> rc], [val |-> v]>>
    \/ /\ HasValue(q) /\ ~q.rcidx
       /\ SetCodes(q) = <<"val">> /\ Pushed(q, rc, v) = <<[val |-> v]>>
    \/ /\ ~HasValue(q) /\ q.rcidx
       /\ SetCodes(q) = <<"rc">> /\ Pushed(q, rc, v) = <<[rc |-> rc]>>
    \/ /\ ~HasValue(q) /\ ~q.rcidx
       /\ SetCodes(q) = <<>> /\ Pushed(q, rc, v) = <<>>

\* The stack an op code leaves, and the codes that empty it.
LEMMA PushedForCodes ==
    ASSUME NEW q, NEW rc, NEW v, q.rcidx \in BOOLEAN
    PROVE  Matches(q, rc, v)
<1>1. CASE HasValue(q) /\ q.rcidx
  <2>1. SetCodes(q) = <<"val">> \o <<"rc">> /\ Pushed(q, rc, v) = <<[rc |-> rc]>> \o <<[val |-> v]>>
    BY <1>1 DEF SetCodes, Pushed
  <2>2. <<"val">> \o <<"rc">> = <<"val", "rc">>
    BY ConcatOfTwo, Zenon
  <2>3. <<[rc |-> rc]>> \o <<[val |-> v]>> = <<[rc |-> rc], [val |-> v]>>
    BY ConcatOfTwo, Zenon
  <2>4. QED
    BY <1>1, <2>1, <2>2, <2>3 DEF Matches
<1>2. CASE HasValue(q) /\ ~q.rcidx
  BY <1>2, ShortStacks DEF SetCodes, Pushed, Matches
<1>3. CASE ~HasValue(q) /\ q.rcidx
  BY <1>3, ShortStacks DEF SetCodes, Pushed, Matches
<1>4. CASE ~HasValue(q) /\ ~q.rcidx
  BY <1>4, ShortStacks DEF SetCodes, Pushed, Matches
<1>5. QED
  BY <1>1, <1>2, <1>3, <1>4

\* The statement of w still has to set both variables, the value's, or the
\* return code's (the only one, or after the value's), or none.
BothLeft(w) ==
    /\ HasValue(req[w]) /\ req[w].rcidx
    /\ todo[w] = <<"val", "rc">> /\ stack[w] = <<[rc |-> answer[w].rc], [val |-> answer[w].v]>>
ValLeft(w) ==
    /\ HasValue(req[w]) /\ ~req[w].rcidx
    /\ todo[w] = <<"val">> /\ stack[w] = <<[val |-> answer[w].v]>>
RcLeft(w) ==
    /\ req[w].rcidx
    /\ HasValue(req[w]) => valVar[w] = [val |-> answer[w].v]
    /\ todo[w] = <<"rc">> /\ stack[w] = <<[rc |-> answer[w].rc]>>
NoneLeft(w) ==
    /\ todo[w] = <<>> /\ stack[w] = <<>>
    /\ HasValue(req[w]) => valVar[w] = [val |-> answer[w].v]
    /\ req[w].rcidx => rcVar[w] = [rc |-> answer[w].rc]

\* StackOK, case by case.
LEMMA StackCases ==
    ASSUME NEW w, req[w].rcidx \in BOOLEAN, StackOK(w)
    PROVE  BothLeft(w) \/ ValLeft(w) \/ RcLeft(w) \/ NoneLeft(w)
<1> DEFINE q == req[w]
           a == answer[w].rc
           v == answer[w].v
<1>1. Matches(q, a, v)
  BY PushedForCodes
<1>2. CASE todo[w] = SetCodes(q) /\ stack[w] = Pushed(q, a, v)
  BY <1>1, <1>2, Zenon DEF Matches, BothLeft, ValLeft, RcLeft, NoneLeft
<1>3. CASE /\ HasValue(q) /\ q.rcidx /\ todo[w] = <<"rc">> /\ stack[w] = <<[rc |-> a]>>
           /\ valVar[w] = [val |-> v]
  BY <1>3, Zenon DEF RcLeft
<1>4. CASE /\ todo[w] = <<>> /\ stack[w] = <<>>
           /\ HasValue(q) => valVar[w] = [val |-> v]
           /\ q.rcidx => rcVar[w] = [rc |-> a]
  BY <1>4, Zenon DEF NoneLeft
<1>5. QED
  BY <1>2, <1>3, <1>4, Zenon DEF StackOK

\* A sequence of codes that is not over is not empty.
LEMMA NotEmpty ==
    ASSUME NEW a, NEW b
    PROVE  <<a>> # <<>> /\ <<a, b>> # <<>>
OBVIOUS

\* Once the codes of a statement have run, its variables have their values.
LEMMA StackAtEnd ==
    ASSUME NEW w, req[w].rcidx \in BOOLEAN, StackOK(w), todo[w] = <<>>
    PROVE  NoneLeft(w)
<1>1. ~BothLeft(w) /\ ~ValLeft(w) /\ ~RcLeft(w)
  BY NotEmpty, Zenon DEF BothLeft, ValLeft, RcLeft
<1>2. QED
  BY <1>1, StackCases

\* A set code moves one worker as the invariant allows.
LEMMA SetVarMoves ==
    ASSUME IInv, NEW w \in Worker, SetVar(w)
    PROVE  Moved(w)
<1> DEFINE r == [rc |-> answer[w].rc]
           x == [val |-> answer[w].v]
           item == stack[w][Len(stack[w])]
<1>1. /\ TypeOK /\ WorkerOK(w) /\ phase[w] = "set" /\ todo[w] # <<>>
      /\ Honest(w) /\ StackOK(w) /\ req[w].rcidx \in BOOLEAN
      /\ stack' = [stack EXCEPT ![w] = SubSeq(stack[w], 1, Len(stack[w]) - 1)]
      /\ todo' = [todo EXCEPT ![w] = Tail(todo[w])]
      /\ UNCHANGED <<mem, store, phase, mc, req, answer, effects, given, acked>>
  BY RequestFacts DEF IInv, SetVar, WorkerOK, history, TypeOK
<1>2. /\ Head(todo[w]) = "val" => valVar' = [valVar EXCEPT ![w] = item] /\ rcVar' = rcVar
      /\ Head(todo[w]) # "val" => rcVar' = [rcVar EXCEPT ![w] = item] /\ valVar' = valVar
  BY DEF SetVar
<1>3. r \in Item /\ x \in Item
  BY <1>1 DEF WorkerOK, Item
<1>4. \/ HasValue(req[w]) /\ req[w].rcidx /\ todo[w] = <<"val", "rc">> /\ stack[w] = <<r, x>>
      \/ HasValue(req[w]) /\ ~req[w].rcidx /\ todo[w] = <<"val">> /\ stack[w] = <<x>>
      \/ /\ req[w].rcidx /\ todo[w] = <<"rc">> /\ stack[w] = <<r>>
         /\ HasValue(req[w]) => valVar[w] = x
  <2>1. StackOK(w) /\ req[w].rcidx \in BOOLEAN /\ ~NoneLeft(w)
    BY <1>1 DEF NoneLeft
  <2>2. BothLeft(w) \/ ValLeft(w) \/ RcLeft(w)
    BY <2>1, StackCases
  <2>3. QED
    BY <2>2, Zenon DEF BothLeft, ValLeft, RcLeft
<1>5. /\ stack \in [Worker -> Seq(Item)] /\ todo \in [Worker -> Seq({"val", "rc"})]
      /\ valVar \in [Worker -> Item \cup {Unset}] /\ rcVar \in [Worker -> Item \cup {Unset}]
  BY <1>1 DEF TypeOK
<1> HIDE DEF r, x, item
<1>6. /\ item \in Item
      /\ SubSeq(stack[w], 1, Len(stack[w]) - 1) \in Seq(Item)
      /\ Tail(todo[w]) \in Seq({"val", "rc"})
  <2>1. /\ <<>> \in Seq(Item) /\ <<r>> \in Seq(Item)
        /\ <<>> \in Seq({"val", "rc"}) /\ <<"rc">> \in Seq({"val", "rc"})
    BY <1>3
  <2>2. CASE todo[w] = <<"val", "rc">> /\ stack[w] = <<r, x>>
    BY <1>3, <2>1, <2>2, ShortStacks DEF item
  <2>3. CASE todo[w] \in {<<"val">>, <<"rc">>} /\ stack[w] \in {<<r>>, <<x>>}
    <3>0. Len(stack[w]) = 1
      BY <2>3, ShortStacks
    <3>1. item \in {r, x}
      BY <2>3, <3>0, ShortStacks DEF item
    <3>2. SubSeq(stack[w], 1, Len(stack[w]) - 1) = <<>>
      BY <2>3, <3>0, SubSeqEmpty
    <3>3. Tail(todo[w]) = <<>>
      BY <2>3, ShortStacks
    <3>4. QED
      BY <1>3, <2>1, <3>1, <3>2, <3>3
  <2>4. QED
    BY <1>4, <2>2, <2>3
<1>7. /\ stack' \in [Worker -> Seq(Item)] /\ todo' \in [Worker -> Seq({"val", "rc"})]
      /\ valVar' \in [Worker -> Item \cup {Unset}] /\ rcVar' \in [Worker -> Item \cup {Unset}]
  <2>1. stack' \in [Worker -> Seq(Item)]
    BY <1>1, <1>5, <1>6
  <2>2. todo' \in [Worker -> Seq({"val", "rc"})]
    BY <1>1, <1>5, <1>6
  <2>3. valVar' \in [Worker -> Item \cup {Unset}]
    BY <1>2, <1>5, <1>6
  <2>4. rcVar' \in [Worker -> Item \cup {Unset}]
    BY <1>2, <1>5, <1>6
  <2>5. QED
    BY <2>1, <2>2, <2>3, <2>4
<1>8. TypeOK'
  BY <1>1, <1>7 DEF TypeOK
<1>9. \/ /\ HasValue(req[w]) /\ req[w].rcidx
         /\ todo'[w] = <<"rc">> /\ stack'[w] = <<r>> /\ valVar'[w] = x
      \/ /\ todo'[w] = <<>> /\ stack'[w] = <<>>
         /\ HasValue(req[w]) => valVar'[w] = x
         /\ req[w].rcidx => rcVar'[w] = r
  <2>1. CASE HasValue(req[w]) /\ req[w].rcidx /\ todo[w] = <<"val", "rc">> /\ stack[w] = <<r, x>>
    <3>1. Head(todo[w]) = "val" /\ Tail(todo[w]) = <<"rc">>
      BY <2>1, ShortStacks
    <3>2. item = x /\ SubSeq(stack[w], 1, Len(stack[w]) - 1) = <<r>>
      <4>1. Len(stack[w]) = 2 /\ Len(stack[w]) - 1 = 1
        BY <2>1
      <4>2. <<r, x>>[2] = x /\ SubSeq(<<r, x>>, 1, 1) = <<r>>
        BY PopOfTwo, Zenon
      <4>3. QED
        BY <2>1, <4>1, <4>2 DEF item
    <3>3. QED
      BY <1>1, <1>2, <1>5, <2>1, <3>1, <3>2
  <2>2. CASE HasValue(req[w]) /\ ~req[w].rcidx /\ todo[w] = <<"val">> /\ stack[w] = <<x>>
    <3>1. Head(todo[w]) = "val" /\ Tail(todo[w]) = <<>>
      BY <2>2, ShortStacks
    <3>2. item = x /\ SubSeq(stack[w], 1, Len(stack[w]) - 1) = <<>>
      <4>1. Len(stack[w]) = 1
        BY <2>2
      <4>2. QED
        BY <2>2, <4>1, SubSeqEmpty DEF item
    <3>3. QED
      BY <1>1, <1>2, <1>5, <2>2, <3>1, <3>2
  <2>3. CASE /\ req[w].rcidx /\ todo[w] = <<"rc">> /\ stack[w] = <<r>>
             /\ HasValue(req[w]) => valVar[w] = x
    <3>1. Head(todo[w]) = "rc" /\ Tail(todo[w]) = <<>>
      BY <2>3, ShortStacks
    <3>2. item = r /\ SubSeq(stack[w], 1, Len(stack[w]) - 1) = <<>>
      <4>1. Len(stack[w]) = 1
        BY <2>3
      <4>2. QED
        BY <2>3, <4>1, SubSeqEmpty DEF item
    <3>3. QED
      BY <1>1, <1>2, <1>5, <2>3, <3>1, <3>2
  <2>4. QED
    BY <1>4, <2>1, <2>2, <2>3
<1>10. StackOK(w)'
  BY <1>1, <1>9 DEF StackOK, r, x
<1>11. Honest(w)'
  BY <1>1 DEF Honest
<1>12. WorkerOK(w)'
  BY <1>1, <1>10, <1>11 DEF WorkerOK
<1>13. QED
  BY <1>1, <1>2, <1>5, <1>8, <1>12 DEF Moved, Same

\* The end of a statement moves one worker as the invariant allows.
LEMMA EndMoves ==
    ASSUME IInv, NEW w \in Worker, End(w)
    PROVE  Moved(w)
<1>1. /\ TypeOK /\ WorkerOK(w) /\ StackOK(w) /\ req[w].rcidx \in BOOLEAN
      /\ todo[w] = <<>> /\ phase' = [phase EXCEPT ![w] = "idle"]
      /\ valVar' = [valVar EXCEPT ![w] = Unset] /\ rcVar' = [rcVar EXCEPT ![w] = Unset]
      /\ answer' = [answer EXCEPT ![w] = Unset] /\ effects' = [effects EXCEPT ![w] = 0]
      /\ UNCHANGED <<mem, store, mc, req, stack, todo, given, acked>>
  BY RequestFacts DEF IInv, End, WorkerOK, TypeOK
<1>2. stack[w] = <<>>
  <2>1. StackOK(w) /\ req[w].rcidx \in BOOLEAN /\ todo[w] = <<>>
    BY <1>1
  <2>2. NoneLeft(w)
    BY ONLY <2>1, StackAtEnd
  <2>3. QED
    BY <2>2 DEF NoneLeft
<1>3. TypeOK'
  BY <1>1 DEF TypeOK
<1>4. WorkerOK(w)'
  BY <1>1, <1>2 DEF TypeOK, WorkerOK
<1>5. \A u \in Worker : u # w => Same(u)
  BY <1>1, Domains DEF Same
<1>6. QED
  BY <1>3, <1>4, <1>5 DEF Moved

\* Every step keeps the invariant.
LEMMA IInvStep ==
    ASSUME IInv, [Next]_vars
    PROVE  IInv'
<1>1. CASE UNCHANGED vars
  <2>1. TypeOK'
    BY <1>1 DEF IInv, TypeOK, vars, workerVars, history
  <2>2. \A w \in Worker : Same(w)
    BY <1>1 DEF Same, vars, workerVars, history
  <2>3. QED
    BY <2>1, <2>2, SameKeeps DEF IInv
<1>2. ASSUME NEW c \in Cells, Evict(c)
      PROVE  IInv'
  <2>1. TypeOK'
    BY <1>2 DEF IInv, TypeOK, Evict, workerVars, history
  <2>2. \A w \in Worker : Same(w)
    BY <1>2 DEF Same, Evict, workerVars, history
  <2>3. QED
    BY <2>1, <2>2, SameKeeps DEF IInv
<1>3. ASSUME NEW w \in Worker, NEW q \in Requests, Begin(w, q)
      PROVE  IInv'
  BY <1>3, BeginMoves, MovedKeeps
<1>4. ASSUME NEW w \in Worker,
             \/ InitProc(w) \/ Refuse(w) \/ Crash(w) \/ Get(w) \/ Store(w)
             \/ Count(w) \/ AddDefault(w) \/ SetVar(w) \/ End(w)
      PROVE  IInv'
  <2>1. Moved(w)
    BY <1>4, InitProcMoves, RefuseMoves, CrashMoves, GetMoves, StoreMoves, CountMoves,
       AddDefaultMoves, SetVarMoves, EndMoves
  <2>2. QED
    BY <2>1, MovedKeeps
<1>5. QED
  BY <1>1, <1>2, <1>3, <1>4 DEF Next

\* The invariant holds when the workers start.
LEMMA IInvInit == Init => IInv
<1> SUFFICES ASSUME Init PROVE IInv
  OBVIOUS
<1>1. (CHOOSE q \in Requests : TRUE) \in Requests
  BY RequestsAssumption
<1>2. mc \in [Worker -> [Node -> {"handle", "NULL", "garbage"}]]
  BY DEF Init
<1>3. TypeOK
  <2>1. /\ mem \in [Node -> {"NULL", "garbage"}] /\ store \in [Cells -> String \cup {None}]
        /\ phase \in [Worker -> {"down", "idle", "run", "add", "set"}]
        /\ req \in [Worker -> Requests]
    BY <1>1 DEF Init
  <2>2. stack \in [Worker -> Seq(Item)] /\ todo \in [Worker -> Seq({"val", "rc"})]
    BY DEF Init
  <2>3. /\ valVar \in [Worker -> Item \cup {Unset}] /\ rcVar \in [Worker -> Item \cup {Unset}]
        /\ answer \in [Worker -> [rc : ReturnCodes, v : Value] \cup {Unset}]
    BY DEF Init
  <2>4. effects \in [Worker -> Nat] /\ given \in [Cells -> Seq(Int)] /\ acked \in [Cells -> Int]
    BY DEF Init
  <2>5. QED
    BY <1>2, <2>1, <2>2, <2>3, <2>4 DEF TypeOK
<1>4. \A w \in Worker : WorkerOK(w)
  BY DEF Init, WorkerOK
<1>5. QED
  BY <1>3, <1>4 DEF IInv

\* Every variable keeps its type.
THEOREM TypeCorrect == Spec => []TypeOK
<1>1. IInv => TypeOK
  BY DEF IInv
<1>2. QED
  BY <1>1, IInvInit, IInvStep, PTL DEF Spec

\* The return code never misreports what a statement did to the server,
\* however the workers' calls interleave and fail.
THEOREM ReturnCodesAreHonest == Spec => []ReturnCodeIsHonest
<1>1. IInv => ReturnCodeIsHonest
  BY DEF IInv, WorkerOK, Honest, ReturnCodeIsHonest
<1>2. QED
  BY <1>1, IInvInit, IInvStep, PTL DEF Spec

\* A statement's value and return code reach their own variables.
THEOREM StatementsBalanceStack == Spec => []VariablesGetTheirOwn
<1>1. ASSUME IInv PROVE VariablesGetTheirOwn
  <2> SUFFICES ASSUME NEW w \in Worker, phase[w] = "set", todo[w] = <<>>
               PROVE  /\ stack[w] = <<>>
                      /\ HasValue(req[w]) => valVar[w] = [val |-> answer[w].v]
                      /\ req[w].rcidx => rcVar[w] = [rc |-> answer[w].rc]
    BY DEF VariablesGetTheirOwn
  <2>1. StackOK(w) /\ req[w].rcidx \in BOOLEAN /\ todo[w] = <<>>
    BY <1>1, RequestFacts DEF IInv, WorkerOK, TypeOK
  <2>2. NoneLeft(w)
    BY ONLY <2>1, StackAtEnd
  <2>3. QED
    BY <2>2, Zenon DEF NoneLeft
<1>2. QED
  BY <1>1, IInvInit, IInvStep, PTL DEF Spec
=============================================================================
