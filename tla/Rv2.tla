-------------------------------- MODULE Rv2 ---------------------------------
(***************************************************************************)
(* The rv_get, rv_set, rv_incr, rv_decr, rv_add and rv_delete statements   *)
(* of ngx_http_rv2_module, run by several nginx workers against memcached. *)
(*                                                                         *)
(* A worker runs one statement at a time and blocks in libmemcached, so    *)
(* the other workers (and evictions) take their steps between the calls of *)
(* a statement.  A statement is one op code, which pushes a return code    *)
(* and a value on the script's stack, followed by the codes that pop them  *)
(* into variables.                                                         *)
(*                                                                         *)
(* A string is an integer (its decimal form) or a value that is no number. *)
(***************************************************************************)
EXTENDS Integers, Sequences

CONSTANTS
    Worker,     \* nginx worker processes
    Node,       \* memcached servers
    Key,        \* keys
    Servers,    \* upstream name -> its nodes, in order (us_node, mcd_array)
    Hash,       \* hash key -> crc32
    Text,       \* the strings that are no numbers
    None,       \* a key that is not stored
    Empty,      \* the empty string
    Garbage,    \* a length without data, left by a failed evaluation
    Default,    \* the variable's default value
    Requests,   \* the statements workers may run
    Losses,     \* how a memcached call may fail
    AllocFails, \* may allocations from the request's pool fail?
    PushFails,  \* may memcached_server_push fail when a worker starts?
    Evicts,     \* may memcached drop keys?
    IntMod,     \* the number of values of an int, for the conversion %d
    MaxCount    \* bound: on counters, and on the successes on them, for a new increment

Cells == Node \X Key
String == Int \cup Text \cup {Empty}
Reading == {"get"}
Counting == {"incr", "decr"}
Storing == {"set", "add", "delete"}
Request ==
    [op : Reading \cup Counting \cup Storing, us : STRING, hkey : STRING,
     key : Key \cup {Empty}, v : String, rcidx : BOOLEAN]

ASSUME StringAssumption ==
    /\ Text \cap Int = {}
    /\ {None, Empty, Garbage} \cap (Int \cup Text) = {}
    /\ None # Empty /\ None # Garbage /\ Empty # Garbage
    /\ Empty \notin Key
ASSUME DefaultAssumption == Default \in String
ASSUME RequestsAssumption == Requests \subseteq Request /\ Requests # {}
ASSUME LossesAssumption == Losses \subseteq {"refused", "request", "answer"}
ASSUME FlagsAssumption == {AllocFails, PushFails, Evicts} \subseteq BOOLEAN
ASSUME IntModAssumption == IntMod \in Nat \ {0}
ASSUME MaxCountAssumption == MaxCount \in Nat
ASSUME ServersAssumption ==
    \A us \in DOMAIN Servers : Servers[us] \in Seq(Node) /\ Servers[us] # <<>>
ASSUME HashAssumption == \A h \in DOMAIN Hash : Hash[h] \in Nat

VARIABLES
    mem,        \* what mcdnode->mc holds before a worker connects
    store,      \* the memcached servers' contents
    phase,      \* where each worker is in its statement
    mc,         \* each worker's handle for each node
    req,        \* the statement each worker runs
    stack,      \* the script's value stack
    todo,       \* the statement's codes still to run, which set a variable
    valVar,     \* the variable the statement's value goes to
    rcVar,      \* the variable the statement's return code goes to
    answer,     \* history: the return code and the value of the op code
    effects,    \* history: how often the statement changed a server
    given,      \* history: per cell, the values of successful increments
    acked       \* history: per cell, the sum of their deltas

workerVars == <<stack, todo, valVar, rcVar>>
history == <<answer, effects, given, acked>>
vars == <<mem, store, phase, mc, req, workerVars, history>>

-----------------------------------------------------------------------------
(* Strings and numbers                                                     *)

\* ngx_atoi, which knows no sign; -1 is NGX_ERROR.
Atoi(s) == IF s \in Nat THEN s ELSE -1

\* The delta of incr and decr, which memcached_increment takes as a 32-bit number.
Offset(q) == Atoi(q.v) % IntMod

\* snprintf "%d" of an ngx_int_t: the low bits, as a signed int.
FormatInt(n) == IF 2 * (n % IntMod) >= IntMod THEN (n % IntMod) - IntMod ELSE n % IntMod

\* The number rv2_add_default_value starts from.
DefaultNumber == IF Atoi(Default) = -1 THEN 0 ELSE Atoi(Default)

\* What it adds for a missing counter.
DefaultPlus(q) ==
    FormatInt(IF q.op = "incr" THEN DefaultNumber + Atoi(q.v) ELSE DefaultNumber - Atoi(q.v))

-----------------------------------------------------------------------------
(* memcached: the answer to a command, the string stored after it, and     *)
(* whether it changed the server                                           *)

Reply(op, s, v) ==
    CASE op = "get" -> [rc |-> IF s = None THEN "NOTFOUND" ELSE "SUCCESS", new |-> s, hit |-> 0]
      [] op = "set" -> [rc |-> "SUCCESS", new |-> v, hit |-> 1]
      [] op = "add" /\ s = None -> [rc |-> "SUCCESS", new |-> v, hit |-> 1]
      [] op = "add" /\ s # None -> [rc |-> "NOTSTORED", new |-> s, hit |-> 0]
      [] op = "delete" /\ s # None -> [rc |-> "SUCCESS", new |-> None, hit |-> 1]
      [] op \in {"delete", "incr", "decr"} /\ s = None -> [rc |-> "NOTFOUND", new |-> s, hit |-> 0]
      [] op = "incr" /\ s \in Nat -> [rc |-> "SUCCESS", new |-> s + v, hit |-> 1]
      [] op = "decr" /\ s \in Nat -> [rc |-> "SUCCESS", new |-> IF s < v THEN 0 ELSE s - v, hit |-> 1]
      [] OTHER -> [rc |-> "other", new |-> s, hit |-> 0]

\* A libmemcached call of worker w on cell c gives rc: the server answers, the
\* connection is refused, or the request or its answer is lost.
Call(w, op, c, v, rc) ==
    LET reply == Reply(op, store[c], v) IN
    \/ /\ rc = reply.rc \/ (rc = "other" /\ "answer" \in Losses)
       /\ store' = [store EXCEPT ![c] = reply.new]
       /\ effects' = [effects EXCEPT ![w] = @ + reply.hit]
    \/ /\ \/ rc = "refused" /\ "refused" \in Losses
          \/ rc = "other" /\ "request" \in Losses
       /\ UNCHANGED <<store, effects>>

McReturns == {"SUCCESS", "NOTFOUND", "NOTSTORED", "refused", "other"}

\* Whether an allocation succeeds.
Alloc == IF AllocFails THEN BOOLEAN ELSE {TRUE}

-----------------------------------------------------------------------------
(* Parts of the op codes                                                   *)

\* rv2_get_us_node and rv2_get_mcd_node, once both names are found to be good.
GetMcdNode(q) == Servers[q.us][(Hash[q.hkey] % Len(Servers[q.us])) + 1]

CellOf(q) == <<GetMcdNode(q), q.key>>

\* Getters, incr and decr have a variable for the value.
HasValue(q) == q.op \in Reading \cup Counting

\* The codes behind the op code, in the order the commands generate them.
SetCodes(q) ==
    (IF HasValue(q) THEN <<"val">> ELSE <<>>) \o (IF q.rcidx THEN <<"rc">> ELSE <<>>)

\* The op code of w returns rc and v, having pushed its results on the stack.
Return(w, pushed, rc, v) ==
    /\ stack' = [stack EXCEPT ![w] = @ \o pushed]
    /\ phase' = [phase EXCEPT ![w] = "set"]
    /\ answer' = [answer EXCEPT ![w] = [rc |-> rc, v |-> v]]
    /\ UNCHANGED <<mem, mc, req, todo, valVar, rcVar>>

\* The return code's part, on every return: pushed if the statement asks for it.
RcPush(w, rc) == IF req[w].rcidx THEN <<[rc |-> rc]>> ELSE <<>>

\* getter_code found the value.
GetterSuccess(w, v) == Return(w, RcPush(w, "SUCCESS") \o <<[val |-> v]>>, "SUCCESS", v)

\* error_return of getter_code; def is what became of the default.
GetterError(w, rc, def) ==
    LET v == IF rc = "NOTFOUND" THEN def ELSE Empty
    IN  Return(w, RcPush(w, rc) \o <<[val |-> v]>>, rc, v)

\* setter_code has set, added or deleted.
StoreSuccess(w) == Return(w, RcPush(w, "SUCCESS"), "SUCCESS", Empty)

\* rv2_push_str, which incr, decr and their default value come to.
PushStr(w, rc, v) == Return(w, RcPush(w, rc) \o <<[val |-> v]>>, rc, v)

\* Mutant of SetterError: the value below the return code.
SetterErrorSwapped(w, rc) ==
    LET v == IF rc = "NOTSTORED" THEN Default ELSE Empty
    IN  Return(w, (IF HasValue(req[w]) THEN <<[val |-> v]>> ELSE <<>>) \o RcPush(w, rc), rc, v)

\* error_return of setter_code.
SetterError(w, rc) ==
    LET v == IF rc = "NOTSTORED" THEN Default ELSE Empty
    IN  Return(w, RcPush(w, rc) \o (IF HasValue(req[w]) THEN <<[val |-> v]>> ELSE <<>>), rc, v)

\* The return codes with which an op code may stop before it calls memcached.
Refusals(w, q) ==
    (IF AllocFails THEN {"INVALID_US"} ELSE {}) \cup
    CASE q.us \notin DOMAIN Servers -> {"NOSUCH_US"}
      [] q.us \in DOMAIN Servers /\ q.hkey \notin DOMAIN Hash -> {"HASHKEY"}
      [] OTHER ->
           IF q.op \notin Reading /\ mc[w][GetMcdNode(q)] = "NULL" THEN {"SUCCESS"}
           ELSE IF q.key = Empty THEN {"KEY"}
           ELSE (IF AllocFails /\ q.op \notin {"get", "delete"} THEN {"INTERNAL"} ELSE {}) \cup
                (IF q.op \in Counting /\ Atoi(q.v) = -1 THEN {"INVALID_VAL"} ELSE {})

\* Whether it may get as far as the call.
MayCall(w, q) ==
    /\ q.us \in DOMAIN Servers
    /\ q.hkey \in DOMAIN Hash
    /\ q.op \in Reading \/ mc[w][GetMcdNode(q)] # "NULL"
    /\ q.key # Empty
    /\ q.op \in Counting => Atoi(q.v) # -1

-----------------------------------------------------------------------------

\* What variables and the answer hold before they are set.
Unset == [unset |-> TRUE]

Init ==
    /\ mem \in [Node -> {"NULL", "garbage"}]
    /\ store = [c \in Cells |-> None]
    /\ phase = [w \in Worker |-> "down"]
    /\ mc = [w \in Worker |-> mem]
    /\ req \in [Worker -> {CHOOSE q \in Requests : TRUE}]
    /\ stack = [w \in Worker |-> <<>>]
    /\ todo = [w \in Worker |-> <<>>]
    /\ valVar = [w \in Worker |-> Unset]
    /\ rcVar = [w \in Worker |-> Unset]
    /\ answer = [w \in Worker |-> Unset]
    /\ effects = [w \in Worker |-> 0]
    /\ given = [c \in Cells |-> <<>>]
    /\ acked = [c \in Cells |-> 0]

\* init_proc: ngx_mcd_connect gives every node a handle, except where
\* memcached_server_push fails.
InitProc(w) ==
    /\ phase[w] = "down"
    /\ \E h \in [Node -> {"handle", "NULL", "garbage"}] :
          /\ \A n \in Node : h[n] = "handle" \/ (PushFails /\ h[n] = mem[n])
          /\ mc' = [mc EXCEPT ![w] = h]
    /\ phase' = [phase EXCEPT ![w] = "idle"]
    /\ UNCHANGED <<mem, store, req, workerVars, history>>

\* A worker starts a statement.  Its op code runs up to its first memcached
\* call.
Begin(w, q) ==
    /\ phase[w] = "idle"
    /\ q.op = "incr" => \A c \in Cells : /\ Len(given[c]) < MaxCount
                                         /\ store[c] \in Nat => store[c] < MaxCount
    /\ req' = [req EXCEPT ![w] = q]
    /\ todo' = [todo EXCEPT ![w] = SetCodes(q)]
    /\ phase' = [phase EXCEPT ![w] = "run"]
    /\ UNCHANGED <<mem, store, mc, stack, valVar, rcVar, history>>

\* The op code stops before it calls memcached.
Refuse(w) ==
    /\ phase[w] = "run"
    /\ \E rc \in Refusals(w, req[w]) :
          IF req[w].op \in Reading THEN GetterError(w, rc, Default) ELSE SetterError(w, rc)
    /\ UNCHANGED <<store, effects, given, acked>>

\* The op code calls memcached through a handle that is none, and the worker
\* dies; the master starts another one.
Crash(w) ==
    /\ phase[w] = "run"
    /\ MayCall(w, req[w])
    /\ mc[w][GetMcdNode(req[w])] # "handle"
    /\ phase' = [phase EXCEPT ![w] = "down"]
    /\ mc' = [mc EXCEPT ![w] = mem]
    /\ stack' = [stack EXCEPT ![w] = <<>>]
    /\ todo' = [todo EXCEPT ![w] = <<>>]
    /\ UNCHANGED <<mem, store, req, valVar, rcVar, history>>

Connected(w) == MayCall(w, req[w]) /\ mc[w][GetMcdNode(req[w])] = "handle"

\* Mutant of Get: a missing value is taken for a found one.
GetUnchecked(w) ==
    /\ phase[w] = "run" /\ req[w].op = "get" /\ Connected(w)
    /\ \E rc \in McReturns :
          /\ Call(w, "get", CellOf(req[w]), Empty, rc)
          /\ IF rc \in {"refused", "other"} THEN GetterError(w, "ERROR", Default)
                                           ELSE GetterSuccess(w, store[CellOf(req[w])])
    /\ UNCHANGED <<given, acked>>

\* getter_code
Get(w) ==
    /\ phase[w] = "run" /\ req[w].op = "get" /\ Connected(w)
    /\ \E rc \in McReturns, ok \in Alloc :
          /\ Call(w, "get", CellOf(req[w]), Empty, rc)
          /\ CASE rc = "SUCCESS" /\ ok -> GetterSuccess(w, store[CellOf(req[w])])
               [] rc = "SUCCESS" /\ ~ok -> GetterError(w, "INTERNAL", Default)
               [] rc = "NOTFOUND" -> GetterError(w, "NOTFOUND", IF ok THEN Default ELSE Garbage)
               [] rc = "refused" -> GetterError(w, "CONNECTION", Default)
               [] OTHER -> GetterError(w, "ERROR", Default)
    /\ UNCHANGED <<given, acked>>

\* Mutant of Store: any error number counts as a refused connection.
StoreAnyErrno(w) ==
    /\ phase[w] = "run" /\ req[w].op \in Storing /\ Connected(w)
    /\ \E rc \in McReturns :
          /\ Call(w, req[w].op, CellOf(req[w]), req[w].v, rc)
          /\ CASE rc = "SUCCESS" -> StoreSuccess(w)
               [] rc = "NOTSTORED" -> SetterError(w, "NOTSTORED")
               [] OTHER -> SetterError(w, "CONNECTION")
    /\ UNCHANGED <<given, acked>>

\* setter_code for set, add and delete
Store(w) ==
    /\ phase[w] = "run" /\ req[w].op \in Storing /\ Connected(w)
    /\ \E rc \in McReturns :
          /\ Call(w, req[w].op, CellOf(req[w]), req[w].v, rc)
          /\ CASE rc = "SUCCESS" -> StoreSuccess(w)
               [] rc = "NOTSTORED" -> SetterError(w, "NOTSTORED")
               [] rc = "refused" -> SetterError(w, "CONNECTION")
               [] OTHER -> SetterError(w, "ERROR")
    /\ UNCHANGED <<given, acked>>

\* A successful increment of w gave v.
Ticket(w, v) ==
    IF req[w].op = "incr"
    THEN /\ given' = [given EXCEPT ![CellOf(req[w])] = Append(@, v)]
         /\ acked' = [acked EXCEPT ![CellOf(req[w])] = @ + Atoi(req[w].v)]
    ELSE UNCHANGED <<given, acked>>

\* setter_code for incr and decr
Count(w) ==
    LET c == CellOf(req[w])
        new == FormatInt(Reply(req[w].op, store[c], Offset(req[w])).new)
    IN
    /\ phase[w] = "run" /\ req[w].op \in Counting /\ Connected(w)
    /\ \E rc \in McReturns, ok \in Alloc :
          /\ Call(w, req[w].op, c, Offset(req[w]), rc)
          /\ \/ /\ rc = "SUCCESS" /\ ok
                /\ PushStr(w, "SUCCESS", new)
                /\ Ticket(w, new)
             \/ /\ rc = "NOTFOUND" /\ ok
                /\ phase' = [phase EXCEPT ![w] = "add"]
                /\ UNCHANGED <<mem, mc, req, workerVars, answer, given, acked>>
             \/ /\ rc \in {"SUCCESS", "NOTFOUND"} /\ ~ok
                /\ SetterError(w, "INTERNAL")
                /\ UNCHANGED <<given, acked>>
             \/ /\ rc \notin {"SUCCESS", "NOTFOUND"}
                /\ SetterError(w, IF rc = "refused" THEN "CONNECTION" ELSE "ERROR")
                /\ UNCHANGED <<given, acked>>

\* Mutant of AddDefault: the missing counter is set rather than added.
AddDefaultBySet(w) ==
    /\ phase[w] = "add"
    /\ \E rc \in McReturns :
          /\ Call(w, "set", CellOf(req[w]), DefaultPlus(req[w]), rc)
          /\ IF rc = "SUCCESS"
             THEN PushStr(w, "SUCCESS", DefaultPlus(req[w])) /\ Ticket(w, DefaultPlus(req[w]))
             ELSE PushStr(w, "INTERNAL", Default) /\ UNCHANGED <<given, acked>>

\* rv2_add_default_value
AddDefault(w) ==
    /\ phase[w] = "add"
    /\ \E rc \in McReturns :
          /\ Call(w, "add", CellOf(req[w]), DefaultPlus(req[w]), rc)
          /\ IF rc = "SUCCESS"
             THEN PushStr(w, "SUCCESS", DefaultPlus(req[w])) /\ Ticket(w, DefaultPlus(req[w]))
             ELSE /\ PushStr(w, IF rc = "NOTSTORED" THEN "NOTSTORED" ELSE "INTERNAL", Default)
                  /\ UNCHANGED <<given, acked>>

\* ngx_http_script_set_var_code, generated by ngx_http_rv2_code_set_gen
SetVar(w) ==
    /\ phase[w] = "set" /\ todo[w] # <<>>
    /\ LET item == stack[w][Len(stack[w])] IN
       IF Head(todo[w]) = "val"
       THEN valVar' = [valVar EXCEPT ![w] = item] /\ UNCHANGED rcVar
       ELSE rcVar' = [rcVar EXCEPT ![w] = item] /\ UNCHANGED valVar
    /\ stack' = [stack EXCEPT ![w] = SubSeq(@, 1, Len(@) - 1)]
    /\ todo' = [todo EXCEPT ![w] = Tail(@)]
    /\ UNCHANGED <<mem, store, phase, mc, req, history>>

\* The script goes on behind the statement, and the next one has variables
\* of its own.
End(w) ==
    /\ phase[w] = "set" /\ todo[w] = <<>>
    /\ phase' = [phase EXCEPT ![w] = "idle"]
    /\ valVar' = [valVar EXCEPT ![w] = Unset]
    /\ rcVar' = [rcVar EXCEPT ![w] = Unset]
    /\ answer' = [answer EXCEPT ![w] = Unset]
    /\ effects' = [effects EXCEPT ![w] = 0]
    /\ UNCHANGED <<mem, store, mc, req, stack, todo, given, acked>>

\* memcached drops a key: eviction, restart.
Evict(c) ==
    /\ Evicts /\ store[c] # None
    /\ store' = [store EXCEPT ![c] = None]
    /\ UNCHANGED <<mem, phase, mc, req, workerVars, history>>

Next ==
    \/ \E w \in Worker :
          \/ InitProc(w) \/ Refuse(w) \/ Crash(w) \/ Get(w) \/ Store(w)
          \/ Count(w) \/ AddDefault(w) \/ SetVar(w) \/ End(w)
          \/ \E q \in Requests : Begin(w, q)
    \/ \E c \in Cells : Evict(c)

Spec == Init /\ [][Next]_vars

-----------------------------------------------------------------------------
(* Properties                                                              *)

ReturnCodes ==
    {"SUCCESS", "NOTFOUND", "NOTSTORED", "ERROR", "CONNECTION", "INVALID_US",
     "NOSUCH_US", "INTERNAL", "HASHKEY", "KEY", "INVALID_VAL"}
Value == String \cup {Garbage}
Item == [rc : ReturnCodes] \cup [val : Value]

\* The types of the state; no value a variable gets is a missing one, although
\* getter_code and rv2_add_default_value go through many returns.
TypeOK ==
    /\ mem \in [Node -> {"NULL", "garbage"}]
    /\ store \in [Cells -> String \cup {None}]
    /\ phase \in [Worker -> {"down", "idle", "run", "add", "set"}]
    /\ mc \in [Worker -> [Node -> {"handle", "NULL", "garbage"}]]
    /\ req \in [Worker -> Requests]
    /\ stack \in [Worker -> Seq(Item)]
    /\ todo \in [Worker -> Seq({"val", "rc"})]
    /\ valVar \in [Worker -> Item \cup {Unset}]
    /\ rcVar \in [Worker -> Item \cup {Unset}]
    /\ answer \in [Worker -> [rc : ReturnCodes, v : Value] \cup {Unset}]
    /\ effects \in [Worker -> Nat]
    /\ given \in [Cells -> Seq(Int)]
    /\ acked \in [Cells -> Int]

\* When a statement is over, whichever way its op code returned, the script's
\* stack is as it was before it, and each of its variables holds what the op
\* code pushed for it (the pushes of rv2_push_str and error_return against the
\* pops of the generated set codes).
VariablesGetTheirOwn ==
    \A w \in Worker :
        phase[w] = "set" /\ todo[w] = <<>> =>
            /\ stack[w] = <<>>
            /\ HasValue(req[w]) => valVar[w] = [val |-> answer[w].v]
            /\ req[w].rcidx => rcVar[w] = [rc |-> answer[w].rc]

\* Return codes that promise that nothing was changed.
NoEffect == ReturnCodes \ {"SUCCESS", "ERROR", "INTERNAL"}

\* The return code tells what happened to the server: a code that names a
\* refusal left it alone, and a setter's SUCCESS changed it exactly once,
\* although an increment of a missing key makes two calls with other workers
\* in between.  (A node without a handle is the exception, see
\* SuccessMeansStored.)
ReturnCodeIsHonest ==
    \A w \in Worker : phase[w] = "set" =>
        /\ answer[w].rc \in NoEffect \/ req[w].op = "get" => effects[w] = 0
        /\ answer[w].rc = "SUCCESS" /\ req[w].op # "get" =>
               effects[w] = 1 \/ mc[w][GetMcdNode(req[w])] = "NULL"

\* As long as a counter fits an int, successful increments of it give larger
\* and larger values, whichever workers they come from: no number is given
\* twice.  The default is added with memcached_add, so two workers that both
\* found the key missing cannot both succeed.
TicketsIncrease ==
    \A c \in Cells :
        store[c] \in Nat /\ 2 * store[c] < IntMod =>
            \A i, j \in 1 .. Len(given[c]) : i < j => given[c][i] < given[c][j]

\* Every increment that was reported as done is in the counter.
AckedIncrementsKept ==
    \A c \in Cells : acked[c] > 0 =>
        store[c] \in Nat /\ store[c] >= DefaultNumber + acked[c]

\* "rv_set $rv "$value" $rc": a SUCCESS means the server was changed.
SuccessMeansStored ==
    \A w \in Worker :
        phase[w] = "set" /\ answer[w].rc = "SUCCESS" /\ req[w].op # "get" => effects[w] = 1

\* "rv_incr $newval $rv "$value" $rc": $newval is the counter's new value.
NewvalIsNewValue ==
    [][\A w \in Worker :
          Count(w) /\ phase'[w] = "set" /\ answer'[w].rc = "SUCCESS" => answer'[w].v = store'[CellOf(req[w])]]_vars
=============================================================================
