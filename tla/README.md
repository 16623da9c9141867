# Specifications of the ngxmp modules

ngxmp is a set of nginx 0.6.34 modules: load balancing by hash, remote variables
kept in memcached, array and list variables for the rewrite script, a memcached
proxy that puts a prefix and a suffix around a value, and small helpers. This
directory holds TLA+ specifications of four of them, the TLC configurations that
check them on small instances, and proofs that TLAPS checks for every instance.

All paths below are relative to the repository's root `src/`.

## The system and its parts

nginx runs several worker processes. A worker handles many requests, one event at
a time, and blocks only inside libmemcached (rv, rv2). Code of a request therefore
never overlaps with code of another request of the same worker. What interleaves
is: workers with each other at a shared memcached; the peers, the network and the
client with a request; and, between the events of a request, other requests that
share memory of the worker.

| part | source (under `c/`) | state | operations | specified by |
|---|---|---|---|---|
| upstream_hash | `nginx_upstream_hash-0.2/` | per request: hash, tried bits, tries | peer.init, peer.get, peer.free | `UpstreamHash` |
| arrayv | `ngx_http_arrayv_module/` | per request and variable: two stacks with windows | push, pop, unshift, shift, print, split | `ArrayV`, `Deque` |
| rv2 | `ngx_http_rv2_module/` | per worker: memcached handles; per request: script stack, variables | rv_get, rv_set, rv_incr, rv_decr, rv_add, rv_delete | `Rv2` |
| memcached_more | `ngx_http_memcached_more_module/` | per request: buffer, u->length, ctx->rest, queued bufs | handler, process_header, filter_init, filter, add_suffix | `McmFilter` |
| rv | `ngx_http_rv_module/` | per worker: handles | get and set handlers, reconnect | planned |
| list | `ngx_http_list_module/` | shared configuration memory | list, random, next | planned |
| httpcheck | `ngx_http_httpcheck_module/` | per request: code, content length | process_header, retry | planned |
| repl | `ngx_http_repl_module/` | none | replacement in a variable | planned |
| usset, hash table | `ngx_http_usset_module/`, `ngx_util/ngx_hash_util.h` | table of upstreams | insert, find | planned |
| memcached protocol parser | `ngx_util/mc_protocal.h` | parser state over buffers | step | planned |
| string utilities | `ngx_util/ngx_util.h`, `ngx_str_util.h` | none | split, join, unescape | outcomes in `ArrayV`; algorithms planned |
| vwrite, empty, rand, time | their directories | (almost) none | one handler each | not specified |

Of the vendored nginx (`c/nginx-0.6.34/`) only what drives the modules' callbacks is
specified: `ngx_http_upstream_next`, `process_header`, `send_response` and
`process_non_buffered_body`, the rewrite script's stack and `ngx_atoi`.

The behaviours that are hard to test, with the line where each bites, are listed
as hazards in `PROJECT.json`.

## UpstreamHash: how a request picks its peers

State: `hash`, `tried`, `tries` are `uhpd->hash`, `uhpd->tried` (a set for the bit
vector) and `pc->tries`; `phase` says which callback or event comes next; `ft` is
the failure type; `failed` and `fails` record history. `hashKey` is `ngx_hash_key`
on the hash values: any function, chosen once at the start, so that the results
do not depend on the real one.

Actions: `InitPeer`, `GetPeer`, `FreePeer` are the callbacks. The loop at the end of
`free_hash_peer` is one action per turn (`Rehash`), because its termination is one of
the questions. `Answer`, `Fail(t)` and `Decide` are nginx: a 500 or a 404 is retried only
while `tries > 1`; a 404 calls peer.free with NGX_PEER_NEXT, which the module ignores.
nginx 0.6.34 never calls `ngx_http_upstream_next` with the 503, busy-lock or max-waiting
type, and with the no-live type only after NGX_BUSY, which this balancer never returns.

Runs:

- `hash_safety`: 3 peers, 3 retries, all functions on the hash values 0..4, all
  failure types. `FailedPeerNotAskedAgain` and `AttemptsBounded`. Five hash values
  over three peers give collisions, fixed points and cycles; three retries are
  enough to exhaust the peers.
- `hash_ends`: `RequestEnds` without http_404, under `WF_vars(Next)`. nginx arms a
  timer whenever it waits for a peer, and every other step is a call under way,
  so the request cannot simply stop.
- `hash_404` (violation): with http_404, a peer that answers 404 is asked for ever.
  A 404 costs no try and does not change the hash. Needs `hash_again` of at least 1.

Proved (`UpstreamHashProofs`), for any number of peers and retries, and any set of
hash values: type correctness, `FailedPeersAvoided`, `AttemptsAreBounded`. The first
needs `TryLeft` (a try is left wherever the code decrements). The second needs
`TriedInv`: while a try is left the marked peers are exactly the failed ones, and the
peer about to be asked is not marked. The third counts the set of failed peers,
which grows by one with each failure because of the second.

## ArrayV and Deque: array variables

`Deque` is what `readme.txt` promises: a double-ended queue with one action per
command, where `str_to_array` adds each part of its string as an element, an empty
array gives nothing, and `print_array` shows rows of `Step` elements with an incomplete
last row cut. `ArrayV` is the code: two stacks `pop` and `sft`, each with the memory of
its `ngx_array_t`, `nelts`, `size`, `start` and `end`. `slot` is the entry of the script's value
stack through which a handler's value reaches the next code, and `out` is `$out`. Each
command is one action, which is the handler and the code that stores its value. A read
outside the memory that was written gives `Garbage`. The directive is called
`unshift_array` in the code and `ushift_array` in `readme.txt`; the module uses the code's
name.

A string for `str_to_array` (constant `Strings`) is the sequence of its parts. The splitting
function does not advance past a delimiter, so a string of one part adds an
element, an empty one adds nothing, and with more parts the handler returns, when memory
has run out, before it touches the array.

`IsDeque` is a refinement (`seq <- Contents`) in which each command has to do *its own*
operation: `D!Spec` and, for every step (`OwnOperation`), `PopArray => D!PopArray`,
`PushArray(v) => D!PushArray(v)` and so on. A command at the wrong end, a lost push or a
push of another value is a violation.

`commands` is the set of commands that a configuration uses. Push, unshift and pop
together reach a branch of the set handler (line 741) that writes one stack and
counts in the other; `SafeCommands` excludes just these combinations. `NoDelimiters` says
that no string for `str_to_array` has a delimiter.

Runs: 2 values, rows of 2 elements, at most 3 entries per stack (`MaxSlots`). Three are
enough to empty a stack from either side and to have an incomplete row.

- `array_deque`: in the three maximal safe sets of commands, with whole strings, `TypeOK`
  (no counter leaves the memory, no command hands out memory nobody wrote),
  `WindowsOK` (the counters of each stack agree) and `IsDeque`.
- `array_all` (violation): `IsDeque` with all commands.
- `array_split` (violation): `IsDeque` with a string of two parts, which adds nothing.
- `array_print` (violation): printing an empty array leaves an old value in `$out`.

Proved (`ArrayVProofs`), assuming that every configuration is safe and `NoDelimiters`:
`ArrayWindows`, `ArrayTypes` and `ArrayIsDeque`, for any values, row length and number of
slots. The invariant is `StackInv /\ ValueInv`. `StackInv` holds the counters together and
says that without unshift nothing is ever on `sft` and without pop its window starts at
its bottom, so the bad branch is never taken; `ValueInv` says that every cell inside a
window, the slot and `$out` hold pushed values. Lemmas give the effect of each stack
operation on `Contents`, and one per command shows that it does its own operation.

The fixed memory `[Slots -> Cell]` never moves. The code's array is reallocated when it
grows, but elements are reached only through the array, so this is not visible.

## Rv2: remote variables

Several workers run statements against memcached nodes. `store` is the contents of
the servers, `mc` each worker's handles, `stack` and `todo` the script's stack and the
codes behind the op code. An op code runs up to its memcached call, the call is
one step, and an increment that finds no key makes a second call (`AddDefault`) as a step
of its own. Other workers and evictions take their steps in between.

Each place where an op code returns has its own operator with its own pushes:
`GetterSuccess`, `GetterError`, `StoreSuccess`, `PushStr` and `SetterError`. That they all push what
the generated set codes pop is a property (`VariablesGetTheirOwn`), not a definition.

A call may be answered, refused, lost on the way, or carried out with its answer
lost (`Losses`). Allocations may fail (`AllocFails`), a worker may start without a handle
(`PushFails`), in which case the handle is NULL or what the memory held, and memcached
may drop keys (`Evicts`). A getter does not test its handle: `Crash`. A string is an
integer, in decimal, or one of `Text`; `FormatInt` is `%d` of an `ngx_int_t`, with `IntMod`
standing for 2^32, and `Offset` is the 32-bit delta of libmemcached's increment.
memcached's counters are taken as unbounded; they are 64 bits.

`MaxCount` bounds the counters: a new increment starts only below it.

Runs (2 workers, 1 key, symmetry in the workers):

- `rv2_statements`: every operation, with and without `$rc`, and refused statements, with
  every failure switched on. `VariablesGetTheirOwn`, `ReturnCodeIsHonest`.
- `rv2_counter`: increments by 1 and 2 on two nodes, all losses, no evictions.
  `TicketsIncrease`, `AckedIncrementsKept`. Two workers meet in the window between the
  increment and the add.
- `rv2_no_handle` (violation): a set through a NULL handle reports SUCCESS.
- `rv2_newval` (violation): with `IntMod = 8` a counter of 4 is given as -4.

Proved: in `Rv2Proofs`, for any workers, nodes, keys, statements and failures,
`TypeCorrect`, `ReturnCodesAreHonest` and `StatementsBalanceStack`. The invariant has one
part per worker (`WorkerOK`) which says for each phase what is on the stack, which codes
are left and how often the server was changed; a step of one worker leaves the
parts of the others alone. One lemma per return shows that it pushes what the set codes
need (`Pushed`). In `Rv2CounterProofs`, under `CounterOnly` (keys are only read
and incremented by positive deltas whose first value fits an int, and nothing is
evicted): `IncrementsGiveNewNumbers` and `IncrementsAreKept`. `CounterOnly` is needed: a
`rv_set`, a decrement or an eviction legitimately takes a counter back.

`ReturnCodeIsHonest` allows ERROR and INTERNAL after a change: the answer may have been
lost, or the memory for it.

## McmFilter: prefix, value and suffix through a small buffer

One request. Bytes are identified by where they come from and their number there, so
that a lost, repeated or overwritten byte shows. `mem` is `u->buffer`; a queued buf
refers to places in it (`Region`) and is read only when the client takes it (`Deref`), so
reusing the buffer too early would show. `u` holds `u->length`, `ctx->rest`, `b->last`
and the queue.

`Handler`, `HeaderPart`, `HeaderEnd` (process_header, send_response, filter_init and the
first filter call), `Write` and `Recv` (the two halves of a turn of
`process_non_buffered_body`), `Break`, and the early ends `HeaderFails` and `Abort`. Pieces have
any size, the client takes any number of bytes. `process_header` compares the byte
behind what was received with a line feed; with `StaleLF` that byte may be one, and the
request goes to the phase "misparsed", which is not followed.

nginx ends every response that has begun in one way: `finalize_request` with 0, then the
LAST buf. A complete value, a value cut off by the end of memcached's connection, a
timer and an error after the header are therefore all the phase "done"; the history
variable `aborted` records the last two. A client can tell a truncated value only by the
announced length.

The prefix is the length of what `ctx->pre` holds. The context is not cleared when it is
allocated, so where a location sets no `$memcached_prefix` this is leftover memory. Its
length is covered (any prefix length is a request); that reading it may end the worker,
as the module's own comment in line 2 says, is not modelled.

Runs: header line of 3 bytes, trailer of 7 (the real `MC_END_LEN`), values of 0 to 6
bytes, prefix and suffix of 0 to 2.

- `mcm_body`: buffer of 5, so that values are shorter than, as long as and longer than it.
  `ClientGetsBody`, `EndsWithAllReceived`, `WaitsForSomeone`, and `RequestEnds` under
  `WF_vars(Progress)`: memcached sends or closes, the client reads, nginx handles events.
  Timers and errors (`Abort`, `HeaderFails`) are not in `Progress`: the request ends without
  their help.

Proved (`McmFilterProofs`), for any buffer that holds the header line, any trailer
length and any requests: `TypeCorrect`, `ClientStream`, `ResponsesEndWithAllReceived`,
`NeverStalls`. The invariant `IInv` adds to these that the queue continues what the client
has (`QueueOK`, `Continues`), that `u->length` and `ctx->rest` count the bytes still to come,
and that queued regions lie below `b->last`, so receiving cannot overwrite them.

## What is only model-checked

- Liveness (`RequestEnds` of `UpstreamHash` and of `McmFilter`): temporal reasoning under
  fairness is outside the proof system's reach.
- The six violation runs, which are counterexamples.

Every safety property of the passing runs has a theorem.

## What is not modelled

- The directives' parsing and code generation (all modules). `Rv2!SetCodes` takes the
  order of the generated codes as given, and a setter's op code as it was generated:
  that its fields are written through a pointer into an array which may have moved is
  not modelled.
- `memcached_more`: a subrequest's body in memory, the value variable, the parsing of the
  header line's fields, and a fault on reading a prefix that was never set.
- Requests of one worker side by side, where they share nothing: each specification has
  one request (or one statement per worker).
- Logging, formatting other than `%d`, build scripts, configuration templates.

## Plan

1. `RemoteVar` (rv): reconnect, default of counters without `add`, against the same
   abstract counter as rv2; `ListVar` (list): two requests sharing configuration memory.
2. `StrUtil`: split and join as functions against reference definitions, termination of
   the split; `Repl` likewise.
3. `HttpCheck`: header search over pieces and state kept over retries; `McParse`: the
   protocol parser over cut buffers, against parsing the whole input.
4. `HashTable` (with rv2's and usset's lookups) and `Rv2Config`: code generation with an
   array that moves, composed with `Rv2`'s stack discipline.
5. Proofs: the lookups of `HashTable`, stack discipline of `Rv2Config`, safety of
   `HttpCheck` and `RemoteVar`.
