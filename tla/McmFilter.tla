----------------------------- MODULE McmFilter ------------------------------
(***************************************************************************)
(* One request of ngx_http_memcached_more_module: the location's prefix,   *)
(* the value memcached holds and the suffix go to the client, while the    *)
(* value comes in through a small buffer in pieces of any size and the     *)
(* client takes what it wants when it wants.                               *)
(*                                                                         *)
(* The module's filters run inside nginx's loop for responses that are not *)
(* buffered (process_non_buffered_body), which is modelled one turn at a   *)
(* time: write what is queued, then read once.                             *)
(*                                                                         *)
(* memcached answers with a header line of HeadLen bytes, the value and    *)
(* the trailer "\r\nEND\r\n"; or with the line "END\r\n".                  *)
(***************************************************************************)
EXTENDS Integers, Sequences

CONSTANTS
    BufSize,    \* memcached_buffer_size
    HeadLen,    \* length of the header line
    EndLen,     \* MC_END_LEN
    Requests,   \* the requests and what memcached answers to them
    StaleLF     \* may a byte of the fresh buffer happen to be a line feed?

\* A request and memcached's answer.  prefix is the length of what ctx->pre
\* holds when the header is processed: the text the location set, or, where it
\* set none, what was left in the memory the context was allocated from.  That
\* such leftover may not be readable at all is outside this model.
Request ==
    [method : {"GET", "HEAD", "other"}, key : BOOLEAN, found : BOOLEAN,
     prefix : Nat, value : Nat, suffix : Nat]

ASSUME BufAssumption == BufSize \in Nat /\ HeadLen \in Nat \ {0} /\ HeadLen <= BufSize
ASSUME EndAssumption == EndLen \in Nat \ {0}
ASSUME RequestsAssumption == Requests \subseteq Request
ASSUME StaleAssumption == StaleLF \in BOOLEAN

VARIABLES
    req,        \* the request; prefix, value and suffix are lengths
    phase,      \* where the request is
    got,        \* how much of the response has been received
    mem,        \* the contents of u->buffer
    u,          \* u->length, ctx->rest, b->last, and the bytes of out_bufs and busy_bufs
    eof,        \* has memcached closed the connection, or a read failed?
    aborted,    \* history: was the request finalized by a timer or an error?
    announced,  \* the content length sent to the client
    client      \* the body the client has received

vars == <<req, phase, got, mem, u, eof, aborted, announced, client>>

-----------------------------------------------------------------------------
(* Bytes: where they come from and their number there                      *)

Bytes(where, n) == [k \in 1 .. n |-> [at |-> where, i |-> k]]

\* The k-th byte of memcached's response.
ResponseByte(k) ==
    CASE k <= HeadLen -> [at |-> "head", i |-> k]
      [] HeadLen < k /\ k <= HeadLen + req.value -> [at |-> "value", i |-> k - HeadLen]
      [] OTHER -> [at |-> "end", i |-> k - HeadLen - req.value]

ResponseLen == IF req.found THEN HeadLen + req.value + EndLen ELSE HeadLen

\* The k-th byte of the body the client should get.
BodyByte(k) ==
    CASE k <= req.prefix -> [at |-> "prefix", i |-> k]
      [] req.prefix < k /\ k <= req.prefix + req.value -> [at |-> "value", i |-> k - req.prefix]
      [] OTHER -> [at |-> "suffix", i |-> k - req.prefix - req.value]

BodyLen == req.prefix + req.value + req.suffix

\* n bytes of the buffer behind position p, as a queued buf refers to them.
Region(p, n) == [k \in 1 .. n |-> [at |-> "buffer", i |-> p + k]]

\* The byte that a queued buf's pointer a points to, in the buffer m.
Deref(m, a) == IF a.at = "buffer" THEN m[a.i] ELSE a

\* The buffer after n more bytes are received at its position p.
Received(p, n) ==
    [a \in 1 .. BufSize |-> IF p < a /\ a <= p + n THEN ResponseByte(got + a - p) ELSE mem[a]]

-----------------------------------------------------------------------------
(* The module's filters                                                    *)

\* ngx_http_mcm_add_suffix
AddSuffix(pend) == pend \o Bytes("suffix", req.suffix)

\* ngx_http_mcm_filter for n bytes behind s.last: while the value lasts they
\* are queued; the piece in which the trailer starts is cut there; once the
\* value is over any piece ends the response.
Filter(s, n) ==
    LET value == s.length - EndLen
        kept == s.pend \o Region(s.last, IF n <= value THEN n ELSE value)
        rest == s.rest - (n - value)
    IN
    CASE s.length = s.rest ->
           [length |-> 0, rest |-> 0, last |-> s.last, pend |-> AddSuffix(s.pend)]
      [] s.length # s.rest /\ n <= value ->
           [length |-> s.length - n, rest |-> s.rest, last |-> s.last + n, pend |-> kept]
      [] OTHER ->
           [length |-> rest, rest |-> rest, last |-> s.last + value,
            pend |-> IF rest = 0 THEN AddSuffix(kept) ELSE kept]

\* Mutant of FilterInit: without the trailer's length.
FilterInitNoEnd(last) ==
    [length |-> BodyLen - req.prefix - req.suffix, rest |-> u.rest, last |-> last,
     pend |-> Bytes("prefix", req.prefix)]

\* ngx_http_mcm_filter_init, after process_header announced BodyLen.
FilterInit(last) ==
    [length |-> BodyLen + EndLen - req.prefix - req.suffix, rest |-> u.rest, last |-> last,
     pend |-> Bytes("prefix", req.prefix)]

-----------------------------------------------------------------------------

Init ==
    /\ req \in Requests
    /\ phase = "start"
    /\ got = 0
    /\ mem = [a \in 1 .. BufSize |-> [at |-> "stale", i |-> a]]
    /\ u = [length |-> 0, rest |-> 0, last |-> 0, pend |-> <<>>]
    /\ eof = FALSE
    /\ aborted = FALSE
    /\ announced = 0
    /\ client = <<>>

\* ngx_http_mcm_handler and create_request
Handler ==
    /\ phase = "start"
    /\ phase' = CASE req.method = "other" -> "not_allowed"
                  [] req.method # "other" /\ ~req.key -> "failed"
                  [] OTHER -> "header"
    /\ u' = [u EXCEPT !.rest = EndLen]
    /\ UNCHANGED <<req, got, mem, eof, aborted, announced, client>>

\* A piece of the header line comes in without its end.  process_header looks
\* for the line feed up to and including the first byte not received; what it
\* makes of a line that ends there is not followed.
HeaderPart ==
    /\ phase = "header"
    /\ \E n \in 1 .. HeadLen - got - 1 :
          /\ got' = got + n
          /\ mem' = Received(u.last, n)
          /\ u' = [u EXCEPT !.last = @ + n]
    /\ phase' \in {"header"} \cup (IF StaleLF THEN {"misparsed"} ELSE {})
    /\ UNCHANGED <<req, eof, aborted, announced, client>>

\* The header line is complete, and n - size bytes of its piece belong to it.
\* process_header, then nginx's send_response with filter_init and, if more
\* came with the line, filter.
HeaderEnd ==
    /\ phase = "header"
    /\ \E n \in 1 .. BufSize - u.last :
          LET size == got + n - HeadLen IN
          /\ HeadLen <= got + n /\ got + n <= ResponseLen
          /\ got' = got + n
          /\ mem' = Received(u.last, n)
          /\ announced' = IF req.found THEN BodyLen ELSE announced
          /\ \/ /\ ~req.found
                /\ phase' = "not_found" /\ UNCHANGED u
             \/ /\ req.found /\ req.method = "HEAD"
                /\ phase' = "done" /\ UNCHANGED u
             \/ /\ req.found /\ req.method # "HEAD" /\ size = 0
                /\ phase' = "read" /\ u' = FilterInit(0)
             \/ /\ req.found /\ req.method # "HEAD" /\ size > 0
                /\ phase' = "write" /\ u' = Filter(FilterInit(HeadLen), size)
    /\ UNCHANGED <<req, eof, aborted, client>>

\* No header line in time, or none at all: ngx_http_upstream_next takes over.
HeaderFails ==
    /\ phase = "header"
    /\ phase' = "failed"
    /\ UNCHANGED <<req, got, mem, u, eof, aborted, announced, client>>

\* Mutant of BufferLast: the buffer is used again before the client has it all.
BufferLastReset(all) == IF u.length # 0 /\ ~eof THEN 0 ELSE u.last

\* Where the buffer's free part starts after a write.
BufferLast(all) == IF all /\ u.length # 0 /\ ~eof THEN 0 ELSE u.last

\* Mutant of Write: once the connection has ended, the queue is not waited for.
WriteDropsQueue ==
    /\ phase \in {"write", "wait"}
    /\ \E k \in 0 .. Len(u.pend) :
          LET all == k = Len(u.pend) IN
          /\ phase = "wait" => k > 0
          /\ client' = client \o [j \in 1 .. k |-> Deref(mem, u.pend[j])]
          /\ u' = [length |-> u.length, rest |-> u.rest, last |-> BufferLast(all),
                   pend |-> SubSeq(u.pend, k + 1, Len(u.pend))]
          /\ phase' = IF (all /\ u.length = 0) \/ eof THEN "done" ELSE "read"
    /\ UNCHANGED <<req, got, mem, eof, aborted, announced>>

\* The first half of a turn of process_non_buffered_body: the client takes k
\* bytes.  A waiting request gets here when the client can take some.
\* With the queue empty the response is over when nothing is missing, and also
\* when nothing more can come: both are finalized with 0, then LAST is sent.
Write ==
    /\ phase \in {"write", "wait"}
    /\ \E k \in 0 .. Len(u.pend) :
          LET all == k = Len(u.pend) IN
          /\ phase = "wait" => k > 0
          /\ client' = client \o [j \in 1 .. k |-> Deref(mem, u.pend[j])]
          /\ u' = [length |-> u.length, rest |-> u.rest, last |-> BufferLast(all),
                   pend |-> SubSeq(u.pend, k + 1, Len(u.pend))]
          /\ phase' = IF all /\ (u.length = 0 \/ eof) THEN "done" ELSE "read"
    /\ UNCHANGED <<req, got, mem, eof, aborted, announced>>

\* How much the second half may read.
Size == IF BufSize - u.last > u.length THEN u.length ELSE BufSize - u.last

\* Mutant of Recv: nothing is written after the end of the connection.
RecvIgnoresEof ==
    /\ phase \in {"read", "wait"} /\ Size > 0 /\ ~eof
    /\ \/ \E n \in 1 .. Size :
             /\ got + n <= ResponseLen
             /\ got' = got + n
             /\ mem' = Received(u.last, n)
             /\ u' = Filter(u, n)
             /\ phase' = "write" /\ UNCHANGED eof
       \/ eof' = TRUE /\ phase' = "wait" /\ UNCHANGED <<got, mem, u>>
    /\ UNCHANGED <<req, aborted, announced, client>>

\* The second half: a piece, or the end of the connection.  A waiting request
\* gets here when memcached's connection has something.
Recv ==
    /\ phase \in {"read", "wait"} /\ Size > 0 /\ ~eof
    /\ \/ \E n \in 1 .. Size :
             /\ got + n <= ResponseLen
             /\ got' = got + n
             /\ mem' = Received(u.last, n)
             /\ u' = Filter(u, n)
             /\ UNCHANGED eof
       \/ eof' = TRUE /\ UNCHANGED <<got, mem, u>>
    /\ phase' = "write"
    /\ UNCHANGED <<req, aborted, announced, client>>

\* Nothing to read now, or no room: the loop ends and nginx waits for events.
Break ==
    /\ phase = "read"
    /\ phase' = "wait"
    /\ UNCHANGED <<req, got, mem, u, eof, aborted, announced, client>>

\* The request is finalized early: memcached or the client timed out, the
\* client is gone, or an allocation failed.  The header is sent, and nginx ends
\* the response the way it ends a complete one.
Abort ==
    /\ phase \in {"write", "read", "wait"}
    /\ phase' = "done"
    /\ aborted' = TRUE
    /\ UNCHANGED <<req, got, mem, u, eof, announced, client>>

Next ==
    \/ Handler \/ HeaderPart \/ HeaderEnd \/ HeaderFails
    \/ Write \/ Recv \/ Break \/ Abort

Spec == Init /\ [][Next]_vars

\* The steps that need no timer and no error.
Progress == Handler \/ HeaderPart \/ HeaderEnd \/ Write \/ Recv \/ Break

\* memcached sends what it has or closes the connection, the client takes what
\* it is sent, and nginx handles the events.
FairSpec == Spec /\ WF_vars(Progress)

-----------------------------------------------------------------------------
(* Properties                                                              *)

Byte == [at : {"head", "value", "end", "prefix", "suffix", "stale", "buffer"}, i : Int]
Upstream == [length : Nat, rest : 0 .. EndLen, last : 0 .. BufSize, pend : Seq(Byte)]
Ends == {"done", "failed", "not_found", "not_allowed", "misparsed"}

\* The types of the state; u->length, ctx->rest and the sizes are unsigned in
\* the code and never go below zero, and b->last stays in the buffer.
TypeOK ==
    /\ req \in Requests
    /\ phase \in {"start", "header", "write", "read", "wait"} \cup Ends
    /\ got \in Nat /\ got <= ResponseLen
    /\ mem \in [1 .. BufSize -> Byte]
    /\ u \in Upstream
    /\ eof \in BOOLEAN
    /\ aborted \in BOOLEAN
    /\ announced \in Nat
    /\ client \in Seq(Byte)

\* However memcached's answer is cut into pieces, whatever the buffer's size
\* and however slow the client is, the client gets the prefix, the value and
\* the suffix in this order: no byte is lost, repeated or overwritten in the
\* buffer before it is sent, and none of the trailer gets through.
ClientGetsBody ==
    /\ Len(client) <= BodyLen
    /\ \A k \in 1 .. Len(client) : client[k] = BodyByte(k)

\* How much of the value has been received.
ValueGot == IF got - HeadLen < req.value THEN got - HeadLen ELSE req.value

\* nginx gives every response that has begun the same end: finalized with 0,
\* LAST sent (ngx_http_upstream_finalize_request).  Unless a timer or an error
\* cut it off, the client then has as much as the header announced, or, when
\* memcached's connection ended early, all of the value that was received: the
\* queue is never thrown away, and no length check of the filters ends the
\* response too soon.
EndsWithAllReceived ==
    phase = "done" /\ ~aborted =>
        /\ announced = BodyLen
        /\ req.method # "HEAD" =>
              Len(client) = IF eof THEN req.prefix + ValueGot ELSE announced

\* A request that waits has queued bytes for the client, or room in the
\* buffer for bytes that memcached still has to send: it never waits for
\* nobody, with a full buffer or behind the end of the connection.
WaitsForSomeone ==
    phase = "wait" => u.pend # <<>> \/ (Size > 0 /\ ~eof /\ got < ResponseLen)

\* As long as memcached and the client keep going, every request ends, without
\* a timer's help: nginx does not stall between the two.
RequestEnds == <>(phase \in Ends)
=============================================================================
