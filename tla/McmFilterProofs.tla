--------------------------- MODULE McmFilterProofs --------------------------
(***************************************************************************)
(* The client gets prefix, value and suffix, for every buffer size, every  *)
(* length of the three and every way memcached's answer is cut.            *)
(***************************************************************************)
EXTENDS McmFilter, SequenceTheorems, TLAPS

\* A function on 1 .. n is a sequence of length n.
LEMMA FunIsSeq ==
    ASSUME NEW S, NEW n \in Nat, NEW f \in [1 .. n -> S]
    PROVE  f \in Seq(S) /\ Len(f) = n
<1>1. f \in Seq(S)
  BY SeqDef
<1>2. Len(f) \in Nat /\ DOMAIN f = 1 .. Len(f)
  BY <1>1, LenProperties
<1>3. 1 .. n = 1 .. Len(f)
  BY <1>2
<1>4. QED
  BY <1>1, <1>2, <1>3

\* The addresses of a text: as many as it has bytes, in order.
LEMMA BytesFacts ==
    ASSUME NEW w \in {"prefix", "suffix"}, NEW n \in Nat
    PROVE  /\ Bytes(w, n) \in Seq(Byte) /\ Len(Bytes(w, n)) = n
           /\ \A k \in 1 .. n : Bytes(w, n)[k] = [at |-> w, i |-> k]
<1>1. Bytes(w, n) \in [1 .. n -> Byte]
  BY DEF Bytes, Byte
<1>2. QED
  BY <1>1, FunIsSeq DEF Bytes

\* The addresses of a piece of the buffer.
LEMMA RegionFacts ==
    ASSUME NEW p \in Nat, NEW n \in Nat
    PROVE  /\ Region(p, n) \in Seq(Byte) /\ Len(Region(p, n)) = n
           /\ \A k \in 1 .. n : Region(p, n)[k] = [at |-> "buffer", i |-> p + k]
<1>1. Region(p, n) \in [1 .. n -> Byte]
  BY DEF Region, Byte
<1>2. QED
  BY <1>1, FunIsSeq DEF Region

\* The numbers of a request.
LEMMA RequestFacts ==
    ASSUME req \in Requests
    PROVE  /\ req.prefix \in Nat /\ req.value \in Nat /\ req.suffix \in Nat
           /\ req.found \in BOOLEAN /\ req.key \in BOOLEAN
           /\ req.method \in {"GET", "HEAD", "other"}
           /\ BodyLen \in Nat /\ ResponseLen \in Nat
           /\ BodyLen = req.prefix + req.value + req.suffix
BY RequestsAssumption, BufAssumption, EndAssumption DEF Request, BodyLen, ResponseLen

\* Whatever its position, a byte of the answer is a byte.
LEMMA ResponseByteType ==
    ASSUME req \in Requests, NEW k \in Int
    PROVE  ResponseByte(k) \in Byte
BY RequestFacts, BufAssumption DEF ResponseByte, Byte

\* What the buffer holds after n bytes are received behind p.
LEMMA ReceivedFacts ==
    ASSUME TypeOK, NEW p \in Nat, NEW n \in Nat, p + n <= BufSize
    PROVE  /\ Received(p, n) \in [1 .. BufSize -> Byte]
           /\ \A a \in 1 .. BufSize : a <= p => Received(p, n)[a] = mem[a]
           /\ \A k \in 1 .. n : Received(p, n)[p + k] = ResponseByte(got + k)
<1>1. req \in Requests /\ got \in Nat /\ mem \in [1 .. BufSize -> Byte] /\ BufSize \in Nat
  BY BufAssumption DEF TypeOK
<1>2. \A a \in 1 .. BufSize : ResponseByte(got + a - p) \in Byte
  BY <1>1, ResponseByteType
<1>3. Received(p, n) \in [1 .. BufSize -> Byte]
  BY <1>1, <1>2 DEF Received
<1>4. \A a \in 1 .. BufSize : a <= p => Received(p, n)[a] = mem[a]
  BY <1>1 DEF Received
<1>5. ASSUME NEW k \in 1 .. n
      PROVE  Received(p, n)[p + k] = ResponseByte(got + k)
  <2>1. p + k \in 1 .. BufSize /\ p < p + k /\ p + k <= p + n /\ got + (p + k) - p = got + k
    BY <1>1
  <2>2. QED
    BY <2>1 DEF Received
<1>6. QED
  BY <1>3, <1>4, <1>5

-----------------------------------------------------------------------------
(* The queue                                                               *)

\* How much of the body has been sent or queued, when u->length is l.
Queued(l) ==
    IF l = 0 THEN BodyLen
    ELSE IF l < EndLen THEN req.prefix + req.value
    ELSE req.prefix + req.value + EndLen - l

\* The queue q continues the c bytes the client has: in the buffer m, every
\* pointer is up to position l and points to the byte that the client needs.
Continues(q, c, m, l) ==
    \A k \in 1 .. Len(q) :
        /\ Deref(m, q[k]) = BodyByte(c + k)
        /\ q[k].at = "buffer" => q[k].i \in 1 .. l

\* The queue s continues the c bytes the client has, in the buffer m after g
\* bytes of the response, and ctx->rest is what u->length has of the trailer.
QueueOK(s, c, m, g) ==
    /\ s.rest = IF s.length < EndLen THEN s.length ELSE EndLen
    /\ s.length <= req.value + EndLen
    /\ s.length > 0 => g = HeadLen + req.value + EndLen - s.length
    /\ c + Len(s.pend) = Queued(s.length)
    /\ Continues(s.pend, c, m, s.last)

\* The suffix ends the body.
LEMMA AddSuffixKeeps ==
    ASSUME NEW c \in Nat, NEW m, NEW l \in Nat, NEW q \in Seq(Byte)
    PROVE  req \in Requests /\ c + Len(q) = req.prefix + req.value /\ Continues(q, c, m, l) =>
           /\ AddSuffix(q) \in Seq(Byte)
           /\ c + Len(AddSuffix(q)) = BodyLen
           /\ Continues(AddSuffix(q), c, m, l)
<1>0. SUFFICES ASSUME req \in Requests, c + Len(q) = req.prefix + req.value, Continues(q, c, m, l)
               PROVE  /\ AddSuffix(q) \in Seq(Byte)
                      /\ c + Len(AddSuffix(q)) = BodyLen
                      /\ Continues(AddSuffix(q), c, m, l)
  OBVIOUS
<1> DEFINE t == Bytes("suffix", req.suffix)
           p == q \o t
           P == req.prefix
           V == req.value
           S == req.suffix
           Q == Len(q)
<1>1. /\ t \in Seq(Byte) /\ Len(t) = S /\ S \in Nat /\ P \in Nat /\ V \in Nat /\ Q \in Nat
      /\ \A k \in 1 .. S : t[k] = [at |-> "suffix", i |-> k]
  BY <1>0, RequestFacts, BytesFacts, LenProperties
<1>a. S \in Nat /\ P \in Nat /\ V \in Nat /\ Q \in Nat /\ c + Q = P + V /\ BodyLen = P + V + S
  BY <1>0, <1>1, RequestFacts
<1> HIDE DEF t, S
<1>2. /\ p \in Seq(Byte) /\ Len(p) = Q + S
      /\ \A k \in 1 .. Len(p) : p[k] = IF k <= Q THEN q[k] ELSE t[k - Q]
  <2>1. t \in Seq(Byte) /\ Len(t) = S
    BY <1>1
  <2>2. /\ q \o t \in Seq(Byte)
        /\ Len(q \o t) = Len(q) + Len(t)
        /\ \A k \in 1 .. Len(q) + Len(t) : (q \o t)[k] = IF k <= Len(q) THEN q[k] ELSE t[k - Len(q)]
    BY <2>1, ConcatProperties
  <2>3. QED
    BY <2>1, <2>2
<1>3. AddSuffix(q) = p
  BY DEF AddSuffix, t, S
<1> HIDE DEF p, P, V, Q
<1>4. ASSUME NEW k \in 1 .. Len(p)
      PROVE  /\ Deref(m, p[k]) = BodyByte(c + k)
             /\ p[k].at = "buffer" => p[k].i \in 1 .. l
  <2>1. CASE k <= Q
    <3>1. p[k] = q[k] /\ k \in 1 .. Len(q)
      BY <1>2, <1>a, <2>1 DEF Q
    <3>2. QED
      BY <1>0, <3>1 DEF Continues
  <2>2. CASE k > Q
    <3>1. PICK j \in 1 .. S : k = Q + j
      <4>1. k \in 1 .. Q + S
        BY <1>2
      <4>2. k - Q \in 1 .. S /\ k = Q + (k - Q)
        BY <1>a, <2>2, <4>1
      <4>3. QED
        BY <4>2
    <3>2. ~(k <= Q) /\ k - Q = j /\ k \in 1 .. Len(p)
      BY <1>a, <3>1, <2>2
    <3>3. p[k] = [at |-> "suffix", i |-> j]
      <4>1. p[k] = t[j]
        BY <1>2, <3>2
      <4>2. QED
        BY <1>1, <4>1
    <3>4. ~(c + k <= P) /\ ~(c + k <= P + V) /\ (c + k) - P - V = j
      BY <1>a, <3>1
    <3>5. BodyByte(c + k) = [at |-> "suffix", i |-> j]
      BY <3>4 DEF BodyByte, P, V
    <3>6. QED
      BY <3>3, <3>5 DEF Deref
  <2>3. QED
    BY <1>2, <1>a, <2>1, <2>2
<1>5. c + Len(p) = BodyLen
  BY <1>2, <1>a
<1>6. QED
  BY <1>2, <1>3, <1>4, <1>5 DEF Continues

\* The n bytes of the buffer m behind position l are those of the value behind v.
Holds(m, l, n, v) == \A k \in 1 .. n : m[l + k] = ResponseByte(HeadLen + v + k)

\* The next n bytes of the value, received behind position l, continue the body.
LEMMA RegionKeeps ==
    ASSUME NEW c \in Nat, NEW m, NEW l \in Nat, NEW n \in Nat, NEW v \in Nat, NEW q \in Seq(Byte)
    PROVE  /\ req \in Requests /\ v + n <= req.value /\ c + Len(q) = req.prefix + v
           /\ Holds(m, l, n, v) /\ Continues(q, c, m, l)
           =>
           /\ q \o Region(l, n) \in Seq(Byte)
           /\ Len(q \o Region(l, n)) = Len(q) + n
           /\ Continues(q \o Region(l, n), c, m, l + n)
<1>0. SUFFICES ASSUME req \in Requests, v + n <= req.value, c + Len(q) = req.prefix + v,
                      Holds(m, l, n, v), Continues(q, c, m, l)
               PROVE  /\ q \o Region(l, n) \in Seq(Byte)
                      /\ Len(q \o Region(l, n)) = Len(q) + n
                      /\ Continues(q \o Region(l, n), c, m, l + n)
  OBVIOUS
<1> DEFINE t == Region(l, n)
           p == q \o t
<1>1. /\ t \in Seq(Byte) /\ Len(t) = n /\ HeadLen \in Nat
      /\ req.prefix \in Nat /\ req.value \in Nat
      /\ \A k \in 1 .. n : t[k] = [at |-> "buffer", i |-> l + k]
  BY <1>0, RequestFacts, RegionFacts, BufAssumption
<1> HIDE DEF t
<1>2. /\ p \in Seq(Byte) /\ Len(p) = Len(q) + n /\ Len(q) \in Nat
      /\ \A k \in 1 .. Len(p) : p[k] = IF k <= Len(q) THEN q[k] ELSE t[k - Len(q)]
  BY <1>1, ConcatProperties, LenProperties
<1> HIDE DEF p
<1>3. ASSUME NEW k \in 1 .. Len(p)
      PROVE  /\ Deref(m, p[k]) = BodyByte(c + k)
             /\ p[k].at = "buffer" => p[k].i \in 1 .. l + n
  <2>1. CASE k <= Len(q)
    <3>1. p[k] = q[k] /\ k \in 1 .. Len(q)
      BY <1>2, <2>1
    <3>2. Deref(m, q[k]) = BodyByte(c + k) /\ (q[k].at = "buffer" => q[k].i \in 1 .. l)
      BY <1>0, <3>1 DEF Continues
    <3>3. \A j : j \in 1 .. l => j \in 1 .. l + n
      OBVIOUS
    <3>4. QED
      BY <3>1, <3>2, <3>3
  <2>2. CASE k > Len(q)
    <3>0. k \in 1 .. Len(q) + n /\ Len(q) \in Nat
      BY <1>2
    <3>1. PICK j \in 1 .. n : k = Len(q) + j
      <4>1. k - Len(q) \in 1 .. n /\ k = Len(q) + (k - Len(q))
        BY <2>2, <3>0
      <4>2. QED
        BY <4>1
    <3>a. /\ Len(q) \in Nat /\ HeadLen \in Nat /\ req.prefix \in Nat /\ req.value \in Nat
          /\ v + n <= req.value /\ c + Len(q) = req.prefix + v /\ ~(k <= Len(q))
      BY <1>0, <1>1, <1>2, <2>2
    <3>2. p[k] = [at |-> "buffer", i |-> l + j]
      <4>1. p[k] = t[j]
        BY <1>2, <3>1, <3>a
      <4>2. t[j] = [at |-> "buffer", i |-> l + j]
        BY <1>1, <3>1
      <4>3. QED
        BY <4>1, <4>2
    <3>3. /\ ~(c + k <= req.prefix) /\ req.prefix < c + k /\ c + k <= req.prefix + req.value
          /\ (c + k) - req.prefix = v + j /\ l + j \in 1 .. l + n
      <4> DEFINE P == req.prefix
                 V == req.value
                 Q == Len(q)
      <4>1. P \in Nat /\ V \in Nat /\ Q \in Nat /\ v + n <= V /\ c + Q = P + v /\ k = Q + j
        BY <3>1, <3>a
      <4> HIDE DEF P, V, Q
      <4>2. ~(c + k <= P) /\ P < c + k /\ c + k <= P + V /\ (c + k) - P = v + j /\ l + j \in 1 .. l + n
        BY <4>1
      <4>3. QED
        BY <4>2 DEF P, V, Q
    <3>4. BodyByte(c + k) = [at |-> "value", i |-> v + j]
      BY <3>3 DEF BodyByte
    <3>5. /\ ~(HeadLen + v + j <= HeadLen) /\ HeadLen < HeadLen + v + j
          /\ HeadLen + v + j <= HeadLen + req.value /\ (HeadLen + v + j) - HeadLen = v + j
      BY <3>1, <3>a, SMTT(30)
    <3>6. ResponseByte(HeadLen + v + j) = [at |-> "value", i |-> v + j]
      BY <3>5 DEF ResponseByte
    <3>7. m[l + j] = ResponseByte(HeadLen + v + j)
      BY <1>0, <3>1 DEF Holds
    <3>8. Deref(m, p[k]) = m[l + j] /\ p[k].i = l + j
      BY <3>2 DEF Deref
    <3>9. QED
      BY <3>3, <3>4, <3>6, <3>7, <3>8
  <2>3. QED
    BY <1>2, <2>1, <2>2
<1>4. QED
  BY <1>2, <1>3 DEF p, t, Continues

\* What QueueOK says of a queue with these fields.
LEMMA QueueFacts ==
    ASSUME NEW L \in Nat, NEW R, NEW B, NEW q, NEW c, NEW m, NEW g
    PROVE  QueueOK([length |-> L, rest |-> R, last |-> B, pend |-> q], c, m, g) <=>
           /\ R = IF L < EndLen THEN L ELSE EndLen
           /\ L <= req.value + EndLen
           /\ L > 0 => g = HeadLen + req.value + EndLen - L
           /\ c + Len(q) = Queued(L)
           /\ Continues(q, c, m, B)
BY DEF QueueOK

\* The buffer m2 is m with n more bytes behind position l, of the response
\* behind g.
Extended(m, m2, l, n, g) ==
    /\ \A a \in 1 .. BufSize : a <= l => m2[a] = m[a]
    /\ \A k \in 1 .. n : m2[l + k] = ResponseByte(g + k)

\* ngx_http_mcm_filter keeps the queue right.
LEMMA FilterKeeps ==
    ASSUME NEW L \in Nat, NEW R \in Nat, NEW B \in Nat, NEW q \in Seq(Byte),
           NEW c \in Nat, NEW m, NEW m2, NEW g \in Nat, NEW n \in Nat
    PROVE  LET s == [length |-> L, rest |-> R, last |-> B, pend |-> q] IN
           /\ req \in Requests /\ QueueOK(s, c, m, g) /\ 1 <= n /\ n <= L /\ B + n <= BufSize
           /\ Extended(m, m2, B, n, g)
           => Filter(s, n) \in Upstream /\ QueueOK(Filter(s, n), c, m2, g + n)
<1> DEFINE s == [length |-> L, rest |-> R, last |-> B, pend |-> q]
<1>0. SUFFICES
        ASSUME req \in Requests, QueueOK(s, c, m, g), 1 <= n, n <= L, B + n <= BufSize,
               Extended(m, m2, B, n, g)
        PROVE  Filter(s, n) \in Upstream /\ QueueOK(Filter(s, n), c, m2, g + n)
  OBVIOUS
<1> DEFINE P == req.prefix
           V == req.value
           Q == Len(q)
           E == EndLen
           W == L - E
           size == IF n <= W THEN n ELSE W
           kept == q \o Region(B, size)
<1>1. /\ P \in Nat /\ V \in Nat /\ Q \in Nat /\ E \in Nat /\ E > 0 /\ HeadLen \in Nat /\ BufSize \in Nat
      /\ BodyLen = P + V + req.suffix /\ BodyLen \in Nat
  BY <1>0, RequestFacts, EndAssumption, BufAssumption, LenProperties
<1>2. /\ R = IF L < E THEN L ELSE E
      /\ L <= V + E
      /\ L > 0 => g = HeadLen + V + E - L
      /\ c + Q = Queued(L)
      /\ Continues(q, c, m, B)
  BY <1>0, QueueFacts
<1>3. Queued(L) = IF L = 0 THEN BodyLen ELSE IF L < E THEN P + V ELSE P + V + E - L
  BY DEF Queued
<1>4. ASSUME NEW k \in 1 .. Q
      PROVE  Deref(m2, q[k]) = BodyByte(c + k)
  <2>1. CASE q[k].at = "buffer"
    <3>1. q[k].i \in 1 .. B
      BY <1>2, <2>1 DEF Continues
    <3>2. q[k].i \in 1 .. BufSize /\ q[k].i <= B
      <4>1. B <= BufSize
        BY <1>0, <1>1
      <4>2. QED
        BY <1>1, <3>1, <4>1
    <3>3. m2[q[k].i] = m[q[k].i]
      BY <1>0, <3>2 DEF Extended
    <3>4. QED
      BY <1>2, <2>1, <3>3 DEF Deref, Continues
  <2>2. CASE q[k].at # "buffer"
    BY <1>2, <2>2 DEF Deref, Continues
  <2>3. QED
    BY <2>1, <2>2
<1>5. Continues(q, c, m2, B)
  BY <1>2, <1>4 DEF Continues
<1>6. Filter(s, n) =
        IF L = R THEN [length |-> 0, rest |-> 0, last |-> B, pend |-> AddSuffix(q)]
        ELSE IF n <= W THEN [length |-> L - n, rest |-> R, last |-> B + n, pend |-> kept]
        ELSE [length |-> R - (n - W), rest |-> R - (n - W), last |-> B + W,
              pend |-> IF R - (n - W) = 0 THEN AddSuffix(kept) ELSE kept]
  BY DEF Filter
<1>a. 1 <= n /\ n <= L /\ B + n <= BufSize
  BY <1>0
<1> HIDE DEF s, P, V, Q, E
<1>7. CASE L = R
  <2> DEFINE p == AddSuffix(q)
  <2>1. c + Q = P + V /\ B \in 0 .. BufSize
    BY <1>1, <1>2, <1>3, <1>7, <1>a
  <2>2. /\ p \in Seq(Byte) /\ c + Len(p) = BodyLen
        /\ Continues(p, c, m2, B)
    BY <1>0, <1>5, <2>1, AddSuffixKeeps DEF P, V, Q
  <2> HIDE DEF p
  <2>3. Filter(s, n) = [length |-> 0, rest |-> 0, last |-> B, pend |-> p]
    BY <1>6, <1>7 DEF p
  <2>4. QueueOK([length |-> 0, rest |-> 0, last |-> B, pend |-> p], c, m2, g + n)
    <3>1. Queued(0) = BodyLen /\ 0 < EndLen /\ 0 <= req.value + EndLen
      BY <1>1 DEF Queued, V, E
    <3>2. QED
      BY <2>2, <3>1 DEF QueueOK
  <2>5. [length |-> 0, rest |-> 0, last |-> B, pend |-> p] \in Upstream
    BY <1>1, <2>1, <2>2 DEF Upstream, E
  <2>6. QED
    BY <2>3, <2>4, <2>5
<1>8. CASE L # R
  <2>1. W \in Nat /\ W > 0 /\ R = E /\ size \in 1 .. W /\ size <= n /\ W <= V
    BY <1>1, <1>2, <1>8, <1>a
  <2> DEFINE v == V - W
  <2>2. v \in Nat /\ v + size <= V /\ c + Q = P + v /\ size \in Nat /\ g = HeadLen + v
    BY <1>1, <1>2, <1>3, <1>a, <2>1
  <2>3. Holds(m2, B, size, v)
    <3>1. \A k \in 1 .. size : k \in 1 .. n
      BY <2>1
    <3>2. QED
      BY <1>0, <2>2, <3>1 DEF Holds, Extended
  <2> HIDE DEF v, size
  <2>4. /\ kept \in Seq(Byte) /\ Len(kept) = Q + size
        /\ Continues(kept, c, m2, B + size)
    <3>1. /\ v \in Nat /\ size \in Nat /\ v + size <= req.value /\ c + Len(q) = req.prefix + v
          /\ Holds(m2, B, size, v) /\ Continues(q, c, m2, B)
      BY <1>5, <2>2, <2>3 DEF P, V, Q
    <3>2. req \in Requests
      BY <1>0
    <3>3. /\ q \o Region(B, size) \in Seq(Byte)
          /\ Len(q \o Region(B, size)) = Len(q) + size
          /\ Continues(q \o Region(B, size), c, m2, B + size)
      BY <3>1, <3>2, RegionKeeps, Zenon
    <3>4. QED
      BY <3>3 DEF Q
  <2> HIDE DEF kept
  <2>5. CASE n <= W
    <3>1. /\ size = n /\ L - n \in Nat /\ L - n >= E /\ L - n # 0 /\ B + n \in 0 .. BufSize
          /\ c + (Q + size) = P + V + E - (L - n)
          /\ L - n <= V + E /\ g + n = HeadLen + V + E - (L - n)
      BY <1>1, <1>a, <2>1, <2>2, <2>5 DEF size, v
    <3>2. Filter(s, n) = [length |-> L - n, rest |-> R, last |-> B + n, pend |-> kept]
      BY <1>6, <1>8, <2>5
    <3>3. Queued(L - n) = P + V + E - (L - n)
      <4>1. ~(L - n < EndLen) /\ L - n # 0
        BY <1>1, <3>1 DEF E
      <4>2. QED
        BY <4>1 DEF Queued, P, V, E
    <3>4. QueueOK([length |-> L - n, rest |-> R, last |-> B + n, pend |-> kept], c, m2, g + n)
      <4>1. R = IF L - n < EndLen THEN L - n ELSE EndLen
        BY <1>1, <2>1, <3>1 DEF E
      <4>2. c + Len(kept) = Queued(L - n)
        BY <2>4, <3>1, <3>3
      <4>3. L - n <= req.value + EndLen /\ g + n = HeadLen + req.value + EndLen - (L - n)
        BY <3>1 DEF V, E
      <4> DEFINE LL == L - n
                 BB == B + n
                 gg == g + n
      <4>4. LL \in Nat /\ BB = B + size
        BY <3>1
      <4>5. QED
        <5>1. /\ R = IF LL < EndLen THEN LL ELSE EndLen
              /\ LL <= req.value + EndLen
              /\ LL > 0 => gg = HeadLen + req.value + EndLen - LL
              /\ c + Len(kept) = Queued(LL)
              /\ Continues(kept, c, m2, BB)
          BY <2>4, <4>1, <4>2, <4>3, <4>4
        <5> HIDE DEF LL, BB, gg
        <5>2. QueueOK([length |-> LL, rest |-> R, last |-> BB, pend |-> kept], c, m2, gg)
          BY <4>4, <5>1 DEF QueueOK
        <5>3. QED
          BY <5>2 DEF LL, BB, gg
    <3>5. [length |-> L - n, rest |-> R, last |-> B + n, pend |-> kept] \in Upstream
      BY <1>1, <2>1, <2>4, <3>1 DEF Upstream, E
    <3>6. QED
      BY <3>2, <3>4, <3>5
  <2>6. CASE n > W
    <3> DEFINE r == R - (n - W)
               BB == B + W
    <3>1. /\ size = W /\ r \in Nat /\ r < E /\ BB \in 0 .. BufSize /\ BB = B + size /\ BB \in Nat
          /\ c + (Q + size) = P + V /\ r = L - n /\ r <= V + E
          /\ g + n = HeadLen + V + E - r
      BY <1>1, <1>a, <2>1, <2>2, <2>6 DEF size, v
    <3>2. c + Len(kept) = P + V
      BY <2>4, <3>1
    <3>a. Filter(s, n) = [length |-> r, rest |-> r, last |-> BB,
                          pend |-> IF r = 0 THEN AddSuffix(kept) ELSE kept]
      BY <1>1, <1>6, <1>8, <2>1, <2>6
    <3> HIDE DEF r, BB
    <3>3. CASE r = 0
      <4> DEFINE p == AddSuffix(kept)
      <4>1. /\ p \in Seq(Byte) /\ c + Len(p) = BodyLen
            /\ Continues(p, c, m2, BB)
        <5>1. /\ Continues(kept, c, m2, BB) /\ c + Len(kept) = req.prefix + req.value
              /\ kept \in Seq(Byte) /\ BB \in Nat
          BY <2>4, <3>1, <3>2 DEF P, V
        <5>2. req \in Requests
          BY <1>0
        <5>3. QED
          BY <5>1, <5>2, AddSuffixKeeps
      <4> HIDE DEF p
      <4>2. Filter(s, n) = [length |-> 0, rest |-> 0, last |-> BB, pend |-> p]
        BY <3>a, <3>3 DEF p
      <4>3. QueueOK([length |-> 0, rest |-> 0, last |-> BB, pend |-> p], c, m2, g + n)
        <5>1. Queued(0) = BodyLen /\ 0 < EndLen /\ 0 <= req.value + EndLen
          BY <1>1 DEF Queued, V, E
        <5>2. QED
          BY <4>1, <5>1 DEF QueueOK
      <4>4. [length |-> 0, rest |-> 0, last |-> BB, pend |-> p] \in Upstream
        BY <1>1, <3>1, <4>1 DEF Upstream, E
      <4>5. QED
        BY <4>2, <4>3, <4>4
    <3>4. CASE r # 0
      <4>1. Filter(s, n) = [length |-> r, rest |-> r, last |-> BB, pend |-> kept]
        BY <3>a, <3>4
      <4>2. Queued(r) = P + V
        BY <3>1, <3>4 DEF Queued, P, V, E
      <4>3. QueueOK([length |-> r, rest |-> r, last |-> BB, pend |-> kept], c, m2, g + n)
        <5> DEFINE gg == g + n
        <5>1. /\ r = IF r < EndLen THEN r ELSE EndLen
              /\ r <= req.value + EndLen
              /\ r > 0 => gg = HeadLen + req.value + EndLen - r
              /\ c + Len(kept) = Queued(r)
              /\ Continues(kept, c, m2, BB)
          BY <2>4, <3>1, <3>2, <4>2 DEF V, E
        <5> HIDE DEF gg
        <5>2. QueueOK([length |-> r, rest |-> r, last |-> BB, pend |-> kept], c, m2, gg)
          BY <3>1, <5>1 DEF QueueOK
        <5>3. QED
          BY <5>2 DEF gg
      <4>4. [length |-> r, rest |-> r, last |-> BB, pend |-> kept] \in Upstream
        BY <1>1, <2>4, <3>1 DEF Upstream, E
      <4>5. QED
        BY <4>1, <4>3, <4>4
    <3>5. QED
      BY <3>3, <3>4
  <2>7. QED
    BY <1>1, <1>a, <2>1, <2>5, <2>6
<1>9. QED
  BY <1>7, <1>8

\* The filter keeps the queue in order when the buffer has got n more bytes.
LEMMA FilterQueue ==
    ASSUME NEW s \in Upstream, NEW c \in Nat, NEW m, NEW m2, NEW g \in Nat, NEW n \in Nat
    PROVE  /\ req \in Requests /\ QueueOK(s, c, m, g) /\ 1 <= n /\ n <= s.length /\ s.last + n <= BufSize
           /\ Extended(m, m2, s.last, n, g)
           => Filter(s, n) \in Upstream /\ QueueOK(Filter(s, n), c, m2, g + n)
<1>1. /\ s = [length |-> s.length, rest |-> s.rest, last |-> s.last, pend |-> s.pend]
      /\ s.length \in Nat /\ s.rest \in Nat /\ s.last \in Nat /\ s.pend \in Seq(Byte)
  BY EndAssumption, BufAssumption DEF Upstream
<1> DEFINE L == s.length
           R == s.rest
           B == s.last
           q == s.pend
<1>2. s = [length |-> L, rest |-> R, last |-> B, pend |-> q] /\ L \in Nat /\ R \in Nat /\ B \in Nat /\ q \in Seq(Byte)
  BY <1>1
<1> HIDE DEF L, R, B, q
<1>3. LET t == [length |-> L, rest |-> R, last |-> B, pend |-> q] IN
      /\ req \in Requests /\ QueueOK(t, c, m, g) /\ 1 <= n /\ n <= L /\ B + n <= BufSize
      /\ Extended(m, m2, B, n, g)
      => Filter(t, n) \in Upstream /\ QueueOK(Filter(t, n), c, m2, g + n)
  BY <1>2, FilterKeeps, Zenon
<1>4. /\ req \in Requests /\ QueueOK(s, c, m, g) /\ 1 <= n /\ n <= L /\ B + n <= BufSize
      /\ Extended(m, m2, B, n, g)
      => Filter(s, n) \in Upstream /\ QueueOK(Filter(s, n), c, m2, g + n)
  BY <1>2, <1>3, Zenon
<1>5. QED
  BY <1>4 DEF L, B

-----------------------------------------------------------------------------
(* The inductive invariant                                                 *)

IInv ==
    /\ TypeOK
    /\ ClientGetsBody
    /\ EndsWithAllReceived
    /\ phase \in {"start", "header"} => client = <<>> /\ ~eof
    /\ phase = "start" => got = 0 /\ u.last = 0
    /\ phase = "header" => u.rest = EndLen /\ u.last = got /\ got < HeadLen
    /\ phase \in {"write", "read", "wait"} =>
          /\ req.found /\ announced = BodyLen /\ QueueOK(u, Len(client), mem, got)
          /\ eof => u.length > 0
    /\ phase \in {"read", "wait"} /\ u.pend = <<>> => u.last = 0 /\ u.length > 0 /\ ~eof

\* The invariant holds before the request is handled.
LEMMA IInvInit == Init => IInv
<1> SUFFICES ASSUME Init PROVE IInv
  OBVIOUS
<1>1. TypeOK
  <2>1. mem \in [1 .. BufSize -> Byte] /\ u \in Upstream /\ client \in Seq(Byte)
    BY BufAssumption, EndAssumption DEF Init, Byte, Upstream
  <2>2. got \in Nat /\ got <= ResponseLen
    BY RequestFacts DEF Init
  <2>3. QED
    BY <2>1, <2>2 DEF Init, TypeOK
<1>2. ClientGetsBody
  BY RequestFacts DEF Init, ClientGetsBody
<1>3. QED
  BY <1>1, <1>2 DEF Init, IInv, EndsWithAllReceived

\* The handler keeps the invariant.
LEMMA HandlerKeeps == ASSUME IInv, Handler PROVE IInv'
<1>1. TypeOK'
  BY EndAssumption DEF IInv, TypeOK, Handler, Upstream, Ends, ResponseLen
<1>2. ClientGetsBody'
  BY DEF IInv, Handler, ClientGetsBody, BodyLen, BodyByte
<1>3. phase' \in {"not_allowed", "failed", "header"}
  BY DEF Handler
<1>4. u'.rest = EndLen /\ u'.last = u.last
  BY DEF Handler, IInv, TypeOK, Upstream
<1>5. QED
  BY <1>1, <1>2, <1>3, <1>4, BufAssumption DEF IInv, Handler, EndsWithAllReceived

\* A header that is not complete yet keeps the invariant.
LEMMA HeaderPartKeeps == ASSUME IInv, HeaderPart PROVE IInv'
<1>1. PICK n \in 1 .. HeadLen - got - 1 :
        got' = got + n /\ mem' = Received(u.last, n) /\ u' = [u EXCEPT !.last = @ + n]
  BY DEF HeaderPart
<1>2. /\ TypeOK /\ got \in Nat /\ u.last = got /\ got + n < HeadLen /\ HeadLen \in Nat /\ n \in Nat
      /\ HeadLen <= BufSize /\ BufSize \in Nat /\ u \in Upstream
  BY BufAssumption DEF IInv, HeaderPart, TypeOK
<1>3. u.last + n <= BufSize /\ got + n \in 0 .. BufSize /\ got + n \in Nat /\ u.last \in Nat
  BY <1>2
<1>4. mem' \in [1 .. BufSize -> Byte]
  BY <1>1, <1>2, <1>3, ReceivedFacts
<1>5. u' \in Upstream /\ u'.last = got' /\ u'.rest = u.rest
  BY <1>1, <1>2, <1>3 DEF Upstream
<1>6. got + n <= ResponseLen
  BY <1>2, RequestFacts, EndAssumption, SMTT(30) DEF ResponseLen, IInv, TypeOK
<1>7. phase' \in {"header", "misparsed"}
  BY DEF HeaderPart
<1>8. TypeOK'
  BY <1>1, <1>3, <1>4, <1>5, <1>6, <1>7 DEF IInv, TypeOK, HeaderPart, Ends, ResponseLen
<1>9. ClientGetsBody'
  BY DEF IInv, HeaderPart, ClientGetsBody, BodyLen, BodyByte
<1>10. QED
  BY <1>1, <1>2, <1>5, <1>7, <1>8, <1>9 DEF IInv, HeaderPart, EndsWithAllReceived

\* A step that only changes the phase, to an end or from reading to waiting.
LEMMA QuietKeeps ==
    ASSUME IInv, HeaderFails \/ Break \/ Abort
    PROVE  IInv'
<1>1. UNCHANGED <<req, got, mem, u, eof, announced, client>> /\ aborted' \in BOOLEAN
  BY DEF HeaderFails, Break, Abort, IInv, TypeOK
<1>2. \/ phase' = "failed"
      \/ phase' = "done" /\ aborted'
      \/ phase = "read" /\ phase' = "wait"
  BY DEF HeaderFails, Break, Abort
<1>3. TypeOK' /\ ClientGetsBody'
  BY <1>1, <1>2 DEF IInv, TypeOK, Ends, ResponseLen, ClientGetsBody, BodyLen, BodyByte
<1>4. phase = "read" => QueueOK(u, Len(client), mem, got)'
  BY <1>1 DEF IInv, QueueOK, Queued, Continues, BodyLen, BodyByte
<1>5. EndsWithAllReceived'
  BY <1>2 DEF EndsWithAllReceived
<1>6. QED
  BY <1>1, <1>2, <1>3, <1>4, <1>5 DEF IInv, BodyLen

\* The queue of the next state, written with the next values.
LEMMA QueuePrime ==
    ASSUME req' = req, QueueOK(u', Len(client'), mem', got')
    PROVE  QueueOK(u, Len(client), mem, got)'
BY DEF QueueOK, Queued, Continues, BodyLen, BodyByte

\* The queue right after ngx_http_mcm_filter_init.
LEMMA FilterInitOK ==
    ASSUME TypeOK, u.rest = EndLen, NEW l \in 0 .. BufSize, NEW m
    PROVE  /\ FilterInit(l) \in Upstream
           /\ FilterInit(l).length = req.value + EndLen /\ FilterInit(l).last = l
           /\ QueueOK(FilterInit(l), 0, m, HeadLen)
<1> DEFINE q == Bytes("prefix", req.prefix)
           P == req.prefix
           V == req.value
           S == req.suffix
           E == EndLen
<1>1. /\ P \in Nat /\ V \in Nat /\ S \in Nat /\ E \in Nat /\ E > 0 /\ HeadLen \in Nat /\ BodyLen = P + V + S
  BY RequestFacts, EndAssumption, BufAssumption DEF TypeOK
<1>2. q \in Seq(Byte) /\ Len(q) = P /\ \A k \in 1 .. P : q[k] = [at |-> "prefix", i |-> k]
  BY <1>1, BytesFacts
<1>3. FilterInit(l) = [length |-> BodyLen + E - P - S, rest |-> E, last |-> l, pend |-> q]
  BY DEF FilterInit
<1> HIDE DEF q, P, V, S, E
<1>4. BodyLen + E - P - S = V + E /\ V + E \in Nat /\ ~(V + E < E) /\ V + E # 0
  BY <1>1
<1>5. FilterInit(l) = [length |-> V + E, rest |-> E, last |-> l, pend |-> q]
  BY <1>3, <1>4
<1>6. Continues(q, 0, m, l)
  <2>1. \A k \in 1 .. P : BodyByte(0 + k) = [at |-> "prefix", i |-> k]
    <3> SUFFICES ASSUME NEW k \in 1 .. P PROVE BodyByte(0 + k) = [at |-> "prefix", i |-> k]
      OBVIOUS
    <3>1. 0 + k = k /\ k <= P /\ ~(P < k)
      BY <1>1
    <3>a. k <= req.prefix /\ ~(req.prefix < k)
      BY <3>1 DEF P
    <3>2. BodyByte(k) = [at |-> "prefix", i |-> k]
      BY ONLY <3>a DEF BodyByte
    <3>3. QED
      BY <3>1, <3>2
  <2>2. \A k \in 1 .. P : Deref(m, q[k]) = [at |-> "prefix", i |-> k] /\ q[k].at # "buffer"
    BY <1>2 DEF Deref
  <2>3. QED
    BY <1>2, <2>1, <2>2 DEF Continues
<1> DEFINE L == V + E
<1>7. Queued(L) = P
  <2>1. Queued(L) = P + V + E - L
    BY <1>4 DEF Queued, P, V, E
  <2>2. QED
    BY <1>1, <2>1
<1>8. L \in Nat /\ ~(L < EndLen) /\ L <= req.value + EndLen /\ HeadLen = HeadLen + req.value + EndLen - L
      /\ 0 + Len(q) = Queued(L)
  <2>1. L \in Nat /\ ~(L < E) /\ L <= V + E /\ HeadLen = HeadLen + V + E - L
    BY <1>1
  <2>2. 0 + Len(q) = Queued(L)
    BY <1>1, <1>2, <1>7
  <2>3. QED
    BY <2>1, <2>2 DEF V, E
<1>9. FilterInit(l) = [length |-> L, rest |-> EndLen, last |-> l, pend |-> q] /\ L = req.value + EndLen
  BY <1>5 DEF E, V
<1> HIDE DEF L
<1>10. QueueOK([length |-> L, rest |-> EndLen, last |-> l, pend |-> q], 0, m, HeadLen)
  BY <1>6, <1>8 DEF QueueOK
<1>11. [length |-> L, rest |-> EndLen, last |-> l, pend |-> q] \in Upstream
  BY <1>2, <1>8, EndAssumption DEF Upstream
<1>12. QED
  BY <1>9, <1>10, <1>11

\* A complete header keeps the invariant: the filter starts with prefix.
LEMMA HeaderEndKeeps == ASSUME IInv, HeaderEnd PROVE IInv'
<1>1. PICK n \in 1 .. BufSize - u.last :
        LET size == got + n - HeadLen IN
        /\ HeadLen <= got + n /\ got + n <= ResponseLen
        /\ got' = got + n
        /\ mem' = Received(u.last, n)
        /\ announced' = IF req.found THEN BodyLen ELSE announced
        /\ \/ /\ ~req.found
              /\ phase' = "not_found" /\ UNCHANGED u
           \/ /\ req.found /\ req.method = "HEAD"
              /\ phase' = "done" /\ UNCHANGED u
           \/ /\ req.found /\ req.method # "HEAD" /\ size = 0
              /\ phase' = "read" /\ u' = FilterInit(0)
           \/ /\ req.found /\ req.method # "HEAD" /\ size > 0
              /\ phase' = "write" /\ u' = Filter(FilterInit(HeadLen), size)
  BY DEF HeaderEnd
<1>2. /\ TypeOK /\ req \in Requests /\ u \in Upstream /\ u.rest = EndLen /\ u.last = got /\ got < HeadLen
      /\ client = <<>> /\ ~eof /\ got \in Nat /\ UNCHANGED <<req, eof, aborted, client>>
  BY DEF IInv, TypeOK, HeaderEnd
<1>3. /\ HeadLen \in Nat /\ HeadLen > 0 /\ BufSize \in Nat /\ HeadLen <= BufSize /\ EndLen \in Nat /\ EndLen > 0
      /\ BodyLen \in Nat /\ ResponseLen \in Nat /\ req.value \in Nat
  BY <1>2, BufAssumption, EndAssumption, RequestFacts
<1>4. n \in Nat /\ u.last \in Nat /\ u.last + n <= BufSize /\ got + n \in Nat
  BY <1>1, <1>2, <1>3
<1>5. /\ mem' \in [1 .. BufSize -> Byte]
      /\ \A k \in 1 .. n : mem'[u.last + k] = ResponseByte(got + k)
  <2>1. TypeOK /\ mem' = Received(u.last, n) /\ n \in Nat /\ u.last \in Nat /\ u.last + n <= BufSize
    BY <1>1, <1>2, <1>4
  <2>2. QED
    BY ONLY <2>1, ReceivedFacts
<1>6. ClientGetsBody'
  BY <1>2 DEF IInv, ClientGetsBody, BodyLen, BodyByte
<1>7. ASSUME u' \in Upstream, phase' \in {"not_found", "done", "read", "write"}
      PROVE  TypeOK'
  <2>1. announced' \in Nat /\ got' \in Nat /\ got' <= ResponseLen'
    BY <1>1, <1>2, <1>3, <1>4 DEF TypeOK, ResponseLen
  <2>2. QED
    BY <1>2, <1>5, <1>7, <2>1 DEF TypeOK, Ends
<1>8. CASE phase' = "not_found" /\ UNCHANGED u
  <2>1. TypeOK'
    BY <1>2, <1>7, <1>8
  <2>2. QED
    BY <1>6, <1>8, <2>1 DEF IInv, EndsWithAllReceived
<1>9. CASE req.found /\ req.method = "HEAD" /\ phase' = "done" /\ UNCHANGED u
  <2>1. TypeOK'
    BY <1>2, <1>7, <1>9
  <2>2. EndsWithAllReceived'
    BY <1>1, <1>2, <1>9 DEF EndsWithAllReceived, BodyLen
  <2>3. QED
    BY <1>6, <1>9, <2>1, <2>2 DEF IInv
<1>10. CASE req.found /\ got + n - HeadLen = 0 /\ phase' = "read" /\ u' = FilterInit(0)
  <2>1. /\ u' \in Upstream /\ u'.length = req.value + EndLen /\ u'.last = 0
        /\ QueueOK(u', 0, mem', HeadLen)
    BY <1>2, <1>3, <1>10, FilterInitOK
  <2>2. TypeOK'
    BY <1>7, <1>10, <2>1
  <2>3. got' = HeadLen /\ Len(client') = 0
    BY <1>1, <1>2, <1>3, <1>4, <1>10
  <2>4. QueueOK(u, Len(client), mem, got)'
    BY <1>2, <2>1, <2>3, QueuePrime
  <2>5. announced' = BodyLen' /\ req'.found /\ u'.length > 0
    BY <1>1, <1>2, <1>3, <1>10, <2>1 DEF BodyLen
  <2>6. QED
    BY <1>2, <1>6, <1>10, <2>1, <2>2, <2>4, <2>5 DEF IInv, EndsWithAllReceived
<1>11. CASE /\ req.found /\ got + n - HeadLen > 0
            /\ phase' = "write" /\ u' = Filter(FilterInit(HeadLen), got + n - HeadLen)
  <2> DEFINE size == got + n - HeadLen
             t == FilterInit(HeadLen)
             m2 == mem'
  <2>1. size \in Nat /\ 1 <= size /\ size <= req.value + EndLen /\ HeadLen + size <= BufSize
        /\ HeadLen + size = got + n
    <3>1. ResponseLen = HeadLen + req.value + EndLen
      BY <1>11 DEF ResponseLen
    <3>2. QED
      BY <1>1, <1>2, <1>3, <1>4, <1>11, <3>1
  <2>2. t \in Upstream /\ t.length = req.value + EndLen /\ t.last = HeadLen /\ QueueOK(t, 0, m2, HeadLen)
    BY <1>2, <1>3, FilterInitOK
  <2>3. Extended(m2, m2, HeadLen, size, HeadLen)
    <3> SUFFICES ASSUME NEW k \in 1 .. size
                 PROVE  m2[HeadLen + k] = ResponseByte(HeadLen + k)
      BY DEF Extended
    <3>1. HeadLen + k - got \in 1 .. n /\ u.last + (HeadLen + k - got) = HeadLen + k
          /\ got + (HeadLen + k - got) = HeadLen + k
      BY <1>2, <1>3, <1>4, <2>1
    <3>2. QED
      BY <1>5, <3>1
  <2> HIDE DEF size, t, m2
  <2>4. Filter(t, size) \in Upstream /\ QueueOK(Filter(t, size), 0, m2, HeadLen + size)
    <3>1. 0 \in Nat /\ HeadLen \in Nat /\ size <= t.length /\ t.last + size <= BufSize /\ 1 <= size
          /\ Extended(m2, m2, t.last, size, HeadLen) /\ req \in Requests /\ size \in Nat
      BY <1>2, <1>3, <2>1, <2>2, <2>3
    <3>2. QED
      BY <2>2, <3>1, FilterQueue, Zenon
  <2>5. u' = Filter(t, size)
    BY <1>11 DEF t, size
  <2>6. u' \in Upstream /\ QueueOK(u', Len(client'), mem', got')
    <3>1. Len(client') = 0
      BY <1>2
    <3>2. got' = HeadLen + size
      BY <1>1, <2>1
    <3>3. QED
      BY <2>4, <2>5, <3>1, <3>2 DEF m2
  <2>7. TypeOK'
    BY <1>7, <1>11, <2>6
  <2>8. QueueOK(u, Len(client), mem, got)'
    BY <1>2, <2>6, QueuePrime
  <2>9. announced' = BodyLen' /\ req'.found
    BY <1>1, <1>2, <1>11 DEF BodyLen
  <2>10. QED
    BY <1>2, <1>6, <1>11, <2>7, <2>8, <2>9 DEF IInv, EndsWithAllReceived
<1>12. QED
  BY <1>1, <1>8, <1>9, <1>10, <1>11

\* What is queued is never more than the body.
LEMMA QueuedBound ==
    ASSUME NEW P \in Nat, NEW V \in Nat, NEW S \in Nat, NEW E \in Nat, NEW l \in Nat
    PROVE  (IF l = 0 THEN P + V + S ELSE IF l < E THEN P + V ELSE P + V + E - l) <= P + V + S
OBVIOUS

\* As long as bytes are missing, the whole has not arrived.
LEMMA LessThanAll ==
    ASSUME NEW H \in Nat, NEW V \in Nat, NEW E \in Nat, NEW l \in Nat, l > 0
    PROVE  H + V + E - l < H + V + E
OBVIOUS

\* Bytes that move from the queue to the client are still counted.
LEMMA MoveSent ==
    ASSUME NEW c \in Nat, NEW k \in Nat, NEW Q \in Nat
    PROVE  (c + k) + (Q - k) = c + Q
OBVIOUS

\* A read from memcached, bytes or the end of the connection, keeps the invariant.
LEMMA RecvKeeps == ASSUME IInv, Recv PROVE IInv'
<1>1. /\ TypeOK /\ req \in Requests /\ u \in Upstream /\ got \in Nat /\ client \in Seq(Byte) /\ ~eof
      /\ req.found /\ announced = BodyLen /\ QueueOK(u, Len(client), mem, got)
      /\ phase' = "write" /\ UNCHANGED <<req, aborted, announced, client>> /\ Size > 0
  BY DEF IInv, TypeOK, Recv
<1>2. /\ u.length \in Nat /\ u.last \in 0 .. BufSize /\ BufSize \in Nat /\ Len(client) \in Nat
  BY <1>1, BufAssumption, LenProperties DEF Upstream
<1>3. ClientGetsBody' /\ announced' = BodyLen' /\ req'.found /\ EndsWithAllReceived'
  BY <1>1 DEF IInv, ClientGetsBody, BodyLen, BodyByte, EndsWithAllReceived
<1>4. ASSUME NEW n \in 1 .. Size, got + n <= ResponseLen, got' = got + n,
             mem' = Received(u.last, n), u' = Filter(u, n), UNCHANGED eof
      PROVE  IInv'
  <2>1. n \in Nat /\ 1 <= n /\ n <= u.length /\ u.last + n <= BufSize /\ u.last \in Nat
    BY <1>2, <1>4 DEF Size
  <2>2. /\ mem' \in [1 .. BufSize -> Byte] /\ Extended(mem, mem', u.last, n, got)
    BY <1>1, <1>4, <2>1, ReceivedFacts DEF Extended
  <2>3. Filter(u, n) \in Upstream /\ QueueOK(Filter(u, n), Len(client), mem', got + n)
    BY <1>1, <1>2, <2>1, <2>2, FilterQueue
  <2>4. QueueOK(u, Len(client), mem, got)'
    <3>1. QueueOK(u', Len(client'), mem', got')
      BY <1>1, <1>4, <2>3
    <3>2. QED
      BY <1>1, <3>1, QueuePrime
  <2>5. got' \in Nat /\ got' <= ResponseLen'
    BY <1>1, <1>4, <2>1 DEF ResponseLen
  <2>6. TypeOK'
    BY <1>1, <1>4, <2>2, <2>3, <2>5 DEF TypeOK
  <2>7. ~eof'
    BY <1>1, <1>4
  <2>8. QED
    BY <1>1, <1>3, <2>4, <2>6, <2>7 DEF IInv
<1>5. ASSUME eof' = TRUE, UNCHANGED <<got, mem, u>>
      PROVE  IInv'
  <2>1. QueueOK(u, Len(client), mem, got)'
    BY <1>1, <1>5 DEF QueueOK, Queued, Continues, BodyLen, BodyByte
  <2>2. TypeOK'
    BY <1>1, <1>5 DEF TypeOK, ResponseLen
  <2>3. u'.length > 0
    BY <1>1, <1>2, <1>5 DEF Size
  <2>4. QED
    BY <1>1, <1>3, <2>1, <2>2, <2>3 DEF IInv
<1>6. QED
  BY <1>4, <1>5 DEF Recv

\* While bytes are missing, what is queued of the value is what was received.
LEMMA QueuedGot ==
    ASSUME req \in Requests, u.length \in Nat, u.length > 0, QueueOK(u, Len(client), mem, got)
    PROVE  Queued(u.length) = req.prefix + ValueGot
<1> DEFINE P == req.prefix
           V == req.value
           L == u.length
<1>1. /\ P \in Nat /\ V \in Nat /\ L \in Nat /\ L > 0 /\ EndLen \in Nat /\ HeadLen \in Nat
      /\ got = HeadLen + V + EndLen - L
  BY RequestFacts, BufAssumption, EndAssumption DEF QueueOK
<1>2. /\ Queued(L) = (IF L = 0 THEN BodyLen ELSE IF L < EndLen THEN P + V ELSE P + V + EndLen - L)
      /\ ValueGot = (IF got - HeadLen < V THEN got - HeadLen ELSE V)
  BY DEF Queued, ValueGot
<1> HIDE DEF P, V, L
<1>3. Queued(L) = P + ValueGot
  BY <1>1, <1>2
<1>4. QED
  BY <1>3 DEF P, L

\* A write to the client, whole or partial, keeps the invariant.
LEMMA WriteKeeps == ASSUME IInv, Write PROVE IInv'
<1>1. /\ TypeOK /\ req \in Requests /\ u \in Upstream /\ client \in Seq(Byte) /\ ClientGetsBody
      /\ req.found /\ announced = BodyLen /\ QueueOK(u, Len(client), mem, got)
      /\ (eof => u.length > 0) /\ eof \in BOOLEAN
      /\ UNCHANGED <<req, got, mem, eof, aborted, announced>> /\ mem \in [1 .. BufSize -> Byte]
  BY DEF IInv, TypeOK, Write
<1>2. PICK k \in 0 .. Len(u.pend) :
        /\ client' = client \o [j \in 1 .. k |-> Deref(mem, u.pend[j])]
        /\ u' = [length |-> u.length, rest |-> u.rest, last |-> BufferLast(k = Len(u.pend)),
                 pend |-> SubSeq(u.pend, k + 1, Len(u.pend))]
        /\ phase' = IF (k = Len(u.pend)) /\ (u.length = 0 \/ eof) THEN "done" ELSE "read"
  BY DEF Write
<1> DEFINE q == u.pend
           c == Len(client)
           Q == Len(q)
           sent == [j \in 1 .. k |-> Deref(mem, q[j])]
           p == SubSeq(q, k + 1, Q)
           l == BufferLast(k = Q)
<1>3. /\ u.length \in Nat /\ u.rest \in 0 .. EndLen /\ u.last \in 0 .. BufSize /\ q \in Seq(Byte)
      /\ c \in Nat /\ Q \in Nat /\ BufSize \in Nat
  BY <1>1, BufAssumption, LenProperties DEF Upstream
<1>4. Continues(q, c, mem, u.last) /\ c + Q = Queued(u.length)
  BY <1>1 DEF QueueOK
<1>5. k \in Nat /\ k <= Q
  BY <1>3
<1>6. \A j \in 1 .. Q : q[j] \in Byte /\ Deref(mem, q[j]) \in Byte
  <2>1. \A j \in 1 .. Q : q[j] \in Byte
    BY <1>3, ElementOfSeq
  <2>2. ASSUME NEW j \in 1 .. Q PROVE Deref(mem, q[j]) \in Byte
    <3>1. CASE q[j].at = "buffer"
      <4>1. q[j].i \in 1 .. BufSize
        <5>1. q[j].i \in 1 .. u.last
          BY <1>4, <3>1 DEF Continues
        <5>2. QED
          BY <1>3, <5>1
      <4>2. QED
        BY <1>1, <3>1, <4>1 DEF Deref
    <3>2. CASE q[j].at # "buffer"
      BY <2>1, <3>2 DEF Deref
    <3>3. QED
      BY <3>1, <3>2
  <2>3. QED
    BY <2>1, <2>2
<1>7. sent \in Seq(Byte) /\ Len(sent) = k /\ \A j \in 1 .. k : sent[j] = Deref(mem, q[j])
  <2>1. \A j \in 1 .. k : j \in 1 .. Q
    BY <1>3, <1>5
  <2>2. sent \in [1 .. k -> Byte]
    BY <1>6, <2>1
  <2>3. QED
    BY <1>5, <2>2, FunIsSeq
<1>a. client' = client \o sent
  BY <1>2
<1> HIDE DEF sent
<1>8. /\ client' \in Seq(Byte) /\ Len(client') = c + k
      /\ \A i \in 1 .. c + k : client'[i] = IF i <= c THEN client[i] ELSE sent[i - c]
  <2>1. /\ client \o sent \in Seq(Byte) /\ Len(client \o sent) = Len(client) + Len(sent)
        /\ \A i \in 1 .. Len(client) + Len(sent) :
              (client \o sent)[i] = IF i <= Len(client) THEN client[i] ELSE sent[i - Len(client)]
    BY <1>1, <1>7, ConcatProperties
  <2>2. QED
    BY <1>7, <1>a, <2>1
<1>9. p \in Seq(Byte) /\ Len(p) = Q - k /\ \A j \in 1 .. Q - k : p[j] = q[k + j]
  <2>1. CASE k = Q
    <3>1. p = <<>>
      BY <1>3, <1>5, <2>1, SubSeqEmpty
    <3>2. QED
      BY <1>3, <2>1, <3>1
  <2>2. CASE k < Q
    <3>1. k + 1 \in 1 .. Q /\ Q \in k + 1 - 1 .. Q /\ k + 1 <= Q
      BY <1>3, <1>5, <2>2
    <3>2. p \in Seq(Byte) /\ Len(p) = Q - (k + 1) + 1 /\ \A j \in 1 .. Q - (k + 1) + 1 : p[j] = q[(k + 1) + j - 1]
      BY <1>3, <3>1, SubSeqProperties
    <3>3. Q - (k + 1) + 1 = Q - k
      BY <1>3, <1>5
    <3>4. \A j \in 1 .. Q - k : (k + 1) + j - 1 = k + j
      BY <1>3, <1>5
    <3>5. QED
      BY <3>2, <3>3, <3>4
  <2>3. QED
    BY <1>3, <1>5, <2>1, <2>2
<1> HIDE DEF p
<1>10. c + Q <= BodyLen
  <2>1. /\ req.prefix \in Nat /\ req.value \in Nat /\ req.suffix \in Nat /\ EndLen \in Nat
        /\ BodyLen = req.prefix + req.value + req.suffix
    BY <1>1, RequestFacts, EndAssumption
  <2>2. Queued(u.length) <= BodyLen
    BY <1>3, <2>1, QueuedBound, Zenon DEF Queued
  <2>3. QED
    BY <1>4, <2>2, Zenon
<1>11. ClientGetsBody'
  <2>1. ASSUME NEW i \in 1 .. c + k PROVE client'[i] = BodyByte(i)
    <3>1. CASE i <= c
      BY <1>1, <1>8, <3>1 DEF ClientGetsBody
    <3>2. CASE i > c
      <4>1. i - c \in 1 .. k /\ i - c \in 1 .. Q /\ c + (i - c) = i /\ ~(i <= c)
        BY <1>3, <1>5, <3>2
      <4>2. client'[i] = Deref(mem, q[i - c])
        BY <1>7, <1>8, <4>1
      <4>3. Deref(mem, q[i - c]) = BodyByte(c + (i - c))
        BY <1>4, <4>1 DEF Continues
      <4>4. QED
        BY <4>1, <4>2, <4>3
    <3>3. QED
      BY <1>3, <3>1, <3>2
  <2>2. BodyLen' = BodyLen /\ \A i : BodyByte(i)' = BodyByte(i)
    BY <1>1 DEF BodyLen, BodyByte
  <2>3. Len(client') <= BodyLen
    BY <1>1, <1>3, <1>5, <1>8, <1>10, RequestFacts
  <2>4. QED
    BY <1>8, <2>1, <2>2, <2>3 DEF ClientGetsBody
<1>12. l \in 0 .. BufSize /\ (k # Q => l = u.last)
  BY <1>3 DEF BufferLast
<1>13. Continues(p, c + k, mem, l)
  <2> SUFFICES ASSUME NEW j \in 1 .. Len(p)
               PROVE  /\ Deref(mem, p[j]) = BodyByte((c + k) + j)
                      /\ p[j].at = "buffer" => p[j].i \in 1 .. l
    BY DEF Continues
  <2>1. k + j \in 1 .. Q /\ c + (k + j) = (c + k) + j /\ k # Q /\ j \in 1 .. Q - k
    BY <1>3, <1>5, <1>9
  <2>2. p[j] = q[k + j]
    BY <1>9, <2>1
  <2>3. Deref(mem, q[k + j]) = BodyByte(c + (k + j)) /\ (q[k + j].at = "buffer" => q[k + j].i \in 1 .. u.last)
    BY <1>4, <2>1 DEF Continues
  <2>4. QED
    BY <1>12, <2>1, <2>2, <2>3
<1>b. u' = [length |-> u.length, rest |-> u.rest, last |-> l, pend |-> p]
  BY <1>2 DEF p
<1>14. u' \in Upstream
  BY <1>3, <1>9, <1>12, <1>b DEF Upstream
<1>15. QueueOK(u, Len(client), mem, got)'
  <2>1. (c + k) + Len(p) = Queued(u.length)
    <3>1. Len(p) = Q - k
      BY <1>9
    <3>2. (c + k) + (Q - k) = c + Q
      BY <1>3, <1>5, MoveSent, Zenon
    <3>3. QED
      BY <1>4, <3>1, <3>2, Zenon
  <2>2. QueueOK(u', c + k, mem, got)
    BY <1>1, <1>13, <1>b, <2>1 DEF QueueOK
  <2>3. QueueOK(u', Len(client'), mem', got')
    BY <1>1, <1>8, <2>2
  <2>4. QED
    BY <1>1, <2>3, QueuePrime
<1>16. phase' \in {"done", "read"}
  BY <1>2
<1>17. TypeOK'
  BY <1>1, <1>8, <1>14, <1>16 DEF TypeOK, Ends, ResponseLen
<1>18. EndsWithAllReceived'
  <2>1. phase' = "done" => k = Q /\ (u.length = 0 \/ eof)
    BY <1>2
  <2>2. k = Q => Len(client') = Queued(u.length)
    BY <1>4, <1>8
  <2>3. u.length = 0 => Queued(u.length) = BodyLen /\ ~eof
    BY <1>1 DEF Queued
  <2>4. u.length > 0 => Queued(u.length) = req.prefix + ValueGot
    BY <1>1, <1>3, QueuedGot
  <2>5. ~eof => u.length = 0 \/ phase' # "done"
    BY <2>1
  <2>6. ValueGot' = ValueGot /\ BodyLen' = BodyLen
    BY <1>1 DEF ValueGot, BodyLen
  <2>7. QED
    BY <1>1, <1>3, <2>1, <2>2, <2>3, <2>4, <2>5, <2>6 DEF EndsWithAllReceived
<1>19. phase' = "read" /\ u'.pend = <<>> => u'.last = 0 /\ u'.length > 0 /\ ~eof'
  <2> SUFFICES ASSUME phase' = "read", p = <<>> PROVE l = 0 /\ u.length > 0 /\ ~eof
    BY <1>1, <1>b
  <2>1. k = Q
    <3>1. Len(p) = 0
      OBVIOUS
    <3>2. QED
      BY <1>3, <1>5, <1>9, <3>1
  <2>2. u.length # 0 /\ ~eof
    BY <1>2, <2>1
  <2>3. QED
    BY <1>3, <2>1, <2>2 DEF BufferLast
<1>20. announced' = BodyLen' /\ req'.found /\ (eof' => u'.length > 0)
  BY <1>1, <1>b DEF BodyLen
<1>21. QED
  BY <1>11, <1>15, <1>16, <1>17, <1>18, <1>19, <1>20 DEF IInv

\* Every step keeps the invariant.
LEMMA IInvStep == IInv /\ [Next]_vars => IInv'
<1>1. ASSUME IInv, UNCHANGED vars PROVE IInv'
  BY <1>1 DEF vars, IInv, TypeOK, ClientGetsBody, EndsWithAllReceived, ValueGot, QueueOK, Queued,
              Continues, BodyLen, BodyByte, ResponseLen
<1>2. QED
  BY <1>1, HandlerKeeps, HeaderPartKeeps, HeaderEndKeeps, QuietKeeps, RecvKeeps, WriteKeeps DEF Next

\* The invariant holds in every state of every request.
LEMMA Invariant == Spec => []IInv
BY IInvInit, IInvStep, PTL DEF Spec

\* The types: no size or count of the filters goes below zero or past the
\* buffer, for every buffer size and every length of the parts.
THEOREM TypeCorrect == Spec => []TypeOK
<1>1. IInv => TypeOK
  BY DEF IInv
<1>2. QED
  BY <1>1, Invariant, PTL

\* The client gets prefix, value and suffix in order and nothing else, for
\* every buffer size, every length of the parts and every way the answer is
\* cut and taken.
THEOREM ClientStream == Spec => []ClientGetsBody
<1>1. IInv => ClientGetsBody
  BY DEF IInv
<1>2. QED
  BY <1>1, Invariant, PTL

\* Whatever the sizes: a response that no timer or error cut off ends with all
\* that was announced, or with all that came before memcached's connection
\* ended.
THEOREM ResponsesEndWithAllReceived == Spec => []EndsWithAllReceived
<1>1. IInv => EndsWithAllReceived
  BY DEF IInv
<1>2. QED
  BY <1>1, Invariant, PTL

\* A request never waits without a peer that can wake it up.
THEOREM NeverStalls == Spec => []WaitsForSomeone
<1>1. IInv => WaitsForSomeone
  <2> SUFFICES ASSUME IInv, phase = "wait", u.pend = <<>>
               PROVE  Size > 0 /\ ~eof /\ got < ResponseLen
    BY DEF WaitsForSomeone
  <2>1. u.last = 0 /\ u.length > 0 /\ ~eof /\ req.found /\ u.length \in Nat /\ req \in Requests
    BY DEF IInv, TypeOK, Upstream
  <2>2. got = HeadLen + req.value + EndLen - u.length
    BY <2>1 DEF IInv, QueueOK
  <2>3. ResponseLen = HeadLen + req.value + EndLen /\ HeadLen + req.value + EndLen \in Nat
    BY <2>1, RequestFacts DEF ResponseLen
  <2>4. Size > 0
    BY <2>1, BufAssumption DEF Size
  <2>5. HeadLen \in Nat /\ req.value \in Nat /\ EndLen \in Nat
    BY <2>1, RequestFacts, BufAssumption, EndAssumption
  <2>6. got < ResponseLen
    BY <2>1, <2>2, <2>3, <2>5, LessThanAll, Zenon
  <2>7. QED
    BY <2>1, <2>4, <2>6
<1>2. QED
  BY <1>1, Invariant, PTL
=============================================================================
