--------------------------- MODULE HttpServerProof --------------------------
(* Proofs about HttpServer, for any number of connections and requests: the  *)
(* responses on a connection come in the order of its requests (ServerInv),  *)
(* and a connection at rest owes nothing (SettleInv).                        *)
EXTENDS HttpServer, TLAPS

-----------------------------------------------------------------------------
(* Types.                                                                    *)

Parts == {"head", "body", "last", "crlf", "bad"}

ConnFields == [sock : {"none", "open", "ended", "destroyed", "closed"}, error : BOOLEAN,
               state : {"IDLE", "HEADERS", "BODY", "AWAITING_RESPONSE"},
               buffer : Seq(Nat \X Parts), req : Nat, res : Nat, readableEnded : BOOLEAN,
               closeAfterResponse : BOOLEAN, responseFinished : BOOLEAN,
               keepAliveAfter : BOOLEAN, requestsServed : Nat, detached : BOOLEAN,
               timer : BOOLEAN]

AnswerFields == [kind : AllKinds, handed : BOOLEAN, complete : BOOLEAN, eof : Nat,
                 aborted : BOOLEAN, keepAlive : BOOLEAN, written : BOOLEAN, ended : BOOLEAN,
                 destroyed : BOOLEAN, closed : Nat]

FrameFields == [at : {"loop", "request"}, c : Conns, n : Nat, data : BOOLEAN]

Typed ==
    /\ server \in [closing : BOOLEAN, set : Settings]
    /\ conn \in [Conns -> ConnFields]
    /\ answer = [c \in Conns |-> answer[c]]
    /\ \A c \in Conns : answer[c] \in [Ns(c) -> AnswerFields]
    /\ wire \in [Conns -> Seq(Nat \X {"data", "last"})]
    /\ client \in [Conns -> [n : Nat, i : Nat]]
    /\ frames \in Seq(FrameFields)
    /\ overrun \subseteq Conns

-----------------------------------------------------------------------------
(* The inductive invariant, for each connection c with the state k, the       *)
(* answers a, what was written w and what the client has sent s.              *)

Open(k) == k.sock = "open"

\* What the parser has not looked at are pieces of requests it has not handed over, but
\* for the rest of the current one.
BufferInv(c, k, a, s) ==
    LET b == k.buffer IN
    /\ s.n \in 0 .. Requests[c] /\ (s.n > 0 => s.i > 0)
    /\ {k.req, k.res} \subseteq 0 .. s.n
    /\ \A i \in 1 .. Len(b) : b[i][1] \in 1 .. s.n
    /\ \A i, j \in 1 .. Len(b) : i < j /\ b[j][2] = "head" => b[i][1] < b[j][1]
    /\ \A n \in Ns(c) : a[n].handed =>
        n <= s.n /\ \A i \in 1 .. Len(b) : b[i][2] = "head" => n < b[i][1]
    /\ k.sock = "none" => b = <<>>

\* Only the current response may be written to, or the one that was when the socket was
\* detached.
CurrentInv(c, k, a) ==
    /\ \A n \in Ns(c) : a[n].handed /\ ~a[n].ended =>
        (n = k.res \/ k.detached) /\ \A m \in Ns(c) : a[m].handed => m <= n
    /\ k.res # 0 /\ k.responseFinished => a[k.res].ended
    /\ k.res # 0 /\ k.state \in {"IDLE", "HEADERS"} => a[k.res].kind = "none"
    /\ k.detached => k.res = 0 /\ k.buffer = <<>>

WireInv(c, k, a, w) ==
    /\ k.sock = "none" => w = <<>> /\ \A n \in Ns(c) : ~a[n].handed
    /\ Open(k) => \A i \in 1 .. Len(w) :
        /\ w[i][1] \in Ns(c) /\ a[w[i][1]].handed
        /\ w[i][2] = "last" => a[w[i][1]].ended

InOrder(w) ==
    \A i, j \in 1 .. Len(w) : i < j =>
        /\ w[i][1] # Error
        /\ w[j][1] # Error => w[i][1] <= w[j][1]
        /\ w[i][2] = "last" => w[i][1] # w[j][1]

ConnInv(c, k, a, w, s, over) ==
    /\ BufferInv(c, k, a, s) /\ WireInv(c, k, a, w)
    /\ Open(k) /\ c \notin over => CurrentInv(c, k, a)
    /\ c \notin over => InOrder(w)

ServerInv ==
    /\ Typed
    /\ \A c \in Conns :
        ConnInv(c, conn[c], answer[c], wire[c], client[c], overrun)

-----------------------------------------------------------------------------
(* The updates of a connection's fields.                                     *)

\* The parser of q is where that of k is.
SameParse(q, k) ==
    /\ q.buffer = k.buffer /\ q.req = k.req /\ q.res = k.res /\ q.state = k.state
    /\ q.responseFinished = k.responseFinished /\ q.detached = k.detached

\* The socket of k changed to that of q.
SockGoes(q, k) == q.sock = k.sock \/ q.sock \notin {"none", "open"}

LEMMA EndedFields ==
    ASSUME NEW k \in ConnFields
    PROVE  /\ Ended(k) \in ConnFields /\ SameParse(Ended(k), k) /\ SockGoes(Ended(k), k)
           /\ ~Open(Ended(k)) /\ Ended(k).keepAliveAfter = k.keepAliveAfter
BY DEF ConnFields, Ended, SameParse, SockGoes, Open

LEMMA DestroyedFields ==
    ASSUME NEW k \in ConnFields, NEW error \in BOOLEAN
    PROVE  /\ Destroyed(k, error) \in ConnFields /\ SameParse(Destroyed(k, error), k)
           /\ SockGoes(Destroyed(k, error), k) /\ ~Open(Destroyed(k, error))
           /\ Destroyed(k, error).keepAliveAfter = k.keepAliveAfter
BY DEF ConnFields, Destroyed, SameParse, SockGoes, Open

LEMMA AfterWriteFields ==
    ASSUME NEW k \in ConnFields
    PROVE  /\ AfterWrite(k) \in ConnFields /\ SameParse(AfterWrite(k), k)
           /\ SockGoes(AfterWrite(k), k)
           /\ AfterWrite(k).keepAliveAfter = k.keepAliveAfter
           /\ AfterWrite(k).requestsServed = k.requestsServed
<1>1. Destroyed(k, TRUE).requestsServed = k.requestsServed
  BY DEF ConnFields, Destroyed
<1> QED BY <1>1, DestroyedFields DEF AfterWrite, SameParse, SockGoes

LEMMA TakenFields ==
    ASSUME NEW k \in ConnFields, NEW n \in Nat
    PROVE  /\ Taken(k, n) \in ConnFields /\ Taken(k, n).sock = k.sock
           /\ Taken(k, n).buffer = k.buffer /\ Taken(k, n).req = n /\ Taken(k, n).res = n
           /\ Taken(k, n).state = k.state /\ ~Taken(k, n).responseFinished
           /\ Taken(k, n).detached = k.detached
           /\ Taken(k, n).requestsServed = k.requestsServed
BY DEF ConnFields, Taken

LEMMA StateFields ==
    ASSUME NEW k \in ConnFields, NEW s \in {"IDLE", "HEADERS", "BODY", "AWAITING_RESPONSE"}
    PROVE  LET q == [k EXCEPT !.state = s]
           IN  /\ q \in ConnFields /\ q.sock = k.sock /\ q.buffer = k.buffer
               /\ q.req = k.req /\ q.res = k.res /\ q.state = s
               /\ q.responseFinished = k.responseFinished /\ q.detached = k.detached
               /\ q.keepAliveAfter = k.keepAliveAfter /\ q.requestsServed = k.requestsServed
BY DEF ConnFields

LEMMA BufferFields ==
    ASSUME NEW k \in ConnFields, NEW b \in Seq(Nat \X Parts)
    PROVE  LET q == [k EXCEPT !.buffer = b]
           IN  /\ q \in ConnFields /\ q.sock = k.sock /\ q.buffer = b
               /\ q.req = k.req /\ q.res = k.res /\ q.state = k.state
               /\ q.responseFinished = k.responseFinished /\ q.detached = k.detached
               /\ q.keepAliveAfter = k.keepAliveAfter /\ q.requestsServed = k.requestsServed
BY DEF ConnFields

LEMMA FlagFields ==
    ASSUME NEW k \in ConnFields, NEW v \in BOOLEAN
    PROVE  LET t == [k EXCEPT !.timer = v]
               e == [k EXCEPT !.readableEnded = v]
               c == [k EXCEPT !.closeAfterResponse = v]
           IN  /\ t \in ConnFields /\ SameParse(t, k) /\ t.sock = k.sock
               /\ e \in ConnFields /\ SameParse(e, k) /\ e.sock = k.sock
               /\ c \in ConnFields /\ SameParse(c, k) /\ c.sock = k.sock
               /\ t.keepAliveAfter = k.keepAliveAfter
BY DEF ConnFields, SameParse

LEMMA ServedFields ==
    ASSUME NEW k \in ConnFields, NEW n \in Nat
    PROVE  LET q == [k EXCEPT !.requestsServed = n]
           IN  q \in ConnFields /\ SameParse(q, k) /\ q.sock = k.sock
BY DEF ConnFields, SameParse

LEMMA FinishedFields ==
    ASSUME NEW k \in ConnFields, NEW v \in BOOLEAN
    PROVE  LET q == [k EXCEPT !.responseFinished = TRUE, !.keepAliveAfter = v]
           IN  /\ q \in ConnFields /\ q.sock = k.sock /\ q.buffer = k.buffer
               /\ q.req = k.req /\ q.res = k.res /\ q.state = k.state
               /\ q.responseFinished /\ q.detached = k.detached
BY DEF ConnFields

LEMMA NoBuffer == <<>> \in Seq(Nat \X Parts)
OBVIOUS

LEMMA DetachedFields ==
    ASSUME NEW k \in ConnFields
    PROVE  LET q == [k EXCEPT !.detached = TRUE, !.req = 0, !.res = 0, !.buffer = <<>>]
           IN  /\ q \in ConnFields /\ q.sock = k.sock /\ q.buffer = <<>> /\ q.req = 0 /\ q.res = 0
               /\ q.detached
BY NoBuffer DEF ConnFields

LEMMA FinalizedFields ==
    ASSUME NEW k \in ConnFields
    PROVE  LET q == Finalized(k)
           IN  /\ q \in ConnFields /\ SockGoes(q, k) /\ q.buffer = k.buffer
               /\ q.req = 0 /\ q.res = 0 /\ q.detached = k.detached
<1> DEFINE r == [k EXCEPT !.responseFinished = FALSE, !.keepAliveAfter = FALSE,
                          !.req = 0, !.res = 0, !.state = "IDLE"]
<1>1. /\ r \in ConnFields /\ r.sock = k.sock /\ r.buffer = k.buffer
      /\ r.req = 0 /\ r.res = 0 /\ r.detached = k.detached
  BY DEF ConnFields
<1>2. \/ Finalized(k) = r
      \/ Finalized(k) = Ended(r)
      \/ Finalized(k) = [r EXCEPT !.timer = TRUE]
  <2>1. Finalized(k) = IF ~k.keepAliveAfter THEN Ended(r)
                       ELSE IF k.buffer # <<>> THEN r
                       ELSE IF k.readableEnded /\ k.closeAfterResponse THEN Ended(r)
                       ELSE [r EXCEPT !.timer = TRUE]
    BY DEF Finalized
  <2> HIDE DEF r
  <2> QED BY <2>1
<1> HIDE DEF r
<1>3. Ended(r) \in ConnFields /\ SameParse(Ended(r), r) /\ SockGoes(Ended(r), r)
  BY <1>1, EndedFields
<1>4. LET t == [r EXCEPT !.timer = TRUE]
      IN  t \in ConnFields /\ SameParse(t, r) /\ t.sock = r.sock
  BY <1>1, FlagFields
<1> QED BY <1>1, <1>2, <1>3, <1>4 DEF SameParse, SockGoes

-----------------------------------------------------------------------------
(* The updates of the answers that settle a request: what was handed over,    *)
(* its kind and what has ended stay.                                         *)

SameAnswers(c, b, a) ==
    /\ b \in [Ns(c) -> AnswerFields]
    /\ \A n \in Ns(c) :
        b[n].handed = a[n].handed /\ b[n].ended = a[n].ended /\ b[n].kind = a[n].kind

LEMMA SettledFields ==
    ASSUME NEW x \in AnswerFields, NEW v \in BOOLEAN, NEW e \in Nat
    PROVE  LET y == [x EXCEPT !.complete = v]
               z == [x EXCEPT !.eof = e]
               u == [x EXCEPT !.aborted = v]
               w == [x EXCEPT !.closed = e]
               d == [x EXCEPT !.destroyed = v]
               t == [x EXCEPT !.written = v]
               Same(o) == /\ o \in AnswerFields /\ o.handed = x.handed
                          /\ o.ended = x.ended /\ o.kind = x.kind
           IN  Same(y) /\ Same(z) /\ Same(u) /\ Same(w) /\ Same(d) /\ Same(t)
BY DEF AnswerFields

LEMMA SettledAnswers ==
    ASSUME NEW c, NEW a \in [Ns(c) -> AnswerFields], NEW n, NEW v \in BOOLEAN
    PROVE  /\ SameAnswers(c, [a EXCEPT ![n].complete = v], a)
           /\ SameAnswers(c, [a EXCEPT ![n].eof = @ + 1], a)
           /\ SameAnswers(c, [a EXCEPT ![n].aborted = v], a)
           /\ SameAnswers(c, [a EXCEPT ![n].closed = @ + 1], a)
           /\ SameAnswers(c, [a EXCEPT ![n].destroyed = v], a)
           /\ SameAnswers(c, [a EXCEPT ![n].written = v], a)
<1>1. CASE n \in Ns(c)
  <2>1. a[n] \in AnswerFields /\ a[n].eof + 1 \in Nat /\ a[n].closed + 1 \in Nat
    BY <1>1 DEF AnswerFields
  <2>2. ASSUME NEW x \in AnswerFields, x.handed = a[n].handed, x.ended = a[n].ended,
               x.kind = a[n].kind
        PROVE  SameAnswers(c, [a EXCEPT ![n] = x], a)
    BY <1>1, <2>2 DEF SameAnswers
  <2> DEFINE e == a[n].eof + 1
             d == a[n].closed + 1
  <2>3. /\ SameAnswers(c, [a EXCEPT ![n] = [a[n] EXCEPT !.complete = v]], a)
        /\ SameAnswers(c, [a EXCEPT ![n] = [a[n] EXCEPT !.eof = e]], a)
        /\ SameAnswers(c, [a EXCEPT ![n] = [a[n] EXCEPT !.aborted = v]], a)
        /\ SameAnswers(c, [a EXCEPT ![n] = [a[n] EXCEPT !.closed = d]], a)
        /\ SameAnswers(c, [a EXCEPT ![n] = [a[n] EXCEPT !.destroyed = v]], a)
        /\ SameAnswers(c, [a EXCEPT ![n] = [a[n] EXCEPT !.written = v]], a)
    <3> DEFINE Same(o) == /\ o \in AnswerFields /\ o.handed = a[n].handed
                          /\ o.ended = a[n].ended /\ o.kind = a[n].kind
    <3>1. Same([a[n] EXCEPT !.eof = e]) /\ Same([a[n] EXCEPT !.closed = d])
      <4>1. e \in Nat /\ d \in Nat
        BY <2>1
      <4> HIDE DEF e, d
      <4> QED BY <2>1, <4>1, SettledFields
    <3>2. /\ Same([a[n] EXCEPT !.complete = v]) /\ Same([a[n] EXCEPT !.aborted = v])
          /\ Same([a[n] EXCEPT !.destroyed = v]) /\ Same([a[n] EXCEPT !.written = v])
      BY <2>1, SettledFields
    <3>3. ASSUME NEW x, Same(x) PROVE SameAnswers(c, [a EXCEPT ![n] = x], a)
      BY <2>2, <3>3
    <3> HIDE DEF Same
    <3> QED BY <3>1, <3>2, <3>3
  <2> QED BY <1>1, <2>3
<1>2. CASE n \notin Ns(c)
  BY <1>2 DEF SameAnswers
<1> QED BY <1>1, <1>2

LEMMA SameAnswersAgain ==
    ASSUME NEW c, NEW a, NEW b, NEW d, SameAnswers(c, b, a), SameAnswers(c, d, b)
    PROVE  SameAnswers(c, d, a)
BY DEF SameAnswers

LEMMA SameAnswersAtAll ==
    ASSUME NEW c, NEW a \in [Ns(c) -> AnswerFields]
    PROVE  SameAnswers(c, a, a)
BY DEF SameAnswers

\* A request that is complete, and its end.
LEMMA CompletedAnswers ==
    ASSUME NEW c, NEW a \in [Ns(c) -> AnswerFields], NEW n, NEW v \in BOOLEAN
    PROVE  /\ SameAnswers(c, [a EXCEPT ![n].complete = TRUE, ![n].eof = @ + 1], a)
           /\ SameAnswers(c, [a EXCEPT ![n].complete = TRUE,
                                       ![n].eof = IF a[n].complete THEN @ ELSE @ + 1,
                                       ![n].aborted = v], a)
           /\ SameAnswers(c, [a EXCEPT ![n].aborted = TRUE, ![n].complete = TRUE,
                                       ![n].eof = IF a[n].complete THEN @ ELSE @ + 1], a)
<1>1. CASE n \in Ns(c)
  <2> DEFINE x == [a[n] EXCEPT !.complete = TRUE, !.eof = @ + 1]
             e == IF a[n].complete THEN a[n].eof ELSE a[n].eof + 1
             y == [a[n] EXCEPT !.complete = TRUE, !.eof = e, !.aborted = v]
             z == [a[n] EXCEPT !.aborted = TRUE, !.complete = TRUE, !.eof = e]
  <2>1. a[n] \in AnswerFields /\ a[n].eof + 1 \in Nat /\ e \in Nat
    BY <1>1 DEF AnswerFields
  <2>2. \A o \in {x, y, z} : o \in AnswerFields /\ o.handed = a[n].handed
                             /\ o.ended = a[n].ended /\ o.kind = a[n].kind
    <3> HIDE DEF e
    <3> QED BY <2>1 DEF AnswerFields
  <2>3. /\ [a EXCEPT ![n].complete = TRUE, ![n].eof = @ + 1] = [a EXCEPT ![n] = x]
        /\ [a EXCEPT ![n].complete = TRUE, ![n].eof = IF a[n].complete THEN @ ELSE @ + 1,
                     ![n].aborted = v] = [a EXCEPT ![n] = y]
        /\ [a EXCEPT ![n].aborted = TRUE, ![n].complete = TRUE,
                     ![n].eof = IF a[n].complete THEN @ ELSE @ + 1] = [a EXCEPT ![n] = z]
    BY <1>1
  <2> HIDE DEF x, y, z
  <2> QED BY <1>1, <2>2, <2>3 DEF SameAnswers
<1>2. CASE n \notin Ns(c)
  BY <1>2 DEF SameAnswers
<1> QED BY <1>1, <1>2

LEMMA GoneAnswers ==
    ASSUME NEW c, NEW a \in [Ns(c) -> AnswerFields], NEW k \in ConnFields, NEW v \in BOOLEAN
    PROVE  SameAnswers(c, GoneRequest(a, k, v), a) /\ SameAnswers(c, Aborts(a, k), a)
<1> DEFINE w == v \/ ~k.responseFinished
<1>1. w \in BOOLEAN
  BY DEF ConnFields
<1>2. SameAnswers(c, GoneRequest(a, k, v), a)
  <2>1. GoneRequest(a, k, v) = IF k.req = 0 \/ a[k.req].aborted THEN a
            ELSE [a EXCEPT ![k.req].complete = TRUE,
                           ![k.req].eof = IF a[k.req].complete THEN @ ELSE @ + 1,
                           ![k.req].aborted = w]
    BY DEF GoneRequest
  <2>2. SameAnswers(c, [a EXCEPT ![k.req].complete = TRUE,
                           ![k.req].eof = IF a[k.req].complete THEN @ ELSE @ + 1,
                           ![k.req].aborted = w], a)
    <3> HIDE DEF w
    <3> QED BY <1>1, CompletedAnswers
  <2> HIDE DEF w
  <2> QED BY <2>1, <2>2, SameAnswersAtAll
<1>3. SameAnswers(c, Aborts(a, k), a)
  BY CompletedAnswers, SameAnswersAtAll DEF Aborts
<1> QED BY <1>2, <1>3

-----------------------------------------------------------------------------
(* What is left of a buffer.                                                 *)

Later(q, b) ==
    \E m \in 0 .. Len(b) : Len(q) = Len(b) - m /\ \A i \in 1 .. Len(q) : q[i] = b[i + m]

LEMMA LaterAtAll ==
    ASSUME NEW b \in Seq(Nat \X Parts)
    PROVE  Later(b, b)
<1>1. Len(b) \in Nat
  OBVIOUS
<1>2. 0 \in 0 .. Len(b) /\ Len(b) = Len(b) - 0 /\ \A i \in 1 .. Len(b) : b[i] = b[i + 0]
  BY <1>1
<1> QED BY <1>2 DEF Later

LEMMA LaterTail ==
    ASSUME NEW b \in Seq(Nat \X Parts), b # <<>>
    PROVE  Tail(b) \in Seq(Nat \X Parts) /\ Later(Tail(b), b)
<1>1. /\ Len(b) \in Nat /\ Len(b) # 0 /\ Tail(b) \in Seq(Nat \X Parts)
      /\ Len(Tail(b)) = Len(b) - 1 /\ \A i \in 1 .. Len(Tail(b)) : Tail(b)[i] = b[i + 1]
  OBVIOUS
<1>2. 1 \in 0 .. Len(b)
  BY <1>1
<1> QED BY <1>1, <1>2 DEF Later

LEMMA LaterAgain ==
    ASSUME NEW b \in Seq(Nat \X Parts), NEW p \in Seq(Nat \X Parts), NEW q \in Seq(Nat \X Parts),
           Later(p, b), Later(q, p)
    PROVE  Later(q, b)
<1>1. PICK m \in 0 .. Len(b) : Len(p) = Len(b) - m /\ \A i \in 1 .. Len(p) : p[i] = b[i + m]
  BY DEF Later
<1>2. PICK l \in 0 .. Len(p) : Len(q) = Len(p) - l /\ \A i \in 1 .. Len(q) : q[i] = p[i + l]
  BY DEF Later
<1>3. Len(b) \in Nat /\ Len(p) \in Nat /\ Len(q) \in Nat
  OBVIOUS
<1>4. l + m \in 0 .. Len(b) /\ Len(q) = Len(b) - (l + m)
  BY <1>1, <1>2, <1>3
<1>5. \A i \in 1 .. Len(q) : q[i] = b[i + (l + m)]
  <2> SUFFICES ASSUME NEW i \in 1 .. Len(q) PROVE q[i] = b[i + (l + m)]
    OBVIOUS
  <2>1. i + l \in 1 .. Len(p) /\ q[i] = p[i + l]
    BY <1>2, <1>3
  <2>2. p[i + l] = b[(i + l) + m]
    BY <1>1, <2>1
  <2>3. (i + l) + m = i + (l + m)
    BY <1>1, <1>2, <1>3
  <2> QED BY <2>1, <2>2, <2>3
<1> QED BY <1>4, <1>5 DEF Later

LEMMA LaterSkip ==
    ASSUME NEW b \in Seq(Nat \X Parts)
    PROVE  SkipBlank(b) \in Seq(Nat \X Parts) /\ Later(SkipBlank(b), b)
BY LaterAtAll, LaterTail DEF SkipBlank

\* The first piece and those behind it.
LEMMA HeadOf ==
    ASSUME NEW b \in Seq(Nat \X Parts), b # <<>>
    PROVE  Len(b) \in Nat /\ 1 \in 1 .. Len(b) /\ Head(b) = b[1] /\ Head(b) \in Nat \X Parts
OBVIOUS

-----------------------------------------------------------------------------
(* How a connection goes on, from the state k with the answers a to q with b, *)
(* when nothing is written, handed over or ended.                            *)

Ready(k) == k.state \in {"IDLE", "HEADERS"}

GoesOn(c, q, k, b, a) ==
    /\ SameAnswers(c, b, a)
    /\ SockGoes(q, k)
    /\ {q.req, q.res} \subseteq {0, k.req, k.res}
    /\ q.buffer \in Seq(Nat \X Parts) /\ Later(q.buffer, k.buffer)
    /\ Open(q) =>
        /\ q.detached = k.detached
        /\ \/ q.res = k.res /\ q.responseFinished = k.responseFinished /\ (Ready(q) => Ready(k))
           \/ q.res = 0 /\ (k.responseFinished \/ k.res = 0)

\* What is left of a buffer keeps its order.
LEMMA LaterPieces ==
    ASSUME NEW c \in Conns, NEW k \in ConnFields, NEW a \in [Ns(c) -> AnswerFields],
           NEW s \in [n : Nat, i : Nat], BufferInv(c, k, a, s),
           NEW r \in Seq(Nat \X Parts), Later(r, k.buffer)
    PROVE  /\ \A i \in 1 .. Len(r) : r[i][1] \in 1 .. s.n
           /\ \A i, j \in 1 .. Len(r) : i < j /\ r[j][2] = "head" => r[i][1] < r[j][1]
           /\ \A n \in Ns(c) : a[n].handed =>
                n <= s.n /\ \A i \in 1 .. Len(r) : r[i][2] = "head" => n < r[i][1]
           /\ k.buffer = <<>> => r = <<>>
<1> DEFINE p == k.buffer
<1>1. Len(r) \in Nat /\ Len(p) \in Nat
  BY DEF ConnFields
<1>2. PICK m \in 0 .. Len(p) : Len(r) = Len(p) - m /\ \A i \in 1 .. Len(r) : r[i] = p[i + m]
  BY DEF Later
<1>3. \A i \in 1 .. Len(r) : i + m \in 1 .. Len(p) /\ r[i] = p[i + m]
  BY <1>1, <1>2
<1>4. \A i \in 1 .. Len(r) : r[i][1] \in 1 .. s.n
  BY <1>3 DEF BufferInv
<1>5. ASSUME NEW i \in 1 .. Len(r), NEW j \in 1 .. Len(r), i < j, r[j][2] = "head"
      PROVE  r[i][1] < r[j][1]
  <2>1. i + m < j + m
    BY <1>1, <1>2, <1>5
  <2>2. \A x, y \in 1 .. Len(p) : x < y /\ p[y][2] = "head" => p[x][1] < p[y][1]
    BY DEF BufferInv
  <2>3. /\ i + m \in 1 .. Len(p) /\ r[i] = p[i + m]
        /\ j + m \in 1 .. Len(p) /\ r[j] = p[j + m]
    BY <1>3
  <2> HIDE DEF p
  <2> QED BY <1>5, <2>1, <2>2, <2>3
<1>6. ASSUME NEW n \in Ns(c), a[n].handed
      PROVE  n <= s.n /\ \A i \in 1 .. Len(r) : r[i][2] = "head" => n < r[i][1]
  <2>1. n <= s.n /\ \A i \in 1 .. Len(p) : p[i][2] = "head" => n < p[i][1]
    BY <1>6 DEF BufferInv
  <2> QED BY <1>3, <2>1
<1>7. ASSUME p = <<>> PROVE r = <<>>
  <2>1. Len(r) = 0
    BY <1>1, <1>2, <1>7
  <2> QED BY <2>1
<1> QED BY <1>4, <1>5, <1>6, <1>7

LEMMA GoesOnKeeps ==
    ASSUME NEW c \in Conns, NEW k \in ConnFields, NEW q, NEW a \in [Ns(c) -> AnswerFields], NEW b,
           NEW w \in Seq(Nat \X {"data", "last"}), NEW s \in [n : Nat, i : Nat], NEW over,
           ConnInv(c, k, a, w, s, over), GoesOn(c, q, k, b, a)
    PROVE  ConnInv(c, q, b, w, s, over)
<1> DEFINE p == k.buffer
           r == q.buffer
<1>1. /\ BufferInv(c, k, a, s) /\ WireInv(c, k, a, w)
      /\ Open(k) /\ c \notin over => CurrentInv(c, k, a)
      /\ c \notin over => InOrder(w)
  BY DEF ConnInv
<1>2. /\ SockGoes(q, k) /\ {q.req, q.res} \subseteq {0, k.req, k.res}
      /\ r \in Seq(Nat \X Parts) /\ p \in Seq(Nat \X Parts) /\ Len(r) \in Nat /\ Len(p) \in Nat
      /\ \A n \in Ns(c) : b[n].handed = a[n].handed /\ b[n].ended = a[n].ended
                          /\ b[n].kind = a[n].kind
      /\ Requests[c] \in Nat
  BY HttpServerAssumption DEF GoesOn, SameAnswers, ConnFields
<1>3. /\ \A i \in 1 .. Len(r) : r[i][1] \in 1 .. s.n
      /\ \A i, j \in 1 .. Len(r) : i < j /\ r[j][2] = "head" => r[i][1] < r[j][1]
      /\ \A n \in Ns(c) : a[n].handed =>
            n <= s.n /\ \A i \in 1 .. Len(r) : r[i][2] = "head" => n < r[i][1]
      /\ p = <<>> => r = <<>>
  <2>1. Later(r, p)
    BY DEF GoesOn
  <2> QED BY <1>1, <1>2, <2>1, LaterPieces
<1>4. /\ s.n \in 0 .. Requests[c] /\ (s.n > 0 => s.i > 0)
      /\ {q.req, q.res} \subseteq 0 .. s.n
      /\ q.sock = "none" => p = <<>>
  BY <1>1, <1>2 DEF BufferInv, SockGoes
<1>5. BufferInv(c, q, b, s)
  BY <1>2, <1>3, <1>4 DEF BufferInv
<1>6. WireInv(c, q, b, w)
  BY <1>1, <1>2 DEF WireInv, Open, SockGoes
<1>7. ASSUME Open(q), c \notin over PROVE CurrentInv(c, q, b)
  <2>1. /\ CurrentInv(c, k, a) /\ q.detached = k.detached
        /\ \/ q.res = k.res /\ q.responseFinished = k.responseFinished /\ (Ready(q) => Ready(k))
           \/ q.res = 0 /\ (k.responseFinished \/ k.res = 0)
    BY <1>1, <1>2, <1>7 DEF GoesOn, Open, SockGoes
  <2>2. k.detached => q.res = 0 /\ r = <<>>
    BY <1>3, <2>1 DEF CurrentInv
  <2>3. \A n \in Ns(c) : b[n].handed /\ ~b[n].ended =>
            (n = q.res \/ q.detached) /\ \A l \in Ns(c) : b[l].handed => l <= n
    <3> SUFFICES ASSUME NEW n \in Ns(c), a[n].handed, ~a[n].ended
                 PROVE  (n = q.res \/ q.detached) /\ \A l \in Ns(c) : a[l].handed => l <= n
      BY <1>2
    <3>1. (n = k.res \/ k.detached) /\ \A l \in Ns(c) : a[l].handed => l <= n
      BY <2>1 DEF CurrentInv
    <3>2. CASE n = k.res /\ q.res # k.res
      <4>1. k.res # 0 /\ k.responseFinished
        BY <2>1, <3>2 DEF Ns
      <4>2. a[k.res].ended
        BY <2>1, <4>1 DEF CurrentInv
      <4> QED BY <3>2, <4>2
    <3> QED BY <2>1, <3>1, <3>2
  <2>4. q.res # 0 => /\ q.responseFinished => b[q.res].ended
                     /\ Ready(q) => b[q.res].kind = "none"
    <3> SUFFICES ASSUME q.res # 0 PROVE /\ q.responseFinished => b[q.res].ended
                                        /\ Ready(q) => b[q.res].kind = "none"
      OBVIOUS
    <3>1. q.res = k.res /\ q.res \in Ns(c)
      BY <1>1, <1>2, <2>1 DEF BufferInv, Ns
    <3> QED BY <1>2, <2>1, <3>1 DEF CurrentInv, Ready
  <2> QED BY <2>1, <2>2, <2>3, <2>4 DEF CurrentInv, Ready
<1> QED BY <1>1, <1>5, <1>6, <1>7 DEF ConnInv

LEMMA Appended ==
    ASSUME NEW S, NEW w \in Seq(S), NEW e \in S
    PROVE  LET x == Append(w, e)
           IN  /\ x \in Seq(S) /\ Len(w) \in Nat /\ Len(x) = Len(w) + 1 /\ x[Len(w) + 1] = e
               /\ \A i \in 1 .. Len(w) : x[i] = w[i]
               /\ \A i \in 1 .. Len(x) : i \in 1 .. Len(w) \/ i = Len(w) + 1
<1>1. /\ Append(w, e) \in Seq(S) /\ Len(w) \in Nat /\ Len(Append(w, e)) = Len(w) + 1
      /\ Append(w, e)[Len(w) + 1] = e
      /\ \A i \in 1 .. Len(w) : Append(w, e)[i] = w[i]
  OBVIOUS
<1> QED BY <1>1

\* The socket is shut, perhaps with an error response; what the program ended meanwhile
\* does not matter any more.
LEMMA ShutKeeps ==
    ASSUME NEW c \in Conns, NEW k \in ConnFields, NEW q, NEW a \in [Ns(c) -> AnswerFields], NEW b,
           NEW w \in Seq(Nat \X {"data", "last"}), NEW s \in [n : Nat, i : Nat], NEW over,
           NEW x \in Seq(Nat \X {"data", "last"}), NEW late,
           ConnInv(c, k, a, w, s, over),
           \A n \in Ns(c) : b[n].handed = a[n].handed,
           SockGoes(q, k), ~Open(q), {q.req, q.res} \subseteq 0 .. s.n,
           q.buffer \in Seq(Nat \X Parts), Later(q.buffer, k.buffer),
           x = w \/ (Open(k) /\ x = Append(w, <<Error, "last">>)),
           c \in over => c \in late
    PROVE  ConnInv(c, q, b, x, s, late)
<1> DEFINE p == k.buffer
           r == q.buffer
<1>1. /\ BufferInv(c, k, a, s) /\ WireInv(c, k, a, w) /\ (c \notin over => InOrder(w))
      /\ p \in Seq(Nat \X Parts) /\ Len(r) \in Nat /\ Len(p) \in Nat
  BY DEF ConnInv, ConnFields
<1>2. /\ \A i \in 1 .. Len(r) : r[i][1] \in 1 .. s.n
      /\ \A i, j \in 1 .. Len(r) : i < j /\ r[j][2] = "head" => r[i][1] < r[j][1]
      /\ \A n \in Ns(c) : a[n].handed =>
            n <= s.n /\ \A i \in 1 .. Len(r) : r[i][2] = "head" => n < r[i][1]
      /\ p = <<>> => r = <<>>
  BY <1>1, LaterPieces
<1>3. /\ s.n \in 0 .. Requests[c] /\ (s.n > 0 => s.i > 0)
      /\ q.sock = "none" => p = <<>>
  BY <1>1 DEF BufferInv, SockGoes
<1>4. BufferInv(c, q, b, s)
  BY <1>2, <1>3 DEF BufferInv
<1>5. WireInv(c, q, b, x)
  BY <1>1 DEF WireInv, Open, SockGoes
<1>6. ASSUME c \notin late PROVE InOrder(x)
  <2>1. CASE x = w
    BY <1>1, <1>6, <2>1
  <2>2. CASE Open(k) /\ x = Append(w, <<Error, "last">>)
    <3>1. /\ Len(w) \in Nat /\ Len(x) = Len(w) + 1 /\ x[Len(w) + 1] = <<Error, "last">>
          /\ \A i \in 1 .. Len(w) : x[i] = w[i]
          /\ \A i \in 1 .. Len(x) : i \in 1 .. Len(w) \/ i = Len(w) + 1
      <4>1. <<Error, "last">> \in Nat \X {"data", "last"}
        BY DEF Error
      <4> QED BY <2>2, <4>1, Appended
    <3>2. \A i \in 1 .. Len(w) : w[i][1] # Error
      BY <1>1, <2>2 DEF WireInv, Ns, Error
    <3> SUFFICES ASSUME NEW i \in 1 .. Len(x), NEW j \in 1 .. Len(x), i < j
                 PROVE  /\ x[i][1] # Error
                        /\ x[j][1] # Error => x[i][1] <= x[j][1]
                        /\ x[i][2] = "last" => x[i][1] # x[j][1]
      BY DEF InOrder
    <3>3. i \in 1 .. Len(w) /\ (j \in 1 .. Len(w) \/ j = Len(w) + 1)
      <4>1. i # Len(w) + 1
        BY <3>1
      <4> QED BY <3>1, <4>1
    <3>4. CASE j \in 1 .. Len(w)
      BY <1>1, <1>6, <3>1, <3>3, <3>4 DEF InOrder
    <3>5. CASE j = Len(w) + 1
      BY <3>1, <3>2, <3>3, <3>5
    <3> QED BY <3>3, <3>4, <3>5
  <2> QED BY <2>1, <2>2
<1> QED BY <1>4, <1>5, <1>6 DEF ConnInv

\* The program writes to a response on an open socket, or ends it.
LEMMA TellKeeps ==
    ASSUME NEW c \in Conns, NEW k \in ConnFields, NEW q, NEW a \in [Ns(c) -> AnswerFields],
           NEW b \in [Ns(c) -> AnswerFields], NEW n \in Ns(c), NEW v \in {"data", "last"},
           NEW w \in Seq(Nat \X {"data", "last"}), NEW s \in [n : Nat, i : Nat], NEW over,
           ConnInv(c, k, a, w, s, over), Open(k), a[n].handed, ~a[n].ended,
           q.sock = k.sock, q.req = k.req, q.res = k.res, q.buffer = k.buffer,
           q.state = k.state, q.detached = k.detached,
           q.responseFinished => k.responseFinished \/ v = "last",
           \A m \in Ns(c) : /\ b[m].handed = a[m].handed /\ b[m].kind = a[m].kind
                            /\ (b[m].ended <=> a[m].ended \/ (v = "last" /\ m = n))
    PROVE  ConnInv(c, q, b, Append(w, <<n, v>>), s, over)
<1> DEFINE x == Append(w, <<n, v>>)
<1>1. /\ BufferInv(c, k, a, s) /\ WireInv(c, k, a, w)
      /\ c \notin over => CurrentInv(c, k, a) /\ InOrder(w)
  BY DEF ConnInv
<1>2. /\ Len(w) \in Nat /\ Len(x) = Len(w) + 1 /\ x[Len(w) + 1] = <<n, v>>
      /\ \A i \in 1 .. Len(w) : x[i] = w[i]
      /\ \A i \in 1 .. Len(x) : i \in 1 .. Len(w) \/ i = Len(w) + 1
  <2>1. <<n, v>> \in Nat \X {"data", "last"}
    BY DEF Ns
  <2> QED BY <2>1, Appended
<1>3. BufferInv(c, q, b, s)
  BY <1>1 DEF BufferInv
<1>4. WireInv(c, q, b, x)
  <2>1. q.sock # "none"
    BY DEF Open
  <2>2. ASSUME NEW i \in 1 .. Len(x)
        PROVE  /\ x[i][1] \in Ns(c) /\ b[x[i][1]].handed
               /\ x[i][2] = "last" => b[x[i][1]].ended
    <3>1. CASE i \in 1 .. Len(w)
      <4>1. /\ w[i][1] \in Ns(c) /\ a[w[i][1]].handed
            /\ w[i][2] = "last" => a[w[i][1]].ended
        BY <1>1, <3>1 DEF WireInv
      <4> QED BY <1>2, <3>1, <4>1
    <3>2. CASE i = Len(w) + 1
      <4>1. x[i] = <<n, v>>
        BY <1>2, <3>2
      <4>2. b[n].handed /\ (v = "last" => b[n].ended)
        OBVIOUS
      <4> HIDE DEF x
      <4> QED BY <4>1, <4>2
    <3> QED BY <1>2, <2>2, <3>1, <3>2
  <2> HIDE DEF x
  <2> QED BY <2>1, <2>2 DEF WireInv
<1>5. ASSUME c \notin over PROVE CurrentInv(c, q, b)
  <2>1. CurrentInv(c, k, a)
    BY <1>1, <1>5
  <2>2. k.res # 0 => k.res \in Ns(c) /\ ~k.detached /\ n = k.res
    BY <1>1, <2>1, HttpServerAssumption DEF CurrentInv, BufferInv, Ns
  <2>3. \A m \in Ns(c) : b[m].handed /\ ~b[m].ended =>
            (m = q.res \/ q.detached) /\ \A l \in Ns(c) : b[l].handed => l <= m
    BY <2>1 DEF CurrentInv
  <2> QED BY <2>1, <2>2, <2>3 DEF CurrentInv
<1>6. ASSUME c \notin over PROVE InOrder(x)
  <2> SUFFICES ASSUME NEW i \in 1 .. Len(x), NEW j \in 1 .. Len(x), i < j
               PROVE  /\ x[i][1] # Error
                      /\ x[j][1] # Error => x[i][1] <= x[j][1]
                      /\ x[i][2] = "last" => x[i][1] # x[j][1]
    BY DEF InOrder
  <2>1. i \in 1 .. Len(w) /\ x[i] = w[i]
    BY <1>2
  <2>2. CASE j \in 1 .. Len(w)
    BY <1>1, <1>2, <1>6, <2>1, <2>2 DEF InOrder
  <2>3. CASE j = Len(w) + 1
    <3>1. /\ w[i][1] \in Ns(c) /\ a[w[i][1]].handed
          /\ w[i][2] = "last" => a[w[i][1]].ended
      BY <1>1, <2>1 DEF WireInv
    <3>2. w[i][1] <= n
      BY <1>1, <1>6, <3>1 DEF CurrentInv
    <3>3. w[i][1] # Error
      BY <3>1 DEF Ns, Error
    <3> QED BY <1>2, <2>1, <2>3, <3>1, <3>2, <3>3
  <2> QED BY <1>2, <2>2, <2>3
<1>7. ConnInv(c, q, b, x, s, over)
  <2> HIDE DEF x
  <2> QED BY <1>3, <1>4, <1>5, <1>6 DEF ConnInv
<1> QED BY <1>7

\* The next request in the buffer is newer than all that were handed over.
LEMMA NextHead ==
    ASSUME NEW c \in Conns, NEW k \in ConnFields, NEW a \in [Ns(c) -> AnswerFields],
           NEW s \in [n : Nat, i : Nat], BufferInv(c, k, a, s), HasHead(k.buffer)
    PROVE  LET b == SkipBlank(k.buffer)
               n == Head(b)[1]
           IN  /\ n \in Ns(c) /\ n <= s.n /\ \A m \in Ns(c) : a[m].handed => m < n
               /\ Tail(b) \in Seq(Nat \X Parts) /\ Later(Tail(b), k.buffer)
               /\ \A i \in 1 .. Len(Tail(b)) : Tail(b)[i][2] = "head" => n < Tail(b)[i][1]
               /\ k.buffer # <<>> /\ k.sock # "none"
<1> DEFINE p == k.buffer
           b == SkipBlank(p)
           t == Tail(b)
           n == Head(b)[1]
<1>1. /\ p \in Seq(Nat \X Parts) /\ b \in Seq(Nat \X Parts) /\ Later(b, p)
      /\ b # <<>> /\ Head(b)[2] = "head" /\ Requests[c] \in Nat
  BY LaterSkip, HttpServerAssumption DEF HasHead, ConnFields
<1> HIDE DEF b
<1>2. Len(b) \in Nat /\ 1 \in 1 .. Len(b) /\ Head(b) = b[1] /\ Len(p) \in Nat
  BY <1>1, HeadOf
<1>3. t \in Seq(Nat \X Parts) /\ Later(t, b)
  BY <1>1, LaterTail
<1>4. Later(t, p)
  BY <1>1, <1>3, LaterAgain
<1>5. PICK l \in 0 .. Len(p) : Len(b) = Len(p) - l /\ \A i \in 1 .. Len(b) : b[i] = p[i + l]
  BY <1>1 DEF Later
<1>6. 1 + l \in 1 .. Len(p) /\ b[1] = p[1 + l]
  BY <1>2, <1>5
<1>7. n = p[1 + l][1] /\ p[1 + l][2] = "head"
  BY <1>1, <1>2, <1>6
<1>8. n \in 1 .. s.n /\ s.n \in 0 .. Requests[c] /\ \A m \in Ns(c) : a[m].handed => m < n
  BY <1>6, <1>7 DEF BufferInv
<1>9. ASSUME NEW i \in 1 .. Len(t), t[i][2] = "head" PROVE n < t[i][1]
  <2>1. t[i] = b[i + 1] /\ i + 1 \in 1 .. Len(b)
    BY <1>1
  <2>2. t[i] = p[(i + 1) + l] /\ (i + 1) + l \in 1 .. Len(p) /\ 1 + l < (i + 1) + l
    BY <1>2, <1>5, <2>1
  <2> QED BY <1>6, <1>7, <1>9, <2>2 DEF BufferInv
<1>10. p # <<>>
  BY <1>6
<1>11. k.sock # "none"
  BY <1>10 DEF BufferInv
<1>12. n \in Ns(c) /\ n <= s.n
  BY <1>1, <1>8 DEF Ns
<1> QED BY <1>3, <1>4, <1>8, <1>9, <1>10, <1>11, <1>12 DEF b

\* It is handed over.
LEMMA HandOverKeeps ==
    ASSUME NEW c \in Conns, NEW k \in ConnFields, NEW q, NEW a \in [Ns(c) -> AnswerFields],
           NEW b \in [Ns(c) -> AnswerFields],
           NEW w \in Seq(Nat \X {"data", "last"}), NEW s \in [n : Nat, i : Nat],
           NEW over, NEW late,
           ConnInv(c, k, a, w, s, over), HasHead(k.buffer), Ready(k),
           q.sock = k.sock, q.buffer = Tail(SkipBlank(k.buffer)),
           q.req = Head(SkipBlank(k.buffer))[1], q.res = q.req,
           ~q.responseFinished, q.detached = k.detached, Ready(q) => a[q.req].kind = "none",
           c \in late <=> c \in over \/ (k.res # 0 /\ a[k.res].kind = "none"),
           \A m \in Ns(c) : /\ b[m].ended = a[m].ended /\ b[m].kind = a[m].kind
                            /\ (b[m].handed <=> a[m].handed \/ m = q.req)
    PROVE  ConnInv(c, q, b, w, s, late)
<1> DEFINE t == Tail(SkipBlank(k.buffer))
           n == q.req
<1>1. /\ BufferInv(c, k, a, s) /\ WireInv(c, k, a, w)
      /\ Open(k) /\ c \notin over => CurrentInv(c, k, a)
      /\ c \notin over => InOrder(w)
  BY DEF ConnInv
<1>2. /\ n \in Ns(c) /\ n <= s.n /\ \A m \in Ns(c) : a[m].handed => m < n
      /\ t \in Seq(Nat \X Parts) /\ Later(t, k.buffer)
      /\ \A i \in 1 .. Len(t) : t[i][2] = "head" => n < t[i][1]
      /\ k.buffer # <<>> /\ k.sock # "none"
  BY <1>1, NextHead
<1>3. n \in 0 .. s.n /\ n \in Nat /\ Requests[c] \in Nat
  BY <1>2, HttpServerAssumption DEF Ns
<1>4. BufferInv(c, q, b, s)
  <2>1. /\ \A i \in 1 .. Len(t) : t[i][1] \in 1 .. s.n
        /\ \A i, j \in 1 .. Len(t) : i < j /\ t[j][2] = "head" => t[i][1] < t[j][1]
        /\ \A l \in Ns(c) : a[l].handed =>
            l <= s.n /\ \A i \in 1 .. Len(t) : t[i][2] = "head" => l < t[i][1]
    BY <1>1, <1>2, LaterPieces
  <2>2. q.buffer = t
    OBVIOUS
  <2> HIDE DEF t
  <2>3. \A l \in Ns(c) : b[l].handed =>
            l <= s.n /\ \A i \in 1 .. Len(t) : t[i][2] = "head" => l < t[i][1]
    BY <1>2, <2>1
  <2>4. s.n \in 0 .. Requests[c] /\ (s.n > 0 => s.i > 0)
    BY <1>1 DEF BufferInv
  <2> QED BY <1>2, <1>3, <2>1, <2>2, <2>3, <2>4 DEF BufferInv
<1>5. WireInv(c, q, b, w)
  BY <1>1, <1>2 DEF WireInv, Open
<1>6. ASSUME Open(q), c \notin late PROVE CurrentInv(c, q, b)
  <2>1. CurrentInv(c, k, a) /\ ~k.detached
    BY <1>1, <1>2, <1>6 DEF Open, CurrentInv
  <2>2. k.res = 0
    BY <1>6, <2>1 DEF CurrentInv, Ready
  <2>3. \A m \in Ns(c) : a[m].handed => a[m].ended
    BY <2>1, <2>2 DEF CurrentInv, Ns
  <2>4. \A m \in Ns(c) : b[m].handed /\ ~b[m].ended =>
            m = n /\ \A l \in Ns(c) : b[l].handed => l <= m
    <3> SUFFICES ASSUME NEW m \in Ns(c), b[m].handed, ~b[m].ended
                 PROVE  m = n /\ \A l \in Ns(c) : b[l].handed => l <= m
      OBVIOUS
    <3>1. m = n
      BY <2>3
    <3>2. ASSUME NEW l \in Ns(c), b[l].handed PROVE l <= n
      <4>1. a[l].handed \/ l = n
        BY <3>2
      <4> QED BY <1>2, <1>3, <4>1 DEF Ns
    <3> QED BY <3>1, <3>2
  <2> QED BY <1>2, <2>1, <2>4 DEF CurrentInv, Ready
<1> QED BY <1>1, <1>4, <1>5, <1>6 DEF ConnInv

\* The program takes the socket over.
LEMMA DetachKeeps ==
    ASSUME NEW c \in Conns, NEW k \in ConnFields, NEW q, NEW a \in [Ns(c) -> AnswerFields], NEW b,
           NEW w \in Seq(Nat \X {"data", "last"}), NEW s \in [n : Nat, i : Nat], NEW over,
           ConnInv(c, k, a, w, s, over), SameAnswers(c, b, a),
           q.sock = k.sock, q.buffer = <<>>, q.req = 0, q.res = 0, q.detached
    PROVE  ConnInv(c, q, b, w, s, over)
<1>1. Requests[c] \in Nat /\ Len(q.buffer) = 0
  BY HttpServerAssumption
<1>2. /\ BufferInv(c, k, a, s) /\ WireInv(c, k, a, w)
      /\ Open(k) /\ c \notin over => CurrentInv(c, k, a)
      /\ c \notin over => InOrder(w)
  BY DEF ConnInv
<1>3. BufferInv(c, q, b, s)
  BY <1>1, <1>2 DEF BufferInv, SameAnswers
<1>4. WireInv(c, q, b, w)
  BY <1>2 DEF WireInv, Open, SameAnswers
<1>5. Open(q) /\ c \notin over => CurrentInv(c, q, b)
  BY <1>2 DEF CurrentInv, Open, SameAnswers
<1> QED BY <1>2, <1>3, <1>4, <1>5 DEF ConnInv

-----------------------------------------------------------------------------
(* What a client sends.                                                      *)

SentFields(c) == [n : Nat, i : Nat, run : Seq(Nat \X Parts), kinds : [Ns(c) -> AllKinds]]

LEMMA LaterParts ==
    ASSUME NEW kind \in AllKinds, NEW i \in Nat, 0 < i, i < Len(PartsOf(kind))
    PROVE  PartsOf(kind)[i + 1] \in Parts \ {"head"}
<1>1. CASE kind \in {"length", "badBody"}
  <2>1. PartsOf(kind) = <<"head", "body", "last">>
    BY <1>1 DEF PartsOf
  <2>2. i \in {1, 2}
    BY <2>1
  <2> QED BY <2>1, <2>2 DEF Parts
<1>2. CASE kind = "chunked"
  <2>1. PartsOf(kind) = <<"head", "body", "last", "crlf">>
    BY <1>2 DEF PartsOf
  <2>2. i \in {1, 2, 3}
    BY <2>1
  <2> QED BY <2>1, <2>2 DEF Parts
<1>3. CASE kind = "badChunk"
  <2>1. PartsOf(kind) = <<"head", "bad">>
    BY <1>3 DEF PartsOf
  <2>2. i = 1
    BY <2>1
  <2> QED BY <2>1, <2>2 DEF Parts
<1>4. CASE kind \in {"none", "bad", "connect"}
  <2>1. PartsOf(kind) = <<"head">>
    BY <1>4 DEF PartsOf
  <2> QED BY <2>1
<1> QED BY <1>1, <1>2, <1>3, <1>4 DEF AllKinds

SentOn(s, i, r) == [s EXCEPT !.i = i, !.run = r]

LEMMA SentOnFields ==
    ASSUME NEW c, NEW s \in SentFields(c), NEW i \in Nat, NEW r \in Seq(Nat \X Parts)
    PROVE  LET u == SentOn(s, i, r)
           IN  u \in SentFields(c) /\ u.n = s.n /\ u.i = i /\ u.run = r /\ u.kinds = s.kinds
BY DEF SentFields, SentOn

LEMMA OneMoreSends ==
    ASSUME NEW c \in Conns, NEW s \in SentFields(c), s.n \in 0 .. Requests[c],
           s.n > 0 => s.i > 0, NEW t \in OneMore(c, s)
    PROVE  /\ t \in SentFields(c) /\ t.n \in 1 .. Requests[c] /\ t.i > 0 /\ s.n <= t.n
           /\ \A m \in Ns(c) : m <= s.n => t.kinds[m] = s.kinds[m]
           /\ \E part \in Parts : /\ t.run = Append(s.run, <<t.n, part>>)
                                  /\ part = "head" => s.n < t.n
<1> DEFINE kind == IF s.n = 0 THEN "none" ELSE s.kinds[s.n]
<1>1. Requests[c] \in Nat
  BY HttpServerAssumption
<1>2. kind \in AllKinds
  <2>1. s.n # 0 => s.n \in Ns(c)
    BY <1>1 DEF Ns
  <2> QED BY <2>1 DEF SentFields, AllKinds
<1>3. CASE s.n > 0 /\ s.i < Len(PartsOf(kind))
  <2> DEFINE part == PartsOf(kind)[s.i + 1]
             r == Append(s.run, <<s.n, part>>)
             j == s.i + 1
  <2>1. part \in Parts \ {"head"}
    BY <1>2, <1>3, LaterParts DEF SentFields
  <2>2. t = [s EXCEPT !.i = j, !.run = r]
    BY <1>3 DEF OneMore
  <2> HIDE DEF part
  <2>3. s.n \in Nat /\ s.i \in Nat /\ s.run \in Seq(Nat \X Parts)
    BY DEF SentFields
  <2>4. <<s.n, part>> \in Nat \X Parts
    BY <2>1, <2>3
  <2>5. j \in Nat /\ j > 0 /\ r \in Seq(Nat \X Parts)
    BY <2>3, <2>4
  <2>6. r = Append(s.run, <<s.n, part>>)
    OBVIOUS
  <2> HIDE DEF j, r
  <2>7. t \in SentFields(c) /\ t.n = s.n /\ t.i = j /\ t.run = r /\ t.kinds = s.kinds
    <3>1. t = SentOn(s, j, r)
      BY <2>2 DEF SentOn
    <3> QED BY <2>5, <3>1, SentOnFields
  <2> QED BY <1>1, <1>3, <2>1, <2>3, <2>5, <2>6, <2>7
<1>4. CASE ~(s.n > 0 /\ s.i < Len(PartsOf(kind)))
  <2>1. /\ s.n < Requests[c]
        /\ t \in {[n |-> s.n + 1, i |-> 1, run |-> Append(s.run, <<s.n + 1, "head">>),
                   kinds |-> [s.kinds EXCEPT ![s.n + 1] = x]] : x \in Kinds}
    BY <1>4 DEF OneMore
  <2>2. PICK x \in Kinds :
            t = [n |-> s.n + 1, i |-> 1, run |-> Append(s.run, <<s.n + 1, "head">>),
                 kinds |-> [s.kinds EXCEPT ![s.n + 1] = x]]
    BY <2>1
  <2>3. /\ s.n \in Nat /\ s.run \in Seq(Nat \X Parts) /\ s.kinds \in [Ns(c) -> AllKinds]
        /\ x \in AllKinds
    BY HttpServerAssumption DEF SentFields
  <2>4. <<s.n + 1, "head">> \in Nat \X Parts
    BY <2>3 DEF Parts
  <2>5. Append(s.run, <<s.n + 1, "head">>) \in Seq(Nat \X Parts)
    BY <2>3, <2>4
  <2>6. [s.kinds EXCEPT ![s.n + 1] = x] \in [Ns(c) -> AllKinds]
    BY <2>3
  <2>7. \A m \in Ns(c) : m <= s.n => [s.kinds EXCEPT ![s.n + 1] = x][m] = s.kinds[m]
    BY <2>3 DEF Ns
  <2>8. t \in SentFields(c)
    BY <2>2, <2>3, <2>5, <2>6 DEF SentFields
  <2> QED BY <1>1, <2>1, <2>2, <2>3, <2>7, <2>8 DEF Parts
<1> QED BY <1>3, <1>4

\* The pieces of run come after what the client had sent when it was at its n-th request,
\* and up to its m-th.
RunInv(n, m, run) ==
    /\ \A i \in 1 .. Len(run) : /\ run[i][1] \in 1 .. m /\ n <= run[i][1]
                                /\ run[i][2] = "head" => n < run[i][1]
    /\ \A i, j \in 1 .. Len(run) : i < j /\ run[j][2] = "head" => run[i][1] < run[j][1]

LEMMA RunOn ==
    ASSUME NEW n \in Nat, NEW m \in Nat, NEW l \in Nat, n <= m, m <= l, l > 0,
           NEW run \in Seq(Nat \X Parts), RunInv(n, m, run), NEW part \in Parts,
           part = "head" => m < l
    PROVE  RunInv(n, l, Append(run, <<l, part>>))
<1> DEFINE x == Append(run, <<l, part>>)
<1>1. /\ Len(run) \in Nat /\ Len(x) = Len(run) + 1 /\ x[Len(run) + 1] = <<l, part>>
      /\ \A i \in 1 .. Len(run) : x[i] = run[i]
      /\ \A i \in 1 .. Len(x) : i \in 1 .. Len(run) \/ i = Len(run) + 1
  <2>1. <<l, part>> \in Nat \X Parts
    OBVIOUS
  <2> QED BY <2>1, Appended
<1>2. \A i \in 1 .. Len(run) : run[i] \in Nat \X Parts
  OBVIOUS
<1> HIDE DEF x
<1>3. ASSUME NEW i \in 1 .. Len(x)
      PROVE  x[i][1] \in 1 .. l /\ n <= x[i][1] /\ (x[i][2] = "head" => n < x[i][1])
  <2>1. CASE i \in 1 .. Len(run)
    BY <1>1, <1>2, <2>1 DEF RunInv
  <2>2. CASE i = Len(run) + 1
    BY <1>1, <2>2
  <2> QED BY <1>1, <2>1, <2>2
<1>4. ASSUME NEW i \in 1 .. Len(x), NEW j \in 1 .. Len(x), i < j, x[j][2] = "head"
      PROVE  x[i][1] < x[j][1]
  <2>1. i \in 1 .. Len(run) /\ x[i] = run[i]
    <3>1. i # Len(run) + 1
      BY <1>1, <1>4
    <3> QED BY <1>1, <3>1
  <2>2. CASE j \in 1 .. Len(run)
    BY <1>1, <1>4, <2>1, <2>2 DEF RunInv
  <2>3. CASE j = Len(run) + 1
    <3>1. run[i][1] \in 1 .. m
      BY <2>1 DEF RunInv
    <3> QED BY <1>1, <1>4, <2>1, <2>3, <3>1
  <2> QED BY <1>1, <2>2, <2>3
<1> QED BY <1>3, <1>4 DEF RunInv, x

LEMMA ArrivalsSend ==
    ASSUME NEW c \in Conns, client[c] \in [n : Nat, i : Nat], answer[c] \in [Ns(c) -> AnswerFields],
           client[c].n \in 0 .. Requests[c], client[c].n > 0 => client[c].i > 0,
           NEW t \in Arrivals(c)
    PROVE  /\ t \in SentFields(c) /\ t.n \in 1 .. Requests[c] /\ t.i > 0 /\ client[c].n <= t.n
           /\ \A m \in Ns(c) : m <= client[c].n => t.kinds[m] = answer[c][m].kind
           /\ RunInv(client[c].n, t.n, t.run)
<1> DEFINE n == client[c].n
           s == [n |-> client[c].n, i |-> client[c].i, run |-> <<>>,
                 kinds |-> [m \in Ns(c) |-> answer[c][m].kind]]
           Sent(u) == /\ u \in SentFields(c) /\ u.n \in 1 .. Requests[c] /\ u.i > 0 /\ n <= u.n
                      /\ \A m \in Ns(c) : m <= n => u.kinds[m] = answer[c][m].kind
                      /\ RunInv(n, u.n, u.run)
<1>1. /\ s \in SentFields(c) /\ s.n = n /\ s.i = client[c].i /\ s.run = <<>>
      /\ \A m \in Ns(c) : s.kinds[m] = answer[c][m].kind
  <2>1. <<>> \in Seq(Nat \X Parts)
    OBVIOUS
  <2>2. [m \in Ns(c) |-> answer[c][m].kind] \in [Ns(c) -> AllKinds]
    BY DEF AnswerFields
  <2> QED BY <2>1, <2>2 DEF SentFields
<1>2. RunInv(n, n, <<>>)
  BY DEF RunInv
<1>3. t \in OneMore(c, s) \/ \E u \in OneMore(c, s) : t \in OneMore(c, u)
  BY DEF Arrivals
<1> HIDE DEF s
<1>4. n \in Nat /\ Requests[c] \in Nat
  BY HttpServerAssumption
<1>5. ASSUME NEW u \in OneMore(c, s) PROVE Sent(u)
  <2>1. /\ u \in SentFields(c) /\ u.n \in 1 .. Requests[c] /\ u.i > 0 /\ n <= u.n
        /\ \A m \in Ns(c) : m <= n => u.kinds[m] = s.kinds[m]
        /\ \E part \in Parts : /\ u.run = Append(s.run, <<u.n, part>>)
                               /\ part = "head" => n < u.n
    BY <1>1, OneMoreSends
  <2>2. RunInv(n, u.n, u.run)
    <3>1. PICK part \in Parts : /\ u.run = Append(s.run, <<u.n, part>>)
                                /\ part = "head" => n < u.n
      BY <2>1
    <3>2. u.n \in Nat /\ u.n > 0 /\ n <= n
      BY <1>4, <2>1
    <3>3. s.run \in Seq(Nat \X Parts) /\ RunInv(n, n, s.run)
      BY <1>1, <1>2, NoBuffer
    <3> QED BY <1>4, <2>1, <3>1, <3>2, <3>3, RunOn
  <2> QED BY <1>1, <2>1, <2>2
<1>6. ASSUME NEW u \in OneMore(c, s), NEW v \in OneMore(c, u) PROVE Sent(v)
  <2>1. Sent(u)
    BY <1>5
  <2>2. u.n \in 0 .. Requests[c] /\ u.n \in Nat /\ u.run \in Seq(Nat \X Parts)
    BY <1>4, <2>1 DEF SentFields
  <2>3. /\ v \in SentFields(c) /\ v.n \in 1 .. Requests[c] /\ v.i > 0 /\ u.n <= v.n
        /\ \A m \in Ns(c) : m <= u.n => v.kinds[m] = u.kinds[m]
        /\ \E part \in Parts : /\ v.run = Append(u.run, <<v.n, part>>)
                               /\ part = "head" => u.n < v.n
    BY <2>1, <2>2, OneMoreSends
  <2>4. RunInv(n, v.n, v.run)
    <3>1. PICK part \in Parts : /\ v.run = Append(u.run, <<v.n, part>>)
                                /\ part = "head" => u.n < v.n
      BY <2>3
    <3>2. v.n \in Nat /\ v.n > 0
      BY <1>4, <2>3
    <3> QED BY <1>4, <2>1, <2>2, <2>3, <3>1, <3>2, RunOn
  <2>5. \A m \in Ns(c) : m <= n => v.kinds[m] = answer[c][m].kind
    BY <1>4, <2>1, <2>2, <2>3 DEF Ns
  <2>6. n <= v.n
    BY <1>4, <2>1, <2>2, <2>3
  <2> QED BY <2>3, <2>4, <2>5, <2>6
<1> QED BY <1>3, <1>5, <1>6

\* The pieces arrive.
LEMMA ArriveKeeps ==
    ASSUME NEW c \in Conns, NEW k \in ConnFields, NEW q, NEW a \in [Ns(c) -> AnswerFields],
           NEW b \in [Ns(c) -> AnswerFields],
           NEW w \in Seq(Nat \X {"data", "last"}), NEW s \in [n : Nat, i : Nat],
           NEW u \in [n : Nat, i : Nat], NEW over,
           ConnInv(c, k, a, w, s, over), NEW run \in Seq(Nat \X Parts),
           s.n <= u.n, u.n \in 1 .. Requests[c], u.i > 0, RunInv(s.n, u.n, run),
           \A m \in Ns(c) : /\ b[m].handed = a[m].handed /\ b[m].ended = a[m].ended
                            /\ m <= s.n => b[m].kind = a[m].kind,
           k.sock # "none", q.sock = k.sock, q.req = k.req, q.res = k.res, q.state = k.state,
           q.detached = k.detached, q.responseFinished = k.responseFinished,
           q.buffer = IF k.detached THEN k.buffer ELSE k.buffer \o run
    PROVE  ConnInv(c, q, b, w, u, over)
<1> DEFINE p == k.buffer
           x == p \o run
<1>1. /\ BufferInv(c, k, a, s) /\ WireInv(c, k, a, w)
      /\ Open(k) /\ c \notin over => CurrentInv(c, k, a)
      /\ c \notin over => InOrder(w)
      /\ p \in Seq(Nat \X Parts)
  BY DEF ConnInv, ConnFields
<1>2. s.n \in Nat /\ u.n \in Nat /\ Requests[c] \in Nat
  BY HttpServerAssumption
<1>3. /\ u.n \in 0 .. Requests[c] /\ (u.n > 0 => u.i > 0)
      /\ {q.req, q.res} \subseteq 0 .. u.n /\ q.sock # "none"
      /\ \A n \in Ns(c) : a[n].handed => n <= s.n /\ n <= u.n
  BY <1>1, <1>2 DEF BufferInv, Ns
<1>4. BufferInv(c, q, b, u)
  <2>1. CASE k.detached
    <3>1. \A i \in 1 .. Len(p) : p[i][1] \in 1 .. u.n
      BY <1>1, <1>2 DEF BufferInv
    <3>2. q.buffer = p
      BY <2>1
    <3>3. /\ \A i, j \in 1 .. Len(p) : i < j /\ p[j][2] = "head" => p[i][1] < p[j][1]
          /\ \A n \in Ns(c) : b[n].handed =>
                n <= u.n /\ \A i \in 1 .. Len(p) : p[i][2] = "head" => n < p[i][1]
      BY <1>1, <1>3 DEF BufferInv
    <3> QED BY <1>3, <3>1, <3>2, <3>3 DEF BufferInv
  <2>2. CASE ~k.detached
    <3>1. /\ Len(p) \in Nat /\ Len(run) \in Nat /\ Len(x) = Len(p) + Len(run)
          /\ \A i \in 1 .. Len(p) : x[i] = p[i]
          /\ \A i \in 1 .. Len(x) : i > Len(p) => x[i] = run[i - Len(p)]
          /\ \A i \in 1 .. Len(p) : p[i] \in Nat \X Parts
          /\ \A i \in 1 .. Len(run) : run[i] \in Nat \X Parts
      BY <1>1
    <3> HIDE DEF x
    <3>2. ASSUME NEW i \in 1 .. Len(x), i > Len(p)
          PROVE  /\ i - Len(p) \in 1 .. Len(run) /\ x[i] = run[i - Len(p)]
                 /\ x[i][1] \in 1 .. u.n /\ s.n <= x[i][1]
                 /\ x[i][2] = "head" => s.n < x[i][1]
      <4>1. i - Len(p) \in 1 .. Len(run) /\ x[i] = run[i - Len(p)]
        BY <3>1, <3>2
      <4> QED BY <4>1 DEF RunInv
    <3>3. ASSUME NEW i \in 1 .. Len(x), i <= Len(p)
          PROVE  i \in 1 .. Len(p) /\ x[i] = p[i] /\ x[i][1] \in 1 .. s.n
      BY <1>1, <3>1, <3>3 DEF BufferInv
    <3>4. \A i \in 1 .. Len(x) : x[i][1] \in 1 .. u.n
      BY <1>2, <3>1, <3>2, <3>3
    <3>5. ASSUME NEW i \in 1 .. Len(x), NEW j \in 1 .. Len(x), i < j, x[j][2] = "head"
          PROVE  x[i][1] < x[j][1]
      <4>1. CASE j <= Len(p)
        <5>1. i <= Len(p)
          BY <3>1, <3>5, <4>1
        <5> QED BY <1>1, <3>3, <3>5, <4>1, <5>1 DEF BufferInv
      <4>2. CASE i <= Len(p) /\ j > Len(p)
        <5>1. x[i][1] \in 1 .. s.n
          BY <3>3, <4>2
        <5>2. x[j][1] \in 1 .. u.n /\ s.n < x[j][1]
          BY <3>2, <3>5, <4>2
        <5> QED BY <1>2, <5>1, <5>2
      <4>3. CASE i > Len(p)
        <5>1. j > Len(p) /\ i - Len(p) < j - Len(p)
          BY <3>1, <3>5, <4>3
        <5> QED BY <3>2, <3>5, <4>3, <5>1 DEF RunInv
      <4> QED BY <3>1, <4>1, <4>2, <4>3
    <3>6. ASSUME NEW n \in Ns(c), b[n].handed, NEW i \in 1 .. Len(x), x[i][2] = "head"
          PROVE  n < x[i][1]
      <4>1. a[n].handed /\ n <= s.n /\ n \in Nat
        BY <1>3, <3>6 DEF Ns
      <4>2. CASE i <= Len(p)
        BY <1>1, <3>3, <3>6, <4>1, <4>2 DEF BufferInv
      <4>3. CASE i > Len(p)
        BY <1>2, <3>2, <3>6, <4>1, <4>3
      <4> QED BY <3>1, <4>2, <4>3
    <3>7. q.buffer = x
      BY <2>2 DEF x
    <3>8. \A n \in Ns(c) : b[n].handed =>
                n <= u.n /\ \A i \in 1 .. Len(x) : x[i][2] = "head" => n < x[i][1]
      BY <1>3, <3>6
    <3> QED BY <1>3, <3>4, <3>5, <3>7, <3>8 DEF BufferInv
  <2> QED BY <2>1, <2>2
<1>5. WireInv(c, q, b, w)
  BY <1>1 DEF WireInv, Open
<1>6. ASSUME Open(q), c \notin over PROVE CurrentInv(c, q, b)
  <2>1. CurrentInv(c, k, a)
    BY <1>1, <1>6 DEF Open
  <2>2. k.res # 0 => k.res \in Ns(c) /\ k.res <= s.n
    BY <1>1, <1>2 DEF BufferInv, Ns
  <2>3. k.detached => q.res = 0 /\ q.buffer = <<>>
    BY <2>1 DEF CurrentInv
  <2>4. q.res # 0 /\ q.state \in {"IDLE", "HEADERS"} => b[q.res].kind = "none"
    BY <2>1, <2>2 DEF CurrentInv
  <2>5. \A n \in Ns(c) : b[n].handed /\ ~b[n].ended =>
            (n = q.res \/ q.detached) /\ \A m \in Ns(c) : b[m].handed => m <= n
    BY <2>1 DEF CurrentInv
  <2> QED BY <2>1, <2>2, <2>3, <2>4, <2>5 DEF CurrentInv
<1> QED BY <1>1, <1>4, <1>5, <1>6 DEF ConnInv

LEMMA OpenFields ==
    LET q == [NewConn EXCEPT !.sock = "open"]
    IN  /\ q \in ConnFields /\ q.sock = "open" /\ q.req = 0 /\ q.res = 0 /\ q.buffer = <<>>
        /\ ~q.detached
BY NoBuffer DEF NewConn, ConnFields

LEMMA OpenKeeps ==
    ASSUME NEW c \in Conns, NEW k, NEW a \in [Ns(c) -> AnswerFields],
           NEW w \in Seq(Nat \X {"data", "last"}), NEW s \in [n : Nat, i : Nat], NEW over,
           ConnInv(c, k, a, w, s, over), k.sock = "none"
    PROVE  ConnInv(c, [NewConn EXCEPT !.sock = "open"], a, w, s, over)
<1> DEFINE q == [NewConn EXCEPT !.sock = "open"]
<1>1. /\ BufferInv(c, k, a, s) /\ w = <<>> /\ \A n \in Ns(c) : ~a[n].handed
  BY DEF ConnInv, WireInv
<1>2. Len(w) = 0 /\ Len(q.buffer) = 0
  BY <1>1, OpenFields
<1> HIDE DEF q
<1>3. BufferInv(c, q, a, s)
  BY <1>1, <1>2, OpenFields DEF BufferInv, q
<1>4. WireInv(c, q, a, w) /\ InOrder(w)
  BY <1>1, <1>2 DEF WireInv, InOrder
<1>5. CurrentInv(c, q, a)
  BY <1>1, OpenFields DEF CurrentInv, q
<1>6. ConnInv(c, q, a, w, s, over)
  BY <1>3, <1>4, <1>5 DEF ConnInv
<1> QED BY <1>6 DEF q

-----------------------------------------------------------------------------
(* The steps.                                                                *)

LEMMA OneKeeps ==
    ASSUME ServerInv, Typed', NEW c \in Conns,
           \A d \in Conns \ {c} :
                /\ conn'[d] = conn[d] /\ answer'[d] = answer[d] /\ wire'[d] = wire[d]
                /\ client'[d] = client[d] /\ (d \in overrun' <=> d \in overrun),
           ConnInv(c, conn'[c], answer'[c], wire'[c], client'[c], overrun')
    PROVE  ServerInv'
<1> SUFFICES ASSUME NEW d \in Conns
             PROVE  ConnInv(d, conn'[d], answer'[d], wire'[d], client'[d], overrun')
  BY DEF ServerInv
<1>1. CASE d = c
  BY <1>1
<1>2. CASE d # c
  <2>1. ConnInv(d, conn[d], answer[d], wire[d], client[d], overrun)
    BY DEF ServerInv
  <2>2. ConnInv(d, conn'[d], answer'[d], wire'[d], client'[d], overrun)
    BY <1>2, <2>1
  <2> QED BY <1>2, <2>2 DEF ConnInv
<1> QED BY <1>1, <1>2

LEMMA AllGoOnKeeps ==
    ASSUME ServerInv, Typed', UNCHANGED <<wire, client, overrun>>,
           \A d \in Conns : GoesOn(d, conn'[d], conn[d], answer'[d], answer[d])
    PROVE  ServerInv'
<1> SUFFICES ASSUME NEW d \in Conns
             PROVE  ConnInv(d, conn'[d], answer'[d], wire[d], client[d], overrun)
  BY DEF ServerInv
<1>1. /\ conn[d] \in ConnFields /\ answer[d] \in [Ns(d) -> AnswerFields]
      /\ wire[d] \in Seq(Nat \X {"data", "last"}) /\ client[d] \in [n : Nat, i : Nat]
      /\ ConnInv(d, conn[d], answer[d], wire[d], client[d], overrun)
  BY DEF ServerInv, Typed
<1> QED BY <1>1, GoesOnKeeps

LEMMA StaysPut ==
    ASSUME NEW c, NEW k \in ConnFields, NEW q \in ConnFields, NEW a, NEW b,
           SameAnswers(c, b, a), SameParse(q, k), SockGoes(q, k)
    PROVE  GoesOn(c, q, k, b, a)
BY LaterAtAll DEF GoesOn, SameParse, Ready, ConnFields

\* The parser goes on with one connection, and the frames stay in their type.
LEMMA ParserKeeps ==
    ASSUME ServerInv, NEW c \in Conns, NEW q \in ConnFields, NEW b,
           conn' = [conn EXCEPT ![c] = q], answer' = [answer EXCEPT ![c] = b],
           GoesOn(c, q, conn[c], b, answer[c]),
           frames' \in Seq(FrameFields), UNCHANGED <<server, wire, client, overrun>>
    PROVE  ServerInv'
<1>1. Typed
  BY DEF ServerInv
<1>2. b \in [Ns(c) -> AnswerFields]
  BY DEF GoesOn, SameAnswers
<1>3. conn' \in [Conns -> ConnFields]
  BY <1>1 DEF Typed
<1>4. /\ answer' = [d \in Conns |-> answer'[d]]
      /\ \A d \in Conns : answer'[d] \in [Ns(d) -> AnswerFields]
  BY <1>1, <1>2 DEF Typed
<1>5. Typed'
  BY <1>1, <1>3, <1>4 DEF Typed
<1>6. ASSUME NEW d \in Conns PROVE GoesOn(d, conn'[d], conn[d], answer'[d], answer[d])
  <2>1. CASE d = c
    BY <1>1, <2>1 DEF Typed
  <2>2. CASE d # c
    <3>1. conn'[d] = conn[d] /\ answer'[d] = answer[d] /\ conn[d] \in ConnFields
      BY <1>1, <2>2 DEF Typed
    <3>2. SameAnswers(d, answer[d], answer[d])
      BY <1>1, SameAnswersAtAll DEF Typed
    <3> QED BY <3>1, <3>2, StaysPut DEF SameParse, SockGoes
  <2> QED BY <2>1, <2>2
<1> QED BY <1>5, <1>6, AllGoOnKeeps

LEMMA TopFrame ==
    ASSUME Typed, Top.at # "rest"
    PROVE  /\ Top \in FrameFields /\ Top.c \in Conns /\ Tail(frames) \in Seq(FrameFields)
           /\ frames # <<>>
<1>1. frames # <<>> /\ Top = Head(frames)
  BY DEF Top, NoFrame
<1>2. frames \in Seq(FrameFields)
  BY DEF Typed
<1>3. Head(frames) \in FrameFields /\ Tail(frames) \in Seq(FrameFields)
  BY <1>1, <1>2
<1> QED BY <1>1, <1>3 DEF FrameFields

LEMMA PushFrame ==
    ASSUME NEW f \in FrameFields, NEW s \in Seq(FrameFields)
    PROVE  <<f>> \o s \in Seq(FrameFields) /\ <<f>> \in Seq(FrameFields)
OBVIOUS

LEMMA LoopFrame ==
    ASSUME NEW c \in Conns, NEW data \in BOOLEAN
    PROVE  Loop(c, data) \in FrameFields
BY DEF Loop, FrameFields

LEMMA LoopIsLeft ==
    ASSUME Typed, Top.at = "loop", NEW k \in ConnFields, LeaveLoop(Top.c, k)
    PROVE  /\ frames' \in Seq(FrameFields)
           /\ \E q \in ConnFields : /\ conn' = [conn EXCEPT ![Top.c] = q]
                                    /\ SameParse(q, k) /\ q.sock = k.sock
<1> DEFINE v == k.timer /\ ~(Top.data /\ k.res # 0 /\ ~k.responseFinished)
           q == [k EXCEPT !.timer = v]
<1>1. Top \in FrameFields /\ Tail(frames) \in Seq(FrameFields)
  BY TopFrame
<1>2. v \in BOOLEAN
  BY DEF ConnFields
<1>3. conn' = [conn EXCEPT ![Top.c] = q] /\ frames' = Tail(frames)
  BY DEF LeaveLoop
<1> HIDE DEF v
<1>4. q \in ConnFields /\ SameParse(q, k) /\ q.sock = k.sock
  BY <1>2, FlagFields
<1> QED BY <1>1, <1>3, <1>4

\* A turn that shuts the socket.
LEMMA ShutTurnKeeps ==
    ASSUME ServerInv, Top.at = "loop", NEW c \in Conns, c = Top.c, NEW k \in ConnFields, NEW b,
           LeaveLoop(c, k), answer' = [answer EXCEPT ![c] = b], SameAnswers(c, b, answer[c]),
           SockGoes(k, conn[c]), ~Open(k), {k.req, k.res} \subseteq 0 .. client[c].n,
           Later(k.buffer, conn[c].buffer),
           wire' = wire \/ Written(c, Error, "last"),
           overrun' = overrun \/ overrun' = overrun \cup {c},
           UNCHANGED <<server, client>>
    PROVE  ServerInv'
<1>1. Typed /\ ConnInv(c, conn[c], answer[c], wire[c], client[c], overrun)
  BY DEF ServerInv
<1>2. /\ conn \in [Conns -> ConnFields] /\ answer[c] \in [Ns(c) -> AnswerFields]
      /\ wire \in [Conns -> Seq(Nat \X {"data", "last"})]
      /\ client[c] \in [n : Nat, i : Nat]
  BY <1>1 DEF Typed
<1>3. frames' \in Seq(FrameFields)
  BY <1>1, LoopIsLeft
<1>4. PICK q \in ConnFields :
        conn' = [conn EXCEPT ![c] = q] /\ SameParse(q, k) /\ q.sock = k.sock
  BY <1>1, LoopIsLeft
<1>5. PICK x \in Seq(Nat \X {"data", "last"}) :
        /\ wire' = [wire EXCEPT ![c] = x]
        /\ x = wire[c] \/ (Open(conn[c]) /\ x = Append(wire[c], <<Error, "last">>))
  <2>1. <<Error, "last">> \in Nat \X {"data", "last"}
    BY DEF Error
  <2>2. Append(wire[c], <<Error, "last">>) \in Seq(Nat \X {"data", "last"})
    BY <1>2, <2>1
  <2>3. wire = [wire EXCEPT ![c] = wire[c]]
    BY <1>2
  <2> QED BY <1>2, <2>2, <2>3 DEF Written, Open
<1>6. b \in [Ns(c) -> AnswerFields] /\ \A n \in Ns(c) : b[n].handed = answer[c][n].handed
  BY DEF SameAnswers
<1>7. /\ SockGoes(q, conn[c]) /\ ~Open(q) /\ {q.req, q.res} \subseteq 0 .. client[c].n
      /\ q.buffer \in Seq(Nat \X Parts) /\ Later(q.buffer, conn[c].buffer)
  BY <1>4 DEF SameParse, SockGoes, Open, ConnFields
<1>8. ConnInv(c, q, b, x, client[c], overrun')
  <2>1. conn[c] \in ConnFields /\ (c \in overrun => c \in overrun')
    BY <1>2
  <2>2. /\ wire[c] \in Seq(Nat \X {"data", "last"})
        /\ x = wire[c] \/ (Open(conn[c]) /\ x = Append(wire[c], <<Error, "last">>))
    BY <1>2, <1>5
  <2>3. answer[c] \in [Ns(c) -> AnswerFields] /\ client[c] \in [n : Nat, i : Nat]
    BY <1>2
  <2>4. ConnInv(c, conn[c], answer[c], wire[c], client[c], overrun)
    BY <1>1
  <2>5. PICK o, l, k0, a0, w0, s0 : /\ o = overrun /\ l = overrun' /\ k0 = conn[c]
                                    /\ a0 = answer[c] /\ w0 = wire[c] /\ s0 = client[c]
    OBVIOUS
  <2>6. /\ k0 \in ConnFields /\ (c \in o => c \in l) /\ w0 \in Seq(Nat \X {"data", "last"})
        /\ x = w0 \/ (Open(k0) /\ x = Append(w0, <<Error, "last">>))
    BY <2>1, <2>2, <2>5
  <2>7. /\ a0 \in [Ns(c) -> AnswerFields] /\ s0 \in [n : Nat, i : Nat]
        /\ ConnInv(c, k0, a0, w0, s0, o) /\ \A n \in Ns(c) : b[n].handed = a0[n].handed
    BY <1>6, <2>3, <2>4, <2>5
  <2>8. /\ SockGoes(q, k0) /\ ~Open(q) /\ {q.req, q.res} \subseteq 0 .. s0.n
        /\ q.buffer \in Seq(Nat \X Parts) /\ Later(q.buffer, k0.buffer)
    BY <1>7, <2>5
  <2>9. ConnInv(c, q, b, x, s0, l)
    BY <2>6, <2>7, <2>8, ShutKeeps
  <2> QED BY <2>5, <2>9
<1>9. Typed'
  <2>1. /\ answer' = [d \in Conns |-> answer'[d]]
        /\ \A d \in Conns : answer'[d] \in [Ns(d) -> AnswerFields]
    BY <1>1, <1>6 DEF Typed
  <2>2. conn' \in [Conns -> ConnFields] /\ wire' \in [Conns -> Seq(Nat \X {"data", "last"})]
    BY <1>2, <1>4, <1>5
  <2> QED BY <1>1, <1>3, <2>1, <2>2 DEF Typed
<1>10. /\ conn'[c] = q /\ answer'[c] = b /\ wire'[c] = x /\ client'[c] = client[c]
       /\ \A d \in Conns \ {c} :
            /\ conn'[d] = conn[d] /\ answer'[d] = answer[d] /\ wire'[d] = wire[d]
            /\ client'[d] = client[d] /\ (d \in overrun' <=> d \in overrun)
  BY <1>1, <1>2, <1>4, <1>5 DEF Typed
<1> QED BY <1>8, <1>9, <1>10, OneKeeps

\* An error response, from the state k of the parser.
LEMMA RefuseKeeps ==
    ASSUME ServerInv, Top.at = "loop", NEW c \in Conns, c = Top.c, NEW k \in ConnFields,
           Refuse(c, k), k.sock = conn[c].sock, {k.req, k.res} \subseteq 0 .. client[c].n,
           Later(k.buffer, conn[c].buffer),
           overrun' = overrun \/ overrun' = overrun \cup {c},
           UNCHANGED <<server, client>>
    PROVE  ServerInv'
<1> DEFINE q == Ended(AfterWrite(k))
<1>1. Typed
  BY DEF ServerInv
<1>2. /\ AfterWrite(k) \in ConnFields /\ SameParse(AfterWrite(k), k)
      /\ SockGoes(AfterWrite(k), k)
  BY AfterWriteFields
<1>3. q \in ConnFields /\ SameParse(q, AfterWrite(k)) /\ SockGoes(q, AfterWrite(k)) /\ ~Open(q)
  BY <1>2, EndedFields
<1>4. LeaveLoop(c, q) /\ Written(c, Error, "last") /\ answer' = answer
  BY DEF Refuse
<1> HIDE DEF q
<1>5. SockGoes(q, conn[c]) /\ q.buffer = k.buffer /\ {q.req, q.res} \subseteq 0 .. client[c].n
  BY <1>2, <1>3 DEF SameParse, SockGoes
<1>6. /\ answer' = [answer EXCEPT ![c] = answer[c]]
      /\ SameAnswers(c, answer[c], answer[c])
  BY <1>1, <1>4, SameAnswersAtAll DEF Typed
<1>7. Later(q.buffer, conn[c].buffer)
  BY <1>5
<1> QED BY <1>3, <1>4, <1>5, <1>6, <1>7, ShutTurnKeeps

\* What maybeFinalizeResponse may do.
LEMMA MaybeFinalizes ==
    ASSUME NEW c \in Conns, NEW k \in ConnFields, NEW a, NEW stack \in Seq(FrameFields), NEW todo,
           MaybeFinalize(c, a, k, stack, todo)
    PROVE  /\ answer' = [answer EXCEPT ![c] = a] /\ frames' \in Seq(FrameFields)
           /\ \/ conn' = [conn EXCEPT ![c] = k]
              \/ conn' = [conn EXCEPT ![c] = Finalized(k)] /\ k.responseFinished
<1>1. Loop(c, FALSE) \in FrameFields
  BY LoopFrame
<1>2. <<Loop(c, FALSE)>> \o stack \in Seq(FrameFields)
  BY <1>1, PushFrame
<1> QED BY <1>2 DEF MaybeFinalize, Finalizable

LEMMA FinalizedGoesOn ==
    ASSUME NEW c, NEW k \in ConnFields, NEW q \in ConnFields, NEW a, NEW b,
           GoesOn(c, q, k, b, a), q.responseFinished, k.responseFinished
    PROVE  Finalized(q) \in ConnFields /\ GoesOn(c, Finalized(q), k, b, a)
<1> DEFINE r == Finalized(q)
<1>1. /\ r \in ConnFields /\ SockGoes(r, q) /\ r.buffer = q.buffer
      /\ r.req = 0 /\ r.res = 0 /\ r.detached = q.detached
  BY FinalizedFields
<1> HIDE DEF r
<1>2. GoesOn(c, r, k, b, a)
  BY <1>1 DEF GoesOn, SockGoes, Open
<1> QED BY <1>1, <1>2 DEF r

-----------------------------------------------------------------------------
(* The turns of the parse loop.                                              *)

\* The loop is left where it was.
LEMMA LeaveKeeps ==
    ASSUME ServerInv, Top.at = "loop", NEW c \in Conns, c = Top.c,
           LeaveLoop(c, conn[c]), UNCHANGED <<server, answer, wire, client, overrun>>
    PROVE  ServerInv'
<1>1. Typed /\ conn[c] \in ConnFields /\ answer[c] \in [Ns(c) -> AnswerFields]
  BY DEF ServerInv, Typed
<1>2. frames' \in Seq(FrameFields)
  BY <1>1, LoopIsLeft
<1>3. PICK q \in ConnFields :
        conn' = [conn EXCEPT ![c] = q] /\ SameParse(q, conn[c]) /\ q.sock = conn[c].sock
  BY <1>1, LoopIsLeft
<1>4. /\ answer' = [answer EXCEPT ![c] = answer[c]]
      /\ SameAnswers(c, answer[c], answer[c])
  BY <1>1, SameAnswersAtAll DEF Typed
<1>5. GoesOn(c, q, conn[c], answer[c], answer[c])
  BY <1>1, <1>3, <1>4, StaysPut DEF SockGoes
<1> QED BY <1>2, <1>3, <1>4, <1>5, ParserKeeps

LEMMA NoHeadKeeps ==
    ASSUME ServerInv, Top.at = "loop", NEW c \in Conns, c = Top.c, Ready(conn[c]),
           NoHead(c), UNCHANGED <<server, client>>
    PROVE  ServerInv'
<1> DEFINE k == [conn[c] EXCEPT !.state = "HEADERS"]
<1>1. Typed /\ conn[c] \in ConnFields /\ answer[c] \in [Ns(c) -> AnswerFields]
  BY DEF ServerInv, Typed
<1>2. /\ k \in ConnFields /\ k.sock = conn[c].sock /\ k.buffer = conn[c].buffer
      /\ k.req = conn[c].req /\ k.res = conn[c].res /\ k.state = "HEADERS"
      /\ k.responseFinished = conn[c].responseFinished /\ k.detached = conn[c].detached
  BY <1>1, StateFields
<1>3. LeaveLoop(c, k) /\ UNCHANGED <<answer, wire, overrun>>
  BY DEF NoHead
<1> HIDE DEF k
<1>4. frames' \in Seq(FrameFields)
  BY <1>1, <1>2, <1>3, LoopIsLeft
<1>5. PICK q \in ConnFields :
        conn' = [conn EXCEPT ![c] = q] /\ SameParse(q, k) /\ q.sock = k.sock
  BY <1>1, <1>2, <1>3, LoopIsLeft
<1>6. /\ answer' = [answer EXCEPT ![c] = answer[c]]
      /\ SameAnswers(c, answer[c], answer[c])
  BY <1>1, <1>3, SameAnswersAtAll DEF Typed
<1>7. q.buffer = conn[c].buffer /\ q.buffer \in Seq(Nat \X Parts) /\ Later(q.buffer, conn[c].buffer)
  BY <1>1, <1>2, <1>5, LaterAtAll DEF SameParse, ConnFields
<1>8. GoesOn(c, q, conn[c], answer[c], answer[c])
  BY <1>2, <1>5, <1>6, <1>7 DEF GoesOn, SameParse, SockGoes
<1> QED BY <1>3, <1>4, <1>5, <1>6, <1>8, ParserKeeps

\* The parser has taken the head of the next request off the buffer.
HeadTaken(k) == [k EXCEPT !.state = "HEADERS", !.buffer = Tail(SkipBlank(k.buffer))]

LEMMA HeadTakenFields ==
    ASSUME NEW c \in Conns, NEW k \in ConnFields, NEW a \in [Ns(c) -> AnswerFields],
           NEW s \in [n : Nat, i : Nat], BufferInv(c, k, a, s), HasHead(k.buffer)
    PROVE  LET q == HeadTaken(k)
               n == Head(SkipBlank(k.buffer))[1]
           IN  /\ q \in ConnFields /\ q.sock = k.sock
               /\ q.buffer = Tail(SkipBlank(k.buffer)) /\ Later(q.buffer, k.buffer)
               /\ q.req = k.req /\ q.res = k.res /\ q.detached = k.detached
               /\ q.responseFinished = k.responseFinished
               /\ q.requestsServed = k.requestsServed
               /\ n \in Ns(c) /\ n \in 0 .. s.n
<1> DEFINE t == Tail(SkipBlank(k.buffer))
           n == Head(SkipBlank(k.buffer))[1]
<1>1. /\ t \in Seq(Nat \X Parts) /\ Later(t, k.buffer) /\ n \in Ns(c) /\ n <= s.n
  BY NextHead
<1>2. n \in 0 .. s.n
  BY <1>1, HttpServerAssumption DEF Ns
<1> HIDE DEF t, n
<1>3. LET q == [k EXCEPT !.state = "HEADERS", !.buffer = t]
      IN  /\ q \in ConnFields /\ q.sock = k.sock /\ q.buffer = t
          /\ q.req = k.req /\ q.res = k.res /\ q.detached = k.detached
          /\ q.responseFinished = k.responseFinished /\ q.requestsServed = k.requestsServed
  BY <1>1 DEF ConnFields
<1> QED BY <1>1, <1>2, <1>3 DEF HeadTaken, t, n

LEMMA RefuseHeadKeeps ==
    ASSUME ServerInv, Top.at = "loop", NEW c \in Conns, c = Top.c, HasHead(conn[c].buffer),
           RefuseHead(c, Head(SkipBlank(conn[c].buffer))[1], HeadTaken(conn[c])),
           UNCHANGED <<server, client>>
    PROVE  ServerInv'
<1> DEFINE n == Head(SkipBlank(conn[c].buffer))[1]
           k == HeadTaken(conn[c])
           m == k.requestsServed + 1
           served == [k EXCEPT !.requestsServed = m]
<1>1. /\ Typed /\ conn[c] \in ConnFields /\ answer[c] \in [Ns(c) -> AnswerFields]
      /\ client[c] \in [n : Nat, i : Nat] /\ BufferInv(c, conn[c], answer[c], client[c])
  BY DEF ServerInv, ConnInv, Typed
<1>2. /\ k \in ConnFields /\ k.sock = conn[c].sock /\ Later(k.buffer, conn[c].buffer)
      /\ k.req = conn[c].req /\ k.res = conn[c].res
      /\ n \in Ns(c) /\ n \in 0 .. client[c].n
  BY <1>1, HeadTakenFields
<1>3. {k.req, k.res} \subseteq 0 .. client[c].n
  BY <1>1, <1>2 DEF BufferInv
<1>4. \/ Refuse(c, k) /\ overrun' = overrun
      \/ Refuse(c, served) /\ overrun' = overrun
      \/ Refuse(c, Taken(served, n)) /\ (overrun' = overrun \/ overrun' = overrun \cup {c})
  BY DEF RefuseHead, Overrun
<1>5. m \in Nat /\ n \in Nat
  BY <1>2 DEF ConnFields, Ns
<1> HIDE DEF n, k, m
<1>6. served \in ConnFields /\ SameParse(served, k) /\ served.sock = k.sock
  BY <1>2, <1>5, ServedFields
<1> HIDE DEF served
<1>7. LET q == Taken(served, n)
      IN  q \in ConnFields /\ q.sock = served.sock /\ q.buffer = served.buffer
          /\ q.req = n /\ q.res = n
  BY <1>5, <1>6, TakenFields
<1>8. CASE Refuse(c, k) /\ overrun' = overrun
  BY <1>2, <1>3, <1>8, RefuseKeeps
<1>9. CASE Refuse(c, served) /\ overrun' = overrun
  <2>1. /\ served.sock = conn[c].sock /\ {served.req, served.res} \subseteq 0 .. client[c].n
        /\ Later(served.buffer, conn[c].buffer)
    BY <1>2, <1>3, <1>6 DEF SameParse
  <2> QED BY <1>6, <1>9, <2>1, RefuseKeeps
<1>10. CASE Refuse(c, Taken(served, n)) /\ (overrun' = overrun \/ overrun' = overrun \cup {c})
  <2>1. PICK q \in ConnFields : q = Taken(served, n)
    BY <1>7
  <2>2. /\ q.sock = conn[c].sock /\ {q.req, q.res} \subseteq 0 .. client[c].n
        /\ Later(q.buffer, conn[c].buffer) /\ Refuse(c, q)
    BY <1>2, <1>6, <1>7, <1>10, <2>1 DEF SameParse
  <2> QED BY <1>10, <2>2, RefuseKeeps
<1> QED BY <1>4, <1>8, <1>9, <1>10

LEMMA DetachTurnKeeps ==
    ASSUME ServerInv, Top.at = "loop", NEW c \in Conns, c = Top.c, HasHead(conn[c].buffer),
           Detach(c, Head(SkipBlank(conn[c].buffer))[1], HeadTaken(conn[c])),
           UNCHANGED <<server, client>>
    PROVE  ServerInv'
<1> DEFINE n == Head(SkipBlank(conn[c].buffer))[1]
           k == HeadTaken(conn[c])
           gone == [k EXCEPT !.detached = TRUE, !.req = 0, !.res = 0, !.buffer = <<>>]
           b == [answer[c] EXCEPT ![n].complete = TRUE]
           shut == Destroyed(AfterWrite(gone), FALSE)
<1>1. /\ Typed /\ conn[c] \in ConnFields /\ answer[c] \in [Ns(c) -> AnswerFields]
      /\ client[c] \in [n : Nat, i : Nat] /\ BufferInv(c, conn[c], answer[c], client[c])
      /\ ConnInv(c, conn[c], answer[c], wire[c], client[c], overrun)
      /\ wire[c] \in Seq(Nat \X {"data", "last"})
  BY DEF ServerInv, ConnInv, Typed
<1>2. k \in ConnFields /\ k.sock = conn[c].sock
  BY <1>1, HeadTakenFields
<1>3. /\ answer' = [answer EXCEPT ![c] = b]
      /\ \/ LeaveLoop(c, gone) /\ wire' = wire
         \/ LeaveLoop(c, shut) /\ Written(c, Error, "last")
      /\ overrun' = overrun
  <2>1. answer' = [answer EXCEPT ![c][n].complete = TRUE]
    BY DEF Detach
  <2>2. answer' = [answer EXCEPT ![c] = b]
    BY <2>1
  <2> QED BY <2>2 DEF Detach
<1>4. SameAnswers(c, b, answer[c])
  <2> HIDE DEF n
  <2> QED BY <1>1, SettledAnswers
<1>5. Len(conn[c].buffer) \in Nat
  BY <1>1 DEF ConnFields
<1> HIDE DEF n, k, b
<1>6. /\ gone \in ConnFields /\ gone.sock = k.sock /\ gone.buffer = <<>>
      /\ gone.req = 0 /\ gone.res = 0 /\ gone.detached
  BY <1>2, DetachedFields
<1> HIDE DEF gone
<1>7. CASE LeaveLoop(c, gone) /\ wire' = wire
  <2>1. frames' \in Seq(FrameFields)
    BY <1>1, <1>6, <1>7, LoopIsLeft
  <2>2. PICK q \in ConnFields :
          conn' = [conn EXCEPT ![c] = q] /\ SameParse(q, gone) /\ q.sock = gone.sock
    BY <1>1, <1>6, <1>7, LoopIsLeft
  <2>3. q.sock = conn[c].sock /\ q.buffer = <<>> /\ q.req = 0 /\ q.res = 0 /\ q.detached
    BY <1>2, <1>6, <2>2 DEF SameParse
  <2>4. ConnInv(c, q, b, wire[c], client[c], overrun)
    BY <1>1, <1>4, <2>3, DetachKeeps
  <2>5. b \in [Ns(c) -> AnswerFields]
    BY <1>4 DEF SameAnswers
  <2>6. Typed'
    <3>1. /\ answer' = [d \in Conns |-> answer'[d]]
          /\ \A d \in Conns : answer'[d] \in [Ns(d) -> AnswerFields]
      BY <1>1, <1>3, <2>5 DEF Typed
    <3>2. conn' \in [Conns -> ConnFields]
      BY <1>1, <2>2 DEF Typed
    <3> QED BY <1>1, <1>3, <1>7, <2>1, <3>1, <3>2 DEF Typed
  <2>7. /\ conn'[c] = q /\ answer'[c] = b /\ wire'[c] = wire[c] /\ client'[c] = client[c]
        /\ \A d \in Conns \ {c} :
            /\ conn'[d] = conn[d] /\ answer'[d] = answer[d] /\ wire'[d] = wire[d]
            /\ client'[d] = client[d] /\ (d \in overrun' <=> d \in overrun)
    BY <1>1, <1>3, <1>7, <2>2 DEF Typed
  <2>8. ConnInv(c, conn'[c], answer'[c], wire'[c], client'[c], overrun')
    BY <1>3, <2>4, <2>7
  <2> QED BY <2>6, <2>7, <2>8, OneKeeps
<1>8. CASE LeaveLoop(c, shut) /\ Written(c, Error, "last")
  <2>1. /\ AfterWrite(gone) \in ConnFields /\ SameParse(AfterWrite(gone), gone)
        /\ SockGoes(AfterWrite(gone), gone)
    BY <1>6, AfterWriteFields
  <2>2. /\ shut \in ConnFields /\ SameParse(shut, AfterWrite(gone))
        /\ SockGoes(shut, AfterWrite(gone)) /\ ~Open(shut)
    BY <2>1, DestroyedFields
  <2> HIDE DEF shut
  <2>3. shut.buffer = <<>> /\ shut.req = 0 /\ shut.res = 0 /\ SockGoes(shut, conn[c])
    BY <1>2, <1>6, <2>1, <2>2 DEF SameParse, SockGoes
  <2>4. {shut.req, shut.res} \subseteq 0 .. client[c].n
    BY <1>1, <2>3
  <2>5. Later(shut.buffer, conn[c].buffer)
    <3>1. /\ Len(shut.buffer) = 0 /\ Len(conn[c].buffer) \in 0 .. Len(conn[c].buffer)
          /\ Len(shut.buffer) = Len(conn[c].buffer) - Len(conn[c].buffer)
      BY <1>5, <2>3
    <3> QED BY <3>1 DEF Later
  <2> QED BY <1>3, <1>4, <1>8, <2>2, <2>3, <2>4, <2>5, ShutTurnKeeps
<1> QED BY <1>3, <1>7, <1>8

LEMMA HandedFields ==
    ASSUME NEW x \in AnswerFields, NEW v \in BOOLEAN, NEW done \in BOOLEAN
    PROVE  LET y == [x EXCEPT !.handed = TRUE, !.keepAlive = v, !.complete = done]
           IN  y \in AnswerFields /\ y.handed /\ y.ended = x.ended /\ y.kind = x.kind
BY DEF AnswerFields

LEMMA HandOverTurnKeeps ==
    ASSUME ServerInv, Top.at = "loop", NEW c \in Conns, c = Top.c, HasHead(conn[c].buffer),
           Ready(conn[c]), HandOver(c, Head(SkipBlank(conn[c].buffer))[1], HeadTaken(conn[c])),
           UNCHANGED <<server, client>>
    PROVE  ServerInv'
<1> DEFINE n == Head(SkipBlank(conn[c].buffer))[1]
           k == HeadTaken(conn[c])
           kind == answer[c][n].kind
           taken == Taken(k, n)
           m == taken.requestsServed + 1
           state == IF kind = "none" THEN "IDLE" ELSE "BODY"
           q == [taken EXCEPT !.requestsServed = m, !.state = state]
           frame == [at |-> "request", c |-> c, n |-> n, data |-> FALSE]
<1>1. /\ Typed /\ conn[c] \in ConnFields /\ answer[c] \in [Ns(c) -> AnswerFields]
      /\ client[c] \in [n : Nat, i : Nat] /\ BufferInv(c, conn[c], answer[c], client[c])
      /\ ConnInv(c, conn[c], answer[c], wire[c], client[c], overrun)
      /\ wire[c] \in Seq(Nat \X {"data", "last"})
  BY DEF ServerInv, ConnInv, Typed
<1>2. /\ k \in ConnFields /\ k.sock = conn[c].sock
      /\ k.buffer = Tail(SkipBlank(conn[c].buffer)) /\ k.res = conn[c].res
      /\ k.detached = conn[c].detached /\ n \in Ns(c) /\ n \in Nat
  BY <1>1, HeadTakenFields DEF Ns
<1>3. PICK v \in BOOLEAN :
        answer' = [answer EXCEPT ![c][n] = [@ EXCEPT !.handed = TRUE, !.keepAlive = v,
                                                     !.complete = (kind = "none")]]
  BY DEF HandOver
<1>4. /\ conn' = [conn EXCEPT ![c] = q] /\ frames' = <<frame>> \o frames
      /\ overrun' = IF k.res # 0 /\ answer[c][k.res].kind = "none"
                    THEN overrun \cup {c} ELSE overrun
      /\ wire' = wire
  BY DEF HandOver, Overrun
<1>5. n = Head(SkipBlank(conn[c].buffer))[1] /\ state \in {"IDLE", "BODY"}
      /\ (state = "IDLE" => kind = "none")
  OBVIOUS
<1> DEFINE y == [answer[c][n] EXCEPT !.handed = TRUE, !.keepAlive = v, !.complete = (kind = "none")]
           b == [answer[c] EXCEPT ![n] = y]
<1>6. answer' = [answer EXCEPT ![c] = b]
  BY <1>3
<1>7. y \in AnswerFields /\ y.handed /\ y.ended = answer[c][n].ended /\ y.kind = kind
  <2>1. answer[c][n] \in AnswerFields /\ (kind = "none") \in BOOLEAN
    BY <1>1, <1>2
  <2> QED BY <2>1, HandedFields
<1>8. frames' \in Seq(FrameFields)
  <2>1. frame \in FrameFields
    BY <1>2 DEF FrameFields
  <2>2. frames \in Seq(FrameFields)
    BY <1>1 DEF Typed
  <2> HIDE DEF frame
  <2> QED BY <1>4, <2>1, <2>2, PushFrame
<1>9. /\ taken \in ConnFields /\ taken.sock = k.sock /\ taken.buffer = k.buffer
      /\ taken.req = n /\ taken.res = n /\ ~taken.responseFinished
      /\ taken.detached = k.detached
  <2> HIDE DEF k, n
  <2> QED BY <1>2, TakenFields
<1>10. m \in Nat
  BY <1>9 DEF ConnFields
<1> HIDE DEF n, k, taken, m, state, y
<1>11. /\ q \in ConnFields /\ q.sock = taken.sock /\ q.buffer = taken.buffer
       /\ q.req = taken.req /\ q.res = taken.res /\ q.state = state
       /\ q.responseFinished = taken.responseFinished /\ q.detached = taken.detached
  BY <1>5, <1>9, <1>10 DEF ConnFields
<1> HIDE DEF q
<1>12. /\ b \in [Ns(c) -> AnswerFields]
       /\ \A l \in Ns(c) : /\ b[l].ended = answer[c][l].ended /\ b[l].kind = answer[c][l].kind
                           /\ (b[l].handed <=> answer[c][l].handed \/ l = n)
  <2>1. b \in [Ns(c) -> AnswerFields] /\ b[n] = y
    BY <1>1, <1>2, <1>7
  <2>2. ASSUME NEW l \in Ns(c)
        PROVE  /\ b[l].ended = answer[c][l].ended /\ b[l].kind = answer[c][l].kind
               /\ (b[l].handed <=> answer[c][l].handed \/ l = n)
    <3>1. CASE l = n
      BY <1>7, <2>1, <3>1 DEF AnswerFields
    <3>2. CASE l # n
      <4>1. b[l] = answer[c][l] /\ answer[c][l] \in AnswerFields
        BY <1>1, <3>2
      <4> QED BY <3>2, <4>1 DEF AnswerFields
    <3> QED BY <3>1, <3>2
  <2> QED BY <2>1, <2>2
<1> HIDE DEF b
<1>13. ConnInv(c, q, b, wire[c], client[c], overrun')
  <2>1. PICK o, l, k0, a0, w0, s0, q0, b0 :
            /\ o = overrun /\ l = overrun' /\ k0 = conn[c] /\ a0 = answer[c]
            /\ w0 = wire[c] /\ s0 = client[c] /\ q0 = q /\ b0 = b
    OBVIOUS
  <2>2. /\ k0 \in ConnFields /\ a0 \in [Ns(c) -> AnswerFields] /\ s0 \in [n : Nat, i : Nat]
        /\ w0 \in Seq(Nat \X {"data", "last"}) /\ ConnInv(c, k0, a0, w0, s0, o)
        /\ HasHead(k0.buffer) /\ Ready(k0)
    BY <1>1, <1>5, <2>1
  <2>3. c \in l <=> c \in o \/ (k0.res # 0 /\ a0[k0.res].kind = "none")
    BY <1>2, <1>4, <2>1
  <2>4. /\ q0.sock = k0.sock /\ q0.buffer = Tail(SkipBlank(k0.buffer))
        /\ q0.req = Head(SkipBlank(k0.buffer))[1] /\ q0.res = q0.req
        /\ ~q0.responseFinished /\ q0.detached = k0.detached
        /\ Ready(q0) => a0[q0.req].kind = "none"
    BY <1>2, <1>5, <1>9, <1>11, <2>1 DEF Ready, kind
  <2>5. /\ b0 \in [Ns(c) -> AnswerFields]
        /\ \A j \in Ns(c) : /\ b0[j].ended = a0[j].ended /\ b0[j].kind = a0[j].kind
                             /\ (b0[j].handed <=> a0[j].handed \/ j = q0.req)
    BY <1>9, <1>11, <1>12, <2>1
  <2>6. ConnInv(c, q0, b0, w0, s0, l)
    BY <2>2, <2>3, <2>4, <2>5, HandOverKeeps
  <2> QED BY <2>1, <2>6
<1>14. Typed'
  <2>1. /\ answer' = [d \in Conns |-> answer'[d]]
        /\ \A d \in Conns : answer'[d] \in [Ns(d) -> AnswerFields]
    BY <1>1, <1>6, <1>12 DEF Typed
  <2>2. conn' \in [Conns -> ConnFields] /\ overrun' \subseteq Conns
    BY <1>1, <1>4, <1>11 DEF Typed
  <2> QED BY <1>1, <1>4, <1>8, <2>1, <2>2 DEF Typed
<1>15. /\ conn'[c] = q /\ answer'[c] = b /\ wire'[c] = wire[c] /\ client'[c] = client[c]
       /\ \A d \in Conns \ {c} :
            /\ conn'[d] = conn[d] /\ answer'[d] = answer[d] /\ wire'[d] = wire[d]
            /\ client'[d] = client[d] /\ (d \in overrun' <=> d \in overrun)
  BY <1>1, <1>4, <1>6 DEF Typed
<1>16. ConnInv(c, conn'[c], answer'[c], wire'[c], client'[c], overrun')
  BY <1>13, <1>15
<1> QED BY <1>14, <1>15, <1>16, OneKeeps

LEMMA ParseHeadKeeps ==
    ASSUME ServerInv, Top.at = "loop", NEW c \in Conns, c = Top.c, Ready(conn[c]),
           ParseHead(c), UNCHANGED <<server, client>>
    PROVE  ServerInv'
<1>1. CASE NoHead(c)
  BY <1>1, NoHeadKeeps
<1>2. CASE ~NoHead(c)
  <2> DEFINE n == Head(SkipBlank(conn[c].buffer))[1]
             k == HeadTaken(conn[c])
  <2>1. HasHead(conn[c].buffer) /\ (RefuseHead(c, n, k) \/ Detach(c, n, k) \/ HandOver(c, n, k))
    BY <1>2 DEF ParseHead, HeadTaken
  <2>2. CASE RefuseHead(c, n, k)
    BY <2>1, <2>2, RefuseHeadKeeps
  <2>3. CASE Detach(c, n, k)
    BY <2>1, <2>3, DetachTurnKeeps
  <2>4. CASE HandOver(c, n, k)
    BY <2>1, <2>4, HandOverTurnKeeps
  <2> QED BY <2>1, <2>2, <2>3, <2>4
<1> QED BY <1>1, <1>2

\* A piece of the body is taken, and with the last the request may be finalized.
LEMMA PieceKeeps ==
    ASSUME ServerInv, NEW c \in Conns, conn[c].state = "BODY", conn[c].buffer # <<>>,
           ParseBody(c), Head(conn[c].buffer)[2] \in {"body", "last"},
           UNCHANGED <<server, client>>
    PROVE  ServerInv'
<1> DEFINE k == conn[c]
           t == Tail(k.buffer)
           taken == [k EXCEPT !.buffer = t]
           p == SkipBlank(t)
           done == [k EXCEPT !.state = "AWAITING_RESPONSE", !.buffer = p]
           b == [answer[c] EXCEPT ![k.req].complete = TRUE, ![k.req].eof = @ + 1]
<1>1. /\ Typed /\ k \in ConnFields /\ answer[c] \in [Ns(c) -> AnswerFields]
      /\ frames \in Seq(FrameFields)
  BY DEF ServerInv, Typed
<1>2. /\ k.buffer \in Seq(Nat \X Parts) /\ t \in Seq(Nat \X Parts) /\ Later(t, k.buffer)
  BY <1>1, LaterTail DEF ConnFields
<1>3. p \in Seq(Nat \X Parts) /\ Later(p, k.buffer)
  <2> HIDE DEF t
  <2>1. p \in Seq(Nat \X Parts) /\ Later(p, t)
    BY <1>2, LaterSkip
  <2> QED BY <1>2, <2>1, LaterAgain
<1>4. SameAnswers(c, answer[c], answer[c]) /\ SameAnswers(c, b, answer[c])
  BY <1>1, SameAnswersAtAll, CompletedAnswers
<1>5. CASE Head(k.buffer)[2] = "body"
  <2>1. conn' = [conn EXCEPT ![c] = taken] /\ UNCHANGED <<answer, wire, frames, overrun>>
    BY <1>5 DEF ParseBody
  <2> HIDE DEF t, k
  <2>2. /\ taken \in ConnFields /\ taken.sock = k.sock /\ taken.buffer = t
        /\ taken.req = k.req /\ taken.res = k.res /\ taken.state = k.state
        /\ taken.responseFinished = k.responseFinished /\ taken.detached = k.detached
    BY <1>1, <1>2, BufferFields
  <2> HIDE DEF taken
  <2>3. GoesOn(c, taken, k, answer[c], answer[c])
    BY <1>2, <1>4, <2>2 DEF GoesOn, SockGoes, Ready
  <2>4. answer' = [answer EXCEPT ![c] = answer[c]]
    BY <1>1, <2>1 DEF Typed
  <2>5. GoesOn(c, taken, conn[c], answer[c], answer[c])
    BY <2>3 DEF k
  <2> QED BY <1>1, <2>1, <2>2, <2>4, <2>5, ParserKeeps
<1>6. CASE Head(k.buffer)[2] = "last"
  <2>1. MaybeFinalize(c, b, done, frames, jobs) /\ UNCHANGED <<wire, overrun>>
    <3>1. [taken EXCEPT !.state = BodyEnds, !.buffer = SkipBlank(@)] = done
      BY <1>1 DEF ConnFields, BodyEnds
    <3>2. /\ MaybeFinalize(c, b, [taken EXCEPT !.state = BodyEnds, !.buffer = SkipBlank(@)],
                           frames, jobs)
          /\ UNCHANGED <<wire, overrun>>
      BY <1>6 DEF ParseBody
    <3> HIDE DEF done, taken, b
    <3> QED BY <3>1, <3>2
  <2> HIDE DEF p, b, k
  <2>2. /\ done \in ConnFields /\ done.sock = k.sock /\ done.buffer = p
        /\ done.req = k.req /\ done.res = k.res /\ done.state = "AWAITING_RESPONSE"
        /\ done.responseFinished = k.responseFinished /\ done.detached = k.detached
    BY <1>1, <1>3 DEF ConnFields
  <2> HIDE DEF done
  <2>3. GoesOn(c, done, k, b, answer[c])
    BY <1>3, <1>4, <2>2 DEF GoesOn, SockGoes, Ready
  <2>4. /\ answer' = [answer EXCEPT ![c] = b] /\ frames' \in Seq(FrameFields)
        /\ \/ conn' = [conn EXCEPT ![c] = done]
           \/ conn' = [conn EXCEPT ![c] = Finalized(done)] /\ done.responseFinished
    BY <1>1, <2>1, <2>2, MaybeFinalizes
  <2>5. PICK q \in ConnFields : conn' = [conn EXCEPT ![c] = q] /\ GoesOn(c, q, k, b, answer[c])
    <3>1. done.responseFinished =>
            Finalized(done) \in ConnFields /\ GoesOn(c, Finalized(done), k, b, answer[c])
      BY <1>1, <2>2, <2>3, FinalizedGoesOn
    <3> QED BY <2>2, <2>3, <2>4, <3>1
  <2>6. GoesOn(c, q, conn[c], b, answer[c])
    BY <2>5 DEF k
  <2> QED BY <2>1, <2>4, <2>5, <2>6, ParserKeeps
<1> QED BY <1>5, <1>6

LEMMA ParseBodyKeeps ==
    ASSUME ServerInv, Top.at = "loop", NEW c \in Conns, c = Top.c, conn[c].state = "BODY",
           ParseBody(c), UNCHANGED <<server, client>>
    PROVE  ServerInv'
<1>1. Typed /\ conn[c] \in ConnFields /\ BufferInv(c, conn[c], answer[c], client[c])
  BY DEF ServerInv, Typed, ConnInv
<1>2. CASE conn[c].buffer = <<>>
  <2>1. LeaveLoop(c, conn[c]) /\ UNCHANGED <<answer, wire, overrun>>
    BY <1>2 DEF ParseBody
  <2> QED BY <2>1, LeaveKeeps
<1>3. CASE conn[c].buffer # <<>> /\ Head(conn[c].buffer)[2] = "bad"
  <2>1. Refuse(c, conn[c]) /\ UNCHANGED overrun
    BY <1>3 DEF ParseBody
  <2>2. {conn[c].req, conn[c].res} \subseteq 0 .. client[c].n
    BY <1>1 DEF BufferInv
  <2>3. Later(conn[c].buffer, conn[c].buffer)
    BY <1>1, LaterAtAll DEF ConnFields
  <2> QED BY <1>1, <2>1, <2>2, <2>3, RefuseKeeps
<1>4. CASE conn[c].buffer # <<>> /\ Head(conn[c].buffer)[2] \in {"body", "last"}
  BY <1>4, PieceKeeps
<1> QED BY <1>2, <1>3, <1>4 DEF ParseBody

LEMMA ParseTurnKeeps == ASSUME ServerInv, ParseTurn PROVE ServerInv'
<1>1. Typed
  BY DEF ServerInv
<1>2. /\ Top.at = "loop"
      /\ \/ conn[Top.c].state \in {"IDLE", "HEADERS"} /\ ParseHead(Top.c)
         \/ conn[Top.c].state = "BODY" /\ ParseBody(Top.c)
         \/ /\ LeaveLoop(Top.c, conn[Top.c])
            /\ UNCHANGED <<answer, wire, jobs, overrun>>
      /\ UNCHANGED <<server, client>>
  BY DEF ParseTurn
<1>3. PICK c \in Conns : c = Top.c
  BY <1>1, <1>2, TopFrame
<1>4. CASE conn[c].state \in {"IDLE", "HEADERS"} /\ ParseHead(c)
  BY <1>2, <1>3, <1>4, ParseHeadKeeps DEF Ready
<1>5. CASE conn[c].state = "BODY" /\ ParseBody(c)
  BY <1>2, <1>3, <1>5, ParseBodyKeeps
<1>6. CASE LeaveLoop(c, conn[c]) /\ UNCHANGED <<answer, wire, jobs, overrun>>
  BY <1>2, <1>3, <1>6, LeaveKeeps
<1> QED BY <1>2, <1>3, <1>4, <1>5, <1>6

-----------------------------------------------------------------------------
(* What the program does.                                                    *)

\* One connection changes, with what was written to it.
LEMMA OneChanges ==
    ASSUME ServerInv, NEW c \in Conns, NEW q \in ConnFields, NEW b \in [Ns(c) -> AnswerFields],
           NEW x \in Seq(Nat \X {"data", "last"}),
           conn' = [conn EXCEPT ![c] = q], answer' = [answer EXCEPT ![c] = b],
           wire' = [wire EXCEPT ![c] = x], frames' \in Seq(FrameFields),
           UNCHANGED <<server, client, overrun>>,
           ConnInv(c, q, b, x, client[c], overrun)
    PROVE  ServerInv'
<1>1. Typed
  BY DEF ServerInv
<1>2. Typed'
  <2>1. /\ answer' = [d \in Conns |-> answer'[d]]
        /\ \A d \in Conns : answer'[d] \in [Ns(d) -> AnswerFields]
    BY <1>1 DEF Typed
  <2>2. conn' \in [Conns -> ConnFields] /\ wire' \in [Conns -> Seq(Nat \X {"data", "last"})]
    BY <1>1 DEF Typed
  <2> QED BY <1>1, <2>1, <2>2 DEF Typed
<1>3. /\ conn'[c] = q /\ answer'[c] = b /\ wire'[c] = x /\ client'[c] = client[c]
      /\ \A d \in Conns \ {c} :
            /\ conn'[d] = conn[d] /\ answer'[d] = answer[d] /\ wire'[d] = wire[d]
            /\ client'[d] = client[d] /\ (d \in overrun' <=> d \in overrun)
  BY <1>1 DEF Typed
<1>4. ConnInv(c, conn'[c], answer'[c], wire'[c], client'[c], overrun')
  BY <1>3
<1> QED BY <1>2, <1>3, <1>4, OneKeeps

\* What a write to a response of c leaves in wire.
LEMMA WrittenOn ==
    ASSUME Typed, NEW c \in Conns, NEW n \in Nat, NEW part \in {"data", "last"},
           Written(c, n, part)
    PROVE  \E x \in Seq(Nat \X {"data", "last"}) :
            /\ wire' = [wire EXCEPT ![c] = x]
            /\ x = IF Open(conn[c]) THEN Append(wire[c], <<n, part>>) ELSE wire[c]
<1>1. wire \in [Conns -> Seq(Nat \X {"data", "last"})]
  BY DEF Typed
<1>2. wire[c] \in Seq(Nat \X {"data", "last"}) /\ <<n, part>> \in Nat \X {"data", "last"}
  BY <1>1
<1>3. Append(wire[c], <<n, part>>) \in Seq(Nat \X {"data", "last"})
  BY <1>2
<1>4. wire = [wire EXCEPT ![c] = wire[c]]
  BY <1>1
<1> QED BY <1>2, <1>3, <1>4 DEF Written, Open

LEMMA OpenAfterWrite ==
    ASSUME NEW k, Open(k)
    PROVE  AfterWrite(k) = k
BY DEF Open, AfterWrite

LEMMA WriteKeeps ==
    ASSUME ServerInv, NEW c \in Conns, NEW n \in Ns(c), Write(c, n)
    PROVE  ServerInv'
<1> DEFINE b == [answer[c] EXCEPT ![n].written = TRUE]
           q == AfterWrite(conn[c])
<1>1. /\ Typed /\ conn[c] \in ConnFields /\ answer[c] \in [Ns(c) -> AnswerFields]
      /\ client[c] \in [n : Nat, i : Nat] /\ frames \in Seq(FrameFields)
      /\ ConnInv(c, conn[c], answer[c], wire[c], client[c], overrun)
      /\ wire[c] \in Seq(Nat \X {"data", "last"}) /\ n \in Nat
  BY DEF ServerInv, Typed, Ns
<1>2. answer[c][n].handed /\ ~answer[c][n].ended
  BY DEF Write
<1>3. /\ conn' = [conn EXCEPT ![c] = q] /\ Written(c, n, "data")
      /\ UNCHANGED <<server, client, frames, overrun>>
  BY DEF Write
<1>4. answer' = [answer EXCEPT ![c] = b]
  <2>1. answer' = [answer EXCEPT ![c][n].written = TRUE]
    BY DEF Write
  <2> QED BY <2>1
<1>5. SameAnswers(c, b, answer[c])
  BY <1>1, SettledAnswers
<1>6. q \in ConnFields /\ SameParse(q, conn[c]) /\ SockGoes(q, conn[c])
  BY <1>1, AfterWriteFields
<1>7. PICK x \in Seq(Nat \X {"data", "last"}) :
            /\ wire' = [wire EXCEPT ![c] = x]
            /\ x = IF Open(conn[c]) THEN Append(wire[c], <<n, "data">>) ELSE wire[c]
  BY <1>1, <1>3, WrittenOn
<1>8. b \in [Ns(c) -> AnswerFields]
  BY <1>5 DEF SameAnswers
<1>9. frames' \in Seq(FrameFields)
  BY <1>1, <1>3
<1>10. CASE Open(conn[c])
  <2>1. q = conn[c]
    BY <1>10, OpenAfterWrite
  <2> HIDE DEF b, q
  <2>2. PICK o, k0, a0, w0, s0, b0, q0 :
            /\ o = overrun /\ k0 = conn[c] /\ a0 = answer[c] /\ w0 = wire[c] /\ s0 = client[c]
            /\ b0 = b /\ q0 = q
    OBVIOUS
  <2>3. /\ k0 \in ConnFields /\ a0 \in [Ns(c) -> AnswerFields] /\ s0 \in [n : Nat, i : Nat]
        /\ w0 \in Seq(Nat \X {"data", "last"}) /\ ConnInv(c, k0, a0, w0, s0, o)
        /\ Open(k0) /\ a0[n].handed /\ ~a0[n].ended /\ b0 \in [Ns(c) -> AnswerFields]
        /\ q0 = k0
    BY <1>1, <1>2, <1>8, <1>10, <2>1, <2>2
  <2>4. \A m \in Ns(c) : b0[m].handed = a0[m].handed /\ b0[m].kind = a0[m].kind
                         /\ (b0[m].ended <=> a0[m].ended \/ ("data" = "last" /\ m = n))
    BY <1>5, <2>2 DEF SameAnswers
  <2>5. ConnInv(c, k0, b0, Append(w0, <<n, "data">>), s0, o)
    BY <2>3, <2>4, TellKeeps
  <2>6. ConnInv(c, q, b, x, client[c], overrun)
    BY <1>7, <1>10, <2>2, <2>3, <2>5
  <2> QED BY <1>3, <1>4, <1>6, <1>7, <1>8, <1>9, <2>6, OneChanges
<1>11. CASE ~Open(conn[c])
  <2>1. wire' = wire
    BY <1>1, <1>7, <1>11 DEF Typed
  <2>2. GoesOn(c, q, conn[c], b, answer[c])
    BY <1>1, <1>5, <1>6, StaysPut
  <2> HIDE DEF b, q
  <2> QED BY <1>3, <1>4, <1>6, <1>9, <2>1, <2>2, ParserKeeps
<1> QED BY <1>10, <1>11

LEMMA EndedAnswer ==
    ASSUME NEW c, NEW a \in [Ns(c) -> AnswerFields], NEW n \in Ns(c)
    PROVE  LET b == [a EXCEPT ![n].ended = TRUE]
           IN  /\ b \in [Ns(c) -> AnswerFields]
               /\ \A m \in Ns(c) : /\ b[m].handed = a[m].handed /\ b[m].kind = a[m].kind
                                   /\ (b[m].ended <=> a[m].ended \/ m = n)
<1> DEFINE y == [a[n] EXCEPT !.ended = TRUE]
           b == [a EXCEPT ![n] = y]
<1>1. y \in AnswerFields /\ y.handed = a[n].handed /\ y.kind = a[n].kind /\ y.ended
  BY DEF AnswerFields
<1>2. b = [a EXCEPT ![n].ended = TRUE]
  OBVIOUS
<1> HIDE DEF y
<1>3. b \in [Ns(c) -> AnswerFields] /\ b[n] = y /\ \A m \in Ns(c) \ {n} : b[m] = a[m]
  BY <1>1
<1> HIDE DEF b
<1>4. \A m \in Ns(c) : /\ b[m].handed = a[m].handed /\ b[m].kind = a[m].kind
                       /\ (b[m].ended <=> a[m].ended \/ m = n)
  BY <1>1, <1>3
<1> QED BY <1>2, <1>3, <1>4

LEMMA EndKeeps ==
    ASSUME ServerInv, NEW c \in Conns, NEW n \in Ns(c), End(c, n)
    PROVE  ServerInv'
<1> DEFINE b == [answer[c] EXCEPT ![n].ended = TRUE]
           v == answer[c][n].keepAlive /\ ~server.closing
           r == AfterWrite(conn[c])
           q == [r EXCEPT !.responseFinished = TRUE, !.keepAliveAfter = v]
<1>1. /\ Typed /\ conn[c] \in ConnFields /\ answer[c] \in [Ns(c) -> AnswerFields]
      /\ client[c] \in [n : Nat, i : Nat] /\ frames \in Seq(FrameFields)
      /\ ConnInv(c, conn[c], answer[c], wire[c], client[c], overrun)
      /\ wire[c] \in Seq(Nat \X {"data", "last"}) /\ n \in Nat
  BY DEF ServerInv, Typed, Ns
<1>2. answer[c][n].handed /\ ~answer[c][n].ended
  BY DEF End
<1>3. /\ MaybeFinalize(c, b, q, frames, jobs) /\ Written(c, n, "last")
      /\ UNCHANGED <<server, client, overrun>>
  BY DEF End
<1>4. r \in ConnFields /\ SameParse(r, conn[c]) /\ SockGoes(r, conn[c])
  BY <1>1, AfterWriteFields
<1>5. v \in BOOLEAN
  OBVIOUS
<1>6. Open(conn[c]) => r = conn[c]
  BY OpenAfterWrite
<1> HIDE DEF r, v
<1>7. /\ q \in ConnFields /\ q.sock = r.sock /\ q.buffer = r.buffer
      /\ q.req = r.req /\ q.res = r.res /\ q.state = r.state
      /\ q.responseFinished /\ q.detached = r.detached
  BY <1>4, <1>5, FinishedFields
<1>8. /\ b \in [Ns(c) -> AnswerFields]
      /\ \A m \in Ns(c) : /\ b[m].handed = answer[c][m].handed /\ b[m].kind = answer[c][m].kind
                          /\ (b[m].ended <=> answer[c][m].ended \/ m = n)
  BY <1>1, EndedAnswer
<1> HIDE DEF b, q
<1>9. PICK x \in Seq(Nat \X {"data", "last"}) :
            /\ wire' = [wire EXCEPT ![c] = x]
            /\ x = IF Open(conn[c]) THEN Append(wire[c], <<n, "last">>) ELSE wire[c]
  BY <1>1, <1>3, WrittenOn
<1>10. ConnInv(c, q, b, x, client[c], overrun)
  <2>1. PICK o, k0, a0, w0, s0, b0, q0 :
            /\ o = overrun /\ k0 = conn[c] /\ a0 = answer[c] /\ w0 = wire[c] /\ s0 = client[c]
            /\ b0 = b /\ q0 = q
    OBVIOUS
  <2>2. /\ k0 \in ConnFields /\ a0 \in [Ns(c) -> AnswerFields] /\ s0 \in [n : Nat, i : Nat]
        /\ w0 \in Seq(Nat \X {"data", "last"}) /\ ConnInv(c, k0, a0, w0, s0, o)
        /\ a0[n].handed /\ ~a0[n].ended /\ b0 \in [Ns(c) -> AnswerFields]
    BY <1>1, <1>2, <1>8, <2>1
  <2>3. \A m \in Ns(c) : b0[m].handed = a0[m].handed /\ b0[m].kind = a0[m].kind
                         /\ (b0[m].ended <=> a0[m].ended \/ ("last" = "last" /\ m = n))
    BY <1>8, <2>1
  <2>4. /\ q0.req = k0.req /\ q0.res = k0.res /\ q0.buffer = k0.buffer /\ q0.state = k0.state
        /\ q0.detached = k0.detached /\ SockGoes(q0, k0)
    BY <1>4, <1>7, <2>1 DEF SameParse, SockGoes
  <2>5. CASE Open(k0)
    <3>1. q0.sock = k0.sock
      BY <1>6, <1>7, <2>1, <2>5
    <3>2. ConnInv(c, q0, b0, Append(w0, <<n, "last">>), s0, o)
      BY <2>2, <2>3, <2>4, <2>5, <3>1, TellKeeps
    <3> QED BY <1>9, <2>1, <2>5, <3>2
  <2>6. CASE ~Open(k0)
    <3>1. ~Open(q0)
      BY <2>4, <2>6 DEF Open, SockGoes
    <3>2. x = w0
      BY <1>9, <2>1, <2>6
    <3>3. {q0.req, q0.res} \subseteq 0 .. s0.n
      BY <2>2, <2>4 DEF ConnInv, BufferInv
    <3>4. q0.buffer \in Seq(Nat \X Parts) /\ Later(q0.buffer, k0.buffer)
      BY <2>2, <2>4, LaterAtAll DEF ConnFields
    <3>5. \A m \in Ns(c) : b0[m].handed = a0[m].handed
      BY <2>3
    <3>6. x = w0 \/ (Open(k0) /\ x = Append(w0, <<Error, "last">>))
      BY <3>2
    <3>7. ConnInv(c, q0, b0, x, s0, o)
      BY <2>2, <2>4, <3>1, <3>3, <3>4, <3>5, <3>6, ShutKeeps
    <3> QED BY <2>1, <3>7
  <2> QED BY <2>5, <2>6
<1>11. /\ answer' = [answer EXCEPT ![c] = b] /\ frames' \in Seq(FrameFields)
       /\ \/ conn' = [conn EXCEPT ![c] = q]
          \/ conn' = [conn EXCEPT ![c] = Finalized(q)]
  BY <1>1, <1>3, <1>7, MaybeFinalizes
<1>12. GoesOn(c, q, q, b, b)
  <2>1. SameAnswers(c, b, b) /\ SameParse(q, q) /\ SockGoes(q, q)
    BY <1>8, SameAnswersAtAll DEF SameParse, SockGoes
  <2> QED BY <1>7, <2>1, StaysPut
<1>13. PICK p \in ConnFields : conn' = [conn EXCEPT ![c] = p] /\ GoesOn(c, p, q, b, b)
  <2>1. Finalized(q) \in ConnFields /\ GoesOn(c, Finalized(q), q, b, b)
    BY <1>7, <1>12, FinalizedGoesOn
  <2> QED BY <1>7, <1>11, <1>12, <2>1
<1>14. ConnInv(c, p, b, x, client[c], overrun)
  <2>1. PICK o, s0, b0, q0 : o = overrun /\ s0 = client[c] /\ b0 = b /\ q0 = q
    OBVIOUS
  <2>2. /\ q0 \in ConnFields /\ b0 \in [Ns(c) -> AnswerFields] /\ s0 \in [n : Nat, i : Nat]
        /\ ConnInv(c, q0, b0, x, s0, o) /\ GoesOn(c, p, q0, b0, b0)
    BY <1>1, <1>7, <1>8, <1>10, <1>13, <2>1
  <2>3. ConnInv(c, p, b0, x, s0, o)
    BY <2>2, GoesOnKeeps
  <2> QED BY <2>1, <2>3
<1> QED BY <1>3, <1>8, <1>9, <1>11, <1>13, <1>14, OneChanges

\* What every handler does that neither writes nor moves a parser: sockets are ended,
\* destroyed or closed, and requests settled.
LEMMA EachStaysKeeps ==
    ASSUME ServerInv, server' \in [closing : BOOLEAN, set : Settings],
           conn' = [d \in Conns |-> conn'[d]], answer' = [d \in Conns |-> answer'[d]],
           frames' \in Seq(FrameFields), UNCHANGED <<wire, client, overrun>>,
           \A d \in Conns : /\ conn'[d] \in ConnFields /\ SameAnswers(d, answer'[d], answer[d])
                            /\ SameParse(conn'[d], conn[d]) /\ SockGoes(conn'[d], conn[d])
    PROVE  ServerInv'
<1>1. Typed
  BY DEF ServerInv
<1>2. conn' \in [Conns -> ConnFields]
  OBVIOUS
<1>3. \A d \in Conns : answer'[d] \in [Ns(d) -> AnswerFields]
  BY DEF SameAnswers
<1>4. Typed'
  BY <1>1, <1>2, <1>3 DEF Typed
<1>5. ASSUME NEW d \in Conns PROVE GoesOn(d, conn'[d], conn[d], answer'[d], answer[d])
  <2>1. conn[d] \in ConnFields
    BY <1>1 DEF Typed
  <2>2. /\ conn'[d] \in ConnFields /\ SameAnswers(d, answer'[d], answer[d])
        /\ SameParse(conn'[d], conn[d]) /\ SockGoes(conn'[d], conn[d])
    OBVIOUS
  <2> QED BY <2>1, <2>2, StaysPut
<1> QED BY <1>4, <1>5, AllGoOnKeeps

\* The same of one connection.
LEMMA OneStaysKeeps ==
    ASSUME ServerInv, NEW c \in Conns, NEW q \in ConnFields, NEW b,
           conn' = [conn EXCEPT ![c] = q], answer' = [answer EXCEPT ![c] = b],
           SameAnswers(c, b, answer[c]), SameParse(q, conn[c]), SockGoes(q, conn[c]),
           frames' \in Seq(FrameFields), UNCHANGED <<server, wire, client, overrun>>
    PROVE  ServerInv'
<1>1. conn[c] \in ConnFields
  BY DEF ServerInv, Typed
<1>2. GoesOn(c, q, conn[c], b, answer[c])
  BY <1>1, StaysPut
<1> QED BY <1>2, ParserKeeps

\* What Typed says of the parts that a step leaves alone.
LEMMA WholeState ==
    ASSUME Typed, NEW c \in Conns
    PROVE  /\ conn[c] \in ConnFields /\ answer[c] \in [Ns(c) -> AnswerFields]
           /\ conn = [conn EXCEPT ![c] = conn[c]] /\ answer = [answer EXCEPT ![c] = answer[c]]
           /\ SameAnswers(c, answer[c], answer[c]) /\ frames \in Seq(FrameFields)
           /\ SameParse(conn[c], conn[c]) /\ SockGoes(conn[c], conn[c])
           /\ conn = [d \in Conns |-> conn[d]] /\ answer = [d \in Conns |-> answer[d]]
<1>1. answer[c] \in [Ns(c) -> AnswerFields]
  BY DEF Typed
<1> QED BY <1>1, SameAnswersAtAll DEF Typed, SameParse, SockGoes

LEMMA RequestReturnsKeeps == ASSUME ServerInv, RequestReturns PROVE ServerInv'
<1>1. Typed /\ Top.at = "request"
  BY DEF ServerInv, RequestReturns
<1>2. PICK c \in Conns : c = Top.c
  BY <1>1, TopFrame
<1>3. frames' \in Seq(FrameFields)
  BY <1>1, TopFrame DEF RequestReturns
<1>4. /\ answer' = answer \/ answer' = [answer EXCEPT ![c][Top.n].eof = @ + 1]
      /\ UNCHANGED <<server, conn, wire, client, overrun>>
  BY <1>2 DEF RequestReturns
<1>5. PICK b : answer' = [answer EXCEPT ![c] = b] /\ SameAnswers(c, b, answer[c])
  <2>1. CASE answer' = answer
    BY <1>1, <2>1, WholeState
  <2>2. CASE answer' = [answer EXCEPT ![c][Top.n].eof = @ + 1]
    <3> DEFINE b == [answer[c] EXCEPT ![Top.n].eof = @ + 1]
    <3>1. SameAnswers(c, b, answer[c])
      BY <1>1, WholeState, SettledAnswers
    <3>2. answer' = [answer EXCEPT ![c] = b]
      BY <2>2
    <3> QED BY <3>1, <3>2
  <2> QED BY <1>4, <2>1, <2>2
<1>6. /\ conn[c] \in ConnFields /\ conn' = [conn EXCEPT ![c] = conn[c]]
      /\ SameParse(conn[c], conn[c]) /\ SockGoes(conn[c], conn[c])
  BY <1>1, <1>4, WholeState
<1> QED BY <1>3, <1>4, <1>5, <1>6, OneStaysKeeps

LEMMA DestroyResponseKeeps ==
    ASSUME ServerInv, NEW c \in Conns, NEW n \in Ns(c), DestroyResponse(c, n)
    PROVE  ServerInv'
<1> DEFINE b == [answer[c] EXCEPT ![n].destroyed = TRUE]
<1>1. Typed
  BY DEF ServerInv
<1>2. PICK error \in BOOLEAN : conn' = [conn EXCEPT ![c] = Destroyed(@, error)]
  BY DEF DestroyResponse
<1>3. /\ answer' = [answer EXCEPT ![c][n].destroyed = TRUE]
      /\ UNCHANGED <<server, wire, client, frames, overrun>>
  BY DEF DestroyResponse
<1>4. answer' = [answer EXCEPT ![c] = b]
  BY <1>3
<1>5. SameAnswers(c, b, answer[c])
  BY <1>1, WholeState, SettledAnswers
<1>6. /\ Destroyed(conn[c], error) \in ConnFields
      /\ SameParse(Destroyed(conn[c], error), conn[c])
      /\ SockGoes(Destroyed(conn[c], error), conn[c])
  BY <1>1, WholeState, DestroyedFields
<1>7. conn' = [conn EXCEPT ![c] = Destroyed(conn[c], error)]
  BY <1>2
<1>8. frames' \in Seq(FrameFields)
  BY <1>1, <1>3, WholeState
<1> HIDE DEF b
<1> QED BY <1>3, <1>4, <1>5, <1>6, <1>7, <1>8, OneStaysKeeps

LEMMA CloseKeeps == ASSUME ServerInv, Close PROVE ServerInv'
<1>1. Typed /\ UNCHANGED <<conn, answer, wire, client, frames, overrun>>
  BY DEF ServerInv, Close
<1>2. server' \in [closing : BOOLEAN, set : Settings]
  BY <1>1 DEF Typed, Close
<1>3. /\ conn' = [d \in Conns |-> conn'[d]] /\ answer' = [d \in Conns |-> answer'[d]]
      /\ frames' \in Seq(FrameFields)
  BY <1>1 DEF Typed
<1>4. \A d \in Conns : /\ conn'[d] \in ConnFields /\ SameAnswers(d, answer'[d], answer[d])
                       /\ SameParse(conn'[d], conn[d]) /\ SockGoes(conn'[d], conn[d])
  BY <1>1, WholeState
<1> QED BY <1>1, <1>2, <1>3, <1>4, EachStaysKeeps

\* Some connections are ended, destroyed or left alone, and some requests settled.
LEMMA ClosingKeeps ==
    ASSUME ServerInv, NEW f, NEW g,
           conn' = [d \in Conns |-> f[d]], answer' = [d \in Conns |-> g[d]],
           \A d \in Conns :
            /\ f[d] \in {conn[d], Ended(conn[d]), Destroyed(conn[d], FALSE)}
            /\ g[d] \in {answer[d], Aborts(answer[d], conn[d])},
           UNCHANGED <<server, wire, client, frames, overrun>>
    PROVE  ServerInv'
<1>1. Typed
  BY DEF ServerInv
<1>2. server' \in [closing : BOOLEAN, set : Settings] /\ frames' \in Seq(FrameFields)
  BY <1>1 DEF Typed
<1>3. conn' = [d \in Conns |-> conn'[d]] /\ answer' = [d \in Conns |-> answer'[d]]
  OBVIOUS
<1>4. ASSUME NEW d \in Conns
      PROVE  /\ conn'[d] \in ConnFields /\ SameAnswers(d, answer'[d], answer[d])
             /\ SameParse(conn'[d], conn[d]) /\ SockGoes(conn'[d], conn[d])
  <2>1. conn'[d] = f[d] /\ answer'[d] = g[d]
    OBVIOUS
  <2>2. /\ conn[d] \in ConnFields /\ answer[d] \in [Ns(d) -> AnswerFields]
        /\ SameAnswers(d, answer[d], answer[d])
        /\ SameParse(conn[d], conn[d]) /\ SockGoes(conn[d], conn[d])
    BY <1>1, WholeState
  <2>3. SameAnswers(d, Aborts(answer[d], conn[d]), answer[d])
    BY <2>2, GoneAnswers
  <2>4. /\ Ended(conn[d]) \in ConnFields /\ SameParse(Ended(conn[d]), conn[d])
        /\ SockGoes(Ended(conn[d]), conn[d])
    BY <2>2, EndedFields
  <2>5. /\ Destroyed(conn[d], FALSE) \in ConnFields
        /\ SameParse(Destroyed(conn[d], FALSE), conn[d])
        /\ SockGoes(Destroyed(conn[d], FALSE), conn[d])
    BY <2>2, DestroyedFields
  <2> QED BY <2>1, <2>2, <2>3, <2>4, <2>5
<1> QED BY <1>2, <1>3, <1>4, EachStaysKeeps

LEMMA CloseIdleKeeps == ASSUME ServerInv, CloseIdleConnections PROVE ServerInv'
<1> DEFINE f == [c \in Conns |-> IF Registered(c) /\ conn[c].state = "IDLE"
                                THEN Ended(conn[c]) ELSE conn[c]]
<1>1. UNCHANGED <<server, answer, wire, client, frames, overrun>> /\ conn' = f
  BY DEF CloseIdleConnections
<1>2. \A d \in Conns : f[d] \in {conn[d], Ended(conn[d]), Destroyed(conn[d], FALSE)}
  OBVIOUS
<1>3. conn' = [d \in Conns |-> f[d]]
  BY <1>1
<1>4. answer' = [d \in Conns |-> answer[d]]
  BY <1>1 DEF ServerInv, Typed
<1> HIDE DEF f
<1> QED BY <1>1, <1>2, <1>3, <1>4, ClosingKeeps

LEMMA CloseAllKeeps == ASSUME ServerInv, CloseAllConnections PROVE ServerInv'
<1> DEFINE f == [c \in Conns |-> Destroyed(conn[c], FALSE)]
<1>1. UNCHANGED <<server, answer, wire, client, frames, overrun>> /\ conn' = f
  BY DEF CloseAllConnections
<1>2. \A d \in Conns : f[d] \in {conn[d], Ended(conn[d]), Destroyed(conn[d], FALSE)}
  OBVIOUS
<1>3. conn' = [d \in Conns |-> f[d]]
  BY <1>1
<1>4. answer' = [d \in Conns |-> answer[d]]
  BY <1>1 DEF ServerInv, Typed
<1> HIDE DEF f
<1> QED BY <1>1, <1>2, <1>3, <1>4, ClosingKeeps

LEMMA SignalKeeps == ASSUME ServerInv, SignalClientAbort PROVE ServerInv'
<1> DEFINE f == [c \in Conns |-> Destroyed(conn[c], FALSE)]
           g == [c \in Conns |-> IF Registered(c) THEN Aborts(answer[c], conn[c]) ELSE answer[c]]
<1>1. UNCHANGED <<server, wire, client, frames, overrun>> /\ conn' = f /\ answer' = g
  BY DEF SignalClientAbort
<1>2. \A d \in Conns : /\ f[d] \in {conn[d], Ended(conn[d]), Destroyed(conn[d], FALSE)}
                       /\ g[d] \in {answer[d], Aborts(answer[d], conn[d])}
  OBVIOUS
<1>3. conn' = [d \in Conns |-> f[d]] /\ answer' = [d \in Conns |-> g[d]]
  BY <1>1
<1> HIDE DEF f, g
<1> QED BY <1>1, <1>2, <1>3, ClosingKeeps

-----------------------------------------------------------------------------
(* The clients and the events of the sockets.                                *)

LEMMA ConnectionKeeps ==
    ASSUME ServerInv, NEW c \in Conns, Connection(c)
    PROVE  ServerInv'
<1> DEFINE q == [NewConn EXCEPT !.sock = "open"]
           f == [d \in Conns |->
                    IF d = c /\ conn[c].sock = "none" THEN q
                    ELSE IF conn[d].state = "IDLE" THEN Destroyed(conn[d], FALSE) ELSE conn[d]]
<1>1. Typed
  BY DEF ServerInv
<1>2. UNCHANGED <<server, answer, wire, client, frames, overrun>> /\ conn' = f
  BY DEF Connection
<1>3. ASSUME NEW d \in Conns
      PROVE  f[d] \in ConnFields /\ ConnInv(d, f[d], answer[d], wire[d], client[d], overrun)
  <2>1. /\ conn[d] \in ConnFields /\ answer[d] \in [Ns(d) -> AnswerFields]
        /\ SameAnswers(d, answer[d], answer[d])
    BY <1>1, WholeState
  <2>2. /\ ConnInv(d, conn[d], answer[d], wire[d], client[d], overrun)
        /\ wire[d] \in Seq(Nat \X {"data", "last"}) /\ client[d] \in [n : Nat, i : Nat]
    BY <1>1 DEF ServerInv, Typed
  <2>3. PICK o, k0, a0, w0, s0 :
            o = overrun /\ k0 = conn[d] /\ a0 = answer[d] /\ w0 = wire[d] /\ s0 = client[d]
    OBVIOUS
  <2>4. /\ k0 \in ConnFields /\ a0 \in [Ns(d) -> AnswerFields] /\ s0 \in [n : Nat, i : Nat]
        /\ w0 \in Seq(Nat \X {"data", "last"}) /\ ConnInv(d, k0, a0, w0, s0, o)
        /\ SameAnswers(d, a0, a0)
    BY <2>1, <2>2, <2>3
  <2>5. CASE d = c /\ conn[c].sock = "none"
    <3>1. f[d] = q
      BY <2>5
    <3>2. ConnInv(d, q, a0, w0, s0, o)
      BY <2>3, <2>4, <2>5, OpenKeeps
    <3>3. q \in ConnFields
      BY OpenFields
    <3> HIDE DEF f, q
    <3> QED BY <2>3, <3>1, <3>2, <3>3
  <2>6. CASE ~(d = c /\ conn[c].sock = "none")
    <3>1. f[d] = Destroyed(k0, FALSE) \/ f[d] = k0
      BY <2>3, <2>6
    <3>2. /\ Destroyed(k0, FALSE) \in ConnFields /\ SameParse(Destroyed(k0, FALSE), k0)
          /\ SockGoes(Destroyed(k0, FALSE), k0)
      BY <2>4, DestroyedFields
    <3>3. GoesOn(d, Destroyed(k0, FALSE), k0, a0, a0)
      BY <2>4, <3>2, StaysPut
    <3>4. ConnInv(d, Destroyed(k0, FALSE), a0, w0, s0, o)
      BY <2>4, <3>3, GoesOnKeeps
    <3> HIDE DEF f
    <3> QED BY <2>3, <2>4, <3>1, <3>2, <3>4
  <2> QED BY <2>5, <2>6
<1>4. DOMAIN f = Conns /\ f = [d \in Conns |-> f[d]]
  OBVIOUS
<1> HIDE DEF f
<1>5. Typed'
  <2>1. conn' \in [Conns -> ConnFields]
    BY <1>2, <1>3, <1>4
  <2> QED BY <1>1, <1>2, <2>1 DEF Typed
<1> QED BY <1>2, <1>3, <1>5 DEF ServerInv

Kinded(c, a, kinds) == [n \in Ns(c) |-> [a[n] EXCEPT !.kind = kinds[n]]]

LEMMA KindAnswer ==
    ASSUME NEW c, NEW a \in [Ns(c) -> AnswerFields], NEW kinds \in [Ns(c) -> AllKinds]
    PROVE  LET b == Kinded(c, a, kinds)
           IN  /\ b \in [Ns(c) -> AnswerFields]
               /\ \A n \in Ns(c) : /\ b[n].handed = a[n].handed /\ b[n].ended = a[n].ended
                                   /\ b[n].kind = kinds[n]
<1>1. ASSUME NEW x \in AnswerFields, NEW v \in AllKinds
      PROVE  LET y == [x EXCEPT !.kind = v]
             IN  y \in AnswerFields /\ y.handed = x.handed /\ y.ended = x.ended /\ y.kind = v
  BY DEF AnswerFields
<1>2. ASSUME NEW n \in Ns(c)
      PROVE  LET y == [a[n] EXCEPT !.kind = kinds[n]]
             IN  /\ y \in AnswerFields /\ y.handed = a[n].handed /\ y.ended = a[n].ended
                 /\ y.kind = kinds[n]
  <2>1. a[n] \in AnswerFields /\ kinds[n] \in AllKinds
    OBVIOUS
  <2> QED BY <1>1, <2>1
<1> QED BY <1>2 DEF Kinded

LEMMA ArrivedFields ==
    ASSUME NEW k \in ConnFields, NEW run \in Seq(Nat \X Parts)
    PROVE  LET p == k.buffer \o run
               q == [k EXCEPT !.timer = FALSE, !.buffer = p]
           IN  /\ q \in ConnFields /\ q.sock = k.sock /\ q.req = k.req /\ q.res = k.res
               /\ q.state = k.state /\ q.detached = k.detached /\ q.buffer = p
               /\ q.responseFinished = k.responseFinished
<1>1. k.buffer \in Seq(Nat \X Parts)
  BY DEF ConnFields
<1>2. k.buffer \o run \in Seq(Nat \X Parts)
  BY <1>1
<1> QED BY <1>2 DEF ConnFields

LEMMA DataKeeps ==
    ASSUME ServerInv, NEW c \in Conns, Data(c)
    PROVE  ServerInv'
<1>1. /\ Typed /\ conn[c] \in ConnFields /\ answer[c] \in [Ns(c) -> AnswerFields]
      /\ client[c] \in [n : Nat, i : Nat] /\ frames \in Seq(FrameFields)
      /\ wire[c] \in Seq(Nat \X {"data", "last"})
      /\ ConnInv(c, conn[c], answer[c], wire[c], client[c], overrun)
      /\ BufferInv(c, conn[c], answer[c], client[c])
  BY DEF ServerInv, Typed, ConnInv
<1>2. PICK s \in Arrivals(c) :
        /\ client' = [client EXCEPT ![c] = [n |-> s.n, i |-> s.i]]
        /\ answer' = [answer EXCEPT ![c] = [n \in Ns(c) |-> [@[n] EXCEPT !.kind = s.kinds[n]]]]
        /\ IF conn[c].detached THEN UNCHANGED <<conn, frames>>
           ELSE /\ conn' = [conn EXCEPT ![c].timer = FALSE, ![c].buffer = @ \o s.run]
                /\ frames' = <<Loop(c, TRUE)>>
  BY DEF Data
<1>3. UNCHANGED <<server, wire, overrun>> /\ conn[c].sock # "none"
  BY DEF Data
<1>4. /\ s \in SentFields(c) /\ s.n \in 1 .. Requests[c] /\ s.i > 0 /\ client[c].n <= s.n
      /\ \A m \in Ns(c) : m <= client[c].n => s.kinds[m] = answer[c][m].kind
      /\ RunInv(client[c].n, s.n, s.run)
  <2>1. client[c].n \in 0 .. Requests[c] /\ (client[c].n > 0 => client[c].i > 0)
    BY <1>1 DEF BufferInv
  <2> QED BY <1>1, <2>1, ArrivalsSend
<1>5. /\ s.n \in Nat /\ s.i \in Nat /\ s.run \in Seq(Nat \X Parts)
      /\ s.kinds \in [Ns(c) -> AllKinds]
  BY <1>4 DEF SentFields
<1>6. PICK b \in [Ns(c) -> AnswerFields] :
        /\ answer' = [answer EXCEPT ![c] = b]
        /\ \A n \in Ns(c) : /\ b[n].handed = answer[c][n].handed /\ b[n].ended = answer[c][n].ended
                            /\ b[n].kind = s.kinds[n]
  <2> DEFINE b == Kinded(c, answer[c], s.kinds)
  <2>1. answer' = [answer EXCEPT ![c] = b]
    BY <1>2 DEF Kinded
  <2>2. /\ b \in [Ns(c) -> AnswerFields]
        /\ \A n \in Ns(c) : /\ b[n].handed = answer[c][n].handed
                            /\ b[n].ended = answer[c][n].ended /\ b[n].kind = s.kinds[n]
    BY <1>1, <1>5, KindAnswer
  <2> HIDE DEF b
  <2> QED BY <2>1, <2>2
<1>7. PICK u \in [n : Nat, i : Nat] :
        client' = [client EXCEPT ![c] = u] /\ u.n = s.n /\ u.i = s.i
  <2>1. [n |-> s.n, i |-> s.i] \in [n : Nat, i : Nat]
    BY <1>5
  <2> QED BY <1>2, <2>1
<1>8. PICK q \in ConnFields :
        /\ conn' = [conn EXCEPT ![c] = q]
        /\ q.sock = conn[c].sock /\ q.req = conn[c].req /\ q.res = conn[c].res
        /\ q.state = conn[c].state /\ q.detached = conn[c].detached
        /\ q.responseFinished = conn[c].responseFinished
        /\ q.buffer = IF conn[c].detached THEN conn[c].buffer ELSE conn[c].buffer \o s.run
  <2>1. CASE conn[c].detached
    <3>1. conn' = [conn EXCEPT ![c] = conn[c]]
      BY <1>1, <1>2, <2>1, WholeState
    <3> QED BY <1>1, <2>1, <3>1
  <2>2. CASE ~conn[c].detached
    <3> DEFINE p == conn[c].buffer \o s.run
               q == [conn[c] EXCEPT !.timer = FALSE, !.buffer = p]
    <3>1. conn' = [conn EXCEPT ![c] = q]
      BY <1>2, <2>2
    <3>2. /\ q \in ConnFields /\ q.sock = conn[c].sock /\ q.req = conn[c].req
          /\ q.res = conn[c].res /\ q.state = conn[c].state /\ q.detached = conn[c].detached
          /\ q.buffer = p /\ q.responseFinished = conn[c].responseFinished
      BY <1>1, <1>5, ArrivedFields
    <3> HIDE DEF q
    <3> QED BY <2>2, <3>1, <3>2
  <2> QED BY <2>1, <2>2
<1>9. frames' \in Seq(FrameFields)
  <2>1. Loop(c, TRUE) \in FrameFields
    BY LoopFrame
  <2>2. <<Loop(c, TRUE)>> \in Seq(FrameFields)
    BY <1>1, <2>1, PushFrame
  <2> QED BY <1>1, <1>2, <2>2
<1>10. ConnInv(c, q, b, wire[c], u, overrun)
  <2>1. PICK o, k0, a0, w0, s0 :
            o = overrun /\ k0 = conn[c] /\ a0 = answer[c] /\ w0 = wire[c] /\ s0 = client[c]
    OBVIOUS
  <2>2. /\ k0 \in ConnFields /\ a0 \in [Ns(c) -> AnswerFields] /\ s0 \in [n : Nat, i : Nat]
        /\ w0 \in Seq(Nat \X {"data", "last"}) /\ ConnInv(c, k0, a0, w0, s0, o)
        /\ k0.sock # "none"
    BY <1>1, <1>3, <2>1
  <2>3. /\ s0.n <= u.n /\ u.n \in 1 .. Requests[c] /\ u.i > 0 /\ RunInv(s0.n, u.n, s.run)
    BY <1>4, <1>7, <2>1
  <2>4. \A m \in Ns(c) : /\ b[m].handed = a0[m].handed /\ b[m].ended = a0[m].ended
                         /\ m <= s0.n => b[m].kind = a0[m].kind
    BY <1>4, <1>6, <2>1
  <2>5. /\ q.sock = k0.sock /\ q.req = k0.req /\ q.res = k0.res /\ q.state = k0.state
        /\ q.detached = k0.detached /\ q.responseFinished = k0.responseFinished
        /\ q.buffer = IF k0.detached THEN k0.buffer ELSE k0.buffer \o s.run
    BY <1>8, <2>1
  <2>6. PICK run \in Seq(Nat \X Parts) : run = s.run
    BY <1>5
  <2>7. ConnInv(c, q, b, w0, u, o)
    BY <2>2, <2>3, <2>4, <2>5, <2>6, ArriveKeeps
  <2> QED BY <2>1, <2>7
<1>11. Typed'
  <2>1. /\ answer' = [d \in Conns |-> answer'[d]]
        /\ \A d \in Conns : answer'[d] \in [Ns(d) -> AnswerFields]
    BY <1>1, <1>6 DEF Typed
  <2>2. conn' \in [Conns -> ConnFields] /\ client' \in [Conns -> [n : Nat, i : Nat]]
    BY <1>1, <1>7, <1>8 DEF Typed
  <2> QED BY <1>1, <1>3, <1>9, <2>1, <2>2 DEF Typed
<1>12. /\ conn'[c] = q /\ answer'[c] = b /\ wire'[c] = wire[c] /\ client'[c] = u
       /\ \A d \in Conns \ {c} :
            /\ conn'[d] = conn[d] /\ answer'[d] = answer[d] /\ wire'[d] = wire[d]
            /\ client'[d] = client[d] /\ (d \in overrun' <=> d \in overrun)
  BY <1>1, <1>3, <1>6, <1>7, <1>8 DEF Typed
<1>13. ConnInv(c, conn'[c], answer'[c], wire'[c], client'[c], overrun')
  BY <1>3, <1>10, <1>12
<1> QED BY <1>11, <1>12, <1>13, OneKeeps

LEMMA ReadableEndsKeeps ==
    ASSUME ServerInv, NEW c \in Conns, ReadableEnds(c)
    PROVE  ServerInv'
<1> DEFINE k == [conn[c] EXCEPT !.readableEnded = TRUE]
           h == [k EXCEPT !.closeAfterResponse = TRUE]
           b == GoneRequest(answer[c], k, FALSE)
<1>1. /\ Typed /\ conn[c] \in ConnFields /\ answer[c] \in [Ns(c) -> AnswerFields]
      /\ frames \in Seq(FrameFields)
  BY WholeState DEF ServerInv
<1>2. k \in ConnFields /\ SameParse(k, conn[c]) /\ k.sock = conn[c].sock
  BY <1>1, FlagFields
<1>3. UNCHANGED <<server, wire, client, overrun>>
  BY DEF ReadableEnds
<1>4. answer' = [answer EXCEPT ![c] = b]
  BY DEF ReadableEnds
<1>5. conn' = [conn EXCEPT ![c] = h] \/ conn' = [conn EXCEPT ![c] = Ended(k)]
  BY DEF ReadableEnds
<1>6. frames' = frames \/ frames' = <<Loop(c, FALSE)>>
  BY DEF ReadableEnds
<1> HIDE DEF k
<1>7. h \in ConnFields /\ SameParse(h, k) /\ h.sock = k.sock
  BY <1>2, FlagFields
<1>8. Ended(k) \in ConnFields /\ SameParse(Ended(k), k) /\ SockGoes(Ended(k), k)
  BY <1>2, EndedFields
<1>9. SameAnswers(c, b, answer[c])
  BY <1>1, <1>2, GoneAnswers
<1> HIDE DEF h, b
<1>10. PICK q \in ConnFields : /\ conn' = [conn EXCEPT ![c] = q]
                               /\ SameParse(q, conn[c]) /\ SockGoes(q, conn[c])
  BY <1>2, <1>5, <1>7, <1>8 DEF SameParse, SockGoes
<1>11. frames' \in Seq(FrameFields)
  BY <1>1, <1>6, LoopFrame, PushFrame
<1> QED BY <1>3, <1>4, <1>9, <1>10, <1>11, OneStaysKeeps

LEMMA DestroyKeeps ==
    ASSUME ServerInv, NEW c \in Conns, NEW error \in BOOLEAN,
           conn' = [conn EXCEPT ![c] = Destroyed(@, error)],
           UNCHANGED <<server, answer, wire, client, frames, overrun>>
    PROVE  ServerInv'
<1>1. /\ conn[c] \in ConnFields /\ answer = [answer EXCEPT ![c] = answer[c]]
      /\ SameAnswers(c, answer[c], answer[c]) /\ frames \in Seq(FrameFields)
  BY WholeState DEF ServerInv
<1>2. /\ Destroyed(conn[c], error) \in ConnFields
      /\ SameParse(Destroyed(conn[c], error), conn[c])
      /\ SockGoes(Destroyed(conn[c], error), conn[c])
  BY <1>1, DestroyedFields
<1>3. conn' = [conn EXCEPT ![c] = Destroyed(conn[c], error)]
  OBVIOUS
<1>4. answer' = [answer EXCEPT ![c] = answer[c]] /\ frames' \in Seq(FrameFields)
  BY <1>1
<1> QED BY <1>1, <1>2, <1>3, <1>4, OneStaysKeeps

LEMMA ClosedFields ==
    ASSUME NEW k \in ConnFields
    PROVE  LET q == [k EXCEPT !.sock = "closed"]
           IN  q \in ConnFields /\ SameParse(q, k) /\ SockGoes(q, k)
BY DEF ConnFields, SameParse, SockGoes

LEMMA SocketClosesKeeps ==
    ASSUME ServerInv, NEW c \in Conns, SocketCloses(c)
    PROVE  ServerInv'
<1> DEFINE k == conn[c]
           a == IF k.error THEN GoneRequest(answer[c], k, TRUE) ELSE answer[c]
           b == GoneRequest(a, k, FALSE)
           d == [b EXCEPT ![k.res].closed = @ + 1]
<1>1. /\ Typed /\ k \in ConnFields /\ answer[c] \in [Ns(c) -> AnswerFields]
      /\ frames \in Seq(FrameFields) /\ answer = [answer EXCEPT ![c] = answer[c]]
      /\ SameAnswers(c, answer[c], answer[c])
  BY WholeState DEF ServerInv
<1>2. /\ conn' = [conn EXCEPT ![c].sock = "closed"]
      /\ UNCHANGED <<server, wire, client, frames, overrun>>
      /\ \/ answer' = answer \/ answer' = [answer EXCEPT ![c] = b]
         \/ answer' = [answer EXCEPT ![c] = d]
  BY DEF SocketCloses
<1>3. SameAnswers(c, a, answer[c])
  BY <1>1, GoneAnswers
<1>4. a \in [Ns(c) -> AnswerFields]
  BY <1>3 DEF SameAnswers
<1> HIDE DEF a
<1>5. SameAnswers(c, b, a)
  BY <1>1, <1>4, GoneAnswers
<1>6. b \in [Ns(c) -> AnswerFields]
  BY <1>5 DEF SameAnswers
<1> HIDE DEF b
<1>7. SameAnswers(c, d, b)
  BY <1>6, SettledAnswers
<1> HIDE DEF d
<1>8. SameAnswers(c, b, answer[c]) /\ SameAnswers(c, d, answer[c])
  BY <1>3, <1>5, <1>7, SameAnswersAgain
<1>9. PICK e : answer' = [answer EXCEPT ![c] = e] /\ SameAnswers(c, e, answer[c])
  BY <1>1, <1>2, <1>8
<1>10. LET q == [conn[c] EXCEPT !.sock = "closed"]
       IN  /\ q \in ConnFields /\ SameParse(q, conn[c]) /\ SockGoes(q, conn[c])
           /\ conn' = [conn EXCEPT ![c] = q]
  BY <1>1, <1>2, ClosedFields
<1>11. frames' \in Seq(FrameFields)
  BY <1>1, <1>2
<1> QED BY <1>2, <1>9, <1>10, <1>11, OneStaysKeeps

LEMMA ResponseClosesKeeps ==
    ASSUME ServerInv, NEW j, ResponseCloses(j)
    PROVE  ServerInv'
<1>1. /\ answer' = [answer EXCEPT ![j.c][j.n].closed = @ + 1]
      /\ UNCHANGED <<server, conn, wire, client, frames, overrun>>
  BY DEF ResponseCloses
<1>2. Typed
  BY DEF ServerInv
<1>3. CASE j.c \in Conns
  <2> DEFINE b == [answer[j.c] EXCEPT ![j.n].closed = @ + 1]
  <2>1. SameAnswers(j.c, b, answer[j.c])
    BY <1>2, <1>3, WholeState, SettledAnswers
  <2>2. answer' = [answer EXCEPT ![j.c] = b]
    BY <1>1
  <2>3. /\ conn[j.c] \in ConnFields /\ conn' = [conn EXCEPT ![j.c] = conn[j.c]]
        /\ SameParse(conn[j.c], conn[j.c]) /\ SockGoes(conn[j.c], conn[j.c])
        /\ frames' \in Seq(FrameFields)
    BY <1>1, <1>2, <1>3, WholeState
  <2> HIDE DEF b
  <2> QED BY <1>1, <1>3, <2>1, <2>2, <2>3, OneStaysKeeps
<1>4. CASE j.c \notin Conns
  <2>1. answer' = answer
    BY <1>1, <1>2, <1>4 DEF Typed
  <2>2. server' \in [closing : BOOLEAN, set : Settings] /\ frames' \in Seq(FrameFields)
    BY <1>1, <1>2 DEF Typed
  <2>3. conn' = [d \in Conns |-> conn'[d]] /\ answer' = [d \in Conns |-> answer'[d]]
    BY <1>1, <1>2, <2>1 DEF Typed
  <2>4. \A d \in Conns : /\ conn'[d] \in ConnFields /\ SameAnswers(d, answer'[d], answer[d])
                         /\ SameParse(conn'[d], conn[d]) /\ SockGoes(conn'[d], conn[d])
    BY <1>1, <1>2, <2>1, WholeState
  <2> QED BY <1>1, <2>2, <2>3, <2>4, EachStaysKeeps
<1> QED BY <1>3, <1>4

-----------------------------------------------------------------------------
(* The invariant.                                                            *)

LEMMA NewFields ==
    /\ NewConn \in ConnFields /\ NewConn.sock = "none" /\ NewConn.buffer = <<>>
    /\ NewConn.req = 0 /\ NewConn.res = 0
    /\ NewAnswer \in AnswerFields /\ ~NewAnswer.handed
BY NoBuffer DEF NewConn, ConnFields, NewAnswer, AnswerFields, AllKinds

LEMMA InitServerInv == Init => ServerInv
<1> SUFFICES ASSUME Init PROVE ServerInv
  OBVIOUS
<1>1. Typed
  <2>1. server \in [closing : BOOLEAN, set : Settings]
    BY DEF Init
  <2>2. conn \in [Conns -> ConnFields] /\ overrun \subseteq Conns
    BY NewFields DEF Init
  <2>3. /\ answer = [c \in Conns |-> answer[c]]
        /\ \A c \in Conns : answer[c] \in [Ns(c) -> AnswerFields]
    BY NewFields DEF Init
  <2>4. wire \in [Conns -> Seq(Nat \X {"data", "last"})] /\ frames \in Seq(FrameFields)
    <3>1. <<>> \in Seq(Nat \X {"data", "last"}) /\ <<>> \in Seq(FrameFields)
      OBVIOUS
    <3> QED BY <3>1 DEF Init
  <2>5. client \in [Conns -> [n : Nat, i : Nat]]
    BY DEF Init
  <2> QED BY <2>1, <2>2, <2>3, <2>4, <2>5 DEF Typed
<1>2. ASSUME NEW c \in Conns
      PROVE  ConnInv(c, conn[c], answer[c], wire[c], client[c], overrun)
  <2>1. /\ conn[c] = NewConn /\ \A n \in Ns(c) : answer[c][n] = NewAnswer
        /\ wire[c] = <<>> /\ client[c].n = 0 /\ Requests[c] \in Nat
    BY HttpServerAssumption DEF Init
  <2>2. Len(wire[c]) = 0 /\ Len(conn[c].buffer) = 0
    BY <2>1, NewFields
  <2>3. BufferInv(c, conn[c], answer[c], client[c])
    BY <2>1, <2>2, NewFields DEF BufferInv
  <2>4. WireInv(c, conn[c], answer[c], wire[c]) /\ InOrder(wire[c]) /\ ~Open(conn[c])
    BY <2>1, <2>2, NewFields DEF WireInv, InOrder, Open
  <2> QED BY <2>3, <2>4 DEF ConnInv
<1> QED BY <1>1, <1>2 DEF ServerInv

LEMMA StepServerInv == ServerInv /\ [Next]_vars => ServerInv'
<1> SUFFICES ASSUME ServerInv, [Next]_vars PROVE ServerInv'
  OBVIOUS
<1>1. CASE ParseTurn
  BY <1>1, ParseTurnKeeps
<1>2. CASE RequestReturns
  BY <1>2, RequestReturnsKeeps
<1>3. CASE CloseIdleConnections
  BY <1>3, CloseIdleKeeps
<1>4. CASE \E j \in jobs : ResponseCloses(j)
  BY <1>4, ResponseClosesKeeps
<1>5. ASSUME NEW c \in Conns, SocketFinishes(c) PROVE ServerInv'
  BY <1>5, DestroyKeeps DEF SocketFinishes
<1>6. ASSUME NEW c \in Conns, SocketCloses(c) PROVE ServerInv'
  BY <1>6, SocketClosesKeeps
<1>7. CASE Close
  BY <1>7, CloseKeeps
<1>8. CASE CloseAllConnections
  BY <1>8, CloseAllKeeps
<1>9. CASE SignalClientAbort
  BY <1>9, SignalKeeps
<1>10. ASSUME NEW c \in Conns, Connection(c) PROVE ServerInv'
  BY <1>10, ConnectionKeeps
<1>11. ASSUME NEW c \in Conns, Data(c) PROVE ServerInv'
  BY <1>11, DataKeeps
<1>12. ASSUME NEW c \in Conns, ReadableEnds(c) PROVE ServerInv'
  BY <1>12, ReadableEndsKeeps
<1>13. ASSUME NEW c \in Conns, ClientResets(c) PROVE ServerInv'
  BY <1>13, DestroyKeeps DEF ClientResets
<1>14. ASSUME NEW c \in Conns, IdleTimeout(c) PROVE ServerInv'
  BY <1>14, DestroyKeeps DEF IdleTimeout
<1>15. ASSUME NEW c \in Conns, NEW n \in Ns(c), Write(c, n) PROVE ServerInv'
  BY <1>15, WriteKeeps
<1>16. ASSUME NEW c \in Conns, NEW n \in Ns(c), End(c, n) PROVE ServerInv'
  BY <1>16, EndKeeps
<1>17. ASSUME NEW c \in Conns, NEW n \in Ns(c), DestroyResponse(c, n) PROVE ServerInv'
  BY <1>17, DestroyResponseKeeps
<1>18. CASE UNCHANGED vars
  <2>1. Typed /\ UNCHANGED <<server, conn, answer, wire, client, frames, overrun>>
    BY <1>18 DEF vars, ServerInv
  <2>2. /\ server' \in [closing : BOOLEAN, set : Settings] /\ frames' \in Seq(FrameFields)
        /\ conn' = [d \in Conns |-> conn'[d]] /\ answer' = [d \in Conns |-> answer'[d]]
    BY <2>1 DEF Typed
  <2>3. \A d \in Conns : /\ conn'[d] \in ConnFields /\ SameAnswers(d, answer'[d], answer[d])
                         /\ SameParse(conn'[d], conn[d]) /\ SockGoes(conn'[d], conn[d])
    BY <2>1, WholeState
  <2> QED BY <2>1, <2>2, <2>3, EachStaysKeeps
<1> QED BY <1>1, <1>2, <1>3, <1>4, <1>5, <1>6, <1>7, <1>8, <1>9, <1>10, <1>11, <1>12,
           <1>13, <1>14, <1>15, <1>16, <1>17, <1>18 DEF Next, Handlers

\* In every reachable state a connection's buffer holds requests newer than all that were
\* handed over, at most one of those is still to be answered while the socket is open, and
\* it is the current one.
THEOREM ServerInvIsInvariant == Spec => []ServerInv
BY InitServerInv, StepServerInv, PTL DEF Spec

LEMMA ServerInvOrders == ServerInv => ResponsesInOrder
<1> SUFFICES ASSUME ServerInv PROVE ResponsesInOrder
  OBVIOUS
<1>1. Typed
  BY DEF ServerInv
<1>2. ASSUME NEW c \in Conns
      PROVE  /\ BufferInv(c, conn[c], answer[c], client[c])
             /\ c \notin overrun => InOrder(wire[c])
  <2>1. ConnInv(c, conn[c], answer[c], wire[c], client[c], overrun)
    BY DEF ServerInv
  <2> QED BY <2>1 DEF ConnInv
<1>3. TypeOK
  <2>1. server \in [closing : BOOLEAN, set : Settings] /\ overrun \subseteq Conns
    BY <1>1 DEF Typed
  <2>2. ASSUME NEW c \in Conns
        PROVE  /\ conn[c].sock \in {"none", "open", "ended", "destroyed", "closed"}
               /\ conn[c].state \in {"IDLE", "HEADERS", "BODY", "AWAITING_RESPONSE"}
               /\ {conn[c].req, conn[c].res} \subseteq 0 .. Requests[c]
               /\ DOMAIN answer[c] = Ns(c)
    <3>1. conn[c] \in ConnFields /\ answer[c] \in [Ns(c) -> AnswerFields]
      BY <1>1 DEF Typed
    <3>2. {conn[c].req, conn[c].res} \subseteq 0 .. Requests[c]
      <4>1. client[c].n \in 0 .. Requests[c] /\ Requests[c] \in Nat
        BY <1>2, HttpServerAssumption DEF BufferInv
      <4> QED BY <1>2, <4>1 DEF BufferInv
    <3> QED BY <3>1, <3>2 DEF ConnFields
  <2> QED BY <2>1, <2>2 DEF TypeOK
<1> QED BY <1>2, <1>3 DEF ResponsesInOrder, InOrder

\* The responses of a connection come in the order of its requests, each in one piece, with
\* nothing behind an error response, for any number of connections and of requests on them
\* (ResponsesInOrder), but for those where a request came behind one without a body that
\* was not answered yet, where the parser of node_http_server.js does not wait.
THEOREM ResponsesAlwaysInOrder == Spec => []ResponsesInOrder
BY ServerInvIsInvariant, ServerInvOrders, PTL

-----------------------------------------------------------------------------
(* Nothing is owed: the rest of the invariant, about the handlers under way   *)
(* and the jobs to come.                                                     *)

\* The connections with a parse loop among the frames fs, the requests of c that are being
\* handed to the program, and those whose responses a job is to close.
LoopsOf(fs) == {c \in Conns : \E i \in 1 .. Len(fs) : fs[i].at = "loop" /\ fs[i].c = c}
CallsOf(c, fs) == {n \in Nat : \E i \in 1 .. Len(fs) :
                        fs[i].at = "request" /\ fs[i].c = c /\ fs[i].n = n}
Due(c, todo) == {n \in Ns(c) : CloseOf(c, n) \in todo}

\* No request is handed over twice.
Distinct(fs) ==
    \A i, j \in 1 .. Len(fs) :
        i # j /\ fs[i].at = "request" /\ fs[j].at = "request" =>
            fs[i].c # fs[j].c \/ fs[i].n # fs[j].n

Untouched(x) == ~x.handed /\ ~x.ended /\ ~x.complete /\ ~x.aborted /\ x.eof = 0 /\ x.closed = 0

\* The heads in the buffer b are of later requests than the n-th.
Before(n, b) == \A i \in 1 .. Len(b) : b[i][2] = "head" => n < b[i][1]

\* What happens to a request happens once its head is off the buffer; a client that sent
\* something malformed sends nothing behind it.
BehindInv(c, k, a, s, calls, due) ==
    /\ \A n \in Ns(c) :
        ~Untouched(a[n]) \/ n = k.res \/ n \in calls \/ n \in due => n <= s.n /\ Before(n, k.buffer)
    /\ \A n \in Ns(c) : n < s.n => a[n].kind \in {"none", "length", "chunked"}
    /\ k.sock = "none" => k = NewConn /\ \A n \in Ns(c) : Untouched(a[n]) /\ n \notin due
    /\ k.req = k.res

\* The end of a request is pushed once.
EndsInv(c, k, a, loops, calls) ==
    /\ c \in loops => k.sock \notin {"none", "closed"}
    /\ \A n \in Ns(c) :
        /\ a[n].aborted => a[n].complete
        /\ ~a[n].complete => a[n].eof = 0
        /\ a[n].eof <= 1 \/ a[n].aborted
        /\ n \in calls => a[n].handed
        /\ n \in calls /\ a[n].kind = "none" => a[n].eof = 0 /\ a[n].complete
    /\ k.state = "BODY" /\ k.res # 0 =>
        /\ a[k.res].kind # "none"
        /\ a[k.res].complete /\ ~a[k.res].aborted =>
            (k.readableEnded \/ k.sock = "closed") /\ c \notin loops

\* A response is closed once: it is the current one, or its tick is to come, or it is closed.
ClosesInv(c, k, a, due) ==
    /\ \A n \in Ns(c) :
        /\ n \in due => a[n].closed = 0 /\ k.res # n /\ a[n].ended
        /\ a[n].closed <= 1
        /\ a[n].closed # 0 /\ k.res = n => k.sock = "closed"
        /\ a[n].closed # 0 => a[n].ended \/ k.sock = "closed"
        /\ a[n].handed /\ ~k.detached =>
            /\ n = k.res \/ a[n].complete
            /\ n = k.res \/ n \in due \/ a[n].closed = 1
    /\ k.sock = "closed" /\ ~k.detached /\ k.res # 0 => a[k.res].complete /\ a[k.res].closed = 1

\* A parser that is idle looks at what it has, and has no response to wait for.
IdleInv(c, k, a, s, loops) ==
    /\ \A n \in Ns(c) : a[n].handed /\ ~a[n].ended =>
        (n = k.res \/ k.detached) /\ \A m \in Ns(c) : a[m].handed => m <= n
    /\ k.res # 0 /\ k.responseFinished => a[k.res].ended
    /\ k.res # 0 /\ Ready(k) => a[k.res].kind = "none" \/ (a[k.res].kind = "badBody" /\ s.n = k.res)
    /\ k.detached => k.res = 0 /\ k.buffer = <<>> /\ Ready(k)
    /\ k.detached /\ k.state = "IDLE" => \A n \in Ns(c) : a[n].handed => a[n].ended
    /\ Open(k) /\ k.state = "IDLE" /\ (HasHead(k.buffer) \/ k.res # 0) => c \in loops

OweInv(c, k, a, s, loops, calls, due, over) ==
    /\ BehindInv(c, k, a, s, calls, due) /\ EndsInv(c, k, a, loops, calls)
    /\ c \notin over => ClosesInv(c, k, a, due) /\ IdleInv(c, k, a, s, loops)

JobsInv(todo) == \A j \in todo : j.what = "close" => j = CloseOf(j.c, j.n)

SettleInv ==
    /\ ServerInv /\ Distinct(frames) /\ JobsInv(jobs)
    /\ \A c \in Conns :
        OweInv(c, conn[c], answer[c], client[c], LoopsOf(frames), CallsOf(c, frames),
               Due(c, jobs), overrun)

-----------------------------------------------------------------------------
(* The frames.                                                               *)

LEMMA TailFrames ==
    ASSUME NEW fs \in Seq(FrameFields), fs # <<>>, Distinct(fs)
    PROVE  LET t == Tail(fs)
               h == Head(fs)
           IN  /\ Distinct(t) /\ LoopsOf(t) \subseteq LoopsOf(fs)
               /\ \A d \in LoopsOf(fs) : d # h.c \/ h.at # "loop" => d \in LoopsOf(t)
               /\ \A d \in Conns : d # h.c \/ h.at # "request" => CallsOf(d, t) = CallsOf(d, fs)
               /\ h.at = "loop" => h.c \in LoopsOf(fs)
               /\ h.at = "request" => /\ h.n \in CallsOf(h.c, fs)
                                      /\ CallsOf(h.c, t) = CallsOf(h.c, fs) \ {h.n}
<1> DEFINE t == Tail(fs)
           h == Head(fs)
<1>1. /\ Len(fs) \in Nat /\ Len(fs) # 0 /\ t \in Seq(FrameFields) /\ Len(t) = Len(fs) - 1
      /\ \A i \in 1 .. Len(t) : t[i] = fs[i + 1]
      /\ h = fs[1] /\ h \in FrameFields
  OBVIOUS
<1> HIDE DEF t, h
<1>2. \A i \in 1 .. Len(t) : i + 1 \in 1 .. Len(fs) /\ i + 1 # 1 /\ t[i] = fs[i + 1]
  BY <1>1
<1>3. 1 \in 1 .. Len(fs) /\ h.c \in Conns /\ h.n \in Nat
  BY <1>1 DEF FrameFields
<1>4. ASSUME NEW i \in 1 .. Len(fs), i # 1 PROVE i - 1 \in 1 .. Len(t) /\ t[i - 1] = fs[i]
  <2>1. i - 1 \in 1 .. Len(t) /\ (i - 1) + 1 = i
    BY <1>1, <1>4
  <2> QED BY <1>1, <2>1
<1>5. Distinct(t)
  <2> SUFFICES ASSUME NEW i \in 1 .. Len(t), NEW j \in 1 .. Len(t), i # j,
                      t[i].at = "request", t[j].at = "request"
               PROVE  t[i].c # t[j].c \/ t[i].n # t[j].n
    BY DEF Distinct
  <2>1. i + 1 # j + 1
    BY <1>1
  <2>2. i + 1 \in 1 .. Len(fs) /\ j + 1 \in 1 .. Len(fs) /\ t[i] = fs[i + 1] /\ t[j] = fs[j + 1]
    BY <1>2
  <2> QED BY <2>1, <2>2 DEF Distinct
<1>6. ASSUME NEW d \in LoopsOf(t) PROVE d \in LoopsOf(fs)
  <2>1. PICK i \in 1 .. Len(t) : t[i].at = "loop" /\ t[i].c = d
    BY DEF LoopsOf
  <2>2. i + 1 \in 1 .. Len(fs) /\ t[i] = fs[i + 1] /\ d \in Conns
    BY <1>2 DEF LoopsOf
  <2> QED BY <2>1, <2>2 DEF LoopsOf
<1>7. ASSUME NEW d \in LoopsOf(fs), d # h.c \/ h.at # "loop" PROVE d \in LoopsOf(t)
  <2>1. PICK i \in 1 .. Len(fs) : fs[i].at = "loop" /\ fs[i].c = d
    BY DEF LoopsOf
  <2>2. i # 1 /\ d \in Conns
    BY <1>1, <1>7, <2>1 DEF LoopsOf
  <2>3. i - 1 \in 1 .. Len(t) /\ t[i - 1] = fs[i]
    BY <1>4, <2>2
  <2> QED BY <2>1, <2>2, <2>3 DEF LoopsOf
<1>8. ASSUME NEW d \in Conns, NEW n \in CallsOf(d, t) PROVE n \in CallsOf(d, fs)
  <2>1. PICK i \in 1 .. Len(t) : t[i].at = "request" /\ t[i].c = d /\ t[i].n = n
    BY DEF CallsOf
  <2>2. i + 1 \in 1 .. Len(fs) /\ t[i] = fs[i + 1] /\ n \in Nat
    BY <1>2 DEF CallsOf
  <2> QED BY <2>1, <2>2 DEF CallsOf
<1>9. ASSUME NEW d \in Conns, NEW n \in CallsOf(d, fs), d # h.c \/ h.at # "request" \/ n # h.n
      PROVE  n \in CallsOf(d, t)
  <2>1. PICK i \in 1 .. Len(fs) : fs[i].at = "request" /\ fs[i].c = d /\ fs[i].n = n
    BY DEF CallsOf
  <2>2. i # 1 /\ n \in Nat
    BY <1>1, <1>9, <2>1 DEF CallsOf
  <2>3. i - 1 \in 1 .. Len(t) /\ t[i - 1] = fs[i]
    BY <1>4, <2>2
  <2> QED BY <2>1, <2>2, <2>3 DEF CallsOf
<1>10. h.at = "loop" => h.c \in LoopsOf(fs)
  BY <1>1, <1>3 DEF LoopsOf
<1>11. ASSUME h.at = "request"
       PROVE  h.n \in CallsOf(h.c, fs) /\ CallsOf(h.c, t) = CallsOf(h.c, fs) \ {h.n}
  <2>1. h.n \in CallsOf(h.c, fs)
    BY <1>1, <1>3, <1>11 DEF CallsOf
  <2>2. ASSUME h.n \in CallsOf(h.c, t) PROVE FALSE
    <3>1. PICK i \in 1 .. Len(t) : t[i].at = "request" /\ t[i].c = h.c /\ t[i].n = h.n
      BY <2>2 DEF CallsOf
    <3>2. i + 1 \in 1 .. Len(fs) /\ i + 1 # 1 /\ t[i] = fs[i + 1]
      BY <1>2
    <3> QED BY <1>1, <1>3, <1>11, <3>1, <3>2 DEF Distinct
  <2> QED BY <1>3, <1>8, <1>9, <2>1, <2>2
<1>12. \A d \in Conns : d # h.c \/ h.at # "request" => CallsOf(d, t) = CallsOf(d, fs)
  BY <1>8, <1>9
<1> QED BY <1>5, <1>6, <1>7, <1>10, <1>11, <1>12 DEF t, h

LEMMA PushedFrames ==
    ASSUME NEW fs \in Seq(FrameFields), NEW f \in FrameFields, Distinct(fs)
    PROVE  LET r == <<f>> \o fs
           IN  /\ f.at = "loop" => /\ LoopsOf(r) = LoopsOf(fs) \cup {f.c} /\ Distinct(r)
                                   /\ \A d \in Conns : CallsOf(d, r) = CallsOf(d, fs)
               /\ f.at = "request" =>
                    /\ LoopsOf(r) = LoopsOf(fs)
                    /\ CallsOf(f.c, r) = CallsOf(f.c, fs) \cup {f.n}
                    /\ \A d \in Conns \ {f.c} : CallsOf(d, r) = CallsOf(d, fs)
                    /\ f.n \notin CallsOf(f.c, fs) => Distinct(r)
<1> DEFINE r == <<f>> \o fs
<1>1. /\ Len(fs) \in Nat /\ Len(r) = Len(fs) + 1 /\ r[1] = f
      /\ \A i \in 1 .. Len(fs) : r[i + 1] = fs[i]
      /\ \A i \in 2 .. Len(r) : r[i] = fs[i - 1]
  OBVIOUS
<1> HIDE DEF r
<1>2. /\ 1 \in 1 .. Len(r) /\ \A i \in 1 .. Len(fs) : i + 1 \in 1 .. Len(r)
      /\ \A i \in 1 .. Len(r) : i = 1 \/ (i - 1 \in 1 .. Len(fs) /\ r[i] = fs[i - 1])
  BY <1>1
<1>3. f.c \in Conns /\ f.n \in Nat /\ f.at \in {"loop", "request"}
  BY DEF FrameFields
<1>4. ASSUME NEW d \in Conns PROVE d \in LoopsOf(r) <=> d \in LoopsOf(fs) \/ (f.at = "loop" /\ d = f.c)
  <2>1. ASSUME d \in LoopsOf(r), ~(f.at = "loop" /\ d = f.c) PROVE d \in LoopsOf(fs)
    <3>1. PICK i \in 1 .. Len(r) : r[i].at = "loop" /\ r[i].c = d
      BY <2>1 DEF LoopsOf
    <3>2. i - 1 \in 1 .. Len(fs) /\ r[i] = fs[i - 1]
      BY <1>1, <1>2, <2>1, <3>1
    <3> QED BY <3>1, <3>2 DEF LoopsOf
  <2>2. ASSUME d \in LoopsOf(fs) PROVE d \in LoopsOf(r)
    <3>1. PICK i \in 1 .. Len(fs) : fs[i].at = "loop" /\ fs[i].c = d
      BY <2>2 DEF LoopsOf
    <3>2. i + 1 \in 1 .. Len(r) /\ r[i + 1] = fs[i]
      BY <1>1, <1>2
    <3> QED BY <3>1, <3>2 DEF LoopsOf
  <2>3. f.at = "loop" /\ d = f.c => d \in LoopsOf(r)
    BY <1>1, <1>2 DEF LoopsOf
  <2> QED BY <2>1, <2>2, <2>3
<1>5. ASSUME NEW d \in Conns, NEW n \in Nat
      PROVE  n \in CallsOf(d, r) <=> n \in CallsOf(d, fs) \/ (f.at = "request" /\ d = f.c /\ n = f.n)
  <2>1. ASSUME n \in CallsOf(d, r), ~(f.at = "request" /\ d = f.c /\ n = f.n)
        PROVE  n \in CallsOf(d, fs)
    <3>1. PICK i \in 1 .. Len(r) : r[i].at = "request" /\ r[i].c = d /\ r[i].n = n
      BY <2>1 DEF CallsOf
    <3>2. i - 1 \in 1 .. Len(fs) /\ r[i] = fs[i - 1]
      BY <1>1, <1>2, <2>1, <3>1
    <3> QED BY <3>1, <3>2 DEF CallsOf
  <2>2. ASSUME n \in CallsOf(d, fs) PROVE n \in CallsOf(d, r)
    <3>1. PICK i \in 1 .. Len(fs) : fs[i].at = "request" /\ fs[i].c = d /\ fs[i].n = n
      BY <2>2 DEF CallsOf
    <3>2. i + 1 \in 1 .. Len(r) /\ r[i + 1] = fs[i]
      BY <1>1, <1>2
    <3> QED BY <3>1, <3>2 DEF CallsOf
  <2>3. f.at = "request" /\ d = f.c /\ n = f.n => n \in CallsOf(d, r)
    BY <1>1, <1>2 DEF CallsOf
  <2> QED BY <2>1, <2>2, <2>3
<1>6. ASSUME f.at = "loop" \/ f.n \notin CallsOf(f.c, fs) PROVE Distinct(r)
  <2>1. ASSUME NEW i \in 1 .. Len(fs), fs[i].at = "request", f.at = "request"
        PROVE  fs[i].c # f.c \/ fs[i].n # f.n
    BY <1>3, <1>6, <2>1 DEF CallsOf
  <2> SUFFICES ASSUME NEW i \in 1 .. Len(r), NEW j \in 1 .. Len(r), i # j,
                      r[i].at = "request", r[j].at = "request"
               PROVE  r[i].c # r[j].c \/ r[i].n # r[j].n
    BY DEF Distinct
  <2>2. CASE i = 1
    BY <1>1, <1>2, <2>1, <2>2
  <2>3. CASE j = 1
    BY <1>1, <1>2, <2>1, <2>3
  <2>4. CASE i # 1 /\ j # 1
    <3>1. i - 1 # j - 1
      BY <1>1
    <3> QED BY <1>2, <2>4, <3>1 DEF Distinct
  <2> QED BY <2>2, <2>3, <2>4
<1>7. /\ LoopsOf(r) \subseteq Conns /\ LoopsOf(fs) \subseteq Conns
      /\ \A d \in Conns : CallsOf(d, r) \subseteq Nat /\ CallsOf(d, fs) \subseteq Nat
  BY DEF LoopsOf, CallsOf
<1>8. f.at = "loop" => LoopsOf(r) = LoopsOf(fs) \cup {f.c}
  BY <1>3, <1>4, <1>7
<1>9. f.at = "request" => LoopsOf(r) = LoopsOf(fs)
  BY <1>4, <1>7
<1>10. ASSUME NEW d \in Conns, f.at = "loop" \/ d # f.c PROVE CallsOf(d, r) = CallsOf(d, fs)
  BY <1>5, <1>7, <1>10
<1>11. f.at = "request" => CallsOf(f.c, r) = CallsOf(f.c, fs) \cup {f.n}
  BY <1>3, <1>5, <1>7
<1> QED BY <1>3, <1>6, <1>8, <1>9, <1>10, <1>11 DEF r

\* Between two handlers there is no frame.
LEMMA NoFrames ==
    ASSUME Typed, Top.at = "rest"
    PROVE  frames = <<>> /\ LoopsOf(frames) = {} /\ \A c \in Conns : CallsOf(c, frames) = {}
<1>1. frames = <<>>
  <2>1. frames # <<>> => Head(frames) \in FrameFields
    BY DEF Typed
  <2> QED BY <2>1 DEF Top, FrameFields
<1>2. Len(frames) = 0
  BY <1>1
<1> QED BY <1>1, <1>2 DEF LoopsOf, CallsOf

-----------------------------------------------------------------------------
(* How one connection goes on: its answers.                                  *)

LEMMA LaterBefore ==
    ASSUME NEW p \in Seq(Nat \X Parts), NEW r \in Seq(Nat \X Parts), Later(r, p), NEW n,
           Before(n, p)
    PROVE  Before(n, r)
<1>1. PICK m \in 0 .. Len(p) : Len(r) = Len(p) - m /\ \A i \in 1 .. Len(r) : r[i] = p[i + m]
  BY DEF Later
<1>2. Len(p) \in Nat /\ Len(r) \in Nat
  OBVIOUS
<1>3. \A i \in 1 .. Len(r) : i + m \in 1 .. Len(p) /\ r[i] = p[i + m]
  BY <1>1, <1>2
<1> QED BY <1>3 DEF Before

LEMMA HeadBefore ==
    ASSUME NEW p \in Seq(Nat \X Parts), HasHead(p), NEW m, Before(m, p)
    PROVE  m < Head(SkipBlank(p))[1]
<1>1. SkipBlank(p) \in Seq(Nat \X Parts) /\ Later(SkipBlank(p), p) /\ SkipBlank(p) # <<>>
  BY LaterSkip DEF HasHead
<1>2. Before(m, SkipBlank(p))
  BY <1>1, LaterBefore
<1>3. 1 \in 1 .. Len(SkipBlank(p)) /\ Head(SkipBlank(p)) = SkipBlank(p)[1]
  BY <1>1, HeadOf
<1> QED BY <1>2, <1>3 DEF HasHead, Before

LEMMA CurrentIn ==
    ASSUME NEW c \in Conns, NEW k \in ConnFields, NEW a, NEW s \in [n : Nat, i : Nat],
           BufferInv(c, k, a, s)
    PROVE  k.res = 0 \/ (k.res \in Ns(c) /\ k.res <= s.n)
BY HttpServerAssumption DEF BufferInv, Ns

\* The invariant sees of the frames, the jobs and the overrun connections what is about c.
LEMMA OweSame ==
    ASSUME NEW c, NEW k, NEW a, NEW s, NEW loops, NEW looping, NEW calls, NEW due, NEW over, NEW late,
           OweInv(c, k, a, s, loops, calls, due, over),
           c \in looping <=> c \in loops, c \in late <=> c \in over
    PROVE  OweInv(c, k, a, s, looping, calls, due, late)
BY DEF OweInv, EndsInv, IdleInv

\* The answers b agree with a on what the invariant tells apart.
SameFacts(c, b, a) ==
    \A n \in Ns(c) : /\ b[n].kind = a[n].kind /\ b[n].handed = a[n].handed /\ b[n].ended = a[n].ended
                     /\ b[n].complete = a[n].complete /\ b[n].aborted = a[n].aborted
                     /\ b[n].eof = a[n].eof /\ b[n].closed = a[n].closed

LEMMA FlagsOwe ==
    ASSUME NEW c, NEW k, NEW a, NEW b, NEW s, NEW loops, NEW calls, NEW due, NEW over,
           OweInv(c, k, a, s, loops, calls, due, over), k.res = 0 \/ k.res \in Ns(c),
           SameFacts(c, b, a)
    PROVE  OweInv(c, k, b, s, loops, calls, due, over)
<1>1. BehindInv(c, k, b, s, calls, due)
  BY DEF OweInv, BehindInv, SameFacts, Untouched
<1>2. EndsInv(c, k, b, loops, calls)
  BY DEF OweInv, EndsInv, SameFacts
<1>3. c \notin over => ClosesInv(c, k, b, due)
  BY DEF OweInv, ClosesInv, SameFacts
<1>4. c \notin over => IdleInv(c, k, b, s, loops)
  BY DEF OweInv, IdleInv, SameFacts
<1> QED BY <1>1, <1>2, <1>3, <1>4 DEF OweInv

\* The answers b and a differ at most in request n.
SameElse(c, b, a, n) == \A m \in Ns(c) : m # n => b[m] = a[m]

\* The current request is completed, and aborted if the parser may still be in it.
LEMMA CompletedOwes ==
    ASSUME NEW c, NEW k, NEW a \in [Ns(c) -> AnswerFields], NEW b, NEW s, NEW loops, NEW calls,
           NEW due, NEW over,
           OweInv(c, k, a, s, loops, calls, due, over), k.res \in Ns(c), SameElse(c, b, a, k.res),
           b[k.res].kind = a[k.res].kind, b[k.res].handed = a[k.res].handed,
           b[k.res].ended = a[k.res].ended, b[k.res].closed = a[k.res].closed,
           b[k.res].complete, a[k.res].aborted => b[k.res].aborted,
           b[k.res].eof = IF a[k.res].complete THEN a[k.res].eof ELSE a[k.res].eof + 1,
           b[k.res].aborted \/ k.state # "BODY"
                \/ ((k.readableEnded \/ k.sock = "closed") /\ c \notin loops),
           k.sock # "none"
    PROVE  OweInv(c, k, b, s, loops, calls, due, over)
<1>1. BehindInv(c, k, b, s, calls, due)
  BY DEF OweInv, BehindInv, SameElse
<1>2. EndsInv(c, k, b, loops, calls)
  <2>1. ASSUME NEW n \in Ns(c)
        PROVE  /\ b[n].aborted => b[n].complete
               /\ ~b[n].complete => b[n].eof = 0
               /\ b[n].eof <= 1 \/ b[n].aborted
               /\ n \in calls => b[n].handed
               /\ n \in calls /\ b[n].kind = "none" => b[n].eof = 0 /\ b[n].complete
    <3>1. CASE n = k.res
      <4>1. /\ a[n].aborted => a[n].complete
            /\ ~a[n].complete => a[n].eof = 0
            /\ a[n].eof <= 1 \/ a[n].aborted
            /\ n \in calls => a[n].handed
            /\ n \in calls /\ a[n].kind = "none" => a[n].eof = 0 /\ a[n].complete
        BY DEF OweInv, EndsInv
      <4>2. a[n].eof \in Nat
        BY DEF AnswerFields
      <4> QED BY <3>1, <4>1, <4>2
    <3>2. CASE n # k.res
      BY <3>2 DEF OweInv, EndsInv, SameElse
    <3> QED BY <3>1, <3>2
  <2>2. k.state = "BODY" /\ k.res # 0 =>
            /\ b[k.res].kind # "none"
            /\ b[k.res].complete /\ ~b[k.res].aborted =>
                (k.readableEnded \/ k.sock = "closed") /\ c \notin loops
    BY DEF OweInv, EndsInv
  <2> QED BY <2>1, <2>2 DEF OweInv, EndsInv
<1>3. c \notin over => ClosesInv(c, k, b, due)
  BY DEF OweInv, ClosesInv, SameElse
<1>4. c \notin over => IdleInv(c, k, b, s, loops)
  BY DEF OweInv, IdleInv, SameElse
<1> QED BY <1>1, <1>2, <1>3, <1>4 DEF OweInv

\* A response ends.
LEMMA EndedOwes ==
    ASSUME NEW c, NEW k, NEW a, NEW b, NEW s, NEW loops, NEW calls, NEW due, NEW over, NEW n \in Ns(c),
           OweInv(c, k, a, s, loops, calls, due, over), k.res = 0 \/ k.res \in Ns(c), a[n].handed,
           \A m \in Ns(c) :
                /\ b[m].kind = a[m].kind /\ b[m].handed = a[m].handed
                /\ b[m].complete = a[m].complete /\ b[m].aborted = a[m].aborted
                /\ b[m].eof = a[m].eof /\ b[m].closed = a[m].closed
                /\ b[m].ended <=> a[m].ended \/ m = n
    PROVE  OweInv(c, k, b, s, loops, calls, due, over)
<1>1. BehindInv(c, k, b, s, calls, due)
  BY DEF OweInv, BehindInv, Untouched
<1>2. EndsInv(c, k, b, loops, calls)
  BY DEF OweInv, EndsInv
<1>3. c \notin over => ClosesInv(c, k, b, due)
  BY DEF OweInv, ClosesInv
<1>4. c \notin over => IdleInv(c, k, b, s, loops)
  BY DEF OweInv, IdleInv
<1> QED BY <1>1, <1>2, <1>3, <1>4 DEF OweInv

\* A response is closed by its tick.
LEMMA TickOwes ==
    ASSUME NEW c, NEW k, NEW a, NEW b, NEW s, NEW loops, NEW calls, NEW due, NEW left, NEW over,
           NEW n \in Ns(c), OweInv(c, k, a, s, loops, calls, due, over), n \in due,
           left = due \ {n}, SameElse(c, b, a, n),
           b[n].kind = a[n].kind, b[n].handed = a[n].handed, b[n].ended = a[n].ended,
           b[n].complete = a[n].complete, b[n].aborted = a[n].aborted, b[n].eof = a[n].eof,
           b[n].closed = a[n].closed + 1, k.res = 0 \/ k.res \in Ns(c), k.sock # "none"
    PROVE  OweInv(c, k, b, s, loops, calls, left, over)
<1>1. BehindInv(c, k, b, s, calls, left)
  <2>1. ASSUME NEW m \in Ns(c), ~Untouched(b[m]) \/ m = k.res \/ m \in calls \/ m \in left
        PROVE  m <= s.n /\ Before(m, k.buffer)
    <3>1. CASE m = n
      BY <3>1 DEF OweInv, BehindInv
    <3>2. CASE m # n
      BY <2>1, <3>2 DEF OweInv, BehindInv, SameElse
    <3> QED BY <3>1, <3>2
  <2>2. \A m \in Ns(c) : b[m].kind = a[m].kind
    BY DEF SameElse
  <2> QED BY <2>1, <2>2 DEF OweInv, BehindInv
<1>2. EndsInv(c, k, b, loops, calls)
  <2>1. \A m \in Ns(c) : /\ b[m].kind = a[m].kind /\ b[m].handed = a[m].handed
                         /\ b[m].complete = a[m].complete /\ b[m].aborted = a[m].aborted
                         /\ b[m].eof = a[m].eof
    BY DEF SameElse
  <2> QED BY <2>1 DEF OweInv, EndsInv
<1>3. ASSUME c \notin over PROVE ClosesInv(c, k, b, left)
  <2>1. /\ a[n].closed = 0 /\ k.res # n /\ a[n].ended
        /\ a[n].handed /\ ~k.detached => a[n].complete
    BY <1>3 DEF OweInv, ClosesInv
  <2>2. b[n].closed = 1
    BY <2>1
  <2>3. ASSUME NEW m \in Ns(c)
        PROVE  /\ m \in left => b[m].closed = 0 /\ k.res # m /\ b[m].ended
               /\ b[m].closed <= 1
               /\ b[m].closed # 0 /\ k.res = m => k.sock = "closed"
               /\ b[m].closed # 0 => b[m].ended \/ k.sock = "closed"
               /\ b[m].handed /\ ~k.detached =>
                    /\ m = k.res \/ b[m].complete
                    /\ m = k.res \/ m \in left \/ b[m].closed = 1
    <3>1. CASE m = n
      <4>1. /\ b[n].closed = 1 /\ b[n].ended /\ k.res # n /\ n \notin left
            /\ b[n].handed /\ ~k.detached => b[n].complete
        BY <2>1, <2>2
      <4> QED BY <3>1, <4>1
    <3>2. CASE m # n
      BY <1>3, <3>2 DEF OweInv, ClosesInv, SameElse
    <3> QED BY <3>1, <3>2
  <2>4. k.sock = "closed" /\ ~k.detached /\ k.res # 0 => b[k.res].complete /\ b[k.res].closed = 1
    BY <1>3, <2>1 DEF OweInv, ClosesInv, SameElse
  <2> QED BY <2>3, <2>4 DEF ClosesInv
<1>4. c \notin over => IdleInv(c, k, b, s, loops)
  <2>1. \A m \in Ns(c) : /\ b[m].kind = a[m].kind /\ b[m].handed = a[m].handed
                         /\ b[m].ended = a[m].ended
    BY DEF SameElse
  <2> QED BY <2>1 DEF OweInv, IdleInv
<1> QED BY <1>1, <1>2, <1>3, <1>4 DEF OweInv

\* The listeners return.
LEMMA ReturnedOwes ==
    ASSUME NEW c, NEW k, NEW a, NEW b, NEW s, NEW loops, NEW calls, NEW left, NEW due, NEW over,
           NEW n, OweInv(c, k, a, s, loops, calls, due, over), n \in calls, left = calls \ {n},
           k.res = 0 \/ k.res \in Ns(c), SameElse(c, b, a, n),
           n \in Ns(c) =>
                /\ b[n].kind = a[n].kind /\ b[n].handed = a[n].handed /\ b[n].ended = a[n].ended
                /\ b[n].complete = a[n].complete /\ b[n].aborted = a[n].aborted
                /\ b[n].closed = a[n].closed
                /\ b[n].eof = IF a[n].kind = "none" THEN a[n].eof + 1 ELSE a[n].eof
    PROVE  OweInv(c, k, b, s, loops, left, due, over)
<1>1. \A m \in Ns(c) : /\ b[m].kind = a[m].kind /\ b[m].handed = a[m].handed
                       /\ b[m].ended = a[m].ended
                       /\ b[m].complete = a[m].complete /\ b[m].aborted = a[m].aborted
                       /\ b[m].closed = a[m].closed
                       /\ m # n => b[m].eof = a[m].eof
  BY DEF SameElse
<1>2. n \in Ns(c) => /\ a[n].handed
                     /\ a[n].kind = "none" => a[n].eof = 0 /\ a[n].complete
                     /\ b[n].eof = IF a[n].kind = "none" THEN 1 ELSE a[n].eof
  BY DEF OweInv, EndsInv
<1>3. BehindInv(c, k, b, s, left, due)
  BY <1>1, <1>2 DEF OweInv, BehindInv, Untouched
<1>4. EndsInv(c, k, b, loops, left)
  BY <1>1, <1>2 DEF OweInv, EndsInv
<1>5. c \notin over => ClosesInv(c, k, b, due)
  BY <1>1 DEF OweInv, ClosesInv
<1>6. c \notin over => IdleInv(c, k, b, s, loops)
  BY <1>1 DEF OweInv, IdleInv
<1> QED BY <1>3, <1>4, <1>5, <1>6 DEF OweInv

-----------------------------------------------------------------------------
(* How one connection goes on: its parser and its socket.                    *)

\* The socket of k shut to that of q.
Shuts(q, k) == q.sock = k.sock \/ (k.sock \in {"open", "ended"} /\ q.sock \in {"ended", "destroyed"})

\* The parser of k has gone on to q, for the same request.
LEMMA StateOwes ==
    ASSUME NEW c, NEW k \in ConnFields, NEW q \in ConnFields, NEW a, NEW s, NEW loops, NEW looping,
           NEW calls, NEW due, NEW over, OweInv(c, k, a, s, loops, calls, due, over),
           q.req = k.req, q.res = k.res, q.detached = k.detached,
           q.responseFinished = k.responseFinished \/ (k.res = 0 \/ a[k.res].ended \/ c \in over),
           Later(q.buffer, k.buffer), Shuts(q, k), k.sock # "none",
           k.readableEnded => q.readableEnded,
           q.state = k.state \/ (Ready(k) /\ q.state = "HEADERS"),
           c \in looping => k.sock # "closed" /\ (k.state = "BODY" => c \in loops),
           Open(q) /\ q.state = "IDLE" /\ (HasHead(q.buffer) \/ q.res # 0) /\ c \notin over =>
                c \in looping
    PROVE  OweInv(c, q, a, s, looping, calls, due, over)
<1>1. /\ k.buffer \in Seq(Nat \X Parts) /\ q.buffer \in Seq(Nat \X Parts)
      /\ Ready(q) <=> Ready(k)
  BY DEF ConnFields, Ready
<1>2. BehindInv(c, q, a, s, calls, due)
  <2>1. ASSUME NEW n \in Ns(c), ~Untouched(a[n]) \/ n = q.res \/ n \in calls \/ n \in due
        PROVE  n <= s.n /\ Before(n, q.buffer)
    <3>1. n <= s.n /\ Before(n, k.buffer)
      BY <2>1 DEF OweInv, BehindInv
    <3> QED BY <1>1, <3>1, LaterBefore
  <2>2. q.sock # "none"
    BY DEF Shuts
  <2> QED BY <2>1, <2>2 DEF OweInv, BehindInv
<1>3. EndsInv(c, q, a, looping, calls)
  BY DEF OweInv, EndsInv, Shuts, Ready
<1>4. c \notin over => ClosesInv(c, q, a, due)
  BY DEF OweInv, ClosesInv, Shuts
<1>5. ASSUME c \notin over PROVE IdleInv(c, q, a, s, looping)
  <2>1. IdleInv(c, k, a, s, loops)
    BY <1>5 DEF OweInv
  <2>2. k.detached => q.buffer = <<>>
    <3>1. k.buffer = <<>> => Len(k.buffer) = 0
      OBVIOUS
    <3>2. k.buffer = <<>> => Len(q.buffer) = 0
      BY <3>1 DEF Later
    <3> QED BY <1>1, <2>1, <3>2 DEF IdleInv
  <2>3. q.res # 0 /\ q.responseFinished => a[q.res].ended
    BY <1>5, <2>1 DEF IdleInv
  <2>4. q.state = "IDLE" => k.state = "IDLE"
    OBVIOUS
  <2> QED BY <1>1, <1>5, <2>1, <2>2, <2>3, <2>4 DEF IdleInv
<1> QED BY <1>2, <1>3, <1>4, <1>5 DEF OweInv

\* A response that is finished makes room for the next.
LEMMA FinalizedOwes ==
    ASSUME NEW c, NEW k, NEW q, NEW a, NEW s, NEW loops, NEW looping,
           NEW calls, NEW due, NEW more, NEW over, OweInv(c, k, a, s, loops, calls, due, over),
           k.res = 0 \/ k.res \in Ns(c), k.responseFinished, k.res = 0 \/ a[k.res].complete,
           k.sock \notin {"none", "closed"}, k.detached /\ c \notin over =>
                \A n \in Ns(c) : a[n].handed => a[n].ended,
           q.req = 0, q.res = 0, q.state = "IDLE", q.detached = k.detached,
           q.buffer = k.buffer, Shuts(q, k), more = due \cup ({k.res} \cap Ns(c)),
           c \in loops => c \in looping,
           Open(q) /\ HasHead(q.buffer) => c \in looping
    PROVE  OweInv(c, q, a, s, looping, calls, more, over)
<1>1. q.sock \notin {"none", "closed"}
  BY DEF Shuts
<1>2. BehindInv(c, q, a, s, calls, more)
  <2>1. ASSUME NEW n \in Ns(c), ~Untouched(a[n]) \/ n = q.res \/ n \in calls \/ n \in more
        PROVE  n <= s.n /\ Before(n, q.buffer)
    <3>1. n # 0
      BY DEF Ns
    <3> QED BY <2>1, <3>1 DEF OweInv, BehindInv
  <2> QED BY <1>1, <2>1 DEF OweInv, BehindInv
<1>3. EndsInv(c, q, a, looping, calls)
  BY <1>1 DEF OweInv, EndsInv
<1>4. ASSUME c \notin over PROVE ClosesInv(c, q, a, more)
  <2>1. ClosesInv(c, k, a, due) /\ IdleInv(c, k, a, s, loops)
    BY <1>4 DEF OweInv
  <2>2. ASSUME NEW n \in Ns(c)
        PROVE  /\ n \in more => a[n].closed = 0 /\ q.res # n /\ a[n].ended
               /\ a[n].closed <= 1
               /\ a[n].closed # 0 /\ q.res = n => q.sock = "closed"
               /\ a[n].closed # 0 => a[n].ended \/ q.sock = "closed"
               /\ a[n].handed /\ ~q.detached =>
                    /\ n = q.res \/ a[n].complete
                    /\ n = q.res \/ n \in more \/ a[n].closed = 1
    <3>1. n # 0
      BY DEF Ns
    <3>2. CASE n = k.res
      <4>1. a[n].closed = 0 /\ a[n].ended /\ a[n].complete /\ n \in more
        BY <2>1, <3>1, <3>2 DEF ClosesInv, IdleInv
      <4> QED BY <3>1, <4>1
    <3>3. CASE n # k.res
      BY <2>1, <3>1, <3>3 DEF ClosesInv
    <3> QED BY <3>2, <3>3
  <2> QED BY <1>1, <2>2 DEF ClosesInv
<1>5. ASSUME c \notin over PROVE IdleInv(c, q, a, s, looping)
  <2>1. IdleInv(c, k, a, s, loops)
    BY <1>5 DEF OweInv
  <2>2. ASSUME NEW n \in Ns(c), a[n].handed, ~a[n].ended PROVE FALSE
    <3>1. n # 0 /\ (n = k.res \/ k.detached)
      BY <2>1, <2>2 DEF IdleInv, Ns
    <3> QED BY <1>5, <2>1, <2>2, <3>1 DEF IdleInv
  <2>3. q.detached => q.buffer = <<>>
    BY <2>1 DEF IdleInv
  <2> QED BY <2>2, <2>3 DEF IdleInv, Ready
<1> QED BY <1>2, <1>3, <1>4, <1>5 DEF OweInv

\* The last piece of a body completes the request.
LEMMA PieceOwes ==
    ASSUME NEW c, NEW k \in ConnFields, NEW q \in ConnFields, NEW a \in [Ns(c) -> AnswerFields],
           NEW b, NEW s, NEW loops, NEW calls, NEW due, NEW over,
           OweInv(c, k, a, s, loops, calls, due, over), k.state = "BODY", c \in loops,
           k.res = 0 \/ k.res \in Ns(c), SameElse(c, b, a, k.res),
           k.res \in Ns(c) =>
            /\ b[k.res].kind = a[k.res].kind /\ b[k.res].handed = a[k.res].handed
            /\ b[k.res].ended = a[k.res].ended /\ b[k.res].closed = a[k.res].closed
            /\ b[k.res].aborted = a[k.res].aborted /\ b[k.res].complete
            /\ b[k.res].eof = a[k.res].eof + 1,
           q.req = k.req, q.res = k.res, q.detached = k.detached, q.state = "AWAITING_RESPONSE",
           q.responseFinished = k.responseFinished, Later(q.buffer, k.buffer), q.sock = k.sock
    PROVE  OweInv(c, q, b, s, loops, calls, due, over)
<1>1. k.buffer \in Seq(Nat \X Parts) /\ q.buffer \in Seq(Nat \X Parts)
  BY DEF ConnFields
<1>2. q.sock \notin {"none", "closed"}
  BY DEF OweInv, EndsInv
<1>3. BehindInv(c, q, b, s, calls, due)
  <2>1. ASSUME NEW n \in Ns(c), ~Untouched(b[n]) \/ n = q.res \/ n \in calls \/ n \in due
        PROVE  n <= s.n /\ Before(n, q.buffer)
    <3>1. n <= s.n /\ Before(n, k.buffer)
      BY <2>1 DEF OweInv, BehindInv, SameElse
    <3> QED BY <1>1, <3>1, LaterBefore
  <2>2. \A n \in Ns(c) : b[n].kind = a[n].kind
    BY DEF SameElse
  <2> QED BY <1>2, <2>1, <2>2 DEF OweInv, BehindInv
<1>4. EndsInv(c, q, b, loops, calls)
  <2>1. ASSUME NEW n \in Ns(c)
        PROVE  /\ b[n].aborted => b[n].complete
               /\ ~b[n].complete => b[n].eof = 0
               /\ b[n].eof <= 1 \/ b[n].aborted
               /\ n \in calls => b[n].handed
               /\ n \in calls /\ b[n].kind = "none" => b[n].eof = 0 /\ b[n].complete
    <3>1. CASE n = k.res
      <4>1. k.res # 0 /\ a[n].kind # "none" /\ (~a[n].complete \/ a[n].aborted)
        BY <3>1 DEF OweInv, EndsInv, Ns
      <4>2. a[n].eof = 0 \/ a[n].aborted
        BY <4>1 DEF OweInv, EndsInv
      <4>3. n \in calls => a[n].handed
        BY DEF OweInv, EndsInv
      <4>4. /\ b[n].kind = a[n].kind /\ b[n].handed = a[n].handed /\ b[n].aborted = a[n].aborted
            /\ b[n].complete /\ b[n].eof = a[n].eof + 1
        BY <3>1
      <4> QED BY <4>1, <4>2, <4>3, <4>4
    <3>2. CASE n # k.res
      BY <3>2 DEF OweInv, EndsInv, SameElse
    <3> QED BY <3>1, <3>2
  <2> QED BY <1>2, <2>1 DEF EndsInv
<1>5. ASSUME c \notin over PROVE ClosesInv(c, q, b, due)
  <2>1. \A n \in Ns(c) : /\ b[n].handed = a[n].handed /\ b[n].ended = a[n].ended
                         /\ b[n].closed = a[n].closed /\ (a[n].complete => b[n].complete)
    BY DEF SameElse
  <2> QED BY <1>2, <1>5, <2>1 DEF OweInv, ClosesInv
<1>6. ASSUME c \notin over PROVE IdleInv(c, q, b, s, loops)
  <2>1. /\ \A n \in Ns(c) : b[n].handed = a[n].handed /\ b[n].ended = a[n].ended
        /\ IdleInv(c, k, a, s, loops) /\ ~k.detached /\ ~Ready(q)
    BY <1>6 DEF SameElse, OweInv, IdleInv, Ready
  <2> QED BY <2>1 DEF IdleInv, Ready
<1> QED BY <1>3, <1>4, <1>5, <1>6 DEF OweInv

\* The next request in the buffer is new, and the one before it has no body.
LEMMA NextOwes ==
    ASSUME NEW c \in Conns, NEW k \in ConnFields, NEW a \in [Ns(c) -> AnswerFields],
           NEW s \in [n : Nat, i : Nat], NEW loops, NEW calls, NEW due, NEW over,
           BufferInv(c, k, a, s), OweInv(c, k, a, s, loops, calls, due, over), HasHead(k.buffer),
           Ready(k), NEW n, n = Head(SkipBlank(k.buffer))[1]
    PROVE  /\ n \in Ns(c) /\ n <= s.n /\ n # 0 /\ Untouched(a[n])
           /\ n # k.res /\ n \notin calls /\ n \notin due
           /\ \A m \in Ns(c) : ~Untouched(a[m]) => m < n
           /\ Tail(SkipBlank(k.buffer)) \in Seq(Nat \X Parts)
           /\ Before(n, Tail(SkipBlank(k.buffer)))
           /\ \A m \in Ns(c) : Before(m, k.buffer) => Before(m, Tail(SkipBlank(k.buffer)))
           /\ c \notin over => ~k.detached /\ (k.res = 0 \/ a[k.res].kind = "none")
<1> DEFINE t == Tail(SkipBlank(k.buffer))
<1>1. /\ n \in Ns(c) /\ n <= s.n /\ t \in Seq(Nat \X Parts) /\ Later(t, k.buffer)
      /\ k.buffer # <<>> /\ \A i \in 1 .. Len(t) : t[i][2] = "head" => n < t[i][1]
  BY NextHead
<1>2. Before(n, t)
  BY <1>1 DEF Before
<1>3. k.buffer \in Seq(Nat \X Parts)
  BY DEF ConnFields
<1> HIDE DEF t
<1>4. ASSUME NEW m \in Ns(c), ~Untouched(a[m]) \/ m = k.res \/ m \in calls \/ m \in due
      PROVE  m < n
  <2>1. Before(m, k.buffer)
    BY <1>4 DEF OweInv, BehindInv
  <2> QED BY <1>3, <2>1, HeadBefore
<1>5. n \in Nat /\ n # 0 /\ ~(n < n)
  BY <1>1 DEF Ns
<1>6. \A m \in Ns(c) : Before(m, k.buffer) => Before(m, t)
  BY <1>1, <1>3, LaterBefore
<1>7. ASSUME c \notin over PROVE ~k.detached /\ (k.res = 0 \/ a[k.res].kind = "none")
  <2>1. IdleInv(c, k, a, s, loops)
    BY <1>7 DEF OweInv
  <2>2. ~k.detached
    BY <1>1, <2>1 DEF IdleInv
  <2>3. k.res # 0 => k.res < n /\ n <= s.n /\ s.n # k.res
    <3>1. k.res # 0 => k.res \in Ns(c)
      BY CurrentIn
    <3> QED BY <1>1, <1>4, <1>5, <3>1 DEF Ns
  <2> QED BY <2>1, <2>2, <2>3 DEF IdleInv
<1> QED BY <1>1, <1>2, <1>4, <1>5, <1>6, <1>7 DEF t

\* It is taken, and refused for its body.
LEMMA TakenOwes ==
    ASSUME NEW c \in Conns, NEW k \in ConnFields, NEW q, NEW a \in [Ns(c) -> AnswerFields],
           NEW s \in [n : Nat, i : Nat], NEW loops, NEW looping, NEW calls, NEW due, NEW over, NEW late,
           BufferInv(c, k, a, s), OweInv(c, k, a, s, loops, calls, due, over), HasHead(k.buffer),
           Ready(k), NEW n, n = Head(SkipBlank(k.buffer))[1], a[n].kind = "badBody",
           c \in loops, c \in over => c \in late,
           k.res # 0 /\ a[k.res].kind = "none" => c \in late,
           q.req = n, q.res = n, ~q.responseFinished, q.detached = k.detached,
           q.state = "HEADERS", q.buffer = Tail(SkipBlank(k.buffer)), Shuts(q, k)
    PROVE  OweInv(c, q, a, s, looping, calls, due, late)
<1>1. /\ n \in Ns(c) /\ n <= s.n /\ n # 0 /\ Untouched(a[n])
      /\ n # k.res /\ n \notin calls /\ n \notin due
      /\ \A m \in Ns(c) : ~Untouched(a[m]) => m < n
      /\ Before(n, q.buffer)
      /\ \A m \in Ns(c) : Before(m, k.buffer) => Before(m, q.buffer)
      /\ c \notin over => ~k.detached /\ (k.res = 0 \/ a[k.res].kind = "none")
  BY NextOwes
<1>2. k.sock \notin {"none", "closed"} /\ q.sock \notin {"none", "closed"}
  BY DEF OweInv, EndsInv, Shuts
<1>3. BehindInv(c, q, a, s, calls, due)
  BY <1>1, <1>2 DEF OweInv, BehindInv
<1>4. EndsInv(c, q, a, looping, calls)
  BY <1>2 DEF OweInv, EndsInv
<1>5. ASSUME c \notin late
      PROVE  c \notin over /\ k.res = 0 /\ ~k.detached /\ \A m \in Ns(c) : m # k.res
  BY <1>1, <1>5 DEF Ns
<1>6. ASSUME c \notin late PROVE ClosesInv(c, q, a, due)
  BY <1>1, <1>2, <1>5, <1>6 DEF OweInv, ClosesInv, Untouched
<1>7. ASSUME c \notin late PROVE IdleInv(c, q, a, s, looping)
  <2>1. IdleInv(c, k, a, s, loops)
    BY <1>5, <1>7 DEF OweInv
  <2>2. \A m \in Ns(c) : a[m].handed => a[m].ended
    BY <1>5, <1>7, <2>1 DEF IdleInv
  <2>3. s.n = n
    <3>1. ~(n < s.n)
      BY <1>1 DEF OweInv, BehindInv
    <3> QED BY <1>1, <3>1 DEF Ns
  <2> QED BY <1>5, <1>7, <2>2, <2>3 DEF IdleInv
<1> QED BY <1>3, <1>4, <1>6, <1>7 DEF OweInv

\* It is handed over.
LEMMA HandedOwes ==
    ASSUME NEW c \in Conns, NEW k \in ConnFields, NEW q, NEW a \in [Ns(c) -> AnswerFields], NEW b,
           NEW s \in [n : Nat, i : Nat], NEW loops, NEW calls, NEW more, NEW due, NEW over, NEW late,
           BufferInv(c, k, a, s), OweInv(c, k, a, s, loops, calls, due, over), HasHead(k.buffer),
           Ready(k), NEW n, n = Head(SkipBlank(k.buffer))[1],
           c \in loops, c \in over => c \in late,
           k.res # 0 /\ a[k.res].kind = "none" => c \in late,
           q.req = n, q.res = n, ~q.responseFinished, q.detached = k.detached,
           q.state = IF a[n].kind = "none" THEN "IDLE" ELSE "BODY",
           q.buffer = Tail(SkipBlank(k.buffer)), q.sock = k.sock,
           more = calls \cup {n}, SameElse(c, b, a, n),
           b[n].kind = a[n].kind, b[n].handed, b[n].ended = a[n].ended,
           b[n].aborted = a[n].aborted, b[n].closed = a[n].closed, b[n].eof = a[n].eof,
           b[n].complete <=> a[n].kind = "none"
    PROVE  OweInv(c, q, b, s, loops, more, due, late)
<1>1. /\ n \in Ns(c) /\ n <= s.n /\ n # 0 /\ Untouched(a[n])
      /\ n # k.res /\ n \notin calls /\ n \notin due
      /\ \A m \in Ns(c) : ~Untouched(a[m]) => m < n
      /\ Before(n, q.buffer)
      /\ \A m \in Ns(c) : Before(m, k.buffer) => Before(m, q.buffer)
      /\ c \notin over => ~k.detached /\ (k.res = 0 \/ a[k.res].kind = "none")
  BY NextOwes
<1>2. k.sock \notin {"none", "closed"} /\ q.sock \notin {"none", "closed"}
  BY DEF OweInv, EndsInv
<1>3. BehindInv(c, q, b, s, more, due)
  <2>1. ASSUME NEW m \in Ns(c), ~Untouched(b[m]) \/ m = q.res \/ m \in more \/ m \in due
        PROVE  m <= s.n /\ Before(m, q.buffer)
    <3>1. CASE m = n
      BY <1>1, <3>1
    <3>2. CASE m # n
      BY <1>1, <2>1, <3>2 DEF OweInv, BehindInv, SameElse
    <3> QED BY <3>1, <3>2
  <2>2. \A m \in Ns(c) : b[m].kind = a[m].kind
    BY DEF SameElse
  <2> QED BY <1>2, <2>1, <2>2 DEF OweInv, BehindInv
<1>4. EndsInv(c, q, b, loops, more)
  <2>1. ASSUME NEW m \in Ns(c)
        PROVE  /\ b[m].aborted => b[m].complete
               /\ ~b[m].complete => b[m].eof = 0
               /\ b[m].eof <= 1 \/ b[m].aborted
               /\ m \in more => b[m].handed
               /\ m \in more /\ b[m].kind = "none" => b[m].eof = 0 /\ b[m].complete
    <3>1. CASE m = n
      <4>1. ~b[n].aborted /\ b[n].eof = 0
        BY <1>1 DEF Untouched
      <4> QED BY <3>1, <4>1
    <3>2. CASE m # n
      BY <3>2 DEF OweInv, EndsInv, SameElse
    <3> QED BY <3>1, <3>2
  <2>2. q.state = "BODY" /\ q.res # 0 => b[q.res].kind # "none" /\ ~b[q.res].complete
    OBVIOUS
  <2> QED BY <1>2, <2>1, <2>2 DEF EndsInv
<1>5. ASSUME c \notin late
      PROVE  c \notin over /\ k.res = 0 /\ ~k.detached /\ \A m \in Ns(c) : m # k.res
  BY <1>1, <1>5 DEF Ns
<1>6. ASSUME c \notin late PROVE ClosesInv(c, q, b, due)
  <2>1. ASSUME NEW m \in Ns(c)
        PROVE  /\ m \in due => b[m].closed = 0 /\ q.res # m /\ b[m].ended
               /\ b[m].closed <= 1
               /\ b[m].closed # 0 /\ q.res = m => q.sock = "closed"
               /\ b[m].closed # 0 => b[m].ended \/ q.sock = "closed"
               /\ b[m].handed /\ ~q.detached =>
                    /\ m = q.res \/ b[m].complete
                    /\ m = q.res \/ m \in due \/ b[m].closed = 1
    <3>1. CASE m = n
      <4>1. b[n].closed = 0
        BY <1>1 DEF Untouched
      <4> QED BY <1>1, <3>1, <4>1
    <3>2. CASE m # n
      BY <1>5, <1>6, <3>2 DEF OweInv, ClosesInv, SameElse
    <3> QED BY <3>1, <3>2
  <2> QED BY <1>2, <2>1 DEF ClosesInv
<1>7. ASSUME c \notin late PROVE IdleInv(c, q, b, s, loops)
  <2>1. IdleInv(c, k, a, s, loops)
    BY <1>5, <1>7 DEF OweInv
  <2>2. \A m \in Ns(c) : a[m].handed => a[m].ended
    BY <1>5, <1>7, <2>1 DEF IdleInv
  <2>3. ASSUME NEW m \in Ns(c), b[m].handed PROVE m <= n
    <3>1. CASE m # n
      <4>1. m < n
        BY <1>1, <2>3, <3>1 DEF SameElse, Untouched
      <4> QED BY <1>1, <4>1 DEF Ns
    <3>2. CASE m = n
      BY <1>1, <3>2 DEF Ns
    <3> QED BY <3>1, <3>2
  <2>4. \A m \in Ns(c) : b[m].handed /\ ~b[m].ended => m = n
    BY <2>2 DEF SameElse
  <2> QED BY <1>5, <1>7, <2>3, <2>4 DEF IdleInv, Ready
<1> QED BY <1>3, <1>4, <1>6, <1>7 DEF OweInv

\* It asks for another protocol, and the socket is the program's or destroyed.
LEMMA DetachedOwes ==
    ASSUME NEW c \in Conns, NEW k \in ConnFields, NEW q, NEW a \in [Ns(c) -> AnswerFields], NEW b,
           NEW s \in [n : Nat, i : Nat], NEW loops, NEW looping, NEW calls, NEW due, NEW over,
           BufferInv(c, k, a, s), OweInv(c, k, a, s, loops, calls, due, over), HasHead(k.buffer),
           Ready(k), NEW n, n = Head(SkipBlank(k.buffer))[1], a[n].kind = "connect", c \in loops,
           q.req = 0, q.res = 0, q.detached, q.state = "HEADERS", q.buffer = <<>>, Shuts(q, k),
           SameElse(c, b, a, n),
           b[n].kind = a[n].kind, b[n].handed = a[n].handed, b[n].ended = a[n].ended,
           b[n].aborted = a[n].aborted, b[n].closed = a[n].closed, b[n].eof = a[n].eof,
           b[n].complete
    PROVE  OweInv(c, q, b, s, looping, calls, due, over)
<1>1. /\ n \in Ns(c) /\ n <= s.n /\ n # 0 /\ Untouched(a[n])
      /\ n # k.res /\ n \notin calls /\ n \notin due
      /\ \A m \in Ns(c) : ~Untouched(a[m]) => m < n
  BY NextOwes
<1>2. k.sock \notin {"none", "closed"} /\ q.sock \notin {"none", "closed"}
  BY DEF OweInv, EndsInv, Shuts
<1>3. Len(q.buffer) = 0 /\ \A m \in Ns(c) : m # 0
  BY DEF Ns
<1>4. BehindInv(c, q, b, s, calls, due)
  <2>1. \A m : Before(m, q.buffer)
    BY <1>3 DEF Before
  <2>2. ASSUME NEW m \in Ns(c), ~Untouched(b[m]) \/ m = q.res \/ m \in calls \/ m \in due
        PROVE  m <= s.n
    BY <1>1, <1>3, <2>2 DEF OweInv, BehindInv, SameElse
  <2>3. \A m \in Ns(c) : b[m].kind = a[m].kind
    BY DEF SameElse
  <2> QED BY <1>2, <2>1, <2>2, <2>3 DEF OweInv, BehindInv
<1>5. EndsInv(c, q, b, looping, calls)
  <2>1. ASSUME NEW m \in Ns(c)
        PROVE  /\ b[m].aborted => b[m].complete
               /\ ~b[m].complete => b[m].eof = 0
               /\ b[m].eof <= 1 \/ b[m].aborted
               /\ m \in calls => b[m].handed
               /\ m \in calls /\ b[m].kind = "none" => b[m].eof = 0 /\ b[m].complete
    <3>1. CASE m = n
      <4>1. b[n].eof = 0
        BY <1>1 DEF Untouched
      <4> QED BY <1>1, <3>1, <4>1
    <3>2. CASE m # n
      BY <3>2 DEF OweInv, EndsInv, SameElse
    <3> QED BY <3>1, <3>2
  <2> QED BY <1>2, <2>1 DEF EndsInv
<1>6. ASSUME c \notin over PROVE ClosesInv(c, q, b, due)
  <2>1. \A m \in Ns(c) : /\ b[m].handed = a[m].handed /\ b[m].ended = a[m].ended
                         /\ b[m].closed = a[m].closed
    BY DEF SameElse
  <2> QED BY <1>2, <1>3, <1>6, <2>1 DEF OweInv, ClosesInv
<1>7. ASSUME c \notin over PROVE IdleInv(c, q, b, s, looping)
  <2>1. \A m \in Ns(c) : /\ b[m].handed = a[m].handed /\ b[m].ended = a[m].ended
    BY DEF SameElse
  <2> QED BY <1>7, <2>1 DEF OweInv, IdleInv, Ready
<1> QED BY <1>4, <1>5, <1>6, <1>7 DEF OweInv

\* A client sends nothing behind a malformed request.
Going(c, s) == \A m \in Ns(c) : m < s.n => s.kinds[m] \in {"none", "length", "chunked"}

LEMMA OneMoreGoes ==
    ASSUME NEW c \in Conns, NEW s \in SentFields(c), s.n \in 0 .. Requests[c], s.n > 0 => s.i > 0,
           Going(c, s), NEW t \in OneMore(c, s)
    PROVE  Going(c, t)
<1> DEFINE kind == IF s.n = 0 THEN "none" ELSE s.kinds[s.n]
<1>1. /\ s.n <= t.n /\ s.n \in Nat /\ t.n \in Nat
      /\ \A m \in Ns(c) : m <= s.n => t.kinds[m] = s.kinds[m]
  BY OneMoreSends DEF SentFields
<1>2. t.n = s.n \/ (t.n = s.n + 1 /\ kind \in {"none", "length", "chunked"})
  <2>1. CASE s.n > 0 /\ s.i < Len(PartsOf(kind))
    <3>1. t = [s EXCEPT !.i = @ + 1, !.run = Append(@, <<s.n, PartsOf(kind)[s.i + 1]>>)]
      BY <2>1 DEF OneMore
    <3>2. t.n = s.n
      BY <3>1 DEF SentFields
    <3> QED BY <3>2
  <2>2. CASE ~(s.n > 0 /\ s.i < Len(PartsOf(kind)))
    <3>1. /\ kind \in {"none", "length", "chunked"}
          /\ t \in {[n |-> s.n + 1, i |-> 1, run |-> Append(s.run, <<s.n + 1, "head">>),
                     kinds |-> [s.kinds EXCEPT ![s.n + 1] = x]] : x \in Kinds}
      BY <2>2 DEF OneMore
    <3>2. PICK x \in Kinds :
            t = [n |-> s.n + 1, i |-> 1, run |-> Append(s.run, <<s.n + 1, "head">>),
                 kinds |-> [s.kinds EXCEPT ![s.n + 1] = x]]
      BY <3>1
    <3>3. t.n = s.n + 1
      BY <3>2
    <3> QED BY <3>1, <3>3
  <2> QED BY <2>1, <2>2
<1>3. ASSUME NEW m \in Ns(c), m < t.n PROVE t.kinds[m] \in {"none", "length", "chunked"}
  <2>1. m \in Nat /\ m # 0
    BY HttpServerAssumption DEF Ns
  <2>2. CASE m < s.n
    BY <1>1, <2>1, <2>2 DEF Going
  <2>3. CASE ~(m < s.n)
    <3>1. m = s.n /\ kind \in {"none", "length", "chunked"}
      <4> HIDE DEF kind
      <4> QED BY <1>1, <1>2, <1>3, <2>1, <2>3
    <3> QED BY <1>1, <2>1, <3>1
  <2> QED BY <2>2, <2>3
<1> QED BY <1>3 DEF Going

LEMMA ArrivalsGo ==
    ASSUME NEW c \in Conns, client[c] \in [n : Nat, i : Nat], answer[c] \in [Ns(c) -> AnswerFields],
           client[c].n \in 0 .. Requests[c], client[c].n > 0 => client[c].i > 0,
           \A m \in Ns(c) : m < client[c].n => answer[c][m].kind \in {"none", "length", "chunked"},
           NEW t \in Arrivals(c)
    PROVE  Going(c, t)
<1> DEFINE s == [n |-> client[c].n, i |-> client[c].i, run |-> <<>>,
                 kinds |-> [m \in Ns(c) |-> answer[c][m].kind]]
<1>1. s \in SentFields(c) /\ s.n = client[c].n /\ s.i = client[c].i /\ Going(c, s)
  <2>1. [m \in Ns(c) |-> answer[c][m].kind] \in [Ns(c) -> AllKinds]
    BY DEF AnswerFields
  <2>2. s \in SentFields(c)
    BY NoBuffer, <2>1 DEF SentFields
  <2> QED BY <2>2 DEF Going
<1>2. t \in OneMore(c, s) \/ \E u \in OneMore(c, s) : t \in OneMore(c, u)
  BY DEF Arrivals
<1> HIDE DEF s
<1>3. s.n \in 0 .. Requests[c] /\ (s.n > 0 => s.i > 0)
  BY <1>1
<1>4. ASSUME NEW u \in OneMore(c, s)
      PROVE  u \in SentFields(c) /\ u.n \in 0 .. Requests[c] /\ (u.n > 0 => u.i > 0) /\ Going(c, u)
  <2>1. u \in SentFields(c) /\ u.n \in 1 .. Requests[c] /\ u.i > 0
    BY <1>1, <1>3, OneMoreSends
  <2>2. Going(c, u)
    BY <1>1, <1>3, OneMoreGoes
  <2>3. Requests[c] \in Nat
    BY HttpServerAssumption
  <2> QED BY <2>1, <2>2, <2>3
<1>5. ASSUME NEW u \in OneMore(c, s), t \in OneMore(c, u) PROVE Going(c, t)
  BY <1>4, <1>5, OneMoreGoes
<1> QED BY <1>2, <1>4, <1>5

LEMMA RunBefore ==
    ASSUME NEW p \in Seq(Nat \X Parts), NEW run \in Seq(Nat \X Parts), NEW l \in Nat, NEW m \in Nat,
           RunInv(l, m, run), NEW n \in Nat, n <= l, Before(n, p)
    PROVE  Before(n, p \o run)
<1> DEFINE x == p \o run
<1>1. /\ Len(p) \in Nat /\ Len(run) \in Nat /\ Len(x) = Len(p) + Len(run)
      /\ \A i \in 1 .. Len(p) : x[i] = p[i]
      /\ \A i \in 1 .. Len(x) : i > Len(p) => x[i] = run[i - Len(p)]
      /\ \A i \in 1 .. Len(run) : run[i] \in Nat \X Parts
  OBVIOUS
<1> HIDE DEF x
<1>2. ASSUME NEW i \in 1 .. Len(x), x[i][2] = "head" PROVE n < x[i][1]
  <2>1. CASE i <= Len(p)
    <3>1. i \in 1 .. Len(p) /\ x[i] = p[i]
      BY <1>1, <2>1
    <3> QED BY <1>2, <3>1 DEF Before
  <2>2. CASE i > Len(p)
    <3>1. i - Len(p) \in 1 .. Len(run) /\ x[i] = run[i - Len(p)]
      BY <1>1, <2>2
    <3>2. l < x[i][1] /\ x[i][1] \in Nat
      BY <1>1, <1>2, <3>1 DEF RunInv
    <3> QED BY <3>2
  <2> QED BY <1>1, <2>1, <2>2
<1> QED BY <1>2 DEF Before, x

\* The pieces arrive.
LEMMA ArrivedOwes ==
    ASSUME NEW c \in Conns, NEW k \in ConnFields, NEW q, NEW a \in [Ns(c) -> AnswerFields], NEW b,
           NEW s \in [n : Nat, i : Nat], NEW u \in [n : Nat, i : Nat],
           NEW looping, NEW due, NEW over,
           BufferInv(c, k, a, s), OweInv(c, k, a, s, {}, {}, due, over),
           NEW run \in Seq(Nat \X Parts), s.n <= u.n, RunInv(s.n, u.n, run),
           \A m \in Ns(c) : m < u.n => b[m].kind \in {"none", "length", "chunked"},
           \A m \in Ns(c) : /\ m <= s.n => b[m].kind = a[m].kind
                            /\ b[m].handed = a[m].handed /\ b[m].ended = a[m].ended
                            /\ b[m].complete = a[m].complete /\ b[m].aborted = a[m].aborted
                            /\ b[m].eof = a[m].eof /\ b[m].closed = a[m].closed,
           k.sock \notin {"none", "closed"}, ~k.readableEnded,
           q.sock = k.sock, q.req = k.req, q.res = k.res, q.state = k.state,
           q.detached = k.detached, q.responseFinished = k.responseFinished,
           q.readableEnded = k.readableEnded,
           q.buffer = IF k.detached THEN k.buffer ELSE k.buffer \o run,
           ~k.detached => c \in looping
    PROVE  OweInv(c, q, b, u, looping, {}, due, over)
<1>1. k.buffer \in Seq(Nat \X Parts) /\ s.n \in Nat /\ u.n \in Nat
  BY DEF ConnFields
<1>2. k.res = 0 \/ (k.res \in Ns(c) /\ k.res <= s.n)
  BY CurrentIn
<1>3. BehindInv(c, q, b, u, {}, due)
  <2>1. ASSUME NEW n \in Ns(c), ~Untouched(b[n]) \/ n = q.res \/ n \in due
        PROVE  n <= u.n /\ Before(n, q.buffer)
    <3>1. n <= s.n /\ Before(n, k.buffer) /\ n \in Nat
      <4>1. ~Untouched(a[n]) \/ n = k.res \/ n \in due
        BY <2>1 DEF Untouched
      <4>2. n <= s.n /\ Before(n, k.buffer)
        BY <4>1 DEF OweInv, BehindInv
      <4> QED BY <4>2 DEF Ns
    <3>2. Before(n, k.buffer \o run)
      BY <1>1, <3>1, RunBefore
    <3> QED BY <1>1, <3>1, <3>2
  <2> QED BY <2>1 DEF OweInv, BehindInv
<1>4. EndsInv(c, q, b, looping, {})
  <2>1. q.state = "BODY" /\ q.res # 0 =>
            b[q.res].kind # "none" /\ ~(b[q.res].complete /\ ~b[q.res].aborted)
    BY <1>2 DEF OweInv, EndsInv
  <2> QED BY <2>1 DEF OweInv, EndsInv
<1>5. c \notin over => ClosesInv(c, q, b, due)
  BY <1>2 DEF OweInv, ClosesInv
<1>6. ASSUME c \notin over PROVE IdleInv(c, q, b, u, looping)
  <2>1. IdleInv(c, k, a, s, {})
    BY <1>6 DEF OweInv
  <2>2. ASSUME q.res # 0, Ready(q)
        PROVE  b[q.res].kind = "none" \/ (b[q.res].kind = "badBody" /\ u.n = q.res)
    <3>1. k.res \in Ns(c) /\ k.res <= s.n /\ b[k.res].kind = a[k.res].kind /\ Ready(k)
      BY <1>2, <2>2 DEF Ready
    <3>2. CASE a[k.res].kind = "badBody" /\ s.n = k.res
      <4>1. ~(s.n < u.n)
        BY <3>1, <3>2
      <4> QED BY <1>1, <3>1, <3>2, <4>1
    <3>3. CASE a[k.res].kind = "none"
      BY <3>1, <3>3
    <3> QED BY <2>1, <2>2, <3>1, <3>2, <3>3 DEF IdleInv
  <2>3. Open(q) /\ q.state = "IDLE" /\ (HasHead(q.buffer) \/ q.res # 0) => c \in looping
    BY <2>1 DEF IdleInv, HasHead, SkipBlank
  <2>4. k.detached => q.buffer = <<>>
    BY <2>1 DEF IdleInv
  <2> QED BY <1>2, <2>1, <2>2, <2>3, <2>4 DEF IdleInv, Ready
<1> QED BY <1>3, <1>4, <1>5, <1>6 DEF OweInv

\* A connection opens.
LEMMA OpenedOwes ==
    ASSUME NEW c \in Conns, NEW k, NEW a, NEW s, NEW calls, NEW due, NEW over,
           OweInv(c, k, a, s, {}, calls, due, over), k.sock = "none"
    PROVE  OweInv(c, [NewConn EXCEPT !.sock = "open"], a, s, {}, calls, due, over)
<1> DEFINE q == [NewConn EXCEPT !.sock = "open"]
<1>1. k = NewConn /\ \A n \in Ns(c) : Untouched(a[n])
  BY DEF OweInv, BehindInv
<1>2. /\ q.sock = "open" /\ q.req = 0 /\ q.res = 0 /\ q.state = "IDLE" /\ q.buffer = <<>>
      /\ ~q.detached
      /\ k.req = 0 /\ k.res = 0 /\ k.state = "IDLE" /\ k.buffer = <<>> /\ ~k.detached
  BY <1>1 DEF NewConn
<1> HIDE DEF q
<1>3. BehindInv(c, q, a, s, calls, due)
  BY <1>2 DEF OweInv, BehindInv
<1>4. EndsInv(c, q, a, {}, calls)
  BY <1>2 DEF OweInv, EndsInv
<1>5. c \notin over => ClosesInv(c, q, a, due)
  BY <1>1, <1>2 DEF OweInv, ClosesInv, Untouched
<1>6. c \notin over => IdleInv(c, q, a, s, {})
  <2>1. ~HasHead(q.buffer)
    BY <1>2 DEF HasHead, SkipBlank
  <2> QED BY <1>1, <1>2, <2>1 DEF IdleInv, Untouched
<1> QED BY <1>3, <1>4, <1>5, <1>6 DEF OweInv, q

\* The socket has closed, and the current request and response with it.
LEMMA ClosedOwes ==
    ASSUME NEW c \in Conns, NEW k \in ConnFields, NEW q, NEW a \in [Ns(c) -> AnswerFields], NEW b,
           NEW s, NEW due, NEW over, OweInv(c, k, a, s, {}, {}, due, over),
           k.sock = "destroyed", q.sock = "closed", SameParse(q, k), k.res = 0 \/ k.res \in Ns(c),
           SameElse(c, b, a, k.res),
           k.res \in Ns(c) =>
            /\ b[k.res].kind = a[k.res].kind /\ b[k.res].handed = a[k.res].handed
            /\ b[k.res].ended = a[k.res].ended
            /\ IF k.detached
               THEN /\ b[k.res].complete = a[k.res].complete /\ b[k.res].closed = a[k.res].closed
                    /\ b[k.res].aborted = a[k.res].aborted /\ b[k.res].eof = a[k.res].eof
               ELSE /\ b[k.res].closed = a[k.res].closed + 1
                    /\ a[k.res].aborted => b[k.res].aborted
                    /\ \/ b[k.res].complete = a[k.res].complete /\ b[k.res].eof = a[k.res].eof
                          /\ a[k.res].aborted
                       \/ /\ b[k.res].complete
                          /\ b[k.res].eof = IF a[k.res].complete THEN a[k.res].eof ELSE a[k.res].eof + 1
    PROVE  OweInv(c, q, b, s, {}, {}, due, over)
<1>1. /\ q.res = k.res /\ q.req = k.req /\ q.buffer = k.buffer /\ q.state = k.state
      /\ q.detached = k.detached /\ q.responseFinished = k.responseFinished
  BY DEF SameParse
<1>2. \A n \in Ns(c) : /\ b[n].kind = a[n].kind /\ b[n].handed = a[n].handed
                       /\ b[n].ended = a[n].ended
  BY DEF SameElse
<1>3. BehindInv(c, q, b, s, {}, due)
  BY <1>1, <1>2 DEF OweInv, BehindInv, SameElse
<1>4. k.res \in Ns(c) => /\ a[k.res].aborted => a[k.res].complete
                         /\ ~a[k.res].complete => a[k.res].eof = 0
                         /\ a[k.res].eof <= 1 \/ a[k.res].aborted
                         /\ a[k.res].eof \in Nat
  BY DEF OweInv, EndsInv, AnswerFields
<1>5. k.res \in Ns(c) => /\ b[k.res].aborted => b[k.res].complete
                         /\ ~b[k.res].complete => b[k.res].eof = 0
                         /\ b[k.res].eof <= 1 \/ b[k.res].aborted
                         /\ ~k.detached => b[k.res].complete
                         /\ a[k.res].complete => b[k.res].complete
  BY <1>4
<1>6. EndsInv(c, q, b, {}, {})
  <2>1. ASSUME NEW n \in Ns(c)
        PROVE  /\ b[n].aborted => b[n].complete
               /\ ~b[n].complete => b[n].eof = 0
               /\ b[n].eof <= 1 \/ b[n].aborted
    <3>1. CASE n = k.res
      BY <1>5, <3>1
    <3>2. CASE n # k.res
      BY <3>2 DEF OweInv, EndsInv, SameElse
    <3> QED BY <3>1, <3>2
  <2> QED BY <1>1, <1>2, <2>1 DEF OweInv, EndsInv
<1>7. ASSUME c \notin over PROVE ClosesInv(c, q, b, due)
  <2>1. ClosesInv(c, k, a, due)
    BY <1>7 DEF OweInv
  <2>2. ASSUME NEW n \in Ns(c)
        PROVE  /\ n \in due => b[n].closed = 0 /\ q.res # n /\ b[n].ended
               /\ b[n].closed <= 1
               /\ b[n].handed /\ ~q.detached =>
                    /\ n = q.res \/ b[n].complete
                    /\ n = q.res \/ n \in due \/ b[n].closed = 1
    <3>1. CASE n = k.res
      <4>1. a[n].closed = 0 /\ n \notin due
        BY <2>1, <3>1 DEF ClosesInv
      <4>2. b[n].closed <= 1
        BY <3>1, <4>1
      <4> QED BY <1>1, <3>1, <4>1, <4>2
    <3>2. CASE n # k.res
      BY <1>1, <2>1, <3>2 DEF ClosesInv, SameElse
    <3> QED BY <3>1, <3>2
  <2>3. ~q.detached /\ q.res # 0 => b[q.res].complete /\ b[q.res].closed = 1
    <3>1. k.res \in Ns(c) => a[k.res].closed = 0
      BY <2>1 DEF ClosesInv
    <3> QED BY <1>1, <1>5, <3>1
  <2> QED BY <2>2, <2>3 DEF ClosesInv
<1>8. ASSUME c \notin over PROVE IdleInv(c, q, b, s, {})
  <2>1. IdleInv(c, k, a, s, {}) /\ ~Open(q)
    BY <1>8 DEF OweInv, Open
  <2> QED BY <1>1, <1>2, <2>1 DEF IdleInv, Ready
<1> QED BY <1>3, <1>6, <1>7, <1>8 DEF OweInv

-----------------------------------------------------------------------------
(* The steps, for what is owed.                                              *)

\* What the invariant says of one connection.
LEMMA OweFacts ==
    ASSUME SettleInv, NEW c \in Conns
    PROVE  /\ Typed /\ conn[c] \in ConnFields /\ answer[c] \in [Ns(c) -> AnswerFields]
           /\ client[c] \in [n : Nat, i : Nat] /\ frames \in Seq(FrameFields)
           /\ BufferInv(c, conn[c], answer[c], client[c])
           /\ conn[c].res = 0 \/ conn[c].res \in Ns(c)
           /\ OweInv(c, conn[c], answer[c], client[c], LoopsOf(frames), CallsOf(c, frames),
                     Due(c, jobs), overrun)
<1>1. /\ Typed /\ conn[c] \in ConnFields /\ answer[c] \in [Ns(c) -> AnswerFields]
      /\ client[c] \in [n : Nat, i : Nat] /\ frames \in Seq(FrameFields)
      /\ BufferInv(c, conn[c], answer[c], client[c])
  BY DEF SettleInv, ServerInv, ConnInv, Typed
<1> QED BY <1>1, CurrentIn DEF SettleInv

\* What a step leaves of the other connections' frames, jobs and requests.
ElseStays(c) ==
    \A d \in Conns \ {c} :
        /\ conn'[d] = conn[d] /\ answer'[d] = answer[d] /\ client'[d] = client[d]
        /\ d \in LoopsOf(frames') <=> d \in LoopsOf(frames)
        /\ CallsOf(d, frames') = CallsOf(d, frames) /\ Due(d, jobs') = Due(d, jobs)
        /\ d \in overrun' <=> d \in overrun

LEMMA OneOwes ==
    ASSUME SettleInv, ServerInv', Distinct(frames'), JobsInv(jobs'), NEW c \in Conns, ElseStays(c),
           OweInv(c, conn'[c], answer'[c], client'[c], LoopsOf(frames'), CallsOf(c, frames'),
                  Due(c, jobs'), overrun')
    PROVE  SettleInv'
<1> SUFFICES ASSUME NEW d \in Conns \ {c}
             PROVE  OweInv(d, conn'[d], answer'[d], client'[d], LoopsOf(frames'),
                           CallsOf(d, frames'), Due(d, jobs'), overrun')
  BY DEF SettleInv
<1>1. OweInv(d, conn[d], answer[d], client[d], LoopsOf(frames), CallsOf(d, frames), Due(d, jobs),
             overrun)
  BY DEF SettleInv
<1>2. PICK k, a, s, l, m, u, v, o, p :
        /\ k = conn[d] /\ a = answer[d] /\ s = client[d] /\ l = LoopsOf(frames)
        /\ m = LoopsOf(frames') /\ u = CallsOf(d, frames) /\ v = Due(d, jobs)
        /\ o = overrun /\ p = overrun'
  OBVIOUS
<1>3. OweInv(d, k, a, s, l, u, v, o) /\ (d \in m <=> d \in l) /\ (d \in p <=> d \in o)
  BY <1>1, <1>2 DEF ElseStays
<1>4. OweInv(d, k, a, s, m, u, v, p)
  BY <1>3, OweSame
<1> QED BY <1>2, <1>4 DEF ElseStays

\* The updates that a shut socket and a moved parser are made of.
LEMMA ShutFields ==
    ASSUME NEW k \in ConnFields, NEW error \in BOOLEAN
    PROVE  /\ Shuts(Ended(k), k) /\ Ended(k).readableEnded = k.readableEnded
           /\ Shuts(Destroyed(k, error), k) /\ Destroyed(k, error).readableEnded = k.readableEnded
           /\ Shuts(AfterWrite(k), k) /\ AfterWrite(k).readableEnded = k.readableEnded
<1>1. /\ Shuts(Ended(k), k) /\ Ended(k).readableEnded = k.readableEnded
  BY DEF ConnFields, Ended, Shuts
<1>2. ASSUME NEW e \in BOOLEAN
      PROVE  Shuts(Destroyed(k, e), k) /\ Destroyed(k, e).readableEnded = k.readableEnded
  BY DEF ConnFields, Destroyed, Shuts
<1>3. Shuts(AfterWrite(k), k) /\ AfterWrite(k).readableEnded = k.readableEnded
  BY <1>2 DEF AfterWrite, Shuts
<1> QED BY <1>1, <1>2, <1>3

\* The same parser, with the same socket or one that is shut.
StaysAt(q, k) == SameParse(q, k) /\ Shuts(q, k) /\ q.readableEnded = k.readableEnded

LEMMA StaysAgain ==
    ASSUME NEW k, NEW q, NEW r, StaysAt(q, k), StaysAt(r, q)
    PROVE  StaysAt(r, k)
BY DEF StaysAt, SameParse, Shuts

LEMMA ShutStays ==
    ASSUME NEW k \in ConnFields, NEW error \in BOOLEAN
    PROVE  /\ Ended(k) \in ConnFields /\ StaysAt(Ended(k), k) /\ ~Open(Ended(k))
           /\ Destroyed(k, error) \in ConnFields /\ StaysAt(Destroyed(k, error), k)
           /\ ~Open(Destroyed(k, error))
           /\ AfterWrite(k) \in ConnFields /\ StaysAt(AfterWrite(k), k)
BY ShutFields, EndedFields, DestroyedFields, AfterWriteFields DEF StaysAt

LEMMA StaysOwe ==
    ASSUME NEW c, NEW k \in ConnFields, NEW q \in ConnFields, NEW a, NEW s, NEW loops, NEW calls,
           NEW due, NEW over, OweInv(c, k, a, s, loops, calls, due, over), StaysAt(q, k),
           k.sock # "none"
    PROVE  OweInv(c, q, a, s, loops, calls, due, over)
<1>1. k.buffer \in Seq(Nat \X Parts) /\ Later(k.buffer, k.buffer)
  BY LaterAtAll DEF ConnFields
<1>2. /\ q.req = k.req /\ q.res = k.res /\ q.detached = k.detached /\ q.buffer = k.buffer
      /\ q.responseFinished = k.responseFinished /\ q.state = k.state /\ Shuts(q, k)
      /\ q.readableEnded = k.readableEnded
  BY DEF StaysAt, SameParse
<1>3. Open(q) => Open(k)
  BY <1>2 DEF Shuts, Open
<1>4. c \in loops => k.sock # "closed"
  BY DEF OweInv, EndsInv
<1>5. Open(q) /\ q.state = "IDLE" /\ (HasHead(q.buffer) \/ q.res # 0) /\ c \notin over => c \in loops
  BY <1>2, <1>3 DEF OweInv, IdleInv
<1> QED BY <1>1, <1>2, <1>4, <1>5, StateOwes

\* The jobs.
CloseAlso(todo, c, r) == todo \cup {CloseOf(c, r)}
DueAlso(due, c, r) == due \cup ({r} \cap Ns(c))

LEMMA DueMore ==
    ASSUME NEW c \in Conns, NEW r, NEW todo, JobsInv(todo)
    PROVE  LET more == CloseAlso(todo, c, r)
           IN  /\ JobsInv(more) /\ Due(c, more) = DueAlso(Due(c, todo), c, r)
               /\ \A d \in Conns \ {c} : Due(d, more) = Due(d, todo)
<1>1. \A d, m : CloseOf(d, m) = CloseOf(c, r) => d = c /\ m = r
  BY DEF CloseOf
<1>2. CloseOf(c, r) = CloseOf(CloseOf(c, r).c, CloseOf(c, r).n)
  BY DEF CloseOf
<1> QED BY <1>1, <1>2 DEF Due, JobsInv, CloseAlso, DueAlso

CloseDone(todo, c, r) == todo \ {CloseOf(c, r)}
DueBut(due, r) == due \ {r}

LEMMA DueLess ==
    ASSUME NEW c, NEW r, NEW todo, JobsInv(todo)
    PROVE  LET less == CloseDone(todo, c, r)
           IN  /\ JobsInv(less) /\ Due(c, less) = DueBut(Due(c, todo), r)
               /\ \A d \in Conns \ {c} : Due(d, less) = Due(d, todo)
<1>1. \A d, m : CloseOf(d, m) = CloseOf(c, r) => d = c /\ m = r
  BY DEF CloseOf
<1> QED BY <1>1 DEF Due, JobsInv, CloseDone, DueBut

LEMMA DueIdle ==
    ASSUME NEW todo, JobsInv(todo)
    PROVE  LET idle == [what |-> "closeIdle"]
           IN  /\ JobsInv(todo \cup {idle}) /\ JobsInv(todo \ {idle})
               /\ \A d \in Conns : /\ Due(d, todo \cup {idle}) = Due(d, todo)
                                   /\ Due(d, todo \ {idle}) = Due(d, todo)
<1>1. \A d, m : CloseOf(d, m).what = "close"
  BY DEF CloseOf
<1>2. \A d, m : CloseOf(d, m) # [what |-> "closeIdle"]
  <2>1. [what |-> "closeIdle"].what = "closeIdle"
    OBVIOUS
  <2> QED BY <1>1, <2>1
<1> QED BY <1>2 DEF Due, JobsInv

\* The parse loop is left.
LEMMA LeftFrames ==
    ASSUME SettleInv, Top.at = "loop", NEW c \in Conns, c = Top.c
    PROVE  /\ c \in LoopsOf(frames) /\ LoopsOf(Tail(frames)) \subseteq LoopsOf(frames)
           /\ Distinct(Tail(frames))
           /\ \A d \in Conns : CallsOf(d, Tail(frames)) = CallsOf(d, frames)
           /\ \A d \in Conns \ {c} : d \in LoopsOf(Tail(frames)) <=> d \in LoopsOf(frames)
<1>1. Typed /\ Distinct(frames)
  BY DEF SettleInv, ServerInv
<1>2. frames # <<>> /\ frames \in Seq(FrameFields) /\ Top = Head(frames)
  BY <1>1, TopFrame DEF Typed, Top
<1> QED BY <1>1, <1>2, TailFrames

LEMMA TimerStays ==
    ASSUME NEW k \in ConnFields, NEW v \in BOOLEAN
    PROVE  LET q == [k EXCEPT !.timer = v]
           IN  q \in ConnFields /\ StaysAt(q, k) /\ q.sock = k.sock
BY DEF ConnFields, StaysAt, SameParse, Shuts

LEMMA LeftOwes ==
    ASSUME SettleInv, ServerInv', Top.at = "loop", NEW c \in Conns, c = Top.c,
           NEW p \in ConnFields, NEW b \in [Ns(c) -> AnswerFields], LeaveLoop(c, p),
           answer' = [answer EXCEPT ![c] = b], UNCHANGED <<jobs, client>>,
           overrun' = overrun \/ overrun' = overrun \cup {c}, p.sock # "none",
           OweInv(c, p, b, client[c], LoopsOf(Tail(frames)), CallsOf(c, frames), Due(c, jobs),
                  overrun')
    PROVE  SettleInv'
<1> DEFINE v == p.timer /\ ~(Top.data /\ p.res # 0 /\ ~p.responseFinished)
           q == [p EXCEPT !.timer = v]
<1>1. v \in BOOLEAN
  BY DEF ConnFields
<1>2. conn' = [conn EXCEPT ![c] = q] /\ frames' = Tail(frames)
  BY DEF LeaveLoop
<1> HIDE DEF v
<1>3. q \in ConnFields /\ StaysAt(q, p)
  BY <1>1, TimerStays
<1> HIDE DEF q
<1>4. OweInv(c, q, b, client[c], LoopsOf(Tail(frames)), CallsOf(c, frames), Due(c, jobs), overrun')
  <2>1. PICK s, l, u, v0, o : /\ s = client[c] /\ l = LoopsOf(Tail(frames))
                              /\ u = CallsOf(c, frames) /\ v0 = Due(c, jobs) /\ o = overrun'
    OBVIOUS
  <2>2. OweInv(c, p, b, s, l, u, v0, o)
    BY <2>1
  <2>3. OweInv(c, q, b, s, l, u, v0, o)
    BY <1>3, <2>2, StaysOwe
  <2> QED BY <2>1, <2>3
<1>5. /\ Distinct(frames') /\ \A d \in Conns : CallsOf(d, frames') = CallsOf(d, frames)
      /\ \A d \in Conns \ {c} : d \in LoopsOf(frames') <=> d \in LoopsOf(frames)
  BY <1>2, LeftFrames
<1>6. /\ conn'[c] = q /\ answer'[c] = b
      /\ \A d \in Conns \ {c} : conn'[d] = conn[d] /\ answer'[d] = answer[d]
  <2>1. Typed
    BY OweFacts
  <2> QED BY <1>2, <2>1 DEF Typed
<1>7. ElseStays(c)
  BY <1>5, <1>6 DEF ElseStays
<1>8. JobsInv(jobs') /\ client'[c] = client[c] /\ CallsOf(c, frames') = CallsOf(c, frames)
  BY <1>5 DEF SettleInv
<1>9. OweInv(c, conn'[c], answer'[c], client'[c], LoopsOf(frames'), CallsOf(c, frames'),
             Due(c, jobs'), overrun')
  BY <1>2, <1>4, <1>6, <1>8
<1> QED BY <1>5, <1>7, <1>8, <1>9, OneOwes

\* The parser goes on to p in the same request, and the loop is left.
LEMMA GoneOnOwes ==
    ASSUME SettleInv, ServerInv', Top.at = "loop", NEW c \in Conns, c = Top.c,
           NEW p \in ConnFields, LeaveLoop(c, p), UNCHANGED <<answer, jobs, client, overrun>>,
           p.req = conn[c].req, p.res = conn[c].res, p.detached = conn[c].detached,
           p.responseFinished = conn[c].responseFinished, p.readableEnded = conn[c].readableEnded,
           Later(p.buffer, conn[c].buffer), Shuts(p, conn[c]),
           p.state = conn[c].state \/ (Ready(conn[c]) /\ p.state = "HEADERS"),
           ~Open(p) \/ p.state # "IDLE"
    PROVE  SettleInv'
<1>1. /\ Typed /\ conn[c] \in ConnFields /\ answer[c] \in [Ns(c) -> AnswerFields]
      /\ OweInv(c, conn[c], answer[c], client[c], LoopsOf(frames), CallsOf(c, frames),
                Due(c, jobs), overrun)
  BY OweFacts
<1>2. c \in LoopsOf(frames) /\ LoopsOf(Tail(frames)) \subseteq LoopsOf(frames)
  BY LeftFrames
<1>3. PICK k, a, s, l, m, u, v, o :
        /\ k = conn[c] /\ a = answer[c] /\ s = client[c] /\ l = LoopsOf(frames)
        /\ m = LoopsOf(Tail(frames)) /\ u = CallsOf(c, frames) /\ v = Due(c, jobs) /\ o = overrun
  OBVIOUS
<1>4. OweInv(c, k, a, s, l, u, v, o) /\ k \in ConnFields /\ c \in l /\ (c \in m => c \in l)
  BY <1>1, <1>2, <1>3
<1>5. k.sock \notin {"none", "closed"}
  BY <1>4 DEF OweInv, EndsInv
<1>6. /\ p.req = k.req /\ p.res = k.res /\ p.detached = k.detached
      /\ p.responseFinished = k.responseFinished /\ (k.readableEnded => p.readableEnded)
      /\ Later(p.buffer, k.buffer) /\ Shuts(p, k)
      /\ p.state = k.state \/ (Ready(k) /\ p.state = "HEADERS")
  BY <1>3
<1>7. OweInv(c, p, a, s, m, u, v, o)
  BY <1>4, <1>5, <1>6, StateOwes
<1>8. OweInv(c, p, answer[c], client[c], LoopsOf(Tail(frames)), CallsOf(c, frames), Due(c, jobs),
             overrun')
  BY <1>3, <1>7
<1>9. p.sock # "none"
  BY <1>5, <1>6 DEF Shuts
<1>10. answer' = [answer EXCEPT ![c] = answer[c]]
  BY <1>1 DEF Typed
<1> QED BY <1>1, <1>8, <1>9, <1>10, LeftOwes

\* Nothing to do, or no head yet.
LEMMA WaitOwes ==
    ASSUME SettleInv, ServerInv', Top.at = "loop", NEW c \in Conns, c = Top.c,
           conn[c].state \in {"BODY", "AWAITING_RESPONSE"}, LeaveLoop(c, conn[c]),
           UNCHANGED <<answer, jobs, client, overrun>>
    PROVE  SettleInv'
<1>1. conn[c] \in ConnFields
  BY OweFacts
<1>2. Later(conn[c].buffer, conn[c].buffer) /\ Shuts(conn[c], conn[c])
  BY <1>1, LaterAtAll DEF ConnFields, Shuts
<1> QED BY <1>1, <1>2, GoneOnOwes

LEMMA NoHeadOwes ==
    ASSUME SettleInv, ServerInv', Top.at = "loop", NEW c \in Conns, c = Top.c, Ready(conn[c]),
           NoHead(c), UNCHANGED client
    PROVE  SettleInv'
<1> DEFINE p == [conn[c] EXCEPT !.state = "HEADERS"]
<1>1. conn[c] \in ConnFields
  BY OweFacts
<1>2. /\ p \in ConnFields /\ p.sock = conn[c].sock /\ p.buffer = conn[c].buffer
      /\ p.req = conn[c].req /\ p.res = conn[c].res /\ p.state = "HEADERS"
      /\ p.responseFinished = conn[c].responseFinished /\ p.detached = conn[c].detached
      /\ p.readableEnded = conn[c].readableEnded
  BY <1>1 DEF ConnFields
<1>3. LeaveLoop(c, p) /\ UNCHANGED <<answer, jobs, overrun>>
  BY DEF NoHead
<1> HIDE DEF p
<1>4. Later(p.buffer, conn[c].buffer) /\ Shuts(p, conn[c])
  BY <1>1, <1>2, LaterAtAll DEF ConnFields, Shuts
<1> QED BY <1>2, <1>3, <1>4, GoneOnOwes

\* An error response from the state k of the parser, in the same request.
LEMMA RefusedOwes ==
    ASSUME SettleInv, ServerInv', Top.at = "loop", NEW c \in Conns, c = Top.c, NEW k \in ConnFields,
           Refuse(c, k), UNCHANGED <<client, overrun>>,
           k.req = conn[c].req, k.res = conn[c].res, k.detached = conn[c].detached,
           k.responseFinished = conn[c].responseFinished, k.readableEnded = conn[c].readableEnded,
           Later(k.buffer, conn[c].buffer), k.sock = conn[c].sock,
           k.state = conn[c].state \/ (Ready(conn[c]) /\ k.state = "HEADERS")
    PROVE  SettleInv'
<1> DEFINE p == Ended(AfterWrite(k))
<1>1. AfterWrite(k) \in ConnFields /\ StaysAt(AfterWrite(k), k)
  BY ShutStays
<1>2. p \in ConnFields /\ StaysAt(p, AfterWrite(k)) /\ ~Open(p)
  BY <1>1, ShutStays
<1>3. StaysAt(p, k)
  BY <1>1, <1>2, StaysAgain
<1>4. LeaveLoop(c, p) /\ UNCHANGED <<answer, jobs>>
  BY DEF Refuse
<1> HIDE DEF p
<1>5. /\ p.req = conn[c].req /\ p.res = conn[c].res /\ p.detached = conn[c].detached
      /\ p.responseFinished = conn[c].responseFinished /\ p.readableEnded = conn[c].readableEnded
      /\ Later(p.buffer, conn[c].buffer) /\ Shuts(p, conn[c])
      /\ p.state = conn[c].state \/ (Ready(conn[c]) /\ p.state = "HEADERS")
  BY <1>3 DEF StaysAt, SameParse, Shuts
<1> QED BY <1>2, <1>4, <1>5, GoneOnOwes

\* What taking the head leaves.
LEMMA HeadTakenRest ==
    ASSUME NEW k \in ConnFields, NEW m \in Nat
    PROVE  /\ HeadTaken(k).readableEnded = k.readableEnded /\ HeadTaken(k).state = "HEADERS"
           /\ [k EXCEPT !.requestsServed = m].readableEnded = k.readableEnded
BY DEF ConnFields, HeadTaken

LEMMA RefuseHeadOwes ==
    ASSUME SettleInv, ServerInv', Top.at = "loop", NEW c \in Conns, c = Top.c, Ready(conn[c]),
           HasHead(conn[c].buffer),
           RefuseHead(c, Head(SkipBlank(conn[c].buffer))[1], HeadTaken(conn[c])), UNCHANGED client
    PROVE  SettleInv'
<1> DEFINE n == Head(SkipBlank(conn[c].buffer))[1]
           k == HeadTaken(conn[c])
           m == k.requestsServed + 1
           served == [k EXCEPT !.requestsServed = m]
<1>1. /\ Typed /\ conn[c] \in ConnFields /\ answer[c] \in [Ns(c) -> AnswerFields]
      /\ client[c] \in [n : Nat, i : Nat]
      /\ BufferInv(c, conn[c], answer[c], client[c])
      /\ OweInv(c, conn[c], answer[c], client[c], LoopsOf(frames), CallsOf(c, frames),
                Due(c, jobs), overrun)
  BY OweFacts
<1>2. /\ k \in ConnFields /\ k.sock = conn[c].sock /\ Later(k.buffer, conn[c].buffer)
      /\ k.buffer = Tail(SkipBlank(conn[c].buffer))
      /\ k.req = conn[c].req /\ k.res = conn[c].res /\ k.detached = conn[c].detached
      /\ k.responseFinished = conn[c].responseFinished /\ n \in Ns(c)
  BY <1>1, HeadTakenFields
<1>3. k.readableEnded = conn[c].readableEnded /\ k.state = "HEADERS"
  BY <1>1, HeadTakenRest
<1>4. \/ Refuse(c, k) /\ overrun' = overrun
      \/ Refuse(c, served) /\ overrun' = overrun
      \/ /\ answer[c][n].kind = "badBody" /\ Refuse(c, Taken(served, n))
         /\ overrun' = IF k.res # 0 /\ answer[c][k.res].kind = "none"
                       THEN overrun \cup {c} ELSE overrun
  BY DEF RefuseHead, Overrun
<1>5. m \in Nat /\ n \in Nat /\ n = Head(SkipBlank(conn[c].buffer))[1]
  BY <1>2 DEF ConnFields, Ns
<1> HIDE DEF n, k, m
<1>6. /\ served \in ConnFields /\ SameParse(served, k) /\ served.sock = k.sock
      /\ served.readableEnded = k.readableEnded
  BY <1>2, <1>5, ServedFields, HeadTakenRest
<1> HIDE DEF served
<1>7. CASE Refuse(c, k) /\ overrun' = overrun
  BY <1>2, <1>3, <1>7, RefusedOwes
<1>8. CASE Refuse(c, served) /\ overrun' = overrun
  <2>1. /\ served.req = conn[c].req /\ served.res = conn[c].res
        /\ served.detached = conn[c].detached /\ served.sock = conn[c].sock
        /\ served.responseFinished = conn[c].responseFinished
        /\ served.readableEnded = conn[c].readableEnded
        /\ Later(served.buffer, conn[c].buffer) /\ served.state = "HEADERS"
    BY <1>2, <1>3, <1>6 DEF SameParse
  <2> QED BY <1>6, <1>8, <2>1, RefusedOwes
<1>9. CASE /\ answer[c][n].kind = "badBody" /\ Refuse(c, Taken(served, n))
           /\ overrun' = IF k.res # 0 /\ answer[c][k.res].kind = "none"
                         THEN overrun \cup {c} ELSE overrun
  <2>1. PICK q \in ConnFields :
          /\ q = Taken(served, n) /\ q.sock = served.sock /\ q.buffer = served.buffer
          /\ q.req = n /\ q.res = n /\ q.state = served.state /\ ~q.responseFinished
          /\ q.detached = served.detached
    BY <1>5, <1>6, TakenFields
  <2> DEFINE p == Ended(AfterWrite(q))
  <2>2. AfterWrite(q) \in ConnFields /\ StaysAt(AfterWrite(q), q)
    BY ShutStays
  <2>3. p \in ConnFields /\ StaysAt(p, AfterWrite(q))
    BY <2>2, ShutStays
  <2>4. StaysAt(p, q)
    BY <2>2, <2>3, StaysAgain
  <2>5. LeaveLoop(c, p) /\ UNCHANGED <<answer, jobs>>
    BY <1>9, <2>1 DEF Refuse
  <2> HIDE DEF p
  <2>6. /\ p.req = n /\ p.res = n /\ ~p.responseFinished /\ p.detached = conn[c].detached
        /\ p.state = "HEADERS" /\ p.buffer = Tail(SkipBlank(conn[c].buffer))
        /\ Shuts(p, conn[c])
    BY <1>2, <1>3, <1>6, <2>1, <2>4 DEF StaysAt, SameParse, Shuts
  <2>7. PICK k0, a0, s0, l, r, u, v, o, late :
            /\ k0 = conn[c] /\ a0 = answer[c] /\ s0 = client[c] /\ l = LoopsOf(frames)
            /\ r = LoopsOf(Tail(frames)) /\ u = CallsOf(c, frames) /\ v = Due(c, jobs)
            /\ o = overrun /\ late = overrun'
    OBVIOUS
  <2>8. /\ k0 \in ConnFields /\ a0 \in [Ns(c) -> AnswerFields] /\ s0 \in [n : Nat, i : Nat]
        /\ BufferInv(c, k0, a0, s0) /\ OweInv(c, k0, a0, s0, l, u, v, o)
        /\ HasHead(k0.buffer) /\ Ready(k0) /\ n = Head(SkipBlank(k0.buffer))[1]
        /\ a0[n].kind = "badBody"
    BY <1>1, <1>5, <1>9, <2>7
  <2>9. /\ c \in l /\ (c \in o => c \in late)
        /\ k0.res # 0 /\ a0[k0.res].kind = "none" => c \in late
    BY <1>2, <1>9, <2>7, LeftFrames
  <2>10. /\ p.detached = k0.detached /\ p.buffer = Tail(SkipBlank(k0.buffer)) /\ Shuts(p, k0)
    BY <2>6, <2>7
  <2>11. OweInv(c, p, a0, s0, r, u, v, late)
    BY <2>6, <2>8, <2>9, <2>10, TakenOwes
  <2>12. OweInv(c, p, answer[c], client[c], LoopsOf(Tail(frames)), CallsOf(c, frames),
                Due(c, jobs), overrun')
    BY <2>7, <2>11
  <2>13. p.sock # "none"
    BY <2>8, <2>9, <2>10 DEF Shuts, OweInv, EndsInv
  <2>14. answer' = [answer EXCEPT ![c] = answer[c]]
    BY <1>1, <2>5, WholeState
  <2>15. overrun' = overrun \/ overrun' = overrun \cup {c}
    BY <1>9
  <2> QED BY <1>1, <2>3, <2>5, <2>12, <2>13, <2>14, <2>15, LeftOwes
<1> QED BY <1>4, <1>7, <1>8, <1>9

\* What completing a request leaves of its answer.
LEMMA CompletedFields ==
    ASSUME NEW c, NEW a \in [Ns(c) -> AnswerFields], NEW n \in Ns(c)
    PROVE  LET b == [a EXCEPT ![n].complete = TRUE]
           IN  /\ b \in [Ns(c) -> AnswerFields] /\ SameElse(c, b, a, n)
               /\ b[n].kind = a[n].kind /\ b[n].handed = a[n].handed /\ b[n].ended = a[n].ended
               /\ b[n].aborted = a[n].aborted /\ b[n].closed = a[n].closed
               /\ b[n].eof = a[n].eof /\ b[n].complete
<1> DEFINE y == [a[n] EXCEPT !.complete = TRUE]
<1>1. /\ y \in AnswerFields /\ y.kind = a[n].kind /\ y.handed = a[n].handed
      /\ y.ended = a[n].ended /\ y.aborted = a[n].aborted /\ y.closed = a[n].closed
      /\ y.eof = a[n].eof /\ y.complete
  BY DEF AnswerFields
<1> DEFINE b == [a EXCEPT ![n] = y]
<1>2. b = [a EXCEPT ![n].complete = TRUE]
  OBVIOUS
<1> HIDE DEF y
<1>3. b \in [Ns(c) -> AnswerFields] /\ b[n] = y /\ SameElse(c, b, a, n)
  BY <1>1 DEF SameElse
<1> HIDE DEF b
<1> QED BY <1>1, <1>2, <1>3

LEMMA DetachOwes ==
    ASSUME SettleInv, ServerInv', Top.at = "loop", NEW c \in Conns, c = Top.c, Ready(conn[c]),
           HasHead(conn[c].buffer),
           Detach(c, Head(SkipBlank(conn[c].buffer))[1], HeadTaken(conn[c])), UNCHANGED client
    PROVE  SettleInv'
<1> DEFINE n == Head(SkipBlank(conn[c].buffer))[1]
           k == HeadTaken(conn[c])
           gone == [k EXCEPT !.detached = TRUE, !.req = 0, !.res = 0, !.buffer = <<>>]
           b == [answer[c] EXCEPT ![n].complete = TRUE]
           shut == Destroyed(AfterWrite(gone), FALSE)
<1>1. /\ Typed /\ conn[c] \in ConnFields /\ answer[c] \in [Ns(c) -> AnswerFields]
      /\ client[c] \in [n : Nat, i : Nat]
      /\ BufferInv(c, conn[c], answer[c], client[c])
      /\ OweInv(c, conn[c], answer[c], client[c], LoopsOf(frames), CallsOf(c, frames),
                Due(c, jobs), overrun)
  BY OweFacts
<1>2. k \in ConnFields /\ k.sock = conn[c].sock /\ n \in Ns(c) /\ k.state = "HEADERS"
  BY <1>1, HeadTakenFields, HeadTakenRest
<1>3. /\ answer' = [answer EXCEPT ![c] = b] /\ answer[c][n].kind = "connect"
      /\ LeaveLoop(c, gone) \/ LeaveLoop(c, shut)
      /\ UNCHANGED <<jobs, overrun>>
  <2>1. answer' = [answer EXCEPT ![c][n].complete = TRUE]
    BY DEF Detach
  <2>2. answer' = [answer EXCEPT ![c] = b]
    BY <2>1
  <2> QED BY <2>2 DEF Detach
<1>4. /\ b \in [Ns(c) -> AnswerFields] /\ SameElse(c, b, answer[c], n)
      /\ b[n].kind = answer[c][n].kind /\ b[n].handed = answer[c][n].handed
      /\ b[n].ended = answer[c][n].ended /\ b[n].aborted = answer[c][n].aborted
      /\ b[n].closed = answer[c][n].closed /\ b[n].eof = answer[c][n].eof /\ b[n].complete
  <2> HIDE DEF n
  <2> QED BY <1>1, <1>2, CompletedFields
<1>5. n = Head(SkipBlank(conn[c].buffer))[1]
  OBVIOUS
<1> HIDE DEF n, k, b
<1>6. /\ gone \in ConnFields /\ gone.sock = k.sock /\ gone.buffer = <<>>
      /\ gone.req = 0 /\ gone.res = 0 /\ gone.detached /\ gone.state = "HEADERS"
  <2>1. gone.state = k.state
    BY <1>2 DEF ConnFields
  <2> QED BY <1>2, <2>1, DetachedFields
<1> HIDE DEF gone
<1>7. AfterWrite(gone) \in ConnFields /\ StaysAt(AfterWrite(gone), gone)
  BY <1>6, ShutStays
<1>8. shut \in ConnFields /\ StaysAt(shut, AfterWrite(gone))
  BY <1>7, ShutStays
<1>9. StaysAt(shut, gone) /\ StaysAt(gone, gone)
  BY <1>7, <1>8, StaysAgain DEF StaysAt, SameParse, Shuts
<1> HIDE DEF shut
<1>10. PICK p \in ConnFields : LeaveLoop(c, p) /\ StaysAt(p, gone)
  BY <1>3, <1>6, <1>8, <1>9
<1>11. /\ p.req = 0 /\ p.res = 0 /\ p.detached /\ p.state = "HEADERS" /\ p.buffer = <<>>
       /\ Shuts(p, conn[c])
  BY <1>2, <1>6, <1>10 DEF StaysAt, SameParse, Shuts
<1>12. PICK k0, a0, s0, l, r, u, v, o, b0 :
            /\ k0 = conn[c] /\ a0 = answer[c] /\ s0 = client[c] /\ l = LoopsOf(frames)
            /\ r = LoopsOf(Tail(frames)) /\ u = CallsOf(c, frames) /\ v = Due(c, jobs)
            /\ o = overrun /\ b0 = b
  OBVIOUS
<1>13. /\ k0 \in ConnFields /\ a0 \in [Ns(c) -> AnswerFields] /\ s0 \in [n : Nat, i : Nat]
       /\ BufferInv(c, k0, a0, s0) /\ OweInv(c, k0, a0, s0, l, u, v, o)
       /\ HasHead(k0.buffer) /\ Ready(k0) /\ n = Head(SkipBlank(k0.buffer))[1]
       /\ a0[n].kind = "connect" /\ Shuts(p, k0)
  BY <1>1, <1>3, <1>5, <1>11, <1>12
<1>14. /\ SameElse(c, b0, a0, n)
       /\ b0[n].kind = a0[n].kind /\ b0[n].handed = a0[n].handed /\ b0[n].ended = a0[n].ended
       /\ b0[n].aborted = a0[n].aborted /\ b0[n].closed = a0[n].closed
       /\ b0[n].eof = a0[n].eof /\ b0[n].complete
  BY <1>4, <1>12
<1>15. c \in l
  BY <1>12, LeftFrames
<1>16. OweInv(c, p, b0, s0, r, u, v, o)
  BY <1>11, <1>13, <1>14, <1>15, DetachedOwes
<1>17. OweInv(c, p, b, client[c], LoopsOf(Tail(frames)), CallsOf(c, frames), Due(c, jobs),
              overrun')
  BY <1>3, <1>12, <1>16
<1>18. p.sock # "none"
  BY <1>13, <1>15 DEF Shuts, OweInv, EndsInv
<1> QED BY <1>3, <1>4, <1>10, <1>17, <1>18, LeftOwes

\* One connection goes on, with its answers.
LEMMA OneGoesOwes ==
    ASSUME SettleInv, ServerInv', NEW c \in Conns, NEW q, NEW b,
           conn' = [conn EXCEPT ![c] = q], answer' = [answer EXCEPT ![c] = b], UNCHANGED client,
           overrun' = overrun \/ overrun' = overrun \cup {c}, Distinct(frames'), JobsInv(jobs'),
           \A d \in Conns \ {c} :
                /\ d \in LoopsOf(frames') <=> d \in LoopsOf(frames)
                /\ CallsOf(d, frames') = CallsOf(d, frames) /\ Due(d, jobs') = Due(d, jobs),
           OweInv(c, q, b, client[c], LoopsOf(frames'), CallsOf(c, frames'), Due(c, jobs'), overrun')
    PROVE  SettleInv'
<1>1. Typed
  BY OweFacts
<1>2. /\ conn'[c] = q /\ answer'[c] = b /\ client'[c] = client[c]
      /\ \A d \in Conns \ {c} : conn'[d] = conn[d] /\ answer'[d] = answer[d]
  BY <1>1 DEF Typed
<1>3. ElseStays(c)
  BY <1>2 DEF ElseStays
<1>4. OweInv(c, conn'[c], answer'[c], client'[c], LoopsOf(frames'), CallsOf(c, frames'),
             Due(c, jobs'), overrun')
  BY <1>2
<1> QED BY <1>3, <1>4, OneOwes

\* The answer x handed over.
HandedOn(x, v, done) == [x EXCEPT !.handed = TRUE, !.keepAlive = v, !.complete = done]

LEMMA HandedRest ==
    ASSUME NEW x \in AnswerFields, NEW v \in BOOLEAN, NEW done \in BOOLEAN
    PROVE  LET y == HandedOn(x, v, done)
           IN  /\ y \in AnswerFields /\ y.handed /\ y.ended = x.ended /\ y.kind = x.kind
               /\ y.aborted = x.aborted /\ y.closed = x.closed /\ y.eof = x.eof
               /\ (y.complete <=> done)
BY DEF AnswerFields, HandedOn

LEMMA HandOverOwes ==
    ASSUME SettleInv, ServerInv', Top.at = "loop", NEW c \in Conns, c = Top.c, Ready(conn[c]),
           HasHead(conn[c].buffer),
           HandOver(c, Head(SkipBlank(conn[c].buffer))[1], HeadTaken(conn[c])), UNCHANGED client
    PROVE  SettleInv'
<1> DEFINE n == Head(SkipBlank(conn[c].buffer))[1]
           k == HeadTaken(conn[c])
           kind == answer[c][n].kind
           taken == Taken(k, n)
           m == taken.requestsServed + 1
           state == IF kind = "none" THEN "IDLE" ELSE "BODY"
           q == [taken EXCEPT !.requestsServed = m, !.state = state]
           frame == [at |-> "request", c |-> c, n |-> n, data |-> FALSE]
<1>1. /\ Typed /\ conn[c] \in ConnFields /\ answer[c] \in [Ns(c) -> AnswerFields]
      /\ client[c] \in [n : Nat, i : Nat] /\ frames \in Seq(FrameFields)
      /\ BufferInv(c, conn[c], answer[c], client[c])
      /\ OweInv(c, conn[c], answer[c], client[c], LoopsOf(frames), CallsOf(c, frames),
                Due(c, jobs), overrun)
  BY OweFacts
<1>2. /\ k \in ConnFields /\ k.sock = conn[c].sock
      /\ k.buffer = Tail(SkipBlank(conn[c].buffer)) /\ k.res = conn[c].res
      /\ k.detached = conn[c].detached /\ n \in Ns(c) /\ n \in Nat
  <2>1. /\ k \in ConnFields /\ k.sock = conn[c].sock
        /\ k.buffer = Tail(SkipBlank(conn[c].buffer)) /\ k.res = conn[c].res
        /\ k.detached = conn[c].detached /\ n \in Ns(c)
    BY <1>1, HeadTakenFields
  <2> HIDE DEF k, n
  <2> QED BY <2>1 DEF Ns
<1>3. PICK v \in BOOLEAN :
        answer' = [answer EXCEPT ![c][n] = [@ EXCEPT !.handed = TRUE, !.keepAlive = v,
                                                     !.complete = (kind = "none")]]
  BY DEF HandOver
<1>4. /\ conn' = [conn EXCEPT ![c] = q] /\ frames' = <<frame>> \o frames
      /\ overrun' = IF k.res # 0 /\ answer[c][k.res].kind = "none"
                    THEN overrun \cup {c} ELSE overrun
      /\ jobs' = jobs
  BY DEF HandOver, Overrun
<1>5. n = Head(SkipBlank(conn[c].buffer))[1] /\ state \in {"IDLE", "BODY"}
      /\ state = IF answer[c][n].kind = "none" THEN "IDLE" ELSE "BODY"
  OBVIOUS
<1> DEFINE y == [answer[c][n] EXCEPT !.handed = TRUE, !.keepAlive = v, !.complete = (kind = "none")]
           b == [answer[c] EXCEPT ![n] = y]
<1>6. answer' = [answer EXCEPT ![c] = b]
  BY <1>3
<1>7. /\ y \in AnswerFields /\ y.handed /\ y.ended = answer[c][n].ended
      /\ y.kind = answer[c][n].kind
      /\ y.aborted = answer[c][n].aborted /\ y.closed = answer[c][n].closed
      /\ y.eof = answer[c][n].eof /\ (y.complete <=> answer[c][n].kind = "none")
  <2>1. answer[c][n] \in AnswerFields /\ (kind = "none") \in BOOLEAN
    BY <1>1, <1>2
  <2>2. PICK done \in BOOLEAN : done = (kind = "none")
    BY <2>1
  <2>3. y = HandedOn(answer[c][n], v, done)
    BY <2>2 DEF HandedOn
  <2>4. PICK x \in AnswerFields : x = answer[c][n]
    BY <2>1
  <2>5. y = HandedOn(x, v, done)
    BY <2>3, <2>4
  <2> HIDE DEF y
  <2>6. /\ y \in AnswerFields /\ y.handed /\ y.ended = x.ended /\ y.kind = x.kind
        /\ y.aborted = x.aborted /\ y.closed = x.closed /\ y.eof = x.eof
        /\ (y.complete <=> done)
    BY <2>5, HandedRest
  <2>7. done <=> answer[c][n].kind = "none"
    BY <2>2
  <2> QED BY <2>4, <2>6, <2>7
<1>8. /\ frame \in FrameFields /\ frame.at = "request" /\ frame.c = c /\ frame.n = n
  BY <1>2 DEF FrameFields
<1>9. /\ taken \in ConnFields /\ taken.sock = k.sock /\ taken.buffer = k.buffer
      /\ taken.req = n /\ taken.res = n /\ ~taken.responseFinished
      /\ taken.detached = k.detached
  <2> HIDE DEF k, n
  <2> QED BY <1>2, TakenFields
<1>10. m \in Nat
  BY <1>9 DEF ConnFields
<1> HIDE DEF n, k, taken, m, state, y, kind, frame
<1>11. /\ q \in ConnFields /\ q.sock = taken.sock /\ q.buffer = taken.buffer
       /\ q.req = taken.req /\ q.res = taken.res /\ q.state = state
       /\ q.responseFinished = taken.responseFinished /\ q.detached = taken.detached
  BY <1>5, <1>9, <1>10 DEF ConnFields
<1> HIDE DEF q
<1>12. b[n] = y /\ SameElse(c, b, answer[c], n)
  BY <1>1, <1>2, <1>7 DEF SameElse
<1> HIDE DEF b
<1>13. PICK k0, a0, s0, l, u, w, o, late, q0, b0 :
            /\ k0 = conn[c] /\ a0 = answer[c] /\ s0 = client[c] /\ l = LoopsOf(frames)
            /\ u = CallsOf(c, frames) /\ w = Due(c, jobs)
            /\ o = overrun /\ late = overrun' /\ q0 = q /\ b0 = b
  OBVIOUS
<1>14. /\ k0 \in ConnFields /\ a0 \in [Ns(c) -> AnswerFields] /\ s0 \in [n : Nat, i : Nat]
       /\ BufferInv(c, k0, a0, s0) /\ OweInv(c, k0, a0, s0, l, u, w, o)
       /\ HasHead(k0.buffer) /\ Ready(k0) /\ n = Head(SkipBlank(k0.buffer))[1]
  BY <1>1, <1>5, <1>13
<1>15. n \notin u
  BY <1>14, NextOwes
<1>16. /\ c \in l /\ (c \in o => c \in late)
       /\ k0.res # 0 /\ a0[k0.res].kind = "none" => c \in late
  BY <1>2, <1>4, <1>13, LeftFrames
<1>17. /\ q0.req = n /\ q0.res = n /\ ~q0.responseFinished /\ q0.detached = k0.detached
       /\ q0.state = IF a0[n].kind = "none" THEN "IDLE" ELSE "BODY"
       /\ q0.buffer = Tail(SkipBlank(k0.buffer)) /\ q0.sock = k0.sock
  BY <1>2, <1>5, <1>9, <1>11, <1>13
<1>18. /\ SameElse(c, b0, a0, n)
       /\ b0[n].kind = a0[n].kind /\ b0[n].handed /\ b0[n].ended = a0[n].ended
       /\ b0[n].aborted = a0[n].aborted /\ b0[n].closed = a0[n].closed
       /\ b0[n].eof = a0[n].eof /\ (b0[n].complete <=> a0[n].kind = "none")
  BY <1>7, <1>12, <1>13
<1>19. OweInv(c, q0, b0, s0, l, u \cup {n}, w, late)
  BY <1>14, <1>16, <1>17, <1>18, HandedOwes
<1>20. /\ LoopsOf(frames') = LoopsOf(frames) /\ CallsOf(c, frames') = CallsOf(c, frames) \cup {n}
       /\ \A d \in Conns \ {c} : CallsOf(d, frames') = CallsOf(d, frames)
       /\ Distinct(frames')
  <2>1. Distinct(frames)
    BY DEF SettleInv
  <2>2. n \notin CallsOf(c, frames)
    BY <1>13, <1>15
  <2>3. PICK f \in FrameFields : f = frame
    BY <1>8
  <2> QED BY <1>1, <1>4, <1>8, <2>1, <2>2, <2>3, PushedFrames
<1>21. OweInv(c, q, b, client[c], LoopsOf(frames'), CallsOf(c, frames'), Due(c, jobs'), overrun')
  BY <1>4, <1>13, <1>19, <1>20
<1>22. JobsInv(jobs') /\ \A d \in Conns : Due(d, jobs') = Due(d, jobs)
  BY <1>4 DEF SettleInv
<1>23. overrun' = overrun \/ overrun' = overrun \cup {c}
  BY <1>4
<1> QED BY <1>4, <1>6, <1>20, <1>21, <1>22, <1>23, OneGoesOwes

LEMMA ParseHeadOwes ==
    ASSUME SettleInv, ServerInv', Top.at = "loop", NEW c \in Conns, c = Top.c, Ready(conn[c]),
           ParseHead(c), UNCHANGED client
    PROVE  SettleInv'
<1>1. CASE NoHead(c)
  BY <1>1, NoHeadOwes
<1>2. CASE ~NoHead(c)
  <2> DEFINE n == Head(SkipBlank(conn[c].buffer))[1]
             k == HeadTaken(conn[c])
  <2>1. HasHead(conn[c].buffer) /\ (RefuseHead(c, n, k) \/ Detach(c, n, k) \/ HandOver(c, n, k))
    BY <1>2 DEF ParseHead, HeadTaken
  <2>2. CASE RefuseHead(c, n, k)
    BY <2>1, <2>2, RefuseHeadOwes
  <2>3. CASE Detach(c, n, k)
    BY <2>1, <2>3, DetachOwes
  <2>4. CASE HandOver(c, n, k)
    BY <2>1, <2>4, HandOverOwes
  <2> QED BY <2>1, <2>2, <2>3, <2>4
<1> QED BY <1>1, <1>2

\* What maybeFinalizeResponse leaves.
LEMMA FinalizedRest ==
    ASSUME NEW k \in ConnFields
    PROVE  LET q == Finalized(k)
           IN  q.state = "IDLE" /\ Shuts(q, k) /\ (Open(q) => k.keepAliveAfter)
<1> DEFINE r == [k EXCEPT !.responseFinished = FALSE, !.keepAliveAfter = FALSE,
                          !.req = 0, !.res = 0, !.state = "IDLE"]
<1>1. r \in ConnFields /\ r.sock = k.sock /\ r.state = "IDLE"
  BY DEF ConnFields
<1>2. \/ Finalized(k) = r /\ k.keepAliveAfter
      \/ Finalized(k) = Ended(r)
      \/ Finalized(k) = [r EXCEPT !.timer = TRUE] /\ k.keepAliveAfter
  <2>1. Finalized(k) = IF ~k.keepAliveAfter THEN Ended(r)
                       ELSE IF k.buffer # <<>> THEN r
                       ELSE IF k.readableEnded /\ k.closeAfterResponse THEN Ended(r)
                       ELSE [r EXCEPT !.timer = TRUE]
    BY DEF Finalized
  <2> HIDE DEF r
  <2> QED BY <2>1
<1> HIDE DEF r
<1>3. StaysAt(Ended(r), r) /\ ~Open(Ended(r))
  BY <1>1, ShutStays
<1>4. LET t == [r EXCEPT !.timer = TRUE] IN StaysAt(t, r) /\ t.sock = r.sock
  BY <1>1, TimerStays
<1> QED BY <1>1, <1>2, <1>3, <1>4 DEF StaysAt, SameParse, Shuts

LEMMA MaybeFinalizeOwes ==
    ASSUME SettleInv, ServerInv', NEW c \in Conns, NEW k \in ConnFields,
           NEW b \in [Ns(c) -> AnswerFields], MaybeFinalize(c, b, k, frames, jobs),
           UNCHANGED <<client, overrun>>, k.res = 0 \/ k.res \in Ns(c), k.req = k.res,
           k.sock \notin {"none", "closed"},
           k.detached /\ c \notin overrun /\ k.responseFinished =>
                \A n \in Ns(c) : b[n].handed => b[n].ended,
           OweInv(c, k, b, client[c], LoopsOf(frames), CallsOf(c, frames), Due(c, jobs), overrun)
    PROVE  SettleInv'
<1>1. Typed /\ frames \in Seq(FrameFields) /\ Distinct(frames) /\ JobsInv(jobs)
  BY OweFacts DEF SettleInv
<1>2. answer' = [answer EXCEPT ![c] = b]
  BY DEF MaybeFinalize
<1>3. CASE ~Finalizable(b, k)
  <2>1. conn' = [conn EXCEPT ![c] = k] /\ jobs' = jobs /\ frames' = frames
    BY <1>3 DEF MaybeFinalize
  <2> QED BY <1>1, <1>2, <2>1, OneGoesOwes
<1>4. CASE Finalizable(b, k)
  <2> DEFINE q == Finalized(k)
  <2>1. /\ conn' = [conn EXCEPT ![c] = q]
        /\ jobs' = IF k.res = 0 THEN jobs ELSE jobs \cup {CloseOf(c, k.res)}
        /\ frames' = IF k.keepAliveAfter /\ k.buffer # <<>>
                     THEN <<Loop(c, FALSE)>> \o frames ELSE frames
    BY <1>4 DEF MaybeFinalize
  <2>2. /\ q.buffer = k.buffer /\ q.req = 0 /\ q.res = 0 /\ q.detached = k.detached
        /\ q.state = "IDLE" /\ Shuts(q, k) /\ (Open(q) => k.keepAliveAfter)
    BY FinalizedFields, FinalizedRest
  <2> HIDE DEF q
  <2>3. k.responseFinished /\ (k.res = 0 \/ b[k.res].complete)
    BY <1>4 DEF Finalizable
  <2>4. /\ JobsInv(jobs') /\ Due(c, jobs') = Due(c, jobs) \cup ({k.res} \cap Ns(c))
        /\ \A d \in Conns \ {c} : Due(d, jobs') = Due(d, jobs)
    <3>1. CASE k.res = 0
      <4>1. {k.res} \cap Ns(c) = {}
        BY <3>1 DEF Ns
      <4>2. jobs' = jobs
        BY <2>1, <3>1
      <4>3. Due(c, jobs) \cup {} = Due(c, jobs)
        OBVIOUS
      <4> QED BY <1>1, <4>1, <4>2, <4>3
    <3>2. CASE k.res # 0
      <4>1. PICK todo, n : todo = jobs /\ n = k.res
        OBVIOUS
      <4>2. jobs' = CloseAlso(todo, c, n)
        BY <2>1, <3>2, <4>1 DEF CloseAlso
      <4>3. JobsInv(todo)
        BY <1>1, <4>1
      <4>4. /\ JobsInv(CloseAlso(todo, c, n))
            /\ Due(c, CloseAlso(todo, c, n)) = DueAlso(Due(c, todo), c, n)
            /\ \A d \in Conns \ {c} : Due(d, CloseAlso(todo, c, n)) = Due(d, todo)
        BY <4>3, DueMore
      <4> QED BY <4>1, <4>2, <4>4 DEF DueAlso
    <3> QED BY <3>1, <3>2
  <2>5. /\ Distinct(frames') /\ \A d \in Conns : CallsOf(d, frames') = CallsOf(d, frames)
        /\ \A d \in Conns \ {c} : d \in LoopsOf(frames') <=> d \in LoopsOf(frames)
        /\ c \in LoopsOf(frames) => c \in LoopsOf(frames')
        /\ k.keepAliveAfter /\ k.buffer # <<>> => c \in LoopsOf(frames')
    <3>1. CASE k.keepAliveAfter /\ k.buffer # <<>>
      <4>1. PICK f \in FrameFields : f = Loop(c, FALSE) /\ f.at = "loop" /\ f.c = c
        <5>1. Loop(c, FALSE) \in FrameFields
          BY LoopFrame
        <5> QED BY <5>1 DEF Loop
      <4>2. PICK fs \in Seq(FrameFields) : fs = frames /\ Distinct(fs)
        BY <1>1
      <4>3. frames' = <<f>> \o fs
        BY <2>1, <3>1, <4>1, <4>2
      <4>4. /\ LoopsOf(<<f>> \o fs) = LoopsOf(fs) \cup {f.c} /\ Distinct(<<f>> \o fs)
            /\ \A d \in Conns : CallsOf(d, <<f>> \o fs) = CallsOf(d, fs)
        BY <4>1, <4>2, PushedFrames
      <4> QED BY <4>1, <4>2, <4>3, <4>4
    <3>2. CASE ~(k.keepAliveAfter /\ k.buffer # <<>>)
      BY <1>1, <2>1, <3>2
    <3> QED BY <3>1, <3>2
  <2>6. PICK s, l, r, u, v, more, o :
            /\ s = client[c] /\ l = LoopsOf(frames) /\ r = LoopsOf(frames')
            /\ u = CallsOf(c, frames) /\ v = Due(c, jobs) /\ more = Due(c, jobs') /\ o = overrun
    OBVIOUS
  <2>7. OweInv(c, k, b, s, l, u, v, o) /\ more = v \cup ({k.res} \cap Ns(c)) /\ (c \in l => c \in r)
    BY <2>4, <2>5, <2>6
  <2>8. k.detached /\ c \notin o => \A n \in Ns(c) : b[n].handed => b[n].ended
    BY <2>3, <2>6
  <2>9. Open(q) /\ HasHead(q.buffer) => c \in r
    BY <2>2, <2>5, <2>6 DEF HasHead, SkipBlank
  <2>10. OweInv(c, q, b, s, r, u, more, o)
    BY <2>2, <2>3, <2>7, <2>8, <2>9, FinalizedOwes
  <2>11. OweInv(c, q, b, client[c], LoopsOf(frames'), CallsOf(c, frames'), Due(c, jobs'), overrun')
    BY <2>5, <2>6, <2>10
  <2> QED BY <1>2, <2>1, <2>4, <2>5, <2>11, OneGoesOwes
<1> QED BY <1>3, <1>4

\* The answers a with the last piece of request n.
Pieced(a, n) == [a EXCEPT ![n].complete = TRUE, ![n].eof = @ + 1]

LEMMA PieceFields ==
    ASSUME NEW c, NEW a \in [Ns(c) -> AnswerFields], NEW n
    PROVE  LET b == Pieced(a, n)
           IN  /\ b \in [Ns(c) -> AnswerFields] /\ SameElse(c, b, a, n)
               /\ n \in Ns(c) =>
                    /\ b[n].kind = a[n].kind /\ b[n].handed = a[n].handed
                    /\ b[n].ended = a[n].ended /\ b[n].aborted = a[n].aborted
                    /\ b[n].closed = a[n].closed /\ b[n].eof = a[n].eof + 1 /\ b[n].complete
<1> DEFINE e == a[n].eof + 1
           y == [a[n] EXCEPT !.complete = TRUE, !.eof = e]
           b == [a EXCEPT ![n] = y]
<1>1. b = Pieced(a, n)
  BY DEF Pieced
<1>2. CASE n \in Ns(c)
  <2>1. a[n] \in AnswerFields /\ e \in Nat /\ e = a[n].eof + 1
    BY <1>2 DEF AnswerFields
  <2> HIDE DEF e
  <2>2. /\ y \in AnswerFields /\ y.kind = a[n].kind /\ y.handed = a[n].handed
        /\ y.ended = a[n].ended /\ y.aborted = a[n].aborted /\ y.closed = a[n].closed
        /\ y.eof = e /\ y.complete
    BY <2>1 DEF AnswerFields
  <2> HIDE DEF y
  <2>3. b \in [Ns(c) -> AnswerFields] /\ b[n] = y /\ SameElse(c, b, a, n)
    BY <1>2, <2>2 DEF SameElse
  <2> HIDE DEF b
  <2> QED BY <1>1, <2>1, <2>2, <2>3
<1>3. CASE n \notin Ns(c)
  <2>1. b = a
    BY <1>3
  <2> QED BY <1>1, <1>3, <2>1 DEF SameElse
<1> QED BY <1>2, <1>3

\* A piece of the body is taken, and with the last the request may be finalized.
LEMMA BodyPieceOwes ==
    ASSUME SettleInv, ServerInv', NEW c \in Conns, conn[c].state = "BODY", conn[c].buffer # <<>>,
           c \in LoopsOf(frames), ParseBody(c), Head(conn[c].buffer)[2] \in {"body", "last"},
           UNCHANGED client
    PROVE  SettleInv'
<1> DEFINE k == conn[c]
           t == Tail(k.buffer)
           taken == [k EXCEPT !.buffer = t]
           p == SkipBlank(t)
           done == [k EXCEPT !.state = "AWAITING_RESPONSE", !.buffer = p]
           b == [answer[c] EXCEPT ![k.req].complete = TRUE, ![k.req].eof = @ + 1]
<1>1. /\ Typed /\ k \in ConnFields /\ answer[c] \in [Ns(c) -> AnswerFields]
      /\ k.res = 0 \/ k.res \in Ns(c)
      /\ OweInv(c, k, answer[c], client[c], LoopsOf(frames), CallsOf(c, frames),
                Due(c, jobs), overrun)
  BY OweFacts
<1>2. k.req = k.res /\ k.sock \notin {"none", "closed"}
  <2>1. PICK a, s, l, u, v, o :
            /\ a = answer[c] /\ s = client[c] /\ l = LoopsOf(frames) /\ u = CallsOf(c, frames)
            /\ v = Due(c, jobs) /\ o = overrun
    OBVIOUS
  <2>2. OweInv(c, k, a, s, l, u, v, o) /\ c \in l
    BY <1>1, <2>1
  <2> HIDE DEF k
  <2> QED BY <2>2 DEF OweInv, BehindInv, EndsInv
<1>3. k.buffer \in Seq(Nat \X Parts) /\ t \in Seq(Nat \X Parts) /\ Later(t, k.buffer)
  BY <1>1, LaterTail DEF ConnFields
<1>4. p \in Seq(Nat \X Parts) /\ Later(p, k.buffer)
  <2> HIDE DEF t
  <2>1. p \in Seq(Nat \X Parts) /\ Later(p, t)
    BY <1>3, LaterSkip
  <2> QED BY <1>3, <2>1, LaterAgain
<1>5. PICK k0, a0, s0, l, u, v, o :
        /\ k0 = k /\ a0 = answer[c] /\ s0 = client[c] /\ l = LoopsOf(frames)
        /\ u = CallsOf(c, frames) /\ v = Due(c, jobs) /\ o = overrun
  OBVIOUS
<1>6. /\ k0 \in ConnFields /\ a0 \in [Ns(c) -> AnswerFields] /\ OweInv(c, k0, a0, s0, l, u, v, o)
      /\ k0.res = 0 \/ k0.res \in Ns(c)
      /\ c \in l /\ k0.state = "BODY" /\ k0.sock \notin {"none", "closed"} /\ k0.req = k0.res
  BY <1>1, <1>2, <1>5
<1>7. CASE Head(k.buffer)[2] = "body"
  <2>1. conn' = [conn EXCEPT ![c] = taken] /\ UNCHANGED <<answer, frames, jobs, overrun>>
    BY <1>7 DEF ParseBody
  <2> HIDE DEF t, k
  <2>2. /\ taken \in ConnFields /\ taken.sock = k.sock /\ taken.buffer = t
        /\ taken.req = k.req /\ taken.res = k.res /\ taken.state = k.state
        /\ taken.responseFinished = k.responseFinished /\ taken.detached = k.detached
    BY <1>1, <1>3, BufferFields
  <2>3. taken.readableEnded = k.readableEnded
    BY <1>1 DEF ConnFields
  <2> HIDE DEF taken
  <2>4. PICK q \in ConnFields :
            /\ q = taken /\ q.sock = k0.sock /\ Later(q.buffer, k0.buffer) /\ q.req = k0.req
            /\ q.res = k0.res /\ q.state = k0.state /\ q.detached = k0.detached
            /\ q.responseFinished = k0.responseFinished /\ q.readableEnded = k0.readableEnded
    BY <1>3, <1>5, <2>2, <2>3
  <2>5. Shuts(q, k0)
    BY <2>4 DEF Shuts
  <2>6. OweInv(c, q, a0, s0, l, u, v, o)
    BY <1>6, <2>4, <2>5, StateOwes
  <2>7. OweInv(c, q, answer[c], client[c], LoopsOf(frames'), CallsOf(c, frames'), Due(c, jobs'),
               overrun')
    BY <1>5, <2>1, <2>6
  <2>8. answer' = [answer EXCEPT ![c] = answer[c]] /\ conn' = [conn EXCEPT ![c] = q]
    BY <1>1, <2>1, <2>4 DEF Typed
  <2>9. Distinct(frames') /\ JobsInv(jobs')
    BY <2>1 DEF SettleInv
  <2> QED BY <2>1, <2>7, <2>8, <2>9, OneGoesOwes
<1>8. CASE Head(k.buffer)[2] = "last"
  <2>1. MaybeFinalize(c, b, done, frames, jobs) /\ UNCHANGED overrun
    <3>1. [taken EXCEPT !.state = BodyEnds, !.buffer = SkipBlank(@)] = done
      BY <1>1 DEF ConnFields, BodyEnds
    <3>2. /\ MaybeFinalize(c, b, [taken EXCEPT !.state = BodyEnds, !.buffer = SkipBlank(@)],
                           frames, jobs)
          /\ UNCHANGED overrun
      BY <1>8 DEF ParseBody
    <3> HIDE DEF done, taken, b
    <3> QED BY <3>1, <3>2
  <2>2. /\ b \in [Ns(c) -> AnswerFields] /\ SameElse(c, b, answer[c], k.res)
        /\ k.res \in Ns(c) =>
            /\ b[k.res].kind = answer[c][k.res].kind /\ b[k.res].handed = answer[c][k.res].handed
            /\ b[k.res].ended = answer[c][k.res].ended
            /\ b[k.res].aborted = answer[c][k.res].aborted
            /\ b[k.res].closed = answer[c][k.res].closed
            /\ b[k.res].eof = answer[c][k.res].eof + 1 /\ b[k.res].complete
    <3>1. PICK n : n = k.req /\ n = k.res
      BY <1>2
    <3>2. b = [answer[c] EXCEPT ![n].complete = TRUE, ![n].eof = @ + 1]
      BY <3>1
    <3> HIDE DEF b, k
    <3>3. PICK a : a = answer[c] /\ a \in [Ns(c) -> AnswerFields]
      BY <1>1
    <3>4. b = Pieced(a, n)
      BY <3>2, <3>3 DEF Pieced
    <3>5. /\ b \in [Ns(c) -> AnswerFields] /\ SameElse(c, b, a, n)
          /\ n \in Ns(c) =>
            /\ b[n].kind = a[n].kind /\ b[n].handed = a[n].handed
            /\ b[n].ended = a[n].ended /\ b[n].aborted = a[n].aborted
            /\ b[n].closed = a[n].closed /\ b[n].eof = a[n].eof + 1 /\ b[n].complete
      BY <3>3, <3>4, PieceFields
    <3> QED BY <3>1, <3>3, <3>5
  <2> HIDE DEF p, b, k
  <2>3. /\ done \in ConnFields /\ done.sock = k.sock /\ done.buffer = p
        /\ done.req = k.req /\ done.res = k.res /\ done.state = "AWAITING_RESPONSE"
        /\ done.responseFinished = k.responseFinished /\ done.detached = k.detached
    BY <1>1, <1>4 DEF ConnFields
  <2> HIDE DEF done
  <2>4. PICK q \in ConnFields :
            /\ q = done /\ q.sock = k0.sock /\ Later(q.buffer, k0.buffer) /\ q.req = k0.req
            /\ q.res = k0.res /\ q.state = "AWAITING_RESPONSE" /\ q.detached = k0.detached
            /\ q.responseFinished = k0.responseFinished
    BY <1>4, <1>5, <2>3
  <2>5. PICK b0 \in [Ns(c) -> AnswerFields] :
            /\ b0 = b /\ SameElse(c, b0, a0, k0.res)
            /\ k0.res \in Ns(c) =>
                /\ b0[k0.res].kind = a0[k0.res].kind /\ b0[k0.res].handed = a0[k0.res].handed
                /\ b0[k0.res].ended = a0[k0.res].ended /\ b0[k0.res].closed = a0[k0.res].closed
                /\ b0[k0.res].aborted = a0[k0.res].aborted /\ b0[k0.res].complete
                /\ b0[k0.res].eof = a0[k0.res].eof + 1
    BY <1>5, <2>2
  <2>6. OweInv(c, q, b0, s0, l, u, v, o)
    BY <1>6, <2>4, <2>5, PieceOwes
  <2>7. OweInv(c, q, b0, client[c], LoopsOf(frames), CallsOf(c, frames), Due(c, jobs), overrun)
    BY <1>5, <2>6
  <2>8. ~(q.detached /\ c \notin overrun)
    BY <1>5, <1>6, <2>4 DEF OweInv, IdleInv, Ready
  <2>9. MaybeFinalize(c, b0, q, frames, jobs)
    BY <2>1, <2>4, <2>5
  <2>10. q.sock \notin {"none", "closed"} /\ q.req = q.res /\ (q.res = 0 \/ q.res \in Ns(c))
    BY <1>6, <2>4
  <2> QED BY <2>1, <2>7, <2>8, <2>9, <2>10, MaybeFinalizeOwes
<1> QED BY <1>7, <1>8

LEMMA ParseBodyOwes ==
    ASSUME SettleInv, ServerInv', Top.at = "loop", NEW c \in Conns, c = Top.c,
           conn[c].state = "BODY", ParseBody(c), UNCHANGED client
    PROVE  SettleInv'
<1>1. conn[c] \in ConnFields
  BY OweFacts
<1>2. CASE conn[c].buffer = <<>>
  <2>1. LeaveLoop(c, conn[c]) /\ UNCHANGED <<answer, jobs, overrun>>
    BY <1>2 DEF ParseBody
  <2> QED BY <2>1, WaitOwes
<1>3. CASE conn[c].buffer # <<>> /\ Head(conn[c].buffer)[2] = "bad"
  <2>1. Refuse(c, conn[c]) /\ UNCHANGED overrun
    BY <1>3 DEF ParseBody
  <2>2. Later(conn[c].buffer, conn[c].buffer)
    BY <1>1, LaterAtAll DEF ConnFields
  <2> QED BY <1>1, <2>1, <2>2, RefusedOwes
<1>4. CASE conn[c].buffer # <<>> /\ Head(conn[c].buffer)[2] \in {"body", "last"}
  BY <1>4, LeftFrames, BodyPieceOwes
<1> QED BY <1>2, <1>3, <1>4 DEF ParseBody

LEMMA ParseTurnOwes == ASSUME SettleInv, ServerInv', ParseTurn PROVE SettleInv'
<1>1. Typed
  BY DEF SettleInv, ServerInv
<1>2. /\ Top.at = "loop"
      /\ \/ conn[Top.c].state \in {"IDLE", "HEADERS"} /\ ParseHead(Top.c)
         \/ conn[Top.c].state = "BODY" /\ ParseBody(Top.c)
         \/ /\ conn[Top.c].state = "AWAITING_RESPONSE"
            /\ LeaveLoop(Top.c, conn[Top.c])
            /\ UNCHANGED <<answer, wire, jobs, overrun>>
      /\ UNCHANGED <<server, client>>
  BY DEF ParseTurn
<1>3. PICK c \in Conns : c = Top.c
  BY <1>1, <1>2, TopFrame
<1>4. CASE conn[c].state \in {"IDLE", "HEADERS"} /\ ParseHead(c)
  BY <1>2, <1>3, <1>4, ParseHeadOwes DEF Ready
<1>5. CASE conn[c].state = "BODY" /\ ParseBody(c)
  BY <1>2, <1>3, <1>5, ParseBodyOwes
<1>6. CASE /\ conn[c].state = "AWAITING_RESPONSE" /\ LeaveLoop(c, conn[c])
           /\ UNCHANGED <<answer, wire, jobs, overrun>>
  BY <1>2, <1>3, <1>6, WaitOwes
<1> QED BY <1>2, <1>3, <1>4, <1>5, <1>6

-----------------------------------------------------------------------------
(* What the program does, for what is owed.                                  *)

\* The request handed over is answered or not when the listeners return.
Pushed(a, n) == [a EXCEPT ![n].eof = @ + 1]

LEMMA PushedFields ==
    ASSUME NEW c, NEW a \in [Ns(c) -> AnswerFields], NEW n
    PROVE  LET b == Pushed(a, n)
           IN  /\ b \in [Ns(c) -> AnswerFields] /\ SameElse(c, b, a, n)
               /\ n \in Ns(c) =>
                    /\ b[n].kind = a[n].kind /\ b[n].handed = a[n].handed
                    /\ b[n].ended = a[n].ended /\ b[n].complete = a[n].complete
                    /\ b[n].aborted = a[n].aborted
                    /\ b[n].closed = a[n].closed /\ b[n].eof = a[n].eof + 1
<1> DEFINE e == a[n].eof + 1
           y == [a[n] EXCEPT !.eof = e]
           b == [a EXCEPT ![n] = y]
<1>1. b = Pushed(a, n)
  BY DEF Pushed
<1>2. CASE n \in Ns(c)
  <2>1. a[n] \in AnswerFields /\ e \in Nat /\ e = a[n].eof + 1
    BY <1>2 DEF AnswerFields
  <2> HIDE DEF e
  <2>2. /\ y \in AnswerFields /\ y.kind = a[n].kind /\ y.handed = a[n].handed
        /\ y.ended = a[n].ended /\ y.complete = a[n].complete /\ y.aborted = a[n].aborted
        /\ y.closed = a[n].closed /\ y.eof = e
    BY <2>1 DEF AnswerFields
  <2> HIDE DEF y
  <2>3. b \in [Ns(c) -> AnswerFields] /\ b[n] = y /\ SameElse(c, b, a, n)
    BY <1>2, <2>2 DEF SameElse
  <2> HIDE DEF b
  <2> QED BY <1>1, <2>1, <2>2, <2>3
<1>3. CASE n \notin Ns(c)
  <2>1. b = a
    BY <1>3
  <2> QED BY <1>1, <1>3, <2>1 DEF SameElse
<1> QED BY <1>2, <1>3

LEMMA RequestReturnsOwes == ASSUME SettleInv, ServerInv', RequestReturns PROVE SettleInv'
<1>1. Typed /\ Top.at = "request" /\ Distinct(frames) /\ JobsInv(jobs)
  BY DEF SettleInv, ServerInv, RequestReturns
<1>2. PICK c \in Conns : c = Top.c
  BY <1>1, TopFrame
<1>3. PICK n : n = Top.n
  OBVIOUS
<1>4. /\ conn[c] \in ConnFields /\ answer[c] \in [Ns(c) -> AnswerFields]
      /\ frames \in Seq(FrameFields)
      /\ conn[c].res = 0 \/ conn[c].res \in Ns(c)
      /\ OweInv(c, conn[c], answer[c], client[c], LoopsOf(frames), CallsOf(c, frames),
                Due(c, jobs), overrun)
  BY OweFacts
<1>5. frames # <<>> /\ Top = Head(frames)
  BY <1>1, TopFrame DEF Typed, Top
<1>6. /\ Distinct(Tail(frames)) /\ LoopsOf(Tail(frames)) \subseteq LoopsOf(frames)
      /\ \A d \in LoopsOf(frames) : d \in LoopsOf(Tail(frames))
      /\ \A d \in Conns : d # c => CallsOf(d, Tail(frames)) = CallsOf(d, frames)
      /\ n \in CallsOf(c, frames) /\ CallsOf(c, Tail(frames)) = CallsOf(c, frames) \ {n}
  <2>1. frames \in Seq(FrameFields) /\ Head(frames).at = "request" /\ Head(frames).c = c
        /\ Head(frames).n = n
    BY <1>1, <1>2, <1>3, <1>4, <1>5
  <2>2. PICK fs \in Seq(FrameFields) : fs = frames
    BY <1>4
  <2>3. fs # <<>> /\ Distinct(fs) /\ Head(fs).at = "request" /\ Head(fs).c = c /\ Head(fs).n = n
    BY <1>1, <1>5, <2>1, <2>2
  <2>4. /\ Distinct(Tail(fs)) /\ LoopsOf(Tail(fs)) \subseteq LoopsOf(fs)
        /\ \A d \in LoopsOf(fs) : d \in LoopsOf(Tail(fs))
        /\ \A d \in Conns : d # c => CallsOf(d, Tail(fs)) = CallsOf(d, fs)
        /\ n \in CallsOf(c, fs) /\ CallsOf(c, Tail(fs)) = CallsOf(c, fs) \ {n}
    BY <2>3, TailFrames
  <2> QED BY <2>2, <2>4
<1>7. LoopsOf(Tail(frames)) = LoopsOf(frames)
  BY <1>6
<1> DEFINE b == IF answer[c][n].kind = "none" THEN Pushed(answer[c], n) ELSE answer[c]
<1>8. /\ answer' = [answer EXCEPT ![c] = b] /\ frames' = Tail(frames)
      /\ UNCHANGED <<conn, client, jobs, overrun>>
  <2>1. /\ answer' = IF answer[c][n].kind = "none"
                     THEN [answer EXCEPT ![c][n].eof = @ + 1] ELSE answer
        /\ frames' = Tail(frames) /\ UNCHANGED <<conn, client, jobs, overrun>>
    BY <1>2, <1>3 DEF RequestReturns
  <2>2. answer = [answer EXCEPT ![c] = answer[c]]
    BY <1>1, WholeState
  <2> QED BY <2>1, <2>2 DEF Pushed
<1>9. /\ b \in [Ns(c) -> AnswerFields] /\ SameElse(c, b, answer[c], n)
      /\ n \in Ns(c) =>
            /\ b[n].kind = answer[c][n].kind /\ b[n].handed = answer[c][n].handed
            /\ b[n].ended = answer[c][n].ended /\ b[n].complete = answer[c][n].complete
            /\ b[n].aborted = answer[c][n].aborted /\ b[n].closed = answer[c][n].closed
            /\ b[n].eof = IF answer[c][n].kind = "none" THEN answer[c][n].eof + 1
                          ELSE answer[c][n].eof
  <2>1. CASE answer[c][n].kind = "none"
    <3>1. b = Pushed(answer[c], n)
      BY <2>1
    <3> HIDE DEF b
    <3>2. PICK a \in [Ns(c) -> AnswerFields] : a = answer[c]
      BY <1>4
    <3>3. b = Pushed(a, n)
      BY <3>1, <3>2
    <3>4. /\ b \in [Ns(c) -> AnswerFields] /\ SameElse(c, b, a, n)
          /\ n \in Ns(c) =>
                /\ b[n].kind = a[n].kind /\ b[n].handed = a[n].handed
                /\ b[n].ended = a[n].ended /\ b[n].complete = a[n].complete
                /\ b[n].aborted = a[n].aborted
                /\ b[n].closed = a[n].closed /\ b[n].eof = a[n].eof + 1
      BY <3>3, PushedFields
    <3> QED BY <2>1, <3>2, <3>4
  <2>2. CASE answer[c][n].kind # "none"
    BY <1>4, <2>2 DEF SameElse
  <2> QED BY <2>1, <2>2
<1> HIDE DEF b
<1>10. PICK k0, a0, s0, l, u, r, v, o, b0 :
            /\ k0 = conn[c] /\ a0 = answer[c] /\ s0 = client[c] /\ l = LoopsOf(frames)
            /\ u = CallsOf(c, frames) /\ r = CallsOf(c, Tail(frames)) /\ v = Due(c, jobs)
            /\ o = overrun /\ b0 = b
  OBVIOUS
<1>11. /\ OweInv(c, k0, a0, s0, l, u, v, o) /\ n \in u /\ r = u \ {n}
       /\ k0.res = 0 \/ k0.res \in Ns(c)
  BY <1>4, <1>6, <1>10
<1>12. /\ SameElse(c, b0, a0, n)
       /\ n \in Ns(c) =>
            /\ b0[n].kind = a0[n].kind /\ b0[n].handed = a0[n].handed
            /\ b0[n].ended = a0[n].ended /\ b0[n].complete = a0[n].complete
            /\ b0[n].aborted = a0[n].aborted /\ b0[n].closed = a0[n].closed
            /\ b0[n].eof = IF a0[n].kind = "none" THEN a0[n].eof + 1 ELSE a0[n].eof
  BY <1>9, <1>10
<1>13. OweInv(c, k0, b0, s0, l, r, v, o)
  BY <1>11, <1>12, ReturnedOwes
<1>14. OweInv(c, conn[c], b, client[c], LoopsOf(frames'), CallsOf(c, frames'), Due(c, jobs'),
              overrun')
  BY <1>7, <1>8, <1>10, <1>13
<1>15. conn' = [conn EXCEPT ![c] = conn[c]]
  BY <1>1, <1>8, WholeState
<1>16. /\ Distinct(frames') /\ JobsInv(jobs')
       /\ \A d \in Conns \ {c} :
            /\ d \in LoopsOf(frames') <=> d \in LoopsOf(frames)
            /\ CallsOf(d, frames') = CallsOf(d, frames) /\ Due(d, jobs') = Due(d, jobs)
  BY <1>1, <1>6, <1>7, <1>8
<1> QED BY <1>8, <1>14, <1>15, <1>16, OneGoesOwes

\* A socket shuts, or an answer changes in what does not matter here.
LEMMA FlaggedFields ==
    ASSUME NEW c, NEW a \in [Ns(c) -> AnswerFields], NEW n
    PROVE  LET w == [a EXCEPT ![n].written = TRUE]
               d == [a EXCEPT ![n].destroyed = TRUE]
           IN  SameFacts(c, w, a) /\ SameFacts(c, d, a) /\ SameFacts(c, a, a)
BY DEF SameFacts, AnswerFields

LEMMA QuietOwes ==
    ASSUME SettleInv, ServerInv', NEW c \in Conns, NEW q \in ConnFields, NEW b,
           conn' = [conn EXCEPT ![c] = q], answer' = [answer EXCEPT ![c] = b],
           UNCHANGED <<client, frames, jobs, overrun>>, StaysAt(q, conn[c]),
           SameFacts(c, b, answer[c]), conn[c].sock # "none"
    PROVE  SettleInv'
<1>1. /\ conn[c] \in ConnFields /\ answer[c] \in [Ns(c) -> AnswerFields]
      /\ conn[c].res = 0 \/ conn[c].res \in Ns(c)
      /\ OweInv(c, conn[c], answer[c], client[c], LoopsOf(frames), CallsOf(c, frames),
                Due(c, jobs), overrun)
  BY OweFacts
<1>2. PICK k0, a0, s0, l, u, v, o :
            /\ k0 = conn[c] /\ a0 = answer[c] /\ s0 = client[c] /\ l = LoopsOf(frames)
            /\ u = CallsOf(c, frames) /\ v = Due(c, jobs) /\ o = overrun
  OBVIOUS
<1>3. /\ OweInv(c, k0, a0, s0, l, u, v, o) /\ k0 \in ConnFields /\ StaysAt(q, k0)
      /\ k0.sock # "none" /\ SameFacts(c, b, a0)
      /\ k0.res = 0 \/ k0.res \in Ns(c)
  BY <1>1, <1>2
<1>4. OweInv(c, k0, b, s0, l, u, v, o)
  BY <1>3, FlagsOwe
<1>5. OweInv(c, q, b, s0, l, u, v, o)
  BY <1>3, <1>4, StaysOwe
<1>6. OweInv(c, q, b, client[c], LoopsOf(frames'), CallsOf(c, frames'), Due(c, jobs'), overrun')
  BY <1>2, <1>5
<1>7. Distinct(frames') /\ JobsInv(jobs')
  BY DEF SettleInv
<1> QED BY <1>6, <1>7, OneGoesOwes

\* Before a request is handed over there is a connection.
LEMMA HandedHas ==
    ASSUME SettleInv, NEW c \in Conns, NEW n \in Ns(c), answer[c][n].handed
    PROVE  conn[c].sock # "none"
<1>1. OweInv(c, conn[c], answer[c], client[c], LoopsOf(frames), CallsOf(c, frames),
             Due(c, jobs), overrun)
  BY OweFacts
<1>2. PICK k0, a0, s0, l, u, v, o :
            /\ k0 = conn[c] /\ a0 = answer[c] /\ s0 = client[c] /\ l = LoopsOf(frames)
            /\ u = CallsOf(c, frames) /\ v = Due(c, jobs) /\ o = overrun
  OBVIOUS
<1>3. OweInv(c, k0, a0, s0, l, u, v, o) /\ a0[n].handed
  BY <1>1, <1>2
<1>4. k0.sock # "none"
  BY <1>3 DEF OweInv, BehindInv, Untouched
<1> QED BY <1>2, <1>4

LEMMA WriteOwes ==
    ASSUME SettleInv, ServerInv', NEW c \in Conns, NEW n \in Ns(c), Write(c, n)
    PROVE  SettleInv'
<1> DEFINE b == [answer[c] EXCEPT ![n].written = TRUE]
           q == AfterWrite(conn[c])
<1>1. conn[c] \in ConnFields /\ answer[c] \in [Ns(c) -> AnswerFields]
  BY OweFacts
<1>2. conn[c].sock # "none"
  BY HandedHas DEF Write
<1>3. /\ conn' = [conn EXCEPT ![c] = q] /\ UNCHANGED <<client, frames, jobs, overrun>>
  BY DEF Write
<1>4. answer' = [answer EXCEPT ![c] = b]
  <2>1. answer' = [answer EXCEPT ![c][n].written = TRUE]
    BY DEF Write
  <2> QED BY <2>1
<1>5. SameFacts(c, b, answer[c])
  BY <1>1, FlaggedFields
<1>6. q \in ConnFields /\ StaysAt(q, conn[c])
  BY <1>1, ShutStays
<1> HIDE DEF b, q
<1> QED BY <1>2, <1>3, <1>4, <1>5, <1>6, QuietOwes

LEMMA DestroyResponseOwes ==
    ASSUME SettleInv, ServerInv', NEW c \in Conns, NEW n \in Ns(c), DestroyResponse(c, n)
    PROVE  SettleInv'
<1> DEFINE b == [answer[c] EXCEPT ![n].destroyed = TRUE]
<1>1. conn[c] \in ConnFields /\ answer[c] \in [Ns(c) -> AnswerFields]
  BY OweFacts
<1>2. conn[c].sock # "none"
  BY HandedHas DEF DestroyResponse
<1>3. PICK error \in BOOLEAN : conn' = [conn EXCEPT ![c] = Destroyed(conn[c], error)]
  BY DEF DestroyResponse
<1>4. answer' = [answer EXCEPT ![c] = b] /\ UNCHANGED <<client, frames, jobs, overrun>>
  <2>1. answer' = [answer EXCEPT ![c][n].destroyed = TRUE]
    BY DEF DestroyResponse
  <2> QED BY <2>1 DEF DestroyResponse
<1>5. SameFacts(c, b, answer[c])
  BY <1>1, FlaggedFields
<1> DEFINE q == Destroyed(conn[c], error)
<1>6. q \in ConnFields /\ StaysAt(q, conn[c])
  BY <1>1, ShutStays
<1>7. conn' = [conn EXCEPT ![c] = q]
  BY <1>3
<1> HIDE DEF b, q
<1> QED BY <1>2, <1>4, <1>5, <1>6, <1>7, QuietOwes

\* The socket of c is destroyed.
LEMMA DestroyOwes ==
    ASSUME SettleInv, ServerInv', NEW c \in Conns, NEW error \in BOOLEAN,
           conn' = [conn EXCEPT ![c] = Destroyed(@, error)],
           conn[c].sock # "none", UNCHANGED <<answer, client, frames, jobs, overrun>>
    PROVE  SettleInv'
<1> DEFINE q == Destroyed(conn[c], error)
<1>1. /\ Typed /\ conn[c] \in ConnFields /\ answer[c] \in [Ns(c) -> AnswerFields]
  BY OweFacts
<1>2. q \in ConnFields /\ StaysAt(q, conn[c])
  BY <1>1, ShutStays
<1>3. conn' = [conn EXCEPT ![c] = q] /\ answer' = [answer EXCEPT ![c] = answer[c]]
  BY <1>1, WholeState
<1>4. SameFacts(c, answer[c], answer[c])
  BY <1>1, FlaggedFields
<1> HIDE DEF q
<1> QED BY <1>2, <1>3, <1>4, QuietOwes

LEMMA FinishedRest ==
    ASSUME NEW k \in ConnFields, NEW v \in BOOLEAN
    PROVE  [k EXCEPT !.responseFinished = TRUE, !.keepAliveAfter = v].readableEnded
                = k.readableEnded
BY DEF ConnFields

LEMMA EndedRest ==
    ASSUME NEW c, NEW a \in [Ns(c) -> AnswerFields], NEW n \in Ns(c)
    PROVE  LET b == [a EXCEPT ![n].ended = TRUE]
           IN  /\ b \in [Ns(c) -> AnswerFields]
               /\ \A m \in Ns(c) :
                    /\ b[m].kind = a[m].kind /\ b[m].handed = a[m].handed
                    /\ b[m].complete = a[m].complete /\ b[m].aborted = a[m].aborted
                    /\ b[m].eof = a[m].eof /\ b[m].closed = a[m].closed
                    /\ b[m].ended <=> a[m].ended \/ m = n
<1> DEFINE y == [a[n] EXCEPT !.ended = TRUE]
           b == [a EXCEPT ![n] = y]
<1>1. /\ y \in AnswerFields /\ y.kind = a[n].kind /\ y.handed = a[n].handed
      /\ y.complete = a[n].complete /\ y.aborted = a[n].aborted /\ y.eof = a[n].eof
      /\ y.closed = a[n].closed /\ y.ended
  BY DEF AnswerFields
<1>2. b = [a EXCEPT ![n].ended = TRUE]
  OBVIOUS
<1> HIDE DEF y
<1>3. b \in [Ns(c) -> AnswerFields] /\ b[n] = y /\ \A m \in Ns(c) \ {n} : b[m] = a[m]
  BY <1>1
<1> HIDE DEF b
<1>4. ASSUME NEW m \in Ns(c)
      PROVE  /\ b[m].kind = a[m].kind /\ b[m].handed = a[m].handed
             /\ b[m].complete = a[m].complete /\ b[m].aborted = a[m].aborted
             /\ b[m].eof = a[m].eof /\ b[m].closed = a[m].closed
             /\ b[m].ended <=> a[m].ended \/ m = n
  <2>1. CASE m = n
    BY <1>1, <1>3, <2>1
  <2>2. CASE m # n
    BY <1>3, <2>2
  <2> QED BY <2>1, <2>2
<1> QED BY <1>2, <1>3, <1>4

LEMMA EndOwes ==
    ASSUME SettleInv, ServerInv', NEW c \in Conns, NEW n \in Ns(c), End(c, n)
    PROVE  SettleInv'
<1> DEFINE b == [answer[c] EXCEPT ![n].ended = TRUE]
           v == answer[c][n].keepAlive /\ ~server.closing
           r == AfterWrite(conn[c])
           q == [r EXCEPT !.responseFinished = TRUE, !.keepAliveAfter = v]
<1>1. /\ Typed /\ conn[c] \in ConnFields /\ answer[c] \in [Ns(c) -> AnswerFields]
      /\ conn[c].res = 0 \/ conn[c].res \in Ns(c)
      /\ OweInv(c, conn[c], answer[c], client[c], LoopsOf(frames), CallsOf(c, frames),
                Due(c, jobs), overrun)
  BY OweFacts
<1>2. answer[c][n].handed /\ ~answer[c][n].ended /\ conn[c].sock \notin {"none", "closed"}
  BY HandedHas DEF End
<1>3. MaybeFinalize(c, b, q, frames, jobs) /\ UNCHANGED <<client, overrun>>
  BY DEF End
<1>4. r \in ConnFields /\ StaysAt(r, conn[c])
  BY <1>1, ShutStays
<1>5. v \in BOOLEAN
  OBVIOUS
<1> HIDE DEF r, v
<1>6. /\ q \in ConnFields /\ q.sock = r.sock /\ q.buffer = r.buffer
      /\ q.req = r.req /\ q.res = r.res /\ q.state = r.state
      /\ q.responseFinished /\ q.detached = r.detached /\ q.readableEnded = r.readableEnded
  BY <1>4, <1>5, FinishedFields, FinishedRest
<1>7. /\ b \in [Ns(c) -> AnswerFields]
      /\ \A m \in Ns(c) :
            /\ b[m].kind = answer[c][m].kind /\ b[m].handed = answer[c][m].handed
            /\ b[m].complete = answer[c][m].complete /\ b[m].aborted = answer[c][m].aborted
            /\ b[m].eof = answer[c][m].eof /\ b[m].closed = answer[c][m].closed
            /\ b[m].ended <=> answer[c][m].ended \/ m = n
  BY <1>1, EndedRest
<1> HIDE DEF b, q
<1>8. PICK k0, a0, s0, l, u, d, o, b0, q0 :
            /\ k0 = conn[c] /\ a0 = answer[c] /\ s0 = client[c] /\ l = LoopsOf(frames)
            /\ u = CallsOf(c, frames) /\ d = Due(c, jobs) /\ o = overrun
            /\ b0 = b /\ q0 = q
  OBVIOUS
<1>9. /\ k0 \in ConnFields /\ q0 \in ConnFields /\ b0 \in [Ns(c) -> AnswerFields]
      /\ OweInv(c, k0, a0, s0, l, u, d, o) /\ a0[n].handed /\ ~a0[n].ended
      /\ k0.res = 0 \/ k0.res \in Ns(c)
      /\ k0.sock \notin {"none", "closed"}
  BY <1>1, <1>2, <1>6, <1>7, <1>8
<1>10. \A m \in Ns(c) :
            /\ b0[m].kind = a0[m].kind /\ b0[m].handed = a0[m].handed
            /\ b0[m].complete = a0[m].complete /\ b0[m].aborted = a0[m].aborted
            /\ b0[m].eof = a0[m].eof /\ b0[m].closed = a0[m].closed
            /\ b0[m].ended <=> a0[m].ended \/ m = n
  BY <1>7, <1>8
<1>11. OweInv(c, k0, b0, s0, l, u, d, o)
  BY <1>9, <1>10, EndedOwes
<1>12. /\ q0.req = k0.req /\ q0.res = k0.res /\ q0.state = k0.state /\ q0.buffer = k0.buffer
       /\ q0.detached = k0.detached /\ q0.readableEnded = k0.readableEnded /\ Shuts(q0, k0)
  BY <1>4, <1>6, <1>8 DEF StaysAt, SameParse, Shuts
<1>13. k0.res = 0 \/ b0[k0.res].ended \/ c \in o
  <2> SUFFICES ASSUME k0.res # 0, c \notin o PROVE b0[k0.res].ended
    OBVIOUS
  <2>1. n = k0.res
    BY <1>9 DEF OweInv, IdleInv
  <2> QED BY <1>10, <2>1
<1>14. k0.buffer \in Seq(Nat \X Parts) /\ Later(q0.buffer, k0.buffer)
  BY <1>9, <1>12, LaterAtAll DEF ConnFields
<1>15. Open(q0) => Open(k0)
  BY <1>12 DEF Shuts, Open
<1>16. Open(q0) /\ q0.state = "IDLE" /\ (HasHead(q0.buffer) \/ q0.res # 0) /\ c \notin o => c \in l
  BY <1>11, <1>12, <1>15 DEF OweInv, IdleInv
<1>17. OweInv(c, q0, b0, s0, l, u, d, o)
  BY <1>9, <1>11, <1>12, <1>13, <1>14, <1>16, StateOwes
<1>18. ASSUME q0.detached, c \notin o, NEW m \in Ns(c), b0[m].handed PROVE b0[m].ended
  <2>1. m = n \/ a0[m].ended
    <3> SUFFICES ASSUME ~a0[m].ended PROVE m = n
      OBVIOUS
    <3>1. a0[m].handed /\ IdleInv(c, k0, a0, s0, l)
      BY <1>9, <1>10, <1>18 DEF OweInv
    <3>2. n <= m /\ m <= n
      BY <1>9, <3>1 DEF IdleInv
    <3> QED BY <3>2 DEF Ns
  <2> QED BY <1>10, <2>1
<1>19. OweInv(c, q0, b0, client[c], LoopsOf(frames), CallsOf(c, frames), Due(c, jobs), overrun)
  BY <1>8, <1>17
<1>20. /\ MaybeFinalize(c, b0, q0, frames, jobs) /\ q0.req = q0.res
       /\ q0.res = 0 \/ q0.res \in Ns(c)
       /\ q0.sock \notin {"none", "closed"}
  <2>1. k0.req = k0.res
    BY <1>9 DEF OweInv, BehindInv
  <2> QED BY <1>3, <1>8, <1>9, <1>12, <2>1 DEF Shuts
<1>21. q0.detached /\ c \notin overrun /\ q0.responseFinished =>
            \A m \in Ns(c) : b0[m].handed => b0[m].ended
  BY <1>8, <1>18
<1> QED BY <1>3, <1>9, <1>19, <1>20, <1>21, MaybeFinalizeOwes

\* Request n of the answers a completed, and aborted if v.
CompletedAt(a, n, v) ==
    [a EXCEPT ![n].complete = TRUE, ![n].eof = IF a[n].complete THEN @ ELSE @ + 1,
              ![n].aborted = v]

LEMMA CompletedAtFields ==
    ASSUME NEW c, NEW a \in [Ns(c) -> AnswerFields], NEW n \in Ns(c), NEW v \in BOOLEAN
    PROVE  LET b == CompletedAt(a, n, v)
           IN  /\ b \in [Ns(c) -> AnswerFields] /\ SameElse(c, b, a, n)
               /\ b[n].kind = a[n].kind /\ b[n].handed = a[n].handed /\ b[n].ended = a[n].ended
               /\ b[n].closed = a[n].closed /\ b[n].complete
               /\ b[n].aborted = v
               /\ b[n].eof = IF a[n].complete THEN a[n].eof ELSE a[n].eof + 1
<1> DEFINE e == IF a[n].complete THEN a[n].eof ELSE a[n].eof + 1
           y == [a[n] EXCEPT !.complete = TRUE, !.eof = e, !.aborted = v]
           b == [a EXCEPT ![n] = y]
<1>1. b = CompletedAt(a, n, v)
  BY DEF CompletedAt
<1>2. a[n] \in AnswerFields /\ e \in Nat
  BY DEF AnswerFields
<1>3. e = IF a[n].complete THEN a[n].eof ELSE a[n].eof + 1
  OBVIOUS
<1> HIDE DEF e
<1>4. /\ y \in AnswerFields /\ y.kind = a[n].kind /\ y.handed = a[n].handed
      /\ y.ended = a[n].ended /\ y.closed = a[n].closed /\ y.complete
      /\ y.aborted = v /\ y.eof = e
  BY <1>2 DEF AnswerFields
<1> HIDE DEF y
<1>5. b \in [Ns(c) -> AnswerFields] /\ b[n] = y /\ SameElse(c, b, a, n)
  BY <1>4 DEF SameElse
<1> HIDE DEF b
<1> QED BY <1>1, <1>3, <1>4, <1>5

LEMMA AbortedAt ==
    ASSUME NEW c, NEW a \in [Ns(c) -> AnswerFields], NEW n \in Ns(c)
    PROVE  [a EXCEPT ![n].aborted = TRUE, ![n].complete = TRUE,
                     ![n].eof = IF a[n].complete THEN @ ELSE @ + 1] = CompletedAt(a, n, TRUE)
<1> DEFINE e == IF a[n].complete THEN a[n].eof ELSE a[n].eof + 1
           x == [a[n] EXCEPT !.aborted = TRUE, !.complete = TRUE, !.eof = e]
           y == [a[n] EXCEPT !.complete = TRUE, !.eof = e, !.aborted = TRUE]
<1>1. a[n] \in AnswerFields
  OBVIOUS
<1>2. [a EXCEPT ![n].aborted = TRUE, ![n].complete = TRUE,
                ![n].eof = IF a[n].complete THEN @ ELSE @ + 1] = [a EXCEPT ![n] = x]
  OBVIOUS
<1>3. CompletedAt(a, n, TRUE) = [a EXCEPT ![n] = y]
  BY DEF CompletedAt
<1> HIDE DEF e
<1>4. x = y
  BY <1>1 DEF AnswerFields
<1> QED BY <1>2, <1>3, <1>4

\* The current request of a connection that is gone, or whose client is, is completed.
LEMMA GoneOwes ==
    ASSUME NEW c, NEW k \in ConnFields, NEW a \in [Ns(c) -> AnswerFields], NEW s, NEW loops,
           NEW calls, NEW due, NEW over, OweInv(c, k, a, s, loops, calls, due, over),
           k.res = 0 \/ k.res \in Ns(c), k.sock # "none", k.res # 0, ~a[k.res].aborted,
           NEW v \in BOOLEAN,
           v \/ k.state # "BODY" \/ ((k.readableEnded \/ k.sock = "closed") /\ c \notin loops)
    PROVE  OweInv(c, k, CompletedAt(a, k.res, v), s, loops, calls, due, over)
<1> DEFINE b == CompletedAt(a, k.res, v)
<1>1. k.res \in Ns(c)
  OBVIOUS
<1>2. PICK n \in Ns(c) : n = k.res
  BY <1>1
<1>3. b = CompletedAt(a, n, v)
  BY <1>2
<1> HIDE DEF b
<1>4. /\ b \in [Ns(c) -> AnswerFields] /\ SameElse(c, b, a, n)
      /\ b[n].kind = a[n].kind /\ b[n].handed = a[n].handed /\ b[n].ended = a[n].ended
      /\ b[n].closed = a[n].closed /\ b[n].complete /\ b[n].aborted = v
      /\ b[n].eof = IF a[n].complete THEN a[n].eof ELSE a[n].eof + 1
  BY <1>3, CompletedAtFields
<1>5. OweInv(c, k, b, s, loops, calls, due, over)
  BY <1>1, <1>2, <1>4, CompletedOwes
<1> QED BY <1>5 DEF b

LEMMA AbortsOwe ==
    ASSUME NEW c, NEW k \in ConnFields, NEW a \in [Ns(c) -> AnswerFields], NEW s, NEW loops,
           NEW calls, NEW due, NEW over, OweInv(c, k, a, s, loops, calls, due, over),
           k.res = 0 \/ k.res \in Ns(c), k.sock # "none"
    PROVE  OweInv(c, k, Aborts(a, k), s, loops, calls, due, over)
<1>1. k.req = k.res
  BY DEF OweInv, BehindInv
<1>2. CASE k.req # 0 /\ ~a[k.req].aborted /\ ~k.responseFinished
  <2>1. k.res \in Ns(c) /\ ~a[k.res].aborted /\ k.res # 0
    BY <1>1, <1>2
  <2>2. PICK n \in Ns(c) : n = k.req
    BY <1>1, <2>1
  <2>3. Aborts(a, k) = CompletedAt(a, k.res, TRUE)
    <3>1. Aborts(a, k) = [a EXCEPT ![n].aborted = TRUE, ![n].complete = TRUE,
                                   ![n].eof = IF a[n].complete THEN @ ELSE @ + 1]
      BY <1>2, <2>2 DEF Aborts
    <3>2. Aborts(a, k) = CompletedAt(a, n, TRUE)
      BY <3>1, AbortedAt
    <3> QED BY <1>1, <2>2, <3>2
  <2>4. OweInv(c, k, CompletedAt(a, k.res, TRUE), s, loops, calls, due, over)
    BY <2>1, GoneOwes
  <2> QED BY <2>3, <2>4
<1>3. CASE ~(k.req # 0 /\ ~a[k.req].aborted /\ ~k.responseFinished)
  BY <1>3 DEF Aborts
<1> QED BY <1>2, <1>3

-----------------------------------------------------------------------------
(* Steps of all connections, for what is owed.                               *)

\* Some connections are ended, destroyed or left alone, and some requests settled.
LEMMA ClosingOwes ==
    ASSUME SettleInv, ServerInv', NEW f, NEW g, JobsInv(jobs'),
           \A d \in Conns : Due(d, jobs') = Due(d, jobs),
           conn' = [d \in Conns |-> f[d]], answer' = [d \in Conns |-> g[d]],
           \A d \in Conns :
            /\ f[d] \in {conn[d], Ended(conn[d]), Destroyed(conn[d], FALSE)}
            /\ \/ g[d] = answer[d]
               \/ g[d] = Aborts(answer[d], conn[d]) /\ conn[d].sock # "none",
           UNCHANGED <<client, frames, overrun>>
    PROVE  SettleInv'
<1> SUFFICES ASSUME NEW d \in Conns
             PROVE  OweInv(d, conn'[d], answer'[d], client'[d], LoopsOf(frames'),
                           CallsOf(d, frames'), Due(d, jobs'), overrun')
  BY DEF SettleInv
<1>1. /\ conn[d] \in ConnFields /\ answer[d] \in [Ns(d) -> AnswerFields]
      /\ conn[d].res = 0 \/ conn[d].res \in Ns(d)
      /\ OweInv(d, conn[d], answer[d], client[d], LoopsOf(frames), CallsOf(d, frames),
                Due(d, jobs), overrun)
  BY OweFacts
<1>2. PICK k0, a0, s0, l, u, v, o, q0, b0 :
            /\ k0 = conn[d] /\ a0 = answer[d] /\ s0 = client[d] /\ l = LoopsOf(frames)
            /\ u = CallsOf(d, frames) /\ v = Due(d, jobs) /\ o = overrun
            /\ q0 = conn'[d] /\ b0 = answer'[d]
  OBVIOUS
<1>3. /\ k0 \in ConnFields /\ a0 \in [Ns(d) -> AnswerFields] /\ OweInv(d, k0, a0, s0, l, u, v, o)
      /\ k0.res = 0 \/ k0.res \in Ns(d)
      /\ q0 \in {k0, Ended(k0), Destroyed(k0, FALSE)}
      /\ b0 = a0 \/ (b0 = Aborts(a0, k0) /\ k0.sock # "none")
  BY <1>1, <1>2
<1>4. OweInv(d, k0, b0, s0, l, u, v, o)
  BY <1>3, AbortsOwe
<1>5. OweInv(d, q0, b0, s0, l, u, v, o)
  <2>1. CASE k0.sock = "none"
    BY <1>3, <1>4, <2>1 DEF Ended, Destroyed
  <2>2. CASE k0.sock # "none"
    <3>1. /\ Ended(k0) \in ConnFields /\ StaysAt(Ended(k0), k0)
          /\ Destroyed(k0, FALSE) \in ConnFields /\ StaysAt(Destroyed(k0, FALSE), k0)
      BY <1>3, ShutStays
    <3>2. q0 = k0 \/ (q0 \in ConnFields /\ StaysAt(q0, k0))
      BY <1>3, <3>1
    <3>3. CASE q0 = k0
      BY <1>4, <3>3
    <3>4. CASE q0 \in ConnFields /\ StaysAt(q0, k0)
      BY <1>3, <1>4, <2>2, <3>4, StaysOwe
    <3> QED BY <3>2, <3>3, <3>4
  <2> QED BY <2>1, <2>2
<1> QED BY <1>2, <1>5

\* No connection changes.
LEMMA SameOwes ==
    ASSUME SettleInv, ServerInv', JobsInv(jobs'), \A d \in Conns : Due(d, jobs') = Due(d, jobs),
           UNCHANGED <<conn, answer, client, frames, overrun>>
    PROVE  SettleInv'
<1>1. conn' = [d \in Conns |-> conn[d]] /\ answer' = [d \in Conns |-> answer[d]]
  BY DEF SettleInv, ServerInv, Typed
<1>2. \A d \in Conns : conn[d] \in {conn[d], Ended(conn[d]), Destroyed(conn[d], FALSE)}
  OBVIOUS
<1> QED BY <1>1, <1>2, ClosingOwes

LEMMA CloseOwes == ASSUME SettleInv, ServerInv', Close PROVE SettleInv'
<1>1. /\ jobs' = jobs \cup {[what |-> "closeIdle"]} /\ JobsInv(jobs)
      /\ UNCHANGED <<conn, answer, client, frames, overrun>>
  BY DEF Close, SettleInv
<1>2. PICK todo : todo = jobs
  OBVIOUS
<1>3. /\ JobsInv(todo \cup {[what |-> "closeIdle"]})
      /\ \A d \in Conns : Due(d, todo \cup {[what |-> "closeIdle"]}) = Due(d, todo)
  BY <1>1, <1>2, DueIdle
<1>4. JobsInv(jobs') /\ \A d \in Conns : Due(d, jobs') = Due(d, jobs)
  BY <1>1, <1>2, <1>3
<1> QED BY <1>1, <1>4, SameOwes

LEMMA CloseIdleOwes == ASSUME SettleInv, ServerInv', CloseIdleConnections PROVE SettleInv'
<1> DEFINE f == [c \in Conns |-> IF Registered(c) /\ conn[c].state = "IDLE"
                                THEN Ended(conn[c]) ELSE conn[c]]
<1>1. /\ jobs' = jobs \ {[what |-> "closeIdle"]} /\ JobsInv(jobs) /\ conn' = f
      /\ UNCHANGED <<answer, client, frames, overrun>>
  BY DEF CloseIdleConnections, SettleInv
<1>2. PICK todo : todo = jobs
  OBVIOUS
<1>3. /\ JobsInv(todo \ {[what |-> "closeIdle"]})
      /\ \A d \in Conns : Due(d, todo \ {[what |-> "closeIdle"]}) = Due(d, todo)
  BY <1>1, <1>2, DueIdle
<1>4. JobsInv(jobs') /\ \A d \in Conns : Due(d, jobs') = Due(d, jobs)
  BY <1>1, <1>2, <1>3
<1>5. \A d \in Conns : f[d] \in {conn[d], Ended(conn[d]), Destroyed(conn[d], FALSE)}
  OBVIOUS
<1>6. conn' = [d \in Conns |-> f[d]] /\ answer' = [d \in Conns |-> answer[d]]
  BY <1>1 DEF SettleInv, ServerInv, Typed
<1> HIDE DEF f
<1> QED BY <1>1, <1>4, <1>5, <1>6, ClosingOwes

LEMMA CloseAllOwes == ASSUME SettleInv, ServerInv', CloseAllConnections PROVE SettleInv'
<1> DEFINE f == [c \in Conns |-> Destroyed(conn[c], FALSE)]
<1>1. conn' = f /\ UNCHANGED <<answer, client, frames, jobs, overrun>> /\ JobsInv(jobs)
  BY DEF CloseAllConnections, SettleInv
<1>2. \A d \in Conns : f[d] \in {conn[d], Ended(conn[d]), Destroyed(conn[d], FALSE)}
  OBVIOUS
<1>3. conn' = [d \in Conns |-> f[d]] /\ answer' = [d \in Conns |-> answer[d]]
  BY <1>1 DEF SettleInv, ServerInv, Typed
<1>4. JobsInv(jobs') /\ \A d \in Conns : Due(d, jobs') = Due(d, jobs)
  BY <1>1
<1> HIDE DEF f
<1> QED BY <1>1, <1>2, <1>3, <1>4, ClosingOwes

LEMMA SignalOwes == ASSUME SettleInv, ServerInv', SignalClientAbort PROVE SettleInv'
<1> DEFINE f == [c \in Conns |-> Destroyed(conn[c], FALSE)]
           g == [c \in Conns |-> IF Registered(c) THEN Aborts(answer[c], conn[c]) ELSE answer[c]]
<1>1. /\ conn' = f /\ answer' = g /\ UNCHANGED <<client, frames, jobs, overrun>> /\ JobsInv(jobs)
  BY DEF SignalClientAbort, SettleInv
<1>2. \A d \in Conns : /\ f[d] \in {conn[d], Ended(conn[d]), Destroyed(conn[d], FALSE)}
                       /\ \/ g[d] = answer[d]
                          \/ g[d] = Aborts(answer[d], conn[d]) /\ conn[d].sock # "none"
  BY DEF Registered
<1>3. conn' = [d \in Conns |-> f[d]] /\ answer' = [d \in Conns |-> g[d]]
  BY <1>1
<1>4. JobsInv(jobs') /\ \A d \in Conns : Due(d, jobs') = Due(d, jobs)
  BY <1>1
<1> HIDE DEF f, g
<1> QED BY <1>1, <1>2, <1>3, <1>4, ClosingOwes

LEMMA ConnectionOwes ==
    ASSUME SettleInv, ServerInv', NEW c \in Conns, Connection(c)
    PROVE  SettleInv'
<1> DEFINE fresh == [NewConn EXCEPT !.sock = "open"]
<1>1. /\ UNCHANGED <<answer, client, frames, jobs, overrun>> /\ AtRest
      /\ \A d \in Conns :
            conn'[d] = IF d = c /\ conn[c].sock = "none" THEN fresh
                       ELSE IF conn[d].state = "IDLE" THEN Destroyed(conn[d], FALSE) ELSE conn[d]
  BY DEF Connection
<1> HIDE DEF fresh
<1> SUFFICES ASSUME NEW d \in Conns
             PROVE  OweInv(d, conn'[d], answer'[d], client'[d], LoopsOf(frames'),
                           CallsOf(d, frames'), Due(d, jobs'), overrun')
  BY <1>1 DEF SettleInv
<1>2. /\ conn[d] \in ConnFields /\ answer[d] \in [Ns(d) -> AnswerFields]
      /\ OweInv(d, conn[d], answer[d], client[d], LoopsOf(frames), CallsOf(d, frames),
                Due(d, jobs), overrun)
  BY OweFacts
<1>3. PICK k0, a0, s0, u, v, o, q0 :
            /\ k0 = conn[d] /\ a0 = answer[d] /\ s0 = client[d]
            /\ u = CallsOf(d, frames) /\ v = Due(d, jobs) /\ o = overrun /\ q0 = conn'[d]
  OBVIOUS
<1>4. LoopsOf(frames) = {}
  BY <1>1, NoFrames DEF SettleInv, ServerInv, AtRest
<1>5. k0 \in ConnFields /\ OweInv(d, k0, a0, s0, {}, u, v, o)
  BY <1>2, <1>3, <1>4
<1>6. OweInv(d, q0, a0, s0, {}, u, v, o)
  <2>1. CASE d = c /\ k0.sock = "none"
    <3>1. q0 = [NewConn EXCEPT !.sock = "open"]
      BY <1>1, <1>3, <2>1 DEF fresh
    <3>2. OweInv(d, [NewConn EXCEPT !.sock = "open"], a0, s0, {}, u, v, o)
      BY <1>5, <2>1, OpenedOwes
    <3> QED BY <3>1, <3>2
  <2>2. CASE ~(d = c /\ k0.sock = "none") /\ k0.sock # "none"
    <3>1. q0 = k0 \/ q0 = Destroyed(k0, FALSE)
      BY <1>1, <1>3, <2>2
    <3>2. Destroyed(k0, FALSE) \in ConnFields /\ StaysAt(Destroyed(k0, FALSE), k0)
      BY <1>5, ShutStays
    <3>3. OweInv(d, Destroyed(k0, FALSE), a0, s0, {}, u, v, o)
      BY <1>5, <2>2, <3>2, StaysOwe
    <3> QED BY <1>5, <3>1, <3>3
  <2>3. CASE d # c /\ k0.sock = "none"
    <3>1. q0 = k0
      BY <1>1, <1>3, <2>3 DEF Destroyed
    <3> QED BY <1>5, <3>1
  <2> QED BY <2>1, <2>2, <2>3
<1> QED BY <1>1, <1>3, <1>4, <1>6

-----------------------------------------------------------------------------
(* The clients and the events of the sockets, for what is owed.              *)

LEMMA KindedRest ==
    ASSUME NEW c, NEW a \in [Ns(c) -> AnswerFields], NEW kinds \in [Ns(c) -> AllKinds]
    PROVE  LET b == Kinded(c, a, kinds)
           IN  \A n \in Ns(c) :
                /\ b[n].handed = a[n].handed /\ b[n].ended = a[n].ended
                /\ b[n].complete = a[n].complete /\ b[n].aborted = a[n].aborted
                /\ b[n].eof = a[n].eof /\ b[n].closed = a[n].closed /\ b[n].kind = kinds[n]
<1>1. ASSUME NEW x \in AnswerFields, NEW v \in AllKinds
      PROVE  LET y == [x EXCEPT !.kind = v]
             IN  /\ y.handed = x.handed /\ y.ended = x.ended
                 /\ y.complete = x.complete /\ y.aborted = x.aborted
                 /\ y.eof = x.eof /\ y.closed = x.closed /\ y.kind = v
  BY DEF AnswerFields
<1>2. ASSUME NEW n \in Ns(c)
      PROVE  LET y == [a[n] EXCEPT !.kind = kinds[n]]
             IN  /\ y.handed = a[n].handed /\ y.ended = a[n].ended
                 /\ y.complete = a[n].complete /\ y.aborted = a[n].aborted
                 /\ y.eof = a[n].eof /\ y.closed = a[n].closed /\ y.kind = kinds[n]
  <2>1. a[n] \in AnswerFields /\ kinds[n] \in AllKinds
    OBVIOUS
  <2> QED BY <1>1, <2>1
<1> QED BY <1>2 DEF Kinded

LEMMA ArrivedRest ==
    ASSUME NEW k \in ConnFields, NEW p
    PROVE  [k EXCEPT !.timer = FALSE, !.buffer = p].readableEnded = k.readableEnded
BY DEF ConnFields

\* The frames of a parse loop that is entered where there was none.
LEMMA OneFrame ==
    ASSUME NEW c \in Conns, NEW data \in BOOLEAN, LoopsOf(<<>>) = {},
           \A d \in Conns : CallsOf(d, <<>>) = {}
    PROVE  LET f == Loop(c, data)
           IN  /\ LoopsOf(<<f>>) = {c} /\ Distinct(<<f>>)
               /\ \A d \in Conns : CallsOf(d, <<f>>) = {}
<1> DEFINE f == Loop(c, data)
<1>1. f \in FrameFields /\ f.at = "loop" /\ f.c = c
  BY LoopFrame DEF Loop
<1>2. /\ Distinct(<<>>) /\ <<>> \in Seq(FrameFields)
  BY DEF Distinct
<1> HIDE DEF f
<1>3. PICK fs \in Seq(FrameFields) : fs = <<>>
  BY <1>2
<1>4. Distinct(fs) /\ <<f>> \o fs = <<f>>
  BY <1>1, <1>2, <1>3
<1>5. /\ LoopsOf(<<f>> \o fs) = LoopsOf(fs) \cup {f.c} /\ Distinct(<<f>> \o fs)
      /\ \A d \in Conns : CallsOf(d, <<f>> \o fs) = CallsOf(d, fs)
  BY <1>1, <1>4, PushedFrames
<1> QED BY <1>1, <1>3, <1>4, <1>5 DEF f

LEMMA DataOwes ==
    ASSUME SettleInv, ServerInv', NEW c \in Conns, Data(c)
    PROVE  SettleInv'
<1>1. /\ Typed /\ conn[c] \in ConnFields /\ answer[c] \in [Ns(c) -> AnswerFields]
      /\ client[c] \in [n : Nat, i : Nat]
      /\ BufferInv(c, conn[c], answer[c], client[c])
      /\ OweInv(c, conn[c], answer[c], client[c], LoopsOf(frames), CallsOf(c, frames),
                Due(c, jobs), overrun)
  BY OweFacts
<1>2. PICK s \in Arrivals(c) :
        /\ client' = [client EXCEPT ![c] = [n |-> s.n, i |-> s.i]]
        /\ answer' = [answer EXCEPT ![c] = [n \in Ns(c) |-> [@[n] EXCEPT !.kind = s.kinds[n]]]]
        /\ IF conn[c].detached THEN UNCHANGED <<conn, frames>>
           ELSE /\ conn' = [conn EXCEPT ![c].timer = FALSE, ![c].buffer = @ \o s.run]
                /\ frames' = <<Loop(c, TRUE)>>
  BY DEF Data
<1>3. /\ UNCHANGED <<jobs, overrun>> /\ conn[c].sock \notin {"none", "closed"}
      /\ ~conn[c].readableEnded /\ AtRest
  BY DEF Data
<1>4. /\ frames = <<>> /\ LoopsOf(frames) = {} /\ \A d \in Conns : CallsOf(d, frames) = {}
  BY <1>1, <1>3, NoFrames DEF AtRest
<1>5. /\ client[c].n \in 0 .. Requests[c] /\ (client[c].n > 0 => client[c].i > 0)
      /\ \A m \in Ns(c) : m < client[c].n => answer[c][m].kind \in {"none", "length", "chunked"}
  BY <1>1 DEF BufferInv, OweInv, BehindInv
<1>6. /\ s \in SentFields(c) /\ client[c].n <= s.n
      /\ \A m \in Ns(c) : m <= client[c].n => s.kinds[m] = answer[c][m].kind
      /\ RunInv(client[c].n, s.n, s.run)
  BY <1>1, <1>5, ArrivalsSend
<1>7. Going(c, s)
  BY <1>1, <1>5, ArrivalsGo
<1>8. /\ s.n \in Nat /\ s.i \in Nat /\ s.run \in Seq(Nat \X Parts)
      /\ s.kinds \in [Ns(c) -> AllKinds]
  BY <1>6 DEF SentFields
<1>9. PICK b : /\ answer' = [answer EXCEPT ![c] = b]
               /\ \A n \in Ns(c) :
                    /\ b[n].handed = answer[c][n].handed /\ b[n].ended = answer[c][n].ended
                    /\ b[n].complete = answer[c][n].complete
                    /\ b[n].aborted = answer[c][n].aborted /\ b[n].eof = answer[c][n].eof
                    /\ b[n].closed = answer[c][n].closed /\ b[n].kind = s.kinds[n]
  <2> DEFINE b == Kinded(c, answer[c], s.kinds)
  <2>1. answer' = [answer EXCEPT ![c] = b]
    BY <1>2 DEF Kinded
  <2>2. \A n \in Ns(c) :
            /\ b[n].handed = answer[c][n].handed /\ b[n].ended = answer[c][n].ended
            /\ b[n].complete = answer[c][n].complete
            /\ b[n].aborted = answer[c][n].aborted /\ b[n].eof = answer[c][n].eof
            /\ b[n].closed = answer[c][n].closed /\ b[n].kind = s.kinds[n]
    BY <1>1, <1>8, KindedRest
  <2> HIDE DEF b
  <2> QED BY <2>1, <2>2
<1>10. PICK u \in [n : Nat, i : Nat] :
        client' = [client EXCEPT ![c] = u] /\ u.n = s.n /\ u.i = s.i
  <2>1. [n |-> s.n, i |-> s.i] \in [n : Nat, i : Nat]
    BY <1>8
  <2> QED BY <1>2, <2>1
<1>11. PICK q \in ConnFields :
        /\ conn' = [conn EXCEPT ![c] = q]
        /\ q.sock = conn[c].sock /\ q.req = conn[c].req /\ q.res = conn[c].res
        /\ q.state = conn[c].state /\ q.detached = conn[c].detached
        /\ q.responseFinished = conn[c].responseFinished
        /\ q.readableEnded = conn[c].readableEnded
        /\ q.buffer = IF conn[c].detached THEN conn[c].buffer ELSE conn[c].buffer \o s.run
  <2>1. CASE conn[c].detached
    <3>1. conn' = [conn EXCEPT ![c] = conn[c]]
      BY <1>1, <1>2, <2>1, WholeState
    <3> QED BY <1>1, <2>1, <3>1
  <2>2. CASE ~conn[c].detached
    <3> DEFINE p == conn[c].buffer \o s.run
               q == [conn[c] EXCEPT !.timer = FALSE, !.buffer = p]
    <3>1. conn' = [conn EXCEPT ![c] = q]
      BY <1>2, <2>2
    <3>2. /\ q \in ConnFields /\ q.sock = conn[c].sock /\ q.req = conn[c].req
          /\ q.res = conn[c].res /\ q.state = conn[c].state /\ q.detached = conn[c].detached
          /\ q.buffer = p /\ q.responseFinished = conn[c].responseFinished
      BY <1>1, <1>8, ArrivedFields
    <3>3. q.readableEnded = conn[c].readableEnded
      BY <1>1, ArrivedRest
    <3> HIDE DEF q
    <3> QED BY <2>2, <3>1, <3>2, <3>3
  <2> QED BY <2>1, <2>2
<1>12. /\ Distinct(frames') /\ \A d \in Conns : CallsOf(d, frames') = {}
       /\ \A d \in Conns \ {c} : d \notin LoopsOf(frames')
       /\ ~conn[c].detached => c \in LoopsOf(frames')
  <2>1. CASE conn[c].detached
    BY <1>2, <1>4, <2>1 DEF SettleInv
  <2>2. CASE ~conn[c].detached
    <3>1. /\ LoopsOf(<<Loop(c, TRUE)>>) = {c} /\ Distinct(<<Loop(c, TRUE)>>)
          /\ \A d \in Conns : CallsOf(d, <<Loop(c, TRUE)>>) = {}
      <4>1. LoopsOf(<<>>) = {} /\ \A d \in Conns : CallsOf(d, <<>>) = {}
        BY <1>4
      <4> QED BY <4>1, OneFrame
    <3> QED BY <1>2, <2>2, <3>1
  <2> QED BY <2>1, <2>2
<1>13. PICK k0, a0, s0, l, v, o, run :
            /\ k0 = conn[c] /\ a0 = answer[c] /\ s0 = client[c] /\ l = LoopsOf(frames')
            /\ v = Due(c, jobs) /\ o = overrun /\ run = s.run
  OBVIOUS
<1>14. /\ k0 \in ConnFields /\ a0 \in [Ns(c) -> AnswerFields] /\ s0 \in [n : Nat, i : Nat]
       /\ BufferInv(c, k0, a0, s0) /\ OweInv(c, k0, a0, s0, {}, {}, v, o)
       /\ run \in Seq(Nat \X Parts) /\ s0.n <= u.n /\ RunInv(s0.n, u.n, run)
       /\ k0.sock \notin {"none", "closed"} /\ ~k0.readableEnded
  BY <1>1, <1>3, <1>4, <1>6, <1>8, <1>10, <1>13
<1>15. \A m \in Ns(c) : m < u.n => b[m].kind \in {"none", "length", "chunked"}
  BY <1>7, <1>9, <1>10 DEF Going
<1>16. \A m \in Ns(c) : /\ m <= s0.n => b[m].kind = a0[m].kind
                        /\ b[m].handed = a0[m].handed /\ b[m].ended = a0[m].ended
                        /\ b[m].complete = a0[m].complete /\ b[m].aborted = a0[m].aborted
                        /\ b[m].eof = a0[m].eof /\ b[m].closed = a0[m].closed
  BY <1>6, <1>9, <1>13
<1>17. /\ q.sock = k0.sock /\ q.req = k0.req /\ q.res = k0.res /\ q.state = k0.state
       /\ q.detached = k0.detached /\ q.responseFinished = k0.responseFinished
       /\ q.readableEnded = k0.readableEnded
       /\ q.buffer = IF k0.detached THEN k0.buffer ELSE k0.buffer \o run
       /\ ~k0.detached => c \in l
  BY <1>11, <1>12, <1>13
<1>18. OweInv(c, q, b, u, l, {}, v, o)
  BY <1>14, <1>15, <1>16, <1>17, ArrivedOwes
<1>19. /\ conn'[c] = q /\ answer'[c] = b /\ client'[c] = u
       /\ \A d \in Conns \ {c} :
            /\ conn'[d] = conn[d] /\ answer'[d] = answer[d] /\ client'[d] = client[d]
  BY <1>1, <1>9, <1>10, <1>11 DEF Typed
<1>20. ElseStays(c)
  BY <1>3, <1>4, <1>12, <1>19 DEF ElseStays
<1>21. OweInv(c, conn'[c], answer'[c], client'[c], LoopsOf(frames'), CallsOf(c, frames'),
              Due(c, jobs'), overrun')
  BY <1>3, <1>12, <1>13, <1>18, <1>19
<1>22. Distinct(frames') /\ JobsInv(jobs')
  BY <1>3, <1>12 DEF SettleInv
<1> QED BY <1>20, <1>21, <1>22, OneOwes

LEMMA EndFlags ==
    ASSUME NEW k \in ConnFields
    PROVE  LET e == [k EXCEPT !.readableEnded = TRUE]
               h == [k EXCEPT !.closeAfterResponse = TRUE]
           IN  /\ e \in ConnFields /\ SameParse(e, k) /\ e.sock = k.sock /\ e.readableEnded
               /\ h \in ConnFields /\ StaysAt(h, k)
BY DEF ConnFields, SameParse, StaysAt, Shuts

\* The current request is completed when the client sends no more.
LEMMA GoneIs ==
    ASSUME NEW a, NEW k, NEW always \in BOOLEAN, k.req = k.res
    PROVE  GoneRequest(a, k, always) =
                IF k.res = 0 \/ a[k.res].aborted THEN a
                ELSE CompletedAt(a, k.res, always \/ ~k.responseFinished)
BY DEF GoneRequest, CompletedAt

LEMMA ReadableEndsOwes ==
    ASSUME SettleInv, ServerInv', NEW c \in Conns, ReadableEnds(c)
    PROVE  SettleInv'
<1> DEFINE k == [conn[c] EXCEPT !.readableEnded = TRUE]
           h == [k EXCEPT !.closeAfterResponse = TRUE]
           b == GoneRequest(answer[c], k, FALSE)
<1>1. /\ Typed /\ conn[c] \in ConnFields /\ answer[c] \in [Ns(c) -> AnswerFields]
      /\ conn[c].res = 0 \/ conn[c].res \in Ns(c)
      /\ OweInv(c, conn[c], answer[c], client[c], LoopsOf(frames), CallsOf(c, frames),
                Due(c, jobs), overrun)
  BY OweFacts
<1>2. /\ answer' = [answer EXCEPT ![c] = b]
      /\ conn' = [conn EXCEPT ![c] = h] \/ conn' = [conn EXCEPT ![c] = Ended(k)]
      /\ frames' = frames \/ (frames' = <<Loop(c, FALSE)>> /\ k.state = "IDLE")
      /\ AtRest /\ k.sock \in {"open", "ended"} /\ UNCHANGED <<client, jobs, overrun>>
  BY DEF ReadableEnds
<1>3. /\ frames = <<>> /\ LoopsOf(frames) = {} /\ \A d \in Conns : CallsOf(d, frames) = {}
  BY <1>1, <1>2, NoFrames DEF AtRest
<1>4. k \in ConnFields /\ SameParse(k, conn[c]) /\ k.sock = conn[c].sock /\ k.readableEnded
  BY <1>1, EndFlags
<1> HIDE DEF k
<1>5. h \in ConnFields /\ StaysAt(h, k)
  BY <1>4, EndFlags
<1>6. Ended(k) \in ConnFields /\ StaysAt(Ended(k), k)
  BY <1>4, ShutStays
<1> HIDE DEF h, b
<1>7. PICK q \in ConnFields : conn' = [conn EXCEPT ![c] = q] /\ StaysAt(q, k)
  BY <1>2, <1>5, <1>6
<1>8. /\ Distinct(frames') /\ \A d \in Conns : CallsOf(d, frames') = {}
      /\ LoopsOf(frames') = {} \/ (LoopsOf(frames') = {c} /\ k.state = "IDLE")
  <2>1. CASE frames' = frames
    BY <1>3, <2>1 DEF SettleInv
  <2>2. CASE frames' = <<Loop(c, FALSE)>> /\ k.state = "IDLE"
    <3>1. /\ LoopsOf(<<Loop(c, FALSE)>>) = {c} /\ Distinct(<<Loop(c, FALSE)>>)
          /\ \A d \in Conns : CallsOf(d, <<Loop(c, FALSE)>>) = {}
      <4>1. LoopsOf(<<>>) = {} /\ \A d \in Conns : CallsOf(d, <<>>) = {}
        BY <1>3
      <4> QED BY <4>1, OneFrame
    <3> QED BY <2>2, <3>1
  <2> QED BY <1>2, <2>1, <2>2
<1>9. PICK k0, k1, a0, s0, l, v, o, b0 :
            /\ k0 = conn[c] /\ k1 = k /\ a0 = answer[c] /\ s0 = client[c] /\ l = LoopsOf(frames')
            /\ v = Due(c, jobs) /\ o = overrun /\ b0 = b
  OBVIOUS
<1>10. /\ k0 \in ConnFields /\ k1 \in ConnFields /\ a0 \in [Ns(c) -> AnswerFields]
       /\ OweInv(c, k0, a0, s0, {}, {}, v, o)
       /\ k0.res = 0 \/ k0.res \in Ns(c)
       /\ SameParse(k1, k0) /\ k1.sock = k0.sock /\ k1.readableEnded /\ StaysAt(q, k1)
       /\ k1.sock \in {"open", "ended"}
       /\ l = {} \/ (l = {c} /\ k1.state = "IDLE")
  BY <1>1, <1>2, <1>3, <1>4, <1>7, <1>8, <1>9
<1>11. /\ k1.req = k0.req /\ k1.res = k0.res /\ k1.detached = k0.detached
       /\ k1.responseFinished = k0.responseFinished /\ k1.state = k0.state
       /\ k1.buffer = k0.buffer /\ Shuts(k1, k0) /\ k0.req = k0.res
       /\ k0.buffer \in Seq(Nat \X Parts)
  BY <1>10 DEF SameParse, Shuts, OweInv, BehindInv, ConnFields
<1>12. Later(k1.buffer, k0.buffer)
  BY <1>11, LaterAtAll
<1>13. Open(k1) /\ k1.state = "IDLE" /\ (HasHead(k1.buffer) \/ k1.res # 0) /\ c \notin o => FALSE
  BY <1>10, <1>11 DEF OweInv, IdleInv, Open
<1>14. OweInv(c, k1, a0, s0, {}, {}, v, o)
  BY <1>10, <1>11, <1>12, <1>13, StateOwes
<1>15. OweInv(c, k1, b0, s0, {}, {}, v, o)
  <2>1. b0 = IF k1.res = 0 \/ a0[k1.res].aborted THEN a0
             ELSE CompletedAt(a0, k1.res, FALSE \/ ~k1.responseFinished)
    <3>1. b0 = GoneRequest(a0, k1, FALSE)
      BY <1>9 DEF b
    <3>2. k1.req = k1.res
      BY <1>11
    <3> QED BY <3>1, <3>2, GoneIs
  <2>2. CASE k1.res = 0 \/ a0[k1.res].aborted
    BY <1>14, <2>1, <2>2
  <2>3. CASE ~(k1.res = 0 \/ a0[k1.res].aborted)
    <3>1. PICK w \in BOOLEAN : w = (FALSE \/ ~k1.responseFinished)
      OBVIOUS
    <3>2. OweInv(c, k1, CompletedAt(a0, k1.res, w), s0, {}, {}, v, o)
      BY <1>10, <1>11, <1>14, <2>3, GoneOwes
    <3> QED BY <2>1, <2>3, <3>1, <3>2
  <2> QED BY <2>2, <2>3
<1>16. OweInv(c, q, b0, s0, {}, {}, v, o)
  BY <1>10, <1>15, StaysOwe
<1>17. OweInv(c, q, b0, s0, l, {}, v, o)
  <2>1. CASE l = {}
    BY <1>16, <2>1
  <2>2. CASE l = {c} /\ k1.state = "IDLE"
    <3>1. /\ q.buffer \in Seq(Nat \X Parts) /\ q.state = "IDLE" /\ q.sock \notin {"none", "closed"}
      BY <1>10, <2>2 DEF ConnFields, StaysAt, SameParse, Shuts
    <3>2. Later(q.buffer, q.buffer) /\ Shuts(q, q)
      BY <3>1, LaterAtAll DEF Shuts
    <3>3. OweInv(c, q, b0, s0, l, {}, v, o)
      BY <1>16, <2>2, <3>1, <3>2, StateOwes
    <3> QED BY <3>3
  <2> QED BY <1>10, <2>1, <2>2
<1>18. OweInv(c, q, b, client[c], LoopsOf(frames'), CallsOf(c, frames'), Due(c, jobs'), overrun')
  BY <1>2, <1>8, <1>9, <1>17
<1>19. JobsInv(jobs') /\ \A d \in Conns \ {c} :
            /\ d \in LoopsOf(frames') <=> d \in LoopsOf(frames)
            /\ CallsOf(d, frames') = CallsOf(d, frames) /\ Due(d, jobs') = Due(d, jobs)
  BY <1>2, <1>3, <1>8 DEF SettleInv
<1> QED BY <1>2, <1>7, <1>8, <1>18, <1>19, OneGoesOwes

\* One more close of the response n.
ClosedMore(a, n) == [a EXCEPT ![n].closed = @ + 1]

LEMMA ClosedMoreFields ==
    ASSUME NEW c, NEW a \in [Ns(c) -> AnswerFields], NEW n \in Ns(c)
    PROVE  LET b == ClosedMore(a, n)
           IN  /\ SameElse(c, b, a, n)
               /\ b[n].kind = a[n].kind /\ b[n].handed = a[n].handed /\ b[n].ended = a[n].ended
               /\ b[n].complete = a[n].complete /\ b[n].aborted = a[n].aborted
               /\ b[n].eof = a[n].eof /\ b[n].closed = a[n].closed + 1
<1> DEFINE e == a[n].closed + 1
           y == [a[n] EXCEPT !.closed = e]
           b == [a EXCEPT ![n] = y]
<1>1. b = ClosedMore(a, n)
  BY DEF ClosedMore
<1>2. a[n] \in AnswerFields /\ e = a[n].closed + 1
  OBVIOUS
<1> HIDE DEF e
<1>3. /\ y.kind = a[n].kind /\ y.handed = a[n].handed /\ y.ended = a[n].ended
      /\ y.complete = a[n].complete /\ y.aborted = a[n].aborted /\ y.eof = a[n].eof
      /\ y.closed = e
  BY <1>2 DEF AnswerFields
<1> HIDE DEF y
<1>4. b[n] = y /\ SameElse(c, b, a, n)
  BY DEF SameElse
<1> HIDE DEF b
<1> QED BY <1>1, <1>2, <1>3, <1>4

\* What the close of the socket makes of the answers a of a connection in state k.
ClosedWith(a, k) ==
    LET e == IF k.error THEN GoneRequest(a, k, TRUE) ELSE a
    IN  ClosedMore(GoneRequest(e, k, FALSE), k.res)

LEMMA CloseAnswers ==
    ASSUME NEW c, NEW k \in ConnFields, NEW a \in [Ns(c) -> AnswerFields], k.res \in Ns(c),
           k.req = k.res, NEW b, b = ClosedWith(a, k)
    PROVE  /\ SameElse(c, b, a, k.res)
           /\ b[k.res].kind = a[k.res].kind /\ b[k.res].handed = a[k.res].handed
           /\ b[k.res].ended = a[k.res].ended /\ b[k.res].closed = a[k.res].closed + 1
           /\ a[k.res].aborted => b[k.res].aborted
           /\ \/ b[k.res].complete = a[k.res].complete /\ b[k.res].eof = a[k.res].eof
                    /\ a[k.res].aborted
              \/ /\ b[k.res].complete
                 /\ b[k.res].eof = IF a[k.res].complete THEN a[k.res].eof ELSE a[k.res].eof + 1
<1> DEFINE e == IF k.error THEN GoneRequest(a, k, TRUE) ELSE a
<1>1. PICK n \in Ns(c) : n = k.res
  OBVIOUS
<1>2. n # 0 /\ k.error \in BOOLEAN /\ k.responseFinished \in BOOLEAN
  BY DEF Ns, ConnFields
<1>3. PICK f : f = GoneRequest(e, k, FALSE)
  OBVIOUS
<1>4. /\ a[n].aborted => GoneRequest(a, k, TRUE) = a /\ GoneRequest(a, k, FALSE) = a
      /\ ~a[n].aborted => /\ GoneRequest(a, k, TRUE) = CompletedAt(a, n, TRUE)
                          /\ GoneRequest(a, k, FALSE) = CompletedAt(a, n, ~k.responseFinished)
  <2>1. /\ GoneRequest(a, k, TRUE) = IF k.res = 0 \/ a[k.res].aborted THEN a
                ELSE CompletedAt(a, k.res, TRUE \/ ~k.responseFinished)
        /\ GoneRequest(a, k, FALSE) = IF k.res = 0 \/ a[k.res].aborted THEN a
                ELSE CompletedAt(a, k.res, FALSE \/ ~k.responseFinished)
    BY GoneIs
  <2>2. (TRUE \/ ~k.responseFinished) = TRUE /\ (FALSE \/ ~k.responseFinished) = ~k.responseFinished
    BY <1>2
  <2> QED BY <1>1, <1>2, <2>1, <2>2
<1>5. CompletedAt(a, n, TRUE)[n].aborted
  BY CompletedAtFields
<1>6. (f = a /\ a[n].aborted) \/ \E w \in BOOLEAN : ~a[n].aborted /\ f = CompletedAt(a, n, w)
  <2>1. CASE a[n].aborted
    BY <1>3, <1>4, <2>1
  <2>2. CASE ~a[n].aborted /\ ~k.error
    BY <1>2, <1>3, <1>4, <2>2
  <2>3. CASE ~a[n].aborted /\ k.error
    <3>1. e = CompletedAt(a, n, TRUE)
      BY <1>4, <2>3
    <3>2. f = IF k.res = 0 \/ e[k.res].aborted THEN e
              ELSE CompletedAt(e, k.res, FALSE \/ ~k.responseFinished)
      BY <1>3, GoneIs
    <3>3. f = e
      BY <1>1, <1>5, <3>1, <3>2
    <3> QED BY <2>3, <3>1, <3>3
  <2> QED BY <2>1, <2>2, <2>3
<1>7. /\ f \in [Ns(c) -> AnswerFields] /\ SameElse(c, f, a, n)
      /\ f[n].kind = a[n].kind /\ f[n].handed = a[n].handed /\ f[n].ended = a[n].ended
      /\ f[n].closed = a[n].closed
      /\ a[n].aborted => f[n].aborted
      /\ \/ f[n].complete = a[n].complete /\ f[n].eof = a[n].eof /\ a[n].aborted
         \/ f[n].complete /\ f[n].eof = IF a[n].complete THEN a[n].eof ELSE a[n].eof + 1
  <2>1. CASE f = a /\ a[n].aborted
    BY <2>1 DEF SameElse
  <2>2. ASSUME NEW w \in BOOLEAN, ~a[n].aborted, f = CompletedAt(a, n, w)
        PROVE  /\ f \in [Ns(c) -> AnswerFields] /\ SameElse(c, f, a, n)
               /\ f[n].kind = a[n].kind /\ f[n].handed = a[n].handed /\ f[n].ended = a[n].ended
               /\ f[n].closed = a[n].closed /\ f[n].complete
               /\ f[n].eof = IF a[n].complete THEN a[n].eof ELSE a[n].eof + 1
    BY <2>2, CompletedAtFields
  <2> QED BY <1>6, <2>1, <2>2
<1>8. b = ClosedMore(f, n) /\ f \in [Ns(c) -> AnswerFields]
  BY <1>1, <1>3, <1>7 DEF ClosedWith
<1>9. /\ SameElse(c, b, f, n)
      /\ b[n].kind = f[n].kind /\ b[n].handed = f[n].handed /\ b[n].ended = f[n].ended
      /\ b[n].complete = f[n].complete /\ b[n].aborted = f[n].aborted
      /\ b[n].eof = f[n].eof /\ b[n].closed = f[n].closed + 1
  <2>1. SameElse(c, ClosedMore(f, n), f, n)
    BY <1>8, ClosedMoreFields
  <2>2. LET x == ClosedMore(f, n)
        IN  /\ x[n].kind = f[n].kind /\ x[n].handed = f[n].handed /\ x[n].ended = f[n].ended
            /\ x[n].complete = f[n].complete /\ x[n].aborted = f[n].aborted
            /\ x[n].eof = f[n].eof /\ x[n].closed = f[n].closed + 1
    BY <1>8, ClosedMoreFields
  <2> QED BY <1>8, <2>1, <2>2
<1>10. SameElse(c, b, a, n)
  BY <1>7, <1>9 DEF SameElse
<1> QED BY <1>1, <1>7, <1>9, <1>10

LEMMA SocketClosesOwes ==
    ASSUME SettleInv, ServerInv', NEW c \in Conns, SocketCloses(c)
    PROVE  SettleInv'
<1> DEFINE k == conn[c]
           e == IF k.error THEN GoneRequest(answer[c], k, TRUE) ELSE answer[c]
           g == GoneRequest(e, k, FALSE)
           q == [k EXCEPT !.sock = "closed"]
<1>1. /\ Typed /\ k \in ConnFields /\ answer[c] \in [Ns(c) -> AnswerFields]
      /\ k.res = 0 \/ k.res \in Ns(c)
      /\ OweInv(c, k, answer[c], client[c], LoopsOf(frames), CallsOf(c, frames),
                Due(c, jobs), overrun)
  BY OweFacts
<1>2. /\ AtRest /\ k.sock = "destroyed" /\ conn' = [conn EXCEPT ![c] = q]
      /\ UNCHANGED <<client, frames, jobs, overrun>>
      /\ answer' = IF k.detached THEN answer
                   ELSE [answer EXCEPT ![c] =
                            IF k.res = 0 THEN g ELSE [g EXCEPT ![k.res].closed = @ + 1]]
  BY DEF SocketCloses
<1>3. q \in ConnFields /\ SameParse(q, k) /\ q.sock = "closed"
  <2>1. q.sock = "closed"
    BY <1>1 DEF ConnFields
  <2> QED BY <1>1, <2>1, ClosedFields
<1>4. LoopsOf(frames) = {} /\ CallsOf(c, frames) = {}
  BY <1>1, <1>2, NoFrames DEF AtRest
<1>5. PICK k0, q0, a0, s0, v, o :
            /\ k0 = k /\ q0 = q /\ a0 = answer[c] /\ s0 = client[c] /\ v = Due(c, jobs)
            /\ o = overrun
  OBVIOUS
<1>6. /\ k0 \in ConnFields /\ q0 \in ConnFields /\ a0 \in [Ns(c) -> AnswerFields]
      /\ k0.res = 0 \/ k0.res \in Ns(c)
      /\ OweInv(c, k0, a0, s0, {}, {}, v, o)
      /\ k0.sock = "destroyed" /\ q0.sock = "closed" /\ SameParse(q0, k0)
  BY <1>1, <1>2, <1>3, <1>4, <1>5
<1>7. k0.req = k0.res
  BY <1>6 DEF OweInv, BehindInv
<1>8. \E b : answer' = [answer EXCEPT ![c] = b] /\ OweInv(c, q0, b, s0, {}, {}, v, o)
  <2>1. CASE k0.detached \/ k0.res = 0
    <3>1. answer' = [answer EXCEPT ![c] = a0]
      <4>1. answer = [answer EXCEPT ![c] = answer[c]]
        BY <1>1, WholeState
      <4>2. CASE k0.detached
        BY <1>2, <1>5, <4>1, <4>2
      <4>3. CASE k0.res = 0
        <5>1. k.req = 0 /\ k.res = 0
          BY <1>5, <1>7, <4>3
        <5>2. e = answer[c] /\ g = e
          BY <5>1 DEF GoneRequest
        <5> HIDE DEF e, g, k
        <5> QED BY <1>2, <1>5, <4>1, <5>1, <5>2
      <4> QED BY <2>1, <4>2, <4>3
    <3>2. SameElse(c, a0, a0, k0.res) /\ (k0.res \in Ns(c) => k0.detached)
      BY <2>1 DEF SameElse, Ns
    <3>3. OweInv(c, q0, a0, s0, {}, {}, v, o)
      BY <1>6, <3>2, ClosedOwes
    <3> QED BY <3>1, <3>3
  <2>2. CASE ~k0.detached /\ k0.res # 0
    <3>1. PICK x, y, b : /\ x = (IF k0.error THEN GoneRequest(a0, k0, TRUE) ELSE a0)
                         /\ y = GoneRequest(x, k0, FALSE) /\ b = ClosedMore(y, k0.res)
      OBVIOUS
    <3>2. answer' = [answer EXCEPT ![c] = b]
      <4>1. x = e /\ y = g
        BY <1>5, <3>1
      <4>2. b = [g EXCEPT ![k.res].closed = @ + 1]
        BY <1>5, <3>1, <4>1 DEF ClosedMore
      <4>3. ~k.detached /\ k.res # 0
        BY <1>5, <2>2
      <4> HIDE DEF e, g, k
      <4> QED BY <1>2, <4>2, <4>3
    <3>3. k0.res \in Ns(c) /\ b = ClosedMore(GoneRequest(x, k0, FALSE), k0.res)
      BY <1>6, <2>2, <3>1
    <3>4. /\ SameElse(c, b, a0, k0.res)
          /\ b[k0.res].kind = a0[k0.res].kind /\ b[k0.res].handed = a0[k0.res].handed
          /\ b[k0.res].ended = a0[k0.res].ended
          /\ b[k0.res].closed = a0[k0.res].closed + 1
          /\ a0[k0.res].aborted => b[k0.res].aborted
          /\ \/ b[k0.res].complete = a0[k0.res].complete /\ b[k0.res].eof = a0[k0.res].eof
                    /\ a0[k0.res].aborted
             \/ /\ b[k0.res].complete
                /\ b[k0.res].eof = IF a0[k0.res].complete THEN a0[k0.res].eof
                                   ELSE a0[k0.res].eof + 1
      <4>1. /\ k0 \in ConnFields /\ a0 \in [Ns(c) -> AnswerFields] /\ k0.res \in Ns(c)
            /\ k0.req = k0.res /\ b = ClosedWith(a0, k0)
        BY <1>6, <1>7, <3>1, <3>3 DEF ClosedWith
      <4> HIDE DEF k, e, g, q
      <4> QED BY <4>1, CloseAnswers
    <3>5. OweInv(c, q0, b, s0, {}, {}, v, o)
      BY <1>6, <2>2, <3>4, ClosedOwes
    <3> QED BY <3>2, <3>5
  <2> QED BY <2>1, <2>2
<1>9. PICK b : answer' = [answer EXCEPT ![c] = b] /\ OweInv(c, q0, b, s0, {}, {}, v, o)
  BY <1>8
<1>10. OweInv(c, q0, b, client[c], LoopsOf(frames'), CallsOf(c, frames'), Due(c, jobs'), overrun')
  BY <1>2, <1>4, <1>5, <1>9
<1>11. conn' = [conn EXCEPT ![c] = q0] /\ Distinct(frames') /\ JobsInv(jobs')
  BY <1>2, <1>5 DEF SettleInv
<1> HIDE DEF k, e, g, q
<1> QED BY <1>2, <1>9, <1>10, <1>11, OneGoesOwes

LEMMA ResponseClosesOwes ==
    ASSUME SettleInv, ServerInv', NEW j, ResponseCloses(j)
    PROVE  SettleInv'
<1>1. /\ j \in jobs /\ j.what = "close" /\ jobs' = jobs \ {j} /\ JobsInv(jobs) /\ Typed
      /\ answer' = [answer EXCEPT ![j.c][j.n].closed = @ + 1]
      /\ UNCHANGED <<conn, client, frames, overrun>>
  BY DEF ResponseCloses, SettleInv, ServerInv
<1>2. PICK c, n : c = j.c /\ n = j.n
  OBVIOUS
<1>3. /\ j = CloseOf(c, n) /\ jobs' = CloseDone(jobs, c, n)
      /\ answer' = [answer EXCEPT ![c][n].closed = @ + 1]
  BY <1>1, <1>2 DEF JobsInv, CloseDone
<1>4. /\ JobsInv(jobs') /\ Due(c, jobs') = DueBut(Due(c, jobs), n)
      /\ \A d \in Conns \ {c} : Due(d, jobs') = Due(d, jobs)
  <2>1. PICK todo, less : todo = jobs /\ less = jobs'
    OBVIOUS
  <2>2. JobsInv(todo) /\ less = CloseDone(todo, c, n)
    BY <1>1, <1>3, <2>1
  <2>3. /\ JobsInv(less) /\ Due(c, less) = DueBut(Due(c, todo), n)
        /\ \A d \in Conns \ {c} : Due(d, less) = Due(d, todo)
    BY <2>2, DueLess
  <2> QED BY <2>1, <2>3
<1>5. CASE c \notin Conns
  <2>1. answer' = answer
    BY <1>1, <1>3, <1>5 DEF Typed
  <2>2. \A d \in Conns : Due(d, jobs') = Due(d, jobs)
    BY <1>4, <1>5
  <2> QED BY <1>1, <1>4, <2>1, <2>2, SameOwes
<1>6. CASE c \in Conns /\ n \notin Ns(c)
  <2>1. answer[c] \in [Ns(c) -> AnswerFields] /\ answer = [answer EXCEPT ![c] = answer[c]]
    BY <1>1, <1>6, WholeState
  <2>2. [answer[c] EXCEPT ![n].closed = @ + 1] = answer[c]
    BY <1>6, <2>1
  <2>3. answer' = answer
    <3>1. answer' = [answer EXCEPT ![c] = [answer[c] EXCEPT ![n].closed = @ + 1]]
      BY <1>3
    <3> QED BY <2>1, <2>2, <3>1
  <2>4. Due(c, jobs') = Due(c, jobs)
    <3>1. n \notin Due(c, jobs)
      BY <1>6 DEF Due
    <3> QED BY <1>4, <3>1 DEF DueBut
  <2>5. \A d \in Conns : Due(d, jobs') = Due(d, jobs)
    BY <1>4, <2>4
  <2> QED BY <1>1, <1>4, <2>3, <2>5, SameOwes
<1>7. CASE c \in Conns /\ n \in Ns(c)
  <2>1. /\ conn[c] \in ConnFields /\ answer[c] \in [Ns(c) -> AnswerFields]
        /\ conn[c].res = 0 \/ conn[c].res \in Ns(c)
        /\ OweInv(c, conn[c], answer[c], client[c], LoopsOf(frames), CallsOf(c, frames),
                  Due(c, jobs), overrun)
    BY <1>7, OweFacts
  <2>2. n \in Due(c, jobs)
    BY <1>1, <1>3, <1>7 DEF Due
  <2>3. PICK k0, a0, s0, l, u, v, left, o, b :
            /\ k0 = conn[c] /\ a0 = answer[c] /\ s0 = client[c] /\ l = LoopsOf(frames)
            /\ u = CallsOf(c, frames) /\ v = Due(c, jobs) /\ left = Due(c, jobs')
            /\ o = overrun /\ b = ClosedMore(answer[c], n)
    OBVIOUS
  <2>4. /\ k0 \in ConnFields /\ a0 \in [Ns(c) -> AnswerFields]
        /\ k0.res = 0 \/ k0.res \in Ns(c)
        /\ OweInv(c, k0, a0, s0, l, u, v, o) /\ n \in v /\ left = v \ {n}
    BY <1>4, <2>1, <2>2, <2>3 DEF DueBut
  <2>5. k0.sock # "none"
    BY <1>7, <2>4 DEF OweInv, BehindInv
  <2>6. b = ClosedMore(a0, n)
    BY <2>3
  <2>7. /\ SameElse(c, b, a0, n)
        /\ b[n].kind = a0[n].kind /\ b[n].handed = a0[n].handed /\ b[n].ended = a0[n].ended
        /\ b[n].complete = a0[n].complete /\ b[n].aborted = a0[n].aborted
        /\ b[n].eof = a0[n].eof /\ b[n].closed = a0[n].closed + 1
    BY <1>7, <2>4, <2>6, ClosedMoreFields
  <2>8. OweInv(c, k0, b, s0, l, u, left, o)
    BY <1>7, <2>4, <2>5, <2>7, TickOwes
  <2>9. OweInv(c, conn[c], b, client[c], LoopsOf(frames'), CallsOf(c, frames'), Due(c, jobs'),
               overrun')
    BY <1>1, <2>3, <2>8
  <2>10. answer' = [answer EXCEPT ![c] = b]
    BY <1>3, <2>3 DEF ClosedMore
  <2>11. conn' = [conn EXCEPT ![c] = conn[c]]
    BY <1>1, <1>7, WholeState
  <2>12. Distinct(frames') /\ \A d \in Conns \ {c} :
            /\ d \in LoopsOf(frames') <=> d \in LoopsOf(frames)
            /\ CallsOf(d, frames') = CallsOf(d, frames) /\ Due(d, jobs') = Due(d, jobs)
    BY <1>1, <1>4 DEF SettleInv
  <2> QED BY <1>1, <1>4, <1>7, <2>9, <2>10, <2>11, <2>12, OneGoesOwes
<1> QED BY <1>5, <1>6, <1>7

-----------------------------------------------------------------------------
(* Nothing is owed.                                                          *)

LEMMA InitSettleInv == Init => SettleInv
<1> SUFFICES ASSUME Init PROVE SettleInv
  OBVIOUS
<1>1. ServerInv
  BY InitServerInv
<1>2. frames = <<>> /\ Len(frames) = 0 /\ jobs = {}
  BY DEF Init
<1>3. Distinct(frames) /\ JobsInv(jobs)
  BY <1>2 DEF Distinct, JobsInv
<1>4. ASSUME NEW c \in Conns
      PROVE  OweInv(c, conn[c], answer[c], client[c], LoopsOf(frames), CallsOf(c, frames),
                    Due(c, jobs), overrun)
  <2>1. LoopsOf(frames) = {} /\ CallsOf(c, frames) = {} /\ Due(c, jobs) = {}
    BY <1>2 DEF LoopsOf, CallsOf, Due
  <2>2. PICK k, a, s : k = conn[c] /\ a = answer[c] /\ s = client[c]
    OBVIOUS
  <2>3. k = NewConn /\ s.n = 0 /\ \A n \in Ns(c) : a[n] = NewAnswer
    BY <2>2 DEF Init
  <2>4. /\ k.sock = "none" /\ k.req = 0 /\ k.res = 0 /\ ~k.detached /\ k.state = "IDLE"
        /\ k.buffer = <<>> /\ ~Open(k) /\ ~k.responseFinished
    BY <2>3 DEF NewConn, Open
  <2>5. \A n \in Ns(c) : /\ Untouched(a[n]) /\ ~a[n].handed /\ ~a[n].aborted /\ ~a[n].complete
                         /\ a[n].eof = 0 /\ a[n].closed = 0 /\ n \in Nat /\ n # 0
    BY <2>3 DEF NewAnswer, Untouched, Ns
  <2>6. BehindInv(c, k, a, s, {}, {})
    BY <2>3, <2>4, <2>5 DEF BehindInv
  <2>7. EndsInv(c, k, a, {}, {})
    BY <2>4, <2>5 DEF EndsInv
  <2>8. ClosesInv(c, k, a, {}) /\ IdleInv(c, k, a, s, {})
    BY <2>4, <2>5 DEF ClosesInv, IdleInv
  <2>9. OweInv(c, k, a, s, {}, {}, {}, overrun)
    BY <2>6, <2>7, <2>8 DEF OweInv
  <2> QED BY <2>1, <2>2, <2>9
<1> QED BY <1>1, <1>3, <1>4 DEF SettleInv

LEMMA StepSettleInv == SettleInv /\ [Next]_vars => SettleInv'
<1> SUFFICES ASSUME SettleInv, [Next]_vars PROVE SettleInv'
  OBVIOUS
<1>0. ServerInv'
  BY StepServerInv DEF SettleInv
<1>1. CASE ParseTurn
  BY <1>0, <1>1, ParseTurnOwes
<1>2. CASE RequestReturns
  BY <1>0, <1>2, RequestReturnsOwes
<1>3. CASE CloseIdleConnections
  BY <1>0, <1>3, CloseIdleOwes
<1>4. CASE \E j \in jobs : ResponseCloses(j)
  BY <1>0, <1>4, ResponseClosesOwes
<1>5. ASSUME NEW c \in Conns, SocketFinishes(c) PROVE SettleInv'
  BY <1>0, <1>5, DestroyOwes DEF SocketFinishes
<1>6. ASSUME NEW c \in Conns, SocketCloses(c) PROVE SettleInv'
  BY <1>0, <1>6, SocketClosesOwes
<1>7. CASE Close
  BY <1>0, <1>7, CloseOwes
<1>8. CASE CloseAllConnections
  BY <1>0, <1>8, CloseAllOwes
<1>9. CASE SignalClientAbort
  BY <1>0, <1>9, SignalOwes
<1>10. ASSUME NEW c \in Conns, Connection(c) PROVE SettleInv'
  BY <1>0, <1>10, ConnectionOwes
<1>11. ASSUME NEW c \in Conns, Data(c) PROVE SettleInv'
  BY <1>0, <1>11, DataOwes
<1>12. ASSUME NEW c \in Conns, ReadableEnds(c) PROVE SettleInv'
  BY <1>0, <1>12, ReadableEndsOwes
<1>13. ASSUME NEW c \in Conns, ClientResets(c) PROVE SettleInv'
  BY <1>0, <1>13, DestroyOwes DEF ClientResets
<1>14. ASSUME NEW c \in Conns, IdleTimeout(c) PROVE SettleInv'
  BY <1>0, <1>14, DestroyOwes DEF IdleTimeout
<1>15. ASSUME NEW c \in Conns, NEW n \in Ns(c), Write(c, n) PROVE SettleInv'
  BY <1>0, <1>15, WriteOwes
<1>16. ASSUME NEW c \in Conns, NEW n \in Ns(c), End(c, n) PROVE SettleInv'
  BY <1>0, <1>16, EndOwes
<1>17. ASSUME NEW c \in Conns, NEW n \in Ns(c), DestroyResponse(c, n) PROVE SettleInv'
  BY <1>0, <1>17, DestroyResponseOwes
<1>18. CASE UNCHANGED vars
  <2>1. UNCHANGED <<conn, answer, client, frames, jobs, overrun>>
    BY <1>18 DEF vars
  <2>2. JobsInv(jobs') /\ \A d \in Conns : Due(d, jobs') = Due(d, jobs)
    BY <2>1 DEF SettleInv
  <2> QED BY <1>0, <2>1, <2>2, SameOwes
<1> QED BY <1>1, <1>2, <1>3, <1>4, <1>5, <1>6, <1>7, <1>8, <1>9, <1>10, <1>11, <1>12,
           <1>13, <1>14, <1>15, <1>16, <1>17, <1>18 DEF Next, Handlers

\* In every reachable state a request is touched only once its head is off the buffer and only
\* by frames and jobs that are there for it, its end and its response are settled once, and a
\* parser that is idle and holds a request has a turn of its loop to come.
THEOREM SettleInvIsInvariant == Spec => []SettleInv
<1> QED BY InitSettleInv, StepSettleInv, PTL DEF Spec

LEMMA SettleInvOwes == SettleInv => NothingIsOwed
<1> SUFFICES ASSUME SettleInv PROVE NothingIsOwed
  OBVIOUS
<1>1. ASSUME NEW c \in Conns, c \notin overrun, AtRest, conn[c].state = "IDLE",
             conn[c].sock = "open"
      PROVE  /\ ~HasHead(conn[c].buffer)
             /\ \A n \in Ns(c) : answer[c][n].handed => answer[c][n].ended
  <2>1. /\ Typed /\ OweInv(c, conn[c], answer[c], client[c], LoopsOf(frames), CallsOf(c, frames),
                           Due(c, jobs), overrun)
    BY OweFacts
  <2>2. LoopsOf(frames) = {}
    BY <1>1, <2>1, NoFrames DEF AtRest
  <2>3. PICK k, a, s : k = conn[c] /\ a = answer[c] /\ s = client[c]
    OBVIOUS
  <2>4. IdleInv(c, k, a, s, {})
    BY <1>1, <2>1, <2>2, <2>3 DEF OweInv
  <2>5. Open(k) /\ k.state = "IDLE"
    BY <1>1, <2>3 DEF Open
  <2>6. ~HasHead(k.buffer) /\ k.res = 0
    BY <2>4, <2>5 DEF IdleInv
  <2>7. ASSUME NEW n \in Ns(c), a[n].handed PROVE a[n].ended
    <3>1. n # 0
      BY DEF Ns
    <3> QED BY <2>4, <2>5, <2>6, <2>7, <3>1 DEF IdleInv
  <2> QED BY <2>3, <2>6, <2>7
<1>2. ASSUME NEW c \in Conns, c \notin overrun, NEW n \in Ns(c)
      PROVE  LET x == answer[c][n] IN
             /\ x.eof <= 1 \/ x.aborted
             /\ x.closed <= 1
             /\ x.closed > 0 => x.ended \/ conn[c].sock = "closed"
             /\ x.handed /\ conn[c].sock = "closed" /\ ~conn[c].detached /\ AtRest =>
                    x.complete /\ (x.closed = 1 \/ CloseOf(c, n) \in jobs)
  <2>1. OweInv(c, conn[c], answer[c], client[c], LoopsOf(frames), CallsOf(c, frames),
               Due(c, jobs), overrun)
    BY OweFacts
  <2>2. PICK k, a, v : k = conn[c] /\ a = answer[c] /\ v = Due(c, jobs)
    OBVIOUS
  <2>3. ClosesInv(c, k, a, v) /\ (a[n].eof <= 1 \/ a[n].aborted)
    BY <1>2, <2>1, <2>2 DEF OweInv, EndsInv
  <2>4. n # 0 /\ (n \in v => CloseOf(c, n) \in jobs)
    BY <2>2 DEF Ns, Due
  <2>5. a[n].closed \in Nat
    BY <2>2, OweFacts DEF AnswerFields
  <2>6. /\ a[n].closed <= 1
        /\ a[n].closed # 0 => a[n].ended \/ k.sock = "closed"
        /\ a[n].handed /\ ~k.detached /\ k.sock = "closed" =>
                a[n].complete /\ (n \in v \/ a[n].closed = 1)
    BY <2>3, <2>4 DEF ClosesInv
  <2> QED BY <2>2, <2>3, <2>4, <2>5, <2>6
<1> QED BY <1>1, <1>2 DEF NothingIsOwed, IdleOwesNothing, RequestsSettle

\* However requests arrive, are answered, given up or cut off, on every connection where none
\* came behind one without a body that was not answered yet: an idle connection has answered all
\* it was asked and holds no head it has not looked at; the end of a request is pushed once, but
\* for one that was aborted while the parser was in it; a response is closed once; and when
\* the connection is gone no request is left unsettled.
THEOREM NothingIsEverOwed == Spec => []NothingIsOwed
<1> QED BY SettleInvIsInvariant, SettleInvOwes, PTL
=============================================================================
