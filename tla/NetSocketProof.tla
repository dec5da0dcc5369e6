--------------------------- MODULE NetSocketProof ---------------------------
(* Proofs about NetSocket, for any number of connect() calls, addresses and  *)
(* chunks: the native sockets are closed when nothing stands on them, and    *)
(* what arrives is read by one poll loop and handed on in order.             *)
EXTENDS NetSocket, FiniteSetTheorems, TLAPS

SockFields == [connecting : BOOLEAN, destroyed : BOOLEAN, handle : Handles \cup {None, Wrap},
               connectingHandle : Handles \cup {None}, reading : BOOLEAN, readToken : Nat,
               readInFlight : BOOLEAN, netPaused : BOOLEAN,
               pendingReadChunks : Seq(Chunks \cup {End})]

PlanFields == [stage : {"none", "lookup", "trying"}, addresses : 0 .. MaxAddresses,
               index : 0 .. MaxAddresses, timer : 0 .. MaxAddresses]

AttemptFields == [handle : Handles, result : {"none", "ok", "error"}]

ReadFields == [token : Nat, on : Handles, result : Chunks \cup {End, Failed, Unsettled}]

CallFields == [in : {"none", "connect", "loop", "drain", "read"}, token : Nat,
               handle : Handles \cup {None}]

PastFields == [pushed : Seq(Chunks), rushed : BOOLEAN, early : BOOLEAN, threw : BOOLEAN]

Typed ==
    /\ conn \in 0 .. MaxConnects /\ sock \in SockFields
    /\ plan \in [1 .. MaxConnects -> PlanFields] /\ attempts \subseteq AttemptFields
    /\ closed \subseteq Handles /\ reads \subseteq ReadFields /\ onConnect \in Nat
    /\ stream \in [reading : BOOLEAN, ended : BOOLEAN] /\ calling \in CallFields
    /\ taken \in [Handles -> 0 .. MaxChunks] /\ past \in PastFields

-----------------------------------------------------------------------------
(* The inductive invariant.                                                  *)

\* The attempt of the handle h has been started.
Opened(h) == h[1] <= conn /\ h[2] <= plan[h[1]].index

Untried == [stage |-> "none", addresses |-> 0, index |-> 0, timer |-> 0]

PlanInv ==
    \A g \in 1 .. MaxConnects :
        /\ g > conn => plan[g] = Untried
        /\ plan[g].index # 0 \/ plan[g].timer # 0 => plan[g].stage = "trying"
        /\ plan[g].index <= MaxAddresses

\* The socket has its native socket only after it was connecting, and none once destroyed.
PhaseInv ==
    /\ sock.destroyed => sock.handle = None /\ ~sock.connecting
    /\ sock.connecting <=> sock.handle = Wrap
    /\ sock.connecting => conn \in 1 .. MaxConnects /\ past.pushed = <<>>
    /\ sock.handle \notin Handles =>
        ~sock.readInFlight /\ sock.pendingReadChunks = <<>> /\ (stream.ended => sock.destroyed)
    /\ calling.in = "connect" => calling.handle \in Handles /\ Opened(calling.handle)

\* A native socket has one owner: its attempt, or the socket.
OwnerInv ==
    /\ \A a \in attempts : Opened(a.handle) /\ a.handle # sock.handle
    /\ \A a, b \in attempts : a.handle = b.handle => a = b
    /\ \A h \in closed \cup ({sock.handle, sock.connectingHandle} \cap Handles) : Opened(h)
    /\ \A h \in Handles : taken[h] > 0 => Opened(h) /\ \A a \in attempts : a.handle # h
    /\ \A r \in reads : Opened(r.on) /\ \A a \in attempts : a.handle # r.on

\* The poll loops: one has the token of the socket, or none; what is kept back is what it
\* read last.
LoopInv ==
    /\ calling.in # "read"
    /\ \A r \in reads : r.token <= sock.readToken
    /\ \A r \in reads : r.token = sock.readToken => r.on = sock.handle
    /\ \A r, q \in reads : r.token = sock.readToken /\ q.token = sock.readToken => r = q
    /\ calling.in = "loop" /\ calling.token = sock.readToken =>
        sock.handle \in Handles /\ \A r \in reads : r.token # sock.readToken
    /\ calling.in = "loop" => calling.token <= sock.readToken
    /\ stream.ended =>
        /\ \A r \in reads : r.token # sock.readToken
        /\ sock.pendingReadChunks = <<>>
        /\ ~(calling.in = "loop" /\ calling.token = sock.readToken)
    /\ sock.pendingReadChunks # <<>> =>
        /\ Len(sock.pendingReadChunks) = 1 /\ sock.netPaused /\ calling = Idle
        /\ \A r \in reads : r.token # sock.readToken

\* On a clean socket what is under way is that of the last connect().
CleanHandles ==
    /\ \A a \in attempts : a.handle[1] = conn
    /\ \A g \in 1 .. MaxConnects : g # conn => plan[g].stage # "lookup" /\ plan[g].timer = 0
    /\ sock.connecting => <<conn, plan[conn].index>> \notin closed
    /\ sock.handle \notin closed

CleanReads ==
    /\ sock.handle \notin Handles => \A r \in reads : r.on \in closed
    /\ sock.connecting => reads = {}
    /\ sock.handle \in Handles =>
        /\ \A r \in reads : r.token = sock.readToken
        /\ sock.readInFlight <=> reads # {}

\* What has come in on the connection, what was pushed, and what is in between.
CleanContent ==
    LET n == taken[sock.handle]
        m == Len(past.pushed)
        p == sock.pendingReadChunks
    IN
    /\ sock.handle \in Handles =>
        /\ \A i \in 1 .. m : past.pushed[i] = i
        /\ \A r \in reads :
            /\ r.result \in Chunks => n = r.result /\ m = n - 1
            /\ r.result \notin Chunks => m = n
            /\ r.result = End => n = ChunksOn(sock.handle)
        /\ p # <<>> => /\ p[1] \in Chunks => n = p[1] /\ m = n - 1
                       /\ p[1] = End => m = n /\ n = ChunksOn(sock.handle)
        /\ reads = {} /\ p = <<>> => m = n
        /\ stream.ended => m = ChunksOn(sock.handle)

SocketInv ==
    /\ Typed /\ PlanInv /\ PhaseInv /\ OwnerInv /\ LoopInv /\ NoLeak
    /\ Clean => CleanHandles /\ CleanReads /\ CleanContent

-----------------------------------------------------------------------------
(* The updates of the socket's fields.                                       *)

\* The socket k stands where q does.
SamePlace(k, q) ==
    /\ k.handle = q.handle /\ k.connecting = q.connecting
    /\ k.destroyed = q.destroyed /\ k.connectingHandle = q.connectingHandle

\* The poll loop of k is where that of q is.
SameLoop(k, q) ==
    /\ k.readToken = q.readToken /\ k.readInFlight = q.readInFlight
    /\ k.pendingReadChunks = q.pendingReadChunks

LEMMA NothingPending == <<>> \in Seq(Chunks \cup {End})
OBVIOUS

LEMMA DestroyedFields ==
    ASSUME NEW k \in SockFields
    PROVE  LET q == Destroyed(k)
           IN  /\ q \in SockFields
               /\ q.destroyed /\ ~q.connecting /\ q.handle = None /\ q.connectingHandle = None
               /\ q.readToken = k.readToken + 1 /\ ~q.readInFlight /\ q.pendingReadChunks = <<>>
<1>1. PICK n \in Nat : n = k.readToken + 1
  BY DEF SockFields
<1> DEFINE f == [k EXCEPT !.destroyed = TRUE, !.connecting = FALSE, !.reading = FALSE,
              !.readToken = n, !.readInFlight = FALSE, !.netPaused = FALSE,
              !.pendingReadChunks = <<>>, !.handle = None, !.connectingHandle = None]
<1>2. /\ f \in SockFields
      /\ f.destroyed /\ ~f.connecting /\ f.handle = None /\ f.connectingHandle = None
      /\ f.readToken = n /\ ~f.readInFlight /\ f.pendingReadChunks = <<>>
  BY NothingPending DEF SockFields
<1>3. Destroyed(k) = f
  BY <1>1 DEF Destroyed
<1> QED BY <1>1, <1>2, <1>3

LEMMA ConnectingFields ==
    ASSUME NEW k \in SockFields
    PROVE  LET r == IF k.destroyed THEN Reset(k) ELSE k
               q == [r EXCEPT !.connecting = TRUE, !.handle = Wrap]
           IN  /\ q \in SockFields
               /\ q.connecting /\ q.handle = Wrap /\ ~q.destroyed
               /\ q.connectingHandle = k.connectingHandle
               /\ k.destroyed => /\ q.readToken = k.readToken + 1
                                 /\ ~q.readInFlight /\ q.pendingReadChunks = <<>>
               /\ ~k.destroyed => SameLoop(q, k)
<1>1. PICK n \in Nat : n = k.readToken + 1
  BY DEF SockFields
<1> DEFINE f == [k EXCEPT !.handle = None, !.reading = FALSE, !.readToken = n,
                !.readInFlight = FALSE, !.netPaused = FALSE, !.pendingReadChunks = <<>>,
                !.destroyed = FALSE]
           g == [f EXCEPT !.connecting = TRUE, !.handle = Wrap]
           h == [k EXCEPT !.connecting = TRUE, !.handle = Wrap]
<1>2. /\ g \in SockFields
      /\ g.connecting /\ g.handle = Wrap /\ ~g.destroyed
      /\ g.connectingHandle = k.connectingHandle
      /\ g.readToken = n /\ ~g.readInFlight /\ g.pendingReadChunks = <<>>
  BY NothingPending DEF SockFields
<1>3. /\ h \in SockFields
      /\ h.connecting /\ h.handle = Wrap /\ h.destroyed = k.destroyed
      /\ h.connectingHandle = k.connectingHandle /\ SameLoop(h, k)
  BY DEF SockFields, SameLoop
<1>4. Reset(k) = f
  BY <1>1 DEF Reset
<1>5. CASE k.destroyed
  BY <1>1, <1>2, <1>4, <1>5
<1>6. CASE ~k.destroyed
  BY <1>3, <1>6
<1> QED BY <1>5, <1>6

LEMMA PollingFields ==
    ASSUME NEW k \in SockFields
    PROVE  LET q == Polling(k)
           IN  /\ q \in SockFields
               /\ SamePlace(q, k) /\ q.readInFlight /\ q.netPaused = k.netPaused
               /\ q.pendingReadChunks = k.pendingReadChunks
               /\ q.readToken = (IF k.readInFlight THEN k.readToken ELSE k.readToken + 1)
<1>1. PICK n \in Nat : n = IF k.readInFlight THEN k.readToken ELSE k.readToken + 1
  BY DEF SockFields
<1> DEFINE f == [k EXCEPT !.reading = TRUE, !.readToken = n, !.readInFlight = TRUE]
<1>2. /\ f \in SockFields
      /\ SamePlace(f, k) /\ f.readInFlight /\ f.netPaused = k.netPaused
      /\ f.pendingReadChunks = k.pendingReadChunks /\ f.readToken = n
  BY DEF SockFields, SamePlace
<1>3. Polling(k) = f
  BY <1>1 DEF Polling
<1> QED BY <1>1, <1>2, <1>3

LEMMA FlagFields ==
    ASSUME NEW k \in SockFields, NEW b \in BOOLEAN
    PROVE  LET q == [k EXCEPT !.reading = FALSE]
               p == [k EXCEPT !.netPaused = TRUE, !.reading = FALSE]
               u == [k EXCEPT !.netPaused = FALSE]
               o == [k EXCEPT !.readInFlight = b]
           IN  /\ q \in SockFields /\ SamePlace(q, k) /\ SameLoop(q, k)
               /\ q.netPaused = k.netPaused
               /\ p \in SockFields /\ SamePlace(p, k) /\ SameLoop(p, k) /\ p.netPaused
               /\ u \in SockFields /\ SamePlace(u, k) /\ SameLoop(u, k) /\ ~u.netPaused
               /\ o \in SockFields /\ SamePlace(o, k) /\ o.netPaused = k.netPaused
               /\ o.readToken = k.readToken /\ o.readInFlight = b
               /\ o.pendingReadChunks = k.pendingReadChunks /\ o.reading = k.reading
BY DEF SockFields, SamePlace, SameLoop

LEMMA PendingFields ==
    ASSUME NEW k \in SockFields, NEW s \in Seq(Chunks \cup {End})
    PROVE  LET q == [k EXCEPT !.pendingReadChunks = s]
           IN  /\ q \in SockFields /\ SamePlace(q, k) /\ q.netPaused = k.netPaused
               /\ q.readToken = k.readToken /\ q.readInFlight = k.readInFlight
               /\ q.pendingReadChunks = s
BY DEF SockFields, SamePlace

LEMMA AttemptingFields ==
    ASSUME NEW k \in SockFields, NEW h \in Handles \cup {None}
    PROVE  LET q == [k EXCEPT !.connectingHandle = h]
           IN  /\ q \in SockFields /\ SameLoop(q, k) /\ q.netPaused = k.netPaused
               /\ q.handle = k.handle /\ q.connecting = k.connecting
               /\ q.destroyed = k.destroyed /\ q.connectingHandle = h
BY DEF SockFields, SameLoop

LEMMA ConnectedFields ==
    ASSUME NEW k \in SockFields, NEW h \in Handles
    PROVE  LET q == [k EXCEPT !.connectingHandle = None, !.connecting = FALSE, !.handle = h]
           IN  /\ q \in SockFields /\ SameLoop(q, k) /\ q.netPaused = k.netPaused
               /\ q.handle = h /\ ~q.connecting
               /\ q.destroyed = k.destroyed /\ q.connectingHandle = None
BY DEF SockFields, SameLoop
LEMMA TypesSpelledOut == Typed <=> TypeOK
BY DEF Typed, TypeOK, SockFields, PlanFields, AttemptFields, ReadFields, CallFields, PastFields

\* Neither a native socket nor a wrap is no handle, and no chunk is the end or a failure.
LEMMA Distinct ==
    /\ None \notin Handles /\ Wrap \notin Handles /\ None # Wrap
    /\ End \notin Chunks /\ Failed \notin Chunks /\ Unsettled \notin Chunks
    /\ End # Failed /\ End # Unsettled /\ Failed # Unsettled
    /\ \A h \in Handles : h[1] \in 1 .. MaxConnects /\ h[2] \in 1 .. MaxAddresses
    /\ \A g \in 1 .. MaxConnects, i \in 1 .. MaxAddresses : <<g, i>> \in Handles
    /\ \A g, i : <<g, i>> \in Handles => i \in 1 .. MaxAddresses
    /\ \A h \in Handles : h = <<h[1], h[2]>>
<1> USE NetSocketAssumption
<1>1. None \notin Handles /\ Wrap \notin Handles /\ None # Wrap
  BY DEF None, Wrap, Handles
<1>2. /\ End \notin Chunks /\ Failed \notin Chunks /\ Unsettled \notin Chunks
      /\ End # Failed /\ End # Unsettled /\ Failed # Unsettled
  BY DEF Chunks, End, Failed, Unsettled
<1>3. /\ \A h \in Handles : h[1] \in 1 .. MaxConnects /\ h[2] \in 1 .. MaxAddresses
      /\ \A g \in 1 .. MaxConnects, i \in 1 .. MaxAddresses : <<g, i>> \in Handles
      /\ \A g, i : <<g, i>> \in Handles => i \in 1 .. MaxAddresses
      /\ \A h \in Handles : h = <<h[1], h[2]>>
  BY DEF Handles
<1> QED BY <1>1, <1>2, <1>3

-----------------------------------------------------------------------------
(* What the steps do.  First those of the poll loops and of the stream, which *)
(* leave the native sockets alone.                                           *)

NoCleaner == past'.rushed = past.rushed /\ (past.threw => past'.threw)

HandlesStay == UNCHANGED <<conn, plan, attempts, closed>> /\ SamePlace(sock', sock)

LoopStays ==
    /\ sock'.readToken = sock.readToken /\ sock'.pendingReadChunks = sock.pendingReadChunks
    /\ sock.netPaused => sock'.netPaused \/ sock.pendingReadChunks = <<>>
    /\ stream'.ended = stream.ended
    /\ past'.pushed = past.pushed /\ NoCleaner

ListenerStays == calling' = calling \/ calling' = Idle

\* A flag changes, or nothing; a poll loop may fail with the program that threw.
Idles ==
    /\ HandlesStay /\ LoopStays /\ ListenerStays
    /\ sock'.readInFlight = sock.readInFlight \/ (~sock'.readInFlight /\ past'.threw)
    /\ UNCHANGED <<reads, taken>>

\* A poll loop starts and reads.
LoopStarts ==
    /\ HandlesStay /\ ListenerStays
    /\ sock.handle \in Handles /\ sock.pendingReadChunks = <<>>
    /\ ~stream.ended /\ ~stream'.ended /\ ~sock.readInFlight
    /\ sock'.readToken = sock.readToken + 1 /\ sock'.readInFlight
    /\ sock'.pendingReadChunks = <<>>
    /\ reads' = reads \cup
            {[token |-> sock.readToken + 1, on |-> sock.handle, result |-> Unsettled]}
    /\ past'.pushed = past.pushed /\ NoCleaner
    /\ UNCHANGED taken

\* A poll loop reads again.
LoopReads ==
    /\ HandlesStay /\ LoopStays
    /\ calling.in = "loop" /\ calling.token = sock.readToken /\ calling' = Idle
    /\ sock'.readInFlight
    /\ reads' = reads \cup
            {[token |-> sock.readToken, on |-> sock.handle, result |-> Unsettled]}
    /\ UNCHANGED taken

\* A read returns to a poll loop whose time is over.
StaleReturns(r) ==
    /\ HandlesStay /\ LoopStays
    /\ r.token # sock.readToken /\ ~sock'.readInFlight
    /\ reads' = reads \ {r}
    /\ UNCHANGED <<calling, taken>>

\* A chunk, or the end, is kept back.
Keeps(r) ==
    /\ HandlesStay
    /\ r.token = sock.readToken /\ r.result \in Chunks \cup {End} /\ sock.netPaused
    /\ sock'.readToken = sock.readToken /\ ~sock'.readInFlight /\ sock'.netPaused
    /\ sock'.pendingReadChunks = Append(sock.pendingReadChunks, r.result)
    /\ reads' = reads \ {r}
    /\ calling = Idle
    /\ UNCHANGED <<stream, past, calling, taken>>

\* The chunk, or the end, v is pushed.
PushesOn(v) ==
    /\ stream'.ended = (stream.ended \/ v = End)
    /\ past'.pushed = IF v \in Chunks THEN Append(past.pushed, v) ELSE past.pushed
    /\ NoCleaner

Pushes(r) ==
    /\ HandlesStay
    /\ r.token = sock.readToken /\ r.result \in Chunks \cup {End} /\ ~sock.netPaused
    /\ sock'.readToken = sock.readToken /\ ~sock'.readInFlight
    /\ sock'.pendingReadChunks = sock.pendingReadChunks
    /\ reads' = reads \ {r}
    /\ PushesOn(r.result)
    /\ \/ calling'.in = "none"
       \/ calling'.in = "loop" /\ calling'.token = r.token /\ r.result \in Chunks
    /\ UNCHANGED taken

\* resume() pushes what was kept back.
Drains ==
    /\ HandlesStay
    /\ sock.pendingReadChunks # <<>>
    /\ sock'.readToken = sock.readToken /\ sock'.readInFlight = sock.readInFlight
    /\ sock'.pendingReadChunks = Tail(sock.pendingReadChunks)
    /\ PushesOn(Head(sock.pendingReadChunks))
    /\ calling'.in \in {"none", "drain"}
    /\ UNCHANGED <<reads, taken>>

Polls ==
    \/ Idles \/ LoopStarts \/ LoopReads \/ Drains
    \/ \E r \in reads :
        /\ r.result # Unsettled
        /\ StaleReturns(r) \/ Keeps(r) \/ Pushes(r)
    \/ \E r \in reads : HostReads(r)

-----------------------------------------------------------------------------
(* Then those of the attempts, which leave the poll loops alone unless the   *)
(* socket is destroyed.                                                      *)

ReadsStay ==
    /\ SameLoop(sock', sock) /\ sock'.netPaused = sock.netPaused
    /\ past'.pushed = past.pushed /\ NoCleaner /\ ListenerStays
    /\ UNCHANGED <<reads, stream, taken>>

\* Of the variables of the connect() calls those of g change; it has come to its n-th address.
PlanMoves(g, n) ==
    /\ Clean' => g = conn
    /\ \A f \in (1 .. MaxConnects) \ {g} : plan'[f] = plan[f]
    /\ plan'[g].index = n
    /\ plan'[g].index # 0 \/ plan'[g].timer # 0 => plan'[g].stage = "trying"
    /\ plan[g].index # 0 => plan'[g].addresses = plan[g].addresses

PlanStays == plan' = plan \/ \E g \in 1 .. conn : PlanMoves(g, plan[g].index)

\* The attempts that are left are some of those there were, the others are closed.
Left(others, gone) ==
    /\ others \subseteq AttemptFields /\ gone \subseteq Handles
    /\ \A a \in others : \E b \in attempts : b.handle = a.handle
    /\ \A a, b \in others : a.handle = b.handle => a = b
    /\ \A a \in attempts : a.handle \in gone \/ \E b \in others : b.handle = a.handle
    /\ closed \subseteq gone
    /\ \A h \in gone : Opened(h)

\* The socket stands where it stood, and still tries its last address if it was trying.
Stays ==
    /\ ReadsStay /\ PlanStays /\ UNCHANGED conn
    /\ sock'.handle = sock.handle /\ sock'.connecting = sock.connecting
    /\ sock'.destroyed = sock.destroyed
    /\ sock'.connectingHandle \in {None, sock.connectingHandle}
    /\ Left(attempts', closed')
    /\ Clean' => sock.handle \notin closed'
    /\ Clean' /\ sock.connecting => <<conn, plan[conn].index>> \notin closed'

\* connect() goes on to another address.
Tries(g) ==
    LET h == <<g, plan[g].index + 1>> IN
    /\ ReadsStay /\ PlanMoves(g, plan[g].index + 1) /\ UNCHANGED conn
    /\ h \in Handles
    /\ sock.connecting /\ sock'.connecting /\ ~sock'.destroyed
    /\ sock'.handle = sock.handle /\ sock'.connectingHandle = h
    /\ \E others \in SUBSET AttemptFields :
        /\ Left(others, closed')
        /\ attempts' = others \cup {[handle |-> h, result |-> "none"]}

Dies ==
    /\ UNCHANGED <<conn, stream, taken>>
    /\ past'.pushed = past.pushed /\ NoCleaner /\ ListenerStays
    /\ PlanStays
    /\ sock'.destroyed /\ ~sock'.connecting /\ sock'.handle = None
    /\ sock'.connectingHandle = None
    /\ sock'.readToken = sock.readToken + 1 /\ ~sock'.readInFlight
    /\ sock'.pendingReadChunks = <<>>
    /\ reads' \subseteq reads
    /\ Left(attempts', closed')
    /\ sock.handle \in Handles => sock.handle \in closed'

\* An attempt wins.
Wins(a) ==
    /\ Wanted(a.handle, sock) /\ PlanMoves(a.handle[1], plan[a.handle[1]].index)
    /\ attempts' = attempts \ {a}
    /\ sock'.handle = a.handle /\ ~sock'.connecting /\ ~sock'.destroyed
    /\ sock'.connectingHandle = None
    /\ sock'.pendingReadChunks = <<>>
    /\ \/ /\ sock'.readToken = sock.readToken /\ ~sock'.readInFlight
          /\ reads' = reads
       \/ /\ sock'.readToken = sock.readToken + 1 /\ sock'.readInFlight
          /\ reads' = reads \cup
                {[token |-> sock.readToken + 1, on |-> a.handle, result |-> Unsettled]}
    /\ calling = Idle /\ calling' = [Idle EXCEPT !.in = "connect", !.handle = a.handle]
    /\ UNCHANGED <<conn, closed, stream, taken, past>>

Connects ==
    LET g == conn + 1
        h == <<g, 1>>
    IN
    /\ conn < MaxConnects /\ conn' = g
    /\ ~sock.connecting /\ sock.handle = None
    /\ sock'.connecting /\ sock'.handle = Wrap /\ ~sock'.destroyed
    /\ sock'.pendingReadChunks = <<>> /\ ~sock'.readInFlight
    /\ sock'.readToken = sock.readToken + 1 \/ sock'.readToken = sock.readToken
    /\ \A f \in (1 .. MaxConnects) \ {g} : plan'[f] = plan[f]
    /\ plan'[g].index # 0 \/ plan'[g].timer # 0 => plan'[g].stage = "trying"
    /\ \/ /\ plan'[g].index = 0 /\ UNCHANGED attempts
          /\ sock'.connectingHandle = sock.connectingHandle
       \/ /\ plan'[g].index = 1
          /\ h \in Handles /\ sock'.connectingHandle = h
          /\ attempts' = attempts \cup {[handle |-> h, result |-> "none"]}
    /\ ~stream'.ended /\ past'.pushed = <<>>
    /\ Clean' => ~past.rushed /\ ~UnderWay
    /\ UNCHANGED <<reads, taken, closed, calling>>

-----------------------------------------------------------------------------
(* The steps of the poll loops and of the stream.                            *)

LEMMA IdleFields ==
    /\ Idle \in CallFields
    /\ Idle.in = "none" /\ Idle.token = 0 /\ Idle.handle = None
    /\ \A h \in Handles :
        LET c == [Idle EXCEPT !.in = "connect", !.handle = h]
        IN  c \in CallFields /\ c.in = "connect" /\ c.handle = h
BY DEF Idle, CallFields

\* What a step that leaves the attempts alone has to show of the types.
LEMMA TypedLoop ==
    ASSUME Typed, UNCHANGED <<conn, plan, attempts>>, closed' = closed, sock' \in SockFields,
           reads' \subseteq ReadFields, onConnect' \in Nat,
           stream' \in [reading : BOOLEAN, ended : BOOLEAN], calling' \in CallFields,
           taken' \in [Handles -> 0 .. MaxChunks], past' \in PastFields
    PROVE  Typed'
BY DEF Typed

LEMMA CallReadPolls ==
    ASSUME SocketInv, NEW k \in SockFields, SamePlace(k, sock), SameLoop(k, sock),
           sock.netPaused => k.netPaused \/ sock.pendingReadChunks = <<>>,
           NEW then, then \in {calling, Idle}, CallRead(k, then),
           UNCHANGED <<conn, plan, attempts, closed, taken>>
    PROVE  Typed' /\ (Idles \/ LoopStarts)
<1>1. Typed /\ LoopInv /\ PhaseInv
  BY DEF SocketInv
<1>2. /\ calling \in CallFields /\ then \in CallFields /\ reads \subseteq ReadFields
      /\ onConnect \in Nat /\ onConnect + 1 \in Nat
      /\ stream \in [reading : BOOLEAN, ended : BOOLEAN]
      /\ taken \in [Handles -> 0 .. MaxChunks] /\ past \in PastFields
  <2>1. Idle \in CallFields
    BY IdleFields
  <2> QED BY <1>1, <2>1 DEF Typed
<1>3. /\ [stream EXCEPT !.reading = TRUE] \in [reading : BOOLEAN, ended : BOOLEAN]
      /\ [stream EXCEPT !.reading = TRUE].ended = stream.ended
      /\ [past EXCEPT !.early = TRUE] \in PastFields
      /\ [past EXCEPT !.early = TRUE].pushed = past.pushed
      /\ [past EXCEPT !.early = TRUE].rushed = past.rushed
      /\ [past EXCEPT !.early = TRUE].threw = past.threw
  BY <1>2 DEF PastFields
<1> DEFINE waits == [stream EXCEPT !.reading = TRUE]
           early == [past EXCEPT !.early = TRUE]
<1> HIDE DEF waits, early
<1>4. CASE sock' = k /\ calling' = then /\ UNCHANGED reads
           /\ (UNCHANGED onConnect \/ onConnect' = onConnect + 1)
           /\ (UNCHANGED stream \/ stream' = waits) /\ (UNCHANGED past \/ past' = early)
  <2>1. stream' \in [reading : BOOLEAN, ended : BOOLEAN] /\ stream'.ended = stream.ended
    BY <1>2, <1>3, <1>4 DEF waits
  <2>2. /\ past' \in PastFields /\ past'.pushed = past.pushed
        /\ past'.rushed = past.rushed /\ past'.threw = past.threw
    BY <1>2, <1>3, <1>4 DEF early
  <2>3. Typed'
    BY <1>1, <1>2, <1>4, <2>1, <2>2, TypedLoop
  <2>4. Idles
    BY <1>1, <1>4, <2>1, <2>2 DEF Idles, HandlesStay, LoopStays, NoCleaner, ListenerStays,
        SamePlace, SameLoop
  <2> QED BY <2>3, <2>4
<1>5. CASE /\ ~stream.ended /\ ~k.connecting /\ k.handle # None /\ k.pendingReadChunks = <<>>
           /\ sock' = Polling(k) /\ reads' = PollLoops(k)
           /\ stream' = waits /\ calling' = then /\ UNCHANGED <<onConnect, past>>
  <2>1. k.handle \in Handles
    BY <1>1, <1>5 DEF PhaseInv, SamePlace, SockFields
  <2> DEFINE q == Polling(k)
  <2>2. /\ q \in SockFields
        /\ SamePlace(q, k) /\ q.readInFlight /\ q.netPaused = k.netPaused
        /\ q.pendingReadChunks = k.pendingReadChunks
        /\ q.readToken = (IF k.readInFlight THEN k.readToken ELSE k.readToken + 1)
    BY PollingFields
  <2> HIDE DEF q
  <2>3. sock' = q
    BY <1>5 DEF q
  <2>4. k.readToken \in Nat /\ k.readToken + 1 \in Nat
    BY DEF SockFields
  <2>5. Unsettled \in Chunks \cup {End, Failed, Unsettled}
    OBVIOUS
  <2>6. reads' \subseteq ReadFields
    <3>1. CASE k.readInFlight
      BY <1>2, <1>5, <3>1 DEF PollLoops
    <3>2. CASE ~k.readInFlight
      <4>1. [token |-> k.readToken + 1, on |-> k.handle, result |-> Unsettled] \in ReadFields
        BY <2>1, <2>4, <2>5 DEF ReadFields
      <4> QED BY <1>2, <1>5, <3>2, <4>1 DEF PollLoops
    <3> QED BY <3>1, <3>2
  <2>7. Typed'
    BY <1>1, <1>2, <1>3, <1>5, <2>2, <2>3, <2>6, TypedLoop DEF waits
  <2>8. CASE k.readInFlight
    <3>1. reads' = reads /\ q.readToken = k.readToken
      BY <1>5, <2>2, <2>8 DEF PollLoops
    <3>2. Idles
      BY <1>3, <1>5, <2>2, <2>3, <2>8, <3>1 DEF Idles, HandlesStay, LoopStays, NoCleaner,
          ListenerStays, SamePlace, SameLoop, waits
    <3> QED BY <2>7, <3>2
  <2>9. CASE ~k.readInFlight
    <3>1. /\ q.readToken = k.readToken + 1
          /\ reads' = reads \cup
                {[token |-> k.readToken + 1, on |-> k.handle, result |-> Unsettled]}
      BY <1>5, <2>2, <2>9 DEF PollLoops
    <3>2. LoopStarts
      BY <1>3, <1>5, <2>1, <2>2, <2>3, <2>9, <3>1 DEF LoopStarts, HandlesStay, NoCleaner,
          ListenerStays, SamePlace, SameLoop, waits
    <3> QED BY <2>7, <3>2
  <2> QED BY <2>8, <2>9
<1>6. ~(~k.connecting /\ k.handle # None /\ k.pendingReadChunks # <<>> /\ ~k.netPaused)
  BY <1>1 DEF LoopInv, SameLoop
<1>7. \/ /\ sock' = k /\ calling' = then /\ UNCHANGED reads
         /\ (UNCHANGED onConnect \/ onConnect' = onConnect + 1)
         /\ (UNCHANGED stream \/ stream' = waits) /\ (UNCHANGED past \/ past' = early)
      \/ /\ ~stream.ended /\ ~k.connecting /\ k.handle # None /\ k.pendingReadChunks = <<>>
         /\ sock' = Polling(k) /\ reads' = PollLoops(k)
         /\ stream' = waits /\ calling' = then /\ UNCHANGED <<onConnect, past>>
  BY <1>6 DEF CallRead, waits, early
<1> QED BY <1>4, <1>5, <1>7
LEMMA StreamReadsPolls ==
    ASSUME SocketInv, StreamReads
    PROVE  Typed' /\ (Idles \/ LoopStarts)
<1>1. sock \in SockFields /\ SamePlace(sock, sock) /\ SameLoop(sock, sock)
  BY DEF SocketInv, Typed, SamePlace, SameLoop
<1>2. CallRead(sock, calling) /\ UNCHANGED <<conn, plan, attempts, closed, taken>>
  BY DEF StreamReads
<1> QED BY <1>1, <1>2, CallReadPolls

LEMMA ConnectEmittedPolls ==
    ASSUME SocketInv, ConnectEmitted
    PROVE  Typed' /\ (Idles \/ LoopStarts)
<1>1. sock \in SockFields /\ SamePlace(sock, sock) /\ SameLoop(sock, sock)
  BY DEF SocketInv, Typed, SamePlace, SameLoop
<1>2. CallRead(sock, Idle) /\ UNCHANGED <<conn, plan, attempts, closed, taken>>
  BY DEF ConnectEmitted
<1> QED BY <1>1, <1>2, CallReadPolls

\* Only fields of the socket change that no poll loop and no attempt depends on.
LEMMA FlagIdles ==
    ASSUME SocketInv, sock' \in SockFields, SamePlace(sock', sock), SameLoop(sock', sock),
           sock.netPaused => sock'.netPaused \/ sock.pendingReadChunks = <<>>,
           calling' = calling \/ calling' = Idle, past' = past,
           UNCHANGED <<conn, plan, attempts, closed, reads, onConnect, stream, taken>>
    PROVE  Typed' /\ Idles
<1>1. Typed /\ Idle \in CallFields
  BY IdleFields DEF SocketInv
<1>2. /\ reads' \subseteq ReadFields /\ onConnect' \in Nat
      /\ stream' \in [reading : BOOLEAN, ended : BOOLEAN] /\ calling' \in CallFields
      /\ taken' \in [Handles -> 0 .. MaxChunks] /\ past' \in PastFields
  BY <1>1 DEF Typed
<1>3. Typed'
  BY <1>1, <1>2, TypedLoop
<1>4. Idles
  BY DEF Idles, HandlesStay, LoopStays, NoCleaner, ListenerStays, SamePlace, SameLoop
<1> QED BY <1>3, <1>4

LEMMA PauseIdles ==
    ASSUME SocketInv, Pause
    PROVE  Typed' /\ Idles
<1> DEFINE q == [sock EXCEPT !.netPaused = TRUE, !.reading = FALSE]
<1>1. q \in SockFields /\ SamePlace(q, sock) /\ SameLoop(q, sock) /\ q.netPaused
  BY FlagFields DEF SocketInv, Typed
<1>2. /\ sock' = q
      /\ UNCHANGED <<conn, plan, attempts, closed, reads, onConnect, stream, calling, taken, past>>
  BY DEF Pause
<1> HIDE DEF q
<1> QED BY <1>1, <1>2, FlagIdles

\* The chunk, or the end, v is pushed.
LEMMA PushFields ==
    ASSUME Typed, NEW v \in Chunks \cup {End}, NEW in \in {"loop", "drain", "read"},
           NEW token \in Nat, Push(v, in, token)
    PROVE  /\ stream' \in [reading : BOOLEAN, ended : BOOLEAN]
           /\ past' \in PastFields /\ calling' \in CallFields /\ PushesOn(v)
           /\ \/ calling'.in = "none"
              \/ calling'.in = in /\ calling'.token = token /\ v \in Chunks
<1>1. stream \in [reading : BOOLEAN, ended : BOOLEAN] /\ past \in PastFields
  BY DEF Typed
<1>2. /\ stream' \in [reading : BOOLEAN, ended : BOOLEAN]
      /\ stream'.ended = (stream.ended \/ v = End)
  BY <1>1 DEF Push
<1>3. /\ past' \in PastFields
      /\ past'.pushed = IF v \in Chunks THEN Append(past.pushed, v) ELSE past.pushed
      /\ past'.rushed = past.rushed /\ past'.threw = past.threw
  <2>1. CASE v \in Chunks
    <3> DEFINE s == Append(past.pushed, v)
    <3>1. s \in Seq(Chunks)
      <4>1. past.pushed \in Seq(Chunks)
        BY <1>1 DEF PastFields
      <4> QED BY <2>1, <4>1
    <3>2. past' = [past EXCEPT !.pushed = s]
      BY <2>1 DEF Push
    <3>3. s = Append(past.pushed, v)
      OBVIOUS
    <3> HIDE DEF s
    <3> QED BY <1>1, <2>1, <3>1, <3>2, <3>3 DEF PastFields
  <2>2. CASE v \notin Chunks
    BY <1>1, <2>2 DEF Push
  <2> QED BY <2>1, <2>2
<1>4. \/ calling' = Idle
      \/ calling' = [Idle EXCEPT !.in = in, !.token = token] /\ v \in Chunks
  BY DEF Push
<1>5. /\ calling' \in CallFields
      /\ \/ calling'.in = "none"
         \/ calling'.in = in /\ calling'.token = token /\ v \in Chunks
  <2>1. CASE calling' = Idle
    BY <2>1, IdleFields
  <2>2. CASE calling' = [Idle EXCEPT !.in = in, !.token = token] /\ v \in Chunks
    <3> DEFINE c == [Idle EXCEPT !.in = in, !.token = token]
    <3>1. c \in CallFields /\ c.in = in /\ c.token = token
      BY DEF CallFields, Idle
    <3> HIDE DEF c
    <3>2. calling' = c
      BY <2>2 DEF c
    <3> QED BY <2>2, <3>1, <3>2
  <2> QED BY <1>4, <2>1, <2>2
<1> QED BY <1>2, <1>3, <1>4, <1>5 DEF PushesOn, NoCleaner

LEMMA DrainDrains ==
    ASSUME SocketInv, NEW k \in SockFields, SamePlace(k, sock), SameLoop(k, sock),
           sock.pendingReadChunks # <<>>, Drain(k, "drain"),
           UNCHANGED <<conn, plan, attempts, closed, taken>>
    PROVE  Typed' /\ Drains
<1> DEFINE s == sock.pendingReadChunks
           q == [k EXCEPT !.pendingReadChunks = Tail(s)]
<1>1. Typed /\ k.pendingReadChunks = s
  BY DEF SocketInv, SameLoop
<1>2. s \in Seq(Chunks \cup {End}) /\ s # <<>>
  BY <1>1 DEF Typed, SockFields
<1>3. Tail(s) \in Seq(Chunks \cup {End}) /\ Head(s) \in Chunks \cup {End}
  BY <1>2
<1>4. /\ q \in SockFields /\ SamePlace(q, k) /\ q.netPaused = k.netPaused
      /\ q.readToken = k.readToken /\ q.readInFlight = k.readInFlight
      /\ q.pendingReadChunks = Tail(s)
  BY <1>3, PendingFields
<1>5. /\ sock' = q /\ Push(Head(s), "drain", 0) /\ UNCHANGED <<reads, onConnect>>
  BY <1>1 DEF Drain
<1> HIDE DEF q, s
<1>6. /\ stream' \in [reading : BOOLEAN, ended : BOOLEAN]
      /\ past' \in PastFields /\ calling' \in CallFields /\ PushesOn(Head(s))
      /\ calling'.in = "none" \/ calling'.in = "drain"
  BY <1>1, <1>3, <1>5, PushFields
<1>8. /\ reads' \subseteq ReadFields /\ onConnect' \in Nat
      /\ taken' \in [Handles -> 0 .. MaxChunks]
  BY <1>1, <1>5 DEF Typed
<1>9. Typed'
  BY <1>1, <1>4, <1>5, <1>6, <1>8, TypedLoop
<1>10. SamePlace(sock', sock)
  BY <1>4, <1>5 DEF SamePlace
<1>11. Drains
  BY <1>1, <1>4, <1>5, <1>6, <1>10 DEF Drains, HandlesStay, SameLoop, s
<1> QED BY <1>9, <1>11
\* resume(), and the end of a drain.
LEMMA ResumedPolls ==
    ASSUME SocketInv, NEW k \in SockFields, SamePlace(k, sock), SameLoop(k, sock),
           sock.netPaused => k.netPaused \/ sock.pendingReadChunks = <<>>,
           NEW then, then \in {calling, Idle}, Resumed(k, then),
           UNCHANGED <<conn, plan, attempts, closed, taken>>
    PROVE  Typed' /\ (Idles \/ LoopStarts)
<1>1. CASE CallRead(k, then)
  BY <1>1, CallReadPolls
<1>2. CASE sock' = k /\ calling' = then /\ UNCHANGED <<stream, reads, onConnect, past>>
  BY <1>2, FlagIdles
<1> QED BY <1>1, <1>2 DEF Resumed

LEMMA ResumePolls ==
    ASSUME SocketInv, Resume
    PROVE  Typed' /\ (Idles \/ LoopStarts \/ Drains)
<1> DEFINE k == [sock EXCEPT !.netPaused = FALSE]
<1>1. k \in SockFields /\ SamePlace(k, sock) /\ SameLoop(k, sock)
  BY FlagFields DEF SocketInv, Typed
<1>2. /\ IF k.pendingReadChunks = <<>> THEN Resumed(k, calling) ELSE Drain(k, "drain")
      /\ UNCHANGED <<conn, plan, attempts, closed, taken>>
  BY DEF Resume
<1> HIDE DEF k
<1>3. CASE sock.pendingReadChunks = <<>>
  BY <1>1, <1>2, <1>3, ResumedPolls DEF SameLoop
<1>4. CASE sock.pendingReadChunks # <<>>
  BY <1>1, <1>2, <1>4, DrainDrains DEF SameLoop
<1> QED BY <1>3, <1>4

LEMMA DrainGoesOnPolls ==
    ASSUME SocketInv, NEW keepGoing \in BOOLEAN, DrainGoesOn(keepGoing)
    PROVE  Typed' /\ (Idles \/ LoopStarts)
<1> DEFINE k == IF keepGoing THEN sock ELSE [sock EXCEPT !.reading = FALSE]
<1>1. sock \in SockFields /\ LoopInv
  BY DEF SocketInv, Typed
<1>2. /\ k \in SockFields /\ SamePlace(k, sock) /\ SameLoop(k, sock)
      /\ k.netPaused = sock.netPaused
  <2>1. CASE keepGoing
    BY <1>1, <2>1 DEF SamePlace, SameLoop
  <2>2. CASE ~keepGoing
    BY <1>1, <2>2, FlagFields
  <2> QED BY <2>1, <2>2
<1>3. calling.in = "drain"
  BY <1>1 DEF DrainGoesOn, LoopInv
<1>4. k.pendingReadChunks = <<>>
  <2>1. Idle.in # "drain"
    BY DEF Idle
  <2> QED BY <1>1, <1>2, <1>3, <2>1 DEF LoopInv, SameLoop
<1>5. Resumed(k, Idle) /\ UNCHANGED <<conn, plan, attempts, closed, taken>>
  BY <1>3, <1>4 DEF DrainGoesOn
<1> HIDE DEF k
<1> QED BY <1>2, <1>5, ResumedPolls

LEMMA HostReadsTyped ==
    ASSUME SocketInv, NEW r \in reads, HostReads(r)
    PROVE  Typed'
<1>1. Typed /\ reads \subseteq ReadFields /\ r \in ReadFields
  BY DEF SocketInv, Typed
<1>2. PICK v \in Chunks \cup {End, Failed} :
        /\ reads' = (reads \ {r}) \cup {[r EXCEPT !.result = v]}
        /\ taken' = IF v \in Chunks THEN [taken EXCEPT ![r.on] = v] ELSE taken
  BY DEF HostReads
<1>3. reads' \subseteq ReadFields
  <2>1. [r EXCEPT !.result = v] \in ReadFields
    BY <1>1 DEF ReadFields
  <2> QED BY <1>1, <1>2, <2>1
<1>4. taken' \in [Handles -> 0 .. MaxChunks]
  <2>1. CASE v \in Chunks
    <3>1. v \in 0 .. MaxChunks /\ taken \in [Handles -> 0 .. MaxChunks]
      BY <1>1, <2>1 DEF Chunks, Typed
    <3> QED BY <1>2, <2>1, <3>1
  <2>2. CASE v \notin Chunks
    BY <1>1, <1>2, <2>2 DEF Typed
  <2> QED BY <2>1, <2>2
<1>5. /\ sock' \in SockFields /\ onConnect' \in Nat
      /\ stream' \in [reading : BOOLEAN, ended : BOOLEAN]
      /\ calling' \in CallFields /\ past' \in PastFields
      /\ UNCHANGED <<conn, plan, attempts>> /\ closed' = closed
  BY <1>1 DEF Typed, HostReads
<1> QED BY <1>1, <1>3, <1>4, <1>5, TypedLoop

LEMMA LoopGoesOnPolls ==
    ASSUME SocketInv, NEW keepGoing \in BOOLEAN, LoopGoesOn(keepGoing)
    PROVE  Typed' /\ (Idles \/ LoopReads)
<1> DEFINE k == IF keepGoing THEN sock ELSE [sock EXCEPT !.reading = FALSE]
<1>1. sock \in SockFields /\ Typed /\ LoopInv /\ reads \subseteq ReadFields
  BY DEF SocketInv, Typed
<1>2. /\ k \in SockFields /\ SamePlace(k, sock) /\ SameLoop(k, sock)
      /\ k.netPaused = sock.netPaused
  <2>1. CASE keepGoing
    BY <1>1, <2>1 DEF SamePlace, SameLoop
  <2>2. CASE ~keepGoing
    BY <1>1, <2>2, FlagFields
  <2> QED BY <2>1, <2>2
<1>3. /\ calling.in = "loop" /\ calling' = Idle
      /\ UNCHANGED <<conn, plan, attempts, closed, onConnect, stream, taken, past>>
  BY DEF LoopGoesOn
<1>4. \/ sock' = k /\ UNCHANGED reads
      \/ /\ calling.token = k.readToken
         /\ sock' = [k EXCEPT !.readInFlight = TRUE]
         /\ reads' = reads \cup {[token |-> k.readToken, on |-> k.handle, result |-> Unsettled]}
  BY DEF LoopGoesOn
<1> HIDE DEF k
<1>5. CASE sock' = k /\ UNCHANGED reads
  BY <1>2, <1>3, <1>5, FlagIdles
<1>6. CASE /\ calling.token = k.readToken
           /\ sock' = [k EXCEPT !.readInFlight = TRUE]
           /\ reads' = reads \cup
                {[token |-> k.readToken, on |-> k.handle, result |-> Unsettled]}
  <2> DEFINE q == [k EXCEPT !.readInFlight = TRUE]
  <2>1. /\ q \in SockFields /\ SamePlace(q, k) /\ q.netPaused = k.netPaused
        /\ q.readToken = k.readToken /\ q.readInFlight = TRUE
        /\ q.pendingReadChunks = k.pendingReadChunks
    BY <1>2, FlagFields
  <2>2. sock' = q
    BY <1>6
  <2> HIDE DEF q
  <2>3. k.handle \in Handles /\ k.readToken \in Nat
    BY <1>1, <1>2, <1>3, <1>6 DEF LoopInv, SamePlace, SameLoop, SockFields
  <2>4. reads' \subseteq ReadFields
    <3>1. [token |-> k.readToken, on |-> k.handle, result |-> Unsettled] \in ReadFields
      BY <2>3 DEF ReadFields
    <3> QED BY <1>1, <1>6, <3>1
  <2>5. Typed'
    <3>1. /\ calling' \in CallFields /\ onConnect' \in Nat
          /\ stream' \in [reading : BOOLEAN, ended : BOOLEAN]
          /\ taken' \in [Handles -> 0 .. MaxChunks] /\ past' \in PastFields
      BY <1>1, <1>3, IdleFields DEF Typed
    <3> QED BY <1>1, <1>3, <2>1, <2>2, <2>4, <3>1, TypedLoop
  <2>6. LoopReads
    BY <1>2, <1>3, <1>6, <2>1, <2>2 DEF LoopReads, HandlesStay, LoopStays, NoCleaner,
        SamePlace, SameLoop
  <2> QED BY <2>5, <2>6
<1> QED BY <1>4, <1>5, <1>6
\* The attempts there are, and any handles closed that have been opened.
LEMMA AllLeft ==
    ASSUME SocketInv, NEW gone \in SUBSET Handles, closed \subseteq gone,
           \A h \in gone : Opened(h)
    PROVE  Left(attempts, gone)
BY DEF SocketInv, Typed, OwnerInv, Left

\* The socket is destroyed, with the attempts "others" left and the handles "gone" closed before.
LEMMA DestroyedDies ==
    ASSUME SocketInv, NEW k \in SockFields,
           k.handle = sock.handle, k.readToken = sock.readToken,
           k.connectingHandle \in {None, sock.connectingHandle},
           sock' = Destroyed(k),
           NEW gone, NEW others, Left(others, gone),
           closed' = gone \cup ClosedBy(k), attempts' = others,
           plan' \in [1 .. MaxConnects -> PlanFields], PlanStays,
           reads' \subseteq reads, onConnect' = onConnect, ListenerStays,
           past' \in PastFields, past'.pushed = past.pushed, NoCleaner,
           UNCHANGED <<conn, stream, taken>>
    PROVE  Typed' /\ Dies
<1>1. Typed /\ OwnerInv
  BY DEF SocketInv
<1> DEFINE q == Destroyed(k)
<1>2. /\ q \in SockFields
      /\ q.destroyed /\ ~q.connecting /\ q.handle = None /\ q.connectingHandle = None
      /\ q.readToken = k.readToken + 1 /\ ~q.readInFlight /\ q.pendingReadChunks = <<>>
  BY DestroyedFields
<1> HIDE DEF q
<1>3. sock' = q
  BY DEF q
<1>4. /\ closed' \subseteq Handles
      /\ \A h \in ClosedBy(k) : h \in {sock.handle, sock.connectingHandle} \cap Handles
  <2>1. ClosedBy(k) \subseteq Handles
    BY DEF ClosedBy
  <2>2. gone \subseteq Handles
    BY DEF Left
  <2>3. \A h \in ClosedBy(k) : h \in {sock.handle, sock.connectingHandle}
    BY Distinct DEF ClosedBy
  <2> QED BY <2>1, <2>2, <2>3
<1>5. Left(attempts', closed')
  BY <1>1, <1>4 DEF Left, OwnerInv
<1>6. sock.handle \in Handles => sock.handle \in closed'
  BY DEF ClosedBy
<1>7. calling' \in CallFields
  BY <1>1, IdleFields DEF ListenerStays, Typed
<1>8. Typed'
  BY <1>1, <1>2, <1>3, <1>4, <1>5, <1>7 DEF Typed, Left
<1>9. Dies
  BY <1>2, <1>3, <1>5, <1>6 DEF Dies
<1> QED BY <1>8, <1>9

\* The same, with nothing else done.
LEMMA JustDies ==
    ASSUME SocketInv, NEW k \in SockFields, SamePlace(k, sock), k.readToken = sock.readToken,
           sock' = Destroyed(k), closed' = closed \cup ClosedBy(k),
           reads' \subseteq reads, onConnect' = onConnect, ListenerStays,
           past' \in PastFields, past'.pushed = past.pushed, NoCleaner,
           plan' \in [1 .. MaxConnects -> PlanFields], PlanStays,
           UNCHANGED <<conn, attempts, stream, taken>>
    PROVE  Typed' /\ Dies
<1>1. Left(attempts, closed)
  <2>1. closed \subseteq Handles /\ \A h \in closed : Opened(h)
    BY DEF SocketInv, Typed, OwnerInv
  <2> QED BY <2>1, AllLeft
<1>2. k.handle = sock.handle /\ k.connectingHandle \in {None, sock.connectingHandle}
  BY DEF SamePlace
<1> QED BY <1>1, <1>2, DestroyedDies

LEMMA DestroyDies ==
    ASSUME SocketInv, Destroy
    PROVE  Typed' /\ Dies
<1>1. sock \in SockFields /\ plan \in [1 .. MaxConnects -> PlanFields] /\ past \in PastFields
  BY DEF SocketInv, Typed
<1>2. /\ sock' = Destroyed(sock) /\ closed' = closed \cup ClosedBy(sock)
      /\ UNCHANGED <<conn, plan, attempts, reads, onConnect, stream, calling, taken, past>>
  BY DEF Destroy
<1>3. SamePlace(sock, sock)
  BY DEF SamePlace
<1>4. ListenerStays /\ NoCleaner /\ PlanStays
  BY <1>2 DEF ListenerStays, NoCleaner, PlanStays
<1> QED BY <1>1, <1>2, <1>3, <1>4, JustDies

LEMMA DataThrowsKinds ==
    ASSUME SocketInv, DataThrows
    PROVE  Typed' /\ (Idles \/ Dies)
<1>1. Typed /\ sock \in SockFields /\ plan \in [1 .. MaxConnects -> PlanFields]
      /\ past \in PastFields
  BY DEF SocketInv, Typed
<1> DEFINE failed == calling.in = "loop" /\ calling.token = sock.readToken /\ ~sock.destroyed
           k == IF calling.in = "loop" THEN ReadOver(sock) ELSE sock
<1>2. /\ k \in SockFields /\ SamePlace(k, sock) /\ k.netPaused = sock.netPaused
      /\ k.readToken = sock.readToken /\ k.pendingReadChunks = sock.pendingReadChunks
      /\ k.readInFlight = sock.readInFlight \/ ~k.readInFlight
  <2>1. CASE calling.in = "loop"
    BY <1>1, <2>1, FlagFields DEF ReadOver
  <2>2. CASE calling.in # "loop"
    BY <1>1, <2>2 DEF SamePlace
  <2> QED BY <2>1, <2>2
<1>3. /\ calling' = Idle /\ past' = [past EXCEPT !.threw = TRUE]
      /\ sock' = (IF failed THEN Destroyed(k) ELSE k)
      /\ closed' = (IF failed THEN closed \cup ClosedBy(k) ELSE closed)
      /\ UNCHANGED <<conn, plan, attempts, reads, onConnect, stream, taken>>
  BY DEF DataThrows, ReadOver
<1> HIDE DEF failed, k
<1>4. /\ past' \in PastFields /\ past'.pushed = past.pushed /\ past'.threw
      /\ past'.rushed = past.rushed
  BY <1>1, <1>3 DEF PastFields
<1>5. ListenerStays /\ NoCleaner /\ PlanStays
  BY <1>3, <1>4 DEF ListenerStays, NoCleaner, PlanStays
<1>6. CASE failed
  BY <1>1, <1>2, <1>3, <1>4, <1>5, <1>6, JustDies
<1>7. CASE ~failed
  <2>1. Typed'
    <3>1. /\ calling' \in CallFields /\ onConnect' \in Nat /\ reads' \subseteq ReadFields
          /\ stream' \in [reading : BOOLEAN, ended : BOOLEAN]
          /\ taken' \in [Handles -> 0 .. MaxChunks]
      BY <1>1, <1>3, IdleFields DEF Typed
    <3> QED BY <1>1, <1>2, <1>3, <1>4, <1>7, <3>1, TypedLoop
  <2>2. Idles
    BY <1>2, <1>3, <1>4, <1>5, <1>7 DEF Idles, HandlesStay, LoopStays, SamePlace
  <2> QED BY <2>1, <2>2
<1> QED BY <1>6, <1>7
LEMMA ReadReturnsKinds ==
    ASSUME SocketInv, NEW r \in reads, ReadReturns(r)
    PROVE  Typed' /\ (StaleReturns(r) \/ Keeps(r) \/ Pushes(r) \/ Dies) /\ r.result # Unsettled
<1>1. /\ Typed /\ sock \in SockFields /\ plan \in [1 .. MaxConnects -> PlanFields]
      /\ past \in PastFields /\ reads \subseteq ReadFields /\ r \in ReadFields
      /\ onConnect \in Nat /\ calling \in CallFields
      /\ stream \in [reading : BOOLEAN, ended : BOOLEAN]
      /\ taken \in [Handles -> 0 .. MaxChunks]
  BY DEF SocketInv, Typed
<1> DEFINE k == ReadOver(sock)
<1>2. /\ k \in SockFields /\ SamePlace(k, sock) /\ k.netPaused = sock.netPaused
      /\ k.readToken = sock.readToken /\ ~k.readInFlight
      /\ k.pendingReadChunks = sock.pendingReadChunks
  BY <1>1, FlagFields DEF ReadOver
<1>3. /\ calling = Idle /\ r.result # Unsettled /\ reads' = reads \ {r}
      /\ UNCHANGED <<conn, plan, attempts, onConnect, taken>>
  BY DEF ReadReturns, AtRest
<1>4. reads' \subseteq ReadFields
  BY <1>1, <1>3
<1> DEFINE kept == [k EXCEPT !.pendingReadChunks = Append(k.pendingReadChunks, r.result)]
<1>5. \/ /\ r.token # k.readToken
         /\ sock' = k /\ UNCHANGED <<closed, stream, past, calling>>
      \/ /\ r.token = k.readToken /\ r.result = Failed
         /\ sock' = Destroyed(k) /\ closed' = closed \cup ClosedBy(k)
         /\ UNCHANGED <<stream, past, calling>>
      \/ /\ r.token = k.readToken /\ r.result # Failed /\ k.netPaused
         /\ sock' = (IF r.result = End THEN kept ELSE [kept EXCEPT !.reading = FALSE])
         /\ UNCHANGED <<closed, stream, past, calling>>
      \/ /\ r.token = k.readToken /\ r.result # Failed /\ ~k.netPaused
         /\ Push(r.result, "loop", r.token)
         /\ sock' = k /\ UNCHANGED closed
  BY DEF ReadReturns
<1> HIDE DEF k
<1>6. CASE r.token # k.readToken /\ sock' = k /\ UNCHANGED <<closed, stream, past, calling>>
  <2>1. Typed'
    BY <1>1, <1>2, <1>3, <1>4, <1>6, TypedLoop
  <2>2. StaleReturns(r)
    BY <1>2, <1>3, <1>6 DEF StaleReturns, HandlesStay, LoopStays, NoCleaner, SamePlace
  <2> QED BY <1>3, <2>1, <2>2
<1>7. CASE /\ r.token = k.readToken /\ r.result = Failed
           /\ sock' = Destroyed(k) /\ closed' = closed \cup ClosedBy(k)
           /\ UNCHANGED <<stream, past, calling>>
  <2>1. ListenerStays /\ NoCleaner /\ PlanStays /\ reads' \subseteq reads
    BY <1>3, <1>7 DEF ListenerStays, NoCleaner, PlanStays
  <2> QED BY <1>1, <1>2, <1>3, <1>7, <2>1, JustDies
<1>8. r.result # Failed => r.result \in Chunks \cup {End}
  BY <1>1, <1>3 DEF ReadFields
<1>9. CASE /\ r.token = k.readToken /\ r.result # Failed /\ k.netPaused
           /\ sock' = (IF r.result = End THEN kept ELSE [kept EXCEPT !.reading = FALSE])
           /\ UNCHANGED <<closed, stream, past, calling>>
  <2> DEFINE s == Append(k.pendingReadChunks, r.result)
  <2>1. s \in Seq(Chunks \cup {End})
    <3>1. k.pendingReadChunks \in Seq(Chunks \cup {End})
      BY <1>2 DEF SockFields
    <3> QED BY <1>8, <1>9, <3>1
  <2>2. kept = [k EXCEPT !.pendingReadChunks = s]
    OBVIOUS
  <2>3. s = Append(k.pendingReadChunks, r.result)
    OBVIOUS
  <2> HIDE DEF s, kept
  <2>4. /\ kept \in SockFields /\ SamePlace(kept, k) /\ kept.netPaused = k.netPaused
        /\ kept.readToken = k.readToken /\ kept.readInFlight = k.readInFlight
        /\ kept.pendingReadChunks = s
    BY <1>2, <2>1, <2>2, PendingFields
  <2>5. /\ sock' \in SockFields /\ SamePlace(sock', k) /\ sock'.netPaused
        /\ sock'.readToken = k.readToken /\ ~sock'.readInFlight
        /\ sock'.pendingReadChunks = s
    <3>1. CASE r.result = End
      BY <1>2, <1>9, <2>4, <3>1
    <3>2. CASE r.result # End
      <4> DEFINE q == [kept EXCEPT !.reading = FALSE]
      <4>1. /\ q \in SockFields /\ SamePlace(q, kept) /\ SameLoop(q, kept)
            /\ q.netPaused = kept.netPaused
        BY <2>4, FlagFields
      <4>2. sock' = q
        BY <1>9, <3>2
      <4> HIDE DEF q
      <4> QED BY <1>2, <1>9, <2>4, <4>1, <4>2 DEF SamePlace, SameLoop
    <3> QED BY <3>1, <3>2
  <2>6. Typed'
    BY <1>1, <1>3, <1>4, <1>9, <2>5, TypedLoop
  <2>7. Keeps(r)
    BY <1>2, <1>3, <1>8, <1>9, <2>3, <2>5 DEF Keeps, HandlesStay, SamePlace
  <2> QED BY <1>3, <2>6, <2>7
<1>10. CASE /\ r.token = k.readToken /\ r.result # Failed /\ ~k.netPaused
            /\ Push(r.result, "loop", r.token)
            /\ sock' = k /\ UNCHANGED closed
  <2>1. r.token \in Nat
    BY <1>1 DEF ReadFields
  <2>2. /\ stream' \in [reading : BOOLEAN, ended : BOOLEAN]
        /\ past' \in PastFields /\ calling' \in CallFields /\ PushesOn(r.result)
        /\ \/ calling'.in = "none"
           \/ calling'.in = "loop" /\ calling'.token = r.token /\ r.result \in Chunks
    BY <1>1, <1>8, <1>10, <2>1, PushFields
  <2>3. Typed'
    BY <1>1, <1>2, <1>3, <1>4, <1>10, <2>2, TypedLoop
  <2>4. Pushes(r)
    BY <1>2, <1>3, <1>8, <1>10, <2>2 DEF Pushes, HandlesStay, SamePlace
  <2> QED BY <1>3, <2>3, <2>4
<1> QED BY <1>5, <1>6, <1>7, <1>9, <1>10

-----------------------------------------------------------------------------
(* The steps of the attempts.                                                *)

LEMMA PlanUpdate ==
    ASSUME SocketInv, NEW g \in 1 .. conn, NEW q \in PlanFields,
           plan' = [plan EXCEPT ![g] = q], Clean' => g = conn,
           q.index # 0 \/ q.timer # 0 => q.stage = "trying",
           plan[g].index # 0 => q.addresses = plan[g].addresses
    PROVE  /\ plan' \in [1 .. MaxConnects -> PlanFields]
           /\ PlanMoves(g, q.index)
<1>1. plan \in [1 .. MaxConnects -> PlanFields] /\ g \in 1 .. MaxConnects
  BY NetSocketAssumption DEF SocketInv, Typed
<1> QED BY <1>1 DEF PlanMoves

LEMMA TriedFields ==
    ASSUME NEW p \in PlanFields, NEW id \in 1 .. MaxAddresses, NEW t \in 0 .. MaxAddresses
    PROVE  LET q == [p EXCEPT !.index = id, !.timer = t]
           IN  /\ q \in PlanFields /\ q.index = id
               /\ q.stage = p.stage /\ q.addresses = p.addresses
<1>1. id \in 0 .. MaxAddresses
  BY NetSocketAssumption
<1> QED BY <1>1 DEF PlanFields

LEMMA TryNextKinds ==
    ASSUME SocketInv, NEW g \in 1 .. conn, NEW p \in PlanFields,
           p.index = plan[g].index, p.stage = "trying",
           plan[g].index # 0 => p.addresses = plan[g].addresses,
           Clean' => g = conn,
           NEW k \in SockFields, SameLoop(k, sock), k.netPaused = sock.netPaused,
           k.handle = sock.handle, k.connecting = sock.connecting,
           k.destroyed = sock.destroyed, k.connectingHandle \in {None, sock.connectingHandle},
           NEW others, NEW gone, Left(others, gone), Clean' => sock.handle \notin gone,
           TryNext(g, p, k, others, gone),
           onConnect' = onConnect, ListenerStays,
           past' \in PastFields, past'.pushed = past.pushed, NoCleaner,
           UNCHANGED <<conn, reads, stream, taken>>
    PROVE  Typed' /\ (Stays \/ Tries(g) \/ Dies)
<1>1. /\ Typed /\ PhaseInv /\ PlanInv /\ sock \in SockFields
      /\ g \in 1 .. MaxConnects
  BY NetSocketAssumption DEF SocketInv, Typed
<1>2. /\ calling' \in CallFields /\ onConnect' \in Nat /\ reads' \subseteq ReadFields
      /\ stream' \in [reading : BOOLEAN, ended : BOOLEAN]
      /\ taken' \in [Handles -> 0 .. MaxChunks] /\ conn' \in 0 .. MaxConnects
  BY <1>1, IdleFields DEF Typed, ListenerStays
<1>3. gone \subseteq Handles /\ others \subseteq AttemptFields
  BY DEF Left
<1>4. ASSUME plan' = [plan EXCEPT ![g] = p]
      PROVE  plan' \in [1 .. MaxConnects -> PlanFields] /\ PlanStays
  BY <1>4, PlanUpdate DEF PlanStays
<1>5. CASE /\ ~k.connecting \/ k.destroyed
           /\ plan' = [plan EXCEPT ![g] = p]
           /\ sock' = k /\ attempts' = others /\ closed' = gone
  <2>1. Typed'
    BY <1>2, <1>3, <1>4, <1>5 DEF Typed
  <2>2. ~sock.connecting
    BY <1>1, <1>5 DEF PhaseInv
  <2>3. Stays
    BY <1>4, <1>5, <2>2 DEF Stays, ReadsStay
  <2> QED BY <2>1, <2>3
<1>6. CASE /\ plan' = [plan EXCEPT ![g] = p]
           /\ sock' = Destroyed(k) /\ attempts' = others /\ closed' = gone \cup ClosedBy(k)
  <2>1. k.readToken = sock.readToken /\ reads' \subseteq reads
    BY DEF SameLoop
  <2> QED BY <1>4, <1>6, <2>1, DestroyedDies
<1>7. CASE /\ k.connecting /\ ~k.destroyed /\ p.index < p.addresses
           /\ plan' = [plan EXCEPT ![g] = [p EXCEPT !.index = p.index + 1,
                                !.timer = IF p.index + 1 < p.addresses THEN p.index + 1 ELSE @]]
           /\ sock' = [k EXCEPT !.connectingHandle = <<g, p.index + 1>>]
           /\ attempts' = others \cup {[handle |-> <<g, p.index + 1>>, result |-> "none"]}
           /\ closed' = gone
  <2>1. PICK id \in 1 .. MaxAddresses : id = p.index + 1
    BY <1>7, NetSocketAssumption DEF PlanFields
  <2>2. PICK t \in 0 .. MaxAddresses : t = IF id < p.addresses THEN id ELSE p.timer
    <3>1. p.timer \in 0 .. MaxAddresses /\ id \in 0 .. MaxAddresses
      BY <2>1, NetSocketAssumption DEF PlanFields
    <3> QED BY <3>1
  <2> DEFINE q == [p EXCEPT !.index = id, !.timer = t]
             s == [k EXCEPT !.connectingHandle = <<g, id>>]
  <2>3. /\ q \in PlanFields /\ q.index = id /\ q.stage = "trying"
        /\ q.addresses = p.addresses
    BY TriedFields
  <2>4. <<g, id>> \in Handles
    BY <1>1, <2>1, Distinct
  <2>5. /\ s \in SockFields /\ SameLoop(s, k) /\ s.netPaused = k.netPaused
        /\ s.handle = k.handle /\ s.connecting = k.connecting
        /\ s.destroyed = k.destroyed /\ s.connectingHandle = <<g, id>>
    BY <2>4, AttemptingFields
  <2>6. plan' = [plan EXCEPT ![g] = q] /\ sock' = s
    BY <1>7, <2>1, <2>2
  <2> HIDE DEF q, s
  <2>7. plan' \in [1 .. MaxConnects -> PlanFields] /\ PlanMoves(g, id)
    BY <2>3, <2>6, PlanUpdate
  <2>8. [handle |-> <<g, id>>, result |-> "none"] \in AttemptFields
    BY <2>4 DEF AttemptFields
  <2>9. Typed'
    BY <1>2, <1>3, <1>7, <2>1, <2>5, <2>6, <2>7, <2>8 DEF Typed
  <2>10. ReadsStay
    BY <2>5, <2>6 DEF ReadsStay, SameLoop
  <2>11. Tries(g)
    BY <1>3, <1>7, <2>1, <2>4, <2>5, <2>6, <2>7, <2>10 DEF Tries
  <2> QED BY <2>9, <2>11
<1> QED BY <1>5, <1>6, <1>7 DEF TryNext
LEMMA LookupReturnsKinds ==
    ASSUME SocketInv, NEW g \in 1 .. conn, LookupReturns(g)
    PROVE  Typed' /\ (Stays \/ Tries(g) \/ Dies)
<1>1. /\ Typed /\ PlanInv /\ sock \in SockFields /\ past \in PastFields
      /\ plan \in [1 .. MaxConnects -> PlanFields] /\ g \in 1 .. MaxConnects
      /\ plan[g] \in PlanFields
  BY NetSocketAssumption DEF SocketInv, Typed
<1>2. /\ plan[g].stage = "lookup"
      /\ UNCHANGED <<conn, stream, taken, past, reads, onConnect, calling>>
  BY DEF LookupReturns, jobUnchanged
<1>3. plan[g].index = 0 /\ plan[g].timer = 0 /\ (Clean => g = conn)
  BY <1>1, <1>2 DEF PlanInv, SocketInv, CleanHandles
<1>4. /\ Clean' => Clean
      /\ ListenerStays /\ NoCleaner
      /\ past' \in PastFields /\ past'.pushed = past.pushed
  BY <1>1, <1>2 DEF Clean, ListenerStays, NoCleaner
<1>5. closed \subseteq Handles /\ Left(attempts, closed) /\ (Clean => sock.handle \notin closed)
  <2>1. closed \subseteq Handles /\ \A h \in closed : Opened(h)
    BY DEF SocketInv, Typed, OwnerInv
  <2>2. Clean => sock.handle \notin closed
    BY DEF SocketInv, CleanHandles
  <2> QED BY <2>1, <2>2, AllLeft
<1> DEFINE p == [plan[g] EXCEPT !.stage = "trying"]
<1>6. /\ p \in PlanFields /\ p.stage = "trying" /\ p.index = 0 /\ p.timer = 0
      /\ p.addresses = plan[g].addresses
  BY <1>1, <1>3 DEF PlanFields
<1>7. \/ /\ plan' = [plan EXCEPT ![g] = p]
         /\ IF sock.destroyed THEN UNCHANGED <<sock, closed>>
            ELSE sock' = Destroyed(sock) /\ closed' = closed \cup ClosedBy(sock)
         /\ UNCHANGED attempts
      \/ \E n \in 0 .. MaxAddresses :
            TryNext(g, [p EXCEPT !.addresses = n], sock, attempts, closed)
  BY DEF LookupReturns
<1> HIDE DEF p
<1>8. SamePlace(sock, sock) /\ SameLoop(sock, sock)
  BY DEF SamePlace, SameLoop
<1>9. CASE /\ plan' = [plan EXCEPT ![g] = p]
           /\ IF sock.destroyed THEN UNCHANGED <<sock, closed>>
              ELSE sock' = Destroyed(sock) /\ closed' = closed \cup ClosedBy(sock)
           /\ UNCHANGED attempts
  <2>1. plan' \in [1 .. MaxConnects -> PlanFields] /\ PlanStays
    BY <1>3, <1>4, <1>6, <1>9, PlanUpdate DEF PlanStays
  <2>2. CASE sock.destroyed
    <3>1. Typed'
      BY <1>1, <1>2, <1>9, <2>1, <2>2 DEF Typed
    <3>2. ~sock.connecting
      BY <2>2 DEF SocketInv, PhaseInv
    <3>3. Stays
      BY <1>2, <1>4, <1>5, <1>8, <1>9, <2>1, <2>2, <3>2 DEF Stays, ReadsStay
    <3> QED BY <3>1, <3>3
  <2>3. CASE ~sock.destroyed
    BY <1>1, <1>2, <1>4, <1>8, <1>9, <2>1, <2>3, JustDies
  <2> QED BY <2>2, <2>3
<1>10. ASSUME NEW n \in 0 .. MaxAddresses,
              TryNext(g, [p EXCEPT !.addresses = n], sock, attempts, closed)
       PROVE  Typed' /\ (Stays \/ Tries(g) \/ Dies)
  <2> DEFINE q == [p EXCEPT !.addresses = n]
  <2>1. q \in PlanFields /\ q.stage = "trying" /\ q.index = 0
    BY <1>6 DEF PlanFields
  <2>2. TryNext(g, q, sock, attempts, closed)
    BY <1>10
  <2> HIDE DEF q
  <2> QED BY <1>1, <1>2, <1>3, <1>4, <1>5, <1>8, <2>1, <2>2, TryNextKinds
<1> QED BY <1>7, <1>9, <1>10

LEMMA TimerFiresKinds ==
    ASSUME SocketInv, NEW g \in 1 .. conn, TimerFires(g)
    PROVE  Typed' /\ (Stays \/ Tries(g) \/ Dies)
<1>1. /\ Typed /\ PlanInv /\ sock \in SockFields /\ past \in PastFields
      /\ plan \in [1 .. MaxConnects -> PlanFields] /\ g \in 1 .. MaxConnects
      /\ plan[g] \in PlanFields
  BY NetSocketAssumption DEF SocketInv, Typed
<1>2. /\ plan[g].timer # 0
      /\ UNCHANGED <<conn, stream, taken, past, reads, onConnect, calling>>
  BY DEF TimerFires, jobUnchanged
<1>3. plan[g].stage = "trying" /\ (Clean => g = conn)
  BY <1>1, <1>2 DEF PlanInv, SocketInv, CleanHandles
<1>4. /\ Clean' => Clean
      /\ ListenerStays /\ NoCleaner
      /\ past' \in PastFields /\ past'.pushed = past.pushed
  BY <1>1, <1>2 DEF Clean, ListenerStays, NoCleaner
<1>5. closed \subseteq Handles /\ Left(attempts, closed) /\ (Clean => sock.handle \notin closed)
      /\ (Clean /\ sock.connecting => <<conn, plan[conn].index>> \notin closed)
  <2>1. closed \subseteq Handles /\ \A h \in closed : Opened(h)
    BY DEF SocketInv, Typed, OwnerInv
  <2>2. /\ Clean => sock.handle \notin closed
        /\ Clean /\ sock.connecting => <<conn, plan[conn].index>> \notin closed
    BY DEF SocketInv, CleanHandles
  <2> QED BY <2>1, <2>2, AllLeft
<1> DEFINE p == [plan[g] EXCEPT !.timer = 0]
<1>6. /\ p \in PlanFields /\ p.stage = "trying" /\ p.index = plan[g].index
      /\ p.addresses = plan[g].addresses
  BY <1>1, <1>3, NetSocketAssumption DEF PlanFields
<1>7. \/ plan' = [plan EXCEPT ![g] = p] /\ UNCHANGED <<sock, attempts, closed>>
      \/ TryNext(g, p, sock, attempts, closed)
  BY DEF TimerFires
<1> HIDE DEF p
<1>8. SameLoop(sock, sock)
  BY DEF SameLoop
<1>9. CASE plan' = [plan EXCEPT ![g] = p] /\ UNCHANGED <<sock, attempts, closed>>
  <2>1. plan' \in [1 .. MaxConnects -> PlanFields] /\ PlanStays
    BY <1>3, <1>4, <1>6, <1>9, PlanUpdate DEF PlanStays
  <2>2. Typed'
    BY <1>1, <1>2, <1>9, <2>1 DEF Typed
  <2>3. Stays
    BY <1>2, <1>4, <1>5, <1>8, <1>9, <2>1 DEF Stays, ReadsStay
  <2> QED BY <2>2, <2>3
<1>10. CASE TryNext(g, p, sock, attempts, closed)
  BY <1>1, <1>2, <1>3, <1>4, <1>5, <1>6, <1>8, <1>10, TryNextKinds
<1> QED BY <1>7, <1>9, <1>10

LEMMA SettlesStays ==
    ASSUME SocketInv, NEW a \in attempts, Settles(a)
    PROVE  Typed' /\ Stays
<1>1. Typed /\ OwnerInv /\ sock \in SockFields /\ attempts \subseteq AttemptFields
  BY DEF SocketInv, Typed
<1>2. UNCHANGED <<sock, plan, closed, reads, onConnect, calling, conn, stream, taken, past>>
  BY DEF Settles, jobUnchanged
<1>3. PICK b \in AttemptFields :
        b.handle = a.handle /\ attempts' = (attempts \ {a}) \cup {b}
  <2>1. PICK r \in {"ok", "error"} :
            attempts' = (attempts \ {a}) \cup {[a EXCEPT !.result = r]}
    BY DEF Settles
  <2>2. [a EXCEPT !.result = r] \in AttemptFields /\ [a EXCEPT !.result = r].handle = a.handle
    BY <1>1 DEF AttemptFields
  <2> QED BY <2>1, <2>2
<1>4. Typed'
  BY <1>1, <1>2, <1>3 DEF Typed
<1>5. Left(attempts', closed')
  BY <1>1, <1>2, <1>3 DEF Left, OwnerInv, Typed
<1>6. /\ Clean' => Clean
      /\ Clean => sock.handle \notin closed
      /\ Clean /\ sock.connecting => <<conn, plan[conn].index>> \notin closed
  BY <1>2 DEF Clean, SocketInv, CleanHandles
<1>7. Stays
  BY <1>2, <1>5, <1>6 DEF Stays, ReadsStay, SameLoop, NoCleaner, ListenerStays, PlanStays
<1> QED BY <1>4, <1>7
LEMMA AttemptEndsKinds ==
    ASSUME SocketInv, NEW h \in Handles, Opened(h), NEW others, Left(others, closed \cup {h}),
           Clean' => h[1] = conn /\ h # sock.handle,
           AttemptEnds(h, others),
           onConnect' = onConnect, ListenerStays,
           past' \in PastFields, past'.pushed = past.pushed, NoCleaner,
           UNCHANGED <<conn, reads, stream, taken>>
    PROVE  Typed' /\ (Stays \/ (\E g \in 1 .. conn : Tries(g)) \/ Dies)
<1> DEFINE g == h[1]
           k == [sock EXCEPT !.connectingHandle = None]
           p == [plan[g] EXCEPT !.timer = 0]
<1>1. /\ Typed /\ PlanInv /\ sock \in SockFields
      /\ plan \in [1 .. MaxConnects -> PlanFields]
      /\ conn \in 0 .. MaxConnects
  BY DEF SocketInv, Typed
<1>2. g \in 1 .. conn /\ g \in 1 .. MaxConnects /\ plan[g] \in PlanFields
  BY <1>1, Distinct, NetSocketAssumption DEF Opened
<1>3. /\ k \in SockFields /\ SameLoop(k, sock) /\ k.netPaused = sock.netPaused
      /\ k.handle = sock.handle /\ k.connecting = sock.connecting
      /\ k.destroyed = sock.destroyed /\ k.connectingHandle = None
  BY <1>1, AttemptingFields
<1>4. /\ Clean' => Clean
      /\ Clean' => sock.handle \notin closed \cup {h}
      /\ Clean' /\ sock.connecting => <<conn, plan[conn].index>> \notin closed
  BY DEF Clean, NoCleaner, SocketInv, CleanHandles
<1>5. \/ /\ Wanted(h, k)
         /\ TryNext(g, p, k, others, closed \cup {h})
      \/ /\ ~Wanted(h, k)
         /\ closed' = closed \cup {h}
         /\ sock' = k /\ attempts' = others /\ UNCHANGED plan
  BY DEF AttemptEnds
<1>6. CASE Wanted(h, k) /\ TryNext(g, p, k, others, closed \cup {h})
  <2>1. p \in PlanFields /\ p.index = plan[g].index /\ p.addresses = plan[g].addresses
        /\ p.stage = plan[g].stage
    BY <1>2, NetSocketAssumption DEF PlanFields
  <2>2. plan[g].index # 0
    BY <1>2, <1>6, Distinct DEF Wanted
  <2>3. plan[g].stage = "trying"
    BY <1>1, <1>2, <2>2 DEF PlanInv
  <2> HIDE DEF p, k, g
  <2>4. Clean' => g = conn
    BY DEF g
  <2> QED BY <1>2, <1>3, <1>4, <1>6, <2>1, <2>3, <2>4, TryNextKinds
<1>7. CASE /\ ~Wanted(h, k)
           /\ closed' = closed \cup {h}
           /\ sock' = k /\ attempts' = others /\ UNCHANGED plan
  <2>1. Typed'
    <3>1. calling' \in CallFields
      BY <1>1, IdleFields DEF Typed, ListenerStays
    <3> HIDE DEF k
    <3> QED BY <1>1, <1>3, <1>7, <3>1 DEF Typed, Left
  <2>2. Clean' /\ sock.connecting => <<conn, plan[conn].index>> \notin closed'
    <3>1. SUFFICES ASSUME Clean', sock.connecting, <<conn, plan[conn].index>> \in closed'
                   PROVE  FALSE
      OBVIOUS
    <3>2. <<conn, plan[conn].index>> = h
      BY <1>4, <1>7, <3>1
    <3>3. h[1] = conn /\ h[2] = plan[conn].index
      BY <3>2
    <3>4. ~sock.destroyed
      BY <3>1 DEF SocketInv, PhaseInv
    <3> HIDE DEF k
    <3> QED BY <1>3, <1>7, <3>1, <3>3, <3>4 DEF Wanted
  <2> HIDE DEF k
  <2>3. Stays
    BY <1>3, <1>4, <1>7, <2>2 DEF Stays, ReadsStay, SameLoop, PlanStays
  <2> QED BY <2>1, <2>3
<1> QED BY <1>5, <1>6, <1>7

LEMMA ConnectThrowsKinds ==
    ASSUME SocketInv, ConnectThrows
    PROVE  Typed' /\ (Stays \/ (\E g \in 1 .. conn : Tries(g)) \/ Dies)
<1> DEFINE h == calling.handle
<1>1. /\ Typed /\ past \in PastFields /\ closed \subseteq Handles
      /\ \A b \in closed : Opened(b)
  BY DEF SocketInv, Typed, OwnerInv
<1>2. h \in Handles /\ Opened(h)
  BY DEF SocketInv, PhaseInv, ConnectThrows
<1>3. /\ AttemptEnds(h, attempts) /\ calling' = Idle
      /\ past' = [past EXCEPT !.threw = TRUE]
      /\ UNCHANGED <<conn, reads, onConnect, stream, taken>>
  BY DEF ConnectThrows
<1>4. /\ past' \in PastFields /\ past'.pushed = past.pushed /\ past'.threw
      /\ past'.rushed = past.rushed
  BY <1>1, <1>3 DEF PastFields
<1>5. ~Clean' /\ NoCleaner /\ ListenerStays
  BY <1>3, <1>4 DEF Clean, NoCleaner, ListenerStays
<1> HIDE DEF h
<1>6. Left(attempts, closed \cup {h})
  <2>1. closed \cup {h} \in SUBSET Handles /\ closed \subseteq closed \cup {h}
        /\ \A b \in closed \cup {h} : Opened(b)
    BY <1>1, <1>2
  <2> QED BY <2>1, AllLeft
<1> QED BY <1>2, <1>3, <1>4, <1>5, <1>6, AttemptEndsKinds

LEMMA AttemptReturnsKinds ==
    ASSUME SocketInv, NEW a \in attempts, AttemptReturns(a)
    PROVE  Typed' /\ (Stays \/ (\E g \in 1 .. conn : Tries(g)) \/ Dies \/ Wins(a))
<1> DEFINE h == a.handle
           g == h[1]
           others == attempts \ {a}
           k == [sock EXCEPT !.connectingHandle = None, !.connecting = FALSE, !.handle = h]
<1>1. /\ Typed /\ PlanInv /\ PhaseInv /\ past \in PastFields /\ closed \subseteq Handles
      /\ \A b \in closed : Opened(b)
      /\ plan \in [1 .. MaxConnects -> PlanFields]
      /\ h \in Handles /\ Opened(h) /\ h # sock.handle /\ sock \in SockFields
  BY DEF SocketInv, Typed, OwnerInv, AttemptFields
<1>2. g \in 1 .. conn /\ g \in 1 .. MaxConnects /\ plan[g] \in PlanFields
  <2>1. conn \in 0 .. MaxConnects
    BY <1>1 DEF Typed
  <2> QED BY <1>1, <2>1, Distinct, NetSocketAssumption DEF Opened
<1>3. calling = Idle /\ UNCHANGED <<conn, stream, taken, past>>
  BY DEF AttemptReturns, AtRest, jobUnchanged
<1>4. Clean' => g = conn
  BY <1>3 DEF Clean, SocketInv, CleanHandles
<1>5. CASE AttemptEnds(h, others) /\ UNCHANGED <<reads, onConnect, calling>>
  <2>1. Left(others, closed \cup {h})
    BY <1>1 DEF Left, SocketInv, OwnerInv, Typed
  <2>2. NoCleaner /\ ListenerStays
    BY <1>3, <1>5 DEF NoCleaner, ListenerStays
  <2> HIDE DEF h, others
  <2> QED BY <1>1, <1>3, <1>4, <1>5, <2>1, <2>2, AttemptEndsKinds DEF g
<1>6. CASE /\ Wanted(h, sock)
           /\ plan' = [plan EXCEPT ![g].timer = 0]
           /\ attempts' = others
           /\ IF onConnect > 0
              THEN sock' = Polling(k) /\ reads' = PollLoops(k)
              ELSE sock' = k /\ UNCHANGED reads
           /\ onConnect' = 0
           /\ calling' = [Idle EXCEPT !.in = "connect", !.handle = h]
           /\ UNCHANGED closed
  <2> DEFINE p == [plan[g] EXCEPT !.timer = 0]
  <2>1. /\ p \in PlanFields /\ p.index = plan[g].index /\ p.addresses = plan[g].addresses
        /\ p.stage = plan[g].stage
    BY <1>2, NetSocketAssumption DEF PlanFields
  <2>2. plan[g].index # 0 /\ sock.connecting /\ ~sock.destroyed
    BY <1>1, <1>6, Distinct DEF Wanted
  <2>3. plan[g].stage = "trying"
    BY <1>1, <1>2, <2>2 DEF PlanInv
  <2>4. plan' = [plan EXCEPT ![g] = p]
    BY <1>2, <1>6
  <2> HIDE DEF p
  <2>5. plan' \in [1 .. MaxConnects -> PlanFields] /\ PlanMoves(g, plan[g].index)
    BY <1>2, <1>4, <2>1, <2>3, <2>4, PlanUpdate
  <2>6. ~sock.readInFlight /\ sock.pendingReadChunks = <<>>
    BY <1>1, <2>2, Distinct DEF PhaseInv
  <2>7. /\ k \in SockFields /\ SameLoop(k, sock) /\ k.netPaused = sock.netPaused
        /\ k.handle = h /\ ~k.connecting
        /\ k.destroyed = sock.destroyed /\ k.connectingHandle = None
    BY <1>1, ConnectedFields
  <2> DEFINE w == Polling(k)
  <2>8. /\ w \in SockFields
        /\ SamePlace(w, k) /\ w.readInFlight /\ w.netPaused = k.netPaused
        /\ w.pendingReadChunks = k.pendingReadChunks
        /\ w.readToken = k.readToken + 1
    BY <2>6, <2>7, PollingFields DEF SameLoop
  <2> HIDE DEF w, k
  <2>9. /\ sock' \in SockFields
        /\ sock'.handle = h /\ ~sock'.connecting /\ ~sock'.destroyed
        /\ sock'.connectingHandle = None
        /\ sock'.pendingReadChunks = <<>>
        /\ \/ /\ sock'.readToken = sock.readToken /\ ~sock'.readInFlight
              /\ reads' = reads
           \/ /\ sock'.readToken = sock.readToken + 1 /\ sock'.readInFlight
              /\ reads' = reads \cup
                    {[token |-> sock.readToken + 1, on |-> h, result |-> Unsettled]}
    <3>1. CASE onConnect > 0
      <4>1. sock' = w /\ reads' = PollLoops(k)
        BY <1>6, <3>1 DEF w
      <4>2. PollLoops(k) = reads \cup
                    {[token |-> sock.readToken + 1, on |-> h, result |-> Unsettled]}
        BY <2>6, <2>7 DEF PollLoops, SameLoop
      <4> QED BY <2>2, <2>6, <2>7, <2>8, <4>1, <4>2 DEF SameLoop, SamePlace
    <3>2. CASE ~(onConnect > 0)
      <4>1. sock' = k /\ UNCHANGED reads
        BY <1>6, <3>2
      <4> QED BY <2>2, <2>6, <2>7, <4>1 DEF SameLoop
    <3> QED BY <3>1, <3>2
  <2>10. reads' \subseteq ReadFields
    <3>1. sock.readToken + 1 \in Nat /\ reads \subseteq ReadFields
      BY <1>1 DEF SockFields, Typed
    <3>2. [token |-> sock.readToken + 1, on |-> h, result |-> Unsettled] \in ReadFields
      BY <1>1, <3>1 DEF ReadFields
    <3> QED BY <2>9, <3>1, <3>2
  <2>11. Typed'
    <3>1. calling' \in CallFields
      BY <1>1, <1>6, IdleFields
    <3> QED BY <1>1, <1>3, <1>6, <2>5, <2>9, <2>10, <3>1 DEF Typed
  <2>12. Wins(a)
    BY <1>3, <1>6, <2>5, <2>9 DEF Wins
  <2> QED BY <2>11, <2>12
<1> QED BY <1>5, <1>6 DEF AttemptReturns
LEMMA AddressFields ==
    ASSUME NEW p \in PlanFields, MaxAddresses > 0
    PROVE  LET q == [p EXCEPT !.stage = "trying", !.addresses = 1]
           IN  /\ q \in PlanFields /\ q.stage = "trying" /\ q.addresses = 1
               /\ q.index = p.index /\ q.timer = p.timer
<1>1. 1 \in 0 .. MaxAddresses
  BY NetSocketAssumption
<1> QED BY <1>1 DEF PlanFields

LEMMA FirstFields ==
    ASSUME NEW p \in PlanFields, MaxAddresses > 0
    PROVE  LET q == [p EXCEPT !.index = 1, !.timer = 0]
           IN  q \in PlanFields /\ q.index = 1 /\ q.stage = p.stage
<1>1. 1 \in 0 .. MaxAddresses /\ 0 \in 0 .. MaxAddresses
  BY NetSocketAssumption
<1> QED BY <1>1 DEF PlanFields

LEMMA ConnectConnects ==
    ASSUME SocketInv, Connect
    PROVE  Typed' /\ Connects
<1> DEFINE g == conn + 1
           k == [(IF sock.destroyed THEN Reset(sock) ELSE sock)
                    EXCEPT !.connecting = TRUE, !.handle = Wrap]
<1>1. /\ Typed /\ PlanInv /\ PhaseInv /\ sock \in SockFields
      /\ plan \in [1 .. MaxConnects -> PlanFields] /\ past \in PastFields
      /\ stream \in [reading : BOOLEAN, ended : BOOLEAN]
  BY DEF SocketInv, Typed
<1>2. /\ conn < MaxConnects /\ conn' = g
      /\ ~sock.connecting /\ sock.handle = None
      /\ UNCHANGED <<reads, onConnect, calling, taken>>
  BY <1>1 DEF Connect, PhaseInv
<1>3. conn \in Nat /\ g \in 1 .. MaxConnects /\ conn' \in 0 .. MaxConnects
  BY <1>1, <1>2, NetSocketAssumption DEF Typed
<1>4. /\ k \in SockFields
      /\ k.connecting /\ k.handle = Wrap /\ ~k.destroyed
      /\ k.connectingHandle = sock.connectingHandle
      /\ k.readToken = sock.readToken + 1 \/ k.readToken = sock.readToken
      /\ ~k.readInFlight /\ k.pendingReadChunks = <<>>
  BY <1>1, <1>2, ConnectingFields, Distinct DEF PhaseInv, SameLoop
<1>5. plan[g] = Untried /\ plan[g] \in PlanFields
  BY <1>1, <1>3 DEF PlanInv
<1>6. /\ stream' \in [reading : BOOLEAN, ended : BOOLEAN] /\ ~stream'.ended
  <2>1. stream' = (IF sock.destroyed THEN [reading |-> FALSE, ended |-> FALSE] ELSE stream)
    BY DEF Connect
  <2> QED BY <1>1, <1>2, <2>1, Distinct DEF PhaseInv
<1>7. /\ past' \in PastFields /\ past'.pushed = <<>>
      /\ Clean' => ~past.rushed /\ ~UnderWay
  <2>1. past' = [pushed |-> <<>>, rushed |-> past.rushed \/ UnderWay,
                 early |-> past.early /\ ~sock.destroyed, threw |-> FALSE]
    BY DEF Connect
  <2>2. past'.rushed = (past.rushed \/ UnderWay) /\ past'.pushed = <<>>
    BY <2>1
  <2>3. <<>> \in Seq(Chunks) /\ (past.rushed \/ UnderWay) \in BOOLEAN
        /\ (past.early /\ ~sock.destroyed) \in BOOLEAN
    BY <1>1 DEF UnderWay
  <2>4. past' \in PastFields
    BY <2>1, <2>3 DEF PastFields
  <2> QED BY <2>2, <2>4 DEF Clean
<1>8. /\ reads' \subseteq ReadFields /\ onConnect' \in Nat /\ calling' \in CallFields
      /\ taken' \in [Handles -> 0 .. MaxChunks] /\ closed \subseteq Handles
      /\ attempts \subseteq AttemptFields
  BY <1>1, <1>2 DEF Typed
<1> DEFINE p == [plan[g] EXCEPT !.stage = "trying", !.addresses = 1]
<1>9. \/ /\ plan' = [plan EXCEPT ![g].stage = "lookup"]
         /\ sock' = k /\ UNCHANGED <<attempts, closed>>
      \/ MaxAddresses > 0 /\ TryNext(g, p, k, attempts, closed)
  BY DEF Connect
<1>10. CASE /\ plan' = [plan EXCEPT ![g].stage = "lookup"]
            /\ sock' = k /\ UNCHANGED <<attempts, closed>>
  <2> DEFINE q == [plan[g] EXCEPT !.stage = "lookup"]
  <2>1. q \in PlanFields /\ q.index = 0 /\ q.timer = 0
    BY <1>5, NetSocketAssumption DEF PlanFields, Untried
  <2>2. plan' = [plan EXCEPT ![g] = q]
    BY <1>10
  <2> HIDE DEF q, k
  <2>3. /\ plan' \in [1 .. MaxConnects -> PlanFields] /\ plan'[g] = q
        /\ \A f \in (1 .. MaxConnects) \ {g} : plan'[f] = plan[f]
    BY <1>1, <1>3, <2>1, <2>2
  <2>4. Typed'
    BY <1>3, <1>4, <1>6, <1>7, <1>8, <1>10, <2>3 DEF Typed
  <2>5. Connects
    BY <1>2, <1>3, <1>4, <1>6, <1>7, <1>10, <2>1, <2>3 DEF Connects
  <2> QED BY <2>4, <2>5
<1>11. CASE MaxAddresses > 0 /\ TryNext(g, p, k, attempts, closed)
  <2>1. plan[g].index = 0 /\ plan[g].timer = 0
    BY <1>5 DEF Untried
  <2>2. 1 \in 1 .. MaxAddresses /\ 0 \in 0 .. MaxAddresses /\ MaxAddresses > 0
    BY <1>11, NetSocketAssumption
  <2>3. PICK o \in PlanFields :
            /\ o = p
            /\ o.index = 0 /\ o.addresses = 1 /\ o.timer = 0 /\ o.stage = "trying"
    BY <1>5, <2>1, <2>2, AddressFields
  <2> DEFINE q == [o EXCEPT !.index = 1, !.timer = 0]
             h == <<g, 1>>
             s == [k EXCEPT !.connectingHandle = h]
  <2>4. q \in PlanFields /\ q.index = 1 /\ q.stage = "trying"
    BY <2>2, <2>3, FirstFields
  <2> HIDE DEF p, k
  <2>5. h \in Handles
    BY <1>3, <2>2, Distinct
  <2>6. /\ s \in SockFields /\ SameLoop(s, k) /\ s.netPaused = k.netPaused
        /\ s.handle = k.handle /\ s.connecting = k.connecting
        /\ s.destroyed = k.destroyed /\ s.connectingHandle = h
    BY <1>4, <2>5, AttemptingFields
  <2>7. /\ plan' = [plan EXCEPT ![g] = q]
        /\ sock' = s
        /\ attempts' = attempts \cup {[handle |-> h, result |-> "none"]}
        /\ closed' = closed
    <3>1. o.index + 1 = 1 /\ ~(o.index >= o.addresses) /\ ~(1 < o.addresses)
      BY <2>3
    <3>2. /\ plan' = [plan EXCEPT ![g] = [o EXCEPT !.index = 1, !.timer = o.timer]]
          /\ sock' = [k EXCEPT !.connectingHandle = <<g, 1>>]
          /\ attempts' = attempts \cup {[handle |-> <<g, 1>>, result |-> "none"]}
          /\ closed' = closed
      BY <1>4, <1>11, <2>3, <3>1 DEF TryNext
    <3> QED BY <2>3, <3>2
  <2> HIDE DEF q, s
  <2>8. /\ plan' \in [1 .. MaxConnects -> PlanFields] /\ plan'[g] = q
        /\ \A f \in (1 .. MaxConnects) \ {g} : plan'[f] = plan[f]
    BY <1>1, <1>3, <2>4, <2>7
  <2>9. attempts' \subseteq AttemptFields
    <3>1. [handle |-> h, result |-> "none"] \in AttemptFields
      BY <2>5 DEF AttemptFields
    <3> QED BY <1>8, <2>7, <3>1
  <2>10. Typed'
    BY <1>3, <1>6, <1>7, <1>8, <2>6, <2>7, <2>8, <2>9 DEF Typed
  <2>11. Connects
    BY <1>2, <1>3, <1>4, <1>6, <1>7, <2>4, <2>5, <2>6, <2>7, <2>8 DEF Connects, SameLoop
  <2> QED BY <2>10, <2>11
<1> QED BY <1>9, <1>10, <1>11

\* Every step is one of these.
Kinds ==
    \/ Polls \/ Stays \/ Dies \/ Connects
    \/ \E g \in 1 .. conn : Tries(g)
    \/ \E a \in attempts : Wins(a)

LEMMA NextKinds ==
    ASSUME SocketInv, Next
    PROVE  Typed' /\ Kinds
<1> USE DEF Kinds, Polls
<1>1. ASSUME Call PROVE Typed' /\ Kinds
  BY <1>1, ConnectConnects, DestroyDies, PauseIdles, ResumePolls DEF Call
<1>2. ASSUME NEW g \in 1 .. conn, LookupReturns(g) \/ TimerFires(g) PROVE Typed' /\ Kinds
  BY <1>2, LookupReturnsKinds, TimerFiresKinds
<1>3. ASSUME NEW a \in attempts, Settles(a) \/ AttemptReturns(a) PROVE Typed' /\ Kinds
  BY <1>3, SettlesStays, AttemptReturnsKinds
<1>4. ASSUME NEW r \in reads, HostReads(r) \/ ReadReturns(r) PROVE Typed' /\ Kinds
  BY <1>4, HostReadsTyped, ReadReturnsKinds
<1>5. ASSUME StreamReads \/ ConnectEmitted \/ ConnectThrows \/ DataThrows
      PROVE  Typed' /\ Kinds
  BY <1>5, StreamReadsPolls, ConnectEmittedPolls, ConnectThrowsKinds, DataThrowsKinds
<1>6. ASSUME NEW keepGoing \in BOOLEAN, LoopGoesOn(keepGoing) \/ DrainGoesOn(keepGoing)
      PROVE  Typed' /\ Kinds
  BY <1>6, LoopGoesOnPolls, DrainGoesOnPolls
<1> QED BY <1>1, <1>2, <1>3, <1>4, <1>5, <1>6 DEF Next, Job

-----------------------------------------------------------------------------
(* The invariant is kept.  First by the steps of the poll loops.             *)

LEMMA HandlesKept ==
    ASSUME SocketInv, Typed', HandlesStay, NoCleaner,
           \A h \in Handles : taken'[h] > 0 => taken[h] > 0 \/ \E r \in reads : r.on = h,
           \A r \in reads' : (\E q \in reads : q.on = r.on)
                             \/ (r.on = sock.handle /\ sock.handle \in Handles)
    PROVE  /\ PlanInv' /\ OwnerInv' /\ NoLeak' /\ (Clean' => Clean /\ CleanHandles')
<1>1. PlanInv /\ OwnerInv /\ NoLeak /\ (Clean => CleanHandles)
  BY DEF SocketInv
<1>2. /\ UNCHANGED <<conn, plan, attempts, closed>>
      /\ sock'.handle = sock.handle /\ sock'.connecting = sock.connecting
      /\ sock'.connectingHandle = sock.connectingHandle
  BY DEF HandlesStay, SamePlace
<1>3. \A h : Opened(h)' <=> Opened(h)
  BY <1>2 DEF Opened
<1>4. PlanInv'
  BY <1>1, <1>2 DEF PlanInv
<1>5. OwnerInv'
  <2>1. \A a \in attempts' : Opened(a.handle)' /\ a.handle # sock'.handle
    BY <1>1, <1>2, <1>3 DEF OwnerInv
  <2>2. \A a, b \in attempts' : a.handle = b.handle => a = b
    BY <1>1, <1>2 DEF OwnerInv
  <2>3. \A h \in closed' \cup ({sock'.handle, sock'.connectingHandle} \cap Handles) : Opened(h)'
    BY <1>1, <1>2, <1>3 DEF OwnerInv
  <2>4. \A h \in Handles : taken'[h] > 0 => Opened(h)' /\ \A a \in attempts' : a.handle # h
    BY <1>1, <1>2, <1>3 DEF OwnerInv
  <2>5. \A r \in reads' : Opened(r.on)' /\ \A a \in attempts' : a.handle # r.on
    BY <1>1, <1>2, <1>3 DEF OwnerInv
  <2> QED BY <2>1, <2>2, <2>3, <2>4, <2>5 DEF OwnerInv
<1>6. NoLeak'
  BY <1>1, <1>2 DEF NoLeak
<1>7. Clean' => Clean
  BY DEF Clean, NoCleaner
<1>8. Clean' => CleanHandles'
  BY <1>1, <1>2, <1>7 DEF CleanHandles
<1> QED BY <1>4, <1>5, <1>6, <1>7, <1>8

\* What the next lemmas start from.
LEMMA CleanParts ==
    ASSUME SocketInv
    PROVE  /\ Typed /\ PlanInv /\ PhaseInv /\ LoopInv /\ OwnerInv /\ NoLeak
           /\ plan \in [1 .. MaxConnects -> PlanFields] /\ conn \in 0 .. MaxConnects
           /\ Clean => CleanHandles /\ CleanReads /\ CleanContent
           /\ sock \in SockFields /\ sock.readToken \in Nat /\ reads \subseteq ReadFields
           /\ past.pushed \in Seq(Chunks)
           /\ sock.pendingReadChunks \in Seq(Chunks \cup {End})
           /\ Idle.in = "none"
BY DEF SocketInv, Typed, SockFields, PastFields, Idle

LEMMA SameChunksOn ==
    ASSUME UNCHANGED plan
    PROVE  \A h : ChunksOn(h)' = ChunksOn(h)
BY DEF ChunksOn

LEMMA IdlesKeeps ==
    ASSUME SocketInv, Typed', Idles
    PROVE  SocketInv'
<1>1. PlanInv' /\ OwnerInv' /\ NoLeak' /\ (Clean' => Clean /\ CleanHandles')
  BY HandlesKept DEF Idles, LoopStays
<1>2. /\ UNCHANGED <<conn, plan, attempts, closed, reads, taken>>
      /\ sock'.handle = sock.handle /\ sock'.connecting = sock.connecting
      /\ sock'.destroyed = sock.destroyed /\ sock'.readToken = sock.readToken
      /\ sock'.pendingReadChunks = sock.pendingReadChunks
      /\ sock.netPaused => sock'.netPaused \/ sock.pendingReadChunks = <<>>
      /\ sock'.readInFlight = sock.readInFlight \/ (~sock'.readInFlight /\ past'.threw)
      /\ stream'.ended = stream.ended /\ past'.pushed = past.pushed
      /\ calling' = calling \/ calling' = Idle
  BY DEF Idles, HandlesStay, SamePlace, LoopStays, ListenerStays
<1>3. /\ PhaseInv /\ LoopInv /\ Idle.in = "none"
      /\ Clean => CleanHandles /\ CleanReads /\ CleanContent
  BY CleanParts
<1>4. PhaseInv'
  BY <1>2, <1>3 DEF PhaseInv, Opened
<1>5. LoopInv'
  BY <1>2, <1>3 DEF LoopInv
<1>6. Clean' => CleanReads'
  BY <1>1, <1>2, <1>3 DEF CleanReads, Clean
<1>7. Clean' => CleanContent'
  BY <1>1, <1>2, <1>3, SameChunksOn DEF CleanContent
<1> QED BY <1>1, <1>4, <1>5, <1>6, <1>7 DEF SocketInv

LEMMA LoopStartsKeeps ==
    ASSUME SocketInv, Typed', LoopStarts
    PROVE  SocketInv'
<1> DEFINE n == [token |-> sock.readToken + 1, on |-> sock.handle, result |-> Unsettled]
<1>1. /\ UNCHANGED <<conn, plan, attempts, closed, taken>>
      /\ sock.handle \in Handles
      /\ sock'.handle = sock.handle /\ sock'.connecting = sock.connecting
      /\ sock'.destroyed = sock.destroyed /\ sock'.readToken = sock.readToken + 1
      /\ sock.pendingReadChunks = <<>> /\ sock'.pendingReadChunks = <<>>
      /\ ~sock.readInFlight /\ sock'.readInFlight
      /\ ~stream.ended /\ ~stream'.ended /\ past'.pushed = past.pushed
      /\ calling' = calling \/ calling' = Idle
      /\ reads' = reads \cup {n}
  BY DEF LoopStarts, HandlesStay, SamePlace, ListenerStays
<1>2. n.token = sock.readToken + 1 /\ n.on = sock.handle /\ n.result = Unsettled
  OBVIOUS
<1> HIDE DEF n
<1>3. PlanInv' /\ OwnerInv' /\ NoLeak' /\ (Clean' => Clean /\ CleanHandles')
  BY <1>1, <1>2, HandlesKept DEF LoopStarts
<1>4. /\ PhaseInv /\ LoopInv /\ Idle.in = "none" /\ sock.readToken \in Nat
      /\ Clean => CleanHandles /\ CleanReads /\ CleanContent
      /\ reads \subseteq ReadFields
  BY CleanParts
<1>5. \A r \in reads : r.token \in Nat /\ r.token < sock.readToken + 1
  BY <1>4 DEF LoopInv, ReadFields
<1>6. PhaseInv'
  BY <1>1, <1>4 DEF PhaseInv, Opened
<1>7. LoopInv'
  <2>1. \A r \in reads' : r.token <= sock'.readToken
    BY <1>1, <1>2, <1>4, <1>5
  <2>2. \A r \in reads' : r.token = sock'.readToken => r = n
    BY <1>1, <1>2, <1>4, <1>5
  <2>3. calling'.in = "loop" =>
            calling'.token # sock'.readToken /\ calling'.token <= sock'.readToken
    <3>1. calling'.token \in Nat
      BY DEF Typed, CallFields
    <3>2. calling'.in = "loop" => calling'.token <= sock.readToken
      BY <1>1, <1>4 DEF LoopInv
    <3> QED BY <1>1, <1>4, <3>1, <3>2
  <2>4. calling'.in # "read"
    BY <1>1, <1>4 DEF LoopInv
  <2>5. /\ \A r \in reads' : r.token = sock'.readToken => r.on = sock'.handle
        /\ \A r, q \in reads' : r.token = sock'.readToken /\ q.token = sock'.readToken => r = q
    BY <1>1, <1>2, <2>2
  <2> QED BY <1>1, <2>1, <2>3, <2>4, <2>5 DEF LoopInv
<1>8. Clean => reads = {}
  BY <1>1, <1>4 DEF CleanReads
<1>9. Clean' => CleanReads'
  BY <1>1, <1>2, <1>3, <1>4, <1>8, Distinct DEF CleanReads, PhaseInv
<1>10. Clean' => CleanContent'
  BY <1>1, <1>2, <1>3, <1>4, <1>8, Distinct DEF CleanContent
<1> QED BY <1>3, <1>6, <1>7, <1>9, <1>10 DEF SocketInv
LEMMA LoopReadsKeeps ==
    ASSUME SocketInv, Typed', LoopReads
    PROVE  SocketInv'
<1> DEFINE n == [token |-> sock.readToken, on |-> sock.handle, result |-> Unsettled]
<1>1. /\ UNCHANGED <<conn, plan, attempts, closed, taken>>
      /\ sock'.handle = sock.handle /\ sock'.connecting = sock.connecting
      /\ sock'.destroyed = sock.destroyed /\ sock'.readToken = sock.readToken
      /\ sock'.pendingReadChunks = sock.pendingReadChunks
      /\ sock'.readInFlight
      /\ stream'.ended = stream.ended /\ past'.pushed = past.pushed
      /\ calling.in = "loop" /\ calling.token = sock.readToken /\ calling' = Idle
      /\ reads' = reads \cup {n}
  BY DEF LoopReads, HandlesStay, SamePlace, LoopStays
<1>2. n.token = sock.readToken /\ n.on = sock.handle /\ n.result = Unsettled
  OBVIOUS
<1> HIDE DEF n
<1>3. /\ PhaseInv /\ LoopInv /\ Idle.in = "none" /\ sock.readToken \in Nat
      /\ Clean => CleanHandles /\ CleanReads /\ CleanContent
      /\ reads \subseteq ReadFields
  BY CleanParts
<1>4. /\ sock.handle \in Handles /\ sock.pendingReadChunks = <<>>
      /\ \A r \in reads : r.token # sock.readToken
  BY <1>1, <1>3 DEF LoopInv
<1>5. PlanInv' /\ OwnerInv' /\ NoLeak' /\ (Clean' => Clean /\ CleanHandles')
  BY <1>1, <1>2, <1>4, HandlesKept DEF LoopReads, LoopStays
<1>6. PhaseInv'
  BY <1>1, <1>3, <1>4 DEF PhaseInv, Opened
<1>7. LoopInv'
  <2>1. \A r \in reads' : r.token <= sock'.readToken
    BY <1>1, <1>2, <1>3 DEF LoopInv
  <2>2. \A r \in reads' : r.token = sock'.readToken => r = n
    BY <1>1, <1>2, <1>4
  <2>3. /\ \A r \in reads' : r.token = sock'.readToken => r.on = sock'.handle
        /\ \A r, q \in reads' : r.token = sock'.readToken /\ q.token = sock'.readToken => r = q
    BY <1>1, <1>2, <2>2
  <2> QED BY <1>1, <1>3, <1>4, <2>1, <2>3 DEF LoopInv
<1>8. Clean => reads = {}
  BY <1>3, <1>4 DEF CleanReads
<1>9. Clean' => CleanReads'
  BY <1>1, <1>2, <1>3, <1>4, <1>5, <1>8, Distinct DEF CleanReads, PhaseInv
<1>10. ~stream.ended
  BY <1>1, <1>3 DEF LoopInv
<1>11. Clean' => CleanContent'
  BY <1>1, <1>2, <1>3, <1>4, <1>5, <1>8, <1>10, Distinct DEF CleanContent
<1> QED BY <1>5, <1>6, <1>7, <1>9, <1>11 DEF SocketInv
LEMMA StaleReturnsKeeps ==
    ASSUME SocketInv, Typed', NEW r \in reads, StaleReturns(r)
    PROVE  SocketInv'
<1>1. /\ UNCHANGED <<conn, plan, attempts, closed, taken, calling>>
      /\ sock'.handle = sock.handle /\ sock'.connecting = sock.connecting
      /\ sock'.destroyed = sock.destroyed /\ sock'.readToken = sock.readToken
      /\ sock'.pendingReadChunks = sock.pendingReadChunks
      /\ sock.netPaused => sock'.netPaused \/ sock.pendingReadChunks = <<>>
      /\ ~sock'.readInFlight /\ r.token # sock.readToken
      /\ stream'.ended = stream.ended /\ past'.pushed = past.pushed
      /\ reads' = reads \ {r}
  BY DEF StaleReturns, HandlesStay, SamePlace, LoopStays
<1>2. /\ PhaseInv /\ LoopInv
      /\ Clean => CleanHandles /\ CleanReads /\ CleanContent
  BY CleanParts
<1>3. PlanInv' /\ OwnerInv' /\ NoLeak' /\ (Clean' => Clean /\ CleanHandles')
  BY <1>1, HandlesKept DEF StaleReturns, LoopStays
<1>4. PhaseInv'
  BY <1>1, <1>2 DEF PhaseInv, Opened
<1>5. LoopInv'
  BY <1>1, <1>2 DEF LoopInv
<1>6. Clean => sock.handle \notin Handles
  BY <1>1, <1>2 DEF CleanReads
<1>7. Clean' => CleanReads'
  BY <1>1, <1>2, <1>3, <1>6 DEF CleanReads
<1>8. Clean' => CleanContent'
  BY <1>1, <1>3, <1>6 DEF CleanContent
<1> QED BY <1>3, <1>4, <1>5, <1>7, <1>8 DEF SocketInv

LEMMA OnePending ==
    ASSUME NEW S, NEW v \in S
    PROVE  LET s == Append(<<>>, v)
           IN  s # <<>> /\ Len(s) = 1 /\ s[1] = v
OBVIOUS

\* What holds when the read of the socket's poll loop is the one that returns.
LEMMA CurrentRead ==
    ASSUME SocketInv, NEW r \in reads, r.token = sock.readToken
    PROVE  /\ r.on = sock.handle /\ sock.handle \in Handles /\ ~sock.connecting
           /\ sock.pendingReadChunks = <<>> /\ ~stream.ended
           /\ \A q \in reads \ {r} : q.token # sock.readToken
           /\ ~(calling.in = "loop" /\ calling.token = sock.readToken)
           /\ Clean => reads = {r}
<1>1. /\ PhaseInv /\ LoopInv /\ (Clean => CleanReads)
      /\ r \in ReadFields
  BY CleanParts
<1>2. r.on = sock.handle /\ sock.handle \in Handles
  BY <1>1 DEF LoopInv, ReadFields
<1>3. ~sock.connecting
  BY <1>1, <1>2, Distinct DEF PhaseInv
<1>4. /\ sock.pendingReadChunks = <<>> /\ ~stream.ended
      /\ \A q \in reads \ {r} : q.token # sock.readToken
      /\ ~(calling.in = "loop" /\ calling.token = sock.readToken)
  BY <1>1 DEF LoopInv
<1>5. Clean => reads = {r}
  BY <1>1, <1>2, <1>4 DEF CleanReads
<1> QED BY <1>2, <1>3, <1>4, <1>5

LEMMA KeepsKeeps ==
    ASSUME SocketInv, Typed', NEW r \in reads, Keeps(r)
    PROVE  SocketInv'
<1> DEFINE s == Append(<<>>, r.result)
<1>1. /\ UNCHANGED <<conn, plan, attempts, closed, taken, calling, stream, past>>
      /\ sock'.handle = sock.handle /\ sock'.connecting = sock.connecting
      /\ sock'.destroyed = sock.destroyed /\ sock'.readToken = sock.readToken
      /\ sock'.pendingReadChunks = Append(sock.pendingReadChunks, r.result)
      /\ sock'.netPaused /\ ~sock'.readInFlight /\ r.token = sock.readToken
      /\ r.result \in Chunks \cup {End}
      /\ calling = Idle
      /\ reads' = reads \ {r}
  BY DEF Keeps, HandlesStay, SamePlace
<1>2. /\ PhaseInv /\ LoopInv /\ Idle.in = "none"
      /\ Clean => CleanHandles /\ CleanReads /\ CleanContent
  BY CleanParts
<1>3. /\ r.on = sock.handle /\ sock.handle \in Handles /\ ~sock.connecting
      /\ sock.pendingReadChunks = <<>> /\ ~stream.ended
      /\ \A q \in reads \ {r} : q.token # sock.readToken
      /\ Clean => reads = {r}
  BY <1>1, CurrentRead
<1>4. s # <<>> /\ Len(s) = 1 /\ s[1] = r.result
  BY <1>1, OnePending
<1>5. sock'.pendingReadChunks = s
  BY <1>1, <1>3
<1> HIDE DEF s
<1>6. NoCleaner
  BY <1>1 DEF NoCleaner
<1>7. PlanInv' /\ OwnerInv' /\ NoLeak' /\ (Clean' => Clean /\ CleanHandles')
  BY <1>1, <1>6, HandlesKept DEF Keeps
<1>8. PhaseInv'
  BY <1>1, <1>2, <1>3 DEF PhaseInv, Opened
<1>9. LoopInv'
  BY <1>1, <1>2, <1>3, <1>4, <1>5 DEF LoopInv
<1>10. Clean' => CleanReads'
  BY <1>1, <1>3, <1>7 DEF CleanReads
<1>11. Clean' => CleanContent'
  BY <1>1, <1>2, <1>3, <1>4, <1>5, <1>7, SameChunksOn, Distinct DEF CleanContent
<1> QED BY <1>7, <1>8, <1>9, <1>10, <1>11 DEF SocketInv

\* The chunks pushed are still 1, 2, ... after the next one.
LEMMA PushedOn ==
    ASSUME NEW s \in Seq(Chunks), \A i \in 1 .. Len(s) : s[i] = i,
           NEW v \in Chunks, Len(s) = v - 1
    PROVE  LET t == Append(s, v)
           IN  Len(t) = v /\ \A i \in 1 .. Len(t) : t[i] = i
<1>1. v \in Int
  BY NetSocketAssumption DEF Chunks
<1> QED BY <1>1

LEMMA PushesKeeps ==
    ASSUME SocketInv, Typed', NEW r \in reads, Pushes(r)
    PROVE  SocketInv'
<1>1. /\ UNCHANGED <<conn, plan, attempts, closed, taken>>
      /\ sock'.handle = sock.handle /\ sock'.connecting = sock.connecting
      /\ sock'.destroyed = sock.destroyed /\ sock'.readToken = sock.readToken
      /\ sock'.pendingReadChunks = sock.pendingReadChunks
      /\ ~sock'.readInFlight /\ r.token = sock.readToken
      /\ r.result \in Chunks \cup {End}
      /\ stream'.ended = (stream.ended \/ r.result = End)
      /\ past'.pushed = (IF r.result \in Chunks THEN Append(past.pushed, r.result)
                         ELSE past.pushed)
      /\ \/ calling'.in = "none"
         \/ calling'.in = "loop" /\ calling'.token = r.token /\ r.result \in Chunks
      /\ reads' = reads \ {r}
  BY DEF Pushes, HandlesStay, SamePlace, PushesOn
<1>2. /\ PhaseInv /\ LoopInv /\ sock.readToken \in Nat
      /\ past.pushed \in Seq(Chunks)
      /\ Clean => CleanHandles /\ CleanReads /\ CleanContent
  BY CleanParts
<1>3. /\ r.on = sock.handle /\ sock.handle \in Handles /\ ~sock.connecting
      /\ sock.pendingReadChunks = <<>> /\ ~stream.ended
      /\ \A q \in reads \ {r} : q.token # sock.readToken
      /\ Clean => reads = {r}
  BY <1>1, CurrentRead
<1>4. PlanInv' /\ OwnerInv' /\ NoLeak' /\ (Clean' => Clean /\ CleanHandles')
  BY <1>1, HandlesKept DEF Pushes, PushesOn
<1>5. PhaseInv'
  BY <1>1, <1>2, <1>3 DEF PhaseInv, Opened
<1>6. LoopInv'
  <2>1. r.result \in Chunks => r.result # End
    BY Distinct
  <2> QED BY <1>1, <1>2, <1>3, <2>1 DEF LoopInv
<1>7. Clean' => CleanReads'
  BY <1>1, <1>3, <1>4 DEF CleanReads
<1>8. Clean' => CleanContent'
  <2> SUFFICES ASSUME Clean' PROVE CleanContent'
    OBVIOUS
  <2>1. CleanContent /\ reads = {r} /\ reads' = {}
    BY <1>1, <1>2, <1>3, <1>4
  <2>2. /\ \A i \in 1 .. Len(past.pushed) : past.pushed[i] = i
        /\ r.result \in Chunks =>
            taken[sock.handle] = r.result /\ Len(past.pushed) = taken[sock.handle] - 1
        /\ r.result \notin Chunks => Len(past.pushed) = taken[sock.handle]
        /\ r.result = End => taken[sock.handle] = ChunksOn(sock.handle)
    BY <1>3, <2>1 DEF CleanContent
  <2>3. /\ \A i \in 1 .. Len(past'.pushed) : past'.pushed[i] = i
        /\ Len(past'.pushed) = taken[sock.handle]
    <3>1. CASE r.result \in Chunks
      <4>1. past'.pushed = Append(past.pushed, r.result)
        BY <1>1, <3>1
      <4>2. /\ Len(past.pushed) = r.result - 1 /\ taken[sock.handle] = r.result
            /\ \A i \in 1 .. Len(past.pushed) : past.pushed[i] = i
        BY <2>2, <3>1
      <4> DEFINE t == Append(past.pushed, r.result)
      <4>3. Len(t) = r.result /\ \A i \in 1 .. Len(t) : t[i] = i
        BY <1>2, <3>1, <4>2, PushedOn
      <4> HIDE DEF t
      <4>4. past'.pushed = t
        BY <4>1 DEF t
      <4> QED BY <4>2, <4>3, <4>4
    <3>2. CASE r.result \notin Chunks
      BY <1>1, <2>2, <3>2
    <3> QED BY <3>1, <3>2
  <2> QED BY <1>1, <1>3, <2>1, <2>2, <2>3, SameChunksOn DEF CleanContent
<1> QED BY <1>4, <1>5, <1>6, <1>7, <1>8 DEF SocketInv
LEMMA OneLeft ==
    ASSUME NEW S, NEW s \in Seq(S), Len(s) = 1
    PROVE  Head(s) = s[1] /\ Head(s) \in S /\ Tail(s) = <<>>
<1> DEFINE t == Tail(s)
<1>1. t \in Seq(S) /\ Len(t) = 0
  <2>1. s # <<>>
    OBVIOUS
  <2> QED BY <2>1
<1> HIDE DEF t
<1>2. t = <<>>
  BY <1>1
<1>3. Head(s) = s[1] /\ s[1] \in S
  OBVIOUS
<1> QED BY <1>2, <1>3 DEF t

LEMMA DrainsKeeps ==
    ASSUME SocketInv, Typed', Drains
    PROVE  SocketInv'
<1> DEFINE p == sock.pendingReadChunks
           v == Head(p)
<1>1. /\ UNCHANGED <<conn, plan, attempts, closed, reads, taken>>
      /\ sock'.handle = sock.handle /\ sock'.connecting = sock.connecting
      /\ sock'.destroyed = sock.destroyed /\ sock'.readToken = sock.readToken
      /\ sock'.readInFlight = sock.readInFlight
      /\ p # <<>> /\ sock'.pendingReadChunks = Tail(p)
      /\ stream'.ended = (stream.ended \/ v = End)
      /\ past'.pushed = (IF v \in Chunks THEN Append(past.pushed, v) ELSE past.pushed)
      /\ calling'.in \in {"none", "drain"}
  BY DEF Drains, HandlesStay, SamePlace, PushesOn
<1>2. /\ PhaseInv /\ LoopInv /\ past.pushed \in Seq(Chunks)
      /\ p \in Seq(Chunks \cup {End})
      /\ Clean => CleanHandles /\ CleanReads /\ CleanContent
  BY CleanParts
<1>3. /\ Len(p) = 1 /\ \A r \in reads : r.token # sock.readToken
      /\ ~stream.ended
  BY <1>1, <1>2 DEF LoopInv
<1>4. v = p[1] /\ v \in Chunks \cup {End} /\ Tail(p) = <<>>
  BY <1>2, <1>3, OneLeft
<1>5. sock.handle \in Handles /\ ~sock.connecting
  BY <1>1, <1>2, Distinct DEF PhaseInv
<1> HIDE DEF p, v
<1>6. PlanInv' /\ OwnerInv' /\ NoLeak' /\ (Clean' => Clean /\ CleanHandles')
  BY <1>1, HandlesKept DEF Drains, PushesOn
<1>7. PhaseInv'
  BY <1>1, <1>2, <1>5 DEF PhaseInv, Opened
<1>8. LoopInv'
  BY <1>1, <1>2, <1>3, <1>4 DEF LoopInv
<1>9. Clean => reads = {}
  BY <1>2, <1>3, <1>5 DEF CleanReads
<1>10. Clean' => CleanReads'
  BY <1>1, <1>2, <1>5, <1>6, <1>9 DEF CleanReads
<1>11. Clean' => CleanContent'
  <2> SUFFICES ASSUME Clean' PROVE CleanContent'
    OBVIOUS
  <2>1. CleanContent /\ reads' = {}
    BY <1>1, <1>2, <1>6, <1>9
  <2>2. /\ \A i \in 1 .. Len(past.pushed) : past.pushed[i] = i
        /\ v \in Chunks => taken[sock.handle] = v /\ Len(past.pushed) = taken[sock.handle] - 1
        /\ v = End => /\ Len(past.pushed) = taken[sock.handle]
                      /\ taken[sock.handle] = ChunksOn(sock.handle)
    BY <1>1, <1>4, <1>5, <2>1 DEF CleanContent, p
  <2>3. /\ \A i \in 1 .. Len(past'.pushed) : past'.pushed[i] = i
        /\ Len(past'.pushed) = taken[sock.handle]
    <3>1. CASE v \in Chunks
      <4>1. past'.pushed = Append(past.pushed, v)
        BY <1>1, <3>1
      <4>2. /\ Len(past.pushed) = v - 1 /\ taken[sock.handle] = v
            /\ \A i \in 1 .. Len(past.pushed) : past.pushed[i] = i
        BY <2>2, <3>1
      <4> DEFINE t == Append(past.pushed, v)
      <4>3. Len(t) = v /\ \A i \in 1 .. Len(t) : t[i] = i
        BY <1>2, <3>1, <4>2, PushedOn
      <4> HIDE DEF t
      <4>4. past'.pushed = t
        BY <4>1 DEF t
      <4> QED BY <4>2, <4>3, <4>4
    <3>2. CASE v \notin Chunks
      BY <1>1, <1>4, <2>2, <3>2
    <3> QED BY <3>1, <3>2
  <2> QED BY <1>1, <1>3, <1>4, <2>1, <2>2, <2>3, SameChunksOn DEF CleanContent
<1> QED BY <1>6, <1>7, <1>8, <1>10, <1>11 DEF SocketInv

LEMMA HostReadsKeeps ==
    ASSUME SocketInv, Typed', NEW r \in reads, HostReads(r)
    PROVE  SocketInv'
<1>1. /\ PhaseInv /\ LoopInv /\ reads \subseteq ReadFields /\ r \in ReadFields
      /\ Clean => CleanHandles /\ CleanReads /\ CleanContent
      /\ taken \in [Handles -> 0 .. MaxChunks]
  BY CleanParts DEF Typed
<1>2. /\ r.result = Unsettled
      /\ UNCHANGED <<conn, sock, plan, attempts, closed, onConnect, stream, calling, past>>
  BY DEF HostReads
<1>3. PICK v \in Chunks \cup {End, Failed} :
        /\ v = End => taken[r.on] = ChunksOn(r.on)
        /\ v \in Chunks => v = taken[r.on] + 1
        /\ reads' = (reads \ {r}) \cup {[r EXCEPT !.result = v]}
        /\ taken' = IF v \in Chunks THEN [taken EXCEPT ![r.on] = v] ELSE taken
  BY DEF HostReads
<1>4. PICK n \in ReadFields : n = [r EXCEPT !.result = v]
  BY <1>1, <1>3 DEF ReadFields
<1>5. n.token = r.token /\ n.on = r.on /\ n.result = v
  BY <1>1, <1>4 DEF ReadFields
<1>6. reads' = (reads \ {r}) \cup {n}
  BY <1>3, <1>4
<1>7. \A h \in Handles : taken'[h] = taken[h] \/ (h = r.on /\ v \in Chunks /\ taken'[h] = v)
  BY <1>1, <1>3
<1>8. HandlesStay /\ NoCleaner
  BY <1>2 DEF HandlesStay, SamePlace, NoCleaner
<1>9. PlanInv' /\ OwnerInv' /\ NoLeak' /\ (Clean' => Clean /\ CleanHandles')
  <2>1. \A h \in Handles : taken'[h] > 0 => taken[h] > 0 \/ \E q \in reads : q.on = h
    BY <1>7
  <2>2. \A q \in reads' : \E o \in reads : o.on = q.on
    BY <1>5, <1>6
  <2> QED BY <1>8, <2>1, <2>2, HandlesKept
<1>10. PhaseInv'
  BY <1>1, <1>2 DEF PhaseInv, Opened
<1>11. LoopInv'
  <2>1. /\ \A q \in reads' : q.token <= sock.readToken
        /\ \A q \in reads' : q.token = sock.readToken => q.on = sock.handle
    BY <1>1, <1>5, <1>6 DEF LoopInv
  <2>2. \A q, o \in reads' : q.token = sock.readToken /\ o.token = sock.readToken => q = o
    BY <1>1, <1>5, <1>6 DEF LoopInv
  <2>3. (\A q \in reads : q.token # sock.readToken) => \A q \in reads' : q.token # sock.readToken
    BY <1>5, <1>6
  <2> QED BY <1>1, <1>2, <2>1, <2>2, <2>3 DEF LoopInv
<1>12. Clean' => CleanReads'
  BY <1>1, <1>2, <1>5, <1>6, <1>9 DEF CleanReads
<1>13. Clean' => CleanContent'
  <2> SUFFICES ASSUME Clean', sock.handle \in Handles PROVE CleanContent'
    BY <1>2 DEF CleanContent
  <2>1. CleanContent /\ CleanReads
    BY <1>1, <1>9
  <2>2. r.token = sock.readToken
    BY <2>1 DEF CleanReads
  <2>3. r.on = sock.handle /\ reads = {r} /\ sock.pendingReadChunks = <<>> /\ ~stream.ended
    BY <1>9, <2>2, CurrentRead
  <2>4. reads' = {n}
    BY <1>6, <2>3
  <2>5. /\ \A i \in 1 .. Len(past.pushed) : past.pushed[i] = i
        /\ Len(past.pushed) = taken[sock.handle]
    BY <1>2, <2>1, <2>3, Distinct DEF CleanContent
  <2>6. /\ v \in Chunks => taken'[sock.handle] = v /\ Len(past.pushed) = v - 1
        /\ v \notin Chunks => taken'[sock.handle] = taken[sock.handle]
    BY <1>1, <1>3, <1>7, <2>3, <2>5
  <2>7. v = End => taken'[sock.handle] = ChunksOn(sock.handle)
    BY <1>3, <2>3, <2>6, Distinct
  <2> QED BY <1>2, <1>5, <2>3, <2>4, <2>5, <2>6, <2>7, SameChunksOn DEF CleanContent
<1> QED BY <1>9, <1>10, <1>11, <1>12, <1>13 DEF SocketInv

-----------------------------------------------------------------------------
(* Then by the steps of the attempts.                                        *)

LEMMA PlanKept ==
    ASSUME SocketInv, Typed', conn' = conn, NoCleaner,
           \/ plan' = plan
           \/ \E g \in 1 .. conn :
                PlanMoves(g, plan[g].index) \/ PlanMoves(g, plan[g].index + 1)
    PROVE  /\ PlanInv'
           /\ \A h \in Handles : Opened(h) => Opened(h)' /\ ChunksOn(h)' = ChunksOn(h)
           /\ Clean' => \A f \in 1 .. MaxConnects :
                            f # conn => plan'[f].stage # "lookup" /\ plan'[f].timer = 0
<1>1. /\ PlanInv /\ plan \in [1 .. MaxConnects -> PlanFields] /\ conn \in 0 .. MaxConnects
      /\ plan' \in [1 .. MaxConnects -> PlanFields]
      /\ Clean' => CleanHandles
  BY DEF SocketInv, Typed, Clean, NoCleaner
<1>2. \A f \in 1 .. MaxConnects :
        /\ plan[f].index \in Nat /\ plan'[f].index \in Nat
        /\ plan'[f].index <= MaxAddresses
  BY <1>1, NetSocketAssumption DEF PlanFields
<1>3. CASE plan' = plan
  BY <1>1, <1>3 DEF PlanInv, Opened, ChunksOn, CleanHandles
<1>4. ASSUME NEW g \in 1 .. conn, NEW n \in Nat, PlanMoves(g, n), plan[g].index <= n
      PROVE  /\ PlanInv'
             /\ \A h \in Handles : Opened(h) => Opened(h)' /\ ChunksOn(h)' = ChunksOn(h)
             /\ Clean' => \A f \in 1 .. MaxConnects :
                            f # conn => plan'[f].stage # "lookup" /\ plan'[f].timer = 0
  <2>1. g \in 1 .. MaxConnects /\ ~(g > conn)
    BY <1>1, NetSocketAssumption
  <2>2. PlanInv'
    BY <1>1, <1>2, <1>4, <2>1 DEF PlanInv, PlanMoves
  <2>3. ASSUME NEW h \in Handles, Opened(h)
        PROVE  Opened(h)' /\ ChunksOn(h)' = ChunksOn(h)
    <3>1. h[1] \in 1 .. MaxConnects /\ h[2] \in 1 .. MaxAddresses /\ h[2] <= plan[h[1]].index
      BY <2>3, Distinct DEF Opened
    <3>2. plan[h[1]].index # 0
      BY <1>2, <3>1, NetSocketAssumption
    <3>3. plan'[h[1]].index >= plan[h[1]].index /\ plan'[h[1]].addresses = plan[h[1]].addresses
      BY <1>2, <1>4, <3>1, <3>2 DEF PlanMoves
    <3>4. h[2] <= plan'[h[1]].index
      BY <1>2, <3>1, <3>3, NetSocketAssumption
    <3> QED BY <2>3, <3>3, <3>4 DEF Opened, ChunksOn
  <2>4. Clean' => \A f \in 1 .. MaxConnects :
                    f # conn => plan'[f].stage # "lookup" /\ plan'[f].timer = 0
    BY <1>1, <1>4 DEF PlanMoves, CleanHandles
  <2> QED BY <2>2, <2>3, <2>4
<1>5. \A g \in 1 .. conn : /\ plan[g].index \in Nat /\ plan[g].index + 1 \in Nat
                           /\ plan[g].index <= plan[g].index
                           /\ plan[g].index <= plan[g].index + 1
  BY <1>1, <1>2, NetSocketAssumption
<1> QED BY <1>3, <1>4, <1>5

\* What the attempts that are left own.
LEMMA LeftKept ==
    ASSUME SocketInv, NEW others, NEW gone, Left(others, gone),
           \A h \in Handles : Opened(h) => Opened(h)'
    PROVE  /\ \A a \in others : Opened(a.handle)' /\ a.handle # sock.handle
           /\ \A h \in gone : Opened(h)'
           /\ \A h \in Handles : taken[h] > 0 => Opened(h)' /\ \A a \in others : a.handle # h
           /\ \A r \in reads : Opened(r.on)' /\ \A a \in others : a.handle # r.on
<1>1. /\ OwnerInv /\ attempts \subseteq AttemptFields /\ reads \subseteq ReadFields
  BY DEF SocketInv, Typed
<1>2. \A a \in others : a.handle \in Handles /\ \E b \in attempts : b.handle = a.handle
  BY DEF Left, AttemptFields
<1>3. \A a \in others : Opened(a.handle) /\ a.handle # sock.handle
  BY <1>1, <1>2 DEF OwnerInv
<1>4. \A h \in gone : h \in Handles /\ Opened(h)
  BY DEF Left
<1>5. \A h \in Handles : taken[h] > 0 => Opened(h) /\ \A a \in others : a.handle # h
  BY <1>1, <1>2 DEF OwnerInv
<1>6. \A r \in reads : r.on \in Handles /\ Opened(r.on) /\ \A a \in others : a.handle # r.on
  BY <1>1, <1>2 DEF OwnerInv, ReadFields
<1> QED BY <1>2, <1>3, <1>4, <1>5, <1>6

LEMMA StaysKeeps ==
    ASSUME SocketInv, Typed', Stays
    PROVE  SocketInv'
<1>1. /\ UNCHANGED <<conn, reads, stream, taken>>
      /\ sock'.handle = sock.handle /\ sock'.connecting = sock.connecting
      /\ sock'.destroyed = sock.destroyed
      /\ sock'.connectingHandle \in {None, sock.connectingHandle}
      /\ sock'.readToken = sock.readToken /\ sock'.readInFlight = sock.readInFlight
      /\ sock'.pendingReadChunks = sock.pendingReadChunks
      /\ sock'.netPaused = sock.netPaused
      /\ past'.pushed = past.pushed /\ NoCleaner
      /\ calling' = calling \/ calling' = Idle
      /\ PlanStays /\ Left(attempts', closed')
      /\ Clean' => sock.handle \notin closed'
      /\ Clean' /\ sock.connecting => <<conn, plan[conn].index>> \notin closed'
  BY DEF Stays, ReadsStay, SameLoop, ListenerStays
<1>2. /\ PhaseInv /\ LoopInv /\ OwnerInv /\ NoLeak /\ Idle.in = "none"
      /\ Clean => CleanHandles /\ CleanReads /\ CleanContent
      /\ plan \in [1 .. MaxConnects -> PlanFields] /\ conn \in 0 .. MaxConnects
      /\ Clean' => Clean
  <2>1. Clean' => Clean
    BY <1>1 DEF Clean, NoCleaner
  <2> QED BY <2>1, CleanParts
<1>3. /\ PlanInv'
      /\ \A h \in Handles : Opened(h) => Opened(h)' /\ ChunksOn(h)' = ChunksOn(h)
      /\ Clean' => \A f \in 1 .. MaxConnects :
                        f # conn => plan'[f].stage # "lookup" /\ plan'[f].timer = 0
  BY <1>1, PlanKept DEF PlanStays
<1>4. \A f \in 1 .. conn : plan'[f].index = plan[f].index
  BY <1>1, <1>2, NetSocketAssumption DEF PlanStays, PlanMoves
<1>5. PhaseInv'
  BY <1>1, <1>2, <1>3 DEF PhaseInv
<1>6. OwnerInv'
  <2>1. /\ \A a \in attempts' : Opened(a.handle)' /\ a.handle # sock'.handle
        /\ \A h \in closed' : Opened(h)'
        /\ \A h \in Handles : taken'[h] > 0 => Opened(h)' /\ \A a \in attempts' : a.handle # h
        /\ \A r \in reads' : Opened(r.on)' /\ \A a \in attempts' : a.handle # r.on
    BY <1>1, <1>3, LeftKept
  <2>2. \A h \in {sock'.handle, sock'.connectingHandle} \cap Handles : Opened(h)'
    BY <1>1, <1>2, <1>3, Distinct DEF OwnerInv
  <2>3. \A a, b \in attempts' : a.handle = b.handle => a = b
    BY <1>1 DEF Left
  <2> QED BY <2>1, <2>2, <2>3 DEF OwnerInv
<1>7. LoopInv'
  BY <1>1, <1>2 DEF LoopInv
<1>8. NoLeak'
  <2> SUFFICES ASSUME NEW g \in 1 .. conn, NEW i \in 1 .. MaxAddresses,
                      i <= plan'[g].index, <<g, i>> \notin closed'
               PROVE  sock'.handle = <<g, i>> \/ \E a \in attempts' : a.handle = <<g, i>>
    BY <1>1 DEF NoLeak
  <2>1. i <= plan[g].index /\ <<g, i>> \notin closed
    BY <1>1, <1>4 DEF Left
  <2>2. CASE sock.handle = <<g, i>>
    BY <1>1, <2>2
  <2>3. ASSUME NEW a \in attempts, a.handle = <<g, i>>
        PROVE  \E b \in attempts' : b.handle = <<g, i>>
    BY <1>1, <2>3 DEF Left
  <2> QED BY <1>2, <2>1, <2>2, <2>3 DEF NoLeak
<1>9. Clean' => CleanHandles'
  <2> SUFFICES ASSUME Clean' PROVE CleanHandles'
    OBVIOUS
  <2>1. \A a \in attempts' : a.handle[1] = conn
    BY <1>1, <1>2 DEF CleanHandles, Left
  <2>2. sock.connecting => conn \in 1 .. conn
    BY <1>2 DEF PhaseInv
  <2> QED BY <1>1, <1>3, <1>4, <2>1, <2>2 DEF CleanHandles
<1>10. Clean' => CleanReads'
  BY <1>1, <1>2 DEF CleanReads, Left
<1>11. Clean' => CleanContent'
  <2>1. \A h \in Handles : h = sock.handle => ChunksOn(h)' = ChunksOn(h)
    BY <1>2, <1>3 DEF OwnerInv
  <2> QED BY <1>1, <1>2, <2>1 DEF CleanContent
<1> QED BY <1>3, <1>5, <1>6, <1>7, <1>8, <1>9, <1>10, <1>11 DEF SocketInv
LEMMA TriesKeeps ==
    ASSUME SocketInv, Typed', NEW g \in 1 .. conn, Tries(g)
    PROVE  SocketInv'
<1>1. PICK i, h : i = plan[g].index + 1 /\ h = <<g, i>>
  OBVIOUS
<1>2. PICK n : n = [handle |-> h, result |-> "none"]
  OBVIOUS
<1>3. /\ UNCHANGED <<conn, reads, stream, taken>>
      /\ sock'.handle = sock.handle /\ sock'.connecting /\ sock.connecting
      /\ ~sock'.destroyed
      /\ sock'.connectingHandle = h
      /\ sock'.readToken = sock.readToken /\ sock'.readInFlight = sock.readInFlight
      /\ sock'.pendingReadChunks = sock.pendingReadChunks
      /\ sock'.netPaused = sock.netPaused
      /\ past'.pushed = past.pushed /\ NoCleaner
      /\ calling' = calling \/ calling' = Idle
      /\ h \in Handles /\ PlanMoves(g, i)
  BY <1>1 DEF Tries, ReadsStay, SameLoop, ListenerStays
<1>4. PICK others \in SUBSET AttemptFields :
        Left(others, closed') /\ attempts' = others \cup {n}
  BY <1>1, <1>2 DEF Tries
<1>5. n.handle = h
  BY <1>2
<1>6. /\ PhaseInv /\ LoopInv /\ OwnerInv /\ NoLeak /\ Idle.in = "none"
      /\ Clean => CleanHandles /\ CleanReads /\ CleanContent
      /\ plan \in [1 .. MaxConnects -> PlanFields] /\ conn \in 0 .. MaxConnects
      /\ Clean' => Clean
  <2>1. Clean' => Clean
    BY <1>3 DEF Clean, NoCleaner
  <2> QED BY <2>1, CleanParts
<1>7. /\ PlanInv'
      /\ \A b \in Handles : Opened(b) => Opened(b)' /\ ChunksOn(b)' = ChunksOn(b)
      /\ Clean' => \A f \in 1 .. MaxConnects :
                        f # conn => plan'[f].stage # "lookup" /\ plan'[f].timer = 0
  BY <1>1, <1>3, PlanKept
<1>8. g \in 1 .. MaxConnects /\ plan[g].index \in Nat /\ i \in Nat
  BY <1>6, <1>1, NetSocketAssumption DEF PlanFields
<1>9. /\ h[1] = g /\ h[2] = i /\ ~Opened(h) /\ plan'[g].index = i
      /\ sock.handle \notin Handles
  <2>1. sock.handle \notin Handles
    BY <1>3, <1>6, Distinct DEF PhaseInv
  <2>2. plan'[g].index = i
    BY <1>3 DEF PlanMoves
  <2>3. h[1] = g /\ h[2] = i
    BY <1>1
  <2>4. ~(h[2] <= plan[h[1]].index)
    BY <1>8, <1>1, <2>3
  <2> QED BY <2>1, <2>2, <2>3, <2>4 DEF Opened
<1>10. Opened(h)'
  <2>1. g <= conn /\ i <= i
    BY <1>6, <1>8
  <2> QED BY <1>3, <1>9, <2>1 DEF Opened
<1>11. PhaseInv'
  BY <1>3, <1>6, <1>7 DEF PhaseInv
<1>12. OwnerInv'
  <2>1. /\ \A a \in others : Opened(a.handle)' /\ a.handle # sock.handle
        /\ \A b \in closed' : Opened(b)'
        /\ \A b \in Handles : taken[b] > 0 => Opened(b)' /\ \A a \in others : a.handle # b
        /\ \A r \in reads : Opened(r.on)' /\ \A a \in others : a.handle # r.on
    BY <1>4, <1>7, LeftKept
  <2>2. /\ \A b \in Handles : taken[b] > 0 => b # h
        /\ \A r \in reads : r.on # h
        /\ \A a \in others : a.handle # h
        /\ h # sock.handle
    BY <1>3, <1>4, <1>6, <1>9 DEF OwnerInv, Left
  <2>3. \A a \in attempts' : a \in others \/ a = n
    BY <1>4
  <2>4. \A a \in attempts' : Opened(a.handle)' /\ a.handle # sock'.handle
    BY <1>3, <1>5, <1>10, <2>1, <2>2, <2>3
  <2>5. \A a, b \in attempts' : a.handle = b.handle => a = b
    BY <1>4, <1>5, <2>2, <2>3 DEF Left
  <2>6. \A b \in closed' \cup ({sock'.handle, sock'.connectingHandle} \cap Handles) : Opened(b)'
    BY <1>3, <1>9, <1>10, <2>1
  <2>7. /\ \A b \in Handles : taken'[b] > 0 => Opened(b)' /\ \A a \in attempts' : a.handle # b
        /\ \A r \in reads' : Opened(r.on)' /\ \A a \in attempts' : a.handle # r.on
    BY <1>3, <1>5, <2>1, <2>2, <2>3
  <2> QED BY <2>4, <2>5, <2>6, <2>7 DEF OwnerInv
<1>13. LoopInv'
  BY <1>3, <1>6 DEF LoopInv
<1>14. NoLeak'
  <2> SUFFICES ASSUME NEW f \in 1 .. conn, NEW j \in 1 .. MaxAddresses,
                      j <= plan'[f].index, <<f, j>> \notin closed'
               PROVE  \E a \in attempts' : a.handle = <<f, j>>
    BY <1>3 DEF NoLeak
  <2>1. CASE f = g /\ j = i
    BY <1>4, <1>5, <1>1, <2>1
  <2>2. CASE ~(f = g /\ j = i)
    <3>1. j <= plan[f].index
      <4>1. CASE f = g
        BY <1>8, <1>9, <2>2, <4>1, NetSocketAssumption, <1>1
      <4>2. CASE f # g
        BY <1>3, <1>6, <4>2, NetSocketAssumption DEF PlanMoves
      <4> QED BY <4>1, <4>2
    <3>2. <<f, j>> \notin closed /\ sock.handle # <<f, j>>
      <4>1. <<f, j>> \in Handles
        BY <1>6, Distinct, NetSocketAssumption
      <4> QED BY <1>4, <1>9, <4>1 DEF Left
    <3>3. PICK a \in attempts : a.handle = <<f, j>>
      BY <1>6, <3>1, <3>2 DEF NoLeak
    <3>4. PICK b \in others : b.handle = <<f, j>>
      BY <1>4, <3>3 DEF Left
    <3> QED BY <1>4, <3>4
  <2> QED BY <2>1, <2>2
<1>15. Clean' => CleanHandles'
  <2> SUFFICES ASSUME Clean' PROVE CleanHandles'
    OBVIOUS
  <2>1. g = conn
    BY <1>3 DEF PlanMoves
  <2>2. \A a \in attempts' : a.handle[1] = conn
    BY <1>4, <1>5, <1>6, <1>9, <2>1 DEF CleanHandles, Left
  <2>3. h \notin closed' /\ sock.handle \notin closed'
    BY <1>4, <1>9 DEF Left
  <2>4. <<conn, plan'[conn].index>> = h
    BY <1>9, <1>1, <2>1
  <2> QED BY <1>3, <1>7, <2>2, <2>3, <2>4 DEF CleanHandles
<1>16. Clean' => CleanReads'
  BY <1>3, <1>6, <1>9 DEF CleanReads
<1>17. Clean' => CleanContent'
  BY <1>3, <1>9 DEF CleanContent
<1> QED BY <1>7, <1>11, <1>12, <1>13, <1>14, <1>15, <1>16, <1>17 DEF SocketInv
LEMMA DiesKeeps ==
    ASSUME SocketInv, Typed', Dies
    PROVE  SocketInv'
<1>1. /\ UNCHANGED <<conn, stream, taken>>
      /\ past'.pushed = past.pushed /\ NoCleaner
      /\ calling' = calling \/ calling' = Idle
      /\ PlanStays
      /\ sock'.destroyed /\ ~sock'.connecting /\ sock'.handle = None
      /\ sock'.connectingHandle = None
      /\ sock'.readToken = sock.readToken + 1 /\ ~sock'.readInFlight
      /\ sock'.pendingReadChunks = <<>>
      /\ reads' \subseteq reads
      /\ Left(attempts', closed')
      /\ sock.handle \in Handles => sock.handle \in closed'
  BY DEF Dies, ListenerStays
<1>2. /\ PhaseInv /\ LoopInv /\ OwnerInv /\ NoLeak /\ Idle.in = "none"
      /\ Clean => CleanHandles /\ CleanReads /\ CleanContent
      /\ plan \in [1 .. MaxConnects -> PlanFields] /\ conn \in 0 .. MaxConnects
      /\ reads \subseteq ReadFields /\ sock.readToken \in Nat
      /\ Clean' => Clean
  <2>1. Clean' => Clean
    BY <1>1 DEF Clean, NoCleaner
  <2> QED BY <2>1, CleanParts
<1>3. /\ PlanInv'
      /\ \A h \in Handles : Opened(h) => Opened(h)' /\ ChunksOn(h)' = ChunksOn(h)
      /\ Clean' => \A f \in 1 .. MaxConnects :
                        f # conn => plan'[f].stage # "lookup" /\ plan'[f].timer = 0
  BY <1>1, PlanKept DEF PlanStays
<1>4. \A f \in 1 .. conn : plan'[f].index = plan[f].index
  BY <1>1, <1>2, NetSocketAssumption DEF PlanStays, PlanMoves
<1>5. PhaseInv'
  BY <1>1, <1>2, <1>3, Distinct DEF PhaseInv
<1>6. OwnerInv'
  <2>1. /\ \A a \in attempts' : Opened(a.handle)' /\ a.handle # sock.handle
        /\ \A h \in closed' : Opened(h)'
        /\ \A h \in Handles : taken'[h] > 0 => Opened(h)' /\ \A a \in attempts' : a.handle # h
        /\ \A r \in reads' : Opened(r.on)' /\ \A a \in attempts' : a.handle # r.on
    BY <1>1, <1>3, LeftKept
  <2>2. \A a \in attempts' : a.handle # sock'.handle
    BY <1>1, Distinct DEF Left, AttemptFields
  <2>3. \A h \in {sock'.handle, sock'.connectingHandle} \cap Handles : FALSE
    BY <1>1, Distinct
  <2>4. \A a, b \in attempts' : a.handle = b.handle => a = b
    BY <1>1 DEF Left
  <2> QED BY <2>1, <2>2, <2>3, <2>4 DEF OwnerInv
<1>7. LoopInv'
  <2>1. \A r \in reads' : r.token <= sock'.readToken /\ r.token # sock'.readToken
    BY <1>1, <1>2 DEF LoopInv, ReadFields
  <2>2. calling'.in = "loop" =>
            calling'.token # sock'.readToken /\ calling'.token <= sock'.readToken
    <3>1. calling'.token \in Nat
      BY DEF Typed, CallFields
    <3>2. calling'.in = "loop" => calling'.token <= sock.readToken
      BY <1>1, <1>2 DEF LoopInv
    <3> QED BY <1>1, <1>2, <3>1, <3>2
  <2>3. calling'.in # "read"
    BY <1>1, <1>2 DEF LoopInv
  <2> QED BY <1>1, <2>1, <2>2, <2>3 DEF LoopInv
<1>8. NoLeak'
  <2> SUFFICES ASSUME NEW g \in 1 .. conn, NEW i \in 1 .. MaxAddresses,
                      i <= plan'[g].index, <<g, i>> \notin closed'
               PROVE  \E a \in attempts' : a.handle = <<g, i>>
    BY <1>1 DEF NoLeak
  <2>1. i <= plan[g].index /\ <<g, i>> \notin closed
    BY <1>1, <1>4 DEF Left
  <2>2. sock.handle # <<g, i>>
    <3>1. <<g, i>> \in Handles
      BY <1>2, Distinct, NetSocketAssumption
    <3> QED BY <1>1, <3>1
  <2>3. PICK a \in attempts : a.handle = <<g, i>>
    BY <1>2, <2>1, <2>2 DEF NoLeak
  <2> QED BY <1>1, <2>3 DEF Left
<1>9. Clean' => CleanHandles'
  <2> SUFFICES ASSUME Clean' PROVE CleanHandles'
    OBVIOUS
  <2>1. \A a \in attempts' : a.handle[1] = conn
    BY <1>1, <1>2 DEF CleanHandles, Left
  <2>2. None \notin closed'
    BY <1>1, Distinct DEF Left
  <2> QED BY <1>1, <1>3, <2>1, <2>2 DEF CleanHandles
<1>10. Clean' => CleanReads'
  <2> SUFFICES ASSUME Clean' PROVE CleanReads'
    OBVIOUS
  <2>1. \A r \in reads' : r.on \in closed'
    <3> SUFFICES ASSUME NEW r \in reads' PROVE r.on \in closed'
      OBVIOUS
    <3>1. CASE sock.handle \in Handles
      <4>1. r \in reads /\ r.token = sock.readToken
        BY <1>1, <1>2, <3>1 DEF CleanReads
      <4> QED BY <1>1, <1>2, <3>1, <4>1 DEF LoopInv
    <3>2. CASE sock.handle \notin Handles
      BY <1>1, <1>2, <3>2 DEF CleanReads, Left
    <3> QED BY <3>1, <3>2
  <2> QED BY <1>1, <2>1, Distinct DEF CleanReads
<1>11. Clean' => CleanContent'
  BY <1>1, Distinct DEF CleanContent
<1> QED BY <1>3, <1>5, <1>6, <1>7, <1>8, <1>9, <1>10, <1>11 DEF SocketInv
LEMMA WinsKeeps ==
    ASSUME SocketInv, Typed', NEW a \in attempts, Wins(a)
    PROVE  SocketInv'
<1>1. PICK h : h = a.handle
  OBVIOUS
<1>2. PICK n : n = [token |-> sock.readToken + 1, on |-> h, result |-> Unsettled]
  OBVIOUS
<1>3. n.token = sock.readToken + 1 /\ n.on = h /\ n.result = Unsettled
  BY <1>2
<1>4. /\ PlanInv /\ PhaseInv /\ LoopInv /\ OwnerInv /\ NoLeak /\ Idle.in = "none"
      /\ Clean => CleanHandles /\ CleanReads /\ CleanContent
      /\ plan \in [1 .. MaxConnects -> PlanFields] /\ conn \in 0 .. MaxConnects
      /\ reads \subseteq ReadFields /\ sock.readToken \in Nat
      /\ attempts \subseteq AttemptFields /\ taken \in [Handles -> 0 .. MaxChunks]
  BY CleanParts DEF Typed
<1>5. /\ h \in Handles /\ h[1] \in 1 .. conn /\ h[1] \in 1 .. MaxConnects
      /\ h[2] = plan[h[1]].index /\ sock.connecting /\ ~sock.destroyed
  <2>1. h \in Handles /\ Opened(h)
    BY <1>1, <1>4 DEF AttemptFields, OwnerInv
  <2>2. h[1] \in 1 .. MaxConnects /\ h[1] <= conn
    BY <2>1, Distinct DEF Opened
  <2>3. h[1] \in 1 .. conn
    BY <1>4, <2>2, NetSocketAssumption
  <2> QED BY <1>1, <2>1, <2>2, <2>3 DEF Wins, Wanted
<1>6. /\ UNCHANGED <<conn, closed, stream, taken, past>>
      /\ PlanMoves(h[1], plan[h[1]].index)
      /\ attempts' = attempts \ {a}
      /\ sock'.handle = h /\ ~sock'.connecting /\ ~sock'.destroyed
      /\ sock'.connectingHandle = None
      /\ sock'.pendingReadChunks = <<>>
      /\ \/ /\ sock'.readToken = sock.readToken /\ ~sock'.readInFlight
            /\ reads' = reads
         \/ /\ sock'.readToken = sock.readToken + 1 /\ sock'.readInFlight
            /\ reads' = reads \cup {n}
      /\ calling'.in = "connect" /\ calling'.handle = h
  <2>1. calling'.in = "connect" /\ calling'.handle = h
    BY <1>1, <1>5, IdleFields DEF Wins
  <2> QED BY <1>1, <1>2, <2>1 DEF Wins
<1>7. NoCleaner /\ (Clean' <=> Clean)
  BY <1>6 DEF NoCleaner, Clean
<1>8. /\ PlanInv'
      /\ \A b \in Handles : Opened(b) => Opened(b)'
      /\ Clean' => \A f \in 1 .. MaxConnects :
                        f # conn => plan'[f].stage # "lookup" /\ plan'[f].timer = 0
  BY <1>5, <1>6, <1>7, PlanKept
<1>9. /\ sock.handle = Wrap /\ sock.handle \notin Handles
      /\ past.pushed = <<>> /\ ~stream.ended
  BY <1>4, <1>5, Distinct DEF PhaseInv
<1>10. Opened(h) /\ Opened(h)'
  BY <1>1, <1>4, <1>5, <1>8 DEF OwnerInv
<1>11. \A r \in reads : r.token < sock.readToken /\ r.token \in Nat
  BY <1>4, <1>9 DEF LoopInv, ReadFields
<1>12. PhaseInv'
  BY <1>5, <1>6, <1>10, Distinct DEF PhaseInv
<1>13. OwnerInv'
  <2>1. /\ \A b \in attempts : Opened(b.handle)' /\ b.handle \in Handles
        /\ \A b \in attempts' : b \in attempts /\ b.handle # h
    BY <1>1, <1>4, <1>6, <1>8 DEF OwnerInv, AttemptFields
  <2>2. \A b \in closed' \cup ({sock'.handle, sock'.connectingHandle} \cap Handles) : Opened(b)'
    <3>1. \A b \in closed : b \in Handles /\ Opened(b)
      BY <1>4, CleanParts DEF OwnerInv, Typed
    <3> QED BY <1>6, <1>8, <1>10, <3>1, Distinct
  <2>3. \A b \in Handles : taken'[b] > 0 => Opened(b)' /\ \A c \in attempts' : c.handle # b
    BY <1>4, <1>6, <1>8 DEF OwnerInv
  <2>4. \A r \in reads' : Opened(r.on)' /\ \A c \in attempts' : c.handle # r.on
    <3>1. \A r \in reads : r.on \in Handles /\ Opened(r.on) /\ \A c \in attempts : c.handle # r.on
      BY <1>4 DEF OwnerInv, ReadFields
    <3>2. \A r \in reads' : r \in reads \/ r = n
      BY <1>6
    <3> QED BY <1>3, <1>6, <1>8, <1>10, <2>1, <3>1, <3>2
  <2>5. \A b, c \in attempts' : b.handle = c.handle => b = c
    BY <1>4, <1>6 DEF OwnerInv
  <2> QED BY <1>6, <2>1, <2>2, <2>3, <2>4, <2>5 DEF OwnerInv
<1>14. LoopInv'
  <2>1. \A r \in reads' : r \in reads \/ (r = n /\ sock'.readToken = sock.readToken + 1)
    BY <1>6
  <2>2. \A r \in reads' : r.token <= sock'.readToken
    BY <1>3, <1>4, <1>6, <1>11, <2>1
  <2>3. \A r \in reads' : r.token = sock'.readToken => r = n
    BY <1>3, <1>4, <1>6, <1>11, <2>1
  <2>4. /\ \A r \in reads' : r.token = sock'.readToken => r.on = sock'.handle
        /\ \A r, q \in reads' : r.token = sock'.readToken /\ q.token = sock'.readToken => r = q
    BY <1>3, <1>6, <2>3
  <2> QED BY <1>6, <1>9, <2>2, <2>4 DEF LoopInv
<1>15. NoLeak'
  <2> SUFFICES ASSUME NEW g \in 1 .. conn, NEW i \in 1 .. MaxAddresses,
                      i <= plan'[g].index, <<g, i>> \notin closed, <<g, i>> # h
               PROVE  \E b \in attempts' : b.handle = <<g, i>>
    BY <1>6 DEF NoLeak
  <2>1. i <= plan[g].index
    BY <1>4, <1>6, NetSocketAssumption DEF PlanMoves
  <2>2. sock.handle # <<g, i>>
    <3>1. <<g, i>> \in Handles
      BY <1>4, Distinct, NetSocketAssumption
    <3> QED BY <1>9, <3>1
  <2>3. PICK b \in attempts : b.handle = <<g, i>>
    BY <1>4, <2>1, <2>2 DEF NoLeak
  <2> QED BY <1>1, <1>6, <2>3
<1>16. Clean' => CleanHandles'
  <2> SUFFICES ASSUME Clean' PROVE CleanHandles'
    OBVIOUS
  <2>1. CleanHandles
    BY <1>4, <1>7
  <2>2. h[1] = conn
    BY <1>1, <2>1 DEF CleanHandles
  <2>3. h = <<conn, plan[conn].index>>
    <3>1. h = <<h[1], h[2]>>
      BY <1>5, Distinct
    <3> QED BY <1>5, <2>2, <3>1
  <2>4. h \notin closed
    BY <1>5, <2>1, <2>3 DEF CleanHandles
  <2> QED BY <1>6, <1>8, <2>1, <2>4 DEF CleanHandles
<1>17. Clean => reads = {}
  BY <1>4, <1>5 DEF CleanReads
<1>18. Clean' => CleanReads'
  BY <1>3, <1>5, <1>6, <1>7, <1>17 DEF CleanReads
<1>19. taken[h] = 0
  BY <1>1, <1>4, <1>5, NetSocketAssumption DEF OwnerInv
<1>20. Clean' => CleanContent'
  <2>1. Len(past.pushed) = 0
    BY <1>9
  <2> QED BY <1>3, <1>6, <1>7, <1>9, <1>17, <1>19, <2>1, Distinct DEF CleanContent
<1> QED BY <1>8, <1>12, <1>13, <1>14, <1>15, <1>16, <1>18, <1>20 DEF SocketInv

LEMMA ConnectsKeeps ==
    ASSUME SocketInv, Typed', Connects
    PROVE  SocketInv'
<1>1. PICK g, h : g = conn + 1 /\ h = <<g, 1>>
  OBVIOUS
<1>2. PICK n : n = [handle |-> h, result |-> "none"]
  OBVIOUS
<1>3. n.handle = h /\ h[1] = g /\ h[2] = 1
  BY <1>1, <1>2
<1>4. /\ PlanInv /\ PhaseInv /\ LoopInv /\ OwnerInv /\ NoLeak
      /\ plan \in [1 .. MaxConnects -> PlanFields] /\ conn \in 0 .. MaxConnects
      /\ plan' \in [1 .. MaxConnects -> PlanFields]
      /\ reads \subseteq ReadFields /\ sock.readToken \in Nat /\ closed \subseteq Handles
      /\ attempts \subseteq AttemptFields /\ calling \in CallFields
  BY CleanParts DEF Typed
<1>5. /\ UNCHANGED <<reads, taken, closed, calling>>
      /\ conn < MaxConnects /\ conn' = g
      /\ ~sock.connecting /\ sock.handle = None
      /\ sock'.connecting /\ sock'.handle = Wrap /\ ~sock'.destroyed
      /\ sock'.pendingReadChunks = <<>> /\ ~sock'.readInFlight
      /\ sock'.readToken = sock.readToken + 1 \/ sock'.readToken = sock.readToken
      /\ \A f \in (1 .. MaxConnects) \ {g} : plan'[f] = plan[f]
      /\ plan'[g].index # 0 \/ plan'[g].timer # 0 => plan'[g].stage = "trying"
      /\ \/ /\ plan'[g].index = 0 /\ attempts' = attempts
            /\ sock'.connectingHandle = sock.connectingHandle
         \/ /\ plan'[g].index = 1
            /\ h \in Handles /\ sock'.connectingHandle = h
            /\ attempts' = attempts \cup {n}
      /\ ~stream'.ended /\ past'.pushed = <<>>
      /\ Clean' => ~UnderWay
  BY <1>1, <1>2 DEF Connects
<1>6. /\ conn \in Nat /\ g \in Nat /\ conn < g /\ g \in 1 .. MaxConnects
      /\ \A f \in 1 .. conn : f \in 1 .. MaxConnects /\ f # g
      /\ \A f \in 1 .. g : f # g => f \in 1 .. conn
  BY <1>1, <1>4, <1>5, NetSocketAssumption
<1>7. \A b \in Handles : Opened(b) => b # h /\ b[1] # g /\ Opened(b)'
  <2> SUFFICES ASSUME NEW b \in Handles, Opened(b) PROVE b # h /\ b[1] # g /\ Opened(b)'
    OBVIOUS
  <2>1. b[1] \in 1 .. MaxConnects /\ b[1] <= conn
    BY Distinct DEF Opened
  <2>2. b[1] # g /\ b[1] <= g
    BY <1>6, <2>1, NetSocketAssumption
  <2>3. plan'[b[1]] = plan[b[1]]
    BY <1>5, <2>1, <2>2
  <2> QED BY <1>3, <1>5, <2>2, <2>3 DEF Opened
<1>8. PlanInv'
  <2> SUFFICES ASSUME NEW f \in 1 .. MaxConnects
               PROVE  /\ f > conn' => plan'[f] = Untried
                      /\ plan'[f].index # 0 \/ plan'[f].timer # 0 => plan'[f].stage = "trying"
                      /\ plan'[f].index <= MaxAddresses
    BY DEF PlanInv
  <2>1. CASE f = g
    <3>1. ~(f > conn')
      BY <1>5, <1>6, <2>1
    <3>2. plan'[f].index <= MaxAddresses
      BY <1>4, NetSocketAssumption DEF PlanFields
    <3> QED BY <1>5, <2>1, <3>1, <3>2
  <2>2. CASE f # g
    <3>1. plan'[f] = plan[f]
      BY <1>5, <2>2
    <3>2. f > conn' => f > conn
      BY <1>5, <1>6, NetSocketAssumption
    <3> QED BY <1>4, <3>1, <3>2 DEF PlanInv
  <2> QED BY <2>1, <2>2
<1>9. PhaseInv'
  <2>1. calling'.in = "connect" => calling'.handle \in Handles /\ Opened(calling.handle)
    BY <1>4, <1>5 DEF PhaseInv
  <2>2. calling'.in = "connect" => Opened(calling.handle)'
    BY <1>5, <1>7, <2>1 DEF Opened
  <2> QED BY <1>5, <1>6, <2>1, <2>2 DEF PhaseInv
<1>10. \A a \in attempts' : a \in attempts \/ (a = n /\ h \in Handles /\ plan'[g].index = 1)
  BY <1>5
<1>11. h \in Handles /\ plan'[g].index = 1 => Opened(h)'
  BY <1>3, <1>5, <1>6 DEF Opened
<1>12. OwnerInv'
  <2>1. \A a \in attempts : a.handle \in Handles /\ Opened(a.handle) /\ a.handle # h
    BY <1>4, <1>7 DEF OwnerInv, AttemptFields
  <2>2. \A a \in attempts' : Opened(a.handle)' /\ a.handle # sock'.handle
    BY <1>3, <1>5, <1>7, <1>10, <1>11, <2>1, Distinct
  <2>3. \A a, b \in attempts' : a.handle = b.handle => a = b
    BY <1>3, <1>4, <1>10, <2>1 DEF OwnerInv
  <2>4. \A b \in closed' \cup ({sock'.handle, sock'.connectingHandle} \cap Handles) : Opened(b)'
    BY <1>4, <1>5, <1>7, <1>11, Distinct DEF OwnerInv
  <2>5. \A b \in Handles : taken'[b] > 0 => Opened(b)' /\ \A a \in attempts' : a.handle # b
    BY <1>3, <1>4, <1>5, <1>7, <1>10 DEF OwnerInv
  <2>6. \A r \in reads' : Opened(r.on)' /\ \A a \in attempts' : a.handle # r.on
    <3>1. \A r \in reads : r.on \in Handles /\ Opened(r.on) /\ r.on # h
      BY <1>4, <1>7 DEF OwnerInv, ReadFields
    <3> QED BY <1>3, <1>4, <1>5, <1>7, <1>10, <3>1 DEF OwnerInv
  <2> QED BY <2>2, <2>3, <2>4, <2>5, <2>6 DEF OwnerInv
<1>13. LoopInv'
  <2>1. \A r \in reads : r.token \in Nat /\ r.token < sock.readToken
    BY <1>4, <1>5, Distinct DEF LoopInv, ReadFields
  <2>2. \A r \in reads' : r.token <= sock'.readToken /\ r.token # sock'.readToken
    BY <1>4, <1>5, <2>1
  <2>3. calling'.in = "loop" =>
            calling'.token # sock'.readToken /\ calling'.token <= sock'.readToken
    <3>1. calling.token \in Nat
      BY <1>4 DEF CallFields
    <3>2. calling.in = "loop" => calling.token < sock.readToken
      BY <1>4, <1>5, <3>1, Distinct DEF LoopInv
    <3> QED BY <1>4, <1>5, <3>1, <3>2
  <2> QED BY <1>4, <1>5, <2>2, <2>3 DEF LoopInv
<1>14. NoLeak'
  <2> SUFFICES ASSUME NEW f \in 1 .. g, NEW i \in 1 .. MaxAddresses,
                      i <= plan'[f].index, <<f, i>> \notin closed
               PROVE  \E a \in attempts' : a.handle = <<f, i>>
    BY <1>5 DEF NoLeak
  <2>1. CASE f = g
    <3>1. plan'[g].index # 0
      BY <2>1, NetSocketAssumption
    <3>2. i = 1 /\ n \in attempts'
      BY <1>5, <2>1, <3>1, NetSocketAssumption
    <3> QED BY <1>1, <1>3, <2>1, <3>2
  <2>2. CASE f # g
    <3>1. f \in 1 .. conn /\ i <= plan[f].index
      BY <1>5, <1>6, <2>2
    <3>2. sock.handle # <<f, i>>
      BY <1>5, <1>6, <3>1, Distinct
    <3>3. PICK a \in attempts : a.handle = <<f, i>>
      BY <1>4, <3>1, <3>2 DEF NoLeak
    <3> QED BY <1>5, <3>3
  <2> QED BY <2>1, <2>2
<1>15. Clean' => CleanHandles' /\ CleanReads' /\ CleanContent'
  <2> SUFFICES ASSUME Clean' PROVE CleanHandles' /\ CleanReads' /\ CleanContent'
    OBVIOUS
  <2>1. /\ attempts = {} /\ reads = {}
        /\ \A f \in 1 .. conn : plan[f].stage # "lookup" /\ plan[f].timer = 0
    BY <1>5 DEF UnderWay
  <2>2. \A a \in attempts' : a.handle[1] = g
    BY <1>3, <1>10, <2>1
  <2>3. ASSUME NEW f \in 1 .. MaxConnects, f # g
        PROVE  plan'[f].stage # "lookup" /\ plan'[f].timer = 0
    <3>1. plan'[f] = plan[f]
      BY <1>5, <2>3
    <3>2. CASE f \in 1 .. conn
      BY <2>1, <3>1, <3>2
    <3>3. CASE f > conn
      BY <1>4, <3>1, <3>3 DEF PlanInv, Untried
    <3>4. f \in 1 .. conn \/ f > conn
      BY <1>6
    <3> QED BY <3>2, <3>3, <3>4
  <2>4. \A i : <<g, i>> \notin closed
    BY <1>4, <1>7 DEF OwnerInv
  <2>5. Wrap \notin closed
    BY <1>4, Distinct
  <2>6. CleanHandles'
    BY <1>5, <2>2, <2>3, <2>4, <2>5 DEF CleanHandles
  <2>7. CleanReads' /\ CleanContent'
    BY <1>5, <2>1, Distinct DEF CleanReads, CleanContent
  <2> QED BY <2>6, <2>7
<1> QED BY <1>8, <1>9, <1>12, <1>13, <1>14, <1>15 DEF SocketInv

-----------------------------------------------------------------------------
(* The invariant holds.                                                      *)

LEMMA InitSocketInv ==
    ASSUME Init
    PROVE  SocketInv
<1> USE Distinct
<1>1. Typed
  <2>1. sock \in SockFields
    BY NothingPending DEF Init, SockFields
  <2>2. plan \in [1 .. MaxConnects -> PlanFields]
    BY NetSocketAssumption DEF Init, PlanFields
  <2>3. calling \in CallFields /\ past \in PastFields
    BY DEF Init, Idle, CallFields, PastFields
  <2>4. conn \in 0 .. MaxConnects /\ taken \in [Handles -> 0 .. MaxChunks]
    BY NetSocketAssumption DEF Init
  <2> QED BY <2>1, <2>2, <2>3, <2>4 DEF Init, Typed
<1>2. PlanInv
  BY NetSocketAssumption DEF Init, PlanInv, Untried
<1>3. PhaseInv /\ LoopInv
  BY DEF Init, PhaseInv, LoopInv, Idle
<1>4. OwnerInv /\ NoLeak
  BY NetSocketAssumption DEF Init, OwnerInv, NoLeak
<1>5. CleanHandles /\ CleanReads /\ CleanContent
  BY NetSocketAssumption DEF Init, CleanHandles, CleanReads, CleanContent
<1> QED BY <1>1, <1>2, <1>3, <1>4, <1>5 DEF SocketInv

LEMMA StutterIdles ==
    ASSUME SocketInv, UNCHANGED vars
    PROVE  Typed' /\ Idles
BY DEF vars, SocketInv, Typed, Idles, HandlesStay, SamePlace, LoopStays, NoCleaner, ListenerStays

LEMMA StepSocketInv ==
    ASSUME SocketInv, [Next]_vars
    PROVE  SocketInv'
<1>1. CASE UNCHANGED vars
  BY <1>1, StutterIdles, IdlesKeeps
<1>2. CASE Next
  <2>1. Typed' /\ Kinds
    BY <1>2, NextKinds
  <2>2. CASE Polls
    BY <2>1, <2>2, IdlesKeeps, LoopStartsKeeps, LoopReadsKeeps, StaleReturnsKeeps, KeepsKeeps,
       PushesKeeps, DrainsKeeps, HostReadsKeeps DEF Polls
  <2>3. CASE Stays \/ Dies \/ Connects
    BY <2>1, <2>3, StaysKeeps, DiesKeeps, ConnectsKeeps
  <2>4. CASE \E g \in 1 .. conn : Tries(g)
    BY <2>1, <2>4, TriesKeeps
  <2>5. CASE \E a \in attempts : Wins(a)
    BY <2>1, <2>5, WinsKeeps
  <2> QED BY <2>1, <2>2, <2>3, <2>4, <2>5 DEF Kinds
<1> QED BY <1>1, <1>2

(* The inductive invariant: one owner for each native socket, one poll loop  *)
(* with the token of the socket, and what lies between the host and the      *)
(* stream.  It contains the type invariant.                                  *)
THEOREM SocketInvIsInvariant == Spec => []SocketInv
<1>1. Init => SocketInv
  BY InitSocketInv
<1>2. SocketInv /\ [Next]_vars => SocketInv'
  BY StepSocketInv
<1> QED BY <1>1, <1>2, PTL DEF Spec

(* However the program destroys and reconnects, and whenever lookups,        *)
(* attempts and their timers return, a native socket that is open has the    *)
(* socket or an attempt to close it, and the socket stands on none that is   *)
(* closed (connectAttempt, tryNext, _destroy).                               *)
THEOREM HandlesAlwaysAgree == Spec => []HandlesAgree
<1>1. SocketInv => HandlesAgree
  BY DEF SocketInv, CleanHandles, HandlesAgree, OpenHandle
<1> QED BY <1>1, SocketInvIsInvariant, PTL

LEMMA OneReadFollows ==
    ASSUME SocketInv
    PROVE  OneRead
<1> SUFFICES ASSUME Clean, NEW r1 \in reads, NEW r2 \in reads,
                    r1.on = r2.on, r1.on \notin closed
             PROVE  r1 = r2
  BY DEF OneRead
<1>1. CleanReads /\ LoopInv
  BY CleanParts
<1>2. sock.handle \in Handles
  BY <1>1 DEF CleanReads
<1>3. r1.token = sock.readToken /\ r2.token = sock.readToken
  BY <1>1, <1>2 DEF CleanReads
<1> QED BY <1>1, <1>3 DEF LoopInv

\* s is the sequence of the numbers from 1 to n.
CountsTo(s, n) == s \in Seq(Chunks) /\ Len(s) = n /\ \A i \in 1 .. Len(s) : s[i] = i

LEMMA Counting ==
    ASSUME NEW s, NEW n, CountsTo(s, n)
    PROVE  s = [i \in 1 .. n |-> i]
<1>1. s \in Seq(Chunks) /\ Len(s) = n /\ \A i \in 1 .. n : s[i] = i
  BY DEF CountsTo
<1>2. s = [i \in 1 .. n |-> s[i]]
  BY <1>1
<1> QED BY <1>1, <1>2

LEMMA NothingKept ==
    ASSUME NEW S, NEW s \in Seq(S)
    PROVE  s \o <<>> = s
OBVIOUS

LEMMA CountingOn ==
    ASSUME NEW s \in Seq(Chunks), NEW v \in Chunks, Len(s) = v - 1,
           \A i \in 1 .. Len(s) : s[i] = i
    PROVE  LET t == s \o <<v>>
           IN  CountsTo(t, v)
<1>1. v \in Int
  BY NetSocketAssumption DEF Chunks
<1>2. s \o <<v>> = Append(s, v)
  OBVIOUS
<1>3. Append(s, v) \in Seq(Chunks)
  OBVIOUS
<1> QED BY <1>1, <1>2, <1>3, PushedOn DEF CountsTo

LEMMA OnlyOne ==
    ASSUME NEW S, NEW s \in Seq(S), Len(s) = 1
    PROVE  s = <<s[1]>>
OBVIOUS

LEMMA InOrderFollows ==
    ASSUME SocketInv
    PROVE  InOrder
<1> DEFINE n == taken[sock.handle]
           p == sock.pendingReadChunks
           s == past.pushed
           onTheWay == {r \in reads : r.on = sock.handle /\ r.result \in Chunks}
           kept == IF p = <<End>> THEN <<>> ELSE p
<1>1. /\ Typed /\ PhaseInv /\ LoopInv /\ sock \in SockFields /\ reads \subseteq ReadFields
      /\ s \in Seq(Chunks) /\ p \in Seq(Chunks \cup {End})
      /\ Clean => CleanHandles /\ CleanReads /\ CleanContent
  BY CleanParts
<1>2. TypeOK
  BY <1>1, TypesSpelledOut
<1>3. ASSUME Clean, sock.handle \in Handles
      PROVE  s \o kept = [i \in 1 .. n - Cardinality(onTheWay) |-> i]
  <2> DEFINE m == n - Cardinality(onTheWay)
  <2> SUFFICES CountsTo(s \o kept, m)
    BY Counting
  <2>1. n \in Nat
    BY <1>1, <1>3, NetSocketAssumption DEF Typed
  <2>2. /\ \A i \in 1 .. Len(s) : s[i] = i
        /\ \A r \in reads : /\ r.result \in Chunks => n = r.result /\ Len(s) = n - 1
                            /\ r.result \notin Chunks => Len(s) = n
        /\ p # <<>> => /\ p[1] \in Chunks => n = p[1] /\ Len(s) = n - 1
                       /\ p[1] = End => Len(s) = n
        /\ reads = {} /\ p = <<>> => Len(s) = n
    BY <1>1, <1>3 DEF CleanContent
  <2>3. /\ \A r \in reads : r.token = sock.readToken /\ r.on = sock.handle
        /\ \A r, q \in reads : r = q
    BY <1>1, <1>3 DEF CleanReads, LoopInv
  <2>4. CASE p # <<>>
    <3>1. Len(p) = 1 /\ reads = {}
      BY <1>1, <2>3, <2>4 DEF LoopInv
    <3>2. Cardinality(onTheWay) = 0
      BY <3>1, FS_EmptySet
    <3>3. p[1] \in Chunks \cup {End}
      BY <1>1, <3>1
    <3>4. p = <<p[1]>>
      BY <1>1, <3>1, OnlyOne
    <3>5. CASE p[1] = End
      <4>1. s \o kept = s
        BY <1>1, <3>4, <3>5, NothingKept
      <4>2. Len(s) = n
        BY <2>2, <2>4, <3>5
      <4>3. m = n
        BY <2>1, <3>2
      <4> HIDE DEF m, kept
      <4> QED BY <1>1, <2>2, <4>1, <4>2, <4>3 DEF CountsTo
    <3>6. CASE p[1] \in Chunks
      <4>1. kept = <<p[1]>>
        BY <3>4, <3>6, Distinct
      <4>2. n = p[1] /\ Len(s) = n - 1
        BY <2>2, <2>4, <3>6
      <4> HIDE DEF kept
      <4>3. CountsTo(s \o kept, n)
        BY <1>1, <2>2, <3>6, <4>1, <4>2, CountingOn
      <4>4. m = n
        BY <2>1, <3>2
      <4> HIDE DEF m
      <4> QED BY <4>3, <4>4
    <3> QED BY <3>3, <3>5, <3>6
  <2>5. CASE p = <<>>
    <3>1. s \o kept = s
      BY <1>1, <2>5, NothingKept
    <3>2. CASE onTheWay = {}
      <4>1. Len(s) = n
        <5>1. CASE reads = {}
          BY <2>2, <2>5, <5>1
        <5>2. CASE reads # {}
          BY <2>2, <2>3, <3>2, <5>2
        <5> QED BY <5>1, <5>2
      <4>2. Cardinality(onTheWay) = 0
        BY <3>2, FS_EmptySet
      <4>3. m = n
        BY <2>1, <4>2
      <4> HIDE DEF m, kept
      <4> QED BY <1>1, <2>2, <3>1, <4>1, <4>3 DEF CountsTo
    <3>3. CASE onTheWay # {}
      <4>1. PICK r \in onTheWay : TRUE
        BY <3>3
      <4>2. onTheWay = {r}
        BY <2>3, <4>1
      <4>3. Cardinality(onTheWay) = 1
        BY <4>2, FS_Singleton
      <4>4. Len(s) = n - 1
        BY <2>2, <4>1
      <4>5. m = n - 1
        BY <4>3
      <4> HIDE DEF m, kept
      <4> QED BY <1>1, <2>2, <3>1, <4>4, <4>5 DEF CountsTo
    <3> QED BY <3>2, <3>3
  <2> QED BY <2>4, <2>5
<1>4. Clean /\ sock.handle \in Handles /\ stream.ended => Len(s) = ChunksOn(sock.handle)
  BY <1>1 DEF CleanContent
<1>5. ASSUME Clean, p # <<>>
      PROVE  sock.netPaused /\ AtRest /\ Len(p) = 1 /\ \A r \in reads : r.on # sock.handle
  <2>1. sock.handle \in Handles
    BY <1>1, <1>5 DEF PhaseInv
  <2>2. reads = {}
    BY <1>1, <1>5, <2>1 DEF LoopInv, CleanReads
  <2> QED BY <1>1, <1>5, <2>2 DEF LoopInv, AtRest
<1> QED BY <1>2, <1>3, <1>4, <1>5 DEF InOrder

(* On a connection no earlier connect() has left anything to, one poll loop  *)
(* reads at a time; the chunks it brings are pushed in the order of the      *)
(* peer, none lost and none twice, the stream ends after the last one, and a *)
(* chunk kept back in a pause is not overtaken (_startPollLoop, resume).     *)
THEOREM ReadsAlwaysInOrder == Spec => []ReadsInOrder
<1>1. SocketInv => ReadsInOrder
  BY OneReadFollows, InOrderFollows DEF ReadsInOrder
<1> QED BY <1>1, SocketInvIsInvariant, PTL
=============================================================================
