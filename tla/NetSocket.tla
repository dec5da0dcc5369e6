------------------------------ MODULE NetSocket -----------------------------
(* A socket of node:net (builtin/net.js): its connection attempts, and the   *)
(* poll loop that carries chunks from the host to the stream.                *)
(* connect() tries the addresses of a name one after the other, the next     *)
(* one when an attempt fails or its timer ends (with one address doConnect   *)
(* does the same without a timer); what an overtaken attempt brings must be  *)
(* closed.  Native operations settle on their own; the job that goes on      *)
(* after them runs later, when the socket may have been paused, destroyed    *)
(* or connected anew.  An action is such a job or a call of the program, cut *)
(* where the stream hands a chunk, or the socket 'connect', to the program.  *)
(* The stream (internal/streams/readable.js) is what the socket sees of it:  *)
(* it calls _read when it is not waiting for a push, and takes each push.    *)
EXTENDS Integers, Sequences, FiniteSets

CONSTANTS
    MaxConnects,        \* bound: connect() calls
    MaxAddresses,       \* bound: addresses of a name
    MaxChunks,          \* bound: chunks the peer sends before it ends its side
    FewChunks           \* the same, when the name has several addresses

ASSUME NetSocketAssumption ==
    /\ MaxConnects \in Nat /\ MaxAddresses \in Nat
    /\ MaxChunks \in Nat /\ FewChunks \in 0 .. MaxChunks

\* A native socket, and the attempt that uses it: the connect() and its attemptId.
Handles == (1 .. MaxConnects) \X (1 .. MaxAddresses)
None == <<0, 0>>        \* no handle
Wrap == <<0, 1>>        \* a handle wrap no native socket is forwarded to yet
Chunks == 1 .. MaxChunks
End == 0                \* in place of a chunk: null
Failed == -1            \* in place of a chunk: the read failed
Unsettled == -2         \* in place of a chunk: nothing yet

VARIABLES
    conn,       \* number of connect() calls
    sock,       \* the fields of the Socket
    plan,       \* the variables of the closures of each connect() call
    attempts,   \* the native connects whose job is to come, and how they settled
    closed,     \* the native handles that are closed
    reads,      \* the poll loops suspended in read(), and what it has brought
    onConnect,  \* number of _read calls that wait for 'connect'
    stream,     \* the Readable: waiting for a push, ended
    calling,    \* what the program is being handed, and by which poll loop
    taken,      \* number of chunks the host has handed out on each handle
    past        \* history: the chunks pushed since the last connect(); whether any
                \* connect() found an earlier one under way (rushed); whether since the
                \* last one the stream called _read in vain before it (early), or a
                \* listener of the program threw (threw)

vars == <<conn, sock, plan, attempts, closed, reads, onConnect, stream, calling, taken, past>>

\* What the peer of a connection sends.
ChunksOn(h) == IF plan[h[1]].addresses > 1 THEN FewChunks ELSE MaxChunks

Idle == [in |-> "none", token |-> 0, handle |-> None]

TypeOK ==
    /\ conn \in 0 .. MaxConnects
    /\ sock \in [connecting : BOOLEAN, destroyed : BOOLEAN, handle : Handles \cup {None, Wrap},
                 connectingHandle : Handles \cup {None}, reading : BOOLEAN, readToken : Nat,
                 readInFlight : BOOLEAN, netPaused : BOOLEAN,
                 pendingReadChunks : Seq(Chunks \cup {End})]
    /\ plan \in [1 .. MaxConnects -> [stage : {"none", "lookup", "trying"},
                                      addresses : 0 .. MaxAddresses, index : 0 .. MaxAddresses,
                                      timer : 0 .. MaxAddresses]]
    /\ attempts \subseteq [handle : Handles, result : {"none", "ok", "error"}]
    /\ closed \subseteq Handles
    /\ reads \subseteq [token : Nat, on : Handles, result : Chunks \cup {End, Failed, Unsettled}]
    /\ onConnect \in Nat
    /\ stream \in [reading : BOOLEAN, ended : BOOLEAN]
    /\ calling \in [in : {"none", "connect", "loop", "drain", "read"}, token : Nat,
                    handle : Handles \cup {None}]
    /\ taken \in [Handles -> 0 .. MaxChunks]
    /\ past \in [pushed : Seq(Chunks), rushed : BOOLEAN, early : BOOLEAN, threw : BOOLEAN]

Init ==
    /\ conn = 0
    /\ sock = [connecting |-> FALSE, destroyed |-> FALSE, handle |-> None,
               connectingHandle |-> None, reading |-> FALSE, readToken |-> 0,
               readInFlight |-> FALSE, netPaused |-> FALSE, pendingReadChunks |-> <<>>]
    /\ plan = [g \in 1 .. MaxConnects |->
                [stage |-> "none", addresses |-> 0, index |-> 0, timer |-> 0]]
    /\ attempts = {} /\ closed = {} /\ reads = {} /\ onConnect = 0
    /\ stream = [reading |-> FALSE, ended |-> FALSE] /\ calling = Idle
    /\ taken = [h \in Handles |-> 0]
    /\ past = [pushed |-> <<>>, rushed |-> FALSE, early |-> FALSE, threw |-> FALSE]

\* No job is in the middle: the next one may run.
AtRest == calling = Idle

-----------------------------------------------------------------------------
\* Faulty variant: _destroy forgets that the socket was connecting.
DestroyedConnecting(k) ==
    [k EXCEPT !.destroyed = TRUE, !.reading = FALSE, !.readToken = @ + 1,
              !.readInFlight = FALSE, !.netPaused = FALSE, !.pendingReadChunks = <<>>,
              !.handle = None, !.connectingHandle = None]

\* _destroy, and the native handles it closes.
Destroyed(k) ==
    [k EXCEPT !.destroyed = TRUE, !.connecting = FALSE, !.reading = FALSE,
              !.readToken = @ + 1, !.readInFlight = FALSE, !.netPaused = FALSE,
              !.pendingReadChunks = <<>>, !.handle = None, !.connectingHandle = None]

ClosedBy(k) == {k.connectingHandle, k.handle} \cap Handles

Destroy ==
    /\ ~sock.destroyed
    /\ sock' = Destroyed(sock)
    /\ closed' = closed \cup ClosedBy(sock)
    /\ UNCHANGED <<conn, plan, attempts, reads, onConnect, stream, calling, taken, past>>

\* tryNext of the g-th connect(), whose variables are p, on a socket with the fields k.
\* The handle of an attempt the timer has overtaken is neither kept nor closed here.
TryNext(g, p, k, others, gone) ==
    LET id == p.index + 1 IN
    \/ /\ ~k.connecting \/ k.destroyed
       /\ plan' = [plan EXCEPT ![g] = p]
       /\ sock' = k /\ attempts' = others /\ closed' = gone
    \/ /\ k.connecting /\ ~k.destroyed /\ p.index >= p.addresses
       /\ plan' = [plan EXCEPT ![g] = p]
       /\ sock' = Destroyed(k) /\ attempts' = others /\ closed' = gone \cup ClosedBy(k)
    \/ /\ k.connecting /\ ~k.destroyed /\ p.index < p.addresses
       /\ plan' = [plan EXCEPT ![g] =
                    [p EXCEPT !.index = id, !.timer = IF id < p.addresses THEN id ELSE @]]
       /\ sock' = [k EXCEPT !.connectingHandle = <<g, id>>]
       /\ attempts' = others \cup {[handle |-> <<g, id>>, result |-> "none"]}
       /\ closed' = gone

\* Something of an earlier connect() is still to come: a lookup, a timer, an attempt, a read.
UnderWay ==
    \/ \E g \in 1 .. conn : plan[g].stage = "lookup" \/ plan[g].timer # 0
    \/ attempts # {} \/ reads # {}

Reset(k) ==
    [k EXCEPT !.handle = None, !.reading = FALSE, !.readToken = @ + 1, !.readInFlight = FALSE,
              !.netPaused = FALSE, !.pendingReadChunks = <<>>, !.destroyed = FALSE]

\* connect(), for the first time or after destroy(), to a name or to an address.
\* The code does not ask; the program is taken to call it on no socket in use.
Connect ==
    LET g == conn + 1
        fresh == IF sock.destroyed THEN Reset(sock) ELSE sock
        k == [fresh EXCEPT !.connecting = TRUE, !.handle = Wrap]
    IN
    /\ conn < MaxConnects
    /\ ~sock.connecting /\ (sock.destroyed \/ sock.handle = None)
    /\ conn' = g
    /\ \/ /\ plan' = [plan EXCEPT ![g].stage = "lookup"]
          /\ sock' = k
          /\ UNCHANGED <<attempts, closed>>
       \/ /\ MaxAddresses > 0
          /\ TryNext(g, [plan[g] EXCEPT !.stage = "trying", !.addresses = 1], k, attempts, closed)
    /\ stream' = IF sock.destroyed THEN [reading |-> FALSE, ended |-> FALSE] ELSE stream
    /\ past' = [pushed |-> <<>>, rushed |-> past.rushed \/ UnderWay,
                 early |-> past.early /\ ~sock.destroyed, threw |-> FALSE]
    /\ UNCHANGED <<reads, onConnect, calling, taken>>

jobUnchanged == <<conn, stream, taken, past>>

\* handleLookupResult: a failed lookup does not ask what has become of the socket.
LookupReturns(g) ==
    LET p == [plan[g] EXCEPT !.stage = "trying"] IN
    /\ AtRest /\ plan[g].stage = "lookup"
    /\ \/ /\ plan' = [plan EXCEPT ![g] = p]
          /\ IF sock.destroyed THEN UNCHANGED <<sock, closed>>
             ELSE sock' = Destroyed(sock) /\ closed' = closed \cup ClosedBy(sock)
          /\ UNCHANGED attempts
       \/ \E n \in 0 .. MaxAddresses :
            TryNext(g, [p EXCEPT !.addresses = n], sock, attempts, closed)
    /\ UNCHANGED <<reads, onConnect, calling, jobUnchanged>>

\* The timer of an attempt; it changes nothing once another attempt is active.
TimerFires(g) ==
    LET p == [plan[g] EXCEPT !.timer = 0] IN
    /\ AtRest /\ plan[g].timer # 0
    /\ IF plan[g].timer # plan[g].index
       THEN plan' = [plan EXCEPT ![g] = p] /\ UNCHANGED <<sock, attempts, closed>>
       ELSE TryNext(g, p, sock, attempts, closed)
    /\ UNCHANGED <<reads, onConnect, calling, jobUnchanged>>

\* The host: connect() of a handle closed meanwhile fails.
Settles(a) ==
    /\ a \in attempts /\ a.result = "none"
    /\ \E r \in {"ok", "error"} :
        /\ a.handle \in closed => r = "error"
        /\ attempts' = (attempts \ {a}) \cup {[a EXCEPT !.result = r]}
    /\ UNCHANGED <<sock, plan, closed, reads, onConnect, calling, jobUnchanged>>

-----------------------------------------------------------------------------
\* Faulty variant: _read starts another poll loop though one waits.
PollLoopsAnew(k) ==
    reads \cup {[token |-> k.readToken + 1, on |-> k.handle, result |-> Unsettled]}

\* _read with nothing pending, on a connected socket: a poll loop unless one waits.
Polling(k) ==
    [k EXCEPT !.reading = TRUE, !.readToken = IF k.readInFlight THEN @ ELSE @ + 1,
              !.readInFlight = TRUE]

PollLoops(k) ==
    IF k.readInFlight THEN reads
    ELSE reads \cup {[token |-> k.readToken + 1, on |-> k.handle, result |-> Unsettled]}

\* push() of a chunk: the stream waits no more, and the program may be handed it.
Push(v, in, token) ==
    /\ stream' = [stream EXCEPT !.reading = FALSE, !.ended = (@ \/ v = End)]
    /\ past' = IF v \in Chunks THEN [past EXCEPT !.pushed = Append(@, v)] ELSE past
    /\ calling' = IF v \in Chunks THEN [Idle EXCEPT !.in = in, !.token = token] ELSE Idle

\* _drainPendingReadChunks, as far as the first push().
Drain(k, in) ==
    /\ sock' = [k EXCEPT !.pendingReadChunks = Tail(@)]
    /\ Push(Head(k.pendingReadChunks), in, 0)
    /\ UNCHANGED <<reads, onConnect>>

\* read(0) of the stream, and the _read it makes when the stream waits for no push.
\* When it hands nothing to the program, "then" is what the program is being handed.
CallRead(k, then) ==
    LET waits == [stream EXCEPT !.reading = TRUE] IN
    \/ /\ stream.reading \/ stream.ended \/ k.destroyed
       /\ sock' = k /\ calling' = then
       /\ UNCHANGED <<stream, reads, onConnect, past>>
    \/ /\ ~stream.reading /\ ~stream.ended /\ ~k.destroyed
       /\ \/ /\ k.connecting
             /\ onConnect' = onConnect + 1
             /\ sock' = k /\ stream' = waits /\ calling' = then /\ UNCHANGED <<reads, past>>
          \/ /\ ~k.connecting /\ k.handle = None
             /\ past' = [past EXCEPT !.early = TRUE]
             /\ sock' = k /\ stream' = waits /\ calling' = then /\ UNCHANGED <<reads, onConnect>>
          \/ /\ ~k.connecting /\ k.handle # None /\ k.pendingReadChunks # <<>>
             /\ IF k.netPaused
                THEN sock' = k /\ stream' = waits /\ calling' = then
                     /\ UNCHANGED <<reads, onConnect, past>>
                ELSE then = Idle /\ Drain(k, "read")
          \/ /\ ~k.connecting /\ k.handle # None /\ k.pendingReadChunks = <<>>
             /\ sock' = Polling(k) /\ reads' = PollLoops(k)
             /\ stream' = waits /\ calling' = then /\ UNCHANGED <<onConnect, past>>

\* The stream reads: the program read or listens for data, or there is room for more.
StreamReads ==
    /\ ~stream.reading /\ ~stream.ended /\ ~sock.destroyed
    /\ CallRead(sock, calling)
    /\ UNCHANGED <<conn, plan, attempts, closed, taken>>

\* The result of an attempt still matters, on a socket with the fields k.
Wanted(h, k) == k.connecting /\ ~k.destroyed /\ h[2] = plan[h[1]].index

\* Faulty variant: what an overtaken attempt brings is dropped and not closed.
AttemptEndsOpen(h, others) ==
    LET k == [sock EXCEPT !.connectingHandle = None] IN
    IF Wanted(h, k)
    THEN TryNext(h[1], [plan[h[1]] EXCEPT !.timer = 0], k, others, closed \cup {h})
    ELSE sock' = k /\ attempts' = others /\ UNCHANGED <<plan, closed>>

\* connectAttempt ends without a connection, or with one that comes too late.
AttemptEnds(h, others) ==
    LET k == [sock EXCEPT !.connectingHandle = None] IN
    IF Wanted(h, k)
    THEN TryNext(h[1], [plan[h[1]] EXCEPT !.timer = 0], k, others, closed \cup {h})
    ELSE /\ closed' = closed \cup {h}
         /\ sock' = k /\ attempts' = others /\ UNCHANGED plan

\* connectAttempt's end.  The active one's handle is forwarded to the socket; 'connect'
\* runs the _read calls that waited for it.
AttemptReturns(a) ==
    LET k == [sock EXCEPT !.connectingHandle = None, !.connecting = FALSE, !.handle = a.handle]
        others == attempts \ {a}
    IN
    /\ AtRest /\ a \in attempts /\ a.result # "none"
    /\ \/ /\ a.result = "error" \/ ~Wanted(a.handle, sock)
          /\ AttemptEnds(a.handle, others)
          /\ UNCHANGED <<reads, onConnect, calling>>
       \/ /\ a.result = "ok" /\ Wanted(a.handle, sock)
          /\ plan' = [plan EXCEPT ![a.handle[1]].timer = 0]
          /\ attempts' = others
          /\ IF onConnect > 0
             THEN sock' = Polling(k) /\ reads' = PollLoops(k)
             ELSE sock' = k /\ UNCHANGED reads
          /\ onConnect' = 0
          /\ calling' = [Idle EXCEPT !.in = "connect", !.handle = a.handle]
          /\ UNCHANGED closed
    /\ UNCHANGED jobUnchanged

\* completeConnection goes on after 'connect'.
ConnectEmitted ==
    /\ calling.in = "connect"
    /\ CallRead(sock, Idle)
    /\ UNCHANGED <<conn, plan, attempts, closed, taken>>

\* A 'connect' listener throws: connectAttempt takes it for the failure of its attempt.
ConnectThrows ==
    /\ calling.in = "connect"
    /\ AttemptEnds(calling.handle, attempts)
    /\ calling' = Idle
    /\ past' = [past EXCEPT !.threw = TRUE]
    /\ UNCHANGED <<conn, reads, onConnect, stream, taken>>

\* The host hands the next chunk, or the end, to a pending read; one whose handle is
\* closed meanwhile fails.
HostReads(r) ==
    /\ r \in reads /\ r.result = Unsettled
    /\ \E v \in Chunks \cup {End, Failed} :
        /\ r.on \in closed => v = Failed
        /\ v = End => taken[r.on] = ChunksOn(r.on)
        /\ v \in Chunks => v = taken[r.on] + 1 /\ v <= ChunksOn(r.on)
        /\ reads' = (reads \ {r}) \cup {[r EXCEPT !.result = v]}
        /\ taken' = IF v \in Chunks THEN [taken EXCEPT ![r.on] = v] ELSE taken
    /\ UNCHANGED <<conn, sock, plan, attempts, closed, onConnect, stream, calling, past>>

\* Faulty variant: the poll loop forgets that its read is over.
ReadOverInFlight(k) == k

\* The read is over, whatever it brought and for whomever.
ReadOver(k) == [k EXCEPT !.readInFlight = FALSE]

\* The poll loop goes on after its read.
ReadReturns(r) ==
    LET k == ReadOver(sock)
        kept == [k EXCEPT !.pendingReadChunks = Append(@, r.result)]
    IN
    /\ AtRest /\ r \in reads /\ r.result # Unsettled
    /\ reads' = reads \ {r}
    /\ \/ /\ r.token # k.readToken
          /\ sock' = k
          /\ UNCHANGED <<closed, stream, past, calling>>
       \/ /\ r.token = k.readToken /\ r.result = Failed
          /\ sock' = Destroyed(k) /\ closed' = closed \cup ClosedBy(k)
          /\ UNCHANGED <<stream, past, calling>>
       \/ /\ r.token = k.readToken /\ r.result # Failed /\ k.netPaused
          /\ sock' = IF r.result = End THEN kept ELSE [kept EXCEPT !.reading = FALSE]
          /\ UNCHANGED <<closed, stream, past, calling>>
       \/ /\ r.token = k.readToken /\ r.result # Failed /\ ~k.netPaused
          /\ Push(r.result, "loop", r.token)
          /\ sock' = k
          /\ UNCHANGED closed
    /\ UNCHANGED <<conn, plan, attempts, onConnect, taken>>

\* push() returns to the poll loop, FALSE when the stream has enough.
LoopGoesOn(keepGoing) ==
    LET k == IF keepGoing THEN sock ELSE [sock EXCEPT !.reading = FALSE]
        more == keepGoing /\ k.reading /\ k.handle # None /\ calling.token = k.readToken
    IN
    /\ calling.in = "loop"
    /\ calling' = Idle
    /\ IF more
       THEN /\ sock' = [k EXCEPT !.readInFlight = TRUE]
            /\ reads' = reads \cup
                  {[token |-> k.readToken, on |-> k.handle, result |-> Unsettled]}
       ELSE sock' = k /\ UNCHANGED reads
    /\ UNCHANGED <<conn, plan, attempts, closed, onConnect, stream, taken, past>>

\* A 'data' listener throws: the poll loop takes it for the failure of its read.
\* Out of a drain the exception reaches the caller.
DataThrows ==
    LET failed == calling.in = "loop" /\ calling.token = sock.readToken /\ ~sock.destroyed
        k == IF calling.in = "loop" THEN ReadOver(sock) ELSE sock
    IN
    /\ calling.in \in {"loop", "drain", "read"}
    /\ calling' = Idle
    /\ sock' = IF failed THEN Destroyed(k) ELSE k
    /\ closed' = IF failed THEN closed \cup ClosedBy(k) ELSE closed
    /\ past' = [past EXCEPT !.threw = TRUE]
    /\ UNCHANGED <<conn, plan, attempts, reads, onConnect, stream, taken>>

-----------------------------------------------------------------------------
Pause ==
    /\ ~(sock.netPaused /\ ~sock.reading)
    /\ sock' = [sock EXCEPT !.netPaused = TRUE, !.reading = FALSE]
    /\ UNCHANGED <<conn, plan, attempts, closed, reads, onConnect, stream, calling, taken, past>>

\* resume() after its drain: read(0), in vain when the stream holds enough.
Resumed(k, then) ==
    \/ /\ ~k.reading /\ k.handle # None /\ ~k.netPaused
       /\ CallRead(k, then)
    \/ /\ sock' = k /\ calling' = then
       /\ UNCHANGED <<stream, reads, onConnect, past>>

\* Drains within a drain are left out (see PendingPaused: there is nothing for them).
Resume ==
    LET k == [sock EXCEPT !.netPaused = FALSE] IN
    /\ IF k.pendingReadChunks = <<>>
       THEN Resumed(k, calling)
       ELSE AtRest /\ Drain(k, "drain")
    /\ UNCHANGED <<conn, plan, attempts, closed, taken>>

\* push() returns to a drain: to that of resume(), or to that of _read.
DrainGoesOn(keepGoing) ==
    LET k == IF keepGoing THEN sock ELSE [sock EXCEPT !.reading = FALSE]
        more == ~k.netPaused /\ k.pendingReadChunks # <<>>
    IN
    /\ calling.in \in {"drain", "read"}
    /\ \/ /\ keepGoing /\ more
          /\ Drain(k, calling.in)
       \/ /\ ~(keepGoing /\ more) /\ calling.in = "drain"
          /\ Resumed(k, Idle)
       \/ /\ ~(keepGoing /\ more) /\ calling.in = "read"
          /\ IF k.netPaused \/ more
             THEN sock' = k /\ UNCHANGED reads
             ELSE sock' = Polling(k) /\ reads' = PollLoops(k)
          /\ calling' = Idle
          /\ UNCHANGED <<stream, onConnect, past>>
    /\ UNCHANGED <<conn, plan, attempts, closed, taken>>

-----------------------------------------------------------------------------
Call == Connect \/ Destroy \/ Pause \/ Resume

\* What the runtime and the host do unasked, or the program when it returns from a listener.
Job ==
    \/ \E g \in 1 .. conn : LookupReturns(g) \/ TimerFires(g)
    \/ \E a \in attempts : Settles(a) \/ AttemptReturns(a)
    \/ \E r \in reads : HostReads(r) \/ ReadReturns(r)
    \/ StreamReads
    \/ ConnectEmitted \/ ConnectThrows \/ DataThrows
    \/ \E keepGoing \in BOOLEAN : LoopGoesOn(keepGoing) \/ DrainGoesOn(keepGoing)

Next == Call \/ Job

Spec == Init /\ [][Next]_vars

\* As long as there is something to do some of it is done: native operations end, their
\* jobs run, listeners return, and a stream that waits for nothing reads on.
FairSpec == Spec /\ WF_vars(Job)

-----------------------------------------------------------------------------
\* No connect() has met the leavings of an earlier one, and no listener threw.
Clean == ~past.rushed /\ ~past.threw

\* At most one read is pending on an open handle: of two, the poll loop that holds the
\* older token would throw away what its read brings (_read, _startPollLoop).
OneRead ==
    Clean => \A r1, r2 \in reads : r1.on = r2.on /\ r1.on \notin closed => r1 = r2

\* What the stream has been handed and what is kept back are the chunks of this
\* connection in the order of the peer, none lost, none twice, but for those on their
\* way from the host; the stream ends only after all of them.  A chunk is kept back only
\* while the socket is paused, and no poll loop reads on past it, so that it cannot be
\* overtaken (_startPollLoop, resume).
InOrder ==
    LET onTheWay == {r \in reads : r.on = sock.handle /\ r.result \in Chunks}
        kept == IF sock.pendingReadChunks = <<End>> THEN <<>> ELSE sock.pendingReadChunks
    IN
    /\ TypeOK
    /\ Clean /\ sock.handle \in Handles =>
        /\ past.pushed \o kept =
               [i \in 1 .. taken[sock.handle] - Cardinality(onTheWay) |-> i]
        /\ stream.ended => Len(past.pushed) = ChunksOn(sock.handle)
    /\ Clean /\ sock.pendingReadChunks # <<>> =>
        /\ sock.netPaused /\ AtRest /\ Len(sock.pendingReadChunks) = 1
        /\ \A r \in reads : r.on # sock.handle

\* What arrives is read by one loop, and is handed on in order.
ReadsInOrder == OneRead /\ InOrder

\* No native socket is forgotten: one that connect() has opened and nothing has closed is
\* the socket's, or has an attempt that will return and see to it, however often the
\* program destroys and reconnects (connectAttempt, tryNext, _destroy).
NoLeak ==
    \A g \in 1 .. conn, i \in 1 .. MaxAddresses :
        i <= plan[g].index /\ <<g, i>> \notin closed =>
            sock.handle = <<g, i>> \/ \E a \in attempts : a.handle = <<g, i>>

\* The socket never stands on a native socket that has been closed: destroy() and an
\* attempt that settled just before it cannot both win.
OpenHandle == Clean => sock.handle \notin closed

\* The native sockets are closed when, and only when, nothing stands on them.
HandlesAgree == NoLeak /\ OpenHandle

\* connect() comes to an end, in a connection or in the destruction of the socket,
\* whichever attempts, timers and lookups of this call or an earlier one interfere.
ConnectSettles == sock.connecting ~> ~sock.connecting

\* connect() comes to an end, and everything the peer sends arrives on a connection that
\* stays up and is not left paused: no pause(), resume() or push() leaves the stream waiting
\* for a read nobody makes.
DataFlows ==
    LET up == sock.handle \in Handles /\ ~sock.netPaused /\ Clean /\ ~past.early
    IN ConnectSettles /\ (up ~> stream.ended \/ ~up)
=============================================================================
