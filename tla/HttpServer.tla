------------------------------- MODULE HttpServer ------------------------------
(* The HTTP/1.1 server of node:http (builtin/node_http_server.js): the parser *)
(* of each connection, the responses of the program, and what closes a        *)
(* connection.  A handler runs to its end, except where it hands a request to *)
(* the program: there the program may write or end any response, which may    *)
(* enter the parse loop again.  `frames` is that call stack.                  *)
(* A request arrives in pieces <<n, part>>: its "head", for one with a body   *)
(* "body" and "last", and "crlf", the line that ends a chunked body.          *)
EXTENDS Integers, Sequences, FiniteSets, SequencesExt

CONSTANTS
    Conns,          \* the connections clients make
    Requests,       \* bound: requests on each connection
    Kinds,          \* the kinds of requests the clients send
    Settings,       \* the servers: httpAllowHalfOpen, and maxRequestsPerSocket or 0
    FollowOverrun   \* whether the model goes on when a connection is overrun (see below)

AllKinds == {"none", "length", "chunked", "badChunk", "badBody", "bad", "connect"}

ASSUME HttpServerAssumption ==
    /\ Requests \in [Conns -> Nat] /\ Kinds \subseteq AllKinds
    /\ Settings \subseteq [halfOpen : BOOLEAN, max : Nat] /\ FollowOverrun \in BOOLEAN

VARIABLES
    server,     \* _closeRequested and the settings
    conn,       \* the parser state of each connection and its socket
    answer,     \* each request with its response
    wire,       \* what was written to each socket
    client,     \* the last piece each client has sent: the i-th of its n-th request
    frames,     \* the handlers under way, innermost first
    jobs,       \* microtasks and ticks to come
    overrun     \* history: the connections where a request came behind one without a
                \* body that was not answered yet

vars == <<server, conn, answer, wire, client, frames, jobs, overrun>>

Ns(c) == 1 .. Requests[c]
Error == 0              \* in place of a request number: a 400, 413, 503 or 405
PartsOf(kind) ==
    CASE kind \in {"length", "badBody"} -> <<"head", "body", "last">>
      [] kind = "chunked" -> <<"head", "body", "last", "crlf">>
      [] kind = "badChunk" -> <<"head", "bad">>
      [] OTHER -> <<"head">>

NewConn == [sock |-> "none", error |-> FALSE, state |-> "IDLE", buffer |-> <<>>, req |-> 0,
            res |-> 0, readableEnded |-> FALSE, closeAfterResponse |-> FALSE,
            responseFinished |-> FALSE, keepAliveAfter |-> FALSE, requestsServed |-> 0,
            detached |-> FALSE, timer |-> FALSE]

NewAnswer == [kind |-> "none", handed |-> FALSE, complete |-> FALSE, eof |-> 0,
              aborted |-> FALSE, keepAlive |-> FALSE, written |-> FALSE, ended |-> FALSE,
              destroyed |-> FALSE, closed |-> 0]

TypeOK ==
    /\ server \in [closing : BOOLEAN, set : Settings]
    /\ \A c \in Conns :
        /\ conn[c].sock \in {"none", "open", "ended", "destroyed", "closed"}
        /\ conn[c].state \in {"IDLE", "HEADERS", "BODY", "AWAITING_RESPONSE"}
        /\ {conn[c].req, conn[c].res} \subseteq 0 .. Requests[c]
        /\ DOMAIN answer[c] = Ns(c)
    /\ overrun \subseteq Conns

Init ==
    /\ server \in [closing : {FALSE}, set : Settings]
    /\ conn = [c \in Conns |-> NewConn]
    /\ answer = [c \in Conns |-> [n \in Ns(c) |-> NewAnswer]]
    /\ wire = [c \in Conns |-> <<>>]
    /\ client = [c \in Conns |-> [n |-> 0, i |-> 0]]
    /\ frames = <<>> /\ jobs = {}
    /\ overrun = {}

NoFrame == [at |-> "rest", c |-> 0, n |-> 0, data |-> FALSE]
Top == IF frames = <<>> THEN NoFrame ELSE Head(frames)
Followed == FollowOverrun \/ overrun = {}
AtRest == Top.at = "rest" /\ Followed
InProgram == Top.at \in {"rest", "request"} /\ Followed
CloseOf(c, n) == [what |-> "close", c |-> c, n |-> n]

-----------------------------------------------------------------------------
(* The socket, as far as the parser sees it.                                  *)

Ended(k) == IF k.sock = "open" THEN [k EXCEPT !.sock = "ended"] ELSE k

Destroyed(k, error) ==
    IF k.sock \in {"open", "ended"} THEN [k EXCEPT !.sock = "destroyed", !.error = error] ELSE k

\* A write after end() destroys the socket with an error, one after destroy() is dropped.
AfterWrite(k) == IF k.sock = "ended" THEN Destroyed(k, TRUE) ELSE k
Written(c, n, part) ==
    wire' = IF conn[c].sock = "open" THEN [wire EXCEPT ![c] = Append(@, <<n, part>>)] ELSE wire

-----------------------------------------------------------------------------
(* maybeFinalizeResponse of connection c, whose state is k and whose answers  *)
(* are a, on top of the frames stack: a response that is finished and whose   *)
(* request is complete makes room for the next.                               *)

Finalizable(a, k) == k.responseFinished /\ (k.req = 0 \/ a[k.req].complete)

\* Faulty variant: the client's end is forgotten.
FinalizedKeeping(k) ==
    LET reset == [k EXCEPT !.responseFinished = FALSE, !.keepAliveAfter = FALSE,
                           !.req = 0, !.res = 0, !.state = "IDLE"]
    IN IF ~k.keepAliveAfter THEN Ended(reset) ELSE [reset EXCEPT !.timer = (k.buffer = <<>>)]

Finalized(k) ==
    LET reset == [k EXCEPT !.responseFinished = FALSE, !.keepAliveAfter = FALSE,
                           !.req = 0, !.res = 0, !.state = "IDLE"]
    IN IF ~k.keepAliveAfter THEN Ended(reset)
       ELSE IF k.buffer # <<>> THEN reset
       ELSE IF k.readableEnded /\ k.closeAfterResponse THEN Ended(reset)
       ELSE [reset EXCEPT !.timer = TRUE]

\* The loop the parser enters, from onData if data.
Loop(c, data) == [at |-> "loop", c |-> c, n |-> 0, data |-> data]

\* Faulty variant: what arrived meanwhile waits for the next data.
MaybeFinalizeOnly(c, a, k, stack, todo) ==
    /\ answer' = [answer EXCEPT ![c] = a]
    /\ frames' = stack
    /\ IF Finalizable(a, k)
       THEN /\ conn' = [conn EXCEPT ![c] = Finalized(k)]
            /\ jobs' = IF k.res = 0 THEN todo ELSE todo \cup {CloseOf(c, k.res)}
       ELSE conn' = [conn EXCEPT ![c] = k] /\ jobs' = todo

MaybeFinalize(c, a, k, stack, todo) ==
    /\ answer' = [answer EXCEPT ![c] = a]
    /\ IF Finalizable(a, k)
       THEN /\ conn' = [conn EXCEPT ![c] = Finalized(k)]
            /\ jobs' = IF k.res = 0 THEN todo ELSE todo \cup {CloseOf(c, k.res)}
            /\ frames' = IF k.keepAliveAfter /\ k.buffer # <<>>
                         THEN <<Loop(c, FALSE)>> \o stack ELSE stack
       ELSE conn' = [conn EXCEPT ![c] = k] /\ jobs' = todo /\ frames' = stack

-----------------------------------------------------------------------------
(* The parse loop: one action is one turn of it, for the innermost frame.     *)

\* Blank lines in front of a request are skipped.
SkipBlank(b) == IF b # <<>> /\ Head(b)[2] = "crlf" THEN Tail(b) ELSE b
HasHead(b) == SkipBlank(b) # <<>> /\ Head(SkipBlank(b))[2] = "head"

\* The loop is left; onData stops the timer when a response is awaited.
LeaveLoop(c, k) ==
    /\ conn' = [conn EXCEPT ![c] =
            [k EXCEPT !.timer = @ /\ ~(Top.data /\ k.res # 0 /\ ~k.responseFinished)]]
    /\ frames' = Tail(frames)

\* An error response, and the end of the socket.
Refuse(c, k) ==
    /\ LeaveLoop(c, Ended(AfterWrite(k)))
    /\ Written(c, Error, "last")
    /\ UNCHANGED <<answer, jobs>>

\* Faulty variant: the parser looks for a request and stays IDLE.
NoHeadIdle(c) ==
    /\ ~HasHead(conn[c].buffer)
    /\ LeaveLoop(c, conn[c])
    /\ UNCHANGED <<answer, wire, jobs, overrun>>

NoHead(c) ==
    /\ ~HasHead(conn[c].buffer)
    /\ LeaveLoop(c, [conn[c] EXCEPT !.state = "HEADERS"])
    /\ UNCHANGED <<answer, wire, jobs, overrun>>

\* k with the n-th request as the current one.
Taken(k, n) == [k EXCEPT !.req = n, !.res = n, !.responseFinished = FALSE,
                         !.keepAliveAfter = FALSE]

\* One without a body that is not answered loses its place.
Overrun(c, k) ==
    overrun' = IF k.res # 0 /\ answer[c][k.res].kind = "none" THEN overrun \cup {c} ELSE overrun

TooMany(k) == server.set.max > 0 /\ k.requestsServed >= server.set.max

\* A malformed request, one too many, or one whose body has no length; the last has
\* become the current one by then.
RefuseHead(c, n, k) ==
    LET served == [k EXCEPT !.requestsServed = @ + 1] IN
    \/ answer[c][n].kind = "bad" /\ Refuse(c, k) /\ UNCHANGED overrun
    \/ answer[c][n].kind \notin {"bad", "connect"} /\ TooMany(k) /\ Refuse(c, served)
       /\ UNCHANGED overrun
    \/ answer[c][n].kind = "badBody" /\ ~TooMany(k) /\ Refuse(c, Taken(served, n))
       /\ Overrun(c, k)

\* CONNECT, or an upgrade: the socket is the program's if it listens for them.
Detach(c, n, k) ==
    /\ answer[c][n].kind = "connect"
    /\ answer' = [answer EXCEPT ![c][n].complete = TRUE]
    /\ \E listens \in BOOLEAN :
        LET gone == [k EXCEPT !.detached = TRUE, !.req = 0, !.res = 0, !.buffer = <<>>] IN
        IF listens THEN LeaveLoop(c, gone) /\ UNCHANGED wire
        ELSE LeaveLoop(c, Destroyed(AfterWrite(gone), FALSE)) /\ Written(c, Error, "last")
    /\ UNCHANGED <<jobs, overrun>>

\* A request is handed to the program.  One without a body leaves the parser ready
\* for the next, whether or not this one is answered.
HandOver(c, n, k) ==
    LET kind == answer[c][n].kind IN
    /\ kind \in {"none", "length", "chunked", "badChunk"} /\ ~TooMany(k)
    /\ conn' = [conn EXCEPT ![c] =
            [Taken(k, n) EXCEPT !.requestsServed = @ + 1,
                                !.state = IF kind = "none" THEN "IDLE" ELSE "BODY"]]
    /\ \E keepAlive \in BOOLEAN :
        /\ keepAlive => server.set.max = 0 \/ k.requestsServed + 1 < server.set.max
        /\ answer' = [answer EXCEPT ![c][n] = [@ EXCEPT !.handed = TRUE, !.keepAlive = keepAlive,
                                                       !.complete = (kind = "none")]]
    /\ frames' = <<[at |-> "request", c |-> c, n |-> n, data |-> FALSE]>> \o frames
    /\ Overrun(c, k)
    /\ UNCHANGED <<wire, jobs>>

ParseHead(c) ==
    \/ NoHead(c)
    \/ /\ HasHead(conn[c].buffer)
       /\ LET b == SkipBlank(conn[c].buffer)
              n == Head(b)[1]
              k == [conn[c] EXCEPT !.state = "HEADERS", !.buffer = Tail(b)]
          IN  RefuseHead(c, n, k) \/ Detach(c, n, k) \/ HandOver(c, n, k)

\* Faulty variant: after the body the parser goes on with the next request.
BodyEndsIdle == "IDLE"

\* The parser waits for the response once the body is read.
BodyEnds == "AWAITING_RESPONSE"

\* A piece of the body goes to the request; the last one completes it.  The line that
\* ends a chunked body is taken along if it is here, and left for later if it is not.
ParseBody(c) ==
    LET k == conn[c]
        b == k.buffer
        r == k.req
        taken == [k EXCEPT !.buffer = Tail(b)]
    IN
    \/ b = <<>> /\ LeaveLoop(c, k) /\ UNCHANGED <<answer, wire, jobs, overrun>>
    \/ b # <<>> /\ Head(b)[2] = "bad" /\ Refuse(c, k) /\ UNCHANGED overrun
    \/ /\ b # <<>> /\ Head(b)[2] = "body"
       /\ conn' = [conn EXCEPT ![c] = taken]
       /\ UNCHANGED <<answer, wire, frames, jobs, overrun>>
    \/ /\ b # <<>> /\ Head(b)[2] = "last"
       /\ MaybeFinalize(c, [answer[c] EXCEPT ![r].complete = TRUE, ![r].eof = @ + 1],
                [taken EXCEPT !.state = BodyEnds, !.buffer = SkipBlank(@)], frames, jobs)
       /\ UNCHANGED <<wire, overrun>>

ParseTurn ==
    /\ Top.at = "loop" /\ Followed
    /\ \/ conn[Top.c].state \in {"IDLE", "HEADERS"} /\ ParseHead(Top.c)
       \/ conn[Top.c].state = "BODY" /\ ParseBody(Top.c)
       \/ /\ conn[Top.c].state = "AWAITING_RESPONSE"
          /\ LeaveLoop(Top.c, conn[Top.c])
          /\ UNCHANGED <<answer, wire, jobs, overrun>>
    /\ UNCHANGED <<server, client>>

\* The 'request' listeners return.  A request without a body ends in a microtask, here at
\* once: it is complete, so nothing else ends it.
RequestReturns ==
    /\ Top.at = "request" /\ Followed
    /\ frames' = Tail(frames)
    /\ answer' = IF answer[Top.c][Top.n].kind = "none"
                 THEN [answer EXCEPT ![Top.c][Top.n].eof = @ + 1] ELSE answer
    /\ UNCHANGED <<server, conn, wire, client, jobs, overrun>>

-----------------------------------------------------------------------------
(* What the program does, inside a handler or later; when a connection has    *)
(* closed it is taken to be done with its responses.                          *)

\* res.write().  The code does not ask whether the response has ended; the program is
\* taken not to.
Write(c, n) ==
    LET a == answer[c][n] IN
    /\ InProgram /\ conn[c].sock # "closed" /\ a.handed /\ ~a.written /\ ~a.ended /\ ~a.destroyed /\ a.closed = 0
    /\ answer' = [answer EXCEPT ![c][n].written = TRUE]
    /\ conn' = [conn EXCEPT ![c] = AfterWrite(@)]
    /\ Written(c, n, "data")
    /\ UNCHANGED <<server, client, frames, jobs, overrun>>

\* res.end(): 'finish' is emitted inside it and may finalize the current response.
End(c, n) ==
    LET a == answer[c][n]
        k == [AfterWrite(conn[c]) EXCEPT
                !.responseFinished = TRUE, !.keepAliveAfter = a.keepAlive /\ ~server.closing]
    IN
    /\ InProgram /\ conn[c].sock # "closed" /\ a.handed /\ ~a.ended /\ ~a.destroyed /\ a.closed = 0
    /\ MaybeFinalize(c, [answer[c] EXCEPT ![n].ended = TRUE], k, frames, jobs)
    /\ Written(c, n, "last")
    /\ UNCHANGED <<server, client, overrun>>

\* res.destroy(), with an error or before the response has ended; after that it leaves
\* the socket to flush and changes nothing that matters here.
DestroyResponse(c, n) ==
    LET a == answer[c][n] IN
    /\ InProgram /\ conn[c].sock # "closed" /\ a.handed /\ ~a.destroyed /\ a.closed = 0
    /\ answer' = [answer EXCEPT ![c][n].destroyed = TRUE]
    /\ \E error \in BOOLEAN :
        /\ error \/ ~a.ended
        /\ conn' = [conn EXCEPT ![c] = Destroyed(@, error)]
    /\ UNCHANGED <<server, wire, client, frames, jobs, overrun>>

\* The connections in _httpConnections.
Registered(c) == conn[c].sock \notin {"none", "closed"}

\* server.close(): idle connections are ended in a microtask.
Close ==
    /\ InProgram /\ ~server.closing
    /\ server' = [server EXCEPT !.closing = TRUE]
    /\ jobs' = jobs \cup {[what |-> "closeIdle"]}
    /\ UNCHANGED <<conn, answer, wire, client, frames, overrun>>

CloseIdleConnections ==
    /\ AtRest /\ [what |-> "closeIdle"] \in jobs
    /\ jobs' = jobs \ {[what |-> "closeIdle"]}
    /\ conn' = [c \in Conns |-> IF Registered(c) /\ conn[c].state = "IDLE"
                                THEN Ended(conn[c]) ELSE conn[c]]
    /\ UNCHANGED <<server, answer, wire, client, frames, overrun>>

\* closeAllConnections(); it empties _httpConnections too, of which only SignalClientAbort
\* could tell: there a request may be aborted here before its socket closes.
CloseAllConnections ==
    /\ InProgram
    /\ conn' = [c \in Conns |-> Destroyed(conn[c], FALSE)]
    /\ conn' # conn
    /\ UNCHANGED <<server, answer, wire, client, frames, jobs, overrun>>

\* _signalClientAbort: a client in the same component gave up a request; every
\* connection of the server is destroyed.
Aborts(a, k) ==
    IF k.req # 0 /\ ~a[k.req].aborted /\ ~k.responseFinished
    THEN [a EXCEPT ![k.req].aborted = TRUE, ![k.req].complete = TRUE,
                   ![k.req].eof = IF a[k.req].complete THEN @ ELSE @ + 1]
    ELSE a
SignalClientAbort ==
    /\ InProgram
    /\ \E c \in Conns : conn[c].sock \in {"open", "ended"}
    /\ answer' = [c \in Conns |-> IF Registered(c) THEN Aborts(answer[c], conn[c]) ELSE answer[c]]
    /\ conn' = [c \in Conns |-> Destroyed(conn[c], FALSE)]
    /\ UNCHANGED <<server, wire, client, frames, jobs, overrun>>

-----------------------------------------------------------------------------
(* The clients and the events of the sockets.                                 *)

\* A connection, c or one that is not followed here: those that are idle are closed by
\* force to make room.
Connection(c) ==
    /\ AtRest /\ ~server.closing
    /\ \/ conn[c].sock = "none"
       \/ \E d \in Conns : Registered(d) /\ conn[d].state = "IDLE"
    /\ conn' = [d \in Conns |->
                    IF d = c /\ conn[c].sock = "none" THEN [NewConn EXCEPT !.sock = "open"]
                    ELSE IF conn[d].state = "IDLE" THEN Destroyed(conn[d], FALSE) ELSE conn[d]]
    /\ UNCHANGED <<server, answer, wire, client, frames, jobs, overrun>>

\* The client sends the next piece of its request, or begins another; it stops after a
\* request that is no HTTP.  In s, what it has sent, and the pieces that are to arrive.
OneMore(c, s) ==
    LET kind == IF s.n = 0 THEN "none" ELSE s.kinds[s.n] IN
    IF s.n > 0 /\ s.i < Len(PartsOf(kind))
    THEN {[s EXCEPT !.i = @ + 1, !.run = Append(@, <<s.n, PartsOf(kind)[s.i + 1]>>)]}
    ELSE IF s.n < Requests[c] /\ kind \in {"none", "length", "chunked"}
    THEN {[n |-> s.n + 1, i |-> 1, run |-> Append(s.run, <<s.n + 1, "head">>),
           kinds |-> [s.kinds EXCEPT ![s.n + 1] = k]] : k \in Kinds}
    ELSE {}

\* One piece, or two at once.
Arrivals(c) ==
    LET one == OneMore(c, [n |-> client[c].n, i |-> client[c].i, run |-> <<>>,
                           kinds |-> [n \in Ns(c) |-> answer[c][n].kind]])
    IN one \cup UNION {OneMore(c, s) : s \in one}

ClientResets(c) ==
    /\ AtRest /\ conn[c].sock \in {"open", "ended"}
    /\ conn' = [conn EXCEPT ![c] = Destroyed(@, TRUE)]
    /\ UNCHANGED <<server, answer, wire, client, frames, jobs, overrun>>

\* onData.
Data(c) ==
    /\ AtRest /\ conn[c].sock \in {"open", "ended"} /\ ~conn[c].readableEnded
    /\ \E s \in Arrivals(c) :
        /\ client' = [client EXCEPT ![c] = [n |-> s.n, i |-> s.i]]
        /\ answer' = [answer EXCEPT ![c] = [n \in Ns(c) |-> [@[n] EXCEPT !.kind = s.kinds[n]]]]
        /\ IF conn[c].detached THEN UNCHANGED <<conn, frames>>
           ELSE /\ conn' = [conn EXCEPT ![c].timer = FALSE, ![c].buffer = @ \o s.run]
                /\ frames' = <<Loop(c, TRUE)>>
    /\ UNCHANGED <<server, wire, jobs, overrun>>

\* The current request of a connection whose client sends no more is complete, and
\* aborted unless its response is finished or the error spares no request.
GoneRequest(a, k, always) ==
    IF k.req = 0 \/ a[k.req].aborted THEN a
    ELSE [a EXCEPT ![k.req].complete = TRUE,
                   ![k.req].eof = IF a[k.req].complete THEN @ ELSE @ + 1,
                   ![k.req].aborted = always \/ ~k.responseFinished]

\* onEnd.
ReadableEnds(c) ==
    LET k == [conn[c] EXCEPT !.readableEnded = TRUE]
        waits == k.res # 0 \/ k.buffer # <<>>
    IN
    /\ AtRest /\ k.sock \in {"open", "ended"} /\ ~k.detached /\ ~conn[c].readableEnded
    /\ answer' = [answer EXCEPT ![c] = GoneRequest(@, k, FALSE)]
    /\ conn' = [conn EXCEPT ![c] = IF server.set.halfOpen /\ waits
                                  THEN [k EXCEPT !.closeAfterResponse = TRUE] ELSE Ended(k)]
    /\ frames' = IF server.set.halfOpen /\ k.res = 0 /\ k.buffer # <<>> /\ k.state = "IDLE"
                 THEN <<Loop(c, FALSE)>> ELSE frames
    /\ UNCHANGED <<server, wire, client, jobs, overrun>>

\* A socket both sides have ended is destroyed.
SocketFinishes(c) ==
    /\ AtRest /\ conn[c].sock = "ended" /\ conn[c].readableEnded
    /\ conn' = [conn EXCEPT ![c] = Destroyed(@, FALSE)]
    /\ UNCHANGED <<server, answer, wire, client, frames, jobs, overrun>>

\* 'timeout' without a listener.
IdleTimeout(c) ==
    /\ AtRest /\ conn[c].timer /\ conn[c].sock \in {"open", "ended"}
    /\ conn' = [conn EXCEPT ![c] = Destroyed(@, FALSE)]
    /\ UNCHANGED <<server, answer, wire, client, frames, jobs, overrun>>

\* onError and onClose.
SocketCloses(c) ==
    LET k == conn[c]
        a == IF k.error THEN GoneRequest(answer[c], k, TRUE) ELSE answer[c]
        b == GoneRequest(a, k, FALSE)
    IN
    /\ AtRest /\ k.sock = "destroyed"
    /\ conn' = [conn EXCEPT ![c].sock = "closed"]
    /\ answer' = IF k.detached THEN answer
                 ELSE [answer EXCEPT ![c] =
                        IF k.res = 0 THEN b ELSE [b EXCEPT ![k.res].closed = @ + 1]]
    /\ UNCHANGED <<server, wire, client, frames, jobs, overrun>>

\* The tick that closes a finalized response.
ResponseCloses(j) ==
    /\ AtRest /\ j \in jobs /\ j.what = "close"
    /\ jobs' = jobs \ {j}
    /\ answer' = [answer EXCEPT ![j.c][j.n].closed = @ + 1]
    /\ UNCHANGED <<server, conn, wire, client, frames, overrun>>

Handlers ==
    \/ ParseTurn \/ RequestReturns \/ CloseIdleConnections
    \/ \E j \in jobs : ResponseCloses(j)
    \/ \E c \in Conns : SocketFinishes(c) \/ SocketCloses(c)

Next ==
    \/ Handlers \/ Close \/ CloseAllConnections \/ SignalClientAbort
    \/ \E c \in Conns :
        \/ Connection(c) \/ Data(c) \/ ReadableEnds(c) \/ ClientResets(c) \/ IdleTimeout(c)
        \/ \E n \in Ns(c) : Write(c, n) \/ End(c, n) \/ DestroyResponse(c, n)

\* Handlers run to their end and jobs are taken; the program ends every response.
Fairness ==
    /\ WF_vars(Handlers)
    /\ \A c \in Conns : \A n \in Ns(c) : WF_vars(End(c, n))

Spec == Init /\ [][Next]_vars
FairSpec == Spec /\ Fairness

-----------------------------------------------------------------------------
(* Properties.                                                                *)

\* On each socket the responses come in the order of the requests, each in one piece,
\* with nothing behind an error response, however the pieces arrive and whenever the
\* program answers; unless a request came behind one without a body that was not
\* answered yet, or the program wrote to a response it had ended.
ResponsesInOrder ==
    /\ TypeOK
    /\ \A c \in Conns \ overrun :
        \A i, j \in 1 .. Len(wire[c]) : i < j =>
            /\ wire[c][i][1] # Error
            /\ wire[c][j][1] # Error => wire[c][i][1] <= wire[c][j][1]
            /\ wire[c][i][2] = "last" => wire[c][i][1] # wire[c][j][1]

\* The same of every connection whose program writes all it writes to a response before
\* it ends it: "sequential request pipelining".
PipelinedInOrder ==
    \A c \in Conns : \A i, j \in 1 .. Len(wire[c]) :
        i < j /\ wire[c][j][1] # Error => wire[c][i][1] <= wire[c][j][1]

\* A connection that may be closed for being idle has answered all it was asked and
\* holds nothing it has not looked at.
IdleOwesNothing ==
    \A c \in Conns \ overrun :
        AtRest /\ conn[c].state = "IDLE" /\ conn[c].sock = "open" =>
            /\ ~HasHead(conn[c].buffer)
            /\ \A n \in Ns(c) : answer[c][n].handed => answer[c][n].ended

\* Every request that was handed over is settled once: its end is pushed once, unless it
\* was aborted while the parser was in it; its response is closed once, and before it has
\* ended only when the connection is gone; when that is gone, none is left.
RequestsSettle ==
    \A c \in Conns \ overrun : \A n \in Ns(c) :
        LET a == answer[c][n] IN
        /\ a.eof <= 1 \/ a.aborted
        /\ a.closed <= 1
        /\ a.closed > 0 => a.ended \/ conn[c].sock = "closed"
        /\ a.handed /\ conn[c].sock = "closed" /\ ~conn[c].detached /\ AtRest =>
            a.complete /\ (a.closed = 1 \/ CloseOf(c, n) \in jobs)

\* Neither an idle connection nor one that is gone leaves a request unsettled.
NothingIsOwed == IdleOwesNothing /\ RequestsSettle

\* A request that has arrived is looked at in the end, unless its connection is gone.
RequestsAreParsed ==
    \A c \in Conns : \A n \in Ns(c) :
        <<n, "head">> \in ToSet(conn[c].buffer) ~>
            <<n, "head">> \notin ToSet(conn[c].buffer) \/ conn[c].sock # "open"

\* The client has left off in the middle of a request.
BrokenOff(c) ==
    client[c].n > 0 /\ client[c].i < Len(PartsOf(answer[c][client[c].n].kind))

\* Requests are parsed, and the server ends its side after the client has, once the program
\* has answered, unless the client left off in a request or the line that ends a body came
\* on its own.
HalfOpenCloses ==
    /\ RequestsAreParsed
    /\ \A c \in Conns :
        conn[c].readableEnded /\ ~BrokenOff(c) ~> conn[c].sock # "open" \/ conn[c].detached
            \/ conn[c].buffer # <<>>
=============================================================================
