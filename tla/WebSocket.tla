------------------------------- MODULE WebSocket -------------------------------
(* The two clients of a web socket (builtin/websocket.js over websocket.rs):  *)
(* WebSocket, which dispatches events, and WebSocketStream, which settles     *)
(* promises and fills a ReadableStream.  One connection, made in a microtask, *)
(* read by a loop that awaits receive(); the program calls close() and send() *)
(* in its own turns and in listeners.  The host's connection is external: it  *)
(* answers a receive() with what the peer sent, and a send() may fail.        *)
EXTENDS Integers, Sequences, SequencesExt

CONSTANTS
    Apis,       \* the clients to run: a subset of {"events", "stream"}
    MaxMessages \* bound: messages the peer sends

VARIABLES
    api,        \* the client of this behaviour
    busy,       \* code of the program runs: a turn or a listener
    todo,       \* what the code that runs does when the listener returns
    connect,    \* the microtask that connects: pending, done
    readyState, \* _readyState
    connection, \* _connection is not null
    inner,      \* the native connection: none, open, or taken by close()
    receive,    \* the call of receive(): none, waiting, or its answer
    sent,       \* number of messages the peer has sent
    ended,      \* how the peer ended the connection: no, closed, error
    got,        \* history: the messages dispatched, or enqueued
    events,     \* history: the other events dispatched, and late messages
    early,      \* history: closed before it was connected, or while a WebSocketStream
    opened, closed,     \* the promises of WebSocketStream
    controller  \* its ReadableStream: readable, closed, errored

vars == <<api, busy, todo, connect, readyState, connection, inner, receive, sent, ended,
          got, events, early, opened, closed, controller>>
streamVars == <<opened, closed, controller>>
peerVars == <<sent, ended>>

Init ==
    /\ api \in Apis
    /\ busy = TRUE /\ todo = <<>>
    /\ connect = "pending" /\ readyState = "CONNECTING" /\ connection = FALSE
    /\ inner = "none" /\ receive = "none"
    /\ sent = 0 /\ ended = "no" /\ got = <<>> /\ events = <<>> /\ early = FALSE
    /\ opened = "pending" /\ closed = "pending" /\ controller = "readable"

Answers == {"data", "closed", "error", "throws"}

TypeOK ==
    /\ api \in Apis /\ busy \in BOOLEAN /\ early \in BOOLEAN /\ connection \in BOOLEAN
    /\ todo \in Seq({"open", "message", "error", "close", "loop"})
    /\ connect \in {"pending", "done"}
    /\ readyState \in {"CONNECTING", "OPEN", "CLOSED"}
    /\ inner \in {"none", "open", "taken"}
    /\ receive \in {"none", "waiting"} \cup Answers
    /\ sent \in 0 .. MaxMessages /\ ended \in {"no", "closed", "error"}
    /\ got \in Seq(1 .. MaxMessages)
    /\ events \in Seq({"open", "message", "error", "close"})
    /\ opened \in {"pending", "resolved", "rejected"}
    /\ closed \in {"pending", "resolved", "rejected"}
    /\ controller \in {"readable", "closed", "errored"}

Idle == ~busy /\ todo = <<>>

-----------------------------------------------------------------------------
(* The host: the peer, and the answers of receive().                          *)

PeerSends ==
    /\ inner = "open" /\ ended = "no" /\ sent < MaxMessages
    /\ sent' = sent + 1
    /\ UNCHANGED <<api, busy, todo, connect, readyState, connection, inner, receive, ended,
                   got, events, early, streamVars>>

PeerEnds ==
    /\ inner = "open" /\ ended = "no"
    /\ ended' \in {"closed", "error"}
    /\ UNCHANGED <<api, busy, todo, connect, readyState, connection, inner, receive, sent,
                   got, events, early, streamVars>>

\* Number of messages that receive() has taken from the peer.
Taken == Len(got) + (IF receive = "data" THEN 1 ELSE 0)

\* The pollable is ready: the first message, else the end; a connection that was taken
\* meanwhile throws, if the pollable is ready at all.
Answer(how) ==
    /\ receive = "waiting"
    /\ receive' = how
    /\ UNCHANGED <<api, busy, todo, connect, readyState, connection, inner, peerVars, got,
                   events, early, streamVars>>

NativeReceive ==
    \/ inner = "open" /\ Taken < sent /\ Answer("data")
    \/ inner = "open" /\ Taken = sent /\ ended # "no" /\ Answer(ended)
NativeReceiveThrows == inner = "taken" /\ Answer("throws")

-----------------------------------------------------------------------------
(* The events of a WebSocket.                                                 *)

ProgramTurn ==
    /\ Idle /\ busy' = TRUE
    /\ UNCHANGED <<api, todo, connect, readyState, connection, inner, receive, peerVars,
                   got, events, early, streamVars>>

\* The turn ends, or a listener returns or throws: _dispatch() catches.
ProgramReturns ==
    /\ busy /\ busy' = FALSE
    /\ UNCHANGED <<api, todo, connect, readyState, connection, inner, receive, peerVars,
                   got, events, early, streamVars>>

HasClosed == Contains(events, "close")

\* _dispatch(): the handlers of the next event run.
Dispatch ==
    /\ ~busy /\ todo # <<>> /\ Head(todo) # "loop"
    /\ busy' = TRUE /\ todo' = Tail(todo)
    /\ IF Head(todo) = "message"
       THEN /\ got' = Append(got, Len(got) + 1)
            /\ events' = IF HasClosed THEN Append(events, "message") ELSE events
       ELSE events' = Append(events, Head(todo)) /\ UNCHANGED got
    /\ UNCHANGED <<api, connect, readyState, connection, inner, receive, peerVars, early,
                   streamVars>>

\* The microtask of _connectAsync(); it does not look at what close() did before it.
Connect(ok) ==
    /\ api = "events" /\ Idle /\ connect = "pending"
    /\ connect' = "done"
    /\ IF ok
       THEN /\ connection' = TRUE /\ inner' = "open" /\ readyState' = "OPEN"
            /\ todo' = <<"open", "loop">>
       ELSE /\ readyState' = "CLOSED" /\ todo' = <<"error", "close">>
            /\ UNCHANGED <<connection, inner>>
    /\ UNCHANGED <<api, busy, receive, peerVars, got, events, early, streamVars>>

\* The head of the receive loop.
Loop ==
    /\ api = "events" /\ ~busy /\ todo # <<>> /\ Head(todo) = "loop"
    /\ todo' = Tail(todo)
    /\ receive' = IF readyState = "OPEN" /\ connection THEN "waiting" ELSE "none"
    /\ UNCHANGED <<api, busy, connect, readyState, connection, inner, peerVars, got,
                   events, early, streamVars>>

\* The continuation of `await receive()`; a message is dispatched whatever readyState is.
Received ==
    /\ api = "events" /\ Idle /\ receive \in Answers
    /\ receive' = "none"
    /\ IF receive = "data"
       THEN todo' = <<"message", "loop">> /\ UNCHANGED readyState
       ELSE /\ readyState' = "CLOSED"
            /\ todo' = CASE readyState = "CLOSED" -> <<>>
                         [] readyState # "CLOSED" /\ receive = "closed" -> <<"close">>
                         [] OTHER -> <<"error", "close">>
    /\ UNCHANGED <<api, busy, connect, connection, inner, peerVars, got, events, early,
                   streamVars>>

\* Faulty variant: a failure is announced whatever the state.
SendFailsAnyway ==
    /\ api = "events" /\ busy /\ inner # "none"
    /\ readyState' = "CLOSED"
    /\ busy' = FALSE /\ todo' = <<"error", "close">> \o todo
    /\ UNCHANGED <<api, connect, connection, inner, receive, peerVars, got, events, early,
                   streamVars>>

\* send() that fails; the connection is neither closed nor let go.
SendFails ==
    /\ api = "events" /\ busy /\ readyState = "OPEN"
    /\ readyState' = "CLOSED"
    /\ busy' = FALSE /\ todo' = <<"error", "close">> \o todo
    /\ UNCHANGED <<api, connect, connection, inner, receive, peerVars, got, events, early,
                   streamVars>>

\* close(); the native close() takes the connection.
Close ==
    /\ api = "events" /\ busy /\ readyState # "CLOSED"
    /\ readyState' = "CLOSED" /\ connection' = FALSE
    /\ inner' = IF connection THEN "taken" ELSE inner
    /\ busy' = FALSE /\ todo' = <<"close">> \o todo
    /\ early' = (early \/ readyState = "CONNECTING")
    /\ UNCHANGED <<api, connect, receive, peerVars, got, events, streamVars>>

-----------------------------------------------------------------------------
(* The promises and the streams of a WebSocketStream.                         *)

ConnectStream(ok) ==
    /\ api = "stream" /\ Idle /\ connect = "pending"
    /\ connect' = "done"
    /\ IF ok
       THEN /\ connection' = TRUE /\ inner' = "open" /\ receive' = "waiting"
            /\ opened' = "resolved" /\ UNCHANGED closed
       ELSE /\ opened' = "rejected" /\ closed' = "rejected"
            /\ UNCHANGED <<connection, inner, receive>>
    /\ UNCHANGED <<api, busy, todo, readyState, peerVars, got, events, early, controller>>

\* close(), the writable's close() and abort(), and cancel() of the readable, which has
\* closed it by then.
CloseConnection(cancels) ==
    /\ api = "stream" /\ busy
    /\ cancels => connection /\ controller = "readable"
    /\ connection' = FALSE
    /\ inner' = IF connection THEN "taken" ELSE inner
    /\ controller' = IF cancels THEN "closed" ELSE controller
    /\ early' = TRUE
    /\ UNCHANGED <<api, busy, todo, connect, readyState, receive, peerVars, got, events,
                   opened, closed>>

\* Faulty variant: closed is left to close(), which the program may never call.
PumpedUnsettled ==
    /\ api = "stream" /\ Idle /\ receive \in Answers
    /\ controller' = IF receive = "data" THEN controller ELSE "closed"
    /\ receive' = IF receive = "data" /\ connection THEN "waiting" ELSE "none"
    /\ got' = IF receive = "data" THEN Append(got, Len(got) + 1) ELSE got
    /\ UNCHANGED <<api, busy, todo, connect, readyState, connection, inner, peerVars,
                   events, early, opened, closed>>

\* The continuation of `await receive()` in _pumpReadable().  enqueue() and close() throw
\* when the readable was cancelled; a loop that finds no connection just ends.
Pumped ==
    LET fails == receive \in {"error", "throws"} \/ controller # "readable" IN
    /\ api = "stream" /\ Idle /\ receive \in Answers
    /\ \/ /\ fails
          /\ controller' = IF controller = "readable" THEN "errored" ELSE controller
          /\ closed' = IF closed = "pending" THEN "rejected" ELSE closed
          /\ receive' = "none" /\ UNCHANGED got
       \/ /\ ~fails /\ receive = "data"
          /\ got' = Append(got, Len(got) + 1)
          /\ receive' = IF connection THEN "waiting" ELSE "none"
          /\ UNCHANGED <<controller, closed>>
       \/ /\ ~fails /\ receive = "closed"
          /\ controller' = "closed" /\ closed' = "resolved"
          /\ receive' = "none" /\ UNCHANGED got
    /\ UNCHANGED <<api, busy, todo, connect, readyState, connection, inner, peerVars,
                   events, early, opened>>

-----------------------------------------------------------------------------
\* What is queued as a job.
Jobs == Received \/ Pumped \/ \E ok \in BOOLEAN : Connect(ok) \/ ConnectStream(ok)

\* What goes on until the executor is idle.
Runs == ProgramReturns \/ Dispatch \/ Loop

Next ==
    \/ Jobs \/ Runs \/ ProgramTurn
    \/ PeerSends \/ PeerEnds \/ NativeReceive \/ NativeReceiveThrows
    \/ Close \/ SendFails \/ \E cancels \in BOOLEAN : CloseConnection(cancels)

Spec == Init /\ [][Next]_vars

\* Turns end and jobs run between them; the host answers a call of receive() on an open
\* connection.  Nothing makes the peer send or the program call anything.
FairSpec == Spec /\ WF_vars(Runs) /\ SF_vars(Jobs) /\ WF_vars(NativeReceive)

-----------------------------------------------------------------------------
(* Properties.                                                                *)

AtMostOnce(s, e) == \A i, j \in DOMAIN s : s[i] = e /\ s[j] = e => i = j

\* What a program hears of a WebSocket it did not close while it was connecting: 'close'
\* once and only in readyState CLOSED, and after it nothing but one message, that of the
\* receive() which was pending when send() failed or close() was called.
HearsCloseOnce ==
    ~early /\ api = "events" =>
        /\ \A e \in {"close", "error", "message"} : AtMostOnce(events, e)
        /\ HasClosed => readyState = "CLOSED" /\ Last(events) \in {"close", "message"}

\* One receive() is pending at most; no message is lost or comes twice while it answers.
MessagesInOrder ==
    /\ TypeOK
    /\ got = [i \in 1 .. Len(got) |-> i]
    /\ AtMostOnce(todo, "message")
    /\ Taken + (IF Contains(todo, "message") THEN 1 ELSE 0) <= sent
    /\ receive # "none" => ~Contains(todo, "loop")

\* What the program hears is what the peer did, in its order, and 'close' at the end.
HearsInOrder == HearsCloseOnce /\ MessagesInOrder

\* The end the peer makes is announced, by 'close' or by the promise closed, unless the
\* program has closed first: the loop that would hear of it is never left behind.
EndIsAnnounced ==
    ended # "no" ~> HasClosed \/ closed # "pending" \/ early
=============================================================================
