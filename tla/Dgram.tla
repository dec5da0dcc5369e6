-------------------------------- MODULE Dgram --------------------------------
(* A datagram socket (builtin/dgram.js over dgram.rs): bind() and connect()   *)
(* finish in jobs, what send() and connect() ask for while it binds waits in  *)
(* a queue, and a receive loop carries datagrams to 'message'.  The loops     *)
(* carry a token: the one that does not hold _recvToken is to end.  Each      *)
(* native call answers on its own, and the job that goes on after it may find *)
(* the socket closed.  (Bound: a stream, disconnect() or a listener fails only before    *)
(* anything else has.)  Name lookups and the streams of the host are external. *)
EXTENDS Integers, FiniteSets, Sequences, SequencesExt

CONSTANTS
    Sends,          \* the send() calls, with a callback each
    MaxConnects,    \* bound: connect() calls
    MaxDatagrams    \* bound: datagrams that arrive

Connect == "connect"

VARIABLES
    js,         \* the fields of the Socket: _bindState, _connectState, _recvToken, _handle
    queue,      \* _queue: doSend of a send(), or doConnect
    bound,      \* the native socket is bound
    generation, \* of the native streams
    binding,    \* where _doBind() is: none, lookup, native, and the answer ok or failed
    connecting, \* where connect() is; in the queue it is none
    send,       \* where each send() is
    loops,      \* the receive loops
    todo,       \* what follows the listeners that run: flush, connect, loop
    arrived,    \* datagrams the host holds
    bounds,     \* connect() calls made, datagrams sent
    past        \* history: the failures that leave a socket without a loop

vars == <<js, queue, bound, generation, binding, connecting, send, loops, todo, arrived,
          bounds, past>>
hostVars == <<bound, generation, arrived>>

Init ==
    /\ js = [bind |-> "unbound", connect |-> "no", token |-> 0, open |-> TRUE]
    /\ queue = <<>> /\ todo = <<>> /\ loops = {} /\ past = {}
    /\ bound = FALSE /\ generation = 0 /\ arrived = 0
    /\ binding = "none" /\ connecting = "none"
    /\ send = [i \in Sends |-> "none"]
    /\ bounds = [connects |-> 0, datagrams |-> 0]

TypeOK ==
    /\ js \in [bind : {"unbound", "binding", "bound"}, connect : {"no", "connecting", "connected"},
               token : Nat, open : BOOLEAN]
    /\ queue \in Seq(Sends \cup {Connect})
    /\ {binding, connecting} \subseteq {"none", "lookup", "native", "ok", "failed"}
    /\ send \in [Sends -> {"none", "queued", "lookup", "native", "answered", "called", "dropped"}]
    /\ \A l \in loops : l.at \in {"called", "waiting", "data", "failed", "listener"}
    /\ past \subseteq {"receive failed", "disconnect failed", "connect failed", "threw"}

Idle == todo = <<>>

-----------------------------------------------------------------------------
(* What the calls and the jobs share.                                         *)

\* _startReceiving(): a loop with a new token; on a closed socket it ends at once.
StartReceiving(k) ==
    /\ js' = [k EXCEPT !.token = @ + 1]
    /\ loops' = IF k.open
                THEN loops \cup {[token |-> k.token + 1, at |-> "called", gen |-> 0]}
                ELSE loops

\* doSend(): to the connected peer or an address at once, to a name after its lookup.
Sent(named) == IF named /\ js.connect # "connected" THEN "lookup" ELSE "native"

\* The queue is dropped, and with it the callbacks of its send() calls.
DropQueue ==
    /\ queue' = <<>>
    /\ send' = [i \in Sends |-> IF Contains(queue, i) THEN "dropped" ELSE send[i]]

\* Of an unbound socket send() and connect() start the binding.
Enqueue(what, k) ==
    /\ queue' = Append(queue, what)
    /\ js' = [k EXCEPT !.bind = "binding"]
    /\ binding' = IF js.bind = "unbound" /\ js.open THEN "native" ELSE binding

\* Once it is bound, connect() stops the loop, which only its success starts anew.
PerformConnect(k) ==
    \/ /\ js.bind = "bound"
       /\ js' = [k EXCEPT !.token = @ + 1]
       /\ connecting' = "native"
       /\ UNCHANGED <<queue, binding>>
    \/ /\ js.bind # "bound"
       /\ Enqueue(Connect, k)
       /\ connecting' = "none"

-----------------------------------------------------------------------------
(* What the program calls, in a turn or in a listener.                        *)

Bind(named) ==
    /\ js.open /\ js.bind = "unbound"
    /\ js' = [js EXCEPT !.bind = "binding"]
    /\ binding' = IF named THEN "lookup" ELSE "native"
    /\ UNCHANGED <<queue, connecting, send, loops, todo, hostVars, bounds, past>>

\* Faulty variant: what comes before 'listening' is over is queued, too.
SendQueuesWhileFlushing(i, named) ==
    /\ js.open /\ send[i] = "none"
    /\ IF js.bind = "bound" /\ todo = <<>>
       THEN send' = [send EXCEPT ![i] = Sent(named)] /\ UNCHANGED <<js, queue, binding>>
       ELSE /\ queue' = Append(queue, i)
            /\ UNCHANGED <<js, binding>>
            /\ send' = [send EXCEPT ![i] = "queued"]
    /\ UNCHANGED <<connecting, loops, todo, hostVars, bounds, past>>

Send(i, named) ==
    /\ js.open /\ send[i] = "none"
    /\ \/ /\ js.bind = "bound"
          /\ send' = [send EXCEPT ![i] = Sent(named)]
          /\ UNCHANGED <<js, queue, binding>>
       \/ /\ js.bind # "bound"
          /\ Enqueue(i, js)
          /\ send' = [send EXCEPT ![i] = "queued"]
    /\ UNCHANGED <<connecting, loops, todo, hostVars, bounds, past>>

ConnectTo(named) ==
    /\ js.open /\ js.connect = "no" /\ bounds.connects < MaxConnects
    /\ bounds' = [bounds EXCEPT !.connects = @ + 1]
    /\ LET k == [js EXCEPT !.connect = "connecting"] IN
        IF named THEN js' = k /\ connecting' = "lookup" /\ UNCHANGED <<queue, binding>>
        ELSE PerformConnect(k)
    /\ UNCHANGED <<send, loops, todo, hostVars, past>>

\* The native disconnect() may fail when the old streams are gone already.
Disconnect(fails) ==
    /\ js.open /\ js.connect = "connected"
    /\ \/ /\ fails /\ past = {}
          /\ js' = [js EXCEPT !.token = @ + 1]
          /\ past' = past \cup {"disconnect failed"}
          /\ UNCHANGED <<generation, loops>>
       \/ /\ ~fails
          /\ generation' = generation + 1
          /\ LET k == [js EXCEPT !.token = @ + 1, !.connect = "no"] IN
             IF js.bind = "bound" THEN StartReceiving(k) ELSE js' = k /\ UNCHANGED loops
          /\ UNCHANGED past
    /\ UNCHANGED <<queue, bound, binding, connecting, send, todo, arrived, bounds>>

Close ==
    /\ js.open
    /\ js' = [bind |-> "unbound", connect |-> "no", token |-> js.token + 1, open |-> FALSE]
    /\ generation' = generation + 1
    /\ DropQueue
    /\ UNCHANGED <<bound, binding, connecting, loops, todo, arrived, bounds, past>>

-----------------------------------------------------------------------------
(* _doBind().                                                                 *)

\* The name is looked up; on a socket closed meanwhile bind() is called on null.
BindLookup(ok) ==
    /\ Idle /\ binding = "lookup"
    /\ binding' = IF ok /\ js.open THEN "native" ELSE "failed"
    /\ UNCHANGED <<js, queue, connecting, send, loops, todo, hostVars, bounds, past>>

NativeBind(ok) ==
    /\ binding = "native"
    /\ ok => js.open /\ ~bound
    /\ binding' = IF ok THEN "ok" ELSE "failed"
    /\ bound' = (bound \/ ok)
    /\ UNCHANGED <<js, queue, connecting, send, loops, todo, generation, arrived, bounds, past>>

\* The socket is bound and 'listening' goes out; or it was closed; or the binding failed,
\* and nothing tells those whose datagrams and connections waited for it.
Bound ==
    /\ Idle /\ binding \in {"ok", "failed"}
    /\ binding' = "none"
    /\ \/ /\ binding = "ok" /\ js.open
          /\ StartReceiving([js EXCEPT !.bind = "bound"])
          /\ todo' = <<"flush">>
          /\ UNCHANGED <<queue, send>>
       \/ /\ binding = "ok" /\ ~js.open
          /\ UNCHANGED <<js, queue, send, loops, todo>>
       \/ /\ binding = "failed"
          /\ js' = [js EXCEPT !.bind = "unbound"]
          /\ DropQueue
          /\ UNCHANGED <<loops, todo>>
    /\ UNCHANGED <<connecting, hostVars, bounds, past>>

\* _flushQueue(), after the 'listening' listeners.
Flush ==
    /\ todo = <<"flush">> /\ todo' = <<>>
    /\ queue' = <<>>
    /\ \E named \in SUBSET Sends :
        send' = [i \in Sends |-> IF Contains(queue, i) THEN Sent(i \in named) ELSE send[i]]
    /\ IF Contains(queue, Connect)
       THEN js' = [js EXCEPT !.token = @ + 1] /\ connecting' = "native"
       ELSE UNCHANGED <<js, connecting>>
    /\ UNCHANGED <<binding, loops, hostVars, bounds, past>>

-----------------------------------------------------------------------------
(* connect() and send().                                                      *)

ConnectLookup(ok) ==
    /\ Idle /\ connecting = "lookup"
    /\ IF ok THEN PerformConnect(js)
       ELSE /\ js' = [js EXCEPT !.connect = "no"]
            /\ connecting' = "none"
            /\ UNCHANGED <<queue, binding>>
    /\ UNCHANGED <<send, loops, todo, hostVars, bounds, past>>

\* Connected streams take the place of the others, which a failure restores.
NativeConnect(ok) ==
    /\ connecting = "native"
    /\ ok => js.open
    /\ connecting' = IF ok THEN "ok" ELSE "failed"
    /\ generation' = IF ok THEN generation + 1 ELSE generation
    /\ UNCHANGED <<js, queue, bound, binding, send, loops, todo, arrived, bounds, past>>

Connected ==
    /\ Idle /\ connecting \in {"ok", "failed"}
    /\ connecting' = "none"
    /\ \/ /\ connecting = "ok"
          /\ StartReceiving([js EXCEPT !.connect = "connected"])
          /\ todo' = <<"connect">>
          /\ UNCHANGED past
       \/ /\ connecting = "failed"
          /\ js' = [js EXCEPT !.connect = "no"]
          /\ past' = past \cup {"connect failed"}
          /\ UNCHANGED <<loops, todo>>
    /\ UNCHANGED <<queue, binding, send, hostVars, bounds>>

ListenerReturns ==
    /\ todo = <<"connect">> /\ todo' = <<>>
    /\ UNCHANGED <<js, queue, binding, connecting, send, loops, hostVars, bounds, past>>

SendLookup(i, ok) ==
    /\ Idle /\ send[i] = "lookup"
    /\ send' = [send EXCEPT ![i] = IF ok /\ js.open THEN "native" ELSE "answered"]
    /\ UNCHANGED <<js, queue, binding, connecting, loops, todo, hostVars, bounds, past>>

\* The host takes the datagram or fails; on other streams, or none, it fails.
NativeSend(i) ==
    /\ send[i] = "native"
    /\ send' = [send EXCEPT ![i] = "answered"]
    /\ UNCHANGED <<js, queue, binding, connecting, loops, todo, hostVars, bounds, past>>

CallBack(i) ==
    /\ Idle /\ send[i] = "answered"
    /\ send' = [send EXCEPT ![i] = "called"]
    /\ UNCHANGED <<js, queue, binding, connecting, loops, todo, hostVars, bounds, past>>

-----------------------------------------------------------------------------
(* The receive loops.                                                         *)

Arrives ==
    /\ bound /\ js.open /\ bounds.datagrams < MaxDatagrams
    /\ arrived' = arrived + 1
    /\ bounds' = [bounds EXCEPT !.datagrams = @ + 1]
    /\ UNCHANGED <<js, queue, bound, generation, binding, connecting, send, loops, todo, past>>

\* receive() is polled first in a job of its own, and waits on the streams of that time.
ReceiveStarts(l) ==
    /\ l.at = "called"
    /\ loops' = (loops \ {l}) \cup
                {[l EXCEPT !.at = IF js.open THEN "waiting" ELSE "failed", !.gen = generation]}
    /\ UNCHANGED <<js, queue, binding, connecting, send, todo, hostVars, bounds, past>>

ReceiveAnswers(l) ==
    /\ l.at = "waiting"
    /\ \/ /\ arrived > 0 /\ js.open /\ l.gen = generation
          /\ arrived' = arrived - 1
          /\ loops' = (loops \ {l}) \cup {[l EXCEPT !.at = "data"]}
       \/ /\ past = {} \/ ~js.open \/ l.gen # generation
          /\ loops' = (loops \ {l}) \cup {[l EXCEPT !.at = "failed"]}
          /\ UNCHANGED arrived
    /\ UNCHANGED <<js, queue, bound, generation, binding, connecting, send, todo, bounds, past>>

\* An overtaken loop ends, with a datagram or without; an error ends the other one, too.
Received(l) ==
    /\ Idle /\ l.at \in {"data", "failed"}
    /\ IF l.token = js.token /\ l.at = "data"
       THEN /\ loops' = (loops \ {l}) \cup {[l EXCEPT !.at = "listener"]}
            /\ todo' = <<"loop">>
       ELSE loops' = loops \ {l} /\ UNCHANGED todo
    /\ past' = IF l.token = js.token /\ l.at = "failed" THEN past \cup {"receive failed"} ELSE past
    /\ UNCHANGED <<js, queue, binding, connecting, send, hostVars, bounds>>

\* Faulty variant: after the listener the loop goes on, whatever it did.
LoopGoesOnAnyway ==
    \E l \in loops :
        /\ todo = <<"loop">> /\ l.at = "listener" /\ todo' = <<>>
        /\ loops' = (loops \ {l}) \cup {[l EXCEPT !.token = js.token, !.at = "called"]}
        /\ UNCHANGED <<js, queue, binding, connecting, send, hostVars, bounds, past>>

\* After the 'message' listener.
LoopGoesOn ==
    \E l \in loops :
        /\ todo = <<"loop">> /\ l.at = "listener" /\ todo' = <<>>
        /\ loops' = (loops \ {l}) \cup
                    (IF l.token = js.token THEN {[l EXCEPT !.at = "called"]} ELSE {})
        /\ UNCHANGED <<js, queue, binding, connecting, send, hostVars, bounds, past>>

\* A listener throws into the job that called it: the socket counts as unbound, or as not
\* connected, or the loop ends.
ListenerThrows ==
    /\ todo # <<>> /\ todo' = <<>> /\ past = {} /\ past' = {"threw"}
    /\ \/ /\ todo = <<"flush">>
          /\ js' = [js EXCEPT !.bind = "unbound"]
          /\ DropQueue
          /\ UNCHANGED loops
       \/ /\ todo = <<"connect">>
          /\ js' = [js EXCEPT !.connect = "no"]
          /\ UNCHANGED <<queue, send, loops>>
       \/ /\ todo = <<"loop">>
          /\ loops' = {l \in loops : l.at # "listener"}
          /\ UNCHANGED <<js, queue, send>>
    /\ UNCHANGED <<binding, connecting, hostVars, bounds>>

-----------------------------------------------------------------------------
Program ==
    \/ Close
    \/ \E b \in BOOLEAN : Bind(b) \/ ConnectTo(b) \/ Disconnect(b) \/ \E i \in Sends : Send(i, b)

Runs == Flush \/ ListenerReturns \/ LoopGoesOn \/ ListenerThrows

Host ==
    \E ok \in BOOLEAN : NativeBind(ok) \/ NativeConnect(ok)

\* What goes on with a binding, a connection and a send(), a job after the other.
Binds == Bound \/ \E ok \in BOOLEAN : BindLookup(ok)
Connects == Connected \/ \E ok \in BOOLEAN : ConnectLookup(ok)
SendGoesOn(i) == CallBack(i) \/ \E ok \in BOOLEAN : SendLookup(i, ok)

Next ==
    \/ Program \/ Runs \/ Host \/ Arrives
    \/ Binds \/ Connects \/ \E i \in Sends : NativeSend(i) \/ SendGoesOn(i)
    \/ \E l \in loops : ReceiveStarts(l) \/ ReceiveAnswers(l) \/ Received(l)

Spec == Init /\ [][Next]_vars

\* Turns end, native calls but receive() answer, and every job gets its turn.
Fairness ==
    /\ WF_vars(Runs) /\ WF_vars(Host) /\ WF_vars(Binds) /\ WF_vars(Connects)
    /\ \A i \in Sends : WF_vars(SendGoesOn(i)) /\ WF_vars(NativeSend(i))
FairSpec == Spec /\ Fairness

-----------------------------------------------------------------------------
(* Properties.                                                                *)

\* Of a bound socket that is not about to be connected.
HasLoop ==
    js.open /\ js.bind = "bound" /\ connecting \in {"none", "lookup"} =>
        \E l \in loops : l.token = js.token

\* A bound socket has one receive loop, whatever bind(), connect(), disconnect() and close()
\* start and stop, from listeners or not, until a failure or a listener that throws ends it;
\* no two loops hold one token, so no two deliver.
HearsWhileBound ==
    /\ TypeOK
    /\ \A l, m \in loops : l.token = m.token => l = m
    /\ past = {} => HasLoop

\* The same although connect() has failed: "On failure, try to restore unconnected streams".
RestoredIsHeard == past \subseteq {"connect failed"} => HasLoop

\* The callback of every send() is called, unless close(), a binding that fails or a
\* listener that throws drops the queue it waits in.
SendsAreCalledBack ==
    \A i \in Sends : send[i] # "none" ~> send[i] \in {"called", "dropped"}
=============================================================================
