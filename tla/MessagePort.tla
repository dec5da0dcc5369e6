------------------------------ MODULE MessagePort ------------------------------
(* The two ports of a MessageChannel (builtin/worker_threads.js).  A message  *)
(* is queued at the other port and handed to its listeners by a microtask;    *)
(* close() takes effect for new messages at once and for the listeners in a   *)
(* microtask; moveMessagePortToContext() puts a proxy in a port's place, which *)
(* only ever reports errors.                                                  *)
EXTENDS JobQueue

CONSTANT MaxMessages    \* bound: messages posted

Ports == 1 .. 2
Other(p) == 3 - p
Messages == 1 .. MaxMessages

VARIABLES
    port,       \* the fields of each port; _target is the peer, its proxy or null
    proxy,      \* the proxy that took each port's place; got is history, the messages queued there
    posted,     \* history: the messages queued at each port
    handed,     \* history: those its listeners were given
    closes,     \* history: number of 'close' events of each port
    threw       \* history: the ports a listener of which has thrown

portVars == <<port, proxy, posted, handed, closes, threw>>

PortsInit ==
    /\ port = [p \in Ports |-> [target |-> "peer", queue |-> <<>>, draining |-> FALSE,
                                pendingClose |-> FALSE, closed |-> FALSE]]
    /\ proxy = [p \in Ports |-> [queue |-> 0, got |-> 0, draining |-> FALSE, closed |-> FALSE]]
    /\ posted = [p \in Ports |-> <<>>] /\ handed = [p \in Ports |-> <<>>]
    /\ closes = [p \in Ports |-> 0] /\ threw = {}

PortsTypeOK ==
    /\ port \in [Ports -> [target : {"peer", "proxy", "none"}, queue : Seq(Messages),
                           draining : BOOLEAN, pendingClose : BOOLEAN, closed : BOOLEAN]]
    /\ proxy \in [Ports -> [queue : Nat, got : Nat, draining : BOOLEAN, closed : BOOLEAN]]
    /\ posted \in [Ports -> Seq(Messages)] /\ handed \in [Ports -> Seq(Messages)]
    /\ closes \in [Ports -> Nat] /\ threw \subseteq Ports

DrainOf(p) == [what |-> "drain", of |-> p]
CloseOf(p, both) == [what |-> "close", of |-> p, both |-> both]
ProxyDrainOf(p) == [what |-> "proxyDrain", of |-> p]
ProxyCloseOf(p) == [what |-> "proxyClose", of |-> p]
MessageOf(p) == [what |-> "message", of |-> p]
ClosedOf(p, both) == [what |-> "closed", of |-> p, both |-> both]
ErrorOf(p) == [what |-> "messageerror", of |-> p]

Shut(p) == port[p].closed \/ port[p].pendingClose
PostedCount == Len(posted[1]) + Len(posted[2]) + proxy[1].got + proxy[2].got

\* Faulty variant: a drain is queued only when the queue was empty.
EnqueueDeliveryWhenEmpty(p, m) ==
    /\ port' = [port EXCEPT ![p].queue = Append(@, m), ![p].draining = TRUE]
    /\ posted' = [posted EXCEPT ![p] = Append(@, m)]
    /\ jobs' = IF port[p].queue # <<>> THEN jobs ELSE Append(jobs, DrainOf(p))

\* _enqueueDelivery at port p, which is not shut: its peer is not.
EnqueueDelivery(p, m) ==
    /\ port' = [port EXCEPT ![p].queue = Append(@, m), ![p].draining = TRUE]
    /\ posted' = [posted EXCEPT ![p] = Append(@, m)]
    /\ jobs' = IF port[p].draining THEN jobs ELSE Append(jobs, DrainOf(p))

\* postMessage() on port p.
PostMessage(p) ==
    /\ InProgram /\ ~Shut(p) /\ PostedCount < MaxMessages
    /\ \/ /\ port[p].target = "peer"
          /\ IF Shut(Other(p)) THEN UNCHANGED <<port, posted, jobs>>
             ELSE EnqueueDelivery(Other(p), PostedCount + 1)
          /\ UNCHANGED proxy
       \/ /\ port[p].target = "proxy" /\ ~proxy[Other(p)].closed
          /\ proxy' = [proxy EXCEPT ![Other(p)].queue = @ + 1, ![Other(p)].got = @ + 1,
                                    ![Other(p)].draining = TRUE]
          /\ jobs' = IF proxy[Other(p)].draining THEN jobs
                     ELSE Append(jobs, ProxyDrainOf(Other(p)))
          /\ UNCHANGED <<port, posted>>
    /\ UNCHANGED <<handed, closes, threw, running>>

\* Faulty variant: the ports are closed, and 'close' is emitted, at once.
ClosePortNow(p) ==
    /\ InProgram /\ ~Shut(p)
    /\ port' = [q \in Ports |-> IF q = p \/ port[p].target = "peer"
                    THEN [port[q] EXCEPT !.closed = TRUE, !.target = "none"] ELSE port[q]]
    /\ closes' = [q \in Ports |->
                    IF q = p \/ port[p].target = "peer" THEN closes[q] + 1 ELSE closes[q]]
    /\ UNCHANGED <<proxy, posted, handed, threw, queueVars>>

\* close() on port p; both says whether the other port closes with it.
ClosePort(p) ==
    LET both == port[p].target = "peer" IN
    /\ InProgram /\ ~Shut(p)
    /\ port' = [q \in Ports |-> IF q = p \/ both THEN [port[q] EXCEPT !.pendingClose = TRUE]
                                ELSE port[q]]
    /\ jobs' = Append(jobs, CloseOf(p, both))
    /\ UNCHANGED <<proxy, posted, handed, closes, threw, running>>

\* moveMessagePortToContext(): the peer now posts to the proxy.
Move(p) ==
    /\ InProgram /\ ~Shut(p) /\ port[p].target # "none"
    /\ port' = [q \in Ports |->
                    IF q = p THEN [port[q] EXCEPT !.target = "none"]
                    ELSE IF port[p].target = "peer" THEN [port[q] EXCEPT !.target = "proxy"]
                    ELSE port[q]]
    /\ UNCHANGED <<proxy, posted, handed, closes, threw, queueVars>>

CloseProxy(p) ==
    /\ InProgram /\ ~proxy[p].closed /\ port[Other(p)].target = "proxy"
    /\ proxy' = [proxy EXCEPT ![p].closed = TRUE]
    /\ jobs' = Append(jobs, ProxyCloseOf(p))
    /\ UNCHANGED <<port, posted, handed, closes, threw, running>>

\* One turn of the loop that drains port p: the next message goes to the listeners.
DrainTurn(p) ==
    IF port[p].queue # <<>>
    THEN /\ port' = [port EXCEPT ![p].queue = Tail(@)]
         /\ handed' = [handed EXCEPT ![p] = Append(@, Head(port[p].queue))]
         /\ running' = MessageOf(p)
    ELSE /\ port' = [port EXCEPT ![p].draining = FALSE]
         /\ running' = NoJob
         /\ UNCHANGED handed

RunDrain ==
    /\ Begins("drain")
    /\ DrainTurn(Head(jobs).of)
    /\ jobs' = Tail(jobs)
    /\ UNCHANGED <<proxy, posted, closes, threw>>

MessageReturns ==
    /\ running.what = "message"
    /\ DrainTurn(running.of)
    /\ UNCHANGED <<jobs, proxy, posted, closes, threw>>

\* A listener that throws ends the job; nothing resets #draining.
MessageThrows ==
    /\ running.what = "message"
    /\ running' = NoJob
    /\ threw' = threw \cup {running.of}
    /\ UNCHANGED <<jobs, port, proxy, posted, handed, closes>>

\* The ports are closed, and 'close' goes to the listeners of the one, then of the other.
RunClose ==
    LET p == Head(jobs).of
        both == Head(jobs).both
    IN
    /\ Begins("close")
    /\ port' = [q \in Ports |-> IF q = p \/ both
                    THEN [port[q] EXCEPT !.closed = TRUE, !.target = "none"] ELSE port[q]]
    /\ closes' = [closes EXCEPT ![p] = @ + 1]
    /\ running' = ClosedOf(p, both)
    /\ jobs' = Tail(jobs)
    /\ UNCHANGED <<proxy, posted, handed, threw>>

CloseReturns ==
    /\ running.what = "closed"
    /\ IF running.both
       THEN /\ closes' = [closes EXCEPT ![Other(running.of)] = @ + 1]
            /\ running' = ClosedOf(Other(running.of), FALSE)
       ELSE running' = NoJob /\ UNCHANGED closes
    /\ UNCHANGED <<jobs, port, proxy, posted, handed, threw>>

CloseThrows ==
    /\ running.what = "closed"
    /\ running' = NoJob
    /\ threw' = threw \cup {running.of}
    /\ UNCHANGED <<jobs, port, proxy, posted, handed, closes>>

\* The proxy drains: a 'messageerror' for each message.
ProxyTurn(p) ==
    IF proxy[p].queue > 0
    THEN proxy' = [proxy EXCEPT ![p].queue = @ - 1] /\ running' = ErrorOf(p)
    ELSE proxy' = [proxy EXCEPT ![p].draining = FALSE] /\ running' = NoJob

RunProxyDrain ==
    /\ Begins("proxyDrain")
    /\ ProxyTurn(Head(jobs).of)
    /\ jobs' = Tail(jobs)
    /\ UNCHANGED <<port, posted, handed, closes, threw>>

ErrorReturns ==
    /\ running.what = "messageerror"
    /\ ProxyTurn(running.of)
    /\ UNCHANGED <<jobs, port, posted, handed, closes, threw>>

\* 'close' of a proxy, which nothing here depends on.
RunProxyClose ==
    /\ Begins("proxyClose")
    /\ jobs' = Tail(jobs)
    /\ UNCHANGED <<running, portVars>>

PortsNext ==
    \/ RunDrain \/ MessageReturns \/ MessageThrows
    \/ RunClose \/ CloseReturns \/ CloseThrows
    \/ RunProxyDrain \/ ErrorReturns \/ RunProxyClose
    \/ \E p \in Ports : PostMessage(p) \/ ClosePort(p) \/ Move(p) \/ CloseProxy(p)

-----------------------------------------------------------------------------
(* Properties.                                                                *)

\* Every message queued at a port is handed over once, in the order of posting, or waits
\* with a drain to come: #draining is set exactly then, unless a listener has thrown.
DrainComes ==
    /\ \A p \in Ports :
        /\ posted[p] = handed[p] \o port[p].queue
        /\ port[p].queue # <<>> => port[p].draining
        /\ p \notin threw =>
            (port[p].draining <=> DrainOf(p) \in ToSet(jobs) \/ running = MessageOf(p))

\* "Already-queued messages must still drain after close()": what was queued is handed
\* over before a 'close' event, the last thing a port hears and hears once, unless a
\* listener has thrown.
CloseComesLast ==
    \A p \in Ports \ threw :
        /\ closes[p] <= 1
        /\ port[p].closed => port[p].queue = <<>> /\ ~port[p].draining
        /\ \A i, j \in 1 .. Len(jobs) :
            jobs[i].what = "close" /\ jobs[j] = DrainOf(p)
                /\ (jobs[i].of = p \/ jobs[i].both) => j < i

\* What the ports hand over and when they close.
PortsDeliver == DrainComes /\ CloseComesLast
=============================================================================
