------------------------------ MODULE NetServer -----------------------------
(* The servers of node:net (builtin/net.js).  A listening server has an      *)
(* accept loop, an async function suspended in accept() on a native          *)
(* listener.  close() cannot end that accept(): it asks the loop to stop by  *)
(* a new token and wakes it with a connection of its own; the loop closes    *)
(* the listener when it ends, and 'close' is emitted once the server has no  *)
(* listener and no connection left.  Paths are emulated by a table from      *)
(* paths to TCP listeners that all servers share.                            *)
(* JavaScript runs to completion: an action is one job of the engine, cut    *)
(* only where it calls the listeners of an event, for these may call the     *)
(* server again.                                                             *)
EXTENDS Integers, Sequences, FiniteSets

CONSTANTS
    Servers, Paths, Clients,
    NoPath, NoLoop,
    Wake,               \* the connection _wakeAcceptLoop makes
    MaxConnections,     \* server.maxConnections, 0 for no limit
    MaxListens,         \* bound: native listeners created
    MaxCloses,          \* bound: close() calls of the program, for each server
    MaxErrors           \* bound: failures of accept() that no close() causes

Listeners == 1 .. MaxListens
None == 0               \* no listener

\* A client that no server has, and an accept loop that goes on or, `ending`,
\* that has reported an error.
Unserved == {"idle", "waiting", "dropped", "closed"}
Loops == [server : Servers, token : Nat, on : Listeners]
Ended == [server : Servers, token : Nat, on : Listeners, ending : BOOLEAN]

ASSUME NetServerAssumption ==
    /\ NoPath \notin Paths /\ Wake \notin Clients /\ NoLoop \notin Ended
    /\ Servers \cap Unserved = {}
    /\ MaxConnections \in Nat /\ MaxListens \in Nat
    /\ MaxCloses \in Nat /\ MaxErrors \in Nat

VARIABLES
    srv,        \* the fields of each Server
    loops,      \* the accept loops suspended in accept()
    running,    \* the accept loop whose event is being emitted
    listener,   \* the state of each native listener
    backlog,    \* the connections each listener has not given out yet
    wakes,      \* the listeners a wake connection is on its way to
    ipc,        \* _ipcListeners: the listener each path leads to
    lookups,    \* the servers whose listen() awaits dns.lookup
    ticks,      \* number of 'close' events of each server in the nextTick queue
    client,     \* what has become of each client
    errors,     \* number of failures so far
    asked,      \* history: number of close() calls on each server
    told,       \* history: number of 'close' events of each server
    mixed,      \* history: servers that listened while they still ran
    renamed,    \* history: servers that took another path while they listened on one
    deaf,       \* history: the accept loops that failed on a listener not closed
    unwoken     \* history: listeners a wake connection did not reach

historyVars == <<asked, told, mixed, renamed, deaf, unwoken>>
vars == <<srv, loops, running, listener, backlog, wakes, ipc, lookups, ticks, client,
          errors, historyVars>>

ServerFields ==
    [handle : Listeners \cup {None}, listening : BOOLEAN, accepting : BOOLEAN,
     token : Nat, active : BOOLEAN, closeRequested : BOOLEAN, unrefed : BOOLEAN,
     path : Paths \cup {NoPath}, connections : Nat]

TypeOK ==
    /\ srv \in [Servers -> ServerFields]
    /\ loops \subseteq Loops
    /\ running = NoLoop \/ running \in Ended
    /\ listener \in [Listeners -> {"unused", "unbound", "open", "closed"}]
    /\ backlog \in [Listeners -> Seq(Clients \cup {Wake})]
    /\ wakes \subseteq Listeners /\ unwoken \subseteq Listeners
    /\ ipc \in [Paths -> Listeners \cup {None}]
    /\ lookups \subseteq Servers /\ mixed \subseteq Servers /\ renamed \subseteq Servers
    /\ deaf \subseteq Servers \X Nat
    /\ ticks \in [Servers -> Nat]
    /\ client \in [Clients -> Unserved \cup Servers]
    /\ errors \in 0 .. MaxErrors
    /\ asked \in [Servers -> Nat] /\ told \in [Servers -> Nat]

Init ==
    /\ srv = [s \in Servers |->
                [handle |-> None, listening |-> FALSE, accepting |-> FALSE, token |-> 0,
                 active |-> FALSE, closeRequested |-> FALSE, unrefed |-> FALSE,
                 path |-> NoPath, connections |-> 0]]
    /\ loops = {} /\ running = NoLoop
    /\ listener = [l \in Listeners |-> "unused"]
    /\ backlog = [l \in Listeners |-> <<>>]
    /\ wakes = {} /\ lookups = {} /\ ticks = [s \in Servers |-> 0]
    /\ ipc = [p \in Paths |-> None]
    /\ client = [c \in Clients |-> "idle"]
    /\ errors = 0
    /\ asked = [s \in Servers |-> 0] /\ told = [s \in Servers |-> 0]
    /\ mixed = {} /\ renamed = {} /\ deaf = {} /\ unwoken = {}

\* The server listens, or an accept loop of it has not ended.
StillRuns(s) ==
    \/ srv[s].listening
    \/ \E x \in loops : x.server = s
    \/ running # NoLoop /\ running.server = s

-----------------------------------------------------------------------------
\* The listener that create_tcp_listener returns.
Unused == {l \in Listeners : listener[l] = "unused"}
NextListener == CHOOSE l \in Unused : TRUE

\* Faulty variant: an earlier close() still counts.
DoListenKeepingRequest(s, r) ==
    LET new == NextListener IN
    /\ Unused # {}
    /\ listener' = [listener EXCEPT ![new] = "open"]
    /\ srv' = [srv EXCEPT ![s] =
                [r EXCEPT !.handle = new, !.listening = TRUE, !.accepting = TRUE,
                          !.token = @ + 1, !.active = TRUE]]
    /\ loops' = loops \cup {[server |-> s, token |-> r.token + 1, on |-> new]}
    /\ mixed' = IF StillRuns(s) THEN mixed \cup {s} ELSE mixed

\* doListen and doIpcListen: a listener, a token and an accept loop of its own.
DoListen(s, r) ==
    LET new == NextListener IN
    /\ Unused # {}
    /\ listener' = [listener EXCEPT ![new] = "open"]
    /\ srv' = [srv EXCEPT ![s] =
                [r EXCEPT !.handle = new, !.listening = TRUE, !.accepting = TRUE,
                          !.closeRequested = FALSE, !.token = @ + 1, !.active = TRUE]]
    /\ loops' = loops \cup {[server |-> s, token |-> r.token + 1, on |-> new]}
    /\ mixed' = IF StillRuns(s) THEN mixed \cup {s} ELSE mixed

\* bind or listen fails: the new listener is in _handle already.
DoListenFails(s, r) ==
    /\ Unused # {}
    /\ listener' = [listener EXCEPT ![NextListener] = "unbound"]
    /\ srv' = [srv EXCEPT ![s] = [r EXCEPT !.handle = NextListener]]
    /\ mixed' = IF StillRuns(s) THEN mixed \cup {s} ELSE mixed
    /\ UNCHANGED loops

netVars == <<running, backlog, wakes, ticks, client, errors, asked, told, deaf, unwoken>>

\* listen() with an address: a second one throws.
Listen(s) ==
    /\ ~srv[s].listening
    /\ DoListen(s, srv[s]) \/ DoListenFails(s, srv[s])
    /\ UNCHANGED <<ipc, lookups, renamed, netVars>>

\* listen() with a host name looks at `listening` before the lookup only.
ListenByName(s) ==
    /\ ~srv[s].listening
    /\ s \notin lookups
    /\ lookups' = lookups \cup {s}
    /\ UNCHANGED <<srv, loops, listener, ipc, mixed, renamed, netVars>>

\* The lookup's callback; when it fails it emits 'error' at once.
LookupReturns(s) ==
    /\ s \in lookups
    /\ running = NoLoop
    /\ lookups' = lookups \ {s}
    /\ \/ DoListen(s, srv[s]) \/ DoListenFails(s, srv[s])
       \/ UNCHANGED <<srv, loops, listener, mixed>>
    /\ UNCHANGED <<ipc, renamed, netVars>>

\* listen() with a path does not look at `listening`, and names the server after the
\* path before it finds the path taken or its directory missing.
ListenOnPath(s, p) ==
    LET named == [srv[s] EXCEPT !.path = p] IN
    /\ \/ /\ srv' = [srv EXCEPT ![s] = named]
          /\ UNCHANGED <<loops, listener, ipc, mixed>>
       \/ ipc[p] = None /\ DoListen(s, named) /\ ipc' = [ipc EXCEPT ![p] = NextListener]
       \/ ipc[p] = None /\ DoListenFails(s, named) /\ UNCHANGED ipc
    /\ renamed' = IF srv[s].listening /\ srv[s].path \notin {NoPath, p}
                  THEN renamed \cup {s} ELSE renamed
    /\ UNCHANGED <<lookups, netVars>>

-----------------------------------------------------------------------------
\* _maybeEmitClose, and the nextTick queue after it.
Drained(r) == ~r.listening /\ r.handle = None /\ r.connections = 0

MaybeEmitClose(queue, s, r) ==
    IF Drained(r) THEN [queue EXCEPT ![s] = @ + 1] ELSE queue

\* Faulty variant: the accept loop keeps its right to the next connection.
ClosedWithoutToken(r) ==
    [r EXCEPT !.accepting = FALSE, !.listening = FALSE, !.path = NoPath,
              !.closeRequested = TRUE, !.handle = IF r.active THEN @ ELSE None]

\* The fields close() sets: the listener goes now only if no accept loop runs.
Closed(r) ==
    [r EXCEPT !.accepting = FALSE, !.token = @ + 1, !.listening = FALSE, !.path = NoPath,
              !.closeRequested = TRUE, !.handle = IF r.active THEN @ ELSE None]

CloseHandle(l) ==
    listener' = IF l = None THEN listener ELSE [listener EXCEPT ![l] = "closed"]

\* Faulty variant: nothing wakes the accept loop.
DoCloseWithoutWake(s, r) ==
    /\ srv' = [srv EXCEPT ![s] = Closed(r)]
    /\ CloseHandle(IF r.active THEN None ELSE r.handle)
    /\ ipc' = IF r.path = NoPath THEN ipc ELSE [ipc EXCEPT ![r.path] = None]
    /\ asked' = [asked EXCEPT ![s] = @ + 1]
    /\ UNCHANGED wakes

\* close() on a server with the fields r.
DoClose(s, r) ==
    /\ srv' = [srv EXCEPT ![s] = Closed(r)]
    /\ CloseHandle(IF r.active THEN None ELSE r.handle)
    /\ wakes' = IF r.active /\ r.handle # None /\ listener[r.handle] = "open"
                THEN wakes \cup {r.handle} ELSE wakes
    /\ ipc' = IF r.path = NoPath THEN ipc ELSE [ipc EXCEPT ![r.path] = None]
    /\ asked' = [asked EXCEPT ![s] = @ + 1]

Close(s) ==
    /\ asked[s] < MaxCloses
    /\ DoClose(s, srv[s])
    /\ ticks' = MaybeEmitClose(ticks, s, Closed(srv[s]))
    /\ UNCHANGED <<loops, running, backlog, lookups, client, errors, told, mixed, renamed,
                   deaf, unwoken>>

\* unref() and ref().
SetUnrefed(s, on) ==
    /\ srv[s].unrefed # on
    /\ srv' = [srv EXCEPT ![s].unrefed = on]
    /\ UNCHANGED <<loops, running, listener, backlog, wakes, ipc, lookups, ticks, client,
                   errors, historyVars>>

-----------------------------------------------------------------------------
\* A listener nothing refers to any more is freed with its connections.
Referenced(l) ==
    \/ \E s \in Servers : srv[s].handle = l
    \/ \E x \in loops : x.on = l

connectUnchanged == <<srv, loops, running, listener, ipc, lookups, ticks, errors, asked, told,
                      mixed, renamed, deaf>>

ClientConnects(c, l) ==
    /\ client[c] = "idle" /\ listener[l] = "open" /\ Referenced(l)
    /\ client' = [client EXCEPT ![c] = "waiting"]
    /\ backlog' = [backlog EXCEPT ![l] = Append(@, c)]
    /\ UNCHANGED <<wakes, unwoken, connectUnchanged>>

\* The wake connection is "best effort only".
WakeEnds(l) ==
    /\ l \in wakes
    /\ wakes' = wakes \ {l}
    /\ \/ /\ listener[l] = "open" /\ Referenced(l)
          /\ backlog' = [backlog EXCEPT ![l] = Append(@, Wake)]
          /\ UNCHANGED unwoken
       \/ unwoken' = unwoken \cup {l} /\ UNCHANGED backlog
    /\ UNCHANGED <<client, connectUnchanged>>

\* The end of _acceptLoop, with its finally block.
LoopEnds(s) ==
    LET r == srv[s]
        last == [r EXCEPT !.active = FALSE,
                          !.handle = IF r.closeRequested THEN None ELSE @]
    IN /\ srv' = [srv EXCEPT ![s] = last]
       /\ CloseHandle(IF r.closeRequested THEN r.handle ELSE None)
       /\ ticks' = MaybeEmitClose(ticks, s, last)

\* Faulty variant: the token is not compared.
NeverStale(x) == FALSE

\* close() or another listen() has come since the loop began.
Stale(x) == x.token # srv[x.server].token

loopUnchanged == <<wakes, ipc, lookups, asked, told, mixed, renamed, unwoken>>

\* accept() returns a connection: it is refused, dropped, or announced.
Accepts(x) ==
    LET s == x.server
        full == MaxConnections # 0 /\ srv[s].connections >= MaxConnections
        c == Head(backlog[x.on])
        Becomes(f) == client' = IF c = Wake THEN client ELSE [client EXCEPT ![c] = f]
    IN
    /\ running = NoLoop /\ x \in loops
    /\ listener[x.on] = "open" /\ backlog[x.on] # <<>>
    /\ loops' = loops \ {x}
    /\ backlog' = [backlog EXCEPT ![x.on] = Tail(@)]
    /\ \/ /\ Stale(x)
          /\ Becomes("dropped") /\ LoopEnds(s)
          /\ UNCHANGED running
       \/ /\ ~Stale(x)
          /\ running' = [server |-> s, token |-> x.token, on |-> x.on, ending |-> FALSE]
          /\ IF full
             THEN Becomes("dropped") /\ UNCHANGED srv
             ELSE Becomes(s) /\ srv' = [srv EXCEPT ![s].connections = @ + 1]
          /\ UNCHANGED <<listener, ticks>>
    /\ UNCHANGED <<errors, deaf, loopUnchanged>>

\* accept() rejects: the listener is closed or was never bound, or accept() fails by
\* itself.
AcceptFails(x) ==
    LET s == x.server IN
    /\ running = NoLoop /\ x \in loops
    /\ loops' = loops \ {x}
    /\ \/ listener[x.on] # "open" /\ UNCHANGED errors
       \/ listener[x.on] = "open" /\ errors < MaxErrors /\ errors' = errors + 1
    /\ IF Stale(x)
       THEN LoopEnds(s) /\ UNCHANGED <<running, deaf>>
       ELSE /\ running' = [server |-> s, token |-> x.token, on |-> x.on, ending |-> TRUE]
            /\ deaf' = IF listener[x.on] = "closed" THEN deaf
                       ELSE deaf \cup {<<s, x.token>>}
            /\ UNCHANGED <<srv, listener, ticks>>
    /\ UNCHANGED <<backlog, client, loopUnchanged>>

\* The listeners of 'connection' or 'drop' return, and the loop goes on if it may;
\* those of 'error' return or throw, and it ends.
ListenersReturn ==
    LET s == running.server
        more == ~running.ending /\ srv[s].accepting /\ srv[s].handle # None
                /\ ~Stale(running)
    IN
    /\ running # NoLoop
    /\ running' = NoLoop
    /\ IF more
       THEN /\ loops' = loops \cup
                  {[server |-> s, token |-> running.token, on |-> srv[s].handle]}
            /\ UNCHANGED <<srv, listener, ticks>>
       ELSE LoopEnds(s) /\ UNCHANGED loops
    /\ UNCHANGED <<backlog, client, errors, deaf, loopUnchanged>>

\* A listener of 'connection' or 'drop' throws: the loop takes it for an error of
\* accept().
ListenerThrows ==
    LET s == running.server IN
    /\ running # NoLoop /\ ~running.ending
    /\ IF Stale(running)
       THEN running' = NoLoop /\ LoopEnds(s) /\ UNCHANGED deaf
       ELSE /\ running' = [running EXCEPT !.ending = TRUE]
            /\ deaf' = deaf \cup {<<s, srv[s].token>>}
            /\ UNCHANGED <<srv, listener, ticks>>
    /\ UNCHANGED <<loops, backlog, client, errors, loopUnchanged>>

\* The 'close' listener _acceptLoop adds to a socket; an unref'd server closes
\* itself with its last connection.
SocketCloses(c) ==
    LET s == client[c]
        left == [srv[s] EXCEPT !.connections = @ - 1]
    IN
    /\ running = NoLoop
    /\ client[c] \in Servers
    /\ client' = [client EXCEPT ![c] = "closed"]
    /\ IF left.unrefed /\ left.connections = 0 /\ left.listening
       THEN /\ DoClose(s, left)
            /\ ticks' = MaybeEmitClose(MaybeEmitClose(ticks, s, Closed(left)), s, Closed(left))
       ELSE /\ srv' = [srv EXCEPT ![s] = left]
            /\ ticks' = MaybeEmitClose(ticks, s, left)
            /\ UNCHANGED <<listener, wakes, ipc, asked>>
    /\ UNCHANGED <<loops, running, backlog, lookups, errors, told, mixed, renamed, deaf,
                   unwoken>>

\* The nextTick callback that emits 'close'.
EmitClose(s) ==
    /\ running = NoLoop /\ ticks[s] > 0
    /\ ticks' = [ticks EXCEPT ![s] = @ - 1]
    /\ told' = [told EXCEPT ![s] = @ + 1]
    /\ UNCHANGED <<srv, loops, running, listener, backlog, wakes, ipc, lookups, client,
                   errors, asked, mixed, renamed, deaf, unwoken>>

-----------------------------------------------------------------------------
UserCalls(s) ==
    \/ Listen(s) \/ ListenByName(s) \/ Close(s)
    \/ \E p \in Paths : ListenOnPath(s, p)
    \/ \E on \in BOOLEAN : SetUnrefed(s, on)

LoopStep(x) == Accepts(x) \/ AcceptFails(x)

Next ==
    \/ \E s \in Servers : UserCalls(s) \/ LookupReturns(s) \/ EmitClose(s)
    \/ \E c \in Clients : SocketCloses(c) \/ \E l \in Listeners : ClientConnects(c, l)
    \/ \E l \in Listeners : WakeEnds(l)
    \/ \E x \in loops : LoopStep(x)
    \/ ListenersReturn \/ ListenerThrows

Spec == Init /\ [][Next]_vars

(* The executor polls every pending future and drains the nextTick queue; a  *)
(* connection to the own listener is made or fails; the listeners of an      *)
(* event return or throw.  That connections end is the assumption 'close'    *)
(* is about.                                                                 *)
FairSpec ==
    /\ Spec
    /\ \A s \in Servers : WF_vars(EmitClose(s))
    /\ \A s \in Servers : WF_vars(\E x \in loops : x.server = s /\ LoopStep(x))
    /\ \A l \in Listeners : WF_vars(WakeEnds(l))
    /\ WF_vars(ListenersReturn \/ ListenerThrows)
    /\ \A c \in Clients : WF_vars(SocketCloses(c))

-----------------------------------------------------------------------------
(* A listening server hears its clients: an accept loop with its token is    *)
(* suspended, or emits an event, until an accept() of this loop fails or a   *)
(* listener throws into it.  The loops of earlier listen() calls that still  *)
(* end, and close or forget listeners, cannot take it away.                  *)
HearsWhileListening ==
    \A s \in Servers : srv[s].listening /\ <<s, srv[s].token>> \notin deaf =>
        \/ \E x \in loops : x.server = s /\ x.token = srv[s].token
        \/ running # NoLoop /\ running.server = s /\ running.token = srv[s].token

(* _connections is the number of sockets that were announced and have not    *)
(* closed: what maxConnections and 'close' go by.  No wake connection is     *)
(* ever counted.                                                             *)
CountIsExact ==
    /\ TypeOK
    /\ \A s \in Servers : srv[s].connections = Cardinality({c \in Clients : client[c] = s})

(* No more 'close' events than close() calls, the queued ones included, for  *)
(* a server that has not listened while it still ran and whose loop has not  *)
(* failed (unref'd, such a server may close itself with two events).         *)
CloseOnce ==
    \A s \in Servers :
        \/ told[s] + ticks[s] <= asked[s]
        \/ s \in mixed
        \/ \E d \in deaf : d[1] = s

(* A path leads to the listener of the server that listens on it, and to     *)
(* none once this server is closed; a server that listened while it still    *)
(* ran, or failed to listen on a second path, can leave an entry behind.     *)
PathsLeadToServers ==
    \A p \in Paths : ipc[p] # None =>
        \E s \in Servers :
            \/ s \in mixed \cup renamed
            \/ srv[s].listening /\ srv[s].path = p /\ srv[s].handle = ipc[p]

\* A client that connects to a port or a path reaches the server that listens there.
ClientsReachServers == HearsWhileListening /\ PathsLeadToServers

\* The connections, and the 'close' event that waits for their end, are counted exactly.
CountsAgree == CountIsExact /\ CloseOnce

(* 'connection' is emitted only by a server that listens, whatever comes out *)
(* of an accept() that began before close().                                 *)
ServesWhileOpen ==
    [][\A c \in Clients, s \in Servers :
        client[c] # s /\ client'[c] = s => srv[s].listening]_vars

\* The wake connection of an accept loop got lost, or a failed listen() left its
\* listener in _handle.
Stuck(s) ==
    \/ \E x \in loops : x.server = s /\ x.on \in unwoken
    \/ srv[s].handle # None /\ listener[srv[s].handle] = "unbound"

(* An open server serves, and one that was closed and has still to end its   *)
(* accept loop or its connections queues its 'close' event in the end,       *)
(* unless it listens again or its loop cannot be woken.                      *)
CloseIsAnnounced ==
    /\ ServesWhileOpen
    /\ \A s \in Servers :
        srv[s].closeRequested /\ (srv[s].active \/ srv[s].connections > 0)
            ~> ticks[s] > 0 \/ srv[s].listening \/ Stuck(s)
=============================================================================
