----------------------------- MODULE MCBuiltins -----------------------------
(* The builtin modules that keep to themselves, in one run: a program uses   *)
(* the one that part names, and the others stay as they are after import.    *)
(* The HTTP requests are to one host, or to two that share one slot.         *)
EXTENDS NextTick, FiniteSets, TLC

CONSTANTS
    r1, r2, n1, n2,
    Requests, Names, Settings, Writers, MaxWrites, HighWater,
    Sends, MaxConnects, MaxDatagrams,
    Apis, MaxMessages,
    Tests, Suites, None

TwoRequests == {r1, r2}
TwoNames == {n1, n2}
OneWriter == {r1}
OneHost == r1 :> n1 @@ r2 :> n1
TwoHosts == r1 :> n1 @@ r2 :> n2

Setting(sockets, total, name, destroys) ==
    [maxSockets |-> sockets, maxTotal |-> total, maxFree |-> 1, name |-> name, destroys |-> destroys]

SomeSettings ==
    {Setting(1, 2, OneHost, {"requests"}), Setting(1, 2, OneHost, {"agent"}),
     Setting(1, 2, OneHost, {"sockets"}), Setting(2, 1, TwoHosts, {"requests"})}

ASSUME Bounds ==
    /\ MaxWrites \in Nat /\ HighWater \in Nat \ {0}
    /\ IsFiniteSet(Sends) /\ MaxConnects \in Nat /\ MaxDatagrams \in Nat
    /\ Apis \subseteq {"events", "stream"} /\ MaxMessages \in Nat
    /\ Tests \cap Suites = {} /\ None \notin Tests \cup Suites
    /\ MaxTimers \in Nat /\ MaxWakeups \in Nat

VARIABLES
    part,
    setting, todo, ticks, req, pc, native, count, queue, inUse, free, dead, socketOf, emptied,
    js, dgramQueue, bound, generation, binding, connecting, send, loops, dgramTodo, arrived,
    bounds, past,
    api, busy, wsTodo, connect, readyState, connection, inner, receive, sent, ended, got,
    events, early, opened, closed, controller,
    concurrent, file, calls, currentSuite, tests, idx, waits, outcome, failures, finalized,
    pending, batch

httpVars == <<setting, todo, ticks, req, pc, native, count, queue, inUse, free, dead, socketOf,
              emptied>>
dgramVars == <<js, dgramQueue, bound, generation, binding, connecting, send, loops, dgramTodo,
               arrived, bounds, past>>
webSocketVars == <<api, busy, wsTodo, connect, readyState, connection, inner, receive, sent,
                   ended, got, events, early, opened, closed, controller>>
testVars == <<concurrent, file, calls, currentSuite, tests, idx, waits, outcome, failures,
              finalized, pending, batch>>

Http == INSTANCE HttpClientProof    \* HttpClient, with what is proved about it
Dgram == INSTANCE Dgram WITH queue <- dgramQueue, todo <- dgramTodo
WebSocket == INSTANCE WebSocket WITH todo <- wsTodo
TestRunner == INSTANCE TestRunner WITH stack <- calls

PartsInit ==
    /\ part \in {"http", "dgram", "websocket", "test", "nexttick"}
    /\ Http!Init /\ Dgram!Init /\ WebSocket!Init /\ TestRunner!Init /\ Init
    /\ part # "http" => setting = CHOOSE x \in Settings : TRUE
    /\ part # "websocket" => api = CHOOSE x \in Apis : TRUE
    /\ part # "test" => concurrent = {}

PartsNext ==
    \/ /\ part = "http" /\ Http!Next
       /\ UNCHANGED <<part, dgramVars, webSocketVars, testVars, vars>>
    \/ /\ part = "dgram" /\ Dgram!Next
       /\ UNCHANGED <<part, httpVars, webSocketVars, testVars, vars>>
    \/ /\ part = "websocket" /\ WebSocket!Next
       /\ UNCHANGED <<part, httpVars, dgramVars, testVars, vars>>
    \/ /\ part = "test" /\ TestRunner!Next
       /\ UNCHANGED <<part, httpVars, dgramVars, webSocketVars, vars>>
    \/ /\ part = "nexttick" /\ Next
       /\ UNCHANGED <<part, httpVars, dgramVars, webSocketVars, testVars>>

\* The fairness of each module (its FairSpec), of the one that is used.
PartsFairness ==
    /\ WF_httpVars(part = "http" /\ Http!Job)
    /\ WF_dgramVars(part = "dgram" /\ Dgram!Runs)
    /\ WF_dgramVars(part = "dgram" /\ Dgram!Host)
    /\ WF_dgramVars(part = "dgram" /\ Dgram!Binds)
    /\ WF_dgramVars(part = "dgram" /\ Dgram!Connects)
    /\ \A i \in Sends :
        /\ WF_dgramVars(part = "dgram" /\ Dgram!SendGoesOn(i))
        /\ WF_dgramVars(part = "dgram" /\ Dgram!NativeSend(i))
    /\ WF_webSocketVars(part = "websocket" /\ WebSocket!Runs)
    /\ SF_webSocketVars(part = "websocket" /\ WebSocket!Jobs)
    /\ WF_webSocketVars(part = "websocket" /\ WebSocket!NativeReceive)
    /\ WF_testVars(part = "test" /\ TestRunner!Job)
    /\ WF_vars(part = "nexttick" /\ Job)

PartsSpec ==
    /\ PartsInit
    /\ [][PartsNext]_<<part, httpVars, dgramVars, webSocketVars, testVars, vars>>
    /\ PartsFairness

-----------------------------------------------------------------------------
(* The properties of the modules, beside those of NextTick; each holds of a   *)
(* module that is not used.                                                   *)

\* The agent of node:http counts its requests and their sockets exactly.
AgentIsExact == Http!AgentIsExact
\* A destroyed request gets no response.
ResponseIsWanted == Http!ResponseIsWanted
\* A request that was ended or destroyed comes to its 'close'.
RequestsClose == Http!RequestsClose
\* A bound datagram socket has its one receive loop.
HearsWhileBound == Dgram!HearsWhileBound
\* The callback of every send() of a datagram is called, or dropped with its queue.
SendsAreCalledBack == Dgram!SendsAreCalledBack
\* A web socket tells what its peer did, in order, and its end once.
HearsInOrder == WebSocket!HearsInOrder
\* The end the peer makes of a web socket is announced.
EndIsAnnounced == WebSocket!EndIsAnnounced
\* A test file that passes has no test that failed or did not end, and a sequential suite
\* runs its tests one by one, and its after hooks last.
TestsPassInOrder == TestRunner!TestsPassInOrder
\* The test harness answers.
HarnessAnswers == TestRunner!HarnessAnswers
=============================================================================
