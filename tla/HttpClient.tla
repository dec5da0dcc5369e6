------------------------------ MODULE HttpClient ------------------------------
(* The HTTP client (builtin/node_http.js over node_http.rs): the requests a   *)
(* program makes through one Agent with finite limits.  The agent admits a    *)
(* request when a slot is free; the request then writes its body, gets a mock *)
(* socket from the agent's pool, finishes its body and waits for the response *)
(* in calls to the native request, which the host answers (external).         *)
(* JavaScript runs in turns; `todo` holds the steps of the turn in progress.  *)
(* The program acts between any two steps, in a listener or a turn of its     *)
(* own; an event is not a step, but what follows its listeners is.            *)
EXTENDS Integers, FiniteSets, Sequences, SequencesExt

CONSTANTS
    Requests,       \* the requests; a mock socket has the name of the one it was made for
    Names,          \* the agent's names of their hosts
    Writers,        \* the requests with a body
    MaxWrites,      \* bound: chunks written to a request
    HighWater,      \* chunks at which write() answers false
    Settings        \* the agent's limits, the name of each request, and what the program
                    \* destroys

NoSocket == "no socket"

VARIABLES
    setting,    \* the element of Settings
    todo,       \* the steps that follow in this turn
    ticks,      \* callbacks of process.nextTick
    req,        \* the fields of each request
    pc,         \* where its _doSend() is
    native,     \* its native request
    count,      \* agent._activeRequestCount
    queue,      \* agent._requestQueue
    inUse,      \* agent.sockets
    free,       \* agent.freeSockets
    dead,       \* the mock sockets that are destroyed
    socketOf,   \* the socket of each request
    emptied     \* history: agent.destroy() was called

vars == <<setting, todo, ticks, req, pc, native, count, queue, inUse, free, dead,
          socketOf, emptied>>
turnVars == <<todo, ticks>>
agentVars == <<count, queue, emptied>>
poolVars == <<inUse, free, dead, socketOf>>

Init ==
    /\ setting \in Settings
    /\ todo = <<>> /\ ticks = <<>>
    /\ req = [r \in Requests |->
                [ended |-> FALSE, destroyed |-> FALSE, deferred |-> FALSE, response |-> FALSE,
                 closed |-> FALSE, keep |-> TRUE, pending |-> 0,
                 needDrain |-> FALSE, flushes |-> 0, loop |-> "none", broken |-> FALSE,
                 thrown |-> FALSE]]
    /\ pc = [r \in Requests |-> "open"]
    /\ native = [r \in Requests |-> [state |-> "created", op |-> "none", answer |-> "none"]]
    /\ count = [n \in Names |-> 0] /\ queue = [n \in Names |-> <<>>]
    /\ inUse = {} /\ free = [n \in Names |-> <<>>] /\ dead = {}
    /\ socketOf = [r \in Requests |-> NoSocket]
    /\ emptied = FALSE

Step(what, r) == [what |-> what, of |-> r]

NameOf == setting.name

Idle == todo = <<>>
\* The next step of the turn, after the listeners that run before it.
Follows(what) == todo # <<>> /\ Head(todo).what = what
InProgram == ~Follows("drain queues")

-----------------------------------------------------------------------------
(* The native request.                                                        *)

\* A call that takes the request mutably until the host has answered.
Call(r, op) == [native[r] EXCEPT !.op = op, !.answer = "pending"]
Answered(r, op) == native[r].op = op /\ native[r].answer \in {"ok", "failed"}
Over(r) == [native[r] EXCEPT !.op = "none", !.answer = "none"]

\* The host answers; a request that was aborted before the call fails.
NativeAnswers(r) ==
    /\ native[r].answer = "pending"
    /\ \/ /\ native[r].state # "aborted"
          /\ native' = [native EXCEPT ![r].answer = "ok",
                ![r].state = CASE native[r].op = "start" -> "started"
                               [] native[r].op = "finish" -> "finished"
                               [] native[r].op = "wait" -> "ready"
                               [] OTHER -> @]
       \/ native' = [native EXCEPT ![r].answer = "failed"]
    /\ UNCHANGED <<turnVars, setting, req, pc, agentVars, poolVars>>

\* _abortNativeRequest(): abort() conflicts with a call that is pending.
AbortNative(r) ==
    IF native[r].answer = "pending" THEN UNCHANGED native
    ELSE native' = [native EXCEPT ![r].state = "aborted"]

-----------------------------------------------------------------------------
(* The agent.                                                                 *)

\* The sum of the counts: the number of slots that are taken.
Total == Cardinality(UNION {{n} \X (1 .. count[n]) : n \in Names})

CanRun(n) == count[n] < setting.maxSockets /\ Total < setting.maxTotal

\* _scheduleRequest(): run(), or wait in the queue of the name.
Schedule(r) ==
    LET n == NameOf[r] IN
    IF CanRun(n)
    THEN /\ count' = [count EXCEPT ![n] = @ + 1]
         /\ pc' = [pc EXCEPT ![r] = "called"]
         /\ UNCHANGED queue
    ELSE /\ queue' = [queue EXCEPT ![n] = Append(@, r)]
         /\ pc' = [pc EXCEPT ![r] = "queued"]
         /\ UNCHANGED count

\* The end of a request whose _doSend() is over, its socket given back or not.
AfterSend(r) == IF pc[r] = "settled" THEN "done" ELSE "lost"

\* Faulty variant: only a request that was not destroyed gives its slot back.
FinallyUnlessDestroyed(r) ==
    LET n == NameOf[r] IN
    /\ Idle /\ pc[r] \in {"settled", "stranded"}
    /\ pc' = [pc EXCEPT ![r] = AfterSend(r)]
    /\ count' = [count EXCEPT ![n] = IF @ > 0 /\ ~req[r].destroyed THEN @ - 1 ELSE @]
    /\ todo' = <<Step("drain queues", r)>>
    /\ UNCHANGED <<ticks, setting, req, native, queue, emptied, poolVars>>

\* The `finally` of the request's promise gives the slot back and drains the queues; after
\* destroy() the count may be another's, or none.
Finally(r) ==
    LET n == NameOf[r] IN
    /\ Idle /\ pc[r] \in {"settled", "stranded"}
    /\ pc' = [pc EXCEPT ![r] = AfterSend(r)]
    /\ count' = [count EXCEPT ![n] = IF @ > 0 THEN @ - 1 ELSE 0]
    /\ todo' = <<Step("drain queues", r)>>
    /\ UNCHANGED <<ticks, setting, req, native, queue, emptied, poolVars>>

\* Faulty variant: one request is taken from the queues, of the same name.
DrainQueuesOfName ==
    /\ Follows("drain queues")
    /\ LET n == NameOf[Head(todo).of] IN
        IF queue[n] # <<>> /\ CanRun(n)
        THEN /\ queue' = [queue EXCEPT ![n] = Tail(@)]
             /\ count' = [count EXCEPT ![n] = @ + 1]
             /\ pc' = [pc EXCEPT ![Head(queue[n])] = "called"]
        ELSE UNCHANGED <<queue, count, pc>>
    /\ todo' = Tail(todo)
    /\ UNCHANGED <<ticks, setting, req, native, emptied, poolVars>>

\* _drainQueues(): the names take turns, in whatever order, until no queue can go on.
DrainQueues ==
    /\ Follows("drain queues")
    /\ \/ \E n \in Names :
            /\ queue[n] # <<>> /\ CanRun(n)
            /\ queue' = [queue EXCEPT ![n] = Tail(@)]
            /\ count' = [count EXCEPT ![n] = @ + 1]
            /\ pc' = [pc EXCEPT ![Head(queue[n])] = "called"]
            /\ UNCHANGED todo
       \/ /\ \A n \in Names : queue[n] = <<>> \/ ~CanRun(n)
          /\ todo' = Tail(todo)
          /\ UNCHANGED <<queue, count, pc>>
    /\ UNCHANGED <<ticks, setting, req, native, emptied, poolVars>>

AllFree == UNION {ToSet(free[n]) : n \in Names}

\* agent.destroy(): the counts and the queues are dropped, not what they stand for.
DestroyAgent ==
    LET killed == SetToSeq((inUse \cup AllFree) \ dead) IN
    /\ InProgram /\ "agent" \in setting.destroys /\ ~emptied /\ emptied' = TRUE
    /\ dead' = dead \cup inUse \cup AllFree
    /\ ticks' = ticks \o [i \in 1 .. Len(killed) |-> Step("socket close", killed[i])]
    /\ inUse' = {} /\ free' = [n \in Names |-> <<>>]
    /\ count' = [n \in Names |-> 0] /\ queue' = [n \in Names |-> <<>>]
    /\ UNCHANGED <<todo, setting, req, pc, native, socketOf>>

\* The program, or the timer of a free socket, destroys a mock socket.
DestroySocket(s) ==
    /\ InProgram /\ "sockets" \in setting.destroys
    /\ s \in inUse \cup AllFree /\ s \notin dead
    /\ dead' = dead \cup {s}
    /\ ticks' = Append(ticks, Step("socket close", s))
    /\ UNCHANGED <<todo, setting, req, pc, native, agentVars, inUse, free, socketOf>>

\* _setupMockSocket(): the last free socket that is not destroyed (scheduling is 'lifo', or
\* 'fifo', which takes the first), or a new one.
TakeSocket(r) ==
    LET n == NameOf[r]
        alive == {i \in 1 .. Len(free[n]) : free[n][i] \notin dead}
        Take(s) == socketOf' = [socketOf EXCEPT ![r] = s] /\ inUse' = inUse \cup {s}
    IN
    \/ alive = {} /\ Take(r) /\ UNCHANGED free
    \/ \E i \in alive :
        /\ \A j \in alive : j <= i
        /\ Take(free[n][i])
        /\ free' = [free EXCEPT ![n] = RemoveAt(@, i)]

\* _cleanupMockSocket(): back to the free sockets, or destroyed.
KeepsSocket(r) ==
    /\ socketOf[r] # NoSocket /\ req[r].keep /\ socketOf[r] \notin dead
    /\ Len(free[NameOf[r]]) < setting.maxFree

GiveSocketBack(r) ==
    LET s == socketOf[r] IN
    /\ inUse' = inUse \ {s}
    /\ free' = IF KeepsSocket(r) THEN [free EXCEPT ![NameOf[r]] = Append(@, s)] ELSE free
    /\ IF s = NoSocket \/ KeepsSocket(r) \/ s \in dead THEN UNCHANGED <<dead, ticks>>
       ELSE dead' = dead \cup {s} /\ ticks' = Append(ticks, Step("socket close", s))
    /\ UNCHANGED socketOf

-----------------------------------------------------------------------------
(* The turns.                                                                 *)

\* _emitCloseOnce().
EmitClose ==
    /\ Follows("close")
    /\ todo' = Tail(todo)
    /\ req' = [req EXCEPT ![Head(todo).of].closed = TRUE]
    /\ UNCHANGED <<ticks, setting, pc, native, agentVars, poolVars>>

\* _doSend() is over: the socket goes back, then what follows.
Leave(r, steps) ==
    /\ GiveSocketBack(r)
    /\ todo' = steps
    /\ pc' = [pc EXCEPT ![r] = "settled"]

\* An exception in _doSend(): its catch block.
Catch(r) ==
    IF req[r].destroyed THEN Leave(r, <<>>)
    ELSE /\ todo' = <<Step("leave", r)>>
         /\ pc' = [pc EXCEPT ![r] = "leaving"]
         /\ UNCHANGED <<ticks, poolVars>>

LeaveStep ==
    /\ Follows("leave")
    /\ Leave(Head(todo).of, <<Step("close", Head(todo).of)>>)
    /\ UNCHANGED <<setting, req, native, agentVars>>

\* The 'error' of the catch block throws, for it has no listener or one that throws: the
\* socket is not given back, and there is no 'close'.
ErrorThrows ==
    LET r == Head(todo).of IN
    /\ Follows("leave") /\ pc[r] = "leaving"
    /\ todo' = <<>>
    /\ pc' = [pc EXCEPT ![r] = "stranded"]
    /\ req' = [req EXCEPT ![r].thrown = TRUE]
    /\ UNCHANGED <<ticks, setting, native, agentVars, poolVars>>

\* A mock socket leaves the lists, or a request that was destroyed reports it: if its
\* 'abort' or 'error' throws, 'close' is left out.
NextTick ==
    LET t == Head(ticks) IN
    /\ Idle /\ ticks # <<>>
    /\ \/ /\ t.what = "socket close"
          /\ inUse' = inUse \ {t.of}
          /\ free' = [free EXCEPT ![NameOf[t.of]] = RemoveFirst(@, t.of)]
          /\ UNCHANGED <<todo, req>>
       \/ /\ t.what = "destroyed"
          /\ todo' = <<Step("close", t.of)>>
          /\ UNCHANGED <<req, inUse, free>>
       \/ /\ t.what = "destroyed"
          /\ req' = [req EXCEPT ![t.of].thrown = TRUE]
          /\ UNCHANGED <<todo, inUse, free>>
    /\ ticks' = Tail(ticks)
    /\ UNCHANGED <<setting, pc, native, agentVars, dead, socketOf>>

-----------------------------------------------------------------------------
(* What the program calls.                                                    *)

\* The bytes not yet taken by the native stream, in chunks.
Buffered(r) == req[r].pending + (IF native[r].op = "write" THEN 1 ELSE 0)

Write(r) ==
    /\ InProgram /\ pc[r] = "open" /\ r \in Writers /\ req[r].pending < MaxWrites
    /\ req' = [req EXCEPT ![r].pending = @ + 1, ![r].flushes = @ + 1,
                          ![r].needDrain = @ \/ Buffered(r) + 1 >= HighWater]
    /\ UNCHANGED <<turnVars, setting, pc, native, agentVars, poolVars>>

\* end(), called once, after the last write().
End(r) ==
    /\ InProgram /\ pc[r] = "open"
    /\ req' = [req EXCEPT ![r].ended = TRUE]
    /\ Schedule(r)
    /\ UNCHANGED <<turnVars, setting, native, emptied, poolVars>>

\* abort() and destroy(): 'abort', 'error' or neither, then 'close', in a tick, unless a
\* listener to the 'aborted' of the response throws before that.
Destroy(r) ==
    /\ InProgram /\ "requests" \in setting.destroys /\ ~req[r].destroyed
    /\ AbortNative(r)
    /\ \E thrown \in {FALSE, req[r].response} :
        /\ req' = [req EXCEPT ![r].destroyed = TRUE, ![r].thrown = @ \/ thrown,
                              ![r].deferred = native[r].answer = "pending"]
        /\ ticks' = IF thrown THEN ticks ELSE Append(ticks, Step("destroyed", r))
    /\ UNCHANGED <<todo, setting, pc, agentVars, poolVars>>

-----------------------------------------------------------------------------
(* _flushLoop(), in the chain of _scheduleFlush() or in _doSend() itself.     *)

\* One turn of the loop: start the native request, write a chunk, or return.
LoopTurn(r, loop) ==
    LET starts == native[r].state = "created"
        writes == ~starts /\ req[r].pending > 0 /\ ~req[r].destroyed
    IN
    IF starts \/ writes
    THEN /\ native' = [native EXCEPT ![r] = Call(r, IF starts THEN "start" ELSE "write")]
         /\ req' = [req EXCEPT ![r].loop = loop, ![r].pending = IF writes THEN @ - 1 ELSE @]
         /\ pc' = [pc EXCEPT ![r] = IF loop = "own" THEN "flushing" ELSE @]
    ELSE /\ native' = [native EXCEPT ![r] = Over(r)]
         /\ req' = [req EXCEPT ![r].loop = "none",
                               ![r].flushes = IF loop = "chain" THEN @ - 1 ELSE @]
         /\ pc' = [pc EXCEPT ![r] = IF loop = "own" THEN "flushed" ELSE @]

\* The catch of the chain reports an 'error', unless the request was destroyed; if that
\* throws, the chain goes on as a rejected promise.
Breaks(r) == IF req[r].destroyed THEN {FALSE} ELSE BOOLEAN

\* The loop throws: out of the chain, whose catch reports it, or out of _doSend().
LoopFails(r) ==
    \/ /\ req[r].loop = "chain"
       /\ \E broken \in Breaks(r) :
            req' = [req EXCEPT ![r].loop = "none", ![r].flushes = @ - 1, ![r].broken = broken]
       /\ todo' = <<>>
       /\ UNCHANGED <<ticks, pc, poolVars>>
    \/ /\ req[r].loop = "own"
       /\ req' = [req EXCEPT ![r].loop = "none"]
       /\ Catch(r)

\* A listener inside _doSend() throws.
ListenerThrows ==
    /\ \/ /\ Follows("finish it") \/ Follows("wait") \/ Follows("leave")
          /\ pc[Head(todo).of] # "leaving"
          /\ Catch(Head(todo).of) /\ UNCHANGED req
       \/ Follows("loop") /\ ~req[Head(todo).of].needDrain /\ LoopFails(Head(todo).of)
    /\ UNCHANGED <<setting, native, agentVars>>

\* A call of the chain: it returns at once before end(), so nothing is sent and no 'drain'
\* comes until then; after end() it starts the request, whether or not it has a slot.  A
\* broken chain reports its error again instead.
ChainedFlush(r) ==
    /\ Idle /\ req[r].flushes > 0 /\ req[r].loop = "none"
    /\ \/ /\ req[r].broken
          /\ \E broken \in Breaks(r) :
                req' = [req EXCEPT ![r].flushes = @ - 1, ![r].broken = broken]
          /\ UNCHANGED <<pc, native>>
       \/ /\ ~req[r].broken
          /\ req[r].destroyed \/ (native[r].state = "created" /\ ~req[r].ended)
          /\ req' = [req EXCEPT ![r].flushes = @ - 1]
          /\ UNCHANGED <<pc, native>>
       \/ /\ ~req[r].broken
          /\ ~req[r].destroyed /\ (native[r].state # "created" \/ req[r].ended)
          /\ LoopTurn(r, "chain")
    /\ UNCHANGED <<turnVars, setting, agentVars, poolVars>>

LoopStep ==
    LET r == Head(todo).of IN
    /\ Follows("loop")
    /\ LoopTurn(r, req[r].loop)
    /\ todo' = Tail(todo)
    /\ UNCHANGED <<ticks, setting, agentVars, poolVars>>

Flushed(r) ==
    LET drains == native[r].op = "write" /\ req[r].needDrain /\ req[r].pending < HighWater IN
    /\ Idle /\ (Answered(r, "start") \/ Answered(r, "write"))
    /\ native' = [native EXCEPT ![r] = Over(r)]
    /\ \/ /\ native[r].answer = "ok"
          /\ req' = [req EXCEPT ![r].needDrain = @ /\ ~drains]
          /\ todo' = <<Step("loop", r)>>
          /\ UNCHANGED <<ticks, pc, poolVars>>
       \/ native[r].answer = "failed" /\ LoopFails(r)
    /\ UNCHANGED <<setting, agentVars>>

-----------------------------------------------------------------------------
(* _doSend().                                                                 *)

\* It waits for the chain, then flushes itself what is left; a broken chain is an exception.
Send(r) ==
    /\ Idle /\ pc[r] = "called" /\ req[r].flushes = 0
    /\ \/ req[r].broken /\ Catch(r) /\ UNCHANGED <<req, native>>
       \/ /\ ~req[r].broken
          /\ IF req[r].destroyed \/ ~(native[r].state = "created" \/ req[r].pending > 0)
             THEN pc' = [pc EXCEPT ![r] = "flushed"] /\ UNCHANGED <<req, native>>
             ELSE LoopTurn(r, "own")
          /\ UNCHANGED <<turnVars, poolVars>>
    /\ UNCHANGED <<setting, agentVars>>

SetUpSocket(r) ==
    /\ Idle /\ pc[r] = "flushed"
    /\ IF req[r].destroyed THEN Leave(r, <<>>)
       ELSE /\ TakeSocket(r)
            /\ todo' = <<Step("finish it", r)>>
            /\ pc' = [pc EXCEPT ![r] = "sending"]
            /\ UNCHANGED <<ticks, dead>>
    /\ UNCHANGED <<setting, req, native, agentVars>>

FinishStep ==
    LET r == Head(todo).of IN
    /\ Follows("finish it")
    /\ native' = [native EXCEPT ![r] = Call(r, "finish")]
    /\ todo' = Tail(todo)
    /\ UNCHANGED <<ticks, setting, req, pc, agentVars, poolVars>>

Finished(r) ==
    /\ Idle /\ Answered(r, "finish")
    /\ native' = [native EXCEPT ![r] = Over(r)]
    /\ \/ /\ native[r].answer = "ok"
          /\ todo' = <<Step("wait", r)>>
          /\ UNCHANGED <<ticks, pc, poolVars>>
       \/ native[r].answer = "failed" /\ Catch(r)
    /\ UNCHANGED <<setting, req, agentVars>>

WaitStep ==
    LET r == Head(todo).of IN
    /\ Follows("wait")
    /\ \/ /\ req[r].destroyed /\ Leave(r, <<>>) /\ UNCHANGED native
       \/ /\ ~req[r].destroyed
          /\ native' = [native EXCEPT ![r] = Call(r, "wait")]
          /\ todo' = Tail(todo)
          /\ UNCHANGED <<ticks, pc, poolVars>>
    /\ UNCHANGED <<setting, req, agentVars>>

\* Faulty variant: the response is announced to a request that was destroyed meanwhile.
RespondedAnyway(r) ==
    /\ Idle /\ Answered(r, "wait") /\ native[r].answer = "ok"
    /\ native' = [native EXCEPT ![r] = Over(r)]
    /\ req' = [req EXCEPT ![r].response = TRUE]
    /\ todo' = <<Step("leave", r)>>
    /\ UNCHANGED <<ticks, setting, pc, agentVars, poolVars>>

\* The response is there; the abort() that came while it was awaited is made good.
Responded(r) ==
    /\ Idle /\ Answered(r, "wait")
    /\ \/ /\ native[r].answer = "ok" /\ ~req[r].destroyed
          /\ native' = [native EXCEPT ![r] = [Over(r) EXCEPT !.state = "consumed"]]
          /\ \E keep \in BOOLEAN :
                req' = [req EXCEPT ![r].response = TRUE, ![r].keep = keep]
          /\ todo' = <<Step("leave", r)>>
          /\ UNCHANGED <<ticks, pc, poolVars>>
       \/ /\ native[r].answer = "ok" /\ req[r].destroyed
          /\ native' = [native EXCEPT ![r] = [Over(r) EXCEPT
                            !.state = IF req[r].deferred THEN "aborted" ELSE @]]
          /\ req' = [req EXCEPT ![r].deferred = FALSE]
          /\ Leave(r, <<>>)
       \/ /\ native[r].answer = "failed"
          /\ native' = [native EXCEPT ![r] = Over(r)]
          /\ Catch(r) /\ UNCHANGED req
    /\ UNCHANGED <<setting, agentVars>>

-----------------------------------------------------------------------------
Program ==
    \/ DestroyAgent \/ \E r \in Requests : Write(r) \/ End(r) \/ Destroy(r)
    \/ \E s \in Requests : DestroySocket(s)

\* What goes on until the turn is over; then the ticks, the jobs of a request and the
\* answers of the host.
Runs ==
    \/ EmitClose \/ ListenerThrows \/ ErrorThrows
    \/ LoopStep \/ FinishStep \/ WaitStep \/ LeaveStep \/ DrainQueues

Jobs(r) ==
    ChainedFlush(r) \/ Flushed(r) \/ Send(r) \/ SetUpSocket(r) \/ Finished(r) \/ Responded(r)
        \/ Finally(r)

Job == Runs \/ NextTick \/ \E r \in Requests : Jobs(r) \/ NativeAnswers(r)

Next == Program \/ Job

Spec == Init /\ [][Next]_vars

\* As long as the runtime or the host has something to do, some of it is done.
FairSpec == Spec /\ WF_vars(Job)

-----------------------------------------------------------------------------
(* Properties.                                                                *)

TypeOK ==
    /\ emptied \in BOOLEAN
    /\ count \in [Names -> Nat] /\ inUse \subseteq Requests /\ dead \subseteq Requests
    /\ socketOf \in [Requests -> Requests \cup {NoSocket}]
    /\ \A n \in Names : ToSet(queue[n]) \cup ToSet(free[n]) \subseteq Requests

\* The requests that hold a slot.
Admitted(n) ==
    {r \in Requests : NameOf[r] = n /\ pc[r] \notin {"open", "queued", "done", "lost"}}

\* Where a request has a socket: it is being sent, or its 'error' threw.
Holding == {"sending", "leaving", "stranded", "lost"}

\* The agent counts exactly the requests it has admitted, within both limits, and none
\* waits while there is a slot for it; destroy() alone makes the count too low.
SlotsAreExact ==
    /\ TypeOK
    /\ \A n \in Names :
        /\ count[n] <= Cardinality(Admitted(n))
        /\ ~emptied => count[n] = Cardinality(Admitted(n)) /\ count[n] <= setting.maxSockets
        /\ queue[n] # <<>> /\ CanRun(n) => \E i \in 1 .. Len(todo) : todo[i].what = "drain queues"
    /\ ~emptied => Total <= setting.maxTotal

\* A mock socket serves one request at a time: it is in use, by a request that is being sent
\* or was left without cleanup when its 'error' threw, or free once and under the name it
\* was made for; what is destroyed leaves the lists.
PoolIsExact ==
    /\ \A n \in Names :
        /\ IsInjective(free[n]) /\ Len(free[n]) <= setting.maxFree
        /\ \A s \in ToSet(free[n]) : NameOf[s] = n /\ s \notin inUse
    /\ \A s \in inUse : \E r \in Requests : socketOf[r] = s /\ pc[r] \in Holding
    /\ \A q, r \in Requests :
        q # r /\ {pc[q], pc[r]} \subseteq Holding /\ socketOf[q] = socketOf[r]
            => socketOf[q] = NoSocket
    /\ \A s \in dead \cap (inUse \cup AllFree) : Contains(ticks, Step("socket close", s))

\* The agent's counts, queues and sockets are those of its requests.
AgentIsExact == SlotsAreExact /\ PoolIsExact

\* A request the program has destroyed, or whose 'close' it has heard, gets no response,
\* in whichever call to the native request it was.
ResponseIsWanted ==
    [][\A r \in Requests : req'[r].response /\ ~req[r].response =>
          ~req[r].destroyed /\ ~req[r].closed]_vars

\* A request that was ended or destroyed comes to its 'close', unless the agent that had
\* it in a queue was destroyed, or what the request reports before its 'close' threw.
RequestsClose ==
    \A r \in Requests :
        req[r].ended \/ req[r].destroyed ~> req[r].closed \/ req[r].thrown \/ emptied
=============================================================================
