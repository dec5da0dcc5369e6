------------------------------ MODULE Exports -------------------------------
(* Exported functions and exported resources.  The generated crate           *)
(* (exports.rs) turns every exported function into a future for              *)
(* async_exported_function (skeleton internal.rs), which runs it together    *)
(* with the dropper of the resources the host has let go.  The JavaScript    *)
(* objects behind exported resources live in a table, indexed by the id the  *)
(* host's handle carries.  An initialisation, perhaps at build time under    *)
(* Wizer, precedes the first call.                                           *)
(* The executor is external: an asynchronous runtime behind one lock, which  *)
(* idle() keeps until no spawned task is left.                               *)
EXTENDS Integers, Sequences

CONSTANTS
    MaxId,              \* bound: the highest id given out
    MaxTasks,           \* bound: ref'd tasks pending at once
    MaxHandles          \* bound: handles the host owns to one resource

ASSUME ExportsAssumption ==
    MaxId \in Nat /\ MaxTasks \in Nat /\ MaxHandles \in Nat

Ids == 1 .. MaxId
NoId == 0           \* no resource; in the drop queue, the stop signal

VARIABLES
    initPhase,      \* INIT_PHASE between two calls of get_js_state
    env,            \* whose argv and environment process shows
    lastResourceId, \* the next id to give out
    table,          \* the ids in __wasm_rquickjs_resources
    keyed,          \* the ids whose object carries __wasm_rquickjs_resource_id
    handles,        \* for each id, the handles the host owns
    dropQueue,      \* resource_drop_queue: ids, and the stop signal
    export,         \* how far the call's future is
    self,           \* the resource a method was called on
    own,            \* a resource passed to the call as an owned parameter
    result,         \* the resource the call returns
    due,            \* history: the drops queued when the call began
    again,          \* history: the ids a call has returned as already registered
    dropper,        \* how far the call's resource dropper is
    dropping,       \* the id the dropper took from the queue
    lock,           \* who keeps the runtime's lock while it waits in idle()
    refed,          \* number of spawned tasks that end by themselves
    unrefed,        \* an unref'd interval is pending
    sentinel,       \* drain_and_idle's sentinel is pending
    trapped         \* the instance has panicked

callVars == <<export, self, own, result, due, again>>
dropperVars == <<dropper, dropping>>
taskVars == <<lock, refed, unrefed, sentinel>>
resourceVars == <<lastResourceId, table, keyed, handles>>
initVars == <<initPhase, env>>
vars == <<initVars, resourceVars, dropQueue, callVars, dropperVars, taskVars, trapped>>

TypeOK ==
    /\ initPhase \in {"Uninitialized", "WizerPreInitialized", "FullyInitialized"}
    /\ env \in {"none", "build", "host"}
    /\ lastResourceId \in 1 .. MaxId + 1
    /\ table \subseteq Ids /\ keyed \subseteq Ids
    /\ handles \in [Ids -> Nat]
    /\ dropQueue \in Seq(Ids \cup {NoId})
    /\ export \in {"none", "called", "awaiting", "draining", "idling", "returned"}
    /\ self \in Ids \cup {NoId} /\ own \in Ids \cup {NoId} /\ result \in Ids \cup {NoId}
    /\ due \subseteq Ids /\ again \subseteq Ids
    /\ dropper \in {"stopped", "waiting", "removing", "idling"}
    /\ dropping \in Ids \cup {NoId}
    /\ lock \in {"free", "export", "dropper"}
    /\ refed \in 0 .. MaxTasks /\ unrefed \in BOOLEAN /\ sentinel \in BOOLEAN
    /\ trapped \in BOOLEAN

Init ==
    /\ initPhase = "Uninitialized" /\ env = "none"
    /\ lastResourceId = 1
    /\ table = {} /\ keyed = {} /\ handles = [i \in Ids |-> 0]
    /\ dropQueue = <<>>
    /\ export = "none" /\ self = NoId /\ own = NoId /\ result = NoId /\ due = {} /\ again = {}
    /\ dropper = "stopped" /\ dropping = NoId
    /\ lock = "free" /\ refed = 0 /\ unrefed = FALSE /\ sentinel = FALSE
    /\ trapped = FALSE

-----------------------------------------------------------------------------
\* Wizer, at build time: the user module is evaluated before the snapshot.
WizerInitialize ==
    /\ initPhase = "Uninitialized"
    /\ initPhase' = "WizerPreInitialized"
    /\ env' = "build"
    /\ UNCHANGED <<resourceVars, dropQueue, callVars, dropperVars, taskVars, trapped>>

\* Faulty variant: the snapshot's argv and environment are kept.
GetJsStateWithoutRefresh ==
    /\ initPhase' = "FullyInitialized"
    /\ env' = IF initPhase = "WizerPreInitialized" THEN env ELSE "host"

\* get_js_state: evaluates the modules, or refreshes argv and env after Wizer.
GetJsState ==
    /\ initPhase' = "FullyInitialized"
    /\ env' = IF initPhase = "FullyInitialized" THEN env ELSE "host"

Queued(i) == \E n \in 1 .. Len(dropQueue) : dropQueue[n] = i

\* The host calls a constructor, a static function or a function (s = NoId) or
\* a method, and gives up the handle it passes as an owned parameter.
StartCallOn(s, o, queue) ==
    /\ export = "none" /\ ~trapped
    /\ s # NoId => handles[s] > (IF o = s THEN 1 ELSE 0)
    /\ o # NoId => handles[o] > 0
    /\ GetJsState
    /\ handles' = [i \in Ids |-> IF i = o THEN handles[i] - 1 ELSE handles[i]]
    /\ dropQueue' = queue
    /\ export' = "called" /\ self' = s /\ own' = o /\ result' = NoId
    /\ due' = {i \in Ids : Queued(i)}
    /\ dropper' = "waiting" /\ dropping' = NoId
    /\ UNCHANGED <<lastResourceId, table, keyed, again, taskVars, trapped>>

\* Faulty variant: the stop signal overtakes the drops that wait.
StartCallStopFirst(s, o) == StartCallOn(s, o, <<NoId>> \o dropQueue)

StartCall(s, o) == StartCallOn(s, o, Append(dropQueue, NoId))

GetFreeResourceId == lastResourceId

\* An owned parameter is converted to its object, then its handle is dropped.
DropOwnParameter == dropQueue' = IF own = NoId THEN dropQueue ELSE Append(dropQueue, own)

\* Work the JavaScript code of a turn may start.
StartsWork ==
    /\ refed' \in refed .. MaxTasks
    /\ unrefed' \in {unrefed, TRUE}
    /\ UNCHANGED <<lock, sentinel>>

ParametersFound ==
    /\ self # NoId => self \in table
    /\ own # NoId => own \in table

CallFunction ==
    /\ export = "called" /\ lock = "free" /\ ~trapped
    /\ ParametersFound
    /\ DropOwnParameter
    /\ StartsWork
    /\ export' = "awaiting"
    /\ UNCHANGED <<initVars, resourceVars, self, own, result, due, again, dropperVars, trapped>>

\* call_js_resource_constructor gives the new object an id in the same turn.
CallConstructor ==
    /\ export = "called" /\ lock = "free" /\ ~trapped
    /\ self = NoId
    /\ ParametersFound
    /\ GetFreeResourceId \leq MaxId
    /\ DropOwnParameter
    /\ StartsWork
    /\ result' = GetFreeResourceId
    /\ lastResourceId' = lastResourceId + 1
    /\ table' = table \cup {result'}
    /\ keyed' = keyed \cup {result'}
    /\ export' = "draining"
    /\ UNCHANGED <<initVars, handles, self, own, due, again, dropperVars, trapped>>

\* "Failed to get resource instance".
ParameterMissing ==
    /\ export = "called" /\ lock = "free" /\ ~trapped
    /\ ~ParametersFound
    /\ trapped' = TRUE
    /\ UNCHANGED <<initVars, resourceVars, dropQueue, callVars, dropperVars, taskVars>>

\* An exception the function's type does not declare.
ExportThrows ==
    /\ export \in {"called", "awaiting"} /\ lock = "free" /\ ~trapped
    /\ trapped' = TRUE
    /\ UNCHANGED <<initVars, resourceVars, dropQueue, callVars, dropperVars, taskVars>>

\* The function's value, or its promise, gives the call its result.
ReturnsValue ==
    /\ export = "awaiting" /\ lock = "free" /\ ~trapped
    /\ export' = "draining"
    /\ UNCHANGED <<initVars, resourceVars, dropQueue, self, own, result, due, again,
                   dropperVars, taskVars, trapped>>

\* An object without an id is stored in the table; it gets no id key.
ReturnsNewResource ==
    /\ export = "awaiting" /\ lock = "free" /\ ~trapped
    /\ GetFreeResourceId \leq MaxId
    /\ result' = GetFreeResourceId
    /\ lastResourceId' = lastResourceId + 1
    /\ table' = table \cup {result'}
    /\ export' = "draining"
    /\ UNCHANGED <<initVars, keyed, handles, dropQueue, self, own, due, again,
                   dropperVars, taskVars, trapped>>

\* An object with an id key "is already registered in the resource table".
ReturnsRegisteredResource(i) ==
    /\ export = "awaiting" /\ lock = "free" /\ ~trapped
    /\ i \in keyed
    /\ handles[i] < MaxHandles
    /\ result' = i
    /\ again' = again \cup {i}
    /\ export' = "draining"
    /\ UNCHANGED <<initVars, resourceVars, dropQueue, self, own, due,
                   dropperVars, taskVars, trapped>>

\* drain_and_idle looks at the unref'd timers and spawns the sentinel.
DrainStarts ==
    /\ export = "draining" /\ lock = "free" /\ ~trapped
    /\ export' = "idling"
    /\ sentinel' = unrefed
    /\ UNCHANGED <<initVars, resourceVars, dropQueue, self, own, result, due, again,
                   dropperVars, lock, refed, unrefed, trapped>>

-----------------------------------------------------------------------------
\* Faulty variant: the stop signal is taken for a resource.
DropperNextIgnoringStop ==
    /\ dropper = "waiting" /\ ~trapped
    /\ dropQueue # <<>>
    /\ dropQueue' = Tail(dropQueue)
    /\ dropping' = Head(dropQueue)
    /\ dropper' = "removing"
    /\ UNCHANGED <<initVars, resourceVars, callVars, taskVars, trapped>>

\* The resource dropper: takes an id, removes the object, waits in idle().
DropperNext ==
    /\ dropper = "waiting" /\ ~trapped
    /\ dropQueue # <<>>
    /\ dropQueue' = Tail(dropQueue)
    /\ dropping' = Head(dropQueue)
    /\ dropper' = IF Head(dropQueue) > 0 THEN "removing" ELSE "stopped"
    /\ UNCHANGED <<initVars, resourceVars, callVars, taskVars, trapped>>

\* Faulty variant: the object stays in the table.
DropperForgetsObject ==
    /\ dropper = "removing" /\ lock = "free" /\ ~trapped
    /\ dropper' = "idling"
    /\ UNCHANGED <<initVars, resourceVars, dropQueue, callVars, dropping, taskVars, trapped>>

DropperRemoves ==
    /\ dropper = "removing" /\ lock = "free" /\ ~trapped
    /\ table' = table \ {dropping}
    /\ dropper' = "idling"
    /\ UNCHANGED <<initVars, lastResourceId, keyed, handles, dropQueue, callVars,
                   dropping, taskVars, trapped>>

ExecutorEmpty == refed = 0 /\ ~unrefed /\ ~sentinel

IdleStarts ==
    /\ lock = "free" /\ ~trapped
    /\ \/ export = "idling" /\ lock' = "export"
       \/ dropper = "idling" /\ lock' = "dropper"
    /\ UNCHANGED <<initVars, resourceVars, dropQueue, callVars, dropperVars,
                   refed, unrefed, sentinel, trapped>>

IdleReturns ==
    /\ ExecutorEmpty /\ ~trapped
    /\ lock' = "free"
    /\ \/ /\ lock = "export"
          /\ export' = "returned"
          /\ UNCHANGED <<self, own, result, due, again, dropperVars>>
       \/ /\ lock = "dropper"
          /\ dropper' = "waiting"
          /\ UNCHANGED <<dropping, callVars>>
    /\ UNCHANGED <<initVars, resourceVars, dropQueue, refed, unrefed, sentinel, trapped>>

\* Spawned tasks run while a future of the call polls the runtime.
Polled == lock # "free" \/ export = "awaiting"

TaskEnds ==
    /\ Polled /\ ~trapped
    /\ refed > 0
    /\ refed' = refed - 1
    /\ UNCHANGED <<initVars, resourceVars, dropQueue, callVars, dropperVars,
                   lock, unrefed, sentinel, trapped>>

\* The sentinel aborts the unref'd timers when they are as many as the abort handles; a
\* task without a handle, or one behind a stale count (see Timers), does not hold it back.
SentinelAborts ==
    /\ Polled /\ ~trapped
    /\ sentinel
    /\ sentinel' = FALSE /\ unrefed' = FALSE
    /\ UNCHANGED <<initVars, resourceVars, dropQueue, callVars, dropperVars,
                   lock, refed, trapped>>

-----------------------------------------------------------------------------
\* Faulty variant: the call does not wait for the dropper.
CallReturnsAlone ==
    /\ export = "returned" /\ ~trapped
    /\ export' = "none"
    /\ handles' = [i \in Ids |-> IF i = result THEN handles[i] + 1 ELSE handles[i]]
    /\ UNCHANGED <<initVars, lastResourceId, table, keyed, dropQueue, self, own, result,
                   due, again, dropperVars, taskVars, trapped>>

\* Both futures are done: the result's handle passes to the host.
CallReturns ==
    /\ export = "returned" /\ dropper = "stopped" /\ ~trapped
    /\ export' = "none"
    /\ handles' = [i \in Ids |-> IF i = result THEN handles[i] + 1 ELSE handles[i]]
    /\ UNCHANGED <<initVars, lastResourceId, table, keyed, dropQueue, self, own, result,
                   due, again, dropperVars, taskVars, trapped>>

\* The host lets a resource go between two calls: its destructor only queues.
HostDrops(i) ==
    /\ export = "none" /\ ~trapped
    /\ handles[i] > 0
    /\ handles' = [handles EXCEPT ![i] = @ - 1]
    /\ dropQueue' = Append(dropQueue, i)
    /\ UNCHANGED <<initVars, lastResourceId, table, keyed, callVars, dropperVars,
                   taskVars, trapped>>

Host ==
    \/ WizerInitialize
    \/ \E s \in Ids \cup {NoId}, o \in Ids \cup {NoId} : StartCall(s, o)
    \/ \E i \in Ids : HostDrops(i)

Export ==
    \/ CallFunction \/ CallConstructor \/ ParameterMissing \/ ExportThrows
    \/ ReturnsValue \/ ReturnsNewResource
    \/ \E i \in Ids : ReturnsRegisteredResource(i)
    \/ DrainStarts \/ CallReturns

Dropper == DropperNext \/ DropperRemoves

Runtime == IdleStarts \/ IdleReturns \/ TaskEnds \/ SentinelAborts

Next == Host \/ Export \/ Dropper \/ Runtime

Spec == Init /\ [][Next]_vars

\* A call's futures are polled and its tasks end; the function settles.
Fairness == WF_vars(Export) /\ WF_vars(Dropper) /\ WF_vars(Runtime)
FairSpec == Spec /\ Fairness

-----------------------------------------------------------------------------
(* Properties.                                                               *)

\* The resources somebody still has a right to: the host, or the call under way
\* that returns one or has not yet read its owned parameter.
Live(i) ==
    \/ handles[i] > 0
    \/ export # "none" /\ result = i
    \/ export = "called" /\ own = i

Doomed(i) == Queued(i) \/ (dropper = "removing" /\ dropping = i)

\* The table holds the objects of live resources and of those waiting to be
\* dropped, and no other: no call through a handle can fail for want of its
\* object, nothing leaks, nothing is dropped twice or while live.  This is so
\* of every resource that was not returned a second time.
TableIsExact ==
    \A i \in Ids \ again :
        /\ i \in table <=> Live(i) \/ Doomed(i)
        /\ ~(Live(i) /\ Doomed(i))

\* A call finds the objects of its parameters: "Failed to get resource
\* instance" is for resources that were returned a second time.
ParametersAreFound ==
    export = "called" /\ again \cap {self, own} = {} => ParametersFound

\* One stop signal per call, taken by the dropper of that call.
StopSignals ==
    Queued(NoId) <=> (export # "none" /\ dropper # "stopped")

\* A drop queued before a call is carried out by the time the call returns.
DueDropsAreDone == export = "none" /\ ~trapped => due \cap table = {}

\* JavaScript code of an exported function never sees the build's environment.
ExportSeesHost == export # "none" => env = "host"

\* What an exported function finds when it begins and leaves when it has returned.
CallsAreClean == DueDropsAreDone /\ ExportSeesHost

\* A call returns to the host, unless it panics, or the dropper waits in
\* idle() for an unref'd interval no sentinel will abort.
CallReturnsAtLast ==
    export # "none" ~> (export = "none" \/ trapped \/ (lock = "dropper" /\ unrefed))
=============================================================================
