----------------------------- MODULE EventLoop ------------------------------
(* One exported call after another over the timers: call_js_export awaits    *)
(* the exported function, then drain_and_idle (internal.rs) keeps polling    *)
(* until the executor is empty, with a sentinel task that aborts what is     *)
(* left when only unref'd timers remain.  Between two calls nothing is       *)
(* polled.  rquickjs's executor and AsyncRuntime::idle are external: a task  *)
(* that was woken is polled eventually, and idle returns when no spawned     *)
(* task is left.                                                             *)
EXTENDS Timers

CONSTANTS
    LateCalls,  \* the calls the program makes while the loop drains
    MaxIo       \* bound: I/O tasks pending at once

ASSUME LoopAssumption == LateCalls \subseteq Calls /\ MaxIo \in Nat

VARIABLES
    phase,      \* outside any call, running the export, draining after it
    sentinel,   \* the task drain_and_idle spawned in this call
    io          \* spawned tasks that are neither timers nor the sentinel

vars == <<timerVars, phase, sentinel, io>>
loopVars == <<phase, sentinel, io>>

LoopTypeOK ==
    /\ TypeOK
    /\ phase \in {"outside", "running", "draining"}
    /\ sentinel \in {"none", "polling", "aborted", "finished"}
    /\ io \in 0 .. MaxIo

Init ==
    /\ TimersInit
    /\ phase = "outside"
    /\ sentinel = "none"
    /\ io = 0

-----------------------------------------------------------------------------
CallExport ==
    /\ phase = "outside"
    /\ phase' = "running"
    /\ sentinel' = "none"
    /\ UNCHANGED <<timerVars, io>>

\* The exported function, or a job of its promise, runs.
ExportTurn ==
    /\ phase = "running"
    /\ OtherTurn
    /\ UNCHANGED loopVars

AllowedCalls == IF phase = "draining" THEN LateCalls ELSE Calls

StartIo ==
    /\ running # NoTask
    /\ "startIo" \in AllowedCalls
    /\ io < MaxIo
    /\ io' = io + 1
    /\ UNCHANGED <<timerVars, phase, sentinel>>

\* An I/O task completes and its continuation runs.
IoTurn ==
    /\ phase # "outside"
    /\ io > 0
    /\ io' = io - 1
    /\ OtherTurn
    /\ UNCHANGED <<phase, sentinel>>

Program ==
    /\ ProgramStep(AllowedCalls)
    /\ UNCHANGED loopVars

Tasks ==
    /\ phase # "outside"
    /\ TimerTasks \/ OtherTurnEnd
    /\ UNCHANGED loopVars

\* The export's promise is settled: drain_and_idle looks at the unref'd timers
\* once and spawns the sentinel only if there is one.
ExportResolves ==
    /\ phase = "running"
    /\ running = NoTask
    /\ phase' = "draining"
    /\ sentinel' = IF unrefedTimers = {} THEN "none" ELSE "polling"
    /\ UNCHANGED <<timerVars, io>>

\* Faulty variant: some unref'd timer is left, instead of nothing else.
SomeUnrefedLeft == Cardinality(abortHandles) > 0 /\ Cardinality(unrefedTimers) > 0

OnlyUnrefedLeft ==
    /\ Cardinality(abortHandles) > 0
    /\ Cardinality(abortHandles) = Cardinality(unrefedTimers)

\* Faulty variant: the handles are dropped without abort().
ForgetUnrefedTimers ==
    /\ abortHandles' = abortHandles \ unrefedTimers
    /\ unrefedTimers' = {}
    /\ UNCHANGED <<lastAbortId, owner, timeout, task, running, currentId>>

AbortUnrefedTimers ==
    /\ abortHandles' = abortHandles \ unrefedTimers
    /\ task' = AbortedTasks(unrefedTimers)
    /\ unrefedTimers' = {}
    /\ UNCHANGED <<lastAbortId, owner, timeout, running, currentId>>

\* One turn of the sentinel after its 1 ms sleep: abort, stop, or sleep again.
SentinelTick ==
    /\ phase = "draining"
    /\ sentinel = "polling"
    /\ running = NoTask
    /\ \/ /\ OnlyUnrefedLeft
          /\ AbortUnrefedTimers
          /\ sentinel' = "aborted"
       \/ /\ ~OnlyUnrefedLeft
          /\ unrefedTimers = {}
          /\ sentinel' = "finished"
          /\ UNCHANGED timerVars
       \/ /\ ~OnlyUnrefedLeft
          /\ unrefedTimers # {}
          /\ UNCHANGED <<timerVars, sentinel>>
    /\ UNCHANGED <<phase, io>>

ExecutorEmpty ==
    /\ running = NoTask
    /\ \A k \in Id : task[k] \in {"none", "done"}
    /\ io = 0
    /\ sentinel # "polling"

\* Faulty variant: the drain returns without waiting.
IdleReturnsAtOnce ==
    /\ phase = "draining"
    /\ running = NoTask
    /\ phase' = "outside"
    /\ UNCHANGED <<timerVars, sentinel, io>>

IdleReturns ==
    /\ phase = "draining"
    /\ ExecutorEmpty
    /\ phase' = "outside"
    /\ UNCHANGED <<timerVars, sentinel, io>>

Next ==
    \/ CallExport \/ ExportTurn \/ ExportResolves
    \/ StartIo \/ IoTurn
    \/ Program \/ Tasks
    \/ SentinelTick
    \/ IdleReturns

\* The executor polls its woken tasks from a queue, so a task that is woken
\* again and again gets its turn although other turns intervene: strong
\* fairness for each task.  A turn always ends: weak fairness.  Nothing makes
\* the host call, the export resolve or the program call anything.
Fairness ==
    /\ \A k \in Id : SF_vars((Wake(k) \/ Reap(k)) /\ Tasks)
    /\ WF_vars((CallbackReturn \/ TurnEnd \/ OtherTurnEnd) /\ Tasks)
    /\ SF_vars(IoTurn)
    /\ SF_vars(SentinelTick)
    /\ WF_vars(IdleReturns)

Spec == Init /\ [][Next]_vars
FairSpec == Spec /\ Fairness

-----------------------------------------------------------------------------
(* Properties.                                                               *)

\* When a call has returned, no timer and no spawned task survives it, and
\* nothing is left for the next call's sentinel to trip over: the state
\* wizer_initialize asserts before the snapshot.
ReturnsClean ==
    phase = "outside" =>
        /\ abortHandles = {}
        /\ \A k \in Id : task[k] \in {"none", "done"}
        /\ "unrefDead" \notin Calls => unrefedTimers = {}

\* Between two calls the executor is empty: the inductive invariant of the loop.
LoopInv ==
    /\ TimersInv
    /\ LoopTypeOK
    /\ phase = "outside" =>
        running = NoTask /\ io = 0 /\ \A k \in Id : task[k] \in {"none", "done"}

\* The sentinel aborts timers only when every live one is unref'd: the
\* comparison of two sizes stands for the comparison of the two sets.
SentinelSparesRefed ==
    [][sentinel = "polling" /\ sentinel' = "aborted" =>
          abortHandles \subseteq unrefedTimers]_vars

\* A live timer that arms itself for ever and that no sentinel will abort: a
\* ref'd interval, or a one-shot whose _repeat is set and which is ref'd or has
\* outlived the sentinel (refresh() in a late turn leaves hasRef() false).
Recurring ==
    \E k \in abortHandles :
        \/ timeout[owner[k]].isInterval /\ k \notin unrefedTimers
        \/ /\ timeout[owner[k]].repeat
           /\ k \notin unrefedTimers \/ sentinel # "polling"

\* drain_and_idle returns, unless such a timer keeps the loop alive.
DrainReturns == phase = "draining" ~> (phase = "outside" \/ Recurring)

\* The event loop keeps the promise of the timers: its own aborts are
\* cancellations the service allows.
LoopImplementsService == Service!Spec
=============================================================================
