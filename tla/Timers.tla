------------------------------- MODULE Timers -------------------------------
(* The timer subsystem: builtin/timeout.js (the Timeout objects a program    *)
(* holds) over builtin/timeout.rs (the native tasks, their abort handles and *)
(* the set of unref'd timers in JsState).  Time is abstracted: a sleeping    *)
(* task may wake at any moment.  JavaScript runs in turns of the             *)
(* single-threaded executor; `running` names the task whose turn it is, and  *)
(* every call of the program happens inside a turn.                          *)
EXTENDS Integers, FiniteSets

AllCalls == {"setTimeout", "setInterval", "ref", "unref", "unrefDead",
             "refresh", "close", "clearById", "repeat", "startIo"}

CONSTANTS
    Timeouts,   \* the Timeout objects the program may create
    MaxId,      \* bound: native keys handed out by schedule()
    Calls       \* the calls the program makes; "unrefDead" is unref() on a
                \* Timeout whose native timer is already gone, "startIo" is
                \* any operation that spawns a task other than a timer

Id == 0 .. (MaxId - 1)
NoTask == -1        \* the executor is between two turns
OtherTask == -2     \* a turn that is not a timer's: export body, I/O, jobs

ASSUME TimersAssumption ==
    /\ MaxId \in Nat
    /\ Calls \subseteq AllCalls
    /\ NoTask \notin Timeouts

VARIABLES
    lastAbortId,    \* JsState.last_abort_id
    abortHandles,   \* keys of JsState.abort_handles
    unrefedTimers,  \* JsState.unrefed_timers
    task,           \* state of the task spawned for a key
    owner,          \* the Timeout whose bound callback the task runs
    timeout,        \* the fields of each Timeout object
    running,        \* the key (or OtherTask) whose turn it is
    currentId       \* `currentId` of the wrapped callback in progress

timerVars == <<lastAbortId, abortHandles, unrefedTimers, task, owner,
               timeout, running, currentId>>

\* A task in "rearmed" has given its key to the next (see RearmInPlace).
TaskStates == {"none", "sleeping", "callback", "jobs", "rearmed", "aborted", "done"}

TimeoutFields == [created: BOOLEAN, id: Nat, destroyed: BOOLEAN,
                  refed: BOOLEAN, isInterval: BOOLEAN, repeat: BOOLEAN]

TypeOK ==
    /\ lastAbortId \in 0 .. MaxId
    /\ abortHandles \subseteq Id
    /\ unrefedTimers \subseteq Nat
    /\ task \in [Id -> TaskStates]
    /\ owner \in [Id -> Timeouts]
    /\ timeout \in [Timeouts -> TimeoutFields]
    /\ running \in Id \cup {NoTask, OtherTask}
    /\ currentId \in Nat

TimersInit ==
    /\ lastAbortId = 0
    /\ abortHandles = {}
    /\ unrefedTimers = {}
    /\ task = [k \in Id |-> "none"]
    /\ owner \in {[k \in Id |-> o] : o \in Timeouts}
    /\ timeout = [o \in Timeouts |->
                    [created |-> FALSE, id |-> 0, destroyed |-> FALSE,
                     refed |-> TRUE, isInterval |-> FALSE, repeat |-> FALSE]]
    /\ running = NoTask
    /\ currentId = 0

-----------------------------------------------------------------------------
(* The native functions, as the updates they make.                           *)

\* schedule(): a fresh key, its abort handle and its task.  handles and tasks
\* are what a preceding clear_schedule in the same call left.
Schedule(o, fields, handles, tasks) ==
    /\ lastAbortId < MaxId
    /\ lastAbortId' = lastAbortId + 1
    /\ abortHandles' = handles \cup {lastAbortId}
    /\ task' = [tasks EXCEPT ![lastAbortId] = "sleeping"]
    /\ owner' = [owner EXCEPT ![lastAbortId] = o]
    /\ timeout' = [timeout EXCEPT ![o] = [fields EXCEPT !.id = lastAbortId]]

\* AbortHandle::abort(): a sleeping task never runs again; one in the middle
\* of its callback finishes the callback.
AbortedTasks(ids) ==
    [k \in Id |-> IF k \in ids \cap abortHandles /\ task[k] = "sleeping"
                  THEN "aborted" ELSE task[k]]

ClearSchedule(k) ==
    /\ unrefedTimers' = unrefedTimers \ {k}
    /\ abortHandles' = abortHandles \ {k}
    /\ task' = AbortedTasks({k})

-----------------------------------------------------------------------------
(* The calls a program makes, inside a turn.                                 *)

Set(o, interval) ==
    /\ ~timeout[o].created
    /\ Schedule(o, [timeout[o] EXCEPT !.created = TRUE, !.isInterval = interval,
                                      !.repeat = interval],
                abortHandles, task)
    /\ UNCHANGED unrefedTimers

\* Faulty variant: only the object is marked.
RefKeepingKey(o) ==
    /\ timeout[o].created
    /\ timeout' = [timeout EXCEPT ![o].refed = TRUE]
    /\ UNCHANGED <<lastAbortId, abortHandles, unrefedTimers, task, owner>>

Ref(o) ==
    /\ timeout[o].created
    /\ timeout' = [timeout EXCEPT ![o].refed = TRUE]
    /\ unrefedTimers' = unrefedTimers \ {timeout[o].id}
    /\ UNCHANGED <<lastAbortId, abortHandles, task, owner>>

Unref(o) ==
    /\ timeout[o].created
    /\ timeout' = [timeout EXCEPT ![o].refed = FALSE]
    /\ unrefedTimers' = unrefedTimers \cup {timeout[o].id}
    /\ UNCHANGED <<lastAbortId, abortHandles, task, owner>>

\* Faulty variant: the task that is running out is not cleared.
RefreshKeepingOldTask(o) ==
    /\ timeout[o].created
    /\ ~timeout[o].destroyed
    /\ Schedule(o, timeout[o], abortHandles, task)
    /\ UNCHANGED unrefedTimers

Refresh(o) ==
    /\ timeout[o].created
    /\ ~timeout[o].destroyed
    /\ Schedule(o, timeout[o], abortHandles \ {timeout[o].id},
                AbortedTasks({timeout[o].id}))
    /\ unrefedTimers' = unrefedTimers \ {timeout[o].id}

\* close(), and what calls it: clearTimeout(timeout), dispose,
\* _idleTimeout = -1, _onTimeout = null.
Close(o) ==
    /\ timeout[o].created
    /\ ~timeout[o].destroyed
    /\ timeout' = [timeout EXCEPT ![o].destroyed = TRUE]
    /\ ClearSchedule(timeout[o].id)
    /\ UNCHANGED <<lastAbortId, owner>>

\* clearTimeout(number): the Timeout object does not learn of it.
ClearById(k) ==
    /\ k < lastAbortId
    /\ ClearSchedule(k)
    /\ UNCHANGED <<lastAbortId, owner, timeout>>

\* Assignment to the public field _repeat.
SetRepeat(o, on) ==
    /\ timeout[o].created
    /\ timeout[o].repeat # on
    /\ timeout' = [timeout EXCEPT ![o].repeat = on]
    /\ UNCHANGED <<lastAbortId, abortHandles, unrefedTimers, task, owner>>

ProgramStep(calls) ==
    /\ running # NoTask
    /\ \E o \in Timeouts :
        \/ "setTimeout" \in calls /\ Set(o, FALSE)
        \/ "setInterval" \in calls /\ Set(o, TRUE)
        \/ "ref" \in calls /\ Ref(o)
        \/ "unref" \in calls /\ timeout[o].id \in abortHandles /\ Unref(o)
        \/ "unrefDead" \in calls /\ timeout[o].id \notin abortHandles /\ Unref(o)
        \/ "refresh" \in calls /\ Refresh(o)
        \/ "close" \in calls /\ Close(o)
        \/ "clearById" \in calls /\ \E k \in Id : ClearById(k)
        \/ "repeat" \in calls /\ \E on \in BOOLEAN : SetRepeat(o, on)
    /\ UNCHANGED <<running, currentId>>

-----------------------------------------------------------------------------
(* The tasks.                                                                *)

Wake(k) ==
    /\ running = NoTask
    /\ task[k] = "sleeping"
    /\ task' = [task EXCEPT ![k] = "callback"]
    /\ running' = k
    /\ currentId' = timeout[owner[k]].id
    /\ UNCHANGED <<lastAbortId, abortHandles, unrefedTimers, owner, timeout>>

\* The `finally` of the wrapped callback re-arms a one-shot whose _repeat is
\* set, again and again.
Repeats(o) ==
    /\ ~timeout[o].destroyed
    /\ timeout[o].id = currentId
    /\ ~timeout[o].isInterval
    /\ timeout[o].repeat

\* When the keys of the model are used up, the new task takes the key of the
\* one that ends: nothing refers to that any more.
RearmInPlace(k, o) ==
    /\ lastAbortId = MaxId
    /\ task' = [task EXCEPT ![k] = "rearmed"]
    /\ abortHandles' = abortHandles \cup {k}
    /\ unrefedTimers' = IF timeout[o].refed THEN unrefedTimers \ {k}
                        ELSE unrefedTimers \cup {k}
    /\ UNCHANGED <<lastAbortId, owner, timeout>>

CallbackReturn ==
    \E k \in Id, o \in Timeouts :
        /\ running = k /\ o = owner[k]
        /\ task[k] = "callback"
        /\ \/ /\ Repeats(o)
              /\ Schedule(o, timeout[o], abortHandles,
                          [task EXCEPT ![k] = "jobs"])
              /\ unrefedTimers' = IF timeout[o].refed THEN unrefedTimers
                                  ELSE unrefedTimers \cup {lastAbortId}
           \/ Repeats(o) /\ RearmInPlace(k, o)
           \/ /\ ~Repeats(o)
              /\ task' = [task EXCEPT ![k] = "jobs"]
              /\ UNCHANGED <<lastAbortId, abortHandles, unrefedTimers, owner,
                             timeout>>
        /\ UNCHANGED <<running, currentId>>

\* An interval, or the task that follows in place, unless it was cleared.
SleepsAgain(k) ==
    /\ timeout[owner[k]].isInterval \/ task[k] = "rearmed"
    /\ k \in abortHandles

\* Faulty variant: a task that ends leaves its key in unrefed_timers.
TurnEndKeepingUnref ==
    \E k \in Id :
        /\ running = k
        /\ task[k] \in {"jobs", "rearmed"}
        /\ running' = NoTask
        /\ IF SleepsAgain(k)
           THEN task' = [task EXCEPT ![k] = "sleeping"] /\ UNCHANGED abortHandles
           ELSE task' = [task EXCEPT ![k] = "done"] /\ abortHandles' = abortHandles \ {k}
        /\ UNCHANGED <<lastAbortId, owner, timeout, currentId, unrefedTimers>>

\* The rest of scheduled_task after the pending jobs: an interval that is still
\* in abort_handles sleeps again, any other task ends and the spawned wrapper
\* forgets its key.
TurnEnd ==
    \E k \in Id :
        /\ running = k
        /\ task[k] \in {"jobs", "rearmed"}
        /\ running' = NoTask
        /\ \/ /\ SleepsAgain(k)
              /\ task' = [task EXCEPT ![k] = "sleeping"]
              /\ UNCHANGED <<abortHandles, unrefedTimers>>
           \/ /\ ~SleepsAgain(k)
              /\ task' = [task EXCEPT ![k] = "done"]
              /\ abortHandles' = abortHandles \ {k}
              /\ unrefedTimers' = unrefedTimers \ {k}
        /\ UNCHANGED <<lastAbortId, owner, timeout, currentId>>

\* The wrapper of an aborted task is polled and forgets its key.
Reap(k) ==
    /\ running = NoTask
    /\ task[k] = "aborted"
    /\ task' = [task EXCEPT ![k] = "done"]
    /\ abortHandles' = abortHandles \ {k}
    /\ unrefedTimers' = unrefedTimers \ {k}
    /\ UNCHANGED <<lastAbortId, owner, timeout, running, currentId>>

OtherTurn ==
    /\ running = NoTask
    /\ running' = OtherTask
    /\ UNCHANGED <<lastAbortId, abortHandles, unrefedTimers, task, owner,
                   timeout, currentId>>

OtherTurnEnd ==
    /\ running = OtherTask
    /\ running' = NoTask
    /\ UNCHANGED <<lastAbortId, abortHandles, unrefedTimers, task, owner,
                   timeout, currentId>>

TimerTasks ==
    \/ \E k \in Id : Wake(k) \/ Reap(k)
    \/ CallbackReturn
    \/ TurnEnd

TimersNext ==
    \/ ProgramStep(Calls)
    \/ TimerTasks
    \/ OtherTurn
    \/ OtherTurnEnd

TimersSpec == TimersInit /\ [][TimersNext]_timerVars

-----------------------------------------------------------------------------
(* The abstract service these tasks implement.                               *)

ArmedState(o) ==
    IF timeout[o].destroyed THEN "closed"
    ELSE IF /\ timeout[o].created
            /\ timeout[o].id \in abortHandles
            /\ \/ task[timeout[o].id] \in {"sleeping", "rearmed"}
               \/ timeout[o].isInterval
    THEN "armed" ELSE "idle"

Service == INSTANCE TimerService WITH
    None <- NoTask,
    armed <- [o \in Timeouts |-> ArmedState(o)],
    firing <- IF running \in Id THEN owner[running] ELSE NoTask,
    interval <- [o \in Timeouts |-> timeout[o].isInterval]

\* Whatever the program calls, in whatever turn, the timers behave as the
\* abstract service: no callback of a Timeout that is not armed, one per arming
\* of a one-shot, none after close().
ImplementsService == Service!Spec

-----------------------------------------------------------------------------
(* Properties.                                                               *)

\* A key is in abort_handles exactly while its task can still be polled into
\* its callback or is in it: schedule, clear_schedule and the wrapper's own
\* clean-up keep the map and the tasks in step in every order of their turns.
HandlesAreLive ==
    \A k \in Id :
        /\ k \in abortHandles => task[k] \in {"sleeping", "callback", "jobs", "rearmed"}
        /\ task[k] = "sleeping" => k \in abortHandles

\* At most one native task can call back into a Timeout, the one its _id
\* names, and none into a destroyed one: whatever refresh(), the _repeat
\* conversion, close() and clearTimeout() do in the callback or between turns.
OneLiveTaskPerTimeout ==
    \A k \in abortHandles :
        task[k] # "jobs" \/ timeout[owner[k]].isInterval =>
            /\ timeout[owner[k]].created
            /\ ~timeout[owner[k]].destroyed
            /\ timeout[owner[k]].id = k

\* A program that unref()s live timers only leaves no stale key in
\* unrefed_timers: the sentinel of drain_and_idle compares sizes of the two.
UnrefedAreLive == "unrefDead" \notin Calls => unrefedTimers \subseteq abortHandles

\* What the two above rest on: keys are handed out once, a task is past its
\* wake-up only in its own turn, the callback in progress saw its own key, and
\* a Timeout's _id names a task that calls back into it, as every task does
\* into a Timeout that was created.
KeysAreFresh == \A k \in Id : task[k] = "none" <=> lastAbortId <= k
TurnsAreExclusive ==
    \A k \in Id : task[k] \in {"callback", "jobs", "rearmed"} <=> running = k
CallbackSawItsKey == running \in Id => currentId = running
IdsAreOwned ==
    /\ \A o \in Timeouts :
        IF timeout[o].created
        THEN timeout[o].id < lastAbortId /\ owner[timeout[o].id] = o
        ELSE ~timeout[o].destroyed /\ ~timeout[o].isInterval
    /\ \A k \in Id : task[k] # "none" => timeout[owner[k]].created

\* The inductive invariant of the timers: a key never means two things.
TimersInv ==
    /\ TypeOK
    /\ KeysAreFresh
    /\ TurnsAreExclusive
    /\ CallbackSawItsKey
    /\ IdsAreOwned
    /\ HandlesAreLive
    /\ OneLiveTaskPerTimeout

\* Once a Timeout is destroyed it stays so and no callback of it starts.
DestroyedNeverFires ==
    [][\A o \in Timeouts : timeout[o].destroyed =>
          /\ timeout'[o].destroyed
          /\ ~\E k \in Id : task[k] # "callback" /\ task'[k] = "callback"
                            /\ owner[k] = o]_timerVars

\* A live key the sentinel may abort is that of a Timeout whose hasRef() is false, and, in
\* programs without refresh(), the other way round.  (refresh() clears the key and schedules
\* a ref'd one, while _refed stays false.)
UnrefAgrees ==
    \A o \in Timeouts : timeout[o].created /\ timeout[o].id \in abortHandles =>
        /\ timeout[o].id \in unrefedTimers => ~timeout[o].refed
        /\ "refresh" \notin Calls /\ ~timeout[o].refed => timeout[o].id \in unrefedTimers
=============================================================================
