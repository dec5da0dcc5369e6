----------------------------- MODULE FetchProof -----------------------------
(* Proofs about the event loop of an exported call, about the bodies of a     *)
(* Response and its clones, and about an XMLHttpRequest.  First the timers:   *)
(* their inductive invariant, action by action, and the properties that       *)
(* follow from it, by lemmas about single actions, which the larger           *)
(* next-state relation of the loop uses too.                                  *)
EXTENDS MCFetch, Sequences, FiniteSetTheorems, TLAPS

\* The initial state satisfies the invariant.
LEMMA InitInv == TimersInit => TimersInv
BY TimersAssumption DEF TimersInit, TimersInv, TypeOK, KeysAreFresh, TurnsAreExclusive,
   CallbackSawItsKey, IdsAreOwned, HandlesAreLive, OneLiveTaskPerTimeout, Id, NoTask,
   OtherTask, TaskStates, TimeoutFields

\* The two updates of a Timeout's fields that schedule a task: of its _id
\* alone, and of those the constructor sets.
LEMMA WithId ==
    ASSUME NEW f \in TimeoutFields, NEW n \in Nat
    PROVE  LET g == [f EXCEPT !.id = n] IN
           /\ g \in TimeoutFields
           /\ g.id = n
           /\ g.created = f.created /\ g.destroyed = f.destroyed
           /\ g.isInterval = f.isInterval /\ g.refed = f.refed
BY DEF TimeoutFields

LEMMA Constructed ==
    ASSUME NEW f \in TimeoutFields, NEW b \in BOOLEAN
    PROVE  LET g == [f EXCEPT !.created = TRUE, !.isInterval = b, !.repeat = b] IN
           /\ g \in TimeoutFields
           /\ g.created /\ g.destroyed = f.destroyed /\ g.refed = f.refed
           /\ g.isInterval = b
BY DEF TimeoutFields

\* A schedule() keeps the invariant when the fields it stores are those of a
\* live Timeout and what it leaves of the Timeout's earlier tasks (H, T after a
\* clear_schedule or at the end of a callback) cannot call back any more.
LEMMA ScheduleInv ==
    ASSUME TimersInv,
           NEW o \in Timeouts, NEW f \in TimeoutFields,
           NEW H \in SUBSET abortHandles, NEW T \in [Id -> TaskStates],
           Schedule(o, f, H, T),
           UNCHANGED <<running, currentId>>, unrefedTimers' \subseteq Nat,
           f.created, ~f.destroyed,
           \A k \in Id : T[k] = "none" <=> task[k] = "none",
           \A k \in Id : T[k] \in {"callback", "jobs", "rearmed"} <=> running = k,
           \A k \in H : T[k] \in {"sleeping", "callback", "jobs", "rearmed"},
           \A k \in Id : T[k] = "sleeping" => k \in H,
           \A k \in H : owner[k] = o => T[k] = "jobs" /\ ~f.isInterval,
           \A k \in H : owner[k] # o => (T[k] = "jobs" <=> task[k] = "jobs")
    PROVE  TimersInv'
<1> USE TimersAssumption DEF TimersInv, TypeOK, Id, NoTask, OtherTask, TaskStates
<1> DEFINE n == lastAbortId
           g == [f EXCEPT !.id = n]
<1>a. /\ g \in TimeoutFields /\ g.id = n /\ g.created /\ ~g.destroyed
      /\ g.isInterval = f.isInterval
  BY WithId
<1>b. /\ n \in Id /\ lastAbortId' = n + 1
      /\ abortHandles' = H \cup {n}
      /\ task' = [T EXCEPT ![n] = "sleeping"]
      /\ owner' = [owner EXCEPT ![n] = o]
      /\ timeout' = [timeout EXCEPT ![o] = g]
  BY DEF Schedule
<1>c. T[n] = "none" /\ n \notin H /\ running # n
  BY <1>b DEF KeysAreFresh
<1> HIDE DEF g
<1>1. TypeOK'
  BY <1>a, <1>b
<1>2. KeysAreFresh' /\ TurnsAreExclusive' /\ CallbackSawItsKey'
  BY <1>b, <1>c DEF KeysAreFresh, TurnsAreExclusive, CallbackSawItsKey
<1>3. IdsAreOwned'
  <2>1. \A p \in Timeouts : timeout[p].id \in Nat
    BY DEF TimeoutFields
  <2>2. ASSUME NEW p \in Timeouts
        PROVE  IF timeout'[p].created
               THEN timeout'[p].id < lastAbortId' /\ owner'[timeout'[p].id] = p
               ELSE ~timeout'[p].destroyed /\ ~timeout'[p].isInterval
    <3>1. CASE p = o
      BY <1>a, <1>b, <3>1
    <3>2. CASE p # o
      BY <1>b, <2>1, <3>2 DEF IdsAreOwned
    <3> QED BY <3>1, <3>2
  <2>3. ASSUME NEW k \in Id, task'[k] # "none" PROVE timeout'[owner'[k]].created
    BY <1>a, <1>b, <2>3 DEF IdsAreOwned
  <2> QED BY <2>2, <2>3 DEF IdsAreOwned
<1>4. HandlesAreLive'
  BY <1>b, <1>c DEF HandlesAreLive
<1>5. ASSUME NEW k \in abortHandles', task'[k] # "jobs" \/ timeout'[owner'[k]].isInterval
      PROVE  /\ timeout'[owner'[k]].created
             /\ ~timeout'[owner'[k]].destroyed
             /\ timeout'[owner'[k]].id = k
  <2>1. CASE k = n
    BY <1>a, <1>b, <2>1
  <2>2. CASE k # n
    <3>1. k \in H /\ owner'[k] = owner[k] /\ task'[k] = T[k]
      BY <1>b, <2>2
    <3>2. owner[k] # o
      BY <1>5, <1>a, <1>b, <3>1
    <3>3. timeout'[owner'[k]] = timeout[owner[k]]
      BY <1>b, <3>1, <3>2
    <3> QED BY <1>5, <3>1, <3>2, <3>3 DEF OneLiveTaskPerTimeout
  <2> QED BY <2>1, <2>2
<1> QED BY <1>1, <1>2, <1>3, <1>4, <1>5 DEF OneLiveTaskPerTimeout

\* A call of the program keeps it, whichever calls are allowed.
LEMMA ProgramInv ==
    ASSUME NEW allowed, TimersInv, ProgramStep(allowed)
    PROVE  TimersInv'
<1> USE TimersAssumption DEF TimersInv, TypeOK, Id, NoTask, OtherTask, TaskStates
<1>0. UNCHANGED <<running, currentId>> /\ running # NoTask
  BY DEF ProgramStep
<1>1. PICK o \in Timeouts :
        \/ \E interval \in BOOLEAN : Set(o, interval)
        \/ Ref(o) \/ Unref(o) \/ Refresh(o) \/ Close(o)
        \/ \E k \in Id : ClearById(k)
        \/ \E on \in BOOLEAN : SetRepeat(o, on)
  BY DEF ProgramStep
<1>2. ASSUME NEW interval \in BOOLEAN, Set(o, interval) PROVE TimersInv'
  <2> DEFINE f == [timeout[o] EXCEPT !.created = TRUE, !.isInterval = interval,
                                    !.repeat = interval]
  <2>1. f \in TimeoutFields /\ f.created /\ f.destroyed = timeout[o].destroyed
    BY Constructed
  <2>2. ~timeout[o].created /\ Schedule(o, f, abortHandles, task) /\ UNCHANGED unrefedTimers
    BY <1>2 DEF Set
  <2> HIDE DEF f
  <2>3. ~f.destroyed /\ \A k \in abortHandles : owner[k] # o
    BY <2>1, <2>2 DEF IdsAreOwned, HandlesAreLive
  <2>4. /\ \A k \in Id : task[k] \in {"callback", "jobs", "rearmed"} <=> running = k
        /\ \A k \in abortHandles : task[k] \in {"sleeping", "callback", "jobs", "rearmed"}
        /\ \A k \in Id : task[k] = "sleeping" => k \in abortHandles
        /\ task \in [Id -> TaskStates] /\ unrefedTimers' \subseteq Nat
    BY <2>2 DEF HandlesAreLive, TurnsAreExclusive
  <2> HIDE DEF TimersInv, TypeOK, Id, TaskStates
  <2> QED BY <1>0, <2>1, <2>2, <2>3, <2>4, ScheduleInv
<1>3. CASE Ref(o)
  <2>1. TypeOK'
    BY <1>0, <1>3 DEF Ref, TimeoutFields
  <2>2. KeysAreFresh' /\ TurnsAreExclusive' /\ CallbackSawItsKey'
    BY <1>0, <1>3 DEF Ref, KeysAreFresh, TurnsAreExclusive, CallbackSawItsKey
  <2>3. IdsAreOwned'
    BY <1>0, <1>3 DEF Ref, IdsAreOwned, TimeoutFields
  <2>4. HandlesAreLive'
    BY <1>0, <1>3 DEF Ref, HandlesAreLive, KeysAreFresh
  <2>5. OneLiveTaskPerTimeout'
    BY <1>0, <1>3 DEF Ref, HandlesAreLive, KeysAreFresh, IdsAreOwned, TurnsAreExclusive,
       CallbackSawItsKey, OneLiveTaskPerTimeout, TimeoutFields
  <2> QED BY <2>1, <2>2, <2>3, <2>4, <2>5
<1>4. CASE Unref(o)
  <2>1. TypeOK'
    BY <1>0, <1>4 DEF Unref, TimeoutFields
  <2>2. KeysAreFresh' /\ TurnsAreExclusive' /\ CallbackSawItsKey'
    BY <1>0, <1>4 DEF Unref, KeysAreFresh, TurnsAreExclusive, CallbackSawItsKey
  <2>3. IdsAreOwned'
    BY <1>0, <1>4 DEF Unref, IdsAreOwned, TimeoutFields
  <2>4. HandlesAreLive'
    BY <1>0, <1>4 DEF Unref, HandlesAreLive, KeysAreFresh
  <2>5. OneLiveTaskPerTimeout'
    BY <1>0, <1>4 DEF Unref, HandlesAreLive, KeysAreFresh, IdsAreOwned, TurnsAreExclusive,
       CallbackSawItsKey, OneLiveTaskPerTimeout, TimeoutFields
  <2> QED BY <2>1, <2>2, <2>3, <2>4, <2>5
<1>5. CASE Refresh(o)
  <2> DEFINE id == timeout[o].id
             H == abortHandles \ {id}
             T == AbortedTasks({id})
  <2>1. /\ timeout[o].created /\ ~timeout[o].destroyed
        /\ Schedule(o, timeout[o], H, T) /\ unrefedTimers' \subseteq Nat
    BY <1>5 DEF Refresh
  <2>2. /\ T \in [Id -> TaskStates]
        /\ \A k \in Id : T[k] = IF k = id /\ k \in abortHandles /\ task[k] = "sleeping"
                               THEN "aborted" ELSE task[k]
    BY DEF AbortedTasks
  <2> HIDE DEF T
  <2>3. \A k \in H : owner[k] = o => T[k] = "jobs" /\ ~timeout[o].isInterval
    BY <2>1, <2>2 DEF OneLiveTaskPerTimeout
  <2>4. /\ \A k \in Id : T[k] = "none" <=> task[k] = "none"
        /\ \A k \in Id : T[k] \in {"callback", "jobs", "rearmed"} <=> running = k
        /\ \A k \in H : T[k] \in {"sleeping", "callback", "jobs", "rearmed"}
        /\ \A k \in Id : T[k] = "sleeping" => k \in H
        /\ \A k \in H : T[k] = task[k]
        /\ timeout[o] \in TimeoutFields /\ H \in SUBSET abortHandles
    BY <2>2 DEF HandlesAreLive, TurnsAreExclusive
  <2> HIDE DEF TimersInv, TypeOK, Id, TaskStates, H
  <2> QED BY <1>0, <2>1, <2>2, <2>3, <2>4, ScheduleInv
<1>6. CASE Close(o)
  <2>1. TypeOK'
    BY <1>0, <1>6 DEF Close, ClearSchedule, AbortedTasks, TimeoutFields
  <2>2. KeysAreFresh' /\ TurnsAreExclusive' /\ CallbackSawItsKey'
    BY <1>0, <1>6 DEF Close, ClearSchedule, AbortedTasks, KeysAreFresh, TurnsAreExclusive, CallbackSawItsKey
  <2>3. IdsAreOwned'
    BY <1>0, <1>6 DEF Close, ClearSchedule, AbortedTasks, IdsAreOwned, TimeoutFields
  <2>4. HandlesAreLive'
    BY <1>0, <1>6 DEF Close, ClearSchedule, AbortedTasks, HandlesAreLive, KeysAreFresh
  <2>5. OneLiveTaskPerTimeout'
    BY <1>0, <1>6 DEF Close, ClearSchedule, AbortedTasks, HandlesAreLive, KeysAreFresh, IdsAreOwned, TurnsAreExclusive,
       CallbackSawItsKey, OneLiveTaskPerTimeout, TimeoutFields
  <2> QED BY <2>1, <2>2, <2>3, <2>4, <2>5
<1>7. ASSUME NEW k \in Id, ClearById(k) PROVE TimersInv'
  <2>1. TypeOK'
    BY <1>0, <1>7 DEF ClearById, ClearSchedule, AbortedTasks
  <2>2. KeysAreFresh' /\ TurnsAreExclusive' /\ CallbackSawItsKey'
    BY <1>0, <1>7 DEF ClearById, ClearSchedule, AbortedTasks, KeysAreFresh, TurnsAreExclusive, CallbackSawItsKey
  <2>3. IdsAreOwned'
    BY <1>0, <1>7 DEF ClearById, ClearSchedule, AbortedTasks, IdsAreOwned
  <2>4. HandlesAreLive'
    BY <1>0, <1>7 DEF ClearById, ClearSchedule, AbortedTasks, HandlesAreLive, KeysAreFresh
  <2>5. OneLiveTaskPerTimeout'
    BY <1>0, <1>7 DEF ClearById, ClearSchedule, AbortedTasks, HandlesAreLive, KeysAreFresh, IdsAreOwned, TurnsAreExclusive,
       CallbackSawItsKey, OneLiveTaskPerTimeout
  <2> QED BY <2>1, <2>2, <2>3, <2>4, <2>5
<1>8. ASSUME NEW on \in BOOLEAN, SetRepeat(o, on) PROVE TimersInv'
  <2>1. TypeOK'
    BY <1>0, <1>8 DEF SetRepeat, TimeoutFields
  <2>2. KeysAreFresh' /\ TurnsAreExclusive' /\ CallbackSawItsKey'
    BY <1>0, <1>8 DEF SetRepeat, KeysAreFresh, TurnsAreExclusive, CallbackSawItsKey
  <2>3. IdsAreOwned'
    BY <1>0, <1>8 DEF SetRepeat, IdsAreOwned, TimeoutFields
  <2>4. HandlesAreLive'
    BY <1>0, <1>8 DEF SetRepeat, HandlesAreLive, KeysAreFresh
  <2>5. OneLiveTaskPerTimeout'
    BY <1>0, <1>8 DEF SetRepeat, HandlesAreLive, KeysAreFresh, IdsAreOwned, TurnsAreExclusive,
       CallbackSawItsKey, OneLiveTaskPerTimeout, TimeoutFields
  <2> QED BY <2>1, <2>2, <2>3, <2>4, <2>5
<1> QED BY <1>1, <1>2, <1>3, <1>4, <1>5, <1>6, <1>7, <1>8

\* Every step of a timer's task keeps it.
LEMMA TasksInv == TimersInv /\ TimerTasks => TimersInv'
<1> USE TimersAssumption DEF TimersInv, TypeOK, Id, NoTask, OtherTask, TaskStates
<1> SUFFICES ASSUME TimersInv, TimerTasks PROVE TimersInv'
  OBVIOUS
<1>1. ASSUME NEW k \in Id, Wake(k) PROVE TimersInv'
  <2>1. TypeOK'
    BY <1>1 DEF Wake, TimeoutFields
  <2>2. KeysAreFresh' /\ TurnsAreExclusive' /\ CallbackSawItsKey'
    BY <1>1 DEF Wake, KeysAreFresh, TurnsAreExclusive, CallbackSawItsKey, HandlesAreLive,
       OneLiveTaskPerTimeout
  <2>3. IdsAreOwned'
    BY <1>1 DEF Wake, IdsAreOwned
  <2>4. HandlesAreLive'
    BY <1>1 DEF Wake, HandlesAreLive, KeysAreFresh
  <2>5. OneLiveTaskPerTimeout'
    BY <1>1 DEF Wake, HandlesAreLive, KeysAreFresh, IdsAreOwned, TurnsAreExclusive,
       CallbackSawItsKey, OneLiveTaskPerTimeout
  <2> QED BY <2>1, <2>2, <2>3, <2>4, <2>5
<1>2. ASSUME NEW k \in Id, Reap(k) PROVE TimersInv'
  <2>1. TypeOK'
    BY <1>2 DEF Reap
  <2>2. KeysAreFresh' /\ TurnsAreExclusive' /\ CallbackSawItsKey'
    BY <1>2 DEF Reap, KeysAreFresh, TurnsAreExclusive, CallbackSawItsKey
  <2>3. IdsAreOwned'
    BY <1>2 DEF Reap, IdsAreOwned
  <2>4. HandlesAreLive'
    BY <1>2 DEF Reap, HandlesAreLive, KeysAreFresh
  <2>5. OneLiveTaskPerTimeout'
    BY <1>2 DEF Reap, HandlesAreLive, KeysAreFresh, IdsAreOwned, TurnsAreExclusive,
       CallbackSawItsKey, OneLiveTaskPerTimeout
  <2> QED BY <2>1, <2>2, <2>3, <2>4, <2>5
<1>3. CASE CallbackReturn
  <2>0. PICK k \in Id : running = k /\ task[k] = "callback" /\ UNCHANGED <<running, currentId>>
        /\ \/ /\ Repeats(owner[k])
              /\ Schedule(owner[k], timeout[owner[k]], abortHandles, [task EXCEPT ![k] = "jobs"])
           \/ Repeats(owner[k]) /\ RearmInPlace(k, owner[k])
           \/ /\ task' = [task EXCEPT ![k] = "jobs"]
              /\ UNCHANGED <<lastAbortId, abortHandles, owner, timeout>>
    BY <1>3 DEF CallbackReturn
  <2>a. unrefedTimers' \subseteq Nat
    BY <1>3 DEF CallbackReturn, Schedule, RearmInPlace
  <2>b. CASE /\ task' = [task EXCEPT ![k] = "jobs"]
             /\ UNCHANGED <<lastAbortId, abortHandles, owner, timeout>>
    BY <2>0, <2>a, <2>b DEF KeysAreFresh, TurnsAreExclusive, CallbackSawItsKey, IdsAreOwned,
       HandlesAreLive, OneLiveTaskPerTimeout
  <2>c. CASE /\ Repeats(owner[k])
             /\ Schedule(owner[k], timeout[owner[k]], abortHandles, [task EXCEPT ![k] = "jobs"])
    <3> DEFINE o == owner[k]
               T == [task EXCEPT ![k] = "jobs"]
    <3>1. /\ ~timeout[o].destroyed /\ ~timeout[o].isInterval /\ timeout[o].created
          /\ timeout[o].id = k
      BY <2>0, <2>c DEF Repeats, IdsAreOwned, CallbackSawItsKey
    <3>2. \A i \in abortHandles : owner[i] = o => T[i] = "jobs"
      BY <3>1 DEF OneLiveTaskPerTimeout
    <3>3. /\ \A i \in Id : T[i] = "none" <=> task[i] = "none"
          /\ \A i \in Id : T[i] \in {"callback", "jobs", "rearmed"} <=> running = i
          /\ \A i \in abortHandles : T[i] \in {"sleeping", "callback", "jobs", "rearmed"}
          /\ \A i \in Id : T[i] = "sleeping" => i \in abortHandles
          /\ \A i \in abortHandles : owner[i] # o => T[i] = task[i]
          /\ T \in [Id -> TaskStates]
          /\ o \in Timeouts /\ timeout[o] \in TimeoutFields
      BY <2>0 DEF HandlesAreLive, TurnsAreExclusive
    <3> HIDE DEF TimersInv, TypeOK, Id, TaskStates, o, T
    <3>4. Schedule(o, timeout[o], abortHandles, T)
      BY <2>c DEF o, T
    <3> QED BY <2>0, <2>a, <3>1, <3>2, <3>3, <3>4, ScheduleInv
  <2>d. CASE Repeats(owner[k]) /\ RearmInPlace(k, owner[k])
    <3>1. /\ timeout[owner[k]].created /\ ~timeout[owner[k]].destroyed
          /\ timeout[owner[k]].id = k
      BY <2>0, <2>d DEF Repeats, IdsAreOwned, CallbackSawItsKey
    <3>2. /\ task' = [task EXCEPT ![k] = "rearmed"] /\ abortHandles' = abortHandles \cup {k}
          /\ UNCHANGED <<lastAbortId, owner, timeout>>
      BY <2>d DEF RearmInPlace
    <3>3. TypeOK' /\ KeysAreFresh' /\ TurnsAreExclusive' /\ CallbackSawItsKey'
      BY <2>0, <2>a, <3>2 DEF KeysAreFresh, TurnsAreExclusive, CallbackSawItsKey
    <3>4. IdsAreOwned' /\ HandlesAreLive'
      BY <2>0, <3>2 DEF IdsAreOwned, HandlesAreLive
    <3>5. OneLiveTaskPerTimeout'
      BY <2>0, <3>1, <3>2 DEF OneLiveTaskPerTimeout
    <3> QED BY <3>3, <3>4, <3>5
  <2> QED BY <2>0, <2>b, <2>c, <2>d
<1>4. CASE TurnEnd
  <2> USE DEF SleepsAgain
  <2>1. TypeOK'
    BY <1>4 DEF TurnEnd
  <2>2. KeysAreFresh' /\ TurnsAreExclusive' /\ CallbackSawItsKey'
    <3>1. PICK k \in Id : /\ running = k /\ task[k] \in {"jobs", "rearmed"} /\ running' = NoTask
                          /\ \/ task' = [task EXCEPT ![k] = "sleeping"]
                             \/ task' = [task EXCEPT ![k] = "done"]
                          /\ UNCHANGED <<lastAbortId, currentId>>
      BY <1>4 DEF TurnEnd
    <3> QED BY <3>1 DEF KeysAreFresh, TurnsAreExclusive, CallbackSawItsKey
  <2>3. IdsAreOwned'
    BY <1>4 DEF TurnEnd, IdsAreOwned
  <2>4. HandlesAreLive'
    BY <1>4 DEF TurnEnd, HandlesAreLive, KeysAreFresh
  <2>5. OneLiveTaskPerTimeout'
    <3> SUFFICES ASSUME NEW k \in abortHandles', task'[k] # "jobs" \/ timeout'[owner'[k]].isInterval
                 PROVE  k \in abortHandles /\ (task[k] # "jobs" \/ timeout[owner[k]].isInterval)
      BY <1>4 DEF TurnEnd, OneLiveTaskPerTimeout
    <3> QED BY <1>4 DEF TurnEnd, OneLiveTaskPerTimeout
  <2> QED BY <2>1, <2>2, <2>3, <2>4, <2>5
<1> QED BY <1>1, <1>2, <1>3, <1>4 DEF TimerTasks

\* So does the beginning and the end of any other turn.
LEMMA OtherTurnInv == TimersInv /\ (OtherTurn \/ OtherTurnEnd \/ UNCHANGED timerVars) => TimersInv'
<1> USE DEF TimersInv, TypeOK, Id, NoTask, OtherTask
<1> SUFFICES ASSUME TimersInv, OtherTurn \/ OtherTurnEnd \/ UNCHANGED timerVars
             PROVE  TimersInv'
  OBVIOUS
<1>1. UNCHANGED <<lastAbortId, abortHandles, unrefedTimers, task, owner, timeout, currentId>>
  BY DEF OtherTurn, OtherTurnEnd, timerVars
<1>2. IdsAreOwned' /\ HandlesAreLive' /\ OneLiveTaskPerTimeout' /\ KeysAreFresh'
  BY <1>1 DEF IdsAreOwned, HandlesAreLive, OneLiveTaskPerTimeout, KeysAreFresh
<1>3. TypeOK' /\ TurnsAreExclusive' /\ CallbackSawItsKey'
  BY <1>1 DEF OtherTurn, OtherTurnEnd, timerVars, TurnsAreExclusive, CallbackSawItsKey
<1> QED BY <1>2, <1>3

\* A native key never means two things: every reachable state satisfies the
\* inductive invariant, for any number of Timeouts and keys.
THEOREM TimersInvariant == TimersSpec => []TimersInv
<1>1. TimersInv /\ [TimersNext]_timerVars => TimersInv'
  BY ProgramInv, TasksInv, OtherTurnInv DEF TimersNext
<1> QED BY InitInv, <1>1, PTL DEF TimersSpec

-----------------------------------------------------------------------------
(* Unref'd keys.                                                             *)

\* No step of a program that spares dead timers, and no step of a task, leaves
\* an unref'd key without an abort handle.
LEMMA ProgramUnrefs ==
    ASSUME NEW allowed, TypeOK, ProgramStep(allowed), "unrefDead" \notin allowed,
           unrefedTimers \subseteq abortHandles
    PROVE  unrefedTimers' \subseteq abortHandles'
BY DEF ProgramStep, Set, Ref, Unref, Refresh, Close, ClearById, SetRepeat, Schedule,
   ClearSchedule

LEMMA TaskUnrefs ==
    ASSUME TypeOK, TimerTasks, unrefedTimers \subseteq abortHandles
    PROVE  unrefedTimers' \subseteq abortHandles'
BY DEF TimerTasks, Wake, Reap, CallbackReturn, TurnEnd, Schedule, RearmInPlace

\* For every program that never calls unref() on a Timeout whose native timer
\* is gone, unrefed_timers holds keys of live timers only.
THEOREM UnrefSound == TimersSpec => []UnrefedAreLive
<1>1. TimersInit => UnrefedAreLive
  BY DEF TimersInit, UnrefedAreLive
<1>2. TypeOK /\ UnrefedAreLive /\ [TimersNext]_timerVars => UnrefedAreLive'
  <2> SUFFICES ASSUME TypeOK, UnrefedAreLive, [TimersNext]_timerVars, "unrefDead" \notin Calls
               PROVE  unrefedTimers' \subseteq abortHandles'
    BY DEF UnrefedAreLive
  <2>1. unrefedTimers \subseteq abortHandles
    BY DEF UnrefedAreLive
  <2>2. CASE ProgramStep(Calls)
    BY <2>1, <2>2, ProgramUnrefs
  <2>3. CASE TimerTasks
    BY <2>1, <2>3, TaskUnrefs
  <2>4. CASE OtherTurn \/ OtherTurnEnd \/ UNCHANGED timerVars
    BY <2>1, <2>4 DEF OtherTurn, OtherTurnEnd, timerVars
  <2> QED BY <2>2, <2>3, <2>4 DEF TimersNext
<1>3. TimersSpec => []TypeOK
  BY TimersInvariant, PTL DEF TimersInv
<1> QED BY <1>1, <1>2, <1>3, PTL DEF TimersSpec

-----------------------------------------------------------------------------
(* What unref() did to a Timeout and to its key agree.                       *)

\* UnrefAgrees is not inductive alone: a key in unrefed_timers must be one that
\* schedule() has handed out, or the next Timeout would find its fresh key
\* there, and no program can unref() a Timeout it has not created.
UnrefInv ==
    /\ UnrefAgrees
    /\ \A k \in unrefedTimers : k < lastAbortId
    /\ \A o \in Timeouts : timeout[o].created \/ timeout[o].refed

\* A step that hands out no key and touches no _id or _refed keeps it, if a key
\* that keeps its handle stays in unrefed_timers or out of it.
LEMMA UnrefFrame ==
    ASSUME UnrefInv, UNCHANGED lastAbortId,
           abortHandles' \subseteq abortHandles,
           \A o \in Timeouts : /\ timeout'[o].created = timeout[o].created
                               /\ timeout'[o].id = timeout[o].id
                               /\ timeout'[o].refed = timeout[o].refed,
           unrefedTimers' \subseteq unrefedTimers,
           \A k \in abortHandles' : k \in unrefedTimers => k \in unrefedTimers'
    PROVE  UnrefInv'
<1>1. \A o \in Timeouts : timeout'[o].created /\ timeout'[o].id \in abortHandles' =>
        /\ timeout[o].created /\ timeout[o].id \in abortHandles
        /\ timeout'[o].id \in unrefedTimers' <=> timeout[o].id \in unrefedTimers
  OBVIOUS
<1>2. UnrefAgrees'
  BY <1>1 DEF UnrefInv, UnrefAgrees
<1>3. \A k \in unrefedTimers' : k < lastAbortId'
  BY DEF UnrefInv
<1>4. \A o \in Timeouts : timeout'[o].created \/ timeout'[o].refed
  BY DEF UnrefInv
<1> QED BY <1>2, <1>3, <1>4 DEF UnrefInv

\* A schedule() keeps it when the new key is in unrefed_timers exactly if the
\* Timeout is unref'd, and the handles that stay (H) keep their places in it.
LEMMA ScheduleUnref ==
    ASSUME TimersInv, UnrefInv,
           NEW o \in Timeouts, NEW f \in TimeoutFields,
           NEW H \in SUBSET abortHandles, NEW T,
           Schedule(o, f, H, T), f.created, unrefedTimers' \subseteq Nat,
           \A k \in H : k \in unrefedTimers' <=> k \in unrefedTimers,
           \A k \in unrefedTimers' : k <= lastAbortId,
           lastAbortId \in unrefedTimers' => ~f.refed,
           "refresh" \notin Calls /\ ~f.refed => lastAbortId \in unrefedTimers'
    PROVE  UnrefInv'
<1> USE TimersAssumption DEF TimersInv, TypeOK, Id
<1> DEFINE n == lastAbortId
           g == [f EXCEPT !.id = n]
<1>1. g.id = n /\ g.created /\ g.refed = f.refed
  BY WithId
<1>2. /\ n \in Nat /\ lastAbortId' = n + 1
      /\ abortHandles' = H \cup {n}
      /\ timeout' = [timeout EXCEPT ![o] = g]
  BY DEF Schedule
<1> HIDE DEF g
<1>3. timeout'[o] = g /\ \A p \in Timeouts \ {o} : timeout'[p] = timeout[p]
  BY <1>2
<1>4. ASSUME NEW p \in Timeouts, timeout'[p].created, timeout'[p].id \in abortHandles'
      PROVE  /\ timeout'[p].id \in unrefedTimers' => ~timeout'[p].refed
             /\ "refresh" \notin Calls /\ ~timeout'[p].refed => timeout'[p].id \in unrefedTimers'
  <2>1. CASE p = o
    BY <1>1, <1>3, <2>1
  <2>2. CASE p # o
    <3>1. timeout'[p] = timeout[p] /\ timeout[p].created
      BY <1>3, <1>4, <2>2
    <3>2. timeout[p].id < n
      BY <3>1 DEF IdsAreOwned
    <3>3. timeout[p].id \in H
      BY <1>2, <1>4, <3>1, <3>2
    <3> QED BY <3>1, <3>3 DEF UnrefInv, UnrefAgrees
  <2> QED BY <2>1, <2>2
<1>5. \A k \in unrefedTimers' : k < lastAbortId'
  BY <1>2
<1>6. \A p \in Timeouts : timeout'[p].created \/ timeout'[p].refed
  BY <1>1, <1>3 DEF UnrefInv
<1> QED BY <1>4, <1>5, <1>6 DEF UnrefInv, UnrefAgrees

\* The calls of the program keep it.
LEMMA ProgramUnrefInv ==
    ASSUME NEW allowed \in SUBSET Calls, TimersInv, UnrefInv, ProgramStep(allowed)
    PROVE  UnrefInv'
<1> USE DEF TimersInv, TypeOK
<1>0. /\ \A o \in Timeouts : timeout[o] \in TimeoutFields /\ timeout[o].id \in Nat
      /\ \A o \in Timeouts : timeout[o].created => timeout[o].id < lastAbortId
  BY DEF TimeoutFields, IdsAreOwned
<1>1. PICK o \in Timeouts :
        \/ \E interval \in BOOLEAN : Set(o, interval)
        \/ Ref(o) \/ Unref(o)
        \/ "refresh" \in Calls /\ Refresh(o)
        \/ Close(o)
        \/ \E k \in Id : ClearById(k)
        \/ \E on \in BOOLEAN : SetRepeat(o, on)
  BY DEF ProgramStep
<1>2. ASSUME NEW interval \in BOOLEAN, Set(o, interval) PROVE UnrefInv'
  <2> DEFINE f == [timeout[o] EXCEPT !.created = TRUE, !.isInterval = interval,
                                    !.repeat = interval]
  <2>1. f \in TimeoutFields /\ f.created /\ f.refed = timeout[o].refed
    BY Constructed
  <2>2. ~timeout[o].created /\ Schedule(o, f, abortHandles, task) /\ UNCHANGED unrefedTimers
    BY <1>2 DEF Set
  <2> HIDE DEF f
  <2>3. /\ f.refed /\ lastAbortId \notin unrefedTimers' /\ unrefedTimers' \subseteq Nat
        /\ \A k \in unrefedTimers' : k <= lastAbortId
    <3>1. \A k \in unrefedTimers : k < lastAbortId
      BY DEF UnrefInv
    <3>2. f.refed
      BY <2>1, <2>2 DEF UnrefInv
    <3> QED BY <2>2, <3>1, <3>2
  <2> HIDE DEF TimersInv, TypeOK
  <2> QED BY <2>1, <2>2, <2>3, ScheduleUnref
<1>3. CASE Ref(o) \/ Unref(o)
  <2>1. PICK b \in BOOLEAN :
          /\ timeout[o].created
          /\ timeout' = [timeout EXCEPT ![o] = [timeout[o] EXCEPT !.refed = b]]
          /\ b <=> timeout[o].id \notin unrefedTimers'
          /\ \A k \in Nat \ {timeout[o].id} : k \in unrefedTimers' <=> k \in unrefedTimers
          /\ unrefedTimers' \subseteq unrefedTimers \cup {timeout[o].id}
          /\ UNCHANGED <<lastAbortId, abortHandles>>
    BY <1>3 DEF Ref, Unref
  <2>2. /\ timeout'[o].created /\ timeout'[o].id = timeout[o].id /\ timeout'[o].refed = b
        /\ \A p \in Timeouts \ {o} : timeout'[p] = timeout[p]
    BY <1>0, <2>1 DEF TimeoutFields
  <2>3. ASSUME NEW p \in Timeouts \ {o}, timeout[p].created
        PROVE  timeout[p].id # timeout[o].id
    BY <2>1, <2>3 DEF IdsAreOwned
  <2>4. UnrefAgrees'
    BY <1>0, <2>1, <2>2, <2>3 DEF UnrefInv, UnrefAgrees
  <2>5. \A k \in unrefedTimers' : k < lastAbortId'
    BY <1>0, <2>1 DEF UnrefInv
  <2> QED BY <2>2, <2>4, <2>5 DEF UnrefInv
<1>4. CASE "refresh" \in Calls /\ Refresh(o)
  <2> DEFINE id == timeout[o].id
             H == abortHandles \ {id}
             T == AbortedTasks({id})
  <2>1. /\ timeout[o].created /\ Schedule(o, timeout[o], H, T)
        /\ unrefedTimers' = unrefedTimers \ {id} /\ H \in SUBSET abortHandles
    BY <1>4 DEF Refresh
  <2>2. /\ \A k \in unrefedTimers : k < lastAbortId
        /\ lastAbortId \in Nat
    BY TimersAssumption DEF UnrefInv
  <2>3. /\ \A k \in H : k \in unrefedTimers' <=> k \in unrefedTimers
        /\ \A k \in unrefedTimers' : k <= lastAbortId
        /\ lastAbortId \notin unrefedTimers' /\ unrefedTimers' \subseteq Nat
    <3>1. \A k \in unrefedTimers : k \in Nat /\ k <= lastAbortId /\ k # lastAbortId
      BY <2>2
    <3> QED BY <2>1, <3>1
  <2> HIDE DEF TimersInv, TypeOK, H, T
  <2> QED BY <1>0, <1>4, <2>1, <2>3, ScheduleUnref
<1>5. CASE Close(o) \/ (\E k \in Id : ClearById(k)) \/ (\E on \in BOOLEAN : SetRepeat(o, on))
  <2>1. \A p \in Timeouts : /\ timeout'[p].created = timeout[p].created
                            /\ timeout'[p].id = timeout[p].id
                            /\ timeout'[p].refed = timeout[p].refed
    BY <1>0, <1>5 DEF Close, ClearById, SetRepeat, TimeoutFields
  <2>2. \/ UNCHANGED <<abortHandles, unrefedTimers>>
        \/ \E k : /\ unrefedTimers' = unrefedTimers \ {k}
                 /\ abortHandles' = abortHandles \ {k}
    <3>1. \/ \E on \in BOOLEAN : SetRepeat(o, on)
          \/ \E k : ClearSchedule(k)
      BY <1>5 DEF Close, ClearById
    <3> QED BY <3>1 DEF SetRepeat, ClearSchedule
  <2>3. UNCHANGED lastAbortId
    BY <1>5 DEF Close, ClearById, SetRepeat
  <2> QED BY <2>1, <2>2, <2>3, UnrefFrame
<1> QED BY <1>1, <1>2, <1>3, <1>4, <1>5

\* So do the steps of the tasks: a one-shot that repeats takes its unref'd
\* state along to the new key.
LEMMA TasksUnrefInv ==
    ASSUME TimersInv, UnrefInv, TimerTasks
    PROVE  UnrefInv'
<1> USE DEF TimersInv, TypeOK
<1>1. CASE (\E k \in Id : Wake(k) \/ Reap(k)) \/ TurnEnd
  <2>1. UNCHANGED <<lastAbortId, timeout>>
    BY <1>1 DEF Wake, Reap, TurnEnd
  <2>2. \/ UNCHANGED <<abortHandles, unrefedTimers>>
        \/ \E k \in Id : /\ unrefedTimers' = unrefedTimers \ {k}
                         /\ abortHandles' = abortHandles \ {k}
    BY <1>1 DEF Wake, Reap, TurnEnd
  <2> QED BY <2>1, <2>2, UnrefFrame
<1>2. CASE CallbackReturn
  <2>1. PICK k \in Id, o \in Timeouts :
        /\ running = k /\ o = owner[k] /\ task[k] = "callback"
        /\ \/ /\ Schedule(o, timeout[o], abortHandles, [task EXCEPT ![k] = "jobs"])
              /\ unrefedTimers' = IF timeout[o].refed THEN unrefedTimers
                                  ELSE unrefedTimers \cup {lastAbortId}
           \/ Repeats(o) /\ RearmInPlace(k, o)
           \/ UNCHANGED <<lastAbortId, abortHandles, unrefedTimers, timeout>>
    BY <1>2 DEF CallbackReturn
  <2>2. CASE UNCHANGED <<lastAbortId, abortHandles, unrefedTimers, timeout>>
    BY <2>2, UnrefFrame
  <2>3. CASE /\ Schedule(o, timeout[o], abortHandles, [task EXCEPT ![k] = "jobs"])
             /\ unrefedTimers' = IF timeout[o].refed THEN unrefedTimers
                                 ELSE unrefedTimers \cup {lastAbortId}
    <3> DEFINE T == [task EXCEPT ![k] = "jobs"]
    <3>1. timeout[o].created /\ timeout[o] \in TimeoutFields
      BY <2>1 DEF IdsAreOwned
    <3>2. lastAbortId \in Nat /\ (\A i \in unrefedTimers : i < lastAbortId)
          /\ abortHandles \subseteq Nat /\ \A i \in abortHandles : i # lastAbortId
      BY TimersAssumption DEF UnrefInv, KeysAreFresh, HandlesAreLive, Id
    <3>3. /\ \A i \in abortHandles : i \in unrefedTimers' <=> i \in unrefedTimers
          /\ unrefedTimers' \subseteq Nat /\ \A i \in unrefedTimers' : i <= lastAbortId
          /\ lastAbortId \in unrefedTimers' => ~timeout[o].refed
          /\ ~timeout[o].refed => lastAbortId \in unrefedTimers'
      BY <2>3, <3>2
    <3> HIDE DEF TimersInv, TypeOK, T
    <3>4. Schedule(o, timeout[o], abortHandles, T)
      BY <2>3 DEF T
    <3> QED BY <3>1, <3>3, <3>4, ScheduleUnref
  <2>4. CASE Repeats(o) /\ RearmInPlace(k, o)
    <3>1. timeout[o].created /\ timeout[o].id = k /\ k < lastAbortId /\ k \in Nat
      BY <2>1, <2>4 DEF Repeats, IdsAreOwned, CallbackSawItsKey, Id
    <3>2. /\ UNCHANGED <<lastAbortId, timeout>> /\ abortHandles' = abortHandles \cup {k}
          /\ unrefedTimers' = IF timeout[o].refed THEN unrefedTimers \ {k}
                              ELSE unrefedTimers \cup {k}
      BY <2>4 DEF RearmInPlace
    <3>3. \A p \in Timeouts : timeout[p].created /\ timeout[p].id = k => p = o
      BY <2>1 DEF IdsAreOwned
    <3>4. UnrefAgrees'
      BY <3>1, <3>2, <3>3 DEF UnrefInv, UnrefAgrees
    <3>5. \A i \in unrefedTimers' : i < lastAbortId'
      BY <3>1, <3>2 DEF UnrefInv
    <3> QED BY <3>2, <3>4, <3>5 DEF UnrefInv
  <2> QED BY <2>1, <2>2, <2>3, <2>4
<1> QED BY <1>1, <1>2 DEF TimerTasks

\* The other turns do not touch it.
LEMMA OtherUnrefInv ==
    ASSUME UnrefInv, OtherTurn \/ OtherTurnEnd \/ UNCHANGED timerVars
    PROVE  UnrefInv'
BY UnrefFrame DEF OtherTurn, OtherTurnEnd, timerVars

\* In the initial state nothing is unref'd.
LEMMA InitUnrefInv == TimersInit => UnrefInv
BY DEF TimersInit, UnrefInv, UnrefAgrees

\* hasRef() and unrefed_timers agree about every live timer, for any program
\* and any number of Timeouts and keys.
THEOREM UnrefIsAgreed == TimersSpec => []UnrefAgrees
<1>1. TimersInv /\ UnrefInv /\ [TimersNext]_timerVars => UnrefInv'
  BY ProgramUnrefInv, TasksUnrefInv, OtherUnrefInv DEF TimersNext
<1>2. UnrefInv => UnrefAgrees
  BY DEF UnrefInv
<1> QED BY InitUnrefInv, <1>1, <1>2, TimersInvariant, PTL DEF TimersSpec

-----------------------------------------------------------------------------
(* Closing is final.                                                         *)

FiresDestroyed ==
    \E o \in Timeouts : timeout[o].destroyed /\
        \/ ~timeout'[o].destroyed
        \/ \E k \in Id : task[k] # "callback" /\ task'[k] = "callback" /\ owner[k] = o

\* No step reopens a destroyed Timeout or starts a callback of one.
LEMMA DestroyedStep ==
    ASSUME TimersInv, [TimersNext]_timerVars
    PROVE  ~FiresDestroyed
<1> USE DEF TimersInv, TypeOK
<1>1. ASSUME NEW o \in Timeouts, timeout[o].destroyed
      PROVE  timeout'[o].destroyed
  <2>1. timeout[o] \in TimeoutFields /\ timeout[o].created
    BY <1>1 DEF IdsAreOwned
  <2>2. \A p \in Timeouts : timeout[p] \in TimeoutFields
    OBVIOUS
  <2>3. CASE ProgramStep(Calls)
    <3>1. PICK p \in Timeouts :
            \/ \E interval \in BOOLEAN : Set(p, interval)
            \/ Ref(p) \/ Unref(p) \/ Refresh(p) \/ Close(p)
            \/ \E k \in Id : ClearById(k)
            \/ \E on \in BOOLEAN : SetRepeat(p, on)
      BY <2>3 DEF ProgramStep
    <3>2. CASE \E interval \in BOOLEAN : Set(p, interval)
      BY <1>1, <2>1, <3>2 DEF Set, Schedule
    <3>3. CASE Refresh(p)
      BY <1>1, <3>3 DEF Refresh, Schedule
    <3>4. CASE Ref(p) \/ Unref(p) \/ Close(p) \/ \E on \in BOOLEAN : SetRepeat(p, on)
      <4>1. \E f \in {[timeout[p] EXCEPT !.refed = TRUE], [timeout[p] EXCEPT !.refed = FALSE],
                      [timeout[p] EXCEPT !.destroyed = TRUE],
                      [timeout[p] EXCEPT !.repeat = TRUE], [timeout[p] EXCEPT !.repeat = FALSE]} :
              timeout' = [timeout EXCEPT ![p] = f]
        BY <3>4 DEF Ref, Unref, Close, SetRepeat
      <4> QED BY <1>1, <2>2, <4>1 DEF TimeoutFields
    <3>5. CASE \E k \in Id : ClearById(k)
      BY <1>1, <3>5 DEF ClearById
    <3> QED BY <3>1, <3>2, <3>3, <3>4, <3>5
  <2>4. CASE CallbackReturn
    BY <1>1, <2>4 DEF CallbackReturn, Repeats, Schedule, RearmInPlace
  <2>5. CASE UNCHANGED timeout
    BY <1>1, <2>5
  <2> QED BY <2>3, <2>4, <2>5
          DEF TimersNext, TimerTasks, Wake, Reap, TurnEnd, OtherTurn, OtherTurnEnd, timerVars
<1>2. ASSUME NEW k \in Id, task[k] # "callback", task'[k] = "callback"
      PROVE  Wake(k)
  BY <1>2
     DEF TimersNext, ProgramStep, Set, Ref, Unref, Refresh, Close, ClearById, SetRepeat,
     Schedule, ClearSchedule, AbortedTasks, TimerTasks, Wake, Reap, CallbackReturn,
     RearmInPlace, TurnEnd,
     OtherTurn, OtherTurnEnd, timerVars
<1>3. ASSUME NEW k \in Id, Wake(k)
      PROVE  ~timeout[owner[k]].destroyed
  BY <1>3 DEF Wake, HandlesAreLive, OneLiveTaskPerTimeout
<1> QED BY <1>1, <1>2, <1>3 DEF FiresDestroyed

\* However close(), refresh(), the _repeat conversion and the turns of the
\* tasks interleave, no callback of a closed Timeout ever starts.
THEOREM ClosingIsFinal == TimersSpec => DestroyedNeverFires
<1>1. TimersInv /\ [TimersNext]_timerVars =>
        [\A o \in Timeouts : timeout[o].destroyed =>
            /\ timeout'[o].destroyed
            /\ ~\E k \in Id : task[k] # "callback" /\ task'[k] = "callback"
                              /\ owner[k] = o]_timerVars
  BY DestroyedStep DEF FiresDestroyed
<1> QED BY <1>1, TimersInvariant, PTL DEF TimersSpec, DestroyedNeverFires

-----------------------------------------------------------------------------
(* The refinement of the abstract service.                                   *)

\* A Timeout whose fields and whose task are left alone keeps its state.
LEMMA ArmedFrame ==
    ASSUME TimersInv, NEW o \in Timeouts,
           timeout'[o].created = timeout[o].created,
           timeout'[o].destroyed = timeout[o].destroyed,
           timeout'[o].isInterval = timeout[o].isInterval,
           timeout'[o].id = timeout[o].id,
           timeout[o].created =>
              /\ timeout[o].id \in abortHandles' <=> timeout[o].id \in abortHandles
              /\ task'[timeout[o].id] \in {"sleeping", "rearmed"}
                   <=> task[timeout[o].id] \in {"sleeping", "rearmed"}
    PROVE  ArmedState(o)' = ArmedState(o)
BY DEF ArmedState

\* What a schedule() for o does to the abstract state: it arms o alone.
LEMMA ScheduleArms ==
    ASSUME TimersInv, NEW p \in Timeouts, NEW f \in TimeoutFields,
           NEW H \in SUBSET abortHandles, NEW T \in [Id -> TaskStates],
           Schedule(p, f, H, T),
           f.created, ~f.destroyed,
           \A k \in Id : owner[k] # p /\ task[k] # "none" =>
              (k \in H <=> k \in abortHandles) /\ T[k] = task[k]
    PROVE  /\ ArmedState(p)' = "armed"
           /\ timeout'[p].isInterval = f.isInterval
           /\ \A o \in Timeouts \ {p} : /\ ArmedState(o)' = ArmedState(o)
                                      /\ timeout'[o] = timeout[o]
<1> USE TimersAssumption DEF TimersInv, TypeOK, Id
<1> DEFINE n == lastAbortId
           g == [f EXCEPT !.id = n]
<1>a. g.id = n /\ g.created /\ ~g.destroyed /\ g.isInterval = f.isInterval
  BY WithId
<1>b. /\ n \in Id
      /\ abortHandles' = H \cup {n}
      /\ task' = [T EXCEPT ![n] = "sleeping"]
      /\ timeout' = [timeout EXCEPT ![p] = g]
  BY DEF Schedule
<1> HIDE DEF g
<1>1. ArmedState(p)' = "armed"
  BY <1>a, <1>b DEF ArmedState
<1>2. ASSUME NEW o \in Timeouts \ {p}
      PROVE  ArmedState(o)' = ArmedState(o) /\ timeout'[o] = timeout[o]
  <2>1. timeout'[o] = timeout[o] /\ timeout[o].id \in Nat
    BY <1>b DEF TimeoutFields
  <2>2. ASSUME timeout[o].created
        PROVE  /\ timeout[o].id \in Id /\ timeout[o].id # n /\ owner[timeout[o].id] = o
               /\ task[timeout[o].id] # "none"
    BY <1>b, <2>1, <2>2 DEF IdsAreOwned, KeysAreFresh
  <2>3. ASSUME timeout[o].created
        PROVE  /\ timeout[o].id \in abortHandles' <=> timeout[o].id \in abortHandles
               /\ task'[timeout[o].id] = task[timeout[o].id]
    BY <1>b, <2>2, <2>3
  <2> QED BY <2>1, <2>3, ArmedFrame
<1> QED BY <1>a, <1>b, <1>1, <1>2

\* A call of the program arms, disarms or closes one Timeout, or is invisible.
LEMMA ProgramServes ==
    ASSUME NEW allowed, TimersInv, ProgramStep(allowed)
    PROVE  [Service!Next]_(Service!vars)
<1> USE TimersAssumption DEF TimersInv, TypeOK
<1>0. UNCHANGED running /\ UNCHANGED (IF running \in Id THEN owner[running] ELSE NoTask)
  <2>1. UNCHANGED running
    BY DEF ProgramStep
  <2>2. running \in Id => task[running] # "none"
    BY DEF TurnsAreExclusive
  <2>3. lastAbortId \in Id => task[lastAbortId] = "none"
    BY DEF KeysAreFresh, Id
  <2>4. owner' = owner \/ \E o \in Timeouts : owner' = [owner EXCEPT ![lastAbortId] = o]
    BY DEF ProgramStep, Set, Ref, Unref, Refresh, Close, ClearById, SetRepeat, Schedule
  <2> QED BY <2>1, <2>2, <2>3, <2>4
<1>1. PICK p \in Timeouts :
        \/ \E interval \in BOOLEAN : Set(p, interval)
        \/ Ref(p) \/ Unref(p) \/ Refresh(p) \/ Close(p)
        \/ \E k \in Id : ClearById(k)
        \/ \E on \in BOOLEAN : SetRepeat(p, on)
  BY DEF ProgramStep
<1>a. \A o \in Timeouts :
        /\ timeout[o] \in TimeoutFields
        /\ timeout[o].id \in Nat
        /\ timeout[o].created =>
             timeout[o].id \in Id /\ owner[timeout[o].id] = o /\ task[timeout[o].id] # "none"
  BY DEF TimeoutFields, IdsAreOwned, KeysAreFresh, Id
<1>2. ASSUME NEW interval \in BOOLEAN, Set(p, interval)
      PROVE  Service!Next
  <2> DEFINE f == [timeout[p] EXCEPT !.created = TRUE, !.isInterval = interval,
                                    !.repeat = interval]
  <2>1. f \in TimeoutFields /\ f.created /\ f.destroyed = timeout[p].destroyed
        /\ f.isInterval = interval
    BY Constructed
  <2>2. ~timeout[p].created /\ Schedule(p, f, abortHandles, task)
    BY <1>2 DEF Set
  <2> HIDE DEF f
  <2>3. ~timeout[p].destroyed /\ ~timeout[p].isInterval /\ ArmedState(p) = "idle"
    BY <2>2 DEF IdsAreOwned, ArmedState
  <2>4. /\ ArmedState(p)' = "armed"
        /\ timeout'[p].isInterval = interval
        /\ \A o \in Timeouts \ {p} : /\ ArmedState(o)' = ArmedState(o)
                                   /\ timeout'[o] = timeout[o]
    <3> HIDE DEF TimersInv, TypeOK
    <3>1. task \in [Id -> TaskStates] /\ abortHandles \in SUBSET abortHandles
      BY DEF TimersInv, TypeOK
    <3> QED BY <2>1, <2>2, <2>3, <3>1, ScheduleArms
  <2>5. Service!Arm(p)
    <3>1. [o \in Timeouts |-> ArmedState(o)]' =
            [[o \in Timeouts |-> ArmedState(o)] EXCEPT ![p] = "armed"]
      BY <2>4
    <3>2. CASE ~interval
      <4>a. timeout[p].isInterval = interval
        BY <1>a, <2>3, <3>2 DEF TimeoutFields
      <4>1. UNCHANGED [o \in Timeouts |-> timeout[o].isInterval]
        BY <2>4, <4>a
      <4> QED BY <1>0, <2>3, <3>1, <4>1 DEF Service!Arm
    <3>3. CASE interval
      <4>1. [o \in Timeouts |-> timeout[o].isInterval]' =
              [[o \in Timeouts |-> timeout[o].isInterval] EXCEPT ![p] = TRUE]
        BY <2>4, <3>3
      <4> QED BY <1>0, <2>3, <3>1, <4>1 DEF Service!Arm
    <3> QED BY <3>2, <3>3
  <2> QED BY <2>5 DEF Service!Next
<1>3. CASE Refresh(p)
  <2> DEFINE id == timeout[p].id
             H == abortHandles \ {id}
             T == AbortedTasks({id})
  <2>1. timeout[p].created /\ ~timeout[p].destroyed /\ Schedule(p, timeout[p], H, T)
    BY <1>3 DEF Refresh
  <2>2. /\ T \in [Id -> TaskStates]
        /\ \A k \in Id \ {id} : T[k] = task[k]
    BY DEF AbortedTasks, TaskStates
  <2>3. \A k \in Id : owner[k] # p => k # id
    BY <1>a, <2>1
  <2>4. /\ ArmedState(p)' = "armed"
        /\ timeout'[p].isInterval = timeout[p].isInterval
        /\ \A o \in Timeouts \ {p} : /\ ArmedState(o)' = ArmedState(o)
                                   /\ timeout'[o] = timeout[o]
    <3>1. PICK f : f = timeout[p]
      OBVIOUS
    <3>2. f \in TimeoutFields /\ f.created /\ ~f.destroyed /\ Schedule(p, f, H, T)
      BY <2>1, <3>1 DEF TimersInv, TypeOK
    <3>3. H \in SUBSET abortHandles /\ T \in [Id -> TaskStates]
      BY <2>2
    <3>4. \A k \in Id : owner[k] # p /\ task[k] # "none" =>
             (k \in H <=> k \in abortHandles) /\ T[k] = task[k]
      BY <2>2, <2>3
    <3> HIDE DEF T, H, TimersInv, TypeOK
    <3>5. /\ ArmedState(p)' = "armed"
          /\ timeout'[p].isInterval = f.isInterval
          /\ \A o \in Timeouts \ {p} : /\ ArmedState(o)' = ArmedState(o)
                                     /\ timeout'[o] = timeout[o]
      BY <3>2, <3>3, <3>4, ScheduleArms
    <3> QED BY <3>1, <3>5
  <2>5. Service!Arm(p)
    BY <1>0, <2>1, <2>4 DEF Service!Arm, ArmedState
  <2> QED BY <2>5 DEF Service!Next
<1>4. CASE Ref(p) \/ Unref(p) \/ \E on \in BOOLEAN : SetRepeat(p, on)
  <2>1. \A o \in Timeouts :
           /\ timeout'[o].created = timeout[o].created
           /\ timeout'[o].destroyed = timeout[o].destroyed
           /\ timeout'[o].isInterval = timeout[o].isInterval
           /\ timeout'[o].id = timeout[o].id
    BY <1>4, <1>a DEF Ref, Unref, SetRepeat, TimeoutFields
  <2>2. UNCHANGED <<task, abortHandles>>
    BY <1>4 DEF Ref, Unref, SetRepeat
  <2>3. \A o \in Timeouts : ArmedState(o)' = ArmedState(o)
    BY <2>1, <2>2 DEF ArmedState
  <2> QED BY <1>0, <2>1, <2>3 DEF Service!vars
<1>5. CASE Close(p)
  <2>1. /\ timeout[p].created /\ ~timeout[p].destroyed
        /\ timeout' = [timeout EXCEPT ![p].destroyed = TRUE]
        /\ abortHandles' = abortHandles \ {timeout[p].id}
        /\ \A k \in Id \ {timeout[p].id} : task'[k] = task[k]
    BY <1>5 DEF Close, ClearSchedule, AbortedTasks
  <2>2. timeout'[p].destroyed /\ \A o \in Timeouts : timeout'[o].isInterval = timeout[o].isInterval
    BY <1>a, <2>1 DEF TimeoutFields
  <2>3. ASSUME NEW o \in Timeouts \ {p} PROVE ArmedState(o)' = ArmedState(o)
    <3>1. timeout'[o] = timeout[o] /\ (timeout[o].created => timeout[o].id # timeout[p].id)
      BY <1>a, <2>1
    <3>2. timeout[o].created =>
            /\ timeout[o].id \in abortHandles' <=> timeout[o].id \in abortHandles
            /\ task'[timeout[o].id] = task[timeout[o].id]
      BY <1>a, <2>1, <3>1
    <3> QED BY <3>1, <3>2, ArmedFrame
  <2>4. ArmedState(p) # "closed" /\ ArmedState(p)' = "closed"
    BY <2>1, <2>2 DEF ArmedState
  <2>5. Service!Close(p)
    BY <1>0, <2>2, <2>3, <2>4 DEF Service!Close
  <2> QED BY <2>5 DEF Service!Next
<1>6. ASSUME NEW k \in Id, ClearById(k)
      PROVE  [Service!Next]_(Service!vars)
  <2>1. /\ UNCHANGED timeout
        /\ abortHandles' = abortHandles \ {k}
        /\ \A i \in Id \ {k} : task'[i] = task[i]
        /\ task'[k] = IF k \in abortHandles /\ task[k] = "sleeping" THEN "aborted" ELSE task[k]
    BY <1>6 DEF ClearById, ClearSchedule, AbortedTasks
  <2>2. PICK p0 \in Timeouts : p0 = owner[k]
    OBVIOUS
  <2>3. ASSUME NEW o \in Timeouts, ~timeout[o].created \/ timeout[o].id # k
        PROVE  ArmedState(o)' = ArmedState(o)
    BY <1>a, <2>1, <2>3, ArmedFrame
  <2>4. ASSUME NEW o \in Timeouts, o # p0 PROVE ArmedState(o)' = ArmedState(o)
    BY <1>a, <2>2, <2>3, <2>4
  <2>5. CASE ArmedState(p0) = "armed" /\ timeout[p0].id = k
    <3>1. ArmedState(p0)' = "idle"
      BY <2>1, <2>5 DEF ArmedState
    <3>2. Service!Disarm({p0})
      BY <1>0, <2>1, <2>2, <2>4, <2>5, <3>1 DEF Service!Disarm
    <3> QED BY <2>2, <3>2 DEF Service!Next
  <2>6. CASE ~(ArmedState(p0) = "armed" /\ timeout[p0].id = k)
    <3>1. ArmedState(p0)' = ArmedState(p0)
      <4>1. CASE timeout[p0].id # k
        BY <2>2, <2>3, <4>1
      <4>2. CASE timeout[p0].id = k /\ ArmedState(p0) # "armed"
        BY <2>1, <4>2 DEF ArmedState, HandlesAreLive
      <4> QED BY <2>6, <4>1, <4>2
    <3> QED BY <1>0, <2>1, <2>4, <3>1 DEF Service!vars
  <2> QED BY <2>5, <2>6
<1> QED BY <1>1, <1>2, <1>3, <1>4, <1>5, <1>6

\* A step of a task fires, re-arms or returns, or is invisible.
LEMMA TasksServe ==
    ASSUME TimersInv, TimerTasks
    PROVE  [Service!Next]_(Service!vars)
<1> USE TimersAssumption DEF TimersInv, TypeOK
<1>a. /\ NoTask \notin Id
      /\ \A o \in Timeouts :
        /\ timeout[o] \in TimeoutFields
        /\ timeout[o].id \in Nat
        /\ timeout[o].created =>
             timeout[o].id \in Id /\ owner[timeout[o].id] = o /\ task[timeout[o].id] # "none"
  BY DEF TimeoutFields, IdsAreOwned, KeysAreFresh, Id, NoTask
<1>1. ASSUME NEW k \in Id, Wake(k) PROVE Service!Next
  <2>1. PICK p \in Timeouts : p = owner[k]
    OBVIOUS
  <2>2. /\ running = NoTask /\ running' = k /\ task[k] = "sleeping"
        /\ task' = [task EXCEPT ![k] = "callback"]
        /\ UNCHANGED <<abortHandles, owner, timeout>>
    BY <1>1 DEF Wake
  <2>3. timeout[p].created /\ ~timeout[p].destroyed /\ timeout[p].id = k /\ k \in abortHandles
    BY <2>1, <2>2 DEF HandlesAreLive, OneLiveTaskPerTimeout
  <2>4. ArmedState(p) = "armed" /\ ArmedState(p)' = IF timeout[p].isInterval THEN "armed" ELSE "idle"
    BY <2>2, <2>3 DEF ArmedState
  <2>5. ASSUME NEW o \in Timeouts \ {p} PROVE ArmedState(o)' = ArmedState(o)
    BY <1>a, <2>1, <2>2, <2>5, ArmedFrame
  <2>6. Service!Fire(p)
    BY <1>a, <2>1, <2>2, <2>4, <2>5 DEF Service!Fire
  <2> QED BY <2>6 DEF Service!Next
<1>2. ASSUME NEW k \in Id, Reap(k) PROVE UNCHANGED Service!vars
  <2>1. /\ task[k] = "aborted" /\ task' = [task EXCEPT ![k] = "done"]
        /\ UNCHANGED <<abortHandles, owner, timeout, running>>
    BY <1>2 DEF Reap, HandlesAreLive
  <2>2. ASSUME NEW o \in Timeouts PROVE ArmedState(o)' = ArmedState(o)
    BY <1>a, <2>1, ArmedFrame
  <2> QED BY <2>1, <2>2 DEF Service!vars
<1>3. CASE CallbackReturn
  <2>0. PICK k \in Id, p \in Timeouts :
        /\ running = k /\ p = owner[k] /\ task[k] = "callback" /\ UNCHANGED running
        /\ \/ /\ Repeats(p)
              /\ Schedule(p, timeout[p], abortHandles, [task EXCEPT ![k] = "jobs"])
           \/ Repeats(p) /\ RearmInPlace(k, p)
           \/ /\ task' = [task EXCEPT ![k] = "jobs"]
              /\ UNCHANGED <<abortHandles, owner, timeout>>
    BY <1>3 DEF CallbackReturn
  <2>1. CASE /\ task' = [task EXCEPT ![k] = "jobs"]
             /\ UNCHANGED <<abortHandles, owner, timeout>>
    <3>1. ASSUME NEW o \in Timeouts PROVE ArmedState(o)' = ArmedState(o)
      BY <1>a, <2>0, <2>1, ArmedFrame
    <3> QED BY <2>0, <2>1, <3>1 DEF Service!vars
  <2>2. CASE /\ Repeats(p)
             /\ Schedule(p, timeout[p], abortHandles, [task EXCEPT ![k] = "jobs"])
    <3> DEFINE T == [task EXCEPT ![k] = "jobs"]
    <3>1. /\ timeout[p].created /\ ~timeout[p].destroyed
          /\ T \in [Id -> TaskStates] /\ \A i \in Id : owner[i] # p => T[i] = task[i]
      BY <2>0, <2>2 DEF Repeats, IdsAreOwned, TaskStates
    <3>2. Schedule(p, timeout[p], abortHandles, T) /\ timeout[p] \in TimeoutFields
      BY <2>2
    <3>3. /\ ArmedState(p)' = "armed"
          /\ timeout'[p].isInterval = timeout[p].isInterval
          /\ \A o \in Timeouts \ {p} : /\ ArmedState(o)' = ArmedState(o)
                                     /\ timeout'[o] = timeout[o]
      <4> HIDE DEF T, TimersInv, TypeOK
      <4> QED BY <3>1, <3>2, ScheduleArms
    <3>4. UNCHANGED (IF running \in Id THEN owner[running] ELSE NoTask)
      <4>1. owner' = [owner EXCEPT ![lastAbortId] = p] /\ (lastAbortId \in Id => lastAbortId # k)
        BY <2>0, <2>2 DEF Schedule, KeysAreFresh, Id
      <4> QED BY <2>0, <4>1
    <3>5. Service!Arm(p)
      <4>1. ArmedState(p) # "closed"
        BY <3>1 DEF ArmedState
      <4>2. [o \in Timeouts |-> ArmedState(o)]' =
              [[o \in Timeouts |-> ArmedState(o)] EXCEPT ![p] = "armed"]
        BY <3>3
      <4>3. UNCHANGED [o \in Timeouts |-> timeout[o].isInterval]
        BY <3>3
      <4> QED BY <3>4, <4>1, <4>2, <4>3 DEF Service!Arm
    <3> QED BY <3>5 DEF Service!Next
  <2>3. CASE Repeats(p) /\ RearmInPlace(k, p)
    <3>1. timeout[p].created /\ ~timeout[p].destroyed /\ timeout[p].id = k
      BY <2>0, <2>3 DEF Repeats, IdsAreOwned, CallbackSawItsKey
    <3>2. /\ task' = [task EXCEPT ![k] = "rearmed"] /\ abortHandles' = abortHandles \cup {k}
          /\ UNCHANGED <<owner, timeout>>
      BY <2>3 DEF RearmInPlace
    <3>3. ArmedState(p) # "closed" /\ ArmedState(p)' = "armed"
      BY <3>1, <3>2 DEF ArmedState
    <3>4. ASSUME NEW o \in Timeouts \ {p} PROVE ArmedState(o)' = ArmedState(o)
      <4>1. timeout[o].created => timeout[o].id # k
        BY <1>a, <2>0
      <4> QED BY <1>a, <3>2, <4>1, ArmedFrame
    <3>5. Service!Arm(p)
      BY <2>0, <3>2, <3>3, <3>4 DEF Service!Arm
    <3> QED BY <3>5 DEF Service!Next
  <2> QED BY <2>0, <2>1, <2>2, <2>3
<1>4. CASE TurnEnd
  <2>1. PICK k \in Id :
          /\ running = k /\ running' = NoTask /\ task[k] \in {"jobs", "rearmed"}
          /\ \/ task' = [task EXCEPT ![k] = "sleeping"] /\ UNCHANGED abortHandles
                /\ SleepsAgain(k)
             \/ task' = [task EXCEPT ![k] = "done"] /\ abortHandles' = abortHandles \ {k}
                /\ ~SleepsAgain(k)
          /\ UNCHANGED <<owner, timeout>>
    BY <1>4 DEF TurnEnd
  <2>2. PICK p \in Timeouts : p = owner[k]
    OBVIOUS
  <2>3. ASSUME NEW o \in Timeouts \ {p} PROVE ArmedState(o)' = ArmedState(o)
    BY <1>a, <2>1, <2>2, <2>3, ArmedFrame
  <2>4. ArmedState(p)' = ArmedState(p)
    BY <1>a, <2>1, <2>2 DEF ArmedState, SleepsAgain
  <2>5. Service!Return
    <3>1. (IF running \in Id THEN owner[running] ELSE NoTask) = p /\ p # NoTask
      BY <2>1, <2>2
    <3>2. (IF running \in Id THEN owner[running] ELSE NoTask)' = NoTask
      BY <1>a, <2>1
    <3>3. UNCHANGED [o \in Timeouts |-> ArmedState(o)]
      BY <2>3, <2>4
    <3>4. UNCHANGED [o \in Timeouts |-> timeout[o].isInterval]
      BY <2>1
    <3> QED BY <3>1, <3>2, <3>3, <3>4 DEF Service!Return
  <2> QED BY <2>5 DEF Service!Next
<1> QED BY <1>1, <1>2, <1>3, <1>4 DEF TimerTasks

\* Any other turn is invisible.
LEMMA OtherTurnServes ==
    ASSUME TimersInv, OtherTurn \/ OtherTurnEnd \/ UNCHANGED timerVars
    PROVE  UNCHANGED Service!vars
<1>1. UNCHANGED <<abortHandles, task, owner, timeout>>
  BY DEF OtherTurn, OtherTurnEnd, timerVars
<1>2. UNCHANGED (IF running \in Id THEN owner[running] ELSE NoTask)
  BY DEF OtherTurn, OtherTurnEnd, timerVars, Id, NoTask, OtherTask
<1>3. \A o \in Timeouts : ArmedState(o)' = ArmedState(o)
  BY <1>1 DEF ArmedState
<1> QED BY <1>1, <1>2, <1>3 DEF Service!vars

\* In the initial state every Timeout is idle and nothing fires.
LEMMA InitServes == TimersInit => Service!Init
BY DEF TimersInit, Service!Init, ArmedState, Id, NoTask

\* The timers implement the abstract service: for every program, and any number
\* of Timeouts and keys, a callback runs only for an armed Timeout, once per
\* arming of a one-shot, and never after close().
THEOREM Implements == TimersSpec => ImplementsService
<1>1. TimersInv /\ [TimersNext]_timerVars => [Service!Next]_(Service!vars)
  BY ProgramServes, TasksServe, OtherTurnServes DEF TimersNext
<1> QED BY <1>1, InitServes, TimersInvariant, PTL
        DEF TimersSpec, ImplementsService, Service!Spec

-----------------------------------------------------------------------------
(* The event loop: what a returned call leaves behind, why the sentinel's     *)
(* comparison of two sizes is sound, and that the loop still implements the   *)
(* timer service.                                                             *)

\* Removing the handles of a set of keys and aborting their tasks keeps the
\* invariant of the timers.
LEMMA AbortInv ==
    ASSUME TimersInv, AbortUnrefedTimers, running = NoTask
    PROVE  TimersInv'
<1> USE TimersAssumption DEF TimersInv, TypeOK, Id, NoTask, OtherTask, TaskStates
<1>1. /\ abortHandles' = abortHandles \ unrefedTimers
      /\ \A k \in Id : task'[k] = IF k \in unrefedTimers \cap abortHandles /\ task[k] = "sleeping"
                                  THEN "aborted" ELSE task[k]
      /\ task' \in [Id -> TaskStates]
      /\ unrefedTimers' = {}
      /\ UNCHANGED <<lastAbortId, owner, timeout, running, currentId>>
  BY DEF AbortUnrefedTimers, AbortedTasks
<1>2. TypeOK' /\ KeysAreFresh' /\ TurnsAreExclusive' /\ CallbackSawItsKey'
  BY <1>1 DEF KeysAreFresh, TurnsAreExclusive, CallbackSawItsKey
<1>3. IdsAreOwned' /\ HandlesAreLive'
  BY <1>1 DEF IdsAreOwned, HandlesAreLive
<1>4. OneLiveTaskPerTimeout'
  BY <1>1 DEF HandlesAreLive, OneLiveTaskPerTimeout
<1> QED BY <1>2, <1>3, <1>4

\* Every action of the loop leaves the timers alone, makes one of their steps,
\* or is the sentinel's abort.
LEMMA LoopSteps ==
    ASSUME [Next]_vars
    PROVE  \/ ProgramStep(AllowedCalls)
           \/ TimerTasks
           \/ OtherTurn \/ OtherTurnEnd \/ UNCHANGED timerVars
           \/ AbortUnrefedTimers /\ running = NoTask /\ OnlyUnrefedLeft
BY DEF Next, vars, CallExport, ExportTurn, ExportResolves, StartIo, IoTurn, Program, Tasks,
   SentinelTick, IdleReturns

\* The timers' invariant survives the loop.
LEMMA LoopKeepsTimers == TimersInv /\ [Next]_vars => TimersInv'
BY LoopSteps, ProgramInv, TasksInv, OtherTurnInv, AbortInv

\* Between two calls the executor is empty, for any number of Timeouts, keys
\* and I/O tasks.
THEOREM LoopInvariant == Spec => []LoopInv
<1>1. Init => LoopInv
  BY InitInv, LoopAssumption DEF Init, LoopInv, LoopTypeOK, TimersInv, TimersInit, NoTask
<1>2. LoopInv /\ [Next]_vars => LoopInv'
  <2> SUFFICES ASSUME LoopInv, [Next]_vars PROVE LoopInv'
    OBVIOUS
  <2>1. TimersInv'
    BY LoopKeepsTimers DEF LoopInv
  <2>2. LoopTypeOK'
    <3>1. TypeOK'
      BY <2>1 DEF TimersInv
    <3>2. io' \in 0 .. MaxIo
      BY LoopAssumption DEF LoopInv, LoopTypeOK, Next, vars, loopVars, CallExport, ExportTurn,
         ExportResolves, StartIo, IoTurn, Program, Tasks, SentinelTick, IdleReturns
    <3>3. /\ phase' \in {"outside", "running", "draining"}
          /\ sentinel' \in {"none", "polling", "aborted", "finished"}
      BY DEF LoopInv, LoopTypeOK, Next, vars, loopVars, CallExport, ExportTurn,
         ExportResolves, StartIo, IoTurn, Program, Tasks, SentinelTick, IdleReturns
    <3> QED BY <3>1, <3>2, <3>3 DEF LoopTypeOK
  <2>3. phase' = "outside" =>
          running' = NoTask /\ io' = 0 /\ \A k \in Id : task'[k] \in {"none", "done"}
    <3> SUFFICES ASSUME phase' = "outside"
                 PROVE  running' = NoTask /\ io' = 0 /\ \A k \in Id : task'[k] \in {"none", "done"}
      OBVIOUS
    <3>1. CASE phase = "outside"
      BY <3>1 DEF LoopInv, Next, vars, timerVars, CallExport, ExportTurn, ExportResolves, StartIo, IoTurn,
         Program, ProgramStep, Tasks, SentinelTick, IdleReturns, ExecutorEmpty
    <3>2. CASE phase # "outside"
      BY <3>2 DEF Next, vars, timerVars, loopVars, CallExport, ExportTurn, ExportResolves, StartIo, IoTurn,
         Program, Tasks, SentinelTick, IdleReturns, ExecutorEmpty
    <3> QED BY <3>1, <3>2
  <2> QED BY <2>1, <2>2, <2>3 DEF LoopInv
<1> QED BY <1>1, <1>2, PTL DEF Spec

\* Programs that spare dead timers leave no unref'd key without a handle,
\* whatever they do while the loop drains.
THEOREM LoopUnrefSound == Spec => []UnrefedAreLive
<1>1. Init => UnrefedAreLive
  BY DEF Init, TimersInit, UnrefedAreLive
<1>2. LoopInv /\ UnrefedAreLive /\ [Next]_vars => UnrefedAreLive'
  <2> SUFFICES ASSUME LoopInv, UnrefedAreLive, [Next]_vars, "unrefDead" \notin Calls
               PROVE  unrefedTimers' \subseteq abortHandles'
    BY DEF UnrefedAreLive
  <2>1. unrefedTimers \subseteq abortHandles /\ TypeOK
    BY DEF UnrefedAreLive, LoopInv, TimersInv
  <2>2. "unrefDead" \notin AllowedCalls
    BY LoopAssumption DEF AllowedCalls
  <2>3. CASE ProgramStep(AllowedCalls)
    BY <2>1, <2>2, <2>3, ProgramUnrefs
  <2>4. CASE TimerTasks
    BY <2>1, <2>4, TaskUnrefs
  <2>5. CASE OtherTurn \/ OtherTurnEnd \/ UNCHANGED timerVars
    BY <2>1, <2>5 DEF OtherTurn, OtherTurnEnd, timerVars
  <2>6. CASE AbortUnrefedTimers
    BY <2>6 DEF AbortUnrefedTimers
  <2> QED BY <2>3, <2>4, <2>5, <2>6, LoopSteps
<1> QED BY <1>1, <1>2, LoopInvariant, PTL DEF Spec

\* The calls and the sentinel keep hasRef() and unrefed_timers in agreement, in
\* whatever phase of a call the program and the tasks run.
THEOREM LoopUnrefAgrees == Spec => []UnrefAgrees
<1>1. Init => UnrefInv
  BY InitUnrefInv DEF Init
<1>2. LoopInv /\ UnrefInv /\ [Next]_vars => UnrefInv'
  <2> SUFFICES ASSUME LoopInv, UnrefInv, [Next]_vars PROVE UnrefInv'
    OBVIOUS
  <2>1. TimersInv /\ AllowedCalls \in SUBSET Calls
    BY LoopAssumption DEF LoopInv, AllowedCalls
  <2>2. CASE AbortUnrefedTimers
    BY <2>2, UnrefFrame DEF AbortUnrefedTimers
  <2> QED BY <2>1, <2>2, LoopSteps, ProgramUnrefInv, TasksUnrefInv, OtherUnrefInv
<1>3. UnrefInv => UnrefAgrees
  BY DEF UnrefInv
<1> QED BY <1>1, <1>2, <1>3, LoopInvariant, PTL DEF Spec

\* A call that returns leaves no timer behind, and, unless the program unref'd
\* a dead timer, no key in unrefed_timers: the next call and the snapshot of
\* wizer_initialize start clean.
THEOREM ReturnsCleanly == Spec => []ReturnsClean
<1>1. LoopInv /\ UnrefedAreLive => ReturnsClean
  BY DEF LoopInv, TimersInv, TypeOK, HandlesAreLive, UnrefedAreLive, ReturnsClean
<1> QED BY <1>1, LoopInvariant, LoopUnrefSound, PTL

\* Two finite sets, one inside the other, of the same size are the same set.
LEMMA SameSize ==
    ASSUME NEW S, NEW R, IsFiniteSet(S), R \subseteq S, Cardinality(R) = Cardinality(S)
    PROVE  R = S
BY FS_Subset

\* If no dead timer is ever unref'd the sentinel aborts only when every live
\* timer is unref'd, however many timers there are and whatever the callbacks do
\* while it polls.
THEOREM SentinelIsSound ==
    ASSUME "unrefDead" \notin Calls
    PROVE  Spec => SentinelSparesRefed
<1>1. LoopInv /\ UnrefedAreLive /\ [Next]_vars =>
        [sentinel = "polling" /\ sentinel' = "aborted" => abortHandles \subseteq unrefedTimers]_vars
  <2> SUFFICES ASSUME LoopInv, UnrefedAreLive, [Next]_vars,
                      sentinel = "polling", sentinel' = "aborted"
               PROVE  abortHandles \subseteq unrefedTimers
    OBVIOUS
  <2>1. OnlyUnrefedLeft
    BY DEF Next, vars, loopVars, CallExport, ExportTurn, ExportResolves, StartIo, IoTurn,
       Program, Tasks, SentinelTick, IdleReturns
  <2>2. unrefedTimers \subseteq abortHandles
    BY DEF UnrefedAreLive
  <2>3. IsFiniteSet(abortHandles)
    <3>1. IsFiniteSet(Id)
      BY TimersAssumption, FS_Interval DEF Id
    <3> QED BY <3>1, FS_Subset DEF LoopInv, TimersInv, TypeOK
  <2> QED BY <2>1, <2>2, <2>3, SameSize DEF OnlyUnrefedLeft
<1> QED BY <1>1, LoopInvariant, LoopUnrefSound, PTL DEF Spec, SentinelSparesRefed

\* The sentinel's abort cancels armed Timeouts, and does nothing else the
\* service could see.
LEMMA AbortServes ==
    ASSUME TimersInv, AbortUnrefedTimers
    PROVE  [Service!Next]_(Service!vars)
<1> USE DEF TimersInv, TypeOK
<1> DEFINE Cancelled == {o \in Timeouts : ArmedState(o) = "armed" /\ timeout[o].id \in unrefedTimers}
<1>1. PICK S \in SUBSET Timeouts : S = Cancelled
  OBVIOUS
<1>2. /\ abortHandles' = abortHandles \ unrefedTimers
      /\ \A k \in Id : task'[k] = IF k \in unrefedTimers \cap abortHandles /\ task[k] = "sleeping"
                                  THEN "aborted" ELSE task[k]
      /\ UNCHANGED <<owner, timeout, running>>
  BY DEF AbortUnrefedTimers, AbortedTasks
<1>3. ASSUME NEW o \in S PROVE ArmedState(o) = "armed" /\ ArmedState(o)' = "idle"
  BY <1>1, <1>2, <1>3 DEF ArmedState
<1>4. ASSUME NEW o \in Timeouts \ S PROVE ArmedState(o)' = ArmedState(o)
  <2>1. timeout[o].created => timeout[o].id \in Id
    <3>1. timeout[o].id \in Nat
      BY DEF TimeoutFields
    <3> QED BY <3>1, TimersAssumption DEF IdsAreOwned, Id
  <2> QED BY <1>1, <1>2, <1>4, <2>1 DEF ArmedState, HandlesAreLive
<1>5. UNCHANGED (IF running \in Id THEN owner[running] ELSE NoTask)
  BY <1>2
<1>6. CASE S = {}
  BY <1>2, <1>4, <1>5, <1>6 DEF Service!vars
<1>7. CASE S # {}
  <2>1. Service!Disarm(S)
    BY <1>2, <1>3, <1>4, <1>5, <1>7 DEF Service!Disarm
  <2> QED BY <2>1 DEF Service!Next
<1> QED BY <1>6, <1>7

\* With calls, drains and the sentinel on top, the timers still implement the
\* abstract service.
THEOREM LoopImplements == Spec => LoopImplementsService
<1>1. Init => Service!Init
  BY InitServes DEF Init
<1>2. LoopInv /\ [Next]_vars => [Service!Next]_(Service!vars)
  BY LoopSteps, ProgramServes, TasksServe, OtherTurnServes, AbortServes DEF LoopInv
<1> QED BY <1>1, <1>2, LoopInvariant, PTL DEF Spec, LoopImplementsService, Service!Spec

-----------------------------------------------------------------------------
(* The body of a Response and its clones.                                     *)

Unread(r) == reader[r] = Body!NotRead
Reads(r, hows) == reader[r].how \in hows /\ Body!UnderWay(r)

\* Nobody has read while the response is there to be read; it is there once.
UntouchedInv ==
    /\ \A r \in Responses : bodySource[r] = "native" =>
        ~shared.response /\ \A x \in Responses \ {r} : bodySource[x] = "none"
    /\ shared.response \/ (\E r \in Responses : bodySource[r] = "native") =>
        ~shared.finished /\ ~shared.borrowed /\ \A r \in Responses : Unread(r)

\* As long as one reads after the other, who reads the shared stream finds it free and others
\* that keep it.
InTurnInv ==
    /\ ~trapped
    /\ \A x, y \in Responses : Body!UnderWay(x) /\ Body!UnderWay(y) => x = y
    /\ shared.response =>
        \E x, y \in Responses : x # y /\ bodySource[x] = "shared" /\ bodySource[y] = "shared"
    /\ shared.borrowed =>
        \E r \in Responses : Reads(r, {"text", "sharedNative"}) /\ reader[r].at = "waiting"
    /\ \A r \in Responses : Reads(r, {"sharedNative"}) =>
        ~shared.finished /\ \E x \in Responses \ {r} : bodySource[x] = "shared"

\* The buffer holds the whole body for those who come later, once it was read.
WholeInv ==
    /\ ~shared.response /\ (\E r \in Responses : bodySource[r] = "shared") =>
        \/ shared.borrowed
        \/ \E r \in Responses : Reads(r, {"sharedNative"})
        \/ shared.buffer = MaxChunks
    /\ \A r \in Responses :
        /\ reader[r].how = "bytes" => reader[r].got + reader[r].left = MaxChunks
        /\ Body!Ended(r) => reader[r].got = MaxChunks

BodyInv ==
    /\ Body!TypeOK
    /\ \A r \in Responses :
        /\ reader[r].how = "none" => Unread(r)
        /\ reader[r].how = "bytes" => reader[r].got + reader[r].left <= MaxChunks
    /\ UntouchedInv
    /\ ~overlapped => InTurnInv /\ (~broken => WholeInv)

SharedFields == [response : BOOLEAN, borrowed : BOOLEAN, buffer : 0 .. MaxChunks, finished : BOOLEAN]
ReaderFields == [how : {"none", "text", "native", "sharedNative", "bytes"},
                 at : {"idle", "waiting", "done", "failed"},
                 got : 0 .. MaxChunks, left : 0 .. MaxChunks]

Sources == {"none", "native", "shared", "consumed", "gone"}
Typed ==
    /\ bodySource \in [Responses -> Sources] /\ shared \in SharedFields
    /\ reader \in [Responses -> ReaderFields]
    /\ broken \in BOOLEAN /\ trapped \in BOOLEAN /\ overlapped \in BOOLEAN

LEMMA Types == (Typed <=> Body!TypeOK) /\ (Typed' <=> Body!TypeOK')
<1>1. \A x, y, z : x \in BOOLEAN /\ y \in BOOLEAN /\ z \in BOOLEAN <=> {x, y, z} \subseteq BOOLEAN
  BY Zenon
<1>2. /\ broken \in BOOLEAN /\ trapped \in BOOLEAN /\ overlapped \in BOOLEAN
            <=> {broken, trapped, overlapped} \subseteq BOOLEAN
      /\ broken' \in BOOLEAN /\ trapped' \in BOOLEAN /\ overlapped' \in BOOLEAN
            <=> {broken', trapped', overlapped'} \subseteq BOOLEAN
  BY <1>1, Zenon
<1> QED BY <1>2, Zenon DEF Typed, Body!TypeOK, Sources, SharedFields, ReaderFields

LEMMA InitBodyInv == ASSUME MaxChunks \in Nat, Body!Init PROVE BodyInv
<1>1. \A r \in Responses : reader[r] = Body!NotRead /\ bodySource[r] \in {"native", "none"}
  BY DEF Body!Init
<1>2. \A r \in Responses : bodySource[r] = "native" => r = Body!First
  BY DEF Body!Init
<1>3. Body!TypeOK
  <2>1. /\ bodySource \in [Responses -> Sources] /\ shared \in SharedFields
        /\ reader \in [Responses -> ReaderFields]
    BY DEF Body!Init, Sources, SharedFields, ReaderFields, Body!NotRead
  <2> QED BY <2>1, Types DEF Body!Init, Typed
<1>4. shared = [response |-> FALSE, borrowed |-> FALSE, buffer |-> 0, finished |-> FALSE]
  BY DEF Body!Init
<1>5. \A r \in Responses : ~Body!UnderWay(r) /\ reader[r].how = "none"
  BY <1>1 DEF Body!UnderWay, Body!NotRead
<1>6. \A r \in Responses : bodySource[r] = "native" =>
            \A x \in Responses \ {r} : bodySource[x] = "none"
  BY <1>1, <1>2
<1>7. UntouchedInv
  BY <1>1, <1>4, <1>6 DEF UntouchedInv, Unread
<1>8. InTurnInv
  <2>1. ~trapped
    BY DEF Body!Init
  <2> QED BY <1>4, <1>5, <2>1 DEF InTurnInv, Reads
<1>9. WholeInv
  BY <1>1, <1>5 DEF WholeInv, Body!Ended
<1> QED BY <1>1, <1>3, <1>5, <1>7, <1>8, <1>9 DEF BodyInv, Unread

LEMMA PanicsAreOvertaken ==
    ASSUME BodyInv, Body!Panics, overlapped'
    PROVE  BodyInv'
BY DEF BodyInv, Body!Panics, Body!TypeOK, UntouchedInv, Unread, Body!NotRead

\* A step of the reader r to k, which leaves the others.
Steps(r, k) == k \in ReaderFields /\ reader' = [reader EXCEPT ![r] = k]

LEMMA StepReader ==
    ASSUME Body!TypeOK, NEW r \in Responses, NEW k, Steps(r, k)
    PROVE  /\ reader'[r] = k /\ reader' \in [Responses -> ReaderFields]
           /\ \A x \in Responses : x # r => reader'[x] = reader[x]
           /\ \A x \in Responses : x # r => /\ Body!UnderWay(x)' <=> Body!UnderWay(x)
                                            /\ Unread(x)' <=> Unread(x)
                                            /\ Body!Ended(x)' <=> Body!Ended(x)
BY DEF Body!TypeOK, Steps, ReaderFields, Body!UnderWay, Unread, Body!Ended

LEMMA CloneBodyInv ==
    ASSUME BodyInv, NEW r \in Responses, NEW c \in Responses, Body!Clone(r, c)
    PROVE  BodyInv'
<1> USE DEF Body!Clone
<1>1. r # c /\ bodySource[r] \in {"native", "shared"} /\ bodySource[c] = "none"
      /\ bodySource' = [bodySource EXCEPT ![r] = "shared", ![c] = "shared"]
      /\ UNCHANGED <<reader, broken, trapped, overlapped>>
      /\ shared' = IF bodySource[r] = "native" THEN [shared EXCEPT !.response = TRUE] ELSE shared
  OBVIOUS
<1>2. /\ bodySource'[r] = "shared" /\ bodySource'[c] = "shared"
      /\ \A x \in Responses : x # r /\ x # c => bodySource'[x] = bodySource[x]
      /\ \A x \in Responses : bodySource'[x] = "native" => bodySource[x] = "native" /\ x # r
      /\ \A x \in Responses : bodySource[x] = "shared" => bodySource'[x] = "shared"
  BY <1>1, Types DEF BodyInv, Typed
<1>3. /\ shared'.borrowed = shared.borrowed /\ shared'.finished = shared.finished
      /\ shared'.buffer = shared.buffer
      /\ shared'.response = (shared.response \/ bodySource[r] = "native")
  BY <1>1, Types DEF BodyInv, Typed, SharedFields
<1>4. Body!TypeOK'
  <2>1. /\ bodySource' \in [Responses -> Sources] /\ shared' \in SharedFields
    BY <1>1, Types DEF BodyInv, Typed, Sources, SharedFields
  <2> QED BY <1>1, <2>1, Types DEF BodyInv, Typed
<1>5. UntouchedInv'
  BY <1>1, <1>2, <1>3 DEF BodyInv, UntouchedInv, Unread
<1>6. ASSUME ~overlapped PROVE InTurnInv'
  <2>1. \A x \in Responses : (Body!UnderWay(x)' <=> Body!UnderWay(x)) /\ reader'[x] = reader[x]
    BY <1>1 DEF Body!UnderWay
  <2>2. InTurnInv /\ UntouchedInv
    BY <1>6 DEF BodyInv
  <2>3. bodySource[r] = "native" => \A x \in Responses : Unread(x) /\ ~Body!UnderWay(x)
    BY <2>2 DEF UntouchedInv, Unread, Body!NotRead, Body!UnderWay
  <2>4. ~trapped'
    BY <1>1, <2>2 DEF InTurnInv
  <2>5. shared'.response =>
            \E x, y \in Responses : x # y /\ bodySource'[x] = "shared" /\ bodySource'[y] = "shared"
    BY <1>1, <1>2
  <2>6. shared'.borrowed =>
            \E x \in Responses : Reads(x, {"text", "sharedNative"})' /\ reader'[x].at = "waiting"
    BY <1>3, <2>1, <2>2 DEF InTurnInv, Reads
  <2>7. \A x \in Responses : Reads(x, {"sharedNative"})' =>
            ~shared'.finished /\ \E y \in Responses \ {x} : bodySource'[y] = "shared"
    BY <1>2, <1>3, <2>1, <2>2 DEF InTurnInv, Reads
  <2> QED BY <2>1, <2>2, <2>4, <2>5, <2>6, <2>7 DEF InTurnInv
<1>7. ~overlapped /\ ~broken => WholeInv'
  BY <1>1, <1>2, <1>3 DEF BodyInv, UntouchedInv, WholeInv, Reads, Body!UnderWay, Body!Ended
<1> QED BY <1>1, <1>4, <1>5, <1>6, <1>7 DEF BodyInv, Unread

LEMMA LetGoBodyInv ==
    ASSUME BodyInv, NEW r \in Responses, Body!LetGo(r)
    PROVE  BodyInv'
BY DEF BodyInv, Body!LetGo, Body!TypeOK, UntouchedInv, Unread

\* Who may begin to read: nobody else does, and so the shared stream is free or read.
LEMMA BeginsInTurn ==
    ASSUME BodyInv, NEW r \in Responses, reader[r].how = "none", ~Body!Overlaps(r)
    PROVE  /\ InTurnInv /\ ~shared.borrowed /\ ~overlapped
           /\ \A x \in Responses : ~Body!UnderWay(x)
BY DEF BodyInv, Body!Overlaps, InTurnInv, Body!UnderWay, Reads

LEMMA TextBodyInv ==
    ASSUME MaxChunks \in Nat, BodyInv, NEW r \in Responses, Body!Text(r)
    PROVE  BodyInv'
<1>1. bodySource[r] \in {"native", "shared"} /\ reader[r] = Body!NotRead
      /\ overlapped' = Body!Overlaps(r)
  BY DEF Body!Text, BodyInv, Unread
<1>2. CASE bodySource[r] = "shared" /\ shared.borrowed
  <2>1. Body!Panics /\ overlapped'
    BY <1>1, <1>2, BeginsInTurn DEF Body!Text, Body!NotRead
  <2> QED BY <2>1, PanicsAreOvertaken
<1>3. CASE ~(bodySource[r] = "shared" /\ shared.borrowed)
  <2> DEFINE takes == bodySource[r] = "native" \/ shared.response
             k == IF takes THEN [Body!NotRead EXCEPT !.how = "text", !.at = "waiting"]
                  ELSE [Body!NotRead EXCEPT !.how = "text", !.at = "done", !.got = shared.buffer]
  <2>1. /\ bodySource' = [bodySource EXCEPT ![r] = "consumed"]
        /\ UNCHANGED <<broken, trapped>>
        /\ shared' = IF takes THEN [shared EXCEPT !.response = FALSE,
                                                  !.borrowed = bodySource[r] = "shared"]
                     ELSE shared
    BY <1>3 DEF Body!Text
  <2>2. Steps(r, k)
    <3>1. k \in ReaderFields
      <4>1. shared.buffer \in 0 .. MaxChunks /\ 0 \in 0 .. MaxChunks
        BY Types DEF BodyInv, Typed, SharedFields
      <4> QED BY <4>1 DEF ReaderFields, Body!NotRead
    <3>2. reader' = [reader EXCEPT ![r] = k]
      BY <1>1, <1>3 DEF Body!Text, Body!NotRead
    <3> QED BY <3>1, <3>2 DEF Steps
  <2>3. /\ k.how = "text" /\ (takes => k.at = "waiting")
        /\ ~takes => k.at = "done" /\ k.got = shared.buffer
    BY DEF Body!NotRead
  <2> HIDE DEF k
  <2>4. /\ reader'[r] = k /\ reader' \in [Responses -> ReaderFields]
        /\ \A x \in Responses : x # r => /\ reader'[x] = reader[x]
                                         /\ Body!UnderWay(x)' <=> Body!UnderWay(x)
                                         /\ Unread(x)' <=> Unread(x)
                                         /\ Body!Ended(x)' <=> Body!Ended(x)
    BY <2>2, StepReader DEF BodyInv
  <2>5. /\ Body!UnderWay(r)' <=> takes
        /\ Body!Ended(r)' <=> ~takes
    BY <2>3, <2>4 DEF Body!UnderWay, Body!Ended
  <2>6. /\ bodySource'[r] = "consumed"
        /\ \A x \in Responses : x # r => bodySource'[x] = bodySource[x]
        /\ bodySource' \in [Responses -> {"none", "native", "shared", "consumed", "gone"}]
    BY <2>1, Types DEF BodyInv, Typed, Sources
  <2>7. /\ takes => ~shared'.response /\ shared'.borrowed = (bodySource[r] = "shared")
        /\ ~takes => shared' = shared
        /\ shared'.buffer = shared.buffer /\ shared'.finished = shared.finished
        /\ shared' \in SharedFields
    BY <2>1, Types DEF BodyInv, Typed, SharedFields
  <2>8. Body!TypeOK'
    BY <2>1, <2>4, <2>6, <2>7, Types DEF BodyInv, Typed, Sources, Body!Overlaps, Body!Text
  <2>9. UntouchedInv'
    <3>1. ~shared'.response /\ \A x \in Responses : bodySource'[x] # "native"
      BY <1>1, <2>6, <2>7 DEF BodyInv, UntouchedInv, Unread
    <3> QED BY <3>1 DEF UntouchedInv
  <2>10. ASSUME ~overlapped' PROVE InTurnInv' /\ (~broken' => WholeInv')
    <3>1. /\ InTurnInv /\ ~shared.borrowed /\ ~overlapped /\ \A x \in Responses : ~Body!UnderWay(x)
      BY <1>1, <2>10, BeginsInTurn DEF Body!NotRead
    <3>2. InTurnInv'
      BY <2>1, <2>3, <2>4, <2>5, <2>6, <2>7, <3>1 DEF BodyInv, InTurnInv, Reads, UntouchedInv
    <3>3. ASSUME ~broken' PROVE WholeInv'
      <4>1. WholeInv
        BY <2>1, <3>1, <3>3 DEF BodyInv
      <4>2. ~takes => shared.buffer = MaxChunks
        BY <1>1, <3>1, <4>1 DEF WholeInv, Reads
      <4>3. takes /\ (\E x \in Responses : bodySource'[x] = "shared") => shared'.borrowed
        BY <1>1, <2>6, <2>7 DEF BodyInv, UntouchedInv
      <4>4. \A x \in Responses : ~Reads(x, {"sharedNative"})
        BY <3>1 DEF Reads
      <4> HIDE DEF takes
      <4> QED BY <1>1, <2>3, <2>4, <2>5, <2>6, <2>7, <4>1, <4>2, <4>3, <4>4 DEF WholeInv,
          Body!Ended
    <3> QED BY <3>2, <3>3
  <2> QED BY <2>3, <2>4, <2>8, <2>9, <2>10 DEF BodyInv, Unread
<1> QED BY <1>2, <1>3

LEMMA TextAnswersBodyInv ==
    ASSUME MaxChunks \in Nat, BodyInv, NEW r \in Responses, Body!TextAnswers(r)
    PROVE  BodyInv'
<1> DEFINE k == IF broken THEN [reader[r] EXCEPT !.at = "failed"]
                ELSE [reader[r] EXCEPT !.at = "done", !.got = MaxChunks]
<1>1. /\ reader[r].how = "text" /\ reader[r].at = "waiting" /\ Body!UnderWay(r)
      /\ UNCHANGED <<bodySource, broken, trapped, overlapped>>
      /\ reader[r] \in ReaderFields
  BY Types DEF Body!TextAnswers, Body!UnderWay, BodyInv, Typed
<1>2. Steps(r, k)
  <2>1. k \in ReaderFields
    <3>1. MaxChunks \in 0 .. MaxChunks
      OBVIOUS
    <3> QED BY <1>1, <3>1 DEF ReaderFields
  <2>2. reader' = [reader EXCEPT ![r] = k]
    BY <1>1 DEF Body!TextAnswers
  <2> QED BY <2>1, <2>2 DEF Steps
<1>3. k.how = "text" /\ (broken => k.at = "failed") /\ (~broken => k.at = "done" /\ k.got = MaxChunks)
  BY <1>1 DEF ReaderFields
<1> HIDE DEF k
<1>4. /\ reader'[r] = k /\ reader' \in [Responses -> ReaderFields]
      /\ \A x \in Responses : x # r => /\ reader'[x] = reader[x]
                                       /\ Body!UnderWay(x)' <=> Body!UnderWay(x)
                                       /\ Unread(x)' <=> Unread(x)
                                       /\ Body!Ended(x)' <=> Body!Ended(x)
  BY <1>2, StepReader DEF BodyInv
<1>5. ~Body!UnderWay(r)'
  BY <1>3, <1>4 DEF Body!UnderWay
<1>6. /\ shared'.response = shared.response /\ ~shared'.borrowed /\ shared' \in SharedFields
      /\ ~shared.borrowed => shared' = shared
      /\ shared.borrowed /\ ~broken => shared'.buffer = MaxChunks
  <2>1. shared \in SharedFields /\ broken \in BOOLEAN /\ MaxChunks \in 0 .. MaxChunks
    BY Types DEF BodyInv, Typed
  <2>2. CASE ~shared.borrowed
    BY <2>1, <2>2 DEF Body!TextAnswers
  <2>3. CASE shared.borrowed /\ broken
    <3>1. shared' = [shared EXCEPT !.borrowed = FALSE, !.buffer = shared.buffer, !.finished = FALSE]
      BY <2>3 DEF Body!TextAnswers
    <3> QED BY <2>1, <2>3, <3>1 DEF SharedFields
  <2>4. CASE shared.borrowed /\ ~broken
    <3>1. shared' = [shared EXCEPT !.borrowed = FALSE, !.buffer = MaxChunks, !.finished = TRUE]
      BY <2>4 DEF Body!TextAnswers
    <3> QED BY <2>1, <2>4, <3>1 DEF SharedFields
  <2> QED BY <2>2, <2>3, <2>4
<1>7. Body!TypeOK'
  BY <1>1, <1>4, <1>6, Types DEF BodyInv, Typed
<1>8. UntouchedInv'
  BY <1>1, <1>4, <1>6 DEF BodyInv, UntouchedInv, Unread, Body!NotRead
<1>9. ASSUME ~overlapped PROVE InTurnInv' /\ (~broken => WholeInv')
  <2>1. InTurnInv /\ \A x \in Responses : x # r => ~Body!UnderWay(x)
    BY <1>1, <1>9 DEF BodyInv, InTurnInv
  <2>2. InTurnInv'
    BY <1>1, <1>4, <1>5, <1>6, <2>1 DEF InTurnInv, Reads
  <2>3. ASSUME ~broken PROVE WholeInv'
    <3>1. WholeInv
      BY <1>9, <2>3 DEF BodyInv
    <3>2. \A x \in Responses : ~Reads(x, {"sharedNative"})
      BY <1>1, <2>1 DEF Reads
    <3> QED BY <1>1, <1>3, <1>4, <1>5, <1>6, <2>3, <3>1, <3>2 DEF WholeInv, Body!Ended
  <2> QED BY <2>2, <2>3
<1> QED BY <1>1, <1>3, <1>4, <1>7, <1>8, <1>9 DEF BodyInv, Unread

\* pull() of a reader k, before it awaits.
LEMMA PulledFields ==
    ASSUME MaxChunks \in Nat, shared \in SharedFields, NEW k \in ReaderFields,
           k.how = "bytes" => k.got + k.left <= MaxChunks,
           k.at = "idle", k.how \in {"native", "sharedNative", "bytes"},
           NEW p, p = Body!Pulled(k)
    PROVE  /\ p \in ReaderFields /\ p.how = k.how /\ p.got + p.left = k.got + k.left
           /\ p.how # "bytes" => p.got = k.got
           /\ p.at = "done" => k.how \in {"bytes", "sharedNative"}
           /\ p.at = "done" /\ k.how = "bytes" => p.left = 0
           /\ p.at = "done" /\ k.how = "sharedNative" => shared.finished
           /\ p.at \in {"idle", "waiting", "done"}
           /\ p.at = "waiting" <=>
                k.how # "bytes" /\ ~(k.how = "sharedNative" /\ shared.finished)
<1>1. CASE k.how = "bytes" /\ k.left > 0
  <2>1. p = [k EXCEPT !.got = @ + 1, !.left = @ - 1]
    BY <1>1 DEF Body!Pulled
  <2>2. k.got + 1 \in 0 .. MaxChunks /\ k.left - 1 \in 0 .. MaxChunks
    BY <1>1 DEF ReaderFields
  <2>3. p.how = "bytes" /\ p.at = "idle" /\ p.got = k.got + 1 /\ p.left = k.left - 1
    BY <1>1, <2>1 DEF ReaderFields
  <2>4. p \in ReaderFields
    BY <2>1, <2>2 DEF ReaderFields
  <2>5. k.got + 1 + (k.left - 1) = k.got + k.left
    BY DEF ReaderFields
  <2>6. p.got + p.left = k.got + k.left
    BY <2>3, <2>5
  <2> QED BY <1>1, <2>3, <2>4, <2>6
<1>2. CASE k.how = "bytes" /\ k.left = 0
  <2>1. p = [k EXCEPT !.at = "done"]
    BY <1>2 DEF Body!Pulled
  <2>2. p.how = "bytes" /\ p.at = "done" /\ p.got = k.got /\ p.left = k.left /\ p \in ReaderFields
    BY <1>2, <2>1 DEF ReaderFields
  <2> QED BY <1>2, <2>2
<1>3. CASE k.how = "sharedNative" /\ shared.finished
  <2>1. p = [k EXCEPT !.at = "done"]
    BY <1>3 DEF Body!Pulled
  <2> QED BY <1>3, <2>1 DEF ReaderFields
<1>4. CASE k.how # "bytes" /\ ~(k.how = "sharedNative" /\ shared.finished)
  <2>1. p = [k EXCEPT !.at = "waiting"]
    BY <1>4 DEF Body!Pulled
  <2> QED BY <1>4, <2>1 DEF ReaderFields
<1>5. k.left > 0 \/ k.left = 0
  BY DEF ReaderFields
<1> QED BY <1>1, <1>2, <1>3, <1>4, <1>5

LEMMA PullAnswersBodyInv ==
    ASSUME MaxChunks \in Nat, BodyInv, NEW r \in Responses, Body!PullAnswers(r)
    PROVE  BodyInv'
<1>1. /\ reader[r].how \in {"native", "sharedNative"} /\ reader[r].at = "waiting" /\ Body!UnderWay(r)
      /\ UNCHANGED <<bodySource, broken, trapped, overlapped>>
      /\ reader[r] \in ReaderFields
  BY Types DEF Body!PullAnswers, Body!UnderWay, BodyInv, Typed
<1>2. PICK k : /\ Steps(r, k) /\ k.how = reader[r].how /\ k.at # "waiting"
               /\ k.at = "done" => k.got = MaxChunks
               /\ k.at = "failed" => broken
  <2>1. CASE /\ reader[r].got < MaxChunks
             /\ reader' = [reader EXCEPT ![r] = [reader[r] EXCEPT !.at = "idle", !.got = @ + 1]]
    <3>1. PICK k : k = [reader[r] EXCEPT !.at = "idle", !.got = @ + 1]
      OBVIOUS
    <3>2. reader[r].got + 1 \in 0 .. MaxChunks
      BY <1>1, <2>1 DEF ReaderFields
    <3>3. k \in ReaderFields /\ k.how = reader[r].how /\ k.at = "idle"
      BY <1>1, <3>1, <3>2 DEF ReaderFields
    <3> QED BY <2>1, <3>1, <3>3 DEF Steps
  <2>2. CASE reader[r].got = MaxChunks /\ ~broken /\ reader' = [reader EXCEPT ![r].at = "done"]
    <3>1. PICK k : k = [reader[r] EXCEPT !.at = "done"]
      OBVIOUS
    <3>2. k \in ReaderFields /\ k.how = reader[r].how /\ k.at = "done" /\ k.got = reader[r].got
      BY <1>1, <3>1 DEF ReaderFields
    <3> QED BY <2>2, <3>1, <3>2 DEF Steps
  <2>3. CASE broken /\ reader' = [reader EXCEPT ![r].at = "failed"]
    <3>1. PICK k : k = [reader[r] EXCEPT !.at = "failed"]
      OBVIOUS
    <3>2. k \in ReaderFields /\ k.how = reader[r].how /\ k.at = "failed"
      BY <1>1, <3>1 DEF ReaderFields
    <3> QED BY <2>3, <3>1, <3>2 DEF Steps
  <2> QED BY <2>1, <2>2, <2>3 DEF Body!PullAnswers
<1>3. /\ reader'[r] = k /\ reader' \in [Responses -> ReaderFields]
      /\ \A x \in Responses : x # r => /\ reader'[x] = reader[x]
                                       /\ Body!UnderWay(x)' <=> Body!UnderWay(x)
                                       /\ Unread(x)' <=> Unread(x)
                                       /\ Body!Ended(x)' <=> Body!Ended(x)
  BY <1>2, StepReader DEF BodyInv
<1>4. Body!UnderWay(r)' => k.at = "idle"
  BY <1>2, <1>3 DEF Body!UnderWay, ReaderFields
<1>5. /\ k.how = "native" => shared' = shared
      /\ k.how = "sharedNative" => ~shared'.borrowed /\ shared'.buffer = k.got
                                   /\ (shared'.finished <=> k.at = "done")
      /\ shared' \in SharedFields /\ shared'.response = shared.response
  BY <1>1, <1>2, <1>3, Types DEF Body!PullAnswers, BodyInv, Typed, SharedFields, ReaderFields
<1>6. Body!TypeOK'
  BY <1>1, <1>3, <1>5, Types DEF BodyInv, Typed
<1>7. ~Unread(r) /\ k.how \in {"native", "sharedNative"}
  BY <1>1, <1>2 DEF Unread, Body!NotRead
<1>8. UntouchedInv'
  BY <1>1, <1>3, <1>5, <1>7 DEF BodyInv, UntouchedInv
<1>9. ASSUME ~overlapped PROVE InTurnInv' /\ (~broken => WholeInv')
  <2>1. InTurnInv /\ \A x \in Responses : x # r => ~Body!UnderWay(x)
    BY <1>1, <1>9 DEF BodyInv, InTurnInv
  <2>2. InTurnInv'
    <3>1. ~trapped' /\ \A x, y \in Responses : Body!UnderWay(x)' /\ Body!UnderWay(y)' => x = y
      BY <1>1, <1>3, <2>1 DEF InTurnInv
    <3>2. shared'.response =>
            \E x, y \in Responses : x # y /\ bodySource'[x] = "shared" /\ bodySource'[y] = "shared"
      BY <1>1, <1>5, <2>1 DEF InTurnInv
    <3>3. ~shared'.borrowed
      BY <1>2, <1>5, <1>7, <2>1 DEF InTurnInv, Reads
    <3>4. \A x \in Responses : Reads(x, {"sharedNative"})' =>
            ~shared'.finished /\ \E y \in Responses \ {x} : bodySource'[y] = "shared"
      BY <1>1, <1>2, <1>3, <1>4, <1>5, <2>1 DEF InTurnInv, Reads
    <3> QED BY <3>1, <3>2, <3>3, <3>4 DEF InTurnInv
  <2>3. ASSUME ~broken PROVE WholeInv'
    <3>1. WholeInv
      BY <1>9, <2>3 DEF BodyInv
    <3>2. CASE k.how = "native"
      <4>1. \A x \in Responses : Reads(x, {"sharedNative"})' <=> Reads(x, {"sharedNative"})
        BY <1>1, <1>2, <1>3, <3>2 DEF Reads
      <4> QED BY <1>1, <1>2, <1>3, <1>5, <3>1, <3>2, <4>1 DEF WholeInv, Body!Ended
    <3>3. CASE k.how = "sharedNative"
      <4>1. k.at = "idle" \/ k.at = "done"
        BY <1>2, <2>3 DEF Steps, ReaderFields
      <4>2. k.at = "idle" => Reads(r, {"sharedNative"})'
        BY <1>3, <3>3 DEF Reads, Body!UnderWay
      <4>3. k.at = "done" => shared'.buffer = MaxChunks
        BY <1>2, <1>5, <3>3
      <4> QED BY <1>1, <1>2, <1>3, <1>5, <3>1, <3>3, <4>1, <4>2, <4>3 DEF WholeInv, Body!Ended
    <3> QED BY <1>7, <3>2, <3>3
  <2> QED BY <2>2, <2>3
<1> QED BY <1>1, <1>2, <1>3, <1>6, <1>7, <1>8, <1>9 DEF BodyInv, Unread

LEMMA PullBodyInv ==
    ASSUME MaxChunks \in Nat, BodyInv, NEW r \in Responses, Body!Pull(r)
    PROVE  BodyInv'
<1>1. /\ reader[r].how \in {"native", "sharedNative", "bytes"} /\ reader[r].at = "idle"
      /\ Body!UnderWay(r) /\ reader[r] \in ReaderFields /\ ~Unread(r) /\ shared \in SharedFields
  BY Types DEF Body!Pull, Body!UnderWay, BodyInv, Typed, Unread, Body!NotRead
<1>2. CASE Body!Unreachable(r, reader[r].how)
  <2>1. Body!Panics /\ UNCHANGED overlapped
    BY <1>2 DEF Body!Pull
  <2>2. ASSUME ~overlapped PROVE FALSE
    <3>1. InTurnInv
      BY <2>2 DEF BodyInv
    <3>2. reader[r].how = "sharedNative" /\ shared.borrowed
      BY <1>1, <1>2, <3>1 DEF Body!Unreachable, InTurnInv, Reads
    <3> QED BY <1>1, <3>1, <3>2 DEF InTurnInv, Reads
  <2> QED BY <2>1, <2>2, PanicsAreOvertaken
<1>3. CASE ~Body!Unreachable(r, reader[r].how)
  <2>1. PICK k : k = Body!Pulled(reader[r])
    OBVIOUS
  <2>2. /\ reader' = [reader EXCEPT ![r] = k] /\ UNCHANGED <<bodySource, broken, trapped, overlapped>>
        /\ shared' = [shared EXCEPT
                !.borrowed = @ \/ (reader[r].how = "sharedNative" /\ ~shared.finished)]
    BY <1>3, <2>1 DEF Body!Pull
  <2>3. /\ k \in ReaderFields /\ k.how = reader[r].how /\ k.got + k.left = reader[r].got + reader[r].left
        /\ k.how # "bytes" => k.got = reader[r].got
        /\ k.at = "done" => k.how \in {"bytes", "sharedNative"}
        /\ k.at = "done" /\ k.how = "bytes" => k.left = 0
        /\ k.at = "done" /\ k.how = "sharedNative" => shared.finished
        /\ k.at \in {"idle", "waiting", "done"}
        /\ k.at = "waiting" <=> k.how # "bytes" /\ ~(k.how = "sharedNative" /\ shared.finished)
    BY <1>1, <2>1, PulledFields DEF BodyInv
  <2>4. /\ reader'[r] = k /\ reader' \in [Responses -> ReaderFields]
        /\ \A x \in Responses : x # r => /\ reader'[x] = reader[x]
                                         /\ Body!UnderWay(x)' <=> Body!UnderWay(x)
                                         /\ Unread(x)' <=> Unread(x)
                                         /\ Body!Ended(x)' <=> Body!Ended(x)
    BY <2>2, <2>3, StepReader DEF BodyInv, Steps
  <2>5. /\ shared'.response = shared.response /\ shared'.finished = shared.finished
        /\ shared'.buffer = shared.buffer /\ shared' \in SharedFields
        /\ shared'.borrowed = (shared.borrowed \/ (k.how = "sharedNative" /\ ~shared.finished))
    BY <1>1, <2>2, <2>3 DEF SharedFields
  <2>6. Body!TypeOK'
    BY <2>2, <2>4, <2>5, Types DEF BodyInv, Typed
  <2>7. UntouchedInv'
    BY <1>1, <2>2, <2>4, <2>5 DEF BodyInv, UntouchedInv
  <2>8. ASSUME ~overlapped PROVE InTurnInv' /\ (~broken => WholeInv')
    <3>1. InTurnInv /\ \A x \in Responses : x # r => ~Body!UnderWay(x)
      BY <1>1, <2>8 DEF BodyInv, InTurnInv
    <3>2. k.how = "sharedNative" => ~shared.finished /\ k.at = "waiting"
                                    /\ \E y \in Responses \ {r} : bodySource[y] = "shared"
      BY <1>1, <2>3, <3>1 DEF InTurnInv, Reads
    <3>3. k.how # "sharedNative" => ~shared'.borrowed
      BY <1>1, <2>3, <2>5, <3>1 DEF InTurnInv, Reads
    <3>4. k.how = "sharedNative" => Body!UnderWay(r)' /\ reader'[r].at = "waiting"
      BY <2>4, <3>2 DEF Body!UnderWay
    <3>5. \A x \in Responses : Reads(x, {"sharedNative"})' <=> Reads(x, {"sharedNative"})
      BY <1>1, <2>3, <2>4, <3>4 DEF Reads
    <3>6. InTurnInv'
      <4>1. ~trapped' /\ \A x, y \in Responses : Body!UnderWay(x)' /\ Body!UnderWay(y)' => x = y
        BY <2>2, <2>4, <3>1 DEF InTurnInv
      <4>2. shared'.response =>
              \E x, y \in Responses : x # y /\ bodySource'[x] = "shared" /\ bodySource'[y] = "shared"
        BY <2>2, <2>5, <3>1 DEF InTurnInv
      <4>3. shared'.borrowed =>
              \E x \in Responses : Reads(x, {"text", "sharedNative"})' /\ reader'[x].at = "waiting"
        BY <2>4, <3>3, <3>4 DEF Reads
      <4>4. \A x \in Responses : Reads(x, {"sharedNative"})' =>
              ~shared'.finished /\ \E y \in Responses \ {x} : bodySource'[y] = "shared"
        BY <2>2, <2>5, <3>1, <3>5 DEF InTurnInv
      <4> QED BY <4>1, <4>2, <4>3, <4>4 DEF InTurnInv
    <3>7. ASSUME ~broken PROVE WholeInv'
      <4>1. WholeInv
        BY <2>8, <3>7 DEF BodyInv
      <4>2. \/ shared'.response \/ ~\E x \in Responses : bodySource'[x] = "shared"
            \/ shared'.borrowed
            \/ \E x \in Responses : Reads(x, {"sharedNative"})'
            \/ shared'.buffer = MaxChunks
        BY <2>2, <2>5, <3>5, <4>1 DEF WholeInv
      <4>3. Body!Ended(r)' => k.got = MaxChunks
        <5>1. Body!Ended(r)' => k.how = "bytes" /\ k.left = 0
          BY <2>3, <2>4, <3>2 DEF Body!Ended
        <5> QED BY <2>3, <4>1, <5>1 DEF WholeInv, ReaderFields
      <4> QED BY <2>3, <2>4, <4>1, <4>2, <4>3 DEF WholeInv
    <3> QED BY <3>6, <3>7
  <2> QED BY <1>1, <2>2, <2>3, <2>4, <2>6, <2>7, <2>8 DEF BodyInv, Unread
<1> QED BY <1>2, <1>3

LEMMA FirstPullBodyInv ==
    ASSUME MaxChunks \in Nat, BodyInv, NEW r \in Responses, Body!FirstPull(r)
    PROVE  BodyInv'
<1>1. PICK how : how = Body!NativeStream(r)
  OBVIOUS
<1>2. /\ bodySource[r] \in {"native", "shared"} /\ reader[r] = Body!NotRead
      /\ overlapped' = Body!Overlaps(r)
      /\ shared \in SharedFields /\ bodySource \in [Responses -> Sources]
      /\ shared.borrowed \in BOOLEAN /\ reader[r].how = "none"
  BY Types DEF Body!FirstPull, BodyInv, Typed, Unread, SharedFields
<1>3. /\ how \in {"native", "sharedNative", "bytes"}
      /\ how = "native" <=> bodySource[r] = "native"
      /\ how = "sharedNative" <=> bodySource[r] = "shared" /\ shared.response
  BY <1>1, <1>2 DEF Body!NativeStream
<1>4. ~Body!Overlaps(r) => InTurnInv /\ ~shared.borrowed /\ ~overlapped
                           /\ (\A x \in Responses : ~Body!UnderWay(x))
                           /\ ~((bodySource[r] = "shared" /\ shared.borrowed)
                                  \/ Body!Unreachable(r, how))
  <2> SUFFICES ASSUME ~Body!Overlaps(r) PROVE ~Body!Unreachable(r, how)
    BY <1>2, BeginsInTurn
  <2>1. InTurnInv /\ ~shared.borrowed
    BY <1>2, BeginsInTurn
  <2> QED BY <1>3, <2>1 DEF InTurnInv, Body!Unreachable
<1>5. CASE (bodySource[r] = "shared" /\ shared.borrowed) \/ Body!Unreachable(r, how)
  <2>1. Body!Panics /\ overlapped'
    BY <1>1, <1>2, <1>4, <1>5 DEF Body!FirstPull
  <2> QED BY <2>1, PanicsAreOvertaken
<1>6. CASE ~((bodySource[r] = "shared" /\ shared.borrowed) \/ Body!Unreachable(r, how))
  <2>1. PICK s : s = [Body!NotRead EXCEPT !.how = how,
                 !.left = IF how = "bytes" THEN shared.buffer ELSE 0]
    OBVIOUS
  <2>2. PICK k : k = Body!Pulled(s)
    OBVIOUS
  <2>3. /\ bodySource' = [bodySource EXCEPT ![r] = "consumed"]
        /\ shared' = [shared EXCEPT !.response = @ /\ how # "sharedNative",
                                    !.borrowed = how = "sharedNative"]
        /\ UNCHANGED <<broken, trapped>>
    BY <1>1, <1>6 DEF Body!FirstPull
  <2>4. reader' = [reader EXCEPT ![r] = k]
    <3>1. reader' = [reader EXCEPT ![r] =
                Body!Pulled([@ EXCEPT !.how = how, !.left = IF how = "bytes" THEN shared.buffer ELSE 0])]
      BY <1>1, <1>6 DEF Body!FirstPull
    <3>2. [reader[r] EXCEPT !.how = how, !.left = IF how = "bytes" THEN shared.buffer ELSE 0] = s
      BY <1>2, <2>1
    <3> QED BY <2>2, <3>1, <3>2
  <2>5. /\ s.how = how /\ s.at = "idle" /\ s.got = 0
        /\ s.left = IF how = "bytes" THEN shared.buffer ELSE 0
        /\ s \in ReaderFields
    <3>1. shared.buffer \in 0 .. MaxChunks /\ 0 \in 0 .. MaxChunks
      BY <1>2 DEF SharedFields
    <3> QED BY <1>3, <2>1, <3>1 DEF ReaderFields, Body!NotRead
  <2>6. s.got + s.left = s.left /\ s.left <= MaxChunks
    BY <2>5 DEF ReaderFields
  <2>7. /\ k \in ReaderFields /\ k.how = how /\ k.got + k.left = s.left
        /\ k.at = "done" => k.how \in {"bytes", "sharedNative"}
        /\ k.at = "done" /\ k.how = "bytes" => k.left = 0
        /\ k.at \in {"idle", "waiting", "done"}
        /\ k.at = "waiting" <=> k.how # "bytes" /\ ~(k.how = "sharedNative" /\ shared.finished)
    BY <1>2, <1>3, <2>2, <2>5, <2>6, PulledFields
  <2>8. /\ reader'[r] = k /\ reader' \in [Responses -> ReaderFields]
        /\ \A x \in Responses : x # r => /\ reader'[x] = reader[x]
                                         /\ Body!UnderWay(x)' <=> Body!UnderWay(x)
                                         /\ Unread(x)' <=> Unread(x)
                                         /\ Body!Ended(x)' <=> Body!Ended(x)
    BY <2>4, <2>7, StepReader DEF BodyInv, Steps
  <2>9. /\ shared'.finished = shared.finished /\ shared'.buffer = shared.buffer
        /\ shared'.borrowed = (how = "sharedNative")
        /\ shared'.response = (shared.response /\ how # "sharedNative") /\ shared' \in SharedFields
    BY <1>2, <2>3 DEF SharedFields
  <2>10. /\ bodySource'[r] = "consumed" /\ bodySource' \in [Responses -> Sources]
         /\ \A x \in Responses : x # r => bodySource'[x] = bodySource[x]
    BY <1>2, <2>3 DEF Sources
  <2>11. ~shared'.response /\ \A x \in Responses : bodySource'[x] # "native"
    <3>1. how = "native" => ~shared.response
      BY <1>3 DEF BodyInv, UntouchedInv
    <3>2. ~shared'.response
      BY <1>2, <1>3, <2>9, <3>1
    <3>3. \A x \in Responses \ {r} : bodySource[x] # "native"
      BY <1>2 DEF BodyInv, UntouchedInv
    <3> QED BY <2>10, <3>2, <3>3
  <2>12. Body!TypeOK'
    BY <1>2, <2>3, <2>8, <2>9, <2>10, Types DEF BodyInv, Typed, Body!Overlaps
  <2>13. UntouchedInv'
    BY <2>11 DEF UntouchedInv
  <2>14. ASSUME ~overlapped' PROVE InTurnInv' /\ (~broken' => WholeInv')
    <3>1. /\ InTurnInv /\ ~shared.borrowed /\ ~overlapped /\ UntouchedInv
          /\ \A x \in Responses : ~Body!UnderWay(x)
      BY <1>2, <1>4, <2>14 DEF BodyInv
    <3>2. how = "sharedNative" =>
            /\ ~shared.finished /\ k.at = "waiting" /\ Body!UnderWay(r)'
            /\ \E y \in Responses \ {r} : bodySource'[y] = "shared"
      <4> SUFFICES ASSUME how = "sharedNative"
                   PROVE  /\ ~shared.finished /\ k.at = "waiting" /\ Body!UnderWay(r)'
                          /\ \E y \in Responses \ {r} : bodySource'[y] = "shared"
        OBVIOUS
      <4>1. shared.response
        BY <1>3
      <4>2. ~shared.finished
        BY <3>1, <4>1 DEF UntouchedInv
      <4>3. k.at = "waiting" /\ Body!UnderWay(r)'
        BY <2>7, <2>8, <4>2 DEF Body!UnderWay
      <4> QED BY <2>10, <3>1, <4>1, <4>2, <4>3 DEF InTurnInv
    <3>3. \A x \in Responses : x # r => ~Body!UnderWay(x)'
      BY <2>8, <3>1
    <3>4. InTurnInv'
      <4>1. ~trapped' /\ \A x, y \in Responses : Body!UnderWay(x)' /\ Body!UnderWay(y)' => x = y
        BY <2>3, <3>1, <3>3 DEF InTurnInv
      <4>2. shared'.borrowed =>
              \E x \in Responses : Reads(x, {"text", "sharedNative"})' /\ reader'[x].at = "waiting"
        BY <2>7, <2>8, <2>9, <3>2 DEF Reads
      <4>3. \A x \in Responses : Reads(x, {"sharedNative"})' =>
              ~shared'.finished /\ \E y \in Responses \ {x} : bodySource'[y] = "shared"
        BY <2>7, <2>8, <2>9, <3>2, <3>3 DEF Reads
      <4> QED BY <2>11, <4>1, <4>2, <4>3 DEF InTurnInv
    <3>5. ASSUME ~broken' PROVE WholeInv'
      <4>1. WholeInv
        BY <2>3, <3>1, <3>5 DEF BodyInv
      <4>2. how = "bytes" => shared.buffer = MaxChunks
        BY <1>2, <1>3, <3>1, <4>1 DEF WholeInv, Reads
      <4>3. (\E x \in Responses : bodySource'[x] = "shared") /\ how # "sharedNative"
                => shared'.buffer = MaxChunks
        <5> SUFFICES ASSUME NEW x \in Responses, bodySource'[x] = "shared", how = "native"
                     PROVE  FALSE
          BY <1>3, <2>9, <4>2
        <5> QED BY <1>3, <2>10 DEF BodyInv, UntouchedInv
      <4>4. Body!Ended(r)' => k.got = MaxChunks
        <5>1. Body!Ended(r)' => k.how = "bytes" /\ k.left = 0
          BY <2>7, <2>8, <3>2 DEF Body!Ended
        <5> QED BY <2>5, <2>7, <4>2, <5>1 DEF ReaderFields
      <4>5. k.how = "bytes" => k.got + k.left = MaxChunks
        BY <2>5, <2>7, <4>2
      <4> QED BY <2>7, <2>8, <2>9, <4>1, <4>3, <4>4, <4>5 DEF WholeInv
    <3> QED BY <3>4, <3>5
  <2>15. ~Unread(r)' /\ k.how # "none"
    BY <1>3, <2>7, <2>8 DEF Unread, Body!NotRead
  <2>16. k.how = "bytes" => k.got + k.left <= MaxChunks
    BY <2>6, <2>7
  <2> QED BY <2>8, <2>12, <2>13, <2>14, <2>15, <2>16 DEF BodyInv, Unread
<1> QED BY <1>5, <1>6

\* The inductive invariant of the bodies.
THEOREM BodyInvIsInvariant == ASSUME MaxChunks \in Nat PROVE Body!Spec => []BodyInv
<1>1. BodyInv /\ [Body!Next]_Body!vars => BodyInv'
  <2> SUFFICES ASSUME BodyInv, [Body!Next]_Body!vars PROVE BodyInv'
    OBVIOUS
  <2>1. CASE UNCHANGED Body!vars
    BY <2>1 DEF Body!vars, BodyInv, Body!TypeOK, UntouchedInv, InTurnInv, WholeInv, Unread, Reads,
       Body!UnderWay, Body!Ended
  <2>2. CASE Body!Next
    BY <2>2, CloneBodyInv, LetGoBodyInv, TextBodyInv, TextAnswersBodyInv, FirstPullBodyInv,
       PullBodyInv, PullAnswersBodyInv DEF Body!Next, Body!Host
  <2> QED BY <2>1, <2>2
<1> QED BY <1>1, InitBodyInv, PTL DEF Body!Spec

\* A program that keeps a Response and its clones until it has read them, one after the other,
\* gets the whole body from each and meets no panic, whoever reads first and however, unless
\* the host's stream fails; for any number of clones and chunks.
THEOREM BodiesAreAlwaysWhole == ASSUME MaxChunks \in Nat PROVE Body!Spec => []BodiesAreWhole
<1>1. BodyInv => BodiesAreWhole
  BY DEF BodyInv, BodiesAreWhole, Body!BodiesAreWhole, InTurnInv, WholeInv
<1> QED BY <1>1, BodyInvIsInvariant, PTL
-----------------------------------------------------------------------------
(* The end of a request of an XMLHttpRequest.                                 *)

XhrSteps ==
    {Xhr!Program} \cup {<<name, g>> : name \in {"sendAsync", "fetch", "arm", "text"}, g \in Xhr!Numbers}
    \cup {<<"dispatch", e>> : e \in Xhr!Ends}
StepsOf(s) == {s[i] : i \in 1 .. Len(s)}
Alone(s, names) == \A i, j \in 1 .. Len(s) : s[i][1] \in names /\ s[j][1] \in names => i = j
None(s, names) == \A x \in StepsOf(s) : x[1] \notin names
ToFetch == {"sendAsync", "fetch"}
Kinds == {{"dispatch"}, {"text"}, ToFetch}
\* A request is to be made, or its answer or its body to come.
Working == (\E g \in Xhr!Numbers : Xhr!UnderWay(g)) \/ ~None(stack, ToFetch)
\* The last event is one that ends a request.
Ended == events # <<>> /\ events[Len(events)] \in Xhr!Ends
\* The program has not called abort() or open() where the object does not expect it.
Careful == strayed \cap {"aborted too late", "opened too early"} = {}

\* What is left to do, and that sends are numbered.
FormInv ==
    /\ stack \in Seq(XhrSteps)
    /\ calls \in [open : Nat, send : 0 .. MaxSends, abort : Nat]
\* One event is about to be dispatched, which ends the request unless it is that of abort();
\* the one body that is to be read has not been asked for.
StepsInv ==
    /\ Alone(stack, {"dispatch"}) /\ Alone(stack, {"text"})
    /\ \A x \in StepsOf(stack) :
         /\ x[1] = "dispatch" => x[2] # "late load" /\ (x[2] = "abort" \/ ~Ended)
         /\ x[1] = "text" => sending[x[2]] = "loading"
\* Until it is aborted, an object works on one request, the one sent last.
WorkInv ==
    ~xhr.aborted =>
      /\ Alone(stack, ToFetch)
      /\ \A x \in StepsOf(stack) : x[1] = "fetch" => x[2] = xhr.controller
      /\ \A g \in Xhr!Numbers : Xhr!UnderWay(g) => g = xhr.controller /\ None(stack, ToFetch)
      /\ Working => xhr.sent
\* One that was aborted is not opened and reads no body.
AbortedInv == xhr.aborted => xhr.readyState # Xhr!OPENED /\ \A g \in Xhr!Numbers : ~Xhr!Reading(g)
\* Once a request has ended, or is about to, no work is left, unless it was aborted.
EndInv ==
    (Ended \/ ~None(stack, {"dispatch"})) /\ ~xhr.aborted => ~Working /\ xhr.readyState = Xhr!DONE
\* The events so far.
PastInv ==
    /\ \A i \in 2 .. Len(events) : events[i - 1] \in Xhr!Ends => events[i] \in {"open", "abort"}
    /\ \A i \in 1 .. Len(events) : events[i] # "late load"

CareInv == StepsInv /\ WorkInv /\ AbortedInv /\ EndInv /\ PastInv
XhrInv == Xhr!TypeOK /\ FormInv /\ (Careful => CareInv)

-----------------------------------------------------------------------------
\* What two sequences of steps hold when they follow one another.
LEMMA StepsJoin ==
    ASSUME NEW S, NEW s \in Seq(S), NEW t \in Seq(S)
    PROVE  /\ s \o t \in Seq(S)
           /\ StepsOf(s \o t) = StepsOf(s) \cup StepsOf(t)
           /\ \A names \in Kinds : Alone(s, names) /\ Alone(t, names)
                /\ (None(s, names) \/ None(t, names)) => Alone(s \o t, names)
<1> DEFINE u == s \o t
<1>1. /\ u \in Seq(S) /\ Len(u) = Len(s) + Len(t) /\ Len(s) \in Nat /\ Len(t) \in Nat
      /\ \A i \in 1 .. Len(u) : u[i] = IF i <= Len(s) THEN s[i] ELSE t[i - Len(s)]
  OBVIOUS
<1> HIDE DEF u
<1>2. StepsOf(u) = StepsOf(s) \cup StepsOf(t)
  <2>1. StepsOf(u) \subseteq StepsOf(s) \cup StepsOf(t)
    BY <1>1 DEF StepsOf
  <2>2. StepsOf(s) \subseteq StepsOf(u)
    BY <1>1 DEF StepsOf
  <2>3. StepsOf(t) \subseteq StepsOf(u)
    <3>1. ASSUME NEW j \in 1 .. Len(t) PROVE t[j] \in StepsOf(u)
      <4>1. j + Len(s) \in 1 .. Len(u) /\ ~(j + Len(s) <= Len(s)) /\ j + Len(s) - Len(s) = j
        BY <1>1, <3>1
      <4>2. u[j + Len(s)] = t[j]
        BY <1>1, <4>1
      <4> QED BY <4>1, <4>2 DEF StepsOf
    <3> QED BY <3>1 DEF StepsOf
  <2> QED BY <2>1, <2>2, <2>3
<1>3. ASSUME NEW names, Alone(s, names), Alone(t, names), None(s, names) \/ None(t, names),
             NEW i \in 1 .. Len(u), NEW j \in 1 .. Len(u), u[i][1] \in names, u[j][1] \in names
      PROVE  i = j
  <2>1. CASE None(s, names)
    <3>1. ASSUME NEW k \in 1 .. Len(u), u[k][1] \in names
          PROVE  k - Len(s) \in 1 .. Len(t) /\ u[k] = t[k - Len(s)]
      <4>1. ~(k <= Len(s))
        BY <1>1, <2>1, <3>1 DEF None, StepsOf
      <4> QED BY <1>1, <3>1, <4>1
    <3>2. i - Len(s) = j - Len(s)
      BY <1>3, <3>1 DEF Alone
    <3> QED BY <3>2, <1>1
  <2>2. CASE None(t, names)
    <3>1. ASSUME NEW k \in 1 .. Len(u), u[k][1] \in names PROVE k \in 1 .. Len(s) /\ u[k] = s[k]
      <4>1. k <= Len(s)
        <5>1. SUFFICES ASSUME ~(k <= Len(s)) PROVE FALSE
          OBVIOUS
        <5>2. k - Len(s) \in 1 .. Len(t) /\ u[k] = t[k - Len(s)]
          BY <1>1, <5>1
        <5>3. t[k - Len(s)] \in StepsOf(t)
          BY <5>2 DEF StepsOf
        <5> QED BY <2>2, <3>1, <5>2, <5>3 DEF None
      <4> QED BY <1>1, <3>1, <4>1
    <3> QED BY <1>3, <3>1 DEF Alone
  <2> QED BY <1>3, <2>1, <2>2
<1>4. \A names \in Kinds : Alone(s, names) /\ Alone(t, names)
         /\ (None(s, names) \/ None(t, names)) => Alone(u, names)
  BY <1>3 DEF Alone
<1> QED BY <1>1, <1>2, <1>4 DEF u

\* The step that runs, and those behind it.
LEMMA StepsTail ==
    ASSUME NEW S, NEW s \in Seq(S), s # <<>>
    PROVE  /\ Head(s) \in S /\ Tail(s) \in Seq(S) /\ Head(s) \in StepsOf(s)
           /\ StepsOf(s) = {Head(s)} \cup StepsOf(Tail(s))
           /\ \A names \in Kinds : Alone(s, names) =>
                /\ Alone(Tail(s), names)
                /\ Head(s)[1] \in names => None(Tail(s), names)
<1>1. PICK t : t = Tail(s)
  OBVIOUS
<1>2. /\ t \in Seq(S) /\ Len(s) = Len(t) + 1 /\ Len(t) \in Nat /\ Head(s) = s[1] /\ Head(s) \in S
      /\ \A i \in 1 .. Len(t) : t[i] = s[i + 1]
  BY <1>1
<1>3. StepsOf(s) = {Head(s)} \cup StepsOf(t)
  <2>1. ASSUME NEW i \in 1 .. Len(s) PROVE s[i] \in {Head(s)} \cup StepsOf(t)
    <3>1. CASE i = 1
      BY <3>1, <1>2
    <3>2. CASE i # 1
      <4>1. i - 1 \in 1 .. Len(t) /\ t[i - 1] = s[i]
        BY <3>2, <1>2
      <4> QED BY <4>1 DEF StepsOf
    <3> QED BY <3>1, <3>2
  <2>2. ASSUME NEW i \in 1 .. Len(t) PROVE t[i] \in StepsOf(s)
    <3>1. i + 1 \in 1 .. Len(s) /\ t[i] = s[i + 1]
      BY <1>2
    <3> QED BY <3>1 DEF StepsOf
  <2>3. Head(s) \in StepsOf(s)
    <3>1. 1 \in 1 .. Len(s)
      BY <1>2
    <3> QED BY <3>1, <1>2 DEF StepsOf
  <2> QED BY <2>1, <2>2, <2>3 DEF StepsOf
<1>4. ASSUME NEW names \in Kinds, Alone(s, names) PROVE Alone(t, names)
  <2>1. ASSUME NEW i \in 1 .. Len(t), NEW j \in 1 .. Len(t), t[i][1] \in names, t[j][1] \in names
        PROVE  i = j
    <3>1. /\ i + 1 \in 1 .. Len(s) /\ j + 1 \in 1 .. Len(s)
          /\ s[i + 1][1] \in names /\ s[j + 1][1] \in names
      BY <1>2, <2>1
    <3>2. i + 1 = j + 1
      BY <1>4, <3>1 DEF Alone
    <3> QED BY <3>2
  <2> QED BY <2>1 DEF Alone
<1>5. ASSUME NEW names \in Kinds, Alone(s, names), Head(s)[1] \in names PROVE None(t, names)
  <2>1. ASSUME NEW i \in 1 .. Len(t), t[i][1] \in names PROVE FALSE
    <3>1. i + 1 \in 1 .. Len(s) /\ 1 \in 1 .. Len(s) /\ s[i + 1][1] \in names /\ s[1][1] \in names
      BY <1>2, <1>5, <2>1
    <3>2. i + 1 = 1
      BY <1>5, <3>1 DEF Alone
    <3> QED BY <3>2
  <2> QED BY <2>1 DEF None, StepsOf
<1>6. Head(s) \in StepsOf(s)
  BY <1>3
<1> QED BY <1>1, <1>2, <1>3, <1>4, <1>5, <1>6

\* Steps that only call the program.
LEMMA QuietSteps ==
    ASSUME NEW s \in Seq(XhrSteps), StepsOf(s) \subseteq {Xhr!Program}
    PROVE  \A names \in Kinds : None(s, names) /\ Alone(s, names)
<1>1. \A names \in Kinds : "program" \notin names
  BY DEF Kinds, ToFetch
<1>2. \A names \in Kinds : None(s, names)
  BY <1>1 DEF None, Xhr!Program
<1>3. ASSUME NEW names \in Kinds PROVE Alone(s, names)
  BY <1>2 DEF Alone, None, StepsOf
<1> QED BY <1>2, <1>3

LEMMA NothingSteps == <<>> \in Seq(XhrSteps) /\ StepsOf(<<>>) = {}
BY DEF StepsOf

LEMMA ProgramSteps ==
    /\ <<Xhr!Program>> \in Seq(XhrSteps)
    /\ StepsOf(<<Xhr!Program>>) = {Xhr!Program}
<1>1. Xhr!Program \in XhrSteps
  BY DEF XhrSteps
<1> HIDE DEF XhrSteps
<1>2. PICK p : p = Xhr!Program
  OBVIOUS
<1> QED BY <1>1, <1>2 DEF StepsOf

\* What _setReadyState() calls, and what ends a request.
LEMMA HearsSteps ==
    ASSUME NEW state
    PROVE  Xhr!Hears(state) \in Seq(XhrSteps) /\ StepsOf(Xhr!Hears(state)) \subseteq {Xhr!Program}
BY NothingSteps, ProgramSteps DEF Xhr!Hears

LEMMA FinishesSteps ==
    ASSUME NEW e \in Xhr!Ends
    PROVE  /\ Xhr!Finishes(e) \in Seq(XhrSteps)
           /\ StepsOf(Xhr!Finishes(e)) \subseteq {Xhr!Program, <<"dispatch", e>>}
           /\ \A names \in Kinds : Alone(Xhr!Finishes(e), names)
           /\ None(Xhr!Finishes(e), {"text"}) /\ None(Xhr!Finishes(e), ToFetch)
<1>1. PICK h : h = Xhr!Hears(Xhr!DONE)
  OBVIOUS
<1>2. h \in Seq(XhrSteps) /\ StepsOf(h) \subseteq {Xhr!Program}
  BY <1>1, HearsSteps
<1>3. PICK d : d = <<"dispatch", e>>
  OBVIOUS
<1>4. PICK p : p = Xhr!Program
  OBVIOUS
<1>5. d \in XhrSteps /\ p \in XhrSteps /\ d[1] = "dispatch" /\ p[1] = "program"
  BY <1>3, <1>4 DEF XhrSteps, Xhr!Program
<1>6. PICK t : t = <<d, p>>
  OBVIOUS
<1>7. t \in Seq(XhrSteps) /\ Len(t) = 2 /\ t[1] = d /\ t[2] = p
  BY <1>5, <1>6
<1>8. StepsOf(t) \subseteq {d, p}
  BY <1>7 DEF StepsOf
<1>9. ASSUME NEW names \in Kinds PROVE Alone(t, names)
  <2>1. "program" \notin names
    BY DEF Kinds, ToFetch
  <2> QED BY <1>5, <1>7, <2>1 DEF Alone
<1>10. Xhr!Finishes(e) = h \o t
  BY <1>1, <1>3, <1>4, <1>6 DEF Xhr!Finishes
<1>11. \A names \in Kinds : None(h, names) /\ Alone(h, names)
  BY <1>2, QuietSteps
<1>12. /\ h \o t \in Seq(XhrSteps) /\ StepsOf(h \o t) = StepsOf(h) \cup StepsOf(t)
       /\ \A names \in Kinds : Alone(h \o t, names)
  BY <1>2, <1>7, <1>9, <1>11, StepsJoin
<1>13. \A x \in StepsOf(h \o t) : x = d \/ x = p
  BY <1>2, <1>4, <1>8, <1>12
<1>14. None(h \o t, {"text"}) /\ None(h \o t, ToFetch)
  BY <1>5, <1>13 DEF None, ToFetch
<1> QED BY <1>3, <1>4, <1>10, <1>12, <1>13, <1>14

-----------------------------------------------------------------------------
\* The stack becomes new before old, and old is what was left to do.
Goes(new, old) ==
    /\ new \in Seq(XhrSteps) /\ old \in Seq(XhrSteps) /\ stack' = new \o old
    /\ \A x \in StepsOf(old) : x \in StepsOf(stack) \/ x = Xhr!Program
    /\ \A names \in Kinds : Alone(stack, names) => Alone(old, names)

LEMMA GoesOn ==
    ASSUME NEW new, NEW old, Goes(new, old)
    PROVE  /\ stack' \in Seq(XhrSteps)
           /\ \A x \in StepsOf(stack') :
                x \in StepsOf(new) \/ (x \in StepsOf(old) /\ (x \in StepsOf(stack) \/ x = Xhr!Program))
           /\ \A names \in Kinds :
                /\ Alone(stack, names) /\ Alone(new, names) /\ (None(new, names) \/ None(old, names))
                     => Alone(stack', names)
                /\ None(stack, names) => None(old, names)
                /\ None(new, names) /\ None(old, names) => None(stack', names)
<1>1. /\ new \in Seq(XhrSteps) /\ old \in Seq(XhrSteps) /\ stack' = new \o old
      /\ \A x \in StepsOf(old) : x \in StepsOf(stack) \/ x = Xhr!Program
      /\ \A names \in Kinds : Alone(stack, names) => Alone(old, names)
  BY DEF Goes
<1>2. /\ stack' \in Seq(XhrSteps) /\ StepsOf(stack') = StepsOf(new) \cup StepsOf(old)
      /\ \A names \in Kinds : Alone(new, names) /\ Alone(old, names)
           /\ (None(new, names) \/ None(old, names)) => Alone(stack', names)
  BY <1>1, StepsJoin
<1>3. ASSUME NEW names \in Kinds, None(stack, names) PROVE None(old, names)
  <2>1. "program" \notin names
    BY DEF Kinds, ToFetch
  <2> QED BY <1>1, <1>3, <2>1 DEF None, Xhr!Program
<1>4. ASSUME NEW names \in Kinds, None(new, names), None(old, names) PROVE None(stack', names)
  BY <1>2, <1>4 DEF None
<1> QED BY <1>1, <1>2, <1>3, <1>4

\* The program calls a function; the step that runs gives way; a turn begins.
LEMMA InvokesGoes ==
    ASSUME stack \in Seq(XhrSteps), NEW new \in Seq(XhrSteps), Xhr!Invokes(new)
    PROVE  \E old : Goes(new, old)
<1>1. CASE stack = <<>>
  <2>1. PICK old : old = <<Xhr!Program>>
    OBVIOUS
  <2>2. old \in Seq(XhrSteps) /\ StepsOf(old) = {Xhr!Program} /\ stack' = new \o old
    BY <1>1, <2>1, ProgramSteps DEF Xhr!Invokes
  <2>3. \A names \in Kinds : Alone(old, names)
    BY <2>2, QuietSteps
  <2> QED BY <2>2, <2>3 DEF Goes
<1>2. CASE stack # <<>>
  <2>1. PICK old : old = stack
    OBVIOUS
  <2>2. Goes(new, old)
    BY <1>2, <2>1 DEF Goes, Xhr!Invokes
  <2> QED BY <2>2
<1> QED BY <1>1, <1>2

LEMMA BecomesGoes ==
    ASSUME stack \in Seq(XhrSteps), stack # <<>>, NEW new \in Seq(XhrSteps), Xhr!Becomes(new)
    PROVE  /\ Head(stack) \in XhrSteps /\ Head(stack) \in StepsOf(stack)
           /\ Goes(new, Tail(stack))
           /\ \A names \in Kinds : Alone(stack, names) /\ Head(stack)[1] \in names
                 => None(Tail(stack), names)
<1>1. PICK old : old = Tail(stack)
  OBVIOUS
<1>2. /\ Head(stack) \in XhrSteps /\ old \in Seq(XhrSteps) /\ Head(stack) \in StepsOf(stack)
      /\ StepsOf(stack) = {Head(stack)} \cup StepsOf(old)
      /\ \A names \in Kinds : Alone(stack, names) =>
           Alone(old, names) /\ (Head(stack)[1] \in names => None(old, names))
  BY <1>1, StepsTail
<1>3. stack' = new \o old
  BY <1>1 DEF Xhr!Becomes
<1>4. Goes(new, old)
  BY <1>2, <1>3 DEF Goes
<1> QED BY <1>1, <1>2, <1>4

LEMMA BeginsGoes ==
    ASSUME stack = <<>>, stack' \in Seq(XhrSteps)
    PROVE  Goes(stack', <<>>)
<1>1. stack' = stack' \o <<>>
  OBVIOUS
<1>2. StepsOf(<<>>) = {} /\ \A names : Alone(<<>>, names)
  BY DEF StepsOf, Alone
<1> QED BY <1>1, <1>2 DEF Goes

\* What was not careful stays so.
LEMMA WasCareful ==
    ASSUME strayed \subseteq strayed'
    PROVE  Careful' => Careful
BY DEF Careful
-----------------------------------------------------------------------------
\* What a step is of.
LEMMA StepArguments ==
    ASSUME stack \in Seq(XhrSteps), NEW x \in StepsOf(stack)
    PROVE  /\ x \in XhrSteps
           /\ x[1] \in {"sendAsync", "fetch", "arm", "text"} => x[2] \in Xhr!Numbers
           /\ x[1] = "dispatch" => x[2] \in Xhr!Ends
<1>1. x \in XhrSteps
  BY DEF StepsOf
<1>2. CASE x = Xhr!Program
  BY <1>1, <1>2 DEF Xhr!Program
<1>3. CASE \E name \in {"sendAsync", "fetch", "arm", "text"}, g \in Xhr!Numbers : x = <<name, g>>
  BY <1>1, <1>3
<1>4. CASE \E e \in Xhr!Ends : x = <<"dispatch", e>>
  BY <1>1, <1>4
<1> QED BY <1>1, <1>2, <1>3, <1>4 DEF XhrSteps

\* The fields of an object, and what each function makes of them.
XhrFields ==
    [readyState : 0 .. 4, sent : BOOLEAN, aborted : BOOLEAN, controller : 0 .. MaxSends,
     timeoutId : 0 .. MaxSends]
Same(r, q) == r.readyState = q.readyState /\ r.sent = q.sent /\ r.aborted = q.aborted
/\ r.controller = q.controller

LEMMA OpenFields ==
    ASSUME NEW r \in XhrFields, NEW state \in 0 .. 4
    PROVE  LET q == [r EXCEPT !.readyState = state, !.sent = FALSE, !.aborted = FALSE] IN
           /\ q \in XhrFields /\ q.readyState = state /\ q.sent = FALSE /\ q.aborted = FALSE
           /\ q.controller = r.controller
BY DEF XhrFields

LEMMA StateFields ==
    ASSUME NEW r \in XhrFields, NEW state \in 0 .. 4
    PROVE  LET q == [r EXCEPT !.readyState = state] IN
           /\ q \in XhrFields /\ q.readyState = state /\ q.sent = r.sent /\ q.aborted = r.aborted
           /\ q.controller = r.controller
BY DEF XhrFields

LEMMA ClearFields ==
    ASSUME NEW r \in XhrFields, NEW state \in 0 .. 4
    PROVE  LET q == [r EXCEPT !.timeoutId = 0, !.readyState = state] IN
           /\ q \in XhrFields /\ q.readyState = state /\ q.sent = r.sent /\ q.aborted = r.aborted
           /\ q.controller = r.controller
<1>1. 0 \in 0 .. MaxSends
  BY Bounds
<1> QED BY <1>1 DEF XhrFields

LEMMA TimerFields ==
    ASSUME NEW r \in XhrFields, NEW t \in 0 .. MaxSends
    PROVE  LET q == [r EXCEPT !.timeoutId = t] IN q \in XhrFields /\ Same(q, r)
BY DEF XhrFields, Same

LEMMA AbortFields ==
    ASSUME NEW r \in XhrFields
    PROVE  LET q == [r EXCEPT !.aborted = TRUE, !.sent = FALSE, !.timeoutId = 0, !.readyState = 4] IN
           q \in XhrFields /\ q.aborted /\ q.readyState = 4
<1>1. 0 \in 0 .. MaxSends /\ 4 \in 0 .. 4
  BY Bounds
<1> QED BY <1>1 DEF XhrFields

LEMMA FiresFields ==
    ASSUME NEW r \in XhrFields
    PROVE  LET q == [r EXCEPT !.timeoutId = 0, !.aborted = TRUE, !.readyState = 4] IN
           q \in XhrFields /\ q.aborted /\ q.readyState = 4
<1>1. 0 \in 0 .. MaxSends /\ 4 \in 0 .. 4
  BY Bounds
<1> QED BY <1>1 DEF XhrFields

LEMMA SentFields ==
    ASSUME NEW r \in XhrFields
    PROVE  LET q == [r EXCEPT !.sent = TRUE] IN
           /\ q \in XhrFields /\ q.sent /\ q.readyState = r.readyState /\ q.aborted = r.aborted
           /\ q.controller = r.controller
BY DEF XhrFields

-----------------------------------------------------------------------------
\* TypeOK, with its numbers.
RequestStates == {"none", "fetch", "ok", "loading", "read", "text", "failed", "aborted", "done"}
XhrTypes ==
    /\ xhr \in XhrFields
    /\ sending \in [Xhr!Numbers -> RequestStates]
    /\ signalled \subseteq Xhr!Numbers /\ timers \subseteq Xhr!Numbers
    /\ events \in Seq(Xhr!Ends \cup {"open"})

LEMMA TypesAre == (Xhr!TypeOK <=> XhrTypes) /\ (Xhr!TypeOK' <=> XhrTypes')
BY DEF Xhr!TypeOK, XhrTypes, XhrFields, RequestStates, Xhr!UNSENT, Xhr!DONE

\* An event more.
LEMMA EventAppended ==
    ASSUME events \in Seq(Xhr!Ends \cup {"open"}), NEW e \in Xhr!Ends \cup {"open"},
           events' = Append(events, e)
    PROVE  /\ events' \in Seq(Xhr!Ends \cup {"open"})
           /\ Ended' <=> e \in Xhr!Ends
           /\ PastInv /\ e # "late load" /\ (Ended => e \in {"open", "abort"}) => PastInv'
<1>1. PICK es : es = events
  OBVIOUS
<1>2. PICK n \in Nat : n = Len(es)
  BY <1>1
<1>3. PICK fs : fs = Append(es, e)
  OBVIOUS
<1>4. /\ fs \in Seq(Xhr!Ends \cup {"open"}) /\ Len(fs) = n + 1 /\ fs[n + 1] = e
      /\ \A i \in 1 .. n : fs[i] = es[i]
  BY <1>1, <1>2, <1>3
<1>5. events' = fs /\ fs # <<>>
  BY <1>1, <1>3, <1>4
<1>6. Ended' <=> e \in Xhr!Ends
  BY <1>4, <1>5 DEF Ended
<1>7. ASSUME PastInv, e # "late load", Ended => e \in {"open", "abort"}
      PROVE  PastInv'
  <2>1. ASSUME NEW i \in 2 .. n + 1, fs[i - 1] \in Xhr!Ends PROVE fs[i] \in {"open", "abort"}
    <3>1. CASE i = n + 1
      <4>1. i - 1 = n /\ n \in 1 .. n /\ fs[i] = e /\ fs[i - 1] = es[n]
        BY <1>4, <3>1
      <4>2. Ended
        BY <1>1, <1>2, <2>1, <4>1 DEF Ended
      <4> QED BY <1>7, <4>1, <4>2
    <3>2. CASE i # n + 1
      <4>1. i \in 2 .. n /\ i \in 1 .. n /\ i - 1 \in 1 .. n
        BY <3>2
      <4> QED BY <1>1, <1>2, <1>4, <1>7, <2>1, <4>1 DEF PastInv
    <3> QED BY <3>1, <3>2
  <2>2. ASSUME NEW i \in 1 .. n + 1 PROVE fs[i] # "late load"
    <3>1. CASE i = n + 1
      BY <1>4, <1>7, <3>1
    <3>2. CASE i # n + 1
      <4>1. i \in 1 .. n
        BY <3>2
      <4> QED BY <1>1, <1>2, <1>4, <1>7, <4>1 DEF PastInv
    <3> QED BY <3>1, <3>2
  <2> QED BY <1>4, <1>5, <2>1, <2>2 DEF PastInv
<1> QED BY <1>4, <1>5, <1>6, <1>7

\* No step of these names is left to do.
LEMMA NotBefore ==
    ASSUME NEW names, NEW kind, kind \subseteq names, ~Xhr!Before(names)
    PROVE  None(stack, kind)
BY DEF Xhr!Before, None, StepsOf

LEMMA CallsCount ==
    ASSUME NEW c \in [open : Nat, send : 0 .. MaxSends, abort : Nat]
    PROVE  /\ [c EXCEPT !.open = @ + 1] \in [open : Nat, send : 0 .. MaxSends, abort : Nat]
           /\ c.send < MaxSends =>
                [c EXCEPT !.send = @ + 1] \in [open : Nat, send : 0 .. MaxSends, abort : Nat]
           /\ [c EXCEPT !.abort = @ + 1] \in [open : Nat, send : 0 .. MaxSends, abort : Nat]
<1>1. c.open + 1 \in Nat /\ c.abort + 1 \in Nat
  OBVIOUS
<1>2. c.send < MaxSends => c.send + 1 \in 0 .. MaxSends
  BY Bounds
<1> QED BY <1>1, <1>2

\* A step that takes work away, and adds none.
Eases ==
    /\ stack' \in Seq(XhrSteps)
    /\ \A x \in StepsOf(stack') : x \in StepsOf(stack) \/ x = Xhr!Program
    /\ \A names \in Kinds :
         (Alone(stack, names) => Alone(stack', names)) /\ (None(stack, names) => None(stack', names))

LEMMA EasesBy ==
    ASSUME NEW new, NEW old, Goes(new, old), StepsOf(new) \subseteq {Xhr!Program}
    PROVE  Eases
<1>1. \A names \in Kinds : None(new, names) /\ Alone(new, names)
  BY QuietSteps DEF Goes
<1> QED BY <1>1, GoesOn DEF Eases

LEMMA EasingKeeps ==
    ASSUME XhrTypes, FormInv, Careful => CareInv,
           XhrTypes', Eases, UNCHANGED <<calls, events>>, Same(xhr', xhr), strayed \subseteq strayed',
           \A g \in Xhr!Numbers :
             /\ Xhr!UnderWay(g)' => Xhr!UnderWay(g)
             /\ Xhr!Reading(g)' => Xhr!Reading(g)
             /\ sending[g] = "loading" => sending'[g] = "loading"
    PROVE  XhrInv'
<1>1. FormInv'
  BY DEF FormInv, Eases
<1>2. ASSUME Careful' PROVE CareInv'
  <2>1. StepsInv /\ WorkInv /\ AbortedInv /\ EndInv /\ PastInv
    BY <1>2 DEF Careful, CareInv
  <2>2. /\ \A x \in StepsOf(stack') : x \in StepsOf(stack) \/ x = Xhr!Program
        /\ \A names \in Kinds :
             (Alone(stack, names) => Alone(stack', names)) /\ (None(stack, names) => None(stack', names))
    BY DEF Eases
  <2>3. {"dispatch"} \in Kinds /\ {"text"} \in Kinds /\ ToFetch \in Kinds
    BY DEF Kinds
  <2>4. /\ xhr'.readyState = xhr.readyState /\ xhr'.sent = xhr.sent /\ xhr'.aborted = xhr.aborted
        /\ xhr'.controller = xhr.controller
    BY DEF Same
  <2>5. Ended' <=> Ended
    BY DEF Ended
  <2>6. \A x \in StepsOf(stack') : x[1] \in {"dispatch", "text", "fetch"} => x \in StepsOf(stack)
    BY <2>2 DEF Xhr!Program
  <2>7. StepsInv'
    <3>1. \A x \in StepsOf(stack') : x[1] = "dispatch"
              => x[2] # "late load" /\ (x[2] = "abort" \/ ~Ended')
      BY <2>1, <2>5, <2>6 DEF StepsInv
    <3>2. ASSUME NEW x \in StepsOf(stack'), x[1] = "text" PROVE sending'[x[2]] = "loading"
      <4>1. x \in StepsOf(stack) /\ sending[x[2]] = "loading"
        BY <2>1, <2>6, <3>2 DEF StepsInv
      <4>2. x[2] \in Xhr!Numbers
        BY <3>2, <4>1, StepArguments DEF FormInv
      <4> QED BY <4>1, <4>2
    <3> QED BY <2>1, <2>2, <2>3, <3>1, <3>2 DEF StepsInv
  <2>8. Working' => Working
    BY <2>2, <2>3 DEF Working
  <2>9. WorkInv'
    BY <2>1, <2>2, <2>3, <2>4, <2>6, <2>8 DEF WorkInv
  <2>10. AbortedInv' /\ EndInv'
    BY <2>1, <2>2, <2>3, <2>4, <2>5, <2>8 DEF AbortedInv, EndInv
  <2>11. PastInv'
    BY <2>1 DEF PastInv
  <2> QED BY <2>7, <2>9, <2>10, <2>11 DEF CareInv
<1> QED BY <1>1, <1>2, TypesAre DEF XhrInv

LEMMA OpenKeeps ==
    ASSUME XhrInv, Xhr!Open
    PROVE  XhrInv'
<1>1. XhrTypes /\ FormInv /\ (Careful => CareInv)
  BY TypesAre DEF XhrInv
<1>2. /\ xhr' = [xhr EXCEPT !.readyState = 1, !.sent = FALSE, !.aborted = FALSE]
      /\ calls' = [calls EXCEPT !.open = @ + 1]
      /\ Xhr!Invokes(Xhr!Hears(1))
      /\ events' = Append(events, "open")
      /\ UNCHANGED <<sending, signalled, timers>>
      /\ strayed' = IF (\E g \in Xhr!Numbers : Xhr!UnderWay(g))
                       \/ Xhr!Before({"sendAsync", "fetch", "arm", "dispatch"})
                    THEN strayed \cup {"opened too early"} ELSE strayed
  BY DEF Xhr!Open, Xhr!OPENED, Xhr!Strays
<1>3. xhr' \in XhrFields /\ xhr'.readyState = 1 /\ ~xhr'.sent /\ ~xhr'.aborted
  <2>1. xhr \in XhrFields /\ 1 \in 0 .. 4
    BY <1>1 DEF XhrTypes
  <2> QED BY <1>2, <2>1, OpenFields
<1>4. PICK new : new = Xhr!Hears(1)
  OBVIOUS
<1>5. new \in Seq(XhrSteps) /\ StepsOf(new) \subseteq {Xhr!Program}
  BY <1>4, HearsSteps
<1>6. PICK old : Goes(new, old)
  BY <1>1, <1>2, <1>4, <1>5, InvokesGoes DEF FormInv
<1>7. \A names \in Kinds : None(new, names) /\ Alone(new, names)
  BY <1>5, QuietSteps
<1>8. /\ stack' \in Seq(XhrSteps)
      /\ \A x \in StepsOf(stack') : x \in StepsOf(stack) \/ x = Xhr!Program
      /\ \A names \in Kinds :
           (Alone(stack, names) => Alone(stack', names)) /\ (None(stack, names) => None(stack', names))
  BY <1>5, <1>6, <1>7, GoesOn
<1>9. events' \in Seq(Xhr!Ends \cup {"open"}) /\ ~Ended' /\ (PastInv => PastInv')
  <2>1. "open" \notin Xhr!Ends /\ events \in Seq(Xhr!Ends \cup {"open"})
    BY <1>1 DEF XhrTypes, Xhr!Ends
  <2> QED BY <1>2, <2>1, EventAppended
<1>10. XhrTypes' /\ FormInv'
  <2>1. XhrTypes'
    BY <1>1, <1>2, <1>3, <1>9 DEF XhrTypes
  <2>2. calls' \in [open : Nat, send : 0 .. MaxSends, abort : Nat]
    BY <1>1, <1>2, CallsCount DEF FormInv
  <2> QED BY <1>8, <2>1, <2>2 DEF FormInv
<1>11. ASSUME Careful' PROVE CareInv'
  <2>1. /\ ~\E g \in Xhr!Numbers : Xhr!UnderWay(g)
        /\ ~Xhr!Before({"sendAsync", "fetch", "arm", "dispatch"})
    BY <1>2, <1>11 DEF Careful
  <2>2. Careful /\ CareInv
    BY <1>1, <1>2, <1>11 DEF Careful
  <2>3. None(stack, ToFetch) /\ None(stack, {"dispatch"})
    BY <2>1, NotBefore DEF ToFetch
  <2>4. {"dispatch"} \in Kinds /\ {"text"} \in Kinds /\ ToFetch \in Kinds
    BY DEF Kinds
  <2>5. None(stack', ToFetch) /\ None(stack', {"dispatch"})
    BY <1>8, <2>3, <2>4
  <2>6. \A g \in Xhr!Numbers : ~Xhr!UnderWay(g)'
    BY <1>2, <2>1 DEF Xhr!UnderWay, Xhr!Reading
  <2>7. StepsInv'
    <3>1. Alone(stack', {"dispatch"}) /\ Alone(stack', {"text"})
      BY <1>8, <2>2, <2>4 DEF CareInv, StepsInv
    <3>2. ASSUME NEW x \in StepsOf(stack'), x[1] = "text" PROVE sending'[x[2]] = "loading"
      <4>1. x # Xhr!Program
        BY <3>2 DEF Xhr!Program
      <4> QED BY <1>2, <1>8, <2>2, <3>2, <4>1 DEF CareInv, StepsInv
    <3> QED BY <1>9, <2>5, <3>1, <3>2 DEF StepsInv, None
  <2>8. WorkInv'
    <3>1. Alone(stack', ToFetch)
      BY <2>5 DEF Alone, None, StepsOf
    <3> QED BY <2>5, <2>6, <3>1 DEF WorkInv, None, Working, ToFetch
  <2>9. AbortedInv' /\ EndInv'
    BY <1>3, <1>9, <2>5 DEF AbortedInv, EndInv
  <2> QED BY <1>9, <2>2, <2>7, <2>8, <2>9 DEF CareInv
<1> QED BY <1>10, <1>11, TypesAre DEF XhrInv

\* Armed timers, listeners that return, and what the host delivers.
LEMMA ArmKeeps ==
    ASSUME XhrInv, Xhr!Arm
    PROVE  XhrInv'
<1>1. XhrTypes /\ FormInv /\ (Careful => CareInv)
  BY TypesAre DEF XhrInv
<1>2. stack # <<>> /\ Head(stack)[1] = "arm" /\ Xhr!Becomes(<<>>)
  BY DEF Xhr!Arm, Xhr!Doing
<1>3. Goes(<<>>, Tail(stack)) /\ Head(stack)[2] \in Xhr!Numbers
  BY <1>1, <1>2, NothingSteps, BecomesGoes, StepArguments DEF FormInv
<1>4. Eases
  BY <1>3, EasesBy, NothingSteps
<1>5. PICK g \in Xhr!Numbers : g = Head(stack)[2]
  BY <1>3
<1>6. UNCHANGED <<sending, signalled, calls, events, strayed>>
  BY DEF Xhr!Arm, Xhr!historyVars
<1>7. xhr' \in XhrFields /\ Same(xhr', xhr) /\ timers' \subseteq Xhr!Numbers
  <2>1. xhr \in XhrFields /\ timers \subseteq Xhr!Numbers /\ g \in 0 .. MaxSends
    BY <1>1, <1>5 DEF XhrTypes, Xhr!Numbers
  <2>2. CASE deadline
    <3>1. xhr' = [xhr EXCEPT !.timeoutId = g] /\ timers' = timers \cup {g}
      BY <1>5, <2>2 DEF Xhr!Arm
    <3> QED BY <2>1, <3>1, TimerFields
  <2>3. CASE ~deadline
    BY <2>1, <2>3 DEF Xhr!Arm, Same
  <2> QED BY <2>2, <2>3
<1>8. XhrTypes'
  BY <1>1, <1>6, <1>7 DEF XhrTypes
<1>9. \A h \in Xhr!Numbers :
          (Xhr!UnderWay(h)' <=> Xhr!UnderWay(h)) /\ (Xhr!Reading(h)' <=> Xhr!Reading(h))
  BY <1>6 DEF Xhr!UnderWay, Xhr!Reading
<1> QED BY <1>1, <1>4, <1>6, <1>7, <1>8, <1>9, EasingKeeps

LEMMA ProgramReturnsKeeps ==
    ASSUME XhrInv, Xhr!ProgramReturns
    PROVE  XhrInv'
<1>1. XhrTypes /\ FormInv /\ (Careful => CareInv)
  BY TypesAre DEF XhrInv
<1>2. stack # <<>> /\ Xhr!Becomes(<<>>)
  BY DEF Xhr!ProgramReturns, Xhr!Doing
<1>3. Goes(<<>>, Tail(stack))
  BY <1>1, <1>2, NothingSteps, BecomesGoes DEF FormInv
<1>4. Eases
  BY <1>3, EasesBy, NothingSteps
<1>5. UNCHANGED <<xhr, sending, signalled, timers, calls, events, strayed>>
  BY DEF Xhr!ProgramReturns, Xhr!historyVars
<1>6. XhrTypes' /\ Same(xhr', xhr)
  BY <1>1, <1>5 DEF XhrTypes, Same
<1>7. \A h \in Xhr!Numbers :
          (Xhr!UnderWay(h)' <=> Xhr!UnderWay(h)) /\ (Xhr!Reading(h)' <=> Xhr!Reading(h))
  BY <1>5 DEF Xhr!UnderWay, Xhr!Reading
<1> QED BY <1>1, <1>4, <1>5, <1>6, <1>7, EasingKeeps

LEMMA StaysEases == stack \in Seq(XhrSteps) /\ stack' = stack => Eases
BY DEF Eases

LEMMA HostKeeps ==
    ASSUME XhrInv, NEW g \in Xhr!Numbers, NEW ok \in BOOLEAN, Xhr!Answers(g, ok) \/ Xhr!BodyEnds(g, ok)
    PROVE  XhrInv'
<1>1. XhrTypes /\ FormInv /\ (Careful => CareInv)
  BY TypesAre DEF XhrInv
<1>2. UNCHANGED <<xhr, signalled, timers, stack, calls, events, strayed>>
  BY DEF Xhr!Answers, Xhr!BodyEnds, Xhr!historyVars
<1>3. Eases
  BY <1>1, <1>2, StaysEases DEF FormInv
<1>4. PICK state \in {"ok", "text", "failed"} :
         /\ sending' = [sending EXCEPT ![g] = state]
         /\ sending[g] = IF state = "ok" THEN "fetch" ELSE sending[g]
         /\ sending[g] \in {"fetch", "read"} /\ (state = "text" => sending[g] = "read")
  BY DEF Xhr!Answers, Xhr!BodyEnds
<1>5. XhrTypes' /\ Same(xhr', xhr)
  BY <1>1, <1>2, <1>4 DEF XhrTypes, Same, RequestStates
<1>6. ASSUME NEW h \in Xhr!Numbers
      PROVE  /\ Xhr!UnderWay(h)' => Xhr!UnderWay(h)
             /\ Xhr!Reading(h)' => Xhr!Reading(h)
             /\ sending[h] = "loading" => sending'[h] = "loading"
  BY <1>1, <1>4 DEF XhrTypes, Xhr!UnderWay, Xhr!Reading
<1> QED BY <1>1, <1>2, <1>3, <1>5, <1>6, EasingKeeps

\* A request that is over without an event.
LEMMA DroppedKeeps ==
    ASSUME XhrInv, NEW g \in Xhr!Numbers, sending' = [sending EXCEPT ![g] = "done"],
           sending[g] # "loading", xhr' = xhr \/ xhr' = [xhr EXCEPT !.timeoutId = 0],
           timers' \subseteq timers, UNCHANGED <<signalled, stack, calls, events>>,
           strayed \subseteq strayed'
    PROVE  XhrInv'
<1>1. XhrTypes /\ FormInv /\ (Careful => CareInv)
  BY TypesAre DEF XhrInv
<1>2. Eases
  BY <1>1, StaysEases DEF FormInv
<1>3. xhr' \in XhrFields /\ Same(xhr', xhr)
  <2>1. xhr \in XhrFields /\ 0 \in 0 .. MaxSends
    BY <1>1, Bounds DEF XhrTypes
  <2>2. CASE xhr' = xhr
    BY <2>1, <2>2 DEF Same
  <2>3. CASE xhr' = [xhr EXCEPT !.timeoutId = 0]
    BY <2>1, <2>3, TimerFields
  <2> QED BY <2>2, <2>3
<1>4. XhrTypes'
  BY <1>1, <1>3 DEF XhrTypes, RequestStates
<1>5. ASSUME NEW h \in Xhr!Numbers
      PROVE  /\ Xhr!UnderWay(h)' => Xhr!UnderWay(h)
             /\ Xhr!Reading(h)' => Xhr!Reading(h)
             /\ sending[h] = "loading" => sending'[h] = "loading"
  BY <1>1 DEF XhrTypes, Xhr!UnderWay, Xhr!Reading
<1> QED BY <1>1, <1>2, <1>3, <1>4, <1>5, EasingKeeps

\* The kinds of steps that are counted.
LEMMA KindsAre == {"dispatch"} \in Kinds /\ {"text"} \in Kinds /\ ToFetch \in Kinds
BY DEF Kinds

LEMMA SendKeeps ==
    ASSUME XhrInv, Xhr!Send
    PROVE  XhrInv'
<1>1. XhrTypes /\ FormInv /\ (Careful => CareInv)
  BY TypesAre DEF XhrInv
<1>2. /\ xhr.readyState = 1 /\ ~xhr.sent /\ calls.send < MaxSends
      /\ calls' = [calls EXCEPT !.send = @ + 1]
      /\ xhr' = [xhr EXCEPT !.sent = TRUE]
      /\ UNCHANGED <<sending, signalled, timers, events, strayed>>
  BY DEF Xhr!Send, Xhr!OPENED, Xhr!historyVars
<1>3. xhr' \in XhrFields /\ xhr'.sent /\ xhr'.readyState = 1 /\ xhr'.aborted = xhr.aborted
      /\ xhr'.controller = xhr.controller
  <2>1. xhr \in XhrFields
    BY <1>1 DEF XhrTypes
  <2> QED BY <1>2, <2>1, SentFields
<1>4. PICK g \in Xhr!Numbers : g = calls.send + 1
  <2>1. calls.send \in 0 .. MaxSends
    BY <1>1 DEF FormInv
  <2> QED BY <1>2, <2>1, Bounds DEF Xhr!Numbers
<1>5. PICK p, a, t : p = Xhr!Program /\ a = <<"sendAsync", g>> /\ t = <<"arm", g>>
  OBVIOUS
<1>6. /\ p \in XhrSteps /\ a \in XhrSteps /\ t \in XhrSteps
      /\ p[1] = "program" /\ a[1] = "sendAsync" /\ t[1] = "arm"
  BY <1>5 DEF XhrSteps, Xhr!Program
<1>7. PICK new : new = <<p, a, t>>
  OBVIOUS
<1>8. new \in Seq(XhrSteps) /\ Len(new) = 3 /\ new[1] = p /\ new[2] = a /\ new[3] = t
  BY <1>6, <1>7
<1>9. /\ \A x \in StepsOf(new) : x = p \/ x = a \/ x = t
      /\ Alone(new, ToFetch) /\ None(new, {"dispatch"}) /\ None(new, {"text"})
  <2>1. \A x \in StepsOf(new) : x = p \/ x = a \/ x = t
    BY <1>8 DEF StepsOf
  <2>2. Alone(new, ToFetch)
    BY <1>6, <1>8 DEF Alone, ToFetch
  <2> QED BY <1>6, <2>1, <2>2 DEF None
<1>10. PICK old : Goes(new, old)
  <2>1. Xhr!Invokes(new)
    BY <1>4, <1>5, <1>7 DEF Xhr!Send
  <2> QED BY <1>1, <1>8, <2>1, InvokesGoes DEF FormInv
<1>11. /\ stack' \in Seq(XhrSteps)
       /\ \A x \in StepsOf(stack') : x[1] \in {"dispatch", "text", "fetch"} => x \in StepsOf(stack)
       /\ \A names \in Kinds :
            /\ Alone(stack, names) /\ Alone(new, names) /\ (None(new, names) \/ None(old, names))
                 => Alone(stack', names)
            /\ None(stack, names) => None(old, names)
            /\ None(new, names) /\ None(old, names) => None(stack', names)
  <2>1. \A x \in StepsOf(stack') : x \in StepsOf(new) \/ x \in StepsOf(stack) \/ x = Xhr!Program
    BY <1>10, GoesOn
  <2>2. \A x \in StepsOf(stack') : x[1] \in {"dispatch", "text", "fetch"} => x \in StepsOf(stack)
    BY <1>6, <1>9, <2>1 DEF Xhr!Program
  <2> QED BY <1>10, <2>2, GoesOn
<1>12. XhrTypes' /\ FormInv'
  <2>1. XhrTypes'
    BY <1>1, <1>2, <1>3 DEF XhrTypes
  <2>2. calls' \in [open : Nat, send : 0 .. MaxSends, abort : Nat]
    BY <1>1, <1>2, CallsCount DEF FormInv
  <2> QED BY <1>11, <2>1, <2>2 DEF FormInv
<1>13. ASSUME Careful' PROVE CareInv'
  <2>1. StepsInv /\ WorkInv /\ AbortedInv /\ EndInv /\ PastInv
    BY <1>1, <1>2, <1>13 DEF Careful, CareInv
  <2>2. ~xhr.aborted /\ ~Working
    BY <1>2, <2>1 DEF AbortedInv, WorkInv, Xhr!OPENED
  <2>3. None(stack, ToFetch) /\ \A h \in Xhr!Numbers : ~Xhr!UnderWay(h)
    BY <2>2 DEF Working
  <2>4. ~Ended /\ None(stack, {"dispatch"})
    BY <1>2, <2>1, <2>2 DEF EndInv, Xhr!DONE
  <2>5. None(stack', {"dispatch"}) /\ Alone(stack', ToFetch) /\ Alone(stack', {"text"})
    <3>1. Alone(stack, ToFetch) /\ Alone(stack, {"text"}) /\ Alone(new, {"text"})
      <4>1. Alone(stack, ToFetch)
        BY <2>3 DEF Alone, None, StepsOf
      <4>2. Alone(new, {"text"})
        BY <1>9 DEF Alone, None, StepsOf
      <4> QED BY <2>1, <4>1, <4>2 DEF StepsInv
    <3> QED BY <1>9, <1>11, <2>3, <2>4, <3>1, KindsAre
  <2>6. \A h \in Xhr!Numbers : ~Xhr!UnderWay(h)'
    BY <1>2, <2>3 DEF Xhr!UnderWay, Xhr!Reading
  <2>7. \A x \in StepsOf(stack') : x[1] # "fetch"
    BY <1>11, <2>3 DEF None, ToFetch
  <2>8. ~Ended'
    BY <1>2, <2>4 DEF Ended
  <2>9. StepsInv'
    <3>1. Alone(stack', {"dispatch"})
      BY <2>5 DEF Alone, None, StepsOf
    <3> QED BY <1>2, <1>11, <2>1, <2>5, <2>8, <3>1 DEF StepsInv, None
  <2>10. WorkInv'
    BY <1>3, <2>5, <2>6, <2>7 DEF WorkInv
  <2>11. AbortedInv' /\ EndInv' /\ PastInv'
    BY <1>2, <1>3, <2>1, <2>2, <2>5, <2>8 DEF AbortedInv, EndInv, PastInv
  <2> QED BY <2>9, <2>10, <2>11 DEF CareInv
<1> QED BY <1>12, <1>13, TypesAre DEF XhrInv

LEMMA SendAsyncKeeps ==
    ASSUME XhrInv, Xhr!SendAsync
    PROVE  XhrInv'
<1>1. XhrTypes /\ FormInv /\ (Careful => CareInv)
  BY TypesAre DEF XhrInv
<1>2. stack # <<>> /\ Head(stack)[1] = "sendAsync"
  BY DEF Xhr!SendAsync, Xhr!Doing
<1>3. Head(stack) \in StepsOf(stack) /\ Head(stack)[2] \in Xhr!Numbers
  BY <1>1, <1>2, StepsTail, StepArguments DEF FormInv
<1>4. PICK g \in Xhr!Numbers : g = Head(stack)[2]
  BY <1>3
<1>5. /\ xhr' = [xhr EXCEPT !.controller = g, !.readyState = 2]
      /\ Xhr!Becomes(Xhr!Hears(2) \o <<<<"fetch", g>>>>)
      /\ UNCHANGED <<sending, signalled, timers, calls, events, strayed>>
  BY <1>4 DEF Xhr!SendAsync, Xhr!HEADERS_RECEIVED, Xhr!historyVars
<1>6. xhr' \in XhrFields /\ xhr'.readyState = 2 /\ xhr'.sent = xhr.sent /\ xhr'.aborted = xhr.aborted
      /\ xhr'.controller = g
  <2>1. xhr \in XhrFields /\ 2 \in 0 .. 4 /\ g \in 0 .. MaxSends
    BY <1>1 DEF XhrTypes, Xhr!Numbers
  <2>2. PICK state \in 0 .. 4 : state = 2
    BY <2>1
  <2>3. xhr' = [xhr EXCEPT !.controller = g, !.readyState = state]
    BY <1>5, <2>2
  <2>4. /\ xhr' \in XhrFields /\ xhr'.readyState = state /\ xhr'.sent = xhr.sent
        /\ xhr'.aborted = xhr.aborted /\ xhr'.controller = g
    <3>1. PICK r \in XhrFields : r = xhr
      BY <2>1
    <3>2. PICK q : q = [r EXCEPT !.controller = g, !.readyState = state]
      OBVIOUS
    <3>3. /\ q \in XhrFields /\ q.readyState = state /\ q.sent = r.sent
          /\ q.aborted = r.aborted /\ q.controller = g
      <4>1. PICK r1 : r1 = [r EXCEPT !.controller = g]
        OBVIOUS
      <4>2. r1 \in XhrFields /\ r1.sent = r.sent /\ r1.aborted = r.aborted /\ r1.controller = g
        BY <2>1, <4>1 DEF XhrFields
      <4> QED BY <3>2, <4>1, <4>2, StateFields
    <3>4. xhr' = q
      BY <2>3, <3>1, <3>2
    <3> QED BY <3>1, <3>3, <3>4
  <2> QED BY <2>2, <2>4
<1>7. PICK f, h, t : f = <<"fetch", g>> /\ h = Xhr!Hears(2) /\ t = <<f>>
  OBVIOUS
<1>8. f \in XhrSteps /\ f[1] = "fetch" /\ f[2] = g
  BY <1>7 DEF XhrSteps
<1>9. h \in Seq(XhrSteps) /\ StepsOf(h) \subseteq {Xhr!Program}
      /\ \A names \in Kinds : None(h, names) /\ Alone(h, names)
  BY <1>7, HearsSteps, QuietSteps
<1>10. t \in Seq(XhrSteps) /\ StepsOf(t) = {f} /\ \A names \in Kinds : Alone(t, names)
  <2>1. t \in Seq(XhrSteps) /\ Len(t) = 1 /\ t[1] = f
    BY <1>7, <1>8
  <2> QED BY <2>1 DEF StepsOf, Alone
<1>11. PICK new : new = h \o t
  OBVIOUS
<1>12. /\ new \in Seq(XhrSteps) /\ \A x \in StepsOf(new) : x = f \/ x = Xhr!Program
       /\ \A names \in Kinds : Alone(new, names)
  BY <1>9, <1>10, <1>11, StepsJoin
<1>13. PICK old : old = Tail(stack)
  OBVIOUS
<1>14. Goes(new, old) /\ \A names \in Kinds : Alone(stack, names) /\ Head(stack)[1] \in names
           => None(old, names)
  <2>1. Xhr!Becomes(new)
    BY <1>5, <1>7, <1>11
  <2> QED BY <1>1, <1>2, <1>12, <1>13, <2>1, BecomesGoes DEF FormInv
<1>15. /\ stack' \in Seq(XhrSteps)
       /\ \A x \in StepsOf(stack') :
              x = f \/ x = Xhr!Program \/ (x \in StepsOf(old) /\ x \in StepsOf(stack))
       /\ \A names \in Kinds :
            /\ Alone(stack, names) /\ Alone(new, names) /\ (None(new, names) \/ None(old, names))
                 => Alone(stack', names)
            /\ None(stack, names) => None(old, names)
            /\ None(new, names) /\ None(old, names) => None(stack', names)
  BY <1>12, <1>14, GoesOn
<1>16. XhrTypes' /\ FormInv'
  <2>1. XhrTypes'
    BY <1>1, <1>5, <1>6 DEF XhrTypes
  <2> QED BY <1>1, <1>5, <1>15, <2>1 DEF FormInv
<1>17. None(new, {"dispatch"}) /\ None(new, {"text"})
  BY <1>8, <1>12 DEF None, Xhr!Program
<1>18. ASSUME Careful' PROVE CareInv'
  <2>1. StepsInv /\ WorkInv /\ AbortedInv /\ EndInv /\ PastInv
    BY <1>1, <1>5, <1>18 DEF Careful, CareInv
  <2>2. /\ ~None(stack, ToFetch) /\ Working
    BY <1>2, <1>3 DEF None, ToFetch, Working
  <2>3. \A k \in Xhr!Numbers :
            (Xhr!UnderWay(k)' <=> Xhr!UnderWay(k)) /\ (Xhr!Reading(k)' <=> Xhr!Reading(k))
    BY <1>5 DEF Xhr!UnderWay, Xhr!Reading
  <2>4. \A x \in StepsOf(stack') : x[1] \in {"dispatch", "text"} => x \in StepsOf(stack)
    BY <1>8, <1>15 DEF Xhr!Program
  <2>5. Ended' <=> Ended
    BY <1>5 DEF Ended
  <2>6. StepsInv'
    <3>1. Alone(stack', {"dispatch"}) /\ Alone(stack', {"text"})
      BY <1>12, <1>15, <1>17, <2>1, KindsAre DEF StepsInv
    <3> QED BY <1>5, <2>1, <2>4, <2>5, <3>1 DEF StepsInv
  <2>7. ASSUME ~xhr.aborted
        PROVE  /\ Alone(stack, ToFetch) /\ None(old, ToFetch) /\ xhr.sent /\ ~Ended
               /\ None(stack, {"dispatch"}) /\ \A k \in Xhr!Numbers : ~Xhr!UnderWay(k)
    <3>1. Alone(stack, ToFetch) /\ xhr.sent /\ \A k \in Xhr!Numbers : ~Xhr!UnderWay(k)
      BY <2>1, <2>2, <2>7 DEF WorkInv
    <3>2. None(old, ToFetch)
      BY <1>2, <1>14, <3>1, KindsAre DEF ToFetch
    <3>3. ~Ended /\ None(stack, {"dispatch"})
      BY <2>1, <2>2, <2>7 DEF EndInv
    <3> QED BY <3>1, <3>2, <3>3
  <2>8. WorkInv'
    <3>1. SUFFICES ASSUME ~xhr.aborted
                   PROVE  /\ Alone(stack', ToFetch)
                          /\ \A x \in StepsOf(stack') : x[1] = "fetch" => x[2] = g
                          /\ \A k \in Xhr!Numbers : ~Xhr!UnderWay(k)'
                          /\ xhr.sent
      BY <1>6 DEF WorkInv
    <3>2. Alone(stack', ToFetch)
      BY <1>12, <1>15, <2>7, <3>1, KindsAre
    <3>3. \A x \in StepsOf(stack') : x[1] = "fetch" => x[2] = g
      BY <1>8, <1>15, <2>7, <3>1 DEF None, ToFetch, Xhr!Program
    <3> QED BY <2>3, <2>7, <3>1, <3>2, <3>3
  <2>9. AbortedInv'
    BY <1>6, <2>1, <2>3 DEF AbortedInv, Xhr!OPENED
  <2>10. EndInv'
    <3>1. ~xhr.aborted => ~Ended' /\ None(stack', {"dispatch"})
      BY <1>15, <1>17, <2>5, <2>7, KindsAre
    <3> QED BY <1>6, <3>1 DEF EndInv
  <2>11. PastInv'
    BY <1>5, <2>1 DEF PastInv
  <2> QED BY <2>6, <2>8, <2>9, <2>10, <2>11 DEF CareInv
<1> QED BY <1>16, <1>18, TypesAre DEF XhrInv

LEMMA FetchKeeps ==
    ASSUME XhrInv, Xhr!Fetch
    PROVE  XhrInv'
<1>1. XhrTypes /\ FormInv /\ (Careful => CareInv)
  BY TypesAre DEF XhrInv
<1>2. stack # <<>> /\ Head(stack)[1] = "fetch" /\ Xhr!Becomes(<<>>)
  BY DEF Xhr!Fetch, Xhr!Doing
<1>3. Head(stack) \in StepsOf(stack) /\ Head(stack)[2] \in Xhr!Numbers
  BY <1>1, <1>2, StepsTail, StepArguments DEF FormInv
<1>4. PICK g \in Xhr!Numbers : g = Head(stack)[2]
  BY <1>3
<1>5. PICK state \in {"aborted", "fetch"} : sending' = [sending EXCEPT ![g] = state]
  BY <1>4 DEF Xhr!Fetch
<1>6. UNCHANGED <<xhr, signalled, timers, calls, events, strayed>>
  BY DEF Xhr!Fetch, Xhr!historyVars
<1>7. PICK old : old = Tail(stack)
  OBVIOUS
<1>8. Goes(<<>>, old) /\ \A names \in Kinds : Alone(stack, names) /\ Head(stack)[1] \in names
          => None(old, names)
  BY <1>1, <1>2, <1>7, NothingSteps, BecomesGoes DEF FormInv
<1>9. Eases
  BY <1>8, EasesBy, NothingSteps
<1>10. \A names \in Kinds : None(old, names) => None(stack', names)
  <2>1. \A names \in Kinds : None(<<>>, names)
    BY NothingSteps DEF None
  <2> QED BY <1>8, <2>1, GoesOn
<1>11. XhrTypes' /\ FormInv'
  <2>1. XhrTypes'
    BY <1>1, <1>5, <1>6 DEF XhrTypes, RequestStates
  <2> QED BY <1>1, <1>6, <1>9, <2>1 DEF FormInv, Eases
<1>12. ASSUME Careful' PROVE CareInv'
  <2>1. StepsInv /\ WorkInv /\ AbortedInv /\ EndInv /\ PastInv
    BY <1>1, <1>6, <1>12 DEF Careful, CareInv
  <2>2. ~None(stack, ToFetch) /\ Working
    BY <1>2, <1>3 DEF None, ToFetch, Working
  <2>3. /\ \A k \in Xhr!Numbers : k # g => sending'[k] = sending[k]
        /\ sending'[g] = state
    BY <1>1, <1>5 DEF XhrTypes
  <2>4. \A x \in StepsOf(stack') : x[1] \in {"dispatch", "text", "fetch"} => x \in StepsOf(stack)
    BY <1>9 DEF Eases, Xhr!Program
  <2>5. (Ended' <=> Ended) /\ (PastInv => PastInv')
    BY <1>6 DEF Ended, PastInv
  <2>6. ASSUME ~xhr.aborted
        PROVE  /\ None(stack', ToFetch) /\ xhr.sent /\ ~Ended /\ g = xhr.controller
               /\ None(stack', {"dispatch"}) /\ \A k \in Xhr!Numbers : ~Xhr!UnderWay(k)
    <3>1. /\ Alone(stack, ToFetch) /\ xhr.sent /\ \A k \in Xhr!Numbers : ~Xhr!UnderWay(k)
          /\ \A x \in StepsOf(stack) : x[1] = "fetch" => x[2] = xhr.controller
      BY <2>1, <2>2, <2>6 DEF WorkInv
    <3>2. None(stack', ToFetch)
      BY <1>2, <1>8, <1>10, <3>1, KindsAre DEF ToFetch
    <3>3. ~Ended /\ None(stack, {"dispatch"})
      BY <2>1, <2>2, <2>6 DEF EndInv
    <3>4. None(stack', {"dispatch"})
      BY <1>9, <3>3, KindsAre DEF Eases
    <3>5. g = xhr.controller
      BY <1>2, <1>3, <1>4, <3>1
    <3> QED BY <3>1, <3>2, <3>3, <3>4, <3>5
  <2>7. StepsInv'
    <3>1. Alone(stack', {"dispatch"}) /\ Alone(stack', {"text"})
      BY <1>9, <2>1, KindsAre DEF Eases, StepsInv
    <3>2. ASSUME NEW x \in StepsOf(stack'), x[1] = "text" PROVE sending'[x[2]] = "loading"
      <4>1. x \in StepsOf(stack) /\ sending[x[2]] = "loading" /\ x[2] \in Xhr!Numbers
        BY <1>1, <2>1, <2>4, <3>2, StepArguments DEF StepsInv, FormInv
      <4>2. x[2] # g
        <5>1. SUFFICES ASSUME x[2] = g PROVE FALSE
          OBVIOUS
        <5>2. Xhr!Reading(g)
          BY <4>1, <5>1 DEF Xhr!Reading
        <5>3. Xhr!UnderWay(g)
          BY <5>2 DEF Xhr!UnderWay
        <5> QED BY <2>1, <2>6, <5>2, <5>3 DEF AbortedInv
      <4> QED BY <2>3, <4>1, <4>2
    <3> QED BY <2>1, <2>4, <2>5, <3>1, <3>2 DEF StepsInv
  <2>8. WorkInv'
    <3>1. SUFFICES ASSUME ~xhr.aborted
                   PROVE  /\ Alone(stack', ToFetch)
                          /\ \A x \in StepsOf(stack') : x[1] = "fetch" => x[2] = xhr.controller
                          /\ \A k \in Xhr!Numbers : Xhr!UnderWay(k)'
                                 => k = xhr.controller /\ None(stack', ToFetch)
                          /\ xhr.sent
      BY <1>6 DEF WorkInv
    <3>2. Alone(stack', ToFetch)
      BY <2>6, <3>1 DEF Alone, None, StepsOf
    <3>3. \A x \in StepsOf(stack') : x[1] # "fetch"
      BY <2>6, <3>1 DEF None, ToFetch
    <3>4. \A k \in Xhr!Numbers : k # g => ~Xhr!UnderWay(k)'
      BY <2>3, <2>6, <3>1 DEF Xhr!UnderWay, Xhr!Reading
    <3> QED BY <2>6, <3>1, <3>2, <3>3, <3>4
  <2>9. AbortedInv'
    <3>1. \A k \in Xhr!Numbers : Xhr!Reading(k)' => Xhr!Reading(k)
      BY <2>3 DEF Xhr!Reading
    <3> QED BY <1>6, <2>1, <3>1 DEF AbortedInv
  <2>10. EndInv'
    BY <1>6, <2>5, <2>6 DEF EndInv
  <2> QED BY <2>1, <2>5, <2>7, <2>8, <2>9, <2>10 DEF CareInv
<1> QED BY <1>11, <1>12, TypesAre DEF XhrInv

LEMMA DispatchKeeps ==
    ASSUME XhrInv, Xhr!Dispatch
    PROVE  XhrInv'
<1>1. XhrTypes /\ FormInv /\ (Careful => CareInv)
  BY TypesAre DEF XhrInv
<1>2. stack # <<>> /\ Head(stack)[1] = "dispatch"
  BY DEF Xhr!Dispatch, Xhr!Doing
<1>3. Head(stack) \in StepsOf(stack) /\ Head(stack)[2] \in Xhr!Ends
  BY <1>1, <1>2, StepsTail, StepArguments DEF FormInv
<1>4. PICK e \in Xhr!Ends : e = Head(stack)[2]
  BY <1>3
<1>5. /\ events' = Append(events, e)
      /\ UNCHANGED <<xhr, sending, signalled, timers, calls, strayed>>
  BY <1>4 DEF Xhr!Dispatch
<1>6. PICK new, old : new = <<Xhr!Program>> /\ old = Tail(stack)
  OBVIOUS
<1>7. new \in Seq(XhrSteps) /\ StepsOf(new) = {Xhr!Program}
      /\ \A names \in Kinds : None(new, names) /\ Alone(new, names)
  BY <1>6, ProgramSteps, QuietSteps
<1>8. Goes(new, old) /\ \A names \in Kinds : Alone(stack, names) /\ Head(stack)[1] \in names
          => None(old, names)
  <2>1. Xhr!Becomes(new)
    BY <1>6 DEF Xhr!Dispatch
  <2> QED BY <1>1, <1>2, <1>6, <1>7, <2>1, BecomesGoes DEF FormInv
<1>9. Eases
  BY <1>7, <1>8, EasesBy
<1>10. \A names \in Kinds : None(old, names) => None(stack', names)
  BY <1>7, <1>8, GoesOn
<1>11. /\ events' \in Seq(Xhr!Ends \cup {"open"}) /\ Ended'
       /\ PastInv /\ e # "late load" /\ (Ended => e \in {"open", "abort"}) => PastInv'
  BY <1>1, <1>5, EventAppended DEF XhrTypes
<1>12. XhrTypes' /\ FormInv'
  BY <1>1, <1>5, <1>9, <1>11 DEF XhrTypes, FormInv, Eases
<1>13. ASSUME Careful' PROVE CareInv'
  <2>1. StepsInv /\ WorkInv /\ AbortedInv /\ EndInv /\ PastInv
    BY <1>1, <1>5, <1>13 DEF Careful, CareInv
  <2>2. e # "late load" /\ (e = "abort" \/ ~Ended) /\ None(stack', {"dispatch"})
    <3>1. Alone(stack, {"dispatch"}) /\ e # "late load" /\ (e = "abort" \/ ~Ended)
      BY <1>2, <1>3, <1>4, <2>1 DEF StepsInv
    <3> QED BY <1>2, <1>8, <1>10, <3>1, KindsAre
  <2>3. ~None(stack, {"dispatch"})
    BY <1>2, <1>3 DEF None
  <2>4. \A k \in Xhr!Numbers :
            (Xhr!UnderWay(k)' <=> Xhr!UnderWay(k)) /\ (Xhr!Reading(k)' <=> Xhr!Reading(k))
    BY <1>5 DEF Xhr!UnderWay, Xhr!Reading
  <2>5. \A x \in StepsOf(stack') : x[1] \in {"text", "fetch"} => x \in StepsOf(stack)
    BY <1>9 DEF Eases, Xhr!Program
  <2>6. /\ Alone(stack', {"text"}) /\ Alone(stack', {"dispatch"})
        /\ (Alone(stack, ToFetch) => Alone(stack', ToFetch))
               /\ (None(stack, ToFetch) => None(stack', ToFetch))
    BY <1>9, <2>1, KindsAre DEF Eases, StepsInv
  <2>7. StepsInv'
    BY <1>5, <2>1, <2>2, <2>5, <2>6 DEF StepsInv, None
  <2>8. Working' => Working
    BY <2>4, <2>6 DEF Working
  <2>9. WorkInv'
    BY <1>5, <2>1, <2>4, <2>5, <2>6, <2>8 DEF WorkInv
  <2>10. AbortedInv' /\ EndInv'
    BY <1>5, <2>1, <2>3, <2>4, <2>8 DEF AbortedInv, EndInv
  <2> QED BY <1>11, <2>1, <2>2, <2>7, <2>9, <2>10 DEF CareInv
<1> QED BY <1>12, <1>13, TypesAre DEF XhrInv

LEMMA TextKeeps ==
    ASSUME XhrInv, Xhr!Text
    PROVE  XhrInv'
<1>1. XhrTypes /\ FormInv /\ (Careful => CareInv)
  BY TypesAre DEF XhrInv
<1>2. stack # <<>> /\ Head(stack)[1] = "text" /\ Xhr!Becomes(<<>>)
  BY DEF Xhr!Text, Xhr!Doing
<1>3. Head(stack) \in StepsOf(stack) /\ Head(stack)[2] \in Xhr!Numbers
  BY <1>1, <1>2, StepsTail, StepArguments DEF FormInv
<1>4. PICK g \in Xhr!Numbers : g = Head(stack)[2]
  BY <1>3
<1>5. /\ sending' = [sending EXCEPT ![g] = "read"]
      /\ UNCHANGED <<xhr, signalled, timers, calls, events, strayed>>
  BY <1>4 DEF Xhr!Text, Xhr!historyVars
<1>6. PICK old : old = Tail(stack)
  OBVIOUS
<1>7. Goes(<<>>, old) /\ \A names \in Kinds : Alone(stack, names) /\ Head(stack)[1] \in names
          => None(old, names)
  BY <1>1, <1>2, <1>6, NothingSteps, BecomesGoes DEF FormInv
<1>8. Eases
  BY <1>7, EasesBy, NothingSteps
<1>9. \A names \in Kinds : None(old, names) => None(stack', names)
  <2>1. \A names \in Kinds : None(<<>>, names)
    BY NothingSteps DEF None
  <2> QED BY <1>7, <2>1, GoesOn
<1>10. XhrTypes' /\ FormInv'
  <2>1. XhrTypes'
    BY <1>1, <1>5 DEF XhrTypes, RequestStates
  <2> QED BY <1>1, <1>5, <1>8, <2>1 DEF FormInv, Eases
<1>11. ASSUME Careful' PROVE CareInv'
  <2>1. StepsInv /\ WorkInv /\ AbortedInv /\ EndInv /\ PastInv
    BY <1>1, <1>5, <1>11 DEF Careful, CareInv
  <2>2. sending[g] = "loading" /\ None(stack', {"text"})
    <3>1. Alone(stack, {"text"}) /\ sending[g] = "loading"
      BY <1>2, <1>3, <1>4, <2>1 DEF StepsInv
    <3> QED BY <1>2, <1>7, <1>9, <3>1, KindsAre
  <2>3. \A k \in Xhr!Numbers :
            (Xhr!UnderWay(k)' <=> Xhr!UnderWay(k)) /\ (Xhr!Reading(k)' <=> Xhr!Reading(k))
    BY <1>1, <1>5, <2>2 DEF XhrTypes, Xhr!UnderWay, Xhr!Reading
  <2>4. \A x \in StepsOf(stack') : x[1] \in {"dispatch", "fetch"} => x \in StepsOf(stack)
    BY <1>8 DEF Eases, Xhr!Program
  <2>5. (Ended' <=> Ended) /\ (PastInv => PastInv')
    BY <1>5 DEF Ended, PastInv
  <2>6. /\ Alone(stack', {"text"}) /\ Alone(stack', {"dispatch"})
        /\ (Alone(stack, ToFetch) => Alone(stack', ToFetch))
        /\ (None(stack, ToFetch) => None(stack', ToFetch))
        /\ (None(stack, {"dispatch"}) => None(stack', {"dispatch"}))
    BY <1>8, <2>1, KindsAre DEF Eases, StepsInv
  <2>7. StepsInv'
    BY <2>1, <2>2, <2>4, <2>5, <2>6 DEF StepsInv, None
  <2>8. Working' => Working
    BY <2>3, <2>6 DEF Working
  <2>9. WorkInv'
    BY <1>5, <2>1, <2>3, <2>4, <2>6, <2>8 DEF WorkInv
  <2>10. AbortedInv' /\ EndInv'
    BY <1>5, <2>1, <2>3, <2>5, <2>6, <2>8 DEF AbortedInv, EndInv
  <2> QED BY <2>1, <2>5, <2>7, <2>9, <2>10 DEF CareInv
<1> QED BY <1>10, <1>11, TypesAre DEF XhrInv

\* The controller's signal.
LEMMA SignalsDoes ==
    ASSUME XhrTypes, Xhr!Signals(xhr.controller)
    PROVE  /\ signalled' \subseteq Xhr!Numbers /\ sending' \in [Xhr!Numbers -> RequestStates]
           /\ \A g \in Xhr!Numbers :
                sending'[g] = sending[g] \/ (sending[g] = "fetch" /\ sending'[g] = "aborted")
<1>1. xhr.controller \in 0 .. MaxSends /\ signalled \subseteq Xhr!Numbers
      /\ sending \in [Xhr!Numbers -> RequestStates]
  BY DEF XhrTypes, XhrFields
<1>2. signalled' \subseteq Xhr!Numbers
  <2>1. PICK g \in 0 .. MaxSends : g = xhr.controller
    BY <1>1
  <2>2. {g} \ {0} \subseteq Xhr!Numbers
    BY Bounds DEF Xhr!Numbers
  <2>3. signalled' = signalled \cup ({g} \ {0})
    BY <2>1 DEF Xhr!Signals
  <2> QED BY <1>1, <2>2, <2>3
<1> QED BY <1>1, <1>2 DEF Xhr!Signals, RequestStates

\* An object is aborted, by its program or its timer.
LEMMA AbortingKeeps ==
    ASSUME XhrTypes, FormInv, Careful => CareInv, XhrTypes',
           NEW e \in {"abort", "timeout"}, NEW new, NEW old,
           Goes(new, old), \A names \in Kinds : Alone(new, names),
           StepsOf(new) \subseteq {Xhr!Program, <<"dispatch", e>>},
           xhr'.aborted, xhr'.readyState = 4,
           calls' \in [open : Nat, send : 0 .. MaxSends, abort : Nat], UNCHANGED events,
           \A g \in Xhr!Numbers :
             sending'[g] = sending[g] \/ (sending[g] = "fetch" /\ sending'[g] = "aborted"),
           Careful' => /\ Careful /\ None(stack, {"dispatch"}) /\ (e = "abort" \/ ~Ended)
                       /\ \A g \in Xhr!Numbers : ~Xhr!Reading(g)
    PROVE  XhrInv'
<1>1. PICK d : d = <<"dispatch", e>>
  OBVIOUS
<1>2. d[1] = "dispatch" /\ d[2] = e
  BY <1>1
<1>3. /\ stack' \in Seq(XhrSteps)
      /\ \A x \in StepsOf(stack') :
             x = d \/ x = Xhr!Program \/ (x \in StepsOf(old) /\ x \in StepsOf(stack))
      /\ \A names \in Kinds :
           /\ Alone(stack, names) /\ (None(new, names) \/ None(old, names)) => Alone(stack', names)
           /\ None(stack, names) => None(old, names)
  BY <1>1, GoesOn
<1>4. None(new, {"text"})
  BY <1>1, <1>2 DEF None, Xhr!Program
<1>5. FormInv'
  BY <1>3 DEF FormInv
<1>6. ASSUME Careful' PROVE CareInv'
  <2>1. StepsInv /\ PastInv /\ None(stack, {"dispatch"}) /\ (e = "abort" \/ ~Ended)
        /\ \A g \in Xhr!Numbers : ~Xhr!Reading(g)
    BY <1>6 DEF CareInv
  <2>2. None(stack, {"text"})
    <3>1. ASSUME NEW x \in StepsOf(stack), x[1] = "text" PROVE FALSE
      <4>1. x[2] \in Xhr!Numbers /\ sending[x[2]] = "loading"
        BY <2>1, <3>1, StepArguments DEF FormInv, StepsInv
      <4> QED BY <2>1, <4>1 DEF Xhr!Reading
    <3> QED BY <3>1 DEF None
  <2>3. \A g \in Xhr!Numbers : ~Xhr!Reading(g)'
    BY <2>1 DEF Xhr!Reading
  <2>4. \A x \in StepsOf(stack') : x = d \/ x[1] \notin {"dispatch", "text"}
    BY <1>3, <2>1, <2>2 DEF None, Xhr!Program
  <2>5. Alone(stack', {"dispatch"}) /\ Alone(stack', {"text"})
    BY <1>3, <1>4, <2>1, KindsAre DEF StepsInv
  <2>6. (Ended' <=> Ended) /\ PastInv'
    BY <2>1 DEF Ended, PastInv
  <2>7. StepsInv'
    BY <1>2, <2>1, <2>4, <2>5, <2>6 DEF StepsInv
  <2>8. WorkInv' /\ AbortedInv' /\ EndInv'
    BY <2>3 DEF WorkInv, AbortedInv, EndInv, Xhr!OPENED
  <2> QED BY <2>6, <2>7, <2>8 DEF CareInv
<1> QED BY <1>5, <1>6, TypesAre DEF XhrInv

LEMMA AbortKeeps ==
    ASSUME XhrInv, Xhr!Abort
    PROVE  XhrInv'
<1>1. XhrTypes /\ FormInv /\ (Careful => CareInv)
  BY TypesAre DEF XhrInv
<1>2. /\ xhr' = [xhr EXCEPT !.aborted = TRUE, !.sent = FALSE, !.timeoutId = 0, !.readyState = 4]
      /\ calls' = [calls EXCEPT !.abort = @ + 1]
      /\ Xhr!Signals(xhr.controller)
      /\ timers' = timers \ {xhr.timeoutId}
      /\ Xhr!Invokes(Xhr!Finishes("abort"))
      /\ UNCHANGED events
      /\ strayed' = IF (\E g \in Xhr!Numbers : Xhr!Reading(g)) \/ Xhr!Before({"dispatch"})
                    THEN strayed \cup {"aborted too late"} ELSE strayed
  BY DEF Xhr!Abort, Xhr!DONE, Xhr!Strays
<1>3. xhr' \in XhrFields /\ xhr'.aborted /\ xhr'.readyState = 4
  <2>1. xhr \in XhrFields
    BY <1>1 DEF XhrTypes
  <2> QED BY <1>2, <2>1, AbortFields
<1>4. PICK new : new = Xhr!Finishes("abort")
  OBVIOUS
<1>5. /\ new \in Seq(XhrSteps) /\ StepsOf(new) \subseteq {Xhr!Program, <<"dispatch", "abort">>}
      /\ \A names \in Kinds : Alone(new, names)
  <2>1. "abort" \in Xhr!Ends
    BY DEF Xhr!Ends
  <2> QED BY <1>4, <2>1, FinishesSteps
<1>6. PICK old : Goes(new, old)
  BY <1>1, <1>2, <1>4, <1>5, InvokesGoes DEF FormInv
<1>7. XhrTypes'
  BY <1>1, <1>2, <1>3, SignalsDoes DEF XhrTypes
<1>8. calls' \in [open : Nat, send : 0 .. MaxSends, abort : Nat]
  BY <1>1, <1>2, CallsCount DEF FormInv
<1>9. ASSUME Careful'
      PROVE  /\ Careful /\ None(stack, {"dispatch"})
             /\ \A g \in Xhr!Numbers : ~Xhr!Reading(g)
  <2>1. ~(\E g \in Xhr!Numbers : Xhr!Reading(g)) /\ ~Xhr!Before({"dispatch"}) /\ Careful
    BY <1>2, <1>9 DEF Careful
  <2>2. None(stack, {"dispatch"})
    BY <2>1, NotBefore
  <2> QED BY <2>1, <2>2
<1>10. \A g \in Xhr!Numbers :
         sending'[g] = sending[g] \/ (sending[g] = "fetch" /\ sending'[g] = "aborted")
  BY <1>1, <1>2, SignalsDoes
<1>11. PICK e \in {"abort", "timeout"} : e = "abort"
  OBVIOUS
<1> QED BY <1>1, <1>2, <1>3, <1>5, <1>6, <1>7, <1>8, <1>9, <1>10, <1>11, AbortingKeeps

LEMMA FiresKeeps ==
    ASSUME XhrInv, NEW t \in Xhr!Numbers, Xhr!Fires(t)
    PROVE  XhrInv'
<1>1. XhrTypes /\ FormInv /\ (Careful => CareInv)
  BY TypesAre DEF XhrInv
<1>2. stack = <<>> /\ timers' = timers \ {t} /\ UNCHANGED <<calls, events>>
  BY DEF Xhr!Fires
<1>3. CASE xhr.readyState # Xhr!DONE /\ ~xhr.aborted
  <2>1. /\ xhr' = [xhr EXCEPT !.timeoutId = 0, !.aborted = TRUE, !.readyState = 4]
        /\ Xhr!Signals(xhr.controller)
        /\ stack' = Xhr!Finishes("timeout")
        /\ strayed' = IF \E g \in Xhr!Numbers : Xhr!Reading(g)
                      THEN strayed \cup {"aborted too late"} ELSE strayed
    BY <1>3 DEF Xhr!Fires, Xhr!DONE, Xhr!Strays
  <2>2. xhr' \in XhrFields /\ xhr'.aborted /\ xhr'.readyState = 4
    <3>1. xhr \in XhrFields
      BY <1>1 DEF XhrTypes
    <3> QED BY <2>1, <3>1, FiresFields
  <2>3. PICK new, old : new = Xhr!Finishes("timeout") /\ old = <<>>
    OBVIOUS
  <2>4. /\ new \in Seq(XhrSteps) /\ StepsOf(new) \subseteq {Xhr!Program, <<"dispatch", "timeout">>}
        /\ \A names \in Kinds : Alone(new, names)
    <3>1. "timeout" \in Xhr!Ends
      BY DEF Xhr!Ends
    <3> QED BY <2>3, <3>1, FinishesSteps
  <2>5. Goes(new, old)
    BY <1>2, <2>1, <2>3, <2>4, BeginsGoes
  <2>6. XhrTypes'
    BY <1>1, <1>2, <2>1, <2>2, SignalsDoes DEF XhrTypes
  <2>7. calls' \in [open : Nat, send : 0 .. MaxSends, abort : Nat]
    BY <1>1, <1>2 DEF FormInv
  <2>8. ASSUME Careful'
        PROVE  /\ Careful /\ None(stack, {"dispatch"}) /\ ~Ended
               /\ \A g \in Xhr!Numbers : ~Xhr!Reading(g)
    <3>1. ~(\E g \in Xhr!Numbers : Xhr!Reading(g)) /\ Careful
      BY <2>1, <2>8 DEF Careful
    <3>2. ~Ended
      BY <1>1, <1>3, <3>1 DEF CareInv, EndInv
    <3> QED BY <1>2, <3>1, <3>2, NothingSteps DEF None
  <2>9. \A g \in Xhr!Numbers :
          sending'[g] = sending[g] \/ (sending[g] = "fetch" /\ sending'[g] = "aborted")
    BY <1>1, <2>1, SignalsDoes
  <2>10. PICK e \in {"abort", "timeout"} : e = "timeout"
    OBVIOUS
  <2> QED BY <1>1, <1>2, <2>2, <2>4, <2>5, <2>6, <2>7, <2>8, <2>9, <2>10, AbortingKeeps
<1>4. CASE ~(xhr.readyState # Xhr!DONE /\ ~xhr.aborted)
  <2>1. xhr' = [xhr EXCEPT !.timeoutId = 0] /\ UNCHANGED <<signalled, sending, stack, strayed>>
    BY <1>4 DEF Xhr!Fires
  <2>2. xhr' \in XhrFields /\ Same(xhr', xhr)
    <3>1. xhr \in XhrFields /\ 0 \in 0 .. MaxSends
      BY <1>1, Bounds DEF XhrTypes
    <3> QED BY <2>1, <3>1, TimerFields
  <2>3. XhrTypes' /\ Eases
    BY <1>1, <1>2, <2>1, <2>2, StaysEases DEF XhrTypes, FormInv
  <2>4. \A h \in Xhr!Numbers :
            (Xhr!UnderWay(h)' <=> Xhr!UnderWay(h)) /\ (Xhr!Reading(h)' <=> Xhr!Reading(h))
    BY <2>1 DEF Xhr!UnderWay, Xhr!Reading
  <2> QED BY <1>1, <1>2, <2>1, <2>2, <2>3, <2>4, EasingKeeps
<1> QED BY <1>3, <1>4

\* A request ends with an event, by its answer.
LEMMA FinishingKeeps ==
    ASSUME XhrTypes, FormInv, Careful => CareInv, NEW g \in Xhr!Numbers, NEW e \in Xhr!Ends,
           Xhr!UnderWay(g), stack = <<>>, stack' = Xhr!Finishes(e),
           xhr' \in XhrFields, xhr'.readyState = 4, xhr'.sent = xhr.sent,
           xhr'.aborted = xhr.aborted, xhr'.controller = xhr.controller,
           sending' = [sending EXCEPT ![g] = "done"], timers' \subseteq timers,
           UNCHANGED <<signalled, calls, events>>, strayed \subseteq strayed',
           Careful => ~xhr.aborted, e = "late load" => g # xhr.controller
    PROVE  XhrInv'
<1>1. PICK new, old : new = Xhr!Finishes(e) /\ old = <<>>
  OBVIOUS
<1>2. /\ new \in Seq(XhrSteps) /\ StepsOf(new) \subseteq {Xhr!Program, <<"dispatch", e>>}
      /\ (\A names \in Kinds : Alone(new, names)) /\ None(new, {"text"}) /\ None(new, ToFetch)
  BY <1>1, FinishesSteps
<1>3. stack' = new
  BY <1>1
<1>4. PICK d : d = <<"dispatch", e>>
  OBVIOUS
<1>5. d[1] = "dispatch" /\ d[2] = e /\ \A x \in StepsOf(stack') : x = d \/ x = Xhr!Program
  BY <1>2, <1>3, <1>4
<1>6. XhrTypes' /\ FormInv'
  <2>1. XhrTypes'
    BY DEF XhrTypes, RequestStates
  <2> QED BY <1>2, <1>3, <2>1 DEF FormInv
<1>7. ASSUME Careful' PROVE CareInv'
  <2>1. StepsInv /\ WorkInv /\ AbortedInv /\ EndInv /\ PastInv /\ ~xhr.aborted
    BY <1>7 DEF CareInv, Careful
  <2>2. g = xhr.controller /\ \A k \in Xhr!Numbers : Xhr!UnderWay(k) => k = g
    BY <2>1 DEF WorkInv
  <2>3. \A k \in Xhr!Numbers : ~Xhr!UnderWay(k)'
    BY <2>2 DEF XhrTypes, Xhr!UnderWay, Xhr!Reading
  <2>4. ~Ended
    <3>1. Working
      BY DEF Working
    <3> QED BY <2>1, <3>1 DEF EndInv
  <2>5. (Ended' <=> Ended) /\ PastInv'
    BY <2>1 DEF Ended, PastInv
  <2>6. StepsInv'
    <3>1. \A x \in StepsOf(stack') : x[1] # "text" /\ (x[1] = "dispatch" => x[2] = e)
      <4>1. Xhr!Program[1] = "program"
        BY DEF Xhr!Program
      <4> QED BY <1>5, <4>1
    <3>2. Alone(stack', {"dispatch"}) /\ Alone(stack', {"text"})
      BY <1>2, <1>3, KindsAre
    <3> QED BY <2>2, <2>4, <2>5, <3>1, <3>2 DEF StepsInv
  <2>7. None(stack', ToFetch)
    BY <1>2, <1>3
  <2>8. WorkInv'
    <3>1. Alone(stack', ToFetch) /\ \A x \in StepsOf(stack') : x[1] # "fetch"
      BY <2>7 DEF None, Alone, StepsOf, ToFetch
    <3>2. ~Working'
      BY <2>3, <2>7 DEF Working
    <3> QED BY <2>3, <3>1, <3>2 DEF WorkInv
  <2>9. AbortedInv' /\ EndInv'
    BY <2>1, <2>3, <2>7 DEF AbortedInv, EndInv, Working, Xhr!DONE
  <2> QED BY <2>5, <2>6, <2>8, <2>9 DEF CareInv
<1> QED BY <1>6, <1>7, TypesAre DEF XhrInv

LEMMA LoadedKeeps ==
    ASSUME XhrInv, NEW g \in Xhr!Numbers, Xhr!Loaded(g)
    PROVE  XhrInv'
<1>1. XhrTypes /\ FormInv /\ (Careful => CareInv)
  BY TypesAre DEF XhrInv
<1>2. PICK e \in Xhr!Ends : e = IF g = xhr.controller THEN "load" ELSE "late load"
  BY DEF Xhr!Ends
<1>3. /\ stack = <<>> /\ sending[g] = "text" /\ sending' = [sending EXCEPT ![g] = "done"]
      /\ xhr' = [xhr EXCEPT !.readyState = 4] /\ stack' = Xhr!Finishes(e)
      /\ UNCHANGED <<signalled, timers, calls, events, strayed>>
  BY <1>2 DEF Xhr!Loaded, Xhr!DONE, Xhr!historyVars
<1>4. xhr' \in XhrFields /\ xhr'.readyState = 4 /\ xhr'.sent = xhr.sent /\ xhr'.aborted = xhr.aborted
      /\ xhr'.controller = xhr.controller
  <2>1. xhr \in XhrFields /\ 4 \in 0 .. 4
    BY <1>1 DEF XhrTypes
  <2> QED BY <1>3, <2>1, StateFields
<1>5. Xhr!Reading(g) /\ Xhr!UnderWay(g)
  BY <1>3 DEF Xhr!Reading, Xhr!UnderWay
<1>6. Careful => ~xhr.aborted
  BY <1>1, <1>5 DEF CareInv, AbortedInv
<1>7. e = "late load" => g # xhr.controller
  BY <1>2
<1> QED BY <1>1, <1>3, <1>4, <1>5, <1>6, <1>7, FinishingKeeps

LEMMA FailedKeeps ==
    ASSUME XhrInv, NEW g \in Xhr!Numbers, Xhr!Failed(g)
    PROVE  XhrInv'
<1>1. XhrTypes /\ FormInv /\ (Careful => CareInv)
  BY TypesAre DEF XhrInv
<1>2. /\ stack = <<>> /\ sending[g] \in {"failed", "aborted"}
      /\ sending' = [sending EXCEPT ![g] = "done"]
      /\ timers' \subseteq timers /\ UNCHANGED <<signalled, calls, events>> /\ strayed \subseteq strayed'
  BY DEF Xhr!Failed, Xhr!Strays
<1>3. CASE xhr.aborted \/ sending[g] = "aborted"
  <2>1. xhr' = [xhr EXCEPT !.timeoutId = 0] /\ UNCHANGED stack
    BY <1>3 DEF Xhr!Failed
  <2> QED BY <1>2, <2>1, DroppedKeeps
<1>4. CASE ~(xhr.aborted \/ sending[g] = "aborted")
  <2>1. xhr' = [xhr EXCEPT !.timeoutId = 0, !.readyState = 4] /\ stack' = Xhr!Finishes("error")
    BY <1>4 DEF Xhr!Failed, Xhr!DONE
  <2>2. xhr' \in XhrFields /\ xhr'.readyState = 4 /\ xhr'.sent = xhr.sent
        /\ xhr'.aborted = xhr.aborted /\ xhr'.controller = xhr.controller
    <3>1. xhr \in XhrFields /\ 4 \in 0 .. 4
      BY <1>1 DEF XhrTypes
    <3> QED BY <2>1, <3>1, ClearFields
  <2>3. Xhr!UnderWay(g)
    BY <1>2, <1>4 DEF Xhr!UnderWay
  <2>4. PICK e \in Xhr!Ends : e = "error"
    BY DEF Xhr!Ends
  <2> QED BY <1>1, <1>2, <1>4, <2>1, <2>2, <2>3, <2>4, FinishingKeeps
<1> QED BY <1>3, <1>4

LEMMA RespondedKeeps ==
    ASSUME XhrInv, NEW g \in Xhr!Numbers, Xhr!Responded(g)
    PROVE  XhrInv'
<1>1. XhrTypes /\ FormInv /\ (Careful => CareInv)
  BY TypesAre DEF XhrInv
<1>2. stack = <<>> /\ sending[g] = "ok" /\ UNCHANGED <<signalled, calls, events>>
  BY DEF Xhr!Responded
<1>3. CASE xhr.aborted
  <2>1. sending' = [sending EXCEPT ![g] = "done"] /\ UNCHANGED <<xhr, timers, stack, strayed>>
    BY <1>3 DEF Xhr!Responded
  <2> QED BY <1>2, <2>1, DroppedKeeps
<1>4. CASE ~xhr.aborted
  <2>1. /\ xhr' = [xhr EXCEPT !.timeoutId = 0, !.readyState = 3] /\ timers' \subseteq timers
        /\ sending' = [sending EXCEPT ![g] = "loading"]
        /\ stack' = Xhr!Hears(3) \o <<<<"text", g>>>> /\ strayed \subseteq strayed'
    BY <1>4 DEF Xhr!Responded, Xhr!LOADING, Xhr!Strays
  <2>2. xhr' \in XhrFields /\ xhr'.readyState = 3 /\ xhr'.sent = xhr.sent
        /\ ~xhr'.aborted /\ xhr'.controller = xhr.controller
    <3>1. xhr \in XhrFields /\ 3 \in 0 .. 4
      BY <1>1 DEF XhrTypes
    <3> QED BY <1>4, <2>1, <3>1, ClearFields
  <2>3. PICK f, h, t : f = <<"text", g>> /\ h = Xhr!Hears(3) /\ t = <<f>>
    OBVIOUS
  <2>4. f \in XhrSteps /\ f[1] = "text" /\ f[2] = g
    BY <2>3 DEF XhrSteps
  <2>5. h \in Seq(XhrSteps) /\ StepsOf(h) \subseteq {Xhr!Program}
        /\ \A names \in Kinds : None(h, names) /\ Alone(h, names)
    BY <2>3, HearsSteps, QuietSteps
  <2>6. t \in Seq(XhrSteps) /\ StepsOf(t) = {f} /\ \A names \in Kinds : Alone(t, names)
    <3>1. t \in Seq(XhrSteps) /\ Len(t) = 1 /\ t[1] = f
      BY <2>3, <2>4
    <3> QED BY <3>1 DEF StepsOf, Alone
  <2>7. /\ stack' \in Seq(XhrSteps) /\ \A x \in StepsOf(stack') : x = f \/ x = Xhr!Program
        /\ \A names \in Kinds : Alone(stack', names)
    <3>1. stack' = h \o t
      BY <2>1, <2>3
    <3> QED BY <2>5, <2>6, <3>1, StepsJoin
  <2>8. None(stack', ToFetch) /\ None(stack', {"dispatch"})
    BY <2>4, <2>7 DEF None, ToFetch, Xhr!Program
  <2>9. XhrTypes' /\ FormInv'
    <3>1. XhrTypes'
      BY <1>1, <1>2, <2>1, <2>2 DEF XhrTypes, RequestStates
    <3> QED BY <1>1, <1>2, <2>7, <3>1 DEF FormInv
  <2>10. ASSUME Careful' PROVE CareInv'
    <3>1. StepsInv /\ WorkInv /\ AbortedInv /\ EndInv /\ PastInv
      BY <1>1, <2>1, <2>10 DEF CareInv, Careful
    <3>2. Xhr!UnderWay(g) /\ Working
      BY <1>2 DEF Xhr!UnderWay, Working
    <3>3. /\ xhr.sent /\ g = xhr.controller /\ ~Ended
          /\ \A k \in Xhr!Numbers : Xhr!UnderWay(k) => k = xhr.controller
      BY <1>4, <3>1, <3>2 DEF WorkInv, EndInv
    <3>4. /\ sending'[g] = "loading"
          /\ \A k \in Xhr!Numbers : k # g => sending'[k] = sending[k]
      BY <1>1, <2>1 DEF XhrTypes
    <3>5. \A k \in Xhr!Numbers : Xhr!UnderWay(k)' => k = xhr.controller
      BY <3>3, <3>4 DEF Xhr!UnderWay, Xhr!Reading
    <3>6. ~Ended' /\ PastInv'
      BY <1>2, <3>1, <3>3 DEF Ended, PastInv
    <3>7. StepsInv'
      <4>1. Alone(stack', {"dispatch"}) /\ Alone(stack', {"text"})
        BY <2>7, KindsAre
      <4>2. Xhr!Program[1] = "program"
        BY DEF Xhr!Program
      <4>3. \A x \in StepsOf(stack') : x[1] # "dispatch" /\ (x[1] = "text" => x[2] = g)
        BY <2>4, <2>7, <4>2
      <4> QED BY <3>4, <4>1, <4>3 DEF StepsInv
    <3>8. WorkInv'
      <4>1. Alone(stack', ToFetch) /\ \A x \in StepsOf(stack') : x[1] # "fetch"
        BY <2>7, <2>8, KindsAre DEF None, ToFetch
      <4> QED BY <2>2, <2>8, <3>3, <3>5, <4>1 DEF WorkInv
    <3>9. AbortedInv' /\ EndInv'
      BY <2>2, <2>8, <3>6 DEF AbortedInv, EndInv
    <3> QED BY <3>6, <3>7, <3>8, <3>9 DEF CareInv
  <2> QED BY <2>9, <2>10, TypesAre DEF XhrInv
<1> QED BY <1>3, <1>4

-----------------------------------------------------------------------------
LEMMA XhrInitInv == Xhr!Init => XhrInv
<1> SUFFICES ASSUME Xhr!Init PROVE XhrInv
  OBVIOUS
<1>1. /\ xhr = [readyState |-> 0, sent |-> FALSE, aborted |-> FALSE, controller |-> 0, timeoutId |-> 0]
      /\ sending = [g \in Xhr!Numbers |-> "none"] /\ signalled = {} /\ timers = {} /\ stack = <<>>
      /\ calls = [open |-> 0, send |-> 0, abort |-> 0] /\ events = <<>>
  BY DEF Xhr!Init, Xhr!UNSENT
<1>2. xhr \in XhrFields
  <2>1. 0 \in 0 .. MaxSends /\ 0 \in 0 .. 4
    BY Bounds
  <2> QED BY <1>1, <2>1 DEF XhrFields
<1>3. XhrTypes
  BY <1>1, <1>2 DEF XhrTypes, RequestStates
<1>4. FormInv
  <2>1. 0 \in 0 .. MaxSends
    BY Bounds
  <2> QED BY <1>1, <2>1 DEF FormInv
<1>5. StepsOf(stack) = {} /\ (\A names : Alone(stack, names) /\ None(stack, names)) /\ ~Ended
  BY <1>1 DEF StepsOf, Alone, None, Ended
<1>6. \A g \in Xhr!Numbers : ~Xhr!UnderWay(g)
  BY <1>1 DEF Xhr!UnderWay, Xhr!Reading
<1>7. WorkInv /\ AbortedInv /\ EndInv
  BY <1>1, <1>5, <1>6 DEF WorkInv, AbortedInv, EndInv, Working
<1>8. StepsInv /\ PastInv
  <2>1. PastInv
    BY <1>1 DEF PastInv
  <2> QED BY <1>5, <2>1 DEF StepsInv
<1> QED BY <1>3, <1>4, <1>7, <1>8, TypesAre DEF XhrInv, CareInv

LEMMA XhrStutter == XhrInv /\ UNCHANGED Xhr!vars => XhrInv'
BY DEF XhrInv, Xhr!vars, Xhr!TypeOK, FormInv, CareInv, Careful, StepsInv, WorkInv, AbortedInv,
   EndInv, PastInv, Working, Ended, Xhr!UnderWay, Xhr!Reading

LEMMA XhrStep == XhrInv /\ [Xhr!Next]_(Xhr!vars) => XhrInv'
<1> SUFFICES ASSUME XhrInv, Xhr!Next PROVE XhrInv'
  BY XhrStutter
<1>1. CASE \E g \in Xhr!Numbers : Xhr!Responded(g)
  BY <1>1, RespondedKeeps
<1>2. CASE \E g \in Xhr!Numbers : Xhr!Loaded(g)
  BY <1>2, LoadedKeeps
<1>3. CASE \E g \in Xhr!Numbers : Xhr!Failed(g)
  BY <1>3, FailedKeeps
<1>4. CASE \E g \in Xhr!Numbers : Xhr!Fires(g)
  BY <1>4, FiresKeeps
<1>5. CASE \E g \in Xhr!Numbers, ok \in BOOLEAN : Xhr!Answers(g, ok) \/ Xhr!BodyEnds(g, ok)
  BY <1>5, HostKeeps
<1> QED
  BY <1>1, <1>2, <1>3, <1>4, <1>5, SendAsyncKeeps, FetchKeeps, ArmKeeps, DispatchKeeps,
     ProgramReturnsKeeps, TextKeeps, OpenKeeps, SendKeeps, AbortKeeps
  DEF Xhr!Next, Xhr!Runs

\* The inductive invariant of an XMLHttpRequest.
THEOREM XhrInvIsInvariant == Xhr!Spec => []XhrInv
<1> QED BY XhrInitInv, XhrStep, PTL DEF Xhr!Spec

\* A request ends once, for any number of calls of open(), send() and abort(), of them in
\* listeners and between jobs, and for any order of answers, bodies and timers.
THEOREM RequestsAlwaysEndOnce == Xhr!Spec => []RequestsEndOnce
<1>1. XhrInv => RequestsEndOnce
  <2> SUFFICES ASSUME XhrInv PROVE RequestsEndOnce
    OBVIOUS
  <2>1. Xhr!TypeOK
    BY DEF XhrInv
  <2>2. strayed \cap {"aborted too late", "opened too early"} = {} => PastInv
    BY DEF XhrInv, CareInv, Careful
  <2>3. PastInv => ~Xhr!Contains(events, "late load")
    BY DEF PastInv, Xhr!Contains
  <2> QED BY <2>1, <2>2, <2>3 DEF RequestsEndOnce, Xhr!RequestsEndOnce, PastInv
<1> QED BY <1>1, XhrInvIsInvariant, PTL
=============================================================================
