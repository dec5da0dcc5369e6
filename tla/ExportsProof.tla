---------------------------- MODULE ExportsProof ----------------------------
(* The resource table is exact, for any number of ids, tasks and handles, and *)
(* what a caller sees of that: its parameters are found.  Then the job queue  *)
(* that runs exported functions: what message ports hand over, and when       *)
(* rejections are reported, for any number of messages, jobs and promises.    *)
EXTENDS MCExports, TLAPS

-----------------------------------------------------------------------------
(* Queues.                                                                   *)
Occurs(q, i) == \E n \in 1 .. Len(q) : q[n] = i
OccursOnce(q, i) == \A m, n \in 1 .. Len(q) : q[m] = i /\ q[n] = i => m = n

LEMMA AppendOccurs ==
    ASSUME NEW T, NEW q \in Seq(T), NEW x \in T, NEW i
    PROVE  /\ Append(q, x) \in Seq(T)
           /\ Occurs(Append(q, x), i) <=> Occurs(q, i) \/ i = x
           /\ OccursOnce(q, i) /\ (i = x => ~Occurs(q, i)) => OccursOnce(Append(q, x), i)
<1> DEFINE a == Append(q, x)
<1>1. /\ a \in Seq(T)
      /\ Len(a) = Len(q) + 1 /\ Len(q) \in Nat
      /\ a[Len(q) + 1] = x
      /\ \A n \in 1 .. Len(q) : a[n] = q[n]
  OBVIOUS
<1> HIDE DEF a
<1>2. Occurs(a, i) <=> Occurs(q, i) \/ i = x
  BY <1>1 DEF Occurs
<1>3. OccursOnce(q, i) /\ (i = x => ~Occurs(q, i)) => OccursOnce(a, i)
  BY <1>1 DEF Occurs, OccursOnce
<1> QED BY <1>1, <1>2, <1>3 DEF a

LEMMA TailOccurs ==
    ASSUME NEW T, NEW q \in Seq(T), q # <<>>, NEW i
    PROVE  /\ Tail(q) \in Seq(T) /\ Head(q) \in T
           /\ Head(q) # i => (Occurs(Tail(q), i) <=> Occurs(q, i))
           /\ Occurs(q, Head(q))
           /\ OccursOnce(q, i) => OccursOnce(Tail(q), i)
           /\ OccursOnce(q, i) /\ Head(q) = i => ~Occurs(Tail(q), i)
<1> DEFINE t == Tail(q)
<1>1. /\ t \in Seq(T) /\ Head(q) \in T
      /\ Len(q) \in Nat /\ Len(q) > 0 /\ Len(t) = Len(q) - 1
      /\ q[1] = Head(q)
      /\ \A n \in 1 .. Len(t) : t[n] = q[n + 1]
  OBVIOUS
<1> HIDE DEF t
<1>2. \A n \in 2 .. Len(q) : n - 1 \in 1 .. Len(t) /\ t[n - 1] = q[n]
  BY <1>1
<1>3. Head(q) # i => (Occurs(t, i) <=> Occurs(q, i))
  <2>1. Occurs(t, i) => Occurs(q, i)
    BY <1>1 DEF Occurs
  <2>2. ASSUME Head(q) # i, NEW n \in 1 .. Len(q), q[n] = i PROVE Occurs(t, i)
    BY <1>1, <1>2, <2>2 DEF Occurs
  <2> QED BY <2>1, <2>2 DEF Occurs
<1>4. Occurs(q, Head(q))
  BY <1>1 DEF Occurs
<1>5. OccursOnce(q, i) => OccursOnce(t, i)
  BY <1>1 DEF OccursOnce
<1>6. OccursOnce(q, i) /\ Head(q) = i => ~Occurs(t, i)
  BY <1>1 DEF OccursOnce, Occurs
<1> QED BY <1>1, <1>3, <1>4, <1>5, <1>6 DEF t

-----------------------------------------------------------------------------
(* The inductive invariant.                                                  *)
InFlight(i) == export # "none" /\ result = i
Passed(i) == export = "called" /\ own = i
Removing(i) == dropper = "removing" /\ dropping = i

\* Where a resource that was returned once at most can be: the host, the call's
\* parameter, its result, the queue and the dropper's hands exclude each other.
PlaceInv(i) ==
    /\ i >= lastResourceId =>
          /\ handles[i] = 0 /\ i \notin table
          /\ ~InFlight(i) /\ ~Passed(i) /\ ~Occurs(dropQueue, i) /\ ~Removing(i)
    /\ handles[i] \in {0, 1}
    /\ handles[i] = 1 => ~InFlight(i) /\ ~Passed(i)
    /\ handles[i] = 1 \/ InFlight(i) \/ Passed(i) =>
          i \in table /\ ~Occurs(dropQueue, i) /\ ~Removing(i)
    /\ Occurs(dropQueue, i) \/ Removing(i) => i \in table
    /\ i \in table => handles[i] = 1 \/ InFlight(i) \/ Passed(i)
                        \/ Occurs(dropQueue, i) \/ Removing(i)
    /\ OccursOnce(dropQueue, i)
    /\ Occurs(dropQueue, i) => ~Removing(i)

CallInv ==
    /\ export \in {"called", "awaiting"} => result = NoId
    /\ export = "called" /\ self \in Ids => handles[self] > 0
    /\ export = "none" => dropper = "stopped"
    /\ dropper = "removing" => dropping \in Ids
    /\ OccursOnce(dropQueue, NoId)
    /\ Occurs(dropQueue, NoId) <=> (export # "none" /\ dropper # "stopped")

\* Who keeps the lock is waiting in idle().
LockInv ==
    /\ lock = "export" => export = "idling"
    /\ lock = "dropper" => dropper = "idling"

IInv ==
    /\ TypeOK
    /\ CallInv
    /\ LockInv
    /\ \A i \in Ids \ again : PlaceInv(i)

LEMMA InitIInv == Init => IInv
<1> SUFFICES ASSUME Init PROVE IInv
  OBVIOUS
<1>1. TypeOK
  <2>1. lastResourceId \in 1 .. MaxId + 1 /\ refed \in 0 .. MaxTasks
    BY ExportsAssumption DEF ExportsAssumption, Init
  <2>2. handles \in [Ids -> Nat]
    BY DEF Init
  <2>3. dropQueue \in Seq(Ids \cup {NoId})
    BY DEF Init
  <2> QED BY <2>1, <2>2, <2>3 DEF Init, TypeOK
<1>2. \A i : ~Occurs(<<>>, i) /\ OccursOnce(<<>>, i)
  BY DEF Occurs, OccursOnce
<1>3. CallInv
  BY <1>2 DEF Init, CallInv, Ids, NoId
<1>4. ASSUME NEW i \in Ids \ again PROVE PlaceInv(i)
  BY <1>2, <1>4 DEF Init, PlaceInv, InFlight, Passed, Removing, Ids, NoId
<1>5. LockInv
  BY DEF Init, LockInv
<1> QED BY <1>1, <1>3, <1>4, <1>5 DEF IInv

\* Steps of the runtime, and those in which the call only gets on.
LEMMA Frame ==
    ASSUME IInv,
           UNCHANGED <<lastResourceId, table, handles, dropQueue, self, own, result, dropping>>,
           again' = again,
           (export' = "none") <=> (export = "none"),
           export' = "called" => export = "called",
           export' = "awaiting" => export = "awaiting",
           export = "called" /\ own # NoId => export' = "called",
           (dropper' = "removing") <=> (dropper = "removing"),
           (dropper' = "stopped") <=> (dropper = "stopped")
    PROVE  CallInv' /\ \A i \in Ids \ again' : PlaceInv(i)'
<1>1. CallInv'
  BY DEF IInv, CallInv, Occurs, OccursOnce
<1>2. ASSUME NEW i \in Ids \ again PROVE PlaceInv(i)'
  <2>1. PlaceInv(i)
    BY <1>2 DEF IInv
  <2>2. Passed(i)' <=> Passed(i)
    BY <1>2 DEF Passed, Ids, NoId
  <2> QED BY <2>1, <2>2 DEF PlaceInv, InFlight, Removing, Occurs, OccursOnce
<1> QED BY <1>1, <1>2

LEMMA RuntimeStep ==
    ASSUME IInv,
           \/ WizerInitialize \/ ParameterMissing \/ ExportThrows
           \/ ReturnsValue \/ DrainStarts \/ Runtime
    PROVE  IInv'
<1>0. TypeOK
  BY DEF IInv
<1> USE ExportsAssumption DEF ExportsAssumption
<1>1. CASE WizerInitialize
  <2>1. TypeOK'
    BY <1>0, <1>1 DEF TypeOK, WizerInitialize, callVars, dropperVars, taskVars, resourceVars
  <2> QED BY <2>1, <1>1, Frame DEF IInv, LockInv, WizerInitialize, callVars, dropperVars, taskVars, resourceVars
<1>2. CASE ParameterMissing \/ ExportThrows
  <2>1. TypeOK'
    BY <1>0, <1>2 DEF TypeOK, ParameterMissing, ExportThrows, callVars, dropperVars, taskVars,
                      resourceVars, initVars
  <2> QED BY <2>1, <1>2, Frame DEF IInv, LockInv, ParameterMissing, ExportThrows, callVars,
                                   dropperVars, taskVars, resourceVars
<1>3. CASE ReturnsValue
  <2>1. TypeOK'
    BY <1>0, <1>3 DEF TypeOK, ReturnsValue, dropperVars, taskVars, resourceVars, initVars
  <2> QED BY <2>1, <1>3, Frame DEF IInv, LockInv, ReturnsValue, dropperVars, taskVars, resourceVars
<1>4. CASE DrainStarts
  <2>1. TypeOK'
    BY <1>0, <1>4 DEF TypeOK, DrainStarts, dropperVars, resourceVars, initVars
  <2> QED BY <2>1, <1>4, Frame DEF IInv, LockInv, DrainStarts, dropperVars, resourceVars
<1>5. CASE IdleStarts
  <2>1. TypeOK'
    BY <1>0, <1>5 DEF TypeOK, IdleStarts, callVars, dropperVars, resourceVars, initVars
  <2> QED BY <2>1, <1>5, Frame DEF IInv, LockInv, IdleStarts, callVars, dropperVars, resourceVars
<1>6. CASE TaskEnds
  <2>1. refed' \in 0 .. MaxTasks
    BY <1>0, <1>6 DEF TypeOK, TaskEnds
  <2>2. TypeOK'
    BY <1>0, <1>6, <2>1 DEF TypeOK, TaskEnds, callVars, dropperVars, resourceVars, initVars
  <2> QED BY <2>2, <1>6, Frame DEF IInv, LockInv, TaskEnds, callVars, dropperVars, resourceVars
<1>7. CASE SentinelAborts
  <2>1. unrefed' \in BOOLEAN /\ sentinel' \in BOOLEAN
    BY <1>7, Zenon DEF SentinelAborts
  <2>2. UNCHANGED <<initVars, resourceVars, dropQueue, callVars, dropperVars, lock, refed, trapped>>
    BY <1>7 DEF SentinelAborts
  <2>3. TypeOK'
    BY <1>0, <2>1, <2>2 DEF TypeOK, callVars, dropperVars, resourceVars, initVars
  <2> QED BY <2>3, <2>2, Frame DEF IInv, LockInv, callVars, dropperVars, resourceVars
<1>8. CASE IdleReturns
  <2>1. TypeOK'
    BY <1>0, <1>8 DEF TypeOK, IdleReturns, callVars, dropperVars, resourceVars, initVars
  <2>2. (dropper' = "removing" <=> dropper = "removing") /\ (dropper' = "stopped" <=> dropper = "stopped")
    BY <1>8 DEF IInv, LockInv, IdleReturns, dropperVars
  <2> QED BY <2>1, <1>8, Frame DEF IInv, LockInv, IdleReturns, callVars, dropperVars, resourceVars
<1> QED BY <1>1, <1>2, <1>3, <1>4, <1>5, <1>6, <1>7, <1>8 DEF Runtime

-----------------------------------------------------------------------------
(* The steps that move resources.                                            *)

\* A call begins: its owned parameter leaves the host, a stop signal is queued.
LEMMA StartCallStep ==
    ASSUME IInv, NEW s \in Ids \cup {NoId}, NEW o \in Ids \cup {NoId}, StartCall(s, o)
    PROVE  IInv'
<1> USE DEF Ids, NoId
<1>1. /\ export = "none" /\ export' = "called" /\ dropper' = "waiting"
      /\ s # NoId => handles[s] > (IF o = s THEN 1 ELSE 0)
      /\ o # NoId => handles[o] > 0
      /\ handles' = [i \in Ids |-> IF i = o THEN handles[i] - 1 ELSE handles[i]]
      /\ dropQueue' = Append(dropQueue, NoId)
      /\ self' = s /\ own' = o /\ result' = NoId /\ dropping' = NoId
      /\ UNCHANGED <<lastResourceId, table, keyed, again, lock, refed, unrefed, sentinel, trapped>>
  BY DEF StartCall, StartCallOn, taskVars
<1>2. /\ TypeOK /\ handles \in [Ids -> Nat] /\ dropQueue \in Seq(Ids \cup {NoId})
      /\ dropper = "stopped" /\ ~Occurs(dropQueue, NoId) /\ OccursOnce(dropQueue, NoId)
  BY <1>1 DEF IInv, TypeOK, CallInv
<1>3. /\ dropQueue' \in Seq(Ids \cup {NoId})
      /\ \A i : Occurs(dropQueue', i) <=> Occurs(dropQueue, i) \/ i = NoId
      /\ \A i : OccursOnce(dropQueue, i) /\ (i = NoId => ~Occurs(dropQueue, i))
                    => OccursOnce(dropQueue', i)
  <2> NoId \in Ids \cup {NoId}
    OBVIOUS
  <2> HIDE DEF Ids, NoId
  <2> QED BY <1>1, <1>2, AppendOccurs
<1>4. handles' \in [Ids -> Nat]
  <2>1. \A i \in Ids : handles'[i] \in Nat
    BY <1>1, <1>2
  <2> QED BY <1>1, <2>1
<1>5. TypeOK'
  <2>1. initPhase' = "FullyInitialized" /\ env' \in {"none", "build", "host"}
    BY <1>2 DEF StartCall, StartCallOn, GetJsState, TypeOK
  <2>2. due' \subseteq Ids
    BY DEF StartCall, StartCallOn
  <2> HIDE DEF Ids, NoId
  <2> QED BY <1>1, <1>2, <1>3, <1>4, <2>1, <2>2 DEF TypeOK
<1>6. CallInv'
  <2>1. self' \in Ids => handles'[self'] > 0
    BY <1>1, <1>2
  <2> HIDE DEF Ids
  <2> QED BY <1>1, <1>2, <1>3, <2>1 DEF CallInv
<1>7. LockInv'
  BY <1>1, <1>2 DEF IInv, LockInv
<1>8. ASSUME NEW i \in Ids \ again' PROVE PlaceInv(i)'
  <2>1. PlaceInv(i)
    BY <1>1, <1>8 DEF IInv
  <2>2. /\ handles'[i] = IF i = o THEN handles[i] - 1 ELSE handles[i]
        /\ i # NoId
    BY <1>1, <1>8
  <2>3. /\ ~InFlight(i)' /\ ~InFlight(i) /\ ~Passed(i) /\ (Passed(i)' <=> i = o)
        /\ ~Removing(i)' /\ ~Removing(i)
        /\ i = o => handles[i] > 0
        /\ Occurs(dropQueue', i) <=> Occurs(dropQueue, i)
    BY <1>1, <1>2, <1>3, <1>8 DEF InFlight, Passed, Removing
  <2>4. OccursOnce(dropQueue', i)
    BY <1>3, <2>1, <2>2 DEF PlaceInv
  <2>5. lastResourceId' = lastResourceId /\ table' = table
    BY <1>1
  <2> HIDE DEF Ids, NoId
  <2>6. CASE i = o
    BY <2>1, <2>2, <2>3, <2>4, <2>5, <2>6 DEF PlaceInv
  <2>7. CASE i # o
    BY <2>1, <2>2, <2>3, <2>4, <2>5, <2>7 DEF PlaceInv
  <2> QED BY <2>6, <2>7
<1> QED BY <1>5, <1>6, <1>7, <1>8 DEF IInv

\* The function reads its parameters; the owned one's handle is dropped.  In
\* the same turn a constructor stores its object under a fresh id.
LEMMA CallStep ==
    ASSUME IInv, CallFunction \/ CallConstructor
    PROVE  IInv'
<1>1. /\ export = "called" /\ lock = "free"
      /\ ParametersFound
      /\ DropOwnParameter
      /\ refed' \in refed .. MaxTasks /\ unrefed' \in {unrefed, TRUE} /\ sentinel' = sentinel
      /\ export' \in {"awaiting", "draining"}
      /\ UNCHANGED <<initPhase, env, handles, self, own, due, again, dropper, dropping, lock, trapped>>
  BY DEF CallFunction, CallConstructor, StartsWork, initVars, resourceVars, dropperVars
<1>2. \/ export' = "awaiting" /\ UNCHANGED <<lastResourceId, table, keyed, result>>
      \/ /\ export' = "draining"
         /\ result' = lastResourceId /\ lastResourceId \leq MaxId
         /\ lastResourceId' = lastResourceId + 1
         /\ table' = table \cup {lastResourceId} /\ keyed' = keyed \cup {lastResourceId}
  BY DEF CallFunction, CallConstructor, resourceVars, GetFreeResourceId
<1>3. /\ TypeOK /\ handles \in [Ids -> Nat] /\ dropQueue \in Seq(Ids \cup {NoId})
      /\ result = NoId /\ lastResourceId \in 1 .. MaxId + 1 /\ own \in Ids \cup {NoId}
      /\ refed \in 0 .. MaxTasks /\ MaxTasks \in Nat /\ MaxId \in Nat
      /\ own \in Ids => own \in table
  BY <1>1, ExportsAssumption DEF IInv, TypeOK, CallInv, ExportsAssumption, ParametersFound, Ids, NoId
<1>4. own \in Ids \ again => Passed(own) /\ PlaceInv(own)
  BY <1>1 DEF IInv, Passed
<1>5. /\ dropQueue' \in Seq(Ids \cup {NoId})
      /\ \A i : Occurs(dropQueue', i) <=> Occurs(dropQueue, i) \/ (i = own /\ own # NoId)
      /\ \A i : OccursOnce(dropQueue, i) /\ (i = own => ~Occurs(dropQueue, i))
                    => OccursOnce(dropQueue', i)
      /\ OccursOnce(dropQueue, NoId) => OccursOnce(dropQueue', NoId)
  <2>1. CASE own = NoId
    BY <1>1, <1>3, <2>1 DEF DropOwnParameter
  <2>2. CASE own # NoId
    BY <1>1, <1>3, <2>2, AppendOccurs DEF DropOwnParameter
  <2> QED BY <2>1, <2>2
<1>6. TypeOK'
  <2>1. refed' \in 0 .. MaxTasks
    BY <1>1, <1>3
  <2>2. unrefed' \in BOOLEAN
    <3>1. unrefed \in BOOLEAN
      BY <1>3 DEF TypeOK
    <3> QED BY <1>1, <3>1, Zenon
  <2>3. /\ lastResourceId' \in 1 .. MaxId + 1 /\ table' \subseteq Ids /\ keyed' \subseteq Ids
        /\ result' \in Ids \cup {NoId}
    <3>1. /\ table \subseteq Ids /\ keyed \subseteq Ids /\ result \in Ids \cup {NoId}
          /\ lastResourceId \leq MaxId => lastResourceId \in Ids
      BY <1>3 DEF TypeOK, Ids
    <3> QED BY <1>2, <1>3, <3>1
  <2> QED BY <1>1, <1>3, <1>5, <2>1, <2>2, <2>3 DEF TypeOK
<1>7. CallInv'
  <2>1. own # NoId => own \in Ids
    BY <1>3
  <2> QED BY <1>1, <1>2, <1>3, <1>5, <2>1 DEF IInv, CallInv
<1>8. LockInv'
  BY <1>1 DEF IInv, LockInv
<1>9. ASSUME NEW i \in Ids \ again' PROVE PlaceInv(i)'
  <2>1. PlaceInv(i) /\ i \in Int /\ i # NoId /\ handles'[i] = handles[i]
    BY <1>1, <1>9 DEF IInv, Ids, NoId
  <2>2. /\ ~Passed(i)' /\ (Passed(i) <=> i = own) /\ ~InFlight(i)
        /\ (Removing(i)' <=> Removing(i))
        /\ (Occurs(dropQueue', i) <=> Occurs(dropQueue, i) \/ i = own)
    BY <1>1, <1>3, <1>5, <2>1 DEF Passed, InFlight, Removing
  <2>3. OccursOnce(dropQueue', i)
    BY <1>5, <2>1, <2>2 DEF PlaceInv
  <2>4. CASE UNCHANGED <<lastResourceId, table, keyed, result>>
    <3>1. ~InFlight(i)'
      BY <1>3, <2>1, <2>4 DEF InFlight
    <3> QED BY <2>1, <2>2, <2>3, <2>4, <3>1 DEF PlaceInv
  <2>5. CASE /\ result' = lastResourceId /\ lastResourceId \leq MaxId
             /\ lastResourceId' = lastResourceId + 1
             /\ table' = table \cup {lastResourceId} /\ keyed' = keyed \cup {lastResourceId}
    <3>1. InFlight(i)' <=> i = lastResourceId
      BY <1>1, <2>5 DEF InFlight
    <3> QED BY <1>3, <2>1, <2>2, <2>3, <2>5, <3>1 DEF PlaceInv
  <2> QED BY <1>2, <2>4, <2>5
<1> QED BY <1>6, <1>7, <1>8, <1>9 DEF IInv

\* The call's value becomes a resource under a fresh id.
LEMMA ReturnsNewStep == IInv /\ ReturnsNewResource => IInv'
<1> SUFFICES ASSUME IInv, ReturnsNewResource PROVE IInv'
  OBVIOUS
<1>1. /\ export = "awaiting" /\ lock = "free" /\ export' = "draining"
      /\ result' = lastResourceId /\ lastResourceId \leq MaxId
      /\ lastResourceId' = lastResourceId + 1
      /\ table' = table \cup {lastResourceId}
      /\ UNCHANGED <<initPhase, env, keyed, handles, dropQueue, self, own, due, again,
                     dropper, dropping, lock, refed, unrefed, sentinel, trapped>>
  BY DEF ReturnsNewResource, GetFreeResourceId, initVars, dropperVars, taskVars
<1>2. TypeOK /\ lastResourceId \in 1 .. MaxId + 1 /\ MaxId \in Nat
  BY ExportsAssumption DEF IInv, TypeOK, ExportsAssumption
<1>3. TypeOK'
  <2>1. lastResourceId' \in 1 .. MaxId + 1 /\ lastResourceId \in Ids
    BY <1>1, <1>2 DEF Ids
  <2> QED BY <1>1, <1>2, <2>1 DEF TypeOK
<1>4. CallInv'
  BY <1>1 DEF IInv, CallInv, Occurs, OccursOnce
<1>5. LockInv'
  BY <1>1 DEF IInv, LockInv
<1>6. ASSUME NEW i \in Ids \ again' PROVE PlaceInv(i)'
  <2>1. PlaceInv(i) /\ i \in Int
    BY <1>1, <1>6 DEF IInv, Ids
  <2>2. /\ ~Passed(i)' /\ ~Passed(i) /\ (InFlight(i)' <=> i = lastResourceId)
        /\ (Removing(i)' <=> Removing(i))
    BY <1>1 DEF Passed, InFlight, Removing
  <2>3. ~InFlight(i)
    BY <1>1, <1>6 DEF IInv, CallInv, InFlight, Ids, NoId
  <2> QED BY <1>1, <1>2, <2>1, <2>2, <2>3 DEF PlaceInv, Occurs, OccursOnce
<1> QED BY <1>3, <1>4, <1>5, <1>6 DEF IInv

\* A resource returned a second time leaves the invariant's care.
LEMMA ReturnsRegisteredStep ==
    ASSUME IInv, NEW r \in Ids, ReturnsRegisteredResource(r)
    PROVE  IInv'
<1>1. /\ export = "awaiting" /\ lock = "free" /\ export' = "draining"
      /\ result' = r /\ again' = again \cup {r}
      /\ UNCHANGED <<initPhase, env, lastResourceId, table, keyed, handles, dropQueue, self, own,
                     due, dropper, dropping, lock, refed, unrefed, sentinel, trapped>>
  BY DEF ReturnsRegisteredResource, initVars, resourceVars, dropperVars, taskVars
<1>2. TypeOK'
  BY <1>1 DEF IInv, TypeOK
<1>3. CallInv'
  BY <1>1 DEF IInv, CallInv, Occurs, OccursOnce
<1>4. LockInv'
  BY <1>1 DEF IInv, LockInv
<1>5. ASSUME NEW i \in Ids \ again' PROVE PlaceInv(i)'
  <2>1. PlaceInv(i) /\ i # r
    BY <1>1, <1>5 DEF IInv
  <2>2. ~Passed(i)' /\ ~Passed(i) /\ ~InFlight(i)' /\ (Removing(i)' <=> Removing(i))
    BY <1>1, <2>1 DEF Passed, InFlight, Removing
  <2>3. ~InFlight(i)
    BY <1>1, <1>5 DEF IInv, CallInv, InFlight, Ids, NoId
  <2> QED BY <1>1, <2>1, <2>2, <2>3 DEF PlaceInv, Occurs, OccursOnce
<1> QED BY <1>2, <1>3, <1>4, <1>5 DEF IInv

\* The dropper takes an id, or the stop signal, off the queue.
LEMMA DropperNextStep == IInv /\ DropperNext => IInv'
<1> SUFFICES ASSUME IInv, DropperNext PROVE IInv'
  OBVIOUS
<1>1. /\ dropper = "waiting" /\ dropQueue # <<>>
      /\ dropQueue' = Tail(dropQueue) /\ dropping' = Head(dropQueue)
      /\ dropper' = IF Head(dropQueue) > 0 THEN "removing" ELSE "stopped"
      /\ UNCHANGED <<initPhase, env, lastResourceId, table, keyed, handles, export, self, own,
                     result, due, again, lock, refed, unrefed, sentinel, trapped>>
  BY DEF DropperNext, initVars, resourceVars, callVars, taskVars
<1>2. /\ dropQueue \in Seq(Ids \cup {NoId}) /\ OccursOnce(dropQueue, NoId)
      /\ export # "none" /\ lock # "dropper"
  BY <1>1 DEF IInv, TypeOK, CallInv, LockInv
<1>3. ASSUME NEW i
      PROVE  /\ dropQueue' \in Seq(Ids \cup {NoId}) /\ Head(dropQueue) \in Ids \cup {NoId}
             /\ Head(dropQueue) # i => (Occurs(dropQueue', i) <=> Occurs(dropQueue, i))
             /\ Occurs(dropQueue, Head(dropQueue))
             /\ OccursOnce(dropQueue, i) => OccursOnce(dropQueue', i)
             /\ OccursOnce(dropQueue, i) /\ Head(dropQueue) = i => ~Occurs(dropQueue', i)
  BY <1>1, <1>2, TailOccurs
<1>4. /\ Head(dropQueue) \in Ids => dropper' = "removing"
      /\ Head(dropQueue) = NoId => dropper' = "stopped"
      /\ Head(dropQueue) \in Ids => Head(dropQueue) # NoId
  BY <1>1 DEF Ids, NoId
<1>5. TypeOK'
  BY <1>1, <1>3 DEF IInv, TypeOK
<1>6. CallInv'
  <2>1. Occurs(dropQueue', NoId) <=> dropper' # "stopped"
    BY <1>1, <1>2, <1>3, <1>4 DEF IInv, CallInv
  <2> QED BY <1>1, <1>2, <1>3, <1>4, <2>1 DEF IInv, CallInv
<1>7. LockInv'
  BY <1>1, <1>2 DEF IInv, LockInv
<1>8. ASSUME NEW i \in Ids \ again' PROVE PlaceInv(i)'
  <2>1. PlaceInv(i) /\ OccursOnce(dropQueue, i) /\ i # NoId
    BY <1>1, <1>8 DEF IInv, PlaceInv, Ids, NoId
  <2>2. (Passed(i)' <=> Passed(i)) /\ (InFlight(i)' <=> InFlight(i)) /\ ~Removing(i)
    BY <1>1 DEF Passed, InFlight, Removing
  <2>3. CASE Head(dropQueue) = i
    <3>1. Removing(i)' /\ Occurs(dropQueue, i) /\ ~Occurs(dropQueue', i) /\ OccursOnce(dropQueue', i)
      BY <1>1, <1>3, <1>4, <1>8, <2>1, <2>3 DEF Removing
    <3> QED BY <1>1, <2>1, <2>2, <3>1 DEF PlaceInv
  <2>4. CASE Head(dropQueue) # i
    <3>1. ~Removing(i)' /\ (Occurs(dropQueue, i) <=> Occurs(dropQueue', i)) /\ OccursOnce(dropQueue', i)
      BY <1>1, <1>3, <2>1, <2>4 DEF Removing
    <3> QED BY <1>1, <2>1, <2>2, <3>1 DEF PlaceInv
  <2> QED BY <2>3, <2>4
<1> QED BY <1>5, <1>6, <1>7, <1>8 DEF IInv

LEMMA DropperRemovesStep == IInv /\ DropperRemoves => IInv'
<1> SUFFICES ASSUME IInv, DropperRemoves PROVE IInv'
  OBVIOUS
<1>1. /\ dropper = "removing" /\ lock = "free" /\ dropper' = "idling"
      /\ table' = table \ {dropping}
      /\ UNCHANGED <<initPhase, env, lastResourceId, keyed, handles, dropQueue, export, self, own,
                     result, due, again, dropping, lock, refed, unrefed, sentinel, trapped>>
  BY DEF DropperRemoves, initVars, callVars, taskVars
<1>2. TypeOK'
  BY <1>1 DEF IInv, TypeOK
<1>3. CallInv'
  BY <1>1 DEF IInv, CallInv, Occurs, OccursOnce
<1>4. LockInv'
  BY <1>1 DEF IInv, LockInv
<1>5. ASSUME NEW i \in Ids \ again' PROVE PlaceInv(i)'
  <2>1. PlaceInv(i)
    BY <1>1, <1>5 DEF IInv
  <2>2. /\ (Passed(i)' <=> Passed(i)) /\ (InFlight(i)' <=> InFlight(i)) /\ ~Removing(i)'
        /\ (Removing(i) <=> dropping = i)
        /\ i \in table' <=> i \in table /\ ~Removing(i)
    BY <1>1 DEF Passed, InFlight, Removing
  <2> QED BY <1>1, <2>1, <2>2 DEF PlaceInv, Occurs, OccursOnce
<1> QED BY <1>2, <1>3, <1>4, <1>5 DEF IInv

\* The result's handle passes to the host.
LEMMA CallReturnsStep == IInv /\ CallReturns => IInv'
<1> SUFFICES ASSUME IInv, CallReturns PROVE IInv'
  OBVIOUS
<1>1. /\ export = "returned" /\ dropper = "stopped" /\ export' = "none"
      /\ handles' = [i \in Ids |-> IF i = result THEN handles[i] + 1 ELSE handles[i]]
      /\ UNCHANGED <<initPhase, env, lastResourceId, table, keyed, dropQueue, self, own,
                     result, due, again, dropper, dropping, lock, refed, unrefed, sentinel, trapped>>
  BY DEF CallReturns, initVars, dropperVars, taskVars
<1>2. handles \in [Ids -> Nat] /\ handles' \in [Ids -> Nat]
  BY <1>1 DEF IInv, TypeOK
<1>3. TypeOK'
  BY <1>1, <1>2 DEF IInv, TypeOK
<1>4. CallInv'
  BY <1>1 DEF IInv, CallInv, Occurs, OccursOnce
<1>5. LockInv'
  BY <1>1 DEF IInv, LockInv
<1>6. ASSUME NEW i \in Ids \ again' PROVE PlaceInv(i)'
  <2>1. PlaceInv(i)
    BY <1>1, <1>6 DEF IInv
  <2>2. /\ ~Passed(i)' /\ ~Passed(i) /\ ~InFlight(i)' /\ (InFlight(i) <=> result = i)
        /\ (Removing(i)' <=> Removing(i))
        /\ handles'[i] = IF InFlight(i) THEN handles[i] + 1 ELSE handles[i]
    BY <1>1, <1>6 DEF Passed, InFlight, Removing
  <2>3. UNCHANGED <<lastResourceId, table, dropQueue>>
    BY <1>1
  <2> QED BY <2>1, <2>2, <2>3 DEF PlaceInv, Occurs, OccursOnce
<1> QED BY <1>3, <1>4, <1>5, <1>6 DEF IInv

\* The host lets a handle go.
LEMMA HostDropsStep ==
    ASSUME IInv, NEW r \in Ids, HostDrops(r)
    PROVE  IInv'
<1>1. /\ export = "none" /\ handles[r] > 0
      /\ handles' = [handles EXCEPT ![r] = @ - 1]
      /\ dropQueue' = Append(dropQueue, r)
      /\ UNCHANGED <<initPhase, env, lastResourceId, table, keyed, export, self, own, result, due,
                     again, dropper, dropping, lock, refed, unrefed, sentinel, trapped>>
  BY DEF HostDrops, initVars, callVars, dropperVars, taskVars
<1>2. /\ handles \in [Ids -> Nat] /\ dropQueue \in Seq(Ids \cup {NoId})
      /\ r # NoId /\ dropper = "stopped"
  BY <1>1 DEF IInv, TypeOK, CallInv, Ids, NoId
<1>3. \A i : /\ dropQueue' \in Seq(Ids \cup {NoId})
             /\ Occurs(dropQueue', i) <=> Occurs(dropQueue, i) \/ i = r
             /\ OccursOnce(dropQueue, i) /\ (i = r => ~Occurs(dropQueue, i))
                    => OccursOnce(dropQueue', i)
  BY <1>1, <1>2, AppendOccurs
<1>4. TypeOK'
  <2>1. handles' \in [Ids -> Nat]
    BY <1>1, <1>2
  <2> QED BY <1>1, <1>3, <2>1 DEF IInv, TypeOK
<1>5. CallInv'
  BY <1>1, <1>2, <1>3 DEF IInv, CallInv
<1>6. LockInv'
  BY <1>1 DEF IInv, LockInv
<1>7. ASSUME NEW i \in Ids \ again' PROVE PlaceInv(i)'
  <2>1. PlaceInv(i)
    BY <1>1, <1>7 DEF IInv
  <2>2. /\ ~Passed(i)' /\ ~Passed(i) /\ ~InFlight(i)' /\ ~InFlight(i)
        /\ ~Removing(i)' /\ ~Removing(i)
        /\ handles'[i] = IF i = r THEN handles[i] - 1 ELSE handles[i]
        /\ i = r => handles[i] > 0
    BY <1>1, <1>2, <1>7 DEF Passed, InFlight, Removing
  <2>3. UNCHANGED <<lastResourceId, table>>
    BY <1>1
  <2>4. OccursOnce(dropQueue', i) /\ (Occurs(dropQueue', i) <=> Occurs(dropQueue, i) \/ i = r)
    BY <1>3, <2>1, <2>2 DEF PlaceInv
  <2>5. CASE i = r
    BY <2>1, <2>2, <2>3, <2>4, <2>5 DEF PlaceInv
  <2>6. CASE i # r
    BY <2>1, <2>2, <2>3, <2>4, <2>6 DEF PlaceInv
  <2> QED BY <2>5, <2>6
<1> QED BY <1>4, <1>5, <1>6, <1>7 DEF IInv

-----------------------------------------------------------------------------
LEMMA NextIInv == IInv /\ [Next]_vars => IInv'
<1> SUFFICES ASSUME IInv, [Next]_vars PROVE IInv'
  OBVIOUS
<1>1. CASE Host
  BY <1>1, RuntimeStep, StartCallStep, HostDropsStep DEF Host
<1>2. CASE Export
  BY <1>2, RuntimeStep, CallStep, ReturnsNewStep, ReturnsRegisteredStep, CallReturnsStep DEF Export
<1>3. CASE Dropper
  BY <1>3, DropperNextStep, DropperRemovesStep DEF Dropper
<1>4. CASE Runtime
  BY <1>4, RuntimeStep
<1>5. CASE UNCHANGED vars
  <2>1. TypeOK' /\ LockInv'
    BY <1>5 DEF IInv, TypeOK, LockInv, vars, initVars, resourceVars, callVars, dropperVars, taskVars
  <2> QED BY <1>5, <2>1, Frame DEF IInv, vars, resourceVars, callVars, dropperVars
<1> QED BY <1>1, <1>2, <1>3, <1>4, <1>5 DEF Next

THEOREM ExportsInvariant == Spec => []IInv
BY InitIInv, NextIInv, PTL DEF Spec

\* What the host may still use is in the table, what it let go is there only
\* until the dropper has come by, and an id is dropped once.
THEOREM TableExact == Spec => []TableIsExact
<1>1. IInv => TableIsExact
  <2> SUFFICES ASSUME IInv, NEW i \in Ids \ again
               PROVE  (i \in table <=> Live(i) \/ Doomed(i)) /\ ~(Live(i) /\ Doomed(i))
    BY DEF TableIsExact
  <2>1. PlaceInv(i)
    BY DEF IInv
  <2>2. (Live(i) <=> handles[i] = 1 \/ InFlight(i) \/ Passed(i))
        /\ (Doomed(i) <=> Occurs(dropQueue, i) \/ Removing(i))
    BY <2>1 DEF Live, Doomed, PlaceInv, InFlight, Passed, Removing, Queued, Occurs
  <2> QED BY <2>1, <2>2 DEF PlaceInv
<1> QED BY <1>1, ExportsInvariant, PTL

\* No call fails for want of the object behind one of its parameters.
THEOREM ParametersFoundAlways == Spec => []ParametersAreFound
<1>1. IInv => ParametersAreFound
  <2> SUFFICES ASSUME IInv, export = "called", self \notin again, own \notin again
               PROVE  ParametersFound
    BY DEF ParametersAreFound
  <2>1. ASSUME own # NoId PROVE own \in table
    <3>1. own \in Ids \ again
      BY <2>1 DEF IInv, TypeOK
    <3> QED BY <3>1 DEF IInv, PlaceInv, Passed
  <2>2. ASSUME self # NoId PROVE self \in table
    <3>1. self \in Ids \ again /\ handles[self] > 0
      BY <2>2 DEF IInv, TypeOK, CallInv
    <3>2. PlaceInv(self)
      BY <3>1 DEF IInv
    <3> QED BY <3>1, <3>2 DEF PlaceInv
  <2> QED BY <2>1, <2>2 DEF ParametersFound
<1> QED BY <1>1, ExportsInvariant, PTL

\* Each call's stop signal is taken by that call's dropper.
THEOREM StopSignalsMatch == Spec => []StopSignals
<1>1. IInv => StopSignals
  BY DEF IInv, CallInv, StopSignals, Queued, Occurs
<1> QED BY <1>1, ExportsInvariant, PTL
-----------------------------------------------------------------------------
(* What a call finds when it begins, and what it leaves when it returns.     *)

\* An id that anybody knows of was given out earlier, so the object a call
\* stores under a fresh id is not one whose drop is due.
IdsAreGiven ==
    \A i \in Ids :
        \/ handles[i] > 0 \/ Occurs(dropQueue, i) \/ own = i \/ result = i
        \/ i \in due \/ i \in keyed
        => i < lastResourceId

BeforeStop(q, i) == \E n \in 1 .. Len(q) : q[n] = i /\ \A m \in 1 .. n : q[m] # NoId

\* Of the drops that were due when the call began, those that are not done yet
\* are the dropper's next work, ahead of the stop signal.
DropsAreDue ==
    \A i \in due \cap table :
        dropper # "stopped" /\ (Removing(i) \/ BeforeStop(dropQueue, i))

\* Every way into a call passes get_js_state.
HostIsSeen ==
    /\ export # "none" => initPhase = "FullyInitialized"
    /\ initPhase = "FullyInitialized" => env = "host"

CleanInv == IdsAreGiven /\ DropsAreDue /\ HostIsSeen

LEMMA InitCleanInv == Init => CleanInv
<1> SUFFICES ASSUME Init PROVE CleanInv
  OBVIOUS
<1>1. \A i : ~Occurs(<<>>, i)
  BY DEF Occurs
<1>2. \A i \in Ids : handles[i] = 0 /\ i # NoId
  BY DEF Init, Ids, NoId
<1>3. IdsAreGiven
  BY <1>1, <1>2 DEF Init, IdsAreGiven
<1> QED BY <1>3 DEF Init, CleanInv, DropsAreDue, HostIsSeen

LEMMA IdsAreGivenStep == IInv /\ IdsAreGiven /\ [Next]_vars => IdsAreGiven'
<1> SUFFICES ASSUME IInv, IdsAreGiven, [Next]_vars PROVE IdsAreGiven'
  OBVIOUS
<1>0. /\ handles \in [Ids -> Nat] /\ dropQueue \in Seq(Ids \cup {NoId})
      /\ lastResourceId \in Nat /\ own \in Ids \cup {NoId} /\ NoId \notin Ids
      /\ \A i \in Ids : i \in Int
  BY ExportsAssumption DEF IInv, TypeOK, ExportsAssumption, Ids, NoId
<1>1. CASE Dropper
  <2>1. UNCHANGED <<handles, own, result, due, keyed, lastResourceId>>
    BY <1>1 DEF Dropper, DropperNext, DropperRemoves, resourceVars, callVars
  <2>2. ASSUME NEW i \in Ids PROVE Occurs(dropQueue', i) => Occurs(dropQueue, i)
    <3>1. CASE DropperNext
      <4>1. dropQueue # <<>> /\ dropQueue' = Tail(dropQueue)
        BY <3>1 DEF DropperNext
      <4>2. Occurs(Tail(dropQueue), i) => Occurs(dropQueue, i)
        BY <1>0, <4>1, TailOccurs
      <4> QED BY <4>1, <4>2
    <3>2. CASE DropperRemoves
      BY <3>2 DEF DropperRemoves
    <3> QED BY <1>1, <3>1, <3>2 DEF Dropper
  <2> QED BY <2>1, <2>2 DEF IdsAreGiven
<1>2. CASE CallFunction \/ CallConstructor
  <2>1. /\ UNCHANGED <<handles, own, due>> /\ export = "called"
        /\ DropOwnParameter
        /\ \/ UNCHANGED <<result, keyed, lastResourceId>>
           \/ /\ result' = lastResourceId /\ keyed' = keyed \cup {lastResourceId}
              /\ lastResourceId' = lastResourceId + 1
    BY <1>2 DEF CallFunction, CallConstructor, GetFreeResourceId, resourceVars
  <2>2. ASSUME NEW i \in Ids PROVE Occurs(dropQueue', i) => Occurs(dropQueue, i) \/ own = i
    BY <1>0, <2>1, AppendOccurs DEF DropOwnParameter
  <2> QED BY <1>0, <2>1, <2>2 DEF IdsAreGiven
<1>3. ASSUME NEW s \in Ids \cup {NoId}, NEW o \in Ids \cup {NoId}, StartCall(s, o)
      PROVE  IdsAreGiven'
  <2>1. /\ UNCHANGED <<lastResourceId, keyed>>
        /\ result' = NoId /\ own' = o /\ dropQueue' = Append(dropQueue, NoId)
        /\ due' = {i \in Ids : Occurs(dropQueue, i)}
        /\ \A i \in Ids : handles'[i] = IF i = o THEN handles[i] - 1 ELSE handles[i]
        /\ o # NoId => handles[o] > 0
    BY <1>3 DEF StartCall, StartCallOn, Queued, Occurs
  <2>2. ASSUME NEW i \in Ids PROVE Occurs(dropQueue', i) => Occurs(dropQueue, i)
    BY <1>0, <2>1, AppendOccurs
  <2>3. ASSUME NEW i \in Ids PROVE handles'[i] > 0 => handles[i] > 0
    BY <1>0, <2>1
  <2> QED BY <1>0, <2>1, <2>2, <2>3 DEF IdsAreGiven
<1>4. ASSUME NEW r \in Ids, HostDrops(r) PROVE IdsAreGiven'
  <2>1. /\ UNCHANGED <<lastResourceId, keyed, own, result, due>>
        /\ handles[r] > 0 /\ dropQueue' = Append(dropQueue, r)
        /\ \A i \in Ids : handles'[i] > 0 => handles[i] > 0
    BY <1>0, <1>4 DEF HostDrops, callVars
  <2>2. ASSUME NEW i \in Ids PROVE Occurs(dropQueue', i) => Occurs(dropQueue, i) \/ i = r
    BY <1>0, <2>1, AppendOccurs
  <2> QED BY <1>0, <2>1, <2>2 DEF IdsAreGiven
<1>5. CASE CallReturns
  <2>1. /\ UNCHANGED <<lastResourceId, keyed, own, result, due, dropQueue>>
        /\ \A i \in Ids : handles'[i] > 0 => handles[i] > 0 \/ result = i
    BY <1>5 DEF CallReturns
  <2> QED BY <1>0, <2>1 DEF IdsAreGiven
<1>6. CASE ReturnsNewResource
  <2>1. /\ UNCHANGED <<keyed, own, due, dropQueue, handles>>
        /\ result' = lastResourceId /\ lastResourceId' = lastResourceId + 1
    BY <1>6 DEF ReturnsNewResource, GetFreeResourceId
  <2> QED BY <1>0, <2>1 DEF IdsAreGiven
<1>7. ASSUME NEW r \in Ids, ReturnsRegisteredResource(r) PROVE IdsAreGiven'
  BY <1>7 DEF ReturnsRegisteredResource, resourceVars, IdsAreGiven
<1>8. CASE UNCHANGED <<handles, own, result, due, keyed, lastResourceId, dropQueue>>
  BY <1>8 DEF IdsAreGiven
<1> QED BY <1>1, <1>2, <1>3, <1>4, <1>5, <1>6, <1>7, <1>8
        DEF Next, Host, Export, Runtime, WizerInitialize, ParameterMissing, ExportThrows,
        ReturnsValue, DrainStarts, IdleStarts, IdleReturns, TaskEnds, SentinelAborts, vars,
        resourceVars, callVars

\* What is appended goes behind what is there.
LEMMA AppendBeforeStop ==
    ASSUME NEW T, NEW q \in Seq(T), NEW x \in T, NEW i, BeforeStop(q, i)
    PROVE  BeforeStop(Append(q, x), i)
<1>1. /\ Len(Append(q, x)) = Len(q) + 1 /\ Len(q) \in Nat
      /\ \A n \in 1 .. Len(q) : Append(q, x)[n] = q[n]
  OBVIOUS
<1> QED BY <1>1 DEF BeforeStop

\* The dropper takes the first element: it is the one due, or the one due
\* moves up.
LEMMA TailBeforeStop ==
    ASSUME NEW T, NEW q \in Seq(T), q # <<>>, NEW i, BeforeStop(q, i)
    PROVE  /\ Head(q) # NoId
           /\ Head(q) = i \/ BeforeStop(Tail(q), i)
<1> DEFINE t == Tail(q)
<1>1. /\ Len(q) \in Nat /\ Len(t) = Len(q) - 1 /\ q[1] = Head(q)
      /\ \A n \in 1 .. Len(t) : t[n] = q[n + 1]
  OBVIOUS
<1> HIDE DEF t
<1>2. PICK n \in 1 .. Len(q) : q[n] = i /\ \A m \in 1 .. n : q[m] # NoId
  BY DEF BeforeStop
<1>3. Head(q) # NoId
  BY <1>1, <1>2
<1>4. CASE n = 1
  BY <1>1, <1>2, <1>3, <1>4
<1>5. CASE n # 1
  <2>1. n - 1 \in 1 .. Len(t) /\ t[n - 1] = i
    BY <1>1, <1>2, <1>5
  <2>2. \A m \in 1 .. n - 1 : m \in 1 .. Len(t) /\ m + 1 \in 1 .. n
    BY <1>1, <1>2, <2>1
  <2> QED BY <1>1, <1>2, <1>3, <2>1, <2>2 DEF BeforeStop, t
<1> QED BY <1>4, <1>5

\* An object that joins the table was not due to leave it.
LEMMA DropsAreDueStep ==
    ASSUME IInv, IdsAreGiven, DropsAreDue, [Next]_vars
    PROVE  DropsAreDue'
<1>0. /\ dropQueue \in Seq(Ids \cup {NoId}) /\ due \subseteq Ids /\ table \subseteq Ids
      /\ own \in Ids \cup {NoId} /\ NoId \notin Ids
      /\ \A i \in due : i \in Int /\ i < lastResourceId
      /\ lastResourceId \in Nat
  BY ExportsAssumption DEF IInv, TypeOK, IdsAreGiven, ExportsAssumption, Ids, NoId
<1>1. ASSUME NEW s \in Ids \cup {NoId}, NEW o \in Ids \cup {NoId}, StartCall(s, o)
      PROVE  DropsAreDue'
  <2>1. /\ dropper' = "waiting" /\ export = "none"
        /\ due' = {i \in Ids : Occurs(dropQueue, i)} /\ dropQueue' = Append(dropQueue, NoId)
    BY <1>1 DEF StartCall, StartCallOn, Queued, Occurs
  <2>2. ~Occurs(dropQueue, NoId)
    BY <2>1 DEF IInv, CallInv
  <2>3. ASSUME NEW i \in due' PROVE BeforeStop(dropQueue', i)
    <3>1. BeforeStop(dropQueue, i)
      BY <1>0, <2>1, <2>2, <2>3 DEF Occurs, BeforeStop
    <3> QED BY <1>0, <2>1, <3>1, AppendBeforeStop
  <2> QED BY <2>1, <2>3 DEF DropsAreDue
<1>2. CASE DropperNext
  <2>1. /\ dropper = "waiting" /\ dropQueue # <<>>
        /\ dropQueue' = Tail(dropQueue) /\ dropping' = Head(dropQueue)
        /\ dropper' = IF Head(dropQueue) > 0 THEN "removing" ELSE "stopped"
        /\ UNCHANGED <<due, table>>
    BY <1>2 DEF DropperNext, callVars, resourceVars
  <2>2. ASSUME NEW i \in due \cap table
        PROVE  dropper' # "stopped" /\ (Removing(i)' \/ BeforeStop(dropQueue', i))
    <3>1. BeforeStop(dropQueue, i)
      BY <2>1, <2>2 DEF DropsAreDue, Removing
    <3>2. Head(dropQueue) # NoId /\ (Head(dropQueue) = i \/ BeforeStop(Tail(dropQueue), i))
      BY <1>0, <2>1, <3>1, TailBeforeStop
    <3>3. Head(dropQueue) \in Ids \cup {NoId}
      BY <1>0, <2>1, TailOccurs
    <3>4. dropper' = "removing"
      BY <2>1, <3>2, <3>3 DEF Ids, NoId
    <3> QED BY <2>1, <3>2, <3>4 DEF Removing
  <2> QED BY <2>1, <2>2 DEF DropsAreDue
<1>3. CASE DropperRemoves
  <2>1. /\ dropper = "removing" /\ dropper' = "idling" /\ table' = table \ {dropping}
        /\ UNCHANGED <<due, dropQueue>>
    BY <1>3 DEF DropperRemoves, callVars
  <2> QED BY <2>1 DEF DropsAreDue, Removing, BeforeStop
<1>4. CASE CallFunction \/ CallConstructor
  <2>1. /\ UNCHANGED <<due, dropper, dropping>>
        /\ DropOwnParameter
        /\ table' \subseteq table \cup {lastResourceId}
    BY <1>4 DEF CallFunction, CallConstructor, GetFreeResourceId, resourceVars, dropperVars
  <2>2. ASSUME NEW i, BeforeStop(dropQueue, i) PROVE BeforeStop(dropQueue', i)
    BY <1>0, <2>1, <2>2, AppendBeforeStop DEF DropOwnParameter
  <2>3. due' \cap table' \subseteq due \cap table
    BY <1>0, <2>1
  <2> QED BY <2>1, <2>2, <2>3 DEF DropsAreDue, Removing
<1>5. CASE ReturnsNewResource
  <2>1. /\ UNCHANGED <<due, dropper, dropping, dropQueue>>
        /\ table' = table \cup {lastResourceId}
    BY <1>5 DEF ReturnsNewResource, GetFreeResourceId, dropperVars
  <2>2. due' \cap table' \subseteq due \cap table
    BY <1>0, <2>1
  <2> QED BY <2>1, <2>2 DEF DropsAreDue, Removing, BeforeStop
<1>6. ASSUME NEW r \in Ids, HostDrops(r) PROVE DropsAreDue'
  BY <1>6 DEF HostDrops, callVars, dropperVars, IInv, CallInv, DropsAreDue
<1>7. CASE IdleReturns
  BY <1>7 DEF IdleReturns, IInv, LockInv, callVars, dropperVars, resourceVars, DropsAreDue, Removing,
     BeforeStop
<1>8. CASE UNCHANGED <<due, table, dropper, dropping, dropQueue>>
  BY <1>8 DEF DropsAreDue, Removing, BeforeStop
<1> QED BY <1>1, <1>2, <1>3, <1>4, <1>5, <1>6, <1>7, <1>8
        DEF Next, Host, Export, Dropper, Runtime, WizerInitialize, ParameterMissing, ExportThrows,
        ReturnsValue, ReturnsRegisteredResource, DrainStarts, CallReturns, IdleStarts, TaskEnds,
        SentinelAborts, vars, resourceVars, callVars, dropperVars

LEMMA HostIsSeenStep == IInv /\ HostIsSeen /\ [Next]_vars => HostIsSeen'
<1> SUFFICES ASSUME IInv, HostIsSeen, [Next]_vars PROVE HostIsSeen'
  OBVIOUS
<1>1. CASE WizerInitialize
  BY <1>1 DEF HostIsSeen, WizerInitialize, callVars
<1>2. ASSUME NEW s, NEW o, StartCall(s, o) PROVE HostIsSeen'
  BY <1>2 DEF HostIsSeen, StartCall, StartCallOn, GetJsState
<1>3. CASE UNCHANGED initVars /\ (export = "none" => export' = "none")
  BY <1>3 DEF HostIsSeen, initVars
<1>4. CASE Export
  BY <1>3, <1>4 DEF Export, CallFunction, CallConstructor, ParameterMissing, ExportThrows,
     ReturnsValue, ReturnsNewResource, ReturnsRegisteredResource, DrainStarts, CallReturns, callVars
<1>5. CASE Dropper \/ Runtime \/ (\E i \in Ids : HostDrops(i)) \/ UNCHANGED vars
  <2>1. lock = "export" => export = "idling"
    BY DEF IInv, LockInv
  <2> QED BY <1>3, <1>5, <2>1 DEF Dropper, DropperNext, DropperRemoves, Runtime, IdleStarts,
          IdleReturns, TaskEnds, SentinelAborts, HostDrops, vars, callVars
<1> QED BY <1>1, <1>2, <1>4, <1>5 DEF Next, Host

\* When a call has returned the drops that were queued before it are carried
\* out, also those of resources that were returned more than once, and no
\* exported function ever runs with the environment of the build.
THEOREM CallsAreCleanAlways == Spec => []CallsAreClean
<1>1. IInv /\ CleanInv /\ [Next]_vars => CleanInv'
  BY IdsAreGivenStep, DropsAreDueStep, HostIsSeenStep DEF CleanInv
<1>2. IInv /\ CleanInv => CallsAreClean
  BY DEF IInv, CallInv, CleanInv, DropsAreDue, HostIsSeen, CallsAreClean, DueDropsAreDone,
     ExportSeesHost
<1> QED BY InitCleanInv, <1>1, <1>2, ExportsInvariant, PTL DEF Spec

-----------------------------------------------------------------------------
(* What is in the queue, and what runs. *)

PortJobs ==
    {Queue!DrainOf(p) : p \in Queue!Ports} \cup {Queue!CloseOf(p, both) : p \in Queue!Ports, both \in BOOLEAN}
        \cup {Queue!ProxyDrainOf(p) : p \in Queue!Ports} \cup {Queue!ProxyCloseOf(p) : p \in Queue!Ports}
RejectionJobs == {Queue!FirstOf(r) : r \in Promises} \cup {Queue!SecondOf(r) : r \in Promises}
Jobs == PortJobs \cup RejectionJobs \cup {Queue!ProgramJob(i) : i \in ProgramJobs}

Running ==
    {Queue!NoJob, Queue!Turn} \cup {Queue!ProgramJob(i) : i \in ProgramJobs}
        \cup {Queue!MessageOf(p) : p \in Queue!Ports}
        \cup {Queue!ClosedOf(p, both) : p \in Queue!Ports, both \in BOOLEAN}
        \cup {Queue!ErrorOf(p) : p \in Queue!Ports} \cup {Queue!UnhandledOf(r) : r \in Promises}

QueueTypeOK == jobs \in Seq(Jobs) /\ running \in Running

\* The job e closes port p.
Closes(e, p) == e.what = "close" /\ (e.of = p \/ e.both)

Has(q, e) == \E k \in 1 .. Len(q) : q[k] = e
HasClose(q, p) == \E k \in 1 .. Len(q) : Closes(q[k], p)

\* One drain of port p is in the queue q at most, one close, and the drain comes first.
DrainsBeforeCloses(q, p) ==
    \A i, j \in 1 .. Len(q) :
        /\ q[i] = Queue!DrainOf(p) /\ q[j] = Queue!DrainOf(p) => i = j
        /\ Closes(q[i], p) /\ Closes(q[j], p) => i = j
        /\ Closes(q[i], p) /\ q[j] = Queue!DrainOf(p) => j < i

\* A drain that is queued or runs is known as such, and there is one; only a listener that
\* throws ends it unknown to the port.
DrainInv ==
    \A p \in Queue!Ports :
        /\ posted[p] = handed[p] \o port[p].queue
        /\ port[p].queue # <<>> => port[p].draining
        /\ Has(jobs, Queue!DrainOf(p)) => port[p].draining /\ running # Queue!MessageOf(p)
        /\ running = Queue!MessageOf(p) => port[p].draining
        /\ port[p].draining /\ p \notin threw =>
               Has(jobs, Queue!DrainOf(p)) \/ running = Queue!MessageOf(p)

\* A port that is to close is shut and not closed yet, and so are two that close together;
\* one that closes alone is not connected to the other.
CloseInv ==
    /\ port[1].target = "peer" <=> port[2].target = "peer"
    /\ \A p \in Queue!Ports :
        /\ DrainsBeforeCloses(jobs, p)
        /\ port[p].closed => port[p].pendingClose
        /\ HasClose(jobs, p) => port[p].pendingClose /\ ~port[p].closed
        /\ Has(jobs, Queue!CloseOf(p, FALSE)) => port[p].target # "peer"
        /\ port[p].pendingClose /\ port[p].target = "peer" => port[Queue!Other(p)].pendingClose
        /\ ~port[p].closed => closes[p] = 0
        /\ closes[p] <= 1
        /\ running = Queue!ClosedOf(Queue!Other(p), TRUE) => closes[p] = 0 /\ port[p].closed
        /\ port[p].closed /\ p \notin threw => port[p].queue = <<>> /\ ~port[p].draining

PortsInv == QueueTypeOK /\ Queue!PortsTypeOK /\ DrainInv /\ CloseInv

\* Promise r has one microtask in the queue q, and the jobs of b are ahead of its second.
MicrotasksOf(q, r, b) ==
    \A i, j \in 1 .. Len(q) :
        /\ q[i] = Queue!FirstOf(r) => q[j] # Queue!SecondOf(r)
        /\ q[i] = Queue!FirstOf(r) /\ q[j] = Queue!FirstOf(r) => i = j
        /\ q[i] = Queue!SecondOf(r) => \A m \in b : q[j] = Queue!ProgramJob(m) => j < i

\* A promise has microtasks only once it was rejected, and the first of them tells which jobs
\* of the program are ahead.
RejectionsInv ==
    \A r \in Promises :
        /\ r \in pendingRejections => promise[r] = "rejected"
        /\ promise[r] = "pending" => ~Has(jobs, Queue!FirstOf(r)) /\ ~Has(jobs, Queue!SecondOf(r))
        /\ MicrotasksOf(jobs, r, before[r])

MicrotasksInv == PortsInv /\ Queue!RejectionsTypeOK /\ RejectionsInv

-----------------------------------------------------------------------------
(* Queues.                                                                    *)

LEMMA Tails ==
    ASSUME NEW S, NEW q \in Seq(S), q # <<>>
    PROVE  /\ Head(q) = q[1] /\ Head(q) \in S /\ 1 \in 1 .. Len(q)
           /\ Tail(q) \in Seq(S) /\ Len(Tail(q)) = Len(q) - 1 /\ Len(q) \in Nat
           /\ \A k \in 1 .. Len(Tail(q)) : Tail(q)[k] = q[k + 1] /\ k + 1 \in 1 .. Len(q)
           /\ \A k \in 1 .. Len(q) : k = 1 \/ (k - 1 \in 1 .. Len(Tail(q)) /\ q[k] = Tail(q)[k - 1])
  OBVIOUS

LEMMA Appends ==
    ASSUME NEW S, NEW q \in Seq(S), NEW e \in S
    PROVE  /\ Append(q, e) \in Seq(S) /\ Len(Append(q, e)) = Len(q) + 1 /\ Len(q) \in Nat
           /\ Append(q, e)[Len(q) + 1] = e
           /\ \A k \in 1 .. Len(q) : Append(q, e)[k] = q[k] /\ k \in 1 .. Len(q) + 1
           /\ \A k \in 1 .. Len(q) + 1 : k \in 1 .. Len(q) \/ k = Len(q) + 1
  OBVIOUS

LEMMA InQueue ==
    ASSUME NEW S, NEW q \in Seq(S), NEW e
    PROVE  e \in Queue!ToSet(q) <=> Has(q, e)
  BY DEF Queue!ToSet, Has

LEMMA HasTail ==
    ASSUME NEW S, NEW q \in Seq(S), q # <<>>, NEW e
    PROVE  /\ Has(Tail(q), e) => Has(q, e)
           /\ Has(q, e) => Head(q) = e \/ Has(Tail(q), e)
  <1> DEFINE t == Tail(q)
  <1>1. /\ Head(q) = q[1] /\ Len(t) = Len(q) - 1 /\ Len(q) \in Nat
        /\ \A k \in 1 .. Len(t) : t[k] = q[k + 1] /\ k + 1 \in 1 .. Len(q)
        /\ \A k \in 1 .. Len(q) : k = 1 \/ (k - 1 \in 1 .. Len(t) /\ q[k] = t[k - 1])
    BY Tails
  <1> HIDE DEF t
  <1>2. Has(t, e) => Has(q, e)
    BY <1>1 DEF Has
  <1>3. Has(q, e) => Head(q) = e \/ Has(t, e)
    BY <1>1 DEF Has
  <1> QED BY <1>2, <1>3 DEF t

LEMMA HasAppend ==
    ASSUME NEW S, NEW q \in Seq(S), NEW a \in S, NEW e
    PROVE  Has(Append(q, a), e) <=> Has(q, e) \/ a = e
  BY Appends DEF Has

(* The jobs that ports queue. *)

LEMMA Kinds ==
    /\ \A p \in Queue!Ports : /\ Queue!DrainOf(p) \in Jobs /\ Queue!ProxyDrainOf(p) \in Jobs /\ Queue!ProxyCloseOf(p) \in Jobs
                              /\ Queue!DrainOf(p).what = "drain" /\ Queue!DrainOf(p).of = p
                              /\ Queue!ProxyDrainOf(p).what = "proxyDrain" /\ Queue!ProxyCloseOf(p).what = "proxyClose"
    /\ \A p \in Queue!Ports, b \in BOOLEAN :
            /\ Queue!CloseOf(p, b) \in Jobs
            /\ Queue!CloseOf(p, b).what = "close" /\ Queue!CloseOf(p, b).of = p /\ Queue!CloseOf(p, b).both = b
    /\ \A r \in Promises : /\ Queue!FirstOf(r) \in Jobs /\ Queue!SecondOf(r) \in Jobs
                           /\ Queue!FirstOf(r).what = "first" /\ Queue!FirstOf(r).of = r
                           /\ Queue!SecondOf(r).what = "second" /\ Queue!SecondOf(r).of = r
    /\ \A i \in ProgramJobs : /\ Queue!ProgramJob(i) \in Jobs
                              /\ Queue!ProgramJob(i).what = "program" /\ Queue!ProgramJob(i).of = i
  <1>1. \A p \in Queue!Ports : Queue!DrainOf(p) \in Jobs /\ Queue!ProxyDrainOf(p) \in Jobs /\ Queue!ProxyCloseOf(p) \in Jobs
    BY DEF Jobs, PortJobs
  <1>2. \A p \in Queue!Ports, b \in BOOLEAN : Queue!CloseOf(p, b) \in Jobs
    BY DEF Jobs, PortJobs
  <1>3. /\ \A r \in Promises : Queue!FirstOf(r) \in Jobs /\ Queue!SecondOf(r) \in Jobs
        /\ \A i \in ProgramJobs : Queue!ProgramJob(i) \in Jobs
    BY DEF Jobs, RejectionJobs
  <1>4. \A p : /\ Queue!DrainOf(p).what = "drain" /\ Queue!DrainOf(p).of = p
               /\ Queue!ProxyDrainOf(p).what = "proxyDrain" /\ Queue!ProxyCloseOf(p).what = "proxyClose"
    BY DEF Queue!DrainOf, Queue!ProxyDrainOf, Queue!ProxyCloseOf
  <1>5. \A p, b : Queue!CloseOf(p, b).what = "close" /\ Queue!CloseOf(p, b).of = p /\ Queue!CloseOf(p, b).both = b
    BY DEF Queue!CloseOf
  <1>6. \A r : /\ Queue!FirstOf(r).what = "first" /\ Queue!FirstOf(r).of = r
               /\ Queue!SecondOf(r).what = "second" /\ Queue!SecondOf(r).of = r
               /\ Queue!ProgramJob(r).what = "program" /\ Queue!ProgramJob(r).of = r
    BY DEF Queue!FirstOf, Queue!SecondOf, Queue!ProgramJob
  <1> QED BY <1>1, <1>2, <1>3, <1>4, <1>5, <1>6

LEMMA Kinds2 ==
    /\ \A p : Queue!CloseOf(p, FALSE).what = "close" /\ Queue!CloseOf(p, FALSE).of = p /\ ~Queue!CloseOf(p, FALSE).both
    /\ \A p : Queue!CloseOf(p, TRUE).what = "close" /\ Queue!CloseOf(p, TRUE).of = p /\ Queue!CloseOf(p, TRUE).both
  BY DEF Queue!CloseOf

LEMMA JobOf ==
    ASSUME NEW e \in Jobs
    PROVE  /\ e.what = "drain" => e.of \in Queue!Ports /\ e = Queue!DrainOf(e.of)
           /\ e.what = "close" => e.of \in Queue!Ports /\ e.both \in BOOLEAN /\ e = Queue!CloseOf(e.of, e.both)
           /\ e.what = "proxyDrain" => e.of \in Queue!Ports
           /\ e.what = "first" => e.of \in Promises /\ e = Queue!FirstOf(e.of)
           /\ e.what = "second" => e.of \in Promises /\ e = Queue!SecondOf(e.of)
           /\ e.what = "program" => e.of \in ProgramJobs /\ e = Queue!ProgramJob(e.of)
  BY DEF Jobs, PortJobs, RejectionJobs, Queue!DrainOf, Queue!CloseOf, Queue!ProxyDrainOf,
     Queue!ProxyCloseOf, Queue!FirstOf, Queue!SecondOf, Queue!ProgramJob

LEMMA RunningOf ==
    ASSUME running \in Running
    PROVE  /\ running.what = "message" => running.of \in Queue!Ports /\ running = Queue!MessageOf(running.of)
           /\ running.what = "closed" => /\ running.of \in Queue!Ports /\ running.both \in BOOLEAN
                                         /\ running = Queue!ClosedOf(running.of, running.both)
           /\ running.what = "messageerror" => running.of \in Queue!Ports
  BY DEF Running, Queue!NoJob, Queue!Turn, Queue!ProgramJob, Queue!MessageOf, Queue!ClosedOf,
     Queue!ErrorOf, Queue!UnhandledOf

LEMMA Runs1 ==
    /\ Queue!NoJob \in Running /\ Queue!Turn \in Running
    /\ \A p \in Queue!Ports : Queue!MessageOf(p) \in Running /\ Queue!ErrorOf(p) \in Running
    /\ \A p \in Queue!Ports, b \in BOOLEAN : Queue!ClosedOf(p, b) \in Running
    /\ \A r \in Promises : Queue!UnhandledOf(r) \in Running
    /\ \A i \in ProgramJobs : Queue!ProgramJob(i) \in Running
  BY DEF Running

LEMMA Runs2 ==
    /\ Queue!NoJob.what = "none" /\ Queue!Turn.what = "turn"
    /\ \A p : /\ Queue!MessageOf(p).what = "message" /\ Queue!MessageOf(p).of = p
             /\ Queue!ErrorOf(p).what = "messageerror"
             /\ Queue!UnhandledOf(p).what = "unhandled" /\ Queue!ProgramJob(p).what = "program"
    /\ \A p, b : Queue!ClosedOf(p, b).what = "closed" /\ Queue!ClosedOf(p, b).of = p /\ Queue!ClosedOf(p, b).both = b
    /\ \A p : Queue!ClosedOf(p, TRUE).what = "closed"
  BY DEF Queue!NoJob, Queue!Turn, Queue!ProgramJob, Queue!MessageOf, Queue!ErrorOf,
     Queue!UnhandledOf, Queue!ClosedOf

LEMMA Runs3 ==
    ASSUME NEW p, NEW both \in BOOLEAN
    PROVE  \A q : /\ Queue!ClosedOf(p, both) # Queue!MessageOf(q)
                  /\ Queue!ClosedOf(p, both) = Queue!ClosedOf(q, TRUE) => p = q /\ both
  BY DEF Queue!ClosedOf, Queue!MessageOf

LEMMA OtherPort ==
    /\ \A p \in Queue!Ports : Queue!Other(p) \in Queue!Ports /\ Queue!Other(p) # p /\ Queue!Other(Queue!Other(p)) = p
    /\ \A p \in Queue!Ports, q \in Queue!Ports : q = p \/ q = Queue!Other(p)
    /\ 1 \in Queue!Ports /\ 2 \in Queue!Ports /\ Queue!Other(1) = 2 /\ Queue!Other(2) = 1
    /\ Queue!Ports = {1, 2}
  BY DEF Queue!Ports, Queue!Other

(* The drain of a port and its close in the queue. *)

LEMMA OrderTail ==
    ASSUME NEW q \in Seq(Jobs), q # <<>>, NEW p \in Queue!Ports, DrainsBeforeCloses(q, p)
    PROVE  /\ DrainsBeforeCloses(Tail(q), p)
           /\ Head(q) = Queue!DrainOf(p) => ~Has(Tail(q), Queue!DrainOf(p))
           /\ Closes(Head(q), p) =>
                  /\ ~Has(q, Queue!DrainOf(p))
                  /\ \A k \in 1 .. Len(Tail(q)) : ~Closes(Tail(q)[k], p)
  <1> DEFINE t == Tail(q)
  <1>1. /\ Head(q) = q[1] /\ 1 \in 1 .. Len(q) /\ Len(t) = Len(q) - 1 /\ Len(q) \in Nat
        /\ \A k \in 1 .. Len(t) : t[k] = q[k + 1] /\ k + 1 \in 1 .. Len(q)
    BY Tails
  <1>2. /\ Queue!DrainOf(p).what = "drain" /\ \A k \in 1 .. Len(q) : Closes(q[k], p) => q[k].what = "close"
    BY Kinds DEF Closes
  <1> HIDE DEF t
  <1>3. DrainsBeforeCloses(t, p)
    <2> SUFFICES ASSUME NEW i \in 1 .. Len(t), NEW j \in 1 .. Len(t)
                 PROVE  /\ t[i] = Queue!DrainOf(p) /\ t[j] = Queue!DrainOf(p) => i = j
                        /\ Closes(t[i], p) /\ Closes(t[j], p) => i = j
                        /\ Closes(t[i], p) /\ t[j] = Queue!DrainOf(p) => j < i
      BY DEF DrainsBeforeCloses
    <2>1. /\ t[i] = q[i + 1] /\ t[j] = q[j + 1] /\ i + 1 \in 1 .. Len(q) /\ j + 1 \in 1 .. Len(q)
          /\ i \in Nat /\ j \in Nat
      BY <1>1
    <2>2. /\ q[i + 1] = Queue!DrainOf(p) /\ q[j + 1] = Queue!DrainOf(p) => i + 1 = j + 1
          /\ Closes(q[i + 1], p) /\ Closes(q[j + 1], p) => i + 1 = j + 1
          /\ Closes(q[i + 1], p) /\ q[j + 1] = Queue!DrainOf(p) => j + 1 < i + 1
      BY <2>1 DEF DrainsBeforeCloses
    <2> QED BY <2>1, <2>2
  <1>4. ASSUME Head(q) = Queue!DrainOf(p) PROVE ~Has(t, Queue!DrainOf(p))
    <2> SUFFICES ASSUME NEW k \in 1 .. Len(t), t[k] = Queue!DrainOf(p) PROVE FALSE
      BY DEF Has
    <2>1. k + 1 \in 1 .. Len(q) /\ q[k + 1] = Queue!DrainOf(p) /\ q[1] = Queue!DrainOf(p) /\ k \in 1 .. Len(t)
      BY <1>1, <1>4
    <2>2. k + 1 = 1
      BY <2>1, <1>1 DEF DrainsBeforeCloses
    <2> QED BY <2>1, <2>2, <1>1
  <1>5. ASSUME Closes(Head(q), p)
        PROVE  ~Has(q, Queue!DrainOf(p)) /\ \A k \in 1 .. Len(t) : ~Closes(t[k], p)
    <2>1. ASSUME NEW k \in 1 .. Len(q), q[k] = Queue!DrainOf(p) PROVE FALSE
      <3>1. k < 1 BY <2>1, <1>1, <1>5 DEF DrainsBeforeCloses
      <3> QED BY <3>1
    <2>2. ASSUME NEW k \in 1 .. Len(t), Closes(t[k], p) PROVE FALSE
      <3>1. k + 1 \in 1 .. Len(q) /\ Closes(q[k + 1], p) /\ Closes(q[1], p) BY <2>2, <1>1, <1>5
      <3>2. k + 1 = 1 BY <3>1, <1>1 DEF DrainsBeforeCloses
      <3> QED BY <3>2, <1>1
    <2> QED BY <2>1, <2>2 DEF Has
  <1> QED BY <1>3, <1>4, <1>5 DEF t

LEMMA OrderAppend ==
    ASSUME NEW q \in Seq(Jobs), NEW e \in Jobs, NEW p \in Queue!Ports, DrainsBeforeCloses(q, p),
           e = Queue!DrainOf(p) => ~Has(q, e) /\ \A k \in 1 .. Len(q) : ~Closes(q[k], p),
           Closes(e, p) => \A k \in 1 .. Len(q) : ~Closes(q[k], p)
    PROVE  DrainsBeforeCloses(Append(q, e), p)
  <1> DEFINE t == Append(q, e)
             n == Len(q)
  <1>1. /\ Len(t) = n + 1 /\ n \in Nat /\ t[n + 1] = e
        /\ \A k \in 1 .. n : t[k] = q[k]
        /\ \A k \in 1 .. n + 1 : k \in 1 .. n \/ k = n + 1
    BY Appends
  <1>2. Queue!DrainOf(p).what = "drain" /\ ~Closes(Queue!DrainOf(p), p)
    BY Kinds DEF Closes
  <1>3. \A i, j \in 1 .. n :
            /\ q[i] = Queue!DrainOf(p) /\ q[j] = Queue!DrainOf(p) => i = j
            /\ Closes(q[i], p) /\ Closes(q[j], p) => i = j
            /\ Closes(q[i], p) /\ q[j] = Queue!DrainOf(p) => j < i
    BY DEF DrainsBeforeCloses
  <1>4. e = Queue!DrainOf(p) => \A k \in 1 .. n : q[k] # Queue!DrainOf(p) /\ ~Closes(q[k], p)
    BY DEF Has
  <1>5. Closes(e, p) => \A k \in 1 .. n : ~Closes(q[k], p)
    OBVIOUS
  <1> HIDE DEF t, n
  <1> SUFFICES ASSUME NEW i \in 1 .. n + 1, NEW j \in 1 .. n + 1
               PROVE  /\ t[i] = Queue!DrainOf(p) /\ t[j] = Queue!DrainOf(p) => i = j
                      /\ Closes(t[i], p) /\ Closes(t[j], p) => i = j
                      /\ Closes(t[i], p) /\ t[j] = Queue!DrainOf(p) => j < i
    BY <1>1 DEF DrainsBeforeCloses, t
  <1>6. CASE i \in 1 .. n /\ j \in 1 .. n
    BY <1>6, <1>1, <1>3
  <1>7. CASE i = n + 1 /\ j = n + 1
    BY <1>7, <1>1, <1>2
  <1>8. CASE i \in 1 .. n /\ j = n + 1
    BY <1>8, <1>1, <1>4, <1>5
  <1>9. CASE i = n + 1 /\ j \in 1 .. n
    BY <1>9, <1>1, <1>4, <1>5
  <1> QED BY <1>1, <1>6, <1>7, <1>8, <1>9

LEMMA CloseTail ==
    ASSUME NEW q \in Seq(Jobs), q # <<>>, NEW p
    PROVE  HasClose(Tail(q), p) => HasClose(q, p)
  BY Tails DEF HasClose

LEMMA CloseAppend ==
    ASSUME NEW q \in Seq(Jobs), NEW a \in Jobs, NEW p
    PROVE  HasClose(Append(q, a), p) <=> HasClose(q, p) \/ Closes(a, p)
  BY Appends DEF HasClose

\* The queue t has of drains and closes what q has.
SameForPorts(q, t) ==
    \A p \in Queue!Ports : /\ DrainsBeforeCloses(t, p)
                           /\ Has(t, Queue!DrainOf(p)) <=> Has(q, Queue!DrainOf(p))
                           /\ HasClose(t, p) => HasClose(q, p)
                           /\ Has(t, Queue!CloseOf(p, FALSE)) => Has(q, Queue!CloseOf(p, FALSE))

LEMMA SameTail ==
    ASSUME NEW q \in Seq(Jobs), q # <<>>, Head(q).what \notin {"drain", "close"},
           \A p \in Queue!Ports : DrainsBeforeCloses(q, p)
    PROVE  Tail(q) \in Seq(Jobs) /\ SameForPorts(q, Tail(q))
  <1>1. Tail(q) \in Seq(Jobs) BY Tails
  <1>2. \A p \in Queue!Ports : DrainsBeforeCloses(Tail(q), p) BY OrderTail
  <1>3. \A p \in Queue!Ports : Has(Tail(q), Queue!DrainOf(p)) <=> Has(q, Queue!DrainOf(p))
    BY HasTail, Kinds
  <1>4. \A p \in Queue!Ports : HasClose(Tail(q), p) => HasClose(q, p) BY CloseTail
  <1>5. \A p \in Queue!Ports : Has(Tail(q), Queue!CloseOf(p, FALSE)) => Has(q, Queue!CloseOf(p, FALSE))
    BY HasTail
  <1> QED BY <1>1, <1>2, <1>3, <1>4, <1>5 DEF SameForPorts

LEMMA SameAppend ==
    ASSUME NEW q \in Seq(Jobs), NEW e \in Jobs, e.what \notin {"drain", "close"},
           \A p \in Queue!Ports : DrainsBeforeCloses(q, p)
    PROVE  Append(q, e) \in Seq(Jobs) /\ SameForPorts(q, Append(q, e))
  <1>1. Append(q, e) \in Seq(Jobs) BY Appends
  <1>0. \A p \in Queue!Ports : e # Queue!DrainOf(p) /\ ~Closes(e, p) BY Kinds DEF Closes
  <1>2. \A p \in Queue!Ports : DrainsBeforeCloses(Append(q, e), p) BY OrderAppend, <1>0
  <1>3. \A p \in Queue!Ports : Has(Append(q, e), Queue!DrainOf(p)) <=> Has(q, Queue!DrainOf(p))
    BY HasAppend, <1>0
  <1>4. \A p \in Queue!Ports : HasClose(Append(q, e), p) => HasClose(q, p) BY CloseAppend, <1>0
  <1>5. \A p \in Queue!Ports : Has(Append(q, e), Queue!CloseOf(p, FALSE)) => Has(q, Queue!CloseOf(p, FALSE))
    <2>1. \A p \in Queue!Ports : e # Queue!CloseOf(p, FALSE) BY Kinds2
    <2> QED BY <2>1, HasAppend
  <1> QED BY <1>1, <1>2, <1>3, <1>4, <1>5 DEF SameForPorts

LEMMA SameSame ==
    ASSUME NEW q \in Seq(Jobs), \A p \in Queue!Ports : DrainsBeforeCloses(q, p)
    PROVE  SameForPorts(q, q)
  BY DEF SameForPorts

LEMMA SameTwice ==
    ASSUME NEW q, NEW t, NEW u, SameForPorts(q, t), SameForPorts(t, u)
    PROVE  SameForPorts(q, u)
  BY DEF SameForPorts

\* What a step that leaves the ports alone has to leave alone of the queue.
LEMMA PortsKeep ==
    ASSUME DrainInv, CloseInv, UNCHANGED <<port, posted, handed, closes, threw>>,
           SameForPorts(jobs, jobs'),
           \A p \in Queue!Ports : running' = Queue!MessageOf(p) <=> running = Queue!MessageOf(p),
           \A p \in Queue!Ports : running' = Queue!ClosedOf(Queue!Other(p), TRUE) => running = Queue!ClosedOf(Queue!Other(p), TRUE)
    PROVE  DrainInv' /\ CloseInv'
  <1>1. DrainInv'
    BY DEF DrainInv, SameForPorts
  <1>2. CloseInv'
    BY DEF CloseInv, SameForPorts
  <1> QED BY <1>1, <1>2

-----------------------------------------------------------------------------
(* The steps of the ports.                                                    *)

LEMMA HandOver ==
    ASSUME NEW S, NEW s \in Seq(S), NEW q \in Seq(S), q # <<>>
    PROVE  /\ s \o q = Append(s, Head(q)) \o Tail(q)
           /\ Append(s, Head(q)) \in Seq(S) /\ Tail(q) \in Seq(S)
  <1>1. Append(s, Head(q)) \in Seq(S) /\ Tail(q) \in Seq(S) /\ Head(q) \in S /\ Head(q) = q[1]
    OBVIOUS
  <1>2. s \o q \in Seq(S) /\ Append(s, Head(q)) \o Tail(q) \in Seq(S)
    BY <1>1
  <1>3. Len(s \o q) = Len(Append(s, Head(q)) \o Tail(q))
    BY <1>1
  <1>4. \A k \in 1 .. Len(s \o q) : (s \o q)[k] = (Append(s, Head(q)) \o Tail(q))[k]
    BY <1>1
  <1> QED BY <1>1, <1>2, <1>3, <1>4

LEMMA PortFields ==
    ASSUME Queue!PortsTypeOK, NEW p \in Queue!Ports
    PROVE  /\ port[p].queue \in Seq(Queue!Messages) /\ port[p].draining \in BOOLEAN
           /\ port[p].pendingClose \in BOOLEAN /\ port[p].closed \in BOOLEAN
           /\ port[p].target \in {"peer", "proxy", "none"}
           /\ posted[p] \in Seq(Queue!Messages) /\ handed[p] \in Seq(Queue!Messages) /\ closes[p] \in Nat
           /\ proxy[p].queue \in Nat /\ proxy[p].got \in Nat
           /\ proxy[p].draining \in BOOLEAN /\ proxy[p].closed \in BOOLEAN
  BY DEF Queue!PortsTypeOK

\* A turn of the loop that drains port p, the one drain of it there was.
LEMMA TurnKeeps ==
    ASSUME PortsInv, NEW p \in Queue!Ports, Queue!DrainTurn(p), UNCHANGED <<proxy, posted, closes, threw>>,
           jobs' \in Seq(Jobs), port[p].draining, ~Has(jobs', Queue!DrainOf(p)),
           \A q \in Queue!Ports : /\ DrainsBeforeCloses(jobs', q)
                                  /\ HasClose(jobs', q) => HasClose(jobs, q)
                                  /\ Has(jobs', Queue!CloseOf(q, FALSE)) => Has(jobs, Queue!CloseOf(q, FALSE))
                                  /\ q # p => (Has(jobs', Queue!DrainOf(q)) <=> Has(jobs, Queue!DrainOf(q)))
                                  /\ q # p => running # Queue!MessageOf(q)
    PROVE  PortsInv'
  <1>1. Queue!PortsTypeOK /\ QueueTypeOK /\ DrainInv /\ CloseInv
    BY DEF PortsInv
  <1>2. CASE port[p].queue # <<>>
    <2>1. /\ port' = [port EXCEPT ![p].queue = Tail(@)]
          /\ handed' = [handed EXCEPT ![p] = Append(@, Head(port[p].queue))]
          /\ running' = Queue!MessageOf(p)
      BY <1>2 DEF Queue!DrainTurn
    <2>2. /\ Append(handed[p], Head(port[p].queue)) \in Seq(Queue!Messages)
          /\ Tail(port[p].queue) \in Seq(Queue!Messages)
          /\ posted[p] = Append(handed[p], Head(port[p].queue)) \o Tail(port[p].queue)
      <3>1. handed[p] \in Seq(Queue!Messages) /\ port[p].queue \in Seq(Queue!Messages)
        BY <1>1, PortFields
      <3>2. posted[p] = handed[p] \o port[p].queue
        BY <1>1 DEF DrainInv
      <3>3. PICK s \in Seq(Queue!Messages) : s = handed[p]
        BY <3>1
      <3>4. PICK u \in Seq(Queue!Messages) : u = port[p].queue
        BY <3>1
      <3>5. u # <<>>
        BY <1>2, <3>4
      <3>6. /\ s \o u = Append(s, Head(u)) \o Tail(u)
            /\ Append(s, Head(u)) \in Seq(Queue!Messages) /\ Tail(u) \in Seq(Queue!Messages)
        BY <3>5, HandOver
      <3> QED BY <3>2, <3>3, <3>4, <3>6
    <2>3. QueueTypeOK'
      BY <2>1, Runs1 DEF QueueTypeOK
    <2>4. Queue!PortsTypeOK'
      BY <1>1, <2>1, <2>2 DEF Queue!PortsTypeOK
    <2>5. \A q \in Queue!Ports : /\ port'[q].target = port[q].target /\ port'[q].closed = port[q].closed
                                 /\ port'[q].pendingClose = port[q].pendingClose
                                 /\ port'[q].draining = port[q].draining
                                 /\ q # p => port'[q].queue = port[q].queue /\ handed'[q] = handed[q]
                                 /\ q = p => /\ port'[q].queue = Tail(port[p].queue)
                                             /\ handed'[q] = Append(handed[p], Head(port[p].queue))
      BY <1>1, <2>1 DEF Queue!PortsTypeOK
    <2>6. \A q \in Queue!Ports : q # p => running' # Queue!MessageOf(q)
      BY <2>1, Runs2
    <2>7. DrainInv'
      <3> SUFFICES ASSUME NEW q \in Queue!Ports
                   PROVE  (/\ posted[q] = handed[q] \o port[q].queue
                           /\ port[q].queue # <<>> => port[q].draining
                           /\ Has(jobs, Queue!DrainOf(q)) => port[q].draining /\ running # Queue!MessageOf(q)
                           /\ running = Queue!MessageOf(q) => port[q].draining
                           /\ port[q].draining /\ q \notin threw =>
                                  Has(jobs, Queue!DrainOf(q)) \/ running = Queue!MessageOf(q))'
        BY DEF DrainInv
      <3>1. CASE q = p
        BY <3>1, <2>1, <2>2, <2>5
      <3>2. CASE q # p
        <4>1. posted'[q] = posted[q] /\ handed'[q] = handed[q] /\ port'[q].queue = port[q].queue
              /\ port'[q].draining = port[q].draining /\ threw' = threw
          BY <3>2, <2>5
        <4>2. /\ posted[q] = handed[q] \o port[q].queue
              /\ port[q].queue # <<>> => port[q].draining
              /\ Has(jobs, Queue!DrainOf(q)) => port[q].draining
              /\ port[q].draining /\ q \notin threw => Has(jobs, Queue!DrainOf(q)) \/ running = Queue!MessageOf(q)
          BY <1>1 DEF DrainInv
        <4>3. (posted[q] = handed[q] \o port[q].queue)'
          BY <4>1, <4>2, Zenon
        <4> QED BY <3>2, <4>1, <4>2, <4>3, <2>6
      <3> QED BY <3>1, <3>2
    <2>8. CloseInv'
      <3>1. \A q \in Queue!Ports : running' # Queue!ClosedOf(Queue!Other(q), TRUE)
        BY <2>1, Runs2
      <3>2. port[p].closed => p \in threw
        BY <1>1 DEF CloseInv
      <3>3. \A q \in Queue!Ports : port'[q].closed /\ q \notin threw' =>
                 port'[q].queue = <<>> /\ ~port'[q].draining
        BY <1>1, <2>5, <3>2 DEF CloseInv
      <3>4. (port[1].target = "peer" <=> port[2].target = "peer")'
        BY <1>1, <2>5, OtherPort DEF CloseInv
      <3> SUFFICES ASSUME NEW q \in Queue!Ports
                   PROVE  (/\ DrainsBeforeCloses(jobs, q)
                           /\ port[q].closed => port[q].pendingClose
                           /\ HasClose(jobs, q) => port[q].pendingClose /\ ~port[q].closed
                           /\ Has(jobs, Queue!CloseOf(q, FALSE)) => port[q].target # "peer"
                           /\ port[q].pendingClose /\ port[q].target = "peer" =>
                                  port[Queue!Other(q)].pendingClose
                           /\ ~port[q].closed => closes[q] = 0
                           /\ closes[q] <= 1
                           /\ running = Queue!ClosedOf(Queue!Other(q), TRUE) => closes[q] = 0 /\ port[q].closed
                           /\ port[q].closed /\ q \notin threw =>
                                  port[q].queue = <<>> /\ ~port[q].draining)'
        BY <3>4 DEF CloseInv
      <3>7. port'[Queue!Other(q)].pendingClose = port[Queue!Other(q)].pendingClose
        BY <2>5, OtherPort
      <3> QED BY <1>1, <2>5, <3>1, <3>3, <3>7 DEF CloseInv
    <2> QED BY <2>3, <2>4, <2>7, <2>8 DEF PortsInv
  <1>3. CASE port[p].queue = <<>>
    <2>1. port' = [port EXCEPT ![p].draining = FALSE] /\ running' = Queue!NoJob /\ UNCHANGED handed
      BY <1>3 DEF Queue!DrainTurn
    <2>3. QueueTypeOK'
      BY <2>1, Runs1 DEF QueueTypeOK
    <2>4. Queue!PortsTypeOK'
      BY <1>1, <2>1 DEF Queue!PortsTypeOK
    <2>5. \A q \in Queue!Ports : /\ port'[q].target = port[q].target /\ port'[q].closed = port[q].closed
                                 /\ port'[q].pendingClose = port[q].pendingClose
                                 /\ port'[q].queue = port[q].queue
                                 /\ q # p => port'[q].draining = port[q].draining
                                 /\ q = p => ~port'[q].draining
      BY <1>1, <2>1 DEF Queue!PortsTypeOK
    <2>6. \A q \in Queue!Ports : running' # Queue!MessageOf(q) /\ running' # Queue!ClosedOf(Queue!Other(q), TRUE)
      BY <2>1, Runs2
    <2>7. DrainInv'
      <3> SUFFICES ASSUME NEW q \in Queue!Ports
                   PROVE  (/\ posted[q] = handed[q] \o port[q].queue
                           /\ port[q].queue # <<>> => port[q].draining
                           /\ Has(jobs, Queue!DrainOf(q)) => port[q].draining /\ running # Queue!MessageOf(q)
                           /\ running = Queue!MessageOf(q) => port[q].draining
                           /\ port[q].draining /\ q \notin threw =>
                                  Has(jobs, Queue!DrainOf(q)) \/ running = Queue!MessageOf(q))'
        BY DEF DrainInv
      <3>1. (posted[q] = handed[q] \o port[q].queue)'
        <4>1. posted[q] = handed[q] \o port[q].queue
          BY <1>1 DEF DrainInv
        <4>2. posted'[q] = posted[q] /\ handed'[q] = handed[q] /\ port'[q].queue = port[q].queue
          BY <2>1, <2>5
        <4> QED BY <4>1, <4>2, Zenon
      <3>2. port[q].queue # <<>> => port[q].draining
        BY <1>1 DEF DrainInv
      <3>3. /\ Has(jobs, Queue!DrainOf(q)) => port[q].draining
            /\ port[q].draining /\ q \notin threw => Has(jobs, Queue!DrainOf(q)) \/ running = Queue!MessageOf(q)
        BY <1>1 DEF DrainInv
      <3>4. CASE q = p
        BY <3>1, <3>4, <1>3, <2>5, <2>6
      <3>5. CASE q # p
        <4>1. /\ port'[q].queue = port[q].queue /\ port'[q].draining = port[q].draining
              /\ threw' = threw /\ running # Queue!MessageOf(q) /\ running' # Queue!MessageOf(q)
              /\ Has(jobs', Queue!DrainOf(q)) <=> Has(jobs, Queue!DrainOf(q))
          BY <3>5, <2>5, <2>6
        <4> QED BY <3>1, <3>2, <3>3, <4>1
      <3> QED BY <3>4, <3>5
    <2>8. CloseInv'
      <3>1. (port[1].target = "peer" <=> port[2].target = "peer")'
        BY <1>1, <2>5, OtherPort DEF CloseInv
      <3> SUFFICES ASSUME NEW q \in Queue!Ports
                   PROVE  (/\ DrainsBeforeCloses(jobs, q)
                           /\ port[q].closed => port[q].pendingClose
                           /\ HasClose(jobs, q) => port[q].pendingClose /\ ~port[q].closed
                           /\ Has(jobs, Queue!CloseOf(q, FALSE)) => port[q].target # "peer"
                           /\ port[q].pendingClose /\ port[q].target = "peer" =>
                                  port[Queue!Other(q)].pendingClose
                           /\ ~port[q].closed => closes[q] = 0
                           /\ closes[q] <= 1
                           /\ running = Queue!ClosedOf(Queue!Other(q), TRUE) => closes[q] = 0 /\ port[q].closed
                           /\ port[q].closed /\ q \notin threw =>
                                  port[q].queue = <<>> /\ ~port[q].draining)'
        BY <3>1 DEF CloseInv
      <3>7. port'[Queue!Other(q)].pendingClose = port[Queue!Other(q)].pendingClose
        BY <2>5, OtherPort
      <3> QED BY <1>1, <2>5, <2>6, <3>7 DEF CloseInv
    <2> QED BY <2>3, <2>4, <2>7, <2>8 DEF PortsInv
  <1> QED BY <1>2, <1>3

LEMMA RunDrainKeeps ==
    ASSUME PortsInv, Queue!RunDrain
    PROVE  PortsInv'
  <1>1. Queue!PortsTypeOK /\ QueueTypeOK /\ DrainInv /\ CloseInv
    BY DEF PortsInv
  <1>2. /\ jobs \in Seq(Jobs) /\ jobs # <<>> /\ Head(jobs).what = "drain" /\ running = Queue!NoJob
        /\ jobs' = Tail(jobs) /\ Queue!DrainTurn(Head(jobs).of) /\ Head(jobs) \in Jobs
        /\ UNCHANGED <<proxy, posted, closes, threw>>
    BY <1>1, Tails DEF Queue!RunDrain, Queue!Begins, QueueTypeOK
  <1>3. PICK p \in Queue!Ports : p = Head(jobs).of /\ Head(jobs) = Queue!DrainOf(p)
    BY <1>2, JobOf
  <1>4. Has(jobs, Queue!DrainOf(p))
    BY <1>2, <1>3, Tails DEF Has
  <1>5. port[p].draining
    BY <1>1, <1>4 DEF DrainInv
  <1>6. \A q \in Queue!Ports : /\ DrainsBeforeCloses(jobs', q)
                               /\ HasClose(jobs', q) => HasClose(jobs, q)
                               /\ Has(jobs', Queue!CloseOf(q, FALSE)) => Has(jobs, Queue!CloseOf(q, FALSE))
                               /\ q # p => (Has(jobs', Queue!DrainOf(q)) <=> Has(jobs, Queue!DrainOf(q)))
                               /\ running # Queue!MessageOf(q)
    <2> SUFFICES ASSUME NEW q \in Queue!Ports
                 PROVE  /\ DrainsBeforeCloses(jobs', q)
                        /\ HasClose(jobs', q) => HasClose(jobs, q)
                        /\ Has(jobs', Queue!CloseOf(q, FALSE)) => Has(jobs, Queue!CloseOf(q, FALSE))
                        /\ q # p => (Has(jobs', Queue!DrainOf(q)) <=> Has(jobs, Queue!DrainOf(q)))
                        /\ running # Queue!MessageOf(q)
      OBVIOUS
    <2>1. DrainsBeforeCloses(jobs', q)
      BY <1>1, <1>2, OrderTail DEF CloseInv
    <2>2. HasClose(jobs', q) => HasClose(jobs, q)
      BY <1>2, CloseTail
    <2>3. q # p => Queue!DrainOf(q) # Queue!DrainOf(p)
      BY Kinds
    <2>4. q # p => (Has(jobs', Queue!DrainOf(q)) <=> Has(jobs, Queue!DrainOf(q)))
      BY <1>2, <1>3, <2>3, HasTail
    <2>5. running # Queue!MessageOf(q)
      BY <1>2, Runs2
    <2>6. Has(jobs', Queue!CloseOf(q, FALSE)) => Has(jobs, Queue!CloseOf(q, FALSE))
      BY <1>2, HasTail
    <2> QED BY <2>1, <2>2, <2>4, <2>5, <2>6
  <1>7. ~Has(jobs', Queue!DrainOf(p))
    BY <1>1, <1>2, <1>3, OrderTail DEF CloseInv
  <1>8. jobs' \in Seq(Jobs)
    BY <1>2, Tails
  <1> QED BY <1>2, <1>3, <1>5, <1>6, <1>7, <1>8, TurnKeeps

LEMMA MessageReturnsKeeps ==
    ASSUME PortsInv, Queue!MessageReturns
    PROVE  PortsInv'
  <1>1. Queue!PortsTypeOK /\ QueueTypeOK /\ DrainInv /\ CloseInv
    BY DEF PortsInv
  <1>2. PICK p \in Queue!Ports : running = Queue!MessageOf(p) /\ p = running.of
    BY <1>1, RunningOf DEF Queue!MessageReturns, QueueTypeOK
  <1>3. Queue!DrainTurn(p) /\ UNCHANGED <<jobs, proxy, posted, closes, threw>>
    BY <1>2 DEF Queue!MessageReturns
  <1>4. port[p].draining /\ ~Has(jobs, Queue!DrainOf(p))
    BY <1>1, <1>2 DEF DrainInv
  <1>5. \A q \in Queue!Ports : q # p => running # Queue!MessageOf(q)
    BY <1>2, Runs2
  <1>6. \A q \in Queue!Ports : DrainsBeforeCloses(jobs, q)
    BY <1>1 DEF CloseInv
  <1>7. jobs' \in Seq(Jobs) /\ jobs' = jobs
    BY <1>1, <1>3 DEF QueueTypeOK
  <1> QED BY <1>3, <1>4, <1>5, <1>6, <1>7, TurnKeeps

LEMMA MessageThrowsKeeps ==
    ASSUME PortsInv, Queue!MessageThrows
    PROVE  PortsInv'
  <1>1. Queue!PortsTypeOK /\ QueueTypeOK /\ DrainInv /\ CloseInv
    BY DEF PortsInv
  <1>2. PICK p \in Queue!Ports : running = Queue!MessageOf(p) /\ p = running.of
    BY <1>1, RunningOf DEF Queue!MessageThrows, QueueTypeOK
  <1>3. /\ running' = Queue!NoJob /\ threw' = threw \cup {p}
        /\ UNCHANGED <<jobs, port, proxy, posted, handed, closes>>
    BY <1>2 DEF Queue!MessageThrows
  <1>4. \A q \in Queue!Ports : /\ running' # Queue!MessageOf(q) /\ running' # Queue!ClosedOf(Queue!Other(q), TRUE)
                               /\ q # p => running # Queue!MessageOf(q)
    BY <1>2, <1>3, Runs2
  <1>5. DrainInv' /\ CloseInv'
    BY <1>1, <1>3, <1>4 DEF DrainInv, CloseInv
  <1>6. QueueTypeOK' /\ Queue!PortsTypeOK'
    BY <1>1, <1>3, Runs1 DEF QueueTypeOK, Queue!PortsTypeOK
  <1> QED BY <1>5, <1>6 DEF PortsInv

LEMMA RunCloseKeeps ==
    ASSUME PortsInv, Queue!RunClose
    PROVE  PortsInv'
  <1>1. Queue!PortsTypeOK /\ QueueTypeOK /\ DrainInv /\ CloseInv
    BY DEF PortsInv
  <1>2. /\ jobs \in Seq(Jobs) /\ jobs # <<>> /\ Head(jobs).what = "close" /\ running = Queue!NoJob
        /\ jobs' = Tail(jobs) /\ Head(jobs) \in Jobs
    BY <1>1, Tails DEF Queue!RunClose, Queue!Begins, QueueTypeOK
  <1>3. PICK p \in Queue!Ports, both \in BOOLEAN :
            p = Head(jobs).of /\ both = Head(jobs).both /\ Head(jobs) = Queue!CloseOf(p, both)
    BY <1>2, JobOf
  <1>4. /\ port' = [q \in Queue!Ports |-> IF q = p \/ both
                     THEN [port[q] EXCEPT !.closed = TRUE, !.target = "none"] ELSE port[q]]
        /\ closes' = [closes EXCEPT ![p] = @ + 1]
        /\ running' = Queue!ClosedOf(p, both)
        /\ UNCHANGED <<proxy, posted, handed, threw>>
    BY <1>3 DEF Queue!RunClose
  <1>5. \A q \in Queue!Ports : /\ Closes(Head(jobs), q) <=> q = p \/ both
                               /\ Closes(Head(jobs), q) => HasClose(jobs, q)
    BY <1>2, <1>3, Tails, Kinds DEF Closes, HasClose
  <1>6. ~both => Has(jobs, Queue!CloseOf(p, FALSE))
    BY <1>2, <1>3, Tails DEF Has
  <1>7. \A q \in Queue!Ports : /\ DrainsBeforeCloses(jobs', q)
                               /\ HasClose(jobs', q) => HasClose(jobs, q) /\ ~(q = p \/ both)
                               /\ Has(jobs', Queue!CloseOf(q, FALSE)) => Has(jobs, Queue!CloseOf(q, FALSE))
                               /\ Has(jobs', Queue!DrainOf(q)) <=> Has(jobs, Queue!DrainOf(q))
                               /\ q = p \/ both => ~Has(jobs, Queue!DrainOf(q))
    <2> SUFFICES ASSUME NEW q \in Queue!Ports
                 PROVE  /\ DrainsBeforeCloses(jobs', q)
                        /\ HasClose(jobs', q) => HasClose(jobs, q) /\ ~(q = p \/ both)
                        /\ Has(jobs', Queue!CloseOf(q, FALSE)) => Has(jobs, Queue!CloseOf(q, FALSE))
                        /\ Has(jobs', Queue!DrainOf(q)) <=> Has(jobs, Queue!DrainOf(q))
                        /\ q = p \/ both => ~Has(jobs, Queue!DrainOf(q))
      OBVIOUS
    <2>1. DrainsBeforeCloses(jobs, q)
      BY <1>1 DEF CloseInv
    <2>2. DrainsBeforeCloses(jobs', q)
      BY <1>2, <2>1, OrderTail
    <2>3. Closes(Head(jobs), q) => /\ ~Has(jobs, Queue!DrainOf(q))
                                   /\ \A k \in 1 .. Len(jobs') : ~Closes(jobs'[k], q)
      BY <1>2, <2>1, OrderTail
    <2>4. HasClose(jobs', q) => HasClose(jobs, q)
      BY <1>2, CloseTail
    <2>5. Has(jobs', Queue!CloseOf(q, FALSE)) => Has(jobs, Queue!CloseOf(q, FALSE))
      BY <1>2, HasTail
    <2>6. Head(jobs) # Queue!DrainOf(q)
      BY <1>2, Kinds
    <2>7. Has(jobs', Queue!DrainOf(q)) <=> Has(jobs, Queue!DrainOf(q))
      BY <1>2, <2>6, HasTail
    <2> QED BY <1>5, <2>2, <2>3, <2>4, <2>5, <2>7 DEF HasClose
  <1>8. \A q \in Queue!Ports : /\ port'[q].queue = port[q].queue /\ port'[q].draining = port[q].draining
                               /\ port'[q].pendingClose = port[q].pendingClose
                               /\ q = p \/ both => port'[q].closed /\ port'[q].target = "none"
                               /\ ~(q = p \/ both) =>
                                      port'[q].closed = port[q].closed /\ port'[q].target = port[q].target
    BY <1>1, <1>4 DEF Queue!PortsTypeOK
  <1>9. \A q \in Queue!Ports : /\ running # Queue!MessageOf(q) /\ running' # Queue!MessageOf(q)
                               /\ running # Queue!ClosedOf(Queue!Other(q), TRUE)
                               /\ running' = Queue!ClosedOf(Queue!Other(q), TRUE) => q # p /\ both
    <2>1. \A q : running # Queue!MessageOf(q) /\ running # Queue!ClosedOf(q, TRUE)
      BY <1>2, Runs2
    <2>2. \A q : /\ Queue!ClosedOf(p, both) # Queue!MessageOf(q)
                 /\ Queue!ClosedOf(p, both) = Queue!ClosedOf(q, TRUE) => p = q /\ both
      BY Runs3
    <2>3. running' = Queue!ClosedOf(p, both)
      BY <1>4
    <2>4. \A q \in Queue!Ports : running' = Queue!ClosedOf(Queue!Other(q), TRUE) => p = Queue!Other(q) /\ both
      BY <2>2, <2>3
    <2>5. \A q \in Queue!Ports : running' # Queue!MessageOf(q)
      BY <2>2, <2>3
    <2>6. \A q \in Queue!Ports : p = Queue!Other(q) => q # p
      BY OtherPort
    <2> QED BY <2>1, <2>4, <2>5, <2>6
  <1>10. \A q \in Queue!Ports : /\ q = p \/ both => port[q].pendingClose /\ ~port[q].closed /\ closes[q] = 0
                                /\ q # p => closes'[q] = closes[q]
                                /\ q = p => closes'[q] = 1
    <2>1. \A q \in Queue!Ports : q = p \/ both => port[q].pendingClose /\ ~port[q].closed /\ closes[q] = 0
      BY <1>1, <1>5 DEF CloseInv
    <2>2. closes' = [closes EXCEPT ![p] = @ + 1] /\ closes \in [Queue!Ports -> Nat]
      BY <1>1, <1>4 DEF Queue!PortsTypeOK
    <2>3. \A q \in Queue!Ports : /\ q # p => closes'[q] = closes[q]
                                 /\ q = p => closes'[q] = closes[q] + 1
      BY <2>2
    <2> QED BY <2>1, <2>3
  <1>11. QueueTypeOK'
    BY <1>2, <1>4, Tails, Runs1 DEF QueueTypeOK
  <1>12. Queue!PortsTypeOK'
    <2>1. port' \in [Queue!Ports -> [target : {"peer", "proxy", "none"}, queue : Seq(Queue!Messages),
                                     draining : BOOLEAN, pendingClose : BOOLEAN, closed : BOOLEAN]]
      BY <1>1, <1>4 DEF Queue!PortsTypeOK
    <2>2. closes' = [closes EXCEPT ![p] = @ + 1] /\ closes \in [Queue!Ports -> Nat]
      BY <1>1, <1>4 DEF Queue!PortsTypeOK
    <2>3. closes' \in [Queue!Ports -> Nat]
      BY <2>2
    <2>4. UNCHANGED <<proxy, posted, handed, threw>>
      BY <1>4
    <2> QED BY <2>1, <2>3, <2>4, <1>1 DEF Queue!PortsTypeOK
  <1>13. DrainInv'
    <2> SUFFICES ASSUME NEW q \in Queue!Ports
                 PROVE  (/\ posted[q] = handed[q] \o port[q].queue
                         /\ port[q].queue # <<>> => port[q].draining
                         /\ Has(jobs, Queue!DrainOf(q)) => port[q].draining /\ running # Queue!MessageOf(q)
                         /\ running = Queue!MessageOf(q) => port[q].draining
                         /\ port[q].draining /\ q \notin threw =>
                                Has(jobs, Queue!DrainOf(q)) \/ running = Queue!MessageOf(q))'
      BY DEF DrainInv
    <2>1. /\ posted[q] = handed[q] \o port[q].queue
          /\ port[q].queue # <<>> => port[q].draining
          /\ Has(jobs, Queue!DrainOf(q)) => port[q].draining
          /\ port[q].draining /\ q \notin threw => Has(jobs, Queue!DrainOf(q)) \/ running = Queue!MessageOf(q)
      BY <1>1 DEF DrainInv
    <2>2. posted'[q] = posted[q] /\ handed'[q] = handed[q] /\ threw' = threw
      BY <1>4
    <2>3. posted'[q] = handed'[q] \o port'[q].queue
      BY <2>1, <2>2, <1>8, Zenon
    <2> QED BY <1>7, <1>8, <1>9, <2>1, <2>2, <2>3
  <1>14. CloseInv'
    <2>1. port'[1].target = "peer" <=> port'[2].target = "peer"
      <3>1. CASE both
        BY <3>1, <1>8, OtherPort
      <3>2. CASE ~both
        <4>1. port[p].target # "peer"
          BY <3>2, <1>1, <1>6 DEF CloseInv
        <4>2. port[1].target # "peer" /\ port[2].target # "peer"
          BY <4>1, <1>1, OtherPort DEF CloseInv
        <4> QED BY <4>2, <1>8, OtherPort
      <3> QED BY <3>1, <3>2
    <2> SUFFICES ASSUME NEW q \in Queue!Ports
                 PROVE  (/\ DrainsBeforeCloses(jobs, q)
                         /\ port[q].closed => port[q].pendingClose
                         /\ HasClose(jobs, q) => port[q].pendingClose /\ ~port[q].closed
                         /\ Has(jobs, Queue!CloseOf(q, FALSE)) => port[q].target # "peer"
                         /\ port[q].pendingClose /\ port[q].target = "peer" =>
                                port[Queue!Other(q)].pendingClose
                         /\ ~port[q].closed => closes[q] = 0
                         /\ closes[q] <= 1
                         /\ running = Queue!ClosedOf(Queue!Other(q), TRUE) => closes[q] = 0 /\ port[q].closed
                         /\ port[q].closed /\ q \notin threw =>
                                port[q].queue = <<>> /\ ~port[q].draining)'
      BY <2>1 DEF CloseInv
    <2>2. /\ port[q].closed => port[q].pendingClose
          /\ HasClose(jobs, q) => port[q].pendingClose /\ ~port[q].closed
          /\ Has(jobs, Queue!CloseOf(q, FALSE)) => port[q].target # "peer"
          /\ port[q].pendingClose /\ port[q].target = "peer" => port[Queue!Other(q)].pendingClose
          /\ ~port[q].closed => closes[q] = 0
          /\ closes[q] <= 1
          /\ port[q].closed /\ q \notin threw => port[q].queue = <<>> /\ ~port[q].draining
      BY <1>1 DEF CloseInv
    <2>3. /\ port[q].queue # <<>> => port[q].draining
          /\ port[q].draining /\ q \notin threw => Has(jobs, Queue!DrainOf(q)) \/ running = Queue!MessageOf(q)
      BY <1>1 DEF DrainInv
    <2>4. port'[Queue!Other(q)].pendingClose = port[Queue!Other(q)].pendingClose
      BY <1>8, OtherPort
    <2>5. threw' = threw
      BY <1>4
    <2>6. CASE q = p \/ both
      <3>1. /\ port'[q].closed /\ port'[q].target = "none" /\ port'[q].pendingClose
            /\ port[q].pendingClose /\ ~port[q].closed /\ closes[q] = 0
            /\ port'[q].queue = port[q].queue /\ port'[q].draining = port[q].draining
        BY <2>6, <1>8, <1>10
      <3>2. closes'[q] <= 1 /\ (q # p => closes'[q] = 0)
        BY <3>1, <1>10
      <3>3. q \notin threw' => port'[q].queue = <<>> /\ ~port'[q].draining
        BY <2>6, <3>1, <2>3, <2>5, <1>7, <1>9
      <3>4. DrainsBeforeCloses(jobs', q) /\ ~HasClose(jobs', q)
        BY <2>6, <1>7
      <3>5. running' = Queue!ClosedOf(Queue!Other(q), TRUE) => q # p
        BY <1>9
      <3> QED BY <3>1, <3>2, <3>3, <3>4, <3>5
    <2>7. CASE ~(q = p \/ both)
      BY <2>7, <1>7, <1>8, <1>9, <1>10, <2>2, <2>3, <2>4, <2>5
    <2> QED BY <2>6, <2>7
  <1> QED BY <1>11, <1>12, <1>13, <1>14 DEF PortsInv

LEMMA CloseReturnsKeeps ==
    ASSUME PortsInv, Queue!CloseReturns
    PROVE  PortsInv'
  <1>1. Queue!PortsTypeOK /\ QueueTypeOK /\ DrainInv /\ CloseInv
    BY DEF PortsInv
  <1>2. PICK p \in Queue!Ports, both \in BOOLEAN :
            p = running.of /\ both = running.both /\ running = Queue!ClosedOf(p, both)
    BY <1>1, RunningOf DEF Queue!CloseReturns, QueueTypeOK
  <1>3. UNCHANGED <<jobs, port, proxy, posted, handed, threw>>
    BY DEF Queue!CloseReturns
  <1>4. CASE both
    <2>1. /\ closes' = [closes EXCEPT ![Queue!Other(p)] = @ + 1]
          /\ running' = Queue!ClosedOf(Queue!Other(p), FALSE)
      BY <1>2, <1>4 DEF Queue!CloseReturns
    <2>2. /\ Queue!Other(p) \in Queue!Ports /\ Queue!Other(Queue!Other(p)) = p
          /\ \A q \in Queue!Ports : q = Queue!Other(p) \/ q = p
          /\ Queue!Other(p) # p
      BY OtherPort
    <2>3. running = Queue!ClosedOf(Queue!Other(Queue!Other(p)), TRUE)
      BY <1>2, <1>4, <2>2
    <2>4. closes[Queue!Other(p)] = 0 /\ port[Queue!Other(p)].closed
      BY <1>1, <2>2, <2>3 DEF CloseInv
    <2>5. \A q \in Queue!Ports : /\ running' # Queue!ClosedOf(Queue!Other(q), TRUE) /\ running' # Queue!MessageOf(q)
                                 /\ running # Queue!MessageOf(q)
      <3>1. \A q : Queue!ClosedOf(p, both) # Queue!MessageOf(q)
        BY Runs3
      <3>2. \A q : /\ Queue!ClosedOf(Queue!Other(p), FALSE) # Queue!MessageOf(q)
                   /\ Queue!ClosedOf(Queue!Other(p), FALSE) # Queue!ClosedOf(q, TRUE)
        BY Runs3
      <3> QED BY <1>2, <2>1, <3>1, <3>2
    <2>6. closes' \in [Queue!Ports -> Nat] /\ closes'[Queue!Other(p)] = 1 /\ closes'[p] = closes[p]
      BY <1>1, <2>1, <2>2, <2>4 DEF Queue!PortsTypeOK
    <2>7. DrainInv'
      BY <1>1, <1>3, <2>5 DEF DrainInv
    <2>8. CloseInv'
      <3>1. \A q \in Queue!Ports : /\ ~port[q].closed => closes'[q] = 0
                                   /\ closes'[q] <= 1
        <4>1. \A q \in Queue!Ports : ~port[q].closed => closes[q] = 0
          BY <1>1 DEF CloseInv
        <4>2. \A q \in Queue!Ports : closes[q] <= 1
          BY <1>1 DEF CloseInv
        <4> QED BY <4>1, <4>2, <2>2, <2>4, <2>6
      <3> QED BY <1>1, <1>3, <2>5, <3>1 DEF CloseInv
    <2>9. QueueTypeOK' /\ Queue!PortsTypeOK'
      BY <1>1, <1>3, <2>1, <2>2, <2>6, Runs1 DEF QueueTypeOK, Queue!PortsTypeOK
    <2> QED BY <2>7, <2>8, <2>9 DEF PortsInv
  <1>5. CASE ~both
    <2>1. running' = Queue!NoJob /\ UNCHANGED closes
      BY <1>2, <1>5 DEF Queue!CloseReturns
    <2>2. \A q \in Queue!Ports : /\ running' # Queue!ClosedOf(Queue!Other(q), TRUE) /\ running' # Queue!MessageOf(q)
                                 /\ running # Queue!MessageOf(q)
      <3>1. \A q : Queue!ClosedOf(p, both) # Queue!MessageOf(q)
        BY Runs3
      <3> QED BY <1>2, <2>1, <3>1, Runs2
    <2>7. DrainInv'
      BY <1>1, <1>3, <2>2 DEF DrainInv
    <2>8. CloseInv'
      BY <1>1, <1>3, <2>1, <2>2 DEF CloseInv
    <2>9. QueueTypeOK' /\ Queue!PortsTypeOK'
      BY <1>1, <1>3, <2>1, Runs1 DEF QueueTypeOK, Queue!PortsTypeOK
    <2> QED BY <2>7, <2>8, <2>9 DEF PortsInv
  <1> QED BY <1>4, <1>5

LEMMA CloseThrowsKeeps ==
    ASSUME PortsInv, Queue!CloseThrows
    PROVE  PortsInv'
  <1>1. Queue!PortsTypeOK /\ QueueTypeOK /\ DrainInv /\ CloseInv
    BY DEF PortsInv
  <1>2. PICK p \in Queue!Ports, both \in BOOLEAN :
            p = running.of /\ both = running.both /\ running = Queue!ClosedOf(p, both)
    BY <1>1, RunningOf DEF Queue!CloseThrows, QueueTypeOK
  <1>3. /\ running' = Queue!NoJob /\ threw' = threw \cup {p}
        /\ UNCHANGED <<jobs, port, proxy, posted, handed, closes>>
    BY <1>2 DEF Queue!CloseThrows
  <1>4. \A q \in Queue!Ports : /\ running' # Queue!ClosedOf(Queue!Other(q), TRUE) /\ running' # Queue!MessageOf(q)
                               /\ running # Queue!MessageOf(q)
    <2>1. \A q : Queue!ClosedOf(p, both) # Queue!MessageOf(q)
      BY Runs3
    <2> QED BY <1>2, <1>3, <2>1, Runs2
  <1>5. DrainInv' /\ CloseInv'
    BY <1>1, <1>3, <1>4 DEF DrainInv, CloseInv
  <1>6. QueueTypeOK' /\ Queue!PortsTypeOK'
    BY <1>1, <1>3, Runs1 DEF QueueTypeOK, Queue!PortsTypeOK
  <1> QED BY <1>5, <1>6 DEF PortsInv

LEMMA SameSequence ==
    ASSUME NEW S, NEW s \in Seq(S), NEW t \in Seq(S), Len(s) = Len(t),
           \A k \in 1 .. Len(s) : s[k] = t[k]
    PROVE  s = t
  OBVIOUS

LEMMA JobQueuedBehind ==
    ASSUME NEW s \in Seq(Queue!Messages), NEW q \in Seq(Queue!Messages), NEW m \in Queue!Messages
    PROVE  /\ Append(s \o q, m) = s \o Append(q, m)
           /\ Append(s \o q, m) \in Seq(Queue!Messages) /\ Append(q, m) \in Seq(Queue!Messages)
           /\ Append(q, m) # <<>>
  <1>1. /\ Append(s \o q, m) \in Seq(Queue!Messages) /\ Append(q, m) \in Seq(Queue!Messages)
        /\ s \o Append(q, m) \in Seq(Queue!Messages)
    OBVIOUS
  <1>2. Len(Append(s \o q, m)) = Len(s \o Append(q, m))
    OBVIOUS
  <1>3. \A k \in 1 .. Len(Append(s \o q, m)) : Append(s \o q, m)[k] = (s \o Append(q, m))[k]
    OBVIOUS
  <1>4. Append(q, m) # <<>>
    OBVIOUS
  <1>5. Append(s \o q, m) = s \o Append(q, m)
    BY <1>1, <1>2, <1>3, SameSequence
  <1> QED BY <1>1, <1>4, <1>5

LEMMA EnqueueKeeps ==
    ASSUME PortsInv, NEW o \in Queue!Ports, NEW m \in Queue!Messages, Queue!EnqueueDelivery(o, m), ~Queue!Shut(o),
           UNCHANGED <<proxy, handed, closes, threw, running>>
    PROVE  PortsInv'
  <1>1. Queue!PortsTypeOK /\ QueueTypeOK /\ DrainInv /\ CloseInv
    BY DEF PortsInv
  <1>2. /\ port' = [port EXCEPT ![o].queue = Append(@, m), ![o].draining = TRUE]
        /\ posted' = [posted EXCEPT ![o] = Append(@, m)]
        /\ jobs' = IF port[o].draining THEN jobs ELSE Append(jobs, Queue!DrainOf(o))
    BY DEF Queue!EnqueueDelivery
  <1>3. /\ Append(posted[o], m) = handed[o] \o Append(port[o].queue, m)
        /\ Append(posted[o], m) \in Seq(Queue!Messages) /\ Append(port[o].queue, m) \in Seq(Queue!Messages)
        /\ Append(port[o].queue, m) # <<>>
    <2>1. handed[o] \in Seq(Queue!Messages) /\ port[o].queue \in Seq(Queue!Messages)
      BY <1>1, PortFields
    <2>2. posted[o] = handed[o] \o port[o].queue
      BY <1>1 DEF DrainInv
    <2>3. PICK s \in Seq(Queue!Messages) : s = handed[o]
      BY <2>1
    <2>4. PICK u \in Seq(Queue!Messages) : u = port[o].queue
      BY <2>1
    <2>5. /\ Append(s \o u, m) = s \o Append(u, m)
          /\ Append(s \o u, m) \in Seq(Queue!Messages) /\ Append(u, m) \in Seq(Queue!Messages)
          /\ Append(u, m) # <<>>
      BY JobQueuedBehind
    <2> QED BY <2>2, <2>3, <2>4, <2>5
  <1>4. \A q \in Queue!Ports : /\ port'[q].target = port[q].target /\ port'[q].closed = port[q].closed
                               /\ port'[q].pendingClose = port[q].pendingClose
                               /\ q # o => /\ port'[q].queue = port[q].queue
                                           /\ port'[q].draining = port[q].draining
                                           /\ posted'[q] = posted[q]
                               /\ q = o => /\ port'[q].queue = Append(port[o].queue, m)
                                           /\ port'[q].draining
                                           /\ posted'[q] = Append(posted[o], m)
    BY <1>1, <1>2 DEF Queue!PortsTypeOK
  <1>5. Queue!PortsTypeOK'
    BY <1>1, <1>2, <1>3 DEF Queue!PortsTypeOK
  <1>6. ~HasClose(jobs, o) /\ port[o].closed = FALSE /\ port[o].pendingClose = FALSE
    BY <1>1, PortFields DEF CloseInv, Queue!Shut
  <1>7. /\ jobs' \in Seq(Jobs)
        /\ Has(jobs', Queue!DrainOf(o)) => Has(jobs, Queue!DrainOf(o)) \/ ~port[o].draining
        /\ ~port[o].draining => Has(jobs', Queue!DrainOf(o))
        /\ Has(jobs, Queue!DrainOf(o)) => Has(jobs', Queue!DrainOf(o))
        /\ \A q \in Queue!Ports : /\ DrainsBeforeCloses(jobs', q)
                                  /\ HasClose(jobs', q) => HasClose(jobs, q)
                                  /\ Has(jobs', Queue!CloseOf(q, FALSE)) => Has(jobs, Queue!CloseOf(q, FALSE))
                                  /\ q # o => (Has(jobs', Queue!DrainOf(q)) <=> Has(jobs, Queue!DrainOf(q)))
    <2>1. jobs \in Seq(Jobs) /\ \A q \in Queue!Ports : DrainsBeforeCloses(jobs, q)
      BY <1>1 DEF QueueTypeOK, CloseInv
    <2>2. CASE port[o].draining
      BY <1>2, <2>1, <2>2
    <2>3. CASE ~port[o].draining
      <3>1. jobs' = Append(jobs, Queue!DrainOf(o)) /\ Queue!DrainOf(o) \in Jobs
        BY <1>2, <2>3, Kinds
      <3>2. ~Has(jobs, Queue!DrainOf(o))
        BY <1>1, <2>3 DEF DrainInv
      <3>3. \A q \in Queue!Ports : /\ ~Closes(Queue!DrainOf(o), q) /\ Queue!DrainOf(o) # Queue!CloseOf(q, FALSE)
                                   /\ q # o => Queue!DrainOf(o) # Queue!DrainOf(q)
        <4>1. Queue!DrainOf(o).what = "drain" /\ \A q \in Queue!Ports : q # o => Queue!DrainOf(o) # Queue!DrainOf(q)
          BY Kinds
        <4>2. \A q : Queue!CloseOf(q, FALSE).what = "close"
          BY Kinds2
        <4> QED BY <4>1, <4>2 DEF Closes
      <3>4. \A k \in 1 .. Len(jobs) : ~Closes(jobs[k], o)
        BY <1>6 DEF HasClose
      <3>5. ASSUME NEW q \in Queue!Ports PROVE DrainsBeforeCloses(jobs', q)
        BY <2>1, <3>1, <3>2, <3>3, <3>4, OrderAppend
      <3>6. ASSUME NEW q \in Queue!Ports PROVE HasClose(jobs', q) => HasClose(jobs, q)
        BY <2>1, <3>1, <3>3, CloseAppend
      <3>7. ASSUME NEW e PROVE Has(jobs', e) <=> Has(jobs, e) \/ Queue!DrainOf(o) = e
        BY <2>1, <3>1, HasAppend
      <3> QED BY <2>1, <2>3, <3>1, <3>3, <3>5, <3>6, <3>7, Appends
    <2> QED BY <2>2, <2>3
  <1>8. running' = running
    OBVIOUS
  <1>9. QueueTypeOK'
    BY <1>1, <1>7, <1>8 DEF QueueTypeOK
  <1>10. DrainInv'
    <2> SUFFICES ASSUME NEW q \in Queue!Ports
                 PROVE  (/\ posted[q] = handed[q] \o port[q].queue
                         /\ port[q].queue # <<>> => port[q].draining
                         /\ Has(jobs, Queue!DrainOf(q)) => port[q].draining /\ running # Queue!MessageOf(q)
                         /\ running = Queue!MessageOf(q) => port[q].draining
                         /\ port[q].draining /\ q \notin threw =>
                                Has(jobs, Queue!DrainOf(q)) \/ running = Queue!MessageOf(q))'
      BY DEF DrainInv
    <2>1. /\ posted[q] = handed[q] \o port[q].queue
          /\ port[q].queue # <<>> => port[q].draining
          /\ Has(jobs, Queue!DrainOf(q)) => port[q].draining /\ running # Queue!MessageOf(q)
          /\ running = Queue!MessageOf(q) => port[q].draining
          /\ port[q].draining /\ q \notin threw => Has(jobs, Queue!DrainOf(q)) \/ running = Queue!MessageOf(q)
      BY <1>1 DEF DrainInv
    <2>2. handed' = handed /\ threw' = threw
      OBVIOUS
    <2>3. CASE q = o
      <3>1. posted'[q] = handed'[q] \o port'[q].queue
        BY <2>2, <2>3, <1>3, <1>4
      <3> QED BY <2>1, <2>2, <2>3, <3>1, <1>4, <1>7, <1>8
    <2>4. CASE q # o
      <3>1. posted'[q] = posted[q] /\ port'[q].queue = port[q].queue
        BY <2>4, <1>4
      <3>2. posted'[q] = handed'[q] \o port'[q].queue
        BY <2>1, <2>2, <3>1, Zenon
      <3> QED BY <2>1, <2>2, <2>4, <3>1, <3>2, <1>4, <1>7, <1>8
    <2> QED BY <2>3, <2>4
  <1>11. CloseInv'
    <2>1. port'[1].target = "peer" <=> port'[2].target = "peer"
      BY <1>1, <1>4, OtherPort DEF CloseInv
    <2> SUFFICES ASSUME NEW q \in Queue!Ports
                 PROVE  (/\ DrainsBeforeCloses(jobs, q)
                         /\ port[q].closed => port[q].pendingClose
                         /\ HasClose(jobs, q) => port[q].pendingClose /\ ~port[q].closed
                         /\ Has(jobs, Queue!CloseOf(q, FALSE)) => port[q].target # "peer"
                         /\ port[q].pendingClose /\ port[q].target = "peer" =>
                                port[Queue!Other(q)].pendingClose
                         /\ ~port[q].closed => closes[q] = 0
                         /\ closes[q] <= 1
                         /\ running = Queue!ClosedOf(Queue!Other(q), TRUE) => closes[q] = 0 /\ port[q].closed
                         /\ port[q].closed /\ q \notin threw =>
                                port[q].queue = <<>> /\ ~port[q].draining)'
      BY <2>1 DEF CloseInv
    <2>2. port'[Queue!Other(q)].pendingClose = port[Queue!Other(q)].pendingClose
      BY <1>4, OtherPort
    <2>3. closes' = closes /\ threw' = threw
      OBVIOUS
    <2>4. CASE q = o
      BY <2>2, <2>3, <2>4, <1>1, <1>4, <1>6, <1>7, <1>8 DEF CloseInv
    <2>5. CASE q # o
      <3>1. port'[q].queue = port[q].queue /\ port'[q].draining = port[q].draining
        BY <2>5, <1>4
      <3>2. /\ port[q].closed => port[q].pendingClose
            /\ HasClose(jobs, q) => port[q].pendingClose /\ ~port[q].closed
            /\ Has(jobs, Queue!CloseOf(q, FALSE)) => port[q].target # "peer"
            /\ port[q].pendingClose /\ port[q].target = "peer" => port[Queue!Other(q)].pendingClose
            /\ ~port[q].closed => closes[q] = 0
            /\ closes[q] <= 1
            /\ running = Queue!ClosedOf(Queue!Other(q), TRUE) => closes[q] = 0 /\ port[q].closed
            /\ port[q].closed /\ q \notin threw => port[q].queue = <<>> /\ ~port[q].draining
        BY <1>1 DEF CloseInv
      <3>3. /\ port'[q].target = port[q].target /\ port'[q].closed = port[q].closed
            /\ port'[q].pendingClose = port[q].pendingClose
        BY <1>4
      <3> QED BY <2>2, <2>3, <3>1, <3>2, <3>3, <1>7, <1>8
    <2> QED BY <2>4, <2>5
  <1> QED BY <1>5, <1>9, <1>10, <1>11 DEF PortsInv

LEMMA PostMessageKeeps ==
    ASSUME MaxMessages \in Nat, PortsInv, NEW p \in Queue!Ports, Queue!PostMessage(p)
    PROVE  PortsInv'
  <1>1. Queue!PortsTypeOK /\ QueueTypeOK /\ DrainInv /\ CloseInv
    BY DEF PortsInv
  <1>2. UNCHANGED <<handed, closes, threw, running>> /\ Queue!PostedCount < MaxMessages
    BY DEF Queue!PostMessage
  <1>3. Queue!Other(p) \in Queue!Ports
    BY OtherPort
  <1>4. Queue!PostedCount + 1 \in Queue!Messages
    <2>1. /\ Len(posted[1]) \in Nat /\ Len(posted[2]) \in Nat
          /\ proxy[1].got \in Nat /\ proxy[2].got \in Nat
      BY <1>1, OtherPort, PortFields
    <2>2. Queue!PostedCount \in Nat
      <3>1. \A i, j, k, l \in Nat : i + j + k + l \in Nat
        OBVIOUS
      <3> QED BY <2>1, <3>1 DEF Queue!PostedCount
    <2> QED BY <2>2, <1>2 DEF Queue!Messages
  <1>5. CASE Queue!Shut(Queue!Other(p)) /\ UNCHANGED <<port, posted, jobs, proxy>>
    BY <1>1, <1>2, <1>5 DEF PortsInv, Queue!PortsTypeOK, QueueTypeOK, DrainInv, CloseInv
  <1>6. CASE ~Queue!Shut(Queue!Other(p)) /\ Queue!EnqueueDelivery(Queue!Other(p), Queue!PostedCount + 1) /\ UNCHANGED proxy
    <2>1. PICK m \in Queue!Messages : m = Queue!PostedCount + 1
      BY <1>4
    <2>2. PICK o \in Queue!Ports : o = Queue!Other(p)
      BY <1>3
    <2>3. Queue!EnqueueDelivery(o, m) /\ ~Queue!Shut(o)
      BY <1>6, <2>1, <2>2
    <2>4. UNCHANGED <<proxy, handed, closes, threw, running>>
      BY <1>2, <1>6
    <2> QED BY <2>3, <2>4, EnqueueKeeps
  <1>7. ASSUME proxy' = [proxy EXCEPT ![Queue!Other(p)].queue = @ + 1, ![Queue!Other(p)].got = @ + 1,
                                      ![Queue!Other(p)].draining = TRUE],
               jobs' = IF proxy[Queue!Other(p)].draining THEN jobs
                       ELSE Append(jobs, Queue!ProxyDrainOf(Queue!Other(p))),
               UNCHANGED <<port, posted>>
        PROVE  PortsInv'
    <2>1. jobs \in Seq(Jobs) /\ \A q \in Queue!Ports : DrainsBeforeCloses(jobs, q)
      BY <1>1 DEF QueueTypeOK, CloseInv
    <2>2. Queue!ProxyDrainOf(Queue!Other(p)) \in Jobs /\ Queue!ProxyDrainOf(Queue!Other(p)).what \notin {"drain", "close"}
      BY <1>3, Kinds
    <2>3. jobs' \in Seq(Jobs) /\ SameForPorts(jobs, jobs')
      BY <1>7, <2>1, <2>2, SameAppend, SameSame
    <2>4. DrainInv' /\ CloseInv'
      BY <1>1, <1>2, <1>7, <2>3, PortsKeep
    <2>5. Queue!PortsTypeOK'
      <3>1. proxy[Queue!Other(p)].queue + 1 \in Nat /\ proxy[Queue!Other(p)].got + 1 \in Nat
        BY <1>1, <1>3, PortFields
      <3>2. proxy' \in [Queue!Ports -> [queue : Nat, got : Nat, draining : BOOLEAN, closed : BOOLEAN]]
        BY <1>1, <1>3, <1>7, <3>1 DEF Queue!PortsTypeOK
      <3> QED BY <1>1, <1>2, <1>7, <3>2 DEF Queue!PortsTypeOK
    <2>6. QueueTypeOK'
      BY <1>1, <1>2, <2>3 DEF QueueTypeOK
    <2> QED BY <2>4, <2>5, <2>6 DEF PortsInv
  <1> QED BY <1>5, <1>6, <1>7 DEF Queue!PostMessage

LEMMA ClosePortKeeps ==
    ASSUME PortsInv, NEW p \in Queue!Ports, Queue!ClosePort(p)
    PROVE  PortsInv'
  <1>1. Queue!PortsTypeOK /\ QueueTypeOK /\ DrainInv /\ CloseInv
    BY DEF PortsInv
  <1>2. PICK both \in BOOLEAN : both = (port[p].target = "peer")
    OBVIOUS
  <1>3. /\ ~Queue!Shut(p)
        /\ port' = [q \in Queue!Ports |-> IF q = p \/ both THEN [port[q] EXCEPT !.pendingClose = TRUE]
                                          ELSE port[q]]
        /\ jobs' = Append(jobs, Queue!CloseOf(p, both))
        /\ UNCHANGED <<proxy, posted, handed, closes, threw, running>>
    BY <1>2 DEF Queue!ClosePort
  <1>4. /\ Queue!CloseOf(p, both) \in Jobs /\ Queue!CloseOf(p, both).what = "close"
        /\ Queue!CloseOf(p, both).of = p /\ Queue!CloseOf(p, both).both = both
    BY Kinds
  <1>5. ~port[p].pendingClose /\ ~port[p].closed
    BY <1>3 DEF Queue!Shut
  <1>6. \A q \in Queue!Ports : q = p \/ both => ~port[q].pendingClose /\ ~port[q].closed
    <2>1. both => port[Queue!Other(p)].target = "peer"
      BY <1>1, <1>2, OtherPort DEF CloseInv
    <2>2. both => ~port[Queue!Other(p)].pendingClose
      BY <1>1, <1>5, <2>1, OtherPort DEF CloseInv
    <2>3. \A q \in Queue!Ports : ~port[q].pendingClose => ~port[q].closed
      BY <1>1 DEF CloseInv
    <2> QED BY <1>5, <2>2, <2>3, OtherPort
  <1>7. \A q \in Queue!Ports : /\ port'[q].queue = port[q].queue /\ port'[q].draining = port[q].draining
                               /\ port'[q].closed = port[q].closed /\ port'[q].target = port[q].target
                               /\ q = p \/ both => port'[q].pendingClose
                               /\ ~(q = p \/ both) => port'[q].pendingClose = port[q].pendingClose
    BY <1>1, <1>3 DEF Queue!PortsTypeOK
  <1>8. Queue!PortsTypeOK'
    <2>1. port' \in [Queue!Ports -> [target : {"peer", "proxy", "none"}, queue : Seq(Queue!Messages),
                                     draining : BOOLEAN, pendingClose : BOOLEAN, closed : BOOLEAN]]
      BY <1>1, <1>3 DEF Queue!PortsTypeOK
    <2>2. UNCHANGED <<proxy, posted, handed, closes, threw>>
      BY <1>3
    <2> QED BY <2>1, <2>2, <1>1 DEF Queue!PortsTypeOK
  <1>9. jobs \in Seq(Jobs) /\ \A q \in Queue!Ports : DrainsBeforeCloses(jobs, q)
    BY <1>1 DEF QueueTypeOK, CloseInv
  <1>10. jobs' \in Seq(Jobs) /\ running' = running /\ closes' = closes /\ threw' = threw
    BY <1>3, <1>4, <1>9, Appends
  <1>11. \A q \in Queue!Ports : /\ DrainsBeforeCloses(jobs', q)
                                /\ HasClose(jobs', q) => HasClose(jobs, q) \/ q = p \/ both
                                /\ Has(jobs', Queue!CloseOf(q, FALSE)) =>
                                       Has(jobs, Queue!CloseOf(q, FALSE)) \/ (q = p /\ ~both)
                                /\ Has(jobs', Queue!DrainOf(q)) <=> Has(jobs, Queue!DrainOf(q))
    <2> SUFFICES ASSUME NEW q \in Queue!Ports
                 PROVE  /\ DrainsBeforeCloses(jobs', q)
                        /\ HasClose(jobs', q) => HasClose(jobs, q) \/ q = p \/ both
                        /\ Has(jobs', Queue!CloseOf(q, FALSE)) =>
                               Has(jobs, Queue!CloseOf(q, FALSE)) \/ (q = p /\ ~both)
                        /\ Has(jobs', Queue!DrainOf(q)) <=> Has(jobs, Queue!DrainOf(q))
      OBVIOUS
    <2> DEFINE e == Queue!CloseOf(p, both)
    <2>1. e \in Jobs /\ jobs' = Append(jobs, e) /\ (Closes(e, q) <=> q = p \/ both)
      BY <1>3, <1>4 DEF Closes
    <2>2. e # Queue!DrainOf(q)
      BY <1>4, Kinds
    <2>3. e = Queue!CloseOf(q, FALSE) => q = p /\ ~both
      <3>1. Queue!CloseOf(q, FALSE).of = q /\ ~Queue!CloseOf(q, FALSE).both
        BY Kinds2
      <3> QED BY <3>1, <1>4
    <2> HIDE DEF e
    <2>4. Closes(e, q) => ~HasClose(jobs, q)
      BY <1>1, <1>6, <2>1 DEF CloseInv
    <2>5. Closes(e, q) => \A k \in 1 .. Len(jobs) : ~Closes(jobs[k], q)
      BY <2>4 DEF HasClose
    <2>6. DrainsBeforeCloses(jobs', q)
      BY <1>9, <2>1, <2>2, <2>5, OrderAppend
    <2>7. HasClose(jobs', q) => HasClose(jobs, q) \/ q = p \/ both
      BY <1>9, <2>1, CloseAppend
    <2>8. Has(jobs', Queue!CloseOf(q, FALSE)) => Has(jobs, Queue!CloseOf(q, FALSE)) \/ e = Queue!CloseOf(q, FALSE)
      BY <1>9, <2>1, HasAppend
    <2>9. Has(jobs', Queue!DrainOf(q)) <=> Has(jobs, Queue!DrainOf(q))
      BY <1>9, <2>1, <2>2, HasAppend
    <2> QED BY <2>3, <2>6, <2>7, <2>8, <2>9
  <1>12. QueueTypeOK'
    BY <1>1, <1>10 DEF QueueTypeOK
  <1>13. DrainInv'
    <2> SUFFICES ASSUME NEW q \in Queue!Ports
                 PROVE  (/\ posted[q] = handed[q] \o port[q].queue
                         /\ port[q].queue # <<>> => port[q].draining
                         /\ Has(jobs, Queue!DrainOf(q)) => port[q].draining /\ running # Queue!MessageOf(q)
                         /\ running = Queue!MessageOf(q) => port[q].draining
                         /\ port[q].draining /\ q \notin threw =>
                                Has(jobs, Queue!DrainOf(q)) \/ running = Queue!MessageOf(q))'
      BY DEF DrainInv
    <2>1. /\ posted[q] = handed[q] \o port[q].queue
          /\ port[q].queue # <<>> => port[q].draining
          /\ Has(jobs, Queue!DrainOf(q)) => port[q].draining /\ running # Queue!MessageOf(q)
          /\ running = Queue!MessageOf(q) => port[q].draining
          /\ port[q].draining /\ q \notin threw => Has(jobs, Queue!DrainOf(q)) \/ running = Queue!MessageOf(q)
      BY <1>1 DEF DrainInv
    <2>2. posted' = posted /\ handed' = handed
      BY <1>3
    <2>3. posted'[q] = handed'[q] \o port'[q].queue
      BY <2>1, <2>2, <1>7, Zenon
    <2> QED BY <2>1, <2>3, <1>7, <1>10, <1>11
  <1>14. CloseInv'
    <2>1. port'[1].target = "peer" <=> port'[2].target = "peer"
      BY <1>1, <1>7, OtherPort DEF CloseInv
    <2> SUFFICES ASSUME NEW q \in Queue!Ports
                 PROVE  (/\ DrainsBeforeCloses(jobs, q)
                         /\ port[q].closed => port[q].pendingClose
                         /\ HasClose(jobs, q) => port[q].pendingClose /\ ~port[q].closed
                         /\ Has(jobs, Queue!CloseOf(q, FALSE)) => port[q].target # "peer"
                         /\ port[q].pendingClose /\ port[q].target = "peer" =>
                                port[Queue!Other(q)].pendingClose
                         /\ ~port[q].closed => closes[q] = 0
                         /\ closes[q] <= 1
                         /\ running = Queue!ClosedOf(Queue!Other(q), TRUE) => closes[q] = 0 /\ port[q].closed
                         /\ port[q].closed /\ q \notin threw =>
                                port[q].queue = <<>> /\ ~port[q].draining)'
      BY <2>1 DEF CloseInv
    <2>2. /\ port[q].closed => port[q].pendingClose
          /\ HasClose(jobs, q) => port[q].pendingClose /\ ~port[q].closed
          /\ Has(jobs, Queue!CloseOf(q, FALSE)) => port[q].target # "peer"
          /\ port[q].pendingClose /\ port[q].target = "peer" => port[Queue!Other(q)].pendingClose
          /\ ~port[q].closed => closes[q] = 0
          /\ closes[q] <= 1
          /\ running = Queue!ClosedOf(Queue!Other(q), TRUE) => closes[q] = 0 /\ port[q].closed
          /\ port[q].closed /\ q \notin threw => port[q].queue = <<>> /\ ~port[q].draining
      BY <1>1 DEF CloseInv
    <2>3. /\ port[q].pendingClose => port'[q].pendingClose
          /\ port[Queue!Other(q)].pendingClose => port'[Queue!Other(q)].pendingClose
          /\ both => port'[Queue!Other(q)].pendingClose
      BY <1>7, OtherPort
    <2>4. HasClose(jobs', q) => port'[q].pendingClose /\ ~port'[q].closed
      BY <1>6, <1>7, <1>11, <2>2, <2>3
    <2>5. port'[q].pendingClose /\ port'[q].target = "peer" => port'[Queue!Other(q)].pendingClose
      <3>1. CASE q = p
        BY <3>1, <1>2, <1>7, <2>3
      <3>2. CASE q # p
        BY <3>2, <1>7, <2>2, <2>3
      <3> QED BY <3>1, <3>2
    <2>6. Has(jobs', Queue!CloseOf(q, FALSE)) => port'[q].target # "peer"
      BY <1>2, <1>7, <1>11, <2>2
    <2>7. port'[q].closed => port'[q].pendingClose
      BY <1>7, <2>2, <2>3
    <2> QED BY <1>7, <1>10, <1>11, <2>2, <2>4, <2>5, <2>6, <2>7
  <1> QED BY <1>8, <1>12, <1>13, <1>14 DEF PortsInv

LEMMA MoveKeeps ==
    ASSUME PortsInv, NEW p \in Queue!Ports, Queue!Move(p)
    PROVE  PortsInv'
  <1>1. Queue!PortsTypeOK /\ QueueTypeOK /\ DrainInv /\ CloseInv
    BY DEF PortsInv
  <1>2. /\ ~Queue!Shut(p)
        /\ port' = [q \in Queue!Ports |->
                       IF q = p THEN [port[q] EXCEPT !.target = "none"]
                       ELSE IF port[p].target = "peer" THEN [port[q] EXCEPT !.target = "proxy"]
                       ELSE port[q]]
        /\ UNCHANGED <<proxy, posted, handed, closes, threw, jobs, running>>
    BY DEF Queue!Move, Queue!queueVars
  <1>3. \A q \in Queue!Ports : /\ port'[q].queue = port[q].queue /\ port'[q].draining = port[q].draining
                               /\ port'[q].closed = port[q].closed
                               /\ port'[q].pendingClose = port[q].pendingClose
                               /\ port'[q].target = IF q = p THEN "none"
                                                    ELSE IF port[p].target = "peer" THEN "proxy"
                                                    ELSE port[q].target
    BY <1>1, <1>2 DEF Queue!PortsTypeOK
  <1>4. \A q \in Queue!Ports : port'[q].target # "peer"
    <2>1. \A q \in Queue!Ports : port[p].target # "peer" => port[q].target # "peer"
      BY <1>1, OtherPort DEF CloseInv
    <2> QED BY <2>1, <1>3
  <1>5. Queue!PortsTypeOK'
    <2>1. port' \in [Queue!Ports -> [target : {"peer", "proxy", "none"}, queue : Seq(Queue!Messages),
                                     draining : BOOLEAN, pendingClose : BOOLEAN, closed : BOOLEAN]]
      BY <1>1, <1>2 DEF Queue!PortsTypeOK
    <2>2. UNCHANGED <<proxy, posted, handed, closes, threw>>
      BY <1>2
    <2> QED BY <2>1, <2>2, <1>1 DEF Queue!PortsTypeOK
  <1>6. QueueTypeOK'
    BY <1>1, <1>2 DEF QueueTypeOK
  <1>7. UNCHANGED <<proxy, posted, handed, closes, threw, jobs, running>>
    BY <1>2
  <1>8. DrainInv'
    <2>1. \A q \in Queue!Ports : posted'[q] = handed'[q] \o port'[q].queue
      <3>1. \A q \in Queue!Ports : posted[q] = handed[q] \o port[q].queue
        BY <1>1 DEF DrainInv
      <3> QED BY <3>1, <1>3, <1>7, Zenon
    <2> QED BY <2>1, <1>1, <1>3, <1>7 DEF DrainInv
  <1>9. CloseInv'
    <2>1. 1 \in Queue!Ports /\ 2 \in Queue!Ports
      BY OtherPort
    <2> QED BY <2>1, <1>1, <1>3, <1>4, <1>7 DEF CloseInv
  <1> QED BY <1>5, <1>6, <1>8, <1>9 DEF PortsInv

\* What leaves the ports, and what is queued for them, alone.
LEMMA AsideKeeps ==
    ASSUME PortsInv, UNCHANGED <<port, posted, handed, closes, threw>>,
           proxy' \in [Queue!Ports -> [queue : Nat, got : Nat, draining : BOOLEAN, closed : BOOLEAN]],
           jobs' \in Seq(Jobs), SameForPorts(jobs, jobs'),
           running' \in Running,
           running' # running => /\ running.what \notin {"message", "closed"}
                                 /\ running'.what \notin {"message", "closed"}
    PROVE  PortsInv'
  <1>1. Queue!PortsTypeOK /\ QueueTypeOK /\ DrainInv /\ CloseInv
    BY DEF PortsInv
  <1>2. /\ \A p \in Queue!Ports : running' = Queue!MessageOf(p) <=> running = Queue!MessageOf(p)
        /\ \A p \in Queue!Ports : running' = Queue!ClosedOf(Queue!Other(p), TRUE) => running = Queue!ClosedOf(Queue!Other(p), TRUE)
    <2>1. \A p : Queue!MessageOf(p).what = "message" /\ Queue!ClosedOf(p, TRUE).what = "closed"
      BY Runs2
    <2> QED BY <2>1
  <1>3. DrainInv' /\ CloseInv'
    BY <1>1, <1>2, PortsKeep
  <1>4. QueueTypeOK' /\ Queue!PortsTypeOK'
    BY <1>1 DEF QueueTypeOK, Queue!PortsTypeOK
  <1> QED BY <1>3, <1>4 DEF PortsInv

LEMMA QueueFacts ==
    ASSUME PortsInv
    PROVE  /\ jobs \in Seq(Jobs) /\ running \in Running
           /\ \A p \in Queue!Ports : DrainsBeforeCloses(jobs, p)
           /\ proxy \in [Queue!Ports -> [queue : Nat, got : Nat, draining : BOOLEAN, closed : BOOLEAN]]
  BY DEF PortsInv, QueueTypeOK, CloseInv, Queue!PortsTypeOK

LEMMA ProxyStepsKeep ==
    ASSUME PortsInv,
           \/ Queue!RunProxyDrain \/ Queue!ErrorReturns \/ Queue!RunProxyClose
           \/ \E p \in Queue!Ports : Queue!CloseProxy(p)
    PROVE  PortsInv'
  <1>1. /\ jobs \in Seq(Jobs) /\ running \in Running
        /\ \A p \in Queue!Ports : DrainsBeforeCloses(jobs, p)
        /\ proxy \in [Queue!Ports -> [queue : Nat, got : Nat, draining : BOOLEAN, closed : BOOLEAN]]
    BY QueueFacts
  <1>2. ASSUME NEW p \in Queue!Ports, Queue!ProxyTurn(p)
        PROVE  /\ proxy' \in [Queue!Ports -> [queue : Nat, got : Nat, draining : BOOLEAN, closed : BOOLEAN]]
               /\ running' \in Running /\ running'.what \notin {"message", "closed"}
    <2>1. CASE proxy[p].queue > 0
      <3>1. proxy' = [proxy EXCEPT ![p].queue = @ - 1] /\ running' = Queue!ErrorOf(p)
        BY <1>2, <2>1 DEF Queue!ProxyTurn
      <3>2. proxy[p].queue - 1 \in Nat
        BY <1>1, <2>1
      <3> QED BY <1>1, <3>1, <3>2, Runs1, Runs2
    <2>2. CASE ~(proxy[p].queue > 0)
      <3>1. proxy' = [proxy EXCEPT ![p].draining = FALSE] /\ running' = Queue!NoJob
        BY <1>2, <2>2 DEF Queue!ProxyTurn
      <3> QED BY <1>1, <3>1, Runs1, Runs2
    <2> QED BY <2>1, <2>2
  <1>3. ASSUME jobs # <<>>, Head(jobs).what \notin {"drain", "close"}, jobs' = Tail(jobs)
        PROVE  jobs' \in Seq(Jobs) /\ SameForPorts(jobs, jobs')
    BY <1>1, <1>3, SameTail
  <1>4. CASE Queue!RunProxyDrain
    <2>1. /\ jobs # <<>> /\ Head(jobs).what = "proxyDrain" /\ running = Queue!NoJob
          /\ jobs' = Tail(jobs) /\ Queue!ProxyTurn(Head(jobs).of) /\ Head(jobs) \in Jobs
          /\ UNCHANGED <<port, posted, handed, closes, threw>>
      BY <1>1, <1>4, Tails DEF Queue!RunProxyDrain, Queue!Begins
    <2>2. PICK p \in Queue!Ports : p = Head(jobs).of
      BY <2>1, JobOf
    <2>3. /\ proxy' \in [Queue!Ports -> [queue : Nat, got : Nat, draining : BOOLEAN, closed : BOOLEAN]]
          /\ running' \in Running /\ running'.what \notin {"message", "closed"}
      BY <1>2, <2>1, <2>2
    <2>4. running.what \notin {"message", "closed"}
      BY <2>1, Runs2
    <2> QED BY <1>3, <2>1, <2>3, <2>4, AsideKeeps
  <1>5. CASE Queue!ErrorReturns
    <2>1. /\ running.what = "messageerror" /\ jobs' = jobs /\ Queue!ProxyTurn(running.of)
          /\ UNCHANGED <<port, posted, handed, closes, threw>>
      BY <1>5 DEF Queue!ErrorReturns
    <2>2. PICK p \in Queue!Ports : p = running.of
      BY <1>1, <2>1, RunningOf
    <2>3. /\ proxy' \in [Queue!Ports -> [queue : Nat, got : Nat, draining : BOOLEAN, closed : BOOLEAN]]
          /\ running' \in Running /\ running'.what \notin {"message", "closed"}
      BY <1>2, <2>1, <2>2
    <2>4. jobs' \in Seq(Jobs) /\ SameForPorts(jobs, jobs')
      BY <1>1, <2>1, SameSame
    <2> QED BY <2>1, <2>3, <2>4, AsideKeeps
  <1>6. CASE Queue!RunProxyClose
    <2>1. /\ jobs # <<>> /\ Head(jobs).what = "proxyClose" /\ jobs' = Tail(jobs)
          /\ running' = running /\ proxy' = proxy /\ UNCHANGED <<port, posted, handed, closes, threw>>
      BY <1>6 DEF Queue!RunProxyClose, Queue!Begins, Queue!portVars
    <2> QED BY <1>1, <1>3, <2>1, AsideKeeps
  <1>7. ASSUME NEW p \in Queue!Ports, Queue!CloseProxy(p) PROVE PortsInv'
    <2>1. /\ proxy' = [proxy EXCEPT ![p].closed = TRUE] /\ jobs' = Append(jobs, Queue!ProxyCloseOf(p))
          /\ running' = running /\ UNCHANGED <<port, posted, handed, closes, threw>>
      BY <1>7 DEF Queue!CloseProxy
    <2>2. proxy' \in [Queue!Ports -> [queue : Nat, got : Nat, draining : BOOLEAN, closed : BOOLEAN]]
      BY <1>1, <2>1
    <2>3. Queue!ProxyCloseOf(p) \in Jobs /\ Queue!ProxyCloseOf(p).what \notin {"drain", "close"}
      BY Kinds
    <2>4. jobs' \in Seq(Jobs) /\ SameForPorts(jobs, jobs')
      BY <1>1, <2>1, <2>3, SameAppend
    <2> QED BY <1>1, <2>1, <2>2, <2>4, AsideKeeps
  <1> QED BY <1>4, <1>5, <1>6, <1>7

LEMMA PortsNextKeeps ==
    ASSUME MaxMessages \in Nat, PortsInv, Queue!PortsNext
    PROVE  PortsInv'
  BY RunDrainKeeps, MessageReturnsKeeps, MessageThrowsKeeps, RunCloseKeeps, CloseReturnsKeeps,
     CloseThrowsKeeps, PostMessageKeeps, ClosePortKeeps, MoveKeeps, ProxyStepsKeep
     DEF Queue!PortsNext

\* What the program queues and runs is not of the ports.
LEMMA ProgramKeepsPorts ==
    ASSUME PortsInv, Queue!ProgramNext
    PROVE  PortsInv'
  <1>1. /\ jobs \in Seq(Jobs) /\ running \in Running
        /\ \A p \in Queue!Ports : DrainsBeforeCloses(jobs, p)
        /\ proxy \in [Queue!Ports -> [queue : Nat, got : Nat, draining : BOOLEAN, closed : BOOLEAN]]
    BY QueueFacts
  <1>2. UNCHANGED <<port, posted, handed, closes, threw>> /\ proxy' = proxy
    BY DEF Queue!ProgramNext, Queue!portVars
  <1>3. jobs \in Seq(Jobs) /\ SameForPorts(jobs, jobs)
    BY <1>1, SameSame
  <1>4. ASSUME NEW i \in ProgramJobs, Queue!ThenAfter(i) PROVE PortsInv'
    <2>1. jobs' = Append(jobs, Queue!ProgramJob(i)) /\ running' = running
      BY <1>4 DEF Queue!ThenAfter, Queue!Then
    <2>2. Queue!ProgramJob(i) \in Jobs /\ Queue!ProgramJob(i).what \notin {"drain", "close"}
      BY Kinds
    <2>3. jobs' \in Seq(Jobs) /\ SameForPorts(jobs, jobs')
      BY <1>1, <2>1, <2>2, SameAppend
    <2> QED BY <1>1, <1>2, <2>1, <2>3, AsideKeeps
  <1>5. CASE Queue!HostTurn
    <2>1. running = Queue!NoJob /\ running' = Queue!Turn /\ jobs' = jobs
      BY <1>5 DEF Queue!HostTurn
    <2> QED BY <1>1, <1>2, <1>3, <2>1, Runs1, Runs2, AsideKeeps
  <1>6. CASE Queue!RunProgramJob
    <2>1. /\ running = Queue!NoJob /\ running' = Head(jobs) /\ jobs' = Tail(jobs) /\ jobs # <<>>
          /\ Head(jobs).what = "program" /\ Head(jobs) \in Jobs
      BY <1>1, <1>6, Tails DEF Queue!RunProgramJob, Queue!Begins
    <2>2. running' \in Running
      BY <2>1, JobOf, Runs1
    <2>3. jobs' \in Seq(Jobs) /\ SameForPorts(jobs, jobs')
      BY <1>1, <2>1, SameTail
    <2> QED BY <1>1, <1>2, <2>1, <2>2, <2>3, Runs2, AsideKeeps
  <1>7. CASE Queue!ProgramReturns
    <2>1. running.what \in {"turn", "program"} /\ running' = Queue!NoJob /\ jobs' = jobs
      BY <1>7 DEF Queue!ProgramReturns
    <2> QED BY <1>1, <1>2, <1>3, <2>1, Runs1, Runs2, AsideKeeps
  <1> QED BY <1>4, <1>5, <1>6, <1>7 DEF Queue!ProgramNext

LEMMA RejectionsKeepPorts ==
    ASSUME PortsInv, Queue!RejectionsNext, UNCHANGED Queue!portVars
    PROVE  PortsInv'
  <1>1. /\ jobs \in Seq(Jobs) /\ running \in Running
        /\ \A p \in Queue!Ports : DrainsBeforeCloses(jobs, p)
        /\ proxy \in [Queue!Ports -> [queue : Nat, got : Nat, draining : BOOLEAN, closed : BOOLEAN]]
    BY QueueFacts
  <1>2. UNCHANGED <<port, posted, handed, closes, threw>> /\ proxy' = proxy
    BY DEF Queue!portVars
  <1>3. jobs \in Seq(Jobs) /\ SameForPorts(jobs, jobs)
    BY <1>1, SameSame
  <1>4. ASSUME NEW r \in Promises, Queue!Reject(r) PROVE PortsInv'
    <2>1. jobs' = Append(jobs, Queue!FirstOf(r)) /\ running' = running
      BY <1>4 DEF Queue!Reject
    <2>2. Queue!FirstOf(r) \in Jobs /\ Queue!FirstOf(r).what \notin {"drain", "close"}
      BY Kinds
    <2>3. jobs' \in Seq(Jobs) /\ SameForPorts(jobs, jobs')
      BY <1>1, <2>1, <2>2, SameAppend
    <2> QED BY <1>1, <1>2, <2>1, <2>3, AsideKeeps
  <1>5. ASSUME NEW r \in Promises, Queue!Handle(r) PROVE PortsInv'
    <2>1. jobs' = jobs /\ running' = running
      BY <1>5 DEF Queue!Handle
    <2> QED BY <1>1, <1>2, <1>3, <2>1, AsideKeeps
  <1>6. CASE Queue!RunFirst
    <2>1. /\ running' = running /\ jobs # <<>> /\ Head(jobs).what = "first" /\ Head(jobs) \in Jobs
          /\ jobs' = Append(Tail(jobs), Queue!SecondOf(Head(jobs).of))
      BY <1>1, <1>6, Tails DEF Queue!RunFirst, Queue!Begins
    <2>2. PICK r \in Promises : r = Head(jobs).of
      BY <2>1, JobOf
    <2>3. PICK t \in Seq(Jobs) : t = Tail(jobs) /\ SameForPorts(jobs, t)
      BY <1>1, <2>1, SameTail
    <2>4. Queue!SecondOf(r) \in Jobs /\ Queue!SecondOf(r).what \notin {"drain", "close"}
      BY Kinds
    <2>5. jobs' = Append(t, Queue!SecondOf(r))
      BY <2>1, <2>2, <2>3
    <2>6. \A p \in Queue!Ports : DrainsBeforeCloses(t, p)
      BY <2>3 DEF SameForPorts
    <2>7. jobs' \in Seq(Jobs) /\ SameForPorts(t, jobs')
      BY <2>4, <2>5, <2>6, SameAppend
    <2>8. SameForPorts(jobs, jobs')
      BY <2>3, <2>7, SameTwice
    <2> QED BY <1>1, <1>2, <2>1, <2>7, <2>8, AsideKeeps
  <1>7. CASE Queue!RunSecond
    <2>1. /\ running = Queue!NoJob /\ jobs # <<>> /\ Head(jobs).what = "second" /\ Head(jobs) \in Jobs
          /\ jobs' = Tail(jobs)
          /\ running' = running \/ running' = Queue!UnhandledOf(Head(jobs).of)
      BY <1>1, <1>7, Tails DEF Queue!RunSecond, Queue!Begins
    <2>2. PICK r \in Promises : r = Head(jobs).of
      BY <2>1, JobOf
    <2>3. running' \in Running /\ running'.what \notin {"message", "closed"}
      BY <1>1, <2>1, <2>2, Runs1, Runs2
    <2>4. jobs' \in Seq(Jobs) /\ SameForPorts(jobs, jobs')
      BY <1>1, <2>1, SameTail
    <2> QED BY <1>1, <1>2, <2>1, <2>3, <2>4, Runs2, AsideKeeps
  <1>8. CASE Queue!UnhandledReturns
    <2>1. running.what = "unhandled" /\ running' = Queue!NoJob /\ jobs' = jobs
      BY <1>8 DEF Queue!UnhandledReturns
    <2> QED BY <1>1, <1>2, <1>3, <2>1, Runs1, Runs2, AsideKeeps
  <1> QED BY <1>4, <1>5, <1>6, <1>7, <1>8 DEF Queue!RejectionsNext

-----------------------------------------------------------------------------
(* The microtasks of the rejections.                                          *)

LEMMA OrderOfTail ==
    ASSUME NEW q \in Seq(Jobs), q # <<>>, NEW r \in Promises, NEW b, MicrotasksOf(q, r, b)
    PROVE  /\ MicrotasksOf(Tail(q), r, b)
           /\ Head(q) = Queue!FirstOf(r) => ~Has(Tail(q), Queue!FirstOf(r)) /\ ~Has(Tail(q), Queue!SecondOf(r))
           /\ Head(q) = Queue!SecondOf(r) => \A m \in b : ~Has(q, Queue!ProgramJob(m))
  <1>1. PICK t \in Seq(Jobs) : t = Tail(q)
    BY Tails
  <1>2. /\ Head(q) = q[1] /\ 1 \in 1 .. Len(q)
        /\ \A k \in 1 .. Len(t) : t[k] = q[k + 1] /\ k + 1 \in 1 .. Len(q) /\ k \in Nat /\ k >= 1
    BY <1>1, Tails
  <1>3. MicrotasksOf(t, r, b)
    <2> SUFFICES ASSUME NEW i \in 1 .. Len(t), NEW j \in 1 .. Len(t)
                 PROVE  /\ t[i] = Queue!FirstOf(r) => t[j] # Queue!SecondOf(r)
                        /\ t[i] = Queue!FirstOf(r) /\ t[j] = Queue!FirstOf(r) => i = j
                        /\ t[i] = Queue!SecondOf(r) => \A m \in b : t[j] = Queue!ProgramJob(m) => j < i
      BY DEF MicrotasksOf
    <2>1. /\ t[i] = q[i + 1] /\ t[j] = q[j + 1] /\ i + 1 \in 1 .. Len(q) /\ j + 1 \in 1 .. Len(q)
          /\ i \in Nat /\ j \in Nat
      BY <1>2
    <2>2. /\ q[i + 1] = Queue!FirstOf(r) => q[j + 1] # Queue!SecondOf(r)
          /\ q[i + 1] = Queue!FirstOf(r) /\ q[j + 1] = Queue!FirstOf(r) => i + 1 = j + 1
          /\ q[i + 1] = Queue!SecondOf(r) => \A m \in b : q[j + 1] = Queue!ProgramJob(m) => j + 1 < i + 1
      BY <2>1 DEF MicrotasksOf
    <2> QED BY <2>1, <2>2
  <1>4. ASSUME Head(q) = Queue!FirstOf(r) PROVE ~Has(t, Queue!FirstOf(r)) /\ ~Has(t, Queue!SecondOf(r))
    <2>1. ASSUME NEW k \in 1 .. Len(t), t[k] = Queue!FirstOf(r) \/ t[k] = Queue!SecondOf(r) PROVE FALSE
      <3>1. /\ k + 1 \in 1 .. Len(q) /\ q[1] = Queue!FirstOf(r) /\ k >= 1 /\ k \in Nat
            /\ q[k + 1] = Queue!FirstOf(r) \/ q[k + 1] = Queue!SecondOf(r)
        BY <1>2, <1>4, <2>1
      <3>2. k + 1 = 1
        BY <1>2, <3>1 DEF MicrotasksOf
      <3> QED BY <3>1, <3>2
    <2> QED BY <2>1 DEF Has
  <1>5. ASSUME Head(q) = Queue!SecondOf(r), NEW m \in b, NEW k \in 1 .. Len(q), q[k] = Queue!ProgramJob(m)
        PROVE  FALSE
    <2>1. k < 1
      BY <1>2, <1>5 DEF MicrotasksOf
    <2> QED BY <2>1
  <1> QED BY <1>1, <1>3, <1>4, <1>5 DEF Has

LEMMA OrderOfAppend ==
    ASSUME NEW q \in Seq(Jobs), NEW e \in Jobs, NEW r \in Promises, NEW b, NEW c,
           MicrotasksOf(q, r, b),
           e = Queue!FirstOf(r) => ~Has(q, Queue!FirstOf(r)) /\ ~Has(q, Queue!SecondOf(r)),
           e = Queue!SecondOf(r) => ~Has(q, Queue!FirstOf(r)),
           Has(q, Queue!SecondOf(r)) => c \subseteq b /\ \A m \in c : e # Queue!ProgramJob(m)
    PROVE  MicrotasksOf(Append(q, e), r, c)
  <1>1. PICK t \in Seq(Jobs) : t = Append(q, e)
    BY Appends
  <1>2. PICK n \in Nat : n = Len(q)
    OBVIOUS
  <1>3. /\ Len(t) = n + 1 /\ t[n + 1] = e
        /\ \A k \in 1 .. n : t[k] = q[k]
        /\ \A k \in 1 .. n + 1 : k \in 1 .. n \/ k = n + 1
    BY <1>1, <1>2, Appends
  <1>4. \A i, j \in 1 .. n :
            /\ q[i] = Queue!FirstOf(r) => q[j] # Queue!SecondOf(r)
            /\ q[i] = Queue!FirstOf(r) /\ q[j] = Queue!FirstOf(r) => i = j
            /\ q[i] = Queue!SecondOf(r) => \A m \in b : q[j] = Queue!ProgramJob(m) => j < i
    BY <1>2 DEF MicrotasksOf
  <1>5. /\ e = Queue!FirstOf(r) => \A k \in 1 .. n : q[k] # Queue!FirstOf(r) /\ q[k] # Queue!SecondOf(r)
        /\ e = Queue!SecondOf(r) => \A k \in 1 .. n : q[k] # Queue!FirstOf(r)
        /\ \A k \in 1 .. n : q[k] = Queue!SecondOf(r) => c \subseteq b /\ \A m \in c : e # Queue!ProgramJob(m)
    BY <1>2 DEF Has
  <1>6. Queue!FirstOf(r) # Queue!SecondOf(r) /\ \A m : Queue!SecondOf(r) # Queue!ProgramJob(m)
    BY DEF Queue!FirstOf, Queue!SecondOf, Queue!ProgramJob
  <1> SUFFICES ASSUME NEW i \in 1 .. n + 1, NEW j \in 1 .. n + 1
               PROVE  /\ t[i] = Queue!FirstOf(r) => t[j] # Queue!SecondOf(r)
                      /\ t[i] = Queue!FirstOf(r) /\ t[j] = Queue!FirstOf(r) => i = j
                      /\ t[i] = Queue!SecondOf(r) => \A m \in c : t[j] = Queue!ProgramJob(m) => j < i
    BY <1>1, <1>3 DEF MicrotasksOf
  <1>7. CASE i \in 1 .. n /\ j \in 1 .. n
    BY <1>7, <1>3, <1>4, <1>5
  <1>8. CASE i = n + 1 /\ j = n + 1
    BY <1>8, <1>3, <1>6
  <1>9. CASE i \in 1 .. n /\ j = n + 1
    BY <1>9, <1>3, <1>5
  <1>10. CASE i = n + 1 /\ j \in 1 .. n
    BY <1>10, <1>3, <1>5
  <1> QED BY <1>3, <1>7, <1>8, <1>9, <1>10

\* What port p queues says nothing of rejections, and what a port runs neither.
LEMMA PortsQueue ==
    ASSUME QueueTypeOK, Queue!PortsNext
    PROVE  \/ jobs' = jobs
           \/ jobs # <<>> /\ jobs' = Tail(jobs)
           \/ \E e \in PortJobs : jobs' = Append(jobs, e)
  <1>1. \A p \in Queue!Ports : /\ Queue!DrainOf(p) \in PortJobs /\ Queue!ProxyDrainOf(p) \in PortJobs
                               /\ Queue!ProxyCloseOf(p) \in PortJobs /\ Queue!Other(p) \in Queue!Ports
    BY OtherPort DEF PortJobs
  <1>2. \A p \in Queue!Ports, b \in BOOLEAN : Queue!CloseOf(p, b) \in PortJobs
    BY DEF PortJobs
  <1>3. ASSUME NEW p \in Queue!Ports, Queue!PostMessage(p)
        PROVE  jobs' = jobs \/ \E e \in PortJobs : jobs' = Append(jobs, e)
    BY <1>1, <1>3 DEF Queue!PostMessage, Queue!EnqueueDelivery
  <1>4. ASSUME NEW p \in Queue!Ports, Queue!ClosePort(p) PROVE \E e \in PortJobs : jobs' = Append(jobs, e)
    BY <1>2, <1>4 DEF Queue!ClosePort
  <1>5. ASSUME NEW p \in Queue!Ports, Queue!Move(p) PROVE jobs' = jobs
    BY <1>5 DEF Queue!Move, Queue!queueVars
  <1>6. ASSUME NEW p \in Queue!Ports, Queue!CloseProxy(p) PROVE \E e \in PortJobs : jobs' = Append(jobs, e)
    BY <1>1, <1>6 DEF Queue!CloseProxy
  <1>7. Queue!RunDrain \/ Queue!RunClose \/ Queue!RunProxyDrain \/ Queue!RunProxyClose => jobs # <<>> /\ jobs' = Tail(jobs)
    BY DEF Queue!RunDrain, Queue!RunClose, Queue!RunProxyDrain, Queue!RunProxyClose, Queue!Begins
  <1>8. Queue!MessageReturns \/ Queue!MessageThrows \/ Queue!CloseReturns \/ Queue!CloseThrows \/ Queue!ErrorReturns => jobs' = jobs
    BY DEF Queue!MessageReturns, Queue!MessageThrows, Queue!CloseReturns, Queue!CloseThrows,
       Queue!ErrorReturns
  <1> QED BY <1>3, <1>4, <1>5, <1>6, <1>7, <1>8 DEF Queue!PortsNext

LEMMA PortJobsApart ==
    ASSUME NEW e \in PortJobs
    PROVE  /\ e \in Jobs
           /\ \A r : e # Queue!FirstOf(r) /\ e # Queue!SecondOf(r) /\ e # Queue!ProgramJob(r)
  <1>1. e \in Jobs
    BY DEF Jobs
  <1>2. e.what \in {"drain", "close", "proxyDrain", "proxyClose"}
    BY DEF PortJobs, Queue!DrainOf, Queue!CloseOf, Queue!ProxyDrainOf, Queue!ProxyCloseOf
  <1>3. \A r : Queue!FirstOf(r).what = "first" /\ Queue!SecondOf(r).what = "second" /\ Queue!ProgramJob(r).what = "program"
    BY DEF Queue!FirstOf, Queue!SecondOf, Queue!ProgramJob
  <1> QED BY <1>1, <1>2, <1>3

LEMMA PortsKeepRejections ==
    ASSUME QueueTypeOK, RejectionsInv, Queue!RejectionsTypeOK, Queue!PortsNext, UNCHANGED Queue!rejectionVars
    PROVE  Queue!RejectionsTypeOK' /\ RejectionsInv'
  <1>1. UNCHANGED <<promise, pendingRejections, reported, before>>
    BY DEF Queue!rejectionVars
  <1>2. jobs \in Seq(Jobs)
    BY DEF QueueTypeOK
  <1>3. ASSUME NEW r \in Promises
        PROVE  /\ Has(jobs', Queue!FirstOf(r)) => Has(jobs, Queue!FirstOf(r))
               /\ Has(jobs', Queue!SecondOf(r)) => Has(jobs, Queue!SecondOf(r))
               /\ MicrotasksOf(jobs', r, before[r])
    <2>1. MicrotasksOf(jobs, r, before[r])
      BY DEF RejectionsInv
    <2>2. CASE jobs' = jobs
      BY <2>1, <2>2
    <2>3. CASE jobs # <<>> /\ jobs' = Tail(jobs)
      BY <1>2, <2>1, <2>3, HasTail, OrderOfTail
    <2>4. ASSUME NEW e \in PortJobs, jobs' = Append(jobs, e)
          PROVE  /\ Has(jobs', Queue!FirstOf(r)) => Has(jobs, Queue!FirstOf(r))
                 /\ Has(jobs', Queue!SecondOf(r)) => Has(jobs, Queue!SecondOf(r))
                 /\ MicrotasksOf(jobs', r, before[r])
      BY <1>2, <2>1, <2>4, HasAppend, OrderOfAppend, PortJobsApart
    <2> QED BY <2>2, <2>3, <2>4, PortsQueue
  <1>4. RejectionsInv'
    BY <1>1, <1>3 DEF RejectionsInv
  <1> QED BY <1>1, <1>4 DEF Queue!RejectionsTypeOK

LEMMA ProgramKeepsRejections ==
    ASSUME QueueTypeOK, RejectionsInv, Queue!RejectionsTypeOK, Queue!ProgramNext
    PROVE  Queue!RejectionsTypeOK' /\ RejectionsInv'
  <1>1. jobs \in Seq(Jobs)
    BY DEF QueueTypeOK
  <1>2. ASSUME NEW i \in ProgramJobs, Queue!ThenAfter(i)
        PROVE  Queue!RejectionsTypeOK' /\ RejectionsInv'
    <2>1. /\ jobs' = Append(jobs, Queue!ProgramJob(i))
          /\ before' = [r \in Promises |->
                           IF Queue!FirstOf(r) \in Queue!ToSet(jobs) THEN before[r] \cup {i} ELSE before[r] \ {i}]
          /\ UNCHANGED <<promise, pendingRejections, reported>>
      BY <1>2 DEF Queue!ThenAfter, Queue!Then
    <2>2. /\ Queue!ProgramJob(i) \in Jobs
          /\ \A r : Queue!ProgramJob(i) # Queue!FirstOf(r) /\ Queue!ProgramJob(i) # Queue!SecondOf(r)
          /\ \A m : Queue!ProgramJob(i) = Queue!ProgramJob(m) => m = i
      <3>1. \A r : /\ Queue!FirstOf(r).what = "first" /\ Queue!SecondOf(r).what = "second"
                   /\ Queue!ProgramJob(r).what = "program" /\ Queue!ProgramJob(r).of = r
        BY DEF Queue!FirstOf, Queue!SecondOf, Queue!ProgramJob
      <3> QED BY <3>1, Kinds
    <2>3. ASSUME NEW r \in Promises
          PROVE  /\ Has(jobs', Queue!FirstOf(r)) => Has(jobs, Queue!FirstOf(r))
                 /\ Has(jobs', Queue!SecondOf(r)) => Has(jobs, Queue!SecondOf(r))
                 /\ MicrotasksOf(jobs', r, before'[r])
      <3>1. MicrotasksOf(jobs, r, before[r])
        BY DEF RejectionsInv
      <3>2. Queue!FirstOf(r) \in Queue!ToSet(jobs) <=> Has(jobs, Queue!FirstOf(r))
        BY <1>1, InQueue
      <3>3. Has(jobs, Queue!FirstOf(r)) => ~Has(jobs, Queue!SecondOf(r))
        BY <3>1 DEF MicrotasksOf, Has
      <3>4. Has(jobs, Queue!SecondOf(r)) => before'[r] = before[r] \ {i}
        BY <2>1, <3>2, <3>3
      <3>5. Has(jobs, Queue!SecondOf(r)) =>
                /\ before'[r] \subseteq before[r]
                /\ \A m \in before'[r] : Queue!ProgramJob(i) # Queue!ProgramJob(m)
        BY <2>2, <3>4
      <3>6. MicrotasksOf(Append(jobs, Queue!ProgramJob(i)), r, before'[r])
        BY <1>1, <2>2, <3>1, <3>5, OrderOfAppend
      <3> QED BY <1>1, <2>1, <2>2, <3>6, HasAppend
    <2>4. RejectionsInv'
      BY <2>1, <2>3 DEF RejectionsInv
    <2>5. before' \in [Promises -> SUBSET ProgramJobs]
      BY <2>1 DEF Queue!RejectionsTypeOK
    <2> QED BY <2>1, <2>4, <2>5 DEF Queue!RejectionsTypeOK
  <1>3. ASSUME Queue!HostTurn \/ Queue!RunProgramJob \/ Queue!ProgramReturns, UNCHANGED Queue!rejectionVars
        PROVE  Queue!RejectionsTypeOK' /\ RejectionsInv'
    <2>1. UNCHANGED <<promise, pendingRejections, reported, before>>
      BY <1>3 DEF Queue!rejectionVars
    <2>2. jobs' = jobs \/ (jobs # <<>> /\ jobs' = Tail(jobs))
      BY <1>3 DEF Queue!HostTurn, Queue!RunProgramJob, Queue!ProgramReturns, Queue!Begins
    <2>3. ASSUME NEW r \in Promises
          PROVE  /\ Has(jobs', Queue!FirstOf(r)) => Has(jobs, Queue!FirstOf(r))
                 /\ Has(jobs', Queue!SecondOf(r)) => Has(jobs, Queue!SecondOf(r))
                 /\ MicrotasksOf(jobs', r, before[r])
      <3>1. MicrotasksOf(jobs, r, before[r])
        BY DEF RejectionsInv
      <3>2. CASE jobs' = jobs
        BY <3>1, <3>2
      <3>3. CASE jobs # <<>> /\ jobs' = Tail(jobs)
        BY <1>1, <3>1, <3>3, HasTail, OrderOfTail
      <3> QED BY <2>2, <3>2, <3>3
    <2>4. RejectionsInv'
      BY <2>1, <2>3 DEF RejectionsInv
    <2> QED BY <2>1, <2>4 DEF Queue!RejectionsTypeOK
  <1> QED BY <1>2, <1>3 DEF Queue!ProgramNext

LEMMA RejectionsKeep ==
    ASSUME QueueTypeOK, RejectionsInv, Queue!RejectionsTypeOK, Queue!RejectionsNext
    PROVE  Queue!RejectionsTypeOK' /\ RejectionsInv'
  <1>1. jobs \in Seq(Jobs)
    BY DEF QueueTypeOK
  <1>2. \A r, s : /\ Queue!FirstOf(r) # Queue!SecondOf(s)
                  /\ Queue!FirstOf(r) = Queue!FirstOf(s) => r = s
                  /\ Queue!SecondOf(r) = Queue!SecondOf(s) => r = s
                  /\ Queue!FirstOf(r) # Queue!ProgramJob(s) /\ Queue!SecondOf(r) # Queue!ProgramJob(s)
    <2>1. \A r : /\ Queue!FirstOf(r).what = "first" /\ Queue!FirstOf(r).of = r
                 /\ Queue!SecondOf(r).what = "second" /\ Queue!SecondOf(r).of = r
                 /\ Queue!ProgramJob(r).what = "program"
      BY DEF Queue!FirstOf, Queue!SecondOf, Queue!ProgramJob
    <2> QED BY <2>1
  <1>3. \A r \in Promises : MicrotasksOf(jobs, r, before[r])
    BY DEF RejectionsInv
  <1>4. ASSUME NEW s \in Promises, Queue!Reject(s)
        PROVE  Queue!RejectionsTypeOK' /\ RejectionsInv'
    <2>1. /\ promise[s] = "pending" /\ promise' = [promise EXCEPT ![s] = "rejected"]
          /\ pendingRejections' = pendingRejections \cup {s} /\ jobs' = Append(jobs, Queue!FirstOf(s))
          /\ before' = [before EXCEPT ![s] = Queue!QueuedByProgram]
          /\ reported' = reported
      BY <1>4 DEF Queue!Reject
    <2>2. Queue!QueuedByProgram \in SUBSET ProgramJobs
      BY DEF Queue!QueuedByProgram
    <2>3. Queue!RejectionsTypeOK'
      BY <2>1, <2>2 DEF Queue!RejectionsTypeOK
    <2>4. Queue!FirstOf(s) \in Jobs
      BY Kinds
    <2>5. ~Has(jobs, Queue!FirstOf(s)) /\ ~Has(jobs, Queue!SecondOf(s))
      BY <2>1 DEF RejectionsInv
    <2>6. ASSUME NEW r \in Promises
          PROVE  /\ r # s => (Has(jobs', Queue!FirstOf(r)) => Has(jobs, Queue!FirstOf(r)))
                 /\ Has(jobs', Queue!SecondOf(r)) => Has(jobs, Queue!SecondOf(r))
                 /\ MicrotasksOf(jobs', r, before'[r])
      <3>1. /\ r # s => (Has(jobs', Queue!FirstOf(r)) => Has(jobs, Queue!FirstOf(r)))
            /\ Has(jobs', Queue!SecondOf(r)) => Has(jobs, Queue!SecondOf(r))
        BY <1>1, <1>2, <2>1, <2>4, HasAppend
      <3>2. r # s => before'[r] = before[r] /\ Queue!FirstOf(s) # Queue!FirstOf(r)
        BY <1>2, <2>1 DEF Queue!RejectionsTypeOK
      <3>3. /\ Queue!FirstOf(s) = Queue!FirstOf(r) => ~Has(jobs, Queue!FirstOf(r)) /\ ~Has(jobs, Queue!SecondOf(r))
            /\ Queue!FirstOf(s) = Queue!SecondOf(r) => ~Has(jobs, Queue!FirstOf(r))
            /\ Has(jobs, Queue!SecondOf(r)) => /\ before'[r] \subseteq before[r]
                                               /\ \A m \in before'[r] : Queue!FirstOf(s) # Queue!ProgramJob(m)
        BY <1>2, <2>5, <3>2
      <3>4. MicrotasksOf(Append(jobs, Queue!FirstOf(s)), r, before'[r])
        BY <1>1, <1>3, <2>4, <3>3, OrderOfAppend
      <3> QED BY <2>1, <3>1, <3>4
    <2>7. \A r \in Promises : /\ r # s => promise'[r] = promise[r]
                              /\ r = s => promise'[r] = "rejected"
      BY <2>1 DEF Queue!RejectionsTypeOK
    <2>8. RejectionsInv'
      <3> SUFFICES ASSUME NEW r \in Promises
                   PROVE  (/\ r \in pendingRejections => promise[r] = "rejected"
                           /\ promise[r] = "pending" =>
                                  ~Has(jobs, Queue!FirstOf(r)) /\ ~Has(jobs, Queue!SecondOf(r))
                           /\ MicrotasksOf(jobs, r, before[r]))'
        BY DEF RejectionsInv
      <3>1. r \in pendingRejections => promise[r] = "rejected"
        BY DEF RejectionsInv
      <3>2. promise[r] = "pending" => ~Has(jobs, Queue!FirstOf(r)) /\ ~Has(jobs, Queue!SecondOf(r))
        BY DEF RejectionsInv
      <3> QED BY <2>1, <2>6, <2>7, <3>1, <3>2
    <2> QED BY <2>3, <2>8
  <1>5. ASSUME NEW s \in Promises, Queue!Handle(s)
        PROVE  Queue!RejectionsTypeOK' /\ RejectionsInv'
    <2>1. /\ promise[s] = "rejected" /\ promise' = [promise EXCEPT ![s] = "handled"]
          /\ pendingRejections' = pendingRejections \ {s}
          /\ UNCHANGED <<jobs, reported, before>>
      BY <1>5 DEF Queue!Handle
    <2> QED BY <2>1 DEF Queue!RejectionsTypeOK, RejectionsInv
  <1>6. CASE Queue!RunFirst
    <2>1. /\ jobs # <<>> /\ Head(jobs).what = "first" /\ Head(jobs) \in Jobs
          /\ jobs' = Append(Tail(jobs), Queue!SecondOf(Head(jobs).of))
          /\ UNCHANGED <<promise, pendingRejections, reported, before>>
      BY <1>1, <1>6, Tails DEF Queue!RunFirst, Queue!Begins, Queue!rejectionVars
    <2>2. PICK s \in Promises : s = Head(jobs).of /\ Head(jobs) = Queue!FirstOf(s)
      BY <2>1, JobOf
    <2>3. PICK t \in Seq(Jobs) : t = Tail(jobs)
      BY <1>1, <2>1, Tails
    <2>4. jobs' = Append(t, Queue!SecondOf(s)) /\ Queue!SecondOf(s) \in Jobs
      BY <2>1, <2>2, <2>3, Kinds
    <2>5. promise[s] # "pending"
      BY <1>1, <2>1, <2>2, Tails DEF RejectionsInv, Has
    <2>6. ASSUME NEW r \in Promises
          PROVE  /\ Has(jobs', Queue!FirstOf(r)) => Has(jobs, Queue!FirstOf(r))
                 /\ r # s => (Has(jobs', Queue!SecondOf(r)) => Has(jobs, Queue!SecondOf(r)))
                 /\ MicrotasksOf(jobs', r, before[r])
      <3>1. /\ Has(t, Queue!FirstOf(r)) => Has(jobs, Queue!FirstOf(r))
            /\ Has(t, Queue!SecondOf(r)) => Has(jobs, Queue!SecondOf(r))
        BY <1>1, <2>1, <2>3, HasTail
      <3>2. /\ Has(jobs', Queue!FirstOf(r)) => Has(t, Queue!FirstOf(r))
            /\ r # s => (Has(jobs', Queue!SecondOf(r)) => Has(t, Queue!SecondOf(r)))
        BY <1>2, <2>4, HasAppend
      <3>3. /\ MicrotasksOf(t, r, before[r])
            /\ r = s => ~Has(t, Queue!FirstOf(r))
        BY <1>1, <1>3, <2>1, <2>2, <2>3, OrderOfTail
      <3>4. /\ Queue!SecondOf(s) = Queue!FirstOf(r) => ~Has(t, Queue!FirstOf(r)) /\ ~Has(t, Queue!SecondOf(r))
            /\ Queue!SecondOf(s) = Queue!SecondOf(r) => ~Has(t, Queue!FirstOf(r))
            /\ Has(t, Queue!SecondOf(r)) => /\ before[r] \subseteq before[r]
                                            /\ \A m \in before[r] : Queue!SecondOf(s) # Queue!ProgramJob(m)
        BY <1>2, <3>3
      <3>5. MicrotasksOf(Append(t, Queue!SecondOf(s)), r, before[r])
        BY <2>4, <3>3, <3>4, OrderOfAppend
      <3> QED BY <2>4, <3>1, <3>2, <3>5
    <2>7. RejectionsInv'
      BY <2>1, <2>5, <2>6 DEF RejectionsInv
    <2> QED BY <2>1, <2>7 DEF Queue!RejectionsTypeOK
  <1>7. CASE Queue!RunSecond
    <2>1. /\ jobs # <<>> /\ Head(jobs).what = "second" /\ Head(jobs) \in Jobs /\ jobs' = Tail(jobs)
          /\ pendingRejections' = pendingRejections \ {Head(jobs).of}
          /\ reported' = reported \/ reported' = reported \cup {Head(jobs).of}
          /\ UNCHANGED <<promise, before>>
      BY <1>1, <1>7, Tails DEF Queue!RunSecond, Queue!Begins
    <2>2. PICK s \in Promises : s = Head(jobs).of
      BY <2>1, JobOf
    <2>3. ASSUME NEW r \in Promises
          PROVE  /\ Has(jobs', Queue!FirstOf(r)) => Has(jobs, Queue!FirstOf(r))
                 /\ Has(jobs', Queue!SecondOf(r)) => Has(jobs, Queue!SecondOf(r))
                 /\ MicrotasksOf(jobs', r, before[r])
      BY <1>1, <1>3, <2>1, HasTail, OrderOfTail
    <2>4. RejectionsInv'
      BY <2>1, <2>3 DEF RejectionsInv
    <2> QED BY <2>1, <2>2, <2>4 DEF Queue!RejectionsTypeOK
  <1>8. CASE Queue!UnhandledReturns
    <2>1. UNCHANGED <<jobs, promise, pendingRejections, reported, before>>
      BY <1>8 DEF Queue!UnhandledReturns, Queue!rejectionVars
    <2> QED BY <2>1 DEF Queue!RejectionsTypeOK, RejectionsInv
  <1> QED BY <1>4, <1>5, <1>6, <1>7, <1>8 DEF Queue!RejectionsNext

-----------------------------------------------------------------------------
(* Theorems.                                                                  *)

LEMMA InitMicrotasks ==
    ASSUME MaxMessages \in Nat, Queue!Init
    PROVE  MicrotasksInv
  <1>1. /\ jobs = <<>> /\ running = Queue!NoJob /\ Queue!PortsInit /\ Queue!RejectionsInit
    BY DEF Queue!Init, Queue!QueueInit
  <1>2. \A e : ~Has(jobs, e)
    BY <1>1 DEF Has
  <1>3. \A p : ~HasClose(jobs, p)
    BY <1>1 DEF HasClose
  <1>4. QueueTypeOK
    BY <1>1, Runs1 DEF QueueTypeOK
  <1>5. \A p \in Queue!Ports : /\ port[p].target = "peer" /\ port[p].queue = <<>> /\ ~port[p].draining
                               /\ ~port[p].pendingClose /\ ~port[p].closed
                               /\ posted[p] = <<>> /\ handed[p] = <<>> /\ closes[p] = 0
    BY <1>1 DEF Queue!PortsInit
  <1>6. Queue!PortsTypeOK
    <2>1. <<>> \in Seq(Queue!Messages)
      OBVIOUS
    <2>2. port \in [Queue!Ports -> [target : {"peer", "proxy", "none"}, queue : Seq(Queue!Messages),
                                    draining : BOOLEAN, pendingClose : BOOLEAN, closed : BOOLEAN]]
      BY <1>1, <2>1 DEF Queue!PortsInit
    <2>3. proxy \in [Queue!Ports -> [queue : Nat, got : Nat, draining : BOOLEAN, closed : BOOLEAN]]
      BY <1>1 DEF Queue!PortsInit
    <2>4. /\ posted \in [Queue!Ports -> Seq(Queue!Messages)] /\ handed \in [Queue!Ports -> Seq(Queue!Messages)]
          /\ closes \in [Queue!Ports -> Nat] /\ threw \subseteq Queue!Ports
      BY <1>1, <2>1 DEF Queue!PortsInit
    <2> QED BY <2>2, <2>3, <2>4 DEF Queue!PortsTypeOK
  <1>7. DrainInv
    <2>1. <<>> = <<>> \o <<>>
      OBVIOUS
    <2>2. \A p \in Queue!Ports : running # Queue!MessageOf(p)
      BY <1>1, Runs2
    <2> QED BY <1>2, <1>5, <2>1, <2>2 DEF DrainInv
  <1>8. CloseInv
    <2>1. \A p \in Queue!Ports : DrainsBeforeCloses(jobs, p)
      BY <1>1 DEF DrainsBeforeCloses
    <2>2. \A p : running # Queue!ClosedOf(p, TRUE)
      BY <1>1, Runs2
    <2>3. port[1].target = "peer" /\ port[2].target = "peer"
      BY <1>5, OtherPort
    <2>4. \A p \in Queue!Ports : /\ DrainsBeforeCloses(jobs, p)
                                 /\ ~HasClose(jobs, p)
                                 /\ ~Has(jobs, Queue!CloseOf(p, FALSE))
                                 /\ running # Queue!ClosedOf(Queue!Other(p), TRUE)
                                 /\ ~port[p].closed /\ ~port[p].pendingClose /\ closes[p] = 0
      BY <1>2, <1>3, <1>5, <2>1, <2>2
    <2>5. \A p \in Queue!Ports : closes[p] <= 1
      <3>1. \A p \in Queue!Ports : closes[p] = 0
        BY <1>5
      <3> QED BY <3>1
    <2> QED BY <2>3, <2>4, <2>5 DEF CloseInv
  <1>9. Queue!RejectionsTypeOK
    BY <1>1 DEF Queue!RejectionsInit, Queue!RejectionsTypeOK
  <1>10. RejectionsInv
    <2>1. \A r \in Promises : MicrotasksOf(jobs, r, before[r])
      BY <1>1 DEF MicrotasksOf
    <2> QED BY <1>1, <1>2, <2>1 DEF Queue!RejectionsInit, RejectionsInv
  <1> QED BY <1>4, <1>6, <1>7, <1>8, <1>9, <1>10 DEF MicrotasksInv, PortsInv

LEMMA NextKeepsMicrotasks ==
    ASSUME MaxMessages \in Nat, MicrotasksInv, [Queue!Next]_Queue!vars
    PROVE  MicrotasksInv'
  <1>1. PortsInv /\ Queue!RejectionsTypeOK /\ RejectionsInv /\ QueueTypeOK
    BY DEF MicrotasksInv, PortsInv
  <1>2. CASE Queue!ProgramNext
    BY <1>1, <1>2, ProgramKeepsPorts, ProgramKeepsRejections DEF MicrotasksInv
  <1>3. CASE Queue!PortsNext /\ UNCHANGED Queue!rejectionVars
    BY <1>1, <1>3, PortsNextKeeps, PortsKeepRejections DEF MicrotasksInv
  <1>4. CASE Queue!RejectionsNext /\ UNCHANGED Queue!portVars
    BY <1>1, <1>4, RejectionsKeepPorts, RejectionsKeep DEF MicrotasksInv
  <1>5. CASE UNCHANGED Queue!vars
    <2>1. UNCHANGED <<jobs, running, port, proxy, posted, handed, closes, threw, promise,
                      pendingRejections, reported, before>>
      BY <1>5 DEF Queue!vars, Queue!queueVars, Queue!portVars, Queue!rejectionVars
    <2>2. PortsInv'
      BY <1>1, <2>1 DEF PortsInv, QueueTypeOK, Queue!PortsTypeOK, DrainInv, CloseInv
    <2>3. Queue!RejectionsTypeOK' /\ RejectionsInv'
      BY <1>1, <2>1 DEF Queue!RejectionsTypeOK, RejectionsInv
    <2> QED BY <2>2, <2>3 DEF MicrotasksInv
  <1> QED BY <1>2, <1>3, <1>4, <1>5 DEF Queue!Next

\* The queue of microtasks keeps, for each port, one drain and one close in this order, and
\* for each rejected promise its microtasks behind the jobs they are to let pass.
THEOREM MicrotasksInvIsInvariant ==
    ASSUME MaxMessages \in Nat
    PROVE  Queue!Spec => []MicrotasksInv
  <1>1. Queue!Init => MicrotasksInv
    BY InitMicrotasks
  <1>2. MicrotasksInv /\ [Queue!Next]_Queue!vars => MicrotasksInv'
    BY NextKeepsMicrotasks
  <1> QED BY <1>1, <1>2, PTL DEF Queue!Spec

\* A port hands over every message queued at it once and in the order of posting, and closes
\* after the last, whatever is moved, closed or thrown meanwhile (_enqueueDelivery, close and
\* moveMessagePortToContext of worker_threads.js).
THEOREM PortsAlwaysDeliver ==
    ASSUME MaxMessages \in Nat
    PROVE  Queue!Spec => []PortsDeliver
  <1>1. MicrotasksInv => Queue!TypeOK
    BY DEF MicrotasksInv, PortsInv, Queue!TypeOK
  <1>2. ASSUME MicrotasksInv PROVE Queue!DrainComes
    <2>1. Queue!PortsTypeOK /\ DrainInv /\ jobs \in Seq(Jobs)
      BY <1>2 DEF MicrotasksInv, PortsInv, QueueTypeOK
    <2>2. \A p \in Queue!Ports : Queue!DrainOf(p) \in Queue!ToSet(jobs) <=> Has(jobs, Queue!DrainOf(p))
      BY <2>1, InQueue
    <2>3. \A p \in Queue!Ports : port[p].draining \in BOOLEAN
      BY <2>1, PortFields
    <2> QED BY <2>1, <2>2, <2>3 DEF DrainInv, Queue!DrainComes
  <1>3. ASSUME MicrotasksInv PROVE Queue!CloseComesLast
    <2>1. Queue!PortsTypeOK /\ CloseInv /\ jobs \in Seq(Jobs)
      BY <1>3 DEF MicrotasksInv, PortsInv, QueueTypeOK
    <2>2. ASSUME NEW p \in Queue!Ports, NEW i \in 1 .. Len(jobs), NEW j \in 1 .. Len(jobs),
                 jobs[i].what = "close", jobs[j] = Queue!DrainOf(p), jobs[i].of = p \/ jobs[i].both
          PROVE  j < i
      BY <2>1, <2>2 DEF CloseInv, DrainsBeforeCloses, Closes
    <2>3. \A p \in Queue!Ports \ threw : /\ closes[p] <= 1
                                         /\ port[p].closed => port[p].queue = <<>> /\ ~port[p].draining
      BY <2>1 DEF CloseInv
    <2> QED BY <2>2, <2>3 DEF Queue!CloseComesLast
  <1>4. MicrotasksInv => PortsDeliver
    BY <1>1, <1>2, <1>3 DEF PortsDeliver, Queue!PortsDeliver
  <1> QED BY <1>4, MicrotasksInvIsInvariant, PTL

\* 'unhandledRejection' is emitted for a promise that has no handler, and after every job that
\* was queued in time to add one has run (the two microtasks of the tracker in process.js).
THEOREM ReportsAreAlwaysLate ==
    ASSUME MaxMessages \in Nat
    PROVE  Queue!Spec => Queue!ReportsAreLate
  <1>1. ASSUME MicrotasksInv, [Queue!Next]_Queue!vars, NEW r \in reported' \ reported
        PROVE  promise[r] = "rejected" /\ Queue!QueuedByProgram \cap before[r] = {}
    <2>1. Queue!RejectionsTypeOK /\ RejectionsInv /\ jobs \in Seq(Jobs)
      BY <1>1 DEF MicrotasksInv, PortsInv, QueueTypeOK
    <2>2. Queue!RunSecond
      BY <1>1 DEF Queue!Next, Queue!ProgramNext, Queue!ThenAfter, Queue!RejectionsNext,
         Queue!RunFirst, Queue!UnhandledReturns, Queue!Reject, Queue!Handle, Queue!vars,
         Queue!rejectionVars
    <2>3. /\ jobs # <<>> /\ Head(jobs).what = "second" /\ Head(jobs) \in Jobs
          /\ r = Head(jobs).of /\ r \in pendingRejections
      BY <1>1, <2>1, <2>2, Tails DEF Queue!RunSecond, Queue!Begins
    <2>4. r \in Promises /\ Head(jobs) = Queue!SecondOf(r)
      BY <2>3, JobOf
    <2>5. promise[r] = "rejected" /\ MicrotasksOf(jobs, r, before[r])
      BY <2>1, <2>3, <2>4 DEF RejectionsInv
    <2>6. \A m \in before[r] : ~Has(jobs, Queue!ProgramJob(m))
      BY <2>1, <2>3, <2>4, <2>5, OrderOfTail
    <2>7. \A m \in before[r] : Queue!ProgramJob(m) \notin Queue!ToSet(jobs)
      BY <2>1, <2>6, InQueue
    <2> QED BY <2>5, <2>7 DEF Queue!QueuedByProgram
  <1>2. MicrotasksInv /\ [Queue!Next]_Queue!vars =>
            [\A r \in reported' \ reported :
                 promise[r] = "rejected" /\ Queue!QueuedByProgram \cap before[r] = {}]_<<jobs, Queue!rejectionVars>>
    BY <1>1
  <1> QED BY <1>2, MicrotasksInvIsInvariant, PTL DEF Queue!Spec, Queue!ReportsAreLate

=============================================================================
