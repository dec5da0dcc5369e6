--------------------------- MODULE HttpClientProof ---------------------------
(* The agent of node:http: for any number of requests and hosts and any       *)
(* limits, it counts the requests it has admitted and keeps its sockets       *)
(* apart, and what was destroyed gets no response.                            *)
EXTENDS HttpClient, FiniteSetTheorems, SequenceTheorems, TLAPS

Steps == {"drain queues", "leave", "close", "finish it", "wait", "loop"}
Places == {"open", "queued", "called", "flushing", "flushed", "sending", "leaving", "settled",
           "stranded", "done", "lost"}
Past == {"settled", "done"}
\* Where a request is when the step that ends its _doSend() follows, and after _doSend().
Ending == {"sending", "leaving"}
AfterEnd == {"settled", "stranded"}
Limits ==
    [maxSockets : Nat, maxTotal : Nat, maxFree : Nat, name : [Requests -> Names],
     destroys : SUBSET {"agent", "requests", "sockets"}]
Todos == {<<>>} \cup {<<Step(w, r)>> : w \in Steps, r \in Requests}

RequestFields ==
    [ended : BOOLEAN, destroyed : BOOLEAN, deferred : BOOLEAN, response : BOOLEAN,
     closed : BOOLEAN, keep : BOOLEAN, pending : Int, needDrain : BOOLEAN,
     flushes : Int, loop : {"none", "own", "chain"}, broken : BOOLEAN, thrown : BOOLEAN]
NativeFields ==
    [state : {"created", "started", "finished", "ready", "aborted", "consumed"},
     op : {"none", "start", "write", "finish", "wait"},
     answer : {"none", "pending", "ok", "failed"}]
TickSteps == [what : {"socket close", "destroyed"}, of : Requests]

FieldsOK ==
    /\ setting \in Limits
    /\ todo \in Todos
    /\ ticks \in Seq(TickSteps)
    /\ req \in [Requests -> RequestFields] /\ native \in [Requests -> NativeFields]
    /\ pc \in [Requests -> Places]
    /\ count \in [Names -> Nat] /\ emptied \in BOOLEAN
    /\ queue \in [Names -> Seq(Requests)] /\ free \in [Names -> Seq(Requests)]
    /\ inUse \subseteq Requests /\ dead \subseteq Requests
    /\ socketOf \in [Requests -> Requests \cup {NoSocket}]

\* Where a request is when its loop, a call to its native request or a step of the turn goes on.
Awaiting == {"finish", "wait"}

FlowOf(r) ==
    /\ req[r].loop = "own" => pc[r] = "flushing"
    /\ native[r].op \in Awaiting => pc[r] = "sending"
    /\ req[r].closed => req[r].destroyed \/ pc[r] \in Past
    /\ todo \in {<<Step("finish it", r)>>, <<Step("wait", r)>>} =>
         pc[r] = "sending" /\ native[r].op \notin Awaiting
    /\ todo = <<Step("leave", r)>> => pc[r] \in Ending /\ native[r].op \notin Awaiting
    /\ todo = <<Step("close", r)>> => req[r].destroyed \/ pc[r] \in Past

QueueOf(n) ==
    IsInjective(queue[n]) /\ \A r \in ToSet(queue[n]) : pc[r] = "queued" /\ setting.name[r] = n

\* The tick that reports a destroyed request.
Told == \A t \in ToSet(ticks) : t.what = "destroyed" => req[t.of].destroyed

FlowInv == (\A r \in Requests : FlowOf(r)) /\ (\A n \in Names : QueueOf(n)) /\ Told

\* A request that has not taken its socket: nobody has the one that it may make.
Fresh(r) == pc[r] \notin Holding \cup Past

PoolInv ==
    /\ \A n \in Names :
        /\ IsInjective(free[n]) /\ Len(free[n]) <= setting.maxFree
        /\ \A s \in ToSet(free[n]) : NameOf[s] = n /\ s \notin inUse
    /\ \A s \in inUse : \E r \in Requests : socketOf[r] = s /\ pc[r] \in Holding
    /\ \A q, r \in Requests :
        q # r /\ pc[q] \in Holding /\ pc[r] \in Holding /\ socketOf[q] = socketOf[r]
            => socketOf[q] = NoSocket
    /\ \A s \in dead \cap (inUse \cup AllFree) : Step("socket close", s) \in ToSet(ticks)
    /\ \A r \in Requests : Fresh(r) =>
        /\ socketOf[r] = NoSocket
        /\ r \notin dead \cup inUse \cup AllFree
        /\ \A q \in Requests : socketOf[q] # r
    /\ \A r \in Requests : socketOf[r] # NoSocket =>
        /\ NameOf[socketOf[r]] = NameOf[r]
        /\ pc[r] \in Holding => socketOf[r] \notin AllFree /\ socketOf[r] \in inUse \cup dead
    /\ \A t \in ToSet(ticks) : t.what = "socket close" => t.of \in dead

DrainFollows == \E r \in Requests : todo = <<Step("drain queues", r)>>

SlotsInv ==
    /\ \A n \in Names :
        /\ count[n] <= Cardinality(Admitted(n))
        /\ ~emptied => count[n] = Cardinality(Admitted(n)) /\ count[n] <= setting.maxSockets
        /\ queue[n] # <<>> /\ CanRun(n) => DrainFollows
    /\ ~emptied => Total <= setting.maxTotal

ClientInv == FieldsOK /\ FlowInv /\ PoolInv /\ SlotsInv

\* The constants: finitely many requests to finitely many hosts, and finite limits.
ClientConstants ==
    /\ IsFiniteSet(Requests) /\ IsFiniteSet(Names) /\ NoSocket \notin Requests
    /\ Settings \subseteq Limits

-----------------------------------------------------------------------------
(* Steps, sequences and sets.                                                 *)

LEMMA StepsApart ==
    ASSUME NEW v, NEW w, NEW q, NEW r
    PROVE  /\ Step(v, q).what = v /\ Step(v, q).of = q
           /\ Step(v, q) = Step(w, r) <=> v = w /\ q = r
           /\ <<Step(v, q)>> = <<Step(w, r)>> <=> v = w /\ q = r
           /\ <<Step(v, q)>> # <<>>
           /\ Head(<<Step(v, q)>>) = Step(v, q) /\ Tail(<<Step(v, q)>>) = <<>>
  BY DEF Step

LEMMA NextStep ==
    ASSUME todo \in Todos, NEW w, Follows(w)
    PROVE  \E r \in Requests : todo = <<Step(w, r)>> /\ Head(todo) = Step(w, r)
                               /\ Head(todo).of = r /\ Tail(todo) = <<>>
  <1>1. PICK v \in Steps, r \in Requests : todo = <<Step(v, r)>>
    BY StepsApart DEF Todos, Follows
  <1>2. Head(todo).what = v
    BY <1>1, StepsApart
  <1>3. v = w
    BY <1>2 DEF Follows
  <1> QED BY <1>1, <1>3, StepsApart

LEMMA AnyStep ==
    ASSUME NEW w \in Steps, NEW r \in Requests
    PROVE  <<Step(w, r)>> \in Todos
  BY DEF Todos

LEMMA ElementOf ==
    ASSUME NEW S, NEW s \in Seq(S), NEW i \in 1 .. Len(s)
    PROVE  s[i] \in ToSet(s)
  BY DEF ToSet

LEMMA MembersOf ==
    ASSUME NEW S, NEW s \in Seq(S)
    PROVE  \A e \in ToSet(s) : e \in S
  BY DEF ToSet

LEMMA Appended ==
    ASSUME NEW S, NEW s \in Seq(S), NEW e \in S
    PROVE  /\ Append(s, e) \in Seq(S) /\ Len(Append(s, e)) = Len(s) + 1 /\ Len(s) \in Nat
           /\ \A i \in 1 .. Len(s) : (Append(s, e))[i] = s[i]
           /\ (Append(s, e))[Len(s) + 1] = e
  OBVIOUS

LEMMA AppendedSet ==
    ASSUME NEW S, NEW s \in Seq(S), NEW e \in S
    PROVE  Append(s, e) \in Seq(S) /\ ToSet(Append(s, e)) = ToSet(s) \cup {e}
  <1>1. /\ Append(s, e) \in Seq(S) /\ Len(Append(s, e)) = Len(s) + 1 /\ Len(s) \in Nat
        /\ \A i \in 1 .. Len(s) : (Append(s, e))[i] = s[i]
        /\ (Append(s, e))[Len(s) + 1] = e
    OBVIOUS
  <1>2. ToSet(Append(s, e)) = ToSet(s) \cup {e}
    BY <1>1 DEF ToSet
  <1> QED BY <1>1, <1>2

LEMMA AppendedApart ==
    ASSUME NEW S, NEW s \in Seq(S), NEW e \in S, IsInjective(s), e \notin ToSet(s)
    PROVE  IsInjective(Append(s, e))
  BY Appended, AppendedSet DEF IsInjective, ToSet

LEMMA Shortened ==
    ASSUME NEW S, NEW s \in Seq(S), s # <<>>
    PROVE  /\ Tail(s) \in Seq(S) /\ Head(s) \in S /\ Len(Tail(s)) = Len(s) - 1 /\ Len(s) \in Nat \ {0}
           /\ \A i \in 1 .. Len(Tail(s)) : Tail(s)[i] = s[i + 1]
           /\ Head(s) = s[1]
           /\ ToSet(Tail(s)) \subseteq ToSet(s) /\ Head(s) \in ToSet(s)
           /\ ToSet(s) = ToSet(Tail(s)) \cup {Head(s)}
  <1>1. /\ Tail(s) \in Seq(S) /\ Head(s) \in S /\ Len(Tail(s)) = Len(s) - 1 /\ Len(s) \in Nat \ {0}
        /\ \A i \in 1 .. Len(Tail(s)) : Tail(s)[i] = s[i + 1]
        /\ Head(s) = s[1]
    OBVIOUS
  <1>2. ToSet(Tail(s)) \subseteq ToSet(s) /\ Head(s) \in ToSet(s)
    BY <1>1 DEF ToSet
  <1>4. ToSet(s) \subseteq ToSet(Tail(s)) \cup {Head(s)}
    <2> SUFFICES ASSUME NEW i \in 1 .. Len(s), s[i] # Head(s) PROVE s[i] \in ToSet(Tail(s))
      BY DEF ToSet
    <2>1. PICK k \in Int : i = k + 1
      BY <1>1
    <2>2. k \in 1 .. Len(Tail(s))
      BY <1>1, <2>1
    <2>3. Tail(s)[k] = s[i]
      BY <1>1, <2>1, <2>2
    <2>4. PICK u \in Seq(S) : u = Tail(s)
      BY <1>1
    <2>5. u[k] \in ToSet(u)
      BY <2>2, <2>4, ElementOf
    <2> QED BY <2>3, <2>4, <2>5
  <1> QED BY <1>1, <1>2, <1>4

LEMMA ShortenedApart ==
    ASSUME NEW S, NEW s \in Seq(S), s # <<>>, IsInjective(s)
    PROVE  IsInjective(Tail(s)) /\ Head(s) \notin ToSet(Tail(s))
  <1>1. \A i, j \in 1 .. Len(s) : s[i] = s[j] => i = j
    BY DEF IsInjective
  <1> QED BY <1>1, Shortened DEF IsInjective, ToSet

\* What is left of a sequence without repetitions when one place is taken out.
LEMMA TakenOut ==
    ASSUME NEW S, NEW s \in Seq(S), NEW i \in 1 .. Len(s), IsInjective(s)
    PROVE  /\ RemoveAt(s, i) \in Seq(S) /\ IsInjective(RemoveAt(s, i))
           /\ Len(RemoveAt(s, i)) = Len(s) - 1
           /\ ToSet(RemoveAt(s, i)) = ToSet(s) \ {s[i]}
  <1> DEFINE t == RemoveAt(s, i)
  <1>1. /\ t \in Seq(S) /\ Len(t) = Len(s) - 1 /\ Len(s) \in Nat
        /\ \A k \in 1 .. Len(t) : t[k] = IF k < i THEN s[k] ELSE s[k + 1]
    <2> DEFINE a == SubSeq(s, 1, i - 1)
               b == SubSeq(s, i + 1, Len(s))
    <2>1. a \in Seq(S) /\ Len(a) = i - 1 /\ \A k \in 1 .. i - 1 : a[k] = s[k]
      OBVIOUS
    <2>2. b \in Seq(S) /\ Len(b) = Len(s) - i /\ \A k \in 1 .. Len(s) - i : b[k] = s[i + k]
      OBVIOUS
    <2> HIDE DEF a, b
    <2>3. /\ a \o b \in Seq(S) /\ Len(a \o b) = Len(s) - 1
          /\ \A k \in 1 .. Len(s) - 1 : (a \o b)[k] = IF k < i THEN a[k] ELSE b[k - (i - 1)]
      <3>1. /\ a \o b \in Seq(S) /\ Len(a \o b) = Len(a) + Len(b)
            /\ \A k \in 1 .. Len(a) + Len(b) :
                 (a \o b)[k] = IF k <= Len(a) THEN a[k] ELSE b[k - Len(a)]
        BY <2>1, <2>2, ConcatProperties
      <3>2. Len(a) + Len(b) = Len(s) - 1
        BY <2>1, <2>2
      <3>3. \A k \in 1 .. Len(s) - 1 : k <= Len(a) <=> k < i
        BY <2>1
      <3>4. \A k \in 1 .. Len(s) - 1 : k - Len(a) = k - (i - 1)
        BY <2>1
      <3> QED BY <3>1, <3>2, <3>3, <3>4
    <2>4. \A k \in 1 .. Len(s) - 1 : (a \o b)[k] = IF k < i THEN s[k] ELSE s[k + 1]
      <3> SUFFICES ASSUME NEW k \in 1 .. Len(s) - 1
                   PROVE  (a \o b)[k] = IF k < i THEN s[k] ELSE s[k + 1]
        OBVIOUS
      <3>1. CASE k < i
        BY <2>1, <2>3, <3>1
      <3>2. CASE ~(k < i)
        <4>1. PICK j \in Int : j = k - (i - 1)
          OBVIOUS
        <4>2. j \in 1 .. Len(s) - i /\ i + j = k + 1
          BY <3>2, <4>1
        <4>3. b[j] = s[k + 1]
          BY <2>2, <4>2
        <4> QED BY <2>3, <3>2, <4>1, <4>3
      <3> QED BY <3>1, <3>2
    <2>5. t = a \o b
      BY DEF RemoveAt, a, b
    <2> HIDE DEF t
    <2>6. t \in Seq(S) /\ Len(t) = Len(s) - 1 /\ Len(s) \in Nat
      BY <2>3, <2>5
    <2>7. \A k \in 1 .. Len(t) : t[k] = IF k < i THEN s[k] ELSE s[k + 1]
      BY <2>4, <2>5, <2>6
    <2> QED BY <2>6, <2>7
  <1>2. \A j, k \in 1 .. Len(s) : s[j] = s[k] => j = k
    BY DEF IsInjective
  <1>3. IsInjective(t)
    <2> SUFFICES ASSUME NEW j \in 1 .. Len(t), NEW k \in 1 .. Len(t), t[j] = t[k] PROVE j = k
      BY <1>1 DEF IsInjective
    <2> HIDE DEF t
    <2>1. (IF j < i THEN s[j] ELSE s[j + 1]) = (IF k < i THEN s[k] ELSE s[k + 1])
      BY <1>1
    <2>2. j \in 1 .. Len(s) /\ j + 1 \in 1 .. Len(s) /\ k \in 1 .. Len(s) /\ k + 1 \in 1 .. Len(s)
      BY <1>1
    <2>3. (IF j < i THEN j ELSE j + 1) = (IF k < i THEN k ELSE k + 1)
      BY <1>2, <2>1, <2>2
    <2> QED BY <1>1, <2>3
  <1> HIDE DEF t
  <1>4. ToSet(t) = ToSet(s) \ {s[i]}
    <2>1. ASSUME NEW k \in 1 .. Len(t) PROVE t[k] \in ToSet(s) \ {s[i]}
      <3>1. k \in 1 .. Len(s) /\ k + 1 \in 1 .. Len(s)
        BY <1>1, <2>1
      <3>2. t[k] = IF k < i THEN s[k] ELSE s[k + 1]
        BY <1>1
      <3>3. s[k] \in ToSet(s) /\ s[k + 1] \in ToSet(s)
        BY <3>1 DEF ToSet
      <3>4. k < i => s[k] # s[i]
        BY <1>2, <3>1
      <3>5. ~(k < i) => s[k + 1] # s[i]
        BY <1>2, <3>1
      <3> QED BY <3>2, <3>3, <3>4, <3>5
    <2>2. ASSUME NEW k \in 1 .. Len(s), s[k] # s[i] PROVE s[k] \in ToSet(t)
      <3>1. CASE k < i
        <4>1. k \in 1 .. Len(t) /\ t[k] = s[k]
          BY <1>1, <2>2, <3>1
        <4> QED BY <4>1 DEF ToSet
      <3>2. CASE k > i
        <4>1. PICK j \in Int : k = j + 1
          OBVIOUS
        <4>2. j \in 1 .. Len(t) /\ ~(j < i)
          BY <1>1, <2>2, <3>2, <4>1
        <4>3. t[j] = s[k]
          BY <1>1, <4>1, <4>2
        <4> QED BY <4>2, <4>3 DEF ToSet
      <3> QED BY <2>2, <3>1, <3>2
    <2> QED BY <2>1, <2>2 DEF ToSet
  <1> QED BY <1>1, <1>3, <1>4 DEF t

-----------------------------------------------------------------------------
(* Counting the slots and those that hold them.                               *)

AdmittedOf(p, name, n) == {r \in Requests : name[r] = n /\ p[r] \notin {"open", "queued", "done", "lost"}}
SlotsOf(c) == UNION {{n} \X (1 .. c[n]) : n \in Names}

LEMMA AdmittedCount ==
    ASSUME IsFiniteSet(Requests), NEW p, NEW name, NEW n
    PROVE  /\ IsFiniteSet(AdmittedOf(p, name, n))
           /\ Cardinality(AdmittedOf(p, name, n)) \in 0 .. Cardinality(Requests)
           /\ Cardinality(Requests) \in Nat
  <1>1. AdmittedOf(p, name, n) \in SUBSET Requests
    BY DEF AdmittedOf
  <1>2. IsFiniteSet(AdmittedOf(p, name, n))
        /\ Cardinality(AdmittedOf(p, name, n)) <= Cardinality(Requests)
    BY <1>1, FS_Subset
  <1> QED BY <1>2, FS_CardinalityType

\* One request more, or one less.
LEMMA AdmitOne ==
    ASSUME IsFiniteSet(Requests), NEW p \in [Requests -> Places], NEW name, NEW r \in Requests,
           p[r] \in {"open", "queued"}, NEW n
    PROVE  Cardinality(AdmittedOf([p EXCEPT ![r] = "called"], name, n))
               = Cardinality(AdmittedOf(p, name, n)) + (IF name[r] = n THEN 1 ELSE 0)
  <1> DEFINE a == AdmittedOf(p, name, n)
             b == AdmittedOf([p EXCEPT ![r] = "called"], name, n)
  <1>1. IsFiniteSet(a) /\ Cardinality(a) \in Nat
    BY AdmittedCount
  <1>2. r \notin a
    BY DEF AdmittedOf
  <1>3. CASE name[r] = n
    <2>1. b = a \cup {r}
      BY <1>3 DEF AdmittedOf
    <2> HIDE DEF a, b
    <2>2. Cardinality(b) = Cardinality(a) + 1
      BY <1>1, <1>2, <2>1, FS_AddElement
    <2> QED BY <1>3, <2>2 DEF a, b
  <1>4. CASE name[r] # n
    <2>1. b = a
      BY <1>4 DEF AdmittedOf
    <2> HIDE DEF a, b
    <2>2. Cardinality(b) = Cardinality(a) + 0
      BY <1>1, <2>1
    <2> QED BY <1>4, <2>2 DEF a, b
  <1> QED BY <1>3, <1>4

LEMMA DismissOne ==
    ASSUME IsFiniteSet(Requests), NEW p \in [Requests -> Places], NEW name, NEW r \in Requests,
           p[r] \notin {"open", "queued", "done", "lost"}, NEW n, NEW d \in {"done", "lost"}
    PROVE  /\ Cardinality(AdmittedOf([p EXCEPT ![r] = d], name, n))
               = Cardinality(AdmittedOf(p, name, n)) - (IF name[r] = n THEN 1 ELSE 0)
           /\ name[r] = n => Cardinality(AdmittedOf(p, name, n)) > 0
  <1> DEFINE a == AdmittedOf(p, name, n)
             b == AdmittedOf([p EXCEPT ![r] = d], name, n)
  <1>1. IsFiniteSet(a) /\ Cardinality(a) \in Nat
    BY AdmittedCount
  <1>2. name[r] = n => r \in a
    BY DEF AdmittedOf
  <1>3. CASE name[r] = n
    <2>1. b = a \ {r}
      BY <1>3 DEF AdmittedOf
    <2> HIDE DEF a, b
    <2>2. Cardinality(b) = Cardinality(a) - 1
      BY <1>1, <1>2, <1>3, <2>1, FS_RemoveElement
    <2>3. Cardinality(b) \in Nat
      BY <1>1, <2>1, FS_RemoveElement, FS_CardinalityType
    <2> QED BY <1>1, <1>3, <2>2, <2>3 DEF a, b
  <1>4. CASE name[r] # n
    <2>1. b = a
      BY <1>4 DEF AdmittedOf
    <2> HIDE DEF a, b
    <2>2. Cardinality(b) = Cardinality(a) - 0
      BY <1>1, <2>1
    <2> QED BY <1>4, <2>2 DEF a, b
  <1> QED BY <1>3, <1>4

LEMMA SlotsCount ==
    ASSUME IsFiniteSet(Names), NEW c \in [Names -> Nat], NEW k \in Nat, \A n \in Names : c[n] <= k
    PROVE  IsFiniteSet(SlotsOf(c)) /\ Cardinality(SlotsOf(c)) \in Nat
  <1>1. SlotsOf(c) \in SUBSET (Names \X (1 .. k))
    BY DEF SlotsOf
  <1>2. IsFiniteSet(1 .. k)
    BY FS_Interval
  <1>3. IsFiniteSet(Names \X (1 .. k))
    BY <1>2, FS_Product
  <1> QED BY <1>1, <1>3, FS_Subset, FS_CardinalityType

LEMMA OneSlotMore ==
    ASSUME IsFiniteSet(Names), NEW c \in [Names -> Nat], NEW k \in Nat, \A n \in Names : c[n] <= k,
           NEW m \in Names
    PROVE  Cardinality(SlotsOf([c EXCEPT ![m] = @ + 1])) = Cardinality(SlotsOf(c)) + 1
  <1> DEFINE d == [c EXCEPT ![m] = @ + 1]
             new == <<m, c[m] + 1>>
  <1>1. IsFiniteSet(SlotsOf(c))
    BY SlotsCount
  <1>2. new \notin SlotsOf(c)
    BY DEF SlotsOf
  <1>3. SlotsOf(d) = SlotsOf(c) \cup {new}
    <2>1. \A n \in Names : 1 .. d[n] = IF n = m THEN (1 .. c[n]) \cup {c[n] + 1} ELSE 1 .. c[n]
      <3>1. \A j \in Nat : 1 .. j + 1 = (1 .. j) \cup {j + 1}
        OBVIOUS
      <3>2. \A n \in Names : d[n] = IF n = m THEN c[n] + 1 ELSE c[n]
        OBVIOUS
      <3> HIDE DEF d
      <3> QED BY <3>1, <3>2
    <2>2. \A n \in Names : {n} \X (1 .. d[n]) =
            IF n = m THEN ({n} \X (1 .. c[n])) \cup {new} ELSE {n} \X (1 .. c[n])
      BY <2>1
    <2> HIDE DEF d, new
    <2> QED BY <2>2 DEF SlotsOf
  <1> HIDE DEF d, new
  <1>4. Cardinality(SlotsOf(d)) = Cardinality(SlotsOf(c)) + 1
    BY <1>1, <1>2, <1>3, FS_AddElement
  <1> QED BY <1>4 DEF d

LEMMA NoSlotMore ==
    ASSUME IsFiniteSet(Names), NEW c \in [Names -> Nat], NEW k \in Nat, \A n \in Names : c[n] <= k,
           NEW d \in [Names -> Nat], \A n \in Names : d[n] <= c[n]
    PROVE  Cardinality(SlotsOf(d)) <= Cardinality(SlotsOf(c))
  <1>1. IsFiniteSet(SlotsOf(c))
    BY SlotsCount
  <1>2. SlotsOf(d) \in SUBSET SlotsOf(c)
    BY DEF SlotsOf
  <1> QED BY <1>1, <1>2, FS_Subset

-----------------------------------------------------------------------------
(* What a step that leaves a part of the agent alone has to keep.             *)

LEMMA TickAppended ==
    ASSUME FieldsOK, NEW w \in {"socket close", "destroyed"}, NEW r \in Requests
    PROVE  /\ ToSet(Append(ticks, Step(w, r))) = ToSet(ticks) \cup {Step(w, r)}
           /\ Append(ticks, Step(w, r)) \in Seq(TickSteps)
  <1>1. Step(w, r) \in TickSteps /\ ticks \in Seq(TickSteps)
    BY DEF Step, TickSteps, FieldsOK
  <1>2. PICK t, e : t = ticks /\ e = Step(w, r)
    OBVIOUS
  <1>3. t \in Seq(TickSteps) /\ e \in TickSteps
    BY <1>1, <1>2
  <1>4. \A x \in Seq(TickSteps), y \in TickSteps :
          ToSet(Append(x, y)) = ToSet(x) \cup {y} /\ Append(x, y) \in Seq(TickSteps)
    <2> TAKE x \in Seq(TickSteps), y \in TickSteps
    <2>1. Append(x, y) \in Seq(TickSteps)
      BY AppendedSet, Zenon
    <2>2. ToSet(Append(x, y)) = ToSet(x) \cup {y}
      BY AppendedSet
    <2> QED BY <2>1, <2>2
  <1> QED BY <1>2, <1>3, <1>4

LEMMA SlotsKept ==
    ASSUME SlotsInv, UNCHANGED <<setting, count, queue, emptied>>,
           \A r \in Requests : pc'[r] \in {"open", "queued", "done", "lost"} <=> pc[r] \in {"open", "queued", "done", "lost"},
           DrainFollows => DrainFollows'
    PROVE  SlotsInv'
  <1>1. \A n \in Names : Admitted(n)' = Admitted(n)
    BY DEF Admitted, NameOf
  <1>2. Total' = Total /\ \A n \in Names : CanRun(n)' <=> CanRun(n)
    BY DEF Total, CanRun
  <1>3. \A n \in Names : Cardinality(Admitted(n))' = Cardinality(Admitted(n))
    BY <1>1
  <1> QED BY <1>2, <1>3 DEF SlotsInv

LEMMA TicksGrow ==
    ASSUME FieldsOK,
           \/ ticks' = ticks
           \/ \E r \in Requests : ticks' = Append(ticks, Step("destroyed", r))
    PROVE  /\ ToSet(ticks) \subseteq ToSet(ticks')
           /\ \A t \in ToSet(ticks') : t \in ToSet(ticks) \/ t.what # "socket close"
  <1>1. CASE ticks' = ticks
    BY <1>1
  <1>2. ASSUME NEW r \in Requests, ticks' = Append(ticks, Step("destroyed", r))
        PROVE  /\ ToSet(ticks) \subseteq ToSet(ticks')
               /\ \A t \in ToSet(ticks') : t \in ToSet(ticks) \/ t.what # "socket close"
    <2>1. ToSet(ticks') = ToSet(ticks) \cup {Step("destroyed", r)}
      BY <1>2, TickAppended
    <2>2. Step("destroyed", r).what # "socket close"
      BY DEF Step
    <2> QED BY <2>1, <2>2
  <1> QED BY <1>1, <1>2

LEMMA PoolKept ==
    ASSUME FieldsOK, PoolInv, UNCHANGED <<setting, inUse, free, dead, socketOf>>,
           \A r \in Requests : pc[r] \in Holding => pc'[r] \in Holding,
           \A r \in Requests : Fresh(r)' => Fresh(r),
           \A r \in Requests : pc'[r] \in Holding /\ pc[r] \notin Holding => socketOf[r] = NoSocket,
           \/ ticks' = ticks
           \/ \E r \in Requests : ticks' = Append(ticks, Step("destroyed", r))
    PROVE  PoolInv'
  <1>1. AllFree' = AllFree
    BY DEF AllFree
  <1>2. /\ ToSet(ticks) \subseteq ToSet(ticks')
        /\ \A t \in ToSet(ticks') : t \in ToSet(ticks) \/ t.what # "socket close"
    BY TicksGrow
  <1>3. /\ \A n \in Names :
            /\ IsInjective(free'[n]) /\ Len(free'[n]) <= setting'.maxFree
            /\ \A s \in ToSet(free'[n]) : setting'.name[s] = n /\ s \notin inUse'
        /\ \A s \in inUse' : \E r \in Requests : socketOf'[r] = s /\ pc'[r] \in Holding
    BY DEF PoolInv, NameOf
  <1>4. \A q, r \in Requests :
          q # r /\ pc'[q] \in Holding /\ pc'[r] \in Holding /\ socketOf'[q] = socketOf'[r]
            => socketOf'[q] = NoSocket
    BY DEF PoolInv
  <1>5. \A s \in dead' \cap (inUse' \cup AllFree') :
          Step("socket close", s) \in ToSet(ticks')
    BY <1>1, <1>2 DEF PoolInv
  <1>6. \A r \in Requests : Fresh(r)' =>
          /\ socketOf'[r] = NoSocket
          /\ r \notin dead' \cup inUse' \cup AllFree'
          /\ \A q \in Requests : socketOf'[q] # r
    BY <1>1 DEF PoolInv
  <1>7. \A r \in Requests : socketOf'[r] # NoSocket =>
          /\ setting'.name[socketOf'[r]] = setting'.name[r]
          /\ pc'[r] \in Holding => socketOf'[r] \notin AllFree' /\ socketOf'[r] \in inUse' \cup dead'
    BY <1>1 DEF PoolInv, NameOf
  <1>8. \A t \in ToSet(ticks') : t.what = "socket close" => t.of \in dead'
    BY <1>2 DEF PoolInv
  <1> QED BY <1>3, <1>4, <1>5, <1>6, <1>7, <1>8 DEF PoolInv, NameOf

LEMMA ToldKept ==
    ASSUME FieldsOK, Told,
           \A q \in Requests : req[q].destroyed => req'[q].destroyed,
           \/ ticks' = ticks
           \/ \E s \in Requests : ticks' = Append(ticks, Step("socket close", s))
           \/ \E r \in Requests : ticks' = Append(ticks, Step("destroyed", r)) /\ req'[r].destroyed
    PROVE  Told'
  <1>1. \A t \in ToSet(ticks) : t.of \in Requests
    <2>1. \A t \in ToSet(ticks) : t \in TickSteps
      <3>1. ticks \in Seq(TickSteps)
        BY DEF FieldsOK
      <3> QED BY <3>1, MembersOf
    <2> QED BY <2>1 DEF TickSteps
  <1>2. CASE ticks' = ticks
    BY <1>1, <1>2 DEF Told
  <1>3. ASSUME NEW s \in Requests, NEW w \in {"socket close", "destroyed"},
               ticks' = Append(ticks, Step(w, s)), w = "destroyed" => req'[s].destroyed
        PROVE  Told'
    <2>1. ToSet(ticks') = ToSet(ticks) \cup {Step(w, s)}
      BY <1>3, TickAppended
    <2>2. Step(w, s).what = w /\ Step(w, s).of = s
      BY DEF Step
    <2> QED BY <1>1, <1>3, <2>1, <2>2 DEF Told
  <1> QED BY <1>2, <1>3

LEMMA FlowKept ==
    ASSUME FieldsOK, FlowInv, UNCHANGED <<setting, queue, pc, todo>>,
           \A r \in Requests : req'[r].loop = req[r].loop /\ req'[r].closed = req[r].closed
                               /\ (req[r].destroyed => req'[r].destroyed),
           \A r \in Requests : native'[r].op \in Awaiting => native[r].op \in Awaiting,
           \/ ticks' = ticks
           \/ \E r \in Requests : ticks' = Append(ticks, Step("destroyed", r)) /\ req'[r].destroyed
    PROVE  FlowInv'
  <1>1. ASSUME NEW n \in Names PROVE QueueOf(n)'
    BY DEF FlowInv, QueueOf
  <1>2. ASSUME NEW r \in Requests PROVE FlowOf(r)'
    <2>1. FlowOf(r)
      BY DEF FlowInv
    <2> QED BY <2>1 DEF FlowOf
  <1>3. Told'
    BY ToldKept DEF FlowInv
  <1> QED BY <1>1, <1>2, <1>3 DEF FlowInv

\* The queues stay right while those who wait in them do.
LEMMA QueueKept ==
    ASSUME FieldsOK, FlowInv, UNCHANGED <<setting, queue>>,
           \A q \in Requests : pc'[q] = pc[q] \/ pc[q] # "queued"
    PROVE  \A n \in Names : QueueOf(n)'
  <1> TAKE n \in Names
  <1>1. queue[n] \in Seq(Requests)
    BY DEF FieldsOK
  <1>2. \A q \in ToSet(queue[n]) : q \in Requests
    BY <1>1 DEF ToSet
  <1>3. QueueOf(n)
    BY DEF FlowInv
  <1> QED BY <1>2, <1>3 DEF QueueOf

-----------------------------------------------------------------------------
(* The steps that leave the agent alone.                                      *)

\* One request is changed.
LEMMA Changed ==
    ASSUME req \in [Requests -> RequestFields], NEW r \in Requests, NEW e \in RequestFields,
           req' = [req EXCEPT ![r] = e]
    PROVE  /\ req' \in [Requests -> RequestFields] /\ req'[r] = e
           /\ \A q \in Requests : q # r => req'[q] = req[q]
  OBVIOUS

LEMMA NativeAnswersKeeps ==
    ASSUME ClientInv, NEW r \in Requests, NativeAnswers(r)
    PROVE  ClientInv'
  <1>1. /\ UNCHANGED <<todo, ticks, setting, req, pc, count, queue, emptied, inUse, free, dead, socketOf>>
        /\ native' \in [Requests -> NativeFields]
        /\ \A q \in Requests : native'[q].op = native[q].op
    <2>1. PICK x, y : native' = [native EXCEPT ![r].answer = x, ![r].state = y]
                      /\ x \in {"ok", "failed"}
                      /\ y \in {native[r].state, "started", "finished", "ready"}
      <3>1. CASE native' = [native EXCEPT ![r].answer = "failed"]
        <4>1. native' = [native EXCEPT ![r].answer = "failed", ![r].state = native[r].state]
          BY <3>1 DEF ClientInv, FieldsOK, NativeFields
        <4> QED BY <4>1
      <3>2. CASE native' = [native EXCEPT ![r].answer = "ok",
                    ![r].state = CASE native[r].op = "start" -> "started"
                                   [] native[r].op = "finish" -> "finished"
                                   [] native[r].op = "wait" -> "ready"
                                   [] OTHER -> @]
        <4>1. PICK y : y = CASE native[r].op = "start" -> "started"
                             [] native[r].op = "finish" -> "finished"
                             [] native[r].op = "wait" -> "ready"
                             [] OTHER -> native[r].state
          OBVIOUS
        <4>2. y \in {native[r].state, "started", "finished", "ready"}
          BY <4>1
        <4>3. native' = [native EXCEPT ![r].answer = "ok", ![r].state = y]
          BY <3>2, <4>1
        <4> QED BY <4>2, <4>3
      <3> QED BY <3>1, <3>2 DEF NativeAnswers
    <2>2. native \in [Requests -> NativeFields]
      BY DEF ClientInv, FieldsOK
    <2> QED BY <2>1, <2>2 DEF NativeFields, NativeAnswers, turnVars, agentVars, poolVars
  <1>2. FieldsOK /\ FlowInv /\ PoolInv /\ SlotsInv
    BY DEF ClientInv
  <1>3. FieldsOK'
    BY <1>1, <1>2 DEF FieldsOK
  <1>4. FlowInv'
    BY <1>1, <1>2, FlowKept
  <1>5. PoolInv'
    BY <1>1, <1>2, PoolKept DEF Fresh
  <1>6. SlotsInv'
    BY <1>1, <1>2, SlotsKept DEF DrainFollows
  <1> QED BY <1>3, <1>4, <1>5, <1>6 DEF ClientInv

LEMMA WriteKeeps ==
    ASSUME ClientInv, NEW r \in Requests, Write(r)
    PROVE  ClientInv'
  <1>1. FieldsOK /\ FlowInv /\ PoolInv /\ SlotsInv
    BY DEF ClientInv
  <1>2. /\ UNCHANGED <<todo, ticks, setting, native, pc, count, queue, emptied, inUse, free, dead, socketOf>>
        /\ pc[r] = "open"
        /\ req' = [req EXCEPT ![r].pending = @ + 1, ![r].flushes = @ + 1,
                              ![r].needDrain = @ \/ Buffered(r) + 1 >= HighWater]
    BY DEF Write, turnVars, agentVars, poolVars
  <1>3. req \in [Requests -> RequestFields]
    BY <1>1 DEF FieldsOK
  <1>4. req' \in [Requests -> RequestFields]
        /\ \A q \in Requests : req'[q].loop = req[q].loop /\ req'[q].closed = req[q].closed
                               /\ req'[q].destroyed = req[q].destroyed
    <2>1. PICK n : n = Buffered(r) + 1
      OBVIOUS
    <2>2. req' = [req EXCEPT ![r].pending = @ + 1, ![r].flushes = @ + 1,
                             ![r].needDrain = @ \/ n >= HighWater]
      BY <1>2, <2>1
    <2> QED BY <1>3, <2>2 DEF RequestFields
  <1>5. FieldsOK'
    BY <1>1, <1>2, <1>4 DEF FieldsOK
  <1>7. FlowInv'
    BY <1>1, <1>2, <1>4, FlowKept
  <1>8. PoolInv'
    BY <1>1, <1>2, PoolKept DEF Fresh
  <1>9. SlotsInv'
    BY <1>1, <1>2, SlotsKept DEF DrainFollows
  <1> QED BY <1>5, <1>7, <1>8, <1>9 DEF ClientInv

LEMMA DestroyKeeps ==
    ASSUME ClientInv, NEW r \in Requests, Destroy(r)
    PROVE  ClientInv'
  <1>1. FieldsOK /\ FlowInv /\ PoolInv /\ SlotsInv
    BY DEF ClientInv
  <1>2. /\ UNCHANGED <<todo, setting, pc, count, queue, emptied, inUse, free, dead, socketOf>>
        /\ native' = native \/ native' = [native EXCEPT ![r].state = "aborted"]
        /\ \E thrown \in {FALSE, req[r].response} :
             /\ req' = [req EXCEPT ![r].destroyed = TRUE, ![r].thrown = @ \/ thrown,
                                   ![r].deferred = (native[r].answer = "pending")]
             /\ ticks' = IF thrown THEN ticks ELSE Append(ticks, Step("destroyed", r))
    BY DEF Destroy, AbortNative, agentVars, poolVars
  <1>3. PICK b \in BOOLEAN : b = (native[r].answer = "pending")
    OBVIOUS
  <1>4. req \in [Requests -> RequestFields] /\ native \in [Requests -> NativeFields]
    BY <1>1 DEF FieldsOK
  <1>12. ticks' = ticks \/ ticks' = Append(ticks, Step("destroyed", r))
    BY <1>2
  <1>5. ticks' \in Seq(TickSteps)
    BY <1>1, <1>12, TickAppended DEF FieldsOK
  <1>6. /\ req' \in [Requests -> RequestFields]
        /\ \A q \in Requests : req'[q].loop = req[q].loop /\ req'[q].closed = req[q].closed
                               /\ (req[q].destroyed => req'[q].destroyed)
        /\ req'[r].destroyed
    <2>1. PICK c \in BOOLEAN :
            req' = [req EXCEPT ![r].destroyed = TRUE, ![r].thrown = c, ![r].deferred = b]
      <3>1. \A t \in {FALSE, req[r].response} : (req[r].thrown \/ t) \in BOOLEAN
        OBVIOUS
      <3> QED BY <1>2, <1>3, <3>1
    <2>2. PICK e \in RequestFields : e = req[r]
      BY <1>4
    <2>3. PICK f : f = [e EXCEPT !.destroyed = TRUE, !.thrown = c, !.deferred = b]
      OBVIOUS
    <2>4. f \in RequestFields /\ f.destroyed /\ f.loop = e.loop /\ f.closed = e.closed
      BY <2>3 DEF RequestFields
    <2>5. req' = [req EXCEPT ![r] = f]
      BY <1>4, <2>1, <2>2, <2>3
    <2> QED BY <1>4, <2>2, <2>4, <2>5, Changed
  <1>7. native' \in [Requests -> NativeFields] /\ \A q \in Requests : native'[q].op = native[q].op
    BY <1>2, <1>4 DEF NativeFields
  <1>11. FieldsOK'
    BY <1>1, <1>2, <1>5, <1>6, <1>7 DEF FieldsOK
  <1>8. FlowInv'
    BY <1>1, <1>2, <1>6, <1>7, <1>12, FlowKept
  <1>9. PoolInv'
    BY <1>1, <1>2, <1>12, PoolKept DEF Fresh
  <1>10. SlotsInv'
    BY <1>1, <1>2, SlotsKept DEF DrainFollows
  <1> QED BY <1>8, <1>9, <1>10, <1>11 DEF ClientInv

-----------------------------------------------------------------------------
(* The loop that flushes the body of a request.                               *)

LEMMA NothingToDrain ==
    /\ Idle => ~DrainFollows
    /\ \A w, r : todo = <<Step(w, r)>> /\ w # "drain queues" => ~DrainFollows
  <1>1. ASSUME Idle PROVE ~DrainFollows
    BY <1>1, StepsApart DEF Idle, DrainFollows
  <1>2. ASSUME NEW w, NEW r, todo = <<Step(w, r)>>, w # "drain queues" PROVE ~DrainFollows
    BY <1>2 DEF DrainFollows, Step
  <1> QED BY <1>1, <1>2

LEMMA LoopTurnDoes ==
    ASSUME FieldsOK, NEW r \in Requests, NEW loop \in {"none", "own", "chain"}, LoopTurn(r, loop)
    PROVE  /\ native' \in [Requests -> NativeFields] /\ req' \in [Requests -> RequestFields]
           /\ pc' \in [Requests -> Places]
           /\ native'[r].op \in {"none", "start", "write"}
           /\ \A q \in Requests : q # r => native'[q] = native[q] /\ pc'[q] = pc[q]
           /\ \A q \in Requests : /\ req'[q].closed = req[q].closed
                                  /\ req'[q].destroyed = req[q].destroyed
                                  /\ q # r => req'[q].loop = req[q].loop
           /\ req'[r].loop \in {loop, "none"}
           /\ loop # "own" => pc' = pc
           /\ loop = "own" => \/ pc'[r] = "flushing"
                              \/ pc'[r] = "flushed" /\ req'[r].loop = "none"
  <1>1. /\ req \in [Requests -> RequestFields] /\ native \in [Requests -> NativeFields]
        /\ pc \in [Requests -> Places]
    BY DEF FieldsOK
  <1>2. PICK starts \in BOOLEAN, writes \in BOOLEAN :
            /\ starts = (native[r].state = "created")
            /\ writes = (~starts /\ req[r].pending > 0 /\ ~req[r].destroyed)
    OBVIOUS
  <1>3. CASE starts \/ writes
    <2>1. /\ native' = [native EXCEPT ![r] = Call(r, IF starts THEN "start" ELSE "write")]
          /\ req' = [req EXCEPT ![r].loop = loop, ![r].pending = IF writes THEN @ - 1 ELSE @]
          /\ pc' = [pc EXCEPT ![r] = IF loop = "own" THEN "flushing" ELSE @]
      BY <1>2, <1>3 DEF LoopTurn
    <2>2. PICK o \in {"start", "write"} : o = IF starts THEN "start" ELSE "write"
      OBVIOUS
    <2>3. native' = [native EXCEPT ![r] = [native[r] EXCEPT !.op = o, !.answer = "pending"]]
      BY <2>1, <2>2 DEF Call
    <2>4. /\ native' \in [Requests -> NativeFields] /\ native'[r].op = o
          /\ \A q \in Requests : q # r => native'[q] = native[q]
      BY <1>1, <2>3 DEF NativeFields
    <2>5. /\ req' \in [Requests -> RequestFields] /\ req'[r].loop = loop
          /\ \A q \in Requests : /\ req'[q].closed = req[q].closed
                                 /\ req'[q].destroyed = req[q].destroyed
                                 /\ q # r => req'[q].loop = req[q].loop
      <3>1. PICK n \in Int : n = IF writes THEN req[r].pending - 1 ELSE req[r].pending
        BY <1>1 DEF RequestFields
      <3>2. req' = [req EXCEPT ![r].loop = loop, ![r].pending = n]
        BY <2>1, <3>1
      <3>3. PICK e \in RequestFields : e = req[r]
        BY <1>1
      <3>4. [e EXCEPT !.loop = loop, !.pending = n] \in RequestFields
        BY DEF RequestFields
      <3>5. req' = [req EXCEPT ![r] = [e EXCEPT !.loop = loop, !.pending = n]]
        BY <1>1, <3>2, <3>3
      <3>6. req' \in [Requests -> RequestFields]
        BY <1>1, <3>4, <3>5
      <3> QED BY <1>1, <3>2, <3>6 DEF RequestFields
    <2>6. /\ pc' \in [Requests -> Places] /\ \A q \in Requests : q # r => pc'[q] = pc[q]
          /\ loop # "own" => pc' = pc
          /\ loop = "own" => pc'[r] = "flushing"
      BY <1>1, <2>1 DEF Places
    <2> QED BY <2>4, <2>5, <2>6
  <1>4. CASE ~(starts \/ writes)
    <2>1. /\ native' = [native EXCEPT ![r] = [native[r] EXCEPT !.op = "none", !.answer = "none"]]
          /\ req' = [req EXCEPT ![r].loop = "none",
                                ![r].flushes = IF loop = "chain" THEN @ - 1 ELSE @]
          /\ pc' = [pc EXCEPT ![r] = IF loop = "own" THEN "flushed" ELSE @]
      BY <1>2, <1>4 DEF LoopTurn, Over
    <2>2. /\ native' \in [Requests -> NativeFields] /\ native'[r].op = "none"
          /\ \A q \in Requests : q # r => native'[q] = native[q]
      BY <1>1, <2>1 DEF NativeFields
    <2>3. /\ req' \in [Requests -> RequestFields] /\ req'[r].loop = "none"
          /\ \A q \in Requests : /\ req'[q].closed = req[q].closed
                                 /\ req'[q].destroyed = req[q].destroyed
                                 /\ q # r => req'[q].loop = req[q].loop
      <3>1. PICK n \in Int : n = IF loop = "chain" THEN req[r].flushes - 1 ELSE req[r].flushes
        BY <1>1 DEF RequestFields
      <3>2. req' = [req EXCEPT ![r].loop = "none", ![r].flushes = n]
        BY <2>1, <3>1
      <3>3. PICK e \in RequestFields : e = req[r]
        BY <1>1
      <3>4. PICK f : f = [e EXCEPT !.loop = "none", !.flushes = n]
        OBVIOUS
      <3>5. /\ f \in RequestFields /\ f.closed = e.closed /\ f.destroyed = e.destroyed
            /\ f.loop = "none"
        BY <3>4 DEF RequestFields
      <3>6. req' = [req EXCEPT ![r] = f]
        BY <1>1, <3>2, <3>3, <3>4
      <3> QED BY <1>1, <3>3, <3>5, <3>6, Changed
    <2>4. /\ pc' \in [Requests -> Places] /\ \A q \in Requests : q # r => pc'[q] = pc[q]
          /\ loop # "own" => pc' = pc
          /\ loop = "own" => pc'[r] = "flushed"
      BY <1>1, <2>1 DEF Places
    <2> QED BY <2>2, <2>3, <2>4
  <1> QED BY <1>3, <1>4

LEMMA LoopTurnKeeps ==
    ASSUME ClientInv, NEW r \in Requests, NEW loop \in {"none", "own", "chain"}, LoopTurn(r, loop),
           loop = "own" => pc[r] \in {"called", "flushing"}, ~DrainFollows,
           UNCHANGED <<ticks, setting, count, queue, emptied, inUse, free, dead, socketOf>>,
           todo' = todo \/ todo' = <<>>
    PROVE  ClientInv'
  <1>1. FieldsOK /\ FlowInv /\ PoolInv /\ SlotsInv
    BY DEF ClientInv
  <1>2. /\ native' \in [Requests -> NativeFields] /\ req' \in [Requests -> RequestFields]
        /\ pc' \in [Requests -> Places]
        /\ native'[r].op \in {"none", "start", "write"}
        /\ \A q \in Requests : q # r => native'[q] = native[q] /\ pc'[q] = pc[q]
        /\ \A q \in Requests : /\ req'[q].closed = req[q].closed
                               /\ req'[q].destroyed = req[q].destroyed
                               /\ q # r => req'[q].loop = req[q].loop
        /\ req'[r].loop \in {loop, "none"}
        /\ loop # "own" => pc' = pc
        /\ loop = "own" => \/ pc'[r] = "flushing"
                           \/ pc'[r] = "flushed" /\ req'[r].loop = "none"
    BY <1>1, LoopTurnDoes
  <1>3. FieldsOK'
    BY <1>1, <1>2 DEF FieldsOK, Todos
  <1>4. \A q \in Requests : pc'[q] = pc[q] \/ /\ q = r /\ pc[q] \in {"called", "flushing"}
                                              /\ pc'[q] \in {"flushing", "flushed"}
    BY <1>2
  <1>5. FlowInv'
    <2>1. ASSUME NEW q \in Requests PROVE FlowOf(q)'
      <3>1. FlowOf(q)
        BY <1>1 DEF FlowInv
      <3>2. todo' # todo => \A w : todo' # <<Step(w, q)>>
        BY StepsApart
      <3>3. req'[q].loop = "own" => pc'[q] = "flushing"
        BY <1>2, <3>1 DEF FlowOf
      <3>4. native'[q].op \in Awaiting => native[q].op \in Awaiting /\ pc'[q] = "sending"
        BY <1>2, <3>1 DEF FlowOf, Awaiting
      <3> QED BY <1>2, <1>4, <3>1, <3>2, <3>3, <3>4 DEF FlowOf, Past, Ending
    <2>2. \A n \in Names : QueueOf(n)'
      BY <1>1, <1>4, QueueKept
    <2>3. Told'
      BY <1>1, <1>2, ToldKept DEF FlowInv
    <2> QED BY <2>1, <2>2, <2>3 DEF FlowInv
  <1>6. PoolInv'
    BY <1>1, <1>4, PoolKept DEF Fresh, Holding, Past
  <1>7. SlotsInv'
    BY <1>1, <1>4, SlotsKept
  <1> QED BY <1>3, <1>5, <1>6, <1>7 DEF ClientInv

LEMMA LoopStepKeeps ==
    ASSUME ClientInv, LoopStep
    PROVE  ClientInv'
  <1>1. FieldsOK /\ FlowInv
    BY DEF ClientInv
  <1>2. PICK r \in Requests : /\ todo = <<Step("loop", r)>> /\ Head(todo).of = r /\ Tail(todo) = <<>>
    BY <1>1, NextStep DEF FieldsOK, LoopStep
  <1>3. /\ LoopTurn(r, req[r].loop) /\ todo' = <<>>
        /\ UNCHANGED <<ticks, setting, count, queue, emptied, inUse, free, dead, socketOf>>
    BY <1>2 DEF LoopStep, agentVars, poolVars
  <1>4. PICK loop \in {"none", "own", "chain"} : loop = req[r].loop
    BY <1>1 DEF FieldsOK, RequestFields
  <1>5. loop = "own" => pc[r] \in {"called", "flushing"}
    BY <1>1, <1>4 DEF FlowInv, FlowOf
  <1>6. LoopTurn(r, loop) /\ ~DrainFollows
    BY <1>2, <1>3, <1>4, NothingToDrain
  <1> QED BY <1>3, <1>5, <1>6, LoopTurnKeeps

LEMMA ChainedFlushKeeps ==
    ASSUME ClientInv, NEW r \in Requests, ChainedFlush(r)
    PROVE  ClientInv'
  <1>1. FieldsOK /\ FlowInv /\ PoolInv /\ SlotsInv
    BY DEF ClientInv
  <1>2. /\ Idle /\ ~DrainFollows
        /\ UNCHANGED <<todo, ticks, setting, count, queue, emptied, inUse, free, dead, socketOf>>
    BY NothingToDrain DEF ChainedFlush, turnVars, agentVars, poolVars
  <1>3. CASE LoopTurn(r, "chain")
    BY <1>2, <1>3, LoopTurnKeeps
  <1>4. ASSUME NEW b \in BOOLEAN, UNCHANGED <<pc, native>>,
               req' = [req EXCEPT ![r].flushes = @ - 1, ![r].broken = b]
        PROVE  ClientInv'
    <2>1. req \in [Requests -> RequestFields]
      BY <1>1 DEF FieldsOK
    <2>2. /\ req' \in [Requests -> RequestFields]
          /\ \A q \in Requests : req'[q].loop = req[q].loop /\ req'[q].closed = req[q].closed
                                 /\ req'[q].destroyed = req[q].destroyed
      <3>1. PICK n \in Int : n = req[r].flushes - 1
        BY <2>1 DEF RequestFields
      <3>2. req' = [req EXCEPT ![r].flushes = n, ![r].broken = b]
        BY <1>4, <3>1
      <3>3. PICK e \in RequestFields : e = req[r]
        BY <2>1
      <3>4. PICK f : f = [e EXCEPT !.flushes = n, !.broken = b]
        OBVIOUS
      <3>5. /\ f \in RequestFields /\ f.closed = e.closed /\ f.destroyed = e.destroyed
            /\ f.loop = e.loop
        BY <3>4 DEF RequestFields
      <3>6. req' = [req EXCEPT ![r] = f]
        BY <2>1, <3>2, <3>3, <3>4
      <3> QED BY <2>1, <3>3, <3>5, <3>6, Changed
    <2>3. FieldsOK'
      BY <1>1, <1>2, <1>4, <2>2 DEF FieldsOK
    <2>4. FlowInv'
      BY <1>1, <1>2, <1>4, <2>2, FlowKept
    <2>5. PoolInv'
      BY <1>1, <1>2, <1>4, PoolKept DEF Fresh
    <2>6. SlotsInv'
      BY <1>1, <1>2, <1>4, SlotsKept
    <2> QED BY <2>3, <2>4, <2>5, <2>6 DEF ClientInv
  <1>5. req' = [req EXCEPT ![r].flushes = @ - 1]
          => \E b \in BOOLEAN : req' = [req EXCEPT ![r].flushes = @ - 1, ![r].broken = b]
    <2>1. PICK e \in RequestFields : e = req[r]
      BY <1>1 DEF FieldsOK
    <2>2. req \in [Requests -> RequestFields]
      BY <1>1 DEF FieldsOK
    <2>3. PICK n, b : n = e.flushes - 1 /\ b = e.broken
      OBVIOUS
    <2>4. [e EXCEPT !.flushes = n] = [e EXCEPT !.flushes = n, !.broken = b] /\ b \in BOOLEAN
      BY <2>3 DEF RequestFields
    <2>5. /\ [req EXCEPT ![r].flushes = @ - 1] = [req EXCEPT ![r] = [e EXCEPT !.flushes = n]]
          /\ [req EXCEPT ![r].flushes = @ - 1, ![r].broken = b]
               = [req EXCEPT ![r] = [e EXCEPT !.flushes = n, !.broken = b]]
      BY <2>1, <2>2, <2>3
    <2> QED BY <2>4, <2>5
  <1> QED BY <1>3, <1>4, <1>5 DEF ChainedFlush, Breaks

-----------------------------------------------------------------------------
(* The socket of a request that is over.                                      *)

LEMMA SocketGivenBack ==
    ASSUME FieldsOK, PoolInv, NoSocket \notin Requests, NEW r \in Requests, GiveSocketBack(r),
           setting' = setting, pc[r] \in Ending \cup {"called", "flushing", "flushed"},
           pc' = [pc EXCEPT ![r] = "settled"]
    PROVE  /\ PoolInv' /\ ticks' \in Seq(TickSteps) /\ free' \in [Names -> Seq(Requests)]
           /\ inUse' \subseteq Requests /\ dead' \subseteq Requests /\ socketOf' = socketOf
           /\ \/ ticks' = ticks
              \/ \E s \in Requests : ticks' = Append(ticks, Step("socket close", s))
  <1>1. /\ setting \in Limits /\ ticks \in Seq(TickSteps) /\ pc \in [Requests -> Places]
        /\ free \in [Names -> Seq(Requests)] /\ inUse \subseteq Requests /\ dead \subseteq Requests
        /\ socketOf \in [Requests -> Requests \cup {NoSocket}]
    BY DEF FieldsOK
  <1>2. PICK s : s = socketOf[r]
    OBVIOUS
  <1>3. \A q \in Requests : pc'[q] = IF q = r THEN "settled" ELSE pc[q]
    BY <1>1
  <1>4. inUse' = inUse \ {s} /\ socketOf' = socketOf
    BY <1>2 DEF GiveSocketBack
  <1>5. CASE s = NoSocket
    <2>1. inUse' = inUse /\ free' = free /\ dead' = dead /\ ticks' = ticks
      BY <1>1, <1>2, <1>4, <1>5 DEF GiveSocketBack, KeepsSocket
    <2>2. /\ \A q \in Requests : pc[q] \in Holding /\ q # r => pc'[q] \in Holding
          /\ \A q \in Requests : Fresh(q)' => Fresh(q)
          /\ \A q \in Requests : pc'[q] \in Holding => pc[q] \in Holding
      BY <1>3 DEF Fresh, Past, Holding
    <2>3. \A x \in inUse : \E q \in Requests : socketOf[q] = x /\ pc'[q] \in Holding
      <3> TAKE x \in inUse
      <3>1. PICK q \in Requests : socketOf[q] = x /\ pc[q] \in Holding
        BY DEF PoolInv
      <3>2. q # r
        BY <1>1, <1>2, <1>5, <3>1
      <3> QED BY <2>2, <3>1, <3>2
    <2>4. PoolInv'
      <3>1. AllFree' = AllFree
        BY <2>1 DEF AllFree
      <3>2. /\ \A n \in Names :
                  /\ IsInjective(free'[n]) /\ Len(free'[n]) <= setting'.maxFree
                  /\ \A x \in ToSet(free'[n]) : setting'.name[x] = n /\ x \notin inUse'
            /\ \A x \in inUse' : \E q \in Requests : socketOf'[q] = x /\ pc'[q] \in Holding
        BY <1>4, <2>1, <2>3 DEF PoolInv, NameOf
      <3>3. \A p, q \in Requests :
              p # q /\ pc'[p] \in Holding /\ pc'[q] \in Holding /\ socketOf'[p] = socketOf'[q]
                => socketOf'[p] = NoSocket
        BY <1>4, <2>2 DEF PoolInv
      <3>4. \A x \in dead' \cap (inUse' \cup AllFree') : Step("socket close", x) \in ToSet(ticks')
        BY <2>1, <3>1 DEF PoolInv
      <3>5. \A q \in Requests : Fresh(q)' =>
              /\ socketOf'[q] = NoSocket
              /\ q \notin dead' \cup inUse' \cup AllFree'
              /\ \A p \in Requests : socketOf'[p] # q
        BY <1>4, <2>1, <2>2, <3>1 DEF PoolInv
      <3>6. \A q \in Requests : socketOf'[q] # NoSocket =>
              /\ setting'.name[socketOf'[q]] = setting'.name[q]
              /\ pc'[q] \in Holding =>
                   socketOf'[q] \notin AllFree' /\ socketOf'[q] \in inUse' \cup dead'
        BY <1>4, <2>1, <2>2, <3>1 DEF PoolInv, NameOf
      <3>7. \A t \in ToSet(ticks') : t.what = "socket close" => t.of \in dead'
        BY <2>1 DEF PoolInv
      <3> QED BY <3>2, <3>3, <3>4, <3>5, <3>6, <3>7 DEF PoolInv, NameOf
    <2> QED BY <1>1, <1>4, <2>1, <2>4
  <1>6. CASE s # NoSocket
    <2>1. /\ s \in Requests /\ pc[r] \in Holding /\ s \notin AllFree /\ s \in inUse \cup dead
          /\ setting.name[s] = setting.name[r]
      <3>1. s \in Requests
        BY <1>1, <1>2, <1>6
      <3>2. ~Fresh(r)
        BY <1>2, <1>6 DEF PoolInv
      <3>3. pc[r] \in Holding
        BY <3>2 DEF Fresh, Past, Holding, Ending
      <3> QED BY <1>2, <1>6, <3>1, <3>3 DEF PoolInv, NameOf
    <2>2. PICK n \in Names : n = setting.name[r]
      BY <1>1 DEF Limits
    <2>3. /\ free' \in [Names -> Seq(Requests)]
          /\ \A m \in Names : /\ IsInjective(free'[m]) /\ Len(free'[m]) <= setting.maxFree
                              /\ ToSet(free'[m]) \subseteq ToSet(free[m]) \cup {s}
                              /\ s \in ToSet(free'[m]) => m = n /\ s \notin dead'
      <3>1. \A m \in Names : IsInjective(free[m]) /\ Len(free[m]) <= setting.maxFree
                             /\ s \notin ToSet(free[m])
        <4>1. \A m \in Names : s \notin ToSet(free[m])
          BY <2>1 DEF AllFree
        <4>2. \A m \in Names : IsInjective(free[m]) /\ Len(free[m]) <= setting.maxFree
          BY DEF PoolInv
        <4> QED BY <4>1, <4>2
      <3>2. CASE KeepsSocket(r)
        <4>1. PICK f \in Seq(Requests) : f = free[n]
          BY <1>1
        <4>2. free' = [free EXCEPT ![n] = Append(f, s)]
          BY <1>2, <2>2, <3>2, <4>1 DEF GiveSocketBack, NameOf
        <4>3. s \notin dead /\ dead' = dead /\ Len(f) < setting.maxFree
          BY <1>2, <2>2, <3>2, <4>1 DEF GiveSocketBack, KeepsSocket, NameOf
        <4>4. /\ Append(f, s) \in Seq(Requests) /\ ToSet(Append(f, s)) = ToSet(f) \cup {s}
              /\ Len(Append(f, s)) = Len(f) + 1 /\ Len(f) \in Nat
          BY <2>1, Appended, AppendedSet
        <4>5. IsInjective(Append(f, s))
          BY <2>1, <3>1, <4>1, AppendedApart
        <4>6. Len(f) + 1 <= setting.maxFree
          BY <1>1, <4>3, <4>4 DEF Limits
        <4>7. PICK g : g = Append(f, s)
          OBVIOUS
        <4>8. /\ g \in Seq(Requests) /\ ToSet(g) = ToSet(f) \cup {s} /\ IsInjective(g)
              /\ Len(g) <= setting.maxFree
          BY <4>4, <4>5, <4>6, <4>7
        <4>9. \A m \in Names : free'[m] = IF m = n THEN g ELSE free[m]
          BY <1>1, <4>2, <4>7
        <4>10. free' \in [Names -> Seq(Requests)]
          BY <1>1, <4>2, <4>7, <4>8
        <4> QED BY <3>1, <4>1, <4>3, <4>8, <4>9, <4>10
      <3>3. CASE ~KeepsSocket(r)
        <4>1. free' = free
          BY <3>3 DEF GiveSocketBack
        <4> QED BY <1>1, <3>1, <4>1
      <3> QED BY <3>2, <3>3
    <2>4. /\ dead' \in {dead, dead \cup {s}} /\ s \in inUse \cup dead'
          /\ ToSet(ticks) \subseteq ToSet(ticks') /\ ticks' \in Seq(TickSteps)
          /\ \A t \in ToSet(ticks') : t \in ToSet(ticks) \/ t.of \in dead'
      <3>1. CASE dead' = dead /\ ticks' = ticks
        BY <1>1, <2>1, <3>1
      <3>2. CASE dead' = dead \cup {s} /\ ticks' = Append(ticks, Step("socket close", s))
        <4>1. /\ ToSet(ticks') = ToSet(ticks) \cup {Step("socket close", s)}
              /\ ticks' \in Seq(TickSteps)
          BY <2>1, <3>2, TickAppended
        <4>2. Step("socket close", s).of = s
          BY DEF Step
        <4> QED BY <3>2, <4>1, <4>2
      <3> QED BY <1>2, <3>1, <3>2 DEF GiveSocketBack
    <2>5. AllFree' \subseteq AllFree \cup {s} /\ (s \in AllFree' => s \notin dead')
      BY <2>3 DEF AllFree
    <2>6. \A q \in Requests : pc'[q] \in Holding => pc[q] \in Holding /\ q # r
      BY <1>3 DEF Holding
    <2>7. \A q \in Requests : pc'[q] \in Holding => socketOf[q] # s
      BY <1>2, <1>6, <2>1, <2>6 DEF PoolInv
    <2>8. \A q \in Requests : Fresh(q)' => Fresh(q) /\ q # s
      <3> TAKE q \in Requests
      <3> HAVE Fresh(q)'
      <3>1. pc'[q] \notin Holding \cup Past
        BY DEF Fresh
      <3>2. pc[q] = pc'[q]
        BY <1>3, <3>1 DEF Past
      <3>3. Fresh(q)
        BY <3>1, <3>2 DEF Fresh
      <3> QED BY <1>2, <3>3 DEF PoolInv
    <2>9. PoolInv'
      <3>1. \A m \in Names :
              /\ IsInjective(free'[m]) /\ Len(free'[m]) <= setting'.maxFree
              /\ \A x \in ToSet(free'[m]) : setting'.name[x] = m /\ x \notin inUse'
        <4> TAKE m \in Names
        <4>1. IsInjective(free'[m]) /\ Len(free'[m]) <= setting'.maxFree
          BY <2>3
        <4>2. ASSUME NEW x \in ToSet(free'[m]) PROVE setting'.name[x] = m /\ x \notin inUse'
          <5>1. CASE x = s
            BY <1>4, <2>1, <2>2, <2>3, <4>2, <5>1
          <5>2. CASE x # s
            <6>1. x \in ToSet(free[m])
              BY <2>3, <4>2, <5>2
            <6>2. setting.name[x] = m /\ x \notin inUse
              BY <6>1 DEF PoolInv, NameOf
            <6> QED BY <1>4, <6>2
          <5> QED BY <5>1, <5>2
        <4> QED BY <4>1, <4>2
      <3>2. \A x \in inUse' : \E q \in Requests : socketOf'[q] = x /\ pc'[q] \in Holding
        <4> TAKE x \in inUse'
        <4>1. PICK q \in Requests : socketOf[q] = x /\ pc[q] \in Holding
          BY <1>4 DEF PoolInv
        <4>2. q # r
          BY <1>2, <1>4, <4>1
        <4> QED BY <1>3, <1>4, <4>1, <4>2
      <3>3. \A p, q \in Requests :
              p # q /\ pc'[p] \in Holding /\ pc'[q] \in Holding /\ socketOf'[p] = socketOf'[q]
                => socketOf'[p] = NoSocket
        BY <1>4, <2>6 DEF PoolInv
      <3>4. \A x \in dead' \cap (inUse' \cup AllFree') : Step("socket close", x) \in ToSet(ticks')
        <4> TAKE x \in dead' \cap (inUse' \cup AllFree')
        <4>1. x # s
          BY <1>4, <2>5
        <4>2. x \in dead \cap (inUse \cup AllFree)
          BY <1>4, <2>4, <2>5, <4>1
        <4> QED BY <2>4, <4>2 DEF PoolInv
      <3>5. \A q \in Requests : Fresh(q)' =>
              /\ socketOf'[q] = NoSocket
              /\ q \notin dead' \cup inUse' \cup AllFree'
              /\ \A p \in Requests : socketOf'[p] # q
        BY <1>4, <2>4, <2>5, <2>8 DEF PoolInv
      <3>6. \A q \in Requests : socketOf'[q] # NoSocket =>
              /\ setting'.name[socketOf'[q]] = setting'.name[q]
              /\ pc'[q] \in Holding =>
                   socketOf'[q] \notin AllFree' /\ socketOf'[q] \in inUse' \cup dead'
        BY <1>4, <2>4, <2>5, <2>6, <2>7 DEF PoolInv, NameOf
      <3>7. \A t \in ToSet(ticks') : t.what = "socket close" => t.of \in dead'
        BY <2>4 DEF PoolInv
      <3> QED BY <3>1, <3>2, <3>3, <3>4, <3>5, <3>6, <3>7 DEF PoolInv, NameOf
    <2>10. \/ ticks' = ticks
           \/ \E x \in Requests : ticks' = Append(ticks, Step("socket close", x))
      BY <1>2, <2>1 DEF GiveSocketBack
    <2>11. inUse' \subseteq Requests /\ dead' \subseteq Requests
      BY <1>1, <1>4, <2>1, <2>4
    <2> QED BY <1>4, <2>3, <2>4, <2>9, <2>10, <2>11
  <1> QED BY <1>5, <1>6

\* A request leaves _doSend(): nothing of it goes on.
LEMMA LeaveKeeps ==
    ASSUME ClientInv, NoSocket \notin Requests, NEW r \in Requests,
           NEW steps \in {<<>>, <<Step("close", r)>>}, Leave(r, steps),
           pc[r] \in Ending \cup {"called", "flushing", "flushed"}, ~DrainFollows,
           UNCHANGED <<setting, count, queue, emptied>>,
           req' \in [Requests -> RequestFields], native' \in [Requests -> NativeFields],
           \A q \in Requests : /\ req'[q].closed = req[q].closed
                               /\ req'[q].destroyed = req[q].destroyed
                               /\ q # r => req'[q].loop = req[q].loop /\ native'[q] = native[q],
           req'[r].loop # "own", native'[r].op \notin Awaiting
    PROVE  ClientInv'
  <1>1. FieldsOK /\ FlowInv /\ PoolInv /\ SlotsInv
    BY DEF ClientInv
  <1>2. pc \in [Requests -> Places]
    BY <1>1 DEF FieldsOK
  <1>3. GiveSocketBack(r) /\ todo' = steps /\ pc' = [pc EXCEPT ![r] = "settled"]
    BY DEF Leave
  <1>4. /\ PoolInv' /\ ticks' \in Seq(TickSteps) /\ free' \in [Names -> Seq(Requests)]
        /\ inUse' \subseteq Requests /\ dead' \subseteq Requests /\ socketOf' = socketOf
        /\ \/ ticks' = ticks
           \/ \E s \in Requests : ticks' = Append(ticks, Step("socket close", s))
    BY <1>1, <1>3, SocketGivenBack
  <1>5. \A q \in Requests : pc'[q] = IF q = r THEN "settled" ELSE pc[q]
    BY <1>2, <1>3
  <1>6. FieldsOK'
    <2>1. pc' \in [Requests -> Places]
      BY <1>2, <1>3 DEF Places
    <2>2. todo' \in Todos
      <3>1. <<Step("close", r)>> \in Todos
        BY AnyStep DEF Steps
      <3>2. <<>> \in Todos
        BY DEF Todos
      <3> QED BY <1>3, <3>1, <3>2
    <2> QED BY <1>1, <1>4, <2>1, <2>2 DEF FieldsOK
  <1>7. FlowInv'
    <2>1. ASSUME NEW q \in Requests PROVE FlowOf(q)'
      <3>1. FlowOf(q)
        BY <1>1 DEF FlowInv
      <3>2. /\ todo' # <<Step("finish it", q)>> /\ todo' # <<Step("wait", q)>>
            /\ todo' # <<Step("leave", q)>> /\ (todo' = <<Step("close", q)>> => q = r)
        <4>1. CASE steps = <<>>
          BY <1>3, <4>1, StepsApart
        <4>2. CASE steps = <<Step("close", r)>>
          BY <1>3, <4>2 DEF Step
        <4> QED BY <4>1, <4>2
      <3>3. CASE q = r
        <4>1. pc'[q] \in Past /\ req'[q].loop # "own" /\ native'[q].op \notin Awaiting
          BY <1>5, <3>3 DEF Past
        <4> QED BY <3>2, <4>1 DEF FlowOf
      <3>4. CASE q # r
        BY <1>5, <3>1, <3>2, <3>4 DEF FlowOf
      <3> QED BY <3>3, <3>4
    <2>2. \A n \in Names : QueueOf(n)'
      BY <1>1, <1>5, QueueKept DEF Ending
    <2>3. Told'
      BY <1>1, <1>4, ToldKept DEF FlowInv
    <2> QED BY <2>1, <2>2, <2>3 DEF FlowInv
  <1>8. SlotsInv'
    <2>1. \A q \in Requests : pc'[q] \in {"open", "queued", "done", "lost"} <=> pc[q] \in {"open", "queued", "done", "lost"}
      BY <1>5 DEF Ending
    <2> QED BY <1>1, <2>1, SlotsKept
  <1> QED BY <1>4, <1>6, <1>7, <1>8 DEF ClientInv

\* An exception: the request leaves, or emits 'error' first.
LEMMA CatchKeeps ==
    ASSUME ClientInv, NoSocket \notin Requests, NEW r \in Requests, Catch(r),
           pc[r] \in {"called", "sending", "flushing"}, ~DrainFollows,
           UNCHANGED <<setting, count, queue, emptied>>,
           req' \in [Requests -> RequestFields], native' \in [Requests -> NativeFields],
           \A q \in Requests : /\ req'[q].closed = req[q].closed
                               /\ req'[q].destroyed = req[q].destroyed
                               /\ q # r => req'[q].loop = req[q].loop /\ native'[q] = native[q],
           req'[r].loop # "own", native'[r].op \notin Awaiting
    PROVE  ClientInv'
  <1>1. FieldsOK /\ FlowInv /\ PoolInv /\ SlotsInv
    BY DEF ClientInv
  <1>2. CASE Leave(r, <<>>)
    BY <1>2, LeaveKeeps DEF Ending
  <1>3. CASE /\ todo' = <<Step("leave", r)>>
             /\ pc' = [pc EXCEPT ![r] = "leaving"]
             /\ UNCHANGED <<ticks, poolVars>>
    <2>1. pc \in [Requests -> Places]
      BY <1>1 DEF FieldsOK
    <2>2. \A q \in Requests : pc'[q] = IF q = r THEN "leaving" ELSE pc[q]
      BY <1>3, <2>1
    <2>3. UNCHANGED <<ticks, inUse, free, dead, socketOf>>
      BY <1>3 DEF poolVars
    <2>4. FieldsOK'
      <3>1. pc' \in [Requests -> Places]
        BY <1>3, <2>1 DEF Places
      <3>2. todo' \in Todos
        BY <1>3, AnyStep DEF Steps
      <3> QED BY <1>1, <2>3, <3>1, <3>2 DEF FieldsOK
    <2>5. FlowInv'
      <3>1. ASSUME NEW q \in Requests PROVE FlowOf(q)'
        <4>1. FlowOf(q)
          BY <1>1 DEF FlowInv
        <4>2. /\ todo' # <<Step("finish it", q)>> /\ todo' # <<Step("wait", q)>>
              /\ todo' # <<Step("close", q)>> /\ (todo' = <<Step("leave", q)>> => q = r)
          BY <1>3 DEF Step
        <4>3. CASE q = r
          <5>1. /\ pc'[q] = "leaving" /\ req'[q].loop # "own" /\ native'[q].op \notin Awaiting
                /\ req'[q].closed => req'[q].destroyed
            BY <2>2, <4>1, <4>3 DEF FlowOf, Past
          <5> QED BY <4>2, <5>1 DEF FlowOf, Ending
        <4>4. CASE q # r
          BY <2>2, <4>1, <4>2, <4>4 DEF FlowOf
        <4> QED BY <4>3, <4>4
      <3>2. \A n \in Names : QueueOf(n)'
        BY <1>1, <2>2, QueueKept
      <3>3. Told'
        BY <1>1, <1>3, ToldKept DEF FlowInv
      <3> QED BY <3>1, <3>2, <3>3 DEF FlowInv
    <2>6. PoolInv'
      <3>1. pc[r] \notin Holding => socketOf[r] = NoSocket
        BY <1>1 DEF PoolInv, Fresh, Past
      <3> QED BY <1>1, <2>2, <2>3, <3>1, PoolKept DEF Fresh, Holding, Past
    <2>7. SlotsInv'
      <3>1. \A q \in Requests : pc'[q] \in {"open", "queued", "done", "lost"} <=> pc[q] \in {"open", "queued", "done", "lost"}
        BY <2>2
      <3> QED BY <1>1, <3>1, SlotsKept
    <2> QED BY <2>4, <2>5, <2>6, <2>7 DEF ClientInv
  <1> QED BY <1>2, <1>3 DEF Catch

-----------------------------------------------------------------------------
(* The steps of a turn and the answers of the host.                           *)

\* A step of the turn calls the native request, or nothing follows the answer but a step of
\* the same request.
LEMMA NativeKeeps ==
    ASSUME ClientInv, NEW r \in Requests, ~DrainFollows,
           UNCHANGED <<setting, pc, count, queue, emptied, ticks, inUse, free, dead, socketOf>>,
           req' \in [Requests -> RequestFields], native' \in [Requests -> NativeFields],
           \A q \in Requests : /\ req'[q].closed = req[q].closed
                               /\ req'[q].destroyed = req[q].destroyed
                               /\ req'[q].loop = "own" => req[q].loop = "own"
                               /\ q # r => native'[q] = native[q],
           native'[r].op \in Awaiting => pc[r] = "sending" /\ todo' = <<>>,
           \/ todo' \in {<<>>, <<Step("loop", r)>>}
           \/ todo' \in {<<Step("wait", r)>>, <<Step("leave", r)>>} /\ pc[r] = "sending"
    PROVE  ClientInv'
  <1>1. FieldsOK /\ FlowInv /\ PoolInv /\ SlotsInv
    BY DEF ClientInv
  <1>2. FieldsOK'
    <2>1. <<>> \in Todos
      BY DEF Todos
    <2>2. <<Step("loop", r)>> \in Todos /\ <<Step("wait", r)>> \in Todos /\ <<Step("leave", r)>> \in Todos
      BY AnyStep DEF Steps
    <2>3. todo' \in Todos
      BY <2>1, <2>2
    <2> QED BY <1>1, <2>3 DEF FieldsOK
  <1>3. FlowInv'
    <2>1. ASSUME NEW q \in Requests PROVE FlowOf(q)'
      <3>1. FlowOf(q)
        BY <1>1 DEF FlowInv
      <3>2. /\ todo' # <<Step("finish it", q)>> /\ todo' # <<Step("close", q)>>
            /\ todo' = <<Step("wait", q)>> => q = r /\ pc[r] = "sending" /\ todo' # <<>>
            /\ todo' = <<Step("leave", q)>> => q = r /\ pc[r] = "sending" /\ todo' # <<>>
        <4>1. CASE todo' = <<>>
          BY <4>1, StepsApart
        <4>2. CASE todo' = <<Step("loop", r)>>
          BY <4>2 DEF Step
        <4>3. CASE todo' = <<Step("wait", r)>> /\ pc[r] = "sending"
          BY <4>3 DEF Step
        <4>4. CASE todo' = <<Step("leave", r)>> /\ pc[r] = "sending"
          BY <4>4 DEF Step
        <4> QED BY <4>1, <4>2, <4>3, <4>4
      <3>3. native'[q].op \in Awaiting => pc[q] = "sending"
        BY <3>1 DEF FlowOf
      <3> QED BY <3>1, <3>2, <3>3 DEF FlowOf, Ending
    <2>2. \A n \in Names : QueueOf(n)'
      BY <1>1, QueueKept
    <2>3. Told'
      BY <1>1, ToldKept DEF FlowInv
    <2> QED BY <2>1, <2>2, <2>3 DEF FlowInv
  <1>4. PoolInv'
    BY <1>1, PoolKept DEF Fresh
  <1>5. SlotsInv'
    BY <1>1, SlotsKept
  <1> QED BY <1>2, <1>3, <1>4, <1>5 DEF ClientInv

LEMMA CallKeeps ==
    ASSUME ClientInv, NEW r \in Requests, ~DrainFollows, pc[r] = "sending", NEW op \in Awaiting,
           native' = [native EXCEPT ![r] = Call(r, op)], todo' = <<>>,
           UNCHANGED <<ticks, setting, req, pc, count, queue, emptied, poolVars>>
    PROVE  ClientInv'
  <1>1. req \in [Requests -> RequestFields] /\ native \in [Requests -> NativeFields]
    BY DEF ClientInv, FieldsOK
  <1>2. native' = [native EXCEPT ![r] = [native[r] EXCEPT !.op = op, !.answer = "pending"]]
    BY DEF Call
  <1>3. op \in {"finish", "wait"}
    BY DEF Awaiting
  <1>4. native' \in [Requests -> NativeFields] /\ \A q \in Requests : q # r => native'[q] = native[q]
    <2>1. PICK e \in NativeFields : e = native[r]
      BY <1>1
    <2>2. [e EXCEPT !.op = op, !.answer = "pending"] \in NativeFields
      BY <1>3 DEF NativeFields
    <2> QED BY <1>1, <1>2, <2>1, <2>2
  <1>5. UNCHANGED <<setting, pc, count, queue, emptied, ticks, inUse, free, dead, socketOf>> /\ req' = req
    BY DEF poolVars
  <1> QED BY <1>1, <1>4, <1>5, NativeKeeps

LEMMA LeaveStepKeeps ==
    ASSUME ClientInv, NoSocket \notin Requests, LeaveStep
    PROVE  ClientInv'
  <1>1. FieldsOK /\ FlowInv
    BY DEF ClientInv
  <1>2. PICK r \in Requests : todo = <<Step("leave", r)>> /\ Head(todo).of = r
    BY <1>1, NextStep DEF FieldsOK, LeaveStep
  <1>3. Leave(r, <<Step("close", r)>>) /\ UNCHANGED <<setting, req, native, count, queue, emptied>>
    BY <1>2 DEF LeaveStep, agentVars
  <1>4. FlowOf(r) /\ ~DrainFollows
    BY <1>1, <1>2, NothingToDrain DEF FlowInv
  <1>5. pc[r] \in Ending /\ req[r].loop # "own" /\ native[r].op \notin Awaiting
    BY <1>2, <1>4 DEF FlowOf, Ending
  <1>6. req' \in [Requests -> RequestFields] /\ native' \in [Requests -> NativeFields]
    BY <1>1, <1>3 DEF FieldsOK
  <1> QED BY <1>3, <1>4, <1>5, <1>6, LeaveKeeps

LEMMA ErrorThrowsKeeps ==
    ASSUME ClientInv, ErrorThrows
    PROVE  ClientInv'
  <1>1. FieldsOK /\ FlowInv /\ PoolInv /\ SlotsInv
    BY DEF ClientInv
  <1>2. PICK r \in Requests : todo = <<Step("leave", r)>> /\ Head(todo).of = r
    BY <1>1, NextStep DEF FieldsOK, ErrorThrows
  <1>3. /\ pc[r] = "leaving" /\ todo' = <<>> /\ pc' = [pc EXCEPT ![r] = "stranded"]
        /\ req' = [req EXCEPT ![r].thrown = TRUE] /\ ~DrainFollows
        /\ UNCHANGED <<ticks, setting, native, count, queue, emptied, inUse, free, dead, socketOf>>
    BY <1>2, NothingToDrain DEF ErrorThrows, agentVars, poolVars
  <1>4. req \in [Requests -> RequestFields] /\ pc \in [Requests -> Places]
    BY <1>1 DEF FieldsOK
  <1>5. /\ req' \in [Requests -> RequestFields]
        /\ \A q \in Requests : req'[q].loop = req[q].loop /\ req'[q].closed = req[q].closed
                               /\ req'[q].destroyed = req[q].destroyed
    BY <1>3, <1>4 DEF RequestFields
  <1>6. \A q \in Requests : pc'[q] = IF q = r THEN "stranded" ELSE pc[q]
    BY <1>3, <1>4
  <1>7. FieldsOK'
    <2>1. pc' \in [Requests -> Places] /\ todo' \in Todos
      BY <1>3, <1>4 DEF Places, Todos
    <2> QED BY <1>1, <1>3, <1>5, <2>1 DEF FieldsOK
  <1>8. FlowInv'
    <2>1. ASSUME NEW q \in Requests PROVE FlowOf(q)'
      <3>1. FlowOf(q)
        BY <1>1 DEF FlowInv
      <3>2. /\ todo' # <<Step("finish it", q)>> /\ todo' # <<Step("wait", q)>>
            /\ todo' # <<Step("leave", q)>> /\ todo' # <<Step("close", q)>>
        BY <1>3, StepsApart
      <3>3. CASE q = r
        BY <1>2, <1>3, <1>5, <1>6, <3>1, <3>2, <3>3 DEF FlowOf, Past
      <3>4. CASE q # r
        BY <1>3, <1>5, <1>6, <3>1, <3>2, <3>4 DEF FlowOf
      <3> QED BY <3>3, <3>4
    <2>2. \A n \in Names : QueueOf(n)'
      BY <1>1, <1>3, <1>6, QueueKept
    <2>3. Told'
      BY <1>1, <1>3, <1>5, ToldKept DEF FlowInv
    <2> QED BY <2>1, <2>2, <2>3 DEF FlowInv
  <1>9. PoolInv'
    BY <1>1, <1>3, <1>6, PoolKept DEF Fresh, Holding, Past
  <1>10. SlotsInv'
    BY <1>1, <1>3, <1>6, SlotsKept
  <1> QED BY <1>7, <1>8, <1>9, <1>10 DEF ClientInv

LEMMA WaitStepKeeps ==
    ASSUME ClientInv, NoSocket \notin Requests, WaitStep
    PROVE  ClientInv'
  <1>1. FieldsOK /\ FlowInv /\ PoolInv /\ SlotsInv
    BY DEF ClientInv
  <1>2. PICK r \in Requests : todo = <<Step("wait", r)>> /\ Head(todo).of = r /\ Tail(todo) = <<>>
    BY <1>1, NextStep DEF FieldsOK, WaitStep
  <1>3. FlowOf(r) /\ ~DrainFollows
    BY <1>1, <1>2, NothingToDrain DEF FlowInv
  <1>4. pc[r] = "sending" /\ req[r].loop # "own" /\ native[r].op \notin Awaiting
    BY <1>2, <1>3 DEF FlowOf
  <1>5. req \in [Requests -> RequestFields] /\ native \in [Requests -> NativeFields]
    BY <1>1 DEF FieldsOK
  <1>6. UNCHANGED <<setting, req, count, queue, emptied>>
    BY DEF WaitStep, agentVars
  <1>7. CASE Leave(r, <<>>) /\ UNCHANGED native
    BY <1>3, <1>4, <1>5, <1>6, <1>7, LeaveKeeps DEF Ending
  <1>8. CASE /\ native' = [native EXCEPT ![r] = Call(r, "wait")]
             /\ todo' = <<>> /\ UNCHANGED <<ticks, pc, poolVars>>
    BY <1>1, <1>3, <1>4, <1>6, <1>8, CallKeeps DEF Awaiting
  <1> QED BY <1>2, <1>7, <1>8 DEF WaitStep

LEMMA FinishStepKeeps ==
    ASSUME ClientInv, FinishStep
    PROVE  ClientInv'
  <1>1. FieldsOK /\ FlowInv
    BY DEF ClientInv
  <1>2. PICK r \in Requests :
            todo = <<Step("finish it", r)>> /\ Head(todo).of = r /\ Tail(todo) = <<>>
    BY <1>1, NextStep DEF FieldsOK, FinishStep
  <1>3. FlowOf(r) /\ ~DrainFollows
    BY <1>1, <1>2, NothingToDrain DEF FlowInv
  <1>4. pc[r] = "sending"
    BY <1>2, <1>3 DEF FlowOf
  <1>5. /\ native' = [native EXCEPT ![r] = Call(r, "finish")] /\ todo' = <<>>
        /\ UNCHANGED <<ticks, setting, req, pc, count, queue, emptied, poolVars>>
    BY <1>2 DEF FinishStep, agentVars
  <1> QED BY <1>3, <1>4, <1>5, CallKeeps DEF Awaiting

LEMMA EmitCloseKeeps ==
    ASSUME ClientInv, EmitClose
    PROVE  ClientInv'
  <1>1. FieldsOK /\ FlowInv /\ PoolInv /\ SlotsInv
    BY DEF ClientInv
  <1>2. PICK r \in Requests : todo = <<Step("close", r)>> /\ Head(todo).of = r /\ Tail(todo) = <<>>
    BY <1>1, NextStep DEF FieldsOK, EmitClose
  <1>3. /\ req' = [req EXCEPT ![r].closed = TRUE] /\ todo' = <<>>
        /\ UNCHANGED <<ticks, setting, pc, native, count, queue, emptied, inUse, free, dead, socketOf>>
    BY <1>2 DEF EmitClose, agentVars, poolVars
  <1>4. req \in [Requests -> RequestFields]
    BY <1>1 DEF FieldsOK
  <1>5. /\ req' \in [Requests -> RequestFields]
        /\ \A q \in Requests : /\ req'[q].loop = req[q].loop /\ req'[q].destroyed = req[q].destroyed
                               /\ req'[q].closed => req[q].closed \/ q = r
    BY <1>3, <1>4 DEF RequestFields
  <1>6. FieldsOK'
    BY <1>1, <1>3, <1>5 DEF FieldsOK, Todos
  <1>7. FlowInv'
    <2>1. ASSUME NEW q \in Requests PROVE FlowOf(q)'
      <3>1. FlowOf(q)
        BY <1>1 DEF FlowInv
      <3>2. \A w : todo' # <<Step(w, q)>>
        BY <1>3, StepsApart
      <3>3. q = r => req[q].destroyed \/ pc[q] \in Past
        BY <1>2, <3>1 DEF FlowOf
      <3> QED BY <1>3, <1>5, <3>1, <3>2, <3>3 DEF FlowOf
    <2>2. \A n \in Names : QueueOf(n)'
      BY <1>1, <1>3, QueueKept
    <2>3. Told'
      BY <1>1, <1>3, <1>5, ToldKept DEF FlowInv
    <2> QED BY <2>1, <2>2, <2>3 DEF FlowInv
  <1>8. PoolInv'
    BY <1>1, <1>3, PoolKept DEF Fresh
  <1>9. SlotsInv'
    <2>1. ~DrainFollows
      BY <1>2, NothingToDrain
    <2> QED BY <1>1, <1>3, <2>1, SlotsKept
  <1> QED BY <1>6, <1>7, <1>8, <1>9 DEF ClientInv

\* A call is over.
LEMMA OverDoes ==
    ASSUME native \in [Requests -> NativeFields], NEW r \in Requests,
           native' = [native EXCEPT ![r] = Over(r)]
    PROVE  /\ native' \in [Requests -> NativeFields] /\ native'[r].op = "none"
           /\ \A q \in Requests : q # r => native'[q] = native[q]
  <1>1. PICK e \in NativeFields : e = native[r]
    OBVIOUS
  <1>2. [e EXCEPT !.op = "none", !.answer = "none"] \in NativeFields
    BY DEF NativeFields
  <1>3. [e EXCEPT !.op = "none", !.answer = "none"].op = "none"
    BY DEF NativeFields
  <1> QED BY <1>1, <1>2, <1>3 DEF Over

LEMMA LoopFailsKeeps ==
    ASSUME ClientInv, NoSocket \notin Requests, NEW r \in Requests, LoopFails(r), ~DrainFollows,
           UNCHANGED <<setting, count, queue, emptied>>, native' \in [Requests -> NativeFields],
           native'[r].op \in {native[r].op, "none"},
           \A q \in Requests : q # r => native'[q] = native[q]
    PROVE  ClientInv'
  <1>1. FieldsOK /\ FlowOf(r)
    BY DEF ClientInv, FlowInv
  <1>2. req \in [Requests -> RequestFields]
    BY <1>1 DEF FieldsOK
  <1>3. ASSUME NEW b \in BOOLEAN, todo' = <<>>, UNCHANGED <<ticks, pc, poolVars>>,
               req' = [req EXCEPT ![r].loop = "none", ![r].flushes = @ - 1, ![r].broken = b]
        PROVE  ClientInv'
    <2>1. /\ req' \in [Requests -> RequestFields]
          /\ \A q \in Requests : /\ req'[q].closed = req[q].closed
                                 /\ req'[q].destroyed = req[q].destroyed
                                 /\ req'[q].loop = "own" => req[q].loop = "own"
      <3>1. PICK n \in Int : n = req[r].flushes - 1
        BY <1>2 DEF RequestFields
      <3>2. req' = [req EXCEPT ![r].loop = "none", ![r].flushes = n, ![r].broken = b]
        BY <1>3, <3>1
      <3>3. PICK e \in RequestFields : e = req[r]
        BY <1>2
      <3>4. PICK f : f = [e EXCEPT !.loop = "none", !.flushes = n, !.broken = b]
        OBVIOUS
      <3>5. /\ f \in RequestFields /\ f.closed = e.closed /\ f.destroyed = e.destroyed
            /\ f.loop = "none"
        BY <3>4 DEF RequestFields
      <3>6. req' = [req EXCEPT ![r] = f]
        BY <1>2, <3>2, <3>3, <3>4
      <3> QED BY <1>2, <3>3, <3>5, <3>6, Changed
    <2>2. native'[r].op \in Awaiting => pc[r] = "sending"
      BY <1>1 DEF FlowOf, Awaiting
    <2>3. UNCHANGED <<ticks, pc, inUse, free, dead, socketOf>> /\ todo' = <<>>
      BY <1>3 DEF poolVars
    <2> QED BY <2>1, <2>2, <2>3, NativeKeeps
  <1>4. CASE req[r].loop = "own" /\ req' = [req EXCEPT ![r].loop = "none"] /\ Catch(r)
    <2>1. /\ req' \in [Requests -> RequestFields] /\ req'[r].loop = "none"
          /\ \A q \in Requests : /\ req'[q].closed = req[q].closed
                                 /\ req'[q].destroyed = req[q].destroyed
                                 /\ q # r => req'[q].loop = req[q].loop
      BY <1>2, <1>4 DEF RequestFields
    <2>2. pc[r] = "flushing" /\ native'[r].op \notin Awaiting
      BY <1>1, <1>4 DEF FlowOf, Awaiting
    <2> QED BY <1>4, <2>1, <2>2, CatchKeeps
  <1> QED BY <1>3, <1>4 DEF LoopFails, Breaks

LEMMA ListenerThrowsKeeps ==
    ASSUME ClientInv, NoSocket \notin Requests, ListenerThrows
    PROVE  ClientInv'
  <1>1. FieldsOK /\ FlowInv
    BY DEF ClientInv
  <1>2. /\ UNCHANGED <<setting, native, count, queue, emptied>>
        /\ req \in [Requests -> RequestFields] /\ native' \in [Requests -> NativeFields]
    BY <1>1 DEF ListenerThrows, agentVars, FieldsOK
  <1>3. ASSUME NEW w \in {"finish it", "wait", "leave"}, Follows(w),
               pc[Head(todo).of] # "leaving", Catch(Head(todo).of), UNCHANGED req
        PROVE  ClientInv'
    <2>1. PICK r \in Requests : todo = <<Step(w, r)>> /\ Head(todo).of = r
      BY <1>1, <1>3, NextStep DEF FieldsOK
    <2>2. FlowOf(r) /\ ~DrainFollows
      BY <1>1, <2>1, NothingToDrain DEF FlowInv
    <2>3. pc[r] = "sending" /\ native[r].op \notin Awaiting
      BY <1>3, <2>1, <2>2 DEF FlowOf, Ending
    <2>4. req[r].loop # "own"
      BY <2>2, <2>3 DEF FlowOf
    <2> QED BY <1>2, <1>3, <2>1, <2>2, <2>3, <2>4, CatchKeeps
  <1>4. ASSUME Follows("loop"), LoopFails(Head(todo).of)
        PROVE  ClientInv'
    <2>1. PICK r \in Requests : todo = <<Step("loop", r)>> /\ Head(todo).of = r
      BY <1>1, <1>4, NextStep DEF FieldsOK
    <2>2. ~DrainFollows
      BY <2>1, NothingToDrain
    <2> QED BY <1>2, <1>4, <2>1, <2>2, LoopFailsKeeps
  <1> QED BY <1>3, <1>4 DEF ListenerThrows

LEMMA SendKeeps ==
    ASSUME ClientInv, NoSocket \notin Requests, NEW r \in Requests, Send(r)
    PROVE  ClientInv'
  <1>1. FieldsOK /\ FlowInv /\ PoolInv /\ SlotsInv
    BY DEF ClientInv
  <1>2. Idle /\ pc[r] = "called" /\ ~DrainFollows /\ UNCHANGED <<setting, count, queue, emptied>>
    BY NothingToDrain DEF Send, agentVars
  <1>3. CASE LoopTurn(r, "own") /\ UNCHANGED <<turnVars, poolVars>>
    BY <1>2, <1>3, LoopTurnKeeps DEF turnVars, poolVars
  <1>5. CASE Catch(r) /\ UNCHANGED <<req, native>>
    <2>1. FlowOf(r)
      BY <1>1 DEF FlowInv
    <2>2. req[r].loop # "own" /\ native[r].op \notin Awaiting
      BY <1>2, <2>1 DEF FlowOf
    <2>3. req \in [Requests -> RequestFields] /\ native \in [Requests -> NativeFields]
      BY <1>1 DEF FieldsOK
    <2> QED BY <1>2, <1>5, <2>2, <2>3, CatchKeeps
  <1>4. ASSUME pc' = [pc EXCEPT ![r] = "flushed"], UNCHANGED <<req, native>>,
               UNCHANGED <<todo, ticks, inUse, free, dead, socketOf>>
        PROVE  ClientInv'
    <2>7. pc \in [Requests -> Places]
      BY <1>1 DEF FieldsOK
    <2>1. \A q \in Requests : pc'[q] = pc[q] \/ (q = r /\ pc[q] = "called" /\ pc'[q] = "flushed")
      BY <1>2, <1>4, <2>7
    <2>2. pc' \in [Requests -> Places]
      BY <1>4, <2>7 DEF Places
    <2>3. FieldsOK'
      BY <1>1, <1>2, <1>4, <2>2 DEF FieldsOK
    <2>4. FlowInv'
      <3>1. ASSUME NEW q \in Requests PROVE FlowOf(q)'
        <4>1. FlowOf(q)
          BY <1>1 DEF FlowInv
        <4> QED BY <1>2, <1>4, <2>1, <4>1, StepsApart DEF FlowOf, Past, Idle
      <3>2. \A n \in Names : QueueOf(n)'
        BY <1>1, <1>2, <2>1, QueueKept
      <3>3. Told'
        BY <1>1, <1>2, <1>4, ToldKept DEF FlowInv
      <3> QED BY <3>1, <3>2, <3>3 DEF FlowInv
    <2>5. PoolInv'
      BY <1>1, <1>2, <1>4, <2>1, PoolKept DEF Fresh, Holding, Past
    <2>6. SlotsInv'
      BY <1>1, <1>2, <2>1, SlotsKept
    <2> QED BY <2>3, <2>4, <2>5, <2>6 DEF ClientInv
  <1> QED BY <1>3, <1>4, <1>5 DEF Send, turnVars, poolVars

LEMMA FlushedKeeps ==
    ASSUME ClientInv, NoSocket \notin Requests, NEW r \in Requests, Flushed(r)
    PROVE  ClientInv'
  <1>1. FieldsOK
    BY DEF ClientInv
  <1>2. /\ UNCHANGED <<setting, count, queue, emptied>> /\ ~DrainFollows
        /\ native' = [native EXCEPT ![r] = Over(r)]
        /\ req \in [Requests -> RequestFields] /\ native \in [Requests -> NativeFields]
    BY <1>1, NothingToDrain DEF Flushed, agentVars, FieldsOK
  <1>3. /\ native' \in [Requests -> NativeFields] /\ native'[r].op = "none"
        /\ \A q \in Requests : q # r => native'[q] = native[q]
    BY <1>2, OverDoes
  <1>4. CASE LoopFails(r)
    BY <1>2, <1>3, <1>4, LoopFailsKeeps
  <1>5. ASSUME NEW drains, req' = [req EXCEPT ![r].needDrain = @ /\ ~drains],
               todo' = <<Step("loop", r)>>, UNCHANGED <<ticks, pc, poolVars>>
        PROVE  ClientInv'
    <2>1. /\ req' \in [Requests -> RequestFields]
          /\ \A q \in Requests : /\ req'[q].closed = req[q].closed
                                 /\ req'[q].destroyed = req[q].destroyed
                                 /\ req'[q].loop = req[q].loop
      <3>1. PICK b \in BOOLEAN : b = (req[r].needDrain /\ ~drains)
        OBVIOUS
      <3>2. req' = [req EXCEPT ![r].needDrain = b]
        BY <1>5, <3>1
      <3> QED BY <1>2, <3>2 DEF RequestFields
    <2>2. UNCHANGED <<ticks, pc, inUse, free, dead, socketOf>>
      BY <1>5 DEF poolVars
    <2> QED BY <1>2, <1>3, <1>5, <2>1, <2>2, NativeKeeps DEF Awaiting
  <1> QED BY <1>4, <1>5 DEF Flushed

LEMMA FinishedKeeps ==
    ASSUME ClientInv, NoSocket \notin Requests, NEW r \in Requests, Finished(r)
    PROVE  ClientInv'
  <1>1. FieldsOK /\ FlowOf(r)
    BY DEF ClientInv, FlowInv
  <1>2. /\ UNCHANGED <<setting, req, count, queue, emptied>> /\ ~DrainFollows
        /\ native' = [native EXCEPT ![r] = Over(r)]
        /\ req \in [Requests -> RequestFields] /\ native \in [Requests -> NativeFields]
    BY <1>1, NothingToDrain DEF Finished, agentVars, FieldsOK
  <1>3. /\ native' \in [Requests -> NativeFields] /\ native'[r].op = "none"
        /\ \A q \in Requests : q # r => native'[q] = native[q]
    BY <1>2, OverDoes
  <1>4. pc[r] = "sending" /\ req[r].loop # "own"
    BY <1>1 DEF FlowOf, Finished, Answered, Awaiting
  <1>5. CASE Catch(r)
    BY <1>2, <1>3, <1>4, <1>5, CatchKeeps DEF Awaiting
  <1>6. CASE todo' = <<Step("wait", r)>> /\ UNCHANGED <<ticks, pc, poolVars>>
    <2>1. UNCHANGED <<ticks, pc, inUse, free, dead, socketOf>>
      BY <1>6 DEF poolVars
    <2> QED BY <1>2, <1>3, <1>4, <1>6, <2>1, NativeKeeps DEF Awaiting
  <1> QED BY <1>5, <1>6 DEF Finished

LEMMA RespondedKeeps ==
    ASSUME ClientInv, NoSocket \notin Requests, NEW r \in Requests, Responded(r)
    PROVE  ClientInv'
  <1>1. FieldsOK /\ FlowOf(r)
    BY DEF ClientInv, FlowInv
  <1>2. /\ UNCHANGED <<setting, count, queue, emptied>> /\ ~DrainFollows
        /\ req \in [Requests -> RequestFields] /\ native \in [Requests -> NativeFields]
    BY <1>1, NothingToDrain DEF Responded, agentVars, FieldsOK
  <1>3. pc[r] = "sending" /\ req[r].loop # "own"
    BY <1>1 DEF FlowOf, Responded, Answered, Awaiting
  <1>4. ASSUME NEW x \in {native[r].state, "consumed", "aborted"},
               native' = [native EXCEPT ![r] = [Over(r) EXCEPT !.state = x]]
        PROVE  /\ native' \in [Requests -> NativeFields] /\ native'[r].op = "none"
               /\ \A q \in Requests : q # r => native'[q] = native[q]
    <2>1. PICK e \in NativeFields : e = native[r]
      BY <1>2
    <2>2. x \in {e.state, "consumed", "aborted"}
      BY <1>4, <2>1
    <2>3. PICK f : f = [[e EXCEPT !.op = "none", !.answer = "none"] EXCEPT !.state = x]
      OBVIOUS
    <2>4. f \in NativeFields /\ f.op = "none"
      BY <2>2, <2>3 DEF NativeFields
    <2>5. native' = [native EXCEPT ![r] = f]
      BY <1>4, <2>1, <2>3 DEF Over
    <2> QED BY <1>2, <2>4, <2>5
  <1>5. ASSUME native' = [native EXCEPT ![r] = [Over(r) EXCEPT !.state = "consumed"]],
               NEW keep \in BOOLEAN,
               req' = [req EXCEPT ![r].response = TRUE, ![r].keep = keep],
               todo' = <<Step("leave", r)>>, UNCHANGED <<ticks, pc, poolVars>>
        PROVE  ClientInv'
    <2>1. /\ native' \in [Requests -> NativeFields] /\ native'[r].op = "none"
          /\ \A q \in Requests : q # r => native'[q] = native[q]
      BY <1>4, <1>5
    <2>2. /\ req' \in [Requests -> RequestFields]
          /\ \A q \in Requests : /\ req'[q].closed = req[q].closed
                                 /\ req'[q].destroyed = req[q].destroyed
                                 /\ req'[q].loop = req[q].loop
      <3>1. PICK e \in RequestFields : e = req[r]
        BY <1>2
      <3>2. [e EXCEPT !.response = TRUE, !.keep = keep] \in RequestFields
        BY DEF RequestFields
      <3>3. req' = [req EXCEPT ![r] = [e EXCEPT !.response = TRUE, !.keep = keep]]
        BY <1>2, <1>5, <3>1
      <3>4. req' \in [Requests -> RequestFields]
        BY <1>2, <3>2, <3>3
      <3> QED BY <1>2, <1>5, <3>4 DEF RequestFields
    <2>3. UNCHANGED <<ticks, pc, inUse, free, dead, socketOf>>
      BY <1>5 DEF poolVars
    <2> QED BY <1>2, <1>3, <1>5, <2>1, <2>2, <2>3, NativeKeeps DEF Awaiting
  <1>6. ASSUME native' = [native EXCEPT ![r] = [Over(r) EXCEPT
                             !.state = IF req[r].deferred THEN "aborted" ELSE @]],
               req' = [req EXCEPT ![r].deferred = FALSE], Leave(r, <<>>)
        PROVE  ClientInv'
    <2>1. PICK x : x = IF req[r].deferred THEN "aborted" ELSE native[r].state
      OBVIOUS
    <2>2. [Over(r) EXCEPT !.state = IF req[r].deferred THEN "aborted" ELSE @]
             = [Over(r) EXCEPT !.state = x]
      <3>1. Over(r).state = native[r].state
        <4>1. PICK e \in NativeFields : e = native[r]
          BY <1>2
        <4>2. [e EXCEPT !.op = "none", !.answer = "none"].state = e.state
          BY DEF NativeFields
        <4> QED BY <4>1, <4>2 DEF Over
      <3> QED BY <2>1, <3>1
    <2>3. x \in {native[r].state, "consumed", "aborted"}
      BY <2>1
    <2>4. /\ native' \in [Requests -> NativeFields] /\ native'[r].op = "none"
          /\ \A q \in Requests : q # r => native'[q] = native[q]
      BY <1>4, <1>6, <2>2, <2>3
    <2>5. /\ req' \in [Requests -> RequestFields]
          /\ \A q \in Requests : /\ req'[q].closed = req[q].closed
                                 /\ req'[q].destroyed = req[q].destroyed
                                 /\ req'[q].loop = req[q].loop
      BY <1>2, <1>6 DEF RequestFields
    <2> QED BY <1>2, <1>3, <1>6, <2>4, <2>5, LeaveKeeps DEF Awaiting, Ending
  <1>7. ASSUME native' = [native EXCEPT ![r] = Over(r)], Catch(r), UNCHANGED req
        PROVE  ClientInv'
    <2>1. /\ native' \in [Requests -> NativeFields] /\ native'[r].op = "none"
          /\ \A q \in Requests : q # r => native'[q] = native[q]
      BY <1>2, <1>7, OverDoes
    <2> QED BY <1>2, <1>3, <1>7, <2>1, CatchKeeps DEF Awaiting
  <1> QED BY <1>5, <1>6, <1>7 DEF Responded

-----------------------------------------------------------------------------
(* A request gets its socket.                                                 *)

\* The socket comes from the free ones of the name, or is new, and nobody holds it.
LEMMA SocketChosen ==
    ASSUME FieldsOK, PoolInv, NoSocket \notin Requests, NEW r \in Requests, pc[r] = "flushed",
           TakeSocket(r)
    PROVE  /\ free' \in [Names -> Seq(Requests)]
           /\ \A m \in Names : /\ IsInjective(free'[m]) /\ Len(free'[m]) <= setting.maxFree
                               /\ ToSet(free'[m]) \subseteq ToSet(free[m])
           /\ \E s \in Requests :
                /\ inUse' = inUse \cup {s} /\ socketOf' = [socketOf EXCEPT ![r] = s]
                /\ setting.name[s] = setting.name[r]
                /\ s \notin inUse /\ s \notin dead
                /\ \A m \in Names : s \notin ToSet(free'[m])
                /\ \A q \in Requests : pc[q] \in Holding => socketOf[q] # s
                /\ \A q \in Requests : Fresh(q) /\ q # r => q # s
  <1>1. setting \in Limits /\ free \in [Names -> Seq(Requests)]
        /\ socketOf \in [Requests -> Requests \cup {NoSocket}]
    BY DEF FieldsOK
  <1>2. PICK n \in Names : n = setting.name[r]
    BY <1>1 DEF Limits
  <1>3. PICK f \in Seq(Requests) : f = free[n]
    BY <1>1
  <1>4. \A m \in Names : IsInjective(free[m]) /\ Len(free[m]) <= setting.maxFree
    BY DEF PoolInv
  <1>5. \A m \in Names : \A x \in ToSet(free[m]) : setting.name[x] = m /\ x \notin inUse /\ x \in AllFree
    <2>1. \A m \in Names : \A x \in ToSet(free[m]) : setting.name[x] = m /\ x \notin inUse
      BY DEF PoolInv, NameOf
    <2>2. \A m \in Names : \A x \in ToSet(free[m]) : x \in AllFree
      BY DEF AllFree
    <2> QED BY <2>1, <2>2
  <1>6. Fresh(r)
    BY DEF Fresh, Holding, Past
  <1>7. CASE inUse' = inUse \cup {r} /\ socketOf' = [socketOf EXCEPT ![r] = r] /\ free' = free
    <2>1. r \notin dead \cup inUse \cup AllFree /\ \A q \in Requests : socketOf[q] # r
      BY <1>6 DEF PoolInv
    <2>2. \A m \in Names : r \notin ToSet(free'[m])
      BY <1>5, <1>7, <2>1
    <2> QED BY <1>1, <1>4, <1>7, <2>1, <2>2
  <1>8. ASSUME NEW i \in 1 .. Len(f), f[i] \notin dead, inUse' = inUse \cup {f[i]},
               socketOf' = [socketOf EXCEPT ![r] = f[i]],
               free' = [free EXCEPT ![n] = RemoveAt(f, i)]
        PROVE  /\ free' \in [Names -> Seq(Requests)]
               /\ \A m \in Names : /\ IsInjective(free'[m]) /\ Len(free'[m]) <= setting.maxFree
                                   /\ ToSet(free'[m]) \subseteq ToSet(free[m])
               /\ \E s \in Requests :
                    /\ inUse' = inUse \cup {s} /\ socketOf' = [socketOf EXCEPT ![r] = s]
                    /\ setting.name[s] = setting.name[r]
                    /\ s \notin inUse /\ s \notin dead
                    /\ \A m \in Names : s \notin ToSet(free'[m])
                    /\ \A q \in Requests : pc[q] \in Holding => socketOf[q] # s
                    /\ \A q \in Requests : Fresh(q) /\ q # r => q # s
    <2>1. PICK s \in Requests : s = f[i]
      OBVIOUS
    <2>2. s \in ToSet(f)
      BY <2>1, ElementOf
    <2>3. PICK g : g = RemoveAt(f, i)
      OBVIOUS
    <2>4. /\ g \in Seq(Requests) /\ IsInjective(g) /\ Len(g) = Len(f) - 1 /\ ToSet(g) = ToSet(f) \ {s}
      BY <1>3, <1>4, <2>1, <2>3, TakenOut
    <2>5. free' \in [Names -> Seq(Requests)] /\ \A m \in Names : free'[m] = IF m = n THEN g ELSE free[m]
      BY <1>1, <1>8, <2>3, <2>4
    <2>6. Len(g) <= setting.maxFree
      <3>1. Len(f) \in Nat /\ setting.maxFree \in Nat /\ Len(f) <= setting.maxFree
        BY <1>1, <1>3, <1>4 DEF Limits
      <3> QED BY <2>4, <3>1
    <2>7. setting.name[s] = n /\ s \notin inUse /\ s \in AllFree
      BY <1>3, <1>5, <2>2
    <2>8. \A m \in Names : s \notin ToSet(free'[m])
      BY <1>5, <2>4, <2>5, <2>7
    <2>9. \A q \in Requests : pc[q] \in Holding => socketOf[q] # s
      <3> SUFFICES ASSUME NEW q \in Requests, pc[q] \in Holding, socketOf[q] = s PROVE FALSE
        OBVIOUS
      <3>1. socketOf[q] # NoSocket
        OBVIOUS
      <3>2. socketOf[q] \notin AllFree
        BY <3>1 DEF PoolInv
      <3> QED BY <2>7, <3>2
    <2>10. \A q \in Requests : Fresh(q) => q # s
      BY <2>7 DEF PoolInv
    <2>11. \A m \in Names : /\ IsInjective(free'[m]) /\ Len(free'[m]) <= setting.maxFree
                            /\ ToSet(free'[m]) \subseteq ToSet(free[m])
      <3> TAKE m \in Names
      <3>1. CASE m = n
        BY <1>3, <2>4, <2>5, <2>6, <3>1
      <3>2. CASE m # n
        BY <1>4, <2>5, <3>2
      <3> QED BY <3>1, <3>2
    <2>12. inUse' = inUse \cup {s} /\ socketOf' = [socketOf EXCEPT ![r] = s] /\ s \notin dead
      BY <1>8, <2>1
    <2> QED BY <1>2, <2>5, <2>7, <2>8, <2>9, <2>10, <2>11, <2>12
  <1>9. \/ inUse' = inUse \cup {r} /\ socketOf' = [socketOf EXCEPT ![r] = r] /\ free' = free
        \/ \E i \in 1 .. Len(f) : /\ f[i] \notin dead /\ inUse' = inUse \cup {f[i]}
                                  /\ socketOf' = [socketOf EXCEPT ![r] = f[i]]
                                  /\ free' = [free EXCEPT ![n] = RemoveAt(f, i)]
    BY <1>1, <1>2, <1>3 DEF TakeSocket, NameOf
  <1> QED BY <1>7, <1>8, <1>9

LEMMA SocketTaken ==
    ASSUME FieldsOK, PoolInv, NoSocket \notin Requests, NEW r \in Requests, pc[r] = "flushed",
           TakeSocket(r), pc' = [pc EXCEPT ![r] = "sending"], UNCHANGED <<setting, ticks, dead>>
    PROVE  /\ PoolInv' /\ free' \in [Names -> Seq(Requests)] /\ inUse' \subseteq Requests
           /\ socketOf' \in [Requests -> Requests \cup {NoSocket}]
  <1>1. /\ pc \in [Requests -> Places] /\ inUse \subseteq Requests
        /\ socketOf \in [Requests -> Requests \cup {NoSocket}]
    BY DEF FieldsOK
  <1>2. /\ free' \in [Names -> Seq(Requests)]
        /\ \A m \in Names : /\ IsInjective(free'[m]) /\ Len(free'[m]) <= setting.maxFree
                            /\ ToSet(free'[m]) \subseteq ToSet(free[m])
    BY SocketChosen
  <1>3. PICK s \in Requests :
            /\ inUse' = inUse \cup {s} /\ socketOf' = [socketOf EXCEPT ![r] = s]
            /\ setting.name[s] = setting.name[r]
            /\ s \notin inUse /\ s \notin dead
            /\ \A m \in Names : s \notin ToSet(free'[m])
            /\ \A q \in Requests : pc[q] \in Holding => socketOf[q] # s
            /\ \A q \in Requests : Fresh(q) /\ q # r => q # s
    BY SocketChosen
  <1>4. \A q \in Requests : /\ pc'[q] = IF q = r THEN "sending" ELSE pc[q]
                            /\ socketOf'[q] = IF q = r THEN s ELSE socketOf[q]
    BY <1>1, <1>3
  <1>5. AllFree' \subseteq AllFree /\ s \notin AllFree'
    BY <1>2, <1>3 DEF AllFree
  <1>6. \A m \in Names :
          /\ IsInjective(free'[m]) /\ Len(free'[m]) <= setting'.maxFree
          /\ \A x \in ToSet(free'[m]) : setting'.name[x] = m /\ x \notin inUse'
    <2> TAKE m \in Names
    <2>1. ASSUME NEW x \in ToSet(free'[m]) PROVE setting'.name[x] = m /\ x \notin inUse'
      <3>1. x \in ToSet(free[m]) /\ x # s
        BY <1>2, <1>3, <2>1
      <3>2. setting.name[x] = m /\ x \notin inUse
        BY <3>1 DEF PoolInv, NameOf
      <3> QED BY <1>3, <3>1, <3>2
    <2> QED BY <1>2, <2>1
  <1>7. \A x \in inUse' : \E q \in Requests : socketOf'[q] = x /\ pc'[q] \in Holding
    <2> TAKE x \in inUse'
    <2>1. CASE x = s
      BY <1>4, <2>1 DEF Holding
    <2>2. CASE x \in inUse
      <3>1. PICK q \in Requests : socketOf[q] = x /\ pc[q] \in Holding
        BY <2>2 DEF PoolInv
      <3>2. q # r
        BY <3>1 DEF Holding
      <3> QED BY <1>4, <3>1, <3>2
    <2> QED BY <1>3, <2>1, <2>2
  <1>8. \A p, q \in Requests :
          p # q /\ pc'[p] \in Holding /\ pc'[q] \in Holding /\ socketOf'[p] = socketOf'[q]
            => socketOf'[p] = NoSocket
    <2> SUFFICES ASSUME NEW p \in Requests, NEW q \in Requests, p # q, pc'[p] \in Holding,
                        pc'[q] \in Holding, socketOf'[p] = socketOf'[q]
                 PROVE  socketOf'[p] = NoSocket
      OBVIOUS
    <2>1. p # r
      BY <1>3, <1>4
    <2>2. q # r
      BY <1>3, <1>4
    <2> QED BY <1>4, <2>1, <2>2 DEF PoolInv
  <1>9. \A x \in dead' \cap (inUse' \cup AllFree') : Step("socket close", x) \in ToSet(ticks')
    BY <1>3, <1>5 DEF PoolInv
  <1>10. \A q \in Requests : Fresh(q)' =>
          /\ socketOf'[q] = NoSocket
          /\ q \notin dead' \cup inUse' \cup AllFree'
          /\ \A p \in Requests : socketOf'[p] # q
    <2> TAKE q \in Requests
    <2> HAVE Fresh(q)'
    <2>1. q # r /\ Fresh(q)
      BY <1>4 DEF Fresh, Holding
    <2>2. /\ socketOf[q] = NoSocket
          /\ q \notin dead \cup inUse \cup AllFree
          /\ \A p \in Requests : socketOf[p] # q
      BY <2>1 DEF PoolInv
    <2> QED BY <1>3, <1>4, <1>5, <2>1, <2>2
  <1>11. \A q \in Requests : socketOf'[q] # NoSocket =>
          /\ setting'.name[socketOf'[q]] = setting'.name[q]
          /\ pc'[q] \in Holding =>
               socketOf'[q] \notin AllFree' /\ socketOf'[q] \in inUse' \cup dead'
    <2> TAKE q \in Requests
    <2>1. CASE q = r
      BY <1>3, <1>4, <1>5, <2>1
    <2>2. CASE q # r
      <3>1. socketOf'[q] = socketOf[q] /\ pc'[q] = pc[q]
        BY <1>4, <2>2
      <3>2. socketOf[q] # NoSocket =>
              /\ setting.name[socketOf[q]] = setting.name[q]
              /\ pc[q] \in Holding => socketOf[q] \notin AllFree /\ socketOf[q] \in inUse \cup dead
        BY DEF PoolInv, NameOf
      <3> QED BY <1>3, <1>5, <3>1, <3>2
    <2> QED BY <2>1, <2>2
  <1>12. \A t \in ToSet(ticks') : t.what = "socket close" => t.of \in dead'
    BY DEF PoolInv
  <1>13. PoolInv'
    BY <1>6, <1>7, <1>8, <1>9, <1>10, <1>11, <1>12 DEF PoolInv, NameOf
  <1> QED BY <1>1, <1>2, <1>3, <1>13

LEMMA SetUpSocketKeeps ==
    ASSUME ClientInv, NoSocket \notin Requests, NEW r \in Requests, SetUpSocket(r)
    PROVE  ClientInv'
  <1>1. FieldsOK /\ FlowInv /\ PoolInv /\ SlotsInv /\ FlowOf(r)
    BY DEF ClientInv, FlowInv
  <1>2. /\ UNCHANGED <<setting, req, native, count, queue, emptied>> /\ ~DrainFollows
        /\ req \in [Requests -> RequestFields] /\ native \in [Requests -> NativeFields]
        /\ pc \in [Requests -> Places] /\ pc[r] = "flushed"
    BY <1>1, NothingToDrain DEF SetUpSocket, agentVars, FieldsOK
  <1>3. req[r].loop # "own" /\ native[r].op \notin Awaiting
    BY <1>1, <1>2 DEF FlowOf
  <1>4. CASE Leave(r, <<>>)
    BY <1>2, <1>3, <1>4, LeaveKeeps
  <1>5. CASE /\ TakeSocket(r)
             /\ todo' = <<Step("finish it", r)>>
             /\ pc' = [pc EXCEPT ![r] = "sending"]
             /\ UNCHANGED <<ticks, dead>>
    <2>1. /\ PoolInv' /\ free' \in [Names -> Seq(Requests)] /\ inUse' \subseteq Requests
          /\ socketOf' \in [Requests -> Requests \cup {NoSocket}]
      BY <1>1, <1>2, <1>5, SocketTaken
    <2>2. \A q \in Requests : pc'[q] = IF q = r THEN "sending" ELSE pc[q]
      BY <1>2, <1>5
    <2>3. FieldsOK'
      <3>1. pc' \in [Requests -> Places]
        BY <1>2, <1>5 DEF Places
      <3>2. todo' \in Todos
        BY <1>5, AnyStep DEF Steps
      <3> QED BY <1>1, <1>2, <1>5, <2>1, <3>1, <3>2 DEF FieldsOK
    <2>4. FlowInv'
      <3>1. ASSUME NEW q \in Requests PROVE FlowOf(q)'
        <4>1. FlowOf(q)
          BY <1>1 DEF FlowInv
        <4>2. /\ todo' # <<Step("leave", q)>> /\ todo' # <<Step("wait", q)>>
              /\ todo' # <<Step("close", q)>> /\ (todo' = <<Step("finish it", q)>> => q = r)
          BY <1>5 DEF Step
        <4>3. CASE q = r
          <5>1. /\ pc'[q] = "sending" /\ req'[q].loop # "own" /\ native'[q].op \notin Awaiting
                /\ req'[q].closed => req'[q].destroyed
            BY <1>2, <1>3, <2>2, <4>1, <4>3 DEF FlowOf, Past
          <5> QED BY <4>2, <5>1 DEF FlowOf
        <4>4. CASE q # r
          BY <1>2, <2>2, <4>1, <4>2, <4>4 DEF FlowOf
        <4> QED BY <4>3, <4>4
      <3>2. \A n \in Names : QueueOf(n)'
        BY <1>1, <1>2, <2>2, QueueKept
      <3>3. Told'
        BY <1>1, <1>2, <1>5, ToldKept DEF FlowInv
      <3> QED BY <3>1, <3>2, <3>3 DEF FlowInv
    <2>5. SlotsInv'
      <3>1. \A q \in Requests : pc'[q] \in {"open", "queued", "done", "lost"} <=> pc[q] \in {"open", "queued", "done", "lost"}
        BY <1>2, <2>2
      <3> QED BY <1>1, <1>2, <3>1, SlotsKept
    <2> QED BY <2>1, <2>3, <2>4, <2>5 DEF ClientInv
  <1> QED BY <1>4, <1>5 DEF SetUpSocket

-----------------------------------------------------------------------------
(* The slots.                                                                 *)

\* A request is admitted.
LEMMA Admits ==
    ASSUME ClientConstants, FieldsOK, SlotsInv, NEW r \in Requests, pc[r] \in {"open", "queued"},
           NEW n \in Names, setting.name[r] = n, CanRun(n), count' = [count EXCEPT ![n] = @ + 1],
           pc' = [pc EXCEPT ![r] = "called"], UNCHANGED <<setting, emptied>>,
           \A m \in Names : queue'[m] # <<>> /\ CanRun(m) => DrainFollows'
    PROVE  SlotsInv'
  <1>1. /\ count \in [Names -> Nat] /\ pc \in [Requests -> Places]
        /\ setting.maxSockets \in Nat /\ setting.maxTotal \in Nat
        /\ IsFiniteSet(Requests) /\ IsFiniteSet(Names)
    BY DEF FieldsOK, ClientConstants, Limits
  <1>2. PICK k : k = Cardinality(Requests)
    OBVIOUS
  <1>3. PICK a : a = [m \in Names |-> Cardinality(AdmittedOf(pc, setting.name, m))]
    OBVIOUS
  <1>4. PICK b : b = [m \in Names |-> Cardinality(AdmittedOf(pc', setting.name, m))]
    OBVIOUS
  <1>5. \A m \in Names : a[m] = Cardinality(Admitted(m)) /\ b[m] = Cardinality(Admitted(m))'
    BY <1>3, <1>4 DEF Admitted, AdmittedOf, NameOf
  <1>6. \A m \in Names : a[m] \in 0 .. k /\ k \in Nat /\ b[m] = a[m] + (IF m = n THEN 1 ELSE 0)
    <2> TAKE m \in Names
    <2>1. a[m] \in 0 .. k /\ k \in Nat
      BY <1>1, <1>2, <1>3, AdmittedCount
    <2>6. PICK p \in [Requests -> Places] : p = pc
      BY <1>1
    <2>7. PICK nm : nm = setting.name
      OBVIOUS
    <2>8. PICK c \in {0, 1} : c = IF m = n THEN 1 ELSE 0
      OBVIOUS
    <2>2. p = pc /\ nm = setting.name /\ c = IF m = n THEN 1 ELSE 0
      BY <2>6, <2>7, <2>8
    <2>3. pc' = [p EXCEPT ![r] = "called"] /\ (nm[r] = m <=> m = n) /\ p[r] \in {"open", "queued"}
      BY <2>2
    <2>4. Cardinality(AdmittedOf([p EXCEPT ![r] = "called"], nm, m))
             = Cardinality(AdmittedOf(p, nm, m)) + (IF nm[r] = m THEN 1 ELSE 0)
      <3>1. IsFiniteSet(Requests) /\ p[r] \in {"open", "queued"}
        BY <1>1, <2>3
      <3> QED BY ONLY <3>1, AdmitOne, p \in [Requests -> Places], r \in Requests
    <2>5. b[m] = a[m] + c
      BY <1>3, <1>4, <2>2, <2>3, <2>4
    <2> QED BY <2>1, <2>2, <2>5
  <1>7. \A m \in Names : count[m] \in Nat /\ count[m] <= a[m] /\ count[m] <= k
    <2> TAKE m \in Names
    <2>1. count[m] \in Nat /\ count[m] <= a[m]
      BY <1>1, <1>5 DEF SlotsInv
    <2> QED BY <1>6, <2>1
  <1>8. \A m \in Names : count'[m] = IF m = n THEN count[m] + 1 ELSE count[m]
    BY <1>1
  <1>9. Total' = Total + 1 /\ Total \in Nat
    <2>1. k \in Nat
      BY <1>6
    <2>2. PICK c \in [Names -> Nat] : c = count
      BY <1>1
    <2>3. \A m \in Names : c[m] <= k
      BY <1>7, <2>2
    <2>4. Cardinality(SlotsOf([c EXCEPT ![n] = @ + 1])) = Cardinality(SlotsOf(c)) + 1
          /\ Cardinality(SlotsOf(c)) \in Nat
      BY <1>1, <2>1, <2>3, OneSlotMore, SlotsCount
    <2>5. Total = Cardinality(SlotsOf(c))
      BY <2>2 DEF Total, SlotsOf
    <2>6. Total' = Cardinality(SlotsOf([c EXCEPT ![n] = @ + 1]))
      BY <2>2 DEF Total, SlotsOf
    <2> QED BY <2>4, <2>5, <2>6
  <1>10. count[n] < setting.maxSockets /\ Total < setting.maxTotal
    BY DEF CanRun
  <1>11. \A m \in Names : count'[m] <= b[m]
    BY <1>6, <1>7, <1>8
  <1>12. ~emptied' => \A m \in Names : count'[m] = b[m] /\ count'[m] <= setting'.maxSockets
    <2> SUFFICES ASSUME ~emptied, NEW m \in Names
                 PROVE  count'[m] = b[m] /\ count'[m] <= setting.maxSockets
      OBVIOUS
    <2>1. count[m] = a[m] /\ count[m] <= setting.maxSockets
      BY <1>5 DEF SlotsInv
    <2> QED BY <1>1, <1>6, <1>7, <1>8, <1>10, <2>1
  <1>13. ~emptied' => Total' <= setting'.maxTotal
    BY <1>1, <1>9, <1>10
  <1>14. \A m \in Names : CanRun(m)' => CanRun(m)
    <2> TAKE m \in Names
    <2> HAVE CanRun(m)'
    <2>1. count'[m] < setting.maxSockets /\ Total' < setting.maxTotal
      BY DEF CanRun
    <2>2. count[m] < setting.maxSockets /\ Total < setting.maxTotal
      BY <1>1, <1>7, <1>8, <1>9, <2>1
    <2> QED BY <2>2 DEF CanRun
  <1> QED BY <1>5, <1>11, <1>12, <1>13, <1>14 DEF SlotsInv

\* A slot is given back, if there is one left to give back.
LEMMA Dismisses ==
    ASSUME ClientConstants, FieldsOK, SlotsInv, NEW r \in Requests, pc[r] \in AfterEnd,
           NEW place \in {"done", "lost"}, NEW n \in Names, setting.name[r] = n,
           count' = [count EXCEPT ![n] = IF @ > 0 THEN @ - 1 ELSE 0],
           pc' = [pc EXCEPT ![r] = place], UNCHANGED <<setting, emptied>>, DrainFollows'
    PROVE  SlotsInv' /\ count' \in [Names -> Nat]
  <1>1. /\ count \in [Names -> Nat] /\ pc \in [Requests -> Places]
        /\ setting.maxSockets \in Nat /\ setting.maxTotal \in Nat
        /\ IsFiniteSet(Requests) /\ IsFiniteSet(Names)
    BY DEF FieldsOK, ClientConstants, Limits
  <1>2. PICK k : k = Cardinality(Requests)
    OBVIOUS
  <1>3. PICK a : a = [m \in Names |-> Cardinality(AdmittedOf(pc, setting.name, m))]
    OBVIOUS
  <1>4. PICK b : b = [m \in Names |-> Cardinality(AdmittedOf(pc', setting.name, m))]
    OBVIOUS
  <1>5. \A m \in Names : a[m] = Cardinality(Admitted(m)) /\ b[m] = Cardinality(Admitted(m))'
    BY <1>3, <1>4 DEF Admitted, AdmittedOf, NameOf
  <1>6. \A m \in Names : /\ a[m] \in 0 .. k /\ k \in Nat /\ b[m] = a[m] - (IF m = n THEN 1 ELSE 0)
                         /\ m = n => a[m] > 0
    <2> TAKE m \in Names
    <2>1. a[m] \in 0 .. k /\ k \in Nat
      BY <1>1, <1>2, <1>3, AdmittedCount
    <2>6. PICK p \in [Requests -> Places] : p = pc
      BY <1>1
    <2>7. PICK nm : nm = setting.name
      OBVIOUS
    <2>8. PICK c \in {0, 1} : c = IF m = n THEN 1 ELSE 0
      OBVIOUS
    <2>2. p = pc /\ nm = setting.name /\ c = IF m = n THEN 1 ELSE 0
      BY <2>6, <2>7, <2>8
    <2>3. pc' = [p EXCEPT ![r] = place] /\ (nm[r] = m <=> m = n)
          /\ p[r] \notin {"open", "queued", "done", "lost"}
      BY <2>2 DEF AfterEnd
    <2>4. /\ Cardinality(AdmittedOf([p EXCEPT ![r] = place], nm, m))
               = Cardinality(AdmittedOf(p, nm, m)) - (IF nm[r] = m THEN 1 ELSE 0)
          /\ nm[r] = m => Cardinality(AdmittedOf(p, nm, m)) > 0
      <3>1. IsFiniteSet(Requests) /\ p[r] \notin {"open", "queued", "done", "lost"}
        BY <1>1, <2>3
      <3>2. \A l \in {"done", "lost"} :
              /\ Cardinality(AdmittedOf([p EXCEPT ![r] = l], nm, m))
                   = Cardinality(AdmittedOf(p, nm, m)) - (IF nm[r] = m THEN 1 ELSE 0)
              /\ nm[r] = m => Cardinality(AdmittedOf(p, nm, m)) > 0
        BY <3>1, DismissOne
      <3> QED BY <3>2
    <2>5. b[m] = a[m] - c /\ (m = n => a[m] > 0)
      BY <1>3, <1>4, <2>2, <2>3, <2>4
    <2> QED BY <2>1, <2>2, <2>5
  <1>7. \A m \in Names : count[m] \in Nat /\ count[m] <= a[m] /\ count[m] <= k
    <2> TAKE m \in Names
    <2>1. count[m] \in Nat /\ count[m] <= a[m]
      BY <1>1, <1>5 DEF SlotsInv
    <2> QED BY <1>6, <2>1
  <1>8. \A m \in Names :
          count'[m] = IF m = n THEN (IF count[m] > 0 THEN count[m] - 1 ELSE 0) ELSE count[m]
    BY <1>1
  <1>9. count' \in [Names -> Nat] /\ \A m \in Names : count'[m] <= count[m]
    <2>1. (IF count[n] > 0 THEN count[n] - 1 ELSE 0) \in Nat
      BY <1>7
    <2>2. count' \in [Names -> Nat]
      BY <1>1, <2>1
    <2> QED BY <1>7, <1>8, <2>2
  <1>10. Total' <= Total /\ Total \in Nat /\ Total' \in Nat
    <2>1. k \in Nat
      BY <1>6
    <2>2. PICK c \in [Names -> Nat], d \in [Names -> Nat] : c = count /\ d = count'
      BY <1>1, <1>9
    <2>3. \A m \in Names : c[m] <= k /\ d[m] <= c[m] /\ d[m] <= k
      BY <1>7, <1>9, <2>1, <2>2
    <2>4. /\ Cardinality(SlotsOf(d)) <= Cardinality(SlotsOf(c))
          /\ Cardinality(SlotsOf(c)) \in Nat /\ Cardinality(SlotsOf(d)) \in Nat
      BY <1>1, <2>1, <2>3, NoSlotMore, SlotsCount
    <2>5. Total = Cardinality(SlotsOf(c)) /\ Total' = Cardinality(SlotsOf(d))
      BY <2>2 DEF Total, SlotsOf
    <2> QED BY <2>4, <2>5
  <1>11. \A m \in Names : count'[m] <= b[m]
    BY <1>6, <1>7, <1>8
  <1>12. ~emptied' => \A m \in Names : count'[m] = b[m] /\ count'[m] <= setting'.maxSockets
    <2> SUFFICES ASSUME ~emptied, NEW m \in Names
                 PROVE  count'[m] = b[m] /\ count'[m] <= setting.maxSockets
      OBVIOUS
    <2>1. count[m] = a[m] /\ count[m] <= setting.maxSockets
      BY <1>5 DEF SlotsInv
    <2> QED BY <1>1, <1>6, <1>7, <1>8, <2>1
  <1>13. ~emptied' => Total' <= setting'.maxTotal
    BY <1>1, <1>10 DEF SlotsInv
  <1> QED BY <1>5, <1>9, <1>11, <1>12, <1>13 DEF SlotsInv

\* A request moves outside the part where it holds a socket.
LEMMA FlowMoved ==
    ASSUME FlowInv, NEW r \in Requests, native' = native,
           \A q \in Requests : q # r => pc'[q] = pc[q],
           \/ pc[r] \in {"open", "queued"} /\ todo' = todo
           \/ /\ <<pc[r], pc'[r]>> \in {<<"settled", "done">>, <<"stranded", "lost">>}
              /\ todo' = <<Step("drain queues", r)>>,
           \A q \in Requests : /\ req'[q].closed = req[q].closed
                               /\ req'[q].destroyed = req[q].destroyed
                               /\ req'[q].loop = req[q].loop
    PROVE  \A q \in Requests : FlowOf(q)'
  <1> TAKE q \in Requests
  <1>1. FlowOf(q)
    BY DEF FlowInv
  <1>2. CASE pc[r] \in {"open", "queued"} /\ todo' = todo
    <2>1. CASE q = r
      BY <1>1, <1>2, <2>1 DEF FlowOf, Ending, Past
    <2>2. CASE q # r
      BY <1>1, <1>2, <2>2 DEF FlowOf
    <2> QED BY <2>1, <2>2
  <1>3. CASE /\ <<pc[r], pc'[r]>> \in {<<"settled", "done">>, <<"stranded", "lost">>}
             /\ todo' = <<Step("drain queues", r)>>
    <2>1. /\ todo' # <<Step("finish it", q)>> /\ todo' # <<Step("wait", q)>>
          /\ todo' # <<Step("leave", q)>> /\ todo' # <<Step("close", q)>>
      BY <1>3 DEF Step
    <2>2. CASE q = r
      BY <1>1, <1>3, <2>1, <2>2 DEF FlowOf, Past
    <2>3. CASE q # r
      BY <1>1, <2>1, <2>3 DEF FlowOf
    <2> QED BY <2>2, <2>3
  <1> QED BY <1>2, <1>3

LEMMA EndKeeps ==
    ASSUME ClientConstants, ClientInv, NEW r \in Requests, End(r)
    PROVE  ClientInv'
  <1>1. FieldsOK /\ FlowInv /\ PoolInv /\ SlotsInv
    BY DEF ClientInv
  <1>2. /\ UNCHANGED <<todo, ticks, setting, native, emptied, inUse, free, dead, socketOf>>
        /\ req' = [req EXCEPT ![r].ended = TRUE] /\ pc[r] = "open" /\ Schedule(r)
    BY DEF End, turnVars, poolVars
  <1>3. /\ req \in [Requests -> RequestFields] /\ pc \in [Requests -> Places]
        /\ count \in [Names -> Nat] /\ queue \in [Names -> Seq(Requests)] /\ setting \in Limits
    BY <1>1 DEF FieldsOK
  <1>4. /\ req' \in [Requests -> RequestFields]
        /\ \A q \in Requests : /\ req'[q].closed = req[q].closed
                               /\ req'[q].destroyed = req[q].destroyed
                               /\ req'[q].loop = req[q].loop
    BY <1>2, <1>3 DEF RequestFields
  <1>5. PICK n \in Names : n = setting.name[r]
    BY <1>3 DEF Limits
  <1>6. \A m \in Names : r \notin ToSet(queue[m])
    BY <1>1, <1>2 DEF FlowInv, QueueOf
  <1>7. PICK w \in {"called", "queued"} : pc' = [pc EXCEPT ![r] = w]
    BY <1>2 DEF Schedule
  <1>8. pc' \in [Requests -> Places] /\ \A q \in Requests : pc'[q] = IF q = r THEN w ELSE pc[q]
    <2>1. w \in Places
      BY DEF Places
    <2> QED BY <1>3, <1>7, <2>1
  <1>9. \A q \in Requests : FlowOf(q)'
    BY <1>1, <1>2, <1>4, <1>8, FlowMoved
  <1>10. Told'
    BY <1>1, <1>2, <1>4, ToldKept DEF FlowInv
  <1>11. PoolInv'
    <2>1. /\ \A q \in Requests : pc[q] \in Holding <=> pc'[q] \in Holding
          /\ \A q \in Requests : Fresh(q)' => Fresh(q)
      BY <1>2, <1>8 DEF Fresh, Holding, Past
    <2> QED BY <1>1, <1>2, <2>1, PoolKept
  <1>12. CASE CanRun(n)
    <2>1. count' = [count EXCEPT ![n] = @ + 1] /\ pc' = [pc EXCEPT ![r] = "called"] /\ queue' = queue
      BY <1>2, <1>5, <1>12 DEF Schedule, NameOf
    <2>2. FieldsOK'
      BY <1>1, <1>2, <1>3, <1>4, <1>8, <2>1 DEF FieldsOK
    <2>3. FlowInv'
      <3>1. \A m \in Names : QueueOf(m)'
        BY <1>1, <1>2, <1>8, <2>1, QueueKept
      <3> QED BY <1>9, <1>10, <3>1 DEF FlowInv
    <2>4. \A m \in Names : queue'[m] # <<>> /\ CanRun(m) => DrainFollows'
      BY <1>1, <1>2, <2>1 DEF SlotsInv, DrainFollows
    <2>5. SlotsInv'
      BY <1>1, <1>2, <1>5, <1>12, <2>1, <2>4, Admits
    <2> QED BY <1>11, <2>2, <2>3, <2>5 DEF ClientInv
  <1>13. CASE ~CanRun(n)
    <2>1. /\ queue' = [queue EXCEPT ![n] = Append(@, r)] /\ pc' = [pc EXCEPT ![r] = "queued"]
          /\ count' = count
      BY <1>2, <1>5, <1>13 DEF Schedule, NameOf
    <2>2. PICK s \in Seq(Requests) : s = queue[n]
      BY <1>3
    <2>3. PICK t \in Seq(Requests) : t = Append(s, r)
      <3>1. Append(s, r) \in Seq(Requests)
        BY AppendedSet, Zenon
      <3> QED BY <3>1
    <2>4. ToSet(t) = ToSet(s) \cup {r}
      BY <2>3, AppendedSet
    <2>5. IsInjective(t)
      <3>1. IsInjective(s) /\ r \notin ToSet(s)
        BY <1>1, <1>6, <2>2 DEF FlowInv, QueueOf
      <3> QED BY <2>3, <3>1, AppendedApart
    <2>6. queue' \in [Names -> Seq(Requests)] /\ \A m \in Names : queue'[m] = IF m = n THEN t ELSE queue[m]
      BY <1>3, <2>1, <2>2, <2>3
    <2>7. FieldsOK'
      BY <1>1, <1>2, <1>4, <1>8, <2>1, <2>6 DEF FieldsOK
    <2>8. pc'[r] = "queued" /\ \A q \in Requests : q # r => pc'[q] = pc[q]
      BY <1>3, <2>1
    <2>9. \A m \in Names : QueueOf(m)'
      <3> TAKE m \in Names
      <3>1. QueueOf(m)
        BY <1>1 DEF FlowInv
      <3>2. queue[m] \in Seq(Requests)
        BY <1>3
      <3>3. \A q \in ToSet(queue[m]) : q \in Requests /\ q # r
        BY <1>6, <3>2, MembersOf
      <3>4. CASE m = n
        BY <1>2, <1>5, <2>2, <2>4, <2>5, <2>6, <2>8, <3>1, <3>3, <3>4 DEF QueueOf
      <3>5. CASE m # n
        BY <1>2, <2>6, <2>8, <3>1, <3>3, <3>5 DEF QueueOf
      <3> QED BY <3>4, <3>5
    <2>10. FlowInv'
      BY <1>9, <1>10, <2>9 DEF FlowInv
    <2>11. SlotsInv'
      <3>1. \A q \in Requests : pc'[q] \in {"open", "queued", "done", "lost"} <=> pc[q] \in {"open", "queued", "done", "lost"}
        BY <1>2, <2>8
      <3>2. \A m \in Names : Admitted(m)' = Admitted(m)
        BY <1>2, <3>1 DEF Admitted, NameOf
      <3>3. Total' = Total /\ \A m \in Names : CanRun(m)' <=> CanRun(m)
        BY <1>2, <2>1 DEF Total, CanRun
      <3>4. \A m \in Names : Cardinality(Admitted(m))' = Cardinality(Admitted(m))
        BY <3>2
      <3>5. \A m \in Names : queue'[m] # <<>> /\ CanRun(m)' => DrainFollows'
        BY <1>1, <1>2, <1>13, <2>6, <3>3 DEF SlotsInv, DrainFollows
      <3> QED BY <1>1, <1>2, <2>1, <3>3, <3>4, <3>5 DEF SlotsInv
    <2> QED BY <1>11, <2>7, <2>10, <2>11 DEF ClientInv
  <1> QED BY <1>12, <1>13

LEMMA FinallyKeeps ==
    ASSUME ClientConstants, ClientInv, NEW r \in Requests, Finally(r)
    PROVE  ClientInv'
  <1>1. FieldsOK /\ FlowInv /\ PoolInv /\ SlotsInv
    BY DEF ClientInv
  <1>2. /\ UNCHANGED <<ticks, setting, req, native, queue, emptied, inUse, free, dead, socketOf>>
        /\ pc[r] \in AfterEnd /\ pc' = [pc EXCEPT ![r] = AfterSend(r)]
        /\ count' = [count EXCEPT ![setting.name[r]] = IF @ > 0 THEN @ - 1 ELSE 0]
        /\ todo' = <<Step("drain queues", r)>>
    BY DEF Finally, poolVars, NameOf, AfterEnd
  <1>10. PICK d \in {"done", "lost"} : d = AfterSend(r)
    BY DEF AfterSend
  <1>11. <<pc[r], d>> \in {<<"settled", "done">>, <<"stranded", "lost">>}
    BY <1>2, <1>10 DEF AfterSend, AfterEnd
  <1>3. pc \in [Requests -> Places] /\ setting \in Limits
    BY <1>1 DEF FieldsOK
  <1>4. PICK n \in Names : n = setting.name[r]
    BY <1>3 DEF Limits
  <1>5. SlotsInv' /\ count' \in [Names -> Nat]
    <2>1. DrainFollows'
      BY <1>2 DEF DrainFollows
    <2>2. count' = [count EXCEPT ![n] = IF @ > 0 THEN @ - 1 ELSE 0]
      BY <1>2, <1>4
    <2> QED BY <1>1, <1>2, <1>4, <1>10, <2>1, <2>2, Dismisses
  <1>6. \A q \in Requests : pc'[q] = IF q = r THEN d ELSE pc[q]
    BY <1>2, <1>3, <1>10
  <1>7. FieldsOK'
    <2>1. pc' \in [Requests -> Places]
      BY <1>2, <1>3, <1>10 DEF Places
    <2>2. todo' \in Todos
      BY <1>2, AnyStep DEF Steps
    <2> QED BY <1>1, <1>2, <1>5, <2>1, <2>2 DEF FieldsOK
  <1>8. FlowInv'
    <2>1. \A q \in Requests : FlowOf(q)'
      BY <1>1, <1>2, <1>6, <1>11, FlowMoved
    <2>2. \A m \in Names : QueueOf(m)'
      BY <1>1, <1>2, <1>6, QueueKept DEF AfterEnd
    <2>3. Told'
      BY <1>1, <1>2, ToldKept DEF FlowInv
    <2> QED BY <2>1, <2>2, <2>3 DEF FlowInv
  <1>9. PoolInv'
    <2>1. /\ \A q \in Requests : pc[q] \in Holding <=> pc'[q] \in Holding
          /\ \A q \in Requests : Fresh(q)' => Fresh(q)
      <3>1. \A q \in Requests : pc[q] \in Holding <=> pc'[q] \in Holding
        <4>1. pc[r] \in Holding <=> d \in Holding
          BY <1>11 DEF Holding
        <4> QED BY <1>6, <4>1
      <3>2. \A q \in Requests : pc'[q] = pc[q] \/ pc'[q] \in Past \cup Holding
        BY <1>6, <1>10 DEF Past, Holding
      <3> QED BY <3>1, <3>2 DEF Fresh
    <2> QED BY <1>1, <1>2, <2>1, PoolKept
  <1> QED BY <1>5, <1>7, <1>8, <1>9 DEF ClientInv

LEMMA DrainQueuesKeeps ==
    ASSUME ClientConstants, ClientInv, DrainQueues
    PROVE  ClientInv'
  <1>1. FieldsOK /\ FlowInv /\ PoolInv /\ SlotsInv
    BY DEF ClientInv
  <1>2. UNCHANGED <<ticks, setting, req, native, emptied, inUse, free, dead, socketOf>>
    BY DEF DrainQueues, poolVars
  <1>3. PICK d \in Requests : todo = <<Step("drain queues", d)>> /\ Tail(todo) = <<>>
    BY <1>1, NextStep DEF DrainQueues, FieldsOK
  <1>4. pc \in [Requests -> Places] /\ setting \in Limits /\ queue \in [Names -> Seq(Requests)]
        /\ count \in [Names -> Nat]
    BY <1>1 DEF FieldsOK
  <1>5. ASSUME NEW n \in Names, queue[n] # <<>>, CanRun(n),
               queue' = [queue EXCEPT ![n] = Tail(@)],
               count' = [count EXCEPT ![n] = @ + 1],
               pc' = [pc EXCEPT ![Head(queue[n])] = "called"], todo' = todo
        PROVE  ClientInv'
    <2>1. PICK s \in Seq(Requests) : s = queue[n]
      BY <1>4
    <2>2. PICK r, t : r = Head(s) /\ t = Tail(s)
      OBVIOUS
    <2>3. /\ r \in Requests /\ t \in Seq(Requests) /\ ToSet(t) \subseteq ToSet(s) /\ r \in ToSet(s)
      BY <1>5, <2>1, <2>2, Shortened
    <2>4. QueueOf(n)
      BY <1>1 DEF FlowInv
    <2>5. IsInjective(t) /\ r \notin ToSet(t)
      BY <1>5, <2>1, <2>2, <2>4, ShortenedApart DEF QueueOf
    <2>6. pc[r] = "queued" /\ setting.name[r] = n
      BY <2>1, <2>3, <2>4 DEF QueueOf
    <2>7. queue' \in [Names -> Seq(Requests)] /\ \A m \in Names : queue'[m] = IF m = n THEN t ELSE queue[m]
      BY <1>4, <1>5, <2>1, <2>2, <2>3
    <2>8. pc' = [pc EXCEPT ![r] = "called"] /\ pc' \in [Requests -> Places]
          /\ \A q \in Requests : pc'[q] = IF q = r THEN "called" ELSE pc[q]
      <3>1. pc' = [pc EXCEPT ![r] = "called"]
        BY <1>5, <2>1, <2>2
      <3>2. pc' \in [Requests -> Places]
        BY <1>4, <3>1 DEF Places
      <3> QED BY <1>4, <3>1, <3>2
    <2>9. FieldsOK'
      <3>1. count' \in [Names -> Nat]
        BY <1>4, <1>5
      <3> QED BY <1>1, <1>2, <1>5, <2>7, <2>8, <3>1 DEF FieldsOK
    <2>10. FlowInv'
      <3>1. \A q \in Requests : FlowOf(q)'
        BY <1>1, <1>2, <1>5, <2>3, <2>6, <2>8, FlowMoved
      <3>2. \A m \in Names : QueueOf(m)'
        <4> TAKE m \in Names
        <4>1. QueueOf(m)
          BY <1>1 DEF FlowInv
        <4>2. queue[m] \in Seq(Requests)
          BY <1>4
        <4>3. \A q \in ToSet(queue[m]) : q \in Requests
          BY <4>2, MembersOf
        <4>4. CASE m = n
          BY <1>2, <2>1, <2>3, <2>5, <2>7, <2>8, <4>1, <4>3, <4>4 DEF QueueOf
        <4>5. CASE m # n
          <5>1. \A q \in ToSet(queue[m]) : q # r
            BY <2>6, <4>1, <4>5 DEF QueueOf
          <5> QED BY <1>2, <2>7, <2>8, <4>1, <4>3, <4>5, <5>1 DEF QueueOf
        <4> QED BY <4>4, <4>5
      <3>3. Told'
        BY <1>1, <1>2, ToldKept DEF FlowInv
      <3> QED BY <3>1, <3>2, <3>3 DEF FlowInv
    <2>11. PoolInv'
      <3>1. /\ \A q \in Requests : pc[q] \in Holding <=> pc'[q] \in Holding
            /\ \A q \in Requests : Fresh(q)' => Fresh(q)
        BY <2>6, <2>8 DEF Fresh, Holding, Past
      <3> QED BY <1>1, <1>2, <3>1, PoolKept
    <2>12. SlotsInv'
      <3>1. DrainFollows'
        BY <1>3, <1>5 DEF DrainFollows
      <3> QED BY <1>1, <1>2, <1>5, <2>3, <2>6, <2>8, <3>1, Admits
    <2> QED BY <2>9, <2>10, <2>11, <2>12 DEF ClientInv
  <1>6. ASSUME \A n \in Names : queue[n] = <<>> \/ ~CanRun(n), todo' = Tail(todo),
               UNCHANGED <<queue, count, pc>>
        PROVE  ClientInv'
    <2>1. todo' = <<>>
      BY <1>3, <1>6
    <2>2. FieldsOK'
      BY <1>1, <1>2, <1>6, <2>1 DEF FieldsOK, Todos
    <2>3. FlowInv'
      <3>1. ASSUME NEW q \in Requests PROVE FlowOf(q)'
        <4>1. FlowOf(q)
          BY <1>1 DEF FlowInv
        <4>2. /\ todo' # <<Step("finish it", q)>> /\ todo' # <<Step("wait", q)>>
              /\ todo' # <<Step("leave", q)>> /\ todo' # <<Step("close", q)>>
          BY <2>1, StepsApart
        <4> QED BY <1>2, <1>6, <4>1, <4>2 DEF FlowOf
      <3>2. \A n \in Names : QueueOf(n)'
        BY <1>1, <1>2, <1>6, QueueKept
      <3>3. Told'
        BY <1>1, <1>2, ToldKept DEF FlowInv
      <3> QED BY <3>1, <3>2, <3>3 DEF FlowInv
    <2>4. PoolInv'
      BY <1>1, <1>2, <1>6, PoolKept DEF Fresh
    <2>5. SlotsInv'
      <3>1. \A n \in Names : Admitted(n)' = Admitted(n)
        BY <1>2, <1>6 DEF Admitted, NameOf
      <3>2. Total' = Total /\ \A n \in Names : CanRun(n)' <=> CanRun(n)
        BY <1>2, <1>6 DEF Total, CanRun
      <3>3. \A n \in Names : Cardinality(Admitted(n))' = Cardinality(Admitted(n))
        BY <3>1
      <3> QED BY <1>1, <1>2, <1>6, <3>2, <3>3 DEF SlotsInv
    <2> QED BY <2>2, <2>3, <2>4, <2>5 DEF ClientInv
  <1> QED BY <1>5, <1>6 DEF DrainQueues

-----------------------------------------------------------------------------
(* TickSteps, and what the program destroys.                                      *)

\* The place of an element that occurs once.
LEMMA FirstPlace ==
    ASSUME NEW f, NEW s, NEW i \in 1 .. Len(f), f[i] = s, \A j \in 1 .. Len(f) : f[j] = s => j = i
    PROVE  RemoveFirst(f, s) = RemoveAt(f, i)
  <1>1. {j \in 1 .. Len(f) : f[j] = s} = {i}
    OBVIOUS
  <1>2. Min({i}) = i
    BY DEF Min
  <1>3. SelectInSeq(f, LAMBDA v : v = s) = i
    BY <1>1, <1>2 DEF SelectInSeq
  <1> QED BY <1>3 DEF RemoveFirst

LEMMA NextTickKeeps ==
    ASSUME ClientInv, NextTick
    PROVE  ClientInv'
  <1>1. FieldsOK /\ FlowInv /\ PoolInv /\ SlotsInv
    BY DEF ClientInv
  <1>2. /\ UNCHANGED <<setting, pc, native, count, queue, emptied, dead, socketOf>>
        /\ todo = <<>> /\ ticks # <<>> /\ ticks' = Tail(ticks) /\ ~DrainFollows
    BY NothingToDrain DEF NextTick, agentVars, Idle
  <1>3. /\ ticks \in Seq(TickSteps) /\ free \in [Names -> Seq(Requests)] /\ setting \in Limits
        /\ inUse \subseteq Requests
    BY <1>1 DEF FieldsOK
  <1>4. PICK t : t = Head(ticks)
    OBVIOUS
  <1>5. /\ ticks' \in Seq(TickSteps) /\ t \in TickSteps /\ t \in ToSet(ticks)
        /\ ToSet(ticks) = ToSet(ticks') \cup {t}
    <2>1. PICK s \in Seq(TickSteps) : s = ticks
      BY <1>3
    <2>2. Tail(s) \in Seq(TickSteps) /\ Head(s) \in TickSteps
      BY <1>2, <2>1, Shortened, Zenon
    <2>3. Head(s) \in ToSet(s) /\ ToSet(s) = ToSet(Tail(s)) \cup {Head(s)}
      BY <1>2, <2>1, Shortened, Zenon
    <2> QED BY <1>2, <1>4, <2>1, <2>2, <2>3
  <1>6. PICK s \in Requests : s = t.of
    BY <1>5 DEF TickSteps
  <1>12. req' = req \/ req' = [req EXCEPT ![s].thrown = TRUE]
    BY <1>4, <1>6 DEF NextTick
  <1>13. /\ req' \in [Requests -> RequestFields]
         /\ \A q \in Requests : req'[q].loop = req[q].loop /\ req'[q].closed = req[q].closed
                                /\ req'[q].destroyed = req[q].destroyed
    <2>1. req \in [Requests -> RequestFields]
      BY <1>1 DEF FieldsOK
    <2>2. CASE req' = [req EXCEPT ![s].thrown = TRUE]
      <3>1. PICK e \in RequestFields : e = req[s]
        BY <2>1
      <3>2. PICK f : f = [e EXCEPT !.thrown = TRUE]
        OBVIOUS
      <3>3. /\ f \in RequestFields /\ f.closed = e.closed /\ f.destroyed = e.destroyed
            /\ f.loop = e.loop
        BY <3>2 DEF RequestFields
      <3>4. req' = [req EXCEPT ![s] = f]
        BY <2>1, <2>2, <3>1, <3>2
      <3> QED BY <2>1, <3>1, <3>3, <3>4, Changed
    <2> QED BY <1>12, <2>1, <2>2
  <1>7. Told'
    <2>1. \A x \in ToSet(ticks') : x.of \in Requests
      <3>1. \A x \in ToSet(ticks') : x \in TickSteps
        BY <1>5, MembersOf
      <3> QED BY <3>1 DEF TickSteps
    <2> QED BY <1>1, <1>5, <1>13, <2>1 DEF FlowInv, Told
  <1>8. \A n \in Names : QueueOf(n)'
    BY <1>1, <1>2, QueueKept
  <1>9. SlotsInv'
    BY <1>1, <1>2, SlotsKept
  <1>10. CASE t.what = "socket close"
    <2>1. /\ inUse' = inUse \ {s} /\ todo' = todo
          /\ free' = [free EXCEPT ![setting.name[s]] = RemoveFirst(@, s)]
      BY <1>4, <1>6, <1>10 DEF NextTick, NameOf
    <2>2. PICK n \in Names : n = setting.name[s]
      BY <1>3 DEF Limits
    <2>3. PICK f \in Seq(Requests) : f = free[n]
      BY <1>3
    <2>4. IsInjective(f) /\ Len(f) <= setting.maxFree
      BY <1>1, <2>3 DEF PoolInv
    <2>5. PICK g : g = RemoveFirst(f, s)
      OBVIOUS
    <2>6. /\ g \in Seq(Requests) /\ IsInjective(g) /\ Len(g) <= setting.maxFree
          /\ ToSet(g) = ToSet(f) \ {s}
      <3>1. CASE \E i \in 1 .. Len(f) : f[i] = s
        <4>1. PICK i \in 1 .. Len(f) : f[i] = s
          BY <3>1
        <4>2. \A j \in 1 .. Len(f) : f[j] = s => j = i
          BY <2>4, <4>1 DEF IsInjective
        <4>3. g = RemoveAt(f, i)
          BY <2>5, <4>1, <4>2, FirstPlace
        <4>4. /\ g \in Seq(Requests) /\ IsInjective(g) /\ Len(g) = Len(f) - 1
              /\ ToSet(g) = ToSet(f) \ {s}
          BY <2>4, <4>1, <4>3, TakenOut
        <4>5. Len(f) \in Nat /\ setting.maxFree \in Nat
          BY <1>3 DEF Limits
        <4> QED BY <2>4, <4>4, <4>5
      <3>2. CASE ~(\E i \in 1 .. Len(f) : f[i] = s)
        <4>1. g = f
          BY <2>5, <3>2 DEF RemoveFirst
        <4>2. s \notin ToSet(f)
          BY <3>2 DEF ToSet
        <4> QED BY <2>4, <4>1, <4>2
      <3> QED BY <3>1, <3>2
    <2>7. /\ free' \in [Names -> Seq(Requests)]
          /\ \A m \in Names : free'[m] = IF m = n THEN g ELSE free[m]
      BY <1>3, <2>1, <2>2, <2>3, <2>5, <2>6
    <2>8. \A m \in Names : /\ IsInjective(free'[m]) /\ Len(free'[m]) <= setting.maxFree
                           /\ ToSet(free'[m]) \subseteq ToSet(free[m]) \ {s}
      <3> TAKE m \in Names
      <3>1. CASE m = n
        BY <2>3, <2>6, <2>7, <3>1
      <3>2. CASE m # n
        <4>1. free'[m] = free[m]
          BY <2>7, <3>2
        <4>2. IsInjective(free[m]) /\ Len(free[m]) <= setting.maxFree
          BY <1>1 DEF PoolInv
        <4>3. s \notin ToSet(free[m])
          BY <1>1, <2>2, <3>2 DEF PoolInv, NameOf
        <4> QED BY <4>1, <4>2, <4>3
      <3> QED BY <3>1, <3>2
    <2>9. AllFree' \subseteq AllFree \ {s}
      BY <2>8 DEF AllFree
    <2>10. FieldsOK'
      BY <1>1, <1>2, <1>5, <1>13, <2>1, <2>7 DEF FieldsOK
    <2>11. FlowInv'
      <3>1. ASSUME NEW q \in Requests PROVE FlowOf(q)'
        <4>1. FlowOf(q)
          BY <1>1 DEF FlowInv
        <4> QED BY <1>2, <1>13, <2>1, <4>1 DEF FlowOf
      <3> QED BY <1>7, <1>8, <3>1 DEF FlowInv
    <2>12. s \in dead
      BY <1>1, <1>5, <1>6, <1>10 DEF PoolInv
    <2>13. PoolInv'
      <3>1. \A m \in Names :
              /\ IsInjective(free'[m]) /\ Len(free'[m]) <= setting'.maxFree
              /\ \A x \in ToSet(free'[m]) : setting'.name[x] = m /\ x \notin inUse'
        <4> TAKE m \in Names
        <4>1. \A x \in ToSet(free[m]) : setting.name[x] = m /\ x \notin inUse
          BY <1>1 DEF PoolInv, NameOf
        <4> QED BY <1>2, <2>1, <2>8, <4>1
      <3>2. \A x \in inUse' : \E q \in Requests : socketOf'[q] = x /\ pc'[q] \in Holding
        BY <1>1, <1>2, <2>1 DEF PoolInv
      <3>3. \A p, q \in Requests :
              p # q /\ pc'[p] \in Holding /\ pc'[q] \in Holding /\ socketOf'[p] = socketOf'[q]
                => socketOf'[p] = NoSocket
        BY <1>1, <1>2 DEF PoolInv
      <3>4. \A x \in dead' \cap (inUse' \cup AllFree') : Step("socket close", x) \in ToSet(ticks')
        <4> TAKE x \in dead' \cap (inUse' \cup AllFree')
        <4>1. x # s /\ x \in dead \cap (inUse \cup AllFree)
          BY <1>2, <2>1, <2>9
        <4>2. Step("socket close", x) \in ToSet(ticks)
          BY <1>1, <4>1 DEF PoolInv
        <4>3. Step("socket close", x).of = x
          BY DEF Step
        <4> QED BY <1>5, <1>6, <4>1, <4>2, <4>3
      <3>5. \A q \in Requests : Fresh(q)' =>
              /\ socketOf'[q] = NoSocket
              /\ q \notin dead' \cup inUse' \cup AllFree'
              /\ \A p \in Requests : socketOf'[p] # q
        <4> TAKE q \in Requests
        <4> HAVE Fresh(q)'
        <4>1. Fresh(q)
          BY <1>2 DEF Fresh
        <4> QED BY <1>1, <1>2, <2>1, <2>9, <4>1 DEF PoolInv
      <3>6. \A q \in Requests : socketOf'[q] # NoSocket =>
              /\ setting'.name[socketOf'[q]] = setting'.name[q]
              /\ pc'[q] \in Holding =>
                   socketOf'[q] \notin AllFree' /\ socketOf'[q] \in inUse' \cup dead'
        BY <1>1, <1>2, <2>1, <2>9, <2>12 DEF PoolInv, NameOf
      <3>7. \A x \in ToSet(ticks') : x.what = "socket close" => x.of \in dead'
        BY <1>1, <1>2, <1>5 DEF PoolInv
      <3> QED BY <3>1, <3>2, <3>3, <3>4, <3>5, <3>6, <3>7 DEF PoolInv, NameOf
    <2> QED BY <1>9, <2>10, <2>11, <2>13 DEF ClientInv
  <1>11. CASE t.what # "socket close"
    <2>1. todo' \in {<<>>, <<Step("close", s)>>} /\ UNCHANGED <<inUse, free>>
      BY <1>2, <1>4, <1>6, <1>11 DEF NextTick
    <2>2. t.what = "destroyed" /\ req[s].destroyed
      <3>1. t.what = "destroyed"
        BY <1>5, <1>11 DEF TickSteps
      <3> QED BY <1>1, <1>5, <1>6, <3>1 DEF FlowInv, Told
    <2>3. FieldsOK'
      <3>1. todo' \in Todos
        <4>1. <<Step("close", s)>> \in Todos
          BY AnyStep DEF Steps
        <4> QED BY <2>1, <4>1 DEF Todos
      <3> QED BY <1>1, <1>2, <1>5, <1>13, <2>1, <3>1 DEF FieldsOK
    <2>4. FlowInv'
      <3>1. ASSUME NEW q \in Requests PROVE FlowOf(q)'
        <4>1. FlowOf(q)
          BY <1>1 DEF FlowInv
        <4>2. /\ todo' # <<Step("finish it", q)>> /\ todo' # <<Step("wait", q)>>
              /\ todo' # <<Step("leave", q)>> /\ (todo' = <<Step("close", q)>> => q = s)
          <5>1. CASE todo' = <<>>
            BY <5>1, StepsApart
          <5>2. CASE todo' = <<Step("close", s)>>
            BY <5>2 DEF Step
          <5> QED BY <2>1, <5>1, <5>2
        <4> QED BY <1>2, <1>13, <2>2, <4>1, <4>2 DEF FlowOf
      <3> QED BY <1>7, <1>8, <3>1 DEF FlowInv
    <2>5. PoolInv'
      <3>1. AllFree' = AllFree
        BY <2>1 DEF AllFree
      <3>2. \A x \in dead' \cap (inUse' \cup AllFree') : Step("socket close", x) \in ToSet(ticks')
        <4> TAKE x \in dead' \cap (inUse' \cup AllFree')
        <4>1. Step("socket close", x) \in ToSet(ticks)
          BY <1>1, <1>2, <2>1, <3>1 DEF PoolInv
        <4>2. Step("socket close", x).what = "socket close"
          BY DEF Step
        <4> QED BY <1>5, <1>11, <4>1, <4>2
      <3>3. \A x \in ToSet(ticks') : x.what = "socket close" => x.of \in dead'
        BY <1>1, <1>2, <1>5 DEF PoolInv
      <3>4. \A m \in Names :
              /\ IsInjective(free'[m]) /\ Len(free'[m]) <= setting'.maxFree
              /\ \A x \in ToSet(free'[m]) : setting'.name[x] = m /\ x \notin inUse'
        BY <1>1, <1>2, <2>1 DEF PoolInv, NameOf
      <3>5. /\ \A x \in inUse' : \E q \in Requests : socketOf'[q] = x /\ pc'[q] \in Holding
            /\ \A p, q \in Requests :
                 p # q /\ pc'[p] \in Holding /\ pc'[q] \in Holding /\ socketOf'[p] = socketOf'[q]
                   => socketOf'[p] = NoSocket
        BY <1>1, <1>2, <2>1 DEF PoolInv
      <3>6. \A q \in Requests : Fresh(q)' =>
              /\ socketOf'[q] = NoSocket
              /\ q \notin dead' \cup inUse' \cup AllFree'
              /\ \A p \in Requests : socketOf'[p] # q
        <4> TAKE q \in Requests
        <4> HAVE Fresh(q)'
        <4>1. Fresh(q)
          BY <1>2 DEF Fresh
        <4> QED BY <1>1, <1>2, <2>1, <3>1, <4>1 DEF PoolInv
      <3>7. \A q \in Requests : socketOf'[q] # NoSocket =>
              /\ setting'.name[socketOf'[q]] = setting'.name[q]
              /\ pc'[q] \in Holding =>
                   socketOf'[q] \notin AllFree' /\ socketOf'[q] \in inUse' \cup dead'
        BY <1>1, <1>2, <2>1, <3>1 DEF PoolInv, NameOf
      <3> QED BY <3>2, <3>3, <3>4, <3>5, <3>6, <3>7 DEF PoolInv, NameOf
    <2> QED BY <1>9, <2>3, <2>4, <2>5 DEF ClientInv
  <1> QED BY <1>10, <1>11

LEMMA DestroySocketKeeps ==
    ASSUME ClientInv, NEW s \in Requests, DestroySocket(s)
    PROVE  ClientInv'
  <1>1. FieldsOK /\ FlowInv /\ PoolInv /\ SlotsInv
    BY DEF ClientInv
  <1>2. /\ UNCHANGED <<todo, setting, req, pc, native, count, queue, emptied, inUse, free, socketOf>>
        /\ s \in inUse \cup AllFree
        /\ dead' = dead \cup {s} /\ ticks' = Append(ticks, Step("socket close", s))
    BY DEF DestroySocket, agentVars
  <1>3. /\ ToSet(ticks') = ToSet(ticks) \cup {Step("socket close", s)} /\ ticks' \in Seq(TickSteps)
        /\ Step("socket close", s).of = s
    BY <1>1, <1>2, TickAppended DEF Step
  <1>4. FieldsOK'
    BY <1>1, <1>2, <1>3 DEF FieldsOK
  <1>5. FlowInv'
    <2>1. ASSUME NEW q \in Requests PROVE FlowOf(q)'
      <3>1. FlowOf(q)
        BY <1>1 DEF FlowInv
      <3> QED BY <1>2, <3>1 DEF FlowOf
    <2>2. \A n \in Names : QueueOf(n)'
      BY <1>1, <1>2, QueueKept
    <2>3. Told'
      BY <1>1, <1>2, ToldKept DEF FlowInv
    <2> QED BY <2>1, <2>2, <2>3 DEF FlowInv
  <1>6. PoolInv'
    <2>1. AllFree' = AllFree
      BY <1>2 DEF AllFree
    <2>2. \A m \in Names :
            /\ IsInjective(free'[m]) /\ Len(free'[m]) <= setting'.maxFree
            /\ \A x \in ToSet(free'[m]) : setting'.name[x] = m /\ x \notin inUse'
      BY <1>1, <1>2 DEF PoolInv, NameOf
    <2>3. /\ \A x \in inUse' : \E q \in Requests : socketOf'[q] = x /\ pc'[q] \in Holding
          /\ \A p, q \in Requests :
               p # q /\ pc'[p] \in Holding /\ pc'[q] \in Holding /\ socketOf'[p] = socketOf'[q]
                 => socketOf'[p] = NoSocket
      BY <1>1, <1>2 DEF PoolInv
    <2>4. \A x \in dead' \cap (inUse' \cup AllFree') : Step("socket close", x) \in ToSet(ticks')
      BY <1>1, <1>2, <1>3, <2>1 DEF PoolInv
    <2>5. \A q \in Requests : Fresh(q)' =>
            /\ socketOf'[q] = NoSocket
            /\ q \notin dead' \cup inUse' \cup AllFree'
            /\ \A p \in Requests : socketOf'[p] # q
      <3> TAKE q \in Requests
      <3> HAVE Fresh(q)'
      <3>1. Fresh(q)
        BY <1>2 DEF Fresh
      <3> QED BY <1>1, <1>2, <2>1, <3>1 DEF PoolInv
    <2>6. \A q \in Requests : socketOf'[q] # NoSocket =>
            /\ setting'.name[socketOf'[q]] = setting'.name[q]
            /\ pc'[q] \in Holding =>
                 socketOf'[q] \notin AllFree' /\ socketOf'[q] \in inUse' \cup dead'
      BY <1>1, <1>2, <2>1 DEF PoolInv, NameOf
    <2>7. \A x \in ToSet(ticks') : x.what = "socket close" => x.of \in dead'
      BY <1>1, <1>2, <1>3 DEF PoolInv
    <2> QED BY <2>2, <2>3, <2>4, <2>5, <2>6, <2>7 DEF PoolInv, NameOf
  <1>7. SlotsInv'
    BY <1>1, <1>2, SlotsKept DEF DrainFollows
  <1> QED BY <1>4, <1>5, <1>6, <1>7 DEF ClientInv

\* The sockets that the agent destroys, in some order.
LEMMA InSomeOrder ==
    ASSUME NEW S, IsFiniteSet(S)
    PROVE  SetToSeq(S) \in Seq(S) /\ \E m \in Nat : m = Len(SetToSeq(S)) /\ SetToSeq(S) \in [1 .. m -> S]
  <1>1. /\ Cardinality(S) \in Nat /\ ExistsBijection(1 .. Cardinality(S), S)
    BY FS_CardinalityType
  <1>2. PICK f : f \in Injection(1 .. Cardinality(S), S)
    BY <1>1 DEF ExistsBijection, Bijection
  <1>3. f \in [1 .. Cardinality(S) -> S] /\ IsInjective(f)
    BY <1>2 DEF Injection
  <1>4. SetToSeq(S) \in [1 .. Cardinality(S) -> S]
    BY <1>3 DEF SetToSeq
  <1>5. PICK m, s : m \in Nat /\ m = Cardinality(S) /\ s = SetToSeq(S)
    BY <1>1
  <1>6. s \in [1 .. m -> S]
    BY <1>4, <1>5
  <1>7. s \in Seq(S) /\ Len(s) = m
    BY <1>5, <1>6
  <1> QED BY <1>5, <1>6, <1>7

LEMMA DestroyAgentKeeps ==
    ASSUME ClientConstants, ClientInv, DestroyAgent
    PROVE  ClientInv'
  <1>1. FieldsOK /\ FlowInv /\ PoolInv /\ SlotsInv
    BY DEF ClientInv
  <1> DEFINE K == (inUse \cup AllFree) \ dead
             told == [i \in 1 .. Len(SetToSeq(K)) |-> Step("socket close", SetToSeq(K)[i])]
  <1>2. /\ UNCHANGED <<todo, setting, req, pc, native, socketOf>>
        /\ emptied' = TRUE /\ dead' = dead \cup inUse \cup AllFree
        /\ ticks' = ticks \o told
        /\ inUse' = {} /\ free' = [n \in Names |-> <<>>]
        /\ count' = [n \in Names |-> 0] /\ queue' = [n \in Names |-> <<>>]
    BY DEF DestroyAgent
  <1>3. /\ ticks \in Seq(TickSteps) /\ free \in [Names -> Seq(Requests)] /\ inUse \subseteq Requests
        /\ dead \subseteq Requests
    BY <1>1 DEF FieldsOK
  <1>4. AllFree \subseteq Requests
    <2>1. \A n \in Names : \A x \in ToSet(free[n]) : x \in Requests
      BY <1>3, MembersOf
    <2> QED BY <2>1 DEF AllFree
  <1>5. PICK m \in Nat : m = Len(SetToSeq(K)) /\ SetToSeq(K) \in [1 .. m -> K]
    <2>1. K \in SUBSET Requests /\ IsFiniteSet(Requests)
      BY <1>3, <1>4 DEF ClientConstants
    <2>2. IsFiniteSet(K)
      BY <2>1, FS_Subset
    <2> HIDE DEF K
    <2> QED BY <2>2, InSomeOrder
  <1>6. /\ told \in Seq(TickSteps)
        /\ \A i \in 1 .. Len(told) : told[i].what = "socket close" /\ told[i].of \in K
    <2>1. PICK f : f = SetToSeq(K)
      OBVIOUS
    <2>2. f \in [1 .. m -> K] /\ \A x \in K : x \in Requests
      BY <1>3, <1>4, <1>5, <2>1
    <2>3. told = [i \in 1 .. m |-> Step("socket close", f[i])]
      BY <1>5, <2>1
    <2> HIDE DEF K, told
    <2>4. PICK k, g : k = K /\ g = told
      OBVIOUS
    <2>5. /\ g \in Seq(TickSteps)
          /\ \A i \in 1 .. Len(g) : g[i].what = "socket close" /\ g[i].of \in k
      <3>1. /\ f \in [1 .. m -> k] /\ \A x \in k : x \in Requests
            /\ g = [i \in 1 .. m |-> Step("socket close", f[i])]
        BY <2>2, <2>3, <2>4
      <3>2. \A x \in k : /\ Step("socket close", x) \in TickSteps
                         /\ Step("socket close", x).what = "socket close"
                         /\ Step("socket close", x).of = x
        BY <3>1 DEF Step, TickSteps
      <3>3. \A i \in 1 .. m : g[i] \in TickSteps /\ g[i].what = "socket close" /\ g[i].of \in k
        BY <3>1, <3>2
      <3>4. PICK T : T = TickSteps
        OBVIOUS
      <3>5. g \in [1 .. m -> T]
        BY <3>1, <3>3, <3>4
      <3>6. g \in Seq(T) /\ Len(g) = m
        BY ONLY <3>5, m \in Nat
      <3> QED BY <3>3, <3>4, <3>6
    <2> QED BY <2>4, <2>5
  <1> HIDE DEF told
  <1>7. /\ ticks' \in Seq(TickSteps)
        /\ \A t \in ToSet(ticks') : t \in ToSet(ticks) \/ (t.what = "socket close" /\ t.of \in K)
    <2>1. PICK s \in Seq(TickSteps), g \in Seq(TickSteps) : s = ticks /\ g = told
      BY <1>3, <1>6
    <2>2. s \o g \in Seq(TickSteps) /\ Len(s \o g) = Len(s) + Len(g) /\ Len(s) \in Nat /\ Len(g) \in Nat
          /\ \A i \in 1 .. Len(s) + Len(g) : (s \o g)[i] = IF i <= Len(s) THEN s[i] ELSE g[i - Len(s)]
      <3>1. s \o g \in Seq(TickSteps)
        BY ConcatProperties, Zenon
      <3>2. Len(s \o g) = Len(s) + Len(g)
            /\ \A i \in 1 .. Len(s) + Len(g) : (s \o g)[i] = IF i <= Len(s) THEN s[i] ELSE g[i - Len(s)]
        BY ConcatProperties, Zenon
      <3>3. Len(s) \in Nat /\ Len(g) \in Nat
        OBVIOUS
      <3> QED BY <3>1, <3>2, <3>3
    <2>3. \A i \in 1 .. Len(g) : g[i].what = "socket close" /\ g[i].of \in K
      BY <1>6, <2>1
    <2> HIDE DEF K
    <2>4. ASSUME NEW i \in 1 .. Len(s) + Len(g)
          PROVE  (s \o g)[i] \in ToSet(s)
                 \/ ((s \o g)[i].what = "socket close" /\ (s \o g)[i].of \in K)
      <3>1. CASE i <= Len(s)
        <4>1. i \in 1 .. Len(s)
          BY <2>2, <3>1
        <4> QED BY <2>2, <3>1, <4>1, ElementOf
      <3>2. CASE ~(i <= Len(s))
        <4>1. i - Len(s) \in 1 .. Len(g)
          BY <2>2, <3>2
        <4> QED BY <2>2, <2>3, <3>2, <4>1
      <3> QED BY <3>1, <3>2
    <2>5. \A t \in ToSet(s \o g) : t \in ToSet(s) \/ (t.what = "socket close" /\ t.of \in K)
      <3> TAKE t \in ToSet(s \o g)
      <3>1. PICK i \in DOMAIN (s \o g) : t = (s \o g)[i]
        BY DEF ToSet
      <3>2. i \in 1 .. Len(s) + Len(g)
        BY <2>2, <3>1
      <3> QED BY <2>4, <3>1, <3>2
    <2> QED BY <1>2, <2>1, <2>2, <2>5
  <1>8. FieldsOK'
    <2>1. <<>> \in Seq(Requests)
      OBVIOUS
    <2>2. /\ count' \in [Names -> Nat] /\ emptied' \in BOOLEAN
          /\ queue' \in [Names -> Seq(Requests)] /\ free' \in [Names -> Seq(Requests)]
      BY <1>2, <2>1
    <2>3. inUse' \subseteq Requests /\ dead' \subseteq Requests
      BY <1>2, <1>3, <1>4
    <2> QED BY <1>1, <1>2, <1>7, <2>2, <2>3 DEF FieldsOK
  <1>9. FlowInv'
    <2>1. ASSUME NEW q \in Requests PROVE FlowOf(q)'
      <3>1. FlowOf(q)
        BY <1>1 DEF FlowInv
      <3> QED BY <1>2, <3>1 DEF FlowOf
    <2>2. ASSUME NEW n \in Names PROVE QueueOf(n)'
      <3>1. queue'[n] = <<>>
        BY <1>2
      <3>2. IsInjective(<<>>) /\ ToSet(<<>>) = {}
        BY DEF IsInjective, ToSet
      <3> QED BY <3>1, <3>2 DEF QueueOf
    <2>3. Told'
      BY <1>1, <1>2, <1>7 DEF FlowInv, Told
    <2> QED BY <2>1, <2>2, <2>3 DEF FlowInv
  <1>10. \A n \in Names : free'[n] = <<>>
    BY <1>2
  <1>11. IsInjective(<<>>) /\ ToSet(<<>>) = {} /\ Len(<<>>) = 0
    BY DEF IsInjective, ToSet
  <1>12. PoolInv'
    <2>1. AllFree' = {}
      BY <1>10, <1>11 DEF AllFree
    <2>2. \A n \in Names :
            /\ IsInjective(free'[n]) /\ Len(free'[n]) <= setting'.maxFree
            /\ \A x \in ToSet(free'[n]) : setting'.name[x] = n /\ x \notin inUse'
      <3>1. 0 <= setting'.maxFree
        BY <1>1, <1>2 DEF FieldsOK, Limits
      <3> QED BY <1>10, <1>11, <3>1
    <2>3. /\ \A x \in inUse' : \E q \in Requests : socketOf'[q] = x /\ pc'[q] \in Holding
          /\ \A p, q \in Requests :
               p # q /\ pc'[p] \in Holding /\ pc'[q] \in Holding /\ socketOf'[p] = socketOf'[q]
                 => socketOf'[p] = NoSocket
      BY <1>1, <1>2 DEF PoolInv
    <2>4. \A x \in dead' \cap (inUse' \cup AllFree') : Step("socket close", x) \in ToSet(ticks')
      BY <1>2, <2>1
    <2>5. \A q \in Requests : Fresh(q)' =>
            /\ socketOf'[q] = NoSocket
            /\ q \notin dead' \cup inUse' \cup AllFree'
            /\ \A p \in Requests : socketOf'[p] # q
      <3> TAKE q \in Requests
      <3> HAVE Fresh(q)'
      <3>1. Fresh(q)
        BY <1>2 DEF Fresh
      <3> QED BY <1>1, <1>2, <2>1, <3>1 DEF PoolInv
    <2>6. \A q \in Requests : socketOf'[q] # NoSocket =>
            /\ setting'.name[socketOf'[q]] = setting'.name[q]
            /\ pc'[q] \in Holding =>
                 socketOf'[q] \notin AllFree' /\ socketOf'[q] \in inUse' \cup dead'
      BY <1>1, <1>2, <2>1 DEF PoolInv, NameOf
    <2>7. \A x \in ToSet(ticks') : x.what = "socket close" => x.of \in dead'
      BY <1>1, <1>2, <1>7 DEF PoolInv
    <2> QED BY <2>2, <2>3, <2>4, <2>5, <2>6, <2>7 DEF PoolInv, NameOf
  <1>13. SlotsInv'
    <2>1. \A n \in Names : Cardinality(Admitted(n)') \in Nat
      <3> TAKE n \in Names
      <3>1. Admitted(n)' = AdmittedOf(pc', setting'.name, n)
        BY DEF Admitted, AdmittedOf, NameOf
      <3>2. IsFiniteSet(Requests)
        BY DEF ClientConstants
      <3> QED BY <3>1, <3>2, AdmittedCount
    <2>2. \A n \in Names : count'[n] = 0 /\ queue'[n] = <<>>
      BY <1>2
    <2> QED BY <1>2, <2>1, <2>2 DEF SlotsInv
  <1> QED BY <1>8, <1>9, <1>12, <1>13 DEF ClientInv

-----------------------------------------------------------------------------
(* The theorems.                                                              *)

LEMMA InitClient ==
    ASSUME ClientConstants, Init
    PROVE  ClientInv
  <1>1. /\ setting \in Limits /\ NoSocket \notin Requests
        /\ IsFiniteSet(Requests) /\ IsFiniteSet(Names)
    BY DEF ClientConstants, Init
  <1>2. /\ todo = <<>> /\ ticks = <<>> /\ inUse = {} /\ dead = {} /\ emptied = FALSE
        /\ \A n \in Names : count[n] = 0 /\ queue[n] = <<>> /\ free[n] = <<>>
        /\ \A r \in Requests : /\ pc[r] = "open" /\ socketOf[r] = NoSocket
                               /\ req[r].loop = "none" /\ ~req[r].closed /\ native[r].op = "none"
    BY DEF Init
  <1>3. IsInjective(<<>>) /\ ToSet(<<>>) = {} /\ Len(<<>>) = 0
    BY DEF IsInjective, ToSet
  <1>4. AllFree = {}
    BY <1>2, <1>3 DEF AllFree
  <1>5. FieldsOK
    <2>1. <<>> \in Seq(Requests) /\ <<>> \in Seq(TickSteps)
      OBVIOUS
    <2>2. req \in [Requests -> RequestFields]
      BY DEF Init, RequestFields
    <2>3. native \in [Requests -> NativeFields]
      BY DEF Init, NativeFields
    <2>4. pc \in [Requests -> Places] /\ socketOf \in [Requests -> Requests \cup {NoSocket}]
      BY DEF Init, Places
    <2>5. count \in [Names -> Nat]
          /\ queue \in [Names -> Seq(Requests)] /\ free \in [Names -> Seq(Requests)]
      BY <2>1 DEF Init
    <2>6. todo \in Todos
      BY <1>2 DEF Todos
    <2>7. ticks \in Seq(TickSteps) /\ inUse \subseteq Requests /\ dead \subseteq Requests
          /\ emptied \in BOOLEAN
      BY <1>2, <2>1
    <2> QED BY <1>1, <2>2, <2>3, <2>4, <2>5, <2>6, <2>7 DEF FieldsOK
  <1>6. FlowInv
    <2>1. ASSUME NEW q \in Requests PROVE FlowOf(q)
      <3>1. /\ todo # <<Step("finish it", q)>> /\ todo # <<Step("wait", q)>>
            /\ todo # <<Step("leave", q)>> /\ todo # <<Step("close", q)>>
        BY <1>2, StepsApart
      <3> QED BY <1>2, <3>1 DEF FlowOf, Awaiting
    <2>2. \A n \in Names : QueueOf(n)
      BY <1>2, <1>3 DEF QueueOf
    <2>3. Told
      BY <1>2, <1>3 DEF Told
    <2> QED BY <2>1, <2>2, <2>3 DEF FlowInv
  <1>7. PoolInv
    <2>1. 0 <= setting.maxFree
      BY <1>1 DEF Limits
    <2>2. \A r \in Requests : socketOf[r] # r
      BY <1>1, <1>2
    <2> QED BY <1>1, <1>2, <1>3, <1>4, <2>1, <2>2 DEF PoolInv, Holding
  <1>8. SlotsInv
    <2>1. \A n \in Names : Admitted(n) = {}
      BY <1>2 DEF Admitted
    <2>2. \A n \in Names : Cardinality(Admitted(n)) = 0
      BY <2>1, FS_EmptySet
    <2>3. Total = 0
      <3>1. \A n \in Names : 1 .. count[n] = {}
        BY <1>2
      <3>2. UNION {{n} \X (1 .. count[n]) : n \in Names} = {}
        BY <3>1
      <3> QED BY <3>2, FS_EmptySet DEF Total
    <2>4. setting.maxSockets \in Nat /\ setting.maxTotal \in Nat
      BY <1>1 DEF Limits
    <2> QED BY <1>2, <2>2, <2>3, <2>4 DEF SlotsInv
  <1> QED BY <1>5, <1>6, <1>7, <1>8 DEF ClientInv

LEMMA NextClient ==
    ASSUME ClientConstants, ClientInv, [Next]_vars
    PROVE  ClientInv'
  <1>1. NoSocket \notin Requests
    BY DEF ClientConstants
  <1>2. CASE Program
    BY <1>2, DestroyAgentKeeps, WriteKeeps, EndKeeps, DestroyKeeps, DestroySocketKeeps DEF Program
  <1>3. CASE Runs
    BY <1>1, <1>3, EmitCloseKeeps, ListenerThrowsKeeps, LoopStepKeeps, FinishStepKeeps,
       WaitStepKeeps, LeaveStepKeeps, ErrorThrowsKeeps, DrainQueuesKeeps DEF Runs
  <1>4. ASSUME NEW r \in Requests, Jobs(r) \/ NativeAnswers(r) PROVE ClientInv'
    BY <1>1, <1>4, ChainedFlushKeeps, FlushedKeeps, SendKeeps, SetUpSocketKeeps, FinishedKeeps,
       RespondedKeeps, FinallyKeeps, NativeAnswersKeeps DEF Jobs
  <1>5. CASE UNCHANGED vars
    <2>1. UNCHANGED <<setting, todo, ticks, req, pc, native, count, queue, inUse, free, dead,
                      socketOf, emptied>>
      BY <1>5 DEF vars
    <2>2. FieldsOK /\ FlowInv /\ PoolInv /\ SlotsInv
      BY DEF ClientInv
    <2>3. FieldsOK'
      BY <2>1, <2>2 DEF FieldsOK
    <2>4. FlowInv'
      BY <2>1, <2>2, FlowKept
    <2>5. PoolInv'
      BY <2>1, <2>2, PoolKept DEF Fresh
    <2>6. SlotsInv'
      BY <2>1, <2>2, SlotsKept DEF DrainFollows
    <2> QED BY <2>3, <2>4, <2>5, <2>6 DEF ClientInv
  <1> QED BY <1>2, <1>3, <1>4, <1>5, NextTickKeeps DEF Next, Job

\* The inductive invariant.
THEOREM ClientInvIsInvariant ==
    ASSUME ClientConstants PROVE Spec => []ClientInv
  <1>1. Init => ClientInv
    BY InitClient
  <1>2. ClientInv /\ [Next]_vars => ClientInv'
    BY NextClient
  <1> QED BY <1>1, <1>2, PTL DEF Spec

LEMMA ExactWhenClientInv ==
    ASSUME ClientInv
    PROVE  AgentIsExact
  <1>1. FieldsOK /\ PoolInv /\ SlotsInv
    BY DEF ClientInv
  <1>2. /\ ticks \in Seq(TickSteps) /\ queue \in [Names -> Seq(Requests)]
        /\ free \in [Names -> Seq(Requests)]
    BY <1>1 DEF FieldsOK
  <1>3. TypeOK
    <2>1. \A n \in Names : ToSet(queue[n]) \cup ToSet(free[n]) \subseteq Requests
      <3> TAKE n \in Names
      <3>1. queue[n] \in Seq(Requests) /\ free[n] \in Seq(Requests)
        BY <1>2
      <3> QED BY <3>1, MembersOf
    <2> QED BY <1>1, <2>1 DEF TypeOK, FieldsOK
  <1>4. DrainFollows => \E i \in 1 .. Len(todo) : todo[i].what = "drain queues"
    <2>1. ASSUME NEW r \in Requests, todo = <<Step("drain queues", r)>>
          PROVE  \E i \in 1 .. Len(todo) : todo[i].what = "drain queues"
      <3>1. Len(todo) = 1 /\ todo[1].what = "drain queues"
        BY <2>1 DEF Step
      <3>2. 1 \in 1 .. Len(todo)
        <4>1. Len(todo) = 1
          BY <3>1
        <4> QED BY ONLY <4>1
      <3> QED BY <3>1, <3>2
    <2> QED BY <2>1 DEF DrainFollows
  <1>5. SlotsAreExact
    BY <1>1, <1>3, <1>4 DEF SlotsAreExact, SlotsInv
  <1>6. \A s \in dead \cap (inUse \cup AllFree) : Contains(ticks, Step("socket close", s))
    <2> TAKE s \in dead \cap (inUse \cup AllFree)
    <2>1. Step("socket close", s) \in ToSet(ticks)
      BY <1>1 DEF PoolInv
    <2>2. PICK t, T : t = ticks /\ T = TickSteps
      OBVIOUS
    <2>3. t \in Seq(T) /\ Step("socket close", s) \in ToSet(t)
      BY <1>2, <2>1, <2>2
    <2>4. Contains(t, Step("socket close", s))
      <3>1. PICK i \in DOMAIN t : t[i] = Step("socket close", s)
        BY <2>3 DEF ToSet
      <3>2. i \in 1 .. Len(t)
        <4>1. t \in Seq(T)
          BY <2>3
        <4> QED BY ONLY <4>1, i \in DOMAIN t
      <3> QED BY <3>1, <3>2 DEF Contains
    <2> QED BY <2>2, <2>4
  <1>7. PoolIsExact
    <2>1. \A q, r \in Requests :
            q # r /\ {pc[q], pc[r]} \subseteq Holding /\ socketOf[q] = socketOf[r]
              => socketOf[q] = NoSocket
      BY <1>1 DEF PoolInv
    <2>2. /\ \A n \in Names :
                /\ IsInjective(free[n]) /\ Len(free[n]) <= setting.maxFree
                /\ \A s \in ToSet(free[n]) : NameOf[s] = n /\ s \notin inUse
          /\ \A s \in inUse : \E r \in Requests : socketOf[r] = s /\ pc[r] \in Holding
      BY <1>1 DEF PoolInv
    <2> QED BY <1>6, <2>1, <2>2 DEF PoolIsExact
  <1> QED BY <1>5, <1>7 DEF AgentIsExact

\* The agent counts exactly the requests it has admitted, within both limits, and none waits
\* while there is a slot for it, and a mock socket serves one request at a time.
THEOREM AgentIsAlwaysExact ==
    ASSUME ClientConstants PROVE Spec => []AgentIsExact
  <1>1. ClientInv => AgentIsExact
    BY ExactWhenClientInv
  <1> QED BY <1>1, ClientInvIsInvariant, PTL

\* No step but the one that has the response announces it.
LEMMA Announces ==
    ASSUME ClientInv, [Next]_vars, NEW r \in Requests, req'[r].response, ~req[r].response
    PROVE  ~req[r].destroyed /\ ~req[r].closed
  <1>1. FieldsOK /\ FlowOf(r)
    BY DEF ClientInv, FlowInv
  <1>2. req \in [Requests -> RequestFields]
    BY <1>1 DEF FieldsOK
  <1>3. ASSUME NEW q \in Requests, Responded(q)
        PROVE  ~req[r].destroyed /\ ~req[r].closed
    <2>1. CASE UNCHANGED req
      BY <2>1
    <2>2. CASE req' = [req EXCEPT ![q].deferred = FALSE]
      BY <1>2, <2>2 DEF RequestFields
    <2>3. ASSUME ~req[q].destroyed, NEW keep,
                 req' = [req EXCEPT ![q].response = TRUE, ![q].keep = keep]
          PROVE  ~req[r].destroyed /\ ~req[r].closed
      <3>1. q = r
        BY <1>2, <2>3 DEF RequestFields
      <3>2. pc[r] \notin Past
        BY <1>1, <1>3, <3>1 DEF FlowOf, Responded, Answered, Awaiting, Past
      <3> QED BY <1>1, <2>3, <3>1, <3>2 DEF FlowOf
    <2> QED BY <1>3, <2>1, <2>2, <2>3 DEF Responded
  <1>4. ASSUME NEW q \in Requests, NEW loop, LoopTurn(q, loop) PROVE FALSE
    <2>1. PICK n, m, x : \/ req' = [req EXCEPT ![q].loop = x, ![q].pending = n]
                         \/ req' = [req EXCEPT ![q].loop = x, ![q].flushes = m]
      BY <1>4 DEF LoopTurn
    <2> QED BY <1>2, <2>1 DEF RequestFields
  <1>5. ASSUME NEW q \in Requests, LoopFails(q) PROVE FALSE
    <2>1. CASE req' = [req EXCEPT ![q].loop = "none"]
      BY <1>2, <2>1 DEF RequestFields
    <2>2. ASSUME NEW x, NEW y, req' = [req EXCEPT ![q].loop = "none", ![q].flushes = x, ![q].broken = y]
          PROVE  FALSE
      BY <1>2, <2>2 DEF RequestFields
    <2> QED BY <1>5, <2>1, <2>2 DEF LoopFails
  <1>6. ASSUME NEW q \in Requests, Write(q) \/ End(q) \/ Destroy(q) PROVE FALSE
    <2>1. CASE Write(q)
      <3>1. PICK x, y, z : req' = [req EXCEPT ![q].pending = x, ![q].flushes = y,
                                              ![q].needDrain = z]
        BY <2>1 DEF Write
      <3> QED BY <1>2, <3>1 DEF RequestFields
    <2>2. CASE End(q)
      BY <1>2, <2>2 DEF End, RequestFields
    <2>3. CASE Destroy(q)
      <3>1. PICK x, y : req' = [req EXCEPT ![q].destroyed = TRUE, ![q].thrown = y, ![q].deferred = x]
        BY <2>3 DEF Destroy
      <3> QED BY <1>2, <3>1 DEF RequestFields
    <2> QED BY <1>6, <2>1, <2>2, <2>3
  <1>7. ASSUME NEW q \in Requests, ChainedFlush(q) \/ Flushed(q) \/ Send(q) PROVE FALSE
    <2>1. CASE ChainedFlush(q)
      <3>1. CASE req' = [req EXCEPT ![q].flushes = @ - 1]
        BY <1>2, <3>1 DEF RequestFields
      <3>2. ASSUME NEW x, req' = [req EXCEPT ![q].flushes = @ - 1, ![q].broken = x] PROVE FALSE
        BY <1>2, <3>2 DEF RequestFields
      <3> QED BY <1>4, <2>1, <3>1, <3>2 DEF ChainedFlush
    <2>2. CASE Flushed(q)
      <3>1. ASSUME NEW x, req' = [req EXCEPT ![q].needDrain = x] PROVE FALSE
        BY <1>2, <3>1 DEF RequestFields
      <3> QED BY <1>5, <2>2, <3>1 DEF Flushed
    <2>3. CASE Send(q)
      BY <1>4, <2>3 DEF Send
    <2> QED BY <1>7, <2>1, <2>2, <2>3
  <1>8. CASE UNCHANGED req
    BY <1>8
  <1>9. CASE Program
    BY <1>6, <1>8, <1>9 DEF Program, DestroyAgent, DestroySocket
  <1>10. CASE Runs
    <2>1. CASE EmitClose
      <3>1. PICK q \in Requests : Head(todo).of = q
        BY <1>1, <2>1, NextStep DEF FieldsOK, EmitClose
      <3>2. req' = [req EXCEPT ![q].closed = TRUE]
        BY <2>1, <3>1 DEF EmitClose
      <3> QED BY <1>2, <3>2 DEF RequestFields
    <2>2. CASE ListenerThrows
      <3>1. CASE Follows("loop") /\ LoopFails(Head(todo).of)
        <4>1. PICK q \in Requests : Head(todo).of = q
          BY <1>1, <3>1, NextStep DEF FieldsOK
        <4> QED BY <1>5, <3>1, <4>1
      <3> QED BY <1>8, <2>2, <3>1 DEF ListenerThrows
    <2>3. CASE LoopStep
      <3>1. PICK q \in Requests : Head(todo).of = q
        BY <1>1, <2>3, NextStep DEF FieldsOK, LoopStep
      <3> QED BY <1>4, <2>3, <3>1 DEF LoopStep
    <2>4. CASE ErrorThrows
      <3>1. PICK q \in Requests : Head(todo).of = q
        BY <1>1, <2>4, NextStep DEF FieldsOK, ErrorThrows
      <3>2. req' = [req EXCEPT ![q].thrown = TRUE]
        BY <2>4, <3>1 DEF ErrorThrows
      <3> QED BY <1>2, <3>2 DEF RequestFields
    <2> QED BY <1>8, <1>10, <2>1, <2>2, <2>3, <2>4 DEF Runs, FinishStep, WaitStep, LeaveStep, DrainQueues
  <1>11. ASSUME NEW q \in Requests, Jobs(q) \/ NativeAnswers(q)
         PROVE  ~req[r].destroyed /\ ~req[r].closed
    BY <1>3, <1>7, <1>8, <1>11 DEF Jobs, NativeAnswers, SetUpSocket, Finished, Finally
  <1>12. CASE NextTick
    <2>1. ASSUME NEW q, req' = [req EXCEPT ![q].thrown = TRUE] PROVE FALSE
      BY <1>2, <2>1 DEF RequestFields
    <2> QED BY <1>8, <1>12, <2>1 DEF NextTick
  <1> QED BY <1>8, <1>9, <1>10, <1>11, <1>12 DEF Next, Job, vars

\* A request that the program has destroyed, or whose 'close' it has heard, gets no response.
THEOREM ResponseIsAlwaysWanted ==
    ASSUME ClientConstants PROVE Spec => ResponseIsWanted
  <1>1. ClientInv /\ [Next]_vars =>
          [\A r \in Requests : req'[r].response /\ ~req[r].response =>
               ~req[r].destroyed /\ ~req[r].closed]_vars
    BY Announces
  <1> QED BY <1>1, ClientInvIsInvariant, PTL DEF Spec, ResponseIsWanted

=============================================================================
