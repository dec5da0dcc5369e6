--------------------------- MODULE NetServerProof ---------------------------
(* Proofs about NetServer, for any number of servers, paths, clients, native *)
(* listeners, close() calls and failures: a server that listens hears its    *)
(* clients, a path leads to the server that listens on it, connections and   *)
(* 'close' events are counted exactly.                                       *)
EXTENDS NetServer, FiniteSetTheorems, TLAPS

-----------------------------------------------------------------------------
(* The updates of a server's fields.                                         *)

LEMMA NewListener ==
    ASSUME Unused # {}
    PROVE  NextListener \in Listeners /\ listener[NextListener] = "unused"
BY DEF Unused, NextListener

LEMMA ListenedFields ==
    ASSUME NEW r \in ServerFields, NEW l \in Listeners
    PROVE  LET g == [r EXCEPT !.handle = l, !.listening = TRUE, !.accepting = TRUE,
                              !.closeRequested = FALSE, !.token = @ + 1, !.active = TRUE]
           IN  /\ g \in ServerFields
               /\ g.handle = l /\ g.listening /\ g.accepting /\ ~g.closeRequested
               /\ g.token = r.token + 1 /\ g.active /\ g.unrefed = r.unrefed
               /\ g.path = r.path /\ g.connections = r.connections
<1>1. PICK n \in Nat : n = r.token + 1
  BY DEF ServerFields
<1> DEFINE f == [r EXCEPT !.handle = l, !.listening = TRUE, !.accepting = TRUE,
                          !.closeRequested = FALSE, !.token = n, !.active = TRUE]
<1>2. /\ f \in ServerFields
      /\ f.handle = l /\ f.listening /\ f.accepting /\ ~f.closeRequested
      /\ f.token = n /\ f.active /\ f.unrefed = r.unrefed
      /\ f.path = r.path /\ f.connections = r.connections
  BY DEF ServerFields
<1> QED BY <1>1, <1>2

LEMMA FailedFields ==
    ASSUME NEW r \in ServerFields, NEW l \in Listeners
    PROVE  LET g == [r EXCEPT !.handle = l]
           IN  /\ g \in ServerFields
               /\ g.handle = l /\ g.listening = r.listening /\ g.accepting = r.accepting
               /\ g.closeRequested = r.closeRequested /\ g.token = r.token
               /\ g.active = r.active /\ g.unrefed = r.unrefed
               /\ g.path = r.path /\ g.connections = r.connections
BY DEF ServerFields

LEMMA NamedFields ==
    ASSUME NEW r \in ServerFields, NEW p \in Paths
    PROVE  LET g == [r EXCEPT !.path = p]
           IN  /\ g \in ServerFields
               /\ g.handle = r.handle /\ g.listening = r.listening /\ g.accepting = r.accepting
               /\ g.closeRequested = r.closeRequested /\ g.token = r.token
               /\ g.active = r.active /\ g.unrefed = r.unrefed
               /\ g.path = p /\ g.connections = r.connections
BY DEF ServerFields

LEMMA ClosedFields ==
    ASSUME NEW r \in ServerFields
    PROVE  /\ Closed(r) \in ServerFields
           /\ Closed(r).handle = (IF r.active THEN r.handle ELSE None)
           /\ ~Closed(r).listening /\ ~Closed(r).accepting /\ Closed(r).closeRequested
           /\ Closed(r).token = r.token + 1 /\ Closed(r).active = r.active
           /\ Closed(r).unrefed = r.unrefed
           /\ Closed(r).path = NoPath /\ Closed(r).connections = r.connections
<1>1. PICK n \in Nat : n = r.token + 1
  BY DEF ServerFields
<1>2. PICK h \in Listeners \cup {None} : h = IF r.active THEN r.handle ELSE None
  BY DEF ServerFields
<1> DEFINE f == [r EXCEPT !.accepting = FALSE, !.token = n, !.listening = FALSE, !.path = NoPath,
                          !.closeRequested = TRUE, !.handle = h]
<1>3. /\ f \in ServerFields
      /\ f.handle = h /\ ~f.listening /\ ~f.accepting /\ f.closeRequested
      /\ f.token = n /\ f.active = r.active /\ f.unrefed = r.unrefed
      /\ f.path = NoPath /\ f.connections = r.connections
  BY DEF ServerFields
<1>4. Closed(r) = f
  BY <1>1, <1>2 DEF Closed
<1> QED BY <1>1, <1>2, <1>3, <1>4

LEMMA EndedFields ==
    ASSUME NEW r \in ServerFields
    PROVE  LET g == [r EXCEPT !.active = FALSE,
                              !.handle = IF r.closeRequested THEN None ELSE @]
           IN  /\ g \in ServerFields
               /\ g.handle = (IF r.closeRequested THEN None ELSE r.handle)
               /\ g.listening = r.listening /\ g.accepting = r.accepting
               /\ g.closeRequested = r.closeRequested /\ g.token = r.token
               /\ ~g.active /\ g.unrefed = r.unrefed
               /\ g.path = r.path /\ g.connections = r.connections
BY DEF ServerFields

LEMMA CountedFields ==
    ASSUME NEW r \in ServerFields, NEW n \in Nat
    PROVE  LET g == [r EXCEPT !.connections = n]
           IN  /\ g \in ServerFields
               /\ g.handle = r.handle /\ g.listening = r.listening /\ g.accepting = r.accepting
               /\ g.closeRequested = r.closeRequested /\ g.token = r.token
               /\ g.active = r.active /\ g.unrefed = r.unrefed
               /\ g.path = r.path /\ g.connections = n
BY DEF ServerFields

LEMMA UnrefedFields ==
    ASSUME NEW r \in ServerFields, NEW on \in BOOLEAN
    PROVE  LET g == [r EXCEPT !.unrefed = on]
           IN  /\ g \in ServerFields
               /\ g.handle = r.handle /\ g.listening = r.listening /\ g.accepting = r.accepting
               /\ g.closeRequested = r.closeRequested /\ g.token = r.token
               /\ g.active = r.active /\ g.path = r.path /\ g.connections = r.connections
BY DEF ServerFields

-----------------------------------------------------------------------------
(* What the steps do, field by field.                                        *)

Others(s) == \A t \in Servers \ {s} : srv'[t] = srv[t]

\* All but the path, the unref'd state and the connections of s stay.
SameLife(s) ==
    /\ srv'[s].handle = srv[s].handle /\ srv'[s].listening = srv[s].listening
    /\ srv'[s].accepting = srv[s].accepting /\ srv'[s].token = srv[s].token
    /\ srv'[s].closeRequested = srv[s].closeRequested /\ srv'[s].active = srv[s].active

\* doListen, in success and failure, on the new listener l.
Begins(s, l) ==
    /\ listener[l] = "unused" /\ listener' = [listener EXCEPT ![l] = "open"]
    /\ srv'[s].handle = l /\ srv'[s].listening /\ srv'[s].accepting
    /\ srv'[s].token = srv[s].token + 1 /\ ~srv'[s].closeRequested /\ srv'[s].active
    /\ loops' = loops \cup {[server |-> s, token |-> srv[s].token + 1, on |-> l]}
    /\ mixed' = IF StillRuns(s) THEN mixed \cup {s} ELSE mixed

FailsToBegin(s, l) ==
    /\ listener[l] = "unused" /\ listener' = [listener EXCEPT ![l] = "unbound"]
    /\ srv'[s].handle = l /\ srv'[s].listening = srv[s].listening
    /\ srv'[s].accepting = srv[s].accepting /\ srv'[s].token = srv[s].token
    /\ srv'[s].closeRequested = srv[s].closeRequested /\ srv'[s].active = srv[s].active
    /\ UNCHANGED loops
    /\ mixed' = IF StillRuns(s) THEN mixed \cup {s} ELSE mixed

\* What a program calls that is not close().
Calls(s) ==
    /\ srv' \in [Servers -> ServerFields]
    /\ Others(s)
    /\ srv'[s].connections = srv[s].connections
    /\ \/ \E l \in Listeners : Begins(s, l) \/ FailsToBegin(s, l)
       \/ SameLife(s) /\ UNCHANGED <<listener, loops, mixed>>
    /\ UNCHANGED <<running, backlog, wakes, ticks, client, errors, asked, told, deaf, unwoken>>

\* close(), whatever becomes of the connections.
Closes(s) ==
    /\ srv' \in [Servers -> ServerFields]
    /\ Others(s)
    /\ srv'[s].handle = (IF srv[s].active THEN srv[s].handle ELSE None)
    /\ ~srv'[s].listening /\ ~srv'[s].accepting /\ srv'[s].closeRequested
    /\ srv'[s].token = srv[s].token + 1 /\ srv'[s].active = srv[s].active
    /\ listener' = IF srv[s].active \/ srv[s].handle = None THEN listener
                   ELSE [listener EXCEPT ![srv[s].handle] = "closed"]
    /\ wakes' = IF srv[s].active /\ srv[s].handle # None /\ listener[srv[s].handle] = "open"
                THEN wakes \cup {srv[s].handle} ELSE wakes
    /\ asked' = [asked EXCEPT ![s] = @ + 1]
    /\ UNCHANGED <<loops, running, backlog, told, mixed, deaf>>

\* The end of an accept loop.
Ends(s) ==
    /\ srv' \in [Servers -> ServerFields]
    /\ Others(s)
    /\ srv'[s].handle = (IF srv[s].closeRequested THEN None ELSE srv[s].handle)
    /\ srv'[s].listening = srv[s].listening /\ srv'[s].accepting = srv[s].accepting
    /\ srv'[s].token = srv[s].token /\ srv'[s].closeRequested = srv[s].closeRequested
    /\ ~srv'[s].active /\ srv'[s].connections = srv[s].connections
    /\ srv'[s].path = srv[s].path
    /\ listener' = IF srv[s].closeRequested /\ srv[s].handle # None
                   THEN [listener EXCEPT ![srv[s].handle] = "closed"] ELSE listener
    /\ ticks' = IF srv'[s].handle = None /\ ~srv[s].listening /\ srv[s].connections = 0
                THEN [ticks EXCEPT ![s] = @ + 1] ELSE ticks

LEMMA SrvUpdate ==
    ASSUME TypeOK, NEW s \in Servers, NEW g \in ServerFields, srv' = [srv EXCEPT ![s] = g]
    PROVE  srv' \in [Servers -> ServerFields] /\ Others(s) /\ srv'[s] = g
BY DEF TypeOK, Others

LEMMA DoListenCalls ==
    ASSUME TypeOK, NEW s \in Servers, NEW r \in ServerFields, DoListen(s, r),
           \E p \in Paths \cup {NoPath} : r = [srv[s] EXCEPT !.path = p],
           UNCHANGED netVars
    PROVE  Calls(s) /\ srv'[s].path = r.path
<1>1. NextListener \in Listeners /\ listener[NextListener] = "unused"
  BY NewListener DEF DoListen
<1>2. /\ r.token = srv[s].token /\ r.connections = srv[s].connections
  BY DEF TypeOK, ServerFields
<1> DEFINE l == NextListener
           g == [r EXCEPT !.handle = l, !.listening = TRUE, !.accepting = TRUE,
                          !.closeRequested = FALSE, !.token = @ + 1, !.active = TRUE]
<1>3. /\ g \in ServerFields
      /\ g.handle = l /\ g.listening /\ g.accepting /\ ~g.closeRequested
      /\ g.token = r.token + 1 /\ g.active
      /\ g.path = r.path /\ g.connections = r.connections
  BY <1>1, ListenedFields
<1>4. srv' = [srv EXCEPT ![s] = g]
  BY DEF DoListen
<1> HIDE DEF g
<1>5. srv' \in [Servers -> ServerFields] /\ Others(s) /\ srv'[s] = g
  BY <1>3, <1>4, SrvUpdate
<1>6. /\ listener' = [listener EXCEPT ![l] = "open"]
      /\ loops' = loops \cup {[server |-> s, token |-> r.token + 1, on |-> l]}
      /\ mixed' = IF StillRuns(s) THEN mixed \cup {s} ELSE mixed
  BY DEF DoListen
<1>7. Begins(s, l)
  BY <1>1, <1>2, <1>3, <1>5, <1>6 DEF Begins
<1> QED BY <1>1, <1>2, <1>3, <1>5, <1>7 DEF Calls, netVars

LEMMA DoListenFailsCalls ==
    ASSUME TypeOK, NEW s \in Servers, NEW r \in ServerFields, DoListenFails(s, r),
           \E p \in Paths \cup {NoPath} : r = [srv[s] EXCEPT !.path = p],
           UNCHANGED netVars
    PROVE  Calls(s) /\ srv'[s].path = r.path
<1>1. NextListener \in Listeners /\ listener[NextListener] = "unused"
  BY NewListener DEF DoListenFails
<1>2. /\ r.token = srv[s].token /\ r.connections = srv[s].connections
      /\ r.listening = srv[s].listening /\ r.accepting = srv[s].accepting
      /\ r.closeRequested = srv[s].closeRequested /\ r.active = srv[s].active
  BY DEF TypeOK, ServerFields
<1> DEFINE l == NextListener
           g == [r EXCEPT !.handle = l]
<1>3. /\ g \in ServerFields
      /\ g.handle = l /\ g.listening = r.listening /\ g.accepting = r.accepting
      /\ g.closeRequested = r.closeRequested /\ g.token = r.token
      /\ g.active = r.active /\ g.path = r.path /\ g.connections = r.connections
  BY <1>1, FailedFields
<1>4. srv' = [srv EXCEPT ![s] = g]
  BY DEF DoListenFails
<1> HIDE DEF g
<1>5. srv' \in [Servers -> ServerFields] /\ Others(s) /\ srv'[s] = g
  BY <1>3, <1>4, SrvUpdate
<1>6. /\ listener' = [listener EXCEPT ![l] = "unbound"]
      /\ UNCHANGED loops
      /\ mixed' = IF StillRuns(s) THEN mixed \cup {s} ELSE mixed
  BY DEF DoListenFails
<1>7. FailsToBegin(s, l)
  BY <1>1, <1>2, <1>3, <1>5, <1>6 DEF FailsToBegin
<1> QED BY <1>1, <1>2, <1>3, <1>5, <1>7 DEF Calls, netVars

\* listen() in its four forms, unref() and ref().
LEMMA ProgramCalls ==
    ASSUME TypeOK, NEW s \in Servers,
           \/ Listen(s) \/ ListenByName(s) \/ LookupReturns(s)
           \/ \E p \in Paths : ListenOnPath(s, p)
           \/ \E on \in BOOLEAN : SetUnrefed(s, on)
    PROVE  Calls(s)
<1>1. /\ srv[s] \in ServerFields
      /\ srv[s] = [srv[s] EXCEPT !.path = srv[s].path]
      /\ srv[s].path \in Paths \cup {NoPath}
  BY DEF TypeOK, ServerFields
<1>2. ASSUME UNCHANGED <<srv, listener, loops, mixed, netVars>> PROVE Calls(s)
  BY <1>2 DEF Calls, netVars, Others, SameLife, TypeOK
<1>3. ASSUME UNCHANGED netVars, DoListen(s, srv[s]) \/ DoListenFails(s, srv[s]) PROVE Calls(s)
  BY <1>1, <1>3, DoListenCalls, DoListenFailsCalls
<1>4. CASE Listen(s) \/ ListenByName(s) \/ LookupReturns(s)
  BY <1>2, <1>3, <1>4 DEF Listen, ListenByName, LookupReturns
<1>5. ASSUME NEW p \in Paths, ListenOnPath(s, p) PROVE Calls(s)
  <2> DEFINE g == [srv[s] EXCEPT !.path = p]
  <2>1. /\ g \in ServerFields
        /\ g.handle = srv[s].handle /\ g.listening = srv[s].listening
        /\ g.accepting = srv[s].accepting /\ g.closeRequested = srv[s].closeRequested
        /\ g.token = srv[s].token /\ g.active = srv[s].active
        /\ g.connections = srv[s].connections
    BY <1>1, NamedFields
  <2>2. /\ \/ srv' = [srv EXCEPT ![s] = g] /\ UNCHANGED <<loops, listener, mixed>>
           \/ DoListen(s, g) \/ DoListenFails(s, g)
        /\ UNCHANGED netVars
    BY <1>5 DEF ListenOnPath
  <2>3. CASE DoListen(s, g) \/ DoListenFails(s, g)
    BY <2>1, <2>2, <2>3, DoListenCalls, DoListenFailsCalls
  <2>4. CASE srv' = [srv EXCEPT ![s] = g] /\ UNCHANGED <<loops, listener, mixed>>
    <3> HIDE DEF g
    <3>1. srv' \in [Servers -> ServerFields] /\ Others(s) /\ srv'[s] = g
      BY <2>1, <2>4, SrvUpdate
    <3> QED BY <2>1, <2>2, <2>4, <3>1 DEF Calls, SameLife, netVars
  <2> QED BY <2>2, <2>3, <2>4
<1>6. ASSUME NEW on \in BOOLEAN, SetUnrefed(s, on) PROVE Calls(s)
  <2> DEFINE g == [srv[s] EXCEPT !.unrefed = on]
  <2>1. /\ g \in ServerFields
        /\ g.handle = srv[s].handle /\ g.listening = srv[s].listening
        /\ g.accepting = srv[s].accepting /\ g.closeRequested = srv[s].closeRequested
        /\ g.token = srv[s].token /\ g.active = srv[s].active
        /\ g.connections = srv[s].connections
    BY <1>1, UnrefedFields
  <2>2. srv' = [srv EXCEPT ![s] = g]
    BY <1>6 DEF SetUnrefed
  <2> HIDE DEF g
  <2>3. srv' \in [Servers -> ServerFields] /\ Others(s) /\ srv'[s] = g
    BY <2>1, <2>2, SrvUpdate
  <2> QED BY <1>6, <2>1, <2>3 DEF SetUnrefed, Calls, SameLife, historyVars
<1> QED BY <1>4, <1>5, <1>6

\* close() of a server with the fields r, which are its own but for the count.
LEMMA DoCloseCloses ==
    ASSUME TypeOK, NEW s \in Servers, NEW n \in Nat,
           DoClose(s, [srv[s] EXCEPT !.connections = n]),
           UNCHANGED <<loops, running, backlog, told, mixed, deaf>>
    PROVE  Closes(s) /\ srv'[s].connections = n
<1> DEFINE r == [srv[s] EXCEPT !.connections = n]
<1>1. srv[s] \in ServerFields
  BY DEF TypeOK
<1>2. /\ r \in ServerFields /\ r.handle = srv[s].handle /\ r.active = srv[s].active
      /\ r.token = srv[s].token /\ r.connections = n
  BY <1>1, CountedFields
<1> HIDE DEF r
<1>3. /\ Closed(r) \in ServerFields
      /\ Closed(r).handle = (IF r.active THEN r.handle ELSE None)
      /\ ~Closed(r).listening /\ ~Closed(r).accepting /\ Closed(r).closeRequested
      /\ Closed(r).token = r.token + 1 /\ Closed(r).active = r.active
      /\ Closed(r).connections = r.connections
  BY <1>2, ClosedFields
<1>4. /\ srv' = [srv EXCEPT ![s] = Closed(r)]
      /\ CloseHandle(IF r.active THEN None ELSE r.handle)
      /\ wakes' = IF r.active /\ r.handle # None /\ listener[r.handle] = "open"
                  THEN wakes \cup {r.handle} ELSE wakes
      /\ asked' = [asked EXCEPT ![s] = @ + 1]
  BY DEF DoClose, r
<1>5. srv' \in [Servers -> ServerFields] /\ Others(s) /\ srv'[s] = Closed(r)
  BY <1>3, <1>4, SrvUpdate
<1>6. listener' = IF r.active \/ r.handle = None THEN listener
                  ELSE [listener EXCEPT ![r.handle] = "closed"]
  BY <1>4 DEF CloseHandle
<1> QED BY <1>2, <1>3, <1>4, <1>5, <1>6 DEF Closes

LEMMA LoopEndsEnds ==
    ASSUME TypeOK, NEW s \in Servers, LoopEnds(s)
    PROVE  Ends(s)
<1> DEFINE r == srv[s]
           g == [r EXCEPT !.active = FALSE, !.handle = IF r.closeRequested THEN None ELSE @]
<1>1. r \in ServerFields
  BY DEF TypeOK
<1>2. /\ g \in ServerFields
      /\ g.handle = (IF r.closeRequested THEN None ELSE r.handle)
      /\ g.listening = r.listening /\ g.accepting = r.accepting
      /\ g.closeRequested = r.closeRequested /\ g.token = r.token
      /\ ~g.active /\ g.path = r.path /\ g.connections = r.connections
  BY <1>1, EndedFields
<1>3. /\ srv' = [srv EXCEPT ![s] = g]
      /\ CloseHandle(IF r.closeRequested THEN r.handle ELSE None)
      /\ ticks' = MaybeEmitClose(ticks, s, g)
  BY DEF LoopEnds
<1> HIDE DEF g
<1>4. srv' \in [Servers -> ServerFields] /\ Others(s) /\ srv'[s] = g
  BY <1>2, <1>3, SrvUpdate
<1>5. listener' = IF r.closeRequested /\ r.handle # None
                  THEN [listener EXCEPT ![r.handle] = "closed"] ELSE listener
  BY <1>3 DEF CloseHandle
<1>6. ticks' = IF g.handle = None /\ ~r.listening /\ r.connections = 0
               THEN [ticks EXCEPT ![s] = @ + 1] ELSE ticks
  BY <1>2, <1>3 DEF MaybeEmitClose, Drained
<1> QED BY <1>2, <1>4, <1>5, <1>6 DEF Ends

-----------------------------------------------------------------------------
(* Types.                                                                    *)

LEMMA InitType == Init => TypeOK
<1> SUFFICES ASSUME Init PROVE TypeOK
  OBVIOUS
<1>1. srv \in [Servers -> ServerFields]
  BY DEF Init, ServerFields
<1>2. errors \in 0 .. MaxErrors
  BY NetServerAssumption DEF Init
<1>3. backlog \in [Listeners -> Seq(Clients \cup {Wake})]
  BY DEF Init
<1> QED BY <1>1, <1>2, <1>3 DEF Init, TypeOK, Unserved

LEMMA CallsType ==
    ASSUME TypeOK, NEW s \in Servers, UserCalls(s) \/ LookupReturns(s)
    PROVE  TypeOK'
<1>1. CASE Close(s)
  <2>1. srv[s].connections \in Nat /\ srv[s] = [srv[s] EXCEPT !.connections = srv[s].connections]
        /\ srv[s].path \in Paths \cup {NoPath} /\ srv[s].handle \in Listeners \cup {None}
    BY DEF TypeOK, ServerFields
  <2>2. Closes(s)
    BY <1>1, <2>1, DoCloseCloses DEF Close
  <2>3. ipc' \in [Paths -> Listeners \cup {None}]
    BY <1>1, <2>1 DEF Close, DoClose, TypeOK
  <2>4. ticks' \in [Servers -> Nat] /\ asked' \in [Servers -> Nat]
    BY <1>1, <2>2 DEF Close, Closes, MaybeEmitClose, TypeOK
  <2>5. listener' \in [Listeners -> {"unused", "unbound", "open", "closed"}] /\ wakes' \subseteq Listeners
    BY <2>1, <2>2 DEF Closes, TypeOK
  <2>6. UNCHANGED <<loops, running, backlog, lookups, client, errors, told, mixed, renamed, deaf, unwoken>>
    BY <1>1 DEF Close
  <2> QED BY <2>2, <2>3, <2>4, <2>5, <2>6 DEF Closes, TypeOK
<1>2. CASE ~Close(s)
  <2>1. \/ Listen(s) \/ ListenByName(s) \/ LookupReturns(s)
        \/ \E p \in Paths : ListenOnPath(s, p)
        \/ \E on \in BOOLEAN : SetUnrefed(s, on)
    BY <1>2 DEF UserCalls
  <2>2. Calls(s)
    BY <2>1, ProgramCalls
  <2>3. lookups' \subseteq Servers /\ renamed' \subseteq Servers
    BY <2>1 DEF Listen, ListenByName, LookupReturns, ListenOnPath, SetUnrefed, historyVars, TypeOK
  <2>4. ipc' \in [Paths -> Listeners \cup {None}]
    <3>1. CASE UNCHANGED ipc
      BY <3>1 DEF TypeOK
    <3>2. ASSUME NEW p \in Paths, ipc' = [ipc EXCEPT ![p] = NextListener], Unused # {}
          PROVE  ipc' \in [Paths -> Listeners \cup {None}]
      BY <3>2, NewListener DEF TypeOK
    <3>3. \/ UNCHANGED ipc
          \/ \E p \in Paths : Unused # {} /\ ipc' = [ipc EXCEPT ![p] = NextListener]
      BY <2>1 DEF Listen, ListenByName, LookupReturns, ListenOnPath, SetUnrefed, DoListen, DoListenFails
    <3> QED BY <3>1, <3>2, <3>3
  <2>5. loops' \subseteq Loops /\ mixed' \subseteq Servers
        /\ listener' \in [Listeners -> {"unused", "unbound", "open", "closed"}]
    <3>1. CASE SameLife(s) /\ UNCHANGED <<listener, loops, mixed>>
      BY <3>1 DEF TypeOK
    <3>2. ASSUME NEW l \in Listeners, Begins(s, l) \/ FailsToBegin(s, l)
          PROVE  loops' \subseteq Loops /\ mixed' \subseteq Servers
                 /\ listener' \in [Listeners -> {"unused", "unbound", "open", "closed"}]
      <4>1. srv[s].token + 1 \in Nat
        BY DEF TypeOK, ServerFields
      <4>2. [server |-> s, token |-> srv[s].token + 1, on |-> l] \in Loops
        BY <4>1 DEF Loops
      <4>3. loops' \subseteq Loops
        BY <3>2, <4>2 DEF Begins, FailsToBegin, TypeOK
      <4>4. mixed' \subseteq Servers
        BY <3>2 DEF Begins, FailsToBegin, TypeOK
      <4>5. listener' \in [Listeners -> {"unused", "unbound", "open", "closed"}]
        <5>1. \/ listener' = [listener EXCEPT ![l] = "open"]
              \/ listener' = [listener EXCEPT ![l] = "unbound"]
          BY <3>2 DEF Begins, FailsToBegin
        <5>2. listener \in [Listeners -> {"unused", "unbound", "open", "closed"}]
          BY DEF TypeOK
        <5> QED BY <5>1, <5>2
      <4> QED BY <4>3, <4>4, <4>5
    <3> QED BY <2>2, <3>1, <3>2 DEF Calls
  <2> QED BY <2>2, <2>3, <2>4, <2>5 DEF Calls, TypeOK
<1> QED BY <1>1, <1>2

LEMMA ConnectionsType ==
    ASSUME TypeOK,
           \/ \E s \in Servers : EmitClose(s)
           \/ \E c \in Clients, l \in Listeners : ClientConnects(c, l)
           \/ \E l \in Listeners : WakeEnds(l)
    PROVE  TypeOK'
<1>1. ASSUME NEW s \in Servers, EmitClose(s) PROVE TypeOK'
  <2>1. ticks' \in [Servers -> Nat] /\ told' \in [Servers -> Nat]
    BY <1>1 DEF EmitClose, TypeOK
  <2> QED BY <1>1, <2>1 DEF EmitClose, TypeOK
<1>2. ASSUME NEW c \in Clients, NEW l \in Listeners, ClientConnects(c, l) PROVE TypeOK'
  <2>1. client' \in [Clients -> Unserved \cup Servers]
    BY <1>2 DEF ClientConnects, TypeOK, Unserved
  <2>2. backlog' \in [Listeners -> Seq(Clients \cup {Wake})]
    <3>1. Append(backlog[l], c) \in Seq(Clients \cup {Wake})
      BY DEF TypeOK
    <3> QED BY <1>2, <3>1 DEF ClientConnects, TypeOK
  <2> QED BY <1>2, <2>1, <2>2 DEF ClientConnects, connectUnchanged, TypeOK
<1>3. ASSUME NEW l \in Listeners, WakeEnds(l) PROVE TypeOK'
  <2>1. backlog' \in [Listeners -> Seq(Clients \cup {Wake})]
    <3>1. Append(backlog[l], Wake) \in Seq(Clients \cup {Wake})
      BY DEF TypeOK
    <3> QED BY <1>3, <3>1 DEF WakeEnds, TypeOK
  <2>2. wakes' \subseteq Listeners /\ unwoken' \subseteq Listeners
    BY <1>3 DEF WakeEnds, TypeOK
  <2> QED BY <1>3, <2>1, <2>2 DEF WakeEnds, connectUnchanged, TypeOK
<1> QED BY <1>1, <1>2, <1>3

LEMMA EndsType ==
    ASSUME TypeOK, NEW s \in Servers, LoopEnds(s)
    PROVE  /\ srv' \in [Servers -> ServerFields] /\ ticks' \in [Servers -> Nat]
           /\ listener' \in [Listeners -> {"unused", "unbound", "open", "closed"}]
<1>1. Ends(s) /\ srv[s].handle \in Listeners \cup {None}
  BY LoopEndsEnds DEF TypeOK, ServerFields
<1> QED BY <1>1 DEF Ends, TypeOK

LEMMA SocketClosesType ==
    ASSUME TypeOK, NEW c \in Clients, SocketCloses(c),
           srv[client[c]].connections > 0
    PROVE  TypeOK' /\ client[c] \in Servers /\ client' = [client EXCEPT ![c] = "closed"]
           /\ srv'[client[c]].connections = srv[client[c]].connections - 1
           /\ \/ Closes(client[c])
              \/ SameLife(client[c]) /\ UNCHANGED <<listener, wakes, ipc, asked>>
           /\ Others(client[c])
<1> DEFINE s == client[c]
           n == srv[s].connections - 1
           left == [srv[s] EXCEPT !.connections = n]
<1>1. s \in Servers /\ client' = [client EXCEPT ![c] = "closed"]
      /\ UNCHANGED <<loops, running, backlog, lookups, errors, told, mixed, renamed, deaf, unwoken>>
  BY DEF SocketCloses
<1>2. n \in Nat /\ srv[s] \in ServerFields
  BY <1>1 DEF TypeOK, ServerFields
<1>3. client' \in [Clients -> Unserved \cup Servers]
  BY <1>1 DEF TypeOK, Unserved
<1>4. left \in ServerFields /\ left.connections = n /\ left.handle = srv[s].handle
      /\ left.listening = srv[s].listening /\ left.accepting = srv[s].accepting
      /\ left.token = srv[s].token /\ left.closeRequested = srv[s].closeRequested
      /\ left.active = srv[s].active /\ left.path = srv[s].path
  BY <1>2, CountedFields
<1>5. \/ DoClose(s, left)
         /\ ticks' = MaybeEmitClose(MaybeEmitClose(ticks, s, Closed(left)), s, Closed(left))
      \/ srv' = [srv EXCEPT ![s] = left] /\ ticks' = MaybeEmitClose(ticks, s, left)
         /\ UNCHANGED <<listener, wakes, ipc, asked>>
  BY DEF SocketCloses
<1>6. ticks' \in [Servers -> Nat]
  BY <1>1, <1>5 DEF MaybeEmitClose, TypeOK
<1>7. CASE DoClose(s, left)
  <2>1. Closes(s) /\ srv'[s].connections = n
    BY <1>1, <1>2, <1>7, DoCloseCloses
  <2>2. srv[s].path \in Paths \cup {NoPath} /\ srv[s].handle \in Listeners \cup {None}
    BY <1>2 DEF ServerFields
  <2> HIDE DEF left
  <2>3. ipc' \in [Paths -> Listeners \cup {None}]
    BY <1>4, <1>7, <2>2 DEF DoClose, TypeOK
  <2>4. asked' \in [Servers -> Nat]
    BY <1>1, <2>1 DEF Closes, TypeOK
  <2>5. listener' \in [Listeners -> {"unused", "unbound", "open", "closed"}] /\ wakes' \subseteq Listeners
    BY <2>1, <2>2 DEF Closes, TypeOK
  <2> QED BY <1>1, <1>3, <1>6, <2>1, <2>3, <2>4, <2>5 DEF Closes, TypeOK
<1>8. CASE srv' = [srv EXCEPT ![s] = left] /\ UNCHANGED <<listener, wakes, ipc, asked>>
  <2> HIDE DEF left
  <2>1. srv' \in [Servers -> ServerFields] /\ Others(s) /\ srv'[s] = left
    BY <1>1, <1>4, <1>8, SrvUpdate
  <2> QED BY <1>1, <1>3, <1>4, <1>6, <1>8, <2>1 DEF SameLife, TypeOK
<1> QED BY <1>1, <1>5, <1>7, <1>8

-----------------------------------------------------------------------------
(* What becomes of an accept loop.                                           *)

\* The backlogs stay, or the listener l gives out a connection.
GivesOut(l) ==
    \/ UNCHANGED backlog
    \/ backlog[l] # <<>> /\ backlog' = [backlog EXCEPT ![l] = Tail(@)]

EndsLoop(x) ==
    /\ running = NoLoop /\ x \in loops /\ Stale(x) /\ loops' = loops \ {x}
    /\ Ends(x.server) /\ GivesOut(x.on)
    /\ UNCHANGED <<running, deaf, loopUnchanged>>

Announces(x) ==
    /\ running = NoLoop /\ x \in loops /\ ~Stale(x) /\ loops' = loops \ {x}
    /\ srv' \in [Servers -> ServerFields] /\ Others(x.server) /\ SameLife(x.server)
    /\ srv'[x.server].path = srv[x.server].path
    /\ GivesOut(x.on)
    /\ running' \in Ended
    /\ running'.server = x.server /\ running'.token = x.token
    /\ IF running'.ending /\ listener[x.on] # "closed"
       THEN deaf' = deaf \cup {<<x.server, x.token>>} ELSE UNCHANGED deaf
    /\ UNCHANGED <<listener, ticks, loopUnchanged>>

GoesOn ==
    LET s == running.server IN
    /\ running # NoLoop /\ running' = NoLoop
    /\ srv[s].accepting /\ srv[s].handle # None /\ ~Stale(running)
    /\ loops' = loops \cup {[server |-> s, token |-> running.token, on |-> srv[s].handle]}
    /\ UNCHANGED <<srv, listener, ticks, backlog, deaf, loopUnchanged>>

Stops ==
    LET s == running.server IN
    /\ running # NoLoop /\ running' = NoLoop
    /\ running.ending \/ ~srv[s].accepting \/ srv[s].handle = None \/ Stale(running)
    /\ Ends(s)
    /\ UNCHANGED <<loops, backlog, deaf, loopUnchanged>>

TakesError ==
    /\ running # NoLoop /\ ~Stale(running)
    /\ running' \in Ended /\ running'.server = running.server
    /\ running'.token = running.token
    /\ deaf' = deaf \cup {<<running.server, running.token>>}
    /\ UNCHANGED <<srv, listener, ticks, loops, backlog, loopUnchanged>>

LEMMA GivesOutType ==
    ASSUME TypeOK, NEW l \in Listeners, GivesOut(l)
    PROVE  backlog' \in [Listeners -> Seq(Clients \cup {Wake})]
<1>1. CASE backlog[l] # <<>> /\ backlog' = [backlog EXCEPT ![l] = Tail(@)]
  <2>1. Tail(backlog[l]) \in Seq(Clients \cup {Wake})
    BY <1>1 DEF TypeOK
  <2> QED BY <1>1, <2>1 DEF TypeOK
<1> QED BY <1>1 DEF GivesOut, TypeOK

LEMMA NotNoLoop ==
    ASSUME NEW x \in Ended
    PROVE  x # NoLoop
BY NetServerAssumption

LEMMA LoopStepKinds ==
    ASSUME TypeOK, NEW x \in loops, LoopStep(x)
    PROVE  TypeOK' /\ (EndsLoop(x) \/ Announces(x))
<1> DEFINE s == x.server
<1>1. x \in Loops /\ s \in Servers /\ x.token \in Nat /\ x.on \in Listeners
  BY DEF TypeOK, Loops
<1>2. /\ running = NoLoop /\ loops' = loops \ {x} /\ UNCHANGED loopUnchanged
      /\ GivesOut(x.on)
  BY DEF LoopStep, Accepts, AcceptFails, GivesOut
<1>3. client' \in [Clients -> Unserved \cup Servers]
  <2>1. client' = client \/ \E c \in Clients, f \in Unserved \cup Servers : client' = [client EXCEPT ![c] = f]
    <3>1. CASE Accepts(x)
      <4>1. Head(backlog[x.on]) \in Clients \cup {Wake}
        BY <1>1, <3>1 DEF Accepts, TypeOK
      <4>2. "dropped" \in Unserved
        BY DEF Unserved
      <4>3. \E f \in Unserved \cup Servers :
               client' = IF Head(backlog[x.on]) = Wake THEN client
                         ELSE [client EXCEPT ![Head(backlog[x.on])] = f]
        BY <1>1, <3>1, <4>2 DEF Accepts
      <4> QED BY <4>1, <4>3
    <3>2. CASE AcceptFails(x)
      BY <3>2 DEF AcceptFails
    <3> QED BY <3>1, <3>2 DEF LoopStep
  <2> QED BY <2>1 DEF TypeOK
<1>4. errors' \in 0 .. MaxErrors
  <2>1. errors \in 0 .. MaxErrors /\ MaxErrors \in Nat
    BY NetServerAssumption DEF TypeOK
  <2>2. errors' = errors \/ (errors < MaxErrors /\ errors' = errors + 1)
    BY DEF LoopStep, Accepts, AcceptFails
  <2> QED BY <2>1, <2>2
<1>5. backlog' \in [Listeners -> Seq(Clients \cup {Wake})]
  BY <1>1, <1>2, GivesOutType
<1>6. CASE Stale(x)
  <2>1. LoopEnds(s) /\ UNCHANGED <<running, deaf>>
    BY <1>6 DEF LoopStep, Accepts, AcceptFails
  <2>2. Ends(s) /\ srv' \in [Servers -> ServerFields] /\ ticks' \in [Servers -> Nat]
        /\ listener' \in [Listeners -> {"unused", "unbound", "open", "closed"}]
    BY <1>1, <2>1, LoopEndsEnds, EndsType
  <2>3. EndsLoop(x)
    BY <1>2, <1>6, <2>1, <2>2 DEF EndsLoop
  <2>4. TypeOK'
    BY <1>2, <1>3, <1>4, <1>5, <2>1, <2>2 DEF loopUnchanged, TypeOK
  <2> QED BY <2>3, <2>4
<1>7. CASE ~Stale(x)
  <2>1. /\ UNCHANGED <<listener, ticks>>
        /\ \E e \in BOOLEAN :
              running' = [server |-> s, token |-> x.token, on |-> x.on, ending |-> e]
        /\ IF running'.ending /\ listener[x.on] # "closed"
           THEN deaf' = deaf \cup {<<s, x.token>>} ELSE UNCHANGED deaf
    <3> DEFINE R(e) == [server |-> s, token |-> x.token, on |-> x.on, ending |-> e]
    <3>1. CASE Accepts(x)
      <4>1. running' = R(FALSE) /\ UNCHANGED <<listener, ticks, deaf>>
        BY <1>7, <3>1 DEF Accepts
      <4> QED BY <4>1
    <3>2. CASE AcceptFails(x)
      <4>1. /\ running' = R(TRUE) /\ UNCHANGED <<srv, listener, ticks>>
            /\ deaf' = IF listener[x.on] = "closed" THEN deaf ELSE deaf \cup {<<s, x.token>>}
        BY <1>7, <3>2 DEF AcceptFails
      <4> QED BY <4>1
    <3> QED BY <3>1, <3>2 DEF LoopStep
  <2>2. running' \in Ended /\ running'.server = s /\ running'.token = x.token
    BY <1>1, <2>1 DEF Ended
  <2>3. \/ UNCHANGED srv
        \/ srv' = [srv EXCEPT ![s].connections = @ + 1]
    BY <1>7 DEF LoopStep, Accepts, AcceptFails
  <2>4. srv' \in [Servers -> ServerFields] /\ Others(s) /\ SameLife(s) /\ srv'[s].path = srv[s].path
    <3>1. CASE UNCHANGED srv
      BY <3>1 DEF TypeOK, Others, SameLife
    <3>2. CASE srv' = [srv EXCEPT ![s].connections = @ + 1]
      <4> DEFINE n == srv[s].connections + 1
                 g == [srv[s] EXCEPT !.connections = n]
      <4>1. srv[s] \in ServerFields /\ n \in Nat
        BY <1>1 DEF TypeOK, ServerFields
      <4>2. /\ g \in ServerFields
            /\ g.handle = srv[s].handle /\ g.listening = srv[s].listening
            /\ g.accepting = srv[s].accepting /\ g.closeRequested = srv[s].closeRequested
            /\ g.token = srv[s].token /\ g.active = srv[s].active /\ g.path = srv[s].path
        BY <4>1, CountedFields
      <4>3. srv' = [srv EXCEPT ![s] = g]
        BY <3>2
      <4> HIDE DEF g
      <4>4. srv' \in [Servers -> ServerFields] /\ Others(s) /\ srv'[s] = g
        BY <1>1, <4>2, <4>3, SrvUpdate
      <4> QED BY <4>2, <4>4 DEF SameLife
    <3> QED BY <2>3, <3>1, <3>2
  <2>5. Announces(x)
    BY <1>2, <1>7, <2>1, <2>2, <2>4 DEF Announces
  <2>6. deaf' \subseteq Servers \X Nat
    BY <1>1, <2>1 DEF TypeOK
  <2>7. TypeOK'
    BY <1>2, <1>3, <1>4, <1>5, <2>1, <2>2, <2>4, <2>6 DEF loopUnchanged, TypeOK
  <2> QED BY <2>5, <2>7
<1> QED BY <1>6, <1>7

LEMMA ListenersKinds ==
    ASSUME TypeOK, ListenersReturn \/ ListenerThrows
    PROVE  TypeOK' /\ (GoesOn \/ Stops \/ TakesError)
<1> DEFINE s == running.server
<1>1. running # NoLoop /\ running \in Ended /\ s \in Servers /\ running.token \in Nat
      /\ running.ending \in BOOLEAN
  BY DEF ListenersReturn, ListenerThrows, TypeOK, Ended
<1>2. UNCHANGED <<backlog, client, errors, loopUnchanged>>
  BY DEF ListenersReturn, ListenerThrows
<1>3. ASSUME LoopEnds(s), running' = NoLoop, UNCHANGED <<loops, deaf>>,
             running.ending \/ ~srv[s].accepting \/ srv[s].handle = None \/ Stale(running)
      PROVE  TypeOK' /\ Stops
  <2>1. Ends(s) /\ srv' \in [Servers -> ServerFields] /\ ticks' \in [Servers -> Nat]
        /\ listener' \in [Listeners -> {"unused", "unbound", "open", "closed"}]
    BY <1>1, <1>3, LoopEndsEnds, EndsType
  <2>2. Stops
    BY <1>1, <1>2, <1>3, <2>1 DEF Stops
  <2> QED BY <1>2, <1>3, <2>1, <2>2 DEF loopUnchanged, TypeOK
<1> DEFINE more == ~running.ending /\ srv[s].accepting /\ srv[s].handle # None /\ ~Stale(running)
<1>4. CASE ListenersReturn /\ ~more
  BY <1>3, <1>4 DEF ListenersReturn
<1>5. CASE ListenersReturn /\ more
  <2>1. GoesOn
    BY <1>1, <1>2, <1>5 DEF ListenersReturn, GoesOn
  <2>2. [server |-> s, token |-> running.token, on |-> srv[s].handle] \in Loops
    BY <1>1, <1>5 DEF TypeOK, ServerFields, Loops
  <2>3. loops' \subseteq Loops
    BY <2>1, <2>2 DEF GoesOn, TypeOK
  <2> QED BY <1>2, <2>1, <2>3 DEF GoesOn, loopUnchanged, TypeOK
<1>6. CASE ListenerThrows /\ Stale(running)
  BY <1>3, <1>6 DEF ListenerThrows
<1>7. CASE ListenerThrows /\ ~Stale(running)
  <2>1. running' = [running EXCEPT !.ending = TRUE] /\ deaf' = deaf \cup {<<s, srv[s].token>>}
        /\ UNCHANGED <<srv, listener, ticks, loops>>
    BY <1>7 DEF ListenerThrows
  <2>2. running' \in Ended /\ running'.server = s /\ running'.token = running.token
    BY <1>1, <2>1 DEF Ended
  <2>3. srv[s].token = running.token
    BY <1>7 DEF Stale
  <2>4. TakesError
    BY <1>1, <1>2, <1>7, <2>1, <2>2, <2>3 DEF TakesError
  <2>5. deaf' \subseteq Servers \X Nat
    BY <1>1, <2>1, <2>3 DEF TypeOK
  <2> QED BY <1>2, <2>1, <2>2, <2>4, <2>5 DEF loopUnchanged, TypeOK
<1> QED BY <1>4, <1>5, <1>6, <1>7

-----------------------------------------------------------------------------
(* Why a listening server hears its clients.  A listener belongs to one      *)
(* server; only the loop with the server's token works on a server that      *)
(* listens; a wake connection goes to a listener all of whose loops are      *)
(* stale, so it ends no loop that serves; and a loop that ends with the      *)
(* token of its server has failed, which `deaf` records.                     *)

HeldBy(l, s) == srv[s].handle = l \/ \E x \in loops : x.server = s /\ x.on = l

Owned ==
    \A l \in Listeners, s \in Servers : HeldBy(l, s) =>
        /\ listener[l] # "unused"
        /\ \A t \in Servers : HeldBy(l, t) => s = t

Tokens ==
    /\ \A x \in loops :
        /\ x.token <= srv[x.server].token
        /\ ~Stale(x) => srv[x.server].listening /\ listener[x.on] # "closed"
    /\ running # NoLoop =>
        /\ running.token <= srv[running.server].token
        /\ ~Stale(running) => srv[running.server].listening

Woken(l) == l \in wakes \/ \E n \in 1 .. Len(backlog[l]) : backlog[l][n] = Wake

WakesAreStale ==
    \A l \in Listeners : Woken(l) =>
        /\ listener[l] # "unused"
        /\ \A x \in loops : x.on = l => Stale(x)
        /\ \A s \in Servers : srv[s].handle = l => ~srv[s].listening

Fields ==
    \A s \in Servers :
        /\ srv[s].accepting = srv[s].listening
        /\ srv[s].listening => /\ srv[s].handle # None /\ ~srv[s].closeRequested
                               /\ listener[srv[s].handle] # "closed"

Endings ==
    running # NoLoop /\ running.ending => <<running.server, running.token>> \in deaf

SoundInv ==
    /\ TypeOK /\ Owned /\ Tokens /\ WakesAreStale /\ Fields /\ Endings
    /\ HearsWhileListening

\* What the types say of one server, one loop and one listener.
LEMMA Known ==
    ASSUME TypeOK
    PROVE  /\ \A s \in Servers :
                /\ srv[s].token \in Nat /\ srv[s].handle \in Listeners \cup {None}
                /\ srv[s].listening \in BOOLEAN /\ srv[s].accepting \in BOOLEAN
                /\ srv[s].closeRequested \in BOOLEAN /\ srv[s].active \in BOOLEAN
                /\ srv[s].connections \in Nat /\ srv[s].path \in Paths \cup {NoPath}
           /\ \A x \in loops : x \in Loops /\ x.server \in Servers /\ x.token \in Nat
                               /\ x.on \in Listeners
           /\ running # NoLoop => /\ running \in Ended /\ running.server \in Servers
                                  /\ running.token \in Nat /\ running.ending \in BOOLEAN
<1>1. \A s \in Servers : srv[s] \in ServerFields
  BY DEF TypeOK
<1>2. \A x \in loops : x \in Loops
  BY DEF TypeOK
<1>3. running # NoLoop => running \in Ended
  BY DEF TypeOK
<1> QED BY <1>1, <1>2, <1>3 DEF ServerFields, Loops, Ended

LEMMA NoneIsNoListener == None \notin Listeners
BY DEF None, Listeners

\* A listener that no server has had.
LEMMA NewIsFree ==
    ASSUME Owned, WakesAreStale, NEW l \in Listeners, listener[l] = "unused"
    PROVE  ~Woken(l) /\ \A s \in Servers : ~HeldBy(l, s)
BY DEF Owned, WakesAreStale

LEMMA InitSound == Init => SoundInv
<1> SUFFICES ASSUME Init PROVE SoundInv
  OBVIOUS
<1>1. TypeOK
  BY InitType
<1>2. \A s \in Servers : srv[s].handle = None /\ srv[s].listening = FALSE /\ srv[s].accepting = FALSE
  BY DEF Init
<1>3. loops = {} /\ running = NoLoop /\ wakes = {} /\ \A l \in Listeners : backlog[l] = <<>>
  BY DEF Init
<1>4. \A l \in Listeners : ~Woken(l)
  BY <1>3 DEF Woken
<1>5. \A l \in Listeners, s \in Servers : ~HeldBy(l, s)
  BY <1>2, <1>3, NoneIsNoListener DEF HeldBy
<1> QED BY <1>1, <1>2, <1>3, <1>4, <1>5
    DEF SoundInv, Owned, Tokens, WakesAreStale, Fields, Endings, HearsWhileListening

\* A new listen(): the server's earlier loops are stale from now on.
LEMMA BeginsSound ==
    ASSUME SoundInv, TypeOK', NEW s \in Servers, NEW l \in Listeners, Calls(s), Begins(s, l)
    PROVE  SoundInv'
<1> DEFINE new == [server |-> s, token |-> srv[s].token + 1, on |-> l]
<1>1. /\ Others(s) /\ UNCHANGED <<running, backlog, wakes, deaf>>
      /\ listener[l] = "unused" /\ listener' = [listener EXCEPT ![l] = "open"]
      /\ srv'[s].handle = l /\ srv'[s].listening /\ srv'[s].accepting
      /\ srv'[s].token = srv[s].token + 1 /\ ~srv'[s].closeRequested
      /\ loops' = loops \cup {new}
  BY DEF Calls, Begins
<1>2. /\ srv[s].token \in Nat /\ l # None
      /\ srv'[s].listening \in BOOLEAN /\ srv'[s].accepting \in BOOLEAN
  <2>1. srv'[s] \in ServerFields
    BY DEF Calls
  <2> QED BY <2>1, Known, NoneIsNoListener DEF SoundInv, ServerFields
<1>3. /\ ~Woken(l) /\ \A t \in Servers : ~HeldBy(l, t)
  BY <1>1, NewIsFree DEF SoundInv
<1>4. new.server = s /\ new.token = srv'[s].token /\ new.on = l
  BY <1>1
<1>5. /\ listener'[l] = "open"
      /\ \A k \in Listeners \ {l} : listener'[k] = listener[k]
  BY <1>1 DEF SoundInv, TypeOK
<1>6. \A t \in Servers \ {s} : srv'[t] = srv[t]
  BY <1>1 DEF Others
<1>7. \A x \in loops : /\ x.server = s => Stale(x)'
                       /\ x.server # s => Stale(x)' = Stale(x)
                       /\ Stale(x) => Stale(x)'
  <2> SUFFICES ASSUME NEW x \in loops
               PROVE  /\ x.server = s => Stale(x)'
                      /\ x.server # s => Stale(x)' = Stale(x)
                      /\ Stale(x) => Stale(x)'
    OBVIOUS
  <2>1. x.token <= srv[x.server].token /\ x.token \in Nat /\ x.server \in Servers
    BY Known DEF SoundInv, Tokens
  <2>2. CASE x.server = s
    <3>1. x.token # srv'[s].token
      BY <1>1, <1>2, <2>1, <2>2
    <3> QED BY <2>2, <3>1 DEF Stale
  <2>3. CASE x.server # s
    BY <1>6, <2>1, <2>3 DEF Stale
  <2> QED BY <2>2, <2>3
<1>8. Owned'
  <2>1. \A t \in Servers : HeldBy(l, t)' => t = s
    BY <1>1, <1>3, <1>4, <1>6 DEF HeldBy
  <2>2. \A k \in Listeners \ {l}, t \in Servers : HeldBy(k, t)' => HeldBy(k, t)
    BY <1>1, <1>4, <1>6 DEF HeldBy
  <2> QED BY <1>5, <2>1, <2>2 DEF SoundInv, Owned
<1>9. Tokens'
  <2>1. ASSUME NEW x \in loops'
        PROVE  /\ x.token <= srv'[x.server].token
               /\ ~Stale(x)' => srv'[x.server].listening /\ listener'[x.on] # "closed"
    <3>1. CASE x = new
      BY <1>1, <1>2, <1>4, <1>5, <3>1
    <3>2. CASE x \in loops
      <4>1. x.token <= srv[x.server].token /\ x.token \in Nat /\ x.server \in Servers /\ x.on \in Listeners
            /\ (~Stale(x) => srv[x.server].listening /\ listener[x.on] # "closed")
        BY <3>2, Known DEF SoundInv, Tokens
      <4>2. x.token <= srv'[x.server].token
        BY <1>1, <1>2, <1>6, <4>1
      <4>3. listener'[x.on] # "closed" \/ listener[x.on] = "closed"
        BY <1>5, <4>1
      <4> QED BY <1>6, <1>7, <3>2, <4>1, <4>2, <4>3
    <3> QED BY <1>1, <3>1, <3>2
  <2>2. running' # NoLoop =>
          /\ running'.token <= srv'[running'.server].token
          /\ ~Stale(running)' => srv'[running'.server].listening
    <3> SUFFICES ASSUME running # NoLoop
                 PROVE  /\ running.token <= srv'[running.server].token
                        /\ ~Stale(running)' => srv'[running.server].listening
      BY <1>1
    <3>1. running.token <= srv[running.server].token /\ running.token \in Nat /\ running.server \in Servers
          /\ (~Stale(running) => srv[running.server].listening)
      BY Known DEF SoundInv, Tokens
    <3>2. running.token <= srv'[running.server].token
      BY <1>1, <1>2, <1>6, <3>1
    <3>3. CASE running.server = s
      BY <1>1, <3>2, <3>3
    <3>4. CASE running.server # s
      <4>1. srv'[running.server] = srv[running.server]
        BY <1>6, <3>1, <3>4
      <4> QED BY <1>1, <3>1, <3>2, <4>1 DEF Stale
    <3> QED BY <3>3, <3>4
  <2> QED BY <2>1, <2>2 DEF Tokens
<1>10. WakesAreStale'
  <2> SUFFICES ASSUME NEW k \in Listeners, Woken(k)'
               PROVE  /\ listener'[k] # "unused"
                      /\ \A x \in loops' : x.on = k => Stale(x)'
                      /\ \A t \in Servers : srv'[t].handle = k => ~srv'[t].listening
    BY DEF WakesAreStale
  <2>1. Woken(k)
    BY <1>1 DEF Woken
  <2>2. k # l
    BY <1>3, <2>1
  <2> QED BY <1>1, <1>4, <1>5, <1>6, <1>7, <2>1, <2>2 DEF SoundInv, WakesAreStale
<1>11. Fields'
  <2> SUFFICES ASSUME NEW t \in Servers
               PROVE  /\ srv'[t].accepting = srv'[t].listening
                      /\ srv'[t].listening => /\ srv'[t].handle # None /\ ~srv'[t].closeRequested
                                              /\ listener'[srv'[t].handle] # "closed"
    BY DEF Fields
  <2>1. CASE t = s
    BY <1>1, <1>2, <1>5, <2>1
  <2>2. CASE t # s
    <3>1. srv'[t] = srv[t]
      BY <1>6, <2>2
    <3> QED BY <1>5, <3>1, Known DEF SoundInv, Fields
  <2> QED BY <2>1, <2>2
<1>12. Endings'
  BY <1>1 DEF SoundInv, Endings
<1>13. HearsWhileListening'
  <2> SUFFICES ASSUME NEW t \in Servers, srv'[t].listening, <<t, srv'[t].token>> \notin deaf'
               PROVE  \/ \E x \in loops' : x.server = t /\ x.token = srv'[t].token
                      \/ running' # NoLoop /\ running'.server = t /\ running'.token = srv'[t].token
    BY DEF HearsWhileListening
  <2>1. CASE t = s
    BY <1>1, <1>4, <2>1
  <2>2. CASE t # s
    <3>1. srv'[t] = srv[t]
      BY <1>6, <2>2
    <3> QED BY <1>1, <3>1 DEF SoundInv, HearsWhileListening
  <2> QED BY <2>1, <2>2
<1> QED BY <1>8, <1>9, <1>10, <1>11, <1>12, <1>13 DEF SoundInv
\* A listen() that fails changes the listener of the server, and nothing else.
LEMMA FailsSound ==
    ASSUME SoundInv, TypeOK', NEW s \in Servers, NEW l \in Listeners, Calls(s), FailsToBegin(s, l)
    PROVE  SoundInv'
<1>1. /\ Others(s) /\ UNCHANGED <<running, backlog, wakes, deaf, loops>>
      /\ listener[l] = "unused" /\ listener' = [listener EXCEPT ![l] = "unbound"]
      /\ srv'[s].handle = l /\ srv'[s].listening = srv[s].listening
      /\ srv'[s].accepting = srv[s].accepting
      /\ srv'[s].token = srv[s].token /\ srv'[s].closeRequested = srv[s].closeRequested
  BY DEF Calls, FailsToBegin
<1>2. ~Woken(l) /\ \A t \in Servers : ~HeldBy(l, t)
  BY <1>1, NewIsFree DEF SoundInv
<1>3. listener'[l] = "unbound" /\ \A k \in Listeners \ {l} : listener'[k] = listener[k]
  BY <1>1 DEF SoundInv, TypeOK
<1>4. \A t \in Servers : /\ srv'[t].listening = srv[t].listening /\ srv'[t].token = srv[t].token
                         /\ srv'[t].accepting = srv[t].accepting
                         /\ srv'[t].closeRequested = srv[t].closeRequested
                         /\ t # s => srv'[t].handle = srv[t].handle
  BY <1>1 DEF Others
<1>5. \A x \in loops : Stale(x)' = Stale(x)
  BY <1>4, Known DEF SoundInv, Stale
<1>6. Owned'
  <2>1. \A t \in Servers : HeldBy(l, t)' => t = s
    BY <1>1, <1>2, <1>4 DEF HeldBy
  <2>2. \A k \in Listeners \ {l}, t \in Servers : HeldBy(k, t)' => HeldBy(k, t)
    BY <1>1, <1>4 DEF HeldBy
  <2> QED BY <1>3, <2>1, <2>2 DEF SoundInv, Owned
<1>7. Tokens'
  <2>1. \A x \in loops : listener[x.on] # "closed" => listener'[x.on] # "closed"
    BY <1>3, Known DEF SoundInv
  <2>2. running # NoLoop => Stale(running)' = Stale(running)
    BY <1>1, <1>4, Known DEF SoundInv, Stale
  <2> QED BY <1>1, <1>4, <1>5, <2>1, <2>2, Known DEF SoundInv, Tokens
<1>8. WakesAreStale'
  <2> SUFFICES ASSUME NEW k \in Listeners, Woken(k)'
               PROVE  /\ listener'[k] # "unused"
                      /\ \A x \in loops' : x.on = k => Stale(x)'
                      /\ \A t \in Servers : srv'[t].handle = k => ~srv'[t].listening
    BY DEF WakesAreStale
  <2>1. Woken(k)
    BY <1>1 DEF Woken
  <2>2. k # l
    BY <1>2, <2>1
  <2> QED BY <1>1, <1>3, <1>4, <1>5, <2>1, <2>2 DEF SoundInv, WakesAreStale
<1>9. Fields'
  <2> SUFFICES ASSUME NEW t \in Servers
               PROVE  /\ srv'[t].accepting = srv'[t].listening
                      /\ srv'[t].listening => /\ srv'[t].handle # None /\ ~srv'[t].closeRequested
                                              /\ listener'[srv'[t].handle] # "closed"
    BY DEF Fields
  <2>1. CASE t = s
    BY <1>1, <1>3, <2>1, NoneIsNoListener DEF SoundInv, Fields
  <2>2. CASE t # s
    BY <1>3, <1>4, <2>2, Known DEF SoundInv, Fields
  <2> QED BY <2>1, <2>2
<1>10. Endings' /\ HearsWhileListening'
  BY <1>1, <1>4 DEF SoundInv, Endings, HearsWhileListening
<1> QED BY <1>6, <1>7, <1>8, <1>9, <1>10 DEF SoundInv

\* Steps that leave servers, loops and listeners as they are for this invariant, and
\* wake no more than the wake connections on their way.
LEMMA FrameSound ==
    ASSUME SoundInv, TypeOK', UNCHANGED <<loops, running, listener, deaf>>,
           \A t \in Servers : SameLife(t),
           \A k \in Listeners : Woken(k)' => Woken(k)
    PROVE  SoundInv'
<1>1. \A t \in Servers : /\ srv'[t].listening = srv[t].listening /\ srv'[t].token = srv[t].token
                         /\ srv'[t].accepting = srv[t].accepting
                         /\ srv'[t].closeRequested = srv[t].closeRequested
                         /\ srv'[t].handle = srv[t].handle
  BY DEF SameLife
<1>2. \A x \in loops : Stale(x)' = Stale(x)
  BY <1>1, Known DEF SoundInv, Stale
<1>3. running # NoLoop => Stale(running)' = Stale(running)
  BY <1>1, Known DEF SoundInv, Stale
<1>4. \A k \in Listeners, t \in Servers : HeldBy(k, t)' = HeldBy(k, t)
  BY <1>1 DEF HeldBy
<1>5. Owned'
  BY <1>4 DEF SoundInv, Owned
<1>6. Tokens'
  BY <1>1, <1>2, <1>3, Known DEF SoundInv, Tokens
<1>7. WakesAreStale'
  BY <1>1, <1>2 DEF SoundInv, WakesAreStale
<1>8. Fields'
  BY <1>1 DEF SoundInv, Fields
<1>9. Endings' /\ HearsWhileListening'
  BY <1>1 DEF SoundInv, Endings, HearsWhileListening
<1> QED BY <1>5, <1>6, <1>7, <1>8, <1>9 DEF SoundInv

\* close() makes the loops of the server stale before it wakes one of them.
LEMMA ClosesSound ==
    ASSUME SoundInv, TypeOK', NEW s \in Servers, Closes(s)
    PROVE  SoundInv'
<1> DEFINE h == srv[s].handle
<1>1. /\ Others(s) /\ UNCHANGED <<loops, running, backlog, deaf>>
      /\ h' = (IF srv[s].active THEN h ELSE None)
      /\ ~srv'[s].listening /\ ~srv'[s].accepting /\ srv'[s].token = srv[s].token + 1
      /\ listener' = IF srv[s].active \/ h = None THEN listener
                     ELSE [listener EXCEPT ![h] = "closed"]
      /\ wakes' = IF srv[s].active /\ h # None /\ listener[h] = "open"
                  THEN wakes \cup {h} ELSE wakes
  BY DEF Closes
<1>2. srv[s].token \in Nat /\ h \in Listeners \cup {None}
      /\ srv'[s].listening = FALSE /\ srv'[s].accepting = FALSE
  <2>1. srv'[s] \in ServerFields
    BY DEF Closes
  <2>2. srv'[s].listening \in BOOLEAN /\ srv'[s].accepting \in BOOLEAN
    BY <2>1 DEF ServerFields
  <2> QED BY <1>1, <2>2, Known DEF SoundInv
<1>3. \A k \in Listeners : /\ k # h => listener'[k] = listener[k]
                           /\ listener'[k] = listener[k] \/ listener'[k] = "closed"
  BY <1>1, <1>2 DEF SoundInv, TypeOK
<1>4. \A t \in Servers \ {s} : srv'[t] = srv[t]
  BY <1>1 DEF Others
<1>5. \A x \in loops : /\ x.server = s => Stale(x)'
                       /\ x.server # s => Stale(x)' = Stale(x)
                       /\ x.token <= srv'[x.server].token
  <2> SUFFICES ASSUME NEW x \in loops
               PROVE  /\ x.server = s => Stale(x)'
                      /\ x.server # s => Stale(x)' = Stale(x)
                      /\ x.token <= srv'[x.server].token
    OBVIOUS
  <2>1. x.token <= srv[x.server].token /\ x.token \in Nat /\ x.server \in Servers
    BY Known DEF SoundInv, Tokens
  <2>2. CASE x.server = s
    <3>1. x.token # srv'[s].token /\ x.token <= srv'[s].token
      BY <1>1, <1>2, <2>1, <2>2
    <3> QED BY <2>2, <3>1 DEF Stale
  <2>3. CASE x.server # s
    BY <1>4, <2>1, <2>3 DEF Stale
  <2> QED BY <2>2, <2>3
<1>6. \A k \in Listeners, t \in Servers : HeldBy(k, t)' => HeldBy(k, t)
  BY <1>1, <1>4, NoneIsNoListener DEF HeldBy
<1>7. \A k \in Listeners, t \in Servers : HeldBy(k, t) /\ k = h => t = s
  <2> SUFFICES ASSUME NEW k \in Listeners, NEW t \in Servers, HeldBy(k, t), k = h PROVE t = s
    OBVIOUS
  <2>1. HeldBy(k, s)
    BY DEF HeldBy
  <2> QED BY <2>1 DEF SoundInv, Owned
<1>8. Owned'
  <2>1. \A k \in Listeners : listener[k] # "unused" => listener'[k] # "unused"
    BY <1>3
  <2> QED BY <1>6, <2>1 DEF SoundInv, Owned
<1>9. Tokens'
  <2>1. ASSUME NEW x \in loops, ~Stale(x)'
        PROVE  srv'[x.server].listening /\ listener'[x.on] # "closed"
    <3>1. x.server \in Servers \ {s} /\ ~Stale(x) /\ x.on \in Listeners
      BY <1>5, <2>1, Known DEF SoundInv
    <3>2. srv[x.server].listening /\ listener[x.on] # "closed"
      BY <3>1 DEF SoundInv, Tokens
    <3>3. x.on # h
      BY <1>7, <3>1 DEF HeldBy
    <3> QED BY <1>3, <1>4, <3>1, <3>2, <3>3
  <2>2. ASSUME running # NoLoop
        PROVE  /\ running.token <= srv'[running.server].token
               /\ ~Stale(running)' => srv'[running.server].listening
    <3>1. running.token <= srv[running.server].token /\ running.token \in Nat
          /\ running.server \in Servers /\ (~Stale(running) => srv[running.server].listening)
      BY <2>2, Known DEF SoundInv, Tokens
    <3>2. CASE running.server = s
      <4>1. running.token # srv'[s].token /\ running.token <= srv'[s].token
        BY <1>1, <1>2, <3>1, <3>2
      <4> QED BY <1>1, <3>2, <4>1 DEF Stale
    <3>3. CASE running.server # s
      <4>1. srv'[running.server] = srv[running.server]
        BY <1>4, <3>1, <3>3
      <4> QED BY <1>1, <3>1, <4>1 DEF Stale
    <3> QED BY <3>2, <3>3
  <2> QED BY <1>1, <1>5, <2>1, <2>2 DEF Tokens
<1>10. WakesAreStale'
  <2> SUFFICES ASSUME NEW k \in Listeners, Woken(k)'
               PROVE  /\ listener'[k] # "unused"
                      /\ \A x \in loops : x.on = k => Stale(x)'
                      /\ \A t \in Servers : srv'[t].handle = k => ~srv'[t].listening
    BY <1>1 DEF WakesAreStale
  <2>1. Woken(k) \/ (k = h /\ listener[k] = "open")
    BY <1>1 DEF Woken
  <2>2. CASE Woken(k)
    <3>1. /\ listener[k] # "unused"
          /\ \A x \in loops : x.on = k => Stale(x)
          /\ \A t \in Servers : srv[t].handle = k => ~srv[t].listening
      BY <2>2 DEF SoundInv, WakesAreStale
    <3>2. \A x \in loops : Stale(x) => Stale(x)'
      BY <1>5
    <3>3. \A t \in Servers : srv'[t].handle = k => ~srv'[t].listening
      BY <1>1, <1>4, <3>1
    <3> QED BY <1>3, <3>1, <3>2, <3>3
  <2>3. CASE k = h /\ listener[k] = "open"
    <3>1. \A x \in loops : x.on = k => x.server = s
      BY <1>7, <2>3, Known DEF SoundInv, HeldBy
    <3>2. \A t \in Servers : srv'[t].handle = k => t = s
      BY <1>4, <1>7, <2>3 DEF HeldBy
    <3> QED BY <1>1, <1>3, <1>5, <2>3, <3>1, <3>2
  <2> QED BY <2>1, <2>2, <2>3
<1>11. Fields'
  <2> SUFFICES ASSUME NEW t \in Servers \ {s}
               PROVE  /\ srv'[t].accepting = srv'[t].listening
                      /\ srv'[t].listening => /\ srv'[t].handle # None /\ ~srv'[t].closeRequested
                                              /\ listener'[srv'[t].handle] # "closed"
    BY <1>2 DEF Fields
  <2>1. srv'[t] = srv[t] /\ srv[t].handle \in Listeners \cup {None}
    BY <1>4, Known DEF SoundInv
  <2>2. srv[t].handle \in Listeners => srv[t].handle # h
    BY <1>7 DEF HeldBy
  <2> QED BY <1>3, <2>1, <2>2 DEF SoundInv, Fields
<1>12. Endings'
  BY <1>1 DEF SoundInv, Endings
<1>13. HearsWhileListening'
  BY <1>1, <1>4 DEF SoundInv, HearsWhileListening
<1> QED BY <1>8, <1>9, <1>10, <1>11, <1>12, <1>13 DEF SoundInv
\* A listener that gives out a connection has no more wake connections than before.
LEMMA GivesOutWakes ==
    ASSUME TypeOK, NEW l \in Listeners, GivesOut(l), UNCHANGED wakes,
           NEW k \in Listeners, Woken(k)'
    PROVE  Woken(k)
<1>1. CASE backlog'[k] = backlog[k]
  BY <1>1 DEF Woken
<1>2. CASE backlog'[k] # backlog[k]
  <2> DEFINE q == backlog[k]
  <2>1. q \in Seq(Clients \cup {Wake}) /\ q # <<>> /\ backlog'[k] = Tail(q)
    BY <1>2 DEF GivesOut, TypeOK
  <2>2. Len(Tail(q)) = Len(q) - 1 /\ \A n \in 1 .. Len(Tail(q)) : Tail(q)[n] = q[n + 1]
    BY <2>1
  <2>3. Len(q) \in Nat
    BY <2>1
  <2> HIDE DEF q
  <2>4. CASE k \in wakes
    BY <2>4 DEF Woken
  <2>5. ASSUME NEW n \in 1 .. Len(Tail(q)), Tail(q)[n] = Wake PROVE Woken(k)
    <3>1. n + 1 \in 1 .. Len(q) /\ q[n + 1] = Wake
      BY <2>2, <2>3, <2>5
    <3> QED BY <3>1 DEF Woken, q
  <2> QED BY <2>1, <2>4, <2>5 DEF Woken
<1> QED BY <1>1, <1>2

\* An accept loop that ends closes the listener of a server that was closed.
LEMMA EndsSound ==
    ASSUME SoundInv, TypeOK', NEW s \in Servers, Ends(s), loops' \subseteq loops,
           running' = NoLoop, \A k \in Listeners : Woken(k)' => Woken(k)
    PROVE  Owned' /\ Tokens' /\ WakesAreStale' /\ Fields' /\ Endings'
<1> DEFINE h == srv[s].handle
<1>1. /\ Others(s)
      /\ h' = (IF srv[s].closeRequested THEN None ELSE h)
      /\ srv'[s].listening = srv[s].listening /\ srv'[s].accepting = srv[s].accepting
      /\ srv'[s].token = srv[s].token /\ srv'[s].closeRequested = srv[s].closeRequested
      /\ listener' = IF srv[s].closeRequested /\ h # None
                     THEN [listener EXCEPT ![h] = "closed"] ELSE listener
  BY DEF Ends
<1>2. h \in Listeners \cup {None} /\ (srv[s].listening => ~srv[s].closeRequested)
  BY Known DEF SoundInv, Fields
<1>3. \A k \in Listeners : /\ k # h => listener'[k] = listener[k]
                           /\ ~srv[s].closeRequested => listener'[k] = listener[k]
                           /\ listener'[k] = listener[k] \/ listener'[k] = "closed"
  BY <1>1, <1>2 DEF SoundInv, TypeOK
<1>4. \A t \in Servers : /\ srv'[t].listening = srv[t].listening /\ srv'[t].token = srv[t].token
                         /\ srv'[t].accepting = srv[t].accepting
                         /\ srv'[t].closeRequested = srv[t].closeRequested
                         /\ t # s => srv'[t].handle = srv[t].handle
  BY <1>1 DEF Others
<1>5. \A x \in loops : Stale(x)' = Stale(x)
  BY <1>4, Known DEF SoundInv, Stale
<1>6. \A k \in Listeners, t \in Servers : HeldBy(k, t)' => HeldBy(k, t)
  BY <1>1, <1>4, NoneIsNoListener DEF HeldBy
<1>7. \A k \in Listeners, t \in Servers : HeldBy(k, t) /\ k = h => t = s
  <2> SUFFICES ASSUME NEW k \in Listeners, NEW t \in Servers, HeldBy(k, t), k = h PROVE t = s
    OBVIOUS
  <2>1. HeldBy(k, s)
    BY DEF HeldBy
  <2> QED BY <2>1 DEF SoundInv, Owned
<1>8. Owned'
  <2>1. \A k \in Listeners : listener[k] # "unused" => listener'[k] # "unused"
    BY <1>3
  <2> QED BY <1>6, <2>1 DEF SoundInv, Owned
<1>9. Tokens'
  <2>1. ASSUME NEW x \in loops', ~Stale(x)'
        PROVE  srv'[x.server].listening /\ listener'[x.on] # "closed"
    <3>1. x \in loops /\ x.server \in Servers /\ ~Stale(x) /\ x.on \in Listeners
      BY <1>5, <2>1, Known DEF SoundInv
    <3>2. srv[x.server].listening /\ listener[x.on] # "closed"
      BY <3>1 DEF SoundInv, Tokens
    <3>3. x.on = h => x.server = s
      BY <1>7, <3>1 DEF HeldBy
    <3>4. listener'[x.on] = listener[x.on]
      BY <1>2, <1>3, <3>1, <3>2, <3>3
    <3> QED BY <1>4, <3>1, <3>2, <3>4
  <2>2. \A x \in loops' : x.token <= srv'[x.server].token
    BY <1>4, Known DEF SoundInv, Tokens
  <2> QED BY <2>1, <2>2 DEF Tokens
<1>10. WakesAreStale'
  <2> SUFFICES ASSUME NEW k \in Listeners, Woken(k)'
               PROVE  /\ listener'[k] # "unused"
                      /\ \A x \in loops' : x.on = k => Stale(x)'
                      /\ \A t \in Servers : srv'[t].handle = k => ~srv'[t].listening
    BY DEF WakesAreStale
  <2>1. /\ listener[k] # "unused"
        /\ \A x \in loops : x.on = k => Stale(x)
        /\ \A t \in Servers : srv[t].handle = k => ~srv[t].listening
    BY DEF SoundInv, WakesAreStale
  <2>2. \A t \in Servers : srv'[t].handle = k => srv[t].handle = k
    BY <1>1, <1>4, NoneIsNoListener
  <2> QED BY <1>3, <1>4, <1>5, <2>1, <2>2
<1>11. Fields'
  <2> SUFFICES ASSUME NEW t \in Servers
               PROVE  /\ srv'[t].accepting = srv'[t].listening
                      /\ srv'[t].listening => /\ srv'[t].handle # None /\ ~srv'[t].closeRequested
                                              /\ listener'[srv'[t].handle] # "closed"
    BY DEF Fields
  <2>1. /\ srv[t].handle \in Listeners \cup {None} /\ srv[t].accepting = srv[t].listening
        /\ srv[t].listening => /\ srv[t].handle # None /\ ~srv[t].closeRequested
                               /\ listener[srv[t].handle] # "closed"
    BY Known DEF SoundInv, Fields
  <2>2. CASE t = s
    BY <1>1, <1>3, <2>1, <2>2
  <2>3. CASE t # s
    <3>1. srv[t].handle \in Listeners => srv[t].handle # h
      BY <1>7, <2>3 DEF HeldBy
    <3> QED BY <1>3, <1>4, <2>1, <2>3, <3>1
  <2> QED BY <2>2, <2>3
<1>12. Endings'
  BY DEF Endings
<1> QED BY <1>8, <1>9, <1>10, <1>11, <1>12

LEMMA LoopStepSound ==
    ASSUME SoundInv, TypeOK', NEW x \in loops, EndsLoop(x) \/ Announces(x)
    PROVE  SoundInv'
<1> DEFINE s == x.server
<1>1. x \in Loops /\ s \in Servers /\ x.token \in Nat /\ x.on \in Listeners
  BY Known DEF SoundInv
<1>2. \A k \in Listeners : Woken(k)' => Woken(k)
  BY <1>1, GivesOutWakes DEF EndsLoop, Announces, loopUnchanged, SoundInv
<1>3. CASE EndsLoop(x)
  <2>1. Ends(s) /\ loops' = loops \ {x} /\ running' = NoLoop /\ running = NoLoop /\ Stale(x)
        /\ UNCHANGED deaf
    BY <1>3 DEF EndsLoop
  <2>2. Owned' /\ Tokens' /\ WakesAreStale' /\ Fields' /\ Endings'
    BY <1>1, <1>2, <2>1, EndsSound
  <2>3. \A t \in Servers : srv'[t].listening = srv[t].listening /\ srv'[t].token = srv[t].token
    BY <2>1 DEF Ends, Others
  <2>4. HearsWhileListening'
    <3> SUFFICES ASSUME NEW t \in Servers, srv[t].listening, <<t, srv[t].token>> \notin deaf
                 PROVE  \E y \in loops' : y.server = t /\ y.token = srv[t].token
      BY <2>1, <2>3 DEF HearsWhileListening
    <3>1. PICK y \in loops : y.server = t /\ y.token = srv[t].token
      BY <2>1 DEF SoundInv, HearsWhileListening
    <3>2. y # x
      BY <2>1, <3>1 DEF Stale
    <3> QED BY <2>1, <3>1, <3>2
  <2> QED BY <2>2, <2>4 DEF SoundInv
<1>4. CASE Announces(x)
  <2>1. /\ running = NoLoop /\ ~Stale(x) /\ loops' = loops \ {x}
        /\ Others(s) /\ SameLife(s) /\ UNCHANGED listener
        /\ running' \in Ended /\ running'.server = s /\ running'.token = x.token
        /\ IF running'.ending /\ listener[x.on] # "closed"
           THEN deaf' = deaf \cup {<<s, x.token>>} ELSE UNCHANGED deaf
    BY <1>4 DEF Announces
  <2>2. \A t \in Servers : /\ srv'[t].listening = srv[t].listening /\ srv'[t].token = srv[t].token
                           /\ srv'[t].accepting = srv[t].accepting
                           /\ srv'[t].closeRequested = srv[t].closeRequested
                           /\ srv'[t].handle = srv[t].handle
    BY <2>1 DEF Others, SameLife
  <2>3. \A y \in loops : Stale(y)' = Stale(y)
    BY <2>2, Known DEF SoundInv, Stale
  <2>4. \A k \in Listeners, t \in Servers : HeldBy(k, t)' => HeldBy(k, t)
    BY <2>1, <2>2 DEF HeldBy
  <2>5. srv[s].listening /\ listener[x.on] # "closed" /\ x.token <= srv[s].token
    BY <2>1 DEF SoundInv, Tokens
  <2>6. Owned'
    BY <2>1, <2>4 DEF SoundInv, Owned
  <2>7. Tokens'
    BY <1>1, <2>1, <2>2, <2>3, <2>5, Known DEF SoundInv, Tokens
  <2>8. WakesAreStale'
    BY <1>2, <2>1, <2>2, <2>3 DEF SoundInv, WakesAreStale
  <2>9. Fields'
    BY <2>1, <2>2 DEF SoundInv, Fields
  <2>10. Endings'
    BY <2>1, <2>5 DEF Endings
  <2>11. HearsWhileListening'
    <3> SUFFICES ASSUME NEW t \in Servers, srv[t].listening, <<t, srv[t].token>> \notin deaf'
                 PROVE  \/ \E y \in loops' : y.server = t /\ y.token = srv[t].token
                        \/ running' # NoLoop /\ running'.server = t /\ running'.token = srv[t].token
      BY <2>2 DEF HearsWhileListening
    <3>1. <<t, srv[t].token>> \notin deaf
      BY <2>1
    <3>2. PICK y \in loops : y.server = t /\ y.token = srv[t].token
      BY <2>1, <3>1 DEF SoundInv, HearsWhileListening
    <3>3. running' # NoLoop
      BY <2>1, NotNoLoop
    <3> QED BY <2>1, <3>2, <3>3
  <2> QED BY <2>6, <2>7, <2>8, <2>9, <2>10, <2>11 DEF SoundInv
<1> QED BY <1>3, <1>4

LEMMA ListenersSound ==
    ASSUME SoundInv, TypeOK', GoesOn \/ Stops \/ TakesError
    PROVE  SoundInv'
<1> DEFINE s == running.server
           h == srv[s].handle
<1>1. running # NoLoop /\ running \in Ended /\ s \in Servers /\ running.token \in Nat
      /\ UNCHANGED <<backlog, wakes>>
  BY Known DEF SoundInv, GoesOn, Stops, TakesError, loopUnchanged
<1>2. \A k \in Listeners : Woken(k)' => Woken(k)
  BY <1>1 DEF Woken
<1>3. running.token <= srv[s].token /\ (~Stale(running) => srv[s].listening)
  BY <1>1 DEF SoundInv, Tokens
<1>4. CASE GoesOn
  <2> DEFINE new == [server |-> s, token |-> running.token, on |-> h]
  <2>1. /\ running' = NoLoop /\ h # None /\ ~Stale(running)
        /\ loops' = loops \cup {new} /\ UNCHANGED <<srv, listener, deaf>>
    BY <1>4 DEF GoesOn
  <2>2. new.server = s /\ new.token = running.token /\ new.on = h
    OBVIOUS
  <2>3. h \in Listeners /\ srv[s].listening /\ listener[h] # "closed" /\ running.token = srv[s].token
    BY <1>1, <1>3, <2>1, Known DEF SoundInv, Fields, Stale
  <2> HIDE DEF new
  <2>4. \A y \in loops' : y = new \/ y \in loops
    BY <2>1
  <2>5. \A y \in loops : Stale(y)' = Stale(y)
    BY <2>1 DEF Stale
  <2>6. \A k \in Listeners, t \in Servers : HeldBy(k, t)' => HeldBy(k, t)
    BY <2>1, <2>2 DEF HeldBy
  <2>7. Owned'
    BY <2>1, <2>6 DEF SoundInv, Owned
  <2>8. Tokens'
    BY <1>3, <2>1, <2>2, <2>3, <2>4, <2>5 DEF SoundInv, Tokens
  <2>9. WakesAreStale'
    <3> SUFFICES ASSUME NEW k \in Listeners, Woken(k)'
                 PROVE  /\ listener[k] # "unused"
                        /\ \A y \in loops' : y.on = k => Stale(y)'
                        /\ \A t \in Servers : srv[t].handle = k => ~srv[t].listening
      BY <2>1 DEF WakesAreStale
    <3>1. /\ listener[k] # "unused"
          /\ \A y \in loops : y.on = k => Stale(y)
          /\ \A t \in Servers : srv[t].handle = k => ~srv[t].listening
      BY <1>2 DEF SoundInv, WakesAreStale
    <3>2. k # h
      BY <1>1, <2>3, <3>1
    <3> QED BY <2>2, <2>4, <2>5, <3>1, <3>2
  <2>10. Fields' /\ Endings'
    BY <2>1 DEF SoundInv, Fields, Endings
  <2>11. HearsWhileListening'
    <3> SUFFICES ASSUME NEW t \in Servers, srv[t].listening, <<t, srv[t].token>> \notin deaf
                 PROVE  \E y \in loops' : y.server = t /\ y.token = srv[t].token
      BY <2>1 DEF HearsWhileListening
    <3>1. \/ \E y \in loops : y.server = t /\ y.token = srv[t].token
          \/ s = t /\ running.token = srv[t].token
      BY DEF SoundInv, HearsWhileListening
    <3> QED BY <2>1, <2>2, <3>1
  <2> QED BY <2>7, <2>8, <2>9, <2>10, <2>11 DEF SoundInv
<1>5. CASE Stops
  <2>1. /\ running' = NoLoop /\ Ends(s) /\ UNCHANGED <<loops, deaf>>
        /\ running.ending \/ ~srv[s].accepting \/ h = None \/ Stale(running)
    BY <1>5 DEF Stops
  <2>2. Owned' /\ Tokens' /\ WakesAreStale' /\ Fields' /\ Endings'
    BY <1>1, <1>2, <2>1, EndsSound
  <2>3. \A t \in Servers : srv'[t].listening = srv[t].listening /\ srv'[t].token = srv[t].token
    BY <2>1 DEF Ends, Others
  <2>4. HearsWhileListening'
    <3> SUFFICES ASSUME NEW t \in Servers, srv[t].listening, <<t, srv[t].token>> \notin deaf
                 PROVE  \E y \in loops : y.server = t /\ y.token = srv[t].token
      BY <2>1, <2>3 DEF HearsWhileListening
    <3>1. CASE s = t /\ running.token = srv[t].token
      <4>1. ~Stale(running) /\ srv[s].accepting /\ h # None
        BY <1>1, <3>1, Known DEF Stale, SoundInv, Fields
      <4>2. <<s, running.token>> \in deaf
        BY <1>1, <2>1, <4>1 DEF SoundInv, Endings
      <4> QED BY <3>1, <4>2
    <3>2. CASE ~(s = t /\ running.token = srv[t].token)
      BY <3>2 DEF SoundInv, HearsWhileListening
    <3> QED BY <3>1, <3>2
  <2> QED BY <2>2, <2>4 DEF SoundInv
<1>6. CASE TakesError
  <2>1. /\ running' \in Ended /\ running'.server = s /\ running'.token = running.token
        /\ deaf' = deaf \cup {<<s, running.token>>} /\ UNCHANGED <<srv, listener, loops>>
    BY <1>6 DEF TakesError
  <2>2. running' # NoLoop
    BY <2>1, NotNoLoop
  <2>3. Owned' /\ Fields'
    BY <2>1 DEF SoundInv, Owned, HeldBy, Fields
  <2>4. Tokens'
    BY <1>3, <2>1 DEF SoundInv, Tokens, Stale
  <2>5. WakesAreStale'
    BY <1>2, <2>1 DEF SoundInv, WakesAreStale, Stale
  <2>6. Endings'
    BY <2>1 DEF Endings
  <2>7. HearsWhileListening'
    BY <2>1, <2>2 DEF SoundInv, HearsWhileListening
  <2> QED BY <2>3, <2>4, <2>5, <2>6, <2>7 DEF SoundInv
<1> QED BY <1>4, <1>5, <1>6

-----------------------------------------------------------------------------
(* Why connections are counted exactly.  A client waits in one place of one  *)
(* backlog, so no accept() announces it twice; a wake connection ends a      *)
(* stale loop, so none is ever announced.                                    *)

BacklogsAreSound ==
    \A l \in Listeners : \A n \in 1 .. Len(backlog[l]) : backlog[l][n] \in Clients =>
        /\ client[backlog[l][n]] = "waiting"
        /\ \A k \in Listeners : \A m \in 1 .. Len(backlog[k]) :
              backlog[k][m] = backlog[l][n] => k = l /\ m = n

Of(s) == {c \in Clients : client[c] = s}

Counted ==
    \A s \in Servers :
        IsFiniteSet(Of(s)) /\ srv[s].connections = Cardinality(Of(s))

NetInv == SoundInv /\ BacklogsAreSound /\ Counted

LEMMA InitCounted == Init => BacklogsAreSound /\ Counted
<1> SUFFICES ASSUME Init PROVE BacklogsAreSound /\ Counted
  OBVIOUS
<1>1. \A l \in Listeners : backlog[l] = <<>>
  BY DEF Init
<1>2. BacklogsAreSound
  BY <1>1 DEF BacklogsAreSound
<1>3. \A s \in Servers : s # "idle" /\ Of(s) = {} /\ srv[s].connections = 0
  BY NetServerAssumption DEF Init, Of, Unserved
<1>4. Counted
  BY <1>3, FS_EmptySet DEF Counted
<1> QED BY <1>2, <1>4

LEMMA CountedFrame ==
    ASSUME Counted, \A s \in Servers : srv'[s].connections = srv[s].connections,
           \A c \in Clients, s \in Servers : client'[c] = s <=> client[c] = s
    PROVE  Counted'
<1>1. \A s \in Servers : Of(s)' = Of(s)
  BY DEF Of
<1> QED BY <1>1 DEF Counted

LEMMA AppendKeepsSound ==
    ASSUME TypeOK, BacklogsAreSound, NEW l \in Listeners, NEW e \in Clients \cup {Wake},
           backlog' = [backlog EXCEPT ![l] = Append(@, e)],
           IF e \in Clients THEN client[e] = "idle" /\ client' = [client EXCEPT ![e] = "waiting"]
                            ELSE UNCHANGED client
    PROVE  BacklogsAreSound'
<1> DEFINE q == backlog[l]
<1>1. q \in Seq(Clients \cup {Wake}) /\ Len(q) \in Nat
  BY DEF TypeOK
<1>2. /\ Len(Append(q, e)) = Len(q) + 1 /\ Append(q, e)[Len(q) + 1] = e
      /\ \A n \in 1 .. Len(q) : Append(q, e)[n] = q[n]
  BY <1>1
<1>3. backlog'[l] = Append(q, e) /\ \A k \in Listeners \ {l} : backlog'[k] = backlog[k]
  BY DEF TypeOK
<1> HIDE DEF q
<1>4. ASSUME NEW k \in Listeners, NEW m \in 1 .. Len(backlog'[k])
      PROVE  \/ m \in 1 .. Len(backlog[k]) /\ backlog'[k][m] = backlog[k][m]
             \/ k = l /\ m = Len(q) + 1 /\ backlog'[k][m] = e
  <2>1. CASE k = l
    <3>1. m \in 1 .. Len(q) \/ m = Len(q) + 1
      BY <1>1, <1>2, <1>3, <2>1
    <3> QED BY <1>2, <1>3, <2>1, <3>1 DEF q
  <2>2. CASE k # l
    BY <1>3, <2>2
  <2> QED BY <2>1, <2>2
<1>5. ASSUME NEW k \in Listeners, NEW m \in 1 .. Len(backlog[k]), backlog[k][m] \in Clients
      PROVE  backlog[k][m] # e /\ client'[backlog[k][m]] = "waiting"
  <2>1. client[backlog[k][m]] = "waiting"
    BY <1>5 DEF BacklogsAreSound
  <2> QED BY <1>5, <2>1 DEF TypeOK
<1>6. e \in Clients => client'[e] = "waiting"
  BY DEF TypeOK
<1> SUFFICES ASSUME NEW k \in Listeners, NEW m \in 1 .. Len(backlog'[k]), backlog'[k][m] \in Clients
             PROVE  /\ client'[backlog'[k][m]] = "waiting"
                    /\ \A j \in Listeners : \A n \in 1 .. Len(backlog'[j]) :
                          backlog'[j][n] = backlog'[k][m] => j = k /\ n = m
  BY DEF BacklogsAreSound
<1>7. client'[backlog'[k][m]] = "waiting"
  BY <1>4, <1>5, <1>6
<1>8. ASSUME NEW j \in Listeners, NEW n \in 1 .. Len(backlog'[j]), backlog'[j][n] = backlog'[k][m]
      PROVE  j = k /\ n = m
  <2>1. CASE m \in 1 .. Len(backlog[k]) /\ backlog'[k][m] = backlog[k][m]
    <3>1. backlog'[j][n] # e
      BY <1>5, <1>8, <2>1
    <3>2. n \in 1 .. Len(backlog[j]) /\ backlog'[j][n] = backlog[j][n]
      BY <1>4, <3>1
    <3> QED BY <1>8, <2>1, <3>2 DEF BacklogsAreSound
  <2>2. CASE k = l /\ m = Len(q) + 1 /\ backlog'[k][m] = e
    <3>1. ~(n \in 1 .. Len(backlog[j]) /\ backlog'[j][n] = backlog[j][n])
      BY <1>5, <1>8, <2>2
    <3> QED BY <1>4, <2>2, <3>1
  <2> QED BY <1>4, <2>1, <2>2
<1> QED BY <1>7, <1>8

LEMMA GivesOutKeepsSound ==
    ASSUME TypeOK, BacklogsAreSound, NEW l \in Listeners, backlog[l] # <<>>,
           backlog' = [backlog EXCEPT ![l] = Tail(@)],
           \A c \in Clients : client'[c] = client[c] \/ c = Head(backlog[l])
    PROVE  BacklogsAreSound'
<1> DEFINE q == backlog[l]
<1>1. q \in Seq(Clients \cup {Wake}) /\ q # <<>> /\ Len(q) \in Nat
  BY DEF TypeOK
<1>2. /\ Len(Tail(q)) = Len(q) - 1 /\ Head(q) = q[1] /\ 1 \in 1 .. Len(q)
      /\ \A n \in 1 .. Len(Tail(q)) : Tail(q)[n] = q[n + 1]
  BY <1>1
<1>3. backlog'[l] = Tail(q) /\ \A k \in Listeners \ {l} : backlog'[k] = backlog[k]
  BY DEF TypeOK
<1> DEFINE Old(k, m) == IF k = l THEN m + 1 ELSE m
<1> HIDE DEF q
<1>4. ASSUME NEW k \in Listeners, NEW m \in 1 .. Len(backlog'[k])
      PROVE  /\ Old(k, m) \in 1 .. Len(backlog[k]) /\ backlog'[k][m] = backlog[k][Old(k, m)]
             /\ k = l => Old(k, m) # 1
  <2>1. CASE k = l
    <3>1. m \in Nat /\ m + 1 \in 1 .. Len(q) /\ m + 1 # 1
      BY <1>1, <1>2, <1>3, <2>1
    <3>2. backlog'[k][m] = q[m + 1]
      BY <1>2, <1>3, <2>1
    <3> QED BY <2>1, <3>1, <3>2 DEF q
  <2>2. CASE k # l
    BY <1>3, <2>2
  <2> QED BY <2>1, <2>2
<1>5. ASSUME NEW k \in Listeners, NEW m \in 1 .. Len(backlog'[k]), NEW j \in Listeners,
             NEW n \in 1 .. Len(backlog'[j]), k = j, Old(k, m) = Old(j, n)
      PROVE  m = n
  <2>1. m \in Int /\ n \in Int
    OBVIOUS
  <2> QED BY <1>5, <2>1
<1> HIDE DEF Old
<1> SUFFICES ASSUME NEW k \in Listeners, NEW m \in 1 .. Len(backlog'[k]), backlog'[k][m] \in Clients
             PROVE  /\ client'[backlog'[k][m]] = "waiting"
                    /\ \A j \in Listeners : \A n \in 1 .. Len(backlog'[j]) :
                          backlog'[j][n] = backlog'[k][m] => j = k /\ n = m
  BY DEF BacklogsAreSound
<1> DEFINE o == Old(k, m)
           c == backlog[k][o]
<1>6. o \in 1 .. Len(backlog[k]) /\ backlog'[k][m] = c /\ c \in Clients /\ (k = l => o # 1)
  BY <1>4
<1> HIDE DEF o
<1>7. /\ client[c] = "waiting"
      /\ \A j \in Listeners : \A n \in 1 .. Len(backlog[j]) : backlog[j][n] = c => j = k /\ n = o
  BY <1>6 DEF BacklogsAreSound
<1> HIDE DEF c
<1>8. c # Head(backlog[l])
  BY <1>2, <1>6, <1>7 DEF q
<1>9. client'[c] = "waiting"
  BY <1>6, <1>7, <1>8
<1>10. ASSUME NEW j \in Listeners, NEW n \in 1 .. Len(backlog'[j]), backlog'[j][n] = c
       PROVE  j = k /\ n = m
  <2>1. Old(j, n) \in 1 .. Len(backlog[j]) /\ backlog[j][Old(j, n)] = c
    BY <1>4, <1>10
  <2>2. j = k /\ Old(j, n) = o
    BY <1>7, <2>1
  <2> QED BY <1>5, <2>2 DEF o
<1> QED BY <1>6, <1>9, <1>10

LEMMA SameConnections ==
    ASSUME BacklogsAreSound, UNCHANGED <<client, backlog>>
    PROVE  BacklogsAreSound'
BY DEF BacklogsAreSound
\* accept() announces a client that waited, once, and never a wake connection.
LEMMA LoopStepCounted ==
    ASSUME NetInv, NEW x \in loops, LoopStep(x), EndsLoop(x) \/ Announces(x)
    PROVE  BacklogsAreSound' /\ Counted'
<1> DEFINE s == x.server
           q == backlog[x.on]
           c == Head(q)
<1>1. x \in Loops /\ s \in Servers /\ x.on \in Listeners
  BY Known DEF NetInv, SoundInv
<1>2. \A t \in Servers \ {s} : srv'[t] = srv[t]
  BY DEF EndsLoop, Announces, Ends, Others
<1>3. Stale(x) => srv'[s].connections = srv[s].connections
  BY DEF EndsLoop, Announces, Ends
<1>4. CASE AcceptFails(x)
  <2>1. UNCHANGED <<client, backlog>> /\ (~Stale(x) => UNCHANGED srv)
    BY <1>4 DEF AcceptFails
  <2>2. \A t \in Servers : srv'[t].connections = srv[t].connections
    BY <1>2, <1>3, <2>1
  <2>3. Counted'
    BY <2>1, <2>2, CountedFrame DEF NetInv
  <2> QED BY <2>1, <2>3, SameConnections DEF NetInv
<1>5. CASE Accepts(x)
  <2>1. q # <<>> /\ backlog' = [backlog EXCEPT ![x.on] = Tail(@)]
    BY <1>5 DEF Accepts
  <2>2. c \in Clients \cup {Wake} /\ c = q[1] /\ 1 \in 1 .. Len(q)
    BY <1>1, <2>1 DEF NetInv, SoundInv, TypeOK
  <2>3. c \in Clients => client[c] = "waiting"
    BY <1>1, <2>2 DEF NetInv, BacklogsAreSound
  <2>4. c = Wake => Stale(x)
    <3>1. c = Wake => Woken(x.on)
      BY <2>2 DEF Woken
    <3> QED BY <1>1, <3>1 DEF NetInv, SoundInv, WakesAreStale
  <2> DEFINE full == MaxConnections # 0 /\ srv[s].connections >= MaxConnections
             Becomes(f) == client' = IF c = Wake THEN client ELSE [client EXCEPT ![c] = f]
  <2>5. \/ Becomes("dropped") /\ (Stale(x) \/ UNCHANGED srv)
        \/ ~Stale(x) /\ Becomes(s) /\ srv' = [srv EXCEPT ![s].connections = @ + 1]
    BY <1>5 DEF Accepts
  <2> HIDE DEF q, c
  <2>6. \E f : Becomes(f)
    BY <2>5
  <2>7. BacklogsAreSound'
    <3>1. \A d \in Clients : client'[d] = client[d] \/ d = c
      BY <2>6 DEF NetInv, SoundInv, TypeOK
    <3> QED BY <1>1, <2>1, <3>1, GivesOutKeepsSound DEF NetInv, SoundInv, q, c
  <2>8. "waiting" \notin Servers /\ "dropped" \notin Servers
    BY NetServerAssumption DEF Unserved
  <2>9. CASE Becomes("dropped") /\ (Stale(x) \/ UNCHANGED srv)
    <3>1. \A t \in Servers : srv'[t].connections = srv[t].connections
      BY <1>2, <1>3, <2>9
    <3>2. \A d \in Clients, t \in Servers : client'[d] = t <=> client[d] = t
      BY <2>2, <2>3, <2>8, <2>9 DEF NetInv, SoundInv, TypeOK
    <3> QED BY <2>7, <3>1, <3>2, CountedFrame DEF NetInv
  <2>10. CASE ~Stale(x) /\ Becomes(s) /\ srv' = [srv EXCEPT ![s].connections = @ + 1]
    <3>1. c \in Clients /\ client' = [client EXCEPT ![c] = s] /\ client[c] # s
      BY <1>1, <2>2, <2>3, <2>4, <2>8, <2>10
    <3>2. srv'[s].connections = srv[s].connections + 1
      <4>1. srv[s] \in ServerFields
        BY <1>1 DEF NetInv, SoundInv, TypeOK
      <4> QED BY <1>1, <2>10, <4>1 DEF NetInv, SoundInv, TypeOK, ServerFields
    <3>3. Of(s)' = Of(s) \cup {c} /\ c \notin Of(s)
      BY <3>1 DEF Of, NetInv, SoundInv, TypeOK
    <3>4. \A t \in Servers \ {s} : Of(t)' = Of(t)
      BY <2>3, <2>8, <3>1 DEF Of, NetInv, SoundInv, TypeOK
    <3>5. IsFiniteSet(Of(s)') /\ srv'[s].connections = Cardinality(Of(s)')
      <4>1. IsFiniteSet(Of(s)) /\ srv[s].connections = Cardinality(Of(s))
        BY <1>1 DEF NetInv, Counted
      <4>2. IsFiniteSet(Of(s) \cup {c}) /\ Cardinality(Of(s) \cup {c}) = Cardinality(Of(s)) + 1
        BY <3>3, <4>1, FS_AddElement
      <4> QED BY <3>2, <3>3, <4>1, <4>2
    <3>6. Counted'
      BY <1>2, <3>4, <3>5 DEF NetInv, Counted
    <3> QED BY <2>7, <3>6
  <2> QED BY <2>5, <2>9, <2>10
<1> QED BY <1>4, <1>5 DEF LoopStep

LEMMA SocketClosesCounted ==
    ASSUME NetInv, NEW c \in Clients, SocketCloses(c)
    PROVE  srv[client[c]].connections > 0
<1>1. client[c] \in Servers /\ c \in Of(client[c])
  BY DEF SocketCloses, Of
<1>2. IsFiniteSet(Of(client[c])) /\ srv[client[c]].connections = Cardinality(Of(client[c]))
  BY <1>1 DEF NetInv, Counted
<1>3. Cardinality(Of(client[c])) # 0 /\ Cardinality(Of(client[c])) \in Nat
  BY <1>1, <1>2, FS_EmptySet, FS_CardinalityType
<1> QED BY <1>2, <1>3

LEMMA NetInvStep == NetInv /\ [Next]_vars => NetInv'
<1> SUFFICES ASSUME NetInv, [Next]_vars PROVE NetInv'
  OBVIOUS
<1>1. SoundInv /\ TypeOK /\ BacklogsAreSound /\ Counted
  BY DEF NetInv, SoundInv
<1>2. ASSUME NEW s \in Servers, UserCalls(s) \/ LookupReturns(s) PROVE NetInv'
  <2>1. TypeOK'
    BY <1>1, <1>2, CallsType
  <2>2. CASE Close(s)
    <3>1. srv[s].connections \in Nat /\ srv[s] = [srv[s] EXCEPT !.connections = srv[s].connections]
      BY <1>1 DEF TypeOK, ServerFields
    <3>2. Closes(s) /\ srv'[s].connections = srv[s].connections
      BY <1>1, <2>2, <3>1, DoCloseCloses DEF Close
    <3>3. SoundInv'
      BY <1>1, <2>1, <3>2, ClosesSound
    <3>4. UNCHANGED <<client, backlog>>
      BY <2>2 DEF Close
    <3>5. Counted'
      BY <1>1, <3>2, <3>4, CountedFrame DEF Closes, Others
    <3> QED BY <1>1, <3>3, <3>4, <3>5, SameConnections DEF NetInv
  <2>3. CASE ~Close(s)
    <3>1. Calls(s)
      BY <1>1, <1>2, <2>3, ProgramCalls DEF UserCalls
    <3>2. SoundInv'
      <4>1. ASSUME SameLife(s), UNCHANGED <<listener, loops, mixed>> PROVE SoundInv'
        <5>1. UNCHANGED <<running, backlog, wakes, deaf>> /\ \A t \in Servers : SameLife(t)
          BY <3>1, <4>1 DEF Calls, Others, SameLife
        <5>2. \A k \in Listeners : Woken(k)' => Woken(k)
          BY <5>1 DEF Woken
        <5> QED BY <1>1, <2>1, <4>1, <5>1, <5>2, FrameSound
      <4>2. ASSUME NEW l \in Listeners, Begins(s, l) \/ FailsToBegin(s, l) PROVE SoundInv'
        BY <1>1, <2>1, <3>1, <4>2, BeginsSound, FailsSound
      <4> QED BY <3>1, <4>1, <4>2 DEF Calls
    <3>3. Counted' /\ BacklogsAreSound'
      BY <1>1, <3>1, CountedFrame, SameConnections DEF Calls, Others
    <3> QED BY <3>2, <3>3 DEF NetInv
  <2> QED BY <2>2, <2>3
<1>3. ASSUME UNCHANGED <<srv, loops, running, listener, deaf>>, TypeOK',
             \A k \in Listeners : Woken(k)' => Woken(k),
             BacklogsAreSound',
             \A c \in Clients, t \in Servers : client'[c] = t <=> client[c] = t
      PROVE  NetInv'
  <2>1. SoundInv'
    BY <1>1, <1>3, FrameSound DEF SameLife
  <2> QED BY <1>1, <1>3, <2>1, CountedFrame DEF NetInv
<1>4. ASSUME NEW s \in Servers, EmitClose(s) PROVE NetInv'
  <2>1. UNCHANGED <<srv, loops, running, listener, deaf, client, backlog, wakes>>
    BY <1>4 DEF EmitClose
  <2>2. TypeOK'
    BY <1>1, <1>4, ConnectionsType
  <2> QED BY <1>1, <1>3, <2>1, <2>2, SameConnections DEF Woken
<1>5. ASSUME NEW c \in Clients, NEW l \in Listeners, ClientConnects(c, l) PROVE NetInv'
  <2>1. /\ UNCHANGED <<srv, loops, running, listener, deaf, wakes>>
        /\ client[c] = "idle" /\ client' = [client EXCEPT ![c] = "waiting"]
        /\ backlog' = [backlog EXCEPT ![l] = Append(@, c)]
    BY <1>5 DEF ClientConnects, connectUnchanged
  <2>2. TypeOK'
    BY <1>1, <1>5, ConnectionsType
  <2>3. BacklogsAreSound'
    BY <1>1, <2>1, AppendKeepsSound
  <2>4. \A d \in Clients, t \in Servers : client'[d] = t <=> client[d] = t
    BY <1>1, <2>1, NetServerAssumption DEF TypeOK, Unserved
  <2>5. ASSUME NEW k \in Listeners, Woken(k)' PROVE Woken(k)
    <3>1. CASE k # l
      <4>1. backlog'[k] = backlog[k]
        BY <1>1, <2>1, <3>1 DEF TypeOK
      <4> QED BY <2>1, <2>5, <4>1 DEF Woken
    <3>2. CASE k = l
      <4> DEFINE q == backlog[l]
      <4>1. q \in Seq(Clients \cup {Wake}) /\ Len(q) \in Nat /\ backlog'[l] = Append(q, c)
        BY <1>1, <2>1 DEF TypeOK
      <4>2. /\ Len(Append(q, c)) = Len(q) + 1 /\ Append(q, c)[Len(q) + 1] = c
            /\ \A n \in 1 .. Len(q) : Append(q, c)[n] = q[n]
        BY <4>1
      <4> HIDE DEF q
      <4>3. c # Wake
        BY NetServerAssumption
      <4>4. ASSUME NEW n \in 1 .. Len(Append(q, c)), Append(q, c)[n] = Wake PROVE Woken(k)
        <5>1. n \in 1 .. Len(q)
          BY <4>1, <4>2, <4>3, <4>4
        <5> QED BY <3>2, <4>2, <4>4, <5>1 DEF Woken, q
      <4>5. l \in wakes' \/ \E n \in 1 .. Len(backlog'[l]) : backlog'[l][n] = Wake
        BY <2>5, <3>2 DEF Woken
      <4> QED BY <2>1, <3>2, <4>1, <4>4, <4>5 DEF Woken
    <3> QED BY <3>1, <3>2
  <2> QED BY <1>3, <2>1, <2>2, <2>3, <2>4, <2>5
<1>6. ASSUME NEW l \in Listeners, WakeEnds(l) PROVE NetInv'
  <2>1. /\ UNCHANGED <<srv, loops, running, listener, deaf, client>>
        /\ l \in wakes /\ wakes' = wakes \ {l}
        /\ \/ backlog' = [backlog EXCEPT ![l] = Append(@, Wake)]
           \/ UNCHANGED backlog
    BY <1>6 DEF WakeEnds, connectUnchanged
  <2>2. TypeOK'
    BY <1>1, <1>6, ConnectionsType
  <2>3. BacklogsAreSound'
    <3>1. Wake \notin Clients
      BY NetServerAssumption
    <3>2. CASE backlog' = [backlog EXCEPT ![l] = Append(@, Wake)]
      BY <1>1, <2>1, <3>1, <3>2, AppendKeepsSound
    <3>3. CASE UNCHANGED backlog
      BY <1>1, <2>1, <3>3, SameConnections
    <3> QED BY <2>1, <3>2, <3>3
  <2>4. ASSUME NEW k \in Listeners, Woken(k)' PROVE Woken(k)
    <3>1. CASE k # l
      <4>1. backlog'[k] = backlog[k]
        BY <1>1, <2>1, <3>1 DEF TypeOK
      <4> QED BY <2>1, <2>4, <4>1 DEF Woken
    <3>2. CASE k = l
      BY <2>1, <3>2 DEF Woken
    <3> QED BY <3>1, <3>2
  <2> QED BY <1>3, <2>1, <2>2, <2>3, <2>4
<1>7. ASSUME NEW c \in Clients, SocketCloses(c) PROVE NetInv'
  <2> PICK s \in Servers : s = client[c]
    BY <1>7 DEF SocketCloses
  <2>1. srv[s].connections > 0
    BY <1>7, SocketClosesCounted
  <2>2. /\ TypeOK' /\ s \in Servers /\ client' = [client EXCEPT ![c] = "closed"]
        /\ srv'[s].connections = srv[s].connections - 1 /\ Others(s)
        /\ \/ Closes(s)
           \/ SameLife(s) /\ UNCHANGED <<listener, wakes, ipc, asked>>
    BY <1>1, <1>7, <2>1, SocketClosesType
  <2>3. UNCHANGED <<loops, running, backlog, deaf>>
    BY <1>7 DEF SocketCloses
  <2>4. SoundInv'
    <3>1. CASE Closes(s)
      BY <1>1, <2>2, <3>1, ClosesSound
    <3>2. CASE SameLife(s) /\ UNCHANGED <<listener, wakes, ipc, asked>>
      <4>1. \A t \in Servers : SameLife(t)
        BY <2>2, <3>2 DEF Others, SameLife
      <4>2. \A k \in Listeners : Woken(k)' => Woken(k)
        BY <2>3, <3>2 DEF Woken
      <4> QED BY <1>1, <2>2, <2>3, <3>2, <4>1, <4>2, FrameSound
    <3> QED BY <2>2, <3>1, <3>2
  <2>5. "waiting" \notin Servers /\ "closed" \notin Servers
    BY NetServerAssumption DEF Unserved
  <2>6. BacklogsAreSound'
    <3>1. \A d \in Clients : client[d] = "waiting" => client'[d] = "waiting"
      BY <1>1, <2>2, <2>5 DEF TypeOK
    <3>2. backlog' = backlog
      BY <2>3
    <3> SUFFICES ASSUME NEW l \in Listeners, NEW n \in 1 .. Len(backlog[l]),
                        backlog[l][n] \in Clients
                 PROVE  /\ client'[backlog[l][n]] = "waiting"
                        /\ \A k \in Listeners : \A m \in 1 .. Len(backlog[k]) :
                              backlog[k][m] = backlog[l][n] => k = l /\ m = n
      BY <3>2 DEF BacklogsAreSound
    <3>3. /\ client[backlog[l][n]] = "waiting"
          /\ \A k \in Listeners : \A m \in 1 .. Len(backlog[k]) :
                backlog[k][m] = backlog[l][n] => k = l /\ m = n
      BY <1>1 DEF BacklogsAreSound
    <3> QED BY <3>1, <3>3
  <2>7. Counted'
    <3>1. Of(s)' = Of(s) \ {c} /\ c \in Of(s)
      BY <1>1, <2>2, <2>5 DEF Of, TypeOK
    <3>2. \A t \in Servers \ {s} : Of(t)' = Of(t)
      BY <1>1, <2>2, <2>5 DEF Of, TypeOK
    <3>3. IsFiniteSet(Of(s)') /\ srv'[s].connections = Cardinality(Of(s)')
      <4>1. IsFiniteSet(Of(s)) /\ srv[s].connections = Cardinality(Of(s))
        BY <1>1, <2>2 DEF Counted
      <4>2. IsFiniteSet(Of(s) \ {c}) /\ Cardinality(Of(s) \ {c}) = Cardinality(Of(s)) - 1
        BY <3>1, <4>1, FS_RemoveElement
      <4> QED BY <2>2, <3>1, <4>1, <4>2
    <3> QED BY <1>1, <2>2, <3>2, <3>3 DEF Counted, Others
  <2> QED BY <2>4, <2>6, <2>7 DEF NetInv
<1>8. ASSUME NEW x \in loops, LoopStep(x) PROVE NetInv'
  <2>1. TypeOK' /\ (EndsLoop(x) \/ Announces(x))
    BY <1>1, <1>8, LoopStepKinds
  <2>2. SoundInv'
    BY <1>1, <2>1, LoopStepSound
  <2>3. BacklogsAreSound' /\ Counted'
    BY <1>8, <2>1, LoopStepCounted
  <2> QED BY <2>2, <2>3 DEF NetInv
<1>9. ASSUME ListenersReturn \/ ListenerThrows PROVE NetInv'
  <2>1. TypeOK' /\ (GoesOn \/ Stops \/ TakesError)
    BY <1>1, <1>9, ListenersKinds
  <2>2. SoundInv'
    BY <1>1, <2>1, ListenersSound
  <2>3. UNCHANGED <<client, backlog>>
    BY <1>9 DEF ListenersReturn, ListenerThrows
  <2>4. \A t \in Servers : srv'[t].connections = srv[t].connections
    <3>1. GoesOn \/ TakesError => UNCHANGED srv
      BY DEF GoesOn, TakesError
    <3>2. Stops => Ends(running.server)
      BY DEF Stops
    <3> QED BY <2>1, <3>1, <3>2 DEF Ends, Others
  <2>5. Counted'
    BY <1>1, <2>3, <2>4, CountedFrame
  <2> QED BY <1>1, <2>2, <2>3, <2>5, SameConnections DEF NetInv
<1>10. CASE UNCHANGED vars
  <2>1. UNCHANGED <<srv, loops, running, listener, deaf, client, backlog, wakes>>
    BY <1>10 DEF vars, historyVars
  <2>2. TypeOK'
    BY <1>1, <1>10 DEF vars, historyVars, TypeOK
  <2> QED BY <1>1, <1>3, <2>1, <2>2, SameConnections DEF Woken
<1> QED BY <1>2, <1>4, <1>5, <1>6, <1>7, <1>8, <1>9, <1>10 DEF Next

THEOREM NetInvIsInvariant == Spec => []NetInv
<1>1. Init => NetInv
  BY InitSound, InitCounted DEF NetInv
<1> QED BY <1>1, NetInvStep, PTL DEF Spec

-----------------------------------------------------------------------------
(* Why a path leads to the server that listens on it.                        *)

\* Entries that stay belong to servers that keep listening where they did.
LEMMA PathsFrame ==
    ASSUME PathsLeadToServers, mixed \subseteq mixed', renamed \subseteq renamed',
           \A p \in Paths : ipc'[p] # None => ipc'[p] = ipc[p],
           \A t \in Servers :
              srv[t].listening /\ srv[t].path \in Paths /\ ipc'[srv[t].path] # None =>
                 \/ t \in mixed' \cup renamed'
                 \/ /\ srv'[t].listening
                    /\ srv'[t].path = srv[t].path /\ srv'[t].handle = srv[t].handle
    PROVE  PathsLeadToServers'
<1> SUFFICES ASSUME NEW p \in Paths, ipc'[p] # None
             PROVE  \E s \in Servers :
                      \/ s \in mixed' \cup renamed'
                      \/ srv'[s].listening /\ srv'[s].path = p /\ srv'[s].handle = ipc'[p]
  BY DEF PathsLeadToServers
<1>1. ipc'[p] = ipc[p]
  OBVIOUS
<1>2. PICK t \in Servers : \/ t \in mixed \cup renamed
                           \/ srv[t].listening /\ srv[t].path = p /\ srv[t].handle = ipc[p]
  BY <1>1 DEF PathsLeadToServers
<1> QED BY <1>1, <1>2

\* A server that listens can begin to listen again only as one of `mixed`.
LEMMA CallsPaths ==
    ASSUME NetInv, PathsLeadToServers, NEW s \in Servers, Calls(s), renamed \subseteq renamed',
           \A p \in Paths : ipc'[p] # None => ipc'[p] = ipc[p],
           srv[s].listening => s \in renamed' \/ srv[s].path = NoPath \/ srv'[s].path = srv[s].path
    PROVE  PathsLeadToServers'
<1>1. Others(s) /\ \/ \E l \in Listeners : Begins(s, l) \/ FailsToBegin(s, l)
                   \/ SameLife(s) /\ UNCHANGED <<listener, loops, mixed>>
  BY DEF Calls
<1>2. mixed \subseteq mixed'
  BY <1>1 DEF Begins, FailsToBegin
<1>3. srv[s].listening => s \in mixed' \/ SameLife(s)
  BY <1>1 DEF Begins, FailsToBegin, StillRuns
<1>4. NoPath \notin Paths
  BY NetServerAssumption
<1> QED BY <1>1, <1>2, <1>3, <1>4, PathsFrame DEF Others, SameLife

LEMMA ListenOnPathPaths ==
    ASSUME NetInv, PathsLeadToServers, NEW s \in Servers, NEW p \in Paths, ListenOnPath(s, p)
    PROVE  PathsLeadToServers'
<1> DEFINE g == [srv[s] EXCEPT !.path = p]
<1>1. /\ srv[s] \in ServerFields /\ TypeOK
      /\ srv[s].path \in Paths \cup {NoPath}
  BY DEF NetInv, SoundInv, TypeOK, ServerFields
<1>2. g \in ServerFields /\ g.path = p /\ \E q \in Paths \cup {NoPath} : g = [srv[s] EXCEPT !.path = q]
  BY <1>1, NamedFields
<1>3. Calls(s)
  BY <1>1, ProgramCalls
<1>4. renamed' = IF srv[s].listening /\ srv[s].path \notin {NoPath, p}
                 THEN renamed \cup {s} ELSE renamed
  BY DEF ListenOnPath
<1>5. srv'[s].path = p
  <2>1. CASE srv' = [srv EXCEPT ![s] = g]
    BY <1>1, <1>2, <2>1, SrvUpdate
  <2>2. CASE (DoListen(s, g) \/ DoListenFails(s, g)) /\ UNCHANGED netVars
    BY <1>1, <1>2, <2>2, DoListenCalls, DoListenFailsCalls
  <2> QED BY <2>1, <2>2 DEF ListenOnPath
<1>6. CASE UNCHANGED ipc
  BY <1>3, <1>4, <1>5, <1>6, CallsPaths
<1>7. CASE DoListen(s, g) /\ ipc' = [ipc EXCEPT ![p] = NextListener]
  <2> DEFINE l == NextListener
  <2>1. l \in Listeners
    BY <1>7, NewListener DEF DoListen
  <2>2. ipc'[p] = l /\ \A q \in Paths \ {p} : ipc'[q] = ipc[q]
    BY <1>1, <1>7 DEF TypeOK
  <2>3. srv'[s].handle = l /\ srv'[s].listening
    <3> DEFINE f == [g EXCEPT !.handle = l, !.listening = TRUE, !.accepting = TRUE,
                              !.closeRequested = FALSE, !.token = @ + 1, !.active = TRUE]
    <3>1. f \in ServerFields /\ f.handle = l /\ f.listening
      BY <1>2, <2>1, ListenedFields
    <3>2. srv' = [srv EXCEPT ![s] = f]
      BY <1>7 DEF DoListen
    <3> HIDE DEF f
    <3> QED BY <1>1, <3>1, <3>2, SrvUpdate
  <2>4. mixed' = IF StillRuns(s) THEN mixed \cup {s} ELSE mixed
    BY <1>7 DEF DoListen
  <2> SUFFICES ASSUME NEW q \in Paths, ipc'[q] # None
               PROVE  \E t \in Servers :
                        \/ t \in mixed' \cup renamed'
                        \/ srv'[t].listening /\ srv'[t].path = q /\ srv'[t].handle = ipc'[q]
    BY DEF PathsLeadToServers
  <2>5. CASE q = p
    BY <1>5, <2>2, <2>3, <2>5
  <2>6. CASE q # p
    <3>1. ipc'[q] = ipc[q]
      BY <2>2, <2>6
    <3>2. PICK t \in Servers : \/ t \in mixed \cup renamed
                               \/ srv[t].listening /\ srv[t].path = q /\ srv[t].handle = ipc[q]
      BY <3>1 DEF PathsLeadToServers
    <3>3. CASE t = s
      BY <1>4, <2>4, <3>2, <3>3 DEF StillRuns
    <3>4. CASE t # s
      BY <1>3, <1>4, <2>4, <3>1, <3>2, <3>4 DEF Calls, Others
    <3> QED BY <3>3, <3>4
  <2> QED BY <2>5, <2>6
<1> QED BY <1>6, <1>7 DEF ListenOnPath

LEMMA EndsPaths ==
    ASSUME NetInv, PathsLeadToServers, NEW s \in Servers, Ends(s), UNCHANGED loopUnchanged
    PROVE  PathsLeadToServers'
<1>1. UNCHANGED <<ipc, mixed, renamed>>
  BY DEF loopUnchanged
<1>2. \A t \in Servers : srv[t].listening =>
         /\ srv'[t].listening /\ srv'[t].path = srv[t].path /\ srv'[t].handle = srv[t].handle
  BY DEF NetInv, SoundInv, Fields, Ends, Others
<1> QED BY <1>1, <1>2, PathsFrame

LEMMA ClosesPaths ==
    ASSUME NetInv, PathsLeadToServers, NEW s \in Servers, Closes(s), UNCHANGED renamed,
           ipc' = IF srv[s].path = NoPath THEN ipc ELSE [ipc EXCEPT ![srv[s].path] = None]
    PROVE  PathsLeadToServers'
<1>1. Others(s) /\ UNCHANGED mixed
  BY DEF Closes
<1>2. /\ \A p \in Paths : ipc'[p] # None => ipc'[p] = ipc[p]
      /\ srv[s].path \in Paths => ipc'[srv[s].path] = None
  BY NetServerAssumption DEF NetInv, SoundInv, TypeOK
<1> QED BY <1>1, <1>2, PathsFrame DEF Others

LEMMA PathsStep == NetInv /\ PathsLeadToServers /\ [Next]_vars => PathsLeadToServers'
<1> SUFFICES ASSUME NetInv, PathsLeadToServers, [Next]_vars PROVE PathsLeadToServers'
  OBVIOUS
<1>1. SoundInv /\ TypeOK
  BY DEF NetInv, SoundInv
<1>2. ASSUME UNCHANGED <<srv, ipc, mixed, renamed>> PROVE PathsLeadToServers'
  BY <1>2 DEF PathsLeadToServers
<1>3. ASSUME NEW s \in Servers, Listen(s) \/ ListenByName(s) \/ LookupReturns(s)
                                \/ \E on \in BOOLEAN : SetUnrefed(s, on)
      PROVE  PathsLeadToServers'
  <2>1. Calls(s)
    BY <1>1, <1>3, ProgramCalls
  <2>2. UNCHANGED <<ipc, renamed>>
    BY <1>3 DEF Listen, ListenByName, LookupReturns, SetUnrefed, historyVars
  <2>3. srv'[s].path = srv[s].path
    <3>1. /\ srv[s] \in ServerFields
          /\ srv[s] = [srv[s] EXCEPT !.path = srv[s].path] /\ srv[s].path \in Paths \cup {NoPath}
      BY <1>1 DEF TypeOK, ServerFields
    <3>2. CASE UNCHANGED srv
      BY <3>2
    <3>3. CASE (DoListen(s, srv[s]) \/ DoListenFails(s, srv[s])) /\ UNCHANGED netVars
      BY <1>1, <3>1, <3>3, DoListenCalls, DoListenFailsCalls
    <3>4. ASSUME NEW on \in BOOLEAN, SetUnrefed(s, on) PROVE srv'[s].path = srv[s].path
      <4> DEFINE g == [srv[s] EXCEPT !.unrefed = on]
      <4>1. g \in ServerFields /\ g.path = srv[s].path
        BY <3>1, UnrefedFields
      <4>2. srv' = [srv EXCEPT ![s] = g]
        BY <3>4 DEF SetUnrefed
      <4> HIDE DEF g
      <4> QED BY <1>1, <4>1, <4>2, SrvUpdate
    <3> QED BY <1>3, <3>2, <3>3, <3>4 DEF Listen, ListenByName, LookupReturns
  <2> QED BY <2>1, <2>2, <2>3, CallsPaths
<1>4. ASSUME NEW s \in Servers, Close(s) PROVE PathsLeadToServers'
  <2>1. srv[s].connections \in Nat /\ srv[s] = [srv[s] EXCEPT !.connections = srv[s].connections]
    BY <1>1 DEF TypeOK, ServerFields
  <2>2. Closes(s) /\ UNCHANGED renamed
    BY <1>1, <1>4, <2>1, DoCloseCloses DEF Close
  <2>3. ipc' = IF srv[s].path = NoPath THEN ipc ELSE [ipc EXCEPT ![srv[s].path] = None]
    BY <1>4 DEF Close, DoClose
  <2> QED BY <2>2, <2>3, ClosesPaths
<1>5. ASSUME NEW c \in Clients, SocketCloses(c) PROVE PathsLeadToServers'
  <2> PICK s \in Servers : s = client[c]
    BY <1>5 DEF SocketCloses
  <2>1. srv[s].connections > 0 /\ srv[s] \in ServerFields
    BY <1>1, <1>5, SocketClosesCounted DEF TypeOK
  <2> DEFINE n == srv[s].connections - 1
             left == [srv[s] EXCEPT !.connections = n]
  <2>2. n \in Nat /\ UNCHANGED <<mixed, renamed>>
    BY <1>5, <2>1 DEF ServerFields, SocketCloses
  <2>3. left \in ServerFields /\ left.path = srv[s].path /\ left.handle = srv[s].handle
        /\ left.listening = srv[s].listening
    BY <2>1, <2>2, CountedFields
  <2>4. CASE DoClose(s, left)
    <3>1. Closes(s)
      BY <1>1, <1>5, <2>2, <2>4, DoCloseCloses DEF SocketCloses
    <3> HIDE DEF left
    <3>2. ipc' = IF srv[s].path = NoPath THEN ipc ELSE [ipc EXCEPT ![srv[s].path] = None]
      BY <2>3, <2>4 DEF DoClose
    <3> QED BY <2>2, <3>1, <3>2, ClosesPaths
  <2>5. CASE srv' = [srv EXCEPT ![s] = left] /\ UNCHANGED ipc
    <3> HIDE DEF left
    <3>1. Others(s) /\ srv'[s] = left
      BY <1>1, <2>3, <2>5, SrvUpdate
    <3> QED BY <2>2, <2>3, <2>5, <3>1, PathsFrame DEF Others
  <2> QED BY <1>5, <2>4, <2>5 DEF SocketCloses
<1>6. ASSUME NEW x \in loops, LoopStep(x) PROVE PathsLeadToServers'
  <2>1. EndsLoop(x) \/ Announces(x)
    BY <1>1, <1>6, LoopStepKinds
  <2>2. x.server \in Servers
    BY <1>1, Known
  <2>3. CASE EndsLoop(x)
    BY <2>2, <2>3, EndsPaths DEF EndsLoop
  <2>4. CASE Announces(x)
    BY <2>2, <2>4, PathsFrame DEF Announces, Others, SameLife, loopUnchanged
  <2> QED BY <2>1, <2>3, <2>4
<1>7. ASSUME ListenersReturn \/ ListenerThrows PROVE PathsLeadToServers'
  <2>1. GoesOn \/ Stops \/ TakesError
    BY <1>1, <1>7, ListenersKinds
  <2>2. CASE Stops
    BY <1>1, <2>2, Known, EndsPaths DEF Stops
  <2>3. CASE GoesOn \/ TakesError
    BY <1>2, <2>3 DEF GoesOn, TakesError, loopUnchanged
  <2> QED BY <2>1, <2>2, <2>3
<1>8. CASE \/ \E s \in Servers : EmitClose(s)
           \/ \E c \in Clients, l \in Listeners : ClientConnects(c, l)
           \/ \E l \in Listeners : WakeEnds(l)
           \/ UNCHANGED vars
  BY <1>2, <1>8 DEF EmitClose, ClientConnects, WakeEnds, connectUnchanged, vars, historyVars
<1> QED BY <1>3, <1>4, <1>5, <1>6, <1>7, <1>8, ListenOnPathPaths DEF Next, UserCalls

\* A client that connects to a port or a path reaches the server that listens there.
THEOREM ClientsAlwaysReachServers == Spec => []ClientsReachServers
<1>1. Init => NetInv /\ PathsLeadToServers
  BY InitSound, InitCounted DEF NetInv, Init, PathsLeadToServers
<1>2. NetInv /\ PathsLeadToServers => ClientsReachServers
  BY DEF NetInv, SoundInv, ClientsReachServers
<1> QED BY <1>1, <1>2, NetInvStep, PathsStep, PTL DEF Spec

-----------------------------------------------------------------------------
(* Why no server is told more often that it closed than it was asked to.  A  *)
(* server that never listened while it still ran, and whose loop has not     *)
(* failed, has one accept loop, suspended or running; its 'close' is owed    *)
(* while this loop or a connection is left, and whatever ends last pays.     *)

HasLoop(s) == \E x \in loops : x.server = s
RunsNow(s) == running # NoLoop /\ running.server = s
Solo(s) == s \notin mixed /\ \A d \in deaf : d[1] # s

Owes(s) ==
    /\ ~srv[s].listening
    /\ srv[s].active \/ (srv[s].handle = None /\ srv[s].connections > 0)

OneLoop(s) ==
    /\ srv[s].active <=> HasLoop(s) \/ RunsNow(s)
    /\ ~(HasLoop(s) /\ RunsNow(s))
    /\ \A x, y \in loops : x.server = s /\ y.server = s => x = y
    /\ srv[s].listening => /\ srv[s].active
                           /\ \A x \in loops : x.server = s => ~Stale(x)
                           /\ RunsNow(s) => ~Stale(running)
    /\ srv[s].active => srv[s].handle # None /\ (srv[s].listening \/ srv[s].closeRequested)

Paid(s) == told[s] + ticks[s] + (IF Owes(s) THEN 1 ELSE 0) <= asked[s]

CloseInv == \A s \in Servers : Solo(s) => OneLoop(s) /\ Paid(s)

LEMMA SameFields ==
    ASSUME NEW t, srv'[t] = srv[t], told'[t] = told[t], ticks'[t] = ticks[t], asked'[t] = asked[t],
           \A x : x.server = t => (x \in loops' <=> x \in loops),
           UNCHANGED running \/ (~RunsNow(t) /\ ~RunsNow(t)'),
           OneLoop(t), Paid(t)
    PROVE  OneLoop(t)' /\ Paid(t)'
<1>1. HasLoop(t)' <=> HasLoop(t)
  BY DEF HasLoop
<1>2. RunsNow(t)' <=> RunsNow(t)
  BY DEF RunsNow
<1>3. \A x : x.server = t => (Stale(x)' <=> Stale(x))
  BY DEF Stale
<1>4. RunsNow(t) => (Stale(running)' <=> Stale(running))
  BY DEF RunsNow, Stale
<1>5. OneLoop(t)'
  BY <1>1, <1>2, <1>3, <1>4 DEF OneLoop
<1>6. Owes(t)' <=> Owes(t)
  BY DEF Owes
<1> QED BY <1>5, <1>6 DEF Paid

\* A step of the server s leaves every other server as it was.
LEMMA OthersClose ==
    ASSUME TypeOK, CloseInv, NEW s \in Servers, Others(s),
           mixed \subseteq mixed', deaf \subseteq deaf',
           \A x : x.server # s => (x \in loops' <=> x \in loops),
           \/ UNCHANGED running
           \/ \A t \in Servers \ {s} : ~RunsNow(t) /\ ~RunsNow(t)',
           \A t \in Servers \ {s} : told'[t] = told[t] /\ ticks'[t] = ticks[t] /\ asked'[t] = asked[t],
           Solo(s)' => OneLoop(s)' /\ Paid(s)'
    PROVE  CloseInv'
<1> SUFFICES ASSUME NEW t \in Servers, Solo(t)', t # s
             PROVE  OneLoop(t)' /\ Paid(t)'
  BY DEF CloseInv
<1>1. Solo(t)
  BY DEF Solo
<1>2. OneLoop(t) /\ Paid(t)
  BY <1>1 DEF CloseInv
<1>3. srv'[t] = srv[t]
  BY DEF Others
<1>4. \A x : x.server = t => (x \in loops' <=> x \in loops)
  OBVIOUS
<1> QED BY <1>2, <1>3, <1>4, SameFields

\* The counters and their types.
LEMMA CloseKnown ==
    ASSUME TypeOK, CloseInv, NEW s \in Servers, mixed \subseteq mixed', deaf \subseteq deaf', Solo(s)'
    PROVE  /\ Solo(s) /\ OneLoop(s) /\ Paid(s)
           /\ told[s] \in Nat /\ ticks[s] \in Nat /\ asked[s] \in Nat
           /\ told[s] + ticks[s] <= asked[s]
           /\ Owes(s) => told[s] + ticks[s] + 1 <= asked[s]
<1>1. Solo(s)
  BY DEF Solo
<1>2. OneLoop(s) /\ Paid(s)
  BY <1>1 DEF CloseInv
<1>3. told[s] \in Nat /\ ticks[s] \in Nat /\ asked[s] \in Nat
  BY DEF TypeOK
<1>4. CASE Owes(s)
  BY <1>1, <1>2, <1>3, <1>4 DEF Paid
<1>5. CASE ~Owes(s)
  BY <1>1, <1>2, <1>3, <1>5 DEF Paid
<1> QED BY <1>4, <1>5

LEMMA CallsClose ==
    ASSUME NetInv, CloseInv, NEW s \in Servers, Calls(s)
    PROVE  CloseInv'
<1>1. /\ TypeOK /\ Others(s) /\ srv'[s].connections = srv[s].connections
      /\ UNCHANGED <<running, ticks, asked, told, deaf>>
      /\ srv'[s] \in ServerFields
  BY DEF NetInv, SoundInv, Calls
<1>2. \/ \E l \in Listeners : Begins(s, l) \/ FailsToBegin(s, l)
      \/ SameLife(s) /\ UNCHANGED <<listener, loops, mixed>>
  BY DEF Calls
<1>3. mixed \subseteq mixed' /\ \A x : x.server # s => (x \in loops' <=> x \in loops)
  BY <1>2 DEF Begins, FailsToBegin
<1>4. ASSUME Solo(s)' PROVE OneLoop(s)' /\ Paid(s)'
  <2>1. /\ OneLoop(s) /\ Paid(s)
        /\ told[s] \in Nat /\ ticks[s] \in Nat /\ asked[s] \in Nat
        /\ told[s] + ticks[s] <= asked[s]
    BY <1>1, <1>3, <1>4, CloseKnown
  <2>2. RunsNow(s)' <=> RunsNow(s)
    BY <1>1 DEF RunsNow
  <2>3. ASSUME NEW l \in Listeners, Begins(s, l) PROVE OneLoop(s)' /\ Paid(s)'
    <3>1. ~StillRuns(s)
      BY <1>4, <2>3 DEF Begins, Solo
    <3>2. ~HasLoop(s) /\ ~RunsNow(s)
      BY <3>1 DEF StillRuns, HasLoop, RunsNow
    <3> PICK new : new = [server |-> s, token |-> srv[s].token + 1, on |-> l]
      OBVIOUS
    <3>3. /\ srv'[s].handle = l /\ l # None /\ srv'[s].listening /\ srv'[s].active
          /\ srv'[s].token = srv[s].token + 1 /\ loops' = loops \cup {new}
      BY <2>3, NoneIsNoListener DEF Begins
    <3>4. new.server = s /\ new.token = srv'[s].token
      BY <3>3
    <3>5. HasLoop(s)' /\ ~Stale(new)' /\ \A x \in loops' : x.server = s => x = new
      BY <3>2, <3>3, <3>4 DEF HasLoop, Stale
    <3>6. OneLoop(s)'
      BY <2>2, <3>2, <3>3, <3>5 DEF OneLoop
    <3>7. ~Owes(s)'
      BY <3>3 DEF Owes
    <3> QED BY <1>1, <2>1, <3>6, <3>7 DEF Paid
  <2>4. ASSUME NEW l \in Listeners, FailsToBegin(s, l) PROVE OneLoop(s)' /\ Paid(s)'
    <3>1. ~StillRuns(s) /\ UNCHANGED loops
      BY <1>4, <2>4 DEF FailsToBegin, Solo
    <3>2. ~HasLoop(s) /\ ~RunsNow(s) /\ ~srv[s].listening
      BY <3>1 DEF StillRuns, HasLoop, RunsNow
    <3>3. ~HasLoop(s)'
      BY <3>1, <3>2 DEF HasLoop
    <3>4. /\ srv'[s].handle = l /\ l # None /\ srv'[s].listening = srv[s].listening
          /\ srv'[s].active = srv[s].active
      BY <2>4, NoneIsNoListener DEF FailsToBegin
    <3>5. ~srv'[s].active /\ ~srv'[s].listening
      BY <2>1, <3>2, <3>4 DEF OneLoop
    <3>6. OneLoop(s)'
      BY <2>2, <3>2, <3>3, <3>5 DEF OneLoop, HasLoop
    <3>7. ~Owes(s)'
      BY <3>4, <3>5 DEF Owes
    <3> QED BY <1>1, <2>1, <3>6, <3>7 DEF Paid
  <2>5. ASSUME SameLife(s), UNCHANGED loops PROVE OneLoop(s)' /\ Paid(s)'
    <3>1. \A x : x.server = s => (Stale(x)' <=> Stale(x))
      BY <2>5 DEF SameLife, Stale
    <3>2. RunsNow(s) => (Stale(running)' <=> Stale(running))
      BY <1>1, <3>1 DEF RunsNow
    <3>3. HasLoop(s)' <=> HasLoop(s)
      BY <2>5 DEF HasLoop
    <3>4. OneLoop(s)'
      BY <2>1, <2>2, <2>5, <3>1, <3>2, <3>3 DEF SameLife, OneLoop
    <3>5. Owes(s)' <=> Owes(s)
      BY <1>1, <2>5 DEF SameLife, Owes
    <3> QED BY <1>1, <2>1, <3>4, <3>5 DEF Paid
  <2> QED BY <1>2, <2>3, <2>4, <2>5
<1> QED BY <1>1, <1>3, <1>4, OthersClose
\* close() owes the event while an accept loop or a connection is left, and queues it
\* otherwise: here `queued` is what it adds to the queue.
LEMMA ClosesClose ==
    ASSUME NetInv, CloseInv, NEW s \in Servers, Closes(s), NEW queued \in {0, 1},
           ticks'[s] = ticks[s] + queued,
           \A t \in Servers \ {s} : ticks'[t] = ticks[t],
           Solo(s) => queued + (IF Owes(s)' THEN 1 ELSE 0) <= 1
    PROVE  CloseInv'
<1>1. /\ TypeOK /\ Others(s) /\ UNCHANGED <<loops, running, told, mixed, deaf>>
      /\ ~srv'[s].listening /\ srv'[s].closeRequested /\ srv'[s].active = srv[s].active
      /\ srv'[s].handle = (IF srv[s].active THEN srv[s].handle ELSE None)
      /\ asked' = [asked EXCEPT ![s] = @ + 1]
  BY DEF NetInv, SoundInv, Closes
<1>2. asked'[s] = asked[s] + 1 /\ \A t \in Servers \ {s} : asked'[t] = asked[t]
  BY <1>1 DEF TypeOK
<1>3. ASSUME Solo(s)' PROVE OneLoop(s)' /\ Paid(s)'
  <2>1. /\ Solo(s) /\ OneLoop(s)
        /\ told[s] \in Nat /\ ticks[s] \in Nat /\ asked[s] \in Nat
        /\ told[s] + ticks[s] <= asked[s]
    BY <1>1, <1>3, CloseKnown
  <2>2. (HasLoop(s)' <=> HasLoop(s)) /\ (RunsNow(s)' <=> RunsNow(s))
    BY <1>1 DEF HasLoop, RunsNow
  <2>3. OneLoop(s)'
    BY <1>1, <2>1, <2>2 DEF OneLoop
  <2>4. PICK o \in {0, 1} : o = IF Owes(s)' THEN 1 ELSE 0
    OBVIOUS
  <2>5. told[s] + (ticks[s] + queued) + o <= asked[s] + 1
    BY <2>1, <2>4
  <2>6. Paid(s)'
    BY <1>1, <1>2, <2>4, <2>5 DEF Paid
  <2> QED BY <2>3, <2>6
<1> QED BY <1>1, <1>2, <1>3, OthersClose

LEMMA CloseClose ==
    ASSUME NetInv, CloseInv, NEW s \in Servers, Close(s)
    PROVE  CloseInv'
<1>1. /\ TypeOK /\ srv[s] \in ServerFields /\ srv[s].connections \in Nat
      /\ srv[s] = [srv[s] EXCEPT !.connections = srv[s].connections]
      /\ srv[s].active \in BOOLEAN
  BY DEF NetInv, SoundInv, TypeOK, ServerFields
<1>2. Closes(s) /\ srv'[s].connections = srv[s].connections
  BY <1>1, DoCloseCloses DEF Close
<1>3. /\ srv'[s].active = srv[s].active
      /\ srv'[s].handle = (IF srv[s].active THEN srv[s].handle ELSE None)
  BY <1>2 DEF Closes
<1> DEFINE f == Closed(srv[s])
<1>4. /\ ~f.listening /\ f.handle = (IF srv[s].active THEN srv[s].handle ELSE None)
      /\ f.connections = srv[s].connections
  BY <1>1, ClosedFields
<1>5. ticks' = IF Drained(f) THEN [ticks EXCEPT ![s] = @ + 1] ELSE ticks
  BY DEF Close, MaybeEmitClose
<1>6. Drained(f) <=> srv'[s].handle = None /\ srv[s].connections = 0
  BY <1>3, <1>4 DEF Drained
<1> PICK q \in {0, 1} : q = IF Drained(f) THEN 1 ELSE 0
  OBVIOUS
<1>7. ticks'[s] = ticks[s] + q /\ \A t \in Servers \ {s} : ticks'[t] = ticks[t]
  BY <1>5 DEF NetInv, SoundInv, TypeOK
<1>8. ASSUME Solo(s) PROVE q + (IF Owes(s)' THEN 1 ELSE 0) <= 1
  <2>1. srv[s].active => srv[s].handle # None
    BY <1>8 DEF CloseInv, OneLoop
  <2>2. Drained(f) => ~Owes(s)'
    BY <1>2, <1>3, <1>6, <2>1 DEF Owes
  <2> QED BY <2>2
<1> QED BY <1>2, <1>7, <1>8, ClosesClose

LEMMA SocketClosesClose ==
    ASSUME NetInv, CloseInv, NEW c \in Clients, SocketCloses(c)
    PROVE  CloseInv'
<1> PICK s \in Servers : s = client[c]
  BY DEF SocketCloses
<1>1. /\ TypeOK /\ srv[s] \in ServerFields /\ srv[s].connections \in Nat
      /\ srv[s].connections > 0 /\ ticks[s] \in Nat /\ srv[s].active \in BOOLEAN
  BY SocketClosesCounted DEF NetInv, SoundInv, TypeOK, ServerFields
<1> DEFINE n == srv[s].connections - 1
           left == [srv[s] EXCEPT !.connections = n]
<1>2. n \in Nat
  BY <1>1
<1>3. left \in ServerFields /\ left.connections = n /\ left.handle = srv[s].handle
      /\ left.listening = srv[s].listening /\ left.active = srv[s].active
      /\ left.accepting = srv[s].accepting /\ left.closeRequested = srv[s].closeRequested
      /\ left.token = srv[s].token
  BY <1>1, <1>2, CountedFields
<1>4. UNCHANGED <<loops, running, backlog, told, mixed, deaf>>
  BY DEF SocketCloses
<1>5. CASE left.unrefed /\ left.connections = 0 /\ left.listening
  <2>1. DoClose(s, left)
        /\ ticks' = MaybeEmitClose(MaybeEmitClose(ticks, s, Closed(left)), s, Closed(left))
    BY <1>5 DEF SocketCloses
  <2>2. Closes(s) /\ srv'[s].connections = n
    BY <1>1, <1>2, <1>4, <2>1, DoCloseCloses
  <2> HIDE DEF left
  <2>3. srv'[s].active = srv[s].active
        /\ srv'[s].handle = (IF srv[s].active THEN srv[s].handle ELSE None)
    BY <2>2 DEF Closes
  <2>4. Closed(left).handle = (IF srv[s].active THEN srv[s].handle ELSE None)
    BY <1>3, ClosedFields
  <2>5. CASE Solo(s)
    <3>1. srv[s].active /\ srv[s].handle # None
      BY <1>3, <1>5, <2>5 DEF CloseInv, OneLoop
    <3>2. ~Drained(Closed(left))
      BY <2>4, <3>1 DEF Drained
    <3>3. ticks' = ticks
      BY <2>1, <3>2 DEF MaybeEmitClose
    <3> PICK q \in {0, 1} : q = 0
      OBVIOUS
    <3>4. ticks'[s] = ticks[s] + q /\ \A t \in Servers \ {s} : ticks'[t] = ticks[t]
      BY <1>1, <3>3
    <3>5. q + (IF Owes(s)' THEN 1 ELSE 0) <= 1
      OBVIOUS
    <3> QED BY <2>2, <3>4, <3>5, ClosesClose
  <2>6. CASE ~Solo(s)
    <3>1. \A t \in Servers \ {s} : ticks'[t] = ticks[t]
      BY <1>1, <2>1 DEF MaybeEmitClose, TypeOK
    <3>2. ~Solo(s)'
      BY <1>4, <2>6 DEF Solo
    <3>3. Others(s) /\ asked' = [asked EXCEPT ![s] = @ + 1]
      BY <2>2 DEF Closes
    <3>4. \A t \in Servers \ {s} : asked'[t] = asked[t]
      BY <1>1, <3>3 DEF TypeOK
    <3> QED BY <1>1, <1>4, <3>1, <3>2, <3>3, <3>4, OthersClose
  <2> QED BY <2>5, <2>6
<1>6. CASE ~(left.unrefed /\ left.connections = 0 /\ left.listening)
  <2>1. /\ srv' = [srv EXCEPT ![s] = left] /\ ticks' = MaybeEmitClose(ticks, s, left)
        /\ UNCHANGED asked
    BY <1>6 DEF SocketCloses
  <2> HIDE DEF left
  <2>2. Others(s) /\ srv'[s] = left
    BY <1>1, <1>3, <2>1, SrvUpdate
  <2>3. \A t \in Servers \ {s} : ticks'[t] = ticks[t]
    BY <1>1, <2>1 DEF MaybeEmitClose, TypeOK
  <2>4. ASSUME Solo(s)' PROVE OneLoop(s)' /\ Paid(s)'
    <3>1. /\ Solo(s) /\ OneLoop(s)
          /\ told[s] \in Nat /\ ticks[s] \in Nat /\ asked[s] \in Nat
          /\ told[s] + ticks[s] <= asked[s]
          /\ Owes(s) => told[s] + ticks[s] + 1 <= asked[s]
      BY <1>1, <1>4, <2>4, CloseKnown
    <3>2. (HasLoop(s)' <=> HasLoop(s)) /\ (RunsNow(s)' <=> RunsNow(s))
      BY <1>4 DEF HasLoop, RunsNow
    <3>3. \A x : x.server = s => (Stale(x)' <=> Stale(x))
      BY <1>3, <2>2 DEF Stale
    <3>4. OneLoop(s)'
      BY <1>3, <1>4, <2>2, <3>1, <3>2, <3>3 DEF OneLoop, RunsNow
    <3>5. Owes(s)' => Owes(s)
      BY <1>1, <1>3, <2>2 DEF Owes
    <3>6. CASE Drained(left)
      <4>1. ~srv[s].listening /\ srv[s].handle = None /\ n = 0
        BY <1>3, <3>6 DEF Drained
      <4>2. Owes(s)
        BY <1>1, <4>1 DEF Owes
      <4>3. ~Owes(s)'
        BY <1>3, <2>2, <3>1, <4>1 DEF Owes, OneLoop
      <4>4. ticks'[s] = ticks[s] + 1
        BY <1>1, <2>1, <3>6 DEF MaybeEmitClose, TypeOK
      <4>5. told[s] + (ticks[s] + 1) <= asked[s]
        BY <3>1, <4>2
      <4> QED BY <1>4, <2>1, <3>1, <3>4, <4>3, <4>4, <4>5 DEF Paid
    <3>7. CASE ~Drained(left)
      <4>1. ticks'[s] = ticks[s]
        BY <2>1, <3>7 DEF MaybeEmitClose
      <4>2. CASE Owes(s)'
        BY <1>4, <2>1, <3>1, <3>4, <3>5, <4>1, <4>2 DEF Paid
      <4>3. CASE ~Owes(s)'
        BY <1>4, <2>1, <3>1, <3>4, <4>1, <4>3 DEF Paid
      <4> QED BY <4>2, <4>3
    <3> QED BY <3>6, <3>7
  <2> QED BY <1>1, <1>4, <2>1, <2>2, <2>3, <2>4, OthersClose
<1> QED BY <1>5, <1>6

\* The last accept loop of a server that was closed hands on what is owed, or pays it.
LEMMA EndsClose ==
    ASSUME NetInv, CloseInv, NEW s \in Servers, Ends(s), UNCHANGED <<deaf, loopUnchanged>>,
           \A x : x.server # s => (x \in loops' <=> x \in loops),
           \A t \in Servers \ {s} : ~RunsNow(t) /\ ~RunsNow(t)',
           ~RunsNow(s)',
           Solo(s) => ~srv[s].listening /\ srv[s].active /\ ~HasLoop(s)'
    PROVE  CloseInv'
<1>1. /\ TypeOK /\ Others(s)
      /\ srv'[s].handle = (IF srv[s].closeRequested THEN None ELSE srv[s].handle)
      /\ srv'[s].listening = srv[s].listening
      /\ ~srv'[s].active /\ srv'[s].connections = srv[s].connections
      /\ ticks' = IF srv'[s].handle = None /\ ~srv[s].listening /\ srv[s].connections = 0
                  THEN [ticks EXCEPT ![s] = @ + 1] ELSE ticks
      /\ srv[s].connections \in Nat
  BY DEF NetInv, SoundInv, Ends, TypeOK, ServerFields
<1>2. UNCHANGED <<asked, told, mixed, deaf>>
  BY DEF loopUnchanged
<1>3. \A t \in Servers \ {s} : ticks'[t] = ticks[t]
  BY <1>1 DEF TypeOK
<1>4. ASSUME Solo(s)' PROVE OneLoop(s)' /\ Paid(s)'
  <2>1. /\ Solo(s) /\ OneLoop(s)
        /\ told[s] \in Nat /\ ticks[s] \in Nat /\ asked[s] \in Nat
        /\ Owes(s) => told[s] + ticks[s] + 1 <= asked[s]
    BY <1>1, <1>2, <1>4, CloseKnown
  <2>2. ~srv[s].listening /\ srv[s].active /\ ~HasLoop(s)' /\ srv[s].closeRequested
    BY <2>1 DEF OneLoop
  <2>3. told[s] + ticks[s] + 1 <= asked[s]
    BY <2>1, <2>2 DEF Owes
  <2>4. srv'[s].handle = None /\ ~srv'[s].listening
    BY <1>1, <2>2
  <2>5. OneLoop(s)'
    BY <1>1, <2>2, <2>4 DEF OneLoop, HasLoop
  <2>6. CASE srv[s].connections = 0
    <3>1. ~Owes(s)'
      BY <1>1, <2>6 DEF Owes
    <3>2. ticks'[s] = ticks[s] + 1
      BY <1>1, <2>2, <2>4, <2>6 DEF TypeOK
    <3>3. told[s] + (ticks[s] + 1) <= asked[s]
      BY <2>1, <2>3
    <3> QED BY <1>2, <2>1, <2>5, <3>1, <3>2, <3>3 DEF Paid
  <2>7. CASE srv[s].connections # 0
    <3>1. ticks'[s] = ticks[s]
      BY <1>1, <2>7
    <3>2. CASE Owes(s)'
      BY <1>2, <2>1, <2>3, <2>5, <3>1, <3>2 DEF Paid
    <3>3. CASE ~Owes(s)'
      BY <1>2, <2>1, <2>3, <2>5, <3>1, <3>3 DEF Paid
    <3> QED BY <3>2, <3>3
  <2> QED BY <2>6, <2>7
<1> QED BY <1>1, <1>2, <1>3, <1>4, OthersClose
LEMMA EmitCloseClose ==
    ASSUME NetInv, CloseInv, NEW s \in Servers, EmitClose(s)
    PROVE  CloseInv'
<1>1. /\ TypeOK /\ UNCHANGED <<srv, loops, running, asked, mixed, deaf>>
      /\ ticks[s] > 0 /\ ticks' = [ticks EXCEPT ![s] = @ - 1]
      /\ told' = [told EXCEPT ![s] = @ + 1]
  BY DEF NetInv, SoundInv, EmitClose
<1>2. /\ ticks'[s] = ticks[s] - 1 /\ told'[s] = told[s] + 1
      /\ \A t \in Servers \ {s} : ticks'[t] = ticks[t] /\ told'[t] = told[t]
  BY <1>1 DEF TypeOK
<1>3. ASSUME Solo(s)' PROVE OneLoop(s)' /\ Paid(s)'
  <2>1. /\ OneLoop(s)
        /\ told[s] \in Nat /\ ticks[s] \in Nat /\ asked[s] \in Nat
        /\ told[s] + ticks[s] <= asked[s]
        /\ Owes(s) => told[s] + ticks[s] + 1 <= asked[s]
    BY <1>1, <1>3, CloseKnown
  <2>2. OneLoop(s)'
    BY <1>1, <2>1 DEF OneLoop, HasLoop, RunsNow, Stale
  <2>3. Owes(s)' <=> Owes(s)
    BY <1>1 DEF Owes
  <2>4. told'[s] + ticks'[s] = told[s] + ticks[s]
    BY <1>1, <1>2, <2>1
  <2> QED BY <1>1, <2>1, <2>2, <2>3, <2>4 DEF Paid
<1> QED BY <1>1, <1>2, <1>3, OthersClose DEF Others

\* The loop of a listening server goes from accept() to its listeners and back.
LEMMA AnnouncesClose ==
    ASSUME NetInv, CloseInv, NEW x \in loops, Announces(x)
    PROVE  CloseInv'
<1> DEFINE s == x.server
<1>1. /\ TypeOK /\ s \in Servers /\ running = NoLoop /\ ~Stale(x) /\ loops' = loops \ {x}
      /\ Others(s) /\ SameLife(s) /\ deaf \subseteq deaf'
      /\ running' # NoLoop /\ running'.server = s /\ running'.token = x.token
      /\ UNCHANGED <<ticks, asked, told, mixed>>
  BY Known, NotNoLoop DEF NetInv, SoundInv, Announces, loopUnchanged
<1>2. srv[s].listening
  BY <1>1 DEF NetInv, SoundInv, Tokens
<1>3. ASSUME Solo(s)' PROVE OneLoop(s)' /\ Paid(s)'
  <2>1. /\ OneLoop(s)
        /\ told[s] \in Nat /\ ticks[s] \in Nat /\ asked[s] \in Nat
        /\ told[s] + ticks[s] <= asked[s]
    BY <1>1, <1>3, CloseKnown
  <2>2. RunsNow(s)' /\ ~Stale(running)'
    BY <1>1 DEF RunsNow, Stale, SameLife
  <2>3. ~HasLoop(s)'
    BY <1>1, <2>1 DEF OneLoop, HasLoop
  <2>4. OneLoop(s)'
    BY <1>1, <1>2, <2>1, <2>2, <2>3 DEF OneLoop, SameLife, HasLoop
  <2>5. ~Owes(s)'
    BY <1>1, <1>2 DEF Owes, SameLife
  <2> QED BY <1>1, <2>1, <2>4, <2>5 DEF Paid
<1>4. \A t \in Servers \ {s} : ~RunsNow(t) /\ ~RunsNow(t)'
  BY <1>1 DEF RunsNow
<1>5. \A y : y.server # s => (y \in loops' <=> y \in loops)
  BY <1>1
<1> QED BY <1>1, <1>3, <1>4, <1>5, OthersClose

LEMMA GoesOnClose ==
    ASSUME NetInv, CloseInv, GoesOn
    PROVE  CloseInv'
<1> PICK s \in Servers : s = running.server
  BY Known DEF NetInv, SoundInv, GoesOn
<1> PICK new : new = [server |-> s, token |-> running.token, on |-> srv[s].handle]
  OBVIOUS
<1>1. /\ TypeOK /\ running # NoLoop /\ running' = NoLoop /\ ~Stale(running)
      /\ loops' = loops \cup {new} /\ UNCHANGED <<srv, deaf, ticks, asked, told, mixed>>
  BY DEF NetInv, SoundInv, GoesOn, loopUnchanged
<1>2. srv[s].listening /\ RunsNow(s) /\ new.server = s /\ new.token = srv[s].token
  BY <1>1 DEF NetInv, SoundInv, Tokens, RunsNow, Stale
<1>3. ASSUME Solo(s)' PROVE OneLoop(s)' /\ Paid(s)'
  <2>1. /\ OneLoop(s)
        /\ told[s] \in Nat /\ ticks[s] \in Nat /\ asked[s] \in Nat
        /\ told[s] + ticks[s] <= asked[s]
    BY <1>1, <1>3, CloseKnown
  <2>2. ~RunsNow(s)'
    BY <1>1 DEF RunsNow
  <2>3. HasLoop(s)' /\ \A y \in loops' : y.server = s => y = new
    BY <1>1, <1>2, <2>1 DEF OneLoop, HasLoop
  <2>4. ~Stale(new)'
    BY <1>1, <1>2 DEF Stale
  <2>5. OneLoop(s)'
    BY <1>1, <1>2, <2>1, <2>2, <2>3, <2>4 DEF OneLoop
  <2>6. ~Owes(s)'
    BY <1>1, <1>2 DEF Owes
  <2> QED BY <1>1, <2>1, <2>5, <2>6 DEF Paid
<1>4. \A t \in Servers \ {s} : ~RunsNow(t) /\ ~RunsNow(t)'
  BY <1>1 DEF RunsNow
<1>5. \A y : y.server # s => (y \in loops' <=> y \in loops)
  BY <1>1, <1>2
<1>6. Others(s)
  BY <1>1 DEF Others
<1> QED BY <1>1, <1>3, <1>4, <1>5, <1>6, OthersClose

LEMMA EndsLoopClose ==
    ASSUME NetInv, CloseInv, NEW x \in loops, EndsLoop(x)
    PROVE  CloseInv'
<1> DEFINE s == x.server
<1>1. /\ s \in Servers /\ running = NoLoop /\ running' = NoLoop /\ Stale(x)
      /\ loops' = loops \ {x} /\ Ends(s) /\ UNCHANGED <<deaf, loopUnchanged>>
  BY Known DEF NetInv, SoundInv, EndsLoop
<1>2. ASSUME Solo(s) PROVE ~srv[s].listening /\ srv[s].active /\ ~HasLoop(s)'
  <2>1. OneLoop(s) /\ HasLoop(s)
    BY <1>1, <1>2 DEF CloseInv, HasLoop
  <2>2. ~HasLoop(s)'
    BY <1>1, <2>1 DEF OneLoop, HasLoop
  <2> QED BY <1>1, <2>1, <2>2 DEF OneLoop
<1>3. \A t \in Servers : ~RunsNow(t) /\ ~RunsNow(t)'
  BY <1>1 DEF RunsNow
<1>4. \A y : y.server # s => (y \in loops' <=> y \in loops)
  BY <1>1
<1> QED BY <1>1, <1>2, <1>3, <1>4, EndsClose

LEMMA StopsClose ==
    ASSUME NetInv, CloseInv, Stops
    PROVE  CloseInv'
<1> PICK s \in Servers : s = running.server
  BY Known DEF NetInv, SoundInv, Stops
<1>1. /\ running # NoLoop /\ running' = NoLoop /\ Ends(s)
      /\ running.ending \/ ~srv[s].accepting \/ srv[s].handle = None \/ Stale(running)
      /\ UNCHANGED <<loops, deaf, loopUnchanged>>
  BY DEF Stops
<1>2. ASSUME Solo(s) PROVE ~srv[s].listening /\ srv[s].active /\ ~HasLoop(s)'
  <2>1. OneLoop(s) /\ RunsNow(s)
    BY <1>1, <1>2 DEF CloseInv, RunsNow
  <2>2. ~HasLoop(s)' /\ srv[s].active
    BY <1>1, <2>1 DEF OneLoop, HasLoop
  <2>3. ASSUME srv[s].listening PROVE FALSE
    <3>1. ~Stale(running)
      BY <2>1, <2>3 DEF OneLoop
    <3>2. srv[s].accepting /\ srv[s].handle # None
      BY <2>3, Known DEF NetInv, SoundInv, Fields
    <3>3. <<s, running.token>> \in deaf
      BY <1>1, <3>1, <3>2 DEF NetInv, SoundInv, Endings
    <3> QED BY <1>2, <3>3 DEF Solo
  <2> QED BY <2>2, <2>3
<1>3. \A t \in Servers \ {s} : ~RunsNow(t) /\ ~RunsNow(t)'
  BY <1>1 DEF RunsNow
<1>4. ~RunsNow(s)'
  BY <1>1 DEF RunsNow
<1> QED BY <1>1, <1>2, <1>3, <1>4, EndsClose

LEMMA TakesErrorClose ==
    ASSUME NetInv, CloseInv, TakesError
    PROVE  CloseInv'
<1> PICK s \in Servers : s = running.server
  BY Known DEF NetInv, SoundInv, TakesError
<1>1. /\ TypeOK /\ running # NoLoop /\ running' \in Ended /\ running'.server = s
      /\ deaf' = deaf \cup {<<s, running.token>>}
      /\ UNCHANGED <<srv, ticks, loops, asked, told, mixed>>
  BY DEF NetInv, SoundInv, TakesError, loopUnchanged
<1>2. ~Solo(s)'
  <2>1. <<s, running.token>> \in deaf' /\ <<s, running.token>>[1] = s
    BY <1>1
  <2> QED BY <2>1 DEF Solo
<1>3. \A t \in Servers \ {s} : ~RunsNow(t) /\ ~RunsNow(t)'
  BY <1>1 DEF RunsNow
<1> QED BY <1>1, <1>2, <1>3, OthersClose DEF Others

LEMMA CloseStep == NetInv /\ CloseInv /\ [Next]_vars => CloseInv'
<1> SUFFICES ASSUME NetInv, CloseInv, [Next]_vars PROVE CloseInv'
  OBVIOUS
<1>1. SoundInv /\ TypeOK
  BY DEF NetInv, SoundInv
<1>2. ASSUME NEW s \in Servers, UserCalls(s) \/ LookupReturns(s), ~Close(s) PROVE CloseInv'
  <2>1. Calls(s)
    BY <1>1, <1>2, ProgramCalls DEF UserCalls
  <2> QED BY <2>1, CallsClose
<1>3. ASSUME NEW x \in loops, LoopStep(x) PROVE CloseInv'
  BY <1>1, <1>3, LoopStepKinds, EndsLoopClose, AnnouncesClose
<1>4. ASSUME ListenersReturn \/ ListenerThrows PROVE CloseInv'
  BY <1>1, <1>4, ListenersKinds, GoesOnClose, StopsClose, TakesErrorClose
<1>5. ASSUME UNCHANGED <<srv, loops, running, ticks, asked, told, mixed, deaf>> PROVE CloseInv'
  BY <1>5 DEF CloseInv, Solo, OneLoop, HasLoop, RunsNow, Stale, Paid, Owes
<1>6. CASE \/ \E c \in Clients, l \in Listeners : ClientConnects(c, l)
           \/ \E l \in Listeners : WakeEnds(l)
           \/ UNCHANGED vars
  BY <1>5, <1>6 DEF ClientConnects, WakeEnds, connectUnchanged, vars, historyVars
<1> QED BY <1>2, <1>3, <1>4, <1>6, CloseClose, EmitCloseClose, SocketClosesClose DEF Next, UserCalls

LEMMA CloseOnceFollows ==
    ASSUME TypeOK, CloseInv
    PROVE  CloseOnce
<1> SUFFICES ASSUME NEW s \in Servers, Solo(s) PROVE told[s] + ticks[s] <= asked[s]
  BY DEF CloseOnce, Solo
<1>1. Paid(s) /\ told[s] \in Nat /\ ticks[s] \in Nat /\ asked[s] \in Nat
  BY DEF CloseInv, TypeOK
<1>2. CASE Owes(s)
  BY <1>1, <1>2 DEF Paid
<1>3. CASE ~Owes(s)
  BY <1>1, <1>3 DEF Paid
<1> QED BY <1>2, <1>3

LEMMA InitClose == Init => CloseInv
<1> SUFFICES ASSUME Init, NEW s \in Servers PROVE OneLoop(s) /\ Paid(s)
  BY DEF CloseInv
<1>1. /\ srv[s].listening = FALSE /\ srv[s].active = FALSE /\ srv[s].connections = 0
      /\ loops = {} /\ running = NoLoop /\ told[s] = 0 /\ ticks[s] = 0 /\ asked[s] = 0
  BY DEF Init
<1>2. OneLoop(s)
  BY <1>1 DEF OneLoop, HasLoop, RunsNow
<1>3. ~Owes(s)
  BY <1>1 DEF Owes
<1> QED BY <1>1, <1>2, <1>3 DEF Paid

(* The connections of a server are counted exactly, so that its limit and    *)
(* its 'close' go by the truth, and 'close' is announced no more often than  *)
(* close() was called.                                                       *)
THEOREM CountsAlwaysAgree == Spec => []CountsAgree
<1>1. Init => NetInv /\ CloseInv
  BY InitSound, InitCounted, InitClose DEF NetInv
<1>2. NetInv /\ CloseInv => CountsAgree
  <2>1. NetInv => CountIsExact
    BY DEF NetInv, SoundInv, Counted, Of, CountIsExact
  <2> QED BY <2>1, CloseOnceFollows DEF NetInv, SoundInv, CountsAgree
<1> QED BY <1>1, <1>2, NetInvStep, CloseStep, PTL DEF Spec

(* 'connection' is emitted only by a server that listens: an accept() that   *)
(* began before close() or before another listen() has an old token.         *)
THEOREM OnlyOpenServersServe == Spec => ServesWhileOpen
<1> DEFINE Serves == \A c \in Clients, s \in Servers :
                        client[c] # s /\ client'[c] = s => srv[s].listening
<1>1. ASSUME NetInv, [Next]_vars PROVE Serves
  <2> SUFFICES ASSUME NEW c \in Clients, NEW s \in Servers, client[c] # s, client'[c] = s
               PROVE  srv[s].listening
    OBVIOUS
  <2>1. TypeOK /\ client \in [Clients -> Unserved \cup Servers]
        /\ s # "waiting" /\ s # "dropped" /\ s # "closed"
    BY <1>1, NetServerAssumption DEF NetInv, SoundInv, TypeOK, Unserved
  <2>2. PICK x \in loops : Accepts(x)
    <3>1. ~UNCHANGED client
      OBVIOUS
    <3>2. \A d \in Clients : ~SocketCloses(d)
      BY <2>1 DEF SocketCloses
    <3>3. \A d \in Clients, l \in Listeners : ~ClientConnects(d, l)
      BY <2>1 DEF ClientConnects
    <3> QED BY <1>1, <3>1, <3>2, <3>3
        DEF Next, UserCalls, Listen, ListenByName, LookupReturns, ListenOnPath, SetUnrefed, Close,
            EmitClose, WakeEnds, LoopStep, AcceptFails, ListenersReturn, ListenerThrows,
            netVars, connectUnchanged, vars
  <2>3. ~Stale(x) /\ s = x.server
    BY <2>1, <2>2 DEF Accepts
  <2> QED BY <1>1, <2>3 DEF NetInv, SoundInv, Tokens
<1>2. Spec => []NetInv
  BY NetInvIsInvariant
<1>3. NetInv /\ [Next]_vars => [Serves]_vars
  BY <1>1
<1> QED BY <1>2, <1>3, PTL DEF Spec, ServesWhileOpen
=============================================================================
