--------------------------- MODULE BuiltinsProof ----------------------------
(* Proofs about the builtin modules that keep to themselves: ticks run in the *)
(* order of the calls, and between turns a timer waits for those that are     *)
(* queued, for any number of ticks and timers; a program hears of a web       *)
(* socket what its peer did, in order, for any number of messages; a bound    *)
(* datagram socket has one receive loop, for any number of sends; and a test  *)
(* file passes when all of it has, for any tests and suites.                  *)
EXTENDS MCBuiltins, SequencesExt, FiniteSetTheorems, SequenceTheorems, TLAPS

-----------------------------------------------------------------------------
(* Queues.                                                                   *)

LEMMA AppendAfter ==
    ASSUME NEW T, NEW r \in Seq(T), NEW q \in Seq(T), NEW t \in T
    PROVE  r \o Append(q, t) = Append(r \o q, t)
<1>1. Append(q, t) = q \o <<t>> /\ Append(r \o q, t) = (r \o q) \o <<t>>
  BY AppendIsConcat, ConcatProperties
<1>2. (r \o q) \o <<t>> = r \o (q \o <<t>>)
  BY ConcatAssociative
<1> QED BY <1>1, <1>2

LEMMA MoveHead ==
    ASSUME NEW T, NEW r \in Seq(T), NEW q \in Seq(T), q # <<>>
    PROVE  Append(r, Head(q)) \o Tail(q) = r \o q
<1>1. Head(q) \in T /\ Tail(q) \in Seq(T)
  BY HeadTailProperties
<1>2. Append(r, Head(q)) = r \o <<Head(q)>>
  BY <1>1, AppendIsConcat
<1>3. <<Head(q)>> \o Tail(q) = q
  OBVIOUS
<1> QED BY <1>1, <1>2, <1>3, ConcatAssociative

-----------------------------------------------------------------------------
(* The inductive invariant.                                                  *)

\* A drain runs on an empty stack, and a tick in a drain.
Shaped(s) ==
    \/ s = <<>>
    \/ \E f \in Frames \ {"tick"} : s = <<f>>
    \/ \E f \in Draining : s = <<f, "tick">>

\* What is queued is being drained, or has a timer that will drain it.
WakeupComes ==
    /\ wakeupScheduled => wakeups > 0
    /\ escaped = {} /\ nextTickQueue # <<>> =>
        wakeups > 0 \/ (stack # <<>> /\ stack[1] \in Draining)

TicksInv ==
    /\ TypeOK
    /\ ran \o nextTickQueue = called
    /\ Shaped(stack)
    /\ WakeupComes

\* Stacks of that shape.
LEMMA Stacks ==
    ASSUME NEW f, NEW g
    PROVE  /\ <<f>> # <<>> /\ Len(<<f>>) = 1 /\ <<f>>[1] = f
           /\ <<f, g>> # <<>> /\ Len(<<f, g>>) = 2 /\ <<f, g>>[1] = f /\ <<f, g>>[2] = g
           /\ Append(<<f>>, g) = <<f, g>> /\ [<<f>> EXCEPT ![1] = g] = <<g>>
           /\ SubSeq(<<f>>, 1, 0) = <<>> /\ SubSeq(<<f, g>>, 1, 1) = <<f>>
<1> DEFINE a == Append(<<f>>, g)
           b == SubSeq(<<f, g>>, 1, 1)
<1>1. /\ <<f>> \in Seq({f, g}) /\ <<f, g>> \in Seq({f, g}) /\ g \in {f, g}
      /\ <<f>> # <<>> /\ Len(<<f>>) = 1 /\ <<f>>[1] = f
      /\ <<f, g>> # <<>> /\ Len(<<f, g>>) = 2 /\ <<f, g>>[1] = f /\ <<f, g>>[2] = g
  OBVIOUS
<1>2. [<<f>> EXCEPT ![1] = g] = <<g>>
  OBVIOUS
<1>3. SubSeq(<<f>>, 1, 0) = <<>>
  OBVIOUS
<1>4. /\ a \in Seq({f, g}) /\ Len(a) = 2 /\ a[1] = f /\ a[2] = g
      /\ b \in Seq({f, g}) /\ Len(b) = 1 /\ b[1] = f
  BY <1>1
<1> HIDE DEF a, b
<1>5. a = <<f, g>>
  <2>1. \A i \in 1 .. Len(a) : a[i] = <<f, g>>[i]
    BY <1>4
  <2> QED BY <1>1, <1>4, <2>1, SeqEqual
<1>6. b = <<f>>
  <2>1. \A i \in 1 .. Len(b) : b[i] = <<f>>[i]
    BY <1>1, <1>4
  <2> QED BY <1>1, <1>4, <2>1, SeqEqual
<1> QED BY <1>1, <1>2, <1>3, <1>5, <1>6 DEF a, b

LEMMA ShapedIsStack ==
    ASSUME NEW s, Shaped(s)
    PROVE  s \in Seq(Frames)
<1>1. Draining \subseteq Frames /\ "tick" \in Frames
  BY DEF Draining, Frames
<1>2. CASE s = <<>>
  BY <1>2, EmptySeq
<1>3. CASE \E f \in Frames : s = <<f>>
  BY <1>3
<1>4. CASE \E f, g \in Frames : s = <<f, g>>
  BY <1>4
<1> QED BY <1>1, <1>2, <1>3, <1>4 DEF Shaped

\* An activation other than a tick is alone on the stack.
LEMMA RunsAlone ==
    ASSUME Shaped(stack), NEW F, Running(F), "tick" \notin F
    PROVE  \E f \in (Frames \ {"tick"}) \cap F :
              stack = <<f>> /\ Top = f /\ Pop = <<>> /\ \A g : Becomes(g) = <<g>>
<1>1. stack # <<>> /\ Top \in F
  BY DEF Running
<1>2. ASSUME NEW f, stack = <<f, "tick">> PROVE FALSE
  <2>1. Top = "tick"
    BY <1>2, Stacks DEF Top
  <2> QED BY <1>1, <2>1
<1>3. PICK f \in Frames \ {"tick"} : stack = <<f>>
  BY <1>1, <1>2 DEF Shaped
<1>4. Len(stack) = 1 /\ Top = f
  BY <1>3, Stacks DEF Top
<1>5. Pop = <<>> /\ \A g : Becomes(g) = <<g>>
  BY <1>3, <1>4, Stacks DEF Pop, Becomes
<1> QED BY <1>1, <1>3, <1>4, <1>5

LEMMA TickInDrain ==
    ASSUME Shaped(stack), Running({"tick"})
    PROVE  \E f \in Draining : stack = <<f, "tick">> /\ Pop = <<f>> /\ Top = "tick"
<1>1. stack # <<>> /\ Top = "tick"
  BY DEF Running
<1>2. ASSUME NEW f \in Frames \ {"tick"}, stack = <<f>> PROVE FALSE
  <2>1. Top = f
    BY <1>2, Stacks DEF Top
  <2> QED BY <1>1, <1>2, <2>1
<1>3. PICK f \in Draining : stack = <<f, "tick">>
  BY <1>1, <1>2 DEF Shaped
<1>4. Len(stack) = 2
  BY <1>3, Stacks
<1>5. Pop = <<f>>
  <2>1. Pop = SubSeq(stack, 1, 1)
    BY <1>4 DEF Pop
  <2>2. SubSeq(<<f, "tick">>, 1, 1) = <<f>>
    BY Stacks
  <2> QED BY <1>3, <2>1, <2>2
<1> QED BY <1>1, <1>3, <1>5

LEMMA InitTicksInv ==
    ASSUME MaxTimers \in Nat, MaxWakeups \in Nat, Init
    PROVE  TicksInv
<1>1. Shaped(stack)
  <2>1. "turn" \in Frames \ {"tick"} /\ stack = <<"turn">>
    BY DEF Init, Frames
  <2> QED BY <2>1 DEF Shaped
<1>2. stack \in Seq(Frames)
  BY <1>1, ShapedIsStack
<1>3. TypeOK
  <2>1. <<>> \in Seq(Ticks) /\ 0 \in 0 .. MaxWakeups /\ 0 \in 0 .. MaxTimers
    BY EmptySeq
  <2>2. nextTickQueue \in Seq(Ticks) /\ called \in Seq(Ticks) /\ ran \in Seq(Ticks)
    BY <2>1 DEF Init
  <2>3. wakeups \in 0 .. MaxWakeups /\ timers \in 0 .. MaxTimers
    BY <2>1 DEF Init
  <2>4. wakeupScheduled \in BOOLEAN /\ exit \in {"no", "exiting", "emitted"} /\ escaped \subseteq Frames
    BY DEF Init
  <2> QED BY <1>2, <2>2, <2>3, <2>4 DEF TypeOK
<1>4. ran \o nextTickQueue = called
  BY ConcatEmptySeq, EmptySeq DEF Init
<1> QED BY <1>1, <1>3, <1>4 DEF Init, TicksInv, WakeupComes

-----------------------------------------------------------------------------
(* The steps.                                                                *)
QueueKept == UNCHANGED <<nextTickQueue, called, ran>>

LEMMA CallNextTickStep ==
    ASSUME MaxWakeups \in Nat, TicksInv, NEW t \in Ticks, CallNextTick(t)
    PROVE  TicksInv'
<1>1. /\ nextTickQueue' = Append(nextTickQueue, t) /\ called' = Append(called, t)
      /\ UNCHANGED <<timers, ran, stack, exit, escaped>>
      /\ nextTickQueue \in Seq(Ticks) /\ called \in Seq(Ticks) /\ ran \in Seq(Ticks)
  BY DEF CallNextTick, TicksInv, TypeOK
<1>2. wakeups' \in 1 .. MaxWakeups /\ wakeupScheduled' = TRUE
  BY DEF CallNextTick, RequestWakeup, TicksInv, TypeOK, WakeupComes
<1>3. nextTickQueue' \in Seq(Ticks) /\ called' \in Seq(Ticks)
  BY <1>1, AppendProperties
<1>4. ran' \o nextTickQueue' = called'
  BY <1>1, AppendAfter DEF TicksInv
<1>5. TypeOK'
  BY <1>1, <1>2, <1>3 DEF TicksInv, TypeOK
<1> QED BY <1>1, <1>2, <1>4, <1>5 DEF TicksInv, WakeupComes

LEMMA StartTickStep ==
    ASSUME TicksInv, StartTick
    PROVE  TicksInv'
<1>1. /\ nextTickQueue # <<>> /\ nextTickQueue' = Tail(nextTickQueue)
      /\ ran' = Append(ran, Head(nextTickQueue))
      /\ UNCHANGED <<wakeupScheduled, wakeups, timers, called, exit, escaped>>
      /\ nextTickQueue \in Seq(Ticks) /\ ran \in Seq(Ticks)
  BY DEF StartTick, TicksInv, TypeOK
<1>2. PICK f \in Draining : stack = <<f>> /\ stack' = <<f, "tick">>
  <2>1. "tick" \notin Draining
    BY DEF Draining
  <2>2. PICK f \in Draining : stack = <<f>>
    BY <2>1, RunsAlone DEF StartTick, TicksInv
  <2>3. stack' = <<f, "tick">>
    BY <2>2, Stacks DEF StartTick
  <2> QED BY <2>2, <2>3
<1>3. nextTickQueue' \in Seq(Ticks) /\ ran' \in Seq(Ticks)
  BY <1>1, HeadTailProperties, AppendProperties
<1>4. ran' \o nextTickQueue' = called'
  BY <1>1, MoveHead DEF TicksInv
<1>5. Shaped(stack')
  BY <1>2 DEF Shaped
<1>6. stack' \in Seq(Frames)
  BY <1>5, ShapedIsStack
<1>7. TypeOK'
  BY <1>1, <1>3, <1>6 DEF TicksInv, TypeOK
<1>8. WakeupComes'
  BY <1>1, <1>2, Stacks DEF TicksInv, WakeupComes
<1> QED BY <1>4, <1>5, <1>7, <1>8 DEF TicksInv

\* The other steps leave the queue alone.
LEMMA TicksFrame ==
    ASSUME TicksInv, QueueKept, Shaped(stack'), WakeupComes',
           wakeupScheduled' \in BOOLEAN, wakeups' \in 0 .. MaxWakeups, timers' \in 0 .. MaxTimers,
           exit' \in {"no", "exiting", "emitted"}, escaped' \subseteq Frames
    PROVE  TicksInv'
<1>1. stack' \in Seq(Frames)
  BY ShapedIsStack
<1>2. TypeOK'
  BY <1>1 DEF TicksInv, TypeOK, QueueKept
<1> QED BY <1>2 DEF TicksInv, QueueKept

LEMMA StartTimerStep ==
    ASSUME MaxTimers \in Nat, TicksInv, StartTimer
    PROVE  TicksInv'
<1>1. /\ QueueKept /\ UNCHANGED <<wakeupScheduled, wakeups, stack, exit, escaped>>
      /\ timers' \in 0 .. MaxTimers
  BY DEF StartTimer, QueueKept, TicksInv, TypeOK
<1>2. Shaped(stack') /\ WakeupComes'
  BY <1>1 DEF TicksInv, WakeupComes, QueueKept
<1> QED BY <1>1, <1>2, TicksFrame DEF TicksInv, TypeOK

LEMMA ReturnFromProgramStep ==
    ASSUME TicksInv, ReturnFromProgram
    PROVE  TicksInv'
<1>1. /\ QueueKept /\ UNCHANGED <<wakeups, timers, exit, escaped>>
      /\ wakeupScheduled' = wakeupScheduled \/ wakeupScheduled' = FALSE
  BY DEF ReturnFromProgram, QueueKept
<1>2. PICK f \in {"turn", "beforeExit"} :
        stack = <<f>> /\ Top = f /\ Pop = <<>> /\ \A g : Becomes(g) = <<g>>
  BY RunsAlone DEF ReturnFromProgram, TicksInv
<1>3. stack' = <<>> \/ stack' = <<"lastDrain">>
  BY <1>2 DEF ReturnFromProgram
<1>4. "lastDrain" \in Frames \ {"tick"} /\ "lastDrain" \in Draining
  BY DEF Frames, Draining
<1>5. Shaped(stack')
  BY <1>3, <1>4 DEF Shaped
<1>6. ~(stack # <<>> /\ stack[1] \in Draining)
  BY <1>2, Stacks DEF Draining
<1>7. WakeupComes'
  <2>1. wakeupScheduled' => wakeups' > 0
    BY <1>1 DEF TicksInv, WakeupComes
  <2>2. escaped' = {} /\ nextTickQueue' # <<>> => wakeups' > 0
    BY <1>1, <1>6 DEF TicksInv, WakeupComes, QueueKept
  <2> QED BY <2>1, <2>2 DEF WakeupComes
<1> QED BY <1>1, <1>5, <1>7, TicksFrame DEF TicksInv, TypeOK

LEMMA FireTimerStep ==
    ASSUME MaxTimers \in Nat, MaxWakeups \in Nat, TicksInv, FireTimer
    PROVE  TicksInv'
<1>1. /\ QueueKept /\ UNCHANGED <<exit, escaped>> /\ wakeupScheduled' = FALSE
      /\ stack' \in {<<"timerCheckpoint">>, <<"wakeupCheckpoint">>}
  BY DEF FireTimer, QueueKept
<1>2. timers' \in 0 .. MaxTimers /\ wakeups' \in 0 .. MaxWakeups
  BY DEF FireTimer, TicksInv, TypeOK
<1>3. PICK f \in Draining : f \in Frames \ {"tick"} /\ stack' = <<f>>
  BY <1>1 DEF Frames, Draining
<1>4. Shaped(stack') /\ stack' # <<>> /\ stack'[1] \in Draining
  BY <1>3, Stacks DEF Shaped
<1>5. WakeupComes'
  BY <1>1, <1>4 DEF WakeupComes
<1> QED BY <1>1, <1>2, <1>4, <1>5, TicksFrame DEF TicksInv, TypeOK

LEMMA ReturnFromTickStep ==
    ASSUME TicksInv, ReturnFromTick
    PROVE  TicksInv'
<1>1. QueueKept /\ UNCHANGED <<wakeupScheduled, wakeups, timers, exit, escaped>>
  BY DEF ReturnFromTick, QueueKept
<1>2. PICK f \in Draining : f \in Frames \ {"tick"} /\ stack' = <<f>>
  BY TickInDrain DEF ReturnFromTick, TicksInv, Frames, Draining
<1>3. Shaped(stack') /\ stack' # <<>> /\ stack'[1] \in Draining
  BY <1>2, Stacks DEF Shaped
<1>4. WakeupComes'
  BY <1>1, <1>3 DEF TicksInv, WakeupComes
<1> QED BY <1>1, <1>3, <1>4, TicksFrame DEF TicksInv, TypeOK

LEMMA TickEscapesStep ==
    ASSUME TicksInv, TickEscapes
    PROVE  TicksInv'
<1>1. /\ QueueKept /\ UNCHANGED <<wakeupScheduled, wakeups, timers, exit>>
      /\ stack' = <<>>
      /\ escaped' = escaped \cup {stack[i] : i \in 1 .. Len(stack)}
  BY DEF TickEscapes, QueueKept
<1>2. stack \in Seq(Frames) /\ stack # <<>>
  BY DEF TickEscapes, Running, TicksInv, TypeOK
<1>3. Len(stack) \in Nat /\ 1 \in 1 .. Len(stack) /\ \A i \in 1 .. Len(stack) : stack[i] \in Frames
  BY <1>2, EmptySeq
<1>4. escaped' \subseteq Frames /\ escaped' # {}
  BY <1>1, <1>3 DEF TicksInv, TypeOK
<1>5. Shaped(stack') /\ WakeupComes'
  BY <1>1, <1>4 DEF Shaped, TicksInv, WakeupComes
<1> QED BY <1>1, <1>4, <1>5, TicksFrame DEF TicksInv, TypeOK

LEMMA DrainEndsStep ==
    ASSUME TicksInv, DrainEnds
    PROVE  TicksInv'
<1>1. /\ QueueKept /\ UNCHANGED <<wakeups, timers, escaped>>
      /\ nextTickQueue = <<>> /\ nextTickQueue' = <<>> /\ DrainContinuation
  BY DEF DrainEnds, QueueKept
<1>2. PICK f \in Draining :
        stack = <<f>> /\ Top = f /\ Pop = <<>> /\ \A g : Becomes(g) = <<g>>
  <2>1. "tick" \notin Draining
    BY DEF Draining
  <2> QED BY <2>1, RunsAlone DEF DrainEnds, TicksInv
<1>3. /\ wakeupScheduled' = wakeupScheduled \/ wakeupScheduled' = FALSE
      /\ exit' \in {exit, "emitted"}
      /\ stack' = <<>> \/ \E g \in {"turn", "wakeupDrain", "beforeExit"} : stack' = <<g>>
  BY <1>1, <1>2 DEF DrainContinuation, Draining
<1>4. {"turn", "wakeupDrain", "beforeExit"} \subseteq Frames \ {"tick"}
  BY DEF Frames
<1>5. Shaped(stack')
  BY <1>3, <1>4 DEF Shaped
<1>6. WakeupComes'
  <2>1. wakeupScheduled' => wakeups' > 0
    BY <1>1, <1>3 DEF TicksInv, WakeupComes
  <2> QED BY <1>1, <2>1 DEF WakeupComes
<1> QED BY <1>1, <1>3, <1>5, <1>6, TicksFrame DEF TicksInv, TypeOK

LEMMA RunExitHandlersStep ==
    ASSUME TicksInv, RunExitHandlers
    PROVE  TicksInv'
<1>1. /\ QueueKept /\ UNCHANGED <<wakeups, timers, escaped>>
      /\ exit' = "exiting" /\ wakeupScheduled' = FALSE /\ stack' = <<"exitDrain">>
  BY DEF RunExitHandlers, QueueKept
<1>2. "exitDrain" \in Frames \ {"tick"} /\ "exitDrain" \in Draining
  BY DEF Frames, Draining
<1>3. Shaped(stack') /\ stack' # <<>> /\ stack'[1] \in Draining
  BY <1>1, <1>2, Stacks DEF Shaped
<1>4. WakeupComes'
  BY <1>1, <1>3 DEF WakeupComes
<1> QED BY <1>1, <1>3, <1>4, TicksFrame DEF TicksInv, TypeOK

\* A tick that exits leaves its drain to go on; another activation ends with
\* the stack, and what is queued then has its timer or beforeExit was left.
LEMMA ProcessExitStep ==
    ASSUME TicksInv, ProcessExit
    PROVE  TicksInv'
<1>1. /\ QueueKept /\ UNCHANGED <<wakeupScheduled, wakeups, timers>>
      /\ exit' \in {exit, "emitted"} /\ stack' = Pop /\ Running(ProgramFrames)
      /\ escaped' = escaped \/ escaped' = escaped \cup {"beforeExit"}
  BY DEF ProcessExit, QueueKept
<1>2. escaped' \subseteq Frames /\ (escaped' = {} => escaped = {})
  BY <1>1 DEF TicksInv, TypeOK, Frames
<1>3. CASE Top = "tick"
  <2>1. Running({"tick"})
    BY <1>1, <1>3 DEF Running
  <2>2. PICK f \in Draining : f \in Frames \ {"tick"} /\ stack' = <<f>>
    BY <1>1, <2>1, TickInDrain DEF TicksInv, Frames, Draining
  <2>3. Shaped(stack') /\ stack' # <<>> /\ stack'[1] \in Draining
    BY <2>2, Stacks DEF Shaped
  <2>4. WakeupComes'
    BY <1>1, <2>3 DEF TicksInv, WakeupComes
  <2> QED BY <1>1, <1>2, <2>3, <2>4, TicksFrame DEF TicksInv, TypeOK
<1>4. CASE Top # "tick"
  <2>1. Running({"turn", "beforeExit"})
    BY <1>1, <1>4 DEF Running, ProgramFrames
  <2>2. PICK f \in {"turn", "beforeExit"} : stack = <<f>> /\ Pop = <<>>
    BY <2>1, RunsAlone DEF TicksInv
  <2>3. ~(stack # <<>> /\ stack[1] \in Draining)
    BY <2>2, Stacks DEF Draining
  <2>4. Shaped(stack') /\ WakeupComes'
    BY <1>1, <1>2, <2>2, <2>3 DEF Shaped, TicksInv, WakeupComes, QueueKept
  <2> QED BY <1>1, <1>2, <2>4, TicksFrame DEF TicksInv, TypeOK
<1> QED BY <1>3, <1>4

-----------------------------------------------------------------------------
\* Every step keeps the invariant.
LEMMA NextTicksInv ==
    ASSUME MaxTimers \in Nat, MaxWakeups \in Nat, TicksInv, [Next]_vars
    PROVE  TicksInv'
<1>1. CASE \E t \in Ticks : CallNextTick(t)
  BY <1>1, CallNextTickStep
<1>2. CASE StartTimer
  BY <1>2, StartTimerStep
<1>3. CASE ReturnFromProgram
  BY <1>3, ReturnFromProgramStep
<1>4. CASE FireTimer
  BY <1>4, FireTimerStep
<1>5. CASE StartTick
  BY <1>5, StartTickStep
<1>6. CASE ReturnFromTick
  BY <1>6, ReturnFromTickStep
<1>7. CASE DrainEnds
  BY <1>7, DrainEndsStep
<1>8. CASE TickEscapes
  BY <1>8, TickEscapesStep
<1>9. CASE RunExitHandlers
  BY <1>9, RunExitHandlersStep
<1>10. CASE ProcessExit
  BY <1>10, ProcessExitStep
<1>11. CASE UNCHANGED vars
  BY <1>11 DEF vars, TicksInv, TypeOK, Shaped, WakeupComes
<1> QED BY <1>1, <1>2, <1>3, <1>4, <1>5, <1>6, <1>7, <1>8, <1>9, <1>10, <1>11 DEF Next, Job

\* The ticks started and those still queued are, in order, the calls of
\* nextTick; and unless an error escaped a drain, ticks that wait between turns
\* have a wake-up timer, whichever timers, drains and exits came in between.
THEOREM TicksAreInOrder ==
    ASSUME MaxTimers \in Nat, MaxWakeups \in Nat
    PROVE  Spec => []TicksInOrder
<1>1. Init => TicksInv
  BY InitTicksInv
<1>2. TicksInv /\ [Next]_vars => TicksInv'
  BY NextTicksInv
<1>3. TicksInv => TicksInOrder
  BY DEF TicksInv, WakeupComes, TicksInOrder, RunsInOrder, QueuedHasWakeup
<1> QED BY <1>1, <1>2, <1>3, PTL DEF Spec

-----------------------------------------------------------------------------
(* What a program hears of a web socket.                                      *)

Opening == <<"open", "loop">>
Message == <<"message", "loop">>
Failing == <<"error", "close">>
Todos == {<<>>, <<"loop">>, Opening, Message, <<"close">>, Failing, <<"close", "loop">>,
          <<"error", "close", "loop">>}

\* What code that runs leaves to do, and what it finds when it can still act on the socket.
TodoInv ==
    /\ wsTodo \in Todos
    /\ busy => wsTodo \in {<<>>, <<"loop">>, <<"close">>, <<"close", "loop">>}
    /\ readyState # "CLOSED" => wsTodo \in {<<>>, <<"loop">>, Opening, Message}
    /\ api = "stream" => wsTodo = <<>>
    /\ connect = "pending" =>
           /\ inner = "none" /\ ~connection /\ receive = "none" /\ readyState # "OPEN"
           /\ wsTodo \in {<<>>, <<"close">>}

\* One receive() at a time, whose message is counted once.
ReceiveInv ==
    /\ receive # "none" => wsTodo \notin {<<"loop">>, Opening, Message, <<"close", "loop">>,
                                          <<"error", "close", "loop">>}
    /\ got = [i \in 1 .. Len(got) |-> i]
    /\ WebSocket!Taken + (IF wsTodo = Message THEN 1 ELSE 0) <= sent

Open == <<"open">>
Closed == {<<"error", "close">>, <<"open", "close">>, <<"open", "error", "close">>}
Late == {<<"error", "close", "message">>, <<"open", "close", "message">>,
         <<"open", "error", "close", "message">>}

\* The events of a WebSocket that was not closed while it was connecting.
EventsInv ==
    ~early /\ api = "events" =>
        \/ readyState = "CONNECTING" /\ connect = "pending" /\ events = <<>> /\ wsTodo = <<>>
        \/ /\ readyState = "OPEN"
           /\ \/ events = <<>> /\ wsTodo = Opening
              \/ events = Open /\ wsTodo \in {<<>>, <<"loop">>, Message}
        \/ /\ readyState = "CLOSED"
           /\ connect = "done"
           /\ \/ events \in {<<>>, Open} /\ wsTodo \in {Failing, <<"error", "close", "loop">>}
              \/ events \in {Open, <<"error">>, <<"open", "error">>}
                     /\ wsTodo \in {<<"close">>, <<"close", "loop">>}
              \/ events \in Closed /\ wsTodo \in {<<>>, <<"loop">>, Message}
              \/ events \in Late /\ wsTodo \in {<<>>, <<"loop">>} /\ receive = "none"

SocketInv == WebSocket!TypeOK /\ TodoInv /\ ReceiveInv /\ EventsInv

-----------------------------------------------------------------------------
(* Short sequences.                                                           *)

LEMMA SameSequence ==
    ASSUME NEW S, NEW s \in Seq(S), NEW t \in Seq(S), Len(s) = Len(t),
           \A k \in 1 .. Len(s) : s[k] = t[k]
    PROVE  s = t
  OBVIOUS

LEMMA Two == \A a, b : Append(<<a>>, b) = <<a, b>>
  <1> TAKE a, b
  <1>1. Append(<<a>>, b) \in Seq({a, b}) /\ <<a, b>> \in Seq({a, b})
    OBVIOUS
  <1>2. Len(Append(<<a>>, b)) = 2 /\ Len(<<a, b>>) = 2
    OBVIOUS
  <1>3. \A k \in 1 .. 2 : (Append(<<a>>, b))[k] = <<a, b>>[k]
    OBVIOUS
  <1> QED BY <1>1, <1>2, <1>3, SameSequence

LEMMA Three == \A a, b, c : Append(<<a, b>>, c) = <<a, b, c>>
  <1> TAKE a, b, c
  <1>1. Append(<<a, b>>, c) \in Seq({a, b, c}) /\ <<a, b, c>> \in Seq({a, b, c})
    OBVIOUS
  <1>2. Len(Append(<<a, b>>, c)) = 3 /\ Len(<<a, b, c>>) = 3
    OBVIOUS
  <1>3. \A k \in 1 .. 3 : (Append(<<a, b>>, c))[k] = <<a, b, c>>[k]
    OBVIOUS
  <1> QED BY <1>1, <1>2, <1>3, SameSequence

LEMMA Four == \A a, b, c, d : Append(<<a, b, c>>, d) = <<a, b, c, d>>
  <1> TAKE a, b, c, d
  <1>1. Append(<<a, b, c>>, d) \in Seq({a, b, c, d}) /\ <<a, b, c, d>> \in Seq({a, b, c, d})
    OBVIOUS
  <1>2. Len(Append(<<a, b, c>>, d)) = 4 /\ Len(<<a, b, c, d>>) = 4
    OBVIOUS
  <1>3. \A k \in 1 .. 4 : (Append(<<a, b, c>>, d))[k] = <<a, b, c, d>>[k]
    OBVIOUS
  <1> QED BY <1>1, <1>2, <1>3, SameSequence

LEMMA OneAndOne == \A a, b : <<a>> \o <<b>> = <<a, b>>
  <1> TAKE a, b
  <1>1. <<a>> \o <<b>> \in Seq({a, b}) /\ <<a, b>> \in Seq({a, b})
    OBVIOUS
  <1>2. Len(<<a>> \o <<b>>) = 2 /\ Len(<<a, b>>) = 2
    OBVIOUS
  <1>3. \A k \in 1 .. 2 : (<<a>> \o <<b>>)[k] = <<a, b>>[k]
    OBVIOUS
  <1> QED BY <1>1, <1>2, <1>3, SameSequence

LEMMA TwoAndOne == \A a, b, c : <<a, b>> \o <<c>> = <<a, b, c>>
  <1> TAKE a, b, c
  <1>1. <<a, b>> \o <<c>> \in Seq({a, b, c}) /\ <<a, b, c>> \in Seq({a, b, c})
    OBVIOUS
  <1>2. Len(<<a, b>> \o <<c>>) = 3 /\ Len(<<a, b, c>>) = 3
    OBVIOUS
  <1>3. \A k \in 1 .. 3 : (<<a, b>> \o <<c>>)[k] = <<a, b, c>>[k]
    OBVIOUS
  <1> QED BY <1>1, <1>2, <1>3, SameSequence

LEMMA Heads ==
    /\ Head(Opening) = "open" /\ Tail(Opening) = <<"loop">> /\ Opening # <<>>
    /\ Head(Message) = "message" /\ Tail(Message) = <<"loop">> /\ Message # <<>>
    /\ Head(Failing) = "error" /\ Tail(Failing) = <<"close">> /\ Failing # <<>>
    /\ Head(<<"loop">>) = "loop" /\ Tail(<<"loop">>) = <<>> /\ <<"loop">> # <<>>
    /\ Head(<<"close">>) = "close" /\ Tail(<<"close">>) = <<>> /\ <<"close">> # <<>>
    /\ Head(<<"close", "loop">>) = "close" /\ Tail(<<"close", "loop">>) = <<"loop">>
    /\ <<"close", "loop">> # <<>>
    /\ Head(<<"error", "close", "loop">>) = "error"
    /\ Tail(<<"error", "close", "loop">>) = <<"close", "loop">>
    /\ <<"error", "close", "loop">> # <<>>
  BY DEF Opening, Message, Failing

LEMMA Fronts ==
    /\ <<"close">> \o <<>> = <<"close">> /\ <<"close">> \o <<"loop">> = <<"close", "loop">>
    /\ Failing \o <<>> = Failing /\ Failing \o <<"loop">> = <<"error", "close", "loop">>
  BY OneAndOne, TwoAndOne DEF Failing

LEMMA Ends ==
    /\ Append(<<>>, "open") = Open
    /\ Append(<<>>, "error") = <<"error">> /\ Append(Open, "error") = <<"open", "error">>
    /\ Append(Open, "close") = <<"open", "close">>
    /\ Append(<<"error">>, "close") = <<"error", "close">>
    /\ Append(<<"open", "error">>, "close") = <<"open", "error", "close">>
    /\ Append(<<"error", "close">>, "message") = <<"error", "close", "message">>
    /\ Append(<<"open", "close">>, "message") = <<"open", "close", "message">>
    /\ Append(<<"open", "error", "close">>, "message") = <<"open", "error", "close", "message">>
  BY Two, Three, Four DEF Open

\* No two of the things left to do are the same, and what they hold.
LEMMA TodosApart ==
    /\ Opening \notin {<<>>, <<"loop">>, Message, <<"close">>, Failing, <<"close", "loop">>,
                       <<"error", "close", "loop">>}
    /\ Message \notin {<<>>, <<"loop">>, <<"close">>, Failing, <<"close", "loop">>,
                       <<"error", "close", "loop">>}
    /\ Failing \notin {<<>>, <<"loop">>, <<"close">>, <<"close", "loop">>,
                       <<"error", "close", "loop">>}
    /\ <<"loop">> \notin {<<>>, <<"close">>, <<"close", "loop">>, <<"error", "close", "loop">>}
    /\ <<"close">> \notin {<<>>, <<"close", "loop">>, <<"error", "close", "loop">>}
    /\ <<"close", "loop">> \notin {<<>>, <<"error", "close", "loop">>}
  BY DEF Opening, Message, Failing

LEMMA TodosTyped ==
    ASSUME NEW t \in Todos
    PROVE  t \in Seq({"open", "message", "error", "close", "loop"})
  <1> DEFINE U == {"open", "message", "error", "close", "loop"}
  <1>1. "open" \in U /\ "message" \in U /\ "error" \in U /\ "close" \in U /\ "loop" \in U
    OBVIOUS
  <1> HIDE DEF U
  <1>2. <<>> \in Seq(U) /\ <<"loop">> \in Seq(U) /\ <<"close">> \in Seq(U)
    BY <1>1
  <1>3. Opening \in Seq(U) /\ Message \in Seq(U) /\ Failing \in Seq(U)
    BY <1>1 DEF Opening, Message, Failing
  <1>4. <<"close", "loop">> \in Seq(U)
    BY <1>1
  <1>5. <<"error", "close", "loop">> \in Seq(U)
    BY <1>1
  <1> QED BY <1>2, <1>3, <1>4, <1>5 DEF Todos, U

LEMMA EventsApart ==
    /\ <<>> \notin {Open, <<"error">>, <<"open", "error">>} \cup Closed \cup Late
    /\ Open \notin {<<"error">>, <<"open", "error">>} \cup Closed \cup Late
    /\ \A e \in Closed \cup Late : WebSocket!Contains(e, "close")
    /\ \A e \in {<<>>, Open, <<"error">>, <<"open", "error">>} : ~WebSocket!Contains(e, "close")
  BY DEF Open, Closed, Late, WebSocket!Contains

-----------------------------------------------------------------------------
(* The steps.                                                                 *)

LEMMA InitSocket ==
    ASSUME MaxMessages \in Nat, WebSocket!Init
    PROVE  SocketInv
  <1>1. WebSocket!TypeOK
    <2>1. wsTodo = <<>> /\ got = <<>> /\ events = <<>>
      BY DEF WebSocket!Init
    <2>2. wsTodo \in Seq({"open", "message", "error", "close", "loop"})
      BY <2>1
    <2>3. got \in Seq(1 .. MaxMessages)
      BY <2>1
    <2>4. events \in Seq({"open", "message", "error", "close"})
      BY <2>1
    <2>5. sent \in 0 .. MaxMessages
      BY DEF WebSocket!Init
    <2>6. /\ api \in Apis /\ busy \in BOOLEAN /\ early \in BOOLEAN /\ connection \in BOOLEAN
          /\ connect \in {"pending", "done"}
          /\ readyState \in {"CONNECTING", "OPEN", "CLOSED"}
          /\ inner \in {"none", "open", "taken"}
          /\ receive \in {"none", "waiting"} \cup WebSocket!Answers
          /\ ended \in {"no", "closed", "error"}
          /\ opened \in {"pending", "resolved", "rejected"}
          /\ closed \in {"pending", "resolved", "rejected"}
          /\ controller \in {"readable", "closed", "errored"}
      BY DEF WebSocket!Init
    <2> QED BY <2>2, <2>3, <2>4, <2>5, <2>6 DEF WebSocket!TypeOK
  <1>2. TodoInv
    BY DEF WebSocket!Init, TodoInv, Todos
  <1>3. ReceiveInv
    <2>1. Message # <<>>
      BY Heads
    <2>2. got = <<>> /\ Len(got) = 0 /\ WebSocket!Taken = 0
      BY DEF WebSocket!Init, WebSocket!Taken
    <2>3. got = [i \in 1 .. Len(got) |-> i]
      BY <2>2
    <2> QED BY <2>1, <2>2, <2>3 DEF WebSocket!Init, ReceiveInv
  <1>4. EventsInv
    BY DEF WebSocket!Init, EventsInv
  <1> QED BY <1>1, <1>2, <1>3, <1>4 DEF SocketInv

LEMMA TakenIs ==
    ASSUME WebSocket!TypeOK
    PROVE  /\ WebSocket!Taken \in Nat /\ Len(got) \in Nat
           /\ receive = "data" => WebSocket!Taken = Len(got) + 1
           /\ receive # "data" => WebSocket!Taken = Len(got)
  BY DEF WebSocket!TypeOK, WebSocket!Taken

\* What the host does says nothing to the program yet.
LEMMA HostKeeps ==
    ASSUME MaxMessages \in Nat, SocketInv,
           WebSocket!PeerSends \/ WebSocket!PeerEnds \/ WebSocket!NativeReceive
               \/ WebSocket!NativeReceiveThrows
    PROVE  SocketInv'
  <1>1. WebSocket!TypeOK /\ TodoInv /\ ReceiveInv /\ EventsInv
    BY DEF SocketInv
  <1>2. CASE WebSocket!PeerSends \/ WebSocket!PeerEnds
    <2>1. /\ UNCHANGED <<api, busy, wsTodo, connect, readyState, connection, inner, receive, got,
                         events, early, opened, closed, controller>>
          /\ sent' \in 0 .. MaxMessages /\ sent' >= sent /\ ended' \in {"no", "closed", "error"}
      BY <1>1, <1>2 DEF WebSocket!PeerSends, WebSocket!PeerEnds, WebSocket!streamVars,
         WebSocket!TypeOK
    <2>2. WebSocket!TypeOK'
      BY <1>1, <2>1 DEF WebSocket!TypeOK
    <2>3. TodoInv' /\ EventsInv'
      BY <1>1, <2>1 DEF TodoInv, EventsInv
    <2>4. ReceiveInv'
      <3>1. sent \in Nat /\ sent' \in Nat
        BY <1>1, <2>1 DEF WebSocket!TypeOK
      <3>2. WebSocket!Taken' = WebSocket!Taken
        BY <2>1 DEF WebSocket!Taken
      <3> QED BY <1>1, <2>1, <3>1, <3>2, TakenIs DEF ReceiveInv
    <2> QED BY <2>2, <2>3, <2>4 DEF SocketInv
  <1>3. CASE WebSocket!NativeReceive \/ WebSocket!NativeReceiveThrows
    <2>1. /\ UNCHANGED <<api, busy, wsTodo, connect, readyState, connection, inner, sent, ended, got,
                         events, early, opened, closed, controller>>
          /\ receive = "waiting" /\ receive' \in WebSocket!Answers
          /\ receive' = "data" => WebSocket!Taken < sent
      BY <1>1, <1>3 DEF WebSocket!NativeReceive, WebSocket!NativeReceiveThrows, WebSocket!Answer,
         WebSocket!streamVars, WebSocket!peerVars, WebSocket!TypeOK, WebSocket!Answers
    <2>2. WebSocket!TypeOK'
      BY <1>1, <2>1 DEF WebSocket!TypeOK
    <2>3. TodoInv' /\ EventsInv'
      BY <1>1, <2>1 DEF TodoInv, EventsInv
    <2>4. ReceiveInv'
      <3>1. wsTodo # Message
        BY <1>1, <2>1 DEF ReceiveInv
      <3>2. WebSocket!Taken' \in Nat /\ WebSocket!Taken' <= sent
        BY <1>1, <2>1, <2>2 DEF WebSocket!Taken, WebSocket!TypeOK, ReceiveInv
      <3> QED BY <1>1, <2>1, <3>1, <3>2 DEF ReceiveInv
    <2> QED BY <2>2, <2>3, <2>4 DEF SocketInv
  <1> QED BY <1>2, <1>3

LEMMA TurnsKeep ==
    ASSUME SocketInv, WebSocket!ProgramTurn \/ WebSocket!ProgramReturns
    PROVE  SocketInv'
  <1>1. WebSocket!TypeOK /\ TodoInv /\ ReceiveInv /\ EventsInv
    BY DEF SocketInv
  <1>2. /\ UNCHANGED <<api, wsTodo, connect, readyState, connection, inner, receive, sent, ended, got,
                       events, early, opened, closed, controller>>
        /\ busy' \in BOOLEAN /\ (busy' => wsTodo = <<>>)
    BY DEF WebSocket!ProgramTurn, WebSocket!ProgramReturns, WebSocket!Idle, WebSocket!streamVars,
       WebSocket!peerVars
  <1>3. WebSocket!TypeOK'
    BY <1>1, <1>2 DEF WebSocket!TypeOK
  <1>4. TodoInv'
    BY <1>1, <1>2 DEF TodoInv
  <1>5. ReceiveInv' /\ EventsInv'
    BY <1>1, <1>2 DEF ReceiveInv, EventsInv, WebSocket!Taken
  <1> QED BY <1>3, <1>4, <1>5 DEF SocketInv

LEMMA OneMore ==
    ASSUME NEW s, s = [i \in 1 .. Len(s) |-> i], Len(s) \in Nat
    PROVE  /\ Append(s, Len(s) + 1) = [i \in 1 .. Len(s) + 1 |-> i]
           /\ Len(Append(s, Len(s) + 1)) = Len(s) + 1
  <1>1. s \in Seq(Nat)
    OBVIOUS
  <1> QED BY <1>1

LEMMA DispatchKeeps ==
    ASSUME MaxMessages \in Nat, SocketInv, WebSocket!Dispatch
    PROVE  SocketInv'
  <1>1. WebSocket!TypeOK /\ TodoInv /\ ReceiveInv /\ EventsInv
    BY DEF SocketInv
  <1>2. /\ ~busy /\ wsTodo # <<>> /\ Head(wsTodo) # "loop" /\ busy' = TRUE /\ wsTodo' = Tail(wsTodo)
        /\ UNCHANGED <<api, connect, readyState, connection, inner, receive, sent, ended, early,
                       opened, closed, controller>>
    BY DEF WebSocket!Dispatch, WebSocket!streamVars, WebSocket!peerVars
  <1>3. wsTodo \in {Opening, Message, <<"close">>, Failing, <<"close", "loop">>,
                    <<"error", "close", "loop">>}
    BY <1>1, <1>2, Heads DEF TodoInv, Todos
  <1>4. TodoInv'
    <2>1. /\ wsTodo = Opening => wsTodo' = <<"loop">>
          /\ wsTodo = Message => wsTodo' = <<"loop">>
          /\ wsTodo = <<"close">> => wsTodo' = <<>>
          /\ wsTodo = Failing => wsTodo' = <<"close">>
          /\ wsTodo = <<"close", "loop">> => wsTodo' = <<"loop">>
          /\ wsTodo = <<"error", "close", "loop">> => wsTodo' = <<"close", "loop">>
      BY <1>2, Heads
    <2>2. wsTodo' \in {<<>>, <<"loop">>, <<"close">>, <<"close", "loop">>}
      BY <1>3, <2>1
    <2>3. readyState # "CLOSED" => wsTodo' = <<"loop">>
      BY <1>1, <1>3, <2>1, TodosApart DEF TodoInv
    <2>4. connect = "pending" => wsTodo' \in {<<>>, <<"close">>}
      BY <1>1, <1>2, <1>3, <2>1, TodosApart DEF TodoInv
    <2>5. api # "stream"
      BY <1>1, <1>2 DEF TodoInv
    <2> QED BY <1>1, <1>2, <2>2, <2>3, <2>4, <2>5 DEF TodoInv, Todos
  <1>5. CASE wsTodo = Message
    <2>1. /\ got' = Append(got, Len(got) + 1) /\ wsTodo' = <<"loop">> /\ receive = "none"
          /\ events' = IF WebSocket!HasClosed THEN Append(events, "message") ELSE events
      BY <1>1, <1>5, Heads DEF WebSocket!Dispatch, ReceiveInv
    <2>2. /\ Len(got) \in Nat /\ got \in Seq(1 .. MaxMessages) /\ WebSocket!Taken = Len(got)
          /\ sent \in 0 .. MaxMessages /\ Len(got) + 1 <= sent
          /\ events \in Seq({"open", "message", "error", "close"})
      BY <1>1, <1>5, <2>1, TakenIs DEF WebSocket!TypeOK, ReceiveInv
    <2>3. Len(got) + 1 \in 1 .. MaxMessages
      BY <2>2
    <2>4. got' \in Seq(1 .. MaxMessages) /\ Len(got') = Len(got) + 1
      BY <2>1, <2>2, <2>3
    <2>5. got' = [i \in 1 .. Len(got') |-> i]
      <3>1. got = [i \in 1 .. Len(got) |-> i]
        BY <1>1 DEF ReceiveInv
      <3>2. PICK s \in Seq(1 .. MaxMessages) : s = got
        BY <2>2
      <3>3. Append(s, Len(s) + 1) = [i \in 1 .. Len(s) + 1 |-> i]
        BY <2>2, <3>1, <3>2, OneMore
      <3> QED BY <2>1, <2>4, <3>2, <3>3
    <2>6. events' \in Seq({"open", "message", "error", "close"})
      BY <2>1, <2>2
    <2>7. WebSocket!TypeOK'
      <3>1. wsTodo' \in Seq({"open", "message", "error", "close", "loop"})
        BY <2>1, TodosTyped DEF Todos
      <3> QED BY <1>1, <1>2, <2>4, <2>6, <3>1 DEF WebSocket!TypeOK
    <2>8. ReceiveInv'
      <3>1. WebSocket!Taken' = Len(got) + 1
        BY <1>2, <2>1, <2>4 DEF WebSocket!Taken
      <3>2. wsTodo' # Message
        BY <2>1, TodosApart
      <3>3. WebSocket!Taken' + (IF wsTodo' = Message THEN 1 ELSE 0) <= sent'
        BY <1>2, <2>2, <3>1, <3>2
      <3>4. receive' = "none"
        BY <1>2, <2>1
      <3> QED BY <2>5, <3>3, <3>4 DEF ReceiveInv
    <2>9. EventsInv'
      <3> SUFFICES ASSUME ~early, api = "events" PROVE EventsInv'
        BY <1>2 DEF EventsInv
      <3>1. \/ readyState = "OPEN" /\ events = Open
            \/ readyState = "CLOSED" /\ connect = "done" /\ events \in Closed
        BY <1>1, <1>5, TodosApart DEF EventsInv
      <3>2. CASE readyState = "OPEN" /\ events = Open
        <4>1. events' = Open
          BY <2>1, <3>2, EventsApart DEF WebSocket!HasClosed
        <4> QED BY <1>2, <2>1, <3>2, <4>1 DEF EventsInv
      <3>3. CASE readyState = "CLOSED" /\ connect = "done" /\ events \in Closed
        <4>1. events' = Append(events, "message")
          BY <2>1, <3>3, EventsApart DEF WebSocket!HasClosed
        <4>2. events' \in Late
          BY <3>3, <4>1, Ends DEF Closed, Late
        <4> QED BY <1>2, <2>1, <3>3, <4>2 DEF EventsInv
      <3> QED BY <3>1, <3>2, <3>3
    <2> QED BY <1>4, <2>7, <2>8, <2>9 DEF SocketInv
  <1>6. CASE wsTodo # Message
    <2>1. /\ Head(wsTodo) \in {"open", "close", "error"} /\ wsTodo' \in Todos
          /\ wsTodo' \in {<<"loop">>, <<>>, <<"close">>, <<"close", "loop">>}
      BY <1>2, <1>3, <1>4, <1>6, Heads DEF TodoInv
    <2>2. events' = Append(events, Head(wsTodo)) /\ got' = got
      BY <2>1 DEF WebSocket!Dispatch
    <2>3. events' \in Seq({"open", "message", "error", "close"})
      BY <1>1, <2>1, <2>2 DEF WebSocket!TypeOK
    <2>4. WebSocket!TypeOK'
      BY <1>1, <1>2, <2>1, <2>2, <2>3, TodosTyped DEF WebSocket!TypeOK
    <2>5. ReceiveInv'
      <3>1. WebSocket!Taken' = WebSocket!Taken
        BY <1>2, <2>2 DEF WebSocket!Taken
      <3>2. wsTodo' # Message
        BY <2>1, TodosApart
      <3>3. receive # "none" => wsTodo \in {<<"close">>, Failing}
        BY <1>1, <1>3, <1>6 DEF ReceiveInv
      <3>4. receive # "none" => wsTodo' \in {<<>>, <<"close">>}
        BY <1>2, <3>3, Heads
      <3>5. receive # "none" => wsTodo' \notin {<<"loop">>, Opening, Message, <<"close", "loop">>,
                                                <<"error", "close", "loop">>}
        BY <3>4, TodosApart
      <3> QED BY <1>1, <1>2, <1>6, <2>2, <3>1, <3>2, <3>5 DEF ReceiveInv
    <2>6. EventsInv'
      <3> SUFFICES ASSUME ~early, api = "events" PROVE EventsInv'
        BY <1>2 DEF EventsInv
      <3>1. CASE wsTodo = Opening
        <4>1. readyState = "OPEN" /\ events = <<>>
          BY <1>1, <3>1, TodosApart DEF EventsInv
        <4>2. events' = Open /\ wsTodo' = <<"loop">>
          BY <1>2, <2>2, <3>1, <4>1, Heads, Ends
        <4> QED BY <1>2, <4>1, <4>2 DEF EventsInv
      <3>2. CASE wsTodo \in {Failing, <<"error", "close", "loop">>}
        <4>1. readyState = "CLOSED" /\ connect = "done" /\ events \in {<<>>, Open}
          BY <1>1, <3>2, TodosApart DEF EventsInv
        <4>2. /\ events' \in {<<"error">>, <<"open", "error">>}
              /\ wsTodo' \in {<<"close">>, <<"close", "loop">>}
          BY <1>2, <2>2, <3>2, <4>1, Heads, Ends
        <4> QED BY <1>2, <4>1, <4>2 DEF EventsInv
      <3>3. CASE wsTodo \in {<<"close">>, <<"close", "loop">>}
        <4>1. readyState = "CLOSED" /\ connect = "done"
              /\ events \in {Open, <<"error">>, <<"open", "error">>}
          BY <1>1, <3>3, TodosApart DEF EventsInv
        <4>2. events' \in Closed /\ wsTodo' \in {<<>>, <<"loop">>}
          BY <1>2, <2>2, <3>3, <4>1, Heads, Ends DEF Closed
        <4> QED BY <1>2, <4>1, <4>2 DEF EventsInv
      <3> QED BY <1>3, <1>6, <3>1, <3>2, <3>3
    <2> QED BY <1>4, <2>4, <2>5, <2>6 DEF SocketInv
  <1> QED BY <1>5, <1>6

LEMMA ConnectKeeps ==
    ASSUME SocketInv, NEW ok \in BOOLEAN, WebSocket!Connect(ok)
    PROVE  SocketInv'
  <1>1. WebSocket!TypeOK /\ TodoInv /\ ReceiveInv /\ EventsInv
    BY DEF SocketInv
  <1>2. /\ api = "events" /\ ~busy /\ wsTodo = <<>> /\ connect = "pending" /\ connect' = "done"
        /\ UNCHANGED <<api, busy, receive, sent, ended, got, events, early, opened, closed, controller>>
    BY DEF WebSocket!Connect, WebSocket!Idle, WebSocket!streamVars, WebSocket!peerVars
  <1>3. receive = "none"
    BY <1>1, <1>2 DEF TodoInv
  <1>4. \/ /\ connection' = TRUE /\ inner' = "open" /\ readyState' = "OPEN" /\ wsTodo' = Opening
        \/ /\ readyState' = "CLOSED" /\ wsTodo' = Failing /\ UNCHANGED <<connection, inner>>
    BY DEF WebSocket!Connect, Opening, Failing
  <1>5. wsTodo' \in {Opening, Failing} /\ wsTodo' \in Todos
    BY <1>4 DEF Todos
  <1>6. WebSocket!TypeOK'
    BY <1>1, <1>2, <1>4, <1>5, TodosTyped DEF WebSocket!TypeOK
  <1>7. TodoInv'
    BY <1>1, <1>2, <1>4, <1>5 DEF TodoInv
  <1>8. ReceiveInv'
    <2>1. WebSocket!Taken' = WebSocket!Taken
      BY <1>2 DEF WebSocket!Taken
    <2>2. wsTodo # Message /\ wsTodo' # Message
      BY <1>2, <1>5, TodosApart, Heads
    <2> QED BY <1>1, <1>2, <1>3, <2>1, <2>2 DEF ReceiveInv
  <1>9. EventsInv'
    <2> SUFFICES ASSUME ~early PROVE EventsInv'
      BY <1>2 DEF EventsInv
    <2>1. events = <<>>
      BY <1>1, <1>2, Heads, TodosApart DEF EventsInv, TodoInv
    <2> QED BY <1>2, <1>4, <2>1 DEF EventsInv
  <1> QED BY <1>6, <1>7, <1>8, <1>9 DEF SocketInv

LEMMA LoopKeeps ==
    ASSUME SocketInv, WebSocket!Loop
    PROVE  SocketInv'
  <1>1. WebSocket!TypeOK /\ TodoInv /\ ReceiveInv /\ EventsInv
    BY DEF SocketInv
  <1>2. /\ api = "events" /\ ~busy /\ wsTodo # <<>> /\ Head(wsTodo) = "loop" /\ wsTodo' = Tail(wsTodo)
        /\ receive' = IF readyState = "OPEN" /\ connection THEN "waiting" ELSE "none"
        /\ UNCHANGED <<api, busy, connect, readyState, connection, inner, sent, ended, got, events,
                       early, opened, closed, controller>>
    BY DEF WebSocket!Loop, WebSocket!streamVars, WebSocket!peerVars
  <1>3. wsTodo = <<"loop">>
    BY <1>1, <1>2, Heads DEF TodoInv, Todos
  <1>4. wsTodo' = <<>> /\ wsTodo' \in Todos
    BY <1>2, <1>3, Heads DEF Todos
  <1>5. WebSocket!TypeOK'
    BY <1>1, <1>2, <1>4, TodosTyped DEF WebSocket!TypeOK
  <1>6. connect # "pending"
    BY <1>1, <1>3, TodosApart DEF TodoInv
  <1>7. TodoInv'
    BY <1>1, <1>2, <1>4, <1>6 DEF TodoInv
  <1>8. ReceiveInv'
    <2>1. wsTodo # Message /\ wsTodo' # Message /\ wsTodo' \notin {<<"loop">>, Opening, Message,
                                         <<"close", "loop">>, <<"error", "close", "loop">>}
      BY <1>3, <1>4, TodosApart, Heads
    <2>2. WebSocket!Taken' <= WebSocket!Taken /\ WebSocket!Taken' \in Nat /\ WebSocket!Taken \in Nat
      BY <1>1, <1>2 DEF WebSocket!Taken, WebSocket!TypeOK
    <2>3. sent \in Nat /\ WebSocket!Taken <= sent
      BY <1>1, <2>1, <2>2 DEF WebSocket!TypeOK, ReceiveInv
    <2>4. WebSocket!Taken' + (IF wsTodo' = Message THEN 1 ELSE 0) <= sent'
      <3>1. (IF wsTodo' = Message THEN 1 ELSE 0) = 0 /\ sent' = sent
        BY <1>2, <2>1
      <3>2. \A k, l, m \in Nat : k <= l /\ l <= m => k + 0 <= m
        OBVIOUS
      <3>3. WebSocket!Taken' + 0 <= sent
        BY ONLY <2>2, <2>3, <3>2, Zenon
      <3> QED BY ONLY <3>1, <3>3, Zenon
    <2>5. (got = [i \in 1 .. Len(got) |-> i])'
      BY <1>1, <1>2 DEF ReceiveInv
    <2> QED BY <2>1, <2>4, <2>5 DEF ReceiveInv
  <1>9. EventsInv'
    <2> SUFFICES ASSUME ~early PROVE EventsInv'
      BY <1>2 DEF EventsInv
    <2>1. \/ readyState = "OPEN" /\ events = Open
          \/ readyState = "CLOSED" /\ connect = "done" /\ events \in Closed \cup Late
      BY <1>1, <1>2, <1>3, TodosApart DEF EventsInv
    <2>2. readyState = "CLOSED" => receive' = "none"
      BY <1>2
    <2> QED BY <1>2, <1>4, <2>1, <2>2 DEF EventsInv
  <1> QED BY <1>5, <1>7, <1>8, <1>9 DEF SocketInv

LEMMA ReceivedKeeps ==
    ASSUME SocketInv, WebSocket!Received
    PROVE  SocketInv'
  <1>1. WebSocket!TypeOK /\ TodoInv /\ ReceiveInv /\ EventsInv
    BY DEF SocketInv
  <1>2. /\ api = "events" /\ ~busy /\ wsTodo = <<>> /\ receive \in WebSocket!Answers /\ receive' = "none"
        /\ UNCHANGED <<api, busy, connect, connection, inner, sent, ended, got, events, early,
                       opened, closed, controller>>
    BY DEF WebSocket!Received, WebSocket!Idle, WebSocket!streamVars, WebSocket!peerVars
  <1>3. receive # "none" /\ connect = "done"
    BY <1>1, <1>2 DEF WebSocket!Answers, TodoInv, WebSocket!TypeOK
  <1>4. CASE receive = "data"
    <2>1. wsTodo' = Message /\ readyState' = readyState
      BY <1>4 DEF WebSocket!Received, Message
    <2>2. WebSocket!TypeOK'
      BY <1>1, <1>2, <2>1, TodosTyped DEF WebSocket!TypeOK, Todos
    <2>3. TodoInv'
      BY <1>1, <1>2, <1>3, <2>1 DEF TodoInv, Todos
    <2>4. ReceiveInv'
      <3>1. wsTodo # Message
        BY <1>2, Heads
      <3>2. /\ WebSocket!Taken = Len(got) + 1 /\ WebSocket!Taken' = Len(got) /\ Len(got) \in Nat
        BY <1>1, <1>2, <1>4, TakenIs DEF WebSocket!Taken
      <3>3. sent \in Nat /\ WebSocket!Taken <= sent
        BY <1>1, <3>1, <3>2 DEF WebSocket!TypeOK, ReceiveInv
      <3>4. WebSocket!Taken' + (IF wsTodo' = Message THEN 1 ELSE 0) <= sent'
        BY <1>2, <2>1, <3>2, <3>3
      <3>5. (got = [i \in 1 .. Len(got) |-> i])'
        BY <1>1, <1>2 DEF ReceiveInv
      <3> QED BY <1>2, <3>4, <3>5 DEF ReceiveInv
    <2>5. EventsInv'
      BY <1>1, <1>2, <1>3, <2>1, Heads, TodosApart DEF EventsInv
    <2> QED BY <2>2, <2>3, <2>4, <2>5 DEF SocketInv
  <1>5. CASE receive # "data"
    <2>1. /\ readyState' = "CLOSED"
          /\ \/ readyState = "CLOSED" /\ wsTodo' = <<>>
             \/ readyState # "CLOSED" /\ wsTodo' \in {<<"close">>, Failing}
      <3>1. /\ readyState' = "CLOSED"
            /\ wsTodo' = CASE readyState = "CLOSED" -> <<>>
                           [] readyState # "CLOSED" /\ receive = "closed" -> <<"close">>
                           [] OTHER -> <<"error", "close">>
        BY <1>5 DEF WebSocket!Received
      <3>2. CASE readyState = "CLOSED"
        BY <3>1, <3>2
      <3>4. CASE readyState # "CLOSED" /\ receive = "closed"
        BY <3>1, <3>4
      <3>5. CASE readyState # "CLOSED" /\ receive # "closed"
        BY <3>1, <3>5 DEF Failing
      <3> QED BY <3>2, <3>4, <3>5
    <2>2. wsTodo' \in {<<>>, <<"close">>, Failing} /\ wsTodo' \in Todos
      BY <2>1 DEF Todos
    <2>3. WebSocket!TypeOK'
      BY <1>1, <1>2, <2>1, <2>2, TodosTyped DEF WebSocket!TypeOK
    <2>4. TodoInv'
      BY <1>1, <1>2, <1>3, <2>1, <2>2 DEF TodoInv
    <2>5. ReceiveInv'
      <3>1. wsTodo # Message /\ wsTodo' # Message
        BY <1>2, <2>2, Heads, TodosApart
      <3>2. WebSocket!Taken' = WebSocket!Taken
        BY <1>2, <1>5 DEF WebSocket!Taken
      <3> QED BY <1>1, <1>2, <3>1, <3>2 DEF ReceiveInv
    <2>6. EventsInv'
      <3> SUFFICES ASSUME ~early PROVE EventsInv'
        BY <1>2 DEF EventsInv
      <3>1. CASE readyState = "CLOSED"
        <4>1. events \in Closed
          BY <1>1, <1>2, <1>3, <3>1, Heads, TodosApart DEF EventsInv
        <4> QED BY <1>2, <1>3, <2>1, <3>1, <4>1 DEF EventsInv
      <3>2. CASE readyState # "CLOSED"
        <4>1. events = Open
          BY <1>1, <1>2, <1>3, <3>2, Heads, TodosApart DEF EventsInv
        <4> QED BY <1>2, <1>3, <2>1, <3>2, <4>1 DEF EventsInv
      <3> QED BY <3>1, <3>2
    <2> QED BY <2>3, <2>4, <2>5, <2>6 DEF SocketInv
  <1> QED BY <1>4, <1>5

LEMMA SendFailsKeeps ==
    ASSUME SocketInv, WebSocket!SendFails
    PROVE  SocketInv'
  <1>1. WebSocket!TypeOK /\ TodoInv /\ ReceiveInv /\ EventsInv
    BY DEF SocketInv
  <1>2. /\ api = "events" /\ busy /\ readyState = "OPEN" /\ readyState' = "CLOSED" /\ busy' = FALSE
        /\ wsTodo' = Failing \o wsTodo
        /\ UNCHANGED <<api, connect, connection, inner, receive, sent, ended, got, events, early,
                       opened, closed, controller>>
    BY DEF WebSocket!SendFails, Failing, WebSocket!streamVars, WebSocket!peerVars
  <1>3. wsTodo \in {<<>>, <<"loop">>} /\ connect # "pending"
    BY <1>1, <1>2, TodosApart DEF TodoInv
  <1>4. /\ wsTodo = <<>> => wsTodo' = Failing
        /\ wsTodo = <<"loop">> => wsTodo' = <<"error", "close", "loop">>
    BY <1>2, Fronts
  <1>5. wsTodo' \in {Failing, <<"error", "close", "loop">>} /\ wsTodo' \in Todos
    BY <1>3, <1>4 DEF Todos
  <1>6. WebSocket!TypeOK'
    <2>1. wsTodo' \in Seq({"open", "message", "error", "close", "loop"})
      BY <1>5, TodosTyped
    <2>2. busy' \in BOOLEAN /\ readyState' \in {"CONNECTING", "OPEN", "CLOSED"}
      BY <1>2
    <2>3. /\ api' \in Apis /\ early' \in BOOLEAN /\ connection' \in BOOLEAN
          /\ connect' \in {"pending", "done"} /\ inner' \in {"none", "open", "taken"}
          /\ receive' \in {"none", "waiting"} \cup WebSocket!Answers
          /\ sent' \in 0 .. MaxMessages /\ ended' \in {"no", "closed", "error"}
      BY <1>1, <1>2 DEF WebSocket!TypeOK
    <2>4. /\ got' \in Seq(1 .. MaxMessages)
          /\ events' \in Seq({"open", "message", "error", "close"})
          /\ opened' \in {"pending", "resolved", "rejected"}
          /\ closed' \in {"pending", "resolved", "rejected"}
          /\ controller' \in {"readable", "closed", "errored"}
      BY <1>1, <1>2 DEF WebSocket!TypeOK
    <2> QED BY <2>1, <2>2, <2>3, <2>4 DEF WebSocket!TypeOK
  <1>7. TodoInv'
    BY <1>1, <1>2, <1>3, <1>5 DEF TodoInv
  <1>8. ReceiveInv'
    <2>1. wsTodo # Message /\ wsTodo' # Message
      BY <1>3, <1>5, Heads, TodosApart
    <2>2. WebSocket!Taken' = WebSocket!Taken
      BY <1>2 DEF WebSocket!Taken
    <2>3. receive # "none" => wsTodo' = Failing
      BY <1>1, <1>3, <1>4 DEF ReceiveInv
    <2>4. receive # "none" => wsTodo' \notin {<<"loop">>, Opening, Message, <<"close", "loop">>,
                                              <<"error", "close", "loop">>}
      BY <2>3, TodosApart
    <2> QED BY <1>1, <1>2, <2>1, <2>2, <2>4 DEF ReceiveInv
  <1>9. EventsInv'
    <2> SUFFICES ASSUME ~early PROVE EventsInv'
      BY <1>2 DEF EventsInv
    <2>1. events \in {<<>>, Open}
      BY <1>1, <1>2, <1>3 DEF EventsInv
    <2> QED BY <1>1, <1>2, <1>3, <1>5, <2>1 DEF EventsInv, WebSocket!TypeOK
  <1> QED BY <1>6, <1>7, <1>8, <1>9 DEF SocketInv

LEMMA CloseKeeps ==
    ASSUME SocketInv, WebSocket!Close
    PROVE  SocketInv'
  <1>1. WebSocket!TypeOK /\ TodoInv /\ ReceiveInv /\ EventsInv
    BY DEF SocketInv
  <1>2. /\ api = "events" /\ busy /\ readyState # "CLOSED" /\ readyState' = "CLOSED"
        /\ connection' = FALSE /\ inner' = (IF connection THEN "taken" ELSE inner)
        /\ busy' = FALSE /\ wsTodo' = <<"close">> \o wsTodo
        /\ early' = (early \/ readyState = "CONNECTING")
        /\ UNCHANGED <<api, connect, receive, sent, ended, got, events, opened, closed, controller>>
    BY DEF WebSocket!Close, WebSocket!streamVars, WebSocket!peerVars
  <1>3. wsTodo \in {<<>>, <<"loop">>}
    BY <1>1, <1>2, TodosApart DEF TodoInv
  <1>4. /\ wsTodo = <<>> => wsTodo' = <<"close">>
        /\ wsTodo = <<"loop">> => wsTodo' = <<"close", "loop">>
    BY <1>2, Fronts
  <1>5. wsTodo' \in {<<"close">>, <<"close", "loop">>} /\ wsTodo' \in Todos
    BY <1>3, <1>4 DEF Todos
  <1>6. WebSocket!TypeOK'
    BY <1>1, <1>2, <1>5, TodosTyped DEF WebSocket!TypeOK
  <1>7. TodoInv'
    <2>1. connect = "pending" => /\ inner' = "none" /\ ~connection' /\ receive' = "none"
                                 /\ wsTodo' = <<"close">>
      BY <1>1, <1>2, <1>3, <1>4, TodosApart DEF TodoInv
    <2> QED BY <1>1, <1>2, <1>5, <2>1 DEF TodoInv
  <1>8. ReceiveInv'
    <2>1. wsTodo # Message /\ wsTodo' # Message
      BY <1>3, <1>5, Heads, TodosApart
    <2>2. WebSocket!Taken' = WebSocket!Taken
      BY <1>2 DEF WebSocket!Taken
    <2>3. receive # "none" => wsTodo' = <<"close">>
      BY <1>1, <1>3, <1>4 DEF ReceiveInv
    <2>4. receive # "none" => wsTodo' \notin {<<"loop">>, Opening, Message, <<"close", "loop">>,
                                              <<"error", "close", "loop">>}
      BY <2>3, TodosApart
    <2> QED BY <1>1, <1>2, <2>1, <2>2, <2>4 DEF ReceiveInv
  <1>9. EventsInv'
    <2> SUFFICES ASSUME ~early, readyState = "OPEN" PROVE EventsInv'
      BY <1>1, <1>2 DEF EventsInv, WebSocket!TypeOK
    <2>1. events = Open /\ connect # "pending"
      BY <1>1, <1>2, <1>3, TodosApart, Heads DEF EventsInv, TodoInv
    <2> QED BY <1>1, <1>2, <1>5, <2>1 DEF EventsInv, WebSocket!TypeOK
  <1> QED BY <1>6, <1>7, <1>8, <1>9 DEF SocketInv

LEMMA StreamKeeps ==
    ASSUME MaxMessages \in Nat, SocketInv,
           \/ WebSocket!Pumped
           \/ \E ok \in BOOLEAN : WebSocket!ConnectStream(ok)
           \/ \E cancels \in BOOLEAN : WebSocket!CloseConnection(cancels)
    PROVE  SocketInv'
  <1>1. WebSocket!TypeOK /\ TodoInv /\ ReceiveInv /\ EventsInv
    BY DEF SocketInv
  <1>2. /\ api = "stream" /\ wsTodo = <<>>
        /\ UNCHANGED <<api, busy, wsTodo, readyState, sent, ended, events>>
    BY <1>1 DEF WebSocket!Pumped, WebSocket!ConnectStream, WebSocket!CloseConnection,
       WebSocket!peerVars, TodoInv
  <1>3. wsTodo # Message /\ wsTodo \notin {<<"loop">>, Opening, Message, <<"close", "loop">>,
                                           <<"error", "close", "loop">>}
    BY <1>2, Heads, TodosApart
  <1>4. WebSocket!Taken <= sent /\ WebSocket!Taken \in Nat /\ sent \in 0 .. MaxMessages
        /\ Len(got) \in Nat
    BY <1>1, <1>3, TakenIs DEF ReceiveInv, WebSocket!TypeOK
  <1>5. CASE WebSocket!Pumped
    <2>1. /\ receive \in WebSocket!Answers /\ receive' \in {"none", "waiting"} /\ connect = "done"
          /\ connection = connection' /\ connect' = connect /\ inner' = inner /\ early' = early
          /\ opened' = opened
          /\ closed' \in {"pending", "resolved", "rejected"}
          /\ controller' \in {"readable", "closed", "errored"}
          /\ \/ got' = got
             \/ receive = "data" /\ got' = Append(got, Len(got) + 1)
      BY <1>1, <1>5 DEF WebSocket!Pumped, WebSocket!TypeOK, TodoInv, WebSocket!Answers
    <2>2. CASE got' = got
      <3>1. WebSocket!Taken' = Len(got) /\ WebSocket!Taken' <= WebSocket!Taken
        BY <1>1, <1>4, <2>1, <2>2 DEF WebSocket!Taken
      <3>2. WebSocket!TypeOK'
        BY <1>1, <1>2, <2>1, <2>2 DEF WebSocket!TypeOK
      <3>3. ReceiveInv'
        BY <1>1, <1>2, <1>3, <1>4, <2>2, <3>1 DEF ReceiveInv
      <3> QED BY <1>1, <1>2, <2>1, <3>2, <3>3 DEF SocketInv, TodoInv, EventsInv
    <2>3. CASE receive = "data" /\ got' = Append(got, Len(got) + 1)
      <3>1. WebSocket!Taken = Len(got) + 1 /\ got \in Seq(1 .. MaxMessages)
        BY <1>1, <2>3, TakenIs DEF WebSocket!TypeOK
      <3>2. Len(got) + 1 \in 1 .. MaxMessages
        BY <1>4, <3>1
      <3>3. got' \in Seq(1 .. MaxMessages) /\ Len(got') = Len(got) + 1
        BY <2>3, <3>1, <3>2
      <3>4. got' = [i \in 1 .. Len(got') |-> i]
        <4>1. got = [i \in 1 .. Len(got) |-> i]
          BY <1>1 DEF ReceiveInv
        <4>2. PICK s \in Seq(1 .. MaxMessages) : s = got
          BY <3>1
        <4>3. Append(s, Len(s) + 1) = [i \in 1 .. Len(s) + 1 |-> i]
          BY <1>4, <4>1, <4>2, OneMore
        <4> QED BY <2>3, <3>3, <4>2, <4>3
      <3>5. WebSocket!Taken' = Len(got) + 1
        BY <2>1, <3>3 DEF WebSocket!Taken
      <3>6. WebSocket!TypeOK'
        BY <1>1, <1>2, <2>1, <3>3 DEF WebSocket!TypeOK
      <3>7. ReceiveInv'
        BY <1>2, <1>3, <1>4, <3>1, <3>4, <3>5 DEF ReceiveInv
      <3> QED BY <1>1, <1>2, <2>1, <3>6, <3>7 DEF SocketInv, TodoInv, EventsInv
    <2> QED BY <2>1, <2>2, <2>3
  <1>6. ASSUME NEW ok \in BOOLEAN, WebSocket!ConnectStream(ok) PROVE SocketInv'
    <2>1. /\ connect' = "done" /\ receive' \in {"waiting", receive} /\ receive = "none"
          /\ connection' \in BOOLEAN /\ inner' \in {"none", "open", "taken"}
          /\ opened' \in {"pending", "resolved", "rejected"}
          /\ closed' \in {"pending", "resolved", "rejected"}
          /\ UNCHANGED <<got, early, controller>>
      BY <1>1, <1>6 DEF WebSocket!ConnectStream, WebSocket!TypeOK, TodoInv
    <2>2. WebSocket!Taken' = WebSocket!Taken
      BY <2>1 DEF WebSocket!Taken
    <2>3. WebSocket!TypeOK'
      BY <1>1, <1>2, <2>1 DEF WebSocket!TypeOK
    <2> QED BY <1>1, <1>2, <1>3, <2>1, <2>2, <2>3 DEF SocketInv, TodoInv, ReceiveInv, EventsInv
  <1>7. ASSUME NEW cancels \in BOOLEAN, WebSocket!CloseConnection(cancels) PROVE SocketInv'
    <2>1. /\ connection' = FALSE /\ early' = TRUE
          /\ inner' = (IF connection THEN "taken" ELSE inner)
          /\ controller' \in {"readable", "closed", "errored"}
          /\ UNCHANGED <<connect, receive, got, opened, closed>>
      BY <1>1, <1>7 DEF WebSocket!CloseConnection, WebSocket!TypeOK
    <2>2. WebSocket!Taken' = WebSocket!Taken
      BY <2>1 DEF WebSocket!Taken
    <2>3. WebSocket!TypeOK'
      BY <1>1, <1>2, <2>1 DEF WebSocket!TypeOK
    <2> QED BY <1>1, <1>2, <1>3, <2>1, <2>2, <2>3 DEF SocketInv, TodoInv, ReceiveInv, EventsInv
  <1> QED BY <1>5, <1>6, <1>7

-----------------------------------------------------------------------------
(* Theorems.                                                                  *)

LEMMA NextKeepsSocket ==
    ASSUME MaxMessages \in Nat, SocketInv, [WebSocket!Next]_WebSocket!vars
    PROVE  SocketInv'
  <1>1. CASE WebSocket!Next
    BY <1>1, HostKeeps, TurnsKeep, DispatchKeeps, ConnectKeeps, LoopKeeps, ReceivedKeeps,
       SendFailsKeeps, CloseKeeps, StreamKeeps DEF WebSocket!Next, WebSocket!Jobs, WebSocket!Runs
  <1>2. CASE UNCHANGED WebSocket!vars
    <2>1. UNCHANGED <<api, busy, wsTodo, connect, readyState, connection, inner, receive, sent, ended,
                      got, events, early, opened, closed, controller>>
      BY <1>2 DEF WebSocket!vars
    <2>2. WebSocket!TypeOK /\ TodoInv /\ ReceiveInv /\ EventsInv
      BY DEF SocketInv
    <2>3. WebSocket!TypeOK'
      BY <2>1, <2>2 DEF WebSocket!TypeOK
    <2>4. TodoInv'
      BY <2>1, <2>2 DEF TodoInv
    <2>5. ReceiveInv'
      BY <2>1, <2>2 DEF ReceiveInv, WebSocket!Taken
    <2>6. EventsInv'
      BY <2>1, <2>2 DEF EventsInv
    <2> QED BY <2>3, <2>4, <2>5, <2>6 DEF SocketInv
  <1> QED BY <1>1, <1>2

\* The events that are left to dispatch, those that were, and the one receive() that is pending
\* always fit together.
THEOREM SocketInvIsInvariant ==
    ASSUME MaxMessages \in Nat
    PROVE  WebSocket!Spec => []SocketInv
  <1>1. WebSocket!Init => SocketInv
    BY InitSocket
  <1>2. SocketInv /\ [WebSocket!Next]_WebSocket!vars => SocketInv'
    BY NextKeepsSocket
  <1> QED BY <1>1, <1>2, PTL DEF WebSocket!Spec

LEMMA EventsHeardOnce ==
    ASSUME NEW s \in {<<>>, Open, <<"error">>, <<"open", "error">>} \cup Closed \cup Late
    PROVE  \A e \in {"close", "error", "message"} : WebSocket!AtMostOnce(s, e)
  BY DEF Open, Closed, Late, WebSocket!AtMostOnce

LEMMA CloseHeardLast ==
    ASSUME NEW s \in Closed \cup Late
    PROVE  WebSocket!Last(s) \in {"close", "message"}
  <1>1. Len(<<"error", "close">>) = 2 /\ Len(<<"open", "close">>) = 2
    OBVIOUS
  <1>2. Len(<<"open", "error", "close">>) = 3 /\ Len(<<"error", "close", "message">>) = 3
        /\ Len(<<"open", "close", "message">>) = 3
    OBVIOUS
  <1>3. Len(<<"open", "error", "close", "message">>) = 4
    OBVIOUS
  <1>4. CASE s = <<"error", "close">> \/ s = <<"open", "close">>
    <2>1. s[2] = "close"
      BY <1>4
    <2> QED BY <1>1, <1>4, <2>1 DEF WebSocket!Last
  <1>5. CASE \/ s = <<"open", "error", "close">> \/ s = <<"error", "close", "message">>
             \/ s = <<"open", "close", "message">>
    <2>1. s[3] \in {"close", "message"}
      BY <1>5
    <2> QED BY <1>2, <1>5, <2>1 DEF WebSocket!Last
  <1>6. CASE s = <<"open", "error", "close", "message">>
    <2>1. s[4] = "message"
      BY <1>6
    <2> QED BY <1>3, <1>6, <2>1 DEF WebSocket!Last
  <1> QED BY <1>4, <1>5, <1>6 DEF Closed, Late

\* The program hears of a WebSocket what the peer did, in its order, and then 'close', whatever it
\* does between the events and however many messages the peer sends (the receive loop, send and
\* close of websocket.js); a WebSocketStream enqueues the messages in order too.
THEOREM AlwaysHearsInOrder ==
    ASSUME MaxMessages \in Nat
    PROVE  WebSocket!Spec => []HearsInOrder
  <1>1. ASSUME SocketInv PROVE WebSocket!HearsCloseOnce
    <2> SUFFICES ASSUME ~early, api = "events"
                 PROVE  /\ \A e \in {"close", "error", "message"} : WebSocket!AtMostOnce(events, e)
                        /\ WebSocket!HasClosed
                               => readyState = "CLOSED"
                                   /\ WebSocket!Last(events) \in {"close", "message"}
      BY DEF WebSocket!HearsCloseOnce
    <2>1. \/ events \in {<<>>, Open, <<"error">>, <<"open", "error">>}
          \/ events \in Closed \cup Late /\ readyState = "CLOSED"
      BY <1>1 DEF SocketInv, EventsInv
    <2>2. WebSocket!HasClosed => events \in Closed \cup Late /\ readyState = "CLOSED"
      BY <2>1, EventsApart DEF WebSocket!HasClosed
    <2> QED BY <2>1, <2>2, EventsHeardOnce, CloseHeardLast
  <1>2. ASSUME SocketInv PROVE WebSocket!MessagesInOrder
    <2>1. WebSocket!TypeOK /\ TodoInv /\ ReceiveInv
      BY <1>2 DEF SocketInv
    <2>2. wsTodo \in Todos
      BY <2>1 DEF TodoInv
    <2>3. /\ WebSocket!AtMostOnce(wsTodo, "message")
          /\ WebSocket!Contains(wsTodo, "message") <=> wsTodo = Message
          /\ WebSocket!Contains(wsTodo, "loop")
                 => wsTodo \in {<<"loop">>, Opening, Message, <<"close", "loop">>,
                                                               <<"error", "close", "loop">>}
      BY <2>2 DEF Todos, Opening, Message, Failing, WebSocket!AtMostOnce, WebSocket!Contains
    <2> QED BY <2>1, <2>3 DEF ReceiveInv, WebSocket!MessagesInOrder
  <1>3. SocketInv => HearsInOrder
    BY <1>1, <1>2 DEF HearsInOrder, WebSocket!HearsInOrder
  <1> QED BY <1>3, SocketInvIsInvariant, PTL

-----------------------------------------------------------------------------
(* The receive loop of a datagram socket.                                     *)
SocketFields == [bind : {"unbound", "binding", "bound"},
                 connect : {"no", "connecting", "connected"}, token : Nat, open : BOOLEAN]
LoopFields == [token : Nat, at : {"called", "waiting", "data", "failed", "listener"}, gen : Nat]

\* A loop keeps the token it was given, and no two were given the same.
TokensInv ==
    /\ \A l \in loops : l.token <= js.token
    /\ \A l, m \in loops : l.token = m.token => l = m

\* connect() is in the queue, under way or neither.
ConnectInv ==
    past = {} /\ js.open =>
        /\ connecting # "none" => js.connect = "connecting" /\ ~Dgram!Contains(dgramQueue, Dgram!Connect)
        /\ Dgram!Contains(dgramQueue, Dgram!Connect) => js.connect = "connecting"

LoopsOK == loops \subseteq LoopFields /\ generation \in Nat

DgramInv == Dgram!TypeOK /\ LoopsOK /\ TokensInv /\ ConnectInv /\ (past = {} => Dgram!HasLoop)

-----------------------------------------------------------------------------
(* The fields of the socket and its loops.                                    *)

LEMMA SocketUpdates ==
    ASSUME NEW k \in SocketFields
    PROVE  /\ k.token \in Nat /\ k.open \in BOOLEAN
           /\ LET m == [k EXCEPT !.token = @ + 1]
              IN  /\ m \in SocketFields /\ m.token = k.token + 1 /\ m.open = k.open
                  /\ m.bind = k.bind /\ m.connect = k.connect
           /\ \A b \in {"unbound", "binding", "bound"} :
                 LET m == [k EXCEPT !.bind = b]
                 IN  /\ m \in SocketFields /\ m.token = k.token /\ m.open = k.open
                     /\ m.bind = b /\ m.connect = k.connect
           /\ \A c \in {"no", "connecting", "connected"} :
                 LET m == [k EXCEPT !.connect = c]
                 IN  /\ m \in SocketFields /\ m.token = k.token /\ m.open = k.open
                     /\ m.bind = k.bind /\ m.connect = c
  BY DEF SocketFields

LEMMA LoopAt ==
    ASSUME NEW l \in LoopFields, NEW a \in {"called", "waiting", "data", "failed", "listener"}
    PROVE  [l EXCEPT !.at = a] \in LoopFields /\ [l EXCEPT !.at = a].token = l.token
  BY DEF LoopFields

LEMMA LoopAtOf ==
    ASSUME NEW l \in LoopFields, NEW g \in Nat, NEW a \in {"waiting", "failed"}
    PROVE  /\ [l EXCEPT !.at = a, !.gen = g] \in LoopFields
           /\ [l EXCEPT !.at = a, !.gen = g].token = l.token
  BY DEF LoopFields

LEMMA LoopTokens == \A l \in LoopFields : l.token \in Nat
  BY DEF LoopFields

LEMMA NewLoop ==
    ASSUME NEW n \in Nat
    PROVE  [token |-> n, at |-> "called", gen |-> 0] \in LoopFields
  BY DEF LoopFields

LEMMA Typed ==
    ASSUME Dgram!TypeOK
    PROVE  js \in SocketFields
  BY DEF Dgram!TypeOK, SocketFields

LEMMA TypedAgain ==
    ASSUME js' \in SocketFields, loops' \subseteq LoopFields,
           dgramQueue' \in Seq(Sends \cup {Dgram!Connect}),
           {binding', connecting'} \subseteq {"none", "lookup", "native", "ok", "failed"},
           send' \in [Sends -> {"none", "queued", "lookup", "native", "answered", "called", "dropped"}],
           past' \subseteq {"receive failed", "disconnect failed", "connect failed", "threw"}
    PROVE  Dgram!TypeOK'
  <1>1. \A l \in loops' : l.at \in {"called", "waiting", "data", "failed", "listener"}
    BY DEF LoopFields
  <1> QED BY <1>1 DEF Dgram!TypeOK, SocketFields

LEMMA Queues ==
    ASSUME Dgram!TypeOK, NEW x \in Sends \cup {Dgram!Connect}, NEW y
    PROVE  /\ Append(dgramQueue, x) \in Seq(Sends \cup {Dgram!Connect})
           /\ Dgram!Contains(Append(dgramQueue, x), y) <=> Dgram!Contains(dgramQueue, y) \/ x = y
  <1>1. PICK q \in Seq(Sends \cup {Dgram!Connect}) : q = dgramQueue
    BY DEF Dgram!TypeOK
  <1>2. PICK a : a = Append(q, x)
    OBVIOUS
  <1>3. /\ a \in Seq(Sends \cup {Dgram!Connect}) /\ Len(a) = Len(q) + 1 /\ Len(q) \in Nat
        /\ a[Len(q) + 1] = x /\ \A i \in 1 .. Len(q) : a[i] = q[i]
    BY <1>2
  <1>4. Dgram!Contains(a, y) <=> Dgram!Contains(q, y) \/ x = y
    BY <1>3 DEF Dgram!Contains
  <1> QED BY <1>1, <1>2, <1>3, <1>4

LEMMA EmptyQueue == /\ <<>> \in Seq(Sends \cup {Dgram!Connect})
                    /\ \A y : ~Dgram!Contains(<<>>, y)
  BY DEF Dgram!Contains

LEMMA Dropped ==
    ASSUME Dgram!TypeOK, Dgram!DropQueue
    PROVE  /\ dgramQueue' \in Seq(Sends \cup {Dgram!Connect}) /\ \A y : ~Dgram!Contains(dgramQueue', y)
           /\ send' \in [Sends -> {"none", "queued", "lookup", "native", "answered", "called",
                  "dropped"}]
  <1>1. dgramQueue' \in Seq(Sends \cup {Dgram!Connect}) /\ \A y : ~Dgram!Contains(dgramQueue', y)
    BY EmptyQueue DEF Dgram!DropQueue
  <1>2. send' \in [Sends -> {"none", "queued", "lookup", "native", "answered", "called", "dropped"}]
    BY DEF Dgram!DropQueue, Dgram!TypeOK
  <1> QED BY <1>1, <1>2

-----------------------------------------------------------------------------
(* What steps do to the loops.                                                *)

\* The loops stay; the token may grow, unless somebody still has to hear.
LEMMA LoopsStay ==
    ASSUME LoopsOK, TokensInv, js \in SocketFields, js' \in SocketFields, loops' = loops,
           js'.token \in {js.token, js.token + 1}
    PROVE  TokensInv' /\ loops' \subseteq LoopFields
  <1>1. \A l \in loops : l.token \in Nat
    BY LoopTokens DEF LoopsOK
  <1>2. js.token \in Nat
    BY SocketUpdates
  <1>3. \A l \in loops' : l.token <= js'.token
    BY <1>1, <1>2 DEF TokensInv
  <1> QED BY <1>3 DEF TokensInv, LoopsOK

\* A loop starts.
LEMMA LoopStarts ==
    ASSUME LoopsOK, TokensInv, js \in SocketFields, NEW k \in SocketFields,
           k.token \in {js.token, js.token + 1}, Dgram!StartReceiving(k)
    PROVE  /\ js' \in SocketFields /\ js'.bind = k.bind /\ js'.connect = k.connect
           /\ js'.open = k.open
           /\ TokensInv' /\ loops' \subseteq LoopFields
           /\ k.open => \E l \in loops' : l.token = js'.token
  <1>1. /\ js' = [k EXCEPT !.token = @ + 1] /\ js.token \in Nat /\ k.token \in Nat
        /\ js' \in SocketFields /\ js'.token = k.token + 1
        /\ js'.bind = k.bind /\ js'.connect = k.connect /\ js'.open = k.open
    BY SocketUpdates DEF Dgram!StartReceiving
  <1>2. PICK n \in LoopFields : n = [token |-> k.token + 1, at |-> "called", gen |-> 0]
    <2>1. PICK t \in Nat : t = k.token + 1
      BY <1>1
    <2> QED BY <2>1, NewLoop
  <1>3. n.token = js'.token
    BY <1>1, <1>2
  <1>4. loops' = IF k.open THEN loops \cup {n} ELSE loops
    BY <1>2 DEF Dgram!StartReceiving
  <1>5. \A l \in loops : l.token \in Nat /\ l.token < js'.token /\ l \in LoopFields
    <2>1. \A l \in loops : l.token \in Nat /\ l.token <= js.token /\ l \in LoopFields
      BY LoopTokens DEF LoopsOK, TokensInv
    <2>2. js.token < js'.token /\ js'.token \in Nat
      BY <1>1
    <2> QED BY <1>1, <2>1, <2>2
  <1>6. loops' \subseteq LoopFields
    BY <1>4, <1>5
  <1>7. \A l \in loops' : l.token <= js'.token
    BY <1>1, <1>3, <1>4, <1>5
  <1>8. ASSUME NEW l \in loops', NEW m \in loops', l.token = m.token
        PROVE  l = m
    BY <1>1, <1>3, <1>4, <1>5, <1>8 DEF TokensInv
  <1>9. k.open => \E l \in loops' : l.token = js'.token
    BY <1>3, <1>4
  <1> QED BY <1>1, <1>6, <1>7, <1>8, <1>9 DEF TokensInv

\* A loop goes on with its token.
LEMMA LoopChanges ==
    ASSUME LoopsOK, TokensInv, js' = js, NEW l \in loops, NEW m \in LoopFields,
           m.token = l.token, loops' = (loops \ {l}) \cup {m}
    PROVE  /\ TokensInv' /\ loops' \subseteq LoopFields
           /\ (\E x \in loops : x.token = js.token) => \E x \in loops' : x.token = js'.token
  <1>1. loops' \subseteq LoopFields
    BY DEF LoopsOK
  <1>2. \A x \in loops' : x.token <= js'.token
    BY DEF TokensInv
  <1>3. ASSUME NEW x \in loops', NEW y \in loops', x.token = y.token
        PROVE  x = y
    BY <1>3 DEF TokensInv
  <1> QED BY <1>1, <1>2, <1>3 DEF TokensInv

\* A loop ends that is not the socket's.
LEMMA LoopEnds ==
    ASSUME LoopsOK, TokensInv, js' = js, NEW l \in loops, loops' = loops \ {l}
    PROVE  /\ TokensInv' /\ loops' \subseteq LoopFields
           /\ (\E x \in loops : x.token = js.token) /\ l.token # js.token
                  => \E x \in loops' : x.token = js'.token
  BY DEF LoopsOK, TokensInv

-----------------------------------------------------------------------------
(* What follows for a step that does one of these.                            *)

\* A step that keeps loops and socket, or closes or unbinds the socket, keeps who hears.
LEMMA HearsOn ==
    ASSUME Dgram!TypeOK, past = {} => Dgram!HasLoop, past' = {} => past = {},
           js'.open /\ js'.bind = "bound" /\ connecting' \in {"none", "lookup"}
              => /\ js.open /\ js.bind = "bound" /\ connecting \in {"none", "lookup"}
                 /\ (\E l \in loops : l.token = js.token) => \E l \in loops' : l.token = js'.token
    PROVE  past' = {} => Dgram!HasLoop'
  BY DEF Dgram!HasLoop

\* A step that starts a loop, too.
LEMMA HearsNew ==
    ASSUME js'.open => \E l \in loops' : l.token = js'.token
    PROVE  past' = {} => Dgram!HasLoop'
  BY DEF Dgram!HasLoop

-----------------------------------------------------------------------------
(* The program's calls.                                                       *)

LEMMA BindKeeps ==
    ASSUME DgramInv, NEW named \in BOOLEAN, Dgram!Bind(named)
    PROVE  DgramInv'
  <1>1. /\ Dgram!TypeOK /\ LoopsOK /\ TokensInv /\ ConnectInv /\ (past = {} => Dgram!HasLoop)
        /\ js \in SocketFields
    BY Typed DEF DgramInv
  <1>2. /\ js' = [js EXCEPT !.bind = "binding"] /\ binding' \in {"lookup", "native"}
        /\ UNCHANGED <<dgramQueue, connecting, send, loops, dgramTodo, bound, generation, arrived,
               bounds, past>>
    BY DEF Dgram!Bind, Dgram!hostVars
  <1>3. /\ js' \in SocketFields /\ js'.token = js.token /\ js'.open = js.open
        /\ js'.bind = "binding" /\ js'.connect = js.connect
    BY <1>1, <1>2, SocketUpdates
  <1>4. Dgram!TypeOK'
    BY <1>1, <1>2, <1>3 DEF Dgram!TypeOK, SocketFields
  <1>5. TokensInv' /\ LoopsOK'
    BY <1>1, <1>2, <1>3, LoopsStay DEF LoopsOK
  <1>6. ConnectInv'
    BY <1>1, <1>2, <1>3 DEF ConnectInv
  <1>7. past' = {} => Dgram!HasLoop'
    BY <1>1, <1>2, <1>3, HearsOn
  <1> QED BY <1>4, <1>5, <1>6, <1>7 DEF DgramInv

\* What is queued, is queued while the socket binds.
LEMMA Enqueues ==
    ASSUME Dgram!TypeOK, js \in SocketFields, NEW x \in Sends \cup {Dgram!Connect},
           NEW k \in SocketFields,
           k.token = js.token, k.open = js.open, Dgram!Enqueue(x, k)
    PROVE  /\ js' \in SocketFields /\ js'.token = js.token /\ js'.open = js.open
           /\ js'.bind = "binding" /\ js'.connect = k.connect
           /\ dgramQueue' \in Seq(Sends \cup {Dgram!Connect})
           /\ Dgram!Contains(dgramQueue', Dgram!Connect)
                  <=> Dgram!Contains(dgramQueue, Dgram!Connect) \/ x = Dgram!Connect
           /\ binding' \in {"none", "lookup", "native", "ok", "failed"}
  <1>1. js' = [k EXCEPT !.bind = "binding"] /\ dgramQueue' = Append(dgramQueue, x)
    BY DEF Dgram!Enqueue
  <1>2. binding' \in {binding, "native"}
    BY DEF Dgram!Enqueue
  <1>3. /\ js' \in SocketFields /\ js'.token = js.token /\ js'.open = js.open
        /\ js'.bind = "binding" /\ js'.connect = k.connect
    BY <1>1, SocketUpdates
  <1>4. /\ dgramQueue' \in Seq(Sends \cup {Dgram!Connect})
        /\ Dgram!Contains(dgramQueue', Dgram!Connect)
               <=> Dgram!Contains(dgramQueue, Dgram!Connect) \/ x = Dgram!Connect
    BY <1>1, Queues
  <1>5. binding' \in {"none", "lookup", "native", "ok", "failed"}
    BY <1>2 DEF Dgram!TypeOK
  <1> QED BY <1>3, <1>4, <1>5

LEMMA SendKeeps ==
    ASSUME DgramInv, Dgram!Connect \notin Sends, NEW i \in Sends, NEW named \in BOOLEAN,
           Dgram!Send(i, named)
    PROVE  DgramInv'
  <1>1. /\ Dgram!TypeOK /\ LoopsOK /\ TokensInv /\ ConnectInv /\ (past = {} => Dgram!HasLoop)
        /\ js \in SocketFields
    BY Typed DEF DgramInv
  <1>2. UNCHANGED <<connecting, loops, dgramTodo, bound, generation, arrived, bounds, past>>
    BY DEF Dgram!Send, Dgram!hostVars
  <1>3. send' \in [Sends -> {"none", "queued", "lookup", "native", "answered", "called", "dropped"}]
    <2>1. PICK a \in {"queued", "lookup", "native"} : send' = [send EXCEPT ![i] = a]
      BY DEF Dgram!Send, Dgram!Sent
    <2> QED BY <1>1, <2>1 DEF Dgram!TypeOK
  <1>4. \/ UNCHANGED <<js, dgramQueue, binding>>
        \/ /\ js' \in SocketFields /\ js'.token = js.token /\ js'.open = js.open
           /\ js'.bind = "binding" /\ js'.connect = js.connect
           /\ dgramQueue' \in Seq(Sends \cup {Dgram!Connect})
           /\ Dgram!Contains(dgramQueue', Dgram!Connect) <=> Dgram!Contains(dgramQueue, Dgram!Connect)
           /\ binding' \in {"none", "lookup", "native", "ok", "failed"}
    BY <1>1, Enqueues DEF Dgram!Send
  <1>5. CASE UNCHANGED <<js, dgramQueue, binding>>
    <2>1. Dgram!TypeOK'
      BY <1>1, <1>2, <1>3, <1>5 DEF Dgram!TypeOK
    <2>2. TokensInv' /\ LoopsOK' /\ ConnectInv' /\ (past' = {} => Dgram!HasLoop')
      BY <1>1, <1>2, <1>5 DEF TokensInv, LoopsOK, ConnectInv, Dgram!HasLoop
    <2> QED BY <2>1, <2>2 DEF DgramInv
  <1>6. CASE /\ js' \in SocketFields /\ js'.token = js.token /\ js'.open = js.open
             /\ js'.bind = "binding" /\ js'.connect = js.connect
             /\ dgramQueue' \in Seq(Sends \cup {Dgram!Connect})
             /\ Dgram!Contains(dgramQueue', Dgram!Connect) <=> Dgram!Contains(dgramQueue, Dgram!Connect)
             /\ binding' \in {"none", "lookup", "native", "ok", "failed"}
    <2>1. Dgram!TypeOK'
      BY <1>1, <1>2, <1>3, <1>6 DEF Dgram!TypeOK, SocketFields
    <2>2. TokensInv' /\ LoopsOK'
      BY <1>1, <1>2, <1>6, LoopsStay DEF LoopsOK
    <2>3. ConnectInv'
      BY <1>1, <1>2, <1>6 DEF ConnectInv
    <2>4. past' = {} => Dgram!HasLoop'
      BY <1>1, <1>2, <1>6, HearsOn
    <2> QED BY <2>1, <2>2, <2>3, <2>4 DEF DgramInv
  <1> QED BY <1>4, <1>5, <1>6

\* connect() waits in the queue of an unbound socket, and stops the loop of a bound one.
LEMMA Performs ==
    ASSUME Dgram!TypeOK, js \in SocketFields, NEW k \in SocketFields,
           k.token = js.token, k.open = js.open, k.bind = js.bind, Dgram!PerformConnect(k)
    PROVE  /\ js' \in SocketFields /\ js'.open = js.open /\ js'.connect = k.connect
           /\ js'.token \in {js.token, js.token + 1}
           /\ binding' \in {"none", "lookup", "native", "ok", "failed"}
           /\ dgramQueue' \in Seq(Sends \cup {Dgram!Connect})
           /\ \/ connecting' = "native" /\ dgramQueue' = dgramQueue
              \/ connecting' = "none" /\ js'.bind = "binding"
  <1>1. CASE js.bind = "bound"
    <2>1. /\ js' = [k EXCEPT !.token = @ + 1] /\ connecting' = "native"
          /\ UNCHANGED <<dgramQueue, binding>>
      BY <1>1 DEF Dgram!PerformConnect
    <2>2. /\ js' \in SocketFields /\ js'.token = k.token + 1 /\ js'.open = k.open
          /\ js'.connect = k.connect
      BY <2>1, SocketUpdates
    <2>3. /\ binding' \in {"none", "lookup", "native", "ok", "failed"}
          /\ dgramQueue' \in Seq(Sends \cup {Dgram!Connect})
      BY <2>1 DEF Dgram!TypeOK
    <2> QED BY <2>1, <2>2, <2>3
  <1>2. CASE js.bind # "bound"
    <2>1. Dgram!Enqueue(Dgram!Connect, k) /\ connecting' = "none"
      BY <1>2 DEF Dgram!PerformConnect
    <2> QED BY <2>1, Enqueues
  <1> QED BY <1>1, <1>2

LEMMA ConnectToKeeps ==
    ASSUME DgramInv, NEW named \in BOOLEAN, Dgram!ConnectTo(named)
    PROVE  DgramInv'
  <1>1. /\ Dgram!TypeOK /\ LoopsOK /\ TokensInv /\ ConnectInv /\ (past = {} => Dgram!HasLoop)
        /\ js \in SocketFields
    BY Typed DEF DgramInv
  <1>2. PICK k \in SocketFields : /\ k = [js EXCEPT !.connect = "connecting"]
                                  /\ k.token = js.token /\ k.open = js.open /\ k.bind = js.bind
                                  /\ k.connect = "connecting"
    <2>1. PICK j \in SocketFields : j = js
      BY <1>1
    <2>2. \A c \in {"no", "connecting", "connected"} :
             LET m == [j EXCEPT !.connect = c]
             IN  /\ m \in SocketFields /\ m.token = j.token /\ m.open = j.open
                 /\ m.bind = j.bind /\ m.connect = c
      BY SocketUpdates
    <2> QED BY <2>1, <2>2
  <1>3. /\ js.open /\ js.connect = "no"
        /\ UNCHANGED <<send, loops, dgramTodo, bound, generation, arrived, past>>
    BY DEF Dgram!ConnectTo, Dgram!hostVars
  <1>4. past = {} => connecting = "none" /\ ~Dgram!Contains(dgramQueue, Dgram!Connect)
    BY <1>1, <1>3 DEF ConnectInv
  <1>5. /\ js' \in SocketFields /\ js'.open = js.open /\ js'.connect = "connecting"
        /\ js'.token \in {js.token, js.token + 1}
        /\ binding' \in {"none", "lookup", "native", "ok", "failed"}
        /\ dgramQueue' \in Seq(Sends \cup {Dgram!Connect})
        /\ \/ connecting' = "native" /\ dgramQueue' = dgramQueue
           \/ connecting' = "none" /\ js'.bind = "binding"
           \/ /\ connecting' = "lookup" /\ dgramQueue' = dgramQueue
              /\ js'.bind = js.bind /\ js'.token = js.token
    <2>1. CASE named
      <3>1. js' = k /\ connecting' = "lookup" /\ UNCHANGED <<dgramQueue, binding>>
        BY <1>2, <2>1 DEF Dgram!ConnectTo
      <3> QED BY <1>1, <1>2, <3>1 DEF Dgram!TypeOK
    <2>2. CASE ~named
      <3>1. Dgram!PerformConnect(k)
        BY <1>2, <2>2 DEF Dgram!ConnectTo
      <3> QED BY <1>1, <1>2, <3>1, Performs
    <2> QED BY <2>1, <2>2
  <1>6. Dgram!TypeOK'
    BY <1>1, <1>3, <1>5 DEF Dgram!TypeOK, SocketFields
  <1>7. TokensInv' /\ LoopsOK'
    BY <1>1, <1>3, <1>5, LoopsStay DEF LoopsOK
  <1>8. ConnectInv'
    BY <1>3, <1>4, <1>5 DEF ConnectInv
  <1>9. past' = {} => Dgram!HasLoop'
    BY <1>1, <1>3, <1>4, <1>5 DEF Dgram!HasLoop
  <1> QED BY <1>6, <1>7, <1>8, <1>9 DEF DgramInv

LEMMA DisconnectKeeps ==
    ASSUME DgramInv, NEW fails \in BOOLEAN, Dgram!Disconnect(fails)
    PROVE  DgramInv'
  <1>1. /\ Dgram!TypeOK /\ LoopsOK /\ TokensInv /\ ConnectInv /\ (past = {} => Dgram!HasLoop)
        /\ js \in SocketFields
    BY Typed DEF DgramInv
  <1>2. /\ js.open /\ js.connect = "connected"
        /\ UNCHANGED <<dgramQueue, binding, connecting, send, dgramTodo>>
    BY DEF Dgram!Disconnect
  <1>3. PICK n \in SocketFields : /\ n = [js EXCEPT !.token = @ + 1]
                                  /\ n.token = js.token + 1 /\ n.open = js.open /\ n.bind = js.bind
                                  /\ n.connect = js.connect
    <2>1. PICK j \in SocketFields : j = js
      BY <1>1
    <2>2. LET m == [j EXCEPT !.token = @ + 1]
          IN  /\ m \in SocketFields /\ m.token = j.token + 1 /\ m.open = j.open
              /\ m.bind = j.bind /\ m.connect = j.connect
      BY SocketUpdates
    <2> QED BY <2>1, <2>2
  <1>4. CASE fails
    <2>1. past = {} /\ js' = n /\ past' = past \cup {"disconnect failed"}
          /\ UNCHANGED <<generation, loops>>
      BY <1>3, <1>4 DEF Dgram!Disconnect
    <2>2. Dgram!TypeOK'
      BY <1>1, <1>2, <2>1 DEF Dgram!TypeOK, SocketFields
    <2>3. TokensInv' /\ LoopsOK'
      BY <1>1, <1>3, <2>1, LoopsStay DEF LoopsOK
    <2>4. ConnectInv' /\ (past' = {} => Dgram!HasLoop')
      BY <2>1 DEF ConnectInv
    <2> QED BY <2>2, <2>3, <2>4 DEF DgramInv
  <1>5. CASE ~fails
    <2>1. PICK k \in SocketFields : /\ k = [js EXCEPT !.token = @ + 1, !.connect = "no"]
                                    /\ k.token = js.token + 1 /\ k.open = js.open
                                    /\ k.bind = js.bind /\ k.connect = "no"
      <3>1. PICK j \in SocketFields : j = js
        BY <1>1
      <3>2. PICK t \in Nat : t = j.token + 1
        BY DEF SocketFields
      <3>3. LET m == [j EXCEPT !.token = t, !.connect = "no"]
            IN  /\ m \in SocketFields /\ m.token = t /\ m.open = j.open
                /\ m.bind = j.bind /\ m.connect = "no"
        BY DEF SocketFields
      <3> QED BY <3>1, <3>2, <3>3
    <2>2. /\ past' = past /\ generation' = generation + 1
          /\ IF js.bind = "bound" THEN Dgram!StartReceiving(k) ELSE js' = k /\ UNCHANGED loops
      BY <1>5, <2>1 DEF Dgram!Disconnect
    <2>3. past = {} => connecting = "none" /\ ~Dgram!Contains(dgramQueue, Dgram!Connect)
      BY <1>1, <1>2 DEF ConnectInv
    <2>4. /\ js' \in SocketFields /\ js'.bind = k.bind /\ js'.connect = "no"
          /\ TokensInv' /\ loops' \subseteq LoopFields
          /\ past' = {} => Dgram!HasLoop'
      <3>1. CASE js.bind = "bound"
        <4>1. k.token \in {js.token, js.token + 1} /\ Dgram!StartReceiving(k)
          BY <2>1, <2>2, <3>1
        <4> HIDE DEF DgramInv
        <4>2. /\ js' \in SocketFields /\ js'.bind = k.bind /\ js'.connect = k.connect
              /\ js'.open = k.open
              /\ TokensInv' /\ loops' \subseteq LoopFields
              /\ k.open => \E l \in loops' : l.token = js'.token
          BY <1>1, <4>1, LoopStarts
        <4> QED BY <2>1, <4>2, HearsNew
      <3>2. CASE js.bind # "bound"
        <4>1. js' = k /\ loops' = loops
          BY <2>2, <3>2
        <4>2. TokensInv' /\ loops' \subseteq LoopFields
          BY <1>1, <2>1, <4>1, LoopsStay
        <4> QED BY <2>1, <3>2, <4>1, <4>2 DEF Dgram!HasLoop
      <3> QED BY <3>1, <3>2
    <2>5. Dgram!TypeOK'
      <3>1. /\ dgramQueue' \in Seq(Sends \cup {Dgram!Connect})
            /\ {binding', connecting'} \subseteq {"none", "lookup", "native", "ok", "failed"}
            /\ send' \in [Sends -> {"none", "queued", "lookup", "native", "answered", "called",
                   "dropped"}]
            /\ past' \subseteq {"receive failed", "disconnect failed", "connect failed", "threw"}
        BY <1>1, <1>2, <2>2 DEF Dgram!TypeOK
      <3> QED BY <2>4, <3>1, TypedAgain
    <2>6. LoopsOK'
      BY <1>1, <2>2, <2>4 DEF LoopsOK
    <2>7. ConnectInv'
      BY <1>2, <2>2, <2>3 DEF ConnectInv
    <2> QED BY <2>4, <2>5, <2>6, <2>7 DEF DgramInv
  <1> QED BY <1>4, <1>5

LEMMA SocketCloseKeeps ==
    ASSUME DgramInv, Dgram!Close
    PROVE  DgramInv'
  <1>1. /\ Dgram!TypeOK /\ LoopsOK /\ TokensInv /\ ConnectInv /\ (past = {} => Dgram!HasLoop)
        /\ js \in SocketFields /\ js.token \in Nat
    BY Typed, SocketUpdates DEF DgramInv
  <1>2. /\ js' = [bind |-> "unbound", connect |-> "no", token |-> js.token + 1, open |-> FALSE]
        /\ generation' = generation + 1 /\ Dgram!DropQueue
        /\ UNCHANGED <<bound, binding, connecting, loops, dgramTodo, arrived, bounds, past>>
    BY DEF Dgram!Close
  <1>3. /\ js' \in SocketFields /\ js'.token = js.token + 1 /\ ~js'.open
    <2>1. PICK t \in Nat : t = js.token + 1
      BY <1>1
    <2>2. [bind |-> "unbound", connect |-> "no", token |-> t, open |-> FALSE] \in SocketFields
      BY DEF SocketFields
    <2> QED BY <1>2, <2>1, <2>2
  <1>4. Dgram!TypeOK'
    BY <1>1, <1>2, <1>3, Dropped DEF Dgram!TypeOK, SocketFields
  <1>5. TokensInv' /\ LoopsOK'
    <2>1. TokensInv' /\ loops' \subseteq LoopFields
      BY <1>1, <1>2, <1>3, LoopsStay
    <2> QED BY <1>1, <1>2, <2>1 DEF LoopsOK
  <1>6. ConnectInv' /\ (past' = {} => Dgram!HasLoop')
    BY <1>3 DEF ConnectInv, Dgram!HasLoop
  <1> QED BY <1>4, <1>5, <1>6 DEF DgramInv

-----------------------------------------------------------------------------
(* The binding and the queue.                                                 *)

\* A step of a binding, or of a send(), that changes nothing else.
LEMMA Elsewhere ==
    ASSUME DgramInv, UNCHANGED <<js, dgramQueue, connecting, loops, dgramTodo, generation, past>>,
           binding' \in {"none", "lookup", "native", "ok", "failed"},
           send' \in [Sends -> {"none", "queued", "lookup", "native", "answered", "called", "dropped"}]
    PROVE  DgramInv'
  <1>1. Dgram!TypeOK'
    BY DEF DgramInv, Dgram!TypeOK
  <1>2. LoopsOK' /\ TokensInv' /\ ConnectInv' /\ (past' = {} => Dgram!HasLoop')
    BY DEF DgramInv, LoopsOK, TokensInv, ConnectInv, Dgram!HasLoop
  <1> QED BY <1>1, <1>2 DEF DgramInv

LEMMA BindsKeep ==
    ASSUME DgramInv, NEW ok \in BOOLEAN, Dgram!BindLookup(ok) \/ Dgram!NativeBind(ok)
    PROVE  DgramInv'
  <1>1. /\ UNCHANGED <<js, dgramQueue, connecting, loops, dgramTodo, generation, past>>
        /\ binding' \in {"none", "lookup", "native", "ok", "failed"} /\ send' = send
    BY DEF Dgram!BindLookup, Dgram!NativeBind, Dgram!hostVars
  <1> QED BY <1>1, Elsewhere DEF DgramInv, Dgram!TypeOK

LEMMA SendsKeep ==
    ASSUME DgramInv, NEW i \in Sends, Dgram!NativeSend(i) \/ Dgram!SendGoesOn(i)
    PROVE  DgramInv'
  <1>1. /\ UNCHANGED <<js, dgramQueue, binding, connecting, loops, dgramTodo, generation, past>>
        /\ \E a \in {"native", "answered", "called"} : send' = [send EXCEPT ![i] = a]
    BY DEF Dgram!NativeSend, Dgram!SendGoesOn, Dgram!CallBack, Dgram!SendLookup, Dgram!hostVars
  <1>2. /\ send' \in [Sends -> {"none", "queued", "lookup", "native", "answered", "called", "dropped"}]
        /\ binding' \in {"none", "lookup", "native", "ok", "failed"}
    BY <1>1 DEF DgramInv, Dgram!TypeOK
  <1> QED BY <1>1, <1>2, Elsewhere

LEMMA BoundKeeps ==
    ASSUME DgramInv, Dgram!Bound
    PROVE  DgramInv'
  <1>1. /\ Dgram!TypeOK /\ LoopsOK /\ TokensInv /\ ConnectInv /\ (past = {} => Dgram!HasLoop)
        /\ js \in SocketFields
    BY Typed DEF DgramInv
  <1>2. /\ binding' = "none"
        /\ UNCHANGED <<connecting, bound, generation, arrived, bounds, past>>
    BY DEF Dgram!Bound, Dgram!hostVars
  <1>3. CASE /\ binding = "ok" /\ js.open
             /\ Dgram!StartReceiving([js EXCEPT !.bind = "bound"])
             /\ dgramTodo' = <<"flush">>
             /\ UNCHANGED <<dgramQueue, send>>
    <2>1. PICK k \in SocketFields : /\ k = [js EXCEPT !.bind = "bound"]
                                    /\ k.token = js.token /\ k.open = js.open
                                    /\ k.connect = js.connect
      <3>1. PICK j \in SocketFields : j = js
        BY <1>1
      <3>2. LET m == [j EXCEPT !.bind = "bound"]
            IN  m \in SocketFields /\ m.token = j.token /\ m.open = j.open /\ m.connect = j.connect
        BY SocketUpdates
      <3> QED BY <3>1, <3>2
    <2>2. Dgram!StartReceiving(k) /\ k.token \in {js.token, js.token + 1}
      BY <1>3, <2>1
    <2>3. /\ js' \in SocketFields /\ js'.connect = k.connect /\ js'.open = k.open
          /\ TokensInv' /\ loops' \subseteq LoopFields
          /\ k.open => \E l \in loops' : l.token = js'.token
      BY <1>1, <2>2, LoopStarts
    <2>4. Dgram!TypeOK'
      <3>1. /\ dgramQueue' \in Seq(Sends \cup {Dgram!Connect})
            /\ {binding', connecting'} \subseteq {"none", "lookup", "native", "ok", "failed"}
            /\ send' \in [Sends -> {"none", "queued", "lookup", "native", "answered", "called",
                   "dropped"}]
            /\ past' \subseteq {"receive failed", "disconnect failed", "connect failed", "threw"}
        BY <1>1, <1>2, <1>3 DEF Dgram!TypeOK
      <3> QED BY <2>3, <3>1, TypedAgain
    <2>5. LoopsOK' /\ (past' = {} => Dgram!HasLoop')
      BY <1>1, <1>2, <2>3, HearsNew DEF LoopsOK
    <2>6. ConnectInv'
      BY <1>1, <1>2, <1>3, <2>1, <2>3 DEF ConnectInv
    <2> QED BY <2>3, <2>4, <2>5, <2>6 DEF DgramInv
  <1>4. CASE UNCHANGED <<js, dgramQueue, send, loops, dgramTodo>>
    BY <1>2, <1>4, Elsewhere DEF DgramInv, Dgram!TypeOK
  <1>5. CASE /\ binding = "failed"
             /\ js' = [js EXCEPT !.bind = "unbound"]
             /\ Dgram!DropQueue
             /\ UNCHANGED <<loops, dgramTodo>>
    <2>1. /\ js' \in SocketFields /\ js'.token = js.token /\ js'.open = js.open
          /\ js'.bind = "unbound" /\ js'.connect = js.connect
      BY <1>1, <1>5, SocketUpdates
    <2>2. Dgram!TypeOK'
      BY <1>1, <1>2, <1>5, <2>1, Dropped DEF Dgram!TypeOK, SocketFields
    <2>3. TokensInv' /\ LoopsOK'
      BY <1>1, <1>2, <1>5, <2>1, LoopsStay DEF LoopsOK
    <2>4. ConnectInv'
      BY <1>1, <1>2, <1>5, <2>1, Dropped DEF ConnectInv
    <2>5. past' = {} => Dgram!HasLoop'
      BY <2>1 DEF Dgram!HasLoop
    <2> QED BY <2>2, <2>3, <2>4, <2>5 DEF DgramInv
  <1> QED BY <1>3, <1>4, <1>5 DEF Dgram!Bound

LEMMA FlushKeeps ==
    ASSUME DgramInv, Dgram!Flush
    PROVE  DgramInv'
  <1>1. /\ Dgram!TypeOK /\ LoopsOK /\ TokensInv /\ ConnectInv /\ (past = {} => Dgram!HasLoop)
        /\ js \in SocketFields
    BY Typed DEF DgramInv
  <1>2. /\ dgramQueue' = <<>> /\ UNCHANGED <<binding, loops, bound, generation, arrived, bounds, past>>
        /\ IF Dgram!Contains(dgramQueue, Dgram!Connect)
           THEN js' = [js EXCEPT !.token = @ + 1] /\ connecting' = "native"
           ELSE UNCHANGED <<js, connecting>>
    BY DEF Dgram!Flush, Dgram!hostVars
  <1>3. send' \in [Sends -> {"none", "queued", "lookup", "native", "answered", "called", "dropped"}]
    <2>1. PICK named \in SUBSET Sends :
             send' = [i \in Sends |-> IF Dgram!Contains(dgramQueue, i)
                 THEN Dgram!Sent(i \in named) ELSE send[i]]
      BY DEF Dgram!Flush
    <2>2. \A b : Dgram!Sent(b) \in {"lookup", "native"}
      BY DEF Dgram!Sent
    <2> QED BY <1>1, <2>1, <2>2 DEF Dgram!TypeOK
  <1>4. /\ js' \in SocketFields /\ js'.token \in {js.token, js.token + 1} /\ js'.open = js.open
        /\ js'.bind = js.bind /\ js'.connect = js.connect
        /\ connecting' \in {connecting, "native"}
    <2>1. CASE Dgram!Contains(dgramQueue, Dgram!Connect)
      <3>1. js' = [js EXCEPT !.token = @ + 1] /\ connecting' = "native"
        BY <1>2, <2>1
      <3>2. /\ js' \in SocketFields /\ js'.token = js.token + 1 /\ js'.open = js.open
            /\ js'.bind = js.bind /\ js'.connect = js.connect
        BY <1>1, <3>1, SocketUpdates
      <3> QED BY <3>1, <3>2
    <2>2. CASE ~Dgram!Contains(dgramQueue, Dgram!Connect)
      BY <1>1, <1>2, <2>2
    <2> QED BY <2>1, <2>2
  <1>5. Dgram!TypeOK'
    BY <1>1, <1>2, <1>3, <1>4, EmptyQueue DEF Dgram!TypeOK, SocketFields
  <1>6. TokensInv' /\ LoopsOK'
    BY <1>1, <1>2, <1>4, LoopsStay DEF LoopsOK
  <1>7. ConnectInv'
    BY <1>1, <1>2, <1>4, EmptyQueue DEF ConnectInv
  <1>8. past' = {} => Dgram!HasLoop'
    BY <1>1, <1>2 DEF Dgram!HasLoop
  <1> QED BY <1>5, <1>6, <1>7, <1>8 DEF DgramInv

-----------------------------------------------------------------------------
(* connect().                                                                 *)

LEMMA ConnectLookupKeeps ==
    ASSUME DgramInv, NEW ok \in BOOLEAN, Dgram!ConnectLookup(ok)
    PROVE  DgramInv'
  <1>1. /\ Dgram!TypeOK /\ LoopsOK /\ TokensInv /\ ConnectInv /\ (past = {} => Dgram!HasLoop)
        /\ js \in SocketFields
    BY Typed DEF DgramInv
  <1>2. /\ connecting = "lookup"
        /\ UNCHANGED <<send, loops, dgramTodo, bound, generation, arrived, bounds, past>>
    BY DEF Dgram!ConnectLookup, Dgram!hostVars
  <1>3. past = {} /\ js.open => js.connect = "connecting" /\ ~Dgram!Contains(dgramQueue, Dgram!Connect)
    BY <1>1, <1>2 DEF ConnectInv
  <1>4. CASE ok
    <2>1. Dgram!PerformConnect(js)
      BY <1>4 DEF Dgram!ConnectLookup
    <2>2. /\ js' \in SocketFields /\ js'.open = js.open /\ js'.connect = js.connect
          /\ js'.token \in {js.token, js.token + 1}
          /\ binding' \in {"none", "lookup", "native", "ok", "failed"}
          /\ dgramQueue' \in Seq(Sends \cup {Dgram!Connect})
          /\ \/ connecting' = "native" /\ dgramQueue' = dgramQueue
             \/ connecting' = "none" /\ js'.bind = "binding"
      BY <1>1, <2>1, Performs
    <2>3. Dgram!TypeOK'
      BY <1>1, <1>2, <2>2 DEF Dgram!TypeOK, SocketFields
    <2>4. TokensInv' /\ LoopsOK'
      BY <1>1, <1>2, <2>2, LoopsStay DEF LoopsOK
    <2>5. ConnectInv'
      BY <1>2, <1>3, <2>2 DEF ConnectInv
    <2>6. past' = {} => Dgram!HasLoop'
      BY <2>2 DEF Dgram!HasLoop
    <2> QED BY <2>3, <2>4, <2>5, <2>6 DEF DgramInv
  <1>5. CASE ~ok
    <2>1. js' = [js EXCEPT !.connect = "no"] /\ connecting' = "none" /\ UNCHANGED <<dgramQueue, binding>>
      BY <1>5 DEF Dgram!ConnectLookup
    <2>2. /\ js' \in SocketFields /\ js'.token = js.token /\ js'.open = js.open
          /\ js'.bind = js.bind /\ js'.connect = "no"
      BY <1>1, <2>1, SocketUpdates
    <2>3. Dgram!TypeOK'
      BY <1>1, <1>2, <2>1, <2>2 DEF Dgram!TypeOK, SocketFields
    <2>4. TokensInv' /\ LoopsOK'
      BY <1>1, <1>2, <2>2, LoopsStay DEF LoopsOK
    <2>5. ConnectInv'
      BY <1>2, <1>3, <2>1, <2>2 DEF ConnectInv
    <2>6. past' = {} => Dgram!HasLoop'
      BY <1>1, <1>2, <2>1, <2>2 DEF Dgram!HasLoop
    <2> QED BY <2>3, <2>4, <2>5, <2>6 DEF DgramInv
  <1> QED BY <1>4, <1>5

LEMMA NativeConnectKeeps ==
    ASSUME DgramInv, NEW ok \in BOOLEAN, Dgram!NativeConnect(ok)
    PROVE  DgramInv'
  <1>1. /\ Dgram!TypeOK /\ LoopsOK /\ TokensInv /\ ConnectInv /\ (past = {} => Dgram!HasLoop)
    BY DEF DgramInv
  <1>2. /\ connecting = "native" /\ connecting' \in {"ok", "failed"}
        /\ generation' \in {generation, generation + 1}
        /\ UNCHANGED <<js, dgramQueue, bound, binding, send, loops, dgramTodo, arrived, bounds, past>>
    BY DEF Dgram!NativeConnect
  <1>3. Dgram!TypeOK'
    BY <1>1, <1>2 DEF Dgram!TypeOK
  <1>4. LoopsOK' /\ TokensInv' /\ ConnectInv' /\ (past' = {} => Dgram!HasLoop')
    BY <1>1, <1>2 DEF LoopsOK, TokensInv, ConnectInv, Dgram!HasLoop
  <1> QED BY <1>3, <1>4 DEF DgramInv

LEMMA ConnectedKeeps ==
    ASSUME DgramInv, Dgram!Connected
    PROVE  DgramInv'
  <1>1. /\ Dgram!TypeOK /\ LoopsOK /\ TokensInv /\ ConnectInv /\ (past = {} => Dgram!HasLoop)
        /\ js \in SocketFields
    BY Typed DEF DgramInv
  <1>2. /\ connecting \in {"ok", "failed"} /\ connecting' = "none"
        /\ UNCHANGED <<dgramQueue, binding, send, bound, generation, arrived, bounds>>
    BY DEF Dgram!Connected, Dgram!hostVars
  <1>3. past = {} /\ js.open => js.connect = "connecting" /\ ~Dgram!Contains(dgramQueue, Dgram!Connect)
    BY <1>1, <1>2 DEF ConnectInv
  <1>4. CASE connecting = "ok"
    <2>1. PICK k \in SocketFields : /\ k = [js EXCEPT !.connect = "connected"]
                                    /\ k.token = js.token /\ k.open = js.open
      <3>1. PICK j \in SocketFields : j = js
        BY <1>1
      <3>2. LET m == [j EXCEPT !.connect = "connected"]
            IN  m \in SocketFields /\ m.token = j.token /\ m.open = j.open
        BY SocketUpdates
      <3> QED BY <3>1, <3>2
    <2>2. Dgram!StartReceiving(k) /\ k.token \in {js.token, js.token + 1} /\ past' = past
      BY <1>4, <2>1 DEF Dgram!Connected
    <2>3. /\ js' \in SocketFields /\ js'.open = k.open
          /\ TokensInv' /\ loops' \subseteq LoopFields
          /\ k.open => \E l \in loops' : l.token = js'.token
      BY <1>1, <2>2, LoopStarts
    <2>4. Dgram!TypeOK'
      <3>1. /\ dgramQueue' \in Seq(Sends \cup {Dgram!Connect})
            /\ {binding', connecting'} \subseteq {"none", "lookup", "native", "ok", "failed"}
            /\ send' \in [Sends -> {"none", "queued", "lookup", "native", "answered", "called",
                   "dropped"}]
            /\ past' \subseteq {"receive failed", "disconnect failed", "connect failed", "threw"}
        BY <1>1, <1>2, <2>2 DEF Dgram!TypeOK
      <3> QED BY <2>3, <3>1, TypedAgain
    <2>5. LoopsOK' /\ (past' = {} => Dgram!HasLoop')
      BY <1>1, <1>2, <2>3, HearsNew DEF LoopsOK
    <2>6. ConnectInv'
      BY <1>2, <1>3, <2>1, <2>2, <2>3 DEF ConnectInv
    <2> QED BY <2>3, <2>4, <2>5, <2>6 DEF DgramInv
  <1>5. CASE connecting = "failed"
    <2>1. js' = [js EXCEPT !.connect = "no"] /\ past' = past \cup {"connect failed"}
          /\ UNCHANGED <<loops, dgramTodo>>
      BY <1>5 DEF Dgram!Connected
    <2>2. /\ js' \in SocketFields /\ js'.token = js.token
      BY <1>1, <2>1, SocketUpdates
    <2>3. Dgram!TypeOK'
      BY <1>1, <1>2, <2>1, <2>2 DEF Dgram!TypeOK, SocketFields
    <2>4. TokensInv' /\ LoopsOK'
      BY <1>1, <1>2, <2>1, <2>2, LoopsStay DEF LoopsOK
    <2>5. ConnectInv' /\ (past' = {} => Dgram!HasLoop')
      BY <2>1 DEF ConnectInv
    <2> QED BY <2>3, <2>4, <2>5 DEF DgramInv
  <1> QED BY <1>2, <1>4, <1>5

-----------------------------------------------------------------------------
(* The receive loops.                                                         *)

\* A step of a loop, which ends or goes on with its token.
LEMMA LoopsKeep ==
    ASSUME DgramInv, UNCHANGED <<js, dgramQueue, binding, connecting, send, generation>>,
           past' \subseteq {"receive failed", "disconnect failed", "connect failed", "threw"},
           past' = {} => past = {},
           TokensInv', loops' \subseteq LoopFields,
           past' = {} /\ (\E l \in loops : l.token = js.token) => \E l \in loops' : l.token = js'.token
    PROVE  DgramInv'
  <1>1. /\ Dgram!TypeOK /\ LoopsOK /\ ConnectInv /\ (past = {} => Dgram!HasLoop) /\ js \in SocketFields
    BY Typed DEF DgramInv
  <1>2. Dgram!TypeOK'
    <2>1. /\ dgramQueue' \in Seq(Sends \cup {Dgram!Connect})
          /\ {binding', connecting'} \subseteq {"none", "lookup", "native", "ok", "failed"}
          /\ send' \in [Sends -> {"none", "queued", "lookup", "native", "answered", "called", "dropped"}]
      BY <1>1 DEF Dgram!TypeOK
    <2> QED BY <1>1, <2>1, TypedAgain
  <1>3. LoopsOK' /\ ConnectInv' /\ (past' = {} => Dgram!HasLoop')
    BY <1>1 DEF LoopsOK, ConnectInv, Dgram!HasLoop
  <1> QED BY <1>2, <1>3 DEF DgramInv

LEMMA ArrivesKeeps ==
    ASSUME DgramInv, Dgram!Arrives
    PROVE  DgramInv'
  <1>1. UNCHANGED <<js, dgramQueue, binding, connecting, send, loops, dgramTodo, generation, past>>
    BY DEF Dgram!Arrives
  <1> QED BY <1>1, Elsewhere DEF DgramInv, Dgram!TypeOK

LEMMA ReceiveStartsKeeps ==
    ASSUME DgramInv, NEW l \in loops, Dgram!ReceiveStarts(l)
    PROVE  DgramInv'
  <1>1. /\ Dgram!TypeOK /\ LoopsOK /\ TokensInv /\ l \in LoopFields /\ generation \in Nat
    BY DEF DgramInv, LoopsOK
  <1>2. /\ UNCHANGED <<js, dgramQueue, binding, connecting, send, generation, past>>
        /\ loops' = (loops \ {l}) \cup
                    {[l EXCEPT !.at = IF js.open THEN "waiting" ELSE "failed", !.gen = generation]}
    BY DEF Dgram!ReceiveStarts, Dgram!hostVars
  <1>3. PICK a \in {"waiting", "failed"} : a = IF js.open THEN "waiting" ELSE "failed"
    OBVIOUS
  <1>4. PICK m \in LoopFields : m = [l EXCEPT !.at = a, !.gen = generation] /\ m.token = l.token
    <2>1. PICK g \in Nat : g = generation
      BY <1>1
    <2> QED BY <1>1, <2>1, LoopAtOf
  <1>5. /\ TokensInv' /\ loops' \subseteq LoopFields
        /\ (\E x \in loops : x.token = js.token) => \E x \in loops' : x.token = js'.token
    BY <1>1, <1>2, <1>3, <1>4, LoopChanges
  <1> QED BY <1>1, <1>2, <1>5, LoopsKeep DEF Dgram!TypeOK

LEMMA ReceiveAnswersKeeps ==
    ASSUME DgramInv, NEW l \in loops, Dgram!ReceiveAnswers(l)
    PROVE  DgramInv'
  <1>1. /\ Dgram!TypeOK /\ LoopsOK /\ TokensInv /\ l \in LoopFields /\ generation \in Nat
    BY DEF DgramInv, LoopsOK
  <1>2. PICK a \in {"data", "failed"} : loops' = (loops \ {l}) \cup {[l EXCEPT !.at = a]}
    BY DEF Dgram!ReceiveAnswers
  <1>3. UNCHANGED <<js, dgramQueue, binding, connecting, send, generation, past>>
    BY DEF Dgram!ReceiveAnswers
  <1>4. PICK m \in LoopFields : m = [l EXCEPT !.at = a] /\ m.token = l.token
    BY <1>1, LoopAt
  <1>5. /\ TokensInv' /\ loops' \subseteq LoopFields
        /\ (\E x \in loops : x.token = js.token) => \E x \in loops' : x.token = js'.token
    BY <1>1, <1>2, <1>3, <1>4, LoopChanges
  <1> QED BY <1>1, <1>3, <1>5, LoopsKeep DEF Dgram!TypeOK

LEMMA DatagramKeeps ==
    ASSUME DgramInv, NEW l \in loops, Dgram!Received(l)
    PROVE  DgramInv'
  <1>1. /\ Dgram!TypeOK /\ LoopsOK /\ TokensInv /\ l \in LoopFields /\ generation \in Nat
    BY DEF DgramInv, LoopsOK
  <1>2. /\ UNCHANGED <<js, dgramQueue, binding, connecting, send, generation>>
        /\ past' = IF l.token = js.token /\ l.at = "failed" THEN past \cup {"receive failed"} ELSE past
        /\ l.at \in {"data", "failed"}
    BY DEF Dgram!Received, Dgram!hostVars
  <1>3. CASE l.token = js.token /\ l.at = "data"
    <2>1. loops' = (loops \ {l}) \cup {[l EXCEPT !.at = "listener"]} /\ past' = past
      BY <1>2, <1>3 DEF Dgram!Received
    <2>2. PICK m \in LoopFields : m = [l EXCEPT !.at = "listener"] /\ m.token = l.token
      BY <1>1, LoopAt
    <2>3. /\ TokensInv' /\ loops' \subseteq LoopFields
          /\ (\E x \in loops : x.token = js.token) => \E x \in loops' : x.token = js'.token
      BY <1>1, <1>2, <2>1, <2>2, LoopChanges
    <2> QED BY <1>1, <1>2, <2>1, <2>3, LoopsKeep DEF Dgram!TypeOK
  <1>4. CASE ~(l.token = js.token /\ l.at = "data")
    <2>1. loops' = loops \ {l} /\ js' = js
      BY <1>2, <1>4 DEF Dgram!Received
    <2>2. /\ TokensInv' /\ loops' \subseteq LoopFields
          /\ (\E x \in loops : x.token = js.token) /\ l.token # js.token
                 => \E x \in loops' : x.token = js'.token
      BY <1>1, <2>1, LoopEnds
    <2>3. /\ past' \subseteq {"receive failed", "disconnect failed", "connect failed", "threw"}
          /\ past' = {} => past = {} /\ l.token # js.token
      BY <1>1, <1>2, <1>4 DEF Dgram!TypeOK
    <2> QED BY <1>2, <2>2, <2>3, LoopsKeep
  <1> QED BY <1>3, <1>4

LEMMA LoopGoesOnKeeps ==
    ASSUME DgramInv, Dgram!LoopGoesOn
    PROVE  DgramInv'
  <1>1. /\ Dgram!TypeOK /\ LoopsOK /\ TokensInv
    BY DEF DgramInv
  <1>2. PICK l \in loops :
           /\ loops' = (loops \ {l}) \cup
                       (IF l.token = js.token THEN {[l EXCEPT !.at = "called"]} ELSE {})
           /\ UNCHANGED <<js, dgramQueue, binding, connecting, send, generation, past>>
    BY DEF Dgram!LoopGoesOn, Dgram!hostVars
  <1>3. l \in LoopFields /\ generation \in Nat
    BY <1>1 DEF LoopsOK
  <1>4. CASE l.token = js.token
    <2>1. PICK m \in LoopFields : m = [l EXCEPT !.at = "called"] /\ m.token = l.token
      BY <1>3, LoopAt
    <2>2. loops' = (loops \ {l}) \cup {m}
      BY <1>2, <1>4, <2>1
    <2>3. /\ TokensInv' /\ loops' \subseteq LoopFields
          /\ (\E x \in loops : x.token = js.token) => \E x \in loops' : x.token = js'.token
      BY <1>1, <1>2, <2>1, <2>2, LoopChanges
    <2> QED BY <1>1, <1>2, <2>3, LoopsKeep DEF Dgram!TypeOK
  <1>5. CASE l.token # js.token
    <2>1. loops' = loops \ {l} /\ js' = js
      BY <1>2, <1>5
    <2>2. /\ TokensInv' /\ loops' \subseteq LoopFields
          /\ (\E x \in loops : x.token = js.token) /\ l.token # js.token
                 => \E x \in loops' : x.token = js'.token
      BY <1>1, <2>1, LoopEnds
    <2> QED BY <1>1, <1>2, <1>5, <2>2, LoopsKeep DEF Dgram!TypeOK
  <1> QED BY <1>4, <1>5

LEMMA ListenerReturnsKeeps ==
    ASSUME DgramInv, Dgram!ListenerReturns
    PROVE  DgramInv'
  <1>1. UNCHANGED <<js, dgramQueue, binding, connecting, send, loops, generation, past>>
    BY DEF Dgram!ListenerReturns, Dgram!hostVars
  <1>2. /\ past \subseteq {"receive failed", "disconnect failed", "connect failed", "threw"}
        /\ TokensInv' /\ loops' \subseteq LoopFields
    BY <1>1 DEF DgramInv, Dgram!TypeOK, TokensInv, LoopsOK
  <1> QED BY <1>1, <1>2, LoopsKeep

LEMMA ListenerThrowsKeeps ==
    ASSUME DgramInv, Dgram!ListenerThrows
    PROVE  DgramInv'
  <1>1. /\ Dgram!TypeOK /\ LoopsOK /\ TokensInv /\ js \in SocketFields
    BY Typed DEF DgramInv
  <1>2. past' = {"threw"} /\ UNCHANGED <<binding, connecting, bound, generation, arrived, bounds>>
    BY DEF Dgram!ListenerThrows, Dgram!hostVars
  <1>3. ConnectInv' /\ (past' = {} => Dgram!HasLoop')
    BY <1>2 DEF ConnectInv
  <1>4. /\ js' \in SocketFields /\ js'.token = js.token /\ loops' \subseteq loops
        /\ dgramQueue' \in Seq(Sends \cup {Dgram!Connect})
        /\ send' \in [Sends -> {"none", "queued", "lookup", "native", "answered", "called", "dropped"}]
    <2>1. CASE dgramTodo = <<"flush">> /\ js' = [js EXCEPT !.bind = "unbound"] /\ Dgram!DropQueue
               /\ UNCHANGED loops
      BY <1>1, <2>1, SocketUpdates, Dropped
    <2>2. CASE dgramTodo = <<"connect">> /\ js' = [js EXCEPT !.connect = "no"]
               /\ UNCHANGED <<dgramQueue, send, loops>>
      <3>1. js' \in SocketFields /\ js'.token = js.token
        BY <1>1, <2>2, SocketUpdates
      <3> QED BY <1>1, <2>2, <3>1 DEF Dgram!TypeOK
    <2>3. CASE loops' = {l \in loops : l.at # "listener"} /\ UNCHANGED <<js, dgramQueue, send>>
      BY <1>1, <2>3 DEF Dgram!TypeOK
    <2> QED BY <2>1, <2>2, <2>3 DEF Dgram!ListenerThrows
  <1>5. TokensInv' /\ loops' \subseteq LoopFields
    BY <1>1, <1>4 DEF TokensInv, LoopsOK
  <1>6. Dgram!TypeOK'
    <2>1. {binding', connecting'} \subseteq {"none", "lookup", "native", "ok", "failed"}
      BY <1>1, <1>2 DEF Dgram!TypeOK
    <2> QED BY <1>2, <1>4, <1>5, <2>1, TypedAgain
  <1>7. LoopsOK'
    BY <1>1, <1>2, <1>5 DEF LoopsOK
  <1> QED BY <1>3, <1>5, <1>6, <1>7 DEF DgramInv

-----------------------------------------------------------------------------
LEMMA InitDgram == Dgram!Init => DgramInv
  <1> SUFFICES ASSUME Dgram!Init PROVE DgramInv
    OBVIOUS
  <1>1. Dgram!TypeOK
    BY EmptyQueue DEF Dgram!Init, Dgram!TypeOK
  <1>2. LoopsOK /\ TokensInv /\ ConnectInv /\ Dgram!HasLoop
    BY EmptyQueue DEF Dgram!Init, LoopsOK, TokensInv, ConnectInv, Dgram!HasLoop
  <1> QED BY <1>1, <1>2 DEF DgramInv

LEMMA NextKeepsDgram ==
    ASSUME Dgram!Connect \notin Sends, DgramInv, [Dgram!Next]_Dgram!vars
    PROVE  DgramInv'
  <1>1. CASE UNCHANGED Dgram!vars
    BY <1>1, Elsewhere DEF Dgram!vars, DgramInv, Dgram!TypeOK
  <1>2. CASE Dgram!Program
    BY <1>2, SocketCloseKeeps, BindKeeps, ConnectToKeeps, DisconnectKeeps, SendKeeps
       DEF Dgram!Program
  <1>3. CASE Dgram!Runs
    BY <1>3, FlushKeeps, ListenerReturnsKeeps, LoopGoesOnKeeps, ListenerThrowsKeeps DEF Dgram!Runs
  <1>4. CASE Dgram!Host \/ Dgram!Arrives
    BY <1>4, BindsKeep, NativeConnectKeeps, ArrivesKeeps DEF Dgram!Host
  <1>5. CASE Dgram!Binds \/ Dgram!Connects
    BY <1>5, BoundKeeps, BindsKeep, ConnectedKeeps, ConnectLookupKeeps DEF Dgram!Binds,
       Dgram!Connects
  <1>6. CASE \E i \in Sends : Dgram!NativeSend(i) \/ Dgram!SendGoesOn(i)
    BY <1>6, SendsKeep
  <1>7. CASE \E l \in loops : Dgram!ReceiveStarts(l) \/ Dgram!ReceiveAnswers(l) \/ Dgram!Received(l)
    BY <1>7, ReceiveStartsKeeps, ReceiveAnswersKeeps, DatagramKeeps
  <1> QED BY <1>1, <1>2, <1>3, <1>4, <1>5, <1>6, <1>7 DEF Dgram!Next

\* Tokens are given once, and a connect() is queued or under way, not both.
THEOREM DgramInvIsInvariant == ASSUME Dgram!Connect \notin Sends PROVE Dgram!Spec => []DgramInv
  <1>1. Dgram!Init => DgramInv
    BY InitDgram
  <1>2. DgramInv /\ [Dgram!Next]_Dgram!vars => DgramInv'
    BY NextKeepsDgram
  <1> QED BY <1>1, <1>2, PTL DEF Dgram!Spec

\* A bound datagram socket has its receive loop, whatever bind(), connect(), disconnect() and
\* close() start and stop (_startReceiving and _recvToken of dgram.js), until a failure or a
\* listener that throws ends it; no two loops hold one token, so no two deliver.
THEOREM AlwaysHearsWhileBound ==
    ASSUME Dgram!Connect \notin Sends PROVE Dgram!Spec => []HearsWhileBound
  <1>1. DgramInv => HearsWhileBound
    BY DEF DgramInv, TokensInv, HearsWhileBound, Dgram!HearsWhileBound
  <1> QED BY <1>1, DgramInvIsInvariant, PTL

-----------------------------------------------------------------------------
(* The test runner: the calls of runSuite and executeSuite.                   *)
Ats == {"discover", "before", "run", "async", "pass", "fail"}
SuiteCalls == [at : Ats, of : Suites, prev : Suites \cup {None}]
Outcomes == {"none", "registered", "discovering", "pending"} \cup TestRunner!Settled

On(q, s) == \E i \in 1 .. Len(q) : q[i].of = s
Under(q, s, x) == \E i \in 1 .. Len(q) : i < Len(q) /\ q[i].of = s /\ q[i + 1].of = x
Goes(q, a) == [q EXCEPT ![Len(q)].at = a]
Pushed(q, f) == Append(q, f)
Apart(q) == \A i, j \in 1 .. Len(q) : q[i].of = q[j].of => i = j

Bad(x) == outcome[x] \in {"discovering", "pending", "fail", "rejected"}

-----------------------------------------------------------------------------
(* Stacks.                                                                   *)

LEMMA Frame ==
    ASSUME NEW f \in SuiteCalls
    PROVE  /\ f.at \in Ats /\ f.of \in Suites /\ f.prev \in Suites \cup {None}
           /\ \A a \in Ats :
                 LET g == [f EXCEPT !.at = a]
                 IN  g \in SuiteCalls /\ g.at = a /\ g.of = f.of /\ g.prev = f.prev
  BY DEF SuiteCalls

LEMMA NewFrame ==
    ASSUME NEW a \in Ats, NEW s \in Suites, NEW p \in Suites \cup {None}
    PROVE  \E f \in SuiteCalls : /\ f = [at |-> a, of |-> s, prev |-> p]
                                 /\ f.at = a /\ f.of = s /\ f.prev = p
<1> DEFINE f == [at |-> a, of |-> s, prev |-> p]
<1>1. f \in SuiteCalls /\ f.at = a /\ f.of = s /\ f.prev = p
  BY DEF SuiteCalls
<1> QED BY <1>1

\* The innermost call goes on.
LEMMA TopGoesOn ==
    ASSUME NEW q \in Seq(SuiteCalls), q # <<>>, NEW a \in Ats, NEW r, r = Goes(q, a)
    PROVE  /\ r \in Seq(SuiteCalls) /\ r # <<>> /\ Len(r) = Len(q) /\ Len(q) \in Nat \ {0}
           /\ \A i \in 1 .. Len(q) : r[i].of = q[i].of /\ (i < Len(q) => r[i] = q[i])
           /\ r[Len(q)].at = a /\ r[Len(q)].prev = q[Len(q)].prev
           /\ \A s : On(r, s) <=> On(q, s)
           /\ \A s, x : Under(r, s, x) <=> Under(q, s, x)
           /\ Apart(q) => Apart(r)
  <1>1. Len(q) \in Nat \ {0} /\ q[Len(q)] \in SuiteCalls
    OBVIOUS
  <1>2. PICK g \in SuiteCalls : /\ g = [q[Len(q)] EXCEPT !.at = a]
                               /\ g.at = a /\ g.of = q[Len(q)].of /\ g.prev = q[Len(q)].prev
    BY <1>1, Frame
  <1>3. r = [q EXCEPT ![Len(q)] = g]
    BY <1>1, <1>2 DEF Goes
  <1>4. /\ r \in Seq(SuiteCalls) /\ Len(r) = Len(q) /\ r # <<>>
        /\ \A i \in 1 .. Len(q) : i < Len(q) => r[i] = q[i]
        /\ r[Len(q)] = g
    BY <1>1, <1>3
  <1>5. \A i \in 1 .. Len(q) : r[i].of = q[i].of
    <2> TAKE i \in 1 .. Len(q)
    <2>1. i < Len(q) \/ i = Len(q)
      BY <1>1
    <2>2. r[Len(q)].of = q[Len(q)].of
      BY ONLY <1>2, <1>4
    <2> QED BY <1>4, <2>1, <2>2
  <1>6. \A s : On(r, s) <=> On(q, s)
    BY <1>4, <1>5 DEF On
  <1>7. \A s, x : Under(r, s, x) <=> Under(q, s, x)
    BY <1>1, <1>4, <1>5 DEF Under
  <1>8. Apart(q) => Apart(r)
    BY <1>4, <1>5 DEF Apart
  <1> QED BY <1>1, <1>2, <1>4, <1>5, <1>6, <1>7, <1>8

\* A call is made.
LEMMA PushCall ==
    ASSUME NEW q \in Seq(SuiteCalls), NEW f \in SuiteCalls, NEW r, r = Pushed(q, f)
    PROVE  /\ r \in Seq(SuiteCalls) /\ r # <<>> /\ Len(r) = Len(q) + 1 /\ Len(q) \in Nat
           /\ \A i \in 1 .. Len(q) : r[i] = q[i]
           /\ r[Len(q) + 1] = f
           /\ \A s : On(r, s) <=> On(q, s) \/ s = f.of
           /\ q # <<>> => \A s, x : Under(r, s, x) <=> Under(q, s, x) \/ (s = q[Len(q)].of /\ x = f.of)
           /\ q = <<>> => \A s, x : ~Under(r, s, x)
           /\ Apart(q) /\ ~On(q, f.of) => Apart(r)
  <1>1. /\ r \in Seq(SuiteCalls) /\ r # <<>> /\ Len(r) = Len(q) + 1 /\ Len(q) \in Nat
        /\ \A i \in 1 .. Len(q) : r[i] = q[i]
        /\ r[Len(q) + 1] = f
    BY DEF Pushed
  <1>2. \A s : On(r, s) <=> On(q, s) \/ s = f.of
    BY <1>1 DEF On
  <1>3. ASSUME q # <<>>, NEW s, NEW x
        PROVE  Under(r, s, x) <=> Under(q, s, x) \/ (s = q[Len(q)].of /\ x = f.of)
    <2>1. Len(q) \in 1 .. Len(q)
      BY <1>1, <1>3
    <2>2. ASSUME Under(r, s, x) PROVE Under(q, s, x) \/ (s = q[Len(q)].of /\ x = f.of)
      <3>1. PICK i \in 1 .. Len(r) : i < Len(r) /\ r[i].of = s /\ r[i + 1].of = x
        BY <2>2 DEF Under
      <3>2. CASE i = Len(q)
        BY <1>1, <3>1, <3>2
      <3>3. CASE i # Len(q)
        <4>1. i \in 1 .. Len(q) /\ i < Len(q) /\ i + 1 \in 1 .. Len(q)
          BY <1>1, <3>1, <3>3
        <4> QED BY <1>1, <3>1, <4>1 DEF Under
      <3> QED BY <3>2, <3>3
    <2>3. ASSUME Under(q, s, x) PROVE Under(r, s, x)
      <3>1. PICK i \in 1 .. Len(q) : i < Len(q) /\ q[i].of = s /\ q[i + 1].of = x
        BY <2>3 DEF Under
      <3>2. i \in 1 .. Len(r) /\ i < Len(r) /\ i + 1 \in 1 .. Len(q)
        BY <1>1, <3>1
      <3> QED BY <1>1, <3>1, <3>2 DEF Under
    <2>4. ASSUME s = q[Len(q)].of, x = f.of PROVE Under(r, s, x)
      <3>1. Len(q) \in 1 .. Len(r) /\ Len(q) < Len(r)
        BY <1>1, <2>1
      <3> QED BY <1>1, <2>1, <2>4, <3>1 DEF Under
    <2> QED BY <2>2, <2>3, <2>4
  <1>4. q = <<>> => \A s, x : ~Under(r, s, x)
    BY <1>1 DEF Under
  <1>5. Apart(q) /\ ~On(q, f.of) => Apart(r)
    BY <1>1 DEF Apart, On
  <1> QED BY <1>1, <1>2, <1>3, <1>4, <1>5

\* The innermost call returns.
LEMMA PopCall ==
    ASSUME NEW q \in Seq(SuiteCalls), q # <<>>, Apart(q), NEW r, r = TestRunner!Front(q)
    PROVE  /\ r \in Seq(SuiteCalls) /\ Len(r) = Len(q) - 1 /\ Len(q) \in Nat \ {0}
           /\ \A i \in 1 .. Len(r) : r[i] = q[i]
           /\ \A s : On(r, s) <=> On(q, s) /\ s # q[Len(q)].of
           /\ \A s, x : Under(r, s, x) <=> Under(q, s, x) /\ x # q[Len(q)].of
           /\ Apart(r)
  <1>1. /\ r \in Seq(SuiteCalls) /\ Len(r) = Len(q) - 1 /\ Len(q) \in Nat \ {0}
        /\ \A i \in 1 .. Len(r) : r[i] = q[i]
    <2>1. Len(q) \in Nat \ {0} /\ \A i \in 1 .. Len(q) - 1 : q[i] \in SuiteCalls
      OBVIOUS
    <2>2. /\ r \in Seq(SuiteCalls)
          /\ Len(r) = IF 1 <= Len(q) - 1 THEN Len(q) - 1 - 1 + 1 ELSE 0
          /\ \A i \in 1 .. Len(q) - 1 - 1 + 1 : r[i] = q[1 + i - 1]
      BY <2>1, SubSeqProperties DEF TestRunner!Front
    <2>3. Len(r) = Len(q) - 1
      <3>1. PICK n \in Nat \ {0} : n = Len(q)
        BY <2>1
      <3>2. Len(r) = IF 1 <= n - 1 THEN n - 1 - 1 + 1 ELSE 0
        BY <2>2, <3>1
      <3>3. Len(r) = n - 1
        BY ONLY <3>2, n \in Nat \ {0}
      <3> QED BY <3>1, <3>3
    <2>4. \A i \in 1 .. Len(r) : r[i] = q[i]
      <3> TAKE i \in 1 .. Len(r)
      <3>1. i \in 1 .. Len(q) - 1 - 1 + 1 /\ 1 + i - 1 = i
        BY <2>1, <2>3
      <3> QED BY <2>2, <3>1
    <2> QED BY <2>1, <2>2, <2>3, <2>4
  <1>2. ASSUME NEW s PROVE On(r, s) <=> On(q, s) /\ s # q[Len(q)].of
    <2>1. ASSUME On(r, s) PROVE On(q, s) /\ s # q[Len(q)].of
      <3>1. PICK i \in 1 .. Len(r) : r[i].of = s
        BY <2>1 DEF On
      <3>2. i \in 1 .. Len(q) /\ Len(q) \in 1 .. Len(q) /\ i # Len(q) /\ q[i].of = s
        BY <1>1, <3>1
      <3> QED BY <3>2 DEF On, Apart
    <2>2. ASSUME On(q, s), s # q[Len(q)].of PROVE On(r, s)
      <3>1. PICK i \in 1 .. Len(q) : q[i].of = s
        BY <2>2 DEF On
      <3>2. i \in 1 .. Len(r)
        BY <1>1, <2>2, <3>1
      <3> QED BY <1>1, <3>1, <3>2 DEF On
    <2> QED BY <2>1, <2>2
  <1>3. ASSUME NEW s, NEW x PROVE Under(r, s, x) <=> Under(q, s, x) /\ x # q[Len(q)].of
    <2>1. ASSUME Under(r, s, x) PROVE Under(q, s, x) /\ x # q[Len(q)].of
      <3>1. PICK i \in 1 .. Len(r) : i < Len(r) /\ r[i].of = s /\ r[i + 1].of = x
        BY <2>1 DEF Under
      <3>2. /\ i \in 1 .. Len(q) /\ i < Len(q) /\ i + 1 \in 1 .. Len(r) /\ i + 1 \in 1 .. Len(q)
            /\ Len(q) \in 1 .. Len(q) /\ i + 1 # Len(q)
        BY <1>1, <3>1
      <3>3. q[i].of = s /\ q[i + 1].of = x
        BY <1>1, <3>1, <3>2
      <3> QED BY <3>2, <3>3 DEF Under, Apart
    <2>2. ASSUME Under(q, s, x), x # q[Len(q)].of PROVE Under(r, s, x)
      <3>1. PICK i \in 1 .. Len(q) : i < Len(q) /\ q[i].of = s /\ q[i + 1].of = x
        BY <2>2 DEF Under
      <3>2. i \in 1 .. Len(r) /\ i + 1 \in 1 .. Len(r) /\ i < Len(r)
        BY <1>1, <2>2, <3>1
      <3> QED BY <1>1, <3>1, <3>2 DEF Under
    <2> QED BY <2>1, <2>2
  <1>4. Apart(r)
    BY <1>1 DEF Apart
  <1> QED BY <1>1, <1>2, <1>3, <1>4

LEMMA OneCall ==
    ASSUME NEW f \in SuiteCalls, NEW r, r = <<f>>
    PROVE  /\ r \in Seq(SuiteCalls) /\ r # <<>> /\ Len(r) = 1 /\ r[1] = f
           /\ \A s : On(r, s) <=> s = f.of
           /\ \A s, x : ~Under(r, s, x)
           /\ Apart(r)
  <1>1. r \in Seq(SuiteCalls) /\ r # <<>> /\ Len(r) = 1 /\ r[1] = f
    OBVIOUS
  <1>2. 1 .. Len(r) = {1}
    BY <1>1
  <1> QED BY <1>1, <1>2 DEF On, Under, Apart

LEMMA NoCall == Len(<<>>) = 0 /\ (\A s : ~On(<<>>, s)) /\ \A s, x : ~Under(<<>>, s, x)
  BY DEF On, Under

-----------------------------------------------------------------------------
(* The inductive invariant.                                                  *)

\* How far a call of runSuite or executeSuite is; only the outermost one can be of a suite
\* that was suspended before.
FrameOK(f, depth) ==
    /\ f.at \in {"discover", "before"} =>
        /\ outcome[f.of] = "registered" /\ idx[f.of] = 0
        /\ f.of \notin failures /\ f.of \notin finalized
    /\ f.at \in {"run", "pass", "fail"} =>
        outcome[f.of] = "registered" \/ (outcome[f.of] = "pending" /\ depth = 1)
    /\ f.at # "async" => waits[f.of] = None
    /\ f.at = "run" => f.of \notin finalized
    /\ f.at = "pass" => f.of \notin failures
    /\ f.at = "async" =>
        \/ outcome[f.of] = "discovering"
        \/ /\ waits[f.of] # None
           /\ outcome[f.of] = "registered" \/ (outcome[f.of] = "pending" /\ depth = 1)

\* Below a call there are suites that run it as their current entry; the outermost one is in no
\* suite unless it was suspended before.
StackInv ==
    /\ Apart(calls)
    /\ \A i \in 1 .. Len(calls) : FrameOK(calls[i], i)
    /\ \A i \in 1 .. Len(calls) : i < Len(calls) =>
        /\ calls[i].at = "run" /\ idx[calls[i].of] >= 1
        /\ calls[i + 1].of = tests[calls[i].of][idx[calls[i].of]]
    /\ calls # <<>> /\ outcome[calls[1].of] = "registered" =>
        \A p \in Suites : \A i \in 1 .. Len(tests[p]) : tests[p][i] # calls[1].of

\* An entry is registered in one place, and waits there until its suite comes to it.
PlacesInv ==
    /\ \A s, t \in Suites : \A i \in 1 .. Len(tests[s]), j \in 1 .. Len(tests[t]) :
        tests[s][i] = tests[t][j] => s = t /\ i = j
    /\ \A s \in Suites : \A i \in 1 .. Len(tests[s]) :
        /\ outcome[tests[s][i]] # "none"
        /\ i > idx[s] => outcome[tests[s][i]] = "registered" /\ ~On(calls, tests[s][i])

\* A suite that has not begun is untouched, and one with an async callback is not executed.
FreshInv ==
    \A s \in Suites :
        /\ outcome[s] = "none" => ~On(calls, s)
        /\ outcome[s] \in {"none", "registered"} /\ ~On(calls, s) =>
            /\ tests[s] = <<>> /\ idx[s] = 0 /\ waits[s] = None
            /\ s \notin failures /\ s \notin finalized
        /\ outcome[s] = "discovering" =>
            idx[s] = 0 /\ waits[s] = None /\ s \notin failures /\ s \notin finalized

\* A suite awaits its current entry.
WaitsInv ==
    \A p \in Suites : waits[p] # None =>
        /\ p \notin concurrent /\ p \notin finalized
        /\ idx[p] >= 1 /\ waits[p] = tests[p][idx[p]]
        /\ outcome[waits[p]] \in {"discovering", "pending"} \cup TestRunner!Settled
        /\ outcome[p] \in {"pending", "registered"}

\* An async callback has left the suite behind as the current one; it is never executed.
Left(s) ==
    /\ idx[s] = 0 /\ s \notin finalized
    /\ outcome[s] \in {"discovering"} \cup TestRunner!Settled /\ ~On(calls, s)

\* Nothing is registered in a suite that is executed.
CurrentInv ==
    /\ currentSuite # None =>
        \/ Left(currentSuite)
        \/ /\ calls # <<>> /\ TestRunner!Top.of = currentSuite
           /\ TestRunner!Top.at = "discover"
                  \/ (TestRunner!Top.at = "async" /\ outcome[TestRunner!Top.of] = "discovering")
    /\ TestRunner!Running("discover")
           => currentSuite = TestRunner!Top.of
               /\ (TestRunner!Top.prev # None => Left(TestRunner!Top.prev))

\* What has not passed is awaited, or known to the suite it is in.
FailInv ==
    /\ \A p \in failures : outcome[p] # "pass"
    /\ \A p \in Suites : \A i \in 1 .. Len(tests[p]) :
        i <= idx[p] /\ Bad(tests[p][i]) =>
            \/ tests[p][i] \in pending \cup batch \/ p \in failures \/ waits[p] = tests[p][i]
            \/ Under(calls, p, tests[p][i]) \/ outcome[p] \in {"fail", "rejected"}

\* What has not passed is awaited, or in a suite.
RootInv ==
    \A x \in TestRunner!Entries : Bad(x) =>
        \/ file = "failed" \/ x \in pending \cup batch
        \/ outcome[x] = "discovering" /\ calls # <<>> /\ calls[1].of = x
        \/ \E p \in Suites : \E i \in 1 .. Len(tests[p]) : i <= idx[p] /\ tests[p][i] = x

\* A sequential suite has done with what is before its current entry.
SeqInv ==
    \A s \in Suites \ concurrent : \A i \in 1 .. Len(tests[s]) :
        /\ i < idx[s] => outcome[tests[s][i]] \in TestRunner!Settled
        /\ i = idx[s] =>
            \/ outcome[tests[s][i]] \in TestRunner!Settled \/ waits[s] = tests[s][i]
            \/ Under(calls, s, tests[s][i])
        /\ s \in finalized => outcome[tests[s][i]] \in TestRunner!Settled

FinalInv == \A s \in finalized : idx[s] = Len(tests[s])

FileInv == file = "passed" => calls = <<>> /\ TestRunner!PassMeansPassed

\* Suites are not inside each other in a circle.
ForestInv ==
    \A S \in SUBSET TestRunner!Entries : S # {} =>
        \E x \in S : \A p \in Suites : \A i \in 1 .. Len(tests[p]) : tests[p][i] = x => p \notin S

RunnerTypesOK ==
    /\ concurrent \subseteq Suites /\ file \in {"running", "awaiting", "passed", "failed"}
    /\ calls \in Seq(SuiteCalls) /\ currentSuite \in Suites \cup {None}
    /\ tests \in [Suites -> Seq(TestRunner!Entries)] /\ idx \in [Suites -> Nat]
    /\ \A s \in Suites : idx[s] \in 0 .. Len(tests[s])
    /\ waits \in [Suites -> TestRunner!Entries \cup {None}]
    /\ outcome \in [TestRunner!Entries -> Outcomes]
    /\ failures \subseteq Suites /\ finalized \subseteq Suites
    /\ pending \subseteq TestRunner!Entries /\ batch \subseteq TestRunner!Entries

RunnerInv ==
    /\ RunnerTypesOK /\ StackInv /\ PlacesInv /\ FreshInv /\ WaitsInv /\ CurrentInv /\ FailInv
    /\ RootInv /\ SeqInv /\ FinalInv /\ FileInv /\ ForestInv

\* describe() tells tests from suites, and neither is null.
EntriesApart == Tests \cap Suites = {} /\ None \notin TestRunner!Entries

LEMMA InitRunner == EntriesApart /\ TestRunner!Init => RunnerInv
<1> SUFFICES ASSUME EntriesApart, TestRunner!Init PROVE RunnerInv
  OBVIOUS
<1>1. RunnerTypesOK
  BY DEF TestRunner!Init, RunnerTypesOK, SuiteCalls, Outcomes, TestRunner!Entries
<1>2. \A s \in Suites : 1 .. Len(tests[s]) = {}
  BY DEF TestRunner!Init
<1>3. StackInv /\ CurrentInv /\ FileInv
  BY DEF TestRunner!Init, StackInv, CurrentInv, FileInv, Apart, TestRunner!Running
<1>4. PlacesInv /\ SeqInv /\ FinalInv
  BY <1>2 DEF TestRunner!Init, PlacesInv, SeqInv, FinalInv
<1>5. FreshInv /\ WaitsInv
  BY DEF TestRunner!Init, FreshInv, WaitsInv, On, TestRunner!Entries
<1>6. FailInv /\ RootInv
  BY <1>2 DEF TestRunner!Init, FailInv, RootInv, Bad, TestRunner!Entries
<1>7. ForestInv
  BY <1>2 DEF ForestInv
<1> QED BY <1>1, <1>3, <1>4, <1>5, <1>6, <1>7 DEF RunnerInv

-----------------------------------------------------------------------------
(* Between the calls: what was awaited ends.                                  *)

LEMMA Settles ==
    ASSUME EntriesApart, RunnerInv, calls = <<>>, NEW x \in TestRunner!Entries,
           NEW r \in TestRunner!Settled,
           outcome[x] \in {"discovering", "pending"},
           outcome' = [outcome EXCEPT ![x] = r],
           \/ waits' = waits /\ (x \in Suites => outcome[x] = "discovering")
           \/ /\ x \in Suites /\ r = "rejected" /\ waits' = [waits EXCEPT ![x] = None]
              /\ waits[x] # None /\ outcome[waits[x]] = "rejected",
           UNCHANGED <<concurrent, TestRunner!harnessVars, calls, currentSuite, tests, idx, failures,
                       finalized, pending>>
    PROVE  RunnerInv'
<1>1. RunnerTypesOK'
  BY DEF RunnerInv, RunnerTypesOK, TestRunner!harnessVars, Outcomes, TestRunner!Settled
<1>2. /\ \A y \in TestRunner!Entries : y # x => outcome'[y] = outcome[y]
      /\ outcome'[x] = r
  BY DEF RunnerInv, RunnerTypesOK
<1>3. \A s \in Suites : \A i \in 1 .. Len(tests[s]) : tests[s][i] \in TestRunner!Entries
  BY DEF RunnerInv, RunnerTypesOK
<1>4. StackInv' /\ FinalInv' /\ ForestInv' /\ CurrentInv' /\ FileInv'
  <2>1. StackInv'
    BY DEF StackInv, Apart
  <2>2. FinalInv'
    BY DEF RunnerInv, FinalInv
  <2>3. ForestInv'
    BY DEF RunnerInv, ForestInv
  <2>4. CurrentInv'
    BY <1>2 DEF RunnerInv, CurrentInv, Left, TestRunner!Running, TestRunner!Settled,
       RunnerTypesOK, TestRunner!Entries
  <2>5. FileInv'
    BY DEF RunnerInv, FileInv, TestRunner!PassMeansPassed, TestRunner!harnessVars
  <2> QED BY <2>1, <2>2, <2>3, <2>4, <2>5
<1>5. PlacesInv'
  BY <1>2, <1>3 DEF RunnerInv, PlacesInv, TestRunner!Settled
<1>a. \A p \in Suites :
        \/ waits'[p] = waits[p] /\ (p = x => outcome[x] = "discovering")
        \/ p = x /\ waits'[p] = None /\ r = "rejected" /\ waits[p] # None
           /\ outcome[waits[p]] = "rejected"
  BY DEF RunnerInv, RunnerTypesOK
<1>6. FreshInv' /\ WaitsInv'
  <2>1. FreshInv'
    BY <1>2, <1>a DEF RunnerInv, FreshInv, TestRunner!Settled, TestRunner!Entries
  <2>2. WaitsInv'
    <3>1. \A p \in Suites : waits[p] \in TestRunner!Entries \cup {None}
      BY DEF RunnerInv, RunnerTypesOK
    <3> QED BY <1>2, <1>a, <3>1 DEF RunnerInv, WaitsInv, TestRunner!Settled, TestRunner!Entries
  <2> QED BY <2>1, <2>2
<1>7. FailInv'
  BY <1>2, <1>3 DEF RunnerInv, FailInv, Bad, FreshInv, WaitsInv, TestRunner!Settled,
     RunnerTypesOK, TestRunner!Entries, TestRunner!harnessVars
<1>8. RootInv'
  BY <1>2 DEF RunnerInv, RootInv, Bad, TestRunner!Settled, TestRunner!harnessVars
<1>9. SeqInv'
  BY <1>2, <1>3, <1>a DEF RunnerInv, SeqInv, TestRunner!Settled
<1> QED BY <1>1, <1>4, <1>5, <1>6, <1>7, <1>8, <1>9 DEF RunnerInv

LEMMA PendingSettles ==
    ASSUME EntriesApart, RunnerInv,
           \/ \E t \in Tests : TestRunner!TestSettles(t)
           \/ \E s \in Suites : TestRunner!AsyncCallbackEnds(s) \/ TestRunner!SuiteBreaks(s)
    PROVE  RunnerInv'
<1>1. ASSUME NEW t \in Tests, TestRunner!TestSettles(t) PROVE RunnerInv'
  <2>1. PICK r \in TestRunner!Settled : outcome' = [outcome EXCEPT ![t] = r]
    BY <1>1 DEF TestRunner!TestSettles
  <2>2. t \in TestRunner!Entries /\ t \notin Suites
    BY DEF EntriesApart, TestRunner!Entries
  <2> QED BY <1>1, <2>1, <2>2, Settles DEF TestRunner!TestSettles, TestRunner!suiteVars
<1>2. ASSUME NEW s \in Suites, TestRunner!AsyncCallbackEnds(s) PROVE RunnerInv'
  <2>1. PICK r \in TestRunner!Settled : outcome' = [outcome EXCEPT ![s] = r]
    BY <1>2 DEF TestRunner!AsyncCallbackEnds, TestRunner!Settled
  <2>2. s \in TestRunner!Entries
    BY DEF TestRunner!Entries
  <2> QED BY <1>2, <2>1, <2>2, Settles DEF TestRunner!AsyncCallbackEnds, TestRunner!suiteVars
<1>3. ASSUME NEW s \in Suites, TestRunner!SuiteBreaks(s) PROVE RunnerInv'
  <2>1. s \in TestRunner!Entries /\ "rejected" \in TestRunner!Settled
    BY DEF TestRunner!Entries, TestRunner!Settled
  <2>2. outcome[s] = "pending"
    <3>1. \A q \in Suites : ~On(calls, q)
      BY <1>3, NoCall DEF TestRunner!SuiteBreaks
    <3> QED BY <1>3, <3>1 DEF TestRunner!SuiteBreaks, RunnerInv, WaitsInv, FreshInv
  <2> QED BY <1>3, <2>1, <2>2, Settles DEF TestRunner!SuiteBreaks
<1> QED BY <1>1, <1>2, <1>3

\* What neither the suites nor the calls depend on.
LEMMA SuitesStay ==
    ASSUME RunnerInv, UNCHANGED <<concurrent, calls, currentSuite, TestRunner!suiteVars, outcome>>
    PROVE  /\ StackInv' /\ PlacesInv' /\ FreshInv' /\ WaitsInv' /\ CurrentInv' /\ SeqInv'
           /\ FinalInv' /\ ForestInv'
<1>1. /\ UNCHANGED <<concurrent, calls, currentSuite, tests, idx>>
      /\ UNCHANGED <<waits, failures, finalized, outcome>>
  BY DEF TestRunner!suiteVars
<1>2. StackInv'
  BY <1>1 DEF RunnerInv, StackInv, FrameOK
<1>3. PlacesInv' /\ FreshInv' /\ WaitsInv'
  BY <1>1 DEF RunnerInv, PlacesInv, FreshInv, WaitsInv
<1>4. CurrentInv'
  BY <1>1 DEF RunnerInv, CurrentInv, Left, TestRunner!Running, TestRunner!Top
<1>5. SeqInv' /\ FinalInv' /\ ForestInv'
  BY <1>1 DEF RunnerInv, SeqInv, FinalInv, ForestInv
<1> QED BY <1>2, <1>3, <1>4, <1>5

LEMMA FileEndsKeeps ==
    ASSUME RunnerInv, TestRunner!FileEnds \/ TestRunner!AwaitFails
    PROVE  RunnerInv'
<1>1. /\ UNCHANGED <<concurrent, calls, currentSuite, TestRunner!suiteVars, outcome>>
      /\ UNCHANGED <<tests, idx, waits, failures, pending, batch, outcome, calls>>
      /\ file' \in {"awaiting", "failed"} /\ (file = "failed" => file' = "failed")
  BY DEF TestRunner!FileEnds, TestRunner!AwaitFails, TestRunner!suiteVars
<1>2. RunnerTypesOK'
  BY <1>1 DEF RunnerInv, RunnerTypesOK, TestRunner!suiteVars
<1>3. FailInv'
  BY <1>1 DEF RunnerInv, FailInv, Bad
<1>4. RootInv'
  BY <1>1 DEF RunnerInv, RootInv, Bad
<1>5. FileInv'
  BY <1>1 DEF FileInv
<1> QED BY <1>1, <1>2, <1>3, <1>4, <1>5, SuitesStay DEF RunnerInv

\* What has not passed is in a suite that has not passed, and so on, unless it is awaited.
LEMMA NothingLeft ==
    ASSUME EntriesApart, RunnerInv, file = "awaiting", calls = <<>>, TestRunner!BatchPassed, pending = {}
    PROVE  \A x \in TestRunner!Entries : ~Bad(x)
<1> DEFINE S == {x \in TestRunner!Entries : Bad(x)}
<1> SUFFICES ASSUME S # {} PROVE FALSE
  OBVIOUS
<1>1. PICK x \in S : \A p \in Suites : \A i \in 1 .. Len(tests[p]) : tests[p][i] = x => p \notin S
  BY DEF RunnerInv, ForestInv
<1>2. x \notin pending \cup batch
  BY DEF TestRunner!BatchPassed, Bad
<1>3. PICK p \in Suites : \E i \in 1 .. Len(tests[p]) : i <= idx[p] /\ tests[p][i] = x
  BY <1>2 DEF RunnerInv, RootInv
<1>4. \/ p \in failures \/ waits[p] = x \/ outcome[p] \in {"fail", "rejected"}
  BY <1>2, <1>3, NoCall DEF RunnerInv, FailInv
<1>5. p \in TestRunner!Entries /\ ~On(calls, p) /\ outcome[p] \in Outcomes
  BY NoCall DEF RunnerInv, RunnerTypesOK, TestRunner!Entries
<1>6. waits[p] = x => waits[p] # None
  BY <1>1 DEF EntriesApart
<1>7. Bad(p)
  BY <1>4, <1>5, <1>6 DEF RunnerInv, FailInv, FreshInv, WaitsInv, Bad, Outcomes,
     TestRunner!Settled
<1> QED BY <1>1, <1>3, <1>5, <1>7

LEMMA AwaitsNextKeeps ==
    ASSUME EntriesApart, RunnerInv, TestRunner!AwaitsNext
    PROVE  RunnerInv'
<1>1. /\ UNCHANGED <<concurrent, calls, currentSuite, TestRunner!suiteVars, outcome>>
      /\ UNCHANGED <<tests, idx, waits, failures, outcome, calls>>
      /\ calls = <<>> /\ file = "awaiting" /\ file' = IF pending = {} THEN "passed" ELSE file
      /\ batch' = pending /\ pending' = {} /\ TestRunner!BatchPassed
  BY DEF TestRunner!AwaitsNext, TestRunner!suiteVars
<1>2. RunnerTypesOK'
  BY <1>1 DEF RunnerInv, RunnerTypesOK, TestRunner!suiteVars
<1>3. \A x : Bad(x) /\ x \in pending \cup batch => x \in pending' \cup batch'
  BY <1>1 DEF Bad, TestRunner!BatchPassed
<1>4. FailInv'
  BY <1>1, <1>3 DEF RunnerInv, FailInv, Bad
<1>5. RootInv'
  BY <1>1, <1>3 DEF RunnerInv, RootInv, Bad
<1>6. FileInv'
  <2> SUFFICES ASSUME pending = {}
                          PROVE calls = <<>> /\ \A x \in TestRunner!Entries :
                                    outcome[x] \in {"none", "registered", "pass"}
    BY <1>1 DEF FileInv, TestRunner!PassMeansPassed
  <2>1. \A x \in TestRunner!Entries : ~Bad(x) /\ outcome[x] \in Outcomes
    BY <1>1, NothingLeft DEF RunnerInv, RunnerTypesOK
  <2> QED BY <1>1, <2>1 DEF Bad, Outcomes, TestRunner!Settled
<1> QED BY <1>1, <1>2, <1>4, <1>5, <1>6, SuitesStay DEF RunnerInv

-----------------------------------------------------------------------------
(* test() and describe().                                                     *)

LEMMA WaitsBegun ==
    ASSUME EntriesApart, RunnerInv, NEW p \in Suites
    PROVE  /\ waits[p] \in TestRunner!Entries \cup {None}
           /\ \A x \in TestRunner!Entries : outcome[x] \in {"none", "registered"} => waits[p] # x
<1>1. waits[p] \in TestRunner!Entries \cup {None}
  BY DEF RunnerInv, RunnerTypesOK
<1>2. ASSUME NEW x \in TestRunner!Entries, outcome[x] \in {"none", "registered"}, waits[p] = x
                 PROVE FALSE
  <2>1. waits[p] # None
    BY <1>2 DEF EntriesApart
  <2>2. outcome[x] \in {"discovering", "pending"} \cup TestRunner!Settled
    BY <1>2, <2>1 DEF RunnerInv, WaitsInv
  <2> QED BY <1>2, <2>2 DEF TestRunner!Settled
<1> QED BY <1>1, <1>2

LEMMA TestNowKeeps ==
    ASSUME EntriesApart, RunnerInv, NEW t \in Tests, TestRunner!TestNow(t)
    PROVE  RunnerInv'
<1>1. PICK r \in {"pass", "fail", "async"} :
        /\ TestRunner!TestReturns(t, r)
        /\ pending' = IF r = "async" THEN pending \cup {t} ELSE pending
        /\ file' = IF r = "fail" THEN "failed" ELSE file
  BY DEF TestRunner!TestNow
<1>2. /\ UNCHANGED <<concurrent, batch, calls, currentSuite, tests, idx, waits, failures, finalized>>
      /\ file = "running" /\ calls = <<>> /\ outcome[t] = "none" /\ currentSuite = None
  BY DEF TestRunner!TestNow, TestRunner!suiteVars
<1>3. t \in TestRunner!Entries /\ t \notin Suites
  BY DEF EntriesApart, TestRunner!Entries
<1>4. /\ outcome' \in [TestRunner!Entries -> Outcomes] /\ \A y \in TestRunner!Entries : y # t
             => outcome'[y] = outcome[y]
      /\ outcome'[t] = IF r = "async" THEN "pending" ELSE r
  BY <1>1, <1>3 DEF TestRunner!TestReturns, RunnerInv, RunnerTypesOK, Outcomes, TestRunner!Settled
<1>5. RunnerTypesOK'
  BY <1>1, <1>2, <1>3, <1>4 DEF RunnerInv, RunnerTypesOK
<1>6. \A s \in Suites : /\ outcome'[s] = outcome[s] /\ s \in TestRunner!Entries
                        /\ \A i \in 1 .. Len(tests[s]) :
                               tests[s][i] \in TestRunner!Entries /\ tests[s][i] # t
                        /\ waits[s] # t /\ waits[s] \in TestRunner!Entries \cup {None}
  <2> TAKE s \in Suites
  <2>1. s \in TestRunner!Entries /\ s # t
    BY <1>3 DEF TestRunner!Entries
  <2>2. \A i \in 1 .. Len(tests[s]) : tests[s][i] \in TestRunner!Entries /\ tests[s][i] # t
    BY <1>2 DEF RunnerInv, RunnerTypesOK, PlacesInv
  <2>3. waits[s] # t /\ waits[s] \in TestRunner!Entries \cup {None}
    BY <1>2, <1>3, WaitsBegun
  <2> QED BY <1>4, <2>1, <2>2, <2>3
<1>7. StackInv' /\ CurrentInv'
  BY <1>2 DEF StackInv, Apart, CurrentInv, TestRunner!Running
<1>8. PlacesInv'
  BY <1>2, <1>4, <1>6 DEF RunnerInv, PlacesInv
<1>9. FreshInv' /\ WaitsInv'
  BY <1>2, <1>4, <1>6 DEF RunnerInv, FreshInv, WaitsInv
<1>10. FailInv'
  BY <1>1, <1>2, <1>4, <1>6 DEF RunnerInv, FailInv, Bad, RunnerTypesOK
<1>11. RootInv'
  BY <1>1, <1>2, <1>4 DEF RunnerInv, RootInv, Bad
<1>12. SeqInv' /\ FinalInv' /\ ForestInv'
  <2>1. SeqInv'
    BY <1>2, <1>4, <1>6 DEF RunnerInv, SeqInv
  <2>2. FinalInv' /\ ForestInv'
    BY <1>2 DEF RunnerInv, FinalInv, ForestInv
  <2> QED BY <2>1, <2>2
<1>13. FileInv'
  BY <1>1, <1>2 DEF FileInv
<1> QED BY <1>5, <1>7, <1>8, <1>9, <1>10, <1>11, <1>12, <1>13 DEF RunnerInv

LEMMA SuiteNowKeeps ==
    ASSUME EntriesApart, RunnerInv, NEW s \in Suites, TestRunner!SuiteNow(s)
    PROVE  RunnerInv'
<1>1. /\ UNCHANGED <<concurrent, file, batch, tests, idx, waits, failures, finalized, pending>>
      /\ file = "running" /\ calls = <<>> /\ outcome[s] = "none" /\ currentSuite = None
      /\ currentSuite' = s /\ outcome' = [outcome EXCEPT ![s] = "registered"]
      /\ calls' = Append(calls, [at |-> "discover", of |-> s, prev |-> currentSuite])
  BY DEF TestRunner!SuiteNow, TestRunner!suiteVars, TestRunner!harnessVars, TestRunner!RunSuite
<1>2. PICK f \in SuiteCalls : /\ f = [at |-> "discover", of |-> s, prev |-> None]
                              /\ f.at = "discover" /\ f.of = s /\ f.prev = None
  <2>1. "discover" \in Ats /\ None \in Suites \cup {None}
    BY DEF Ats
  <2> QED BY <2>1, NewFrame
<1>3. calls' = <<f>>
  BY <1>1, <1>2
<1>4. /\ calls' \in Seq(SuiteCalls) /\ calls' # <<>> /\ Len(calls') = 1 /\ calls'[1] = f
      /\ \A x : On(calls', x) <=> x = s
      /\ \A x, y : ~Under(calls', x, y)
      /\ Apart(calls')
  BY <1>2, <1>3, OneCall
<1>5. s \in TestRunner!Entries /\ \A x : ~On(calls, x) /\ \A y : ~Under(calls, x, y)
  BY <1>1, NoCall DEF TestRunner!Entries
<1>6. /\ outcome' \in [TestRunner!Entries -> Outcomes] /\ \A y \in TestRunner!Entries : y # s
             => outcome'[y] = outcome[y]
      /\ outcome'[s] = "registered"
  BY <1>1, <1>5 DEF RunnerInv, RunnerTypesOK, Outcomes
<1>7. RunnerTypesOK'
  BY <1>1, <1>4, <1>6 DEF RunnerInv, RunnerTypesOK
<1>8. \A p \in Suites : /\ p \in TestRunner!Entries
                        /\ \A i \in 1 .. Len(tests[p]) :
                               tests[p][i] \in TestRunner!Entries /\ tests[p][i] # s
                        /\ waits[p] # s /\ waits[p] \in TestRunner!Entries \cup {None}
  <2> TAKE p \in Suites
  <2>1. \A i \in 1 .. Len(tests[p]) : tests[p][i] \in TestRunner!Entries /\ tests[p][i] # s
    BY <1>1 DEF RunnerInv, RunnerTypesOK, PlacesInv
  <2>2. waits[p] # s /\ waits[p] \in TestRunner!Entries \cup {None}
    BY <1>1, <1>5, WaitsBegun
  <2> QED BY <2>1, <2>2 DEF TestRunner!Entries
<1>9. idx[s] = 0 /\ waits[s] = None /\ s \notin failures /\ s \notin finalized
  BY <1>1, <1>5 DEF RunnerInv, FreshInv
<1>10. StackInv'
  <2>1. \A i \in 1 .. Len(calls') : i = 1 /\ ~(i < Len(calls'))
    BY <1>4
  <2>2. FrameOK(f, 1)'
    BY <1>1, <1>2, <1>6, <1>9 DEF FrameOK
  <2> QED BY <1>1, <1>2, <1>4, <1>8, <2>1, <2>2 DEF StackInv
<1>11. CurrentInv'
  <2>1. TestRunner!Top' = f
    BY <1>4 DEF TestRunner!Top, TestRunner!Last
  <2> QED BY <1>1, <1>2, <1>4, <2>1 DEF CurrentInv, TestRunner!Running
<1>12. PlacesInv'
  BY <1>1, <1>4, <1>6, <1>8 DEF RunnerInv, PlacesInv
<1>13. FreshInv'
  BY <1>1, <1>4, <1>5, <1>6, <1>8, <1>9 DEF RunnerInv, FreshInv
<1>14. WaitsInv'
  BY <1>1, <1>6, <1>8, <1>9 DEF RunnerInv, WaitsInv
<1>15. FailInv'
  <2>1. \A p \in failures : p \in TestRunner!Entries
    BY <1>8 DEF RunnerInv, RunnerTypesOK
  <2>2. \A p \in failures' : outcome'[p] # "pass"
    BY <1>1, <1>6, <2>1 DEF RunnerInv, FailInv
  <2>3. ASSUME NEW p \in Suites, NEW i \in 1 .. Len(tests[p]), i <= idx[p], Bad(tests[p][i])'
        PROVE  \/ tests[p][i] \in pending \cup batch \/ p \in failures \/ waits[p] = tests[p][i]
               \/ outcome'[p] \in {"fail", "rejected"}
    <3>1. Bad(tests[p][i])
      BY <1>1, <1>6, <1>8, <2>3 DEF Bad
    <3> QED BY <1>1, <1>5, <1>6, <1>8, <2>3, <3>1 DEF RunnerInv, FailInv
  <2> QED BY <1>1, <2>2, <2>3 DEF FailInv
<1>16. RootInv'
  BY <1>1, <1>6 DEF RunnerInv, RootInv, Bad
<1>17. SeqInv' /\ FinalInv' /\ ForestInv'
  <2>1. SeqInv'
    <3> SUFFICES ASSUME NEW q \in Suites \ concurrent, NEW i \in 1 .. Len(tests[q])
                 PROVE  /\ i < idx[q] => outcome'[tests[q][i]] \in TestRunner!Settled
                        /\ i = idx[q]
                               => outcome'[tests[q][i]] \in TestRunner!Settled \/ waits[q] = tests[q][i]
                        /\ q \in finalized => outcome'[tests[q][i]] \in TestRunner!Settled
      BY <1>1 DEF SeqInv
    <3>1. outcome'[tests[q][i]] = outcome[tests[q][i]]
      BY <1>6, <1>8
    <3> QED BY <1>5, <3>1 DEF RunnerInv, SeqInv
  <2>2. FinalInv' /\ ForestInv'
    BY <1>1 DEF RunnerInv, FinalInv, ForestInv
  <2> QED BY <2>1, <2>2
<1>18. FileInv'
  BY <1>1 DEF FileInv
<1> QED BY <1>7, <1>10, <1>11, <1>12, <1>13, <1>14, <1>15, <1>16, <1>17, <1>18 DEF RunnerInv

\* test() or describe() inside a suite.
LEMMA RegisterKeeps ==
    ASSUME EntriesApart, RunnerInv, NEW x \in TestRunner!Entries, TestRunner!Register(x)
    PROVE  RunnerInv'
<1> DEFINE c == currentSuite
<1>1. /\ UNCHANGED <<concurrent, file, batch, calls, currentSuite, idx, waits, failures,
             finalized, pending>>
      /\ TestRunner!CodeRuns /\ outcome[x] = "none" /\ c # None /\ c \in Suites
      /\ tests' = [tests EXCEPT ![c] = Append(@, x)]
      /\ outcome' = [outcome EXCEPT ![x] = "registered"]
  BY DEF TestRunner!Register, TestRunner!harnessVars, RunnerInv, RunnerTypesOK
<1>2. /\ outcome' \in [TestRunner!Entries -> Outcomes] /\ \A y \in TestRunner!Entries : y # x
             => outcome'[y] = outcome[y]
      /\ outcome'[x] = "registered"
  BY <1>1 DEF RunnerInv, RunnerTypesOK, Outcomes
<1>3. idx[c] = 0 /\ c \notin finalized /\ outcome[c] # "none" /\ c \in TestRunner!Entries
  <2>1. CASE Left(c)
    BY <1>1, <2>1 DEF Left, TestRunner!Settled, TestRunner!Entries
  <2>2. CASE calls # <<>> /\ TestRunner!Top.of = c
                 /\ (TestRunner!Top.at = "discover"
                        \/ (TestRunner!Top.at = "async" /\ outcome[TestRunner!Top.of] = "discovering"))
    <3>1. Len(calls) \in 1 .. Len(calls) /\ TestRunner!Top = calls[Len(calls)]
      BY <2>2 DEF RunnerInv, RunnerTypesOK, TestRunner!Top, TestRunner!Last
    <3>2. FrameOK(TestRunner!Top, Len(calls))
      BY <3>1 DEF RunnerInv, StackInv
    <3> QED BY <1>1, <2>2, <3>2 DEF FrameOK, RunnerInv, FreshInv, TestRunner!Entries
  <2> QED BY <1>1, <2>1, <2>2 DEF RunnerInv, CurrentInv
<1>4. PICK n \in Nat : n = Len(tests[c])
  BY <1>1 DEF RunnerInv, RunnerTypesOK
<1>5. /\ tests' \in [Suites -> Seq(TestRunner!Entries)]
      /\ \A s \in Suites : s # c => tests'[s] = tests[s]
      /\ Len(tests'[c]) = n + 1 /\ tests'[c][n + 1] = x
      /\ \A i \in 1 .. n : tests'[c][i] = tests[c][i]
  BY <1>1, <1>4 DEF RunnerInv, RunnerTypesOK
<1>6. \A s \in Suites : /\ s \in TestRunner!Entries /\ Len(tests[s]) \in Nat
                        /\ \A i \in 1 .. Len(tests[s]) :
                               tests[s][i] \in TestRunner!Entries /\ tests[s][i] # x
                        /\ waits[s] \in TestRunner!Entries \cup {None} /\ waits[s] # x
  <2> TAKE s \in Suites
  <2>1. \A i \in 1 .. Len(tests[s]) : tests[s][i] \in TestRunner!Entries /\ tests[s][i] # x
    BY <1>1 DEF RunnerInv, RunnerTypesOK, PlacesInv
  <2>2. waits[s] # x /\ waits[s] \in TestRunner!Entries \cup {None}
    BY <1>1, WaitsBegun
  <2> QED BY <2>1, <2>2 DEF TestRunner!Entries, RunnerInv, RunnerTypesOK
\* The places of before and the new one.
<1>7. \A s \in Suites : \A i \in 1 .. Len(tests'[s]) :
        \/ i \in 1 .. Len(tests[s]) /\ tests'[s][i] = tests[s][i]
        \/ s = c /\ i = n + 1 /\ tests'[s][i] = x
  BY <1>4, <1>5
<1>8. ~On(calls, x)
  <2>1. x \in Suites => ~On(calls, x)
    BY <1>1 DEF RunnerInv, FreshInv
  <2>2. \A i \in 1 .. Len(calls) : calls[i] \in SuiteCalls
    BY DEF RunnerInv, RunnerTypesOK
  <2> QED BY <2>1, <2>2, Frame DEF On
<1>9. \A s \in Suites :
          idx[s] \in 0 .. Len(tests[s]) /\ Len(tests'[s]) \in Nat /\ Len(tests[s]) <= Len(tests'[s])
  <2> TAKE s \in Suites
  <2>1. idx[s] \in 0 .. Len(tests[s]) /\ Len(tests[s]) \in Nat
    BY DEF RunnerInv, RunnerTypesOK
  <2>2. CASE s = c
    BY <1>4, <1>5, <2>1, <2>2
  <2>3. CASE s # c
    BY <1>5, <2>1, <2>3
  <2> QED BY <2>2, <2>3
<1>10. RunnerTypesOK'
  BY <1>1, <1>2, <1>5, <1>6, <1>9 DEF RunnerInv, RunnerTypesOK
<1>11. StackInv'
  <2>1. \A i \in 1 .. Len(calls) : calls[i].of \in Suites /\ calls[i].of # x
    <3>1. \A i \in 1 .. Len(calls) : calls[i] \in SuiteCalls
      BY DEF RunnerInv, RunnerTypesOK
    <3> QED BY <1>8, <3>1, Frame DEF On
  <2>2. ASSUME NEW i \in 1 .. Len(calls) PROVE FrameOK(calls[i], i)'
    BY <1>1, <1>2, <1>6, <2>1 DEF RunnerInv, StackInv, FrameOK
  <2>3. ASSUME NEW i \in 1 .. Len(calls), i < Len(calls)
        PROVE  /\ calls[i].at = "run" /\ idx[calls[i].of] >= 1
               /\ calls[i + 1].of = tests'[calls[i].of][idx[calls[i].of]]
    <3>1. /\ calls[i].at = "run" /\ idx[calls[i].of] >= 1
          /\ calls[i + 1].of = tests[calls[i].of][idx[calls[i].of]]
      BY <2>3 DEF RunnerInv, StackInv
    <3>2. calls[i].of # c
      BY <1>3, <2>1, <3>1
    <3> QED BY <1>5, <2>1, <3>1, <3>2
  <2>4. ASSUME calls # <<>>, outcome'[calls[1].of] = "registered",
               NEW p \in Suites, NEW i \in 1 .. Len(tests'[p])
        PROVE  tests'[p][i] # calls[1].of
    <3>1. calls[1].of # x /\ calls[1].of \in TestRunner!Entries
      <4>1. 1 \in 1 .. Len(calls)
        BY <2>4 DEF RunnerInv, RunnerTypesOK
      <4> QED BY <1>6, <2>1, <4>1
    <3>2. outcome[calls[1].of] = "registered"
      BY <1>2, <2>4, <3>1
    <3> QED BY <1>7, <2>4, <3>1, <3>2 DEF RunnerInv, StackInv
  <2> QED BY <1>1, <2>2, <2>3, <2>4 DEF RunnerInv, StackInv
<1>12. PlacesInv'
  <2>1. ASSUME NEW s \in Suites, NEW t \in Suites, NEW i \in 1 .. Len(tests'[s]),
               NEW j \in 1 .. Len(tests'[t]),
               tests'[s][i] = tests'[t][j]
        PROVE  s = t /\ i = j
    BY <1>6, <1>7, <2>1 DEF RunnerInv, PlacesInv
  <2>2. ASSUME NEW s \in Suites, NEW i \in 1 .. Len(tests'[s])
        PROVE  /\ outcome'[tests'[s][i]] # "none"
               /\ i > idx[s] => outcome'[tests'[s][i]] = "registered" /\ ~On(calls, tests'[s][i])
    BY <1>2, <1>6, <1>7, <1>8, <2>2 DEF RunnerInv, PlacesInv
  <2> QED BY <1>1, <2>1, <2>2 DEF PlacesInv
<1>13. FreshInv'
  <2>1. c \in Suites /\ ~(outcome[c] \in {"none", "registered"} /\ ~On(calls, c))
    <3>1. CASE Left(c)
      BY <1>1, <3>1 DEF Left, TestRunner!Settled
    <3>2. CASE calls # <<>> /\ TestRunner!Top.of = c
      <4>1. Len(calls) \in 1 .. Len(calls) /\ TestRunner!Top = calls[Len(calls)]
        BY <3>2 DEF RunnerInv, RunnerTypesOK, TestRunner!Top, TestRunner!Last
      <4> QED BY <1>1, <3>2, <4>1 DEF On
    <3> QED BY <1>1, <3>1, <3>2 DEF RunnerInv, CurrentInv
  <2>2. c # x
    BY <1>1, <1>3
  <2> QED BY <1>1, <1>2, <1>5, <1>6, <1>8, <2>1, <2>2 DEF RunnerInv, FreshInv
<1>14. WaitsInv'
  <2>1. \A p \in Suites : waits[p] # None => p # c
    BY <1>3 DEF RunnerInv, WaitsInv
  <2> QED BY <1>1, <1>2, <1>5, <1>6, <2>1 DEF RunnerInv, WaitsInv
<1>15. CurrentInv'
  <2>1. \A s \in Suites : Left(s) => Left(s)'
    BY <1>1, <1>2, <1>6 DEF Left, TestRunner!Settled
  <2>2. calls # <<>>
            => TestRunner!Top \in SuiteCalls /\ TestRunner!Top.prev \in Suites \cup {None}
                /\ TestRunner!Top.of \in Suites
    <3>1. calls # <<>> => TestRunner!Top \in SuiteCalls
      BY DEF RunnerInv, RunnerTypesOK, TestRunner!Top, TestRunner!Last
    <3> QED BY <3>1, Frame
  <2>3. TestRunner!Top' = TestRunner!Top /\ UNCHANGED <<calls, currentSuite>>
    BY <1>1 DEF TestRunner!Top
  <2>4. calls # <<>>
            => (outcome[TestRunner!Top.of] = "discovering"
                => outcome'[TestRunner!Top.of] = "discovering")
    BY <1>1, <1>2, <1>6, <2>2
  <2>5. TestRunner!Running("discover")' => TestRunner!Running("discover") /\ calls # <<>>
    BY <2>3 DEF TestRunner!Running
  <2> QED BY <1>1, <2>1, <2>2, <2>3, <2>4, <2>5 DEF RunnerInv, CurrentInv
<1>16. FailInv'
  <2>1. \A p \in failures : p \in TestRunner!Entries
    BY <1>6 DEF RunnerInv, RunnerTypesOK
  <2>2. \A p \in failures' : outcome'[p] # "pass"
    BY <1>1, <1>2, <2>1 DEF RunnerInv, FailInv
  <2>3. ASSUME NEW p \in Suites, NEW i \in 1 .. Len(tests'[p]), i <= idx[p],
               outcome'[tests'[p][i]] \in {"discovering", "pending", "fail", "rejected"}
        PROVE  \/ tests'[p][i] \in pending \cup batch \/ p \in failures \/ waits[p] = tests'[p][i]
               \/ Under(calls, p, tests'[p][i]) \/ outcome'[p] \in {"fail", "rejected"}
    <3>1. i \in 1 .. Len(tests[p]) /\ tests'[p][i] = tests[p][i]
      BY <1>3, <1>4, <1>7, <2>3
    <3>2. Bad(tests[p][i])
      BY <1>2, <1>6, <2>3, <3>1 DEF Bad
    <3>3. outcome[p] \in {"fail", "rejected"} => outcome'[p] \in {"fail", "rejected"}
      BY <1>1, <1>2, <1>6
    <3> QED BY <2>3, <3>1, <3>2, <3>3 DEF RunnerInv, FailInv
  <2> QED BY <1>1, <2>2, <2>3 DEF FailInv, Bad
<1>17. RootInv'
  <2> SUFFICES ASSUME NEW y \in TestRunner!Entries, Bad(y)'
               PROVE  \/ file = "failed" \/ y \in pending \cup batch
                      \/ outcome'[y] = "discovering" /\ calls # <<>> /\ calls[1].of = y
                      \/ \E p \in Suites : \E i \in 1 .. Len(tests'[p]) : i <= idx[p] /\ tests'[p][i] = y
    BY <1>1 DEF RootInv
  <2>1. y # x /\ Bad(y) /\ outcome'[y] = outcome[y]
    BY <1>2 DEF Bad
  <2>2. ASSUME NEW p \in Suites, NEW i \in 1 .. Len(tests[p]), i <= idx[p], tests[p][i] = y
        PROVE  \E j \in 1 .. Len(tests'[p]) : j <= idx[p] /\ tests'[p][j] = y
    <3>1. i \in 1 .. Len(tests'[p]) /\ tests'[p][i] = tests[p][i]
      BY <1>4, <1>5, <1>9
    <3> QED BY <2>2, <3>1
  <2> QED BY <2>1, <2>2 DEF RunnerInv, RootInv
<1>18. SeqInv'
  <2> SUFFICES ASSUME NEW s \in Suites \ concurrent, NEW i \in 1 .. Len(tests'[s])
               PROVE  /\ i < idx[s] => outcome'[tests'[s][i]] \in TestRunner!Settled
                      /\ i = idx[s] =>
                          \/ outcome'[tests'[s][i]] \in TestRunner!Settled \/ waits[s] = tests'[s][i]
                          \/ Under(calls, s, tests'[s][i])
                      /\ s \in finalized => outcome'[tests'[s][i]] \in TestRunner!Settled
    BY <1>1 DEF SeqInv
  <2>1. CASE s = c /\ i = n + 1 /\ tests'[s][i] = x
    BY <1>3, <1>4, <2>1
  <2>2. CASE i \in 1 .. Len(tests[s]) /\ tests'[s][i] = tests[s][i]
    BY <1>2, <1>6, <2>2 DEF RunnerInv, SeqInv
  <2> QED BY <1>7, <2>1, <2>2
<1>19. FinalInv'
  BY <1>1, <1>3, <1>5 DEF RunnerInv, RunnerTypesOK, FinalInv
<1>20. FileInv'
  <2>1. file # "passed"
    <3> SUFFICES ASSUME file = "passed" PROVE FALSE
      OBVIOUS
    <3>1. calls = <<>> /\ \A y \in TestRunner!Entries : outcome[y] \in {"none", "registered", "pass"}
      BY DEF RunnerInv, FileInv, TestRunner!PassMeansPassed
    <3> QED BY <1>1, <1>6, <3>1 DEF TestRunner!CodeRuns, TestRunner!Running
  <2> QED BY <1>1, <2>1 DEF FileInv
<1>21. ForestInv'
  <2> SUFFICES ASSUME NEW S \in SUBSET TestRunner!Entries, S # {}
               PROVE  \E y \in S : \A p \in Suites : \A i \in 1 .. Len(tests'[p]) :
                        tests'[p][i] = y => p \notin S
    BY DEF ForestInv
  <2>1. x \in Suites => tests[x] = <<>>
    BY <1>1, <1>8 DEF RunnerInv, FreshInv
  <2>2. \A p \in Suites : \A i \in 1 .. Len(tests'[p]) : tests'[p][i] # x => p # x
    BY <1>1, <1>3, <1>7, <2>1
  <2>3. CASE S = {x}
    BY <1>1, <1>3, <1>6, <1>7, <2>3
  <2>4. CASE S # {x}
    <3>1. S \ {x} \in SUBSET TestRunner!Entries /\ S \ {x} # {}
      BY <2>4
    <3>2. PICK y \in S \ {x} : \A p \in Suites : \A i \in 1 .. Len(tests[p]) :
            tests[p][i] = y => p \notin S \ {x}
      BY <3>1 DEF RunnerInv, ForestInv
    <3>3. \A p \in Suites : \A i \in 1 .. Len(tests'[p]) : tests'[p][i] = y => p \notin S
      BY <1>7, <2>2, <3>2
    <3> QED BY <3>2, <3>3
  <2> QED BY <2>3, <2>4
<1> QED BY <1>10, <1>11, <1>12, <1>13, <1>14, <1>15, <1>16, <1>17, <1>18, <1>19, <1>20, <1>21
    DEF RunnerInv

-----------------------------------------------------------------------------
(* runSuite and executeSuite: the innermost call goes on.                     *)

LEMMA AtTop ==
    ASSUME RunnerInv, calls # <<>>
    PROVE  /\ Len(calls) \in Nat \ {0} /\ Len(calls) \in 1 .. Len(calls)
           /\ TestRunner!Top = calls[Len(calls)]
           /\ TestRunner!Top \in SuiteCalls /\ TestRunner!Top.at \in Ats
           /\ TestRunner!Top.of \in Suites /\ TestRunner!Top.of \in TestRunner!Entries
           /\ TestRunner!Top.prev \in Suites \cup {None}
           /\ FrameOK(TestRunner!Top, Len(calls)) /\ On(calls, TestRunner!Top.of)
           /\ \A i \in 1 .. Len(calls) : calls[i] \in SuiteCalls /\ calls[i].of \in Suites
           /\ \A i \in 1 .. Len(calls) : i < Len(calls) => calls[i].of # TestRunner!Top.of
<1>1. /\ Len(calls) \in Nat \ {0} /\ Len(calls) \in 1 .. Len(calls) /\ TestRunner!Top = calls[Len(calls)]
      /\ \A i \in 1 .. Len(calls) : calls[i] \in SuiteCalls
  BY DEF RunnerInv, RunnerTypesOK, TestRunner!Top, TestRunner!Last
<1>2. \A i \in 1 .. Len(calls) : calls[i].of \in Suites
  BY <1>1, Frame
<1>3. TestRunner!Top \in SuiteCalls /\ TestRunner!Top.at \in Ats /\ TestRunner!Top.of \in Suites
      /\ TestRunner!Top.prev \in Suites \cup {None}
  BY <1>1, Frame
<1>4. FrameOK(TestRunner!Top, Len(calls)) /\ On(calls, TestRunner!Top.of)
  BY <1>1 DEF RunnerInv, StackInv, On
<1>5. \A i \in 1 .. Len(calls) : i < Len(calls) => calls[i].of # TestRunner!Top.of
  BY <1>1 DEF RunnerInv, StackInv, Apart
<1> QED BY <1>1, <1>2, <1>3, <1>4, <1>5 DEF TestRunner!Entries

\* What is below the innermost call does not see a step of it.
LEMMA LowerFrames ==
    ASSUME RunnerInv, calls # <<>>, UNCHANGED <<tests, idx, waits, failures>>,
           \A s \in Suites : s # TestRunner!Top.of =>
                outcome'[s] = outcome[s] /\ (s \in finalized' <=> s \in finalized),
           \A i \in 1 .. Len(calls) : i < Len(calls) => calls'[i] = calls[i]
    PROVE  \A i \in 1 .. Len(calls) : i < Len(calls) =>
            /\ FrameOK(calls[i], i)'
            /\ calls[i].at = "run" /\ idx[calls[i].of] >= 1
            /\ calls[i + 1].of = tests[calls[i].of][idx[calls[i].of]]
<1> TAKE i \in 1 .. Len(calls)
<1> HAVE i < Len(calls)
<1>1. calls[i].of # TestRunner!Top.of /\ calls[i].of \in Suites
  BY AtTop
<1>2. /\ FrameOK(calls[i], i) /\ calls[i].at = "run" /\ idx[calls[i].of] >= 1
      /\ calls[i + 1].of = tests[calls[i].of][idx[calls[i].of]]
  BY DEF RunnerInv, StackInv
<1>3. FrameOK(calls[i], i)'
  <2>1. PICK f : f = calls[i]
    OBVIOUS
  <2>2. /\ outcome'[f.of] = outcome[f.of] /\ (f.of \in finalized' <=> f.of \in finalized)
        /\ idx'[f.of] = idx[f.of] /\ waits'[f.of] = waits[f.of]
               /\ (f.of \in failures' <=> f.of \in failures)
        /\ FrameOK(f, i) /\ f.at = "run" /\ calls'[i] = f
    BY <1>1, <1>2, <2>1
  <2>3. FrameOK(f, i)'
    BY <2>2 DEF FrameOK
  <2> QED BY <2>2, <2>3 DEF FrameOK
<1> QED BY <1>2, <1>3

\* The innermost call is the current entry of the suite below it, and of no other suite.
LEMMA Parent ==
    ASSUME RunnerInv, calls # <<>>, Len(calls) # 1
    PROVE  \E p \in Suites : \E i \in 1 .. Len(tests[p]) :
            i <= idx[p] /\ tests[p][i] = TestRunner!Top.of /\ Under(calls, p, TestRunner!Top.of)
<1>1. PICK n \in Nat :
               n = Len(calls) - 1 /\ n \in 1 .. Len(calls) /\ n < Len(calls) /\ n + 1 = Len(calls)
  <2>1. Len(calls) \in Nat \ {0}
    BY AtTop
  <2>2. Len(calls) - 1 \in Nat /\ Len(calls) - 1 \in 1 .. Len(calls)
        /\ Len(calls) - 1 < Len(calls) /\ Len(calls) - 1 + 1 = Len(calls)
    <3>1. \A m \in Nat \ {0, 1} : m - 1 \in Nat /\ m - 1 \in 1 .. m /\ m - 1 < m /\ m - 1 + 1 = m
      OBVIOUS
    <3> QED BY <2>1, <3>1
  <2> QED BY <2>2
<1>2. calls[n].of \in Suites /\ idx[calls[n].of] >= 1
      /\ TestRunner!Top.of = tests[calls[n].of][idx[calls[n].of]]
  BY <1>1, AtTop DEF RunnerInv, StackInv
<1>3. idx[calls[n].of] \in 1 .. Len(tests[calls[n].of]) /\ idx[calls[n].of] <= idx[calls[n].of]
  BY <1>2 DEF RunnerInv, RunnerTypesOK
<1>4. Under(calls, calls[n].of, TestRunner!Top.of)
  BY <1>1, AtTop DEF Under
<1> QED BY <1>2, <1>3, <1>4

LEMMA UnderParent ==
    ASSUME RunnerInv, calls # <<>>, outcome[TestRunner!Top.of] = "registered",
           NEW p \in Suites, NEW i \in 1 .. Len(tests[p]), tests[p][i] = TestRunner!Top.of
    PROVE  Under(calls, p, TestRunner!Top.of)
<1>1. Len(calls) # 1
  BY AtTop DEF RunnerInv, StackInv
<1>2. PICK q \in Suites : \E j \in 1 .. Len(tests[q]) :
               tests[q][j] = TestRunner!Top.of /\ Under(calls, q, TestRunner!Top.of)
  BY <1>1, Parent
<1> QED BY <1>2 DEF RunnerInv, PlacesInv

LEMMA TopBecomes ==
    ASSUME calls \in Seq(SuiteCalls), Apart(calls), calls # <<>>, NEW a \in Ats,
           calls' = TestRunner!Becomes(a)
    PROVE  /\ calls' \in Seq(SuiteCalls) /\ calls' # <<>> /\ Len(calls') = Len(calls)
           /\ \A i \in 1 .. Len(calls) :
                calls'[i].of = calls[i].of /\ (i < Len(calls) => calls'[i] = calls[i])
           /\ calls'[Len(calls)].at = a /\ calls'[Len(calls)].prev = calls[Len(calls)].prev
           /\ \A x : On(calls', x) <=> On(calls, x)
           /\ \A x, y : Under(calls', x, y) <=> Under(calls, x, y)
           /\ Apart(calls')
<1>1. PICK q \in Seq(SuiteCalls) : q = calls
  OBVIOUS
<1>2. PICK r : r = calls'
  OBVIOUS
<1>3. q # <<>> /\ r = Goes(q, a) /\ Apart(q)
  BY <1>1, <1>2 DEF TestRunner!Becomes, Goes
<1>4. /\ r \in Seq(SuiteCalls) /\ r # <<>> /\ Len(r) = Len(q)
      /\ \A i \in 1 .. Len(q) : r[i].of = q[i].of /\ (i < Len(q) => r[i] = q[i])
      /\ r[Len(q)].at = a /\ r[Len(q)].prev = q[Len(q)].prev
      /\ \A x : On(r, x) <=> On(q, x)
      /\ \A x, y : Under(r, x, y) <=> Under(q, x, y)
      /\ Apart(r)
  BY ONLY <1>3, q \in Seq(SuiteCalls), a \in Ats, TopGoesOn
<1> QED BY <1>1, <1>2, <1>4

\* At most one of its fields changes that the rest could see: it may turn out to be async, or
\* may have run its after hooks.
LEMMA TopSteps ==
    ASSUME EntriesApart, RunnerInv, calls # <<>>, NEW a \in Ats \ {"discover"},
           calls' = TestRunner!Becomes(a),
           UNCHANGED <<concurrent, file, batch, tests, idx, waits, failures, pending>>,
           TestRunner!Top.at # "async", outcome' \in [TestRunner!Entries -> Outcomes],
           \A y \in TestRunner!Entries : y # TestRunner!Top.of => outcome'[y] = outcome[y],
           outcome'[TestRunner!Top.of] = outcome[TestRunner!Top.of]
              \/ (outcome'[TestRunner!Top.of] = "discovering" /\ TestRunner!Top.at = "discover"),
           \/ finalized' = finalized
           \/ /\ TestRunner!Top.at = "run" /\ idx[TestRunner!Top.of] = Len(tests[TestRunner!Top.of])
              /\ finalized' = finalized \cup {TestRunner!Top.of},
           FrameOK(calls[Len(calls)], Len(calls))', currentSuite' \in Suites \cup {None}, CurrentInv'
    PROVE  RunnerInv'
<1> DEFINE n == Len(calls)
           s == TestRunner!Top.of
<1>1. /\ n \in Nat \ {0} /\ n \in 1 .. n /\ TestRunner!Top = calls[n]
      /\ TestRunner!Top \in SuiteCalls /\ s \in Suites /\ s \in TestRunner!Entries
      /\ FrameOK(TestRunner!Top, n) /\ On(calls, s)
      /\ \A i \in 1 .. n : calls[i] \in SuiteCalls /\ calls[i].of \in Suites
      /\ \A i \in 1 .. n : i < n => calls[i].of # s
  BY AtTop
<1>2. /\ calls' \in Seq(SuiteCalls) /\ calls' # <<>> /\ Len(calls') = n
      /\ \A i \in 1 .. n : calls'[i].of = calls[i].of /\ (i < n => calls'[i] = calls[i])
      /\ calls'[n].at = a
      /\ \A x : On(calls', x) <=> On(calls, x)
      /\ \A x, y : Under(calls', x, y) <=> Under(calls, x, y)
      /\ Apart(calls')
  <2>1. calls \in Seq(SuiteCalls) /\ Apart(calls) /\ a \in Ats
    BY DEF RunnerInv, RunnerTypesOK, StackInv
  <2> QED BY <2>1, TopBecomes
<1>3. /\ outcome[s] \in {"registered", "pending"} /\ waits[s] = None
      /\ TestRunner!Top.at = "discover"
             => outcome[s] = "registered" /\ idx[s] = 0 /\ s \notin failures /\ s \notin finalized
      /\ TestRunner!Top.at = "run" => s \notin finalized
  BY <1>1 DEF FrameOK, Ats, SuiteCalls
<1>4. \A p \in Suites : p \in TestRunner!Entries /\ waits[p] \in TestRunner!Entries \cup {None}
                        /\ \A i \in 1 .. Len(tests[p]) : tests[p][i] \in TestRunner!Entries
  BY DEF TestRunner!Entries, RunnerInv, RunnerTypesOK
<1>5. RunnerTypesOK'
  BY <1>1, <1>2 DEF RunnerInv, RunnerTypesOK
<1>6. \A x \in TestRunner!Entries : (outcome[x] = "registered" /\ ~On(calls, x))
          => outcome'[x] = "registered" /\ ~On(calls', x)
  BY <1>1, <1>2
<1>7. \A x \in TestRunner!Entries :
          (outcome[x] \in TestRunner!Settled => outcome'[x] \in TestRunner!Settled)
              /\ (outcome[x] # "none" => outcome'[x] # "none")
  BY <1>3 DEF TestRunner!Settled
<1>8. StackInv'
  <2>1. \A i \in 1 .. n : i < n =>
            /\ FrameOK(calls[i], i)'
            /\ calls[i].at = "run" /\ idx[calls[i].of] >= 1
            /\ calls[i + 1].of = tests[calls[i].of][idx[calls[i].of]]
    <3>1. \A p \in Suites : p # s => outcome'[p] = outcome[p] /\ (p \in finalized' <=> p \in finalized)
      BY <1>4
    <3> QED BY <1>2, <3>1, LowerFrames
  <2>2. \A i \in 1 .. n : i < n => i + 1 \in 1 .. n /\ calls'[i + 1].of = calls[i + 1].of
    BY <1>1, <1>2
  <2>3. ASSUME NEW i \in 1 .. n PROVE FrameOK(calls[i], i)'
    <3>1. CASE i = n
      BY <1>2, <3>1
    <3>2. CASE i < n
      BY <1>2, <2>1, <3>2 DEF FrameOK
    <3> QED BY <1>1, <3>1, <3>2
  <2>4. ASSUME NEW i \in 1 .. n, i < n
        PROVE  /\ calls'[i].at = "run" /\ idx'[calls'[i].of] >= 1
               /\ calls'[i + 1].of = tests'[calls'[i].of][idx'[calls'[i].of]]
    BY <1>2, <2>1, <2>2, <2>4
  <2>5. calls'[1].of = calls[1].of /\ calls[1].of \in TestRunner!Entries
    BY <1>1, <1>2, <1>4
  <2>6. outcome'[calls[1].of] = "registered" => outcome[calls[1].of] = "registered"
    BY <2>5
  <2> QED BY <1>2, <2>3, <2>4, <2>5, <2>6 DEF RunnerInv, StackInv
<1>9. PlacesInv'
  BY <1>4, <1>6, <1>7 DEF RunnerInv, PlacesInv
<1>10. FreshInv'
  BY <1>1, <1>2, <1>3, <1>4 DEF RunnerInv, FreshInv
<1>11. WaitsInv'
  <2> SUFFICES ASSUME NEW p \in Suites, waits[p] # None
               PROVE  /\ p \notin concurrent /\ p \notin finalized' /\ idx[p] >= 1
                      /\ waits[p] = tests[p][idx[p]]
                      /\ outcome'[waits[p]] \in {"discovering", "pending"} \cup TestRunner!Settled
                      /\ outcome'[p] \in {"pending", "registered"}
    BY DEF WaitsInv
  <2>1. p # s /\ waits[p] \in TestRunner!Entries
    BY <1>3, <1>4
  <2>2. /\ p \notin concurrent /\ p \notin finalized /\ idx[p] >= 1 /\ waits[p] = tests[p][idx[p]]
        /\ outcome[waits[p]] \in {"discovering", "pending"} \cup TestRunner!Settled
        /\ outcome[p] \in {"pending", "registered"}
    BY DEF RunnerInv, WaitsInv
  <2> QED BY <1>3, <1>4, <2>1, <2>2
<1>12. FailInv'
  <2>1. \A p \in failures : outcome'[p] # "pass"
    <3>1. \A p \in failures : p \in TestRunner!Entries /\ outcome[p] # "pass"
      BY <1>4 DEF RunnerInv, FailInv, RunnerTypesOK
    <3> QED BY <3>1
  <2>2. ASSUME NEW p \in Suites, NEW i \in 1 .. Len(tests[p]), i <= idx[p],
               outcome'[tests[p][i]] \in {"discovering", "pending", "fail", "rejected"}
        PROVE  \/ tests[p][i] \in pending \cup batch \/ p \in failures \/ waits[p] = tests[p][i]
               \/ Under(calls, p, tests[p][i]) \/ outcome'[p] \in {"fail", "rejected"}
    <3>1. CASE outcome'[tests[p][i]] = outcome[tests[p][i]]
      BY <1>3, <1>4, <2>2, <3>1 DEF RunnerInv, FailInv, Bad
    <3>2. CASE outcome'[tests[p][i]] # outcome[tests[p][i]]
      <4>1. tests[p][i] = s /\ outcome[s] = "registered"
        BY <1>3, <1>4, <3>2
      <4>2. Under(calls, p, s)
        BY <1>1, <4>1, UnderParent
      <4> QED BY <4>1, <4>2
    <3> QED BY <3>1, <3>2
  <2> QED BY <1>2, <2>1, <2>2 DEF FailInv, Bad
<1>13. RootInv'
  <2> SUFFICES ASSUME NEW x \in TestRunner!Entries,
                      outcome'[x] \in {"discovering", "pending", "fail", "rejected"}
               PROVE  \/ file = "failed" \/ x \in pending \cup batch
                      \/ outcome'[x] = "discovering" /\ calls[1].of = x
                      \/ \E p \in Suites : \E i \in 1 .. Len(tests[p]) : i <= idx[p] /\ tests[p][i] = x
    BY <1>1, <1>2 DEF RootInv, Bad
  <2>1. CASE outcome'[x] = outcome[x]
    BY <2>1 DEF RunnerInv, RootInv, Bad
  <2>2. CASE outcome'[x] # outcome[x]
    <3>1. x = s /\ outcome'[x] = "discovering"
      BY <2>2
    <3>2. CASE n = 1
      BY <1>1, <3>1, <3>2
    <3>3. CASE n # 1
      BY <1>1, <3>1, <3>3, Parent
    <3> QED BY <3>2, <3>3
  <2> QED BY <2>1, <2>2
<1>14. SeqInv'
  <2> SUFFICES ASSUME NEW p \in Suites \ concurrent, NEW i \in 1 .. Len(tests[p])
               PROVE  /\ i < idx[p] => outcome'[tests[p][i]] \in TestRunner!Settled
                      /\ i = idx[p] =>
                          \/ outcome'[tests[p][i]] \in TestRunner!Settled \/ waits[p] = tests[p][i]
                          \/ Under(calls, p, tests[p][i])
                      /\ p \in finalized' => outcome'[tests[p][i]] \in TestRunner!Settled
    BY <1>2 DEF SeqInv
  <2>1. /\ i < idx[p] => outcome[tests[p][i]] \in TestRunner!Settled
        /\ i = idx[p] =>
            \/ outcome[tests[p][i]] \in TestRunner!Settled \/ waits[p] = tests[p][i]
            \/ Under(calls, p, tests[p][i])
        /\ p \in finalized => outcome[tests[p][i]] \in TestRunner!Settled
    BY DEF RunnerInv, SeqInv
  <2>2. tests[p][i] \in TestRunner!Entries
            /\ (outcome[tests[p][i]] \in TestRunner!Settled
                   => outcome'[tests[p][i]] \in TestRunner!Settled)
    BY <1>4, <1>7
  <2>3. CASE p \notin finalized' \/ p \in finalized
    BY <2>1, <2>2, <2>3
  <2>4. CASE p \in finalized' /\ p \notin finalized
    <3>1. p = s /\ idx[p] = Len(tests[p])
      BY <2>4
    <3>2. ~Under(calls, p, tests[p][i])
      BY <1>1, <3>1 DEF Under
    <3>3. waits[p] # tests[p][i]
      BY <1>3, <2>2, <3>1 DEF EntriesApart
    <3>4. Len(tests[p]) \in Nat
      BY DEF RunnerInv, RunnerTypesOK
    <3>5. i < idx[p] \/ i = idx[p]
      BY <3>1, <3>4
    <3> QED BY <2>1, <2>2, <3>2, <3>3, <3>5
  <2> QED BY <2>3, <2>4
<1>15. FinalInv' /\ ForestInv'
  <2>1. FinalInv'
    BY DEF RunnerInv, FinalInv
  <2>2. ForestInv'
    BY DEF RunnerInv, ForestInv
  <2> QED BY <2>1, <2>2
<1>16. FileInv'
  BY DEF RunnerInv, FileInv
<1> QED BY <1>5, <1>8, <1>9, <1>10, <1>11, <1>12, <1>13, <1>14, <1>15, <1>16 DEF RunnerInv

LEMMA StepsOfTop ==
    ASSUME EntriesApart, RunnerInv,
           TestRunner!BeforeHooks \/ TestRunner!CallbackReturns
               \/ TestRunner!CallbackReturnsPromise \/ TestRunner!Finalize
    PROVE  RunnerInv'
<1> DEFINE s == TestRunner!Top.of
<1>1. \E at \in Ats : TestRunner!Running(at)
  BY DEF TestRunner!BeforeHooks, TestRunner!CallbackReturns, TestRunner!CallbackReturnsPromise,
     TestRunner!Finalize, Ats
<1>2. calls # <<>>
  BY <1>1 DEF TestRunner!Running
<1>3. /\ Len(calls) \in Nat \ {0} /\ Len(calls) \in 1 .. Len(calls) /\ TestRunner!Top = calls[Len(calls)]
      /\ TestRunner!Top \in SuiteCalls /\ s \in Suites /\ s \in TestRunner!Entries
      /\ TestRunner!Top.prev \in Suites \cup {None}
      /\ FrameOK(TestRunner!Top, Len(calls)) /\ On(calls, s)
  BY <1>2, AtTop
<1>4. calls \in Seq(SuiteCalls) /\ Apart(calls)
  BY DEF RunnerInv, RunnerTypesOK, StackInv
<1>5. ASSUME NEW a \in Ats, calls' = TestRunner!Becomes(a)
      PROVE  /\ calls' # <<>> /\ TestRunner!Top'.at = a /\ TestRunner!Top'.of = s
             /\ TestRunner!Top'.prev = TestRunner!Top.prev
             /\ Len(calls') = Len(calls)
             /\ calls'[Len(calls)].at = a /\ calls'[Len(calls)].of = s
             /\ \A x : On(calls', x) <=> On(calls, x)
  <2>1. /\ calls' # <<>> /\ Len(calls') = Len(calls)
        /\ calls'[Len(calls)].of = calls[Len(calls)].of
        /\ calls'[Len(calls)].at = a /\ calls'[Len(calls)].prev = calls[Len(calls)].prev
        /\ \A x : On(calls', x) <=> On(calls, x)
    BY <1>2, <1>3, <1>4, <1>5, TopBecomes
  <2> QED BY <1>3, <2>1 DEF TestRunner!Top, TestRunner!Last
<1>6. CASE TestRunner!BeforeHooks
  <2>1. PICK a \in {"run", "fail"} : calls' = TestRunner!Becomes(a)
    BY <1>6 DEF TestRunner!BeforeHooks
  <2>2. /\ UNCHANGED <<concurrent, file, batch, tests, idx, waits, failures, pending, outcome,
               finalized, currentSuite>>
        /\ TestRunner!Top.at = "before" /\ a \in Ats \ {"discover"}
    BY <1>6 DEF TestRunner!BeforeHooks, TestRunner!suiteVars, TestRunner!harnessVars,
       TestRunner!Running, Ats
  <2>3. FrameOK(calls[Len(calls)], Len(calls))'
    BY <1>3, <1>5, <2>1, <2>2 DEF FrameOK
  <2>4. CurrentInv'
    BY <1>2, <1>3, <1>5, <2>1, <2>2 DEF RunnerInv, CurrentInv, TestRunner!Running, Left
  <2>5. outcome' \in [TestRunner!Entries -> Outcomes] /\ currentSuite' \in Suites \cup {None}
    BY <2>2 DEF RunnerInv, RunnerTypesOK
  <2> QED BY <1>2, <2>1, <2>2, <2>3, <2>4, <2>5, TopSteps
<1>7. CASE TestRunner!CallbackReturns
  <2>1. PICK a \in {"before", "fail"} : calls' = TestRunner!Becomes(a)
    BY <1>7 DEF TestRunner!CallbackReturns
  <2>2. /\ UNCHANGED <<concurrent, file, batch, tests, idx, waits, failures, pending, outcome,
               finalized>>
        /\ TestRunner!Top.at = "discover" /\ a \in Ats \ {"discover"}
        /\ currentSuite' = TestRunner!Top.prev
    BY <1>7 DEF TestRunner!CallbackReturns, TestRunner!suiteVars, TestRunner!harnessVars,
       TestRunner!Running, Ats
  <2>3. FrameOK(calls[Len(calls)], Len(calls))'
    BY <1>3, <1>5, <2>1, <2>2 DEF FrameOK
  <2>4. CurrentInv'
    BY <1>2, <1>3, <1>5, <2>1, <2>2 DEF RunnerInv, CurrentInv, TestRunner!Running, Left
  <2>5. outcome' \in [TestRunner!Entries -> Outcomes] /\ currentSuite' \in Suites \cup {None}
    BY <1>3, <2>2 DEF RunnerInv, RunnerTypesOK
  <2> QED BY <1>2, <2>1, <2>2, <2>3, <2>4, <2>5, TopSteps
<1>8. CASE TestRunner!CallbackReturnsPromise
  <2>1. /\ UNCHANGED <<concurrent, file, batch, tests, idx, waits, failures, pending, finalized,
               currentSuite>>
        /\ TestRunner!Top.at = "discover" /\ calls' = TestRunner!Becomes("async")
        /\ outcome' = [outcome EXCEPT ![s] = "discovering"]
        /\ "async" \in Ats \ {"discover"}
    BY <1>8 DEF TestRunner!CallbackReturnsPromise, TestRunner!suiteVars, TestRunner!harnessVars,
       TestRunner!Running, Ats
  <2>2. /\ outcome' \in [TestRunner!Entries -> Outcomes] /\ outcome'[s] = "discovering"
        /\ \A y \in TestRunner!Entries : y # s => outcome'[y] = outcome[y]
    BY <1>3, <2>1 DEF RunnerInv, RunnerTypesOK, Outcomes
  <2>3. FrameOK(calls[Len(calls)], Len(calls))'
    BY <1>3, <1>5, <2>1, <2>2 DEF FrameOK
  <2>4. CurrentInv'
    BY <1>2, <1>3, <1>5, <2>1, <2>2 DEF RunnerInv, CurrentInv, TestRunner!Running
  <2>5. currentSuite' \in Suites \cup {None}
    BY <2>1 DEF RunnerInv, RunnerTypesOK
  <2> QED BY <1>2, <2>1, <2>2, <2>3, <2>4, <2>5, TopSteps
<1>9. CASE TestRunner!Finalize
  <2>1. PICK threw \in BOOLEAN :
                 calls' = TestRunner!Becomes(IF threw \/ s \in failures THEN "fail" ELSE "pass")
    BY <1>9 DEF TestRunner!Finalize
  <2>2. PICK a \in {"pass", "fail"} : calls' = TestRunner!Becomes(a) /\ (a = "pass" => s \notin failures)
    BY <2>1
  <2>3. /\ UNCHANGED <<concurrent, file, batch, tests, idx, waits, failures, pending, outcome,
               currentSuite>>
        /\ TestRunner!Top.at = "run" /\ a \in Ats \ {"discover"} /\ idx[s] = Len(tests[s])
        /\ finalized' = finalized \cup {s}
    BY <1>9, <2>2 DEF TestRunner!Finalize, TestRunner!harnessVars, TestRunner!Running, Ats
  <2>4. FrameOK(calls[Len(calls)], Len(calls))'
    BY <1>3, <1>5, <2>2, <2>3 DEF FrameOK
  <2>5. CurrentInv'
    <3>1. \A x : Left(x) => Left(x)'
      BY <1>3, <1>5, <2>2, <2>3 DEF Left
    <3> QED BY <1>2, <1>3, <1>5, <2>2, <2>3, <3>1 DEF RunnerInv, CurrentInv, TestRunner!Running
  <2>6. outcome' \in [TestRunner!Entries -> Outcomes] /\ currentSuite' \in Suites \cup {None}
    BY <2>3 DEF RunnerInv, RunnerTypesOK
  <2> QED BY <1>2, <2>2, <2>3, <2>4, <2>5, <2>6, TopSteps
<1> QED BY <1>6, <1>7, <1>8, <1>9

-----------------------------------------------------------------------------
(* executeSuite: from one entry to the next.                                  *)

LEMMA GoesOnKeeps ==
    ASSUME EntriesApart, RunnerInv, NEW p \in Suites, TestRunner!SuiteGoesOn(p)
    PROVE  RunnerInv'
<1>1. /\ UNCHANGED <<concurrent, file, batch, currentSuite, tests, idx, outcome, finalized, pending>>
      /\ calls = <<>> /\ waits[p] # None /\ outcome[waits[p]] \in {"pass", "fail"}
      /\ failures' = IF outcome[waits[p]] = "fail" THEN failures \cup {p} ELSE failures
      /\ waits' = [waits EXCEPT ![p] = None]
      /\ calls' = <<[at |-> "run", of |-> p, prev |-> None]>>
  BY DEF TestRunner!SuiteGoesOn, TestRunner!harnessVars
<1>2. PICK f \in SuiteCalls : /\ f = [at |-> "run", of |-> p, prev |-> None]
                              /\ f.at = "run" /\ f.of = p
  <2>1. "run" \in Ats /\ None \in Suites \cup {None}
    BY DEF Ats
  <2> QED BY <2>1, NewFrame
<1>3. calls' = <<f>>
  BY <1>1, <1>2
<1>4. /\ calls' \in Seq(SuiteCalls) /\ calls' # <<>> /\ Len(calls') = 1 /\ calls'[1] = f
      /\ \A x : On(calls', x) <=> x = p
      /\ \A x, y : ~Under(calls', x, y)
      /\ Apart(calls')
  BY <1>2, <1>3, OneCall
<1>5. p \in TestRunner!Entries /\ \A x : ~On(calls, x) /\ \A y : ~Under(calls, x, y)
  BY <1>1, NoCall DEF TestRunner!Entries
<1>6. /\ outcome[p] = "pending" /\ p \notin finalized
      /\ idx[p] >= 1 /\ waits[p] = tests[p][idx[p]]
  BY <1>1, <1>5 DEF RunnerInv, WaitsInv, FreshInv
<1>7. waits'[p] = None /\ \A q \in Suites : q # p => waits'[q] = waits[q]
  BY <1>1 DEF RunnerInv, RunnerTypesOK
<1>8. RunnerTypesOK'
  BY <1>1, <1>4 DEF RunnerInv, RunnerTypesOK
<1>9. \A q \in Suites : q \in TestRunner!Entries /\ \A i \in 1 .. Len(tests[q]) :
          tests[q][i] \in TestRunner!Entries
  BY DEF RunnerInv, RunnerTypesOK, TestRunner!Entries
<1>10. StackInv'
  <2>1. \A i \in 1 .. Len(calls') : i = 1 /\ ~(i < Len(calls'))
    BY <1>4
  <2>2. FrameOK(f, 1)'
    BY <1>1, <1>2, <1>6, <1>7 DEF FrameOK
  <2> QED BY <1>1, <1>2, <1>4, <1>6, <2>1, <2>2 DEF StackInv
<1>11. CurrentInv'
  <2>1. TestRunner!Top' = f
    BY <1>4 DEF TestRunner!Top, TestRunner!Last
  <2>2. \A x : Left(x) => Left(x)'
    BY <1>1, <1>4, <1>6 DEF Left, TestRunner!Settled
  <2> QED BY <1>1, <1>2, <1>4, <2>1, <2>2 DEF RunnerInv, CurrentInv, TestRunner!Running
<1>12. PlacesInv'
  BY <1>1, <1>4, <1>6 DEF RunnerInv, PlacesInv
<1>13. FreshInv'
  BY <1>1, <1>4, <1>5, <1>6, <1>7 DEF RunnerInv, FreshInv
<1>14. WaitsInv'
  BY <1>1, <1>7 DEF RunnerInv, WaitsInv
<1>15. FailInv'
  <2>1. \A q \in failures' : outcome[q] # "pass"
    BY <1>1, <1>6 DEF RunnerInv, FailInv
  <2>2. ASSUME NEW q \in Suites, NEW i \in 1 .. Len(tests[q]), i <= idx[q], Bad(tests[q][i])
        PROVE  \/ tests[q][i] \in pending \cup batch \/ q \in failures' \/ waits'[q] = tests[q][i]
               \/ outcome[q] \in {"fail", "rejected"}
    <3>1. \/ tests[q][i] \in pending \cup batch \/ q \in failures \/ waits[q] = tests[q][i]
          \/ outcome[q] \in {"fail", "rejected"}
      BY <1>5, <2>2 DEF RunnerInv, FailInv
    <3>2. q = p /\ waits[q] = tests[q][i] => q \in failures'
      BY <1>1, <2>2 DEF Bad
    <3> QED BY <1>1, <1>7, <3>1, <3>2
  <2> QED BY <1>1, <2>1, <2>2 DEF FailInv, Bad
<1>16. RootInv'
  BY <1>1 DEF RunnerInv, RootInv, Bad
<1>17. SeqInv'
  <2> SUFFICES ASSUME NEW q \in Suites \ concurrent, NEW i \in 1 .. Len(tests[q])
               PROVE  /\ i < idx[q] => outcome[tests[q][i]] \in TestRunner!Settled
                      /\ i = idx[q]
                             => outcome[tests[q][i]] \in TestRunner!Settled \/ waits'[q] = tests[q][i]
                      /\ q \in finalized => outcome[tests[q][i]] \in TestRunner!Settled
    BY <1>1 DEF SeqInv
  <2>1. /\ i < idx[q] => outcome[tests[q][i]] \in TestRunner!Settled
        /\ i = idx[q] => outcome[tests[q][i]] \in TestRunner!Settled \/ waits[q] = tests[q][i]
        /\ q \in finalized => outcome[tests[q][i]] \in TestRunner!Settled
    BY <1>5 DEF RunnerInv, SeqInv
  <2> QED BY <1>1, <1>7, <2>1 DEF TestRunner!Settled
<1>18. FinalInv' /\ ForestInv'
  BY <1>1 DEF RunnerInv, FinalInv, ForestInv
<1>19. FileInv'
  BY <1>1, <1>5, <1>6 DEF RunnerInv, FileInv, TestRunner!PassMeansPassed
<1> QED BY <1>8, <1>10, <1>11, <1>12, <1>13, <1>14, <1>15, <1>16, <1>17, <1>18, <1>19
    DEF RunnerInv

\* The entry that runNext comes to.
LEMMA StartsEntry ==
    ASSUME EntriesApart, RunnerInv, TestRunner!StartEntry, NEW s, s = TestRunner!Top.of, NEW k,
           k = idx'[s], NEW x, x = tests[s][k]
    PROVE  /\ calls # <<>> /\ TestRunner!Top.at = "run" /\ s \in Suites /\ s \in TestRunner!Entries
           /\ k = idx[s] + 1 /\ k \in 1 .. Len(tests[s]) /\ idx[s] \in Nat /\ idx' \in [Suites -> Nat]
           /\ \A q \in Suites : q # s => idx'[q] = idx[q]
           /\ x \in TestRunner!Entries /\ outcome[x] = "registered" /\ ~On(calls, x) /\ On(calls, s)
           /\ outcome[s] \in {"registered", "pending"} /\ waits[s] = None /\ s \notin finalized
           /\ \A q \in Suites : \A i \in 1 .. Len(tests[q]) :
                /\ i <= idx'[q] => i <= idx[q] \/ (q = s /\ i = k)
                /\ i <= idx[q] => i <= idx'[q]
                /\ i > idx'[q] => i > idx[q] /\ tests[q][i] # x
                /\ tests[q][i] = x => q = s /\ i = k
           /\ \A q \in Suites : idx[q] \in Nat /\ idx'[q] \in 0 .. Len(tests[q])
           /\ \A y : ~Under(calls, s, y)
<1>1. /\ calls # <<>> /\ TestRunner!Top.at = "run" /\ idx[s] < Len(tests[s])
      /\ idx' = [idx EXCEPT ![s] = @ + 1]
  BY DEF TestRunner!StartEntry, TestRunner!Running
<1>2. /\ s \in Suites /\ s \in TestRunner!Entries /\ On(calls, s)
      /\ FrameOK(TestRunner!Top, Len(calls)) /\ Len(calls) \in Nat
      /\ \A i \in 1 .. Len(calls) : i < Len(calls) => calls[i].of # s
  BY <1>1, AtTop
<1>3. /\ idx[s] \in Nat /\ Len(tests[s]) \in Nat /\ idx' \in [Suites -> Nat] /\ idx'[s] = idx[s] + 1
      /\ \A q \in Suites : q # s => idx'[q] = idx[q]
  BY <1>1, <1>2 DEF RunnerInv, RunnerTypesOK
<1>4. k = idx[s] + 1 /\ k \in 1 .. Len(tests[s])
  BY <1>1, <1>3
<1>5. x \in TestRunner!Entries /\ outcome[x] = "registered" /\ ~On(calls, x)
  <2>1. k > idx[s]
    BY <1>3, <1>4
  <2> QED BY <1>2, <1>4, <2>1 DEF RunnerInv, PlacesInv, RunnerTypesOK
<1>6. outcome[s] \in {"registered", "pending"} /\ waits[s] = None /\ s \notin finalized
  BY <1>1, <1>2 DEF FrameOK
<1>7. \A q \in Suites : \A i \in 1 .. Len(tests[q]) : tests[q][i] = x => q = s /\ i = k
  BY <1>2, <1>4 DEF RunnerInv, PlacesInv
<1>8. \A q \in Suites : idx[q] \in Nat /\ idx'[q] \in 0 .. Len(tests[q])
  <2> TAKE q \in Suites
  <2>1. idx[q] \in Nat /\ idx[q] \in 0 .. Len(tests[q])
    BY DEF RunnerInv, RunnerTypesOK
  <2>2. CASE q = s
    BY <1>3, <1>4, <2>1, <2>2
  <2>3. CASE q # s
    BY <1>3, <2>1, <2>3
  <2> QED BY <2>2, <2>3
<1>9. \A q \in Suites : \A i \in 1 .. Len(tests[q]) :
        /\ i <= idx'[q] => i <= idx[q] \/ (q = s /\ i = k)
        /\ i <= idx[q] => i <= idx'[q]
        /\ i > idx'[q] => i > idx[q] /\ ~(q = s /\ i = k)
  <2> TAKE q \in Suites
  <2> TAKE i \in 1 .. Len(tests[q])
  <2>1. CASE q = s
    BY <1>3, <1>4, <1>8, <2>1
  <2>2. CASE q # s
    BY <1>3, <2>2
  <2> QED BY <2>1, <2>2
<1>10. \A y : ~Under(calls, s, y)
  BY <1>2 DEF Under
<1> QED BY <1>1, <1>2, <1>3, <1>4, <1>5, <1>6, <1>7, <1>8, <1>9, <1>10

LEMMA RunNextTestKeeps ==
    ASSUME EntriesApart, RunnerInv, TestRunner!RunNextTest
    PROVE  RunnerInv'
<1>1. PICK s : s = TestRunner!Top.of
  OBVIOUS
<1>2. PICK k : k = idx'[s]
  OBVIOUS
<1>3. PICK t : t = tests[s][k]
  OBVIOUS
<1>4. /\ TestRunner!StartEntry /\ t \in Tests
      /\ UNCHANGED <<concurrent, file, batch, currentSuite, tests, finalized>>
  BY <1>1, <1>2, <1>3 DEF TestRunner!RunNextTest, TestRunner!harnessVars
<1>5. PICK r \in {"pass", "fail", "async"} :
               TestRunner!TestReturns(t, r) /\ TestRunner!Result(s, t, r, calls)
  BY <1>1, <1>2, <1>3 DEF TestRunner!RunNextTest
<1>6. /\ calls # <<>> /\ TestRunner!Top.at = "run" /\ s \in Suites /\ s \in TestRunner!Entries
      /\ k = idx[s] + 1 /\ k \in 1 .. Len(tests[s]) /\ idx[s] \in Nat /\ idx' \in [Suites -> Nat]
      /\ \A q \in Suites : q # s => idx'[q] = idx[q]
      /\ t \in TestRunner!Entries /\ outcome[t] = "registered" /\ ~On(calls, t) /\ On(calls, s)
      /\ outcome[s] \in {"registered", "pending"} /\ waits[s] = None /\ s \notin finalized
      /\ \A q \in Suites : \A i \in 1 .. Len(tests[q]) :
           /\ i <= idx'[q] => i <= idx[q] \/ (q = s /\ i = k)
           /\ i <= idx[q] => i <= idx'[q]
           /\ i > idx'[q] => i > idx[q] /\ tests[q][i] # t
           /\ tests[q][i] = t => q = s /\ i = k
      /\ \A q \in Suites : idx[q] \in Nat /\ idx'[q] \in 0 .. Len(tests[q])
      /\ \A y : ~Under(calls, s, y)
  BY <1>1, <1>2, <1>3, <1>4, StartsEntry
<1> DEFINE suspends == r = "async" /\ s \notin concurrent
<1>7. /\ failures' = IF r = "fail" THEN failures \cup {s} ELSE failures
      /\ pending' = IF r = "async" /\ ~suspends THEN pending \cup {t} ELSE pending
      /\ waits' = IF suspends THEN [waits EXCEPT ![s] = t] ELSE waits
      /\ calls' = IF suspends THEN Goes(calls, "async") ELSE calls
  BY <1>5 DEF TestRunner!Result, Goes
<1>8. t \notin Suites /\ t # None
  BY <1>4, <1>6 DEF EntriesApart
<1>9. /\ outcome' \in [TestRunner!Entries -> Outcomes] /\ \A y \in TestRunner!Entries : y # t
             => outcome'[y] = outcome[y]
      /\ outcome'[t] = IF r = "async" THEN "pending" ELSE r
  BY <1>5, <1>6 DEF TestRunner!TestReturns, RunnerInv, RunnerTypesOK, Outcomes, TestRunner!Settled
<1>10. /\ waits'[s] = IF suspends THEN t ELSE None
       /\ \A q \in Suites : q # s => waits'[q] = waits[q]
       /\ waits' \in [Suites -> TestRunner!Entries \cup {None}]
  BY <1>6, <1>7 DEF RunnerInv, RunnerTypesOK
<1> DEFINE n == Len(calls)
<1>11. /\ n \in Nat \ {0} /\ n \in 1 .. n /\ TestRunner!Top = calls[n]
       /\ \A i \in 1 .. n : calls[i] \in SuiteCalls /\ calls[i].of \in Suites
       /\ \A i \in 1 .. n : i < n => calls[i].of # s
  BY <1>1, <1>6, AtTop
<1>12. /\ calls' \in Seq(SuiteCalls) /\ calls' # <<>> /\ Len(calls') = n
       /\ \A i \in 1 .. n : calls'[i].of = calls[i].of /\ (i < n => calls'[i] = calls[i])
       /\ calls'[n].at = IF suspends THEN "async" ELSE "run"
       /\ \A x : On(calls', x) <=> On(calls, x)
       /\ \A x, y : Under(calls', x, y) <=> Under(calls, x, y)
       /\ Apart(calls')
  <2>1. calls \in Seq(SuiteCalls) /\ Apart(calls) /\ "async" \in Ats
    BY DEF RunnerInv, RunnerTypesOK, StackInv, Ats
  <2>2. CASE suspends
    <3>1. calls' = TestRunner!Becomes("async")
      BY <1>7, <2>2 DEF TestRunner!Becomes, Goes
    <3> QED BY <1>6, <2>1, <2>2, <3>1, TopBecomes
  <2>3. CASE ~suspends
    BY <1>6, <1>7, <1>11, <2>1, <2>3
  <2> QED BY <2>2, <2>3
<1> HIDE DEF n
<1>13. \A q \in Suites : /\ q \in TestRunner!Entries /\ outcome'[q] = outcome[q]
                         /\ waits[q] \in TestRunner!Entries \cup {None} /\ waits[q] # t
                         /\ \A i \in 1 .. Len(tests[q]) : tests[q][i] \in TestRunner!Entries
  <2> TAKE q \in Suites
  <2>1. waits[q] \in TestRunner!Entries \cup {None} /\ waits[q] # t
    BY <1>6, WaitsBegun
  <2> QED BY <1>8, <1>9, <2>1 DEF TestRunner!Entries, RunnerInv, RunnerTypesOK
<1>14. RunnerTypesOK'
  <2>1. pending' \subseteq TestRunner!Entries /\ failures' \subseteq Suites
    BY <1>6, <1>7 DEF RunnerInv, RunnerTypesOK
  <2> QED BY <1>4, <1>6, <1>9, <1>10, <1>12, <2>1 DEF RunnerInv, RunnerTypesOK
<1>15. StackInv'
  <2>1. ASSUME NEW i \in 1 .. n PROVE FrameOK(calls[i], i)'
    <3>1. CASE i = n
      <4>1. calls[n].of = s /\ FrameOK(calls[n], n)
        BY <1>1, <1>6, <1>11, AtTop DEF n
      <4> QED BY <1>1, <1>4, <1>6, <1>8, <1>10, <1>11, <1>12, <1>13, <3>1, <4>1 DEF FrameOK
    <3>2. CASE i < n
      <4>1. PICK f : f = calls[i]
        OBVIOUS
      <4>2. f.of \in Suites /\ f.of # s /\ f.at = "run" /\ FrameOK(f, i)
        BY <1>11, <3>2, <4>1 DEF RunnerInv, StackInv, n
      <4>3. /\ outcome'[f.of] = outcome[f.of] /\ waits'[f.of] = waits[f.of] /\ calls'[i] = f
            /\ f.of \notin finalized' \/ f.of \in finalized
        BY <1>4, <1>10, <1>12, <1>13, <3>2, <4>1, <4>2
      <4>4. FrameOK(f, i)'
        BY <1>4, <4>2, <4>3 DEF FrameOK
      <4> QED BY <4>1, <4>3, <4>4 DEF FrameOK
    <3> QED BY <1>11, <3>1, <3>2
  <2>2. ASSUME NEW i \in 1 .. n, i < n
        PROVE  /\ calls'[i].at = "run" /\ idx'[calls'[i].of] >= 1
               /\ calls'[i + 1].of = tests'[calls'[i].of][idx'[calls'[i].of]]
    <3>1. /\ calls[i].at = "run" /\ idx[calls[i].of] >= 1
          /\ calls[i + 1].of = tests[calls[i].of][idx[calls[i].of]]
      BY <2>2 DEF RunnerInv, StackInv, n
    <3>2. calls'[i] = calls[i] /\ calls[i].of \in Suites /\ calls[i].of # s
      BY <1>11, <1>12, <2>2
    <3>3. i + 1 \in 1 .. n
      BY <1>11, <2>2
    <3> QED BY <1>4, <1>6, <1>12, <3>1, <3>2, <3>3
  <2>3. /\ calls'[1].of = calls[1].of /\ outcome'[calls[1].of] = outcome[calls[1].of]
    BY <1>11, <1>12, <1>13
  <2> QED BY <1>4, <1>6, <1>12, <2>1, <2>2, <2>3 DEF RunnerInv, StackInv
<1>16. PlacesInv'
  <2>1. ASSUME NEW q \in Suites, NEW i \in 1 .. Len(tests[q])
        PROVE  /\ outcome'[tests[q][i]] # "none"
               /\ i > idx'[q] => outcome'[tests[q][i]] = "registered" /\ ~On(calls', tests[q][i])
    <3>1. /\ tests[q][i] \in TestRunner!Entries /\ outcome[tests[q][i]] # "none"
          /\ i > idx[q] => outcome[tests[q][i]] = "registered" /\ ~On(calls, tests[q][i])
      BY <1>13 DEF RunnerInv, PlacesInv
    <3>2. i > idx'[q] => i > idx[q] /\ tests[q][i] # t
      BY <1>6
    <3> QED BY <1>9, <1>12, <3>1, <3>2
  <2> QED BY <1>4, <2>1 DEF RunnerInv, PlacesInv
<1>17. FreshInv'
  <2>1. \A q \in Suites : q \in failures' => q \in failures \/ q = s
    BY <1>7
  <2> QED BY <1>4, <1>6, <1>10, <1>12, <1>13, <2>1 DEF RunnerInv, FreshInv
<1>18. WaitsInv'
  <2> SUFFICES ASSUME NEW p \in Suites, waits'[p] # None
               PROVE  /\ p \notin concurrent /\ p \notin finalized /\ idx'[p] >= 1
                      /\ waits'[p] = tests[p][idx'[p]]
                      /\ outcome'[waits'[p]] \in {"discovering", "pending"} \cup TestRunner!Settled
                      /\ outcome'[p] \in {"pending", "registered"}
    BY <1>4 DEF WaitsInv
  <2>1. CASE p = s
    <3>1. suspends /\ waits'[p] = t
      BY <1>10, <2>1
    <3> QED BY <1>2, <1>3, <1>6, <1>9, <1>13, <2>1, <3>1
  <2>2. CASE p # s
    BY <1>6, <1>9, <1>10, <1>13, <2>2 DEF RunnerInv, WaitsInv
  <2> QED BY <2>1, <2>2
<1>19. CurrentInv'
  <2>1. \A c \in Suites : Left(c) => Left(c)'
    BY <1>4, <1>6, <1>12, <1>13 DEF Left
  <2>2. TestRunner!Top' = calls'[n]
    BY <1>12 DEF TestRunner!Top, TestRunner!Last
  <2>3. ~TestRunner!Running("discover")'
    BY <1>12, <2>2 DEF TestRunner!Running
  <2>4. currentSuite # None => currentSuite \in Suites /\ Left(currentSuite)
    BY <1>6 DEF RunnerInv, CurrentInv, RunnerTypesOK
  <2> QED BY <1>4, <2>1, <2>3, <2>4 DEF CurrentInv
<1>20. FailInv'
  <2>1. \A q \in failures' : outcome'[q] # "pass"
    <3>1. \A q \in failures : q \in Suites /\ outcome[q] # "pass"
      BY DEF RunnerInv, FailInv, RunnerTypesOK
    <3> QED BY <1>6, <1>7, <1>13, <3>1
  <2>2. ASSUME NEW q \in Suites, NEW i \in 1 .. Len(tests[q]), i <= idx'[q],
               outcome'[tests[q][i]] \in {"discovering", "pending", "fail", "rejected"}
        PROVE  \/ tests[q][i] \in pending' \cup batch \/ q \in failures' \/ waits'[q] = tests[q][i]
               \/ Under(calls', q, tests[q][i]) \/ outcome'[q] \in {"fail", "rejected"}
    <3>1. CASE tests[q][i] = t
      <4>1. q = s
        BY <1>6, <3>1
      <4> QED BY <1>7, <1>9, <1>10, <2>2, <3>1, <4>1
    <3>2. CASE tests[q][i] # t
      <4>1. i <= idx[q] /\ Bad(tests[q][i])
        BY <1>2, <1>3, <1>6, <1>9, <1>13, <2>2, <3>2 DEF Bad
      <4>2. \/ tests[q][i] \in pending \cup batch \/ q \in failures \/ waits[q] = tests[q][i]
            \/ Under(calls, q, tests[q][i]) \/ outcome[q] \in {"fail", "rejected"}
        BY <4>1 DEF RunnerInv, FailInv
      <4>3. waits[q] = tests[q][i] => q # s
        BY <1>6, <1>13 DEF EntriesApart
      <4> QED BY <1>7, <1>10, <1>12, <1>13, <4>2, <4>3
    <3> QED BY <3>1, <3>2
  <2> QED BY <1>4, <2>1, <2>2 DEF FailInv, Bad
<1>21. RootInv'
  <2> SUFFICES ASSUME NEW x \in TestRunner!Entries,
                      outcome'[x] \in {"discovering", "pending", "fail", "rejected"}
               PROVE  \/ file = "failed" \/ x \in pending' \cup batch
                      \/ outcome'[x] = "discovering" /\ calls'[1].of = x
                      \/ \E p \in Suites : \E i \in 1 .. Len(tests[p]) : i <= idx'[p] /\ tests[p][i] = x
    BY <1>4, <1>12 DEF RootInv, Bad
  <2>1. CASE x = t
    <3>1. k <= idx'[s]
      BY <1>2, <1>6
    <3> QED BY <1>3, <1>6, <2>1, <3>1
  <2>2. CASE x # t
    <3>1. Bad(x) /\ outcome'[x] = outcome[x]
      BY <1>9, <2>2 DEF Bad
    <3>2. \/ file = "failed" \/ x \in pending \cup batch
          \/ outcome[x] = "discovering" /\ calls[1].of = x
          \/ \E p \in Suites : \E i \in 1 .. Len(tests[p]) : i <= idx[p] /\ tests[p][i] = x
      BY <3>1 DEF RunnerInv, RootInv
    <3>3. calls'[1].of = calls[1].of
      BY <1>11, <1>12
    <3>4. x \in pending => x \in pending'
      BY <1>7
    <3> QED BY <1>6, <3>1, <3>2, <3>3, <3>4
  <2> QED BY <2>1, <2>2
<1>22. SeqInv'
  <2> SUFFICES ASSUME NEW q \in Suites \ concurrent, NEW i \in 1 .. Len(tests[q])
               PROVE  /\ i < idx'[q] => outcome'[tests[q][i]] \in TestRunner!Settled
                      /\ i = idx'[q] =>
                          \/ outcome'[tests[q][i]] \in TestRunner!Settled \/ waits'[q] = tests[q][i]
                          \/ Under(calls', q, tests[q][i])
                      /\ q \in finalized => outcome'[tests[q][i]] \in TestRunner!Settled
    BY <1>4 DEF SeqInv
  <2>1. /\ i < idx[q] => outcome[tests[q][i]] \in TestRunner!Settled
        /\ i = idx[q] =>
            \/ outcome[tests[q][i]] \in TestRunner!Settled \/ waits[q] = tests[q][i]
            \/ Under(calls, q, tests[q][i])
        /\ q \in finalized => outcome[tests[q][i]] \in TestRunner!Settled
    BY DEF RunnerInv, SeqInv
  <2>2. tests[q][i] \in TestRunner!Entries
            /\ (outcome[tests[q][i]] \in TestRunner!Settled
                   => outcome'[tests[q][i]] \in TestRunner!Settled)
    BY <1>6, <1>9, <1>13 DEF TestRunner!Settled
  <2>3. CASE q # s
    BY <1>6, <1>10, <1>12, <2>1, <2>2, <2>3
  <2>4. CASE q = s /\ i # k
    <3>1. waits[q] # tests[q][i] /\ ~Under(calls, q, tests[q][i])
      BY <1>6, <2>2, <2>4 DEF EntriesApart
    <3>2. (i < idx'[q] => i <= idx[q]) /\ i # idx'[q]
      <4>1. idx'[q] = idx[q] + 1 /\ idx[q] \in Nat /\ i \in Nat /\ i # idx'[q]
        <5>1. idx'[q] = k /\ k = idx[q] + 1 /\ idx[q] \in Nat
          BY <1>2, <1>6, <2>4
        <5>2. i \in Nat
          OBVIOUS
        <5> QED BY <2>4, <5>1, <5>2
      <4> QED BY <4>1
    <3> QED BY <1>6, <2>1, <2>2, <2>4, <3>1, <3>2
  <2>5. CASE q = s /\ i = k
    <3>1. tests[q][i] = t /\ ~(i < idx'[q]) /\ q \notin finalized
      BY <1>2, <1>3, <1>6, <2>5
    <3>2. outcome'[t] \in TestRunner!Settled \/ waits'[s] = t
      BY <1>9, <1>10, <2>5 DEF TestRunner!Settled
    <3> QED BY <2>5, <3>1, <3>2
  <2> QED BY <2>3, <2>4, <2>5
<1>23. FinalInv' /\ ForestInv'
  <2>1. FinalInv'
    <3>1. \A q \in finalized : q \in Suites
      BY DEF RunnerInv, RunnerTypesOK
    <3> QED BY <1>4, <1>6, <3>1 DEF RunnerInv, FinalInv
  <2>2. ForestInv'
    BY <1>4 DEF RunnerInv, ForestInv
  <2> QED BY <2>1, <2>2
<1>24. FileInv'
  BY <1>4, <1>6 DEF RunnerInv, FileInv
<1> QED BY <1>14, <1>15, <1>16, <1>17, <1>18, <1>19, <1>20, <1>21, <1>22, <1>23, <1>24
    DEF RunnerInv

LEMMA RunNextSuiteKeeps ==
    ASSUME EntriesApart, RunnerInv, TestRunner!RunNextSuite
    PROVE  RunnerInv'
<1>1. PICK s : s = TestRunner!Top.of
  OBVIOUS
<1>2. PICK k : k = idx'[s]
  OBVIOUS
<1>3. PICK x : x = tests[s][k]
  OBVIOUS
<1>4. /\ TestRunner!StartEntry /\ x \in Suites /\ TestRunner!RunSuite(x)
      /\ UNCHANGED <<concurrent, file, batch, tests, waits, outcome, failures, finalized, pending>>
  BY <1>1, <1>2, <1>3 DEF TestRunner!RunNextSuite, TestRunner!harnessVars
<1>5. /\ calls # <<>> /\ TestRunner!Top.at = "run" /\ s \in Suites /\ s \in TestRunner!Entries
      /\ k = idx[s] + 1 /\ k \in 1 .. Len(tests[s]) /\ idx[s] \in Nat /\ idx' \in [Suites -> Nat]
      /\ \A q \in Suites : q # s => idx'[q] = idx[q]
      /\ x \in TestRunner!Entries /\ outcome[x] = "registered" /\ ~On(calls, x) /\ On(calls, s)
      /\ outcome[s] \in {"registered", "pending"} /\ waits[s] = None /\ s \notin finalized
      /\ \A q \in Suites : \A i \in 1 .. Len(tests[q]) :
           /\ i <= idx'[q] => i <= idx[q] \/ (q = s /\ i = k)
           /\ i <= idx[q] => i <= idx'[q]
           /\ i > idx'[q] => i > idx[q] /\ tests[q][i] # x
           /\ tests[q][i] = x => q = s /\ i = k
      /\ \A q \in Suites : idx[q] \in Nat /\ idx'[q] \in 0 .. Len(tests[q])
      /\ \A y : ~Under(calls, s, y)
  BY <1>1, <1>2, <1>3, <1>4, StartsEntry
<1> DEFINE n == Len(calls)
<1>6. /\ n \in Nat \ {0} /\ n \in 1 .. n /\ TestRunner!Top = calls[n] /\ calls[n].of = s
      /\ \A i \in 1 .. n : calls[i] \in SuiteCalls /\ calls[i].of \in Suites
      /\ \A i \in 1 .. n : i < n => calls[i].of # s
  BY <1>1, <1>5, AtTop
<1>7. currentSuite \in Suites \cup {None} /\ (currentSuite # None => Left(currentSuite))
  BY <1>5 DEF RunnerInv, RunnerTypesOK, CurrentInv
<1>8. PICK f \in SuiteCalls : /\ f = [at |-> "discover", of |-> x, prev |-> currentSuite]
                              /\ f.at = "discover" /\ f.of = x /\ f.prev = currentSuite
  <2>1. "discover" \in Ats
    BY DEF Ats
  <2> QED BY <1>4, <1>7, <2>1, NewFrame
<1>9. calls' = Append(calls, f) /\ currentSuite' = x
  BY <1>4, <1>8 DEF TestRunner!RunSuite
<1>10. /\ calls' \in Seq(SuiteCalls) /\ calls' # <<>> /\ Len(calls') = n + 1
       /\ \A i \in 1 .. n : calls'[i] = calls[i]
       /\ calls'[n + 1] = f
       /\ \A y : On(calls', y) <=> On(calls, y) \/ y = x
       /\ \A y, z : Under(calls', y, z) <=> Under(calls, y, z) \/ (y = s /\ z = x)
       /\ Apart(calls')
  <2>1. PICK q \in Seq(SuiteCalls) : q = calls
    BY DEF RunnerInv, RunnerTypesOK
  <2>2. PICK r : r = calls'
    OBVIOUS
  <2>3. q # <<>> /\ Apart(q) /\ ~On(q, f.of) /\ r = Pushed(q, f)
    BY <1>5, <1>8, <1>9, <2>1, <2>2 DEF RunnerInv, StackInv, Pushed
  <2>4. /\ r \in Seq(SuiteCalls) /\ r # <<>> /\ Len(r) = Len(q) + 1
        /\ \A i \in 1 .. Len(q) : r[i] = q[i]
        /\ r[Len(q) + 1] = f
        /\ \A y : On(r, y) <=> On(q, y) \/ y = f.of
        /\ \A y, z : Under(r, y, z) <=> Under(q, y, z) \/ (y = q[Len(q)].of /\ z = f.of)
        /\ Apart(r)
    <3>1. /\ r \in Seq(SuiteCalls) /\ r # <<>> /\ Len(r) = Len(q) + 1
          /\ \A i \in 1 .. Len(q) : r[i] = q[i]
          /\ r[Len(q) + 1] = f
      BY ONLY <2>3, q \in Seq(SuiteCalls), f \in SuiteCalls DEF Pushed
    <3>2. \A y : On(r, y) <=> On(q, y) \/ y = f.of
      BY ONLY <2>3, q \in Seq(SuiteCalls), f \in SuiteCalls, PushCall
    <3>3. \A y, z : Under(r, y, z) <=> Under(q, y, z) \/ (y = q[Len(q)].of /\ z = f.of)
      BY ONLY <2>3, q \in Seq(SuiteCalls), f \in SuiteCalls, PushCall
    <3>4. Apart(r)
      BY ONLY <2>3, q \in Seq(SuiteCalls), f \in SuiteCalls, PushCall
    <3> QED BY <3>1, <3>2, <3>3, <3>4
  <2> QED BY <1>6, <1>8, <2>1, <2>2, <2>4
<1> HIDE DEF n
<1>11. /\ tests[x] = <<>> /\ idx[x] = 0 /\ waits[x] = None /\ x \notin failures
       /\ x \notin finalized /\ x # s
  BY <1>4, <1>5 DEF RunnerInv, FreshInv
<1>12. \A q \in Suites : /\ q \in TestRunner!Entries
                         /\ waits[q] \in TestRunner!Entries \cup {None} /\ waits[q] # x
                         /\ \A i \in 1 .. Len(tests[q]) : tests[q][i] \in TestRunner!Entries
  <2> TAKE q \in Suites
  <2>1. waits[q] \in TestRunner!Entries \cup {None} /\ waits[q] # x
    BY <1>5, WaitsBegun
  <2> QED BY <2>1 DEF TestRunner!Entries, RunnerInv, RunnerTypesOK
<1>13. RunnerTypesOK'
  BY <1>4, <1>5, <1>9, <1>10 DEF RunnerInv, RunnerTypesOK
<1>14. StackInv'
  <2>1. \A i \in 1 .. n + 1 : i \in 1 .. n \/ i = n + 1
    BY <1>6
  <2>2. ASSUME NEW i \in 1 .. n PROVE FrameOK(calls[i], i)'
    <3>1. PICK g : g = calls[i]
      OBVIOUS
    <3>2. calls'[i] = g /\ FrameOK(g, i) /\ g.of \in Suites
      BY <1>6, <1>10, <3>1 DEF RunnerInv, StackInv, n
    <3>3. g.of = s => g.at = "run"
      BY <1>5, <1>6, <3>1
    <3>4. FrameOK(g, i)'
      BY <1>4, <1>5, <3>2, <3>3 DEF FrameOK
    <3> QED BY <3>2, <3>4 DEF FrameOK
  <2>0. PICK m \in Nat : m = n
    BY <1>6
  <2>3. FrameOK(f, m + 1)'
    BY <1>4, <1>5, <1>8, <1>11 DEF FrameOK
  <2>4. ASSUME NEW i \in 1 .. n + 1 PROVE FrameOK(calls[i], i)'
    <3>1. CASE i \in 1 .. n
      BY <2>2, <3>1
    <3>2. CASE i = n + 1
      <4>1. calls'[i] = f /\ i = m + 1
        BY <1>10, <2>0, <3>2
      <4> QED BY <2>3, <3>2, <4>1 DEF FrameOK
    <3> QED BY <2>1, <3>1, <3>2
  <2>5. ASSUME NEW i \in 1 .. n, i < n
        PROVE  /\ calls'[i].at = "run" /\ idx'[calls'[i].of] >= 1
               /\ calls'[i + 1].of = tests[calls'[i].of][idx'[calls'[i].of]]
    <3>1. /\ calls[i].at = "run" /\ idx[calls[i].of] >= 1
          /\ calls[i + 1].of = tests[calls[i].of][idx[calls[i].of]]
      BY <2>5 DEF RunnerInv, StackInv, n
    <3>2. calls'[i] = calls[i] /\ calls[i].of \in Suites /\ calls[i].of # s /\ i + 1 \in 1 .. n
      BY <1>6, <1>10, <2>5
    <3> QED BY <1>5, <1>10, <3>1, <3>2
  <2>6. /\ calls'[n].at = "run" /\ idx'[calls'[n].of] >= 1
        /\ calls'[n + 1].of = tests[calls'[n].of][idx'[calls'[n].of]]
    BY <1>2, <1>3, <1>5, <1>6, <1>8, <1>10
  <2>7. ASSUME NEW i \in 1 .. n + 1, i < n + 1
        PROVE  /\ calls'[i].at = "run" /\ idx'[calls'[i].of] >= 1
               /\ calls'[i + 1].of = tests'[calls'[i].of][idx'[calls'[i].of]]
    <3>1. CASE i = n
      BY <1>4, <2>6, <3>1
    <3>2. CASE i # n
      <4>1. i \in 1 .. n /\ i < n
        BY <1>6, <2>7, <3>2
      <4> QED BY <1>4, <2>5, <4>1
    <3> QED BY <3>1, <3>2
  <2>8. calls'[1] = calls[1]
    BY <1>6, <1>10
  <2> QED BY <1>4, <1>5, <1>10, <2>4, <2>7, <2>8 DEF RunnerInv, StackInv
<1>15. PlacesInv'
  <2>1. ASSUME NEW q \in Suites, NEW i \in 1 .. Len(tests[q]), i > idx'[q]
        PROVE  outcome[tests[q][i]] = "registered" /\ ~On(calls', tests[q][i])
    <3>1. i > idx[q] /\ tests[q][i] # x
      BY <1>5, <2>1
    <3> QED BY <1>10, <3>1 DEF RunnerInv, PlacesInv
  <2> QED BY <1>4, <2>1 DEF RunnerInv, PlacesInv
<1>16. FreshInv'
  BY <1>4, <1>5, <1>10, <1>11 DEF RunnerInv, FreshInv
<1>17. WaitsInv'
  BY <1>4, <1>5 DEF RunnerInv, WaitsInv
<1>18. CurrentInv'
  <2>1. \A c \in Suites : Left(c) => Left(c)'
    BY <1>4, <1>5, <1>10 DEF Left, TestRunner!Settled
  <2>2. TestRunner!Top' = f
    BY <1>10 DEF TestRunner!Top, TestRunner!Last
  <2> QED BY <1>7, <1>8, <1>9, <1>10, <2>1, <2>2 DEF CurrentInv, TestRunner!Running
<1>19. FailInv'
  <2>1. ASSUME NEW q \in Suites, NEW i \in 1 .. Len(tests[q]), i <= idx'[q], Bad(tests[q][i])
        PROVE  \/ tests[q][i] \in pending \cup batch \/ q \in failures \/ waits[q] = tests[q][i]
               \/ Under(calls', q, tests[q][i]) \/ outcome[q] \in {"fail", "rejected"}
    <3>1. tests[q][i] # x
      BY <1>5, <2>1 DEF Bad
    <3>2. i <= idx[q]
      BY <1>2, <1>3, <1>5, <2>1, <3>1
    <3> QED BY <1>10, <2>1, <3>2 DEF RunnerInv, FailInv
  <2> QED BY <1>4, <2>1 DEF RunnerInv, FailInv, Bad
<1>20. RootInv'
  <2>1. calls'[1] = calls[1]
    BY <1>6, <1>10
  <2> QED BY <1>4, <1>5, <1>10, <2>1 DEF RunnerInv, RootInv, Bad
<1>21. SeqInv'
  <2> SUFFICES ASSUME NEW q \in Suites \ concurrent, NEW i \in 1 .. Len(tests[q])
               PROVE  /\ i < idx'[q] => outcome[tests[q][i]] \in TestRunner!Settled
                      /\ i = idx'[q] =>
                          \/ outcome[tests[q][i]] \in TestRunner!Settled \/ waits[q] = tests[q][i]
                          \/ Under(calls', q, tests[q][i])
                      /\ q \in finalized => outcome[tests[q][i]] \in TestRunner!Settled
    BY <1>4 DEF SeqInv
  <2>1. /\ i < idx[q] => outcome[tests[q][i]] \in TestRunner!Settled
        /\ i = idx[q] =>
            \/ outcome[tests[q][i]] \in TestRunner!Settled \/ waits[q] = tests[q][i]
            \/ Under(calls, q, tests[q][i])
        /\ q \in finalized => outcome[tests[q][i]] \in TestRunner!Settled
    BY DEF RunnerInv, SeqInv
  <2>2. CASE q # s
    BY <1>5, <1>10, <2>1, <2>2
  <2>3. CASE q = s
    <3>1. waits[q] # tests[q][i] /\ ~Under(calls, q, tests[q][i])
      BY <1>5, <1>12, <2>3 DEF EntriesApart
    <3>2. idx'[q] = k /\ k = idx[q] + 1 /\ idx[q] \in Nat
      BY <1>2, <1>5, <2>3
    <3>3. i < idx'[q] => i < idx[q] \/ i = idx[q]
      BY <3>2
    <3>4. i = idx'[q] => tests[q][i] = x
      BY <1>3, <2>3, <3>2
    <3> QED BY <1>5, <1>10, <2>1, <2>3, <3>1, <3>3, <3>4
  <2> QED BY <2>2, <2>3
<1>22. FinalInv' /\ ForestInv'
  <2>1. FinalInv'
    <3>1. \A q \in finalized : q \in Suites
      BY DEF RunnerInv, RunnerTypesOK
    <3> QED BY <1>4, <1>5, <3>1 DEF RunnerInv, FinalInv
  <2>2. ForestInv'
    BY <1>4 DEF RunnerInv, ForestInv
  <2> QED BY <2>1, <2>2
<1>23. FileInv'
  BY <1>4, <1>5 DEF RunnerInv, FileInv
<1> QED BY <1>13, <1>14, <1>15, <1>16, <1>17, <1>18, <1>19, <1>20, <1>21, <1>22, <1>23
    DEF RunnerInv

-----------------------------------------------------------------------------
(* executeSuite returns.                                                      *)

\* What is below the innermost call runs it as the current entry of its suite.
LEMMA Caller ==
    ASSUME RunnerInv, calls # <<>>, NEW n \in Nat, n = Len(calls), n > 1,
           NEW m, m = n - 1, NEW p, p = calls[m].of
    PROVE  /\ m \in 1 .. n /\ m < n /\ m + 1 = n
           /\ p \in Suites /\ p # TestRunner!Top.of /\ calls[m].at = "run"
           /\ outcome[p] \in {"registered", "pending"} /\ waits[p] = None /\ p \notin finalized
           /\ idx[p] \in 1 .. Len(tests[p]) /\ tests[p][idx[p]] = TestRunner!Top.of
           /\ \A q \in Suites : \A i \in 1 .. Len(tests[q]) :
                tests[q][i] = TestRunner!Top.of => q = p /\ i = idx[p]
<1>1. m \in 1 .. n /\ m < n /\ m + 1 = n
  OBVIOUS
<1>2. calls[m].of \in Suites /\ calls[m].of # TestRunner!Top.of /\ TestRunner!Top = calls[n]
      /\ calls[m] \in SuiteCalls
  BY <1>1, AtTop
<1>3. /\ FrameOK(calls[m], m) /\ calls[m].at = "run" /\ idx[calls[m].of] >= 1
      /\ calls[m + 1].of = tests[calls[m].of][idx[calls[m].of]]
  BY <1>1 DEF RunnerInv, StackInv
<1>4. outcome[p] \in {"registered", "pending"} /\ waits[p] = None /\ p \notin finalized
  BY <1>3 DEF FrameOK
<1>5. idx[p] \in 1 .. Len(tests[p]) /\ tests[p][idx[p]] = TestRunner!Top.of
  BY <1>1, <1>2, <1>3 DEF RunnerInv, RunnerTypesOK
<1>6. \A q \in Suites : \A i \in 1 .. Len(tests[q]) : tests[q][i] = TestRunner!Top.of
          => q = p /\ i = idx[p]
  BY <1>2, <1>5 DEF RunnerInv, PlacesInv
<1> QED BY <1>1, <1>2, <1>3, <1>4, <1>5, <1>6

\* The calls that are left.
LEMMA CallsLeft ==
    ASSUME RunnerInv, calls # <<>>, NEW c, c = TestRunner!Front(calls), NEW n, n = Len(calls)
    PROVE  /\ c \in Seq(SuiteCalls) /\ Len(c) = n - 1 /\ n \in Nat \ {0}
           /\ \A i \in 1 .. n - 1 : c[i] = calls[i]
           /\ \A x : On(c, x) <=> On(calls, x) /\ x # TestRunner!Top.of
           /\ \A x, y : Under(c, x, y) <=> Under(calls, x, y) /\ y # TestRunner!Top.of
           /\ Apart(c)
<1>1. PICK q \in Seq(SuiteCalls) : q = calls
  BY DEF RunnerInv, RunnerTypesOK
<1>2. q # <<>> /\ Apart(q) /\ c = TestRunner!Front(q)
  BY <1>1 DEF RunnerInv, StackInv
<1>3. /\ c \in Seq(SuiteCalls) /\ Len(c) = Len(q) - 1 /\ Len(q) \in Nat \ {0}
      /\ \A i \in 1 .. Len(c) : c[i] = q[i]
  BY ONLY <1>2, q \in Seq(SuiteCalls), PopCall
<1>4. \A x : On(c, x) <=> On(q, x) /\ x # q[Len(q)].of
  BY ONLY <1>2, q \in Seq(SuiteCalls), PopCall
<1>5. \A x, y : Under(c, x, y) <=> Under(q, x, y) /\ y # q[Len(q)].of
  BY ONLY <1>2, q \in Seq(SuiteCalls), PopCall
<1>6. Apart(c)
  BY ONLY <1>2, q \in Seq(SuiteCalls), PopCall
<1>7. TestRunner!Top = q[Len(q)] /\ n = Len(q)
  BY <1>1, AtTop
<1> QED BY <1>1, <1>3, <1>4, <1>5, <1>6, <1>7

LEMMA ReturnsKeeps ==
    ASSUME EntriesApart, RunnerInv, TestRunner!Returns
    PROVE  RunnerInv'
<1>1. PICK s : s = TestRunner!Top.of
  OBVIOUS
<1>2. PICK r : r = TestRunner!Top.at
  OBVIOUS
<1>3. PICK n : n = Len(calls)
  OBVIOUS
<1>4. PICK c : c = TestRunner!Front(calls)
  OBVIOUS
<1>5. PICK p : p = IF n > 1 THEN calls[n - 1].of ELSE None
  OBVIOUS
<1>6. /\ calls # <<>> /\ r \in {"async", "pass", "fail"}
      /\ UNCHANGED <<concurrent, batch, currentSuite, tests, idx, finalized>>
      /\ outcome' = [outcome EXCEPT ![s] =
            IF r # "async" THEN r ELSE IF @ = "discovering" THEN @ ELSE "pending"]
  BY <1>1, <1>2 DEF TestRunner!Returns, TestRunner!Running
<1>7. /\ n \in Nat \ {0} /\ n \in 1 .. n /\ TestRunner!Top = calls[n] /\ s \in Suites
      /\ s \in TestRunner!Entries /\ On(calls, s)
      /\ FrameOK(TestRunner!Top, n)
      /\ \A i \in 1 .. n : calls[i] \in SuiteCalls /\ calls[i].of \in Suites
      /\ \A i \in 1 .. n : i < n => calls[i].of # s
  BY <1>1, <1>3, <1>6, AtTop
<1>8. /\ outcome[s] \in {"registered", "pending", "discovering"}
      /\ outcome[s] = "pending" => n = 1
      /\ r # "async" => outcome[s] # "discovering" /\ waits[s] = None
      /\ r = "pass" => s \notin failures
      /\ outcome[s] = "discovering" =>
            /\ idx[s] = 0 /\ waits[s] = None /\ s \notin failures /\ s \notin finalized
  BY <1>1, <1>2, <1>6, <1>7 DEF FrameOK, RunnerInv, FreshInv
<1>9. /\ outcome' \in [TestRunner!Entries -> Outcomes] /\ \A y \in TestRunner!Entries : y # s
             => outcome'[y] = outcome[y]
      /\ outcome'[s] = IF r # "async" THEN r ELSE IF outcome[s] = "discovering" THEN "discovering"
             ELSE "pending"
  BY <1>6, <1>7 DEF RunnerInv, RunnerTypesOK, Outcomes, TestRunner!Settled
<1>10. /\ c \in Seq(SuiteCalls) /\ Len(c) = n - 1
       /\ \A i \in 1 .. n - 1 : c[i] = calls[i]
       /\ \A x : On(c, x) <=> On(calls, x) /\ x # s
       /\ \A x, y : Under(c, x, y) <=> Under(calls, x, y) /\ y # s
       /\ Apart(c)
  BY <1>1, <1>3, <1>4, <1>6, CallsLeft
<1>11. c = <<>> <=> n = 1
  BY <1>7, <1>10
<1>12. n > 1 =>
        /\ n - 1 \in 1 .. n /\ n - 1 < n /\ n - 1 + 1 = n /\ p = calls[n - 1].of
        /\ p \in Suites /\ p # s /\ calls[n - 1].at = "run"
        /\ outcome[p] \in {"registered", "pending"} /\ waits[p] = None /\ p \notin finalized
        /\ idx[p] \in 1 .. Len(tests[p]) /\ tests[p][idx[p]] = s
        /\ \A q \in Suites : \A i \in 1 .. Len(tests[q]) : tests[q][i] = s => q = p /\ i = idx[p]
  <2> HAVE n > 1
  <2>1. n \in Nat
    BY <1>7
  <2>2. p = calls[n - 1].of
    BY <1>5
  <2> QED BY <1>1, <1>3, <1>6, <2>1, <2>2, Caller
<1> DEFINE suspends == n > 1 /\ r = "async" /\ p \notin concurrent
<1>13. /\ failures' = IF n > 1 /\ r = "fail" THEN failures \cup {p} ELSE failures
       /\ pending' = IF r = "async" /\ ~suspends /\ outcome[s] # "pending" THEN pending \cup {s}
              ELSE pending
       /\ waits' = IF suspends THEN [waits EXCEPT ![p] = s] ELSE waits
       /\ calls' = IF suspends THEN Goes(c, "async") ELSE c
       /\ file' = IF r = "fail" /\ n = 1 /\ outcome[s] # "pending" THEN "failed" ELSE file
  <2>1. CASE n = 1
    <3>1. ~(n > 1)
      BY <2>1
    <3>2. /\ calls' = c /\ UNCHANGED <<waits, failures>>
          /\ pending' = IF r = "async" /\ outcome[s] # "pending" THEN pending \cup {s} ELSE pending
          /\ file' = IF r = "fail" /\ outcome[s] # "pending" THEN "failed" ELSE file
      BY <1>1, <1>2, <1>4, <1>11, <2>1 DEF TestRunner!Returns
    <3> QED BY <2>1, <3>1, <3>2
  <2>2. CASE n # 1
    <3>1. n > 1 /\ outcome[s] # "pending" /\ c # <<>>
      BY <1>7, <1>8, <1>11, <2>2
    <3>2. TestRunner!Result(TestRunner!Last(c).of, s, r, c) /\ UNCHANGED file
      BY <1>1, <1>2, <1>4, <3>1 DEF TestRunner!Returns
    <3>3. TestRunner!Last(c).of = p
      <4>1. TestRunner!Last(c) = c[n - 1] /\ n - 1 \in 1 .. n - 1
        BY <1>7, <1>10, <3>1 DEF TestRunner!Last
      <4> QED BY <1>10, <1>12, <3>1, <4>1
    <3> QED BY <2>2, <3>1, <3>2, <3>3 DEF TestRunner!Result, Goes
  <2> QED BY <2>1, <2>2
<1>14. /\ \A q \in Suites : waits'[q] = IF suspends /\ q = p THEN s ELSE waits[q]
       /\ waits' \in [Suites -> TestRunner!Entries \cup {None}]
  BY <1>7, <1>12, <1>13 DEF RunnerInv, RunnerTypesOK
<1>15. /\ calls' \in Seq(SuiteCalls) /\ Len(calls') = n - 1
       /\ \A i \in 1 .. n - 1 : calls'[i].of = calls[i].of /\ (i < n - 1 => calls'[i] = calls[i])
       /\ n > 1 => calls'[n - 1].at = IF suspends THEN "async" ELSE "run"
       /\ \A x : On(calls', x) <=> On(calls, x) /\ x # s
       /\ \A x, y : Under(calls', x, y) <=> Under(calls, x, y) /\ y # s
       /\ Apart(calls')
  <2>1. CASE suspends
    <3>1. PICK q \in Seq(SuiteCalls) : q = c
      BY <1>10
    <3>2. PICK t : t = calls'
      OBVIOUS
    <3>3. q # <<>> /\ t = Goes(q, "async") /\ "async" \in Ats /\ Apart(q)
      BY <1>10, <1>11, <1>13, <2>1, <3>1, <3>2 DEF Ats
    <3>4. /\ t \in Seq(SuiteCalls) /\ Len(t) = Len(q)
          /\ \A i \in 1 .. Len(q) : t[i].of = q[i].of /\ (i < Len(q) => t[i] = q[i])
          /\ t[Len(q)].at = "async"
          /\ \A x : On(t, x) <=> On(q, x)
          /\ \A x, y : Under(t, x, y) <=> Under(q, x, y)
          /\ Apart(t)
      BY ONLY <3>3, q \in Seq(SuiteCalls), TopGoesOn
    <3> QED BY <1>10, <2>1, <3>1, <3>2, <3>4
  <2>2. CASE ~suspends
    <3>1. calls' = c
      BY <1>13, <2>2
    <3>2. n > 1 => calls'[n - 1].at = "run"
      <4>1. n > 1 => n - 1 \in 1 .. n - 1
        BY <1>7
      <4> QED BY <1>10, <1>12, <3>1, <4>1
    <3> QED BY <1>10, <2>2, <3>1, <3>2
  <2> QED BY <2>1, <2>2
<1>16. \A q \in Suites : /\ q \in TestRunner!Entries /\ (waits[q] # None => waits[q] \in TestRunner!Entries)
                         /\ \A i \in 1 .. Len(tests[q]) :
                                tests[q][i] \in TestRunner!Entries /\ tests[q][i] # None
  BY DEF RunnerInv, RunnerTypesOK, TestRunner!Entries, EntriesApart
<1>17. RunnerTypesOK'
  <2>1. pending' \subseteq TestRunner!Entries /\ failures' \subseteq Suites
    BY <1>7, <1>12, <1>13 DEF RunnerInv, RunnerTypesOK
  <2>2. file' \in {"running", "awaiting", "passed", "failed"}
    BY <1>13 DEF RunnerInv, RunnerTypesOK
  <2> QED BY <1>6, <1>9, <1>14, <1>15, <2>1, <2>2 DEF RunnerInv, RunnerTypesOK
<1>18. StackInv'
  <2>1. \A i \in 1 .. n - 1 :
            i \in 1 .. n /\ i < n /\ n > 1 /\ n - 1 \in 1 .. n - 1 /\ (i < n - 1 \/ i = n - 1)
    BY <1>7
  <2>2. ASSUME NEW i \in 1 .. n - 1 PROVE FrameOK(calls[i], i)'
    <3>1. PICK g : g = calls'[i]
      OBVIOUS
    <3>2. FrameOK(calls[i], i) /\ calls[i].at = "run" /\ calls[i].of \in Suites /\ calls[i].of # s
      BY <1>3, <1>7, <2>1 DEF RunnerInv, StackInv
    <3>3. g.of = calls[i].of /\ g.of \in TestRunner!Entries /\ outcome'[g.of] = outcome[g.of]
      BY <1>9, <1>15, <1>16, <3>1, <3>2
    <3>4. outcome[g.of] = "registered" \/ (outcome[g.of] = "pending" /\ i = 1)
      BY <3>2, <3>3 DEF FrameOK
    <3>5. waits[g.of] = None /\ g.of \notin finalized
      BY <3>2, <3>3 DEF FrameOK
    <3>6. CASE suspends /\ i = n - 1
      <4>1. g.at = "async" /\ waits'[g.of] = s /\ s # None
        BY <1>7, <1>12, <1>14, <1>15, <2>1, <3>1, <3>2, <3>3, <3>6 DEF EntriesApart
      <4>2. FrameOK(g, i)'
        BY <3>3, <3>4, <4>1 DEF FrameOK
      <4> QED BY <3>1, <4>2 DEF FrameOK
    <3>7. CASE ~(suspends /\ i = n - 1)
      <4>1. g.at = "run"
        BY <1>15, <2>1, <3>1, <3>2, <3>7
      <4>2. waits'[g.of] = None
        <5>1. suspends => g.of # p
          <6>1. suspends => n - 1 \in 1 .. n /\ i \in 1 .. n /\ i # n - 1 /\ p = calls[n - 1].of
            BY <1>12, <2>1, <3>7
          <6> QED BY <1>3, <3>3, <6>1 DEF RunnerInv, StackInv, Apart
        <5> QED BY <1>14, <3>2, <3>3, <3>5, <5>1
      <4>3. FrameOK(g, i)'
        BY <1>6, <3>3, <3>4, <3>5, <4>1, <4>2 DEF FrameOK
      <4> QED BY <3>1, <4>3 DEF FrameOK
    <3> QED BY <3>6, <3>7
  <2>3. ASSUME NEW i \in 1 .. n - 1, i < n - 1
        PROVE  /\ calls'[i].at = "run" /\ idx[calls'[i].of] >= 1
               /\ calls'[i + 1].of = tests[calls'[i].of][idx[calls'[i].of]]
    <3>1. /\ calls[i].at = "run" /\ idx[calls[i].of] >= 1
          /\ calls[i + 1].of = tests[calls[i].of][idx[calls[i].of]]
      BY <1>3, <2>1 DEF RunnerInv, StackInv
    <3>2. i + 1 \in 1 .. n - 1
      BY <1>7, <2>3
    <3> QED BY <1>15, <2>3, <3>1, <3>2
  <2>4. ASSUME calls' # <<>>, outcome'[calls'[1].of] = "registered"
        PROVE  \A q \in Suites : \A i \in 1 .. Len(tests[q]) : tests[q][i] # calls'[1].of
    <3>1. n > 1 /\ 1 \in 1 .. n - 1
      BY <1>7, <1>15, <2>4
    <3>2. calls'[1].of = calls[1].of /\ calls[1].of # s /\ calls[1].of \in TestRunner!Entries
      BY <1>7, <1>15, <1>16, <2>1, <3>1
    <3> QED BY <1>6, <1>9, <2>4, <3>2 DEF RunnerInv, StackInv
  <2> QED BY <1>6, <1>15, <2>2, <2>3, <2>4 DEF StackInv
<1>19. PlacesInv'
  <2>1. ASSUME NEW q \in Suites, NEW i \in 1 .. Len(tests[q])
        PROVE  /\ outcome'[tests[q][i]] # "none"
               /\ i > idx[q] => outcome'[tests[q][i]] = "registered" /\ ~On(calls', tests[q][i])
    <3>1. /\ tests[q][i] \in TestRunner!Entries /\ outcome[tests[q][i]] # "none"
          /\ i > idx[q] => outcome[tests[q][i]] = "registered" /\ ~On(calls, tests[q][i])
      BY <1>16 DEF RunnerInv, PlacesInv
    <3>2. i > idx[q] => tests[q][i] # s
      BY <1>7, <3>1
    <3> QED BY <1>6, <1>9, <1>15, <3>1, <3>2
  <2> QED BY <1>6, <2>1 DEF RunnerInv, PlacesInv
<1>20. FreshInv'
  <2> SUFFICES ASSUME NEW q \in Suites
               PROVE  /\ outcome'[q] = "none" => ~On(calls', q)
                      /\ outcome'[q] \in {"none", "registered"} /\ ~On(calls', q) =>
                          /\ tests[q] = <<>> /\ idx[q] = 0 /\ waits'[q] = None
                          /\ q \notin failures' /\ q \notin finalized
                      /\ outcome'[q] = "discovering" =>
                          idx[q] = 0 /\ waits'[q] = None /\ q \notin failures' /\ q \notin finalized
    BY <1>6 DEF FreshInv
  <2>1. /\ outcome[q] = "none" => ~On(calls, q)
        /\ outcome[q] \in {"none", "registered"} /\ ~On(calls, q) =>
            /\ tests[q] = <<>> /\ idx[q] = 0 /\ waits[q] = None
            /\ q \notin failures /\ q \notin finalized
        /\ outcome[q] = "discovering" =>
            idx[q] = 0 /\ waits[q] = None /\ q \notin failures /\ q \notin finalized
    BY DEF RunnerInv, FreshInv
  <2>2. n > 1 => On(calls, p)
    BY <1>3, <1>12 DEF On
  <2>3. CASE q = s
    <3>1. q # p \/ ~(n > 1)
      BY <1>12, <2>3
    <3>2. waits'[q] = waits[q] /\ (q \in failures' => q \in failures)
      BY <1>13, <1>14, <3>1
    <3>3. outcome'[q] \notin {"none", "registered"}
              /\ (outcome'[q] = "discovering" => outcome[q] = "discovering")
      BY <1>6, <1>9, <2>3
    <3> QED BY <2>1, <3>2, <3>3
  <2>4. CASE q # s
    <3>1. outcome'[q] = outcome[q] /\ (On(calls', q) <=> On(calls, q))
      BY <1>9, <1>15, <1>16, <2>4
    <3>2. CASE n > 1 /\ q = p
      BY <1>12, <2>2, <3>1, <3>2
    <3>3. CASE ~(n > 1 /\ q = p)
      <4>1. waits'[q] = waits[q] /\ (q \in failures' => q \in failures)
        BY <1>13, <1>14, <3>3
      <4> QED BY <2>1, <3>1, <4>1
    <3> QED BY <3>2, <3>3
  <2> QED BY <2>3, <2>4
<1>21. WaitsInv'
  <2> SUFFICES ASSUME NEW q \in Suites, waits'[q] # None
               PROVE  /\ q \notin concurrent /\ q \notin finalized /\ idx[q] >= 1
                      /\ waits'[q] = tests[q][idx[q]]
                      /\ outcome'[waits'[q]] \in {"discovering", "pending"} \cup TestRunner!Settled
                      /\ outcome'[q] \in {"pending", "registered"}
    BY <1>6 DEF WaitsInv
  <2>1. outcome'[s] \in {"discovering", "pending"} \cup TestRunner!Settled
    BY <1>6, <1>9 DEF TestRunner!Settled
  <2>2. CASE suspends /\ q = p
    <3>1. waits'[q] = s /\ idx[q] >= 1 /\ outcome'[q] = outcome[q]
      BY <1>9, <1>12, <1>14, <1>16, <2>2
    <3> QED BY <1>12, <2>1, <2>2, <3>1
  <2>3. CASE ~(suspends /\ q = p)
    <3>1. waits'[q] = waits[q] /\ waits[q] \in TestRunner!Entries
      BY <1>14, <1>16, <2>3
    <3>2. /\ q \notin concurrent /\ q \notin finalized /\ idx[q] >= 1 /\ waits[q] = tests[q][idx[q]]
          /\ outcome[waits[q]] \in {"discovering", "pending"} \cup TestRunner!Settled
          /\ outcome[q] \in {"pending", "registered"}
      BY <3>1 DEF RunnerInv, WaitsInv
    <3>3. outcome'[q] \in {"pending", "registered"}
      BY <1>8, <1>9, <1>16, <3>1, <3>2
    <3> QED BY <1>9, <2>1, <3>1, <3>2, <3>3
  <2> QED BY <2>2, <2>3
<1>22. CurrentInv'
  <2>1. \A x \in Suites : Left(x) => Left(x)'
    <3> SUFFICES ASSUME NEW x \in Suites, Left(x) PROVE Left(x)'
      OBVIOUS
    <3>1. x # s
      BY <1>7 DEF Left
    <3> QED BY <1>6, <1>9, <1>15, <1>16, <3>1 DEF Left
  <2>2. ~TestRunner!Running("discover")'
    <3>1. calls' # <<>> => n > 1 /\ TestRunner!Top' = calls'[n - 1]
      BY <1>7, <1>15 DEF TestRunner!Top, TestRunner!Last
    <3> QED BY <1>15, <3>1 DEF TestRunner!Running
  <2>3. currentSuite # None => currentSuite \in Suites
    BY DEF RunnerInv, RunnerTypesOK
  <2>4. ASSUME currentSuite # None, ~Left(currentSuite) PROVE Left(currentSuite)'
    <3>1. currentSuite = s /\ r = "async" /\ outcome[s] = "discovering"
      BY <1>1, <1>2, <1>6, <2>4 DEF RunnerInv, CurrentInv
    <3>2. outcome'[s] = "discovering" /\ ~On(calls', s) /\ idx'[s] = 0 /\ s \notin finalized'
      BY <1>6, <1>8, <1>9, <1>15, <3>1
    <3> QED BY <1>6, <3>1, <3>2 DEF Left
  <2> QED BY <1>6, <2>1, <2>2, <2>3, <2>4 DEF CurrentInv
<1>23. FailInv'
  <2>1. ASSUME NEW q \in failures' PROVE outcome'[q] # "pass"
    <3>1. CASE q = s
      <4>1. q \in failures
        BY <1>12, <1>13, <2>1, <3>1
      <4> QED BY <1>6, <1>8, <1>9, <3>1, <4>1
    <3>2. CASE q # s /\ q \in failures
      <4>1. q \in TestRunner!Entries /\ outcome[q] # "pass"
        BY <1>16, <3>2 DEF RunnerInv, FailInv, RunnerTypesOK
      <4> QED BY <1>9, <3>2, <4>1
    <3>3. CASE q # s /\ q \notin failures
      <4>1. n > 1 /\ q = p
        BY <1>13, <2>1, <3>3
      <4> QED BY <1>9, <1>12, <1>16, <3>3, <4>1
    <3> QED BY <3>1, <3>2, <3>3
  <2>2. ASSUME NEW q \in Suites, NEW i \in 1 .. Len(tests[q]), i <= idx[q],
               outcome'[tests[q][i]] \in {"discovering", "pending", "fail", "rejected"}
        PROVE  \/ tests[q][i] \in pending' \cup batch \/ q \in failures' \/ waits'[q] = tests[q][i]
               \/ Under(calls', q, tests[q][i]) \/ outcome'[q] \in {"fail", "rejected"}
    <3>1. PICK y \in TestRunner!Entries : y = tests[q][i]
      BY <1>16
    <3>2. y # None /\ y \in TestRunner!Entries
      BY <3>1, <1>16
    <3>3. ASSUME Bad(y), Under(calls, q, y) => y # s
          PROVE  \/ y \in pending' \cup batch \/ q \in failures' \/ waits'[q] = y
                 \/ Under(calls', q, y) \/ outcome'[q] \in {"fail", "rejected"}
      <4>1. \/ y \in pending \cup batch \/ q \in failures \/ waits[q] = y
            \/ Under(calls, q, y) \/ outcome[q] \in {"fail", "rejected"}
        BY <2>2, <3>1, <3>3 DEF RunnerInv, FailInv
      <4>2. (y \in pending => y \in pending') /\ (q \in failures => q \in failures')
        BY <1>13
      <4>3. waits[q] = y => waits'[q] = y
        BY <1>12, <1>14, <3>2
      <4>4. outcome[q] \in {"fail", "rejected"} => outcome'[q] = outcome[q]
        BY <1>8, <1>9, <1>16
      <4> QED BY <1>15, <3>3, <4>1, <4>2, <4>3, <4>4
    <3>4. CASE y # s
      <4>1. Bad(y)
        BY <1>9, <2>2, <3>1, <3>4 DEF Bad
      <4> QED BY <3>1, <3>3, <3>4, <4>1
    <3>5. CASE y = s /\ n > 1
      <4>1. q = p
        BY <1>12, <3>1, <3>5
      <4>2. outcome[s] # "pending"
        BY <1>8, <3>5
      <4> QED BY <1>6, <1>9, <1>13, <1>14, <2>2, <3>1, <3>5, <4>1, <4>2
    <3>6. CASE y = s /\ n = 1
      <4>1. ~Under(calls, q, y)
        BY <1>3, <3>6 DEF Under
      <4>2. outcome[s] # "registered"
        <5>1. calls[1].of = s
          BY <1>1, <1>7, <3>6
        <5> QED BY <1>6, <3>1, <3>6, <5>1 DEF RunnerInv, StackInv
      <4>3. Bad(y)
        BY <1>8, <3>6, <4>2 DEF Bad
      <4> QED BY <3>1, <3>3, <4>1, <4>3
    <3> QED BY <1>7, <3>4, <3>5, <3>6
  <2> QED BY <1>6, <2>1, <2>2 DEF FailInv, Bad
<1>24. RootInv'
  <2> SUFFICES ASSUME NEW x \in TestRunner!Entries,
                      outcome'[x] \in {"discovering", "pending", "fail", "rejected"}
               PROVE  \/ file' = "failed" \/ x \in pending' \cup batch
                      \/ outcome'[x] = "discovering" /\ calls' # <<>> /\ calls'[1].of = x
                      \/ \E q \in Suites : \E i \in 1 .. Len(tests[q]) : i <= idx[q] /\ tests[q][i] = x
    BY <1>6 DEF RootInv, Bad
  <2>1. /\ file = "failed" => file' = "failed"
        /\ x \in pending => x \in pending'
    BY <1>13
  <2>2. Bad(x) =>
            \/ file = "failed" \/ x \in pending \cup batch
            \/ outcome[x] = "discovering" /\ calls[1].of = x
            \/ \E q \in Suites : \E i \in 1 .. Len(tests[q]) : i <= idx[q] /\ tests[q][i] = x
    BY DEF RunnerInv, RootInv
  <2>3. CASE x # s
    <3>1. Bad(x) /\ outcome'[x] = outcome[x]
      BY <1>9, <2>3 DEF Bad
    <3>2. calls[1].of = x => calls' # <<>> /\ calls'[1].of = x
      <4> HAVE calls[1].of = x
      <4>1. n # 1
        BY <1>1, <1>7, <2>3
      <4>2. 1 \in 1 .. n - 1
        BY <1>7, <4>1
      <4> QED BY <1>7, <1>15, <4>1, <4>2
    <3> QED BY <2>1, <2>2, <3>1, <3>2
  <2>4. CASE x = s /\ n > 1
    <3>1. p \in Suites /\ idx[p] \in 1 .. Len(tests[p]) /\ idx[p] <= idx[p] /\ tests[p][idx[p]] = x
      BY <1>12, <2>4
    <3> QED BY <3>1
  <2>5. CASE x = s /\ n = 1 /\ outcome[s] = "pending"
    <3>1. Bad(x) /\ outcome[x] # "discovering"
      BY <2>5 DEF Bad
    <3> QED BY <2>1, <2>2, <3>1
  <2>6. CASE x = s /\ n = 1 /\ outcome[s] # "pending"
    <3>1. ~(n > 1)
      BY <2>6
    <3> QED BY <1>6, <1>9, <1>13, <2>6, <3>1
  <2> QED BY <1>7, <2>3, <2>4, <2>5, <2>6
<1>25. SeqInv'
  <2> SUFFICES ASSUME NEW q \in Suites \ concurrent, NEW i \in 1 .. Len(tests[q])
               PROVE  /\ i < idx[q] => outcome'[tests[q][i]] \in TestRunner!Settled
                      /\ i = idx[q] =>
                          \/ outcome'[tests[q][i]] \in TestRunner!Settled \/ waits'[q] = tests[q][i]
                          \/ Under(calls', q, tests[q][i])
                      /\ q \in finalized => outcome'[tests[q][i]] \in TestRunner!Settled
    BY <1>6 DEF SeqInv
  <2>1. /\ i < idx[q] => outcome[tests[q][i]] \in TestRunner!Settled
        /\ i = idx[q] =>
            \/ outcome[tests[q][i]] \in TestRunner!Settled \/ waits[q] = tests[q][i]
            \/ Under(calls, q, tests[q][i])
        /\ q \in finalized => outcome[tests[q][i]] \in TestRunner!Settled
    BY DEF RunnerInv, SeqInv
  <2>2. PICK y \in TestRunner!Entries : y = tests[q][i]
    BY <1>16
  <2>3. outcome[y] \in TestRunner!Settled => outcome'[y] \in TestRunner!Settled
    BY <1>8, <1>9 DEF TestRunner!Settled
  <2>4. waits[q] = y => waits'[q] = y
    BY <1>12, <1>14, <1>16, <2>2
  <2>5. CASE i = idx[q] /\ Under(calls, q, y)
    <3>1. CASE y # s
      BY <1>15, <2>1, <2>2, <2>3, <2>5, <3>1
    <3>2. CASE y = s
      <4>1. n > 1
        BY <1>3, <1>7, <2>5 DEF Under
      <4>2. q = p
        BY <1>12, <2>2, <3>2, <4>1
      <4>3. outcome'[s] \in TestRunner!Settled \/ waits'[q] = s
        BY <1>6, <1>9, <1>14, <4>1, <4>2 DEF TestRunner!Settled
      <4> QED BY <2>1, <2>2, <2>3, <2>5, <3>2, <4>3
    <3> QED BY <3>1, <3>2
  <2>6. CASE ~(i = idx[q] /\ Under(calls, q, y))
    BY <2>1, <2>2, <2>3, <2>4, <2>6
  <2> QED BY <2>5, <2>6
<1>26. FinalInv' /\ ForestInv'
  BY <1>6 DEF RunnerInv, FinalInv, ForestInv
<1>27. FileInv'
  BY <1>6, <1>13 DEF RunnerInv, FileInv
<1> QED BY <1>17, <1>18, <1>19, <1>20, <1>21, <1>22, <1>23, <1>24, <1>25, <1>26, <1>27
    DEF RunnerInv

LEMMA StutterKeeps == RunnerInv /\ UNCHANGED TestRunner!vars => RunnerInv'
<1> SUFFICES ASSUME RunnerInv, UNCHANGED TestRunner!vars PROVE RunnerInv'
  OBVIOUS
<1>1. /\ UNCHANGED <<concurrent, calls, currentSuite, TestRunner!suiteVars, outcome>>
      /\ UNCHANGED <<concurrent, file, calls, currentSuite, tests, idx, waits, outcome, failures>>
      /\ UNCHANGED <<finalized, pending, batch>>
  BY DEF TestRunner!vars, TestRunner!suiteVars
<1>2. RunnerTypesOK' /\ FileInv'
  BY <1>1 DEF RunnerInv, RunnerTypesOK, FileInv, TestRunner!PassMeansPassed
<1>3. FailInv' /\ RootInv'
  BY <1>1 DEF RunnerInv, FailInv, RootInv, Bad
<1> QED BY <1>1, <1>2, <1>3, SuitesStay DEF RunnerInv

LEMMA NextKeeps == EntriesApart /\ RunnerInv /\ [TestRunner!Next]_TestRunner!vars => RunnerInv'
<1> SUFFICES ASSUME EntriesApart, RunnerInv, [TestRunner!Next]_TestRunner!vars PROVE RunnerInv'
  OBVIOUS
<1>1. ASSUME NEW x \in TestRunner!Entries, TestRunner!Register(x) PROVE RunnerInv'
  BY <1>1, RegisterKeeps
<1>2. ASSUME NEW t \in Tests, TestRunner!TestNow(t) PROVE RunnerInv'
  BY <1>2, TestNowKeeps
<1>3. ASSUME NEW s \in Suites, TestRunner!SuiteNow(s) PROVE RunnerInv'
  BY <1>3, SuiteNowKeeps
<1>4. CASE TestRunner!CallbackReturns \/ TestRunner!CallbackReturnsPromise
               \/ TestRunner!BeforeHooks \/ TestRunner!Finalize
  BY <1>4, StepsOfTop
<1>5. CASE TestRunner!RunNextTest
  BY <1>5, RunNextTestKeeps
<1>6. CASE TestRunner!RunNextSuite
  BY <1>6, RunNextSuiteKeeps
<1>7. CASE TestRunner!Returns
  BY <1>7, ReturnsKeeps
<1>8. CASE TestRunner!FileEnds \/ TestRunner!AwaitFails
  BY <1>8, FileEndsKeeps
<1>9. CASE TestRunner!AwaitsNext
  BY <1>9, AwaitsNextKeeps
<1>10. CASE \/ \E t \in Tests : TestRunner!TestSettles(t)
            \/ \E s \in Suites : TestRunner!AsyncCallbackEnds(s) \/ TestRunner!SuiteBreaks(s)
  BY <1>10, PendingSettles
<1>11. ASSUME NEW s \in Suites, TestRunner!SuiteGoesOn(s) PROVE RunnerInv'
  BY <1>11, GoesOnKeeps
<1>12. CASE UNCHANGED TestRunner!vars
  BY <1>12, StutterKeeps
<1> QED
  BY <1>1, <1>2, <1>3, <1>4, <1>5, <1>6, <1>7, <1>8, <1>9, <1>10, <1>11, <1>12
     DEF TestRunner!Next, TestRunner!Job, TestRunner!Calls

\* The invariant holds in every state, for any tests and suites.
THEOREM RunnerInvIsInvariant == TestRunner!Spec => []RunnerInv
<1>0. EntriesApart
  BY Bounds DEF EntriesApart, TestRunner!Entries
<1>1. TestRunner!Init => RunnerInv
  BY <1>0, InitRunner
<1>2. RunnerInv /\ [TestRunner!Next]_TestRunner!vars => RunnerInv'
  BY <1>0, NextKeeps
<1> QED BY <1>1, <1>2, PTL DEF TestRunner!Spec

\* What passes has passed, and in order: a file passes only when nothing of it that was
\* started failed or goes on, and a sequential suite runs its entries one after the other.
THEOREM TestsAlwaysPassInOrder == TestRunner!Spec => []TestsPassInOrder
<1>1. RunnerInv => TestsPassInOrder
  <2> SUFFICES ASSUME RunnerInv PROVE TestsPassInOrder
    OBVIOUS
  <2>1. TestRunner!PassMeansPassed
    BY DEF RunnerInv, FileInv, TestRunner!PassMeansPassed
  <2>2. TestRunner!TypeOK
    BY DEF RunnerInv, RunnerTypesOK, TestRunner!TypeOK, SuiteCalls, Ats, Outcomes
  <2>3. \A s \in Suites \ concurrent :
           \A i \in 1 .. Len(tests[s]) :
               /\ i < idx[s] \/ s \in finalized => outcome[tests[s][i]] \in TestRunner!Settled
               /\ i > idx[s] => outcome[tests[s][i]] = "registered"
    BY DEF RunnerInv, SeqInv, PlacesInv
  <2> QED BY <2>1, <2>2, <2>3 DEF TestsPassInOrder, TestRunner!TestsPassInOrder,
      TestRunner!SequentialInOrder
<1> QED BY <1>1, RunnerInvIsInvariant, PTL

-----------------------------------------------------------------------------
(* node:http, whose proofs are in HttpClientProof.                            *)

\* The agent of node:http counts the requests it has admitted and their sockets exactly, for
\* any number of requests, hosts and chunks, and whatever the limits are.
THEOREM AgentStaysExact ==
    ASSUME Http!ClientConstants PROVE Http!Spec => []AgentIsExact
BY Http!AgentIsAlwaysExact DEF AgentIsExact

\* A request that the program has destroyed, or that has closed, is given no response.
THEOREM ResponseStaysWanted ==
    ASSUME Http!ClientConstants PROVE Http!Spec => ResponseIsWanted
BY Http!ResponseIsAlwaysWanted DEF ResponseIsWanted
=============================================================================
