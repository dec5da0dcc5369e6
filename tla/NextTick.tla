------------------------------ MODULE NextTick ------------------------------
(* process.nextTick (builtin/process.js) over the timers: the queue, its     *)
(* zero-delay wake-up timer, the checkpoint at the start of every timer      *)
(* callback (timeout.js), and the exit handlers.  Callbacks may queue more   *)
(* ticks, start timers and throw; what they throw goes to the handlers for   *)
(* uncaught errors, which may throw in turn.                                 *)
EXTENDS Integers, Sequences

CONSTANTS
    Ticks,          \* the callbacks the program may pass to nextTick, once each
    MaxTimers,      \* bound: program timers pending at once
    MaxWakeups      \* bound: wake-up timers pending at once

VARIABLES
    nextTickQueue,      \* __nextTickQueue
    wakeupScheduled,    \* __nextTickWakeupScheduled
    wakeups,            \* wake-up timers that have not fired
    timers,             \* program timers that have not fired
    called,             \* ticks passed to nextTick so far, in order
    ran,                \* ticks whose callback was started, in order
    stack,              \* what runs: <<>> or a JavaScript activation, outermost first
    exit,               \* _exiting and the events emitted on the way out
    escaped             \* history: the activations an error was thrown through

vars == <<nextTickQueue, wakeupScheduled, wakeups, timers, called, ran, stack, exit, escaped>>

\* Activations: program code outside the queue ("turn"), the checkpoint of a
\* program timer or of a wake-up, the wake-up's own drain, the two drains of
\* _runExitHandlers, and a tick's callback.
Frames == {"turn", "timerCheckpoint", "wakeupCheckpoint", "wakeupDrain",
           "exitDrain", "beforeExit", "lastDrain", "tick"}
Draining == {"timerCheckpoint", "wakeupCheckpoint", "wakeupDrain", "exitDrain", "lastDrain"}
ProgramFrames == {"turn", "tick", "beforeExit"}

Top == stack[Len(stack)]
Running(fs) == stack # <<>> /\ Top \in fs
Becomes(f) == [stack EXCEPT ![Len(stack)] = f]
Pop == SubSeq(stack, 1, Len(stack) - 1)

TypeOK ==
    /\ nextTickQueue \in Seq(Ticks) /\ called \in Seq(Ticks) /\ ran \in Seq(Ticks)
    /\ wakeupScheduled \in BOOLEAN
    /\ wakeups \in 0 .. MaxWakeups /\ timers \in 0 .. MaxTimers
    /\ stack \in Seq(Frames)
    /\ exit \in {"no", "exiting", "emitted"}
    /\ escaped \subseteq Frames

Init ==
    /\ nextTickQueue = <<>> /\ called = <<>> /\ ran = <<>>
    /\ wakeupScheduled = FALSE
    /\ wakeups = 0 /\ timers = 0
    /\ stack = <<"turn">>
    /\ exit = "no"
    /\ escaped = {}

-----------------------------------------------------------------------------
\* __requestNextTickWakeup, called right after a push.
RequestWakeup ==
    IF wakeupScheduled
    THEN UNCHANGED <<wakeups, wakeupScheduled>>
    ELSE wakeupScheduled' = TRUE /\ wakeups' = wakeups + 1

CallNextTick(t) ==
    /\ Running(ProgramFrames)
    /\ t \notin {called[i] : i \in 1 .. Len(called)}
    /\ wakeups < MaxWakeups
    /\ nextTickQueue' = Append(nextTickQueue, t)
    /\ called' = Append(called, t)
    /\ RequestWakeup
    /\ UNCHANGED <<timers, ran, stack, exit, escaped>>

StartTimer ==
    /\ Running(ProgramFrames)
    /\ timers < MaxTimers
    /\ timers' = timers + 1
    /\ UNCHANGED <<nextTickQueue, wakeupScheduled, wakeups, called, ran, stack, exit, escaped>>

\* Faulty variant: the queue is not drained between 'beforeExit' and 'exit'.
ReturnFromProgramAtOnce ==
    /\ Running({"turn", "beforeExit"})
    /\ stack' = Pop
    /\ UNCHANGED <<nextTickQueue, wakeupScheduled, wakeups, timers, called, ran, exit, escaped>>

\* A program turn ends; so does, if it was one, beforeExit.
ReturnFromProgram ==
    /\ Running({"turn", "beforeExit"})
    /\ IF Top = "turn"
       THEN stack' = Pop /\ UNCHANGED wakeupScheduled
       ELSE stack' = Becomes("lastDrain") /\ wakeupScheduled' = FALSE
    /\ UNCHANGED <<nextTickQueue, wakeups, timers, called, ran, exit, escaped>>

\* A timer fires: its wrapped callback first drains the queue, and
\* __drainNextTickQueue first resets the flag.
FireTimer ==
    /\ stack = <<>>
    /\ \/ /\ timers > 0 /\ timers' = timers - 1
          /\ stack' = <<"timerCheckpoint">>
          /\ UNCHANGED wakeups
       \/ /\ wakeups > 0 /\ wakeups' = wakeups - 1
          /\ stack' = <<"wakeupCheckpoint">>
          /\ UNCHANGED timers
    /\ wakeupScheduled' = FALSE
    /\ UNCHANGED <<nextTickQueue, called, ran, exit, escaped>>

\* Faulty variant: last in, first out.
StartTickFromEnd ==
    /\ Running(Draining)
    /\ nextTickQueue # <<>>
    /\ nextTickQueue' = SubSeq(nextTickQueue, 1, Len(nextTickQueue) - 1)
    /\ ran' = Append(ran, nextTickQueue[Len(nextTickQueue)])
    /\ stack' = Append(stack, "tick")
    /\ UNCHANGED <<wakeupScheduled, wakeups, timers, called, exit, escaped>>

StartTick ==
    /\ Running(Draining)
    /\ nextTickQueue # <<>>
    /\ nextTickQueue' = Tail(nextTickQueue)
    /\ ran' = Append(ran, Head(nextTickQueue))
    /\ stack' = Append(stack, "tick")
    /\ UNCHANGED <<wakeupScheduled, wakeups, timers, called, exit, escaped>>

\* The callback returns, or throws an error that a handler consumes.
ReturnFromTick ==
    /\ Running({"tick"})
    /\ stack' = Pop
    /\ UNCHANGED <<nextTickQueue, wakeupScheduled, wakeups, timers, called, ran, exit, escaped>>

\* The callback throws and so does the handler: the drain is abandoned, and
\* with it the timer callback it precedes or the rest of _runExitHandlers.
TickEscapes ==
    /\ Running({"tick"})
    /\ stack' = <<>>
    /\ escaped' = escaped \cup {stack[i] : i \in 1 .. Len(stack)}
    /\ UNCHANGED <<nextTickQueue, wakeupScheduled, wakeups, timers, called, ran, exit>>

\* What follows a drain.
DrainContinuation ==
    CASE Top = "timerCheckpoint" -> stack' = Becomes("turn") /\ UNCHANGED <<wakeupScheduled, exit>>
      [] Top = "wakeupCheckpoint" ->
            stack' = Becomes("wakeupDrain") /\ wakeupScheduled' = FALSE /\ UNCHANGED exit
      [] Top = "wakeupDrain" -> stack' = Pop /\ UNCHANGED <<wakeupScheduled, exit>>
      [] Top = "exitDrain" -> stack' = Becomes("beforeExit") /\ UNCHANGED <<wakeupScheduled, exit>>
      [] Top = "lastDrain" ->
            stack' = Becomes("turn") /\ exit' = "emitted" /\ UNCHANGED wakeupScheduled

\* Faulty variant: ticks queued by the ticks wait for the next drain.
DrainEndsAfterOne ==
    /\ Running(Draining)
    /\ ran # <<>> \/ nextTickQueue = <<>>
    /\ DrainContinuation
    /\ UNCHANGED <<nextTickQueue, wakeups, timers, called, ran, escaped>>

DrainEnds ==
    /\ Running(Draining)
    /\ nextTickQueue = <<>>
    /\ DrainContinuation
    /\ UNCHANGED <<nextTickQueue, wakeups, timers, called, ran, escaped>>

\* process._runExitHandlers, called by the host of a script between turns.
RunExitHandlers ==
    /\ stack = <<>>
    /\ exit = "no"
    /\ exit' = "exiting"
    /\ stack' = <<"exitDrain">>
    /\ wakeupScheduled' = FALSE
    /\ UNCHANGED <<nextTickQueue, wakeups, timers, called, ran, escaped>>

\* process.exit(): the listeners of 'exit' run in the caller's frame unless an
\* exit is under way; the sentinel error ends the frame.  Thrown by a listener
\* of 'beforeExit' it ends _runExitHandlers too.
ProcessExit ==
    /\ Running(ProgramFrames)
    /\ exit' = IF exit = "no" THEN "emitted" ELSE exit
    /\ stack' = Pop
    /\ escaped' = IF Top = "beforeExit" THEN escaped \cup {Top} ELSE escaped
    /\ UNCHANGED <<nextTickQueue, wakeupScheduled, wakeups, timers, called, ran>>

\* What goes on by itself; nothing makes the program call nextTick.
Job == ReturnFromProgram \/ FireTimer \/ StartTick \/ ReturnFromTick \/ DrainEnds

Next ==
    \/ \E t \in Ticks : CallNextTick(t)
    \/ StartTimer \/ Job \/ TickEscapes
    \/ RunExitHandlers \/ ProcessExit

Spec == Init /\ [][Next]_vars

\* Turns end and pending timers fire: as long as there is one to, one does.
FairSpec == Spec /\ WF_vars(Job)

-----------------------------------------------------------------------------
\* Ticks run in the order of the calls, each at most once, whoever drains.
RunsInOrder ==
    TypeOK /\ ran \o nextTickQueue = called

\* Between turns a queued tick has a wake-up timer that will drain it, unless
\* an error escaped a drain.
QueuedHasWakeup ==
    escaped = {} /\ stack = <<>> /\ nextTickQueue # <<>> => wakeups > 0

\* No tick is lost, repeated or overtaken, and none is left to wait for a timer of the
\* program.
TicksInOrder == RunsInOrder /\ QueuedHasWakeup

\* Every tick passed to nextTick runs, unless an error escaped a drain, which
\* only an error thrown by a handler for uncaught errors can.
TicksRunUnlessEscaped ==
    nextTickQueue # <<>> ~> (nextTickQueue = <<>> \/ "tick" \in escaped)

\* Once _runExitHandlers has begun, 'exit' is emitted, whatever the ticks and
\* the 'beforeExit' listeners queue, unless one of the listeners exits or an
\* error escapes one of its two drains.
ExitHandlersFinish ==
    exit = "exiting" ~>
        (exit = "emitted" \/ escaped \cap {"exitDrain", "beforeExit", "lastDrain"} # {})

\* Ticks and exit handlers come to their end.
TicksFinish == TicksRunUnlessEscaped /\ ExitHandlersFinish

\* The checkpoints, and the wake-up for want of them, reach every tick.
EveryTickRuns == nextTickQueue # <<>> ~> nextTickQueue = <<>>
=============================================================================
