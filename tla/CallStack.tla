------------------------------ MODULE CallStack ------------------------------
(* JavaScript functions that call each other, with callbacks and listeners of   *)
(* the program in between: stack is what they have still to do, the next step   *)
(* first, and ticks is what was passed to process.nextTick.  A step is a tuple  *)
(* of its name and its arguments; a step "program" is a callback or a listener, *)
(* in which the program may call what it likes.                                 *)
EXTENDS Sequences

VARIABLES
    stack,      \* what runs: steps, the next one first
    ticks       \* the nextTick queue, of steps

Doing(names) == stack # <<>> /\ Head(stack)[1] \in names
AtRest == stack = <<>> /\ ticks = <<>>
\* The program runs, or may begin a turn.
InProgram == Doing({"program"}) \/ AtRest

\* The step at the head of the stack gives way to steps.
Becomes(steps) == stack' = steps \o Tail(stack)
\* Code that is running, or that begins a turn, calls a function and goes on after it.
Calls(steps) == stack' = steps \o IF stack = <<>> THEN <<<<"program">>>> ELSE stack

\* nextTick runs the callback at the head of its queue.
RunsTick ==
    /\ stack = <<>> /\ ticks # <<>>
    /\ stack' = <<Head(ticks)>>
    /\ ticks' = Tail(ticks)
=============================================================================
