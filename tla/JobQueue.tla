------------------------------- MODULE JobQueue -------------------------------
(* The engine's queue of microtasks, as the built-ins and the program use it: *)
(* jobs run one after the other in the order they were queued, each to its    *)
(* end.  A step is a job, cut where it calls listeners of the program; what   *)
(* the program does there, in a job of its own, or in a turn of the host, may *)
(* queue more.                                                                *)
EXTENDS Integers, Sequences, FiniteSets, SequencesExt

CONSTANT ProgramJobs    \* the jobs the program may queue

VARIABLES
    jobs,       \* the queue
    running     \* the job, the listener or the turn that is running

queueVars == <<jobs, running>>

NoJob == [what |-> "none"]
Turn == [what |-> "turn"]
ProgramJob(i) == [what |-> "program", of |-> i]

QueueInit == jobs = <<>> /\ running = NoJob

\* The program runs: in a turn, in a job of its own, or in a listener.
InProgram == running # NoJob

HostTurn ==
    /\ running = NoJob
    /\ running' = Turn
    /\ UNCHANGED jobs

\* The program queues a job of its own.
Then(i) ==
    /\ InProgram
    /\ ProgramJob(i) \notin ToSet(jobs)
    /\ jobs' = Append(jobs, ProgramJob(i))
    /\ UNCHANGED running

\* The first job of the queue begins; it is of the given kind.
Begins(what) == running = NoJob /\ jobs # <<>> /\ Head(jobs).what = what

RunProgramJob ==
    /\ Begins("program")
    /\ running' = Head(jobs)
    /\ jobs' = Tail(jobs)

ProgramReturns ==
    /\ running.what \in {"turn", "program"}
    /\ running' = NoJob
    /\ UNCHANGED jobs
=============================================================================
