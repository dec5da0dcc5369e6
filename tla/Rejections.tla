------------------------------- MODULE Rejections -------------------------------
(* The tracker of rejected promises (builtin/process.js).  The engine tells   *)
(* it of a promise rejected without a handler, and of the first handler such  *)
(* a promise gets; 'unhandledRejection' is emitted two microtasks later if    *)
(* none has come.                                                             *)
EXTENDS JobQueue

CONSTANT Promises       \* the promises the program rejects

VARIABLES
    promise,    \* what has become of each: pending, rejected without a handler, handled
    pendingRejections,  \* keys of _pendingRejections
    reported,   \* history: the promises 'unhandledRejection' was emitted for
    before      \* history: jobs the program had queued when each promise was rejected, or
                \* has queued since, ahead of the first of the two microtasks

rejectionVars == <<promise, pendingRejections, reported, before>>

FirstOf(r) == [what |-> "first", of |-> r]
SecondOf(r) == [what |-> "second", of |-> r]
UnhandledOf(r) == [what |-> "unhandled", of |-> r]

RejectionsInit ==
    /\ promise = [r \in Promises |-> "pending"]
    /\ pendingRejections = {} /\ reported = {}
    /\ before = [r \in Promises |-> {}]

RejectionsTypeOK ==
    /\ promise \in [Promises -> {"pending", "rejected", "handled"}]
    /\ pendingRejections \subseteq Promises /\ reported \subseteq Promises
    /\ before \in [Promises -> SUBSET ProgramJobs]

QueuedByProgram == {i \in ProgramJobs : ProgramJob(i) \in ToSet(jobs)}

\* A promise without a handler is rejected.
Reject(r) ==
    /\ InProgram /\ promise[r] = "pending"
    /\ promise' = [promise EXCEPT ![r] = "rejected"]
    /\ pendingRejections' = pendingRejections \cup {r}
    /\ jobs' = Append(jobs, FirstOf(r))
    /\ before' = [before EXCEPT ![r] = QueuedByProgram]
    /\ UNCHANGED <<running, reported>>

\* A rejected promise gets its first handler.
Handle(r) ==
    /\ InProgram /\ promise[r] = "rejected"
    /\ promise' = [promise EXCEPT ![r] = "handled"]
    /\ pendingRejections' = pendingRejections \ {r}
    /\ UNCHANGED <<jobs, running, reported, before>>

\* The program queues job i, in time for the rejections whose first microtask is to come.
ThenAfter(i) ==
    /\ Then(i)
    /\ before' = [r \in Promises |->
                    IF FirstOf(r) \in ToSet(jobs) THEN before[r] \cup {i} ELSE before[r] \ {i}]
    /\ UNCHANGED <<promise, pendingRejections, reported>>

\* Faulty variant: the rejection is reported by the first microtask.
RunFirstReporting ==
    LET r == Head(jobs).of IN
    /\ Begins("first")
    /\ jobs' = Tail(jobs)
    /\ pendingRejections' = pendingRejections \ {r}
    /\ IF r \in pendingRejections
       THEN reported' = reported \cup {r} /\ running' = UnhandledOf(r)
       ELSE UNCHANGED <<reported, running>>
    /\ UNCHANGED <<promise, before>>

RunFirst ==
    /\ Begins("first")
    /\ jobs' = Append(Tail(jobs), SecondOf(Head(jobs).of))
    /\ UNCHANGED <<running, rejectionVars>>

\* Faulty variant: the check is given up while other jobs are queued.
RunSecondWhenQuiet ==
    LET r == Head(jobs).of IN
    /\ Begins("second")
    /\ jobs' = Tail(jobs)
    /\ IF r \in pendingRejections /\ Tail(jobs) = <<>>
       THEN /\ pendingRejections' = pendingRejections \ {r}
            /\ reported' = reported \cup {r} /\ running' = UnhandledOf(r)
       ELSE UNCHANGED <<pendingRejections, reported, running>>
    /\ UNCHANGED <<promise, before>>

RunSecond ==
    LET r == Head(jobs).of IN
    /\ Begins("second")
    /\ jobs' = Tail(jobs)
    /\ pendingRejections' = pendingRejections \ {r}
    /\ IF r \in pendingRejections
       THEN reported' = reported \cup {r} /\ running' = UnhandledOf(r)
       ELSE UNCHANGED <<reported, running>>
    /\ UNCHANGED <<promise, before>>

\* The listeners of 'unhandledRejection' return or throw.
UnhandledReturns ==
    /\ running.what = "unhandled"
    /\ running' = NoJob
    /\ UNCHANGED <<jobs, rejectionVars>>

RejectionsNext ==
    \/ RunFirst \/ RunSecond \/ UnhandledReturns
    \/ \E r \in Promises : Reject(r) \/ Handle(r)

-----------------------------------------------------------------------------
(* Properties.                                                                *)

\* "so that [...] patterns that handle the rejection synchronously don't cause false
\* positives": a promise is reported only when it has no handler and every job that was
\* queued when it was rejected, by the code that rejected it after it did, or by those jobs
\* before the tracker's first microtask, has had its chance to give it one.
ReportsAreLate ==
    [][\A r \in reported' \ reported :
          promise[r] = "rejected" /\ QueuedByProgram \cap before[r] = {}]_<<jobs, rejectionVars>>

\* Reports come so late, and yet a promise that stays without a handler is reported.
RejectionsAreReported ==
    /\ ReportsAreLate
    /\ \A r \in Promises : promise[r] = "rejected" ~> promise[r] = "handled" \/ r \in reported
=============================================================================
