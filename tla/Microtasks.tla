------------------------------- MODULE Microtasks -------------------------------
(* The microtask queue with the built-ins that use it: message ports and the  *)
(* tracker of rejections.                                                     *)
EXTENDS MessagePort, Rejections

vars == <<queueVars, portVars, rejectionVars>>

Init == QueueInit /\ PortsInit /\ RejectionsInit

\* The program queues a job, begins one, or comes to its end.
ProgramNext ==
    \/ \E i \in ProgramJobs : ThenAfter(i) /\ UNCHANGED portVars
    \/ (HostTurn \/ RunProgramJob \/ ProgramReturns) /\ UNCHANGED <<portVars, rejectionVars>>

Next ==
    \/ ProgramNext
    \/ PortsNext /\ UNCHANGED rejectionVars
    \/ RejectionsNext /\ UNCHANGED portVars

TypeOK == PortsTypeOK /\ RejectionsTypeOK

Spec == Init /\ [][Next]_vars

\* What is running comes to its end: listeners return, a turn of the host ends.
Returns ==
    \/ ProgramReturns /\ UNCHANGED <<portVars, rejectionVars>>
    \/ (MessageReturns \/ CloseReturns \/ ErrorReturns) /\ UNCHANGED rejectionVars
    \/ UnhandledReturns /\ UNCHANGED portVars

\* The engine begins the job at the head of the queue.
Runs ==
    \/ RunProgramJob /\ UNCHANGED <<portVars, rejectionVars>>
    \/ (RunDrain \/ RunClose \/ RunProxyDrain \/ RunProxyClose) /\ UNCHANGED rejectionVars
    \/ (RunFirst \/ RunSecond) /\ UNCHANGED portVars

\* The host may run several turns before the queue gets its chance, but not for ever.
FairSpec == Spec /\ WF_vars(Returns) /\ SF_vars(Runs)
=============================================================================
