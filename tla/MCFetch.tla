------------------------------- MODULE MCFetch -------------------------------
(* The event loop, the body of a Response and an XMLHttpRequest in one run:   *)
(* what happens is of the module that part names, and the others stay as they *)
(* are after import.                                                          *)
EXTENDS EventLoop

CONSTANTS Responses, MaxChunks, MaxSends, MaxOpens

ASSUME Bounds ==
    /\ MaxChunks \in Nat /\ MaxSends \in Nat /\ MaxOpens \in Nat

VARIABLES
    part,
    bodySource, shared, reader, broken, trapped, overlapped,
    deadline, xhr, sending, signalled, timers, stack, calls, events, strayed

bodyVars == <<bodySource, shared, reader, broken, trapped, overlapped>>
xhrVars == <<deadline, xhr, sending, signalled, timers, stack, calls, events, strayed>>

Body == INSTANCE ResponseBody
Xhr == INSTANCE XmlHttpRequest
         WITH timeout <- deadline, request <- sending, MaxCalls <- MaxOpens

PartsInit ==
    /\ part \in {"loop", "body", "xhr"}
    /\ Init /\ Body!Init /\ Xhr!Init
    /\ part # "loop" => \A k \in Id : owner[k] = CHOOSE o \in Timeouts : TRUE
    /\ part # "body" => ~broken
    /\ part # "xhr" => ~deadline

PartsNext ==
    \/ part = "loop" /\ Next /\ UNCHANGED <<part, bodyVars, xhrVars>>
    \/ part = "body" /\ Body!Next /\ UNCHANGED <<part, vars, xhrVars>>
    \/ part = "xhr" /\ Xhr!Next /\ UNCHANGED <<part, vars, bodyVars>>

\* The fairness of each module (its FairSpec), of the one that part names.
PartsFairness ==
    /\ \A k \in Id : SF_vars(part = "loop" /\ (Wake(k) \/ Reap(k)) /\ Tasks)
    /\ WF_vars(part = "loop" /\ (CallbackReturn \/ TurnEnd \/ OtherTurnEnd) /\ Tasks)
    /\ SF_vars(part = "loop" /\ IoTurn)
    /\ SF_vars(part = "loop" /\ SentinelTick)
    /\ WF_vars(part = "loop" /\ IdleReturns)
    /\ WF_xhrVars(part = "xhr" /\ Xhr!Runs) /\ WF_xhrVars(part = "xhr" /\ Xhr!Timers)
    /\ WF_xhrVars(part = "xhr" /\ Xhr!Bodies) /\ WF_xhrVars(part = "xhr" /\ Xhr!Headers)

PartsSpec ==
    PartsInit /\ [][PartsNext]_<<part, vars, bodyVars, xhrVars>> /\ PartsFairness

-----------------------------------------------------------------------------
(* The properties of the others, beside those of EventLoop.                   *)

\* Every Response and clone that is read in turn gives the whole body.
BodiesAreWhole == Body!BodiesAreWhole
\* A request of an XMLHttpRequest ends once.
RequestsEndOnce == Xhr!RequestsEndOnce
\* A request of an XMLHttpRequest that was sent ends.
RequestsEnd == Xhr!RequestsEnd
=============================================================================
