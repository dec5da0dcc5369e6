---------------------------- MODULE TimerService ----------------------------
(* What the timer subsystem promises a program: a Timeout is idle, armed or  *)
(* closed; only an armed one fires, one callback at a time; a one-shot fires *)
(* once per arming; closing is final.                                        *)
CONSTANT Timeouts, None
VARIABLES armed, firing, interval

vars == <<armed, firing, interval>>

Init ==
    /\ armed = [o \in Timeouts |-> "idle"]
    /\ firing = None
    /\ interval = [o \in Timeouts |-> FALSE]

Arm(o) ==
    /\ armed[o] # "closed"
    /\ armed' = [armed EXCEPT ![o] = "armed"]
    /\ \/ UNCHANGED interval
       \/ armed[o] = "idle" /\ interval' = [interval EXCEPT ![o] = TRUE]
    /\ UNCHANGED firing

\* Cancelled without being closed: cleared by number, or unref'd and dropped
\* at the end of an export call.
Disarm(S) ==
    /\ S # {} /\ \A o \in S : armed[o] = "armed"
    /\ armed' = [o \in Timeouts |-> IF o \in S THEN "idle" ELSE armed[o]]
    /\ UNCHANGED <<firing, interval>>

Close(o) ==
    /\ armed[o] # "closed"
    /\ armed' = [armed EXCEPT ![o] = "closed"]
    /\ UNCHANGED <<firing, interval>>

Fire(o) ==
    /\ firing = None
    /\ armed[o] = "armed"
    /\ firing' = o
    /\ armed' = [armed EXCEPT ![o] = IF interval[o] THEN "armed" ELSE "idle"]
    /\ UNCHANGED interval

Return ==
    /\ firing # None
    /\ firing' = None
    /\ UNCHANGED <<armed, interval>>

Next ==
    \/ \E o \in Timeouts : Arm(o) \/ Close(o) \/ Fire(o)
    \/ \E S \in SUBSET Timeouts : Disarm(S)
    \/ Return

Spec == Init /\ [][Next]_vars
=============================================================================
