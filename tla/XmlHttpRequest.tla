---------------------------- MODULE XmlHttpRequest ----------------------------
(* XMLHttpRequest over fetch() (builtin/http.js): open(), send(), abort(), the *)
(* timeout and the async function that fetches and reads the answer.  Each     *)
(* event is a call of the program, which may call any of them again; `stack`   *)
(* is what is left to do when it returns.  The host answers requests and       *)
(* delivers bodies; request, controller and timer g are those of the g-th      *)
(* send().                                                                     *)
EXTENDS Naturals, Sequences, SequencesExt

CONSTANTS
    MaxSends,       \* bound: calls of send()
    MaxCalls        \* bound: calls of open() and of abort()

VARIABLES
    timeout,    \* the program has set a timeout
    xhr,        \* readyState, _sent, _aborted, _abortController and _timeoutId, 0 for null
    request,    \* where each _sendAsync() is
    signalled,  \* the controllers that were aborted
    timers,     \* the timers that are armed
    stack,      \* what runs, innermost first
    calls,      \* number of calls of open(), of send() and of abort()
    events,     \* history: calls of open(), and the events that end a request
    strayed     \* history: what happened that the object does not guard against

vars == <<timeout, xhr, request, signalled, timers, stack, calls, events, strayed>>
historyVars == <<events, strayed>>

UNSENT == 0
OPENED == 1
HEADERS_RECEIVED == 2
LOADING == 3
DONE == 4

Numbers == 1 .. MaxSends
Program == <<"program">>
Ends == {"load", "late load", "error", "abort", "timeout"}

Init ==
    /\ timeout \in BOOLEAN
    /\ xhr = [readyState |-> UNSENT, sent |-> FALSE, aborted |-> FALSE, controller |-> 0,
              timeoutId |-> 0]
    /\ request = [g \in Numbers |-> "none"]
    /\ signalled = {} /\ timers = {}
    /\ stack = <<>> /\ calls = [open |-> 0, send |-> 0, abort |-> 0]
    /\ events = <<>> /\ strayed = {}

TypeOK ==
    /\ xhr \in [readyState : UNSENT .. DONE, sent : BOOLEAN, aborted : BOOLEAN,
                controller : 0 .. MaxSends, timeoutId : 0 .. MaxSends]
    /\ request \in [Numbers -> {"none", "fetch", "ok", "loading", "read", "text", "failed",
                                "aborted", "done"}]
    /\ signalled \subseteq Numbers /\ timers \subseteq Numbers
    /\ events \in Seq(Ends \cup {"open"})

-----------------------------------------------------------------------------
Doing(name) == stack # <<>> /\ Head(stack)[1] = name
InProgram == stack = <<>> \/ Doing("program")
Becomes(steps) == stack' = steps \o Tail(stack)
Invokes(steps) == stack' = steps \o IF stack = <<>> THEN <<Program>> ELSE stack

\* _setReadyState: 'readystatechange' if it has changed.
Hears(state) == IF xhr.readyState = state THEN <<>> ELSE <<Program>>
\* _setReadyState(DONE), the event and 'loadend'.
Finishes(event) == Hears(DONE) \o <<<<"dispatch", event>>, Program>>

Reading(g) == request[g] \in {"loading", "read", "text"}
\* The fetch of request g has not settled, or its answer is still to be looked at.
UnderWay(g) == request[g] \in {"fetch", "ok", "failed"} \/ Reading(g)
\* What is called in a listener will be followed by a step of these names.
Before(names) == \E i \in 1 .. Len(stack) : stack[i][1] \in names

Strays(what, it) == strayed' = IF it THEN strayed \cup {what} ELSE strayed

\* _abortController.abort(): the signal rejects a fetch() that is pending.
Signals(g) ==
    /\ signalled' = signalled \cup ({g} \ {0})
    /\ request' = [h \in Numbers |-> IF h = g /\ request[h] = "fetch" THEN "aborted" ELSE request[h]]

-----------------------------------------------------------------------------
(* The calls of the program.                                                  *)

Open ==
    /\ InProgram /\ calls.open < MaxCalls
    /\ xhr.readyState = UNSENT \/ ~xhr.sent
    /\ calls' = [calls EXCEPT !.open = @ + 1]
    /\ xhr' = [xhr EXCEPT !.readyState = OPENED, !.sent = FALSE, !.aborted = FALSE]
    /\ Invokes(Hears(OPENED))
    /\ events' = Append(events, "open")
    /\ Strays("opened too early",
              (\E g \in Numbers : UnderWay(g)) \/ Before({"sendAsync", "fetch", "arm", "dispatch"}))
    /\ UNCHANGED <<timeout, request, signalled, timers>>

\* send(): 'loadstart', then _sendAsync() up to its first await, then the timeout.
Send ==
    /\ InProgram /\ xhr.readyState = OPENED /\ ~xhr.sent
    /\ calls.send < MaxSends
    /\ calls' = [calls EXCEPT !.send = @ + 1]
    /\ xhr' = [xhr EXCEPT !.sent = TRUE]
    /\ LET g == calls.send + 1 IN Invokes(<<Program, <<"sendAsync", g>>, <<"arm", g>>>>)
    /\ UNCHANGED <<timeout, request, signalled, timers, historyVars>>

SendAsync ==
    /\ Doing("sendAsync")
    /\ LET g == Head(stack)[2] IN
       /\ xhr' = [xhr EXCEPT !.controller = g, !.readyState = HEADERS_RECEIVED]
       /\ Becomes(Hears(HEADERS_RECEIVED) \o <<<<"fetch", g>>>>)
    /\ UNCHANGED <<timeout, request, signalled, timers, calls, historyVars>>

\* fetch(), whose signal may be aborted already.
Fetch ==
    /\ Doing("fetch")
    /\ LET g == Head(stack)[2] IN
       request' = [request EXCEPT ![g] = IF g \in signalled THEN "aborted" ELSE "fetch"]
    /\ Becomes(<<>>)
    /\ UNCHANGED <<timeout, xhr, signalled, timers, calls, historyVars>>

Arm ==
    /\ Doing("arm")
    /\ Becomes(<<>>)
    /\ IF timeout
       THEN LET g == Head(stack)[2] IN
            timers' = timers \cup {g} /\ xhr' = [xhr EXCEPT !.timeoutId = g]
       ELSE UNCHANGED <<timers, xhr>>
    /\ UNCHANGED <<timeout, request, signalled, calls, historyVars>>

Abort ==
    /\ InProgram /\ calls.abort < MaxCalls
    /\ calls' = [calls EXCEPT !.abort = @ + 1]
    /\ xhr' = [xhr EXCEPT !.aborted = TRUE, !.sent = FALSE, !.timeoutId = 0, !.readyState = DONE]
    /\ Signals(xhr.controller)
    /\ timers' = timers \ {xhr.timeoutId}
    /\ Invokes(Finishes("abort"))
    /\ Strays("aborted too late", (\E g \in Numbers : Reading(g)) \/ Before({"dispatch"}))
    /\ UNCHANGED <<timeout, events>>

\* The timer's callback.
Fires(t) ==
    /\ stack = <<>> /\ t \in timers
    /\ timers' = timers \ {t}
    /\ IF xhr.readyState # DONE /\ ~xhr.aborted
       THEN /\ xhr' = [xhr EXCEPT !.timeoutId = 0, !.aborted = TRUE, !.readyState = DONE]
            /\ Signals(xhr.controller)
            /\ stack' = Finishes("timeout")
            /\ Strays("aborted too late", \E g \in Numbers : Reading(g))
       ELSE /\ xhr' = [xhr EXCEPT !.timeoutId = 0]
            /\ UNCHANGED <<signalled, request, stack, strayed>>
    /\ UNCHANGED <<timeout, calls, events>>

Dispatch ==
    /\ Doing("dispatch")
    /\ events' = Append(events, Head(stack)[2])
    /\ Becomes(<<Program>>)
    /\ UNCHANGED <<timeout, xhr, request, signalled, timers, calls, strayed>>

ProgramReturns ==
    /\ Doing("program")
    /\ Becomes(<<>>)
    /\ UNCHANGED <<timeout, xhr, request, signalled, timers, calls, historyVars>>

-----------------------------------------------------------------------------
(* _sendAsync() after its awaits.                                             *)

Answers(g, ok) ==
    /\ stack = <<>> /\ request[g] = "fetch"
    /\ request' = [request EXCEPT ![g] = IF ok THEN "ok" ELSE "failed"]
    /\ UNCHANGED <<timeout, xhr, signalled, timers, stack, calls, historyVars>>

BodyEnds(g, ok) ==
    /\ stack = <<>> /\ request[g] = "read"
    /\ request' = [request EXCEPT ![g] = IF ok THEN "text" ELSE "failed"]
    /\ UNCHANGED <<timeout, xhr, signalled, timers, stack, calls, historyVars>>

\* A request that is not the last one sent takes the timer of that one.
TakesTimer(g) == xhr.timeoutId # 0 /\ g # xhr.controller

\* Faulty variant: the answer is not dropped when the request was aborted.
RespondedAnyway(g) ==
    /\ stack = <<>> /\ request[g] = "ok"
    /\ xhr' = [xhr EXCEPT !.timeoutId = 0, !.readyState = LOADING]
    /\ timers' = timers \ {xhr.timeoutId}
    /\ request' = [request EXCEPT ![g] = "loading"]
    /\ stack' = Hears(LOADING) \o <<<<"text", g>>>>
    /\ Strays("timer taken", TakesTimer(g))
    /\ UNCHANGED <<timeout, signalled, calls, events>>

\* fetch() has brought a Response.
Responded(g) ==
    /\ stack = <<>> /\ request[g] = "ok"
    /\ IF xhr.aborted
       THEN /\ request' = [request EXCEPT ![g] = "done"]
            /\ UNCHANGED <<xhr, timers, stack, strayed>>
       ELSE /\ xhr' = [xhr EXCEPT !.timeoutId = 0, !.readyState = LOADING]
            /\ timers' = timers \ {xhr.timeoutId}
            /\ request' = [request EXCEPT ![g] = "loading"]
            /\ stack' = Hears(LOADING) \o <<<<"text", g>>>>
            /\ Strays("timer taken", TakesTimer(g))
    /\ UNCHANGED <<timeout, signalled, calls, events>>

\* response.text() and its like.
Text ==
    /\ Doing("text")
    /\ request' = [request EXCEPT ![Head(stack)[2]] = "read"]
    /\ Becomes(<<>>)
    /\ UNCHANGED <<timeout, xhr, signalled, timers, calls, historyVars>>

\* The body is there.
Loaded(g) ==
    /\ stack = <<>> /\ request[g] = "text"
    /\ request' = [request EXCEPT ![g] = "done"]
    /\ xhr' = [xhr EXCEPT !.readyState = DONE]
    /\ stack' = Finishes(IF g = xhr.controller THEN "load" ELSE "late load")
    /\ UNCHANGED <<timeout, signalled, timers, calls, historyVars>>

\* Faulty variant: every error is taken for that of an abort.
FailedQuietly(g) ==
    /\ stack = <<>> /\ request[g] \in {"failed", "aborted"}
    /\ timers' = timers \ {xhr.timeoutId}
    /\ Strays("timer taken", TakesTimer(g))
    /\ xhr' = [xhr EXCEPT !.timeoutId = 0]
    /\ request' = [request EXCEPT ![g] = "done"]
    /\ UNCHANGED <<timeout, signalled, calls, events, stack>>

\* The catch of _sendAsync().
Failed(g) ==
    /\ stack = <<>> /\ request[g] \in {"failed", "aborted"}
    /\ timers' = timers \ {xhr.timeoutId}
    /\ Strays("timer taken", TakesTimer(g))
    /\ IF xhr.aborted \/ request[g] = "aborted"
       THEN xhr' = [xhr EXCEPT !.timeoutId = 0] /\ UNCHANGED stack
       ELSE xhr' = [xhr EXCEPT !.timeoutId = 0, !.readyState = DONE] /\ stack' = Finishes("error")
    /\ request' = [request EXCEPT ![g] = "done"]
    /\ UNCHANGED <<timeout, signalled, calls, events>>

-----------------------------------------------------------------------------
Runs ==
    \/ SendAsync \/ Fetch \/ Arm \/ Dispatch \/ ProgramReturns \/ Text
    \/ \E g \in Numbers : Responded(g) \/ Loaded(g) \/ Failed(g)

Next ==
    \/ Runs \/ Open \/ Send \/ Abort
    \/ \E g \in Numbers : Fires(g) \/ \E ok \in BOOLEAN : Answers(g, ok) \/ BodyEnds(g, ok)

Spec == Init /\ [][Next]_vars

Timers == \E t \in Numbers : Fires(t)
Bodies == \E g \in Numbers, ok \in BOOLEAN : BodyEnds(g, ok)
Headers == ~timeout /\ \E g \in Numbers, ok \in BOOLEAN : Answers(g, ok)

\* What runs goes on, timers fire, bodies end; the host answers where no timeout stands for it.
FairSpec == Spec /\ WF_vars(Runs) /\ WF_vars(Timers) /\ WF_vars(Bodies) /\ WF_vars(Headers)

-----------------------------------------------------------------------------
(* Properties.                                                                *)

\* A request ends once: after 'load', 'error', 'abort' or 'timeout' there is no other such
\* event until open() is called, but for those of abort() itself, and 'load' is that of the
\* request sent last; unless it was aborted while its body was read or its end announced,
\* or open() was called while an answer or an event was still to come.
RequestsEndOnce ==
    /\ TypeOK
    /\ strayed \cap {"aborted too late", "opened too early"} = {} =>
        /\ \A i \in 2 .. Len(events) : events[i - 1] \in Ends => events[i] \in {"open", "abort"}
        /\ ~Contains(events, "late load")

\* What was aborted does not load: "Request completed (should not happen)".
AbortedDoesNotLoad == \A i \in 2 .. Len(events) : events[i - 1] = "abort" => events[i] # "load"

\* A request that was sent ends, by its answer or its timeout, unless it was aborted and sent
\* again before the first one had ended, which takes the timeout away.
RequestsEnd == xhr.sent ~> ~xhr.sent \/ xhr.readyState = DONE \/ "timer taken" \in strayed
=============================================================================
