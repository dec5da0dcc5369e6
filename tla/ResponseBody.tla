----------------------------- MODULE ResponseBody -----------------------------
(* The body of a Response that fetch() has brought, read by text() or by the  *)
(* ReadableStream of `body`, and by those of its clones (builtin/http.js over *)
(* http.rs).  A clone shares the native response and a buffer: whoever reads  *)
(* first takes the response and is to leave what it reads in the buffer.      *)
(* arrayBuffer() is as text().  The bytes come from the host (external).      *)
EXTENDS Naturals, FiniteSets

CONSTANTS
    Responses,      \* the Response and the clones the program may make of it
    MaxChunks       \* the pieces the host delivers

VARIABLES
    bodySource, \* body_source of each: none while it is not made, gone when it was let go
    shared,     \* the SharedResponse: response is Some, borrowed across an await, buffer
    reader,     \* how each is read: by text or a stream, and what it has got
    broken,     \* the host's stream will fail
    trapped,    \* a panic
    overlapped  \* history: a body was read before the reading of another had ended, or one
                \* was let go unread

vars == <<bodySource, shared, reader, broken, trapped, overlapped>>

NotRead == [how |-> "none", at |-> "idle", got |-> 0, left |-> 0]

\* The one fetch() has brought.
First == CHOOSE r \in Responses : TRUE

Init ==
    /\ bodySource = [r \in Responses |-> IF r = First THEN "native" ELSE "none"]
    /\ shared = [response |-> FALSE, borrowed |-> FALSE, buffer |-> 0, finished |-> FALSE]
    /\ reader = [r \in Responses |-> NotRead]
    /\ broken \in BOOLEAN
    /\ trapped = FALSE /\ overlapped = FALSE

TypeOK ==
    /\ bodySource \in [Responses -> {"none", "native", "shared", "consumed", "gone"}]
    /\ shared \in [response : BOOLEAN, borrowed : BOOLEAN, buffer : 0 .. MaxChunks,
                   finished : BOOLEAN]
    /\ reader \in [Responses -> [how : {"none", "text", "native", "sharedNative", "bytes"},
                                 at : {"idle", "waiting", "done", "failed"},
                                 got : 0 .. MaxChunks, left : 0 .. MaxChunks]]
    /\ {broken, trapped, overlapped} \subseteq BOOLEAN

UnderWay(r) == reader[r].how # "none" /\ reader[r].at \in {"idle", "waiting"}
Overlaps(r) == overlapped \/ \E x \in Responses \ {r} : UnderWay(x)

Panics == trapped' = TRUE /\ UNCHANGED <<bodySource, shared, reader, broken>>

-----------------------------------------------------------------------------
\* HttpResponse::clone, for a Response whose body is not used.
Clone(r, c) ==
    /\ ~trapped
    /\ bodySource[r] \in {"native", "shared"} /\ bodySource[c] = "none"
    /\ bodySource' = [bodySource EXCEPT ![r] = "shared", ![c] = "shared"]
    /\ shared' = IF bodySource[r] = "native" THEN [shared EXCEPT !.response = TRUE] ELSE shared
    /\ UNCHANGED <<reader, broken, trapped, overlapped>>

\* The program lets go of one it has not read.
LetGo(r) ==
    /\ ~trapped
    /\ bodySource[r] = "shared"
    /\ bodySource' = [bodySource EXCEPT ![r] = "gone"]
    /\ overlapped' = TRUE
    /\ UNCHANGED <<shared, reader, broken, trapped>>

\* Faulty variant: text() leaves the bytes it reads to itself.
TextKeepsNothing(r) ==
    /\ ~trapped
    /\ reader[r].how = "text" /\ reader[r].at = "waiting"
    /\ reader' = [reader EXCEPT ![r] = IF broken THEN [@ EXCEPT !.at = "failed"]
            ELSE [@ EXCEPT !.at = "done", !.got = MaxChunks]]
    /\ shared' = [shared EXCEPT !.borrowed = FALSE]
    /\ UNCHANGED <<bodySource, broken, trapped, overlapped>>

\* text(): whoever finds the response reads it, the others get what the buffer holds.
Text(r) ==
    /\ ~trapped
    /\ bodySource[r] \in {"native", "shared"} /\ reader[r].how = "none"
    /\ overlapped' = Overlaps(r)
    /\ IF bodySource[r] = "shared" /\ shared.borrowed
       THEN Panics
       ELSE /\ bodySource' = [bodySource EXCEPT ![r] = "consumed"]
            /\ IF bodySource[r] = "native" \/ shared.response
               THEN /\ reader' = [reader EXCEPT ![r].how = "text", ![r].at = "waiting"]
                    /\ shared' = [shared EXCEPT !.response = FALSE,
                                                !.borrowed = bodySource[r] = "shared"]
               ELSE /\ reader' = [reader EXCEPT ![r] = [@ EXCEPT !.how = "text", !.at = "done",
                                                                 !.got = shared.buffer]]
                    /\ UNCHANGED shared
            /\ UNCHANGED <<broken, trapped>>

\* The host has delivered all, or its stream has failed.
TextAnswers(r) ==
    /\ ~trapped
    /\ reader[r].how = "text" /\ reader[r].at = "waiting"
    /\ reader' = [reader EXCEPT ![r] = IF broken THEN [@ EXCEPT !.at = "failed"]
            ELSE [@ EXCEPT !.at = "done", !.got = MaxChunks]]
    /\ shared' = IF ~shared.borrowed THEN shared
                 ELSE [shared EXCEPT !.borrowed = FALSE,
                                     !.buffer = IF broken THEN @ ELSE MaxChunks,
                                     !.finished = ~broken]
    /\ UNCHANGED <<bodySource, broken, trapped, overlapped>>

-----------------------------------------------------------------------------
(* pull() of the ReadableStream, which makes the native stream when it is     *)
(* first called; one pull() at a time.                                        *)

\* HttpResponse::stream.
NativeStream(r) ==
    CASE bodySource[r] = "native" -> "native"
      [] bodySource[r] = "shared" /\ shared.response -> "sharedNative"
      [] OTHER -> "bytes"

\* Reading on needs the SharedResponse, which nobody may have borrowed or all have dropped.
Unreachable(r, how) ==
    how = "sharedNative" /\ (shared.borrowed \/ ~\E x \in Responses \ {r} : bodySource[x] = "shared")

\* What a pull() does with the reader k before it awaits.
Pulled(k) ==
    CASE k.how = "bytes" /\ k.left > 0 -> [k EXCEPT !.got = @ + 1, !.left = @ - 1]
      [] k.how = "bytes" /\ k.left = 0 -> [k EXCEPT !.at = "done"]
      [] k.how = "sharedNative" /\ shared.finished -> [k EXCEPT !.at = "done"]
      [] OTHER -> [k EXCEPT !.at = "waiting"]

FirstPull(r) ==
    /\ ~trapped
    /\ bodySource[r] \in {"native", "shared"} /\ reader[r].how = "none"
    /\ overlapped' = Overlaps(r)
    /\ LET how == NativeStream(r) IN
       IF (bodySource[r] = "shared" /\ shared.borrowed) \/ Unreachable(r, how)
       THEN Panics
       ELSE /\ bodySource' = [bodySource EXCEPT ![r] = "consumed"]
            /\ reader' = [reader EXCEPT ![r] =
                    Pulled([@ EXCEPT !.how = how, !.left = IF how = "bytes" THEN shared.buffer ELSE 0])]
            /\ shared' = [shared EXCEPT !.response = @ /\ how # "sharedNative",
                                        !.borrowed = how = "sharedNative"]
            /\ UNCHANGED <<broken, trapped>>

Pull(r) ==
    /\ ~trapped
    /\ reader[r].how \in {"native", "sharedNative", "bytes"} /\ reader[r].at = "idle"
    /\ IF Unreachable(r, reader[r].how)
       THEN Panics /\ UNCHANGED overlapped
       ELSE /\ reader' = [reader EXCEPT ![r] = Pulled(@)]
            /\ shared' = [shared EXCEPT
                    !.borrowed = @ \/ (reader[r].how = "sharedNative" /\ ~shared.finished)]
            /\ UNCHANGED <<bodySource, broken, trapped, overlapped>>

\* Faulty variant: what is read from the shared stream is not buffered.
PullAnswersUnbuffered(r) ==
    LET k == reader[r] IN
    /\ ~trapped
    /\ k.how \in {"native", "sharedNative"} /\ k.at = "waiting"
    /\ \/ k.got < MaxChunks /\ reader' = [reader EXCEPT ![r] = [k EXCEPT !.at = "idle", !.got = @ + 1]]
       \/ k.got = MaxChunks /\ ~broken /\ reader' = [reader EXCEPT ![r].at = "done"]
       \/ broken /\ reader' = [reader EXCEPT ![r].at = "failed"]
    /\ shared' = IF k.how = "native" THEN shared
                 ELSE [shared EXCEPT !.borrowed = FALSE, !.finished = reader'[r].at = "done"]
    /\ UNCHANGED <<bodySource, broken, trapped, overlapped>>

\* The host has a piece, the end or a failure.
PullAnswers(r) ==
    LET k == reader[r] IN
    /\ ~trapped
    /\ k.how \in {"native", "sharedNative"} /\ k.at = "waiting"
    /\ \/ k.got < MaxChunks /\ reader' = [reader EXCEPT ![r] = [k EXCEPT !.at = "idle", !.got = @ + 1]]
       \/ k.got = MaxChunks /\ ~broken /\ reader' = [reader EXCEPT ![r].at = "done"]
       \/ broken /\ reader' = [reader EXCEPT ![r].at = "failed"]
    /\ shared' = IF k.how = "native" THEN shared
                 ELSE [shared EXCEPT !.borrowed = FALSE, !.buffer = reader'[r].got,
                                     !.finished = reader'[r].at = "done"]
    /\ UNCHANGED <<bodySource, broken, trapped, overlapped>>

Host == \E r \in Responses : PullAnswers(r) \/ TextAnswers(r)

Next ==
    \/ Host
    \/ \E r \in Responses :
        LetGo(r) \/ Text(r) \/ FirstPull(r) \/ Pull(r) \/ \E c \in Responses : Clone(r, c)

Spec == Init /\ [][Next]_vars

-----------------------------------------------------------------------------
(* Properties.                                                                *)

Ended(r) == reader[r].how # "none" /\ reader[r].at = "done"

\* A program that keeps a Response and its clones until it has read them, one after the
\* other, each to its end, gets the whole body from each, however it reads them, unless the
\* host's stream fails; and it meets no panic.
BodiesAreWhole ==
    /\ TypeOK
    /\ ~overlapped => ~trapped
    /\ ~overlapped /\ ~broken => \A r \in Responses : Ended(r) => reader[r].got = MaxChunks

\* "Original response body can still be read": a body that is read to its end is whole,
\* whatever was read of its clones meanwhile.
ClonesAreWhole == ~broken => \A r \in Responses : Ended(r) => reader[r].got = MaxChunks
=============================================================================
