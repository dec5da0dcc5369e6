------------------------------- MODULE Readable -------------------------------
(* A Readable stream of objects (internal/streams/readable.js): the program    *)
(* that listens to it, pauses, resumes, pipes and destroys it, and the _read    *)
(* under it that pushes chunks, at once or later, and the end.  A 'readable'    *)
(* listener reads until read() returns null; a 'data' listener takes what is    *)
(* emitted; the destination of a pipe takes it too, and may ask to wait.        *)
EXTENDS CallStack, Integers, SequencesExt

CONSTANTS
    HighWaterMarks,     \* the values of highWaterMark a stream is made with
    MaxChunks,          \* bound: chunks the implementation pushes before the end
    MaxCalls            \* bound: calls of the program

VARIABLES
    highWaterMark,  \* of this stream
    r,          \* its ReadableState
    listens,    \* listeners of 'data' ("data", and "pipe" for that of pipe()) and 'readable'
    pipe,       \* the pipe: awaitDrainWriters, whether it has made its ondrain and listens
                \* with it, and the needDrain of its destination
    result,     \* what the last read() returned, None for null
    owed,       \* _read was called and has not pushed since
    pushed,     \* what the implementation has pushed: chunks, then End
    asked,      \* calls of the program so far
    got,        \* history: chunks emitted with 'data', in order
    dest,       \* history: what the destination got, End for its end()
    events      \* history: 'end', 'error' and 'close', in order

vars == <<highWaterMark, r, listens, pipe, stack, ticks, result, owed, pushed, asked, got, dest,
          events>>
pipeVars == <<pipe, dest>>
otherVars == <<highWaterMark, listens, owed, pushed, asked, dest>>
programVars == <<otherVars, pipe>>

None == 0
End == MaxChunks + 1
Chunks == 1 .. MaxChunks

ReadableState ==
    [flowing |-> "null", paused |-> "null", buffer |-> <<>>, ended |-> FALSE,
     endEmitted |-> FALSE, reading |-> FALSE, sync |-> TRUE, needReadable |-> FALSE,
     emittedReadable |-> FALSE, readableListening |-> FALSE, resumeScheduled |-> FALSE,
     readingMore |-> FALSE, destroyed |-> FALSE, errored |-> FALSE, errorEmitted |-> FALSE,
     closeEmitted |-> FALSE]

Init ==
    /\ highWaterMark \in HighWaterMarks
    /\ r = ReadableState
    /\ listens = {}
    /\ pipe = [awaits |-> FALSE, ondrain |-> FALSE, hears |-> FALSE, needDrain |-> FALSE] /\ dest = <<>>
    /\ stack = <<<<"program">>>> /\ ticks = <<>>
    /\ result = None /\ owed = FALSE /\ pushed = <<>> /\ asked = 0
    /\ got = <<>> /\ events = <<>>

Length == Len(r.buffer)
Flows == r.flowing = "true"

Emits(event) == events' = Append(events, event)

DataListeners == listens \ {"readable"}

\* A chunk leaves the stream: awaitDrainWriters is forgotten, and 'data' is emitted.
LeavesStream(c) ==
    /\ got' = Append(got, c)
    /\ pipe' = [pipe EXCEPT !.awaits = FALSE]

\* The listeners of 'data' with this chunk.
EmitsData(c) ==
    (IF "data" \in listens THEN <<<<"program">>>> ELSE <<>>)
    \o (IF "pipe" \in listens THEN <<<<"write", c>>>> ELSE <<>>)

-----------------------------------------------------------------------------
(* Functions that end without calling back: the fields they change, k being   *)
(* the state so far, and what they pass to nextTick.                          *)

\* emitReadable(), called after the fields of k were set.
EmitsReadable(k) ==
    /\ r' = [k EXCEPT !.needReadable = FALSE, !.emittedReadable = TRUE]
    /\ ticks' = IF k.emittedReadable THEN ticks ELSE Append(ticks, <<"emitReadable_">>)

EndsReadable(k) ==
    IF k.endEmitted THEN r' = k /\ UNCHANGED ticks
    ELSE r' = [k EXCEPT !.ended = TRUE] /\ ticks' = Append(ticks, <<"endReadableNT">>)

\* resume().
Resumes(k) ==
    IF k.flowing = "true" THEN r' = [k EXCEPT !.paused = "false"] /\ UNCHANGED ticks
    ELSE /\ r' = [k EXCEPT !.flowing = IF k.readableListening THEN "false" ELSE "true",
                           !.paused = "false", !.resumeScheduled = TRUE]
         /\ ticks' = IF k.resumeScheduled THEN ticks ELSE Append(ticks, <<"resume_">>)

MaybeReadMore ==
    /\ r' = [r EXCEPT !.readingMore = TRUE]
    /\ ticks' = IF r.readingMore THEN ticks ELSE Append(ticks, <<"maybeReadMore_">>)

-----------------------------------------------------------------------------
(* What the program calls.                                                   *)

CanCall == InProgram /\ asked < MaxCalls
Called == asked' = asked + 1 /\ UNCHANGED <<highWaterMark, owed, pushed, result, got, dest, events>>

\* on("data", ...), of the program and of pipe().
Listens(to) ==
    /\ to \notin listens
    /\ listens' = listens \cup {to}
    /\ LET k == [r EXCEPT !.readableListening = "readable" \in listens] IN
       IF r.flowing = "false" THEN r' = k /\ UNCHANGED ticks ELSE Resumes(k)

OnData ==
    /\ CanCall /\ Called
    /\ Listens("data")
    /\ Calls(<<>>)
    /\ UNCHANGED pipe

\* pipe(), once, of a stream that has not ended.
Pipe ==
    /\ CanCall /\ Called
    /\ dest = <<>> /\ ~pipe.ondrain /\ ~r.endEmitted
    /\ Listens("pipe")
    /\ Calls(<<<<"pipe resumes">>>>)
    /\ UNCHANGED pipe

\* unpipe(), of the program, or after 'close', 'finish' or 'error' of the destination.
Unpipe ==
    /\ CanCall /\ Called
    /\ "pipe" \in listens
    /\ Calls(<<<<"unpipe">>>>)
    /\ UNCHANGED <<r, listens, pipe, ticks>>

OnReadable ==
    /\ CanCall /\ Called /\ "readable" \notin listens
    /\ listens' = listens \cup {"readable"}
    /\ LET k == [r EXCEPT !.readableListening = TRUE, !.needReadable = TRUE,
                          !.flowing = "false", !.emittedReadable = FALSE]
       IN IF r.endEmitted \/ r.readableListening THEN UNCHANGED <<r, ticks>>
          ELSE IF Length > 0 THEN EmitsReadable(k)
          ELSE /\ r' = k
               /\ ticks' = IF r.reading THEN ticks ELSE Append(ticks, <<"read", 0>>)
    /\ Calls(<<>>)
    /\ UNCHANGED pipe

OffReadable ==
    /\ CanCall /\ Called /\ "readable" \in listens
    /\ listens' = listens \ {"readable"}
    /\ ticks' = Append(ticks, <<"updateReadableListening">>)
    /\ Calls(<<>>)
    /\ UNCHANGED <<r, pipe>>

Pause ==
    /\ CanCall /\ Called
    /\ r' = [r EXCEPT !.flowing = "false", !.paused = "true"]
    /\ Calls(<<>>)
    /\ UNCHANGED <<listens, pipe, ticks>>

Resume ==
    /\ CanCall /\ Called
    /\ Resumes(r)
    /\ Calls(<<>>)
    /\ UNCHANGED <<listens, pipe>>

Destroy(err) ==
    /\ CanCall \/ (Doing({"_read"}) /\ asked < MaxCalls)
    /\ Called
    /\ Calls(<<<<"destroy", err>>>>)
    /\ UNCHANGED <<r, listens, pipe, ticks>>

\* A listener, a turn of the program or _read returns.
Returns ==
    /\ Doing({"program", "_read"})
    /\ Becomes(<<>>)
    /\ UNCHANGED <<r, ticks, result, got, events, programVars>>

Tick == RunsTick /\ UNCHANGED <<r, result, got, events, programVars>>

\* The implementation pushes its next chunk, or the end, inside _read or in a turn of its own.
Push ==
    /\ Doing({"_read"}) \/ (AtRest /\ owed)
    /\ Len(pushed) < End
    /\ owed' = FALSE
    /\ pushed' = Append(pushed, Len(pushed) + 1)
    /\ Calls(<<<<"push", Len(pushed) + 1>>>>)
    /\ UNCHANGED <<highWaterMark, r, listens, ticks, result, asked, got, events, pipeVars>>

-----------------------------------------------------------------------------
(* push(): readableAddChunk, addChunk and onEofChunk.                        *)

\* Faulty variant: whatever is pushed while the stream flows is emitted.
EmitsWhileFlowing == Flows /\ DataListeners # {}

\* A pushed chunk goes to the 'data' listeners and not to the buffer.
EmitsAtOnce == Flows /\ Length = 0 /\ ~r.sync /\ DataListeners # {}

DoPushChunk ==
    /\ Doing({"push"}) /\ Head(stack)[2] # End
    /\ LET c == Head(stack)[2]
           k == [r EXCEPT !.reading = FALSE]
       IN IF r.destroyed \/ r.errored
          THEN Becomes(<<>>) /\ UNCHANGED <<r, ticks, got, pipe>>
          ELSE IF EmitsAtOnce
          THEN /\ r' = k
               /\ LeavesStream(c)
               /\ Becomes(EmitsData(c) \o <<<<"maybeReadMore">>>>)
               /\ UNCHANGED ticks
          ELSE /\ LET more == [k EXCEPT !.buffer = Append(@, c)] IN
                  IF r.needReadable THEN EmitsReadable(more) ELSE r' = more /\ UNCHANGED ticks
               /\ Becomes(<<<<"maybeReadMore">>>>)
               /\ UNCHANGED <<got, pipe>>
    /\ UNCHANGED <<result, events, otherVars>>

DoMaybeReadMore ==
    /\ Doing({"maybeReadMore"})
    /\ MaybeReadMore
    /\ Becomes(<<>>)
    /\ UNCHANGED <<result, got, events, programVars>>

DoPushEnd ==
    /\ Doing({"push"}) /\ Head(stack)[2] = End
    /\ LET k == [r EXCEPT !.reading = FALSE, !.ended = TRUE] IN
       IF r.ended THEN r' = [r EXCEPT !.reading = FALSE] /\ Becomes(<<>>) /\ UNCHANGED ticks
       ELSE IF r.sync THEN EmitsReadable(k) /\ Becomes(<<>>)
       ELSE /\ r' = [k EXCEPT !.needReadable = FALSE, !.emittedReadable = TRUE]
            /\ Becomes(<<<<"emitReadable_">>>>)
            /\ UNCHANGED ticks
    /\ UNCHANGED <<result, got, events, programVars>>

-----------------------------------------------------------------------------
(* read(): of one object, or read(0).                                        *)

HowMuchToRead(n, k) == IF n = 0 \/ (k.buffer = <<>> /\ k.ended) THEN 0 ELSE 1

\* read(), up to the call of _read.
Read ==
    /\ Doing({"read"})
    /\ LET n == Head(stack)[2]
           k == [r EXCEPT !.emittedReadable = @ /\ n = 0]
           m == HowMuchToRead(n, r)
           enough == IF highWaterMark = 0 THEN Length > 0 ELSE Length >= highWaterMark
           doRead == r.needReadable \/ Length = 0 \/ Length - m < highWaterMark
       IN
       IF n = 0 /\ r.needReadable /\ (enough \/ r.ended)
       THEN /\ IF Length = 0 /\ r.ended THEN EndsReadable(k) ELSE EmitsReadable(k)
            /\ result' = None /\ Becomes(<<>>) /\ UNCHANGED owed
       ELSE IF m = 0 /\ r.ended
       THEN /\ IF Length = 0 THEN EndsReadable(k) ELSE r' = k /\ UNCHANGED ticks
            /\ result' = None /\ Becomes(<<>>) /\ UNCHANGED owed
       ELSE IF doRead /\ ~(r.ended \/ r.reading \/ r.destroyed \/ r.errored)
       THEN /\ r' = [k EXCEPT !.reading = TRUE, !.sync = TRUE,
                              !.needReadable = @ \/ Length = 0]
            /\ owed' = TRUE
            /\ Becomes(<<<<"_read">>, <<"syncOff">>, <<"take", n>>>>)
            /\ UNCHANGED <<ticks, result>>
       ELSE r' = k /\ Becomes(<<<<"take", n>>>>) /\ UNCHANGED <<ticks, result, owed>>
    /\ UNCHANGED <<highWaterMark, listens, pushed, asked, got, events, pipeVars>>

SyncOff ==
    /\ Doing({"syncOff"})
    /\ r' = [r EXCEPT !.sync = FALSE]
    /\ Becomes(<<>>)
    /\ UNCHANGED <<ticks, result, got, events, programVars>>

\* The rest of read(): a chunk leaves the buffer and is emitted, or there is none.
Take ==
    /\ Doing({"take"})
    /\ LET n == Head(stack)[2]
           m == HowMuchToRead(n, r)
       IN
       IF m > 0 /\ Length > 0
       THEN LET c == Head(r.buffer)
                k == [r EXCEPT !.buffer = Tail(@),
                               !.needReadable = @ \/ (Length = 1 /\ ~r.ended)]
            IN /\ IF Length = 1 /\ r.ended THEN EndsReadable(k)
                  ELSE r' = k /\ UNCHANGED ticks
               /\ LeavesStream(c)
               /\ Becomes(EmitsData(c) \o <<<<"return", c>>>>)
       ELSE LET k == [r EXCEPT !.needReadable = (Length <= highWaterMark)
                                                \/ (Length = 0 /\ ~r.ended)]
            IN /\ IF Length = 0 /\ r.ended /\ n # 0 THEN EndsReadable(k)
                  ELSE r' = k /\ UNCHANGED ticks
               /\ Becomes(<<<<"return", None>>>>)
               /\ UNCHANGED <<got, pipe>>
    /\ UNCHANGED <<result, events, otherVars>>

Return ==
    /\ Doing({"return"})
    /\ result' = Head(stack)[2]
    /\ Becomes(<<>>)
    /\ UNCHANGED <<r, ticks, got, events, programVars>>

-----------------------------------------------------------------------------
(* What the ticks and the loops do.                                          *)

\* emitReadable_; the listener of 'readable' reads until nothing is left.
EmitReadable ==
    /\ Doing({"emitReadable_"})
    /\ IF ~r.destroyed /\ ~r.errored /\ (Length > 0 \/ r.ended)
       THEN Becomes((IF "readable" \in listens THEN <<<<"reads">>, <<"program">>>> ELSE <<>>)
                    \o <<<<"emitted">>, <<"afterReadable">>>>)
       ELSE Becomes(<<<<"afterReadable">>>>)
    /\ UNCHANGED <<r, ticks, result, got, events, programVars>>

Emitted ==
    /\ Doing({"emitted"})
    /\ r' = [r EXCEPT !.emittedReadable = FALSE]
    /\ Becomes(<<>>)
    /\ UNCHANGED <<ticks, result, got, events, programVars>>

AfterReadable ==
    /\ Doing({"afterReadable"})
    /\ r' = [r EXCEPT !.needReadable = ~Flows /\ ~r.ended /\ Length <= highWaterMark]
    /\ Becomes(<<<<"flow">>>>)
    /\ UNCHANGED <<ticks, result, got, events, programVars>>

\* flow() while the stream flows, and the loop of the listener of 'readable'.
Flow ==
    /\ Doing({"flow", "reads"})
    /\ IF Head(stack)[1] = "reads" \/ Flows
       THEN Becomes(<<<<"read", 1>>, <<"again", Head(stack)[1]>>>>)
       ELSE Becomes(<<>>)
    /\ UNCHANGED <<r, ticks, result, got, events, programVars>>

Again ==
    /\ Doing({"again"})
    /\ Becomes(IF result = None THEN <<>> ELSE <<<<Head(stack)[2]>>>>)
    /\ UNCHANGED <<r, ticks, result, got, events, programVars>>

\* maybeReadMore_: read(0) as long as it brings something.
ReadMore ==
    /\ Doing({"maybeReadMore_"})
    /\ IF ~r.reading /\ ~r.ended /\ (Length < highWaterMark \/ (Flows /\ Length = 0))
       THEN Becomes(<<<<"read", 0>>, <<"read more", Length>>>>) /\ UNCHANGED r
       ELSE Becomes(<<>>) /\ r' = [r EXCEPT !.readingMore = FALSE]
    /\ UNCHANGED <<ticks, result, got, events, programVars>>

ReadMoreAgain ==
    /\ Doing({"read more"})
    /\ IF Head(stack)[2] = Length
       THEN Becomes(<<>>) /\ r' = [r EXCEPT !.readingMore = FALSE]
       ELSE Becomes(<<<<"maybeReadMore_">>>>) /\ UNCHANGED r
    /\ UNCHANGED <<ticks, result, got, events, programVars>>

\* resume_: read(0), flow(), and read(0) again if that is not enough.
ResumeTick ==
    /\ Doing({"resume_"})
    /\ Becomes((IF r.reading THEN <<>> ELSE <<<<"read", 0>>>>) \o <<<<"resumed">>>>)
    /\ UNCHANGED <<r, ticks, result, got, events, programVars>>

Resumed ==
    /\ Doing({"resumed"})
    /\ r' = [r EXCEPT !.resumeScheduled = FALSE]
    /\ Becomes(<<<<"flow">>, <<"read on">>>>)
    /\ UNCHANGED <<ticks, result, got, events, programVars>>

ReadOn ==
    /\ Doing({"read on"})
    /\ Becomes(IF Flows /\ ~r.reading THEN <<<<"read", 0>>>> ELSE <<>>)
    /\ UNCHANGED <<r, ticks, result, got, events, programVars>>

UpdateReadableListening ==
    /\ Doing({"updateReadableListening"})
    /\ LET k == [r EXCEPT !.readableListening = "readable" \in listens] IN
       IF r.resumeScheduled /\ r.paused = "false"
       THEN r' = [k EXCEPT !.flowing = "true"] /\ UNCHANGED ticks
       ELSE IF DataListeners # {} THEN Resumes(k)
       ELSE /\ r' = [k EXCEPT !.flowing = IF k.readableListening THEN @ ELSE "null"]
            /\ UNCHANGED ticks
    /\ Becomes(<<>>)
    /\ UNCHANGED <<result, got, events, programVars>>

EndReadable ==
    /\ Doing({"endReadableNT"})
    /\ IF ~r.errorEmitted /\ ~r.closeEmitted /\ ~r.endEmitted /\ Length = 0
       THEN /\ r' = [r EXCEPT !.endEmitted = TRUE]
            /\ Emits("end")
            /\ dest' = IF "pipe" \in listens THEN Append(dest, End) ELSE dest
            /\ Becomes(<<<<"program">>, <<"destroy", FALSE>>>>)
       ELSE Becomes(<<>>) /\ UNCHANGED <<r, events, dest>>
    /\ UNCHANGED <<highWaterMark, listens, owed, pushed, asked, pipe, ticks, result, got>>

\* destroy(err), the _destroy of a Readable, and the tick that emits 'close'.
DoDestroy ==
    /\ Doing({"destroy"})
    /\ LET err == Head(stack)[2] IN
       IF r.destroyed THEN UNCHANGED <<r, ticks>>
       ELSE /\ r' = [r EXCEPT !.destroyed = TRUE, !.errored = @ \/ err]
            /\ ticks' = Append(ticks, IF err THEN <<"emitErrorClose">> ELSE <<"emitClose">>)
    /\ Becomes(<<>>)
    /\ UNCHANGED <<result, got, events, programVars>>

\* Without a listener, or with one that throws, the emit throws, and 'close' is left out.
EmitError ==
    /\ Doing({"emitErrorClose"})
    /\ r' = [r EXCEPT !.errorEmitted = TRUE]
    /\ Emits("error")
    /\ Becomes(<<<<"program">>, <<"emitClose">>>>) \/ Becomes(<<<<"program">>>>)
    /\ UNCHANGED <<ticks, result, got, programVars>>

EmitClose ==
    /\ Doing({"emitClose"})
    /\ r' = [r EXCEPT !.closeEmitted = TRUE]
    /\ Emits("close")
    /\ Becomes(<<<<"program">>>>)
    /\ UNCHANGED <<ticks, result, got, programVars>>

-----------------------------------------------------------------------------
(* pipe() and its listeners.                                                 *)

PipeResumes ==
    /\ Doing({"pipe resumes"})
    /\ IF Flows THEN UNCHANGED <<r, ticks>> ELSE Resumes(r)
    /\ Becomes(<<>>)
    /\ UNCHANGED <<result, got, events, programVars>>

\* ondata: the destination takes the chunk; meanwhile the program may unpipe it.  A
\* listener removed while 'data' is emitted is called all the same.
WriteData ==
    /\ Doing({"write"})
    /\ dest' = Append(dest, Head(stack)[2])
    /\ \E full \in BOOLEAN :
        /\ pipe' = [pipe EXCEPT !.needDrain = @ \/ full]
        /\ Becomes(<<<<"program">>>> \o IF full THEN <<<<"full">>>> ELSE <<>>)
    /\ UNCHANGED <<highWaterMark, r, listens, owed, pushed, asked, ticks, result, got, events>>

\* pause() of the pipe, when write() has returned false.
Full ==
    /\ Doing({"full"})
    /\ pipe' = [pipe EXCEPT !.awaits = @ \/ "pipe" \in listens, !.ondrain = TRUE,
                            !.hears = @ \/ ~pipe.ondrain]
    /\ r' = IF "pipe" \in listens THEN [r EXCEPT !.flowing = "false", !.paused = "true"] ELSE r
    /\ Becomes(<<>>)
    /\ UNCHANGED <<highWaterMark, listens, owed, pushed, asked, dest, ticks, result, got, events>>

\* The destination emits 'drain'.
Drain ==
    /\ AtRest /\ pipe.needDrain
    /\ pipe' = [pipe EXCEPT !.needDrain = FALSE]
    /\ Calls(IF pipe.hears THEN <<<<"ondrain">>>> ELSE <<>>)
    /\ UNCHANGED <<highWaterMark, r, listens, owed, pushed, asked, dest, ticks, result, got, events>>

\* pipeOnDrain: the stream flows again.
OnDrain ==
    /\ Doing({"ondrain"})
    /\ pipe' = [pipe EXCEPT !.awaits = FALSE]
    /\ IF DataListeners # {}
       THEN r' = [r EXCEPT !.flowing = "true"] /\ Becomes(<<<<"flow">>>>)
       ELSE Becomes(<<>>) /\ UNCHANGED r
    /\ UNCHANGED <<highWaterMark, listens, owed, pushed, asked, dest, ticks, result, got, events>>

\* Faulty variant: unpipe() leaves awaitDrainWriters as it is.
DoUnpipeOnly ==
    /\ Doing({"unpipe"})
    /\ IF "pipe" \in listens
       THEN /\ listens' = listens \ {"pipe"}
            /\ r' = [r EXCEPT !.flowing = "false", !.paused = "true"]
            /\ pipe' = [pipe EXCEPT !.hears = FALSE]
            /\ Becomes(<<>>)
       ELSE Becomes(<<>>) /\ UNCHANGED <<r, listens, pipe>>
    /\ UNCHANGED <<highWaterMark, owed, pushed, asked, ticks, result, got, events, dest>>

\* unpipe(): the stream pauses, and the listeners of the pipe go.
DoUnpipe ==
    /\ Doing({"unpipe"})
    /\ IF "pipe" \in listens
       THEN /\ listens' = listens \ {"pipe"}
            /\ r' = [r EXCEPT !.flowing = "false", !.paused = "true"]
            /\ pipe' = [pipe EXCEPT !.hears = FALSE]
            /\ Becomes(IF pipe.ondrain /\ pipe.awaits /\ pipe.needDrain
                       THEN <<<<"ondrain">>>> ELSE <<>>)
       ELSE Becomes(<<>>) /\ UNCHANGED <<r, listens, pipe>>
    /\ UNCHANGED <<highWaterMark, owed, pushed, asked, ticks, result, got, events, dest>>

-----------------------------------------------------------------------------
ProgramCalls ==
    \/ OnData \/ OnReadable \/ OffReadable \/ Pause \/ Resume \/ Pipe \/ Unpipe
    \/ \E err \in BOOLEAN : Destroy(err)

Functions ==
    \/ DoPushChunk \/ DoMaybeReadMore \/ DoPushEnd \/ Read \/ SyncOff \/ Take \/ Return
    \/ EmitReadable \/ Emitted \/ AfterReadable \/ Flow \/ Again \/ ReadMore \/ ReadMoreAgain
    \/ ResumeTick \/ Resumed \/ ReadOn \/ UpdateReadableListening \/ EndReadable
    \/ DoDestroy \/ EmitError \/ EmitClose \/ PipeResumes \/ WriteData \/ Full \/ OnDrain
    \/ DoUnpipe

Next == ProgramCalls \/ Functions \/ Push \/ Drain \/ Returns \/ Tick

\* What runs goes on.
Runs == Functions \/ Returns \/ Tick

Spec == Init /\ [][Next]_vars

\* What runs goes on, the implementation pushes what it was asked for, and the
\* destination of a pipe drains.
FairSpec == Spec /\ WF_vars(Runs) /\ WF_vars(Push) /\ WF_vars(Drain)

-----------------------------------------------------------------------------
(* Properties.                                                               *)

TypeOK ==
    /\ highWaterMark \in HighWaterMarks /\ listens \subseteq {"data", "pipe", "readable"}
    /\ r.flowing \in {"null", "true", "false"} /\ r.paused \in {"null", "true", "false"}
    /\ ToSet(r.buffer) \subseteq Chunks
    /\ result \in Chunks \cup {None} /\ owed \in BOOLEAN /\ asked \in 0 .. MaxCalls

\* The destination of a pipe gets the chunks in order, each once, and its end() last, when
\* it has got everything that was emitted since the pipe began.
PipeInOrder ==
    /\ \A m, n \in 1 .. Len(dest) : m < n => dest[m] < dest[n]
    /\ dest # <<>> /\ Last(dest) = End =>
        Front(dest) = SubSeq(got, Len(got) - Len(dest) + 2, Len(got))

Order == [c \in Chunks |-> c]
BeingPushed == \E n \in 1 .. Len(stack) : stack[n][1] = "push" /\ stack[n][2] # End

\* Chunks leave the stream, and reach the destination of a pipe, in the order they were
\* pushed, each once and none left out; 'end' comes once, when all of them and the end
\* itself were pushed and have left; each event comes once, and 'close' last.
ChunksInOrder ==
    /\ TypeOK
    /\ IsPrefix(got, Order)
    /\ ~r.destroyed =>
        Len(got) + Length + (IF BeingPushed THEN 1 ELSE 0)
            = IF Len(pushed) = End THEN MaxChunks ELSE Len(pushed)
    /\ ~r.destroyed => IsPrefix(got \o r.buffer, Order)
    /\ IsInjective(events)
    /\ "end" \in ToSet(events) => Len(got) = MaxChunks /\ Len(pushed) = End
    /\ "close" \in ToSet(events) => Last(events) = "close"
    /\ PipeInOrder

\* A stream somebody listens to comes to its 'end', unless it is paused and no 'drain' is
\* to come, or destroyed, or the listener goes.
Wanted == listens # {} /\ (r.paused # "true" \/ Flows \/ pipe.awaits)
FlowsToTheEnd == Wanted ~> r.endEmitted \/ r.destroyed \/ ~Wanted
=============================================================================
