------------------------------- MODULE Writable -------------------------------
(* A Writable stream (internal/streams/writable.js and destroy.js), the        *)
(* program that writes to it and the implementation under it: _write, _writev, *)
(* _final, _destroy and _construct.  Each step is a piece of a function that   *)
(* runs without a callback.                                                    *)
EXTENDS CallStack, Integers, SequencesExt

CONSTANTS
    Options,            \* how the stream was made: a set of the records of Option
    MaxWrites,          \* bound: calls of write(), end() with a chunk included
    MaxCalls,           \* bound: calls of cork(), end() and destroy()
    MaxAsked            \* bound: calls of all of these

VARIABLES
    options,    \* the options of this stream
    w,          \* its WritableState
    owed,       \* the methods of the implementation that have not called back
    asked,      \* calls of write(), and of the others, so far
    accepted,   \* history: chunks write() took, in order
    written,    \* history: chunks given to _write or _writev, in order
    answered,   \* history: callbacks of write(), each with whether it got an error
    events,     \* history: the events emitted
    strayed     \* history: what happened that the stream does not guard against

vars == <<options, w, stack, ticks, owed, asked, accepted, written, answered, events, strayed>>
historyVars == <<asked, accepted, written, answered, events, strayed>>

Option == [highWaterMark : Nat, writev : BOOLEAN, final : BOOLEAN, autoDestroy : BOOLEAN,
           construct : BOOLEAN]

Methods == {"write", "final", "destroy", "construct"}
Chunks == 1 .. MaxWrites

WritableState ==
    [needDrain |-> FALSE, ending |-> FALSE, ended |-> FALSE, finished |-> FALSE,
     finalCalled |-> FALSE, prefinished |-> FALSE, destroyed |-> FALSE, destroyError |-> FALSE,
     errored |-> FALSE, errorEmitted |-> FALSE, closed |-> FALSE, closeEmitted |-> FALSE,
     constructed |-> TRUE, length |-> 0, writing |-> FALSE, corked |-> 0, sync |-> TRUE,
     bufferProcessing |-> FALSE, writecb |-> <<>>, buffered |-> <<>>, pendingcb |-> 0,
     onFinished |-> 0]

Init ==
    /\ options \in Options
    /\ w = [WritableState EXCEPT !.constructed = ~options.construct]
    /\ stack = <<<<"program">>>>
    /\ ticks = IF options.construct THEN <<<<"constructNT">>>> ELSE <<>>
    /\ owed = {} /\ asked = [write |-> 0, other |-> 0]
    /\ accepted = <<>> /\ written = <<>> /\ answered = <<>> /\ events = <<>>
    /\ strayed = {}

-----------------------------------------------------------------------------
(* Where things stand.                                                       *)

InImplementation == Doing({"method"})

Emits(event) == events' = Append(events, event)

OnFinishedCallbacks == [i \in 1 .. w.onFinished |-> <<"program">>]

-----------------------------------------------------------------------------
(* The functions, as the steps they begin with.                              *)

CallDoWrite(ids) == <<<<"doWrite", ids>>, <<"syncOff">>>>
CallFinishMaybe(sync) == <<<<"finishMaybe", sync>>>>
CallErrorBuffer == <<<<"errorBuffer">>>>
CallDestroy(err) == <<<<"destroy", err>>>>
CallErrorOrDestroy(err, sync) == <<<<"errorOrDestroy", err, sync>>>>

\* The callbacks of these chunks, each with its error or with none.
Callbacks(ids, err) == [i \in 1 .. Len(ids) |-> <<"callback", ids[i], err>>]

-----------------------------------------------------------------------------
(* What the program calls.                                                   *)

MayAsk == asked.write + asked.other < MaxAsked

\* write() of the next chunk, with the fields of w that it sets and the step it begins with.
Refuses == w.ending \/ w.destroyed
MustBuffer == w.writing \/ w.corked > 0 \/ w.errored \/ ~w.constructed

\* _write and writeOrBuffer, up to the call of the implementation; then the steps `after`.
WriteThen(after) ==
    LET i == asked.write + 1
        k == [w EXCEPT !.pendingcb = @ + 1, !.length = @ + 1,
                       !.needDrain = @ \/ w.length + 1 >= options.highWaterMark]
    IN
    /\ i \in Chunks /\ MayAsk
    /\ asked' = [asked EXCEPT !.write = i]
    /\ IF Refuses
       THEN /\ ticks' = Append(ticks, <<"callback", i, TRUE>>)
            /\ Calls(CallErrorOrDestroy(TRUE, TRUE) \o after)
            /\ UNCHANGED <<w, accepted>>
       ELSE /\ accepted' = Append(accepted, i)
            /\ UNCHANGED ticks
            /\ IF MustBuffer
               THEN w' = [k EXCEPT !.buffered = Append(@, i)] /\ Calls(after)
               ELSE w' = k /\ Calls(CallDoWrite(<<i>>) \o after)
    /\ UNCHANGED <<options, owed, written, answered, events, strayed>>

Write == InProgram /\ WriteThen(<<>>)

\* errorBuffer calls the callbacks of what is still buffered.
Failing == \E n \in 1 .. Len(stack) : stack[n][1] \in {"erroring", "resetBuffer"}

CanCall == InProgram /\ asked.other < MaxCalls /\ MayAsk
Counted == asked' = [asked EXCEPT !.other = @ + 1]

Cork ==
    /\ CanCall /\ Counted
    /\ w' = [w EXCEPT !.corked = @ + 1]
    /\ Calls(<<>>)
    /\ UNCHANGED <<options, ticks, owed, accepted, written, answered, events, strayed>>

Uncork ==
    /\ InProgram /\ w.corked > 0
    /\ w' = [w EXCEPT !.corked = @ - 1]
    /\ Calls(IF w.writing THEN <<>> ELSE <<<<"clearBuffer">>>>)
    /\ UNCHANGED <<options, ticks, owed, historyVars>>

\* end(callback), after the write of its chunk if it has one.
End ==
    /\ CanCall /\ Counted
    /\ Calls(<<<<"end", FALSE>>>>)
    /\ UNCHANGED <<options, w, ticks, owed, accepted, written, answered, events, strayed>>

EndWithChunk == InProgram /\ ~w.ended /\ WriteThen(<<<<"end", Refuses>>>>)

Destroy(err) ==
    /\ (InProgram \/ InImplementation) /\ asked.other < MaxCalls /\ MayAsk /\ Counted
    /\ Calls(CallDestroy(err))
    /\ UNCHANGED <<options, w, ticks, owed, accepted, written, answered, events, strayed>>

\* A callback, a listener, a method of the implementation or a turn returns.
Returns ==
    /\ Doing({"program", "method"})
    /\ Becomes(<<>>)
    /\ UNCHANGED <<options, w, ticks, owed, historyVars>>

Tick == RunsTick /\ UNCHANGED <<options, w, owed, historyVars>>

\* The step that the callback of a method begins with.
Reply(method) ==
    CASE method = "write" -> "on write"
      [] method = "final" -> "on final"
      [] method = "destroy" -> "on destroy"

\* The implementation calls the callback of a method, at once or in a turn of its own.
Answer(method, err) ==
    /\ (InImplementation /\ Head(stack)[2] = method) \/ AtRest
    /\ method \in owed
    /\ owed' = owed \ {method}
    /\ method = "destroy" /\ w.destroyError => err
    /\ IF method = "construct"
       THEN ticks' = Append(ticks, <<"onConstruct", err>>) /\ Calls(<<>>)
       ELSE Calls(<<<<Reply(method), err>>>>) /\ UNCHANGED ticks
    /\ UNCHANGED <<options, w, historyVars>>

-----------------------------------------------------------------------------
(* Writing.                                                                  *)

\* doWrite: the implementation gets the chunks, unless the stream is destroyed.
DoWrite ==
    /\ Doing({"doWrite"})
    /\ LET ids == Head(stack)[2] IN
        /\ w' = [w EXCEPT !.writecb = ids, !.writing = TRUE, !.sync = TRUE]
        /\ IF w.destroyed
           THEN Becomes(<<<<"on write", TRUE>>>>) /\ UNCHANGED <<owed, written>>
           ELSE /\ Becomes(<<<<"method", "write">>>>)
                /\ owed' = owed \cup {"write"}
                /\ written' = written \o ids
    /\ UNCHANGED <<options, ticks, asked, accepted, answered, events, strayed>>

SyncOff ==
    /\ Doing({"syncOff"})
    /\ w' = [w EXCEPT !.sync = FALSE]
    /\ Becomes(<<>>)
    /\ UNCHANGED <<options, ticks, owed, historyVars>>

\* onwrite; what was buffered meanwhile goes to the implementation first.
OnWrite ==
    /\ Doing({"on write"})
    /\ LET err == Head(stack)[2]
           ids == w.writecb
           rest == IF err THEN <<"onwriteError", ids>> ELSE <<"afterWrite", ids>>
           then == IF w.sync THEN <<"nextTick", rest>> ELSE rest
           k == [w EXCEPT !.writing = FALSE, !.writecb = <<>>, !.length = @ - Len(ids)]
       IN /\ w' = [k EXCEPT !.errored = @ \/ err]
          /\ Becomes(IF ~err /\ w.buffered # <<>> THEN <<<<"clearBuffer">>, then>> ELSE <<then>>)
    /\ UNCHANGED <<options, ticks, owed, historyVars>>

NextTick ==
    /\ Doing({"nextTick"})
    /\ ticks' = Append(ticks, Head(stack)[2])
    /\ Becomes(<<>>)
    /\ UNCHANGED <<options, w, owed, historyVars>>

AfterWrite ==
    /\ Doing({"afterWrite"})
    /\ LET ids == Head(stack)[2]
           rest == <<<<"pending">>>> \o Callbacks(ids, FALSE) \o <<<<"afterCallbacks">>>>
       IN IF ~w.ending /\ ~w.destroyed /\ w.length = 0 /\ w.needDrain
          THEN /\ w' = [w EXCEPT !.needDrain = FALSE]
               /\ Emits("drain") /\ Becomes(<<<<"program">>>> \o rest)
          ELSE Becomes(rest) /\ UNCHANGED <<w, events>>
    /\ UNCHANGED <<options, ticks, owed, asked, accepted, written, answered, strayed>>

Pending ==
    /\ Doing({"pending"})
    /\ w' = [w EXCEPT !.pendingcb = @ - 1]
    /\ Becomes(<<>>)
    /\ UNCHANGED <<options, ticks, owed, historyVars>>

Callback ==
    /\ Doing({"callback"})
    /\ answered' = Append(answered, <<Head(stack)[2], Head(stack)[3]>>)
    /\ Becomes(<<<<"program">>>>)
    /\ UNCHANGED <<options, w, ticks, owed, asked, accepted, written, events, strayed>>

\* Faulty variant: the last callback does not ask whether the stream may finish.
AfterCallbacksOnly ==
    /\ Doing({"afterCallbacks"})
    /\ Becomes(IF w.destroyed THEN CallErrorBuffer ELSE <<>>)
    /\ UNCHANGED <<options, w, ticks, owed, historyVars>>

AfterCallbacks ==
    /\ Doing({"afterCallbacks"})
    /\ Becomes((IF w.destroyed THEN CallErrorBuffer ELSE <<>>) \o CallFinishMaybe(FALSE))
    /\ UNCHANGED <<options, w, ticks, owed, historyVars>>

OnWriteError ==
    /\ Doing({"onwriteError"})
    /\ w' = [w EXCEPT !.pendingcb = @ - 1]
    /\ Becomes(Callbacks(Head(stack)[2], TRUE) \o CallErrorBuffer
               \o CallErrorOrDestroy(TRUE, FALSE))
    /\ UNCHANGED <<options, ticks, owed, historyVars>>

\* Faulty variant: what is buffered is reported while a chunk is being written.
ErrorBufferAnyway ==
    /\ Doing({"errorBuffer"})
    /\ Becomes(<<<<"erroring", 1>>>>)
    /\ UNCHANGED <<options, w, ticks, owed, historyVars>>

\* errorBuffer: the callbacks of what is buffered, then those of end().
ErrorBuffer ==
    /\ Doing({"errorBuffer"})
    /\ Becomes(IF w.writing THEN <<>> ELSE <<<<"erroring", 1>>>>)
    /\ UNCHANGED <<options, w, ticks, owed, historyVars>>

Erroring ==
    /\ Doing({"erroring"})
    /\ LET n == Head(stack)[2] IN
       IF n <= Len(w.buffered)
       THEN /\ w' = [w EXCEPT !.length = @ - 1]
            /\ Becomes(<<<<"callback", w.buffered[n], TRUE>>, <<"erroring", n + 1>>>>)
       ELSE /\ w' = [w EXCEPT !.onFinished = 0]
            /\ Becomes(OnFinishedCallbacks \o <<<<"resetBuffer">>>>)
    /\ UNCHANGED <<options, ticks, owed, historyVars>>

\* clearBuffer: all at once by _writev, or one after the other while they answer at once.
ClearBuffer ==
    /\ Doing({"clearBuffer"})
    /\ IF w.corked > 0 \/ w.bufferProcessing \/ w.destroyed \/ ~w.constructed \/ w.buffered = <<>>
       THEN Becomes(<<>>) /\ UNCHANGED <<w, strayed>>
       ELSE /\ strayed' = IF Failing THEN strayed \cup {"uncork when failing"} ELSE strayed
            /\ IF options.writev /\ Len(w.buffered) > 1
               THEN /\ w' = [w EXCEPT !.bufferProcessing = TRUE,
                                      !.pendingcb = @ - (Len(w.buffered) - 1)]
                    /\ Becomes(CallDoWrite(w.buffered) \o <<<<"processed">>>>)
               ELSE /\ w' = [w EXCEPT !.bufferProcessing = TRUE]
                    /\ Becomes(<<<<"clearing", 1>>>>)
    /\ UNCHANGED <<options, ticks, owed, asked, accepted, written, answered, events>>

Clearing ==
    /\ Doing({"clearing"})
    /\ LET i == Head(stack)[2] IN
       IF i <= Len(w.buffered) /\ ~w.writing
       THEN Becomes(CallDoWrite(<<w.buffered[i]>>) \o <<<<"clearing", i + 1>>>>) /\ UNCHANGED w
       ELSE /\ w' = [w EXCEPT !.buffered = SubSeq(@, i, Len(@)), !.bufferProcessing = FALSE]
            /\ Becomes(<<>>)
    /\ UNCHANGED <<options, ticks, owed, historyVars>>

\* resetBuffer, of errorBuffer or at the end of clearBuffer.
ResetBuffer ==
    /\ Doing({"resetBuffer", "processed"})
    /\ w' = [w EXCEPT !.buffered = <<>>,
                       !.bufferProcessing = @ /\ Head(stack)[1] # "processed"]
    /\ Becomes(<<>>)
    /\ UNCHANGED <<options, ticks, owed, historyVars>>

-----------------------------------------------------------------------------
(* The end.                                                                  *)

\* end() uncorks; then it sets ending, and asks whether that is all.
EndBegins ==
    /\ Doing({"end"})
    /\ LET rest == <<<<"ending", Head(stack)[2]>>>> IN
       IF w.corked > 0
       THEN /\ w' = [w EXCEPT !.corked = 0]
            /\ Becomes(IF w.writing THEN rest ELSE <<<<"clearBuffer">>>> \o rest)
       ELSE Becomes(rest) /\ UNCHANGED w
    /\ UNCHANGED <<options, ticks, owed, historyVars>>

Ending ==
    /\ Doing({"ending"})
    /\ LET err == Head(stack)[2] IN
       IF ~err /\ ~w.errored /\ ~w.ending
       THEN /\ w' = [w EXCEPT !.ending = TRUE]
            /\ Becomes(CallFinishMaybe(TRUE) \o <<<<"ended">>>>)
       ELSE /\ Becomes(<<<<"end callback", err \/ w.finished \/ w.destroyed>>>>)
            /\ UNCHANGED w
    /\ UNCHANGED <<options, ticks, owed, historyVars>>

EndCallback ==
    /\ Doing({"ended", "end callback"})
    /\ LET now == (Head(stack)[1] = "end callback" /\ Head(stack)[2]) \/ w.finished \/ w.errored
           k == [w EXCEPT !.ended = @ \/ Head(stack)[1] = "ended"]
       IN IF now
          THEN w' = k /\ ticks' = Append(ticks, <<"program">>)
          ELSE w' = [k EXCEPT !.onFinished = @ + 1] /\ UNCHANGED ticks
    /\ Becomes(<<>>)
    /\ UNCHANGED <<options, owed, historyVars>>

NeedFinish ==
    /\ w.ending /\ w.constructed /\ w.length = 0 /\ ~w.errored /\ w.buffered = <<>>
    /\ ~w.finished /\ ~w.writing /\ ~w.errorEmitted /\ ~w.closeEmitted

\* finishMaybe, and prefinish with the call of _final.
FinishMaybe ==
    /\ Doing({"finishMaybe"})
    /\ LET rest == <<<<"finishNow", Head(stack)[2]>>>> IN
       IF ~NeedFinish
       THEN Becomes(<<>>) /\ UNCHANGED <<w, owed, events>>
       ELSE IF w.prefinished \/ w.finalCalled
       THEN Becomes(rest) /\ UNCHANGED <<w, owed, events>>
       ELSE IF options.final /\ ~w.destroyed
       THEN /\ w' = [w EXCEPT !.finalCalled = TRUE, !.sync = TRUE, !.pendingcb = @ + 1]
            /\ owed' = owed \cup {"final"}
            /\ Becomes(<<<<"method", "final">>, <<"syncOff">>>> \o rest)
            /\ UNCHANGED events
       ELSE /\ w' = [w EXCEPT !.prefinished = TRUE]
            /\ Emits("prefinish")
            /\ Becomes(<<<<"program">>>> \o rest)
            /\ UNCHANGED owed
    /\ UNCHANGED <<options, ticks, asked, accepted, written, answered, strayed>>

\* Nothing here asks whether the stream is destroyed, or has failed in a 'prefinish' listener.
FinishesAnyway ==
    strayed' = IF w.destroyed \/ w.errored THEN strayed \cup {"finish when failed"} ELSE strayed

FinishNow ==
    /\ Doing({"finishNow"})
    /\ IF w.pendingcb = 0 /\ NeedFinish
       THEN /\ w' = [w EXCEPT !.pendingcb = @ + 1]
            /\ Becomes(IF Head(stack)[2] THEN <<<<"nextTick", <<"finish">>>>>>
                                         ELSE <<<<"finish">>>>)
            /\ FinishesAnyway
       ELSE Becomes(<<>>) /\ UNCHANGED <<w, strayed>>
    /\ UNCHANGED <<options, ticks, owed, asked, accepted, written, answered, events>>

\* onFinish, the callback of _final.
OnFinal ==
    /\ Doing({"on final"})
    /\ LET k == [w EXCEPT !.pendingcb = @ - 1] IN
       IF Head(stack)[2]
       THEN /\ w' = [k EXCEPT !.onFinished = 0]
            /\ Becomes(OnFinishedCallbacks \o CallErrorOrDestroy(TRUE, w.sync))
            /\ UNCHANGED events
       ELSE IF NeedFinish
       THEN /\ w' = [k EXCEPT !.prefinished = TRUE]
            /\ Emits("prefinish")
            /\ Becomes(<<<<"program">>, <<"final finishes">>>>)
       ELSE w' = k /\ Becomes(<<>>) /\ UNCHANGED events
    /\ UNCHANGED <<options, ticks, owed, asked, accepted, written, answered, strayed>>

FinalFinishes ==
    /\ Doing({"final finishes"})
    /\ w' = [w EXCEPT !.pendingcb = @ + 1]
    /\ Becomes(<<<<"nextTick", <<"finish">>>>>>)
    /\ FinishesAnyway
    /\ UNCHANGED <<options, ticks, owed, asked, accepted, written, answered, events>>

Finish ==
    /\ Doing({"finish"})
    /\ w' = [w EXCEPT !.pendingcb = @ - 1, !.finished = TRUE, !.onFinished = 0]
    /\ Becomes(OnFinishedCallbacks \o <<<<"emit finish">>>>)
    /\ UNCHANGED <<options, ticks, owed, historyVars>>

EmitFinish ==
    /\ Doing({"emit finish"})
    /\ Emits("finish")
    /\ Becomes(<<<<"program">>>> \o IF options.autoDestroy THEN CallDestroy(FALSE) ELSE <<>>)
    /\ UNCHANGED <<options, w, ticks, owed, asked, accepted, written, answered, strayed>>

-----------------------------------------------------------------------------
(* Errors, destruction and construction.                                     *)

ErrorOrDestroy ==
    /\ Doing({"errorOrDestroy"})
    /\ IF w.destroyed
       THEN Becomes(<<>>) /\ UNCHANGED w
       ELSE IF options.autoDestroy
       THEN Becomes(CallDestroy(TRUE)) /\ UNCHANGED w
       ELSE /\ w' = [w EXCEPT !.errored = TRUE]
            /\ Becomes(IF Head(stack)[3] THEN <<<<"nextTick", <<"emitError">>>>>>
                                         ELSE <<<<"emitError">>>>)
    /\ UNCHANGED <<options, ticks, owed, historyVars>>

\* destroy(); before the stream is constructed it waits for that.
DestroyBegins ==
    /\ Doing({"destroy"})
    /\ LET err == Head(stack)[2] IN
       IF w.destroyed
       THEN Becomes(<<>>) /\ UNCHANGED <<w, ticks>>
       ELSE /\ ticks' = IF w.buffered # <<>> \/ w.onFinished > 0
                        THEN Append(ticks, <<"errorBuffer">>) ELSE ticks
            /\ w' = [w EXCEPT !.errored = @ \/ err, !.destroyed = TRUE, !.destroyError = err]
            /\ Becomes(IF w.constructed THEN <<<<"_destroy">>>> ELSE <<>>)
    /\ UNCHANGED <<options, owed, historyVars>>

CallDestroyMethod ==
    /\ Doing({"_destroy"})
    /\ owed' = owed \cup {"destroy"}
    /\ Becomes(<<<<"method", "destroy">>>>)
    /\ UNCHANGED <<options, w, ticks, historyVars>>

\* onDestroy, the callback of _destroy.
OnDestroy ==
    /\ Doing({"on destroy"})
    /\ LET err == Head(stack)[2] IN
        /\ w' = [w EXCEPT !.errored = @ \/ err, !.closed = TRUE]
        /\ ticks' = Append(ticks, IF err THEN <<"emitErrorClose">> ELSE <<"emitClose">>)
    /\ Becomes(<<>>)
    /\ UNCHANGED <<options, owed, historyVars>>

\* Without a listener, or with one that throws, the emit throws: the tick is caught and
\* logged, and what it had left to do, 'close', is not done.
EmitError ==
    /\ Doing({"emitError", "emitErrorClose"})
    /\ LET rest == IF Head(stack)[1] = "emitError" THEN <<>> ELSE <<<<"emitClose">>>> IN
       IF w.errorEmitted
       THEN Becomes(rest) /\ UNCHANGED <<w, events, strayed>>
       ELSE /\ w' = [w EXCEPT !.errorEmitted = TRUE]
            /\ Emits("error")
            /\ \/ Becomes(<<<<"program">>>> \o rest) /\ UNCHANGED strayed
               \/ /\ rest # <<>> /\ Becomes(<<<<"program">>>>)
                  /\ strayed' = strayed \cup {"error thrown"}
    /\ UNCHANGED <<options, ticks, owed, asked, accepted, written, answered>>

EmitClose ==
    /\ Doing({"emitClose"})
    /\ w' = [w EXCEPT !.closeEmitted = TRUE]
    /\ Emits("close")
    /\ Becomes(<<<<"program">>>>)
    /\ UNCHANGED <<options, ticks, owed, asked, accepted, written, answered, strayed>>

ConstructNT ==
    /\ Doing({"constructNT"})
    /\ owed' = owed \cup {"construct"}
    /\ Becomes(<<<<"method", "construct">>>>)
    /\ UNCHANGED <<options, w, ticks, historyVars>>

OnConstruct ==
    /\ Doing({"onConstruct"})
    /\ LET err == Head(stack)[2] IN
        /\ w' = [w EXCEPT !.constructed = TRUE, !.destroyError = @ \/ (w.destroyed /\ err)]
        /\ Becomes(IF w.destroyed THEN <<<<"_destroy">>>>
                   ELSE IF err THEN CallErrorOrDestroy(TRUE, TRUE)
                   ELSE (IF w.writing THEN <<>> ELSE <<<<"clearBuffer">>>>)
                        \o CallFinishMaybe(FALSE))
    /\ UNCHANGED <<options, ticks, owed, historyVars>>

-----------------------------------------------------------------------------
ProgramCalls ==
    \/ Write \/ Cork \/ Uncork \/ End \/ EndWithChunk
    \/ \E err \in BOOLEAN : Destroy(err)

Functions ==
    \/ DoWrite \/ SyncOff \/ OnWrite \/ NextTick \/ AfterWrite \/ Pending \/ Callback
    \/ AfterCallbacks \/ OnWriteError \/ ErrorBuffer \/ Erroring \/ ClearBuffer \/ Clearing
    \/ ResetBuffer \/ EndBegins \/ Ending \/ EndCallback \/ FinishMaybe \/ FinishNow \/ OnFinal
    \/ FinalFinishes \/ Finish \/ EmitFinish \/ ErrorOrDestroy \/ DestroyBegins
    \/ CallDestroyMethod \/ OnDestroy \/ EmitError \/ EmitClose \/ ConstructNT \/ OnConstruct

\* What runs goes on.
Runs == Functions \/ Returns \/ Tick

Answers == \E method \in Methods, err \in BOOLEAN : Answer(method, err)

Next == ProgramCalls \/ Functions \/ Answers \/ Returns \/ Tick

Spec == Init /\ [][Next]_vars

\* What runs goes on, and the implementation calls back.
FairSpec == Spec /\ WF_vars(Runs) /\ WF_vars(Answers)

-----------------------------------------------------------------------------
(* Properties.                                                               *)

Accepted == ToSet(accepted)
AnsweredIds == [n \in 1 .. Len(answered) |-> answered[n][1]]
Increasing(s) == \A m, n \in 1 .. Len(s) : m < n => s[m] < s[n]
\* The callbacks of these chunks come in order.
AnswersInOrder(ids) ==
    \A m, n \in 1 .. Len(answered) :
        m < n /\ {AnsweredIds[m], AnsweredIds[n]} \subseteq ids => AnsweredIds[m] < AnsweredIds[n]
Emitted(event) == event \in ToSet(events)

TypeOK ==
    /\ options \in Options /\ owed \subseteq Methods
    /\ ToSet(w.buffered) \subseteq Chunks /\ ToSet(w.writecb) \subseteq Chunks
    /\ w.length \in 0 .. MaxWrites /\ w.pendingcb \in Nat /\ w.onFinished \in Nat
    /\ Accepted \subseteq Chunks /\ ToSet(written) \subseteq Chunks

\* The implementation gets the chunks in the order of write() and none twice, and passes
\* over only those whose callback got an error.  Each callback comes once, without an error
\* only for what was written; those of what was written come in order, and so do those of
\* what was not, which errorBuffer may call first, but not while an earlier one is written.
ChunksInOrder ==
    "uncork when failing" \notin strayed =>
    /\ TypeOK
    /\ Increasing(written) /\ ToSet(written) \subseteq Accepted
    /\ \A i \in Accepted \ ToSet(written) :
        (\E j \in ToSet(written) : j > i) => <<i, TRUE>> \in ToSet(answered)
    /\ IsInjective(AnsweredIds)
    /\ AnswersInOrder(ToSet(written)) /\ AnswersInOrder(Accepted \ ToSet(written))
    /\ \A i \in ToSet(w.writecb), j \in ToSet(AnsweredIds) \cap Accepted : j < i
    /\ \A i \in Chunks : <<i, FALSE>> \in ToSet(answered) => i \in ToSet(written)

\* Each event but 'drain' comes once at most; 'finish' only after end(), without an error
\* before it, and when every accepted chunk was written and called back; nothing comes after
\* 'close'.  A stream that is destroyed before end(), or fails in 'prefinish', may 'finish'
\* all the same.
FinishMeansWritten ==
    /\ \A m, n \in 1 .. Len(events) : m < n /\ events[m] = events[n] => events[m] = "drain"
    /\ Emitted("finish") => w.ending /\ \A i \in Accepted : <<i, FALSE>> \in ToSet(answered)
    /\ "finish when failed" \notin strayed =>
        /\ \A m, n \in 1 .. Len(events) : events[m] = "error" /\ events[n] = "finish" => n < m
        /\ \A n \in 1 .. Len(events) : events[n] = "close" => n = Len(events)

\* What was written, and what the events say of it.
WritesInOrder == ChunksInOrder /\ FinishMeansWritten

\* Again and again every accepted write has had its callback, unless the program leaves the
\* stream corked, goes on writing to one that has failed and is not to be destroyed, or
\* uncorks one that is failing.
WritesAreCalledBack ==
    []<>(\/ Accepted \subseteq ToSet(AnsweredIds)
         \/ w.corked > 0
         \/ w.errored /\ ~w.destroyed
         \/ "uncork when failing" \in strayed)

\* A stream that was ended or has failed comes to its 'close', one that was not to be
\* destroyed to its 'finish' or its 'error', unless it is left corked or its 'error' was
\* thrown by the emit.
StreamCloses ==
    (w.ending \/ w.destroyed \/ w.errored) ~>
        \/ w.corked > 0
        \/ Emitted("close")
        \/ (~options.autoDestroy /\ ~w.destroyed /\ (Emitted("finish") \/ Emitted("error")))
        \/ "error thrown" \in strayed

\* Every write and every stream comes to its end.
WritesSettle == WritesAreCalledBack /\ StreamCloses
=============================================================================
