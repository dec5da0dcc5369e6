------------------------------ MODULE MCStreams ------------------------------
(* A Writable, a Readable and the upload of a stream by fetch() in one run: a *)
(* program uses the one that part names, and the others stay as they were     *)
(* made.                                                                      *)
EXTENDS FetchRequest, Integers

CONSTANTS
    MaxWrites, MaxWriteCalls, MaxAsked,
    HighWaterMarks, MaxReadCalls

\* A stream with _writev that destroys itself, and one with _final and _construct that does not.
SomeOptions ==
    {[highWaterMark |-> 1, writev |-> b, final |-> ~b, autoDestroy |-> b, construct |-> ~b] :
        b \in BOOLEAN}

ASSUME Bounds ==
    /\ MaxWrites \in Nat /\ MaxWriteCalls \in Nat /\ MaxAsked \in Nat
    /\ HighWaterMarks \subseteq Nat /\ MaxReadCalls \in Nat
    /\ MaxChunks \in Nat /\ MaxRedirects \in Nat

VARIABLES
    part,
    options, w, stack, ticks, owed, asked, accepted, written, answered, events, strayed,
    highWaterMark, r, listens, pipe, readStack, readTicks, result, readOwed, pushed, readAsked,
    got, dest, readEvents

writeVars == <<options, w, stack, ticks, owed, asked, accepted, written, answered, events, strayed>>
readVars == <<highWaterMark, r, listens, pipe, readStack, readTicks, result, readOwed, pushed,
              readAsked, got, dest, readEvents>>

Writable == INSTANCE Writable WITH Options <- SomeOptions, MaxCalls <- MaxWriteCalls
Readable == INSTANCE Readable WITH
    MaxCalls <- MaxReadCalls, stack <- readStack, ticks <- readTicks, owed <- readOwed,
    asked <- readAsked, events <- readEvents

PartsInit ==
    /\ part \in {"writable", "readable", "fetch"}
    /\ Init /\ Writable!Init /\ Readable!Init
    /\ part # "writable" => options = CHOOSE x \in SomeOptions : TRUE
    /\ part # "readable" => highWaterMark = CHOOSE x \in HighWaterMarks : TRUE
    /\ part # "fetch" =>
        setting.body = "bytes" /\ setting.redirect = "error" /\ request.method = "GET"

PartsNext ==
    \/ part = "writable" /\ Writable!Next /\ UNCHANGED <<part, readVars, vars>>
    \/ part = "readable" /\ Readable!Next /\ UNCHANGED <<part, writeVars, vars>>
    \/ part = "fetch" /\ Next /\ UNCHANGED <<part, writeVars, readVars>>

\* The fairness of each module (its FairSpec), of the one that is used.
PartsFairness ==
    /\ WF_writeVars(part = "writable" /\ Writable!Runs)
    /\ WF_writeVars(part = "writable" /\ Writable!Answers)
    /\ WF_readVars(part = "readable" /\ Readable!Runs)
    /\ WF_readVars(part = "readable" /\ Readable!Push)
    /\ WF_readVars(part = "readable" /\ Readable!Drain)
    /\ WF_vars(part = "fetch" /\ Jobs)
    /\ WF_vars(part = "fetch" /\ Responds)
    /\ WF_vars(part = "fetch" /\ ServerTakes)
    /\ WF_vars(part = "fetch" /\ (SourceGives \/ SourceEnds))

PartsSpec == PartsInit /\ [][PartsNext]_<<part, writeVars, readVars, vars>> /\ PartsFairness

-----------------------------------------------------------------------------
(* The properties of the streams, beside those of FetchRequest; each holds of *)
(* a module that is not used.                                                 *)

\* A Writable stream writes in order, and 'finish' means that all is written.
WritesInOrder == Writable!WritesInOrder
\* A Readable stream gives its chunks in order, all of them before 'end'.
ChunksInOrder == Readable!ChunksInOrder
\* Every write is called back, a Writable that was ended closes, and a Readable somebody
\* listens to comes to its 'end'.
StreamsSettle == Writable!WritesSettle /\ Readable!FlowsToTheEnd
\* A fetch() settles, whatever redirects it meets.
UploadsSettle == part = "fetch" => FetchSettles
=============================================================================
