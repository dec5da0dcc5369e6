----------------------------- MODULE FetchRequest -----------------------------
(* The request of fetch() and its redirects.  A body that is a ReadableStream *)
(* is sent by sendBody() beside the loop of streamingRequest() (http.js),     *)
(* which may see a redirect before the body has ended; any other body is      *)
(* bytes, sent by the loop of simple_send (http.rs).  The servers and the     *)
(* stream are external: they answer, take, give and fail as they like.        *)
EXTENDS Naturals

CONSTANTS
    MaxRedirects,   \* maxRedirects, 20 in the code
    MaxChunks       \* bound: chunks the stream gives

VARIABLES
    setting,    \* the kind of body, the redirect policy, and whether the stream has an end
    request,    \* number, method and body of the current request, and bodyCreator's `used`
    fetch,      \* where the loop is, and the status of the response it has
    upload,     \* where sendBody() is, the request it writes to, abortRef.aborted, and what
                \* bodyState has: whether it is settled, and the error
    source,     \* the stream: chunks it gave, whether it was canceled
    server,     \* what each request brought: its method, chunks, and the end of the body
    tardy       \* history: the upload settled after the redirect was seen

vars == <<setting, request, fetch, upload, source, server, tardy>>

Hops == 0 .. MaxRedirects
Redirects == {"301 or 302", "303", "307 or 308", "no location"}
Statuses == Redirects \cup {"other"}

Init ==
    /\ setting \in [body : {"stream", "bytes"}, redirect : {"follow", "manual", "error"},
                    endless : BOOLEAN]
    /\ setting.body = "bytes" => ~setting.endless
    /\ \E m \in {"GET", "POST", "PUT"} :
        request = [n |-> 0, method |-> m, body |-> TRUE, used |-> FALSE]
    /\ fetch = [at |-> "begin", status |-> "none"]
    /\ upload = [at |-> "none", to |-> 0, aborted |-> FALSE, settled |-> FALSE, error |-> "none"]
    /\ source = [gave |-> 0, canceled |-> FALSE]
    /\ server = [h \in Hops |-> [method |-> "none", chunks |-> 0, finished |-> FALSE]]
    /\ tardy = FALSE

TypeOK ==
    /\ request \in [n : Hops, method : {"GET", "POST", "PUT"}, body : BOOLEAN, used : BOOLEAN]
    /\ fetch \in [at : {"begin", "receive", "received", "await", "resolved", "rejected"},
                  status : Statuses \cup {"none", "failed"}]
    /\ upload \in [at : {"none", "reading", "value", "end", "broken", "writing", "written",
                         "refused", "returned", "settled"},
                   to : Hops, aborted : BOOLEAN, settled : BOOLEAN,
                   error : {"none", "source", "transport"}]
    /\ source \in [gave : 0 .. MaxChunks, canceled : BOOLEAN]
    /\ server \in [Hops -> [method : {"none", "GET", "POST", "PUT"}, chunks : 0 .. MaxChunks,
                            finished : BOOLEAN]]

Streaming == setting.body = "stream"
Settles(how) == fetch' = [fetch EXCEPT !.at = how]

-----------------------------------------------------------------------------
(* The loop.                                                                  *)

\* simple_send: a request with the bytes there are.
BeginBytes ==
    /\ ~Streaming /\ fetch.at = "begin"
    /\ server' = [server EXCEPT ![request.n] =
            [method |-> request.method, chunks |-> IF request.body THEN MaxChunks ELSE 0,
             finished |-> TRUE]]
    /\ fetch' = [at |-> "receive", status |-> "none"]
    /\ UNCHANGED <<setting, request, upload, source, tardy>>

\* streamingRequest: a request of its own for each hop; bodyCreator gives the stream once.
BeginStream ==
    LET sends == request.body /\ request.method # "GET" IN
    /\ Streaming /\ fetch.at = "begin"
    /\ server' = [server EXCEPT ![request.n] =
            [method |-> request.method, chunks |-> 0, finished |-> ~sends]]
    /\ IF sends /\ request.used
       THEN Settles("rejected") /\ UNCHANGED <<request, upload>>
       ELSE /\ fetch' = [at |-> "receive", status |-> "none"]
            /\ request' = [request EXCEPT !.used = @ \/ sends]
            /\ upload' = IF sends
                         THEN [at |-> "reading", to |-> request.n, aborted |-> FALSE,
                               settled |-> FALSE, error |-> "none"]
                         ELSE upload
    /\ UNCHANGED <<setting, source, tardy>>

\* The server answers, whatever it has taken of the body, or the connection breaks.
Answers(status) ==
    /\ fetch.at = "receive"
    /\ fetch' = [at |-> "received", status |-> status]
    /\ UNCHANGED <<setting, request, upload, source, server, tardy>>

\* A redirect that makes the request a GET without a body.
BecomesGet ==
    \/ fetch.status = "303"
    \/ fetch.status = "301 or 302" /\ request.method = "POST"

\* The next request: simple_send forgets `body`, and the bytes are in `body_bytes`.
Redirected ==
    [request EXCEPT !.n = @ + 1,
                    !.method = IF BecomesGet THEN "GET" ELSE @,
                    !.body = @ /\ ~(Streaming /\ BecomesGet)]

\* Redirect logic, of both loops.
Follows ==
    IF setting.redirect = "follow" /\ fetch.status \in Redirects
    THEN IF MaxRedirects <= request.n
         THEN Settles("rejected") /\ UNCHANGED request
         ELSE IF fetch.status = "no location"
         THEN Settles("resolved") /\ UNCHANGED request
         ELSE Settles("begin") /\ request' = Redirected
    ELSE /\ Settles(IF setting.redirect = "error" /\ fetch.status \in Redirects
                    THEN "rejected" ELSE "resolved")
         /\ UNCHANGED request

\* The upload belongs to the current request, and has not settled.
Uploading == Streaming /\ upload.at # "none" /\ upload.to = request.n /\ ~upload.settled
\* The error bodyState has of it.
UploadError ==
    IF Streaming /\ upload.to = request.n /\ upload.settled THEN upload.error ELSE "none"

\* Faulty variant: the error of the stream is lost when the server redirects.
ReceivedBlindly ==
    /\ fetch.at = "received"
    /\ IF fetch.status = "failed"
       THEN Settles("rejected") /\ UNCHANGED <<request, upload>>
       ELSE IF ~Streaming
       THEN Follows /\ UNCHANGED upload
       ELSE IF fetch.status \in Redirects
       THEN Follows /\ upload' = [upload EXCEPT !.aborted = TRUE]
       ELSE Settles("await") /\ UNCHANGED <<request, upload>>
    /\ UNCHANGED <<setting, source, server, tardy>>

\* Faulty variant: a redirect waits for the upload too.
ReceivedPatiently ==
    /\ fetch.at = "received"
    /\ IF fetch.status = "failed"
       THEN Settles("rejected") /\ UNCHANGED <<request, upload>>
       ELSE IF ~Streaming
       THEN Follows /\ UNCHANGED upload
       ELSE IF fetch.status \in Redirects /\ UploadError = "source"
       THEN Settles("rejected") /\ UNCHANGED <<request, upload>>
       ELSE IF fetch.status \in Redirects /\ ~Uploading
       THEN Follows /\ upload' = [upload EXCEPT !.aborted = TRUE]
       ELSE Settles("await") /\ UNCHANGED <<request, upload>>
    /\ UNCHANGED <<setting, source, server, tardy>>

\* receiveResponse() has come back.
Received ==
    /\ fetch.at = "received"
    /\ IF fetch.status = "failed"
       THEN Settles("rejected") /\ UNCHANGED <<request, upload>>
       ELSE IF ~Streaming
       THEN Follows /\ UNCHANGED upload
       ELSE IF fetch.status \in Redirects /\ UploadError = "source"
       THEN Settles("rejected") /\ UNCHANGED <<request, upload>>
       ELSE IF fetch.status \in Redirects
       THEN Follows /\ upload' = [upload EXCEPT !.aborted = TRUE]
       ELSE Settles("await") /\ UNCHANGED <<request, upload>>
    /\ UNCHANGED <<setting, source, server, tardy>>

\* await bodyPromise.
BodyAwaited ==
    /\ fetch.at = "await" /\ ~Uploading
    /\ IF UploadError # "none" THEN Settles("rejected") /\ UNCHANGED request ELSE Follows
    /\ UNCHANGED <<setting, upload, source, server, tardy>>

-----------------------------------------------------------------------------
(* sendBody().                                                                *)

sendUnchanged == <<setting, request, fetch, tardy>>

Returns(error) == upload' = [upload EXCEPT !.at = "returned", !.error = error]

\* reader.read() settles.
SourceGives ==
    /\ upload.at = "reading" /\ source.gave < MaxChunks
    /\ source' = [source EXCEPT !.gave = @ + 1]
    /\ upload' = [upload EXCEPT !.at = "value"]
    /\ UNCHANGED <<server, sendUnchanged>>

SourceEnds ==
    /\ upload.at = "reading" /\ ~setting.endless
    /\ upload' = [upload EXCEPT !.at = "end"]
    /\ UNCHANGED <<source, server, sendUnchanged>>

SourceFails ==
    /\ upload.at = "reading"
    /\ upload' = [upload EXCEPT !.at = "broken"]
    /\ UNCHANGED <<source, server, sendUnchanged>>

\* Faulty variant: an upload that is given up leaves its loop as one that has ended does.
UploadFinishesAnyway ==
    /\ \/ /\ upload.at \in {"value", "written"} /\ upload.aborted
          /\ source' = [source EXCEPT !.canceled = TRUE]
          /\ server' = [server EXCEPT ![upload.to].finished = TRUE]
          /\ Returns("none")
       \/ /\ upload.at \in {"value", "written"} /\ ~upload.aborted
          /\ upload' = [upload EXCEPT !.at = IF @ = "value" THEN "writing" ELSE "reading"]
          /\ UNCHANGED <<source, server>>
       \/ /\ upload.at \in {"broken", "refused"}
          /\ Returns(IF upload.aborted THEN "none"
                     ELSE IF upload.at = "broken" THEN "source" ELSE "transport")
          /\ UNCHANGED <<source, server>>
       \/ /\ upload.at = "end"
          /\ \/ server' = [server EXCEPT ![upload.to].finished = TRUE] /\ Returns("none")
             \/ Returns("transport") /\ UNCHANGED server
          /\ UNCHANGED source
    /\ UNCHANGED sendUnchanged

\* What sendBody() does when its await is over: it looks at abortRef each time.
UploadGoesOn ==
    /\ \/ /\ upload.at \in {"value", "written"} /\ upload.aborted
          /\ source' = [source EXCEPT !.canceled = TRUE]
          /\ Returns("none")
          /\ UNCHANGED server
       \/ /\ upload.at \in {"value", "written"} /\ ~upload.aborted
          /\ upload' = [upload EXCEPT !.at = IF @ = "value" THEN "writing" ELSE "reading"]
          /\ UNCHANGED <<source, server>>
       \/ /\ upload.at \in {"broken", "refused"}
          /\ Returns(IF upload.aborted THEN "none"
                     ELSE IF upload.at = "broken" THEN "source" ELSE "transport")
          /\ UNCHANGED <<source, server>>
       \/ /\ upload.at = "end" /\ upload.aborted
          /\ Returns("none")
          /\ UNCHANGED <<source, server>>
       \/ /\ upload.at = "end" /\ ~upload.aborted
          /\ \/ server' = [server EXCEPT ![upload.to].finished = TRUE] /\ Returns("none")
             \/ Returns("transport") /\ UNCHANGED server
          /\ UNCHANGED source
    /\ UNCHANGED sendUnchanged

\* writeRequestBodyChunk() settles.
ServerTakes ==
    /\ upload.at = "writing"
    /\ \/ /\ server' = [server EXCEPT ![upload.to].chunks = @ + 1]
          /\ upload' = [upload EXCEPT !.at = "written"]
       \/ upload' = [upload EXCEPT !.at = "refused"] /\ UNCHANGED server
    /\ UNCHANGED <<source, sendUnchanged>>

\* The handlers of sendBody()'s promise, which set bodyState.
UploadSettles ==
    /\ upload.at = "returned"
    /\ upload' = [upload EXCEPT !.at = "settled", !.settled = TRUE]
    /\ tardy' = upload.aborted
    /\ UNCHANGED <<setting, request, fetch, source, server>>

-----------------------------------------------------------------------------
Jobs ==
    BeginBytes \/ BeginStream \/ Received \/ BodyAwaited \/ UploadGoesOn \/ UploadSettles
Responds == \E status \in Statuses \cup {"failed"} : Answers(status)

Next == Jobs \/ Responds \/ ServerTakes \/ SourceGives \/ SourceEnds \/ SourceFails

Spec == Init /\ [][Next]_vars

\* The engine goes on with what has settled; the servers answer and take or refuse what is
\* written; a stream that is not endless gives or ends.
FairSpec ==
    /\ Spec
    /\ WF_vars(Jobs) /\ WF_vars(Responds) /\ WF_vars(ServerTakes)
    /\ WF_vars(SourceGives \/ SourceEnds)

-----------------------------------------------------------------------------
(* Properties.                                                                *)

Sent == upload.at # "none"

\* No server takes a part of a stream for the whole: the body it sees finished has all that
\* the stream gave.  A response that is no redirect means that its request's body was
\* finished.  And an error of the stream that bodyState has when a redirect is seen is
\* fetch()'s: "should not be silently swallowed even when the server happened to redirect".
UploadsAreWhole ==
    /\ TypeOK
    /\ Sent /\ server[upload.to].finished => server[upload.to].chunks = source.gave
    /\ fetch = [at |-> "resolved", status |-> "other"] => server[request.n].finished
    /\ upload.error = "source" /\ upload.settled /\ ~tardy =>
        upload.to = request.n /\ fetch.at # "resolved"

\* fetch() settles, whatever the servers answer: it waits for ever for an endless stream
\* only when the response is no redirect ("slow/infinite streaming bodies must not delay
\* redirect handling").
FetchSettles ==
    <>(\/ fetch.at \in {"resolved", "rejected"}
       \/ setting.endless /\ fetch.at = "await" /\ fetch.status = "other")

\* A redirect that makes the request a GET drops its body ("drop_body").
RedirectedGetIsEmpty ==
    \A h \in Hops \ {0} :
        server[h].method = "GET" /\ server[h - 1].method # "GET" => server[h].chunks = 0
=============================================================================
