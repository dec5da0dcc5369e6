------------------------------ MODULE StreamsProof ------------------------------
(* Two of the three parts of MCStreams: no server takes a part of an upload   *)
(* for the whole, for any number of redirects and chunks; and a Readable      *)
(* gives its chunks in order, whatever the program calls.                     *)
EXTENDS MCStreams, SequenceTheorems, TLAPS

-----------------------------------------------------------------------------
(* The upload of a stream by fetch() (FetchRequest).                          *)

Settings == [body : {"stream", "bytes"}, redirect : {"follow", "manual", "error"},
             endless : BOOLEAN]
Uploads == [at : {"none", "reading", "value", "end", "broken", "writing", "written", "refused",
                  "returned", "settled"},
            to : Hops, aborted : BOOLEAN, settled : BOOLEAN,
            error : {"none", "source", "transport"}]
Untouched(h) == server[h] = [method |-> "none", chunks |-> 0, finished |-> FALSE]
Current == Sent /\ upload.to = request.n

\* There is one upload: bodyCreator gives the stream once.
OneUpload ==
    /\ Sent => Streaming /\ request.used /\ upload.to <= request.n
    /\ request.used => Sent
    /\ fetch.at = "begin" => ~Current
    /\ upload.settled <=> upload.at = "settled"

\* What a request will bring, it has not brought yet.
Ahead ==
    \A h \in Hops : h > request.n \/ (h = request.n /\ fetch.at = "begin") => Untouched(h)

\* The chunk in hand is the only one the server may lack, until the upload is over; it is
\* over without an error when the body is finished, or given up.
Counted ==
    /\ ~Sent => source.gave = 0
    /\ Sent =>
        /\ upload.at \in {"reading", "end", "broken", "written"} =>
              server[upload.to].chunks = source.gave
        /\ upload.at \in {"value", "writing"} => server[upload.to].chunks + 1 = source.gave
        /\ server[upload.to].finished =>
              upload.at \in {"returned", "settled"} /\ server[upload.to].chunks = source.gave
        /\ upload.at \in {"returned", "settled"} /\ upload.error = "none" =>
              server[upload.to].finished \/ upload.aborted

\* The loop leaves a request behind only when its upload has settled or is given up.
GivenUp ==
    Sent =>
        /\ ~Current \/ fetch.at = "resolved" => upload.settled \/ upload.aborted
        /\ upload.aborted => ~Current \/ fetch.at \in {"resolved", "rejected"}

\* A response other than a redirect waits for its request's upload.
Awaited ==
    /\ fetch.at = "await" => Streaming /\ fetch.status = "other"
    /\ fetch.at \in {"receive", "received", "await"} =>
          server[request.n].finished \/ Current
    /\ fetch.at = "received" => fetch.status # "none"

UInv ==
    /\ setting \in Settings
    /\ TypeOK
    /\ OneUpload
    /\ Ahead
    /\ Counted
    /\ GivenUp
    /\ Awaited
    /\ UploadsAreWhole
-----------------------------------------------------------------------------
LEMMA InitUInv ==
    ASSUME MaxRedirects \in Nat, MaxChunks \in Nat, Init
    PROVE  UInv
<1>1. /\ setting \in Settings /\ TypeOK
      /\ \A h \in Hops : Untouched(h)
  BY DEF Init, TypeOK, Settings, Hops, Statuses, Redirects, Untouched
<1>2. /\ ~Sent /\ ~request.used /\ fetch.at = "begin"
      /\ upload.at = "none" /\ ~upload.settled /\ upload.error = "none" /\ source.gave = 0
  BY DEF Init, Sent
<1> QED BY <1>1, <1>2 DEF UInv, OneUpload, Ahead, Counted, GivenUp, Awaited, Current,
           UploadsAreWhole

-----------------------------------------------------------------------------
(* The loop.                                                                  *)

LEMMA BeginBytesStep ==
    ASSUME MaxRedirects \in Nat, MaxChunks \in Nat, UInv, BeginBytes
    PROVE  UInv'
<1>1. setting' \in Settings /\ TypeOK'
  BY DEF UInv, TypeOK, BeginBytes, Hops, Statuses
<1>2. /\ ~Sent /\ ~Sent' /\ ~Streaming /\ UNCHANGED <<request, upload, source, setting, tardy>>
      /\ fetch'.at = "receive"
      /\ request.n \in Nat
  BY DEF UInv, OneUpload, BeginBytes, Sent, Streaming, TypeOK, Hops
<1>3. server'[request.n].finished /\ \A h \in Hops : h # request.n => server'[h] = server[h]
  BY DEF UInv, TypeOK, BeginBytes
<1>4. OneUpload' /\ Counted' /\ GivenUp' /\ Awaited'
  BY <1>2, <1>3 DEF UInv, OneUpload, Counted, GivenUp, Awaited, Current
<1>5. Ahead'
  <2> SUFFICES ASSUME NEW h \in Hops, h > request.n PROVE Untouched(h)'
    BY <1>2 DEF Ahead
  <2> QED BY <1>2, <1>3 DEF UInv, Ahead, Untouched, Hops
<1>6. UploadsAreWhole'
  BY <1>1, <1>2 DEF UInv, UploadsAreWhole, TypeOK
<1> QED BY <1>1, <1>4, <1>5, <1>6 DEF UInv

LEMMA BeginStreamStep ==
    ASSUME MaxRedirects \in Nat, MaxChunks \in Nat, UInv, BeginStream
    PROVE  UInv'
<1> DEFINE sends == request.body /\ request.method # "GET"
<1> USE DEF Hops
<1>1. /\ setting' = setting /\ setting \in Settings /\ Streaming /\ source' = source
      /\ fetch.at = "begin" /\ fetch \in [at : {"begin"}, status : Statuses \cup {"none", "failed"}]
      /\ request.n \in Hops /\ tardy' = tardy /\ request'.n = request.n
  BY DEF UInv, TypeOK, BeginStream, Settles
<1>2. /\ server'[request.n].chunks = 0
      /\ server'[request.n].finished <=> ~sends
      /\ \A h \in Hops : h # request.n => server'[h] = server[h]
      /\ server' \in [Hops -> [method : {"none", "GET", "POST", "PUT"}, chunks : 0 .. MaxChunks,
                                finished : BOOLEAN]]
  <2> DEFINE touched == [method |-> request.method, chunks |-> 0, finished |-> ~sends]
  <2>1. server' = [server EXCEPT ![request.n] = touched]
    BY DEF BeginStream
  <2>2. /\ request.method \in {"GET", "POST", "PUT"}
        /\ server \in [Hops -> [method : {"none", "GET", "POST", "PUT"}, chunks : 0 .. MaxChunks,
                                 finished : BOOLEAN]]
    BY DEF UInv, TypeOK
  <2>3. touched \in [method : {"none", "GET", "POST", "PUT"}, chunks : 0 .. MaxChunks,
                     finished : BOOLEAN]
    BY <2>2
  <2>4. touched.chunks = 0 /\ (touched.finished <=> ~sends)
    OBVIOUS
  <2> HIDE DEF touched, sends
  <2>5. /\ server'[request.n] = touched
        /\ \A h \in Hops : h # request.n => server'[h] = server[h]
        /\ server' \in [Hops -> [method : {"none", "GET", "POST", "PUT"}, chunks : 0 .. MaxChunks,
                                  finished : BOOLEAN]]
    BY <1>1, <2>1, <2>2, <2>3
  <2> QED BY <2>4, <2>5
<1>3. TypeOK'
  <2>1. request' \in [n : Hops, method : {"GET", "POST", "PUT"}, body : BOOLEAN, used : BOOLEAN]
    <3>1. request' = request \/ request' = [request EXCEPT !.used = @ \/ sends]
      BY DEF BeginStream
    <3>2. request \in [n : Hops, method : {"GET", "POST", "PUT"}, body : BOOLEAN, used : BOOLEAN]
      BY DEF UInv, TypeOK
    <3>3. (request.used \/ sends) \in BOOLEAN
      OBVIOUS
    <3> HIDE DEF sends
    <3> QED BY <3>1, <3>2, <3>3
  <2>2. fetch' \in [at : {"receive", "rejected"}, status : Statuses \cup {"none", "failed"}]
    BY <1>1 DEF BeginStream, Settles
  <2>3. upload' \in Uploads
    <3>1. upload \in Uploads
      BY DEF UInv, TypeOK, Uploads
    <3>2. [at |-> "reading", to |-> request.n, aborted |-> FALSE, settled |-> FALSE,
           error |-> "none"] \in Uploads
      BY <1>1 DEF Uploads
    <3> QED BY <3>1, <3>2 DEF BeginStream
  <2> QED BY <1>1, <1>2, <2>1, <2>2, <2>3 DEF UInv, TypeOK, Uploads
<1>4. Ahead'
  <2> SUFFICES ASSUME NEW h \in Hops, h > request.n PROVE Untouched(h)'
    BY <1>1, <1>3 DEF Ahead, BeginStream, Settles
  <2>1. h # request.n /\ Untouched(h)
    BY <1>1 DEF UInv, Ahead
  <2> QED BY <1>2, <2>1 DEF Untouched
<1>5. CASE sends /\ request.used
  <2>1. UNCHANGED <<request, upload>> /\ fetch' = [fetch EXCEPT !.at = "rejected"]
    BY <1>5 DEF BeginStream, Settles
  <2>2. fetch'.at = "rejected" /\ ~Current /\ (Sent => server'[upload.to] = server[upload.to])
    BY <1>1, <1>2, <2>1 DEF UInv, OneUpload, Current, TypeOK
  <2>3. OneUpload' /\ Counted' /\ GivenUp' /\ Awaited'
    BY <1>1, <2>1, <2>2 DEF UInv, OneUpload, Counted, GivenUp, Awaited, Current, Sent, Streaming
  <2>4. UploadsAreWhole'
    BY <1>1, <1>3, <2>1, <2>2 DEF UInv, UploadsAreWhole, Sent
  <2> QED BY <1>1, <1>3, <1>4, <2>3, <2>4 DEF UInv
<1>6. CASE ~(sends /\ request.used)
  <2>1. fetch' = [at |-> "receive", status |-> "none"]
        /\ request' = [request EXCEPT !.used = @ \/ sends]
    BY <1>6 DEF BeginStream
  <2>2. CASE sends
    <3>1. /\ upload' = [at |-> "reading", to |-> request.n, aborted |-> FALSE,
                        settled |-> FALSE, error |-> "none"]
          /\ ~Sent /\ request'.used
      BY <1>6, <2>1, <2>2 DEF BeginStream, UInv, OneUpload, TypeOK
    <3>2. /\ Sent' /\ Streaming' /\ upload'.at = "reading" /\ ~upload'.settled /\ ~upload'.aborted
          /\ upload'.to = request.n /\ upload'.error = "none" /\ fetch'.at = "receive"
          /\ source'.gave = 0
      BY <1>1, <2>1, <3>1 DEF Sent, Streaming, UInv, Counted
    <3>3. server'[request.n].chunks = 0 /\ ~server'[request.n].finished
      BY <1>2, <2>2
    <3>4. OneUpload' /\ Counted' /\ GivenUp' /\ Awaited'
      BY <1>1, <3>1, <3>2, <3>3 DEF OneUpload, Counted, GivenUp, Awaited, Current
    <3>5. UploadsAreWhole'
      BY <1>3, <2>1, <3>2, <3>3 DEF UploadsAreWhole
    <3> QED BY <1>1, <1>3, <1>4, <3>4, <3>5 DEF UInv
  <2>3. CASE ~sends
    <3>1. upload' = upload /\ request'.used = request.used
          /\ (Sent => server'[upload.to] = server[upload.to]) /\ ~Current
      BY <1>1, <1>2, <1>6, <2>1, <2>3 DEF BeginStream, UInv, OneUpload, Current, TypeOK
    <3>2. OneUpload' /\ Counted' /\ GivenUp' /\ Awaited'
      BY <1>1, <1>2, <2>1, <2>3, <3>1
      DEF UInv, OneUpload, Counted, GivenUp, Awaited, Current, Sent, Streaming
    <3>3. UploadsAreWhole'
      BY <1>1, <1>3, <2>1, <3>1 DEF UInv, UploadsAreWhole, Sent
    <3> QED BY <1>1, <1>3, <1>4, <3>2, <3>3 DEF UInv
  <2> QED BY <2>2, <2>3
<1> QED BY <1>5, <1>6

LEMMA AnswersStep ==
    ASSUME NEW status \in Statuses \cup {"failed"}, UInv, Answers(status)
    PROVE  UInv'
<1>1. /\ UNCHANGED <<setting, request, upload, source, server, tardy>>
      /\ fetch.at = "receive" /\ fetch' = [at |-> "received", status |-> status]
  BY DEF Answers
<1>2. setting' \in Settings /\ TypeOK'
  BY <1>1 DEF UInv, TypeOK
<1>3. OneUpload' /\ Ahead' /\ Counted' /\ GivenUp' /\ Awaited'
  BY <1>1
  DEF UInv, OneUpload, Ahead, Counted, GivenUp, Awaited, Current, Sent, Streaming, Untouched,
      Statuses, Redirects
<1>4. UploadsAreWhole'
  BY <1>1, <1>2 DEF UInv, UploadsAreWhole, Sent
<1> QED BY <1>1, <1>2, <1>3, <1>4 DEF UInv

\* What following a redirect, or not, does to the loop.
LEMMA FollowsMoves ==
    ASSUME MaxRedirects \in Nat, TypeOK, Follows
    PROVE  /\ request' \in [n : Hops, method : {"GET", "POST", "PUT"}, body : BOOLEAN,
                            used : BOOLEAN]
           /\ request'.used = request.used
           /\ fetch' \in [at : {"begin", "resolved", "rejected"},
                          status : Statuses \cup {"none", "failed"}]
           /\ fetch'.status = fetch.status
           /\ fetch'.at = "begin" => request'.n = request.n + 1
           /\ fetch'.at # "begin" => request'.n = request.n
           /\ fetch'.at = "begin" => fetch.status \in Redirects
<1>1. /\ request.n \in Hops /\ request.body \in BOOLEAN /\ request.used \in BOOLEAN
      /\ request.method \in {"GET", "POST", "PUT"}
      /\ request = [n |-> request.n, method |-> request.method, body |-> request.body,
                    used |-> request.used]
      /\ fetch.status \in Statuses \cup {"none", "failed"}
      /\ fetch = [at |-> fetch.at, status |-> fetch.status]
  BY DEF TypeOK
<1>2. ASSUME NEW how \in {"resolved", "rejected"}, Settles(how)
      PROVE  /\ fetch'.at = how /\ fetch'.status = fetch.status
             /\ fetch' \in [at : {"begin", "resolved", "rejected"},
                            status : Statuses \cup {"none", "failed"}]
  BY <1>1, <1>2 DEF Settles
<1>3. CASE setting.redirect = "follow" /\ fetch.status \in Redirects
  <2>1. CASE MaxRedirects <= request.n
    <3>1. Settles("rejected") /\ request' = request
      BY <1>3, <2>1 DEF Follows
    <3> QED BY <1>1, <1>2, <3>1
  <2>2. CASE ~(MaxRedirects <= request.n) /\ fetch.status = "no location"
    <3>1. Settles("resolved") /\ request' = request
      BY <1>3, <2>2 DEF Follows
    <3> QED BY <1>1, <1>2, <3>1
  <2>3. CASE ~(MaxRedirects <= request.n) /\ fetch.status # "no location"
    <3>1. request.n + 1 \in Hops
      <4>1. request.n \in 0 .. MaxRedirects
        BY <1>1 DEF Hops
      <4>2. ~(MaxRedirects <= request.n)
        BY <2>3
      <4> QED BY <4>1, <4>2 DEF Hops
    <3>2. /\ Redirected.n = request.n + 1 /\ Redirected.used = request.used
          /\ Redirected \in [n : Hops, method : {"GET", "POST", "PUT"}, body : BOOLEAN,
                             used : BOOLEAN]
      BY <1>1, <3>1 DEF Redirected
    <3>3. fetch' = [fetch EXCEPT !.at = "begin"] /\ request' = Redirected
      BY <1>3, <2>3 DEF Follows, Settles
    <3> QED BY <1>1, <1>3, <3>2, <3>3
  <2> QED BY <2>1, <2>2, <2>3
<1>4. CASE ~(setting.redirect = "follow" /\ fetch.status \in Redirects)
  <2>1. \E how \in {"resolved", "rejected"} : Settles(how) /\ request' = request
    BY <1>4 DEF Follows
  <2> QED BY <1>1, <1>2, <2>1
<1> QED BY <1>3, <1>4

LEMMA ReceivedStep ==
    ASSUME MaxRedirects \in Nat, MaxChunks \in Nat, UInv, Received
    PROVE  UInv'
<1>1. /\ UNCHANGED <<setting, source, server, tardy>> /\ fetch.at = "received"
      /\ request.n \in Nat /\ setting \in Settings /\ TypeOK
  BY DEF Received, UInv, TypeOK, Hops
<1>2. CASE Follows /\ (fetch.status \in Redirects \/ ~Streaming)
           /\ upload' = (IF Streaming THEN [upload EXCEPT !.aborted = TRUE] ELSE upload)
           /\ UploadError # "source"
  <2>1. /\ upload' \in Uploads /\ (Sent => Streaming /\ upload'.aborted)
        /\ upload'.at = upload.at /\ upload'.to = upload.to /\ upload'.settled = upload.settled
        /\ upload'.error = upload.error /\ upload'.to \in Nat
        /\ upload.aborted => upload'.aborted
    <3>1. upload \in Uploads /\ (Sent => Streaming) /\ Hops \subseteq Nat
      BY <1>1 DEF Uploads, TypeOK, UInv, OneUpload, Hops
    <3>2. CASE Streaming
      BY <1>2, <3>1, <3>2 DEF Uploads
    <3>3. CASE ~Streaming
      BY <1>2, <3>1, <3>3 DEF Uploads
    <3> QED BY <3>2, <3>3
  <2>2. /\ fetch'.at \in {"begin", "resolved", "rejected"}
        /\ request'.used = request.used
        /\ \/ fetch'.at = "begin" /\ request'.n = request.n + 1
           \/ fetch'.at # "begin" /\ request'.n = request.n
        /\ fetch'.status = fetch.status
    BY <1>1, <1>2, FollowsMoves
  <2>3. TypeOK'
    BY <1>1, <1>2, <2>1, FollowsMoves DEF TypeOK, Uploads
  <2>4. OneUpload' /\ Counted' /\ GivenUp' /\ Awaited'
    BY <1>1, <2>1, <2>2
    DEF UInv, OneUpload, Counted, GivenUp, Awaited, Current, Sent, Streaming
  <2>5. Ahead'
    BY <1>1, <2>2 DEF UInv, Ahead, Untouched, Hops
  <2>6. fetch' = [at |-> "resolved", status |-> "other"] => server[request.n].finished
    <3> SUFFICES ASSUME fetch' = [at |-> "resolved", status |-> "other"]
                 PROVE  server[request.n].finished
      OBVIOUS
    <3>1. fetch.status = "other"
      BY <2>2
    <3>2. ~Streaming
      BY <1>2, <3>1 DEF Redirects
    <3> QED BY <1>1, <2>1, <3>2 DEF UInv, Awaited, Current
  <2>7. upload.error = "source" /\ upload.settled => tardy
    BY <1>2, <2>1 DEF UInv, OneUpload, UploadsAreWhole, UploadError, Sent
  <2>8. UploadsAreWhole'
    BY <1>1, <2>1, <2>2, <2>3, <2>6, <2>7 DEF UInv, UploadsAreWhole, Sent
  <2> QED BY <1>1, <2>3, <2>4, <2>5, <2>8 DEF UInv
<1>3. ASSUME NEW how \in {"rejected", "await"}, Settles(how), UNCHANGED <<request, upload>>,
             how = "await" => Streaming /\ fetch.status = "other"
      PROVE  UInv'
  <2>1. fetch' \in [at : {how}, status : Statuses \cup {"none", "failed"}]
        /\ fetch'.at = how /\ fetch'.status = fetch.status
    BY <1>1, <1>3 DEF Settles, TypeOK
  <2>2. TypeOK'
    BY <1>1, <1>3, <2>1 DEF TypeOK
  <2>3. OneUpload' /\ Ahead' /\ Counted' /\ GivenUp' /\ Awaited'
    BY <1>1, <1>3, <2>1
    DEF UInv, OneUpload, Ahead, Counted, GivenUp, Awaited, Current, Sent, Streaming, Untouched
  <2>4. UploadsAreWhole'
    BY <1>1, <1>3, <2>1, <2>2 DEF UInv, UploadsAreWhole, Sent
  <2> QED BY <1>1, <2>2, <2>3, <2>4 DEF UInv
<1>4. fetch.status # "none" /\ fetch.status \in Statuses \cup {"none", "failed"}
  BY <1>1 DEF UInv, Awaited, TypeOK
<1>5. CASE fetch.status = "failed"
  BY <1>3, <1>5 DEF Received
<1>6. CASE fetch.status # "failed" /\ ~Streaming
  BY <1>2, <1>6 DEF Received, UploadError
<1>7. CASE fetch.status # "failed" /\ Streaming
  <2>1. CASE fetch.status \in Redirects /\ UploadError = "source"
    BY <1>3, <1>7, <2>1 DEF Received
  <2>2. CASE fetch.status \in Redirects /\ UploadError # "source"
    BY <1>2, <1>7, <2>2 DEF Received
  <2>3. CASE fetch.status \notin Redirects
    BY <1>3, <1>4, <1>7, <2>3 DEF Received, Statuses
  <2> QED BY <2>1, <2>2, <2>3
<1> QED BY <1>5, <1>6, <1>7

LEMMA BodyAwaitedStep ==
    ASSUME MaxRedirects \in Nat, MaxChunks \in Nat, UInv, BodyAwaited
    PROVE  UInv'
<1>1. /\ UNCHANGED <<setting, upload, source, server, tardy>> /\ fetch.at = "await"
      /\ request.n \in Nat /\ setting \in Settings /\ TypeOK
      /\ Streaming /\ fetch.status = "other" /\ ~Uploading
  BY DEF BodyAwaited, UInv, TypeOK, Hops, Awaited
<1>2. /\ UNCHANGED request
      /\ \/ Settles("rejected") /\ UploadError # "none"
         \/ Settles("resolved") /\ UploadError = "none"
  BY <1>1 DEF BodyAwaited, Follows, Redirects
<1>3. /\ fetch' \in [at : {"begin", "receive", "received", "await", "resolved", "rejected"},
                     status : Statuses \cup {"none", "failed"}]
      /\ fetch'.at \in {"rejected", "resolved"} /\ fetch'.status = "other"
      /\ fetch'.at = "resolved" => UploadError = "none"
  BY <1>1, <1>2 DEF Settles, TypeOK
<1>4. TypeOK'
  BY <1>1, <1>2, <1>3 DEF TypeOK
<1>5. Current => upload.settled /\ upload.at = "settled" /\ ~upload.aborted
  BY <1>1 DEF UInv, OneUpload, GivenUp, Uploading, Current, Sent
<1>6. OneUpload' /\ Ahead' /\ Counted' /\ GivenUp' /\ Awaited'
  BY <1>1, <1>2, <1>3, <1>5
  DEF UInv, OneUpload, Ahead, Counted, GivenUp, Awaited, Current, Sent, Streaming, Untouched
<1>7. UploadError = "none" => server[request.n].finished
  BY <1>1, <1>5 DEF UInv, Awaited, Counted, UploadError, Current
<1>8. UploadsAreWhole'
  BY <1>1, <1>2, <1>3, <1>4, <1>5, <1>7 DEF UInv, UploadsAreWhole, UploadError, Sent, Current,
     OneUpload
<1> QED BY <1>1, <1>4, <1>6, <1>8 DEF UInv

-----------------------------------------------------------------------------
(* sendBody().                                                                *)

\* A step of the upload leaves the loop alone, and the other requests.
LEMMA UploadFrame ==
    ASSUME MaxRedirects \in Nat, UInv, Sent, TypeOK', Counted',
           UNCHANGED <<setting, request, fetch>>,
           upload'.at # "none",
           upload'.to = upload.to,
           upload'.aborted = upload.aborted,
           upload'.settled <=> upload'.at = "settled",
           upload.settled => upload'.settled,
           \A h \in Hops : h # upload.to => server'[h] = server[h],
           server[upload.to].finished => server'[upload.to].finished,
           upload'.error = "source" /\ upload'.settled /\ ~tardy' =>
                Current /\ fetch.at # "resolved"
    PROVE  UInv'
<1>1. request.n \in Hops /\ upload.to \in Hops /\ Hops \subseteq Nat
  BY DEF UInv, TypeOK, Hops
<1>2. OneUpload'
  BY DEF UInv, OneUpload, Current, Sent, Streaming
<1>3. Ahead'
  <2> SUFFICES ASSUME NEW h \in Hops, h > request.n \/ (h = request.n /\ fetch.at = "begin")
               PROVE  Untouched(h)'
    BY DEF Ahead
  <2>1. h \in Nat /\ request.n \in Nat /\ upload.to \in Nat
    BY <1>1
  <2>2. h # upload.to
    BY <2>1 DEF UInv, OneUpload, Current
  <2>3. Untouched(h)
    BY DEF UInv, Ahead
  <2> QED BY <2>2, <2>3 DEF Untouched
<1>4. GivenUp'
  BY DEF UInv, GivenUp, Current, Sent
<1>5. Awaited'
  BY <1>1 DEF UInv, Awaited, Current, Sent, Streaming
<1>6. UploadsAreWhole'
  BY <1>1 DEF UInv, UploadsAreWhole, Counted, Current, Sent
<1>7. setting' \in Settings
  BY DEF UInv
<1> QED BY <1>2, <1>3, <1>4, <1>5, <1>6, <1>7 DEF UInv

LEMMA SourceStep ==
    ASSUME MaxRedirects \in Nat, MaxChunks \in Nat, UInv, SourceGives \/ SourceEnds \/ SourceFails
    PROVE  UInv'
<1>1. /\ upload.at = "reading" /\ Sent /\ ~upload.settled
      /\ UNCHANGED <<setting, request, fetch, tardy, server>>
  BY DEF SourceGives, SourceEnds, SourceFails, sendUnchanged, Sent, UInv, OneUpload
<1>2. PICK at \in {"value", "end", "broken"} : upload' = [upload EXCEPT !.at = at]
  BY DEF SourceGives, SourceEnds, SourceFails
<1>3. /\ upload'.at = at /\ upload'.to = upload.to /\ upload'.aborted = upload.aborted
      /\ upload'.settled = upload.settled /\ upload' \in Uploads
  BY <1>2 DEF UInv, TypeOK, Uploads
<1>4. /\ source' \in [gave : 0 .. MaxChunks, canceled : BOOLEAN]
      /\ at = "value" => source'.gave = source.gave + 1
      /\ at # "value" => source' = source
  <2>1. source \in [gave : 0 .. MaxChunks, canceled : BOOLEAN]
    BY DEF UInv, TypeOK
  <2>2. CASE SourceGives
    <3>1. /\ source.gave < MaxChunks /\ source' = [source EXCEPT !.gave = @ + 1]
          /\ upload' = [upload EXCEPT !.at = "value"]
      BY <2>2 DEF SourceGives
    <3>2. source.gave + 1 \in 0 .. MaxChunks /\ at = "value"
      BY <1>2, <1>3, <2>1, <3>1 DEF UInv, TypeOK
    <3> QED BY <2>1, <3>1, <3>2
  <2>3. CASE SourceEnds \/ SourceFails
    <3>1. /\ source' = source
          /\ upload' = [upload EXCEPT !.at = "end"] \/ upload' = [upload EXCEPT !.at = "broken"]
      BY <2>3 DEF SourceEnds, SourceFails
    <3>2. at # "value"
      BY <1>3, <3>1 DEF UInv, TypeOK
    <3> QED BY <2>1, <3>1, <3>2
  <2> QED BY <2>2, <2>3
<1>5. TypeOK'
  BY <1>1, <1>3, <1>4 DEF UInv, TypeOK, Uploads
<1>6. Counted'
  BY <1>1, <1>3, <1>4 DEF UInv, Counted, Sent
<1> QED BY <1>1, <1>3, <1>5, <1>6, UploadFrame

LEMMA ServerTakesStep ==
    ASSUME MaxRedirects \in Nat, MaxChunks \in Nat, UInv, ServerTakes
    PROVE  UInv'
<1>1. /\ upload.at = "writing" /\ Sent /\ ~upload.settled
      /\ UNCHANGED <<setting, request, fetch, tardy, source>>
      /\ upload \in Uploads /\ source.gave \in 0 .. MaxChunks /\ upload.to \in Hops
      /\ server \in [Hops -> [method : {"none", "GET", "POST", "PUT"}, chunks : 0 .. MaxChunks,
                              finished : BOOLEAN]]
  BY DEF ServerTakes, sendUnchanged, Sent, UInv, OneUpload, TypeOK, Uploads
<1>2. PICK at \in {"written", "refused"} : upload' = [upload EXCEPT !.at = at]
  BY DEF ServerTakes
<1>3. /\ upload'.at = at /\ upload'.to = upload.to /\ upload'.aborted = upload.aborted
      /\ upload'.settled = upload.settled /\ upload' \in Uploads
  BY <1>1, <1>2 DEF Uploads
<1>4. /\ server[upload.to].chunks + 1 = source.gave /\ ~server[upload.to].finished
  BY <1>1 DEF UInv, Counted
<1>5. /\ server' \in [Hops -> [method : {"none", "GET", "POST", "PUT"}, chunks : 0 .. MaxChunks,
                               finished : BOOLEAN]]
      /\ \A h \in Hops : h # upload.to => server'[h] = server[h]
      /\ ~server'[upload.to].finished
      /\ at = "written" => server'[upload.to].chunks = source.gave
  <2>1. CASE server' = server /\ at = "refused"
    BY <1>1, <1>4, <2>1
  <2>2. CASE server' = [server EXCEPT ![upload.to].chunks = @ + 1]
    BY <1>1, <1>4, <2>2
  <2>3. \/ server' = server /\ upload' = [upload EXCEPT !.at = "refused"]
        \/ server' = [server EXCEPT ![upload.to].chunks = @ + 1]
    BY DEF ServerTakes
  <2>4. upload' = [upload EXCEPT !.at = "refused"] => at = "refused"
    BY <1>1, <1>3 DEF Uploads
  <2> QED BY <2>1, <2>2, <2>3, <2>4
<1>6. TypeOK'
  BY <1>1, <1>3, <1>5 DEF UInv, TypeOK, Uploads
<1>7. Counted'
  BY <1>1, <1>3, <1>5 DEF Counted, Sent
<1> QED BY <1>1, <1>3, <1>4, <1>5, <1>6, <1>7, UploadFrame

LEMMA UploadSettlesStep ==
    ASSUME MaxRedirects \in Nat, MaxChunks \in Nat, UInv, UploadSettles
    PROVE  UInv'
<1>1. /\ upload.at = "returned" /\ Sent /\ ~upload.settled
      /\ UNCHANGED <<setting, request, fetch, server, source>>
      /\ upload' = [upload EXCEPT !.at = "settled", !.settled = TRUE]
      /\ upload \in Uploads /\ tardy' = upload.aborted
  BY DEF UploadSettles, Sent, UInv, OneUpload, TypeOK, Uploads
<1>2. /\ upload'.at = "settled" /\ upload'.to = upload.to /\ upload'.aborted = upload.aborted
      /\ upload'.settled /\ upload'.error = upload.error /\ upload' \in Uploads
  BY <1>1 DEF Uploads
<1>3. TypeOK'
  BY <1>1, <1>2 DEF UInv, TypeOK, Uploads
<1>4. Counted'
  BY <1>1, <1>2 DEF UInv, Counted, Sent
<1>5. ~tardy' => Current /\ fetch.at # "resolved"
  BY <1>1 DEF UInv, GivenUp
<1> QED BY <1>1, <1>2, <1>3, <1>4, <1>5, UploadFrame

LEMMA UploadGoesOnStep ==
    ASSUME MaxRedirects \in Nat, MaxChunks \in Nat, UInv, UploadGoesOn
    PROVE  UInv'
<1>1. /\ UNCHANGED <<setting, request, fetch, tardy>>
      /\ upload \in Uploads /\ source \in [gave : 0 .. MaxChunks, canceled : BOOLEAN]
      /\ upload.to \in Hops
      /\ server \in [Hops -> [method : {"none", "GET", "POST", "PUT"}, chunks : 0 .. MaxChunks,
                              finished : BOOLEAN]]
  BY DEF UploadGoesOn, sendUnchanged, UInv, TypeOK, Uploads
<1>2. upload.at \in {"value", "written", "broken", "refused", "end"} /\ Sent /\ ~upload.settled
  BY DEF UploadGoesOn, UInv, OneUpload, Sent
<1>3. source' \in [gave : 0 .. MaxChunks, canceled : BOOLEAN] /\ source'.gave = source.gave
  BY <1>1 DEF UploadGoesOn
<1>4. ~server[upload.to].finished
  BY <1>2 DEF UInv, Counted
<1>5. /\ server' \in [Hops -> [method : {"none", "GET", "POST", "PUT"}, chunks : 0 .. MaxChunks,
                               finished : BOOLEAN]]
      /\ \A h \in Hops : h # upload.to => server'[h] = server[h]
      /\ server'[upload.to].chunks = server[upload.to].chunks
  <2>1. server' = server \/ server' = [server EXCEPT ![upload.to].finished = TRUE]
    BY DEF UploadGoesOn
  <2>2. CASE server' = server
    BY <1>1, <2>2
  <2>3. CASE server' = [server EXCEPT ![upload.to].finished = TRUE]
    BY <1>1, <2>3
  <2> QED BY <2>1, <2>2, <2>3
<1>6. CASE /\ upload.at \in {"value", "written"} /\ server' = server
           /\ upload' = [upload EXCEPT !.at = IF @ = "value" THEN "writing" ELSE "reading"]
  <2>1. /\ upload'.at = (IF upload.at = "value" THEN "writing" ELSE "reading")
        /\ upload'.to = upload.to /\ upload'.aborted = upload.aborted
        /\ upload'.settled = upload.settled /\ upload' \in Uploads
    BY <1>1, <1>6 DEF Uploads
  <2>2. TypeOK'
    BY <1>1, <1>3, <1>5, <2>1 DEF UInv, TypeOK, Uploads
  <2>3. Counted'
    BY <1>2, <1>3, <1>4, <1>6, <2>1 DEF UInv, Counted, Sent
  <2> QED BY <1>1, <1>2, <1>4, <1>5, <1>6, <2>1, <2>2, <2>3, UploadFrame
<1>7. ASSUME NEW error \in {"none", "source", "transport"}, Returns(error),
             server'[upload.to].finished => upload.at = "end",
             error = "none" => server'[upload.to].finished \/ upload.aborted
      PROVE  UInv'
  <2>1. /\ upload'.at = "returned" /\ upload'.error = error
        /\ upload'.to = upload.to /\ upload'.aborted = upload.aborted
        /\ upload'.settled = upload.settled /\ upload' \in Uploads
    BY <1>1, <1>7 DEF Uploads, Returns
  <2>2. TypeOK'
    BY <1>1, <1>3, <1>5, <2>1 DEF UInv, TypeOK, Uploads
  <2>3. Counted'
    BY <1>2, <1>3, <1>4, <1>5, <1>7, <2>1 DEF UInv, Counted, Sent
  <2> QED BY <1>1, <1>2, <1>4, <1>5, <2>1, <2>2, <2>3, UploadFrame
<1>8. CASE upload.at \in {"value", "written"}
  <2>1. CASE upload.aborted
    BY <1>4, <1>7, <1>8, <2>1 DEF UploadGoesOn
  <2>2. CASE ~upload.aborted
    BY <1>6, <1>8, <2>2 DEF UploadGoesOn
  <2> QED BY <2>1, <2>2
<1>9. CASE upload.at \in {"broken", "refused"}
  <2>1. /\ server' = server
        /\ Returns(IF upload.aborted THEN "none"
                   ELSE IF upload.at = "broken" THEN "source" ELSE "transport")
    BY <1>9 DEF UploadGoesOn
  <2> QED BY <1>4, <1>7, <2>1
<1>10. CASE upload.at = "end"
  <2>1. CASE server' = server /\ Returns("none") /\ upload.aborted
    BY <1>4, <1>7, <2>1
  <2>2. CASE server' = server /\ Returns("transport")
    BY <1>4, <1>7, <2>2
  <2>3. CASE server' = [server EXCEPT ![upload.to].finished = TRUE] /\ Returns("none")
    <3>1. server'[upload.to].finished
      BY <1>1, <2>3
    <3> QED BY <1>7, <1>10, <2>3, <3>1
  <2> QED BY <1>10, <2>1, <2>2, <2>3 DEF UploadGoesOn
<1> QED BY <1>2, <1>8, <1>9, <1>10

-----------------------------------------------------------------------------
LEMMA NextUInv ==
    ASSUME MaxRedirects \in Nat, MaxChunks \in Nat, UInv, [Next]_vars
    PROVE  UInv'
<1>1. CASE Jobs
  BY <1>1, BeginBytesStep, BeginStreamStep, ReceivedStep, BodyAwaitedStep, UploadGoesOnStep,
     UploadSettlesStep DEF Jobs
<1>2. CASE Responds
  BY <1>2, AnswersStep DEF Responds
<1>3. CASE ServerTakes
  BY <1>3, ServerTakesStep
<1>4. CASE SourceGives \/ SourceEnds \/ SourceFails
  BY <1>4, SourceStep
<1>5. CASE UNCHANGED vars
  BY <1>5 DEF vars, UInv, TypeOK, OneUpload, Ahead, Counted, GivenUp, Awaited, UploadsAreWhole,
              Untouched, Current, Sent, Streaming
<1> QED BY <1>1, <1>2, <1>3, <1>4, <1>5 DEF Next

\* However many redirects come and chunks the stream gives: the body a server sees finished
\* has all of them, a response that is no redirect has had its request's body, and an error
\* of the stream that was there when a redirect came is fetch()'s.
THEOREM UploadsWhole ==
    ASSUME MaxRedirects \in Nat, MaxChunks \in Nat
    PROVE  Spec => []UploadsAreWhole
<1>1. Init => UInv
  BY InitUInv
<1>2. UInv /\ [Next]_vars => UInv'
  BY NextUInv
<1>3. UInv => UploadsAreWhole
  BY DEF UInv
<1> QED BY <1>1, <1>2, <1>3, PTL DEF Spec

-----------------------------------------------------------------------------
(* A Readable stream.                                                         *)

Closing == {"emitClose", "emitErrorClose"}
ProgramSteps == {"program", "unpipe", "pipe resumes", "destroy"}
FirstSteps == {"push", "endReadableNT", "emitErrorClose"}
SpecialSteps == FirstSteps \cup {"write", "emitClose"}
PlainSteps ==
    {"_read", "syncOff", "maybeReadMore", "maybeReadMore_", "emitReadable_", "emitted",
     "afterReadable", "flow", "reads", "resume_", "resumed", "read on",
     "updateReadableListening", "ondrain", "full"}

Steps ==
    {<<x>> : x \in PlainSteps \cup {"program", "unpipe", "pipe resumes", "emitClose",
                                    "emitErrorClose", "endReadableNT"}}
    \cup ({"push", "write"} \X (1 .. Readable!End)) \cup ({"read", "take"} \X {0, 1})
    \cup ({"again"} \X {"flow", "reads"}) \cup ({"read more"} \X Nat)
    \cup ({"return"} \X (0 .. MaxChunks)) \cup ({"destroy"} \X BOOLEAN)

Tristate == {"null", "true", "false"}
States ==
    [flowing : Tristate, paused : Tristate, buffer : Seq(Readable!Chunks), ended : BOOLEAN,
     endEmitted : BOOLEAN, reading : BOOLEAN, sync : BOOLEAN, needReadable : BOOLEAN,
     emittedReadable : BOOLEAN, readableListening : BOOLEAN, resumeScheduled : BOOLEAN,
     readingMore : BOOLEAN, destroyed : BOOLEAN, errored : BOOLEAN, errorEmitted : BOOLEAN,
     closeEmitted : BOOLEAN]
Pipes == [awaits : BOOLEAN, ondrain : BOOLEAN, hears : BOOLEAN, needDrain : BOOLEAN]

TypeInv ==
    /\ highWaterMark \in HighWaterMarks /\ listens \subseteq {"data", "pipe", "readable"}
    /\ r \in States /\ pipe \in Pipes
    /\ readStack \in Seq(Steps) /\ readTicks \in Seq(Steps)
    /\ result \in 0 .. MaxChunks /\ readOwed \in BOOLEAN /\ readAsked \in 0 .. MaxReadCalls
    /\ got \in Seq(Readable!Chunks) /\ dest \in Seq(1 .. Readable!End)
         /\ pushed \in Seq(1 .. Readable!End)
    /\ readEvents \in Seq({"end", "error", "close"})

\* A step with one of these names is among the steps s.
Has(s, names) == \E i \in 1 .. Len(s) : s[i][1] \in names
Once(s, names) ==
    \A i, j \in 1 .. Len(s) : s[i][1] \in names /\ s[j][1] \in names => i = j

\* Some steps run first only; above a write() to the destination there is only what the
\* program calls, and what is written is the chunk that left last, of n that left.
Shape(s, n) ==
    /\ \A i \in 2 .. Len(s) : s[i][1] \notin FirstSteps
    /\ \A i \in 1 .. Len(s) : s[i][1] = "write" =>
          s[i][2] = n /\ \A j \in 1 .. i - 1 : s[j][1] \in ProgramSteps

StackInv ==
    /\ Shape(readStack, Len(got))
    /\ Has(readStack, {"write"}) => ~pipe.awaits /\ ~r.endEmitted
    /\ ~Has(readTicks, {"push", "write"})

PushesChunk == Readable!Doing({"push"}) /\ Head(readStack)[2] # Readable!End
Least == IF Len(pushed) = Readable!End THEN MaxChunks ELSE Len(pushed)
OnItsWay == Len(got) + Len(r.buffer) + (IF PushesChunk THEN 1 ELSE 0)

\* The chunks that left, those in the buffer and the one being pushed are those that were
\* pushed, until the stream is destroyed.
BufferInv ==
    /\ \A i \in 1 .. Len(got) : got[i] = i
    /\ \A i \in 1 .. Len(r.buffer) : r.buffer[i] = Len(got) + i
    /\ OnItsWay <= Least
    /\ ~r.destroyed => OnItsWay = Least
    /\ Len(pushed) <= Readable!End
    /\ Readable!Doing({"push"}) => Head(readStack)[2] = Len(pushed)
    /\ r.ended => Len(pushed) = Readable!End
    /\ r.errored => r.destroyed

AllLeft == Len(got) = MaxChunks /\ Len(pushed) = Readable!End
Tell(event) == \E i \in 1 .. Len(readEvents) : readEvents[i] = event

\* What the events say is what the state says.
EventsInv ==
    /\ Readable!IsInjective(readEvents)
    /\ r.endEmitted <=> Tell("end")
    /\ r.errorEmitted <=> Tell("error")
    /\ r.closeEmitted <=> Tell("close")
    /\ r.closeEmitted => readEvents[Len(readEvents)] = "close"
    /\ r.endEmitted => AllLeft

\* A stream that is destroyed closes once: its close is queued, under way or done.
CloseInv ==
    /\ Has(readStack, Closing) \/ Has(readTicks, Closing) => r.destroyed /\ ~r.closeEmitted
    /\ Has(readTicks, Closing) => ~r.errorEmitted /\ ~Has(readStack, Closing)
    /\ Once(readTicks, Closing) /\ Once(readStack, Closing)
    /\ Has(readStack, {"emitErrorClose"}) => ~r.errorEmitted
    /\ r.destroyed => r.closeEmitted \/ r.errorEmitted \/ Has(readStack, Closing)
         \/ Has(readTicks, Closing)
    /\ r.closeEmitted \/ r.errorEmitted => r.destroyed

\* An end that is to be told comes when everything has left, or behind the close.
Closed == r.closeEmitted \/ r.errorEmitted \/ Has(readStack, Closing)
EndsInv ==
    /\ Readable!Doing({"endReadableNT"}) => AllLeft \/ r.closeEmitted \/ r.errorEmitted
    /\ \A j \in 1 .. Len(readTicks) : readTicks[j][1] = "endReadableNT" =>
          AllLeft \/ Closed \/ \E i \in 1 .. j - 1 : readTicks[i][1] \in Closing

\* The destination has what left since the pipe began, but for the chunk being written.
Written == Len(got) - (IF Has(readStack, {"write"}) THEN 1 ELSE 0)
PipeInv ==
    /\ \A m, n \in 1 .. Len(dest) : m < n => dest[m] < dest[n]
    /\ \A m \in 1 .. Len(dest) : dest[m] <= Written \/ (dest[m] = Readable!End /\ r.endEmitted)
    /\ "pipe" \in listens /\ ~r.endEmitted =>
          \A m \in 1 .. Len(dest) : dest[m] = Written - Len(dest) + m
    /\ dest # <<>> /\ dest[Len(dest)] = Readable!End =>
          \A m \in 1 .. Len(dest) - 1 : dest[m] = Len(got) - Len(dest) + 1 + m

ReadInv ==
    /\ TypeInv /\ StackInv /\ BufferInv /\ EventsInv /\ CloseInv /\ EndsInv /\ PipeInv

-----------------------------------------------------------------------------
(* The stack.                                                                *)

LEMMA Concat ==
    ASSUME NEW p \in Seq(Steps), NEW t \in Seq(Steps)
    PROVE  /\ p \o t \in Seq(Steps) /\ Len(p \o t) = Len(p) + Len(t)
           /\ \A i \in 1 .. Len(p) : (p \o t)[i] = p[i]
           /\ \A i \in 1 .. Len(t) : (p \o t)[Len(p) + i] = t[i]
           /\ \A i \in 1 .. Len(p \o t) :
                  (i \in 1 .. Len(p) /\ (p \o t)[i] = p[i])
                  \/ (i - Len(p) \in 1 .. Len(t) /\ (p \o t)[i] = t[i - Len(p)])
  OBVIOUS

LEMMA ConcatHas ==
    ASSUME NEW p \in Seq(Steps), NEW t \in Seq(Steps), NEW N
    PROVE  /\ Has(p \o t, N) <=> Has(p, N) \/ Has(t, N)
           /\ Once(t, N) /\ ~Has(p, N) => Once(p \o t, N)
           /\ Once(p, N) /\ ~Has(t, N) => Once(p \o t, N)
  <1>1. Has(p \o t, N) => Has(p, N) \/ Has(t, N)
    BY Concat DEF Has
  <1>2. Has(p, N) => Has(p \o t, N)
    BY Concat DEF Has
  <1>3. ASSUME Has(t, N) PROVE Has(p \o t, N)
    <2>1. PICK i \in 1 .. Len(t) : t[i][1] \in N
      BY <1>3 DEF Has
    <2>2. Len(p) + i \in 1 .. Len(p \o t) /\ (p \o t)[Len(p) + i] = t[i]
      BY Concat
    <2> QED BY <2>1, <2>2 DEF Has
  <1>4. ASSUME Once(t, N), ~Has(p, N) PROVE Once(p \o t, N)
    <2> SUFFICES ASSUME NEW i \in 1 .. Len(p \o t), NEW j \in 1 .. Len(p \o t),
                        (p \o t)[i][1] \in N, (p \o t)[j][1] \in N
                 PROVE  i = j
      BY DEF Once
    <2>1. i - Len(p) \in 1 .. Len(t) /\ t[i - Len(p)][1] \in N
      BY <1>4, Concat DEF Has
    <2>2. j - Len(p) \in 1 .. Len(t) /\ t[j - Len(p)][1] \in N
      BY <1>4, Concat DEF Has
    <2> QED BY <1>4, <2>1, <2>2 DEF Once
  <1>5. ASSUME Once(p, N), ~Has(t, N) PROVE Once(p \o t, N)
    <2> SUFFICES ASSUME NEW i \in 1 .. Len(p \o t), NEW j \in 1 .. Len(p \o t),
                        (p \o t)[i][1] \in N, (p \o t)[j][1] \in N
                 PROVE  i = j
      BY DEF Once
    <2>1. i \in 1 .. Len(p) /\ p[i][1] \in N
      BY <1>5, Concat DEF Has
    <2>2. j \in 1 .. Len(p) /\ p[j][1] \in N
      BY <1>5, Concat DEF Has
    <2> QED BY <1>5, <2>1, <2>2 DEF Once
  <1> QED BY <1>1, <1>2, <1>3, <1>4, <1>5

LEMMA Heads ==
    ASSUME NEW s \in Seq(Steps), s # <<>>
    PROVE  /\ Tail(s) \in Seq(Steps) /\ Len(Tail(s)) = Len(s) - 1 /\ Len(s) \in Nat \ {0}
           /\ Head(s) = s[1] /\ s[1] \in Steps
           /\ \A i \in 1 .. Len(s) - 1 : Tail(s)[i] = s[i + 1]
           /\ s = <<Head(s)>> \o Tail(s)
  OBVIOUS

\* What is under the head.
LEMMA TailHas ==
    ASSUME NEW s \in Seq(Steps), s # <<>>, NEW N
    PROVE  /\ Has(s, N) <=> Head(s)[1] \in N \/ Has(Tail(s), N)
           /\ Once(s, N) => Once(Tail(s), N)
           /\ Once(s, N) /\ Head(s)[1] \in N => ~Has(Tail(s), N)
  <1> USE Heads
  <1>1. Has(s, N) => Head(s)[1] \in N \/ Has(Tail(s), N)
    <2> SUFFICES ASSUME NEW i \in 1 .. Len(s), s[i][1] \in N, Head(s)[1] \notin N
                 PROVE  Has(Tail(s), N)
      BY DEF Has
    <2>1. i - 1 \in 1 .. Len(Tail(s)) /\ Tail(s)[i - 1] = s[i]
      OBVIOUS
    <2> QED BY <2>1 DEF Has
  <1>2. Head(s)[1] \in N \/ Has(Tail(s), N) => Has(s, N)
    <2>1. \A i \in 1 .. Len(Tail(s)) : i + 1 \in 1 .. Len(s) /\ Tail(s)[i] = s[i + 1]
      OBVIOUS
    <2>2. 1 \in 1 .. Len(s)
      OBVIOUS
    <2> QED BY <2>1, <2>2 DEF Has
  <1>3. ASSUME Once(s, N) PROVE Once(Tail(s), N)
    <2> SUFFICES ASSUME NEW i \in 1 .. Len(Tail(s)), NEW j \in 1 .. Len(Tail(s)),
                        Tail(s)[i][1] \in N, Tail(s)[j][1] \in N
                 PROVE  i = j
      BY DEF Once
    <2>1. i + 1 \in 1 .. Len(s) /\ j + 1 \in 1 .. Len(s) /\ s[i + 1][1] \in N /\ s[j + 1][1] \in N
      OBVIOUS
    <2> QED BY <1>3, <2>1 DEF Once
  <1>4. ASSUME Once(s, N), Head(s)[1] \in N PROVE ~Has(Tail(s), N)
    <2> SUFFICES ASSUME NEW i \in 1 .. Len(Tail(s)), Tail(s)[i][1] \in N PROVE FALSE
      BY DEF Has
    <2>1. i + 1 \in 1 .. Len(s) /\ s[i + 1][1] \in N /\ 1 \in 1 .. Len(s) /\ s[1][1] \in N
      BY <1>4
    <2> QED BY <1>4, <2>1 DEF Once
  <1> QED BY <1>1, <1>2, <1>3, <1>4

LEMMA TailKeeps ==
    ASSUME NEW s \in Seq(Steps), s # <<>>, NEW n, Shape(s, n), NEW N
    PROVE  /\ Has(s, N) <=> Head(s)[1] \in N \/ Has(Tail(s), N)
           /\ Once(s, N) => Once(Tail(s), N)
           /\ Once(s, N) /\ Head(s)[1] \in N => ~Has(Tail(s), N)
           /\ Shape(Tail(s), n) /\ ~Has(Tail(s), FirstSteps)
           /\ Head(s)[1] \notin ProgramSteps => ~Has(Tail(s), {"write"})
  <1> USE Heads
  <1>5. ~Has(Tail(s), FirstSteps)
    <2>1. \A i \in 1 .. Len(Tail(s)) : i + 1 \in 2 .. Len(s) /\ Tail(s)[i] = s[i + 1]
      OBVIOUS
    <2> QED BY <2>1 DEF Has, Shape
  <1>6. Shape(Tail(s), n)
    <2>1. \A i \in 2 .. Len(Tail(s)) : Tail(s)[i][1] \notin FirstSteps
      BY <1>5 DEF Has
    <2>2. ASSUME NEW i \in 1 .. Len(Tail(s)), Tail(s)[i][1] = "write"
          PROVE  Tail(s)[i][2] = n /\ \A j \in 1 .. i - 1 : Tail(s)[j][1] \in ProgramSteps
      <3>1. i + 1 \in 1 .. Len(s) /\ Tail(s)[i] = s[i + 1] /\ s[i + 1][1] = "write"
        BY <2>2
      <3>2. s[i + 1][2] = n /\ \A j \in 1 .. i : s[j][1] \in ProgramSteps
        BY <3>1 DEF Shape
      <3>3. \A j \in 1 .. i - 1 : j + 1 \in 1 .. i /\ Tail(s)[j] = s[j + 1]
        OBVIOUS
      <3> QED BY <3>1, <3>2, <3>3
    <2> QED BY <2>1, <2>2 DEF Shape
  <1>7. ASSUME Head(s)[1] \notin ProgramSteps PROVE ~Has(Tail(s), {"write"})
    <2> SUFFICES ASSUME NEW i \in 1 .. Len(Tail(s)), Tail(s)[i][1] = "write" PROVE FALSE
      BY DEF Has
    <2>1. i + 1 \in 1 .. Len(s) /\ s[i + 1][1] = "write" /\ 1 \in 1 .. i
      OBVIOUS
    <2> QED BY <1>7, <2>1 DEF Shape
  <1> QED BY <1>5, <1>6, <1>7, TailHas

\* Steps that are put on a stack.
LEMMA ConcatShape ==
    ASSUME NEW p \in Seq(Steps), NEW t \in Seq(Steps), NEW n, Shape(p, n), Shape(t, n),
           ~Has(t, FirstSteps) \/ p = <<>>,
           ~Has(t, {"write"}) \/ \A i \in 1 .. Len(p) : p[i][1] \in ProgramSteps
    PROVE  Shape(p \o t, n)
  <1>1. CASE p = <<>>
    BY <1>1
  <1>2. CASE p # <<>>
    <2>1. ASSUME NEW i \in 2 .. Len(p \o t) PROVE (p \o t)[i][1] \notin FirstSteps
      <3>1. CASE i \in 1 .. Len(p)
        BY <3>1, Concat DEF Shape
      <3>2. CASE i - Len(p) \in 1 .. Len(t) /\ (p \o t)[i] = t[i - Len(p)]
        BY <1>2, <3>2 DEF Has
      <3> QED BY <3>1, <3>2, Concat
    <2>2. ASSUME NEW i \in 1 .. Len(p \o t), (p \o t)[i][1] = "write"
          PROVE  (p \o t)[i][2] = n /\ \A j \in 1 .. i - 1 : (p \o t)[j][1] \in ProgramSteps
      <3>1. CASE i \in 1 .. Len(p) /\ (p \o t)[i] = p[i]
        <4>1. p[i][2] = n /\ \A j \in 1 .. i - 1 : p[j][1] \in ProgramSteps
          BY <2>2, <3>1 DEF Shape
        <4>2. \A j \in 1 .. i - 1 : j \in 1 .. Len(p)
          BY <3>1
        <4> QED BY <3>1, <4>1, <4>2, Concat
      <3>2. CASE i - Len(p) \in 1 .. Len(t) /\ (p \o t)[i] = t[i - Len(p)]
        <4>1. t[i - Len(p)][1] = "write"
          BY <2>2, <3>2
        <4>2. /\ t[i - Len(p)][2] = n
              /\ \A j \in 1 .. i - Len(p) - 1 : t[j][1] \in ProgramSteps
          BY <3>2, <4>1 DEF Shape
        <4>3. \A j \in 1 .. Len(p) : p[j][1] \in ProgramSteps
          BY <3>2, <4>1 DEF Has
        <4>4. ASSUME NEW j \in 1 .. i - 1 PROVE (p \o t)[j][1] \in ProgramSteps
          <5>1. j \in 1 .. Len(p \o t)
            BY <2>2, Concat
          <5>2. CASE j \in 1 .. Len(p) /\ (p \o t)[j] = p[j]
            BY <4>3, <5>2
          <5>3. CASE j - Len(p) \in 1 .. Len(t) /\ (p \o t)[j] = t[j - Len(p)]
            <6>1. j - Len(p) \in 1 .. i - Len(p) - 1
              BY <5>3
            <6> QED BY <4>2, <5>3, <6>1
          <5> QED BY <5>1, <5>2, <5>3, Concat
        <4> QED BY <3>2, <4>2, <4>4
      <3> QED BY <3>1, <3>2, Concat
    <2> QED BY <2>1, <2>2 DEF Shape
  <1> QED BY <1>1, <1>2

-----------------------------------------------------------------------------
(* Steps that change nothing of what the properties are about.               *)

SameState(a, b) ==
    /\ b.buffer = a.buffer /\ b.ended = a.ended /\ b.endEmitted = a.endEmitted
    /\ b.destroyed = a.destroyed /\ b.errored = a.errored
    /\ b.errorEmitted = a.errorEmitted /\ b.closeEmitted = a.closeEmitted

\* Nothing special begins or ends on the stack.
QuietStack ==
    /\ readStack' \in Seq(Steps) /\ Shape(readStack', Len(got))
    /\ ~Readable!Doing({"push"}) /\ ~Has(readStack', FirstSteps)
    /\ Has(readStack', Closing) <=> Has(readStack, Closing)
    /\ Once(readStack', Closing)
    /\ Has(readStack', {"write"}) <=> Has(readStack, {"write"})

\* What is passed to nextTick is nothing special, or the end of a stream that has ended.
AnEnd == r.ended /\ r'.buffer = <<>> /\ readTicks' = Append(readTicks, <<"endReadableNT">>)
QuietTicks ==
    \/ readTicks' = readTicks
    \/ \E t \in Steps : t[1] \notin SpecialSteps /\ readTicks' = Append(readTicks, t)
    \/ AnEnd

QuietRest ==
    /\ r' \in States /\ SameState(r, r')
    /\ UNCHANGED <<highWaterMark, got, dest, readEvents, pushed>>
    /\ result' \in 0 .. MaxChunks /\ readOwed' \in BOOLEAN /\ readAsked' \in 0 .. MaxReadCalls
    /\ listens' \subseteq {"data", "pipe", "readable"}
    /\ "pipe" \in listens' => "pipe" \in listens \/ dest = <<>>
    /\ pipe' \in Pipes
    /\ Has(readStack, {"write"}) => ~pipe'.awaits

\* A queue with one tick more.
LEMMA Grows ==
    ASSUME NEW q \in Seq(Steps), NEW t \in Steps, NEW N
    PROVE  /\ Append(q, t) \in Seq(Steps) /\ Len(Append(q, t)) = Len(q) + 1
           /\ \A i \in 1 .. Len(q) : Append(q, t)[i] = q[i]
           /\ Append(q, t)[Len(q) + 1] = t
           /\ Has(Append(q, t), N) <=> t[1] \in N \/ Has(q, N)
           /\ Once(q, N) /\ t[1] \notin N => Once(Append(q, t), N)
           /\ ~Has(q, N) => Once(Append(q, t), N)
  <1>1. /\ Append(q, t) \in Seq(Steps) /\ Len(Append(q, t)) = Len(q) + 1
        /\ \A i \in 1 .. Len(q) : Append(q, t)[i] = q[i]
        /\ Append(q, t)[Len(q) + 1] = t
    OBVIOUS
  <1>2. \A i \in 1 .. Len(q) + 1 : i \in 1 .. Len(q) \/ i = Len(q) + 1
    OBVIOUS
  <1>3. Has(Append(q, t), N) <=> t[1] \in N \/ Has(q, N)
    BY <1>1, <1>2 DEF Has
  <1>4. Once(q, N) /\ t[1] \notin N => Once(Append(q, t), N)
    BY <1>1, <1>2 DEF Once
  <1>5. ~Has(q, N) => Once(Append(q, t), N)
    BY <1>1, <1>2 DEF Once, Has
  <1> QED BY <1>1, <1>3, <1>4, <1>5

LEMMA AnEndIsAStep == <<"endReadableNT">> \in Steps /\ <<"endReadableNT">>[1] = "endReadableNT"
  BY DEF Steps

LEMMA QuietTicksGrow ==
    ASSUME TypeInv, QuietTicks, Once(readTicks, Closing), ~Has(readTicks, {"push", "write"})
    PROVE  /\ readTicks' \in Seq(Steps) /\ ~Has(readTicks', {"push", "write"})
           /\ Has(readTicks', Closing) <=> Has(readTicks, Closing)
           /\ Once(readTicks', Closing)
           /\ Len(readTicks') \in Nat
           /\ \A j \in 1 .. Len(readTicks') :
                 \/ j \in 1 .. Len(readTicks) /\ \A i \in 1 .. j : readTicks'[i] = readTicks[i]
                 \/ j = Len(readTicks) + 1 /\ readTicks'[j][1] # "endReadableNT"
                 \/ j = Len(readTicks) + 1 /\ AnEnd
                      /\ \A i \in 1 .. j - 1 : readTicks'[i] = readTicks[i]
  <1> DEFINE Goal ==
           /\ readTicks' \in Seq(Steps) /\ ~Has(readTicks', {"push", "write"})
           /\ Has(readTicks', Closing) <=> Has(readTicks, Closing)
           /\ Once(readTicks', Closing)
           /\ Len(readTicks') \in Nat
           /\ \A j \in 1 .. Len(readTicks') :
                 \/ j \in 1 .. Len(readTicks) /\ \A i \in 1 .. j : readTicks'[i] = readTicks[i]
                 \/ j = Len(readTicks) + 1 /\ readTicks'[j][1] # "endReadableNT"
                 \/ j = Len(readTicks) + 1 /\ AnEnd
                      /\ \A i \in 1 .. j - 1 : readTicks'[i] = readTicks[i]
  <1> SUFFICES Goal
    OBVIOUS
  <1> readTicks \in Seq(Steps)
    BY DEF TypeInv
  <1>1. CASE readTicks' = readTicks
    BY <1>1
  <1>2. ASSUME NEW t \in Steps, t[1] \notin SpecialSteps, readTicks' = Append(readTicks, t)
        PROVE  Goal
    <2>1. t[1] \notin {"push", "write"} /\ t[1] \notin Closing /\ t[1] # "endReadableNT"
      BY <1>2 DEF SpecialSteps, FirstSteps, Closing
    <2>2. ~Has(readTicks', {"push", "write"})
      BY <1>2, <2>1, Grows
    <2>3. (Has(readTicks', Closing) <=> Has(readTicks, Closing)) /\ Once(readTicks', Closing)
      BY <1>2, <2>1, Grows
    <2>4. /\ readTicks' \in Seq(Steps) /\ Len(readTicks') = Len(readTicks) + 1
          /\ \A i \in 1 .. Len(readTicks) : readTicks'[i] = readTicks[i]
          /\ readTicks'[Len(readTicks) + 1] = t
      BY <1>2, Grows
    <2> QED BY <2>1, <2>2, <2>3, <2>4
  <1>3. CASE AnEnd
    <2> DEFINE t == <<"endReadableNT">>
    <2>1. t \in Steps /\ t[1] \notin {"push", "write"} /\ t[1] \notin Closing
      BY AnEndIsAStep DEF Closing
    <2>2. readTicks' = Append(readTicks, t)
      BY <1>3 DEF AnEnd
    <2> HIDE DEF t
    <2>3. ~Has(readTicks', {"push", "write"})
      BY <2>1, <2>2, Grows
    <2>4. (Has(readTicks', Closing) <=> Has(readTicks, Closing)) /\ Once(readTicks', Closing)
      BY <2>1, <2>2, Grows
    <2>5. /\ readTicks' \in Seq(Steps) /\ Len(readTicks') = Len(readTicks) + 1
          /\ \A i \in 1 .. Len(readTicks) : readTicks'[i] = readTicks[i]
      BY <2>1, <2>2, Grows
    <2> QED BY <1>3, <2>3, <2>4, <2>5
  <1> QED BY <1>1, <1>2, <1>3 DEF QuietTicks

LEMMA QuietKeeps ==
    ASSUME ReadInv, QuietStack, QuietTicks, QuietRest
    PROVE  ReadInv'
  <1> USE Bounds
  <1>a. /\ TypeInv /\ StackInv /\ BufferInv /\ EventsInv /\ CloseInv /\ EndsInv /\ PipeInv
        /\ Once(readTicks, Closing) /\ ~Has(readTicks, {"push", "write"})
    BY DEF ReadInv, CloseInv, StackInv
  <1>b. /\ r' \in States /\ SameState(r, r') /\ got' = got /\ dest' = dest
             /\ readEvents' = readEvents
        /\ pushed' = pushed /\ highWaterMark' = highWaterMark
    BY DEF QuietRest
  <1>t. /\ readTicks' \in Seq(Steps) /\ ~Has(readTicks', {"push", "write"})
        /\ Has(readTicks', Closing) <=> Has(readTicks, Closing)
        /\ Once(readTicks', Closing)
    BY <1>a, QuietTicksGrow
  <1>f. ~Readable!Doing(FirstSteps)'
    <2>1. ASSUME NEW s \in Seq(Steps), ~Has(s, FirstSteps),
                   s # <<>> PROVE Head(s)[1] \notin FirstSteps
      <3>1. 1 \in 1 .. Len(s) /\ Head(s) = s[1]
        BY <2>1
      <3> QED BY <2>1, <3>1 DEF Has
    <2> QED BY <2>1 DEF QuietStack, Readable!Doing
  <1>p. PushesChunk = FALSE /\ PushesChunk' = FALSE /\ ~Readable!Doing({"push"})
          /\ ~Readable!Doing({"push"})'
        /\ ~Readable!Doing({"endReadableNT"})'
    BY <1>f DEF PushesChunk, Readable!Doing, FirstSteps, QuietStack
  <1>1. TypeInv'
    BY <1>a, <1>b, <1>t DEF TypeInv, QuietStack, QuietRest
  <1>2. StackInv'
    BY <1>a, <1>b, <1>t DEF StackInv, QuietStack, QuietRest, SameState
  <1>3. BufferInv'
    BY <1>a, <1>b, <1>p DEF BufferInv, OnItsWay, Least, SameState
  <1>4. EventsInv'
    BY <1>a, <1>b DEF EventsInv, Tell, AllLeft, SameState
  <1>5. CloseInv'
    <2>1. ~Has(readStack', {"emitErrorClose"})
      BY DEF QuietStack, Has, FirstSteps
    <2> QED BY <1>a, <1>b, <1>t, <2>1 DEF CloseInv, QuietStack, SameState
  <1>6. EndsInv'
    <2>1. ASSUME NEW j \in 1 .. Len(readTicks'), readTicks'[j][1] = "endReadableNT"
          PROVE  AllLeft' \/ Closed' \/ \E i \in 1 .. j - 1 : readTicks'[i][1] \in Closing
      <3>1. AllLeft' = AllLeft /\ Closed' = Closed
        BY <1>b DEF AllLeft, Closed, SameState, QuietStack
      <3>2. CASE j \in 1 .. Len(readTicks) /\ \A i \in 1 .. j : readTicks'[i] = readTicks[i]
        <4>1. j \in 1 .. j /\ readTicks'[j] = readTicks[j]
          BY <3>2
        <4>2. AllLeft \/ Closed \/ \E i \in 1 .. j - 1 : readTicks[i][1] \in Closing
          BY <1>a, <2>1, <3>2, <4>1 DEF EndsInv
        <4>3. \A i \in 1 .. j - 1 : readTicks'[i] = readTicks[i]
          BY <3>2
        <4> QED BY <3>1, <4>2, <4>3
      <3>3. CASE j = Len(readTicks) + 1 /\ AnEnd
                   /\ \A i \in 1 .. j - 1 : readTicks'[i] = readTicks[i]
        <4>1. CASE r.destroyed
          <5>1. Closed \/ Has(readTicks, Closing)
            BY <1>a, <4>1 DEF CloseInv, Closed
          <5>2. Has(readTicks, Closing) => \E i \in 1 .. j - 1 : readTicks'[i][1] \in Closing
            BY <1>a, <3>3 DEF Has, TypeInv
          <5> QED BY <3>1, <5>1, <5>2
        <4>2. CASE ~r.destroyed
          <5>1. Len(r.buffer) = 0 /\ Len(pushed) = Readable!End
            BY <1>a, <1>b, <3>3 DEF AnEnd, SameState, BufferInv
          <5>2. Len(got) = MaxChunks
            BY <1>a, <1>p, <4>2, <5>1 DEF BufferInv, OnItsWay, Least, TypeInv
          <5> QED BY <3>1, <5>1, <5>2 DEF AllLeft
        <4> QED BY <4>1, <4>2
      <3> QED BY <1>a, <2>1, <3>2, <3>3, QuietTicksGrow
    <2> QED BY <1>p, <2>1 DEF EndsInv
  <1>7. PipeInv'
    <2>1. Written' = Written /\ r'.endEmitted = r.endEmitted
      BY <1>b DEF Written, QuietStack, SameState
    <2>2. CASE dest = <<>>
      BY <1>a, <1>b, <2>1, <2>2 DEF PipeInv
    <2>3. CASE "pipe" \in listens' => "pipe" \in listens
      BY <1>a, <1>b, <2>1, <2>3 DEF PipeInv
    <2> QED BY <2>2, <2>3 DEF QuietRest
  <1> QED BY <1>1, <1>2, <1>3, <1>4, <1>5, <1>6, <1>7 DEF ReadInv

\* Steps that are not special.
Quiets == {s \in Steps : s[1] \notin SpecialSteps}

LEMMA QuietStep ==
    /\ \A x \in PlainSteps \cup {"program", "unpipe", "pipe resumes"} : <<x>> \in Quiets
    /\ \A n \in {0, 1} : <<"read", n>> \in Quiets /\ <<"take", n>> \in Quiets
    /\ \A x \in {"flow", "reads"} : <<"again", x>> \in Quiets
    /\ \A n \in Nat : <<"read more", n>> \in Quiets
    /\ \A c \in 0 .. MaxChunks : <<"return", c>> \in Quiets
    /\ \A err \in BOOLEAN : <<"destroy", err>> \in Quiets
  BY DEF Quiets, Steps, PlainSteps, SpecialSteps, FirstSteps

LEMMA StepArguments ==
    ASSUME NEW s \in Steps
    PROVE  /\ s[1] \in {"push", "write"} => s[2] \in 1 .. Readable!End
           /\ s[1] \in {"read", "take"} => s[2] \in {0, 1}
           /\ s[1] = "again" => s[2] \in {"flow", "reads"}
           /\ s[1] = "return" => s[2] \in 0 .. MaxChunks
           /\ s[1] = "destroy" => s[2] \in BOOLEAN
  <1>2. CASE \E x \in PlainSteps \cup {"program", "unpipe", "pipe resumes", "emitClose",
                                        "emitErrorClose", "endReadableNT"} : s = <<x>>
    <2>1. PICK x \in PlainSteps \cup {"program", "unpipe", "pipe resumes", "emitClose",
                                      "emitErrorClose", "endReadableNT"} : s = <<x>>
      BY <1>2
    <2>2. s[1] = x
      BY <2>1
    <2>3. x \notin {"push", "write", "read", "take", "again", "return", "destroy"}
      BY DEF PlainSteps
    <2> QED BY <2>2, <2>3
  <1>3. CASE s \in {"push", "write"} \X (1 .. Readable!End)
    BY <1>3
  <1>4. CASE s \in {"read", "take"} \X {0, 1}
    BY <1>4
  <1>5. CASE s \in {"again"} \X {"flow", "reads"}
    BY <1>5
  <1>6. CASE s \in {"read more"} \X Nat
    BY <1>6
  <1>7. CASE s \in {"return"} \X (0 .. MaxChunks)
    BY <1>7
  <1>8. CASE s \in {"destroy"} \X BOOLEAN
    BY <1>8
  <1> QED BY <1>2, <1>3, <1>4, <1>5, <1>6, <1>7, <1>8 DEF Steps

LEMMA QuietSequence ==
    ASSUME NEW p \in Seq(Quiets), NEW n
    PROVE  p \in Seq(Steps) /\ ~Has(p, SpecialSteps) /\ ~Has(p, Closing) /\ ~Has(p, FirstSteps)
           /\ ~Has(p, {"write"}) /\ Shape(p, n)
  <1>1. p \in Seq(Steps) /\ \A i \in 1 .. Len(p) : p[i] \in Steps /\ p[i][1] \notin SpecialSteps
    <2>1. \A s \in Quiets : s \in Steps /\ s[1] \notin SpecialSteps
      BY DEF Quiets
    <2>2. \A i \in 1 .. Len(p) : p[i] \in Quiets
      OBVIOUS
    <2>3. p \in Seq(Steps)
      BY <2>1, <2>2
    <2> QED BY <2>1, <2>2, <2>3
  <1> QED BY <1>1 DEF Has, Shape, SpecialSteps, Closing, FirstSteps

\* The head gives way to steps that are not special.
LEMMA Turns ==
    ASSUME ReadInv, readStack # <<>>,
           Head(readStack)[1] \notin SpecialSteps \/ Head(readStack)[1] = "endReadableNT",
           NEW p \in Seq(Quiets), Readable!Becomes(p),
           p = <<>> \/ Head(readStack)[1] \notin ProgramSteps \/ pipe.awaits
    PROVE  QuietStack
  <1> DEFINE t == Tail(readStack)
             n == Len(got)
  <1>1. readStack \in Seq(Steps) /\ Shape(readStack, n) /\ Once(readStack, Closing)
    BY DEF ReadInv, TypeInv, StackInv, CloseInv
  <1>2. /\ t \in Seq(Steps) /\ Shape(t, n) /\ ~Has(t, FirstSteps) /\ Once(t, Closing)
        /\ ~Readable!Doing({"push"})
        /\ Has(readStack, Closing) <=> Has(t, Closing)
        /\ Has(readStack, {"write"}) <=> Has(t, {"write"})
    <2>1. ~Readable!Doing({"push"}) /\ Head(readStack)[1] \notin Closing
          /\ Head(readStack)[1] \notin {"write"}
      BY DEF SpecialSteps, FirstSteps, Closing, Readable!Doing
    <2> QED BY <1>1, <2>1, Heads, TailKeeps
  <1>3. /\ p \in Seq(Steps) /\ ~Has(p, Closing) /\ ~Has(p, FirstSteps) /\ ~Has(p, {"write"})
        /\ Shape(p, n)
    BY QuietSequence
  <1>4. p = <<>> \/ ~Has(t, {"write"})
    BY <1>1, <1>2, TailKeeps DEF ReadInv, StackInv
  <1>5. readStack' = p \o t
    BY DEF Readable!Becomes
  <1> HIDE DEF t, n
  <1>6. Shape(p \o t, n)
    BY <1>2, <1>3, <1>4, ConcatShape
  <1>7. p \o t \in Seq(Steps)
    BY <1>2, <1>3, Concat
  <1>8. /\ ~Has(p \o t, FirstSteps)
        /\ Has(p \o t, Closing) <=> Has(t, Closing)
        /\ Once(p \o t, Closing)
        /\ Has(p \o t, {"write"}) <=> Has(t, {"write"})
    BY <1>2, <1>3, ConcatHas
  <1> QED BY <1>2, <1>5, <1>6, <1>7, <1>8 DEF QuietStack, n

\* What runs, or begins a turn, calls something that is not special.
LEMMA CallsQuietly ==
    ASSUME ReadInv, readStack = <<>> \/ Head(readStack)[1] \notin SpecialSteps,
           NEW p \in Seq(Quiets), Readable!Calls(p),
           readStack = <<>> \/ \A i \in 1 .. Len(p) : p[i][1] \in ProgramSteps
    PROVE  QuietStack
  <1> DEFINE t == IF readStack = <<>> THEN <<<<"program">>>> ELSE readStack
             n == Len(got)
  <1>1. readStack \in Seq(Steps) /\ Shape(readStack, n) /\ Once(readStack, Closing)
    BY DEF ReadInv, TypeInv, StackInv, CloseInv
  <1>2. /\ t \in Seq(Steps) /\ Shape(t, n) /\ ~Has(t, FirstSteps) /\ Once(t, Closing)
        /\ ~Readable!Doing({"push"})
        /\ Has(readStack, Closing) <=> Has(t, Closing)
        /\ Has(readStack, {"write"}) <=> Has(t, {"write"})
    <2>1. CASE readStack = <<>>
      <3>0. <<"program">> \in Quiets
        BY QuietStep
      <3>1. t \in Seq(Quiets)
        BY <2>1, <3>0
      <3>2. Has(readStack, Closing) = FALSE /\ Has(readStack, {"write"}) = FALSE
            /\ ~Readable!Doing({"push"})
        BY <2>1 DEF Has, Readable!Doing
      <3>3. Once(t, Closing)
        BY <3>1, QuietSequence DEF Once, Has
      <3> QED BY <3>1, <3>2, <3>3, QuietSequence
    <2>2. CASE readStack # <<>>
      <3>1. Head(readStack)[1] \notin FirstSteps /\ ~Readable!Doing({"push"})
        BY <2>2 DEF SpecialSteps, FirstSteps, Readable!Doing
      <3> QED BY <1>1, <2>2, <3>1, TailKeeps
    <2> QED BY <2>1, <2>2
  <1>3. /\ p \in Seq(Steps) /\ ~Has(p, Closing) /\ ~Has(p, FirstSteps) /\ ~Has(p, {"write"})
        /\ Shape(p, n)
    BY QuietSequence
  <1>4. ~Has(t, {"write"}) \/ \A i \in 1 .. Len(p) : p[i][1] \in ProgramSteps
    BY <1>2 DEF Has
  <1>5. readStack' = p \o t
    BY DEF Readable!Calls
  <1> HIDE DEF t, n
  <1>6. Shape(p \o t, n)
    BY <1>2, <1>3, <1>4, ConcatShape
  <1>7. p \o t \in Seq(Steps)
    BY <1>2, <1>3, Concat
  <1>8. /\ ~Has(p \o t, FirstSteps)
        /\ Has(p \o t, Closing) <=> Has(t, Closing)
        /\ Once(p \o t, Closing)
        /\ Has(p \o t, {"write"}) <=> Has(t, {"write"})
    BY <1>2, <1>3, ConcatHas
  <1> QED BY <1>2, <1>5, <1>6, <1>7, <1>8 DEF QuietStack, n

-----------------------------------------------------------------------------
(* What the program calls.                                                   *)

TicksQuietly == readTicks' = readTicks \/ \E t \in Quiets : readTicks' = Append(readTicks, t)

LEMMA QuietTick == TicksQuietly => QuietTicks
  BY DEF TicksQuietly, QuietTicks, Quiets

LEMMA EmitsQuietly ==
    ASSUME NEW k \in States, Readable!EmitsReadable(k)
    PROVE  r' \in States /\ SameState(k, r') /\ TicksQuietly
  <1>1. <<"emitReadable_">> \in Quiets
    BY QuietStep DEF PlainSteps
  <1>2. r' \in States /\ SameState(k, r')
    BY DEF Readable!EmitsReadable, States, SameState
  <1> QED BY <1>1, <1>2 DEF Readable!EmitsReadable, TicksQuietly

LEMMA ResumesQuietly ==
    ASSUME NEW k \in States, Readable!Resumes(k)
    PROVE  r' \in States /\ SameState(k, r') /\ TicksQuietly
  <1>1. <<"resume_">> \in Quiets
    BY QuietStep DEF PlainSteps
  <1>2. r' \in States /\ SameState(k, r')
    BY DEF Readable!Resumes, States, SameState, Tristate
  <1> QED BY <1>1, <1>2 DEF Readable!Resumes, TicksQuietly

LEMMA EndsQuietly ==
    ASSUME NEW k \in States, Readable!EndsReadable(k), k.ended, r.ended, k.buffer = <<>>
    PROVE  r' \in States /\ SameState(k, r') /\ QuietTicks
  <1>1. r' \in States /\ SameState(k, r')
    BY DEF Readable!EndsReadable, States, SameState
  <1>2. r'.buffer = <<>>
    BY <1>1 DEF SameState
  <1> QED BY <1>1, <1>2 DEF Readable!EndsReadable, QuietTicks, AnEnd

LEMMA SameThrough ==
    ASSUME NEW a, NEW b, NEW c, SameState(a, b), SameState(b, c) PROVE SameState(a, c)
  BY DEF SameState

LEMMA QuietProgram ==
    ASSUME ReadInv, Readable!ProgramCalls
    PROVE  QuietStack /\ QuietTicks /\ QuietRest
  <1> USE Bounds
  <1>0. /\ TypeInv /\ (Has(readStack, {"write"}) => ~pipe.awaits)
    BY DEF ReadInv, StackInv
  <1>h. readAsked < MaxReadCalls /\ readAsked' = readAsked + 1 /\ readAsked' \in 0 .. MaxReadCalls
        /\ UNCHANGED <<highWaterMark, readOwed, pushed, result, got, dest, readEvents, pipe>>
    <2>1. readAsked < MaxReadCalls /\ Readable!Called /\ UNCHANGED pipe
      BY DEF Readable!ProgramCalls, Readable!OnData, Readable!OnReadable, Readable!OffReadable,
             Readable!Pause, Readable!Resume, Readable!Pipe, Readable!Unpipe, Readable!Destroy,
             Readable!CanCall
    <2>2. readAsked' = readAsked + 1
            /\ UNCHANGED <<highWaterMark, readOwed, pushed, result, got, dest, readEvents>>
      BY <2>1 DEF Readable!Called
    <2> QED BY <1>0, <2>1, <2>2 DEF TypeInv
  <1>s. readStack = <<>> \/ Head(readStack)[1] \notin SpecialSteps
    BY DEF Readable!ProgramCalls, Readable!OnData, Readable!OnReadable, Readable!OffReadable,
           Readable!Pause, Readable!Resume, Readable!Pipe, Readable!Unpipe, Readable!Destroy,
           Readable!CanCall, Readable!InProgram, Readable!Doing, Readable!AtRest, SpecialSteps,
           FirstSteps
  <1>1. QuietStack
    <2>1. ASSUME Readable!Calls(<<>>) PROVE QuietStack
      <3>1. <<>> \in Seq(Quiets) /\ \A i \in 1 .. Len(<<>>) : <<>>[i][1] \in ProgramSteps
        OBVIOUS
      <3> QED BY <1>s, <2>1, <3>1, CallsQuietly
    <2>2. ASSUME NEW s \in Quiets, s[1] \in ProgramSteps, Readable!Calls(<<s>>) PROVE QuietStack
      <3>1. <<s>> \in Seq(Quiets) /\ \A i \in 1 .. Len(<<s>>) : <<s>>[i][1] \in ProgramSteps
        BY <2>2
      <3> QED BY <1>s, <2>2, <3>1, CallsQuietly
    <2>3. /\ <<"pipe resumes">> \in Quiets /\ <<"unpipe">> \in Quiets
          /\ \A err \in BOOLEAN : <<"destroy", err>> \in Quiets
          /\ <<"pipe resumes">>[1] \in ProgramSteps /\ <<"unpipe">>[1] \in ProgramSteps
          /\ \A err \in BOOLEAN : <<"destroy", err>>[1] \in ProgramSteps
      BY QuietStep DEF ProgramSteps
    <2> QED BY <2>1, <2>2, <2>3
               DEF Readable!ProgramCalls, Readable!OnData, Readable!OnReadable,
                   Readable!OffReadable, Readable!Pause, Readable!Resume, Readable!Pipe,
                   Readable!Unpipe, Readable!Destroy
  <1>2. /\ r' \in States /\ SameState(r, r') /\ TicksQuietly
        /\ listens' \subseteq {"data", "pipe", "readable"}
        /\ "pipe" \in listens' => "pipe" \in listens \/ dest = <<>>
    <2>r. r \in States /\ listens \subseteq {"data", "pipe", "readable"} /\ SameState(r, r)
      BY <1>0 DEF TypeInv, SameState
    <2>1. ASSUME NEW to \in {"data", "pipe"}, Readable!Listens(to)
          PROVE  r' \in States /\ SameState(r, r') /\ TicksQuietly /\ listens' = listens \cup {to}
      <3> DEFINE k == [r EXCEPT !.readableListening = "readable" \in listens]
      <3>0. \A b \in BOOLEAN : LET l == [r EXCEPT !.readableListening = b] IN
                                l \in States /\ SameState(r, l)
        BY <2>r DEF States, SameState
      <3>1. k \in States /\ SameState(r, k)
        BY <3>0, ("readable" \in listens) \in BOOLEAN
      <3>2. (r' = k /\ UNCHANGED readTicks) \/ Readable!Resumes(k)
        BY <2>1 DEF Readable!Listens
      <3>3. listens' = listens \cup {to}
        BY <2>1 DEF Readable!Listens
      <3> HIDE DEF k
      <3> QED BY <3>1, <3>2, <3>3, ResumesQuietly, SameThrough DEF TicksQuietly
    <2>2. CASE Readable!OnData
      BY <2>r, <2>2, <2>1 DEF Readable!OnData
    <2>3. CASE Readable!Pipe
      BY <2>r, <2>3, <2>1 DEF Readable!Pipe
    <2>4. CASE Readable!OnReadable
      <3> DEFINE k == [r EXCEPT !.readableListening = TRUE, !.needReadable = TRUE,
                                !.flowing = "false", !.emittedReadable = FALSE]
      <3>1. k \in States /\ SameState(r, k)
        BY <2>r DEF States, SameState, Tristate
      <3>2. <<"read", 0>> \in Quiets
        BY QuietStep
      <3>3. \/ UNCHANGED <<r, readTicks>> \/ Readable!EmitsReadable(k)
            \/ r' = k /\ (UNCHANGED readTicks \/ readTicks' = Append(readTicks, <<"read", 0>>))
        BY <2>4 DEF Readable!OnReadable
      <3>4. listens' = listens \cup {"readable"}
        BY <2>4 DEF Readable!OnReadable
      <3> HIDE DEF k
      <3>5. r' \in States /\ SameState(r, r') /\ TicksQuietly
        <4>1. CASE UNCHANGED <<r, readTicks>>
          BY <2>r, <4>1 DEF TicksQuietly
        <4>2. CASE Readable!EmitsReadable(k)
          BY <3>1, <4>2, EmitsQuietly, SameThrough
        <4>3. CASE r' = k /\ (UNCHANGED readTicks \/ readTicks' = Append(readTicks, <<"read", 0>>))
          BY <3>1, <3>2, <4>3 DEF TicksQuietly
        <4> QED BY <3>3, <4>1, <4>2, <4>3
      <3> QED BY <2>r, <3>4, <3>5
    <2>5. CASE Readable!OffReadable
      <3>1. <<"updateReadableListening">> \in Quiets
        BY QuietStep DEF PlainSteps
      <3> QED BY <2>r, <2>5, <3>1 DEF Readable!OffReadable, TicksQuietly
    <2>6. CASE Readable!Pause
      <3>1. r' \in States /\ SameState(r, r')
        BY <2>r, <2>6 DEF Readable!Pause, States, SameState, Tristate
      <3> QED BY <2>r, <2>6, <3>1 DEF Readable!Pause, TicksQuietly
    <2>7. CASE Readable!Resume
      BY <2>r, <2>7, ResumesQuietly DEF Readable!Resume
    <2>8. CASE Readable!Unpipe
      BY <2>r, <2>8 DEF Readable!Unpipe, TicksQuietly
    <2>9. CASE \E err \in BOOLEAN : Readable!Destroy(err)
      BY <2>r, <2>9 DEF Readable!Destroy, TicksQuietly
    <2> QED BY <2>2, <2>3, <2>4, <2>5, <2>6, <2>7, <2>8, <2>9 DEF Readable!ProgramCalls
  <1> QED BY <1>0, <1>1, <1>2, <1>h, QuietTick DEF QuietRest, TypeInv

LEMMA QuietDrain ==
    ASSUME ReadInv, Readable!Drain
    PROVE  QuietStack /\ QuietTicks /\ QuietRest
  <1>1. QuietStack
    <2>1. <<"ondrain">> \in Quiets
      BY QuietStep DEF PlainSteps
    <2>2. \E p \in Seq(Quiets) : Readable!Calls(p)
      <3>1. <<>> \in Seq(Quiets) /\ <<<<"ondrain">>>> \in Seq(Quiets)
        BY <2>1
      <3> QED BY <3>1 DEF Readable!Drain
    <2> QED BY <2>2, CallsQuietly DEF Readable!Drain, Readable!AtRest
  <1>2. QuietRest
    <2>1. ~Has(readStack, {"write"})
      BY DEF Has, Readable!Drain, Readable!AtRest
    <2>2. pipe' \in Pipes
      BY DEF Readable!Drain, Pipes, ReadInv, TypeInv
    <2> QED BY <2>1, <2>2 DEF Readable!Drain, QuietRest, SameState, ReadInv, TypeInv
  <1>3. QuietTicks
    BY DEF Readable!Drain, QuietTicks
  <1> QED BY <1>1, <1>2, <1>3

-----------------------------------------------------------------------------
(* The functions that go on without a chunk.                                 *)

\* Functions that leave alone what the program and the implementation have.
Goings ==
    \/ Readable!Returns \/ Readable!DoMaybeReadMore \/ Readable!SyncOff \/ Readable!Return
         \/ Readable!EmitReadable \/ Readable!Emitted \/ Readable!AfterReadable
    \/ Readable!Flow \/ Readable!Again \/ Readable!ReadMore \/ Readable!ReadMoreAgain
         \/ Readable!ResumeTick \/ Readable!Resumed \/ Readable!ReadOn
    \/ Readable!UpdateReadableListening \/ Readable!PipeResumes

LEMMA AFewSteps ==
    ASSUME NEW a \in Quiets, NEW b \in Quiets, NEW c \in Quiets, NEW d \in Quiets
    PROVE  /\ <<>> \in Seq(Quiets) /\ <<a>> \in Seq(Quiets) /\ <<a, b>> \in Seq(Quiets)
           /\ <<a, b, c>> \in Seq(Quiets)
           /\ <<a, b>> \o <<c, d>> \in Seq(Quiets) /\ <<>> \o <<c, d>> \in Seq(Quiets)
           /\ <<>> \o <<a>> \in Seq(Quiets) /\ <<a>> \o <<b>> \in Seq(Quiets)
  OBVIOUS

LEMMA HeadIsAStep ==
    ASSUME TypeInv, readStack # <<>> PROVE Head(readStack) \in Steps
  BY DEF TypeInv

LEMMA QuietGoingsStack ==
    ASSUME ReadInv, Goings PROVE QuietStack
  <1> USE Bounds
  <1>0. TypeInv /\ r \in States
    BY DEF ReadInv, TypeInv
  <1>1. readStack # <<>> /\ Head(readStack)[1] \notin SpecialSteps
    BY DEF Goings, Readable!Returns, Readable!DoMaybeReadMore, Readable!SyncOff, Readable!Return,
           Readable!EmitReadable, Readable!Emitted, Readable!AfterReadable, Readable!Flow,
           Readable!Again, Readable!ReadMore, Readable!ReadMoreAgain, Readable!ResumeTick,
           Readable!Resumed, Readable!ReadOn, Readable!UpdateReadableListening,
           Readable!PipeResumes, Readable!Doing, SpecialSteps, FirstSteps
  <1>q. <<>> \in Seq(Quiets) /\ \A s \in Quiets : <<s>> \in Seq(Quiets)
    OBVIOUS
  <1>p. \A x \in PlainSteps \cup {"program"} : <<x>> \in Quiets
    BY QuietStep
  <1>r. <<"read", 0>> \in Quiets /\ <<"read", 1>> \in Quiets
    BY QuietStep
  <1>2. \E p \in Seq(Quiets) : Readable!Becomes(p)
          /\ (p = <<>> \/ Head(readStack)[1] \notin ProgramSteps)
    <2>1. CASE Readable!Returns \/ Readable!DoMaybeReadMore \/ Readable!SyncOff \/ Readable!Return
                 \/ Readable!Emitted
               \/ Readable!UpdateReadableListening \/ Readable!PipeResumes
      BY <2>1, <1>q
         DEF Readable!Returns, Readable!DoMaybeReadMore, Readable!SyncOff, Readable!Return,
             Readable!Emitted, Readable!UpdateReadableListening, Readable!PipeResumes
    <2>2. CASE Readable!EmitReadable
      <3>1. <<"reads">> \in Quiets /\ <<"program">> \in Quiets /\ <<"emitted">> \in Quiets
            /\ <<"afterReadable">> \in Quiets
        BY <1>p DEF PlainSteps
      <3>2. Head(readStack)[1] \notin ProgramSteps
        BY <2>2 DEF Readable!EmitReadable, Readable!Doing, ProgramSteps
      <3>3. \/ Readable!Becomes(<<<<"reads">>, <<"program">>>> \o <<<<"emitted">>, <<"afterReadable">>>>)
            \/ Readable!Becomes(<<>> \o <<<<"emitted">>, <<"afterReadable">>>>)
            \/ Readable!Becomes(<<<<"afterReadable">>>>)
        BY <2>2 DEF Readable!EmitReadable
      <3> QED BY <3>1, <3>2, <3>3, AFewSteps
    <2>3. CASE Readable!AfterReadable
      <3>1. <<"flow">> \in Quiets
        BY <1>p DEF PlainSteps
      <3> QED BY <2>3, <3>1, <1>q DEF Readable!AfterReadable, Readable!Doing, ProgramSteps
    <2>4. CASE Readable!Flow
      <3>1. <<"again", Head(readStack)[1]>> \in Quiets
        BY <2>4, QuietStep DEF Readable!Flow, Readable!Doing
      <3>2. <<<<"read", 1>>, <<"again", Head(readStack)[1]>>>> \in Seq(Quiets)
        BY <1>r, <3>1
      <3>3. \/ Readable!Becomes(<<<<"read", 1>>, <<"again", Head(readStack)[1]>>>>)
            \/ Readable!Becomes(<<>>)
        BY <2>4 DEF Readable!Flow
      <3>4. Head(readStack)[1] \notin ProgramSteps
        BY <2>4 DEF Readable!Flow, Readable!Doing, ProgramSteps
      <3> QED BY <1>q, <3>2, <3>3, <3>4
    <2>5. CASE Readable!Again
      <3>1. Head(readStack)[2] \in {"flow", "reads"}
        BY <1>0, <1>1, <2>5, HeadIsAStep, StepArguments DEF Readable!Again, Readable!Doing
      <3>2. <<Head(readStack)[2]>> \in Quiets
        BY <1>p, <3>1 DEF PlainSteps
      <3>3. Readable!Becomes(<<>>) \/ Readable!Becomes(<<<<Head(readStack)[2]>>>>)
        BY <2>5 DEF Readable!Again
      <3>4. Head(readStack)[1] \notin ProgramSteps
        BY <2>5 DEF Readable!Again, Readable!Doing, ProgramSteps
      <3> QED BY <1>q, <3>2, <3>3, <3>4
    <2>6. CASE Readable!ReadMore
      <3>1. Readable!Length \in Nat
        BY <1>0 DEF Readable!Length, States
      <3>2. <<"read more", Readable!Length>> \in Quiets
        BY <3>1, QuietStep
      <3>3. <<<<"read", 0>>, <<"read more", Readable!Length>>>> \in Seq(Quiets)
        BY <1>r, <3>2, AFewSteps
      <3>4. Readable!Becomes(<<>>)
              \/ Readable!Becomes(<<<<"read", 0>>, <<"read more", Readable!Length>>>>)
        BY <2>6 DEF Readable!ReadMore
      <3>5. Head(readStack)[1] \notin ProgramSteps
        BY <2>6 DEF Readable!ReadMore, Readable!Doing, ProgramSteps
      <3> QED BY <1>q, <3>3, <3>4, <3>5
    <2>7. CASE Readable!ReadMoreAgain
      <3>1. <<"maybeReadMore_">> \in Quiets
        BY <1>p DEF PlainSteps
      <3>2. Readable!Becomes(<<>>) \/ Readable!Becomes(<<<<"maybeReadMore_">>>>)
        BY <2>7 DEF Readable!ReadMoreAgain
      <3>3. Head(readStack)[1] \notin ProgramSteps
        BY <2>7 DEF Readable!ReadMoreAgain, Readable!Doing, ProgramSteps
      <3> QED BY <1>q, <3>1, <3>2, <3>3
    <2>8. CASE Readable!ResumeTick
      <3>1. <<"resumed">> \in Quiets
        BY <1>p DEF PlainSteps
      <3>2. Readable!Becomes(<<>> \o <<<<"resumed">>>>)
              \/ Readable!Becomes(<<<<"read", 0>>>> \o <<<<"resumed">>>>)
        BY <2>8 DEF Readable!ResumeTick
      <3>3. Head(readStack)[1] \notin ProgramSteps
        BY <2>8 DEF Readable!ResumeTick, Readable!Doing, ProgramSteps
      <3> QED BY <1>r, <3>1, <3>2, <3>3, AFewSteps
    <2>9. CASE Readable!Resumed
      <3>1. <<"flow">> \in Quiets /\ <<"read on">> \in Quiets
        BY <1>p DEF PlainSteps
      <3>2. <<<<"flow">>, <<"read on">>>> \in Seq(Quiets)
        BY <3>1, AFewSteps
      <3> QED BY <2>9, <3>2 DEF Readable!Resumed, Readable!Doing, ProgramSteps
    <2>10. CASE Readable!ReadOn
      <3>1. Readable!Becomes(<<>>) \/ Readable!Becomes(<<<<"read", 0>>>>)
        BY <2>10 DEF Readable!ReadOn
      <3>2. Head(readStack)[1] \notin ProgramSteps
        BY <2>10 DEF Readable!ReadOn, Readable!Doing, ProgramSteps
      <3> QED BY <1>q, <1>r, <3>1, <3>2
    <2> QED BY <2>1, <2>2, <2>3, <2>4, <2>5, <2>6, <2>7, <2>8, <2>9, <2>10 DEF Goings
  <1> QED BY <1>1, <1>2, Turns

LEMMA QuietGoings ==
    ASSUME ReadInv, Goings PROVE QuietStack /\ QuietTicks /\ QuietRest
  <1> USE Bounds
  <1>0. TypeInv /\ r \in States /\ SameState(r, r) /\ (Has(readStack, {"write"}) => ~pipe.awaits)
    BY DEF ReadInv, TypeInv, StackInv, SameState
  <1>1. UNCHANGED <<got, readEvents, Readable!programVars>>
    BY DEF Goings, Readable!Returns, Readable!DoMaybeReadMore, Readable!SyncOff, Readable!Return,
           Readable!EmitReadable, Readable!Emitted, Readable!AfterReadable, Readable!Flow,
           Readable!Again, Readable!ReadMore, Readable!ReadMoreAgain, Readable!ResumeTick,
           Readable!Resumed, Readable!ReadOn, Readable!UpdateReadableListening, Readable!PipeResumes
  <1>2. result' \in 0 .. MaxChunks
    <2>1. CASE Readable!Return
      BY <1>0, <2>1, HeadIsAStep, StepArguments DEF Readable!Return, Readable!Doing
    <2>2. CASE ~Readable!Return
      BY <1>0, <2>2
         DEF Goings, Readable!Returns, Readable!DoMaybeReadMore, Readable!SyncOff,
             Readable!EmitReadable, Readable!Emitted, Readable!AfterReadable, Readable!Flow,
             Readable!Again, Readable!ReadMore, Readable!ReadMoreAgain, Readable!ResumeTick,
             Readable!Resumed, Readable!ReadOn, Readable!UpdateReadableListening,
             Readable!PipeResumes, TypeInv
    <2> QED BY <2>1, <2>2
  <1>3. r' \in States /\ SameState(r, r') /\ TicksQuietly
    <2>1. CASE UNCHANGED <<r, readTicks>>
      BY <1>0, <2>1 DEF TicksQuietly
    <2>2. CASE Readable!DoMaybeReadMore
      <3>1. <<"maybeReadMore_">> \in Quiets
        BY QuietStep DEF PlainSteps
      <3>2. r' \in States /\ SameState(r, r')
        BY <1>0, <2>2 DEF Readable!DoMaybeReadMore, Readable!MaybeReadMore, States, SameState
      <3> QED BY <2>2, <3>1, <3>2 DEF Readable!DoMaybeReadMore, Readable!MaybeReadMore, TicksQuietly
    <2>3. CASE Readable!SyncOff \/ Readable!Emitted \/ Readable!Resumed
      <3>1. r' \in States /\ SameState(r, r')
        BY <1>0, <2>3 DEF Readable!SyncOff, Readable!Emitted, Readable!Resumed, States, SameState
      <3> QED BY <2>3, <3>1 DEF Readable!SyncOff, Readable!Emitted, Readable!Resumed, TicksQuietly
    <2>4. CASE Readable!AfterReadable
      <3>1. \A b \in BOOLEAN : LET l == [r EXCEPT !.needReadable = b] IN
                               l \in States /\ SameState(r, l)
        BY <1>0 DEF States, SameState
      <3>2. (~Readable!Flows /\ ~r.ended /\ Readable!Length <= highWaterMark) \in BOOLEAN
        OBVIOUS
      <3>3. r' \in States /\ SameState(r, r')
        BY <2>4, <3>1, <3>2 DEF Readable!AfterReadable
      <3> QED BY <2>4, <3>3 DEF Readable!AfterReadable, TicksQuietly
    <2>5. CASE Readable!ReadMore \/ Readable!ReadMoreAgain
      <3>1. r' = r \/ r' = [r EXCEPT !.readingMore = FALSE]
        BY <2>5 DEF Readable!ReadMore, Readable!ReadMoreAgain
      <3>2. r' \in States /\ SameState(r, r')
        BY <1>0, <3>1 DEF States, SameState
      <3> QED BY <2>5, <3>2 DEF Readable!ReadMore, Readable!ReadMoreAgain, TicksQuietly
    <2>6. CASE Readable!UpdateReadableListening
      <3> DEFINE k == [r EXCEPT !.readableListening = "readable" \in listens]
      <3>1. \A b \in BOOLEAN : LET l == [r EXCEPT !.readableListening = b] IN
                               l \in States /\ SameState(r, l)
        BY <1>0 DEF States, SameState
      <3>2. k \in States /\ SameState(r, k)
        BY <3>1, ("readable" \in listens) \in BOOLEAN
      <3>3. \/ r' = [k EXCEPT !.flowing = "true"] /\ UNCHANGED readTicks
            \/ Readable!Resumes(k)
            \/ r' = [k EXCEPT !.flowing = IF k.readableListening THEN @ ELSE "null"]
               /\ UNCHANGED readTicks
        BY <2>6 DEF Readable!UpdateReadableListening
      <3> HIDE DEF k
      <3>4. CASE Readable!Resumes(k)
        BY <3>2, <3>4, ResumesQuietly, SameThrough
      <3>5. ASSUME r' = [k EXCEPT !.flowing = "true"] /\ UNCHANGED readTicks
            PROVE  r' \in States /\ SameState(k, r')
        BY <3>2, <3>5 DEF States, SameState, Tristate
      <3>6. ASSUME r' = [k EXCEPT !.flowing = IF k.readableListening THEN @ ELSE "null"]
                   /\ UNCHANGED readTicks
            PROVE  r' \in States /\ SameState(k, r')
        BY <3>2, <3>6 DEF States, SameState, Tristate
      <3> QED BY <3>2, <3>3, <3>4, <3>5, <3>6, SameThrough DEF TicksQuietly
    <2>7. CASE Readable!PipeResumes
      BY <1>0, <2>7, ResumesQuietly DEF Readable!PipeResumes, TicksQuietly
    <2> QED BY <2>1, <2>2, <2>3, <2>4, <2>5, <2>6, <2>7
               DEF Goings, Readable!Returns, Readable!Return, Readable!EmitReadable, Readable!Flow,
                   Readable!Again, Readable!ResumeTick, Readable!ReadOn
  <1>4. QuietRest
    BY <1>0, <1>1, <1>2, <1>3 DEF QuietRest, Readable!programVars, Readable!otherVars, TypeInv
  <1> QED BY <1>3, <1>4, QuietGoingsStack, QuietTick

LEMMA QuietPipe ==
    ASSUME ReadInv, Readable!Full \/ Readable!OnDrain \/ Readable!DoUnpipe
    PROVE  QuietStack /\ QuietTicks /\ QuietRest
  <1>0. /\ TypeInv /\ r \in States /\ pipe \in Pipes /\ SameState(r, r)
        /\ Has(readStack, {"write"}) => ~pipe.awaits
        /\ readStack \in Seq(Steps) /\ Shape(readStack, Len(got))
    BY DEF ReadInv, TypeInv, StackInv, SameState
  <1>1. readStack # <<>> /\ Head(readStack)[1] \notin SpecialSteps
    BY DEF Readable!Full, Readable!OnDrain, Readable!DoUnpipe, Readable!Doing, SpecialSteps,
           FirstSteps
  <1>2. QuietStack
    <2>1. \E p \in Seq(Quiets) :
              Readable!Becomes(p)
                /\ (p = <<>> \/ Head(readStack)[1] \notin ProgramSteps \/ pipe.awaits)
      <3>1. <<"flow">> \in Quiets /\ <<"ondrain">> \in Quiets
        BY QuietStep DEF PlainSteps
      <3>2. <<>> \in Seq(Quiets) /\ <<<<"flow">>>> \in Seq(Quiets)
              /\ <<<<"ondrain">>>> \in Seq(Quiets)
        BY <3>1, AFewSteps
      <3>3. CASE Readable!Full
        BY <3>2, <3>3 DEF Readable!Full
      <3>4. CASE Readable!OnDrain
        BY <3>2, <3>4 DEF Readable!OnDrain, Readable!Doing, ProgramSteps
      <3>5. CASE Readable!DoUnpipe
        BY <3>2, <3>5 DEF Readable!DoUnpipe
      <3> QED BY <3>3, <3>4, <3>5
    <2> QED BY <1>1, <2>1, Turns
  <1>3. pipe' \in Pipes /\ r' \in States /\ SameState(r, r') /\ listens' \subseteq listens
    <2>1. CASE Readable!Full
      <3>1. \A b, c \in BOOLEAN : [pipe EXCEPT !.awaits = b, !.ondrain = TRUE, !.hears = c] \in Pipes
        BY <1>0 DEF Pipes
      <3>2. (pipe.awaits \/ "pipe" \in listens) \in BOOLEAN
              /\ (pipe.hears \/ ~pipe.ondrain) \in BOOLEAN
        OBVIOUS
      <3>3. pipe' \in Pipes
        BY <2>1, <3>1, <3>2 DEF Readable!Full
      <3>4. r' \in States /\ SameState(r, r')
        BY <1>0, <2>1 DEF Readable!Full, States, SameState, Tristate
      <3> QED BY <2>1, <3>3, <3>4 DEF Readable!Full
    <2>2. CASE Readable!OnDrain
      <3>1. pipe' \in Pipes
        BY <1>0, <2>2 DEF Readable!OnDrain, Pipes
      <3>2. r' \in States /\ SameState(r, r')
        BY <1>0, <2>2 DEF Readable!OnDrain, States, SameState, Tristate
      <3> QED BY <2>2, <3>1, <3>2 DEF Readable!OnDrain
    <2>3. CASE Readable!DoUnpipe
      <3>1. pipe' \in Pipes
        BY <1>0, <2>3 DEF Readable!DoUnpipe, Pipes
      <3>2. r' \in States /\ SameState(r, r')
        BY <1>0, <2>3 DEF Readable!DoUnpipe, States, SameState, Tristate
      <3> QED BY <2>3, <3>1, <3>2 DEF Readable!DoUnpipe
    <2> QED BY <2>1, <2>2, <2>3
  <1>4. Has(readStack, {"write"}) => ~pipe'.awaits
    <2>1. CASE Readable!Full
      <3>1. Head(readStack)[1] \notin ProgramSteps /\ Head(readStack)[1] \notin {"write"}
        BY <2>1 DEF Readable!Full, Readable!Doing, ProgramSteps
      <3> QED BY <1>0, <1>1, <3>1, TailKeeps
    <2>2. CASE Readable!OnDrain \/ Readable!DoUnpipe
      BY <1>0, <2>2 DEF Readable!OnDrain, Readable!DoUnpipe, Pipes
    <2> QED BY <2>1, <2>2
  <1>5. UNCHANGED <<highWaterMark, readOwed, pushed, readAsked, dest, readTicks, result, got,
                  readEvents>>
    BY DEF Readable!Full, Readable!OnDrain, Readable!DoUnpipe
  <1>6. QuietRest
    BY <1>0, <1>3, <1>4, <1>5 DEF QuietRest, TypeInv
  <1> QED BY <1>2, <1>5, <1>6 DEF QuietTicks

LEMMA QuietRead ==
    ASSUME ReadInv, Readable!Read
    PROVE  QuietStack /\ QuietTicks /\ QuietRest
  <1> USE Bounds
  <1>0. /\ TypeInv /\ r \in States /\ SameState(r, r)
        /\ Has(readStack, {"write"}) => ~pipe.awaits
    BY DEF ReadInv, TypeInv, StackInv, SameState
  <1>1. readStack # <<>> /\ Head(readStack)[1] = "read"
    BY DEF Readable!Read, Readable!Doing
  <1> DEFINE n == Head(readStack)[2]
             k == [r EXCEPT !.emittedReadable = @ /\ n = 0]
  <1>2. n \in {0, 1}
    BY <1>0, <1>1, HeadIsAStep, StepArguments
  <1>3. k \in States /\ SameState(r, k)
    <2>1. \A b \in BOOLEAN : LET l == [r EXCEPT !.emittedReadable = b] IN
                             l \in States /\ SameState(r, l)
      BY <1>0 DEF States, SameState
    <2>2. (r.emittedReadable /\ n = 0) \in BOOLEAN
      OBVIOUS
    <2> QED BY <2>1, <2>2
  <1>4. \/ /\ Readable!EndsReadable(k) /\ r.ended /\ Readable!Length = 0 /\ Readable!Becomes(<<>>)
           /\ result' = Readable!None /\ UNCHANGED readOwed
        \/ /\ Readable!EmitsReadable(k) /\ Readable!Becomes(<<>>) /\ result' = Readable!None
                /\ UNCHANGED readOwed
        \/ /\ r' = k /\ UNCHANGED readTicks /\ Readable!Becomes(<<>>) /\ result' = Readable!None
                /\ UNCHANGED readOwed
        \/ /\ r' = [k EXCEPT !.reading = TRUE, !.sync = TRUE, !.needReadable = @ \/ Readable!Length = 0]
           /\ readOwed' = TRUE /\ UNCHANGED <<readTicks, result>>
           /\ Readable!Becomes(<<<<"_read">>, <<"syncOff">>, <<"take", n>>>>)
        \/ r' = k /\ Readable!Becomes(<<<<"take", n>>>>)
             /\ UNCHANGED <<readTicks, result, readOwed>>
    BY DEF Readable!Read
  <1>5. UNCHANGED <<highWaterMark, listens, pushed, readAsked, got, readEvents, Readable!pipeVars>>
    BY DEF Readable!Read
  <1> HIDE DEF k
  <1>6. QuietStack
    <2>1. <<"_read">> \in Quiets /\ <<"syncOff">> \in Quiets /\ <<"take", n>> \in Quiets
      BY <1>2, QuietStep DEF PlainSteps
    <2>2. \E p \in Seq(Quiets) : Readable!Becomes(p)
      BY <1>4, <2>1, AFewSteps
    <2>3. Head(readStack)[1] \notin SpecialSteps /\ Head(readStack)[1] \notin ProgramSteps
      BY <1>1 DEF SpecialSteps, FirstSteps, ProgramSteps
    <2> QED BY <1>1, <2>2, <2>3, Turns
  <1>7. r' \in States /\ SameState(r, r') /\ QuietTicks
    <2>1. CASE Readable!EndsReadable(k) /\ r.ended /\ Readable!Length = 0
      <3>1. k.buffer = <<>> /\ k.ended
        BY <1>0, <1>3, <2>1 DEF Readable!Length, SameState, States
      <3> QED BY <1>3, <2>1, <3>1, EndsQuietly, SameThrough
    <2>2. CASE Readable!EmitsReadable(k)
      BY <1>3, <2>2, EmitsQuietly, SameThrough, QuietTick
    <2>3. CASE r' = k /\ UNCHANGED readTicks
      BY <1>3, <2>3 DEF QuietTicks
    <2>4. CASE r' = [k EXCEPT !.reading = TRUE, !.sync = TRUE, !.needReadable = @ \/ Readable!Length = 0]
               /\ UNCHANGED readTicks
      <3>1. \A b \in BOOLEAN : LET l == [k EXCEPT !.reading = TRUE, !.sync = TRUE, !.needReadable = b]
                               IN  l \in States /\ SameState(k, l)
        BY <1>3 DEF States, SameState
      <3>2. (k.needReadable \/ Readable!Length = 0) \in BOOLEAN
        OBVIOUS
      <3>3. r' \in States /\ SameState(k, r')
        BY <2>4, <3>1, <3>2
      <3> QED BY <1>3, <2>4, <3>3, SameThrough DEF QuietTicks
    <2> QED BY <1>4, <2>1, <2>2, <2>3, <2>4
  <1>8. result' \in 0 .. MaxChunks /\ readOwed' \in BOOLEAN
    <2>1. Readable!None \in 0 .. MaxChunks
      BY DEF Readable!None
    <2>2. result' = Readable!None \/ result' = result
      BY <1>4
    <2>3. readOwed' = TRUE \/ readOwed' = readOwed
      BY <1>4
    <2> QED BY <1>0, <2>1, <2>2, <2>3 DEF TypeInv
  <1> QED BY <1>0, <1>5, <1>6, <1>7, <1>8 DEF QuietRest, TypeInv, Readable!pipeVars

\* The rest of a read() for which there is no chunk.
TakesNone == Readable!Take
  /\ ~(Readable!HowMuchToRead(Head(readStack)[2], r) > 0 /\ Readable!Length > 0)

LEMMA QuietTake ==
    ASSUME ReadInv, TakesNone
    PROVE  QuietStack /\ QuietTicks /\ QuietRest
  <1> USE Bounds
  <1>0. /\ TypeInv /\ r \in States /\ SameState(r, r)
        /\ Has(readStack, {"write"}) => ~pipe.awaits
    BY DEF ReadInv, TypeInv, StackInv, SameState
  <1>1. readStack # <<>> /\ Head(readStack)[1] = "take"
    BY DEF TakesNone, Readable!Take, Readable!Doing
  <1> DEFINE k == [r EXCEPT !.needReadable = (Readable!Length <= highWaterMark) \/ (Readable!Length = 0 /\ ~r.ended)]
  <1>2. k \in States /\ SameState(r, k)
    <2>1. \A b \in BOOLEAN : LET l == [r EXCEPT !.needReadable = b] IN
                             l \in States /\ SameState(r, l)
      BY <1>0 DEF States, SameState
    <2>2. ((Readable!Length <= highWaterMark) \/ (Readable!Length = 0 /\ ~r.ended)) \in BOOLEAN
      OBVIOUS
    <2> QED BY <2>1, <2>2
  <1>3. /\ \/ Readable!EndsReadable(k) /\ r.ended /\ Readable!Length = 0
           \/ r' = k /\ UNCHANGED readTicks
        /\ Readable!Becomes(<<<<"return", Readable!None>>>>)
        /\ UNCHANGED <<got, pipe>>
        /\ UNCHANGED <<result, readEvents, Readable!otherVars>>
    BY DEF TakesNone, Readable!Take
  <1> HIDE DEF k
  <1>4. QuietStack
    <2>1. Readable!None \in 0 .. MaxChunks
      BY DEF Readable!None
    <2>a. <<"return", Readable!None>> \in Quiets
      BY <2>1, QuietStep
    <2>2. <<<<"return", Readable!None>>>> \in Seq(Quiets)
      BY <2>a, AFewSteps
    <2>3. Head(readStack)[1] \notin SpecialSteps /\ Head(readStack)[1] \notin ProgramSteps
      BY <1>1 DEF SpecialSteps, FirstSteps, ProgramSteps
    <2> QED BY <1>1, <1>3, <2>2, <2>3, Turns
  <1>5. r' \in States /\ SameState(r, r') /\ QuietTicks
    <2>1. CASE Readable!EndsReadable(k) /\ r.ended /\ Readable!Length = 0
      <3>1. k.buffer = <<>> /\ k.ended
        BY <1>0, <1>2, <2>1 DEF Readable!Length, SameState, States
      <3> QED BY <1>2, <2>1, <3>1, EndsQuietly, SameThrough
    <2>2. CASE r' = k /\ UNCHANGED readTicks
      BY <1>2, <2>2 DEF QuietTicks
    <2> QED BY <1>3, <2>1, <2>2
  <1> QED BY <1>0, <1>3, <1>4, <1>5 DEF QuietRest, TypeInv, Readable!otherVars

-----------------------------------------------------------------------------
(* Steps with a chunk, an end or a close.                                    *)

\* What stands under a head that is no call of the program.
LEMMA Replaces ==
    ASSUME ReadInv, readStack # <<>>, Head(readStack)[1] \notin ProgramSteps,
           NEW p \in Seq(Steps), NEW n, Shape(p, n), Readable!Becomes(p), NEW N
    PROVE  /\ readStack' \in Seq(Steps) /\ Shape(readStack', n)
           /\ Has(readStack', N) <=> Has(p, N) \/ Has(Tail(readStack), N)
           /\ Has(readStack, N) <=> Head(readStack)[1] \in N \/ Has(Tail(readStack), N)
           /\ ~Has(Tail(readStack), {"write"}) /\ ~Has(Tail(readStack), FirstSteps)
           /\ Head(readStack)[1] \in Closing => ~Has(Tail(readStack), Closing)
           /\ ~Has(p, Closing) => Once(readStack', Closing)
           /\ Once(p, Closing) /\ ~Has(Tail(readStack), Closing) => Once(readStack', Closing)
  <1> DEFINE t == Tail(readStack)
  <1>1. readStack \in Seq(Steps) /\ Shape(readStack, Len(got)) /\ Once(readStack, Closing)
    BY DEF ReadInv, TypeInv, StackInv, CloseInv
  <1>2. /\ t \in Seq(Steps) /\ Shape(t, Len(got)) /\ ~Has(t, {"write"}) /\ ~Has(t, FirstSteps)
        /\ Once(t, Closing) /\ (Head(readStack)[1] \in Closing => ~Has(t, Closing))
        /\ Has(readStack, N) <=> Head(readStack)[1] \in N \/ Has(t, N)
    BY <1>1, Heads, TailKeeps
  <1>3. Shape(t, n)
    BY <1>2 DEF Shape, Has
  <1>4. readStack' = p \o t
    BY DEF Readable!Becomes
  <1> HIDE DEF t
  <1>5. Shape(readStack', n)
    BY <1>2, <1>3, <1>4, ConcatShape
  <1>6. /\ Has(readStack', N) <=> Has(p, N) \/ Has(t, N)
        /\ ~Has(p, Closing) => Once(readStack', Closing)
        /\ Once(p, Closing) /\ ~Has(t, Closing) => Once(readStack', Closing)
    BY <1>2, <1>4, ConcatHas
  <1>7. readStack' \in Seq(Steps)
    BY <1>2, <1>4, Concat
  <1> QED BY <1>2, <1>5, <1>6, <1>7 DEF t

LEMMA NothingFirst ==
    ASSUME NEW s \in Seq(Steps), s # <<>>, NEW N, ~Has(s, N) PROVE Head(s)[1] \notin N
  <1>1. 1 \in 1 .. Len(s) /\ Head(s) = s[1]
    OBVIOUS
  <1> QED BY <1>1 DEF Has

\* Nothing more leaves a stream that has told its end, or than was pushed.
LEMMA Bounded ==
    ASSUME ReadInv
    PROVE  /\ Len(got) \in Nat /\ Len(r.buffer) \in Nat /\ Len(pushed) \in Nat
           /\ Least \in 0 .. MaxChunks /\ Len(got) + Len(r.buffer) <= OnItsWay
           /\ OnItsWay \in 0 .. MaxChunks /\ Len(got) \in 0 .. MaxChunks
           /\ Written \in Int /\ Written <= Len(got)
           /\ \A m \in 1 .. Len(dest) : dest[m] \in Int
           /\ ~r.endEmitted => \A m \in 1 .. Len(dest) : dest[m] <= Written
  <1> USE Bounds
  <1>1. TypeInv /\ BufferInv /\ PipeInv
    BY DEF ReadInv
  <1>2. Len(got) \in Nat /\ Len(r.buffer) \in Nat /\ Len(pushed) \in Nat
    BY <1>1 DEF TypeInv, States
  <1>3. Least \in 0 .. MaxChunks
    BY <1>1, <1>2 DEF Least, Readable!End, BufferInv
  <1>4. Len(got) + Len(r.buffer) <= OnItsWay /\ OnItsWay \in Nat
    <2>1. CASE PushesChunk
      BY <1>2, <2>1 DEF OnItsWay
    <2>2. CASE ~PushesChunk
      BY <1>2, <2>2 DEF OnItsWay
    <2> QED BY <2>1, <2>2
  <1>5. OnItsWay \in 0 .. MaxChunks
    BY <1>1, <1>3, <1>4 DEF BufferInv
  <1>6. Written \in Int /\ Written <= Len(got)
    BY <1>2 DEF Written
  <1>7. \A m \in 1 .. Len(dest) : dest[m] \in Int
    BY <1>1 DEF TypeInv, Readable!End
  <1> QED BY <1>1, <1>2, <1>3, <1>4, <1>5, <1>6, <1>7 DEF PipeInv

\* A tick begins.
LEMMA TickKeeps ==
    ASSUME ReadInv, Readable!Tick PROVE ReadInv'
  <1> DEFINE s == Head(readTicks)
             p == <<s>>
  <1>0. /\ TypeInv /\ StackInv /\ BufferInv /\ EventsInv /\ CloseInv /\ EndsInv /\ PipeInv
        /\ readStack = <<>> /\ readTicks # <<>> /\ readTicks \in Seq(Steps)
        /\ readStack' = p /\ readTicks' = Tail(readTicks)
    BY DEF ReadInv, TypeInv, Readable!Tick, Readable!RunsTick
  <1>u. UNCHANGED <<r, result, got, readEvents, Readable!programVars>>
    BY DEF Readable!Tick
  <1>1. /\ s \in Steps /\ p \in Seq(Steps) /\ Len(p) = 1 /\ p[1] = s /\ p # <<>> /\ Head(p) = s
        /\ readTicks' \in Seq(Steps) /\ Len(readTicks') = Len(readTicks) - 1
             /\ Len(readTicks) \in Nat \ {0}
        /\ s = readTicks[1]
        /\ \A j \in 1 .. Len(readTicks') : readTicks'[j] = readTicks[j + 1]
    BY <1>0
  <1>2. ASSUME NEW N
        PROVE  /\ Has(p, N) <=> s[1] \in N
               /\ Has(readTicks, N) <=> s[1] \in N \/ Has(readTicks', N)
               /\ Once(readTicks, N) => Once(readTicks', N) /\ Once(p, N)
               /\ Once(readTicks, N) /\ s[1] \in N => ~Has(readTicks', N)
               /\ ~Has(readStack, N)
    <2>1. Has(p, N) <=> s[1] \in N
      BY <1>1 DEF Has
    <2>2. Once(p, N)
      BY <1>1 DEF Once
    <2>3. ~Has(readStack, N)
      BY <1>0 DEF Has
    <2> QED BY <1>0, <2>1, <2>2, <2>3, TailHas
  <1> HIDE DEF p, s
  <1>3. s[1] \notin {"push", "write"} /\ ~Has(readTicks', {"push", "write"})
    BY <1>0, <1>2 DEF StackInv
  <1>4. TypeInv'
    BY <1>0, <1>1, <1>u DEF TypeInv, Readable!programVars, Readable!otherVars
  <1>5. StackInv'
    <2>1. Shape(p, Len(got))
      BY <1>1, <1>3 DEF Shape
    <2>2. ~Has(p, {"write"})
      BY <1>2, <1>3
    <2> QED BY <1>0, <1>3, <1>u, <2>1, <2>2 DEF StackInv
  <1>6. ~Readable!Doing({"push"}) /\ ~Readable!Doing({"push"})' /\ ~PushesChunk /\ ~PushesChunk'
    BY <1>0, <1>1, <1>3 DEF Readable!Doing, PushesChunk
  <1>7. BufferInv'
    BY <1>0, <1>6, <1>u DEF BufferInv, OnItsWay, Least, Readable!programVars, Readable!otherVars
  <1>8. EventsInv'
    BY <1>0, <1>u DEF EventsInv, Tell, AllLeft, Readable!programVars, Readable!otherVars
  <1>9. CloseInv'
    <2>1. Once(readTicks', Closing) /\ Once(readStack', Closing)
          /\ (Has(readStack', Closing) \/ Has(readTicks', Closing) <=> Has(readTicks, Closing))
          /\ (Has(readStack', Closing) => ~Has(readTicks', Closing))
          /\ ~Has(readStack, Closing)
      BY <1>0, <1>2 DEF CloseInv
    <2>2. Has(readStack', {"emitErrorClose"}) => Has(readTicks, Closing)
      BY <1>0, <1>2 DEF Closing
    <2> QED BY <1>0, <1>u, <2>1, <2>2 DEF CloseInv
  <1>10. EndsInv'
    <2>1. AllLeft' = AllLeft /\ r' = r
      BY <1>u DEF AllLeft, Readable!programVars, Readable!otherVars
    <2>2. ASSUME Readable!Doing({"endReadableNT"})' PROVE AllLeft \/ r.closeEmitted
                   \/ r.errorEmitted
      <3>1. readTicks[1][1] = "endReadableNT" /\ 1 \in 1 .. Len(readTicks)
        BY <1>0, <1>1, <2>2 DEF Readable!Doing
      <3>2. AllLeft \/ Closed \/ \E i \in 1 .. 1 - 1 : readTicks[i][1] \in Closing
        BY <1>0, <3>1 DEF EndsInv
      <3> QED BY <1>2, <3>2 DEF Closed
    <2>3. ASSUME NEW j \in 1 .. Len(readTicks'), readTicks'[j][1] = "endReadableNT"
          PROVE  AllLeft' \/ Closed' \/ \E i \in 1 .. j - 1 : readTicks'[i][1] \in Closing
      <3>1. j + 1 \in 1 .. Len(readTicks) /\ readTicks[j + 1][1] = "endReadableNT"
        BY <1>1, <2>3
      <3>2. AllLeft \/ Closed \/ \E i \in 1 .. j : readTicks[i][1] \in Closing
        <4>1. AllLeft \/ Closed \/ \E i \in 1 .. j + 1 - 1 : readTicks[i][1] \in Closing
          BY <1>0, <3>1 DEF EndsInv
        <4> QED BY <4>1
      <3>3. CASE AllLeft \/ Closed
        BY <1>2, <2>1, <3>3 DEF Closed
      <3>4. ASSUME NEW i \in 1 .. j, readTicks[i][1] \in Closing
            PROVE  Closed' \/ \E l \in 1 .. j - 1 : readTicks'[l][1] \in Closing
        <4>1. CASE i = 1
          BY <1>0, <1>1, <1>2, <3>4, <4>1 DEF Closed
        <4>2. CASE i # 1
          <5>1. i - 1 \in 1 .. j - 1 /\ i - 1 \in 1 .. Len(readTicks')
                  /\ readTicks'[i - 1] = readTicks[i]
            BY <1>1, <4>2
          <5> QED BY <3>4, <5>1
        <4> QED BY <4>1, <4>2
      <3> QED BY <3>2, <3>3, <3>4
    <2> QED BY <2>1, <2>2, <2>3 DEF EndsInv
  <1>11. PipeInv'
    <2>1. Written' = Written
      BY <1>0, <1>2, <1>3, <1>u DEF Written
    <2> QED BY <1>0, <1>u, <2>1 DEF PipeInv, Readable!programVars, Readable!otherVars
  <1> QED BY <1>4, <1>5, <1>7, <1>8, <1>9, <1>10, <1>11 DEF ReadInv

\* The implementation pushes a chunk or the end.
LEMMA PushKeeps ==
    ASSUME ReadInv, Readable!Push PROVE ReadInv'
  <1> USE Bounds
  <1> DEFINE t == IF readStack = <<>> THEN <<<<"program">>>> ELSE readStack
             c == Len(pushed) + 1
             p == <<<<"push", c>>>>
             n == Len(got)
  <1>0. /\ TypeInv /\ StackInv /\ BufferInv /\ EventsInv /\ CloseInv /\ EndsInv /\ PipeInv
        /\ readStack \in Seq(Steps) /\ Shape(readStack, n) /\ Once(readStack, Closing)
    BY DEF ReadInv, TypeInv, StackInv, CloseInv
  <1>u. /\ UNCHANGED <<highWaterMark, r, listens, readTicks, result, readAsked, got, readEvents,
                       Readable!pipeVars>>
        /\ readOwed' = FALSE /\ pushed' = Append(pushed, c) /\ Len(pushed) < Readable!End
             /\ readStack' = p \o t
        /\ readStack = <<>> \/ (readStack # <<>> /\ Head(readStack)[1] = "_read")
    BY DEF Readable!Push, Readable!Calls, Readable!Doing, Readable!AtRest
  <1>1. c \in 1 .. Readable!End /\ pushed' \in Seq(1 .. Readable!End) /\ Len(pushed') = c
          /\ Len(pushed) \in Nat
    BY <1>0, <1>u DEF TypeInv, Readable!End
  <1>2. /\ t \in Seq(Steps) /\ Shape(t, n) /\ ~Has(t, FirstSteps) /\ Once(t, Closing)
        /\ ~Readable!Doing({"push"}) /\ ~Has(t, {"write"}) /\ ~Has(readStack, {"write"})
        /\ Has(readStack, Closing) <=> Has(t, Closing)
    <2>1. CASE readStack = <<>>
      <3>0. <<"program">> \in Quiets
        BY QuietStep
      <3>1. t \in Seq(Quiets)
        BY <2>1, <3>0
      <3>2. Has(readStack, Closing) = FALSE /\ Has(readStack, {"write"}) = FALSE
              /\ ~Readable!Doing({"push"})
        BY <2>1 DEF Has, Readable!Doing
      <3>3. Once(t, Closing)
        BY <3>1, QuietSequence DEF Once, Has
      <3> QED BY <3>1, <3>2, <3>3, QuietSequence
    <2>2. CASE readStack # <<>>
      <3>1. /\ Head(readStack)[1] \notin FirstSteps /\ Head(readStack)[1] \notin ProgramSteps
            /\ Head(readStack)[1] \notin {"write"} /\ ~Readable!Doing({"push"})
        BY <1>u, <2>2 DEF FirstSteps, ProgramSteps, Readable!Doing
      <3> QED BY <1>0, <2>2, <3>1, TailKeeps
    <2> QED BY <2>1, <2>2
  <1>3. /\ p \in Seq(Steps) /\ Len(p) = 1 /\ p[1] = <<"push", c>> /\ p # <<>> /\ Shape(p, n)
        /\ ~Has(p, Closing) /\ ~Has(p, {"write"})
    <2>1. <<"push", c>> \in Steps
      BY <1>1 DEF Steps
    <2>2. p \in Seq(Steps) /\ Len(p) = 1 /\ p[1] = <<"push", c>> /\ p # <<>>
      BY <2>1
    <2> HIDE DEF p
    <2>3. Shape(p, n) /\ ~Has(p, Closing) /\ ~Has(p, {"write"})
      BY <2>2 DEF Shape, Has, Closing
    <2> QED BY <2>2, <2>3
  <1> HIDE DEF t, p, n
  <1>4. /\ readStack' \in Seq(Steps) /\ Shape(readStack', n) /\ Once(readStack', Closing)
        /\ Has(readStack', Closing) <=> Has(readStack, Closing)
        /\ ~Has(readStack', {"write"})
    BY <1>2, <1>3, <1>u, ConcatHas, ConcatShape, Concat
  <1>5. readStack' # <<>> /\ Head(readStack') = <<"push", c>>
    <2>1. readStack'[1] = <<"push", c>> /\ Len(readStack') > 0
      BY <1>2, <1>3, <1>u, Concat
    <2> QED BY <1>4, <2>1
  <1>6. ~AllLeft /\ ~r.endEmitted
    BY <1>0, <1>u DEF AllLeft, EventsInv
  <1>7. TypeInv'
    BY <1>0, <1>1, <1>4, <1>u DEF TypeInv, Readable!pipeVars
  <1>8. StackInv'
    BY <1>0, <1>4, <1>u DEF StackInv, n
  <1>9. BufferInv'
    <2>1. (PushesChunk' <=> c # Readable!End) /\ Readable!Doing({"push"})' /\ ~PushesChunk
      BY <1>2, <1>5 DEF PushesChunk, Readable!Doing
    <2>2. Least = Len(pushed) /\ Least' = IF c = Readable!End THEN MaxChunks ELSE c
      BY <1>1, <1>u DEF Least
    <2>3. OnItsWay' = OnItsWay + (IF c # Readable!End THEN 1 ELSE 0)
      <3>1. got' = got /\ r' = r /\ Len(got) \in Nat /\ Len(r.buffer) \in Nat
        BY <1>u, Bounded
      <3>2. OnItsWay = Len(got) + Len(r.buffer)
        BY <2>1, <3>1 DEF OnItsWay
      <3>3. OnItsWay' = Len(got') + Len(r'.buffer) + (IF PushesChunk' THEN 1 ELSE 0)
        BY DEF OnItsWay
      <3>4. CASE c = Readable!End
        BY <2>1, <3>1, <3>2, <3>3, <3>4
      <3>5. CASE c # Readable!End
        BY <2>1, <3>1, <3>2, <3>3, <3>5
      <3> QED BY <3>4, <3>5
    <2>4. OnItsWay \in Nat
      BY Bounded
    <2>5. OnItsWay' <= Least' /\ (OnItsWay = Least => OnItsWay' = Least')
      BY <1>0, <1>1, <2>2, <2>3, <2>4 DEF BufferInv, Readable!End
    <2>6. ~r.ended
      BY <1>0, <1>u, <1>1 DEF BufferInv, Readable!End
    <2> QED BY <1>0, <1>1, <1>5, <1>u, <2>5, <2>6 DEF BufferInv, Readable!Doing
  <1>10. EventsInv'
    BY <1>0, <1>6, <1>u DEF EventsInv, Tell
  <1>11. CloseInv'
    <2>1. Has(readStack', {"emitErrorClose"}) => Has(readStack, {"emitErrorClose"})
      <3>1. ~Has(t, {"emitErrorClose"}) /\ ~Has(p, {"emitErrorClose"})
        BY <1>2, <1>3 DEF Has, FirstSteps, Closing
      <3> QED BY <1>2, <1>3, <1>u, <3>1, ConcatHas
    <2> QED BY <1>0, <1>4, <1>u, <2>1 DEF CloseInv
  <1>12. EndsInv'
    <2>1. ~Readable!Doing({"endReadableNT"})'
      BY <1>5 DEF Readable!Doing
    <2>2. Closed' = Closed
      BY <1>4, <1>u DEF Closed
    <2> QED BY <1>0, <1>6, <1>u, <2>1, <2>2 DEF EndsInv
  <1>13. PipeInv'
    <2>1. Written' = Written
      BY <1>2, <1>4, <1>u DEF Written
    <2> QED BY <1>0, <1>u, <2>1 DEF PipeInv, Readable!pipeVars
  <1> QED BY <1>7, <1>8, <1>9, <1>10, <1>11, <1>12, <1>13 DEF ReadInv

\* What the queue of ticks says of the end stays true when nothing it speaks of goes away.
LEMMA EndsStay ==
    ASSUME ReadInv, QuietTicks, AllLeft => AllLeft', Closed => Closed',
           AnEnd => AllLeft' \/ Closed' \/ Has(readTicks, Closing),
           Readable!Doing({"endReadableNT"})' => AllLeft' \/ r'.closeEmitted \/ r'.errorEmitted
    PROVE  EndsInv'
  <1>1. /\ TypeInv /\ EndsInv /\ Once(readTicks, Closing) /\ ~Has(readTicks, {"push", "write"})
        /\ readTicks \in Seq(Steps)
    BY DEF ReadInv, CloseInv, StackInv, TypeInv
  <1>2. ASSUME NEW j \in 1 .. Len(readTicks'), readTicks'[j][1] = "endReadableNT"
        PROVE  AllLeft' \/ Closed' \/ \E i \in 1 .. j - 1 : readTicks'[i][1] \in Closing
    <2>1. CASE j \in 1 .. Len(readTicks) /\ \A i \in 1 .. j : readTicks'[i] = readTicks[i]
      <3>1. j \in 1 .. j /\ readTicks'[j] = readTicks[j]
        BY <2>1
      <3>2. AllLeft \/ Closed \/ \E i \in 1 .. j - 1 : readTicks[i][1] \in Closing
        BY <1>1, <1>2, <2>1, <3>1 DEF EndsInv
      <3>3. \A i \in 1 .. j - 1 : readTicks'[i] = readTicks[i]
        BY <2>1
      <3> QED BY <3>2, <3>3
    <2>2. CASE j = Len(readTicks) + 1 /\ AnEnd /\ \A i \in 1 .. j - 1 : readTicks'[i] = readTicks[i]
      <3>1. Has(readTicks, Closing) => \E i \in 1 .. j - 1 : readTicks'[i][1] \in Closing
        BY <1>1, <2>2 DEF Has
      <3> QED BY <2>2, <3>1
    <2> QED BY <1>1, <1>2, <2>1, <2>2, QuietTicksGrow
  <1> QED BY <1>2 DEF EndsInv

\* The same of the close.
LEMMA CloseStays ==
    ASSUME ReadInv, QuietTicks, Once(readStack', Closing),
           Has(readStack', Closing) <=> Has(readStack, Closing),
           Has(readStack', {"emitErrorClose"}) => Has(readStack, {"emitErrorClose"}),
           r'.destroyed = r.destroyed, r'.closeEmitted = r.closeEmitted,
           r'.errorEmitted = r.errorEmitted
    PROVE  CloseInv' /\ (Closed' <=> Closed)
  <1>1. TypeInv /\ CloseInv /\ Once(readTicks, Closing) /\ ~Has(readTicks, {"push", "write"})
    BY DEF ReadInv, CloseInv, StackInv
  <1>2. (Has(readTicks', Closing) <=> Has(readTicks, Closing)) /\ Once(readTicks', Closing)
    BY <1>1, QuietTicksGrow
  <1> QED BY <1>1, <1>2 DEF CloseInv, Closed

\* The steps with which a chunk leaves.
LEMMA OneTwoThree ==
    ASSUME NEW a \in Steps, NEW b \in Steps, NEW x \in Steps
    PROVE  /\ LET p == (<<>> \o <<>>) \o <<x>> IN
              p \in Seq(Steps) /\ Len(p) = 1 /\ p[1] = x
           /\ LET p == (<<a>> \o <<>>) \o <<x>> IN
              p \in Seq(Steps) /\ Len(p) = 2 /\ p[1] = a /\ p[2] = x
           /\ LET p == (<<>> \o <<b>>) \o <<x>> IN
              p \in Seq(Steps) /\ Len(p) = 2 /\ p[1] = b /\ p[2] = x
           /\ LET p == (<<a>> \o <<b>>) \o <<x>> IN
              p \in Seq(Steps) /\ Len(p) = 3 /\ p[1] = a /\ p[2] = b /\ p[3] = x
  OBVIOUS

\* A chunk leaves the stream for those that listen to 'data'.
LEMMA LeavesKeeps ==
    ASSUME ReadInv, readStack # <<>>, Head(readStack)[1] \in {"push", "take"},
           NEW c \in Readable!Chunks, c = Len(got) + 1, Readable!LeavesStream(c),
           NEW x \in Quiets, Readable!Becomes(Readable!EmitsData(c) \o <<x>>),
           r' \in States, r'.ended = r.ended, r'.endEmitted = r.endEmitted,
           r'.destroyed = r.destroyed, r'.errored = r.errored,
           r'.errorEmitted = r.errorEmitted, r'.closeEmitted = r.closeEmitted,
           \A i \in 1 .. Len(r'.buffer) : r'.buffer[i] = c + i,
           OnItsWay = c + Len(r'.buffer),
           QuietTicks, UNCHANGED <<result, readEvents, Readable!otherVars>>
    PROVE  ReadInv'
  <1> USE Bounds
  <1> DEFINE p == Readable!EmitsData(c) \o <<x>>
             t == Tail(readStack)
  <1>0. /\ TypeInv /\ StackInv /\ BufferInv /\ EventsInv /\ CloseInv /\ EndsInv /\ PipeInv
        /\ readStack \in Seq(Steps) /\ Once(readStack, Closing)
        /\ Once(readTicks, Closing) /\ ~Has(readTicks, {"push", "write"})
    BY DEF ReadInv, TypeInv, StackInv, CloseInv
  <1>u. UNCHANGED <<highWaterMark, listens, readOwed, pushed, readAsked, dest, result, readEvents>>
    BY DEF Readable!otherVars
  <1>1. /\ c \in 1 .. MaxChunks /\ got' = Append(got, c) /\ got' \in Seq(Readable!Chunks)
             /\ Len(got') = c
        /\ \A i \in 1 .. Len(got) : got'[i] = got[i]
        /\ got'[c] = c
        /\ pipe' = [pipe EXCEPT !.awaits = FALSE] /\ pipe' \in Pipes /\ ~pipe'.awaits
    <2>1. got' = Append(got, c) /\ pipe' = [pipe EXCEPT !.awaits = FALSE]
      BY DEF Readable!LeavesStream
    <2>2. got \in Seq(Readable!Chunks) /\ pipe \in Pipes
      BY <1>0 DEF TypeInv
    <2>3. pipe' \in Pipes /\ ~pipe'.awaits
      BY <2>1, <2>2 DEF Pipes
    <2>4. got' \in Seq(Readable!Chunks) /\ Len(got') = Len(got) + 1
          /\ (\A i \in 1 .. Len(got) : got'[i] = got[i]) /\ got'[Len(got) + 1] = c
      BY <2>1, <2>2
    <2> QED BY <2>1, <2>3, <2>4 DEF Readable!Chunks
  <1>2. ~AllLeft /\ ~r.endEmitted
    BY <1>0, <1>1 DEF AllLeft, EventsInv
  <1>3. /\ p \in Seq(Steps) /\ Shape(p, c) /\ ~Has(p, Closing) /\ ~Has(p, FirstSteps)
        /\ Has(p, {"write"}) <=> "pipe" \in listens
    <2> DEFINE a == <<"program">>
               b == <<"write", c>>
    <2>1. /\ a \in Steps /\ b \in Steps /\ x \in Steps /\ x[1] \notin SpecialSteps
          /\ a[1] = "program" /\ b[1] = "write" /\ b[2] = c
      <3>1. c \in 1 .. Readable!End
        BY <1>1 DEF Readable!End
      <3>2. b \in Steps
        BY <3>1 DEF Steps
      <3>3. a \in Quiets
        BY QuietStep
      <3> QED BY <3>2, <3>3 DEF Quiets
    <2>2. p = ((IF "data" \in listens THEN <<a>> ELSE <<>>)
               \o (IF "pipe" \in listens THEN <<b>> ELSE <<>>)) \o <<x>>
      BY DEF Readable!EmitsData
    <2> HIDE DEF a, b, p
    <2>3. /\ p \in Seq(Steps)
          /\ \/ "pipe" \notin listens /\ Len(p) = 1 /\ p[1] = x
             \/ "pipe" \notin listens /\ Len(p) = 2 /\ p[1] = a /\ p[2] = x
             \/ "pipe" \in listens /\ Len(p) = 2 /\ p[1] = b /\ p[2] = x
             \/ "pipe" \in listens /\ Len(p) = 3 /\ p[1] = a /\ p[2] = b /\ p[3] = x
      BY <2>1, <2>2, OneTwoThree
    <2>4. x[1] \notin {"write"} /\ x[1] \notin FirstSteps /\ x[1] \notin Closing
      BY <2>1 DEF SpecialSteps, FirstSteps, Closing
    <2>5. /\ a[1] \notin {"write"} /\ a[1] \notin FirstSteps /\ a[1] \notin Closing
          /\ b[1] \notin FirstSteps /\ b[1] \notin Closing /\ a[1] \in ProgramSteps
      BY <2>1 DEF FirstSteps, Closing, ProgramSteps
    <2>6. \A i \in 1 .. Len(p) : p[i] = a \/ p[i] = b \/ p[i] = x
      BY <2>3
    <2>7. ~Has(p, Closing) /\ ~Has(p, FirstSteps)
      BY <2>4, <2>5, <2>6 DEF Has
    <2>8. Has(p, {"write"}) <=> "pipe" \in listens
      <3>1. CASE "pipe" \in listens
        <4>1. \E i \in 1 .. Len(p) : p[i] = b
          BY <2>3, <3>1
        <4> QED BY <2>1, <3>1, <4>1 DEF Has
      <3>2. CASE "pipe" \notin listens
        BY <2>1, <2>3, <2>4, <2>5, <3>2 DEF Has
      <3> QED BY <3>1, <3>2
    <2>9. \A i \in 1 .. Len(p) : p[i][1] = "write" =>
              p[i][2] = c /\ \A j \in 1 .. i - 1 : p[j][1] \in ProgramSteps
      <3> SUFFICES ASSUME NEW i \in 1 .. Len(p), p[i][1] = "write"
                   PROVE  p[i][2] = c /\ \A j \in 1 .. i - 1 : p[j][1] \in ProgramSteps
        OBVIOUS
      <3>1. p[i] # x /\ p[i] # a
        BY <2>4, <2>5
      <3>2. p[i] = b /\ (i = 1 \/ (i = 2 /\ p[1] = a))
        BY <2>3, <3>1
      <3> QED BY <2>1, <2>5, <3>2
    <2>10. Shape(p, c)
      BY <2>7, <2>9 DEF Shape, Has
    <2> QED BY <2>3, <2>7, <2>8, <2>10
  <1> HIDE DEF p
  <1>4. Head(readStack)[1] \notin ProgramSteps /\ Head(readStack)[1] \notin {"write"}
        /\ Head(readStack)[1] \notin Closing /\ Readable!Becomes(p)
    BY DEF ProgramSteps, p, Closing
  <1>5. /\ readStack' \in Seq(Steps) /\ Shape(readStack', c) /\ ~Has(readStack', FirstSteps)
        /\ Has(readStack', Closing) <=> Has(readStack, Closing)
        /\ Once(readStack', Closing)
        /\ Has(readStack', {"write"}) <=> "pipe" \in listens
        /\ ~Has(readStack, {"write"})
    <2>1. \A N : /\ Has(readStack', N) <=> Has(p, N) \/ Has(t, N)
                 /\ Has(readStack, N) <=> Head(readStack)[1] \in N \/ Has(t, N)
      BY <1>3, <1>4, Replaces
    <2>2. /\ readStack' \in Seq(Steps) /\ Shape(readStack', c)
          /\ ~Has(t, {"write"}) /\ ~Has(t, FirstSteps) /\ Once(readStack', Closing)
      BY <1>3, <1>4, Replaces
    <2> QED BY <1>3, <1>4, <2>1, <2>2
  <1>6. ~Readable!Doing({"push"})' /\ ~PushesChunk' /\ ~Readable!Doing({"endReadableNT"})'
    <2>1. readStack' # <<>> => Head(readStack')[1] \notin FirstSteps
      BY <1>5, NothingFirst
    <2> QED BY <2>1 DEF Readable!Doing, PushesChunk, FirstSteps
  <1>7. readTicks' \in Seq(Steps) /\ ~Has(readTicks', {"push", "write"})
    BY <1>0, QuietTicksGrow
  <1>8. TypeInv'
    BY <1>0, <1>1, <1>5, <1>7, <1>u DEF TypeInv
  <1>9. StackInv'
    BY <1>1, <1>2, <1>5, <1>7 DEF StackInv
  <1>10. OnItsWay' = OnItsWay
    <2>1. OnItsWay' = Len(got') + Len(r'.buffer) + (IF PushesChunk' THEN 1 ELSE 0)
      BY DEF OnItsWay
    <2>2. Len(r'.buffer) \in Nat
      BY DEF States
    <2> QED BY <1>1, <1>6, <2>1, <2>2
  <1>11. BufferInv'
    <2>1. \A i \in 1 .. Len(got') : got'[i] = i
      <3>1. \A i \in 1 .. Len(got') : i \in 1 .. Len(got) \/ i = c
        BY <1>1
      <3> QED BY <1>0, <1>1, <3>1 DEF BufferInv
    <2>2. Least' = Least
      BY <1>u DEF Least
    <2> QED BY <1>0, <1>1, <1>6, <1>10, <1>u, <2>1, <2>2 DEF BufferInv
  <1>12. EventsInv'
    BY <1>0, <1>2, <1>u DEF EventsInv, Tell
  <1>13. CloseInv' /\ (Closed' <=> Closed)
    <2>1. ~Has(readStack', {"emitErrorClose"})
      BY <1>5 DEF Has, FirstSteps
    <2> QED BY <1>5, <2>1, CloseStays
  <1>14. EndsInv'
    <2>1. AnEnd => AllLeft' \/ Closed' \/ Has(readTicks, Closing)
      <3> SUFFICES ASSUME AnEnd PROVE AllLeft' \/ Closed \/ Has(readTicks, Closing)
        BY <1>13
      <3>1. CASE r.destroyed
        BY <1>0, <3>1 DEF CloseInv, Closed
      <3>2. CASE ~r.destroyed
        <4>1. Len(pushed) = Readable!End /\ Len(r'.buffer) = 0
          BY <1>0 DEF AnEnd, BufferInv
        <4>2. c = MaxChunks
          BY <1>0, <3>2, <4>1 DEF BufferInv, Least
        <4> QED BY <1>1, <1>u, <4>1, <4>2 DEF AllLeft
      <3> QED BY <3>1, <3>2
    <2> QED BY <1>2, <1>6, <1>13, <2>1, EndsStay
  <1>15. PipeInv'
    <2>1. Written = Len(got) /\ Written' = IF "pipe" \in listens THEN Len(got) ELSE c
      <3>1. Written' = Len(got') - (IF Has(readStack', {"write"}) THEN 1 ELSE 0)
        BY DEF Written
      <3>2. Len(got) \in Nat /\ Len(got') = Len(got) + 1
        BY <1>1, Bounded
      <3>3. Written = Len(got)
        BY <1>5, <3>2 DEF Written
      <3>4. CASE "pipe" \in listens
        BY <1>5, <3>1, <3>2, <3>3, <3>4
      <3>5. CASE "pipe" \notin listens
        BY <1>5, <3>1, <3>2, <3>3, <3>5
      <3> QED BY <3>4, <3>5
    <2>2. \A m \in 1 .. Len(dest) : dest[m] <= Written /\ dest[m] \in Int
      BY <1>2, Bounded
    <2>3. \A m \in 1 .. Len(dest) : dest[m] <= Written' /\ dest[m] # Readable!End
      BY <1>1, <2>1, <2>2, Bounded DEF Readable!End
    <2>4. dest # <<>> => dest[Len(dest)] # Readable!End
      BY <1>0, <2>3 DEF TypeInv
    <2> QED BY <1>0, <1>2, <1>u, <2>1, <2>3, <2>4 DEF PipeInv
  <1> QED BY <1>8, <1>9, <1>11, <1>12, <1>13, <1>14, <1>15 DEF ReadInv

\* What is pushed goes to the buffer, or is the end, or comes too late.
LEMMA PushedKeeps ==
    ASSUME ReadInv, Readable!Doing({"push"}), NEW p \in Seq(Quiets), Readable!Becomes(p),
           r' \in States, r'.endEmitted = r.endEmitted,
           r'.destroyed = r.destroyed, r'.errored = r.errored,
           r'.errorEmitted = r.errorEmitted, r'.closeEmitted = r.closeEmitted,
           r'.ended => r.ended \/ Head(readStack)[2] = Readable!End,
           \A i \in 1 .. Len(r'.buffer) : r'.buffer[i] = Len(got) + i,
           Len(got) + Len(r'.buffer) <= OnItsWay,
           ~r.destroyed => Len(got) + Len(r'.buffer) = OnItsWay,
           QuietTicks, UNCHANGED <<result, readEvents, got, pipe, Readable!otherVars>>
    PROVE  ReadInv'
  <1> USE Bounds
  <1> DEFINE t == Tail(readStack)
             n == Len(got)
  <1>0. /\ TypeInv /\ StackInv /\ BufferInv /\ EventsInv /\ CloseInv /\ EndsInv /\ PipeInv
        /\ readStack \in Seq(Steps) /\ Once(readStack, Closing)
        /\ Once(readTicks, Closing) /\ ~Has(readTicks, {"push", "write"})
        /\ readStack # <<>> /\ Head(readStack)[1] = "push"
    BY DEF ReadInv, TypeInv, StackInv, CloseInv, Readable!Doing
  <1>u. UNCHANGED <<highWaterMark, listens, readOwed, pushed, readAsked, dest, result, readEvents,
                  got, pipe>>
    BY DEF Readable!otherVars
  <1>1. p \in Seq(Steps) /\ Shape(p, n) /\ ~Has(p, Closing) /\ ~Has(p, FirstSteps)
        /\ ~Has(p, {"write"})
    BY QuietSequence
  <1>2. Head(readStack)[1] \notin ProgramSteps /\ Head(readStack)[1] \notin {"write"}
        /\ Head(readStack)[1] \notin Closing
    BY <1>0 DEF ProgramSteps, Closing
  <1>3. /\ readStack' \in Seq(Steps) /\ Shape(readStack', n) /\ ~Has(readStack', FirstSteps)
        /\ Has(readStack', Closing) <=> Has(readStack, Closing)
        /\ Once(readStack', Closing)
        /\ ~Has(readStack', {"write"}) /\ ~Has(readStack, {"write"})
    <2>1. \A N : /\ Has(readStack', N) <=> Has(p, N) \/ Has(t, N)
                 /\ Has(readStack, N) <=> Head(readStack)[1] \in N \/ Has(t, N)
      BY <1>0, <1>1, <1>2, Replaces
    <2>2. /\ readStack' \in Seq(Steps) /\ Shape(readStack', n)
          /\ ~Has(t, {"write"}) /\ ~Has(t, FirstSteps) /\ Once(readStack', Closing)
      BY <1>0, <1>1, <1>2, Replaces
    <2> QED BY <1>1, <1>2, <2>1, <2>2
  <1>4. ~Readable!Doing({"push"})' /\ ~PushesChunk' /\ ~Readable!Doing({"endReadableNT"})'
    <2>1. readStack' # <<>> => Head(readStack')[1] \notin FirstSteps
      BY <1>3, NothingFirst
    <2> QED BY <2>1 DEF Readable!Doing, PushesChunk, FirstSteps
  <1>5. readTicks' \in Seq(Steps) /\ ~Has(readTicks', {"push", "write"})
    BY <1>0, QuietTicksGrow
  <1>6. TypeInv'
    BY <1>0, <1>3, <1>5, <1>u DEF TypeInv
  <1>7. StackInv'
    BY <1>0, <1>3, <1>5, <1>u DEF StackInv
  <1>8. Least' = Least /\ OnItsWay' = Len(got) + Len(r'.buffer)
    <2>1. OnItsWay' = Len(got') + Len(r'.buffer) + (IF PushesChunk' THEN 1 ELSE 0)
      BY DEF OnItsWay
    <2>2. Len(r'.buffer) \in Nat /\ Len(got) \in Nat
      BY Bounded DEF States
    <2>3. OnItsWay' = Len(got) + Len(r'.buffer)
      BY <1>4, <1>u, <2>1, <2>2
    <2> QED BY <1>u, <2>3 DEF Least
  <1>9. BufferInv'
    <2>1. r'.ended => Len(pushed) = Readable!End
      BY <1>0 DEF BufferInv
    <2>2. OnItsWay' <= Least' /\ (~r.destroyed => OnItsWay' = Least')
      BY <1>0, <1>8, Bounded DEF BufferInv, States
    <2> QED BY <1>0, <1>4, <1>u, <2>1, <2>2 DEF BufferInv
  <1>10. EventsInv'
    BY <1>0, <1>u DEF EventsInv, Tell, AllLeft
  <1>11. CloseInv' /\ (Closed' <=> Closed)
    <2>1. ~Has(readStack', {"emitErrorClose"})
      BY <1>3 DEF Has, FirstSteps
    <2> QED BY <1>3, <2>1, CloseStays
  <1>12. EndsInv'
    <2>1. AnEnd => AllLeft' \/ Closed' \/ Has(readTicks, Closing)
      <3> SUFFICES ASSUME AnEnd PROVE AllLeft' \/ Closed \/ Has(readTicks, Closing)
        BY <1>11
      <3>1. CASE r.destroyed
        BY <1>0, <3>1 DEF CloseInv, Closed
      <3>2. CASE ~r.destroyed
        <4>1. Len(pushed) = Readable!End /\ Len(r'.buffer) = 0
          BY <1>0 DEF AnEnd, BufferInv
        <4>2. Len(got) = MaxChunks
          BY <1>0, <3>2, <4>1, Bounded DEF BufferInv, Least
        <4> QED BY <1>u, <4>1, <4>2 DEF AllLeft
      <3> QED BY <3>1, <3>2
    <2>2. AllLeft => AllLeft'
      BY <1>u DEF AllLeft
    <2> QED BY <1>4, <1>11, <2>1, <2>2, EndsStay
  <1>13. PipeInv'
    <2>1. Written' = Written
      BY <1>3, <1>u DEF Written
    <2> QED BY <1>0, <1>u, <2>1 DEF PipeInv
  <1> QED BY <1>6, <1>7, <1>9, <1>10, <1>11, <1>12, <1>13 DEF ReadInv

LEMMA DoPushChunkKeeps ==
    ASSUME ReadInv, Readable!DoPushChunk PROVE ReadInv'
  <1> USE Bounds
  <1> DEFINE c == Head(readStack)[2]
             k == [r EXCEPT !.reading = FALSE]
             more == [k EXCEPT !.buffer = Append(@, c)]
             x == <<"maybeReadMore">>
  <1>0. /\ TypeInv /\ BufferInv /\ r \in States /\ SameState(r, r)
    BY DEF ReadInv, TypeInv, SameState
  <1>1. Readable!Doing({"push"}) /\ readStack # <<>> /\ Head(readStack)[1] = "push"
          /\ c # Readable!End /\ PushesChunk
        /\ UNCHANGED <<result, readEvents, Readable!otherVars>>
    BY DEF Readable!DoPushChunk, Readable!Doing, PushesChunk
  <1>2. c \in Readable!Chunks
    <2>1. c \in 1 .. Readable!End
      BY <1>0, <1>1, HeadIsAStep, StepArguments
    <2> QED BY <1>1, <2>1 DEF Readable!Chunks, Readable!End
  <1>3. c = Len(pushed) /\ OnItsWay = Len(got) + Len(r.buffer) + 1
    BY <1>0, <1>1 DEF BufferInv, OnItsWay
  <1>4. x \in Quiets /\ <<x>> \in Seq(Quiets) /\ <<>> \in Seq(Quiets)
    BY QuietStep, AFewSteps DEF PlainSteps
  <1>5. CASE (r.destroyed \/ r.errored)
    <2>1. Readable!Becomes(<<>>) /\ UNCHANGED <<r, readTicks, got, pipe>>
      BY <1>5 DEF Readable!DoPushChunk
    <2>2. r.destroyed
      BY <1>0, <1>5 DEF BufferInv
    <2>3. /\ \A i \in 1 .. Len(r'.buffer) : r'.buffer[i] = Len(got) + i
          /\ Len(got) + Len(r'.buffer) <= OnItsWay /\ QuietTicks
      BY <1>0, <2>1, Bounded DEF BufferInv, QuietTicks
    <2>4. r' = r /\ got' = got /\ pipe' = pipe
      BY <2>1
    <2> HIDE DEF c, k, more, x
    <2> QED BY <1>0, <1>1, <1>4, <2>1, <2>2, <2>3, <2>4, PushedKeeps
  <1>6. CASE ~(r.destroyed \/ r.errored) /\ Readable!EmitsAtOnce
    <2>1. r' = k /\ Readable!LeavesStream(c) /\ Readable!Becomes(Readable!EmitsData(c) \o <<x>>)
            /\ UNCHANGED readTicks
      BY <1>6 DEF Readable!DoPushChunk
    <2>2. r' \in States /\ SameState(r, r')
      BY <1>0, <2>1 DEF States, SameState
    <2>3. Len(r.buffer) = 0 /\ Len(r'.buffer) = 0
      BY <1>6, <2>2 DEF Readable!EmitsAtOnce, Readable!Length, SameState
    <2>4. c = Len(got) + 1 /\ OnItsWay = c + Len(r'.buffer)
      BY <1>0, <1>1, <1>3, <1>6, <2>3, Bounded DEF BufferInv, Least
    <2>5. \A i \in 1 .. Len(r'.buffer) : r'.buffer[i] = c + i
      BY <2>3
    <2>6. QuietTicks
      BY <2>1 DEF QuietTicks
    <2>7. Head(readStack)[1] \in {"push", "take"}
      BY <1>1
    <2> HIDE DEF c, k, more, x
    <2> QED BY <1>1, <1>2, <1>4, <2>1, <2>2, <2>4, <2>5, <2>6, <2>7, LeavesKeeps DEF SameState
  <1>7. CASE ~(r.destroyed \/ r.errored) /\ ~Readable!EmitsAtOnce
    <2>1. /\ Readable!EmitsReadable(more) \/ (r' = more /\ UNCHANGED readTicks)
          /\ Readable!Becomes(<<x>>) /\ UNCHANGED <<got, pipe>>
      BY <1>7 DEF Readable!DoPushChunk
    <2>2. k \in States /\ SameState(r, k)
      BY <1>0 DEF States, SameState
    <2>3. /\ more \in States /\ more.buffer = Append(r.buffer, c)
          /\ SameState([r EXCEPT !.buffer = Append(r.buffer, c)], more)
      <3>1. Append(r.buffer, c) \in Seq(Readable!Chunks)
        BY <1>0, <1>2 DEF States
      <3> HIDE DEF k, c
      <3> QED BY <1>0, <2>2, <3>1 DEF States, SameState
    <2>4. r' \in States /\ SameState(more, r') /\ TicksQuietly
      <3> HIDE DEF more
      <3>1. CASE Readable!EmitsReadable(more)
        BY <2>3, <3>1, EmitsQuietly
      <3>2. CASE r' = more /\ UNCHANGED readTicks
        BY <2>3, <3>2 DEF SameState, TicksQuietly
      <3> QED BY <2>1, <3>1, <3>2
    <2>5. /\ r'.buffer = Append(r.buffer, c) /\ r'.ended = r.ended /\ r'.endEmitted = r.endEmitted
          /\ r'.destroyed = r.destroyed /\ r'.errored = r.errored
          /\ r'.errorEmitted = r.errorEmitted /\ r'.closeEmitted = r.closeEmitted
      <3> HIDE DEF more, c
      <3> QED BY <1>0, <2>3, <2>4 DEF SameState, States
    <2>6. /\ Len(r'.buffer) = Len(r.buffer) + 1
          /\ Len(got) + Len(r'.buffer) = OnItsWay
          /\ \A i \in 1 .. Len(r'.buffer) : r'.buffer[i] = Len(got) + i
      <3> HIDE DEF c, more, k
      <3>0. r.buffer \in Seq(Readable!Chunks) /\ Len(r.buffer) \in Nat
        BY <1>0 DEF States
      <3>1. /\ Len(r'.buffer) = Len(r.buffer) + 1
            /\ \A i \in 1 .. Len(r.buffer) : r'.buffer[i] = r.buffer[i]
            /\ r'.buffer[Len(r.buffer) + 1] = c
        BY <1>2, <2>5, <3>0
      <3>2. c = Len(got) + Len(r.buffer) + 1
        BY <1>0, <1>1, <1>3, <1>7, Bounded DEF BufferInv, Least, c
      <3>3. Len(got) + Len(r'.buffer) = OnItsWay
        BY <1>3, <3>0, <3>1, Bounded
      <3>4. \A i \in 1 .. Len(r'.buffer) : i \in 1 .. Len(r.buffer) \/ i = Len(r.buffer) + 1
        BY <3>0, <3>1
      <3>5. ASSUME NEW i \in 1 .. Len(r'.buffer) PROVE r'.buffer[i] = Len(got) + i
        <4>1. CASE i \in 1 .. Len(r.buffer)
          BY <1>0, <3>1, <4>1 DEF BufferInv
        <4>2. CASE i = Len(r.buffer) + 1
          BY <3>0, <3>1, <3>2, <4>2, Bounded
        <4> QED BY <3>4, <4>1, <4>2
      <3> QED BY <3>1, <3>3, <3>5
    <2>7. UNCHANGED <<result, readEvents, got, pipe, Readable!otherVars>>
      BY <1>1, <2>1
    <2> HIDE DEF k, more, x
    <2>8. QuietTicks /\ OnItsWay \in Int
      BY <2>4, Bounded, QuietTick
    <2>9. Len(got) + Len(r'.buffer) <= OnItsWay
      BY <2>6, <2>8
    <2> QED BY <1>1, <1>4, <2>1, <2>4, <2>5, <2>6, <2>7, <2>8, <2>9, PushedKeeps
  <1> QED BY <1>5, <1>6, <1>7

LEMMA DoPushEndKeeps ==
    ASSUME ReadInv, Readable!DoPushEnd PROVE ReadInv'
  <1> DEFINE k == [r EXCEPT !.reading = FALSE, !.ended = TRUE]
             x == <<"emitReadable_">>
  <1>0. /\ TypeInv /\ BufferInv /\ r \in States /\ SameState(r, r)
    BY DEF ReadInv, TypeInv, SameState
  <1>1. Readable!Doing({"push"}) /\ Head(readStack)[2] = Readable!End /\ ~PushesChunk
        /\ UNCHANGED <<result, got, readEvents, Readable!programVars>>
    BY DEF Readable!DoPushEnd, PushesChunk
  <1>2. x \in Quiets /\ <<x>> \in Seq(Quiets) /\ <<>> \in Seq(Quiets)
    BY QuietStep, AFewSteps DEF PlainSteps
  <1>3. k \in States /\ SameState([r EXCEPT !.ended = TRUE], k)
    BY <1>0 DEF States, SameState
  <1>4. \E p \in Seq(Quiets) : Readable!Becomes(p)
    BY <1>2 DEF Readable!DoPushEnd
  <1>5. /\ r' \in States /\ TicksQuietly
        /\ SameState(r, r') \/ SameState([r EXCEPT !.ended = TRUE], r')
    <2>1. CASE r' = [r EXCEPT !.reading = FALSE] /\ UNCHANGED readTicks
      <3>1. r' \in States /\ SameState(r, r')
        BY <1>0, <2>1 DEF States, SameState
      <3> QED BY <2>1, <3>1 DEF TicksQuietly
    <2>2. CASE Readable!EmitsReadable(k)
      <3> HIDE DEF k
      <3>1. r' \in States /\ SameState(k, r') /\ TicksQuietly
        BY <1>3, <2>2, EmitsQuietly
      <3> QED BY <1>3, <3>1, SameThrough
    <2>3. CASE r' = [k EXCEPT !.needReadable = FALSE, !.emittedReadable = TRUE]
                 /\ UNCHANGED readTicks
      <3> HIDE DEF k
      <3>1. r' \in States /\ SameState(k, r')
        BY <1>3, <2>3 DEF States, SameState
      <3> QED BY <1>3, <2>3, <3>1, SameThrough DEF TicksQuietly
    <2> QED BY <2>1, <2>2, <2>3 DEF Readable!DoPushEnd
  <1>6. /\ r'.buffer = r.buffer /\ r'.endEmitted = r.endEmitted
        /\ r'.destroyed = r.destroyed /\ r'.errored = r.errored
        /\ r'.errorEmitted = r.errorEmitted /\ r'.closeEmitted = r.closeEmitted
    BY <1>0, <1>5 DEF SameState, States
  <1>7. OnItsWay = Len(got) + Len(r.buffer)
    BY <1>1, Bounded DEF OnItsWay
  <1>8. UNCHANGED <<result, readEvents, got, pipe, Readable!otherVars>>
    BY <1>1 DEF Readable!programVars
  <1>9. \A i \in 1 .. Len(r'.buffer) : r'.buffer[i] = Len(got) + i
    BY <1>0, <1>6 DEF BufferInv
  <1> QED BY <1>1, <1>4, <1>5, <1>6, <1>7, <1>8, <1>9, Bounded, QuietTick, PushedKeeps

LEMMA NoneLeft == ASSUME NEW q \in Seq(Readable!Chunks), Len(q) = 0 PROVE q = <<>>
  OBVIOUS

LEMMA TakeKeeps ==
    ASSUME ReadInv, Readable!Take, ~TakesNone PROVE ReadInv'
  <1> USE Bounds
  <1> DEFINE c == Head(r.buffer)
             k == [r EXCEPT !.buffer = Tail(@), !.needReadable = @ \/ (Readable!Length = 1 /\ ~r.ended)]
             x == <<"return", c>>
  <1>0. /\ TypeInv /\ BufferInv /\ r \in States /\ r.buffer \in Seq(Readable!Chunks)
    BY DEF ReadInv, TypeInv, States
  <1>1. /\ readStack # <<>> /\ Head(readStack)[1] \in {"push", "take"} /\ ~PushesChunk
             /\ Readable!Length > 0
        /\ IF Readable!Length = 1 /\ r.ended THEN Readable!EndsReadable(k) ELSE r' = k
             /\ UNCHANGED readTicks
        /\ Readable!LeavesStream(c) /\ Readable!Becomes(Readable!EmitsData(c) \o <<x>>)
        /\ UNCHANGED <<result, readEvents, Readable!otherVars>>
    BY DEF Readable!Take, TakesNone, Readable!Doing, PushesChunk
  <1>2. /\ r.buffer # <<>> /\ c = r.buffer[1] /\ c \in Readable!Chunks
             /\ Tail(r.buffer) \in Seq(Readable!Chunks)
        /\ Len(r.buffer) \in Nat \ {0} /\ Len(Tail(r.buffer)) = Len(r.buffer) - 1
        /\ \A i \in 1 .. Len(Tail(r.buffer)) : Tail(r.buffer)[i] = r.buffer[i + 1]
    BY <1>0, <1>1 DEF Readable!Length
  <1>3. c = Len(got) + 1
    BY <1>0, <1>2 DEF BufferInv
  <1>4. x \in Quiets
    <2>1. c \in 0 .. MaxChunks
      BY <1>2 DEF Readable!Chunks
    <2> HIDE DEF c
    <2> QED BY <2>1, QuietStep
  <1>5. k \in States /\ SameState([r EXCEPT !.buffer = Tail(r.buffer)], k)
    <2>1. \A b \in BOOLEAN : LET l == [r EXCEPT !.buffer = Tail(@), !.needReadable = b] IN
              l \in States /\ SameState([r EXCEPT !.buffer = Tail(r.buffer)], l)
      BY <1>0, <1>2 DEF States, SameState
    <2>2. (r.needReadable \/ (Readable!Length = 1 /\ ~r.ended)) \in BOOLEAN
      OBVIOUS
    <2> QED BY <2>1, <2>2
  <1>a. k.buffer = Tail(r.buffer) /\ k.ended = r.ended
    BY <1>0, <1>5 DEF SameState, States
  <1> HIDE DEF k
  <1>6. r' \in States /\ SameState(k, r') /\ QuietTicks
    <2>1. CASE Readable!Length = 1 /\ r.ended
      <3>1. k.buffer = <<>> /\ k.ended
        <4>1. Len(Tail(r.buffer)) = 0
          BY <1>2, <2>1 DEF Readable!Length
        <4>2. Tail(r.buffer) = <<>>
          BY <1>2, <4>1, NoneLeft
        <4> QED BY <1>a, <2>1, <4>2
      <3> QED BY <1>1, <1>5, <2>1, <3>1, EndsQuietly
    <2>2. CASE ~(Readable!Length = 1 /\ r.ended)
      BY <1>1, <1>5, <2>2 DEF SameState, QuietTicks
    <2> QED BY <2>1, <2>2
  <1>7. /\ r'.buffer = Tail(r.buffer) /\ r'.ended = r.ended /\ r'.endEmitted = r.endEmitted
        /\ r'.destroyed = r.destroyed /\ r'.errored = r.errored
        /\ r'.errorEmitted = r.errorEmitted /\ r'.closeEmitted = r.closeEmitted
    BY <1>0, <1>5, <1>6 DEF SameState, States
  <1> HIDE DEF c, x
  <1>8. OnItsWay = Len(got) + Len(r.buffer)
    BY <1>1, Bounded DEF OnItsWay
  <1>9. OnItsWay = c + Len(r'.buffer)
    <2>1. Len(r'.buffer) = Len(r.buffer) - 1 /\ Len(r.buffer) \in Nat
      BY <1>2, <1>7
    <2>2. Len(got) \in Nat /\ OnItsWay \in Int
      BY Bounded
    <2>3. Len(r'.buffer) = OnItsWay - Len(got) - 1
      BY <1>8, <2>1, <2>2
    <2>4. c \in Int
      BY <1>3, <2>2
    <2> QED BY <1>3, <2>2, <2>3, <2>4
  <1>10. \A i \in 1 .. Len(r'.buffer) : r'.buffer[i] = c + i
    <2> SUFFICES ASSUME NEW i \in 1 .. Len(Tail(r.buffer)) PROVE Tail(r.buffer)[i] = c + i
      BY <1>7
    <2>1. i + 1 \in 1 .. Len(r.buffer)
      BY <1>2
    <2>2. r.buffer[i + 1] = Len(got) + (i + 1)
      BY <1>0, <2>1 DEF BufferInv
    <2> QED BY <1>2, <1>3, <2>2, Bounded
  <1> QED BY <1>1, <1>2, <1>3, <1>4, <1>6, <1>7, <1>9, <1>10, LeavesKeeps

\* The destination of a pipe takes the chunk that left last.
LEMMA WriteDataKeeps ==
    ASSUME ReadInv, Readable!WriteData PROVE ReadInv'
  <1> USE Bounds
  <1> DEFINE c == Head(readStack)[2]
             n == Len(got)
             t == Tail(readStack)
  <1>0. /\ TypeInv /\ StackInv /\ BufferInv /\ EventsInv /\ CloseInv /\ EndsInv /\ PipeInv
        /\ readStack \in Seq(Steps) /\ Once(readStack, Closing)
        /\ Once(readTicks, Closing) /\ ~Has(readTicks, {"push", "write"})
        /\ readStack # <<>> /\ Head(readStack)[1] = "write" /\ pipe \in Pipes
             /\ dest \in Seq(1 .. Readable!End)
    BY DEF ReadInv, TypeInv, StackInv, CloseInv, Readable!WriteData, Readable!Doing
  <1>u. /\ UNCHANGED <<highWaterMark, r, listens, readOwed, pushed, readAsked, readTicks, result,
                       got, readEvents>>
        /\ dest' = Append(dest, c)
    BY DEF Readable!WriteData
  <1>1. Has(readStack, {"write"}) /\ c = n /\ ~r.endEmitted /\ ~pipe.awaits
    <2>1. 1 \in 1 .. Len(readStack) /\ Head(readStack) = readStack[1]
      BY <1>0
    <2> QED BY <1>0, <2>1 DEF StackInv, Shape, Has
  <1>2. PICK full \in BOOLEAN :
            /\ pipe' = [pipe EXCEPT !.needDrain = @ \/ full]
            /\ Readable!Becomes(<<<<"program">>>> \o IF full THEN <<<<"full">>>> ELSE <<>>)
    BY DEF Readable!WriteData
  <1>3. pipe' \in Pipes /\ ~pipe'.awaits
    <2>1. \A b \in BOOLEAN : LET l == [pipe EXCEPT !.needDrain = b] IN
              l \in Pipes /\ (~pipe.awaits => ~l.awaits)
      BY <1>0 DEF Pipes
    <2>2. (pipe.needDrain \/ full) \in BOOLEAN
      OBVIOUS
    <2> QED BY <1>1, <1>2, <2>1, <2>2
  <1>4. PICK p \in Seq(Quiets) : Readable!Becomes(p)
    <2>1. <<"program">> \in Quiets /\ <<"full">> \in Quiets
      BY QuietStep DEF PlainSteps
    <2>2. <<<<"program">>>> \o <<<<"full">>>> \in Seq(Quiets)
            /\ <<<<"program">>>> \o <<>> \in Seq(Quiets)
      BY <2>1
    <2> QED BY <1>2, <2>2
  <1>5. p \in Seq(Steps) /\ Shape(p, n) /\ ~Has(p, Closing) /\ ~Has(p, FirstSteps)
        /\ ~Has(p, {"write"})
    BY QuietSequence
  <1>6. Head(readStack)[1] \notin ProgramSteps /\ Head(readStack)[1] \notin Closing
    BY <1>0 DEF ProgramSteps, Closing
  <1>7. /\ readStack' \in Seq(Steps) /\ Shape(readStack', n) /\ ~Has(readStack', FirstSteps)
        /\ Has(readStack', Closing) <=> Has(readStack, Closing)
        /\ Once(readStack', Closing)
        /\ ~Has(readStack', {"write"})
    <2>1. \A N : /\ Has(readStack', N) <=> Has(p, N) \/ Has(t, N)
                 /\ Has(readStack, N) <=> Head(readStack)[1] \in N \/ Has(t, N)
      BY <1>0, <1>4, <1>5, <1>6, Replaces
    <2>2. /\ readStack' \in Seq(Steps) /\ Shape(readStack', n)
          /\ ~Has(t, {"write"}) /\ ~Has(t, FirstSteps) /\ Once(readStack', Closing)
      BY <1>0, <1>4, <1>5, <1>6, Replaces
    <2> QED BY <1>5, <1>6, <2>1, <2>2
  <1>8. ~Readable!Doing({"push"})' /\ ~PushesChunk' /\ ~Readable!Doing({"endReadableNT"})'
          /\ ~PushesChunk
    <2>1. readStack' # <<>> => Head(readStack')[1] \notin FirstSteps
      BY <1>7, NothingFirst
    <2> QED BY <1>0, <2>1 DEF Readable!Doing, PushesChunk, FirstSteps
  <1>9. c \in 1 .. Readable!End
    BY <1>0, HeadIsAStep, StepArguments
  <1>10. TypeInv'
    <2>1. dest' \in Seq(1 .. Readable!End)
      BY <1>0, <1>9, <1>u
    <2> QED BY <1>0, <1>3, <1>7, <1>u, <2>1 DEF TypeInv
  <1>11. StackInv'
    BY <1>0, <1>7, <1>u DEF StackInv
  <1>12. BufferInv'
    <2>1. OnItsWay' = OnItsWay /\ Least' = Least
      BY <1>8, <1>u DEF OnItsWay, Least
    <2> QED BY <1>0, <1>8, <1>u, <2>1 DEF BufferInv
  <1>13. EventsInv'
    BY <1>0, <1>u DEF EventsInv, Tell, AllLeft
  <1>q. QuietTicks
    BY <1>u DEF QuietTicks
  <1>14. CloseInv' /\ (Closed' <=> Closed)
    <2>1. ~Has(readStack', {"emitErrorClose"})
      BY <1>7 DEF Has, FirstSteps
    <2> QED BY <1>7, <1>u, <1>q, <2>1, CloseStays
  <1>15. EndsInv'
    BY <1>0, <1>8, <1>14, <1>u DEF EndsInv, AllLeft
  <1>16. PipeInv'
    <2>1. Written = n - 1 /\ Written' = n /\ n \in Nat
      <3>1. Written' = Len(got') - (IF Has(readStack', {"write"}) THEN 1 ELSE 0)
        BY DEF Written
      <3> QED BY <1>1, <1>7, <1>u, <3>1, Bounded DEF Written
    <2>2. /\ Len(dest') = Len(dest) + 1 /\ Len(dest) \in Nat
          /\ \A m \in 1 .. Len(dest) : dest'[m] = dest[m]
          /\ dest'[Len(dest) + 1] = n
      BY <1>0, <1>1, <1>9, <1>u
    <2>3. \A m \in 1 .. Len(dest) : dest[m] <= n - 1 /\ dest[m] \in Int
      BY <1>1, <2>1, Bounded
    <2>4. \A m \in 1 .. Len(dest') : m \in 1 .. Len(dest) \/ m = Len(dest) + 1
      BY <2>2
    <2>5. \A m, j \in 1 .. Len(dest') : m < j => dest'[m] < dest'[j]
      <3> SUFFICES ASSUME NEW m \in 1 .. Len(dest'), NEW j \in 1 .. Len(dest'), m < j
                   PROVE  dest'[m] < dest'[j]
        OBVIOUS
      <3>1. m \in 1 .. Len(dest)
        BY <2>2
      <3>2. CASE j \in 1 .. Len(dest)
        BY <1>0, <2>2, <3>1, <3>2 DEF PipeInv
      <3>3. CASE j = Len(dest) + 1
        BY <2>1, <2>2, <2>3, <3>1, <3>3
      <3> QED BY <2>4, <3>2, <3>3
    <2>6. \A m \in 1 .. Len(dest') : dest'[m] <= Written'
      <3> SUFFICES ASSUME NEW m \in 1 .. Len(dest') PROVE dest'[m] <= n
        BY <2>1
      <3> QED BY <2>1, <2>2, <2>3, <2>4
    <2>7. "pipe" \in listens => \A m \in 1 .. Len(dest') : dest'[m] = n - Len(dest') + m
      <3> SUFFICES ASSUME "pipe" \in listens, NEW m \in 1 .. Len(dest')
                   PROVE  dest'[m] = n - Len(dest') + m
        OBVIOUS
      <3>1. CASE m \in 1 .. Len(dest)
        <4>1. dest[m] = Written - Len(dest) + m
          BY <1>0, <1>1, <3>1 DEF PipeInv
        <4> QED BY <2>1, <2>2, <3>1, <4>1
      <3>2. CASE m = Len(dest) + 1
        BY <2>1, <2>2, <3>2
      <3> QED BY <2>4, <3>1, <3>2
    <2>8. dest'[Len(dest')] # Readable!End
      BY <2>1, <2>2, Bounded DEF Readable!End
    <2>9. \A m \in 1 .. Len(dest') : dest'[m] = Readable!End => r'.endEmitted
      <3> SUFFICES ASSUME NEW m \in 1 .. Len(dest'), dest'[m] = Readable!End PROVE FALSE
        OBVIOUS
      <3> QED BY <2>1, <2>6, Bounded DEF Readable!End
    <2> QED BY <1>u, <2>1, <2>5, <2>6, <2>7, <2>8 DEF PipeInv
  <1> QED BY <1>10, <1>11, <1>12, <1>13, <1>14, <1>15, <1>16 DEF ReadInv

\* One event more, of a kind that was not told.
LEMMA OneMore ==
    ASSUME readEvents \in Seq({"end", "error", "close"}), Readable!IsInjective(readEvents),
           NEW e \in {"end", "error", "close"}, ~Tell(e), Readable!Emits(e)
    PROVE  /\ readEvents' \in Seq({"end", "error", "close"}) /\ Readable!IsInjective(readEvents')
           /\ \A x : Tell(x)' <=> Tell(x) \/ x = e
           /\ readEvents'[Len(readEvents')] = e
  <1>1. /\ readEvents' = Append(readEvents, e) /\ readEvents' \in Seq({"end", "error", "close"})
        /\ Len(readEvents') = Len(readEvents) + 1 /\ Len(readEvents) \in Nat
        /\ \A i \in 1 .. Len(readEvents) : readEvents'[i] = readEvents[i]
        /\ readEvents'[Len(readEvents) + 1] = e
        /\ DOMAIN readEvents = 1 .. Len(readEvents) /\ DOMAIN readEvents' = 1 .. Len(readEvents')
    BY DEF Readable!Emits
  <1>2. \A i \in 1 .. Len(readEvents') : i \in 1 .. Len(readEvents) \/ i = Len(readEvents) + 1
    BY <1>1
  <1>3. Readable!IsInjective(readEvents')
    <2> SUFFICES ASSUME NEW a \in 1 .. Len(readEvents'), NEW b \in 1 .. Len(readEvents'),
                        readEvents'[a] = readEvents'[b]
                 PROVE  a = b
      BY <1>1 DEF Readable!IsInjective
    <2>1. CASE a \in 1 .. Len(readEvents) /\ b \in 1 .. Len(readEvents)
      BY <1>1, <2>1 DEF Readable!IsInjective
    <2>2. CASE a = Len(readEvents) + 1 /\ b \in 1 .. Len(readEvents)
      BY <1>1, <2>2 DEF Tell
    <2>3. CASE a \in 1 .. Len(readEvents) /\ b = Len(readEvents) + 1
      BY <1>1, <2>3 DEF Tell
    <2> QED BY <1>2, <2>1, <2>2, <2>3
  <1>4. ASSUME NEW x PROVE Tell(x)' <=> Tell(x) \/ x = e
    <2>1. Tell(x)' <=> \E i \in 1 .. Len(readEvents') : readEvents'[i] = x
      BY DEF Tell
    <2>2. Len(readEvents) + 1 \in 1 .. Len(readEvents')
            /\ \A i \in 1 .. Len(readEvents) : i \in 1 .. Len(readEvents')
      BY <1>1
    <2> QED BY <1>1, <1>2, <2>1, <2>2 DEF Tell
  <1> QED BY <1>1, <1>3, <1>4

\* 'end', and then the stream is destroyed.
LEMMA EndReadableKeeps ==
    ASSUME ReadInv, Readable!EndReadable PROVE ReadInv'
  <1> USE Bounds
  <1>0. /\ TypeInv /\ StackInv /\ BufferInv /\ EventsInv /\ CloseInv /\ EndsInv /\ PipeInv
        /\ readStack \in Seq(Steps) /\ Shape(readStack, Len(got)) /\ Once(readStack, Closing)
        /\ Once(readTicks, Closing) /\ ~Has(readTicks, {"push", "write"})
        /\ readStack # <<>> /\ Head(readStack)[1] = "endReadableNT" /\ r \in States
        /\ dest \in Seq(1 .. Readable!End)
    BY DEF ReadInv, TypeInv, StackInv, CloseInv, Readable!EndReadable, Readable!Doing
  <1>u. UNCHANGED <<highWaterMark, listens, readOwed, pushed, readAsked, pipe, readTicks, result,
                  got>>
    BY DEF Readable!EndReadable
  <1>1. PICK p \in Seq(Quiets) : Readable!Becomes(p)
    <2>1. <<"program">> \in Quiets /\ <<"destroy", FALSE>> \in Quiets
      BY QuietStep
    <2>2. <<>> \in Seq(Quiets) /\ <<<<"program">>, <<"destroy", FALSE>>>> \in Seq(Quiets)
      BY <2>1, AFewSteps
    <2> QED BY <2>2 DEF Readable!EndReadable
  <1>2. QuietStack
    <2>1. Head(readStack)[1] \notin ProgramSteps
      BY <1>0 DEF ProgramSteps
    <2> QED BY <1>0, <1>1, <2>1, Turns
  <1>q. QuietTicks
    BY <1>u DEF QuietTicks
  <1>3. ~Has(readStack, {"write"}) /\ ~Has(readStack', {"write"})
    <2>1. Head(readStack)[1] \notin ProgramSteps /\ Head(readStack)[1] \notin {"write"}
      BY <1>0 DEF ProgramSteps
    <2>2. ~Has(readStack, {"write"})
      BY <1>0, <2>1, TailKeeps
    <2> QED BY <1>2, <2>2 DEF QuietStack
  <1>4. CASE UNCHANGED <<r, readEvents, dest>>
    <2>1. SameState(r, r') /\ r' \in States
      BY <1>0, <1>4 DEF SameState
    <2>2. QuietRest
      BY <1>0, <1>3, <1>4, <1>u, <2>1 DEF QuietRest, TypeInv
    <2> QED BY <1>2, <1>q, <2>2, QuietKeeps
  <1>5. CASE /\ ~r.errorEmitted /\ ~r.closeEmitted /\ ~r.endEmitted /\ Readable!Length = 0
             /\ r' = [r EXCEPT !.endEmitted = TRUE]
             /\ Readable!Emits("end")
             /\ dest' = IF "pipe" \in listens THEN Append(dest, Readable!End) ELSE dest
    <2>1. AllLeft
      BY <1>0, <1>5 DEF EndsInv, Readable!Doing
    <2>2. /\ r' \in States /\ r'.endEmitted /\ r'.buffer = r.buffer /\ r'.ended = r.ended
          /\ r'.destroyed = r.destroyed /\ r'.errored = r.errored
          /\ r'.errorEmitted = r.errorEmitted /\ r'.closeEmitted = r.closeEmitted
      BY <1>0, <1>5 DEF States
    <2>3. /\ readEvents' \in Seq({"end", "error", "close"}) /\ Readable!IsInjective(readEvents')
          /\ \A x : Tell(x)' <=> Tell(x) \/ x = "end"
      BY <1>0, <1>5, OneMore DEF TypeInv, EventsInv
    <2>4. TypeInv'
      <3>1. dest' \in Seq(1 .. Readable!End)
        <4>1. Readable!End \in 1 .. Readable!End
          BY DEF Readable!End
        <4>2. CASE "pipe" \in listens
          <5>1. dest' = Append(dest, Readable!End)
            BY <1>5, <4>2
          <5> QED BY <1>0, <4>1, <5>1
        <4>3. CASE "pipe" \notin listens
          <5>1. dest' = dest
            BY <1>5, <4>3
          <5> QED BY <1>0, <5>1
        <4> QED BY <4>2, <4>3
      <3> QED BY <1>0, <1>2, <1>u, <2>2, <2>3, <3>1 DEF TypeInv, QuietStack
    <2>5. StackInv'
      BY <1>0, <1>2, <1>3, <1>u DEF StackInv, QuietStack
    <2>6. ~Readable!Doing({"push"}) /\ ~Readable!Doing({"push"})' /\ ~PushesChunk /\ ~PushesChunk'
          /\ ~Readable!Doing({"endReadableNT"})'
      <3>1. readStack' # <<>> => Head(readStack')[1] \notin FirstSteps
        BY <1>2, NothingFirst DEF QuietStack
      <3> QED BY <1>0, <3>1 DEF Readable!Doing, PushesChunk, FirstSteps
    <2>7. BufferInv'
      <3>1. OnItsWay' = OnItsWay /\ Least' = Least
        BY <1>u, <2>2, <2>6 DEF OnItsWay, Least
      <3> QED BY <1>0, <1>u, <2>2, <2>6, <3>1 DEF BufferInv
    <2>8. EventsInv'
      <3>1. AllLeft'
        BY <1>u, <2>1 DEF AllLeft
      <3> QED BY <1>0, <1>5, <2>2, <2>3, <3>1 DEF EventsInv
    <2>9. CloseInv' /\ (Closed' <=> Closed)
      <3>1. ~Has(readStack', {"emitErrorClose"})
        BY <1>2 DEF Has, FirstSteps, QuietStack
      <3> QED BY <1>2, <1>q, <2>2, <3>1, CloseStays DEF QuietStack
    <2>10. EndsInv'
      BY <1>0, <1>u, <2>1, <2>6 DEF EndsInv, AllLeft
    <2>11. PipeInv'
      <3>1. Written = MaxChunks /\ Written' = MaxChunks /\ Len(got) = MaxChunks /\ got' = got
        <4>1. Written' = Len(got') - (IF Has(readStack', {"write"}) THEN 1 ELSE 0)
          BY DEF Written
        <4> QED BY <1>3, <1>u, <2>1, <4>1 DEF Written, AllLeft
      <3>2. \A m \in 1 .. Len(dest) : dest[m] <= MaxChunks /\ dest[m] \in Int
        BY <1>5, <3>1, Bounded
      <3>3. CASE "pipe" \notin listens
        <4>1. dest' = dest
          BY <1>5, <3>3
        <4>2. dest # <<>> => dest[Len(dest)] # Readable!End
          BY <1>0, <3>2 DEF Readable!End
        <4> QED BY <1>0, <1>u, <2>2, <3>1, <3>2, <3>3, <4>1, <4>2 DEF PipeInv
      <3>4. CASE "pipe" \in listens
        <4>1. /\ Len(dest') = Len(dest) + 1 /\ Len(dest) \in Nat
              /\ \A m \in 1 .. Len(dest) : dest'[m] = dest[m]
              /\ dest'[Len(dest) + 1] = Readable!End
          <5>1. Readable!End \in 1 .. Readable!End /\ dest' = Append(dest, Readable!End)
            BY <1>5, <3>4 DEF Readable!End
          <5> QED BY <1>0, <5>1
        <4>2. \A m \in 1 .. Len(dest') : m \in 1 .. Len(dest) \/ m = Len(dest) + 1
          BY <4>1
        <4>3. \A m, j \in 1 .. Len(dest') : m < j => dest'[m] < dest'[j]
          <5> SUFFICES ASSUME NEW m \in 1 .. Len(dest'), NEW j \in 1 .. Len(dest'), m < j
                       PROVE  dest'[m] < dest'[j]
            OBVIOUS
          <5>1. m \in 1 .. Len(dest)
            BY <4>1
          <5>2. CASE j \in 1 .. Len(dest)
            BY <1>0, <4>1, <5>1, <5>2 DEF PipeInv
          <5>3. CASE j = Len(dest) + 1
            BY <3>2, <4>1, <5>1, <5>3 DEF Readable!End
          <5> QED BY <4>2, <5>2, <5>3
        <4>4. \A m \in 1 .. Len(dest') : dest'[m] <= Written'
                \/ (dest'[m] = Readable!End /\ r'.endEmitted)
          BY <2>2, <3>1, <3>2, <4>1, <4>2
        <4>5. \A m \in 1 .. Len(dest') - 1 : dest'[m] = Len(got') - Len(dest') + 1 + m
          <5> SUFFICES ASSUME NEW m \in 1 .. Len(dest)
                       PROVE  dest'[m] = Len(got') - Len(dest') + 1 + m
            BY <4>1
          <5>1. dest[m] = Written - Len(dest) + m
            BY <1>0, <1>5, <3>4 DEF PipeInv
          <5> QED BY <3>1, <4>1, <5>1
        <4> QED BY <2>2, <4>3, <4>4, <4>5 DEF PipeInv
      <3> QED BY <3>3, <3>4
    <2> QED BY <2>4, <2>5, <2>7, <2>8, <2>9, <2>10, <2>11 DEF ReadInv
  <1> QED BY <1>4, <1>5 DEF Readable!EndReadable

\* A stream is destroyed: its close is queued.
LEMMA DoDestroyKeeps ==
    ASSUME ReadInv, Readable!DoDestroy PROVE ReadInv'
  <1> DEFINE err == Head(readStack)[2]
             e == IF err THEN <<"emitErrorClose">> ELSE <<"emitClose">>
  <1>0. /\ TypeInv /\ StackInv /\ BufferInv /\ EventsInv /\ CloseInv /\ EndsInv /\ PipeInv
        /\ readStack \in Seq(Steps) /\ readStack # <<>> /\ Head(readStack)[1] = "destroy"
             /\ r \in States
        /\ readTicks \in Seq(Steps) /\ ~Has(readTicks, {"push", "write"})
    BY DEF ReadInv, TypeInv, StackInv, Readable!DoDestroy, Readable!Doing
  <1>u. UNCHANGED <<result, got, readEvents, Readable!programVars>>
    BY DEF Readable!DoDestroy
  <1>1. QuietStack
    <2>1. <<>> \in Seq(Quiets) /\ Readable!Becomes(<<>>) /\ Head(readStack)[1] \notin SpecialSteps
      BY <1>0 DEF Readable!DoDestroy, SpecialSteps, FirstSteps
    <2> QED BY <1>0, <2>1, Turns
  <1>2. CASE r.destroyed
    <2>1. r' = r /\ readTicks' = readTicks
      BY <1>2 DEF Readable!DoDestroy
    <2>2. SameState(r, r')
      BY <2>1 DEF SameState
    <2>3. QuietRest /\ QuietTicks
      BY <1>0, <1>u, <2>1, <2>2
         DEF QuietRest, QuietTicks, TypeInv, StackInv, Readable!programVars, Readable!otherVars
    <2> QED BY <1>1, <2>3, QuietKeeps
  <1>3. CASE ~r.destroyed
    <2>1. r' = [r EXCEPT !.destroyed = TRUE, !.errored = @ \/ err]
            /\ readTicks' = Append(readTicks, e)
      BY <1>3 DEF Readable!DoDestroy
    <2>2. /\ r' \in States /\ r'.destroyed /\ r'.buffer = r.buffer /\ r'.ended = r.ended
          /\ r'.endEmitted = r.endEmitted
          /\ r'.errorEmitted = r.errorEmitted /\ r'.closeEmitted = r.closeEmitted
      <3>1. \A b \in BOOLEAN : LET l == [r EXCEPT !.destroyed = TRUE, !.errored = b] IN
              /\ l \in States /\ l.destroyed /\ l.buffer = r.buffer /\ l.ended = r.ended
              /\ l.endEmitted = r.endEmitted
              /\ l.errorEmitted = r.errorEmitted /\ l.closeEmitted = r.closeEmitted
        BY <1>0 DEF States
      <3>2. (r.errored \/ err) \in BOOLEAN
        OBVIOUS
      <3> QED BY <2>1, <3>1, <3>2
    <2>3. e \in Steps /\ e[1] \in Closing /\ e[1] \notin {"push", "write"} /\ e[1] # "endReadableNT"
      BY DEF Steps, Closing
    <2>4. /\ ~Has(readStack, Closing) /\ ~Has(readTicks, Closing) /\ ~r.closeEmitted
               /\ ~r.errorEmitted
      BY <1>0, <1>3 DEF CloseInv
    <2> HIDE DEF e
    <2>5. /\ readTicks' \in Seq(Steps) /\ ~Has(readTicks', {"push", "write"})
          /\ Has(readTicks', Closing) /\ Once(readTicks', Closing)
          /\ Len(readTicks') = Len(readTicks) + 1 /\ Len(readTicks) \in Nat
          /\ \A j \in 1 .. Len(readTicks) : readTicks'[j] = readTicks[j]
          /\ readTicks'[Len(readTicks) + 1] = e
      BY <1>0, <2>1, <2>3, <2>4, Grows
    <2>6. TypeInv'
      BY <1>0, <1>1, <1>u, <2>2, <2>5
         DEF TypeInv, QuietStack, Readable!programVars, Readable!otherVars
    <2>7. StackInv'
      BY <1>0, <1>1, <1>u, <2>2, <2>5 DEF StackInv, QuietStack, Readable!programVars
    <2>8. ~Readable!Doing({"push"}) /\ ~Readable!Doing({"push"})' /\ ~PushesChunk /\ ~PushesChunk'
          /\ ~Readable!Doing({"endReadableNT"})'
      <3>1. readStack' # <<>> => Head(readStack')[1] \notin FirstSteps
        BY <1>1, NothingFirst DEF QuietStack
      <3> QED BY <1>0, <3>1 DEF Readable!Doing, PushesChunk, FirstSteps
    <2>9. BufferInv'
      <3>1. OnItsWay' = OnItsWay /\ Least' = Least
        BY <1>u, <2>2, <2>8 DEF OnItsWay, Least, Readable!programVars, Readable!otherVars
      <3> QED BY <1>0, <1>u, <2>2, <2>8, <3>1
                 DEF BufferInv, Readable!programVars, Readable!otherVars
    <2>10. EventsInv'
      BY <1>0, <1>u, <2>2 DEF EventsInv, Tell, AllLeft, Readable!programVars, Readable!otherVars
    <2>11. CloseInv'
      <3>1. ~Has(readStack', Closing) /\ ~Has(readStack', {"emitErrorClose"})
        BY <1>1, <2>4 DEF QuietStack, Has, FirstSteps
      <3>2. Once(readStack', Closing)
        BY <1>1 DEF QuietStack
      <3> QED BY <2>2, <2>4, <2>5, <3>1, <3>2 DEF CloseInv
    <2>12. EndsInv'
      <3>1. AllLeft' = AllLeft
        BY <1>u DEF AllLeft, Readable!programVars, Readable!otherVars
      <3>2. ASSUME NEW j \in 1 .. Len(readTicks'), readTicks'[j][1] = "endReadableNT"
            PROVE  AllLeft' \/ Closed' \/ \E i \in 1 .. j - 1 : readTicks'[i][1] \in Closing
        <4>1. j \in 1 .. Len(readTicks)
          BY <2>3, <2>5, <3>2
        <4>2. AllLeft \/ Closed \/ \E i \in 1 .. j - 1 : readTicks[i][1] \in Closing
          BY <1>0, <2>5, <3>2, <4>1 DEF EndsInv
        <4>3. \A i \in 1 .. j - 1 : i \in 1 .. Len(readTicks)
          BY <4>1
        <4>4. ~Closed
          BY <2>4 DEF Closed
        <4> QED BY <2>4, <3>1, <4>2, <4>3, <4>4 DEF Has
      <3> QED BY <2>8, <3>2 DEF EndsInv
    <2>13. PipeInv'
      <3>1. Written' = Written
        BY <1>1, <1>u DEF Written, QuietStack
      <3> QED BY <1>0, <1>u, <2>2, <3>1 DEF PipeInv, Readable!programVars, Readable!otherVars
    <2> QED BY <2>6, <2>7, <2>9, <2>10, <2>11, <2>12, <2>13 DEF ReadInv
  <1> QED BY <1>2, <1>3

\* 'error' is told, and then the close goes on, unless the emit throws.
LEMMA EmitErrorKeeps ==
    ASSUME ReadInv, Readable!EmitError PROVE ReadInv'
  <1> USE Bounds
  <1> DEFINE a == <<"program">>
             b == <<"emitClose">>
             n == Len(got)
             t == Tail(readStack)
  <1>0. /\ TypeInv /\ StackInv /\ BufferInv /\ EventsInv /\ CloseInv /\ EndsInv /\ PipeInv
        /\ readStack \in Seq(Steps) /\ readStack # <<>> /\ Head(readStack)[1] = "emitErrorClose"
        /\ r \in States /\ readTicks \in Seq(Steps)
    BY DEF ReadInv, TypeInv, Readable!EmitError, Readable!Doing
  <1>v. /\ Readable!Becomes(<<a, b>>) \/ Readable!Becomes(<<a>>)
        /\ UNCHANGED <<readTicks, result, got, Readable!programVars>>
        /\ Readable!Emits("error")
        /\ r' = [r EXCEPT !.errorEmitted = TRUE]
    BY DEF Readable!EmitError
  <1>p. PICK p : (p = <<a, b>> \/ p = <<a>>) /\ Readable!Becomes(p)
    BY <1>v
  <1>u. /\ UNCHANGED <<readTicks, result, got, Readable!programVars>> /\ Readable!Becomes(p)
        /\ Readable!Emits("error") /\ r' = [r EXCEPT !.errorEmitted = TRUE]
    BY <1>p, <1>v
  <1>1. /\ p \in Seq(Steps) /\ Shape(p, n) /\ ~Has(p, FirstSteps) /\ ~Has(p, {"write"})
        /\ Once(p, Closing)
    <2>1. /\ a \in Steps /\ b \in Steps /\ a[1] \notin FirstSteps /\ b[1] \notin FirstSteps
          /\ a[1] \notin {"write"} /\ b[1] \notin {"write"} /\ a[1] \notin Closing
               /\ b[1] \in Closing
      BY DEF Steps, FirstSteps, Closing
    <2> HIDE DEF a, b
    <2>2. p \in Seq(Steps) /\ Len(p) \in {1, 2} /\ p[1] = a /\ (Len(p) = 2 => p[2] = b)
      <3>1. CASE p = <<a, b>>
        BY <2>1, <3>1
      <3>2. CASE p = <<a>>
        BY <2>1, <3>2
      <3> QED BY <1>p, <3>1, <3>2
    <2>3. ~Has(p, FirstSteps) /\ ~Has(p, {"write"})
      BY <2>1, <2>2 DEF Has
    <2>4. Shape(p, n)
      BY <2>3 DEF Shape, Has
    <2>5. Once(p, Closing)
      BY <2>1, <2>2 DEF Once
    <2> QED BY <2>2, <2>3, <2>4, <2>5
  <1>2. /\ Head(readStack)[1] \notin ProgramSteps /\ Head(readStack)[1] \notin {"write"}
        /\ Head(readStack)[1] \in Closing /\ Head(readStack)[1] \in {"emitErrorClose"}
    BY <1>0 DEF ProgramSteps, Closing
  <1> HIDE DEF n
  <1>3. /\ readStack' \in Seq(Steps) /\ Shape(readStack', n) /\ ~Has(readStack', FirstSteps)
        /\ Has(readStack, Closing) /\ Once(readStack', Closing)
        /\ ~Has(readStack, {"write"}) /\ ~Has(readStack', {"write"})
             /\ Has(readStack, {"emitErrorClose"})
    <2>1. \A N : /\ Has(readStack', N) <=> Has(p, N) \/ Has(t, N)
                 /\ Has(readStack, N) <=> Head(readStack)[1] \in N \/ Has(t, N)
      BY <1>0, <1>1, <1>2, <1>u, Replaces
    <2>2. /\ readStack' \in Seq(Steps) /\ Shape(readStack', n) /\ ~Has(t, {"write"})
               /\ ~Has(t, FirstSteps)
          /\ ~Has(t, Closing) /\ Once(readStack', Closing)
      BY <1>0, <1>1, <1>2, <1>u, Replaces
    <2> QED BY <1>1, <1>2, <2>1, <2>2
  <1>4. /\ r' \in States /\ r'.errorEmitted /\ r'.buffer = r.buffer /\ r'.ended = r.ended
        /\ r'.destroyed = r.destroyed /\ r'.errored = r.errored
        /\ r'.endEmitted = r.endEmitted /\ r'.closeEmitted = r.closeEmitted
    BY <1>0, <1>u DEF States
  <1>5. r.destroyed /\ ~r.errorEmitted /\ ~r.closeEmitted /\ ~Has(readTicks, Closing)
    BY <1>0, <1>3 DEF CloseInv
  <1>6. /\ readEvents' \in Seq({"end", "error", "close"}) /\ Readable!IsInjective(readEvents')
        /\ \A x : Tell(x)' <=> Tell(x) \/ x = "error"
    BY <1>0, <1>5, <1>u, OneMore DEF TypeInv, EventsInv
  <1>7. ~Readable!Doing({"push"}) /\ ~Readable!Doing({"push"})' /\ ~PushesChunk /\ ~PushesChunk'
        /\ ~Readable!Doing({"endReadableNT"})'
    <2>1. readStack' # <<>> => Head(readStack')[1] \notin FirstSteps
      BY <1>3, NothingFirst
    <2> QED BY <1>0, <2>1 DEF Readable!Doing, PushesChunk, FirstSteps
  <1>8. TypeInv'
    BY <1>0, <1>3, <1>4, <1>6, <1>u DEF TypeInv, Readable!programVars, Readable!otherVars
  <1>9. StackInv'
    BY <1>0, <1>3, <1>u DEF StackInv, n
  <1>10. BufferInv'
    <2>1. OnItsWay' = OnItsWay /\ Least' = Least
      BY <1>4, <1>7, <1>u DEF OnItsWay, Least, Readable!programVars, Readable!otherVars
    <2> QED BY <1>0, <1>4, <1>7, <1>u, <2>1 DEF BufferInv, Readable!programVars, Readable!otherVars
  <1>11. EventsInv'
    <2>1. AllLeft' = AllLeft
      BY <1>u DEF AllLeft, Readable!programVars, Readable!otherVars
    <2> QED BY <1>0, <1>4, <1>5, <1>6, <2>1 DEF EventsInv
  <1>12. CloseInv'
    <2>1. ~Has(readStack', {"emitErrorClose"})
      BY <1>3 DEF Has, FirstSteps
    <2> QED BY <1>0, <1>3, <1>4, <1>5, <1>u, <2>1 DEF CloseInv
  <1>13. EndsInv'
    BY <1>4, <1>7 DEF EndsInv, Closed
  <1>14. PipeInv'
    <2>1. Written' = Written
      BY <1>3, <1>u DEF Written
    <2> QED BY <1>0, <1>4, <1>u, <2>1 DEF PipeInv, Readable!programVars, Readable!otherVars
  <1> QED BY <1>8, <1>9, <1>10, <1>11, <1>12, <1>13, <1>14 DEF ReadInv

\* 'close' is told, and nothing after it.
LEMMA EmitCloseKeeps ==
    ASSUME ReadInv, Readable!EmitClose PROVE ReadInv'
  <1> USE Bounds
  <1> DEFINE p == <<<<"program">>>>
             n == Len(got)
             t == Tail(readStack)
  <1>0. /\ TypeInv /\ StackInv /\ BufferInv /\ EventsInv /\ CloseInv /\ EndsInv /\ PipeInv
        /\ readStack \in Seq(Steps) /\ readStack # <<>> /\ Head(readStack)[1] = "emitClose"
        /\ r \in States /\ readTicks \in Seq(Steps)
    BY DEF ReadInv, TypeInv, Readable!EmitClose, Readable!Doing
  <1>u. /\ UNCHANGED <<readTicks, result, got, Readable!programVars>> /\ Readable!Becomes(p)
                       /\ Readable!Emits("close")
        /\ r' = [r EXCEPT !.closeEmitted = TRUE]
    BY DEF Readable!EmitClose
  <1>1. /\ p \in Seq(Steps) /\ Shape(p, n) /\ ~Has(p, FirstSteps) /\ ~Has(p, {"write"})
        /\ ~Has(p, Closing)
    <2>1. <<"program">> \in Quiets
      BY QuietStep
    <2> QED BY <2>1, AFewSteps, QuietSequence
  <1>2. /\ Head(readStack)[1] \notin ProgramSteps /\ Head(readStack)[1] \notin {"write"}
        /\ Head(readStack)[1] \in Closing
    BY <1>0 DEF ProgramSteps, Closing
  <1> HIDE DEF p, n
  <1>3. /\ readStack' \in Seq(Steps) /\ Shape(readStack', n) /\ ~Has(readStack', FirstSteps)
        /\ Has(readStack, Closing) /\ ~Has(readStack', Closing) /\ Once(readStack', Closing)
        /\ ~Has(readStack, {"write"}) /\ ~Has(readStack', {"write"})
    <2>1. \A N : /\ Has(readStack', N) <=> Has(p, N) \/ Has(t, N)
                 /\ Has(readStack, N) <=> Head(readStack)[1] \in N \/ Has(t, N)
      BY <1>0, <1>1, <1>2, <1>u, Replaces
    <2>2. /\ readStack' \in Seq(Steps) /\ Shape(readStack', n) /\ ~Has(t, {"write"})
               /\ ~Has(t, FirstSteps)
          /\ ~Has(t, Closing) /\ Once(readStack', Closing)
      BY <1>0, <1>1, <1>2, <1>u, Replaces
    <2> QED BY <1>1, <1>2, <2>1, <2>2
  <1>4. /\ r' \in States /\ r'.closeEmitted /\ r'.buffer = r.buffer /\ r'.ended = r.ended
        /\ r'.destroyed = r.destroyed /\ r'.errored = r.errored
        /\ r'.endEmitted = r.endEmitted /\ r'.errorEmitted = r.errorEmitted
    BY <1>0, <1>u DEF States
  <1>5. r.destroyed /\ ~r.closeEmitted /\ ~Has(readTicks, Closing)
    BY <1>0, <1>3 DEF CloseInv
  <1>6. /\ readEvents' \in Seq({"end", "error", "close"}) /\ Readable!IsInjective(readEvents')
        /\ \A x : Tell(x)' <=> Tell(x) \/ x = "close"
        /\ readEvents'[Len(readEvents')] = "close"
    BY <1>0, <1>5, <1>u, OneMore DEF TypeInv, EventsInv
  <1>7. ~Readable!Doing({"push"}) /\ ~Readable!Doing({"push"})' /\ ~PushesChunk /\ ~PushesChunk'
        /\ ~Readable!Doing({"endReadableNT"})'
    <2>1. readStack' # <<>> => Head(readStack')[1] \notin FirstSteps
      BY <1>3, NothingFirst
    <2> QED BY <1>0, <2>1 DEF Readable!Doing, PushesChunk, FirstSteps
  <1>8. TypeInv'
    BY <1>0, <1>3, <1>4, <1>6, <1>u DEF TypeInv, Readable!programVars, Readable!otherVars
  <1>9. StackInv'
    BY <1>0, <1>3, <1>u DEF StackInv, n
  <1>10. BufferInv'
    <2>1. OnItsWay' = OnItsWay /\ Least' = Least
      BY <1>4, <1>7, <1>u DEF OnItsWay, Least, Readable!programVars, Readable!otherVars
    <2> QED BY <1>0, <1>4, <1>7, <1>u, <2>1 DEF BufferInv, Readable!programVars, Readable!otherVars
  <1>11. EventsInv'
    <2>1. AllLeft' = AllLeft
      BY <1>u DEF AllLeft, Readable!programVars, Readable!otherVars
    <2> QED BY <1>0, <1>4, <1>5, <1>6, <2>1 DEF EventsInv
  <1>12. CloseInv'
    <2>1. ~Has(readStack', {"emitErrorClose"})
      BY <1>3 DEF Has, FirstSteps
    <2> QED BY <1>0, <1>3, <1>4, <1>5, <1>u, <2>1 DEF CloseInv
  <1>13. EndsInv'
    BY <1>4, <1>7 DEF EndsInv, Closed
  <1>14. PipeInv'
    <2>1. Written' = Written
      BY <1>3, <1>u DEF Written
    <2> QED BY <1>0, <1>4, <1>u, <2>1 DEF PipeInv, Readable!programVars, Readable!otherVars
  <1> QED BY <1>8, <1>9, <1>10, <1>11, <1>12, <1>13, <1>14 DEF ReadInv

LEMMA InitReadInv ==
    ASSUME Readable!Init PROVE ReadInv
  <1> USE Bounds
  <1> DEFINE s == <<<<"program">>>>
  <1>0. /\ r = Readable!ReadableState /\ listens = {} /\ dest = <<>> /\ readStack = s
             /\ readTicks = <<>>
        /\ pushed = <<>> /\ got = <<>> /\ readEvents = <<>> /\ pipe \in Pipes
        /\ highWaterMark \in HighWaterMarks /\ result = 0 /\ readOwed = FALSE /\ readAsked = 0
    BY DEF Readable!Init, Readable!None, Pipes
  <1>1. /\ r \in States /\ Len(r.buffer) = 0 /\ ~r.ended /\ ~r.endEmitted /\ ~r.destroyed
        /\ ~r.errored /\ ~r.errorEmitted /\ ~r.closeEmitted
    BY <1>0 DEF Readable!ReadableState, States, Tristate
  <1>2. /\ readStack \in Seq(Steps) /\ readStack # <<>> /\ Shape(readStack, 0)
             /\ ~Has(readStack, FirstSteps)
        /\ ~Has(readStack, {"write"}) /\ ~Has(readStack, Closing)
    <2>1. <<"program">> \in Quiets
      BY QuietStep
    <2>2. s \in Seq(Quiets) /\ s # <<>>
      BY <2>1, AFewSteps
    <2> HIDE DEF s
    <2> QED BY <1>0, <2>2, QuietSequence
  <1>3. ~Readable!Doing({"push"}) /\ ~PushesChunk /\ ~Readable!Doing({"endReadableNT"})
    <2>1. Head(readStack)[1] \notin FirstSteps
      BY <1>2, NothingFirst
    <2> QED BY <2>1 DEF Readable!Doing, PushesChunk, FirstSteps
  <1>4. \A N : ~Has(readTicks, N)
    BY <1>0 DEF Has
  <1>e. Len(got) = 0 /\ Len(dest) = 0 /\ Len(pushed) = 0 /\ Len(readEvents) = 0
          /\ Len(readTicks) = 0
    BY <1>0
  <1>5. TypeInv
    <2>1. /\ got \in Seq(Readable!Chunks) /\ dest \in Seq(1 .. Readable!End)
               /\ pushed \in Seq(1 .. Readable!End)
          /\ readEvents \in Seq({"end", "error", "close"}) /\ readTicks \in Seq(Steps)
      BY <1>0
    <2>2. result \in 0 .. MaxChunks /\ readOwed \in BOOLEAN /\ readAsked \in 0 .. MaxReadCalls
      <3>1. 0 \in 0 .. MaxChunks /\ 0 \in 0 .. MaxReadCalls
        OBVIOUS
      <3>2. result \in 0 .. MaxChunks
        BY <1>0, <3>1
      <3>3. readOwed \in BOOLEAN
        BY <1>0
      <3>4. readAsked \in 0 .. MaxReadCalls
        BY <1>0, <3>1
      <3> QED BY <3>2, <3>3, <3>4
    <2>3. highWaterMark \in HighWaterMarks /\ listens \subseteq {"data", "pipe", "readable"}
          /\ pipe \in Pipes
      BY <1>0
    <2> HIDE DEF s
    <2> QED BY <1>1, <1>2, <2>1, <2>2, <2>3 DEF TypeInv
  <1>6. StackInv
    BY <1>2, <1>4, <1>e DEF StackInv
  <1>7. BufferInv
    BY <1>1, <1>3, <1>e DEF BufferInv, OnItsWay, Least, Readable!End
  <1>8. EventsInv
    <2>1. \A x : ~Tell(x)
      BY <1>e DEF Tell
    <2>2. Readable!IsInjective(readEvents)
      BY <1>0 DEF Readable!IsInjective
    <2> QED BY <1>1, <2>1, <2>2 DEF EventsInv
  <1>9. CloseInv
    <2>1. ~Has(readStack, {"emitErrorClose"})
      BY <1>2 DEF Has, FirstSteps
    <2>2. Once(readTicks, Closing) /\ Once(readStack, Closing)
      BY <1>2, <1>e DEF Once, Has
    <2> QED BY <1>1, <1>2, <1>4, <2>1, <2>2 DEF CloseInv
  <1>10. EndsInv
    BY <1>3, <1>e DEF EndsInv
  <1>11. PipeInv
    BY <1>0, <1>e DEF PipeInv
  <1> QED BY <1>5, <1>6, <1>7, <1>8, <1>9, <1>10, <1>11 DEF ReadInv

-----------------------------------------------------------------------------
(* The theorem.                                                              *)

LEMMA ReadInvStays == ReadInv /\ UNCHANGED Readable!vars => ReadInv'
  <1> SUFFICES ASSUME ReadInv, UNCHANGED Readable!vars PROVE ReadInv'
    OBVIOUS
  <1> USE DEF Readable!vars
  <1>1. TypeInv' /\ StackInv'
    BY DEF ReadInv, TypeInv, StackInv
  <1>2. BufferInv'
    BY DEF ReadInv, BufferInv, OnItsWay, Least, PushesChunk, Readable!Doing
  <1>3. EventsInv' /\ CloseInv'
    BY DEF ReadInv, EventsInv, CloseInv, Tell, AllLeft
  <1>4. EndsInv'
    BY DEF ReadInv, EndsInv, AllLeft, Closed, Readable!Doing
  <1>5. PipeInv'
    BY DEF ReadInv, PipeInv, Written
  <1> QED BY <1>1, <1>2, <1>3, <1>4, <1>5 DEF ReadInv

LEMMA NextReadInv == ReadInv /\ Readable!Next => ReadInv'
  <1>1. ReadInv /\ Readable!ProgramCalls => ReadInv'
    BY QuietProgram, QuietKeeps
  <1>2. ReadInv /\ Readable!Functions => ReadInv'
    <2> SUFFICES ASSUME ReadInv, Readable!Functions PROVE ReadInv'
      OBVIOUS
    <2>1. CASE Goings \/ Readable!Full \/ Readable!OnDrain \/ Readable!DoUnpipe \/ Readable!Read
                 \/ (Readable!Take /\ TakesNone)
      BY <2>1, QuietGoings, QuietGoingsStack, QuietPipe, QuietRead, QuietTake, QuietKeeps
    <2>2. CASE Readable!DoPushChunk \/ Readable!DoPushEnd \/ (Readable!Take /\ ~TakesNone)
      BY <2>2, DoPushChunkKeeps, DoPushEndKeeps, TakeKeeps
    <2>3. CASE Readable!WriteData \/ Readable!EndReadable \/ Readable!DoDestroy
                 \/ Readable!EmitError \/ Readable!EmitClose
      BY <2>3, WriteDataKeeps, EndReadableKeeps, DoDestroyKeeps, EmitErrorKeeps, EmitCloseKeeps
    <2> QED BY <2>1, <2>2, <2>3 DEF Readable!Functions, Goings
  <1>3. ReadInv /\ (Readable!Push \/ Readable!Tick) => ReadInv'
    BY PushKeeps, TickKeeps
  <1>4. ReadInv /\ Readable!Drain => ReadInv'
    BY QuietDrain, QuietKeeps
  <1>5. ReadInv /\ Readable!Returns => ReadInv'
    BY QuietGoings, QuietGoingsStack, QuietKeeps DEF Goings
  <1> QED BY <1>1, <1>2, <1>3, <1>4, <1>5 DEF Readable!Next

\* A sequence whose n-th element is n is a beginning of the chunks in order.
LEMMA InOrder ==
    ASSUME NEW s \in Seq(Readable!Chunks), Len(s) <= MaxChunks, \A i \in 1 .. Len(s) : s[i] = i
    PROVE  Readable!IsPrefix(s, Readable!Order)
  <1> USE Bounds
  <1>1. Readable!Order \in Seq(Readable!Chunks) /\ Len(Readable!Order) = MaxChunks
    <2>1. Readable!Order = [c \in 1 .. MaxChunks |-> c]
            /\ \A c \in 1 .. MaxChunks : c \in Readable!Chunks
      BY DEF Readable!Order, Readable!Chunks
    <2> QED BY <2>1
  <1>2. \A i \in 1 .. MaxChunks : Readable!Order[i] = i
    BY DEF Readable!Order, Readable!Chunks
  <1>3. SubSeq(Readable!Order, 1, Len(s)) = s
    <2>1. /\ SubSeq(Readable!Order, 1, Len(s)) \in Seq(Readable!Chunks)
               /\ Len(SubSeq(Readable!Order, 1, Len(s))) = Len(s)
          /\ \A i \in 1 .. Len(s) : SubSeq(Readable!Order, 1, Len(s))[i] = Readable!Order[i]
      BY <1>1
    <2>2. \A i \in 1 .. Len(s) : SubSeq(Readable!Order, 1, Len(s))[i] = s[i]
      BY <1>2, <2>1
    <2> QED BY <2>1, <2>2
  <1> QED BY <1>1, <1>3 DEF Readable!IsPrefix

LEMMA Part ==
    ASSUME NEW S, NEW s \in Seq(S), NEW a \in Nat \ {0}, NEW b \in 0 .. Len(s), a <= b + 1
    PROVE  /\ SubSeq(s, a, b) \in Seq(S) /\ Len(SubSeq(s, a, b)) = b - a + 1
           /\ \A m \in 1 .. b - a + 1 : SubSeq(s, a, b)[m] = s[a + m - 1]
  OBVIOUS

LEMMA Elements == ASSUME NEW S, NEW s \in Seq(S) PROVE \A i \in 1 .. Len(s) : s[i] \in S
  OBVIOUS

LEMMA ReadInvSays == ReadInv => ChunksInOrder
  <1> USE Bounds
  <1> SUFFICES ASSUME ReadInv PROVE ChunksInOrder
    OBVIOUS
  <1>0. /\ TypeInv /\ StackInv /\ BufferInv /\ EventsInv /\ PipeInv
        /\ got \in Seq(Readable!Chunks) /\ r.buffer \in Seq(Readable!Chunks)
             /\ dest \in Seq(1 .. Readable!End)
        /\ readEvents \in Seq({"end", "error", "close"}) /\ readStack \in Seq(Steps) /\ r \in States
    BY DEF ReadInv, TypeInv, States
  <1>1. Readable!TypeOK
    <2>1. Readable!ToSet(r.buffer) \subseteq Readable!Chunks
      BY <1>0 DEF Readable!ToSet
    <2>2. r.flowing \in {"null", "true", "false"} /\ r.paused \in {"null", "true", "false"}
      BY <1>0 DEF States, Tristate
    <2> QED BY <1>0, <2>1, <2>2 DEF Readable!TypeOK, TypeInv, Readable!None, Readable!Chunks
  <1>2. Readable!IsPrefix(got, Readable!Order)
    BY <1>0, Bounded, InOrder DEF BufferInv
  <1>3. Readable!BeingPushed <=> PushesChunk
    <2>1. Readable!BeingPushed => PushesChunk
      <3> SUFFICES ASSUME NEW n \in 1 .. Len(readStack), readStack[n][1] = "push",
            readStack[n][2] # Readable!End
                   PROVE  PushesChunk
        BY DEF Readable!BeingPushed
      <3>1. n = 1
        BY <1>0 DEF StackInv, Shape, FirstSteps
      <3>2. readStack # <<>> /\ Head(readStack) = readStack[1]
        BY <1>0, <3>1
      <3> QED BY <3>1, <3>2 DEF PushesChunk, Readable!Doing
    <2>2. PushesChunk => Readable!BeingPushed
      <3> SUFFICES ASSUME PushesChunk PROVE Readable!BeingPushed
        OBVIOUS
      <3>1. 1 \in 1 .. Len(readStack) /\ Head(readStack) = readStack[1]
        BY <1>0 DEF PushesChunk, Readable!Doing
      <3> QED BY <3>1 DEF PushesChunk, Readable!Doing, Readable!BeingPushed
    <2> QED BY <2>1, <2>2
  <1>4. ~r.destroyed =>
          Len(got) + Readable!Length + (IF Readable!BeingPushed THEN 1 ELSE 0)
              = IF Len(pushed) = Readable!End THEN MaxChunks ELSE Len(pushed)
    BY <1>0, <1>3 DEF BufferInv, OnItsWay, Least, Readable!Length
  <1>5. Readable!IsPrefix(got \o r.buffer, Readable!Order)
    <2> DEFINE s == got \o r.buffer
    <2>1. /\ s \in Seq(Readable!Chunks) /\ Len(s) = Len(got) + Len(r.buffer)
          /\ \A i \in 1 .. Len(s) :
                (i \in 1 .. Len(got) /\ s[i] = got[i])
                \/ (i - Len(got) \in 1 .. Len(r.buffer) /\ s[i] = r.buffer[i - Len(got)])
      BY <1>0
    <2> HIDE DEF s
    <2>2. ASSUME NEW i \in 1 .. Len(s) PROVE s[i] = i
      <3>1. CASE i \in 1 .. Len(got) /\ s[i] = got[i]
        BY <1>0, <3>1 DEF BufferInv
      <3>2. CASE i - Len(got) \in 1 .. Len(r.buffer) /\ s[i] = r.buffer[i - Len(got)]
        <4>1. r.buffer[i - Len(got)] = Len(got) + (i - Len(got))
          BY <1>0, <3>2 DEF BufferInv
        <4> QED BY <3>2, <4>1, Bounded
      <3> QED BY <2>1, <3>1, <3>2
    <2>3. Len(s) <= MaxChunks
      BY <2>1, Bounded
    <2> QED BY <2>1, <2>2, <2>3, InOrder DEF s
  <1>6. /\ Readable!IsInjective(readEvents)
        /\ "end" \in Readable!ToSet(readEvents) => Len(got) = MaxChunks
             /\ Len(pushed) = Readable!End
        /\ "close" \in Readable!ToSet(readEvents) => Readable!Last(readEvents) = "close"
    <2>1. \A x : x \in Readable!ToSet(readEvents) => Tell(x)
      BY <1>0 DEF Readable!ToSet, Tell
    <2> QED BY <1>0, <2>1 DEF EventsInv, AllLeft, Readable!Last
  <1>7. Readable!PipeInOrder
    <2>1. ASSUME dest # <<>>, Readable!Last(dest) = Readable!End
          PROVE  Readable!Front(dest) = SubSeq(got, Len(got) - Len(dest) + 2, Len(got))
      <3>1. dest[Len(dest)] = Readable!End /\ Len(dest) \in Nat \ {0}
        BY <1>0, <2>1 DEF Readable!Last
      <3>2. \A m \in 1 .. Len(dest) - 1 : dest[m] = Len(got) - Len(dest) + 1 + m
        BY <1>0, <2>1, <3>1 DEF PipeInv
      <3> DEFINE a == Len(got) - Len(dest) + 2
                 s == SubSeq(got, a, Len(got))
                 f == Readable!Front(dest)
      <3>3. f \in Seq(1 .. Readable!End) /\ Len(f) = Len(dest) - 1
            /\ \A m \in 1 .. Len(dest) - 1 : f[m] = dest[m]
        <4>1. Len(dest) - 1 \in 0 .. Len(dest) /\ 1 \in Nat \ {0} /\ 1 <= Len(dest) - 1 + 1
          BY <3>1
        <4>2. f = SubSeq(dest, 1, Len(dest) - 1)
          BY DEF Readable!Front
        <4>3. dest \in Seq(1 .. Readable!End)
          BY <1>0
        <4> HIDE DEF f
        <4> DEFINE b == Len(dest) - 1
        <4>4. b \in 0 .. Len(dest) /\ 1 \in Nat \ {0} /\ 1 <= b + 1
          BY <4>1
        <4> HIDE DEF b
        <4>5. /\ SubSeq(dest, 1, b) \in Seq(1 .. Readable!End)
                   /\ Len(SubSeq(dest, 1, b)) = b - 1 + 1
              /\ \A m \in 1 .. b - 1 + 1 : SubSeq(dest, 1, b)[m] = dest[1 + m - 1]
          BY <4>3, <4>4, Part
        <4>6. /\ f \in Seq(1 .. Readable!End) /\ Len(f) = b - 1 + 1
              /\ \A m \in 1 .. b - 1 + 1 : f[m] = dest[1 + m - 1]
          BY <4>2, <4>5 DEF b
        <4>7. b - 1 + 1 = b /\ \A m \in 1 .. b : 1 + m - 1 = m
          BY <4>4
        <4> QED BY <4>6, <4>7 DEF b
      <3>4. a >= 1
        <4>1. CASE Len(dest) = 1
          BY <4>1, Bounded
        <4>2. CASE Len(dest) > 1
          <5>1. 1 \in 1 .. Len(dest) - 1 /\ 1 \in 1 .. Len(dest)
            BY <4>2, <3>1
          <5>2. dest[1] = a
            BY <3>2, <5>1, Bounded
          <5>3. dest[1] \in 1 .. Readable!End
            BY <1>0, <5>1, Elements
          <5> QED BY <5>2, <5>3
        <4> QED BY <3>1, <4>1, <4>2
      <3>5. s \in Seq(Readable!Chunks) /\ Len(s) = Len(dest) - 1
            /\ \A m \in 1 .. Len(dest) - 1 : s[m] = got[a + m - 1]
        <4>1. a \in Nat \ {0} /\ Len(got) \in 0 .. Len(got) /\ a <= Len(got) + 1
          BY <3>1, <3>4, Bounded
        <4>2. Len(got) - a + 1 = Len(dest) - 1
          BY <3>1, Bounded
        <4>3. got \in Seq(Readable!Chunks)
          BY <1>0
        <4> DEFINE b == Len(got)
        <4> HIDE DEF a, b
        <4>4. /\ SubSeq(got, a, b) \in Seq(Readable!Chunks) /\ Len(SubSeq(got, a, b)) = b - a + 1
              /\ \A m \in 1 .. b - a + 1 : SubSeq(got, a, b)[m] = got[a + m - 1]
          BY <4>1, <4>3, Part DEF b
        <4> QED BY <4>2, <4>4 DEF b, s
      <3>6. ASSUME NEW m \in 1 .. Len(dest) - 1 PROVE f[m] = s[m]
        <4>1. a + m - 1 \in 1 .. Len(got)
          BY <3>1, <3>4, Bounded
        <4>2. got[a + m - 1] = a + m - 1
          BY <1>0, <4>1 DEF BufferInv
        <4>3. dest[m] = a + m - 1
          BY <3>1, <3>2, Bounded
        <4> QED BY <3>3, <3>5, <4>2, <4>3
      <3> HIDE DEF f, s
      <3>7. f = s
        BY <3>3, <3>5, <3>6
      <3> QED BY <3>7 DEF f, s
    <2> QED BY <1>0, <2>1 DEF Readable!PipeInOrder, PipeInv
  <1> QED BY <1>1, <1>2, <1>4, <1>5, <1>6, <1>7 DEF ChunksInOrder, Readable!ChunksInOrder

\* Whatever the program does, the chunks of a Readable leave it and reach the destination of
\* its pipe in the order in which they were pushed, each once; 'end' comes behind all of
\* them and 'close' last.
THEOREM ReadsInOrder == Readable!Spec => []ChunksInOrder
  <1>1. Readable!Init => ReadInv
    BY InitReadInv
  <1>2. ReadInv /\ [Readable!Next]_Readable!vars => ReadInv'
    BY NextReadInv, ReadInvStays
  <1>3. ReadInv => ChunksInOrder
    BY ReadInvSays
  <1> QED BY <1>1, <1>2, <1>3, PTL DEF Readable!Spec
=============================================================================
