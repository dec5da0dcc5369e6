# Verification of wasm-rquickjs

TLA+ models of the JavaScript runtime that wasm-rquickjs puts into a WebAssembly
component, checked with TLC and, for the timers, the event loop, nextTick, the exported
resources, the servers and sockets of node:net, the HTTP server and the uploads of fetch(), proved
with TLAPS.

`S` stands for `src/crates/wasm-rquickjs/skeleton/src`, the runtime that every
generated crate contains, `B` for `S/builtin`, and `G` for `src/crates/wasm-rquickjs/src`,
the generator. `PROJECT.json` lists the lines every definition stands for.

## The system

The generator reads a WIT world and a JavaScript module and writes a Rust crate: the
runtime of `S`, and glue that turns every exported function and resource into a call of
the runtime and every import into a JavaScript module. Compiled, the crate is one
component instance: one thread, one JavaScript engine, one executor of futures. The host
calls an export; the runtime starts the engine if need be, calls the JavaScript function,
awaits its promise, and polls what the program left pending until nothing is left.
Nothing is polled between two calls. Around this core stand the Node.js modules of
`B`, written in JavaScript over native functions in Rust.

| Component | State | Operations | Interacts with |
|---|---|---|---|
| Timers (`timeout.js`, `timeout.rs`) | Timeout objects; native keys, abort handles, unref'd keys, spawned tasks | setTimeout, setInterval, clear, close, ref, unref, refresh, wake-up of a task | event loop (the unref'd keys), nextTick (checkpoint in every callback) |
| Event loop (`S/internal.rs`) | the phase of a call, the sentinel task, spawned tasks | call_js_export, drain_and_idle, abort_unrefed_timers, wizer_initialize | timers; everything that spawns |
| nextTick and exit (`process.js`) | the queue, the wake-up flag, `_exiting` | nextTick, three drains, process.exit, _runExitHandlers | timers |
| Exported functions and resources (`S/internal.rs`, `G/exports.rs`) | initialisation phase, environment, resource table, drop queue | constructor, method, function, host drop, the dropper of a call | event loop, host |
| MessagePort (`worker_threads.js`) | queues, draining and closing flags of two ports, proxies | postMessage, close, drain, move | microtasks |
| Rejection tracker (`process.js`) | the pending rejections | the engine's two calls, two microtasks, the report | microtasks |
| net.Server (`net.js`, `net.rs`) | listening, token, accept loops, native listeners, connection count, table of paths | listen (4 forms), close, ref/unref, accept loop | nextTick, dns, sockets |
| net.Socket (`net.js`, `net.rs`) | connecting, handles, read token, pending chunks, attempts and timers of each connect() | connect, destroy, poll loop, pause, resume | streams, timers, dns |
| HTTP server (`node_http_server.js`) | parser state and buffer of each connection, current request and response, socket flags | 'data', end, error and close of a socket; write, end and destroy of a response; close of the server | net.Server, net.Socket, streams |
| HTTP client (`node_http.js`, `node_http.rs`) | agent's counts, queues and sockets; a request's flags; the native request | write, end, destroy, agent.destroy, _doSend, _flushBody | host, nextTick |
| Datagram sockets (`dgram.js`, `dgram.rs`) | bind and connect states, queue, receive token, native streams | bind, connect, disconnect, send, close, receive loop | dns, nextTick |
| WebSocket (`websocket.js`, `websocket.rs`) | readyState, connection, pending receive(), promises | connect, receive loop, send, close, cancel | host, web streams |
| Streams (`internal/streams/`) | WritableState, ReadableState, pipe | write, end, cork, destroy; read, push, pause, resume, pipe, unpipe | nextTick; the basis of net, http, fs, zlib |
| Test runner (`test.js`) | suites, current suite, pending promises, outcomes | test, describe, executeSuite, the harness | event loop |
| fetch and XMLHttpRequest (`http.js`, `http.rs`) | the body shared by a Response and its clones; readyState, timer and signal of an XMLHttpRequest; the loop over redirects and the upload beside it | text, body, clone; open, send, abort, timeout; sendBody, receiveResponse | host, timers, web streams |
| Others (module loader, domain, events, fs, dns, sqlite, child_process, web streams, ...) | see `PROJECT.json` | | |
| Conversions: buffers, crypto, zlib, url, util, type mapping, generator | data only | pure functions | |

The hard behaviours: every `await`, callback and microtask is a point where the program,
the host or another future comes in between. Work that was cancelled answers late; flags
and tokens say whom an answer belongs to, and several pieces of code set them; listeners
of the program call back into the object that calls them, or throw; the runtime
must notice that nothing but unref'd work is left; a Wizer snapshot is restored in
another world than it was taken in. `PROJECT.json` lists these hazards at their lines
with the properties that watch them.

What makes each component correct:
- Timers: a closed Timeout never fires; a one-shot fires once per arming; keys, handles
  and tasks stay in step; the native set of unref'd keys says what `hasRef()` says.
- Event loop: a call returns, leaves nothing behind, and cuts no ref'd timer short.
- nextTick: ticks run in order, once, before timers, and all of them.
- Exports: the table holds what the host can still name and no more; a call finds its
  parameters; drops queued before a call are carried out in it; it sees the host's
  environment; it returns.
- Ports: messages come once, in order, before 'close'. Rejections: reported late, and
  surely.
- net.Server: it hears its clients while it listens and only then, counts them exactly, says
  'close' once and at last.
- net.Socket: chunks arrive once, in order, before the end; no native socket is forgotten or
  used after its close; connect() settles; no data is left waiting.
- HTTP server: responses in the order of the requests; what is closed as idle owes
  nothing; every request settles once. HTTP client: the agent's books balance; a destroyed
  request gets no response; a request that was ended closes.
- Datagrams, web sockets: one receive loop while one is wanted; nothing lost, nothing late,
  the end announced once.
- Streams: chunks once and in order, 'finish' and 'end' after the last of them, a callback
  for every write, an end for every stream somebody reads.
- fetch: whoever reads a body of a clone gets all of it; no server takes part of an upload
  for the whole; a request of an XMLHttpRequest ends once; both settle.
- Test runner: a file passes only if everything it started did; the harness answers.

## The modules

| Module | Models |
|---|---|
| `TimerService` | abstract: what timers promise a program |
| `Timers` | timers, detailed; implements `TimerService` |
| `EventLoop` | calls, drain and sentinel composed with the timers (EXTENDS `Timers`) |
| `NextTick` | tick queue, timer checkpoints, exit handlers |
| `Exports` | initialisation, calls, resource table, dropper |
| `JobQueue` | the queue of microtasks, shared by the next two |
| `MessagePort` | two ports of a channel (EXTENDS `JobQueue`) |
| `Rejections` | tracker of rejected promises (EXTENDS `JobQueue`) |
| `Microtasks` | ports, rejections and jobs of the program on one queue (EXTENDS both) |
| `NetServer` | servers of node:net |
| `NetSocket` | a socket of node:net |
| `HttpServer` | connections, parser and responses of an HTTP server |
| `HttpClient` | requests through an agent |
| `Dgram` | a datagram socket |
| `WebSocket` | WebSocket and WebSocketStream |
| `TestRunner` | test(), describe() and the harness |
| `CallStack` | JavaScript calls as a stack of steps, shared by the next two |
| `Writable` | a Writable stream and its implementation (EXTENDS `CallStack`) |
| `Readable` | a Readable stream, its listeners and one pipe (EXTENDS `CallStack`) |
| `ResponseBody` | the body of a native Response and of its clones |
| `XmlHttpRequest` | an XMLHttpRequest over fetch() |
| `FetchRequest` | the request of fetch(), its redirects, and the upload of its body |
| `MCEventLoop`, `MCHttpServer` | symmetry and bounds for TLC |
| `MCExports`, `MCBuiltins`, `MCStreams`, `MCFetch` | several modules in one run, see below |
| `FetchProof`, `StreamsProof`, `ExportsProof`, `BuiltinsProof`, `NetServerProof`, `NetSocketProof`, `HttpServerProof`, `HttpClientProof` | theorems and proofs, see below |

Real compositions: `EventLoop` runs the timers' tasks in its drain, `Microtasks` runs the
jobs of ports, tracker and program on one queue, `Readable` drives the destination of its
pipe, `FetchRequest` runs the upload beside the loop over redirects. Components
that touch each other only through what one of them may assume of the other (a socket's lookup,
a timer of a request, a server's connection) keep to themselves: the partner is
nondeterministic there, which allows more than the partner does. `MCExports`, `MCBuiltins`,
`MCStreams` and `MCFetch` do not compose: a variable `part` names the module that a behaviour
belongs to, the others stay in one initial state, and each property is that of
its module. They only save runs.

### Common conventions

JavaScript runs to completion and the executor is single-threaded, so an action is one
job: from where the engine is entered to the next `await`, or to the point where
listeners of the program are called. What a listener may do is not part of the action;
other actions come first, then the action that stands for the listener's return, or one
for its throwing. Modules in which functions call listeners, which call functions, keep
what is left to do as a stack of steps (`stack`, `frames`, `todo`): the step after a
"program" step waits for the listener, and the program may call anything meanwhile. Time is
not modelled: a sleeping task may wake at any moment, so every order of timers is explored,
including orders that real delays would exclude. Operators marked "Faulty variant" are not
part of any specification. Each is a definition with a likely mistake, and shows that a
property would notice it.

### How state and actions correspond to the code

**Timers.** `task` is the future spawned for a key, `abortHandles` and `unrefedTimers`
are the fields of JsState, `timeout` the fields of the JavaScript objects,
`owner` the closure a task was spawned with. Every call of the program happens in
a turn (`running`). The constant `Calls` selects what the program does: "unrefDead" is
unref() of a Timeout whose native timer is gone. A one-shot whose `_repeat` is set arms itself
for ever, and keys are bounded: once they are used up (`MaxId`), the next task of such a timer takes the key of
the one that ends (`RearmInPlace`), so that the bound never ends what the code does not. The
calls of the program that arm a timer stop at the bound.

**EventLoop.** `phase` is outside, in the export, or draining; `io` counts tasks that are
no timers. `LateCalls` is what the program does while the loop drains. `idle()` is
external: it polls woken tasks and returns when none is left.

**NextTick.** `stack` holds the JavaScript activations, for a drain can run inside a
timer's checkpoint, a wake-up or `_runExitHandlers`, and a throw unwinds it. `wakeups` and
`timers` count the pending ones; `escaped` records what an error was thrown through.

**Exports.** Two futures of one call, the export's (`export`) and the dropper's
(`dropper`), interleave at each await over `table`, `dropQueue` and the runtime's
`lock`, which `idle()` keeps. `initPhase` and `env` are the snapshot's story. Resources are
created by constructors and by objects that a function returns.

**MessagePort, Rejections.** A job is a record in `jobs`; `port` holds the fields of the two
ports, `proxy` those of the proxy that moveMessagePortToContext() leaves in a port's place. The
tracker's two microtasks are two jobs, so the program's own jobs come between or do not.

**NetServer.** `srv` holds the fields of each Server, `loops` the accept loops suspended
in accept(), `listener` and `backlog` the host's side, `wakes` the connections
`_wakeAcceptLoop` makes, `lookups` the listen() calls that await dns. `running` is the loop
whose 'connection' event is being handled.

**NetSocket.** `sock` holds the fields of the Socket, `plan` the variables each connect()
closes over, `attempts` and `reads` the native operations under way with the
answer they have brought and whose job is still to run. `stream` is as much of the
Readable as decides whether `_read` is called. That the program does not call connect()
on a socket in use is assumed; the code does not test it. A drain started from inside the
push() of another is left out: on a `Clean` socket there is nothing for it.

**HttpServer.** `conn` holds the parser and the socket flags of each connection, `answer` a
request with its response, `wire` what was written. A request is a head, two pieces of a body,
and the line after a chunked one, and TCP may deliver several at once. The kinds of requests
name what the parser tells apart: no body, a length, chunks, bad ones, CONNECT or an upgrade.
The program answers in the handler, later, or never; informational responses,
trailers and header limits are data.

**HttpClient.** `count`, `queued` and `pool` are the agent's, `req` a request's flags, `pc`
where its async `_doSend()` waits, `native` the native request with its borrows: `start`, `write`
and `finish` hold it mutably across an await, and a call that finds it borrowed is deferred.
Listeners may throw: of 'error' in the catch block of `_doSend()`, for which having no listener is enough, in the
chain of flushes, and in the ticks of abort() and destroy(); of 'drain', 'socket', 'finish', 'response' in
`_doSend()`; of the response's 'aborted' in abort(). Listeners of the agent's 'free' event are taken not to throw,
and keepSocketAlive and reuseSocket to be the agent's own. (One thrown inside the try block
of `_doSend()` makes `_cleanupMockSocket()` run twice, which may list a socket twice as free.)

**Dgram.** `js` holds the fields of the Socket, `loops` the receive loops with their
tokens, `todo` what runs after listeners. Native binding and connecting replace the streams,
which `generation` counts: a loop whose streams are replaced ends by itself.

**WebSocket.** `connect` is the microtask that connects, `receive` the pending native call and its
answer, `inner` the native connection that close() takes away from under it. `api` is the
client of the behaviour: events, or the promises and the ReadableStream.

**TestRunner.** `stack` holds runSuite and executeSuite calls of the file, `waits` the
promise each suite's chain awaits, `batch` what the harness awaits. A test's outcome
is chosen where its body, its plan or its hook ends.

**Writable, Readable.** `w` and `r` are WritableState and ReadableState; `owed` names the
methods of the implementation that have not called back; `ticks` is the queue of nextTick.
The implementation answers inside its method or later, once. Inside its own methods it does
nothing else to the stream but destroy it. An 'error' without a listener, or with one that throws, is
modelled: the tick ends there, and 'close' is not emitted (`destroy.js:103`). Callbacks of write() and
end() and the other listeners are taken not to throw: one that does skips what its function had
left to do, such as the callbacks behind it (`writable.js:533`, `:553`) or the next reads of a flow. Chunks are objects, each of size one.

**ResponseBody.** `shared` is the SharedResponse in its RefCell, with the borrow that a read
holds across its await; `bodySource` is `body_source` of each clone. `trapped` is a
panic. **XmlHttpRequest.** `xhr` holds the fields, `request` where the async function of the
n-th send() waits, `stack` what follows a listener. **FetchRequest.** `fetch` is where the loop
over redirects waits, `upload` where sendBody() does, `server` what each request brought to its
server; `source` is the stream or the bytes.

## The runs

All constants below are instances; the bound constants are named "bound" in the modules
and appear in guards only.

| Run | Configuration | Shows |
|---|---|---|
| `loop` | `MCEventLoop` | every call on two Timeouts in any turn of any number of exported calls: keys, handles and tasks in step (`LoopInv`), the native unref'd keys agree with `hasRef()` (`UnrefAgrees`), `TimerService` implemented, the loop's aborts included |
| `loop_and_fetch` | `MCFetch` | programs that unref live timers before the drain: a returned call leaves nothing, no ref'd timer is cut short, the drain returns unless a timer stays that arms itself for ever; bodies of clones whole; one end per XMLHttpRequest, and one for each that is sent |
| `exports` | `MCExports` | calls and drops of two resources, with and without a snapshot: the table is exact, due drops are done before a call's end, parameters are found, the call returns; two ports and a rejected promise on one queue of jobs: messages in order and once, 'close' last, reports late and surely |
| `net_server` | `MCNetServer` | a server with its native listeners, two clients, two close() calls, one failure of accept(), one path |
| `net_socket` | `MCNetSocket` | two connect() calls to up to two addresses: one read at a time, chunks in order, no handle lost or used when closed, connect() settles, data flows |
| `http_server` | `MCHttpServer` | two requests of every kind on a connection, in pieces with any delay; answers inside the handler, later, never; the server or the client closes at any time |
| `streams_and_uploads` | `MCStreams` | a Writable and a Readable under every call of the program in every listener, callback and turn; fetch() with up to two redirects: uploads whole or given up, and it settles |
| `builtins` | `MCBuiltins` | HTTP client and agent, datagram socket, web socket, test file, ticks |
| `stale_unref` | `MCStaleUnref` | counterexample to `DrainReturns`, with unref() on a timer that has fired |
| `tick_escapes` | `MCTickEscapes` | counterexample: an error that escapes a drain strands the ticks behind it |
| `pipelined` | `MCPipelined` | counterexample: responses of pipelined requests out of order |
| `after_hooks` | `MCAfterHooks` | counterexample: a suite whose `after` hooks never run |

### Bounds, and why they are enough

- Timers and loop: a Timeout interferes with another only through the native sets, so two
  Timeouts, with three native keys so that one of them is armed again, show each interference;
  one I/O task shows what a task that is no timer changes. `loop` uses the symmetry of the
  Timeouts, which is sound for its properties because none names one; `loop_and_fetch`,
  which checks liveness, does not.
- Ticks: three are the least that let one be queued by a tick that runs and another wait
  behind it. One timer and three wake-ups let every checkpoint come before and after each.
- Exports: two resource ids let one be dropped while the other is created or returned, in two
  calls; two handles and two uses let a method run while the other handle is dropped.
- Ports, rejections: two messages are one being handed over and one behind it; a third waits
  like the second. One promise of the program and one job of its own take each place among the
  others.
- net.Server: two listens and two closes give an accept loop of an earlier life and one of the
  present life; a third would repeat the pair. Two clients let one be counted while
  the other comes. Two servers or two paths take TLC more than five minutes; the theorems of
  `NetServerProof` hold for any number of both, and what they state of one path per server the
  run shows on its single path.
- net.Socket: two addresses are an overtaken and an active attempt, two connect() calls an
  earlier and a present connection, two chunks one that is kept back and one that could
  overtake it. Two chunks come with one address, one chunk with two (`FewChunks`). The theorems of
  `NetSocketProof` hold for any number of them.
- HTTP server: connections share nothing but `_closeRequested`; two requests on one are one
  that is answered and one that waits or overtakes. Kind "length" is left out of the
  run, for "chunked" does all that it does and more. The theorems of `HttpServerProof` hold for any
  number of connections, of requests on each, of kinds and settings.
- HTTP client: two requests compete for one slot, of one host or of two, in four settings of
  the agent's limits; the body is one chunk at a high-water mark of one. The theorems of
  `HttpClientProof` hold for any number of requests, hosts and chunks and for any limits.
- Datagrams, web socket: one send and one connect() with one datagram let each overtake the other;
  two messages one that is dispatched and one behind it.
- Test runner: two tests and two suites: siblings, and one in the other. The theorems of
  `BuiltinsProof` hold for any number of these, of sends, connects, messages and ticks.
- Streams: of three writes one is with the implementation, one has its callback in a tick and one is in the
  buffer; with them go two other calls, four in all. (With two writes errorBuffer seemed to
  keep the order of the callbacks, which three of them refute.) A Readable with high-water
  marks zero and one gets two chunks and three calls.
- fetch: three Responses are one that reads, one that was read and one still to be read; two
  redirects are a first, and one that the first has changed; two sends an old and a new request.

Programs are bounded by the number of their calls; a guard never disables a call by what it
would reveal, except where a module's comment says "bound".

Deadlock is checked in `loop` (the host may call again). The other configurations say
CHECK_DEADLOCK FALSE: a program that has used up its bounded calls, or an object it has done
with, may stop.

### Fairness

- `EventLoop`: each task that can be polled again and again is polled (strong fairness, for
  turns of other tasks come in between): timers, I/O, the sentinel. The executor keeps
  a ready queue, so none is passed over for ever. A turn that has begun ends (weak
  fairness). Nothing makes the program call anything or the host call an export.
- `Exports`: the two futures of a call are polled and tasks end (join polls both). An
  exported function settles: a promise that never settles is the program's affair.
- `Microtasks`: listeners return, and the queue is run again and again (strong fairness, for a
  turn of the host may come first; the engine empties its queue after each).
- `NextTick`, `NetSocket`, `HttpClient`, `TestRunner`: one weak fairness over all that runtime
  and host do unasked. It says only that something of it happens as long as something can,
  which is less than the executor grants each job. For the test runner this has
  the tests end, for the client the host answer.
- `NetServer`: accept loops, wake connections and the nextTick queue get on, listeners
  return or throw. That connections end is assumed, because 'close' waits for them.
- `HttpServer`: handlers and jobs run, pieces that were sent are delivered; the program ends each
  response it was given, which `HalfOpenCloses` assumes.
- `Dgram`, `WebSocket`, `Writable`, `Readable`, `XmlHttpRequest`, `FetchRequest`: jobs run, the host
  answers what was asked of it, the implementation of a stream calls back what it owes,
  the destination of a pipe drains. `WebSocket` has strong fairness for the
  jobs, for turns of the program come in between. Nothing is fair that the program decides.

### What the properties leave out, and why

Some properties hold only for programs that keep off a weak spot of the code. The weak spot
is part of the model, a history variable marks it (`strayed`, `past`, `early`, `escaped`, ...),
and the property says so.

Timers and event loop
- `ReturnsClean`, `DrainReturns`: no unref() of a dead timer, which with the comparison of
  sizes can also abort an unref'd timer while a ref'd one lives.
- `UnrefAgrees`: no refresh(); it arms a ref'd native timer while `hasRef()` stays false.
- `DrainReturns` leaves out calls kept by a timer that arms itself for ever (`Recurring`): a ref'd
  interval or a ref'd timer whose `_repeat` is set, or one of the latter kind which was unref'd but
  which the sentinel no longer aborts. After unref() and refresh() a timer is ref'd for the native side, and unref'd
  again when it arms itself; a sentinel that has seen no unref'd timer is gone by then.
  It holds under `LateCalls` without "unref": a timer unref'd during the drain after the sentinel's
  one look is waited for; an interval keeps the call for ever.
- The sentinel aborts unref'd timers although I/O may still be pending (`internal.rs:1931`).

nextTick, exports, rejections
- `TicksFinish`: an error thrown by a handler for uncaught errors. process.exit() in a
  'beforeExit' listener also ends `_runExitHandlers`.
- `TableIsExact`, `CallsAreClean`: ids in `again`. A function that returns an object
  registered before gives the host a second handle of the same id; dropping one removes the
  object under the other; returned once more, the id names nothing (`exports.rs:285`).
- `CallReturnsAtLast` admits the dropper waiting in `idle()`, runtime locked, for an unref'd
  interval while no sentinel exists yet.
- `PortsDeliver`: not a port one of whose listeners has thrown. `#draining` stays set, and
  what is queued behind it is never handed over, although `worker_threads.js:255` wants that.

net
- `CloseIsAnnounced`, `ClientsReachServers`: a server in `mixed` called listen() while it still
  ran. listen(path) does not test `listening`, listen(name) tests it before its lookup only. Of a
  listen() that overlaps a pending close(), that close()'s 'close' event is lost.
- `ClientsReachServers`: `deaf` loops. An accept() that fails, or a 'connection' listener that
  throws, ends the accept loop while `listening` stays true. `CloseIsAnnounced`: a wake
  connection that does not arrive; it is best effort in the code.
- `ClientsReachServers`: a server in `renamed` listened on one path and called listen() with
  another; the new name is recorded even if that call fails, and close() then removes the entry of
  the new path and leaves the old one, which leads to a closed listener (`net.js:1268`).
- listen(path) on a path that another server holds records the path before the test, so
  closing the loser removes the winner's entry (`net.js:1268`). An unref'd server whose loop is
  dead may emit 'close' twice (`net.js:1449`).
- `ReadsInOrder`, `HandlesAgree`: `Clean` sockets. `rushed`: connect() was called while a
  lookup, timer, attempt or read of the last connection was pending. The callbacks test
  `connecting` and not whose connect() it is, so an earlier attempt can decide a later
  connect(); an earlier read clears `_readInFlight`, two poll loops read, and a chunk is lost.
  `threw`: a 'connect' listener's exception is taken for a failed attempt, whose handle is
  closed though the socket now stands on it; a 'data' listener's exception is taken for a
  failed read.
- `DataFlows`: not `early`. A `_read` before connect() returns at once without waiting for
  'connect', and the stream waits for its push for ever.
- A write that waits for 'connect' is forgotten when the connection fails (`net.js:1045`).

HTTP server
- `ResponsesInOrder`: a request behind an unanswered one without a body (the finding), and a
  write after end().
- `HalfOpenCloses`: a client that left off inside a request that was answered early, and a chunked body whose
  last line comes alone: it stays in the buffer, and the connection is never idle again. A
  handler that ends its response at once leaves the parser in its headers state, so the connection is
  not closed as idle.
- connectionListener closes idle connections whose responses are not flushed yet.

HTTP client
- `AgentIsExact`: agent.destroy() drops counts and queues; requests with a body bypass the limit.
- `RequestsClose`: requests in the queue of a destroyed agent, and those whose own listener throws
  (`thrown`): an 'error' that is thrown in the catch block of `_doSend()` or in a tick of abort() and
  destroy() leaves out the 'close' behind it, an 'aborted' that throws even the tick.
- `PoolIsExact` (of `AgentIsExact`) lets a request that is over keep its socket in `agent.sockets` when its
  'error' was thrown in the catch block of `_doSend()`: `_cleanupMockSocket()` is skipped, and nothing
  takes the socket from the list but its own destruction or the agent's (`node_http.js:2433`). Its
  slot comes back all the same.
- abort() during a native call is
  deferred and never carried out; 'finish' may follow 'close'; a failed start in a chained
  flush reports 'error' twice; a program that waits for 'drain' before end() waits for ever,
  for nothing is flushed before (`node_http.js:2123`).

Datagrams, web sockets
- `HearsWhileBound`: failures and listeners that throw (`past`). A failed connect() leaves the
  socket deaf: `RestoredIsHeard` states the comment at `dgram.rs:284` and the model violates it.
- `SendsAreCalledBack`: the queue dropped by a failed binding, a close() or a throw.
- `EndIsAnnounced`, `HearsInOrder`: a close() while connecting is lost; one that overtakes a
  settled receive() dispatches 'message' after 'close'; a failed send() closes nothing
  (`websocket.js:179`).

Test runner
- An async describe() callback never restores `currentSuite` (`test.js:579`), concurrent suites run
  their after hooks before async tests have ended, a failed sync afterEach runs twice.

Streams (`strayed` of `Writable`)
- end() on a destroyed stream emits 'finish' after 'close', for `needFinish` does not test
  `destroyed`. uncork() or end() inside the callback of a failed write writes chunks already
  reported failed; a chunk that is written behind these is dropped without a callback. Without
  autoDestroy, writes after an error stay buffered.
- When a stream is destroyed while ticks of synchronous writes are still queued, the first of them calls
  errorBuffer (`writable.js:536`): a chunk that was never written gets its error before an earlier one,
  which was, gets its callback. `WritesInOrder` states the order of each kind, and that no error
  comes before the answer of an earlier chunk which the implementation still writes.
- Outside the model: a write() inside `_writev` is lost with its buffer, one inside `_write`
  after a synchronous answer overtakes the buffer.
- `StreamCloses`: a stream whose 'error' was thrown by the emit, for there is no 'close' then. Of a write
  callback that throws see above: the order and the number of callbacks are stated of programs whose callbacks return.
- Of `Readable`: read() emits 'data' even after destroy(); 'drain' of an unpiped destination
  starts a paused stream again with the 'data' listener of another.

fetch and XMLHttpRequest
- `BodiesAreWhole`: programs that read clones one after the other and keep them. stream() never
  notes itself in the shared state, so text() of a clone after one chunk gives the rest:
  `ClonesAreWhole` states `examples/runtime/fetch/src/fetch.js:545`, and the model violates it in five
  steps. Two clones read at once, or the last of them let go, panic (`overlapped`).
- `RequestsEndOnce`: aborted while the body is read (`AbortedDoesNotLoad` states `xhr.js:176`
  of the runtime examples and is violated), or open() called while an answer is pending. `RequestsEnd`:
  a timer callback that clears the timer of a newer request. After an end `_sent` stays set,
  so open() must come before the next send().
- A redirect to GET keeps the body of a buffered request (`http.rs:580`): `RedirectedGetIsEmpty`
  states that it does not, and the model violates it in four steps. An error of the stream that comes
  just after the redirect is seen is lost; an upload goes on after abort().

The four properties named as violated in this list are stated in their modules and belong to
no run.

### Findings

The four violation runs contradict a comment or a document of the repository, quoted in
`PROJECT.json`:
- `stale_unref`: unref() of a timer that has fired leaves a key nobody removes, and the drain
  polls for ever (`timeout.rs:57`, `internal.rs:1912`).
- `tick_escapes`: an error out of a drain leaves ticks without a wake-up (`process.js:306`).
- `pipelined`: responses of pipelined requests leave in the order of the program's
  end() (`README.md:546`).
- `after_hooks`: an error after an async test's body rejects a promise that the suite's chain
  has no handler for, and its after hooks never run (`test.js:622`).

## The proofs

Assumptions are the modules' own `ASSUME`s: bounds are natural numbers, `LateCalls` is a
subset of `Calls`. TLC evaluates them in every run of a module that extends them.
Where a module has none of its own its theorems state what they assume: bounds that are natural
numbers; for the HTTP client `ClientConstants`, that there are finitely many requests and hosts, that the
name for "no socket" is not that of a request, and that the agent's settings are limits; for datagrams that the
name of connect() is not that of a send().
A theorem is about the specification of its own module. In a run of several modules a
behaviour whose `part` is that module is one of its behaviours, and in the others it stays as
it begins. The theorems hold for any number of Timeouts, keys, tasks, ids, handles, ticks, messages, jobs,
servers, paths, clients, native listeners, connect() calls, addresses, connections of an HTTP
server, requests, hosts, sends, tests, suites, clones, redirects and chunks.

**`FetchProof`: timers.** `TimersInvariant`: `TimersInv` is inductive. It ties the JavaScript side to
the native side in seven parts: the types; keys are handed out once (`KeysAreFresh`); a task is
past its wake-up only in its own turn (`TurnsAreExclusive`); the callback in progress saw its
own key (`CallbackSawItsKey`); a Timeout's key names a task that calls back into it
(`IdsAreOwned`); an abort handle belongs to a live task (`HandlesAreLive`); a Timeout has at
most one live task, which its key names (`OneLiveTaskPerTimeout`). The last two are what the
rest is for: without them a closed Timeout could have a second task that still fires. From the
invariant follow `ClosingIsFinal`, `UnrefSound` and `Implements`: each step maps to a step of
`TimerService` or leaves it unchanged.

**`FetchProof`: the loop.** `LoopInvariant` adds that outside a call nothing is spawned;
`ReturnsCleanly` and `SentinelIsSound` follow. The latter is the argument the code relies on:
the sentinel compares two sizes, which decides inclusion because the unref'd keys are a
subset of the handles; finiteness of both comes from keys below `lastAbortId`.
`LoopImplements` lifts the refinement: the abort of unref'd timers is a `Disarm`.
`LoopUnrefAgrees`: a live key the sentinel may abort is that of a Timeout whose `hasRef()` is
false and, without refresh(), the other way round. This is not inductive alone: `UnrefInv` adds that
every key in `unrefed_timers` has been handed out, or the next Timeout would find its fresh key
there, and that no Timeout is unref'd before it is created.

**`FetchProof`: bodies.** `BodiesAreAlwaysWhole`, of every Response and clone that is read in turn. `BodyInv`
says that before the first read nothing has been taken and the native response is in one place (`UntouchedInv`); that
one reads at a time, and who reads the shared stream finds it free (`InTurnInv`); and that nothing of the body is
lost (`WholeInv`): once the response has been taken and its body is shared, somebody is reading it or the shared buffer holds
all of it; a reader of bytes has, with what is left for it, all of them; and one that has come to the end got all.

**`FetchProof`: XMLHttpRequest.** `RequestsAlwaysEndOnce`: what was heard of a request is in the past, so the invariant
`XhrInv` says what may still come. Until it is aborted an object works on one request, the one sent last: one
step of `_sendAsync` or one fetch, not both (`WorkInv`). One that was aborted is not `OPENED`, so
it cannot be sent again before open(), and it reads no body (`AbortedInv`); both need that abort() did not come
while a body was read. One end is about to be dispatched at a time, and not behind another (`StepsInv`); once one
was dispatched and the object was not aborted, no work is left (`EndInv`), which makes 'late load' impossible. None of this
holds of a program that calls open() or abort() where the object does not guard against it (`strayed`).

**`ExportsProof`: calls and resources.** The inductive invariant is `TypeOK`, `CallInv` (how far the two futures of
a call can be from one another, and where the stop signal is), `LockInv` (who holds the
runtime), and `PlaceInv(i)` for each id that was not returned twice: an id is in exactly one
place of its life, and the table has it in all but the first and the last. `TableExact`,
`ParametersFoundAlways` and `StopSignalsMatch` are read off. `TableIsExact` is not inductive
alone: it does not say that an id is queued at most once, nor that a queue beyond the stop
signal belongs to the next call. `CallsAreCleanAlways`: an exported function never runs in the
environment of the build, and once its call has returned, every drop that was due when it began is done. Three more parts make
that inductive (`CleanInv`): ids in use were given out (`IdsAreGiven`), so that no fresh object
has the id of a drop that is due; drops due and not done are in the dropper's hand or in the queue
ahead of the stop signal (`DropsAreDue`); and the ways into a call pass `get_js_state` (`HostIsSeen`).

**`ExportsProof`: microtasks.** `PortsAlwaysDeliver`, and `ReportsAreAlwaysLate`, the safety half of
`RejectionsAreReported`. Ports, rejections and jobs of the program share one queue, so the invariant is about places
in it. For ports (`PortsInv`): a message that waits has its drain, queued once or running (`DrainInv`), and a port that is
to close has its close behind every drain (`CloseInv`). For rejections: of the tracker's two
microtasks a promise has one in the queue, the first or the second, and what was queued in time to add a
handler is ahead of its second (`RejectionsInv`).

**`BuiltinsProof`: ticks.** `TicksAreInOrder`: the ticks started and those queued are the calls in
order, and between turns ticks that wait have a wake-up timer. The second half is not
inductive: inside a drain the timer may be gone. The invariant adds that the flag
`__nextTickWakeupScheduled` is set only while a wake-up timer is pending (so that a call of
nextTick may rely on it), that whatever is queued has its timer or is being drained by the outermost
activation, and the shape of the stack: a drain runs on an empty one, and a tick in a drain.

**`BuiltinsProof`: web socket.** `AlwaysHearsInOrder`. The events left to dispatch are a stack of steps; the
invariant `SocketInv` says which stacks there are and which state of the socket goes with each (`TodoInv`), that a receive()
is pending only while no step is left that leads to one, and that the messages got, with the one in hand, are the first of
those sent (`ReceiveInv`), and, for each readyState, which events were dispatched and which are left (`EventsInv`).

**`BuiltinsProof`: datagrams.** `AlwaysHearsWhileBound`: a bound socket has exactly one receive loop with its token. Loops
hold different tokens, none of which the socket has not come to (`TokensInv`). That a connect() starts no second loop
needs that it is queued for the bind, under way, or neither, never both (`ConnectInv`).

**`BuiltinsProof`: test runner.** `TestsAlwaysPassInOrder`: a file passes only when nothing that was started has failed or
goes on. Nothing in the harness looks at all tests, so the invariant `RunnerInv` follows the chain from each of them to the
harness: what has not passed is awaited by its suite or by the batch, or its suite knows of it
(`FailInv`, `WaitsInv`, `RootInv`); steps that wait below a call on the stack are of suites that run it
(`StackInv`); nothing is registered in a suite that executes (`CurrentInv`); and suites are not
in each other in a circle (`ForestInv`). With an empty batch and nothing pending, a test that is left would
have a suite that is left, which has one in turn; as there is no circle, there is none (`NothingLeft`).
`SeqInv` is the second half: a sequential suite runs its entries one at a time and in order.

**`NetServerProof`.** Three arguments, over what each kind of step does to the fields of one server
(`Calls`, `Closes`, `Ends`, `EndsLoop`, `Announces`, `GoesOn`, ...), which the first half of the module
derives from the actions.
`ClientsAlwaysReachServers`: a listening server hears its clients, and a path leads to the server that
listens on it. `HearsWhileListening` alone is not inductive, for a step that closes a listener or
wakes a loop must not meet the loop that serves. `SoundInv` adds that a native listener belongs to
one server (`Owned`); that no loop has a token its server has not had, and that the one with the
server's token works on a listener that is open for a server that listens (`Tokens`); that a
wake connection is on its way only to listeners whose loops are all stale (`WakesAreStale`);
that `listening`, `_accepting`, `_handle` and `_closeRequested` move together (`Fields`); and that a loop
which reports an error is in `deaf` (`Endings`).
`CountsAlwaysAgree`: `_connections` is exact, for a client waits in one place of one backlog
(`BacklogsAreSound`), and a wake connection, which ends a stale loop, is never counted. 'close' is
emitted no more often than close() was called: a server that never listened while it ran has one accept
loop, suspended or running (`OneLoop`), and what was asked covers what was told, what is queued
and the event still owed while this loop or a connection is left (`Paid`).
`OnlyOpenServersServe`: 'connection' is emitted only by a server that listens, the safety half of
`CloseIsAnnounced`.

**`NetSocketProof`.** `SocketInvIsInvariant`: `SocketInv` is inductive, shown over what each kind of
step does (`Idles`, `LoopStarts`, `Keeps`, `Pushes`, `Drains`, `Tries`, `Dies`, `Wins`, `Connects`, ...),
for an action of the module is often one of several of these. From it follow `HandlesAlwaysAgree` and
`ReadsAlwaysInOrder`, for names with any number of addresses and connections of any length.
No conjunct of the two properties is inductive alone. That nothing leaks needs that a native socket has
one owner, an attempt or the socket, and that those the connect() calls have not come to are unused
(`OwnerInv`, `PlanInv`): otherwise a winning attempt could replace the last one that stands on another
handle. That the socket stands on no closed handle needs that on a `Clean` socket what
is under way is of the last connect(), and that the address it tries is not closed (`CleanHandles`). That
one loop reads at a time needs that no read has a token the socket has not come to, that at most one has
its present one, and that a loop which is handing over a chunk has no read (`LoopInv`); on a `Clean` socket
`_readInFlight` then says exactly whether a read is out (`CleanReads`). The order of the chunks needs what
is in between: a read that has brought chunk n means that n - 1 were pushed, and so does a chunk
kept back, which is alone (`CleanContent`, `LoopInv`). The last also proves that the loop with which `_read`
drains kept-back chunks never has one (`calling.in # "read"`): whatever is kept back, the socket is paused, and
resume() takes it out before `_read` runs again.
What holds without `Clean` is said without it: `NoLeak`, `OwnerInv` and `LoopInv` do.

**`HttpServerProof`.** `ResponsesAlwaysInOrder`: on each socket the responses come in the order of the
requests, each in one piece, with nothing behind an error response. The order of what was written is not
inductive: it depends on what is still in the buffer and on who may still write. The invariant says, of
each connection: what the parser has not looked at is newer than every request it handed over,
and increases from head to head (`BufferInv`), which pieces that arrive keep, for they come after all the
client had sent (`RunInv`); of those handed over only the newest may be unanswered, and it is the current one
unless the socket was given to the program (`CurrentInv`); while the socket is open nothing was written but
answers to requests that were handed over, and a last piece only of one that has ended (`WireInv`), so
that what is written next belongs to a newer request or to one that has not ended. That the parser takes
another head only when the current one is answered is where the code can go wrong: in `IDLE` and `HEADERS`
the current response, if there is one, is of a request without a body, and the turn that overtakes it is the
one `overrun` marks. Once a socket is no longer open nothing is written to it, so `CurrentInv` is dropped there;
this lets the proof pass over a program that ends a response after the connection was refused.
The steps are of few kinds: the parser goes on (`GoesOn`), a request is handed over, the program tells
something, the socket is shut, pieces arrive; each has one lemma over the fields of one connection.

`NothingIsEverOwed`: an idle connection has answered all it was asked and has no head in its buffer; the
end of a request is pushed once unless it was aborted, a response closes once, and none before it ended or the socket closed; and
of a connection that is gone every request is settled. None of this can be seen in the fields of one
request: who will push the end or emit the close is either a handler under way or a job to come. `SettleInv`
adds to `ServerInv`, with `calls` the requests being handed over and `due` the responses a tick is
to close: no request is handed over twice (`Distinct`); to a request whose head is still in the buffer
nothing has happened, and nothing is sent behind a malformed one (`BehindInv`), so that the parse of a head
starts from an untouched request; a request without a body is complete before it is handed over and no end
is pushed behind it, and in state `BODY` the current one can be complete only if it was aborted, or the socket
ended it and no parse loop is left to push the end again (`EndsInv`); a response is the current one,
or due, or closed, only one of the three, until the socket closes and closes the current one (`ClosesInv`, where the
one that is due is no longer current, so the socket does not close it again); and an idle connection with a
head to parse or a response to wait for has a parse loop among the frames (`IdleInv`). That is what makes
the first clause true: with no frame left, there is neither. `ClosesInv` and `IdleInv` are dropped on
connections in `overrun`, where a later request replaced one that was not answered.

**`StreamsProof`: uploads.** `UploadsWhole`: no server takes a part of an upload for the whole.
The loop over redirects and the upload run side by side, so the invariant says how far apart
they can be: there is one upload, for the stream is given out once (`OneUpload`); requests
to come are untouched (`Ahead`); the server has what the stream gave but for the chunk in hand,
and is told the end only when nothing is in hand (`Counted`); the loop leaves a request behind only
when its upload has settled or was aborted (`GivenUp`); and a response other than a redirect
waits for the upload of its request (`Awaited`).

**`StreamsProof`: a Readable.** `ReadsInOrder`: `ChunksInOrder`, for any number of chunks and of calls of the program. Listeners
call functions that call listeners, to any depth, so the stack is an unbounded sequence of steps. The
invariant `ReadInv` does not say what each step means wherever it is in the stack. It singles out five kinds: those of
`FirstSteps` can only be at the top (a push, the end, an error: nothing runs above them before they are done),
above a write() to the destination of a pipe there are only calls of the program, and such a write() is of the
chunk that left last (`StackInv`, `Shape`); a close is queued, under way or told, and only one of these
(`CloseInv`). All other steps are `Quiets`: `QuietKeeps` shows once that a step which changes only them, and none of
the fields in `SameState`, keeps the invariant, and 29 of the 39 actions are of that kind. Of what is
left: chunks that left, those in the buffer and the one being pushed are together what was pushed, until the
stream is destroyed (`BufferInv`); 'end' waits for that, or its tick is behind a close that
suppresses it (`EndsInv`: endReadableNT asks for the buffer only, and it is the order of the two ticks that keeps 'end' from
a stream destroyed with chunks on their way); and the destination has what left since the pipe began but for the
chunk being written, and End behind it (`PipeInv`).

**`HttpClientProof`.** `AgentStaysExact`, `ResponseStaysWanted` (in `BuiltinsProof`, where the run's
properties are; they cite the theorems of the same content of `HttpClientProof`). Agent and requests tell each other by
queues, timers and ticks, so the inductive invariant `ClientInv` has, besides the types (`FieldsOK`): which
call, step or answer of the host goes with the place where a request is, and that a host's queue holds requests that wait
for it, each once (`FlowInv`); that a mock socket is free, in use or
dead, and is held by one request, which is in `_doSend()` or left it by a thrown 'error' (`PoolInv`); that a host counts the requests admitted and not yet given
back, exactly until the agent was emptied, and that one whose queue waits while there is a slot has its drain as
the next step (`SlotsInv`). Counts are cardinalities, hence the assumption that requests are finite. That
none waits while there is a slot for it follows only because giving back a slot and taking the next request
are one turn, as they are in the code.

The proofs changed some definitions, without changing what they mean: alternatives of a CASE that overlapped, which
have no defined value, are now disjoint (`WebSocket`); a count made by a fold is a cardinality, and a
socket that is taken is quantified instead of chosen (`HttpClient`); requests and timers of an
XMLHttpRequest have the numbers of their send() (`XmlHttpRequest`); resetBuffer at the end of a _writev is
one step (`Writable`). The invariant of a Writable showed more: with three writes, the order first claimed for all
callbacks does not hold once a stream is destroyed, as errorBuffer may run ahead of the callback of an earlier written
chunk; `WritesInOrder` now states what the code keeps.

Model-checked only: everything temporal under fairness (`DrainReturns`, `TicksFinish`,
`CallReturnsAtLast`, `RejectionsAreReported` but for its safety half, `CloseIsAnnounced`, likewise, `DataFlows`,
`HalfOpenCloses`, `StreamsSettle`, `UploadsSettle`, `RequestsClose`, `SendsAreCalledBack`,
`EndIsAnnounced`, `HarnessAnswers`, `RequestsEnd`), which the prover does not reach, as it
does not reach ENABLED; and `WritesInOrder`, of a Writable: that each accepted chunk is in one place at a time
can be stated as an inductive invariant, but over stacks of steps that grow by whole handlers it has to count the callbacks
still pending, and that proof is not written. TLC checks it on every interleaving of three writes.
What recursive definitions compute is out of reach too, for induction theorems take an operator as a
parameter; no module declares one that is proved about.

## Not modelled

- Data, most of the lines of the repository: conversions between WIT, Rust and JavaScript,
  buffers, crypto, compression, formatting, comparison, URLs, header and argument checks. Control is
  trivial there and TLC would only repeat unit tests. This, wrappers of one native call,
  and vendored polyfills are why the map covers less than a tenth of the lines.
- The generator: a sequential program from text to text.
- External code, modelled from its use: the executor and `idle()` of rquickjs, the abortable
  futures, the host's sockets, clock and HTTP client.
- Of net.Socket: writes, `_final`, idle timeouts, abort signals, IPC paths. Of the HTTP client:
  sockets of its own, an agent without limits, custom lookups. Of datagrams: options and
  multicast. Of web sockets: Blob. Of streams: Duplex and Transform, pipeline, bytes,
  unshift, iterators, several pipes. Of fetch: headers, referrer, cookies, and Response and Request objects
  the program makes itself.
- The components marked `not_modelled` in `PROJECT.json`, each with its reason.
