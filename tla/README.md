# Formal models of reflector

TLA+ models of `reflector`, an HTTP echo and mock server, model-checked with TLC
and, where marked, proved with TLAPS. Paths like `serve.go` are short for the file
of that name in the repository (`cmd/reflector/serve.go`); `PROJECT.json` maps every
definition to the lines it models.

## 1. The system

`reflector serve` is one process. Its main goroutine (`runServeCtx`) loads the routes,
starts an HTTP server, an admin server, optionally a directory watcher and a TCP echo
listener, and waits for a signal or an error. All parts live in one address space;
what they share is one atomic pointer (the user route table), one mutex-protected
buffer (captured requests), one atomic flag (health), one context and one error
channel.

| Component | State it keeps | Operations | Talks to |
|---|---|---|---|
| Route reload (`loadroutes.go`, `watch.go`, `userroutes.go`, the closures of `serve.go`) | the atomic pointer `UserRoutes.mux`; in the watch loop a timer and a one-slot channel | load at startup, `POST /admin/routes/reload`, `GET /admin/routes` (reads only), watch loop: event, timer, token, reload | the routes directory, fsnotify, the HTTP server (reads the pointer on every request) |
| Route table (`routes/load.go`, `route.go`, `mux.go`, `protected.go`, `server.go`'s `compose`) | the list `Resolve` builds, the `ServeMux` | `compile`, `Resolve`, `BuildMux`, `compose` | called by every load; its mux is what the pointer holds |
| Request capture (`capture.go`) | `Buffer.entries` and its mutex | `Add` (by the middleware), `All`, `Clear` | every request of the HTTP server; the admin API |
| Lifecycle (`serve.go`, `watch.go`, `tcpecho.go`'s `Serve`) | `errCh`, the context, servers and listeners, the grace period | start, fail, signal, shut down, return | every other part |
| TCP echo connection (`tcpecho.go`'s `handleConn`) | a read buffer, a read deadline | banner, read, write, close | the client, through two socket buffers |
| Response pipeline (`server.go`'s `withLogging`, `overrides.go`, every handler of `builtinMux`, `Route.handler`) | `statusRecorder`, `bufferedRecorder`, net/http's response, the connection's write deadline | overrides, handler operations, replay, logging | net/http, the client |
| WebSocket echo (`websocket.go`) | a hijacked connection and its buffers | upgrade, banner, read a frame, echo, pong, close | the client, through two socket buffers |
| Health (`health.go`, `probes.go`) | one atomic flag | set, read | admin API, HTTP server |
| Delay and failure (`delay.go`, `failure.go`) | none | sample, decide | user route handlers |
| Envelope, negotiation, identity, inspection, auth, templates | none | format a response | handlers |
| Command line, certificates | none | run once | files, the terminal |

### Which behaviours are hard, and what makes each part correct

*Reload.* A load lists the directory and then reads the files one after the other, so an
edit in the middle gives a mixture. Wake-ups travel as event, timer, callback, token, and
two of these places drop things: one timer is shared by all events, and `fire` drops its
token when the slot is taken. Several loaders run at the same time without a lock. It is
correct if a failed load never reaches the served table, if no edit the loop was told of
is forgotten, if the table at rest is the directory, if every load has of each file
what it held at some moment of the load, and if nothing goes back to older contents.

*Route table.* Entries are replaced in place in a list whose positions are remembered in
a map (`fromUser`), and "overlaps" is not transitive: a route for any method overlaps
routes that do not overlap each other. It is correct if `routes.d` wins over presets,
later files over earlier ones, a slot has one route, and protected paths stay with the
built-ins.

*Capture.* Several requests add, evict and read concurrently, and a body is read ahead of
its handler. It is correct if a reader sees the newest entries in order as of one instant,
if a request is in the log before its client has the answer, and if the handler behind
still gets the whole body.

*Lifecycle.* Any part may fail at any moment, also before the select and during the
shutdown; a signal may arrive before a server's goroutine has bound its port; two servers
share one grace period. It is correct if no part that was at work stops without notice, if
a clean return left no request behind, and if the process ends.

*TCP echo.* Reads and writes are partial, buffers are bounded, only reads have a deadline.
It is correct if bytes come back in order and complete, and if a silent client is
disconnected.

*Response.* Wrappers around the ResponseWriter record, replace, replay and log, while the
client may go away. It is correct if a complete response carries the whole body, if the log
shows the status that was sent, if streamed bytes arrive as they are written, and if a
client that left frees its handler.

*WebSocket.* A frame arrives in parts and may be refused after any of them; fragments of a
message have control frames between them; nothing has a deadline after the hijack. It is
correct if every frame is answered once, in order and as it came, if what it writes keeps
the rules it enforces on its peer, if close is the last thing it says, and if a client that
left frees the goroutine.

`PROJECT.json` lists 39 hazards with their lines and the property that covers each, or the
reason none does.

## 2. The modules

Each component has a module; `MC<Module>` extends it for TLC; `<Module>_proofs` holds its
theorems. Definitions named `X_Something` before an action `X` are deliberate mutations
of `X`; no specification uses them. For every property there is one that breaks it.

| Module | Models | State, and how it corresponds |
|---|---|---|
| `RouteReload` | reload and watch | `disk` the directory, `userRoutes` the atomic pointer, `pc/todo/got/failed` one load of the directory for each loader (`Main`, `Watcher`, handlers), `events/timer/firing/debounced` fsnotify's channel, the `time.AfterFunc` timer, running callbacks, the one-slot channel; `began/held/noticed/floor` are history (`held`: what each file has held since a load listed the directory) |
| `ServedRoutes` | what reloading promises: the table is swapped as a whole, for one that loads and has of each file what it held at some moment since its load was asked for, so that no earlier edit is missed | abstract specification |
| `RouteTable` | `compile`'s path check, `Resolve`, `BuildMux`, `compose` | `ordered`, `fromUser` are the variables of `Resolve`; each iteration of its loops is an action; `mux` what is registered |
| `CaptureLog` | what capture promises: a log of which readers see the newest `max` entries | abstract specification |
| `CaptureBuffer` | `Middleware`, `Buffer`, the two admin handlers | `mu`, `entries`; a body is split in what was read ahead (`peek`) and what is left in the original `r.Body` (`body`); the append and the eviction of `Add` are separate steps, so that the mutex matters |
| `Service` | what the process promises: servers that open once and retire for good, an end without error that was asked for and cuts no request short | abstract specification |
| `Lifecycle` | `runServeCtx` and its goroutines | `main` the line it is at, `go` the goroutines, `errCh`, `cancelled` the context, `grace` the shutdown context, `port/inShutdown/req` what it sees of net/http |
| `TcpEcho` | one connection of `handleConn` | `conn` the line, `buf` what is left to write, `in/out` the socket buffers, `deadline` the read deadline |
| `WebSocket` | `handleWS` from the upgrade to the close, `readWSFrame`, `writeWSFrame` | `conn` the line of `handleWS`, `sent/part/read` the client's frames, how much of the last one has arrived and how many were read, `replies/flushed/received` the server's frames on their way |
| `Response` | one request through `withLogging`, `withOverrides` and a handler | a handler is the sequence of its operations (`head`, `write`, `flush`, `wait`, `poll`, `read`, `hijack`); `w` is net/http's response, `rec` the `bufferedRecorder`, `status` the `statusRecorder`, `expired` the write deadline |

Composition. Three components instantiate an abstract specification
(`Promise == INSTANCE ... WITH ...`) that they implement, `KeepsPromise`, checked as a
property and proved: `CaptureBuffer` implements `CaptureLog`, `RouteReload` implements
`ServedRoutes` (a loader is busy while it reads and builds; `Store` is the swap),
`Lifecycle` implements `Service` (a server accepts while it serves on an open port, and is
retired by its `Shutdown` or by its own failure). `RouteReload` composes loaders, watcher, timer, kernel and API around the pointer;
what one load computes from the files is the subject of `RouteTable`, of which
`RouteReload` keeps only the three outcomes that matter to it: loads, conflicts with
another file in the mux, or fails. `Lifecycle` composes the parts as goroutines and keeps
of each only whether it works, fails or is done. `Response` ends where `handleWS` hijacks
the connection, and `WebSocket` begins there.

### Abstractions

* *Contents.* A route file's contents are the number of the edit that wrote it and the
  outcome of loading it. Bodies are lengths, responses sequences of pieces, WebSocket frames
  their headers. A path pattern
  is the set of request paths it matches together with its normal form.
* *A route file is read in one step, with the `body_file` it names.* A torn read, or one of
  which the two halves fall around an edit, would be one more content (usually `bad`, or a
  mixture) followed by the writer's next event. `ReadErrors` says whether `ReadDir` and
  `ReadFile` may fail on what is there.
* *`GET /admin/routes`* reads the files as a load does and changes nothing: no action.
* *net/http, fsnotify and the kernel* are external and modelled by what the code can see
  of them: `ServeMux` precedence and conflicts, `Server.Shutdown`, `ResponseWriter`
  (first final status counts, declared length limits the body, informational statuses
  are not final), a queue of events, socket buffers.
* *Left out inside modelled parts:* an overflow of fsnotify's queue (arrives as an error
  that the loop only logs), replacement of the watched directory, the `Connection: close`
  override, a `Content-Length` or `Content-Encoding` set in a route file, the redirects and
  405 answers that `ServeMux` itself gives behind the wrappers, a client that has closed only
  its sending side (net/http reports it as gone, though it still reads),
  the kernel's TCP timeouts, YAML and template parsing, hijacked connections in the
  shutdown, HEAD requests and HTTP/2.

## 3. The runs

Every bound is a constant of the `.cfg`. Deadlock checking is off where the system may
really stop: the process returned, a connection is closed, a request is over, nobody
edits or calls any more, a table is loaded. In `capture` it is on: readers and clearers
may always call again, so a deadlock would be a mutex nobody releases.

| Run | Instance | Checks | Shows |
|---|---|---|---|
| `reload_watch` | 2 files, 3 edits of files or payloads, watch loop alone; 747,562 states | `TypeOK` `NoLostWakeup` `QuietMeansFresh` `NoRollback` `Converges` | no edit the loop was told of is lost; at rest the table is the directory; contents never go back |
| `reload_concurrent` | 2 files, 2 edits, two symmetric reload handlers, reads that may fail; 1,343,990 states | `TableClean` `KeepsPromise` | a load that failed or conflicts never reaches the served table; what does has of each file what it held at some moment since its load listed the directory |
| `capture` | 3 requests, a reader, a clearer, capacity 2, limit 1 byte, bodies up to 3; 947,200 states | `TypeOK` `NewestKept` `ServedIsLogged` `BodyPreserved` `KeepsPromise` | the buffer implements the log; bodies arrive whole |
| `routes` | all lists of up to 3 user routes and 2 preset routes over 4 patterns, 2 methods or any; 209,312 states | `TypeOK` `UserRouteSurvives` `PresetYields` `OneRoutePerSlot` | precedence, and one route for each slot |
| `lifecycle` | all four parts, one request to each server, failures and a signal at any moment; 124,932 states | `TypeOK` `NoSilentStop` `GracefulReturn` `AnswersFailure` `KeepsPromise` | no silent stop, a graceful end that a signal asked for |
| `tcp_echo` | reads up to 2 bytes, socket buffers of 3, 6 bytes, a banner; 3,233 states | `TypeOK` `EchoesInOrder` `ClosedForReason` `QuietClientIsClosed` | a faithful echo; a silent client is disconnected |
| `websocket` | up to 3 frames of 12 kinds in parts, a socket buffer of 2 frames; 324,646 states | `TypeOK` `EchoesVerbatim` `FragmentsReassemble` `CloseIsLast` `RepliesWellFormed` `ClosedForReason` `DepartedIsFreed` | a faithful echo, an orderly close, no goroutine left behind |
| `response` | every handler, up to 3 pieces, every combination of overrides, with and without `--quiet`, a client that leaves and a write deadline that passes at any moment; 624,756 states | `TypeOK` `WholeBody` `Decodable` `LogTellsStatus` `TricklesWhenQuiet` `DisconnectFrees` | whole bodies under their encoding, true log, freed handlers |

Four runs show a disagreement between code and documentation; TLC's trace is the
evidence. They are listed under "findings":

| Run | Property | What happens |
|---|---|---|
| `reload_race` | `NoRollback` | `reload` (`serve.go:88`) holds no lock. A `POST /admin/routes/reload` reads a file, the watch loop reads its newer contents, stores them and is done, and the POST stores the older contents last. No wake-up is pending, so they stay until the next edit or reload. (In the opposite order, an edit that the watch loop's load missed has its event pending: `NoLostWakeup`) |
| `routes_later` | `LaterFilesWin` | `Resolve` stops at the first overlap: `ANY /a` after `GET /a` and `POST /a` replaces only `GET /a` |
| `routes_protected` | `ProtectedNeverShadowed` | `IsProtectedPath` compares the declared pattern only: `/{x}` is accepted and answers `/healthz` |
| `response_flush` | `Trickles` | `statusRecorder` has no `Flush`, so with the access log on (the default) `/drip` and `/stream-bytes` are never flushed |

### Why the bounds are enough

* `reload_watch`: with three edits one can precede a reload, one fall into the middle of it
  and one follow; with two files a load can be cut between them. The slot of `debounced`
  is filled twice, and the timer rearmed while its callback runs.
* `reload_concurrent`: two files are needed for a conflict or for an error in the second;
  two handlers for a swap between another's reads and its own. Two edits of one file can lie
  on either side of a load's listing.
* `capture`: three requests overflow a buffer of two while another one waits for the lock;
  lengths 0 to 3 around a limit of 1 are below, at, one above and beyond it.
* `routes`: three routes are the fewest for a non-transitive overlap (two specific
  methods and any), two presets for one that replaces the other; the patterns include an
  equal normal form (`/{x}`, `/{x...}`), a literal inside a parameter and a protected path. The
  two runs about answers have two more that cross (`/b/{x}`, `/{x}/c`) and one preset.
* `lifecycle`: one request for each server suffices, since `Shutdown` only asks whether
  there is any; four goroutines against three slots of `errCh`.
* `tcp_echo`: six bytes fill both socket buffers of three, and reads of two do not divide
  three, so reads and writes are partial in every way.
* `websocket`: three frames are a fragment, a control frame and the rest of the message;
  with the banner they overflow a socket buffer of two. The kinds are one for each branch of
  the switch and each rule, with lengths at 125, 126, 65535, 65536, the limit and one above.
* `response`: three pieces give a first, a middle and a last one; statuses are one
  below the valid range, one informational, one without a body, one ordinary.

### Fairness, and why the code justifies it

Weak fairness is assumed only of steps that the Go runtime or the code itself must take:

* `RouteReload`: loads, the watch loop's cases, handlers that return, and the debounce
  timer. None for edits, API calls or the cancellation of the context. When the loop's
  `select` has several ready cases Go picks at random; one weak fairness of the whole
  loop (`WatchStep`) suffices, as every case makes progress.
* `Lifecycle`: the main goroutine, the goroutines' sends and starts, the grace period's
  timer. None for signals, failures, requests or the end of a handler: it may run
  for ever, and the process still returns.
* `TcpEcho`: the connection's goroutine and the passing of the idle timeout. None for the
  client.
* `WebSocket`: the connection's goroutine. There is no timer, and none for the client.
* `Response`: the handler's goroutine and net/http noticing a closed connection. None for
  the timers of a delay: a delay may be longer than anyone waits, which is the point of
  `DisconnectFrees`.

### Preconditions stated in properties

* `QuietMeansFresh` and `Converges` speak of the case that the last edit is one the loop
  was told of. An edit of a `body_file` payload raises no route file event, and edits
  before `watcher.Add` (`watch.go:35`, in a goroutine started after the load of
  `serve.go:60`) none at all. Both are modelled (`EditBody`, `EditRoute` before `AddDir`):
  such an edit stays unread until something else changes. Their run has `ReadErrors = FALSE`:
  a reload of the watch loop that fails is logged and not tried again (`watch.go:69`), so after
  a read error that is gone a moment later the table stays behind until the next edit.
* `NoSilentStop` speaks of parts that were at work. A watch goroutine that finds no directory
  (`watch.go:24`, `noDir`) returns nil, and `serve.go` is told nothing: only the log says so.
* `OneRoutePerSlot` holds when of each path all routes name a method or none does; without
  this the run `routes_later` shows what happens.
* `QuietClientIsClosed` holds for a client with no more on the way than its socket
  buffer takes; beyond it a write without deadline waits as long as the client does.
* `DisconnectFrees` needs the request's body to have been read, as net/http only then
  watches the connection: a `POST` with a body to `/delay` or `/drip`, whose handlers never
  read it, waits to the end of its delay. `drip.go:15` ("a client disconnect frees resources
  immediately") and `PLAN.md:210` promise more.
* `LogTellsStatus` excludes an informational status, which net/http does not count as
  the response's status while `statusRecorder` does, and a hijacked connection, whose 101
  does not pass through the `statusRecorder`: it is logged as 200.
* `DepartedIsFreed` holds for a client that resets the connection, or finishes with no more
  to come back than its socket buffer takes. One that stalls keeps its goroutine.
* `TricklesWhenQuiet` and `WholeBody` speak of a write deadline that has not passed.

### Met while modelling, without a claim to check them against

* `/delay` and other handlers that wait beyond `WriteTimeout` (30 s, `server.go:22`) send
  nothing, and the access log still shows their status.
* `_abort` behind the access log: `overrides.go:60` finds no Flusher for the reason
  `response_flush` shows, so the partial response is dropped with the connection.
* A body that `?_body` replaces is sent with the `Content-Encoding` of the recorded response,
  which nothing removes (`overrides.go:81`): the override of `/gzip` reaches the client as
  gzip that is not gzip. `Decodable` excludes it.
* A WebSocket is closed with the client's later frames unread, for which TCP may send a reset
  that overtakes the close frame. The model ends at the server's socket buffer.

## 4. The proofs

Proved for every value of the constants that the modules' assumptions allow. The
assumptions are only typing and distinctness (`ConstantsAssumption`,
`CaptureAssumption`, `TableAssumption`, `LifecycleAssumption`, `EchoAssumption`,
`WebSocketAssumption`, `ResponseAssumption`), and that the built-in patterns do not conflict,
without which no program starts (`BuiltinsAssumption`). TLC evaluates them on every run. Each theorem follows the same argument: an inductive
invariant, one step for each action, and a last step by temporal logic.

**`RouteReload_proofs`**
* `TypeCorrect`: `Spec => []TypeOK`.
* `WakeupKept`: `Spec => []NoLostWakeup`. The point is that a token is only dropped when
  the slot holds another one, and a token is only consumed by a reload that lists the
  directory at that moment, when `began[Watcher]` becomes `edits`. It rests on
  `OrderInv` (only `Main` loads before the program serves; nothing is noticed before the
  directory is watched).
* `TableStaysClean`: `Spec => []TableClean`, any number of concurrent reloads. `CleanInv`
  adds what a load that has met no error has read so far, and that only such a load
  gets to store.
* `ReloadImplements`: `Spec => KeepsPromise`, the refinement of `ServedRoutes`, for any
  number of concurrent loads. `ReadInv` says that while a load is at work `held` has what
  each file holds now, and what a load without error has read of it; with `CleanInv` it makes
  every `Store` a `Swap` of the abstract specification. That is what concurrent reloads do keep;
  that the newest load wins, they do not (`reload_race`).
* `QuietIsFresh` and `NoRollbackAlone` assume `ReloadCalls = {}`, which is necessary for
  the second (`reload_race`); the first also that no read fails (`ReadErrors = FALSE`). `FreshInv` compares a load with the directory only while
  the directory is as old as the load's listing (`Settled`): then what was read is what
  is there. `MonotonicInv` says that what a load has read is no older than the table it
  will replace.

**`CaptureBuffer_proofs`**
* `TypeCorrect`, `NewestAlwaysKept`, `ImplementsLog` (`Spec => KeepsPromise`, the
  refinement). `BufferInv`: the mutex is exclusive, and inside an `Add` the buffer is the
  kept part of the log plus one entry. `LastNAppend` is the lemma about sequences: to keep
  the newest n and append is to append and keep the newest n.
* `BodyIsPreserved`: `BodyInv` says that what was read ahead and what is left in the
  original reader add up to the body. `ServedAreLogged` from `LoggedInv`.

**`RouteTable_proofs`**
* `TypeCorrect`; `UserRouteKept`, by following where a route goes: replaced only by
  a later overlapping one, never by a preset; `PresetsYield` from `UserFirst` (before the
  first preset every position is a user's, and positions of users come first);
  `SlotsAreUnique` from `AllDeclared`. `LoopFindsOverlap` (a least overlapping position
  exists if any does) rests on well-foundedness of `<` on the naturals.

**`Lifecycle_proofs`**
* `TypeCorrect`, `ReturnIsGraceful`, `StopsAreNoticed`. `Stage`
  relates the line of `main` to what was started and shut down; `ReturnIsGraceful` needs
  that after a server's `Shutdown` no request can begin on it, so requests found finished
  stay finished.
* `ServiceIsImplemented`: `Spec => KeepsPromise`, the refinement of `Service`. `AskedInv`
  says that while the process is alive nothing but a signal cancels its context, and that the
  grace period runs only after the select. A failure that cancelled the context, as an
  `errgroup` would, breaks it (the mutant `SendError_Cancels`).

**`TcpEcho_proofs`**
* `TypeCorrect`, `EchoIsFaithful`: `received \o out \o buf \o in` is always the banner and
  the bytes sent; every step moves a prefix across one of the `\o`. `ClosesForReason` needs
  that nothing is left to write while the server reads.

**`WebSocket_proofs`**
* `TypeCorrect`, `WritesWellFormed`, `EchoIsFaithful`, `ClosesLast`, `ClosesForReason`, for
  frames of any size and any number of them. `TypeInv` adds which replies are in the socket
  buffer at each line; `Ordered`, `Faithful` and `Complete` are the parts of
  `EchoesVerbatim`; `ReadIs` and `BannerIs` say what one turn of the loop appends.
* `FragmentsComeBack`: `Spec => []FragmentsReassemble`. That a frame continues a message is
  stated by the nearest data frame before it, not by a subsequence, so that it can be carried
  from `sent` to `replies`: `DataAnswered` maps data frames to their answers and back in
  order, `ContinuesAlike` concludes that they continue alike; `BannerFirst` puts
  the banner, a whole message, before them.

**`Response_proofs`**
* `TypeCorrect` needs what every handler looks like (`HandlerShape`: waits and reads, one
  status, then the rest), proved from the definitions of all of them for any number of
  pieces, and `Untouched`: nothing is sent of a response that is still recorded.
* `LogIsRight`: `Spec => []LogTellsStatus`. `Fresh` says that until the status is written
  nobody has been told one, `Agree` that afterwards the `statusRecorder` and net/http have
  the same.
* `PaceIsKept`: `Spec => []TricklesWhenQuiet`. `Paced` says of every handler that a wait after
  a write comes right after a flush, `Sent` that what was written has been sent or will be
  before the next wait.
* `EncodingIsTold`: `Spec => []Decodable`. `HeadTells` says that once the handler's header is
  written the response it went to, recorded or not, declares the handler's encoding.
* `BodyIsWhole`: `Spec => []WholeBody`. The expected body is stated by the number of pieces a
  handler writes (`PieceCount`, a cardinality), and the counting lemmas say what one operation,
  a tail or a concatenation adds to it. `BodyInv` says at each line how many pieces are still
  to be written, recorded or sent (`Begun`, `Running`, `Recorded`, `Undone`), and that a
  declared length is that of the body that goes with it (`RecordHeads`, `DeclaredLength`).
  TLC checked `BodyInv` on the instance of the run `response` before it was proved.

### Only model-checked

* All liveness (`Converges`, `AnswersFailure`, `QuietClientIsClosed`, `DepartedIsFreed`,
  `DisconnectFrees`):
  temporal logic with fairness and `ENABLED` is out of the prover's reach.
* Every invariant and every refinement that a passing run checks is also stated by a theorem;
  `QuietMeansFresh` and `NoRollback` with the hypotheses `ReloadCalls = {}` and, the first,
  `ReadErrors = FALSE`, under which their run checks them.
* Nothing here is recursive; what a recursion computes for all inputs would need an
  induction theorem with an operator parameter, which the installed provers cannot
  instantiate.

## 5. Not modelled, and why

* *Health*: one atomic flag, two setters, two readers. The probes are handlers of `Response`.
* *Delay and failure sampling*: arithmetic and random numbers on one configured value.
  `Response` has the wait and the failure status.
* *Envelope, negotiation, identity, inspection, auth, cookies, templates*: `Response` has
  what their handlers read and write, in which order and with which status; the rest is
  stateless formatting, and properties of it would be about text.
* *Parts of the response pipeline*: HTTP/2 and HEAD (other ResponseWriters), `Connection:
  close`, headers other than the length and the encoding, a slow request body (`ReadTimeout`).
* *Command line, `init`, `routes`, `validate`, certificates*: run once, sequentially.
  One difference met while reading: `validate.go:21` builds a mux from lists that are not
  resolved, so it refuses overlaps that `serve` resolves.
* *`sync.Pool` in `encoding.go`*: one goroutine gets, writes and puts; the pool is external.

## 6. Plan

Done, in this order: `RouteReload` (the part with the most concurrency), `CaptureLog` and
`CaptureBuffer`, `RouteTable`, `Lifecycle`, `TcpEcho`, `Response`, `WebSocket`, then the
abstract specifications `ServedRoutes` and `Service`, with the theorems above.

Next, models:
1. `Lifecycle`: hijacked and raw TCP connections, which outlive the shutdown until the
   process ends.
2. `Response`: a user's own `Content-Length` and `Content-Encoding`, HEAD.
3. `RouteReload` over `RouteTable`: the three outcomes of a load derived from declared routes.

Next, proofs: those that the models above call for, and an abstract echo that both
`TcpEcho` and `WebSocket` implement.

## 7. How to run

    tlc -workers 2 -config RouteReload_watch.cfg MCRouteReload
    tlapm RouteReload_proofs.tla

`PROJECT.json` names module and configuration of every run. The longest,
`reload_concurrent`, takes about a minute and a half, `reload_watch` and `response` about
forty-five seconds, the others less than half a minute.
