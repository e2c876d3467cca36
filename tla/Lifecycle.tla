---- MODULE Lifecycle ----
(***************************************************************************)
(* The life of the serving process, runServeCtx: routes are loaded, the    *)
(* HTTP server, the admin server, the watcher and the TCP listener are     *)
(* started, each in a goroutine of its own, then the main goroutine waits  *)
(* for a signal or for the first error. A signal leads to the graceful     *)
(* shutdown, an error to an immediate return; main's return ends the       *)
(* process and every goroutine with it.                                    *)
(*                                                                         *)
(* net/http's Server is external: ListenAndServe and Shutdown are modelled *)
(* by what runServeCtx can see of them.                                    *)
(***************************************************************************)
EXTENDS Integers, Sequences

CONSTANTS
    HttpRequests,  \* requests made to the HTTP server
    AdminRequests, \* requests made to the admin server
    Watch,         \* --watch
    Tcp,           \* --tcp-port is not 0
    ErrChCap       \* make(chan error, 3)

ASSUME LifecycleAssumption ==
    /\ HttpRequests \cap AdminRequests = {}
    /\ Watch \in BOOLEAN /\ Tcp \in BOOLEAN
    /\ ErrChCap \in Nat

Servers == {"http", "admin"}
Goroutines == Servers \cup {"watch", "tcp"}
Requests == HttpRequests \cup AdminRequests
RequestsOf(s) == IF s = "http" THEN HttpRequests ELSE AdminRequests

VARIABLES
    main,      \* where runServeCtx is
    result,    \* what it returned: "none", "nil" or "error"
    go,        \* what each goroutine is doing
    port,      \* the ports that are listened on
    inShutdown, \* the servers whose Shutdown was called
    errCh,     \* the buffered channel of errors
    cancelled, \* ctx.Done() is closed
    signalled, \* a signal arrived
    grace,     \* shutdownCtx: "off", "running" or "over"
    req        \* each request: "none", "inflight" from the accept on, "done"

vars == <<main, result, go, port, inShutdown, errCh, cancelled, signalled, grace, req>>

TypeOK ==
    /\ main \in {"routes", "cert", "http", "admin", "watch", "tcp", "select",
                 "shutHttp", "waitHttp", "shutAdmin", "waitAdmin", "closeTcp", "returned"}
    /\ result \in {"none", "nil", "error"}
    /\ go \in [Goroutines -> {"off", "started", "bound", "serving", "sending", "done", "noDir"}]
    /\ port \in [Servers \cup {"tcp"} -> BOOLEAN]
    /\ inShutdown \subseteq Servers
    /\ errCh \in Seq(Goroutines)
    /\ Len(errCh) <= ErrChCap
    /\ cancelled \in BOOLEAN
    /\ signalled \in BOOLEAN
    /\ grace \in {"off", "running", "over"}
    /\ req \in [Requests -> {"none", "inflight", "done"}]

Init ==
    /\ main = "routes"
    /\ result = "none"
    /\ go = [g \in Goroutines |-> "off"]
    /\ port = [s \in Servers \cup {"tcp"} |-> FALSE]
    /\ inShutdown = {}
    /\ errCh = <<>>
    /\ cancelled = FALSE
    /\ signalled = FALSE
    /\ grace = "off"
    /\ req = [r \in Requests |-> "none"]

Alive == main # "returned"

-----------------------------------------------------------------------------
(* runServeCtx, from the first load to the select *)

\* `return err`; the deferred stop() cancels ctx.
ReturnError ==
    /\ main' = "returned"
    /\ result' = "error"
    /\ cancelled' = TRUE

\* A step that can fail before anything was started: the route files, then the
\* self-signed certificate.
Prepare(at, next) ==
    /\ main = at
    /\ \/ main' = next /\ UNCHANGED <<result, cancelled>>
       \/ ReturnError
    /\ UNCHANGED <<go, port, inShutdown, errCh, signalled, grace, req>>

\* `go func() ...`, unless the goroutine is not configured.
Spawn(g, wanted, next) ==
    /\ main = g
    /\ main' = next
    /\ go' = IF wanted THEN [go EXCEPT ![g] = "started"] ELSE go
    /\ UNCHANGED <<result, port, inShutdown, errCh, cancelled, signalled, grace, req>>

\* The TCP port is bound by main itself, and a failure returns at once.
ListenTcp ==
    /\ main = "tcp"
    /\ \/ /\ ~Tcp
          /\ main' = "select"
          /\ UNCHANGED <<go, port, result, cancelled>>
       \/ /\ Tcp
          /\ main' = "select"
          /\ go' = [go EXCEPT !["tcp"] = "serving"]
          /\ port' = [port EXCEPT !["tcp"] = TRUE]
          /\ UNCHANGED <<result, cancelled>>
       \/ Tcp /\ ReturnError /\ UNCHANGED <<go, port>>
    /\ UNCHANGED <<inShutdown, errCh, signalled, grace, req>>

-----------------------------------------------------------------------------
(* The select and the shutdown *)

SelectDone ==
    /\ main = "select"
    /\ cancelled
    /\ main' = "shutHttp"
    /\ grace' = "running"
    /\ UNCHANGED <<result, go, port, inShutdown, errCh, cancelled, signalled, req>>

SelectError ==
    /\ main = "select"
    /\ errCh # <<>>
    /\ errCh' = Tail(errCh)
    /\ ReturnError
    /\ UNCHANGED <<go, port, inShutdown, signalled, grace, req>>

\* Shutdown closes the listener, if the server has registered it.
CloseServer(s, at, next) ==
    /\ main = at
    /\ main' = next
    /\ inShutdown' = inShutdown \cup {s}
    /\ port' = IF go[s] = "serving" THEN [port EXCEPT ![s] = FALSE] ELSE port
    /\ UNCHANGED <<result, go, errCh, cancelled, signalled, grace, req>>

\* Mutation of Drain: the requests are not waited for.
Drain_NoWait(s, at, next) ==
    /\ main = at
    /\ main' = next
    /\ UNCHANGED <<result, go, port, inShutdown, errCh, cancelled, signalled, grace, req>>

\* Mutation of Drain: only the requests end the wait, never the grace period.
Drain_NoDeadline(s, at, next) ==
    /\ main = at
    /\ \A r \in RequestsOf(s) : req[r] # "inflight"
    /\ main' = next
    /\ UNCHANGED <<result, go, port, inShutdown, errCh, cancelled, signalled, grace, req>>

\* Then it waits for the requests in flight, or for the end of the one grace
\* period both servers share.
Drain(s, at, next) ==
    /\ main = at
    /\ (\A r \in RequestsOf(s) : req[r] # "inflight") \/ grace = "over"
    /\ main' = next
    /\ UNCHANGED <<result, go, port, inShutdown, errCh, cancelled, signalled, grace, req>>

CloseTcp ==
    /\ main = "closeTcp"
    /\ port' = [port EXCEPT !["tcp"] = FALSE]
    /\ main' = "returned"
    /\ result' = "nil"
    /\ UNCHANGED <<go, inShutdown, errCh, cancelled, signalled, grace, req>>

MainStep ==
    \/ Prepare("routes", "cert")
    \/ Prepare("cert", "http")
    \/ Spawn("http", TRUE, "admin")
    \/ Spawn("admin", TRUE, "watch")
    \/ Spawn("watch", Watch, "tcp")
    \/ ListenTcp
    \/ SelectDone
    \/ SelectError
    \/ CloseServer("http", "shutHttp", "waitHttp")
    \/ Drain("http", "waitHttp", "shutAdmin")
    \/ CloseServer("admin", "shutAdmin", "waitAdmin")
    \/ Drain("admin", "waitAdmin", "closeTcp")
    \/ CloseTcp

-----------------------------------------------------------------------------
(* The goroutines *)

\* Mutation of SendError: the channel has no capacity limit.
SendError_Unbounded(g) ==
    /\ Alive
    /\ go[g] = "sending"
    /\ errCh' = Append(errCh, g)
    /\ go' = [go EXCEPT ![g] = "done"]
    /\ UNCHANGED <<main, result, port, inShutdown, cancelled, signalled, grace, req>>

\* Mutation of SendError: the error cancels the context, as an errgroup does.
SendError_Cancels(g) ==
    /\ Alive
    /\ go[g] = "sending"
    /\ Len(errCh) < ErrChCap
    /\ errCh' = Append(errCh, g)
    /\ go' = [go EXCEPT ![g] = "done"]
    /\ cancelled' = TRUE
    /\ UNCHANGED <<main, result, port, inShutdown, signalled, grace, req>>

\* `errCh <- err` of a goroutine that was left with an error; it blocks while
\* the channel is full.
SendError(g) ==
    /\ Alive
    /\ go[g] = "sending"
    /\ Len(errCh) < ErrChCap
    /\ errCh' = Append(errCh, g)
    /\ go' = [go EXCEPT ![g] = "done"]
    /\ UNCHANGED <<main, result, port, inShutdown, cancelled, signalled, grace, req>>

\* ListenAndServe: ErrServerClosed if Shutdown came first, else the port is
\* bound or it is not.
Listen(s) ==
    /\ Alive
    /\ go[s] = "started"
    /\ \/ /\ s \in inShutdown
          /\ go' = [go EXCEPT ![s] = "done"]
          /\ UNCHANGED port
       \/ /\ s \notin inShutdown
          /\ go' = [go EXCEPT ![s] = "bound"]
          /\ port' = [port EXCEPT ![s] = TRUE]
       \/ /\ s \notin inShutdown
          /\ go' = [go EXCEPT ![s] = "sending"]
          /\ UNCHANGED port
    /\ UNCHANGED <<main, result, inShutdown, errCh, cancelled, signalled, grace, req>>

\* Serve registers the listener, unless the server was shut down meanwhile or
\* (the HTTP server's ListenAndServeTLS) the certificate does not load; then
\* the listener is closed.
Register(s) ==
    /\ Alive
    /\ go[s] = "bound"
    /\ \/ /\ s \notin inShutdown
          /\ go' = [go EXCEPT ![s] = "serving"]
          /\ UNCHANGED port
       \/ /\ s \in inShutdown
          /\ go' = [go EXCEPT ![s] = "done"]
          /\ port' = [port EXCEPT ![s] = FALSE]
       \/ /\ s = "http"
          /\ go' = [go EXCEPT ![s] = "sending"]
          /\ port' = [port EXCEPT ![s] = FALSE]
    /\ UNCHANGED <<main, result, inShutdown, errCh, cancelled, signalled, grace, req>>

\* Accept fails: ErrServerClosed after Shutdown, which runServeCtx drops, an
\* error to send otherwise.
ServeEnds(s) ==
    /\ Alive
    /\ go[s] = "serving"
    /\ go' = [go EXCEPT ![s] = IF s \in inShutdown THEN "done" ELSE "sending"]
    /\ port' = [port EXCEPT ![s] = FALSE]
    /\ UNCHANGED <<main, result, inShutdown, errCh, cancelled, signalled, grace, req>>

\* watchRoutes: there is no routes directory and it returns nil after a warning,
\* its setup fails, or it runs until ctx is done.
StartWatch ==
    /\ Alive
    /\ go["watch"] = "started"
    /\ \E next \in {"noDir", "serving", "sending"} : go' = [go EXCEPT !["watch"] = next]
    /\ UNCHANGED <<main, result, port, inShutdown, errCh, cancelled, signalled, grace, req>>

StopWatch ==
    /\ Alive
    /\ go["watch"] = "serving"
    /\ cancelled
    /\ go' = [go EXCEPT !["watch"] = "done"]
    /\ UNCHANGED <<main, result, port, inShutdown, errCh, cancelled, signalled, grace, req>>

\* The goroutine in tcpecho's Serve that closes the listener.
CloseOnCancel ==
    /\ Alive
    /\ go["tcp"] \in {"serving", "sending", "done"}
    /\ cancelled
    /\ port["tcp"]
    /\ port' = [port EXCEPT !["tcp"] = FALSE]
    /\ UNCHANGED <<main, result, go, inShutdown, errCh, cancelled, signalled, grace, req>>

\* Mutation of TcpAcceptFails: every accept error ends Serve with nil.
TcpAcceptFails_Drops ==
    /\ Alive
    /\ go["tcp"] = "serving"
    /\ go' = [go EXCEPT !["tcp"] = "done"]
    /\ UNCHANGED <<main, result, port, inShutdown, errCh, cancelled, signalled, grace, req>>

\* Accept fails: nil once ctx is done or the listener is closed.
TcpAcceptFails ==
    /\ Alive
    /\ go["tcp"] = "serving"
    /\ go' = [go EXCEPT !["tcp"] =
                IF cancelled \/ ~port["tcp"] THEN "done" ELSE "sending"]
    /\ UNCHANGED <<main, result, port, inShutdown, errCh, cancelled, signalled, grace, req>>

GoStep(g) ==
    \/ SendError(g)
    \/ g \in Servers /\ (Listen(g) \/ Register(g))
    \/ g \in Servers /\ ServeEnds(g)
    \/ g = "watch" /\ (StartWatch \/ StopWatch)
    \/ g = "tcp" /\ (CloseOnCancel \/ TcpAcceptFails)

-----------------------------------------------------------------------------
(* The environment: signals, time, clients *)

\* A signal that comes before signal.NotifyContext kills the process as such.
Signal ==
    /\ Alive
    /\ main # "routes"
    /\ ~signalled
    /\ signalled' = TRUE
    /\ cancelled' = TRUE
    /\ UNCHANGED <<main, result, go, port, inShutdown, errCh, grace, req>>

GraceOver ==
    /\ Alive
    /\ grace = "running"
    /\ grace' = "over"
    /\ UNCHANGED <<main, result, go, port, inShutdown, errCh, cancelled, signalled, req>>

Begin(s, r) ==
    /\ Alive
    /\ go[s] = "serving" /\ port[s]
    /\ req[r] = "none"
    /\ req' = [req EXCEPT ![r] = "inflight"]
    /\ UNCHANGED <<main, result, go, port, inShutdown, errCh, cancelled, signalled, grace>>

\* A handler may take as long as it likes: no fairness.
End(r) ==
    /\ Alive
    /\ req[r] = "inflight"
    /\ req' = [req EXCEPT ![r] = "done"]
    /\ UNCHANGED <<main, result, go, port, inShutdown, errCh, cancelled, signalled, grace>>

Next ==
    \/ MainStep
    \/ \E g \in Goroutines : GoStep(g)
    \/ Signal
    \/ GraceOver
    \/ \E s \in Servers : \E r \in RequestsOf(s) : Begin(s, r)
    \/ \E r \in Requests : End(r)

Spec == Init /\ [][Next]_vars

\* The scheduler runs every goroutine, and the grace period ends. Accepting does
\* not have to fail, and signals and requests do not have to come or to end.
Fairness ==
    /\ WF_vars(MainStep)
    /\ \A g \in Goroutines : WF_vars(SendError(g))
    /\ \A s \in Servers : WF_vars(Listen(s)) /\ WF_vars(Register(s))
    /\ WF_vars(StartWatch)
    /\ WF_vars(StopWatch)
    /\ WF_vars(GraceOver)
FairSpec == Spec /\ Fairness

-----------------------------------------------------------------------------
(* Properties *)

\* No part that was at work stops without notice: as long as nothing tells the
\* process to stop, its error is on the way to the select (serve.go, the
\* goroutines and errCh; tcpecho.go, Serve).  A watcher that finds no directory
\* never gets to work; it says so in the log only (watch.go:24, "noDir").
Reported(g) == \E i \in 1..Len(errCh) : errCh[i] = g
NoSilentStop ==
    Alive /\ ~cancelled =>
      \A g \in Goroutines : go[g] = "done" => Reported(g)

\* A return without an error leaves no request in flight, on either server,
\* unless the grace period is over (serve.go, shutdownGracePeriod).
GracefulReturn ==
    result = "nil" => grace = "over" \/ \A r \in Requests : req[r] # "inflight"

\* The process is the service that Service promises: each server accepts once
\* and is retired for good, requests begin only at a server that accepts, and a
\* return without an error was asked for by a signal, retires both servers and
\* waits (serve.go, runServeCtx).
Promise == INSTANCE Service WITH
    ServerOf <- [r \in Requests |-> IF r \in HttpRequests THEN "http" ELSE "admin"],
    state <- IF Alive THEN "up" ELSE IF result = "nil" THEN "stopped" ELSE "failed",
    accepts <- {s \in Servers : Alive /\ go[s] = "serving" /\ port[s]},
    retired <- {s \in Servers : s \in inShutdown \/ go[s] \in {"sending", "done"}},
    asked <- signalled,
    late <- grace = "over"
KeepsPromise == Promise!Spec

\* A signal, or a part that fails at whatever moment, before the select or
\* during the shutdown, ends the process, however long the handlers take
\* (serve.go, errCh, the select and the grace period).
Failed == \E g \in Goroutines : go[g] = "sending" \/ Reported(g)
AnswersFailure == (Failed \/ signalled) ~> ~Alive
====
