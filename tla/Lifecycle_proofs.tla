---- MODULE Lifecycle_proofs ----
(***************************************************************************)
(* Proofs about Lifecycle, for any requests, any configuration and any     *)
(* capacity of the error channel.                                          *)
(***************************************************************************)
EXTENDS Lifecycle, SequenceTheorems, TLAPS

\* A request belongs to one server.
LEMMA RequestHasServer ==
    /\ Requests = RequestsOf("http") \cup RequestsOf("admin")
    /\ \A s \in Servers : RequestsOf(s) \subseteq Requests
    /\ \A s, t \in Servers : s # t => RequestsOf(s) \cap RequestsOf(t) = {}
BY LifecycleAssumption DEF Requests, RequestsOf, Servers

\* The variables keep their types, and errCh its capacity (serve.go).
THEOREM TypeCorrect == Spec => []TypeOK
<1>1. Init => TypeOK
  <2> SUFFICES ASSUME Init PROVE TypeOK
    OBVIOUS
  <2>1. errCh \in Seq(Goroutines) /\ Len(errCh) <= ErrChCap
    BY LifecycleAssumption, EmptySeq DEF Init
  <2> QED BY <2>1 DEF Init, TypeOK
<1>2. TypeOK /\ [Next]_vars => TypeOK'
  <2> SUFFICES ASSUME TypeOK, [Next]_vars PROVE TypeOK'
    OBVIOUS
  <2> USE DEF TypeOK
  <2>1. ASSUME MainStep PROVE TypeOK'
    <3>1. ASSUME SelectError PROVE TypeOK'
      <4>1. errCh' \in Seq(Goroutines) /\ Len(errCh') <= ErrChCap
        BY <3>1, LifecycleAssumption, HeadTailProperties, LenProperties DEF SelectError
      <4> QED BY <3>1, <4>1 DEF SelectError, ReturnError
    <3>2. ASSUME NEW s \in Servers, NEW at, NEW next \in {"waitHttp", "waitAdmin"},
                 CloseServer(s, at, next)
          PROVE  TypeOK'
      BY <3>2 DEF CloseServer, Servers
    <3>3. CASE Prepare("routes", "cert") \/ Prepare("cert", "http")
      BY <3>3 DEF Prepare, ReturnError
    <3>4. CASE \/ Spawn("http", TRUE, "admin") \/ Spawn("admin", TRUE, "watch")
               \/ Spawn("watch", Watch, "tcp")
      BY <3>4 DEF Spawn
    <3>5. CASE ListenTcp
      BY <3>5 DEF ListenTcp, ReturnError
    <3>6. CASE SelectDone \/ CloseTcp
      BY <3>6 DEF SelectDone, CloseTcp
    <3>7. CASE Drain("http", "waitHttp", "shutAdmin") \/ Drain("admin", "waitAdmin", "closeTcp")
      BY <3>7 DEF Drain
    <3> QED BY <2>1, <3>1, <3>2, <3>3, <3>4, <3>5, <3>6, <3>7 DEF MainStep, Servers
  <2>2. ASSUME NEW g \in Goroutines, GoStep(g) PROVE TypeOK'
    <3>1. CASE SendError(g)
      <4>1. errCh' \in Seq(Goroutines) /\ Len(errCh') <= ErrChCap
        BY <3>1, LifecycleAssumption, AppendProperties, LenProperties DEF SendError
      <4> QED BY <3>1, <4>1 DEF SendError
    <3>2. CASE g \in Servers /\ Listen(g)
      BY <3>2 DEF Listen
    <3>3. CASE g \in Servers /\ Register(g)
      BY <3>3 DEF Register
    <3>4. CASE g \in Servers /\ ServeEnds(g)
      BY <3>4 DEF ServeEnds
    <3>5. CASE StartWatch \/ StopWatch
      BY <3>5 DEF StartWatch, StopWatch
    <3>6. CASE CloseOnCancel \/ TcpAcceptFails
      BY <3>6 DEF CloseOnCancel, TcpAcceptFails
    <3> QED BY <2>2, <3>1, <3>2, <3>3, <3>4, <3>5, <3>6 DEF GoStep
  <2>3. CASE Signal \/ GraceOver
    BY <2>3 DEF Signal, GraceOver
  <2>4. ASSUME NEW s \in Servers, NEW r \in RequestsOf(s), Begin(s, r) PROVE TypeOK'
    BY <2>4 DEF Begin
  <2>5. ASSUME NEW r \in Requests, End(r) PROVE TypeOK'
    BY <2>5 DEF End
  <2>6. CASE UNCHANGED vars
    BY <2>6 DEF vars
  <2> QED BY <2>1, <2>2, <2>3, <2>4, <2>5, <2>6 DEF Next
<1> QED BY <1>1, <1>2, PTL DEF Spec

-----------------------------------------------------------------------------

\* The stages of the start and of the shutdown: which goroutines run, which
\* ports they hold, which servers were closed and which were waited for.
Drained(s) == grace = "over" \/ \A r \in RequestsOf(s) : req[r] # "inflight"
Stage ==
    /\ result # "none" => main = "returned"
    /\ inShutdown # {} => cancelled
    /\ go["tcp"] = "serving" /\ ~cancelled => port["tcp"]
    /\ main \in {"routes", "cert", "http"} => go["http"] = "off"
    /\ main \in {"routes", "cert", "http", "admin"} => go["admin"] = "off"
    /\ \A s \in Servers : port[s] => go[s] \in {"bound", "serving"}
    /\ main \in {"shutHttp", "waitHttp", "shutAdmin", "waitAdmin", "closeTcp"} => cancelled
    /\ main \in {"waitHttp", "shutAdmin", "waitAdmin", "closeTcp"} \/ result = "nil" =>
         "http" \in inShutdown
    /\ main \in {"waitAdmin", "closeTcp"} \/ result = "nil" => "admin" \in inShutdown
    /\ main \in {"shutAdmin", "waitAdmin", "closeTcp"} \/ result = "nil" => Drained("http")
    /\ main = "closeTcp" \/ result = "nil" => Drained("admin")

\* A server that was shut down does not listen again: the only port that can
\* still be open is one whose goroutine is about to close it.
ShutdownIsFinal ==
    \A s \in inShutdown : port[s] => go[s] = "bound"

ShutdownInv == Stage /\ ShutdownIsFinal

LEMMA ShutdownInvariant == Spec => []ShutdownInv
<1>1. Init => ShutdownInv
  BY DEF Init, ShutdownInv, Stage, ShutdownIsFinal, Servers, Goroutines
<1>2. TypeOK /\ ShutdownInv /\ [Next]_vars => ShutdownInv'
  <2> SUFFICES ASSUME TypeOK, ShutdownInv, [Next]_vars PROVE ShutdownInv'
    OBVIOUS
  <2> USE DEF ShutdownInv
  <2>1. ASSUME MainStep PROVE ShutdownInv'
    <3>1. CASE SelectError
      <4>1. Stage'
        BY <3>1 DEF SelectError, ReturnError, TypeOK, Stage, Drained, Goroutines, Servers
      <4>2. ShutdownIsFinal'
        BY <3>1 DEF SelectError, ReturnError, TypeOK, Stage, ShutdownIsFinal, Goroutines, Servers
      <4> QED BY <4>1, <4>2
    <3>2. CASE CloseServer("http", "shutHttp", "waitHttp")
      <4>1. Stage'
        BY <3>2 DEF CloseServer, Servers, TypeOK, Stage, Drained, Goroutines
      <4>2. ShutdownIsFinal'
        BY <3>2 DEF CloseServer, Servers, TypeOK, Stage, ShutdownIsFinal, Goroutines
      <4> QED BY <4>1, <4>2
    <3>3. CASE CloseServer("admin", "shutAdmin", "waitAdmin")
      <4>1. Stage'
        BY <3>3 DEF CloseServer, Servers, TypeOK, Stage, Drained, Goroutines
      <4>2. ShutdownIsFinal'
        BY <3>3 DEF CloseServer, Servers, TypeOK, Stage, ShutdownIsFinal, Goroutines
      <4> QED BY <4>1, <4>2
    <3>4. CASE Prepare("routes", "cert") \/ Prepare("cert", "http")
      <4>1. Stage'
        BY <3>4 DEF Prepare, ReturnError, TypeOK, Stage, Drained, Goroutines, Servers
      <4>2. ShutdownIsFinal'
        BY <3>4 DEF Prepare, ReturnError, TypeOK, Stage, ShutdownIsFinal, Goroutines, Servers
      <4> QED BY <4>1, <4>2
    <3>5. CASE \/ Spawn("http", TRUE, "admin") \/ Spawn("admin", TRUE, "watch")
               \/ Spawn("watch", Watch, "tcp")
      <4>1. Stage'
        BY <3>5 DEF Spawn, Servers, TypeOK, Stage, Drained, Goroutines
      <4>2. ShutdownIsFinal'
        <5>1. /\ port["http"] => go["http"] # "off"
              /\ port["admin"] => go["admin"] # "off"
          BY DEF Stage, Servers
        <5>2. CASE Spawn("http", TRUE, "admin")
          BY <5>1, <5>2 DEF Spawn, Servers, TypeOK, Stage, ShutdownIsFinal, Goroutines
        <5>3. CASE Spawn("admin", TRUE, "watch")
          BY <5>1, <5>3 DEF Spawn, Servers, TypeOK, Stage, ShutdownIsFinal, Goroutines
        <5>4. CASE Spawn("watch", Watch, "tcp")
          BY <5>4 DEF Spawn, Servers, TypeOK, ShutdownIsFinal, Goroutines
        <5> QED BY <3>5, <5>2, <5>3, <5>4
      <4> QED BY <4>1, <4>2
    <3>6. CASE ListenTcp
      <4>1. Stage'
        BY <3>6 DEF ListenTcp, ReturnError, Servers, TypeOK, Stage, Drained, Goroutines
      <4>2. ShutdownIsFinal'
        BY <3>6 DEF ListenTcp, ReturnError, Servers, TypeOK, Stage, ShutdownIsFinal, Goroutines
      <4> QED BY <4>1, <4>2
    <3>7. CASE SelectDone
      <4>1. Stage'
        BY <3>7 DEF SelectDone, TypeOK, Stage, Drained, Goroutines, Servers
      <4>2. ShutdownIsFinal'
        BY <3>7 DEF SelectDone, TypeOK, Stage, ShutdownIsFinal, Goroutines, Servers
      <4> QED BY <4>1, <4>2
    <3>8. CASE CloseTcp
      <4>1. Stage'
        BY <3>8 DEF CloseTcp, Servers, TypeOK, Stage, Drained, Goroutines
      <4>2. ShutdownIsFinal'
        BY <3>8 DEF CloseTcp, Servers, TypeOK, Stage, ShutdownIsFinal, Goroutines
      <4> QED BY <4>1, <4>2
    <3>9. CASE Drain("http", "waitHttp", "shutAdmin")
      <4>1. Stage'
        BY <3>9 DEF Drain, TypeOK, Stage, Drained, Goroutines, Servers
      <4>2. ShutdownIsFinal'
        BY <3>9 DEF Drain, TypeOK, Stage, ShutdownIsFinal, Goroutines, Servers
      <4> QED BY <4>1, <4>2
    <3>10. CASE Drain("admin", "waitAdmin", "closeTcp")
      <4>1. Stage'
        BY <3>10 DEF Drain, TypeOK, Stage, Drained, Goroutines, Servers
      <4>2. ShutdownIsFinal'
        BY <3>10 DEF Drain, TypeOK, Stage, ShutdownIsFinal, Goroutines, Servers
      <4> QED BY <4>1, <4>2
    <3> QED BY <2>1, <3>1, <3>2, <3>3, <3>4, <3>5, <3>6, <3>7, <3>8, <3>9, <3>10 DEF MainStep
  <2>2. ASSUME NEW g \in Goroutines, GoStep(g) PROVE ShutdownInv'
    <3>1. CASE SendError(g)
      <4>1. Stage'
        BY <3>1 DEF SendError, Servers, TypeOK, Stage, Drained, Goroutines
      <4>2. ShutdownIsFinal'
        BY <3>1 DEF SendError, Servers, TypeOK, Stage, ShutdownIsFinal, Goroutines
      <4> QED BY <4>1, <4>2
    <3>2. CASE g \in Servers /\ Listen(g)
      <4>1. Stage'
        BY <3>2 DEF Listen, Servers, TypeOK, Stage, Drained, Goroutines
      <4>2. ShutdownIsFinal'
        BY <3>2 DEF Listen, Servers, TypeOK, Stage, ShutdownIsFinal, Goroutines
      <4> QED BY <4>1, <4>2
    <3>3. CASE g \in Servers /\ Register(g)
      <4>1. Stage'
        BY <3>3 DEF Register, Servers, TypeOK, Stage, Drained, Goroutines
      <4>2. ShutdownIsFinal'
        BY <3>3 DEF Register, Servers, TypeOK, Stage, ShutdownIsFinal, Goroutines
      <4> QED BY <4>1, <4>2
    <3>4. CASE g \in Servers /\ ServeEnds(g)
      <4>1. Stage'
        BY <3>4 DEF ServeEnds, Servers, TypeOK, Stage, Drained, Goroutines
      <4>2. ShutdownIsFinal'
        BY <3>4 DEF ServeEnds, Servers, TypeOK, Stage, ShutdownIsFinal, Goroutines
      <4> QED BY <4>1, <4>2
    <3>5. CASE StartWatch \/ StopWatch
      <4>1. Stage'
        BY <3>5 DEF StartWatch, StopWatch, Servers, TypeOK, Stage, Drained, Goroutines
      <4>2. ShutdownIsFinal'
        BY <3>5 DEF StartWatch, StopWatch, Servers, TypeOK, Stage, ShutdownIsFinal, Goroutines
      <4> QED BY <4>1, <4>2
    <3>6. CASE CloseOnCancel \/ TcpAcceptFails
      <4>1. Stage'
        BY <3>6 DEF CloseOnCancel, TcpAcceptFails, Servers, TypeOK, Stage, Drained, Goroutines
      <4>2. ShutdownIsFinal'
        BY <3>6 DEF CloseOnCancel, TcpAcceptFails, Servers, TypeOK, Stage, ShutdownIsFinal, Goroutines
      <4> QED BY <4>1, <4>2
    <3> QED BY <2>2, <3>1, <3>2, <3>3, <3>4, <3>5, <3>6 DEF GoStep
  <2>3. CASE Signal \/ GraceOver
    BY <2>3 DEF Signal, GraceOver, Stage, Drained, ShutdownIsFinal
  <2>4. ASSUME NEW s \in Servers, NEW r \in RequestsOf(s), Begin(s, r) PROVE ShutdownInv'
    <3>1. s \notin inShutdown
      BY <2>4 DEF Begin, ShutdownIsFinal
    <3>2. \A t \in Servers : t # s => \A q \in RequestsOf(t) : req'[q] = req[q]
      BY <2>4, RequestHasServer DEF Begin, TypeOK
    <3>3. /\ s = "http" => ~(main \in {"shutAdmin", "waitAdmin", "closeTcp"} \/ result = "nil")
          /\ s = "admin" => ~(main = "closeTcp" \/ result = "nil")
      BY <3>1 DEF Stage
    <3> QED BY <2>4, <3>1, <3>2, <3>3 DEF Begin, Servers, Stage, Drained, ShutdownIsFinal
  <2>5. ASSUME NEW r \in Requests, End(r) PROVE ShutdownInv'
    <3>1. \A q \in Requests : req[q] # "inflight" => req'[q] # "inflight"
      BY <2>5 DEF End, TypeOK
    <3>2. \A s \in Servers : Drained(s) => Drained(s)'
      BY <2>5, <3>1, RequestHasServer DEF End, Drained
    <3> QED BY <2>5, <3>2 DEF End, Servers, Stage, ShutdownIsFinal
  <2>6. CASE UNCHANGED vars
    BY <2>6 DEF vars, Stage, Drained, ShutdownIsFinal
  <2> QED BY <2>1, <2>2, <2>3, <2>4, <2>5, <2>6 DEF Next
<1> QED BY <1>1, <1>2, TypeCorrect, PTL DEF Spec

\* A return without an error leaves no request in flight before the end of the
\* grace period (serve.go, the shutdown).
THEOREM ReturnIsGraceful == Spec => []GracefulReturn
<1>1. ShutdownInv => GracefulReturn
  BY RequestHasServer DEF ShutdownInv, Stage, Drained, GracefulReturn
<1> QED BY <1>1, ShutdownInvariant, PTL

-----------------------------------------------------------------------------

\* What the errors on the way are after one is appended.
LEMMA ReportedAfterSend ==
    ASSUME errCh \in Seq(Goroutines), NEW g \in Goroutines, errCh' = Append(errCh, g)
    PROVE  Reported(g)' /\ \A h \in Goroutines : Reported(h) => Reported(h)'
<1>1. /\ Len(errCh) \in Nat /\ Len(errCh') = Len(errCh) + 1 /\ errCh'[Len(errCh) + 1] = g
      /\ \A i \in 1..Len(errCh) : errCh'[i] = errCh[i]
  BY AppendProperties, LenProperties
<1>2. Len(errCh) + 1 \in 1..Len(errCh') /\ 1..Len(errCh) \subseteq 1..Len(errCh')
  BY <1>1
<1> QED BY <1>1, <1>2 DEF Reported

\* No part that was at work stops without notice while nothing tells the
\* process to stop (serve.go, the goroutines and errCh).
THEOREM StopsAreNoticed == Spec => []NoSilentStop
<1>1. Init => NoSilentStop
  BY DEF Init, NoSilentStop
<1>2. TypeOK /\ ShutdownInv /\ NoSilentStop /\ [Next]_vars => NoSilentStop'
  <2> SUFFICES ASSUME TypeOK, ShutdownInv, NoSilentStop, [Next]_vars, (Alive /\ ~cancelled)',
                      NEW g \in Goroutines, go'[g] = "done"
               PROVE  Reported(g)'
    BY DEF NoSilentStop
  <2>1. Alive /\ ~cancelled /\ inShutdown = {}
    <3>1. Alive /\ ~cancelled
      BY DEF Next, MainStep, GoStep, Prepare, ReturnError, Spawn, ListenTcp, SelectDone,
             SelectError, CloseServer, Drain, CloseTcp, SendError, Listen, Register, ServeEnds,
             StartWatch, StopWatch, CloseOnCancel, TcpAcceptFails, Signal, GraceOver,
             Begin, End, Alive, vars
    <3> QED BY <3>1 DEF ShutdownInv, Stage
  <2>2. go[g] = "done" => Reported(g)
    BY <2>1 DEF NoSilentStop
  <2>3. CASE \E h \in Goroutines : SendError(h)
    <3>1. PICK h \in Goroutines : SendError(h)
      BY <2>3
    <3>2. g = h \/ go[g] = "done"
      BY <3>1 DEF SendError, TypeOK
    <3>3. errCh \in Seq(Goroutines) /\ errCh' = Append(errCh, h)
      BY <3>1 DEF SendError, TypeOK
    <3> QED BY <2>2, <3>2, <3>3, ReportedAfterSend
  <2>4. CASE MainStep
    <3>1. errCh' = errCh /\ (go'[g] = "done" => go[g] = "done")
      BY <2>1, <2>4 DEF MainStep, Prepare, ReturnError, Spawn, ListenTcp, SelectDone,
             SelectError, CloseServer, Drain, CloseTcp, Alive, TypeOK
    <3> QED BY <2>2, <3>1 DEF Reported
  <2>5. ASSUME NEW h \in Goroutines, GoStep(h), ~SendError(h) PROVE Reported(g)'
    <3>1. go["tcp"] = "serving" => port["tcp"]
      BY <2>1 DEF ShutdownInv, Stage
    <3>2. errCh' = errCh /\ go[g] = "done"
      BY <2>1, <2>5, <3>1 DEF GoStep, Listen, Register, ServeEnds, StartWatch, StopWatch,
             CloseOnCancel, TcpAcceptFails, TypeOK
    <3> QED BY <2>2, <3>2 DEF Reported
  <2>6. CASE \/ Signal \/ GraceOver \/ UNCHANGED vars
             \/ \E s \in Servers : \E r \in RequestsOf(s) : Begin(s, r)
             \/ \E r \in Requests : End(r)
    <3>1. errCh' = errCh /\ go' = go
      BY <2>6 DEF Signal, GraceOver, vars, Begin, End
    <3> QED BY <2>2, <3>1 DEF Reported
  <2> QED BY <2>3, <2>4, <2>5, <2>6 DEF Next
<1> QED BY <1>1, <1>2, TypeCorrect, ShutdownInvariant, PTL DEF Spec

-----------------------------------------------------------------------------
(* The refinement of Service.  While the process is alive only a signal      *)
(* cancels its context, which is what makes a clean end one that was asked   *)
(* for.                                                                      *)

AskedInv ==
    /\ cancelled /\ Alive => signalled
    /\ grace # "off" => signalled
    /\ main \in {"routes", "cert", "http", "admin", "watch", "tcp", "select"} => grace = "off"

LEMMA AskedInvariant == Spec => []AskedInv
<1>1. Init => AskedInv
  BY DEF Init, AskedInv
<1>2. ShutdownInv /\ AskedInv /\ [Next]_vars => AskedInv'
  <2> SUFFICES ASSUME ShutdownInv, AskedInv, [Next]_vars PROVE AskedInv'
    OBVIOUS
  <2> USE DEF AskedInv, Alive
  <2>1. CASE MainStep
    BY <2>1 DEF MainStep, Prepare, ReturnError, Spawn, ListenTcp, SelectDone, SelectError,
                CloseServer, Drain, CloseTcp
  <2>2. ASSUME NEW g \in Goroutines, GoStep(g) PROVE AskedInv'
    BY <2>2 DEF GoStep, SendError, Listen, Register, ServeEnds, StartWatch, StopWatch,
                CloseOnCancel, TcpAcceptFails
  <2>3. CASE Signal \/ GraceOver
    BY <2>3 DEF Signal, GraceOver
  <2>4. ASSUME NEW s \in Servers, NEW r \in RequestsOf(s), Begin(s, r) PROVE AskedInv'
    BY <2>4 DEF Begin
  <2>5. ASSUME NEW r \in Requests, End(r) PROVE AskedInv'
    BY <2>5 DEF End
  <2>6. CASE UNCHANGED vars
    BY <2>6 DEF vars
  <2> QED BY <2>1, <2>2, <2>3, <2>4, <2>5, <2>6 DEF Next
<1> QED BY <1>1, <1>2, ShutdownInvariant, PTL DEF Spec

\* The process implements Service (serve.go, runServeCtx): whatever fails and
\* whenever the signal comes, a server never accepts again once it is retired,
\* and an end without an error was asked for and cuts no request short.
THEOREM ServiceIsImplemented == Spec => KeepsPromise
<1> DEFINE server == [r \in Requests |-> IF r \in HttpRequests THEN "http" ELSE "admin"]
           state == IF Alive THEN "up" ELSE IF result = "nil" THEN "stopped" ELSE "failed"
           accepts == {s \in Servers : Alive /\ go[s] = "serving" /\ port[s]}
           retired == {s \in Servers : s \in inShutdown \/ go[s] \in {"sending", "done"}}
           late == grace = "over"
           svars == <<state, accepts, retired, signalled, late, req>>
<1>1. Init => Promise!Init
  BY DEF Init, Promise!Init, Alive, Servers, Goroutines
<1>2. TypeOK /\ ShutdownInv /\ AskedInv /\ [Next]_vars => [Promise!Next]_svars
  <2> SUFFICES ASSUME TypeOK, ShutdownInv, AskedInv, [Next]_vars
               PROVE  Promise!Next \/ UNCHANGED svars
    OBVIOUS
  <2>0. Servers \subseteq Goroutines
    BY DEF Servers, Goroutines
  <2>S. ASSUME UNCHANGED <<main, result, port, inShutdown, signalled, grace, req>>,
               \A s \in Servers : go'[s] = go[s] \/ (go[s] = "sending" /\ go'[s] = "done")
        PROVE UNCHANGED svars
    <3>1. accepts' = accepts /\ retired' = retired
      BY <2>S DEF Alive
    <3>2. state' = state /\ late' = late
      BY <2>S DEF Alive
    <3> QED BY <2>S, <3>1, <3>2
  <2>F. ASSUME Alive, ReturnError, UNCHANGED <<go, inShutdown, signalled, grace, req>>
        PROVE Promise!Next
    <3>1. state = "up" /\ state' = "failed" /\ accepts' = {} /\ retired' = retired /\ late' = late
      BY <2>F DEF ReturnError, Alive
    <3>2. Promise!Fail
      BY <2>F, <3>1 DEF Promise!Fail
    <3> QED BY <3>1, <3>2 DEF Promise!Next
  <2>T. ASSUME NEW s \in Servers, Alive, Alive', s \notin retired,
               s \notin accepts',
               s \in inShutdown' \/ go'[s] \in {"sending", "done"},
               \A t \in Servers \ {s} : /\ go'[t] = go[t] /\ port'[t] = port[t]
                                        /\ t \in inShutdown' <=> t \in inShutdown,
               UNCHANGED <<signalled, grace, req>>
        PROVE Promise!Next
    <3>1. state = "up" /\ state' = "up" /\ late' = late
      BY <2>T DEF Alive
    <3>2. accepts' = accepts \ {s} /\ retired' = retired \cup {s}
      <4>1. ASSUME NEW t \in Servers, t # s
            PROVE  /\ t \in accepts' <=> t \in accepts
                   /\ t \in retired' <=> t \in retired
        <5>1. /\ go'[t] = go[t] /\ port'[t] = port[t]
              /\ t \in inShutdown' <=> t \in inShutdown
          BY <2>T, <4>1
        <5>2. t \in accepts' <=> t \in accepts
          BY <2>T, <5>1
        <5>3. t \in retired' <=> t \in retired
          BY <5>1
        <5> QED BY <5>2, <5>3
      <4>2. s \in retired'
        BY <2>T
      <4> HIDE DEF accepts, retired
      <4>3. accepts \subseteq Servers /\ accepts' \subseteq Servers
            /\ retired \subseteq Servers /\ retired' \subseteq Servers
        BY DEF accepts, retired
      <4> QED BY <2>T, <4>1, <4>2, <4>3
    <3>3. Promise!Retire(s)
      BY <2>T, <3>1, <3>2 DEF Promise!Retire
    <3> QED BY <3>1, <3>3 DEF Promise!Next
  <2>1. ASSUME NEW at, NEW next \in {"cert", "http"}, Prepare(at, next), at # "returned"
        PROVE Promise!Next \/ UNCHANGED svars
    BY <2>1, <2>F DEF Prepare, Alive
  <2>2. ASSUME NEW g \in Goroutines, NEW wanted, NEW next \in {"admin", "watch", "tcp"},
               Spawn(g, wanted, next)
        PROVE UNCHANGED svars
    <3>1. Alive /\ Alive' /\ UNCHANGED <<result, port, inShutdown, signalled, grace, req>>
      BY <2>2 DEF Spawn, Alive, Goroutines, Servers
    <3>2. \A s \in Servers : go'[s] = go[s] \/ (go[s] = "off" /\ go'[s] = "started")
      BY <2>2, <2>0 DEF Spawn, TypeOK, ShutdownInv, Stage, Servers
    <3>3. accepts' = accepts /\ retired' = retired
      BY <3>1, <3>2
    <3> QED BY <3>1, <3>3
  <2>3. CASE ListenTcp
    <3>1. CASE ReturnError
      <4>1. Alive /\ UNCHANGED <<go, inShutdown, signalled, grace, req>>
        BY <2>3, <3>1 DEF ListenTcp, ReturnError, Alive
      <4> QED BY <2>F, <3>1, <4>1
    <3>2. CASE ~ReturnError
      <4>1. Alive /\ Alive' /\ UNCHANGED <<result, inShutdown, signalled, grace, req>>
        BY <2>3, <3>2 DEF ListenTcp, Alive
      <4>2. \A s \in Servers : go'[s] = go[s] /\ port'[s] = port[s]
        <5>1. \/ go' = go /\ port' = port
              \/ /\ go' = [go EXCEPT !["tcp"] = "serving"]
                 /\ port' = [port EXCEPT !["tcp"] = TRUE]
          BY <2>3, <3>2 DEF ListenTcp
        <5> QED BY <2>0, <5>1 DEF Servers, TypeOK
      <4>3. accepts' = accepts /\ retired' = retired
        BY <4>1, <4>2
      <4> QED BY <4>1, <4>3
    <3> QED BY <3>1, <3>2
  <2>4. CASE SelectDone
    <3>1. Alive /\ Alive' /\ late' = late /\ UNCHANGED <<go, port, inShutdown, signalled, req>>
      BY <2>4 DEF SelectDone, Alive, AskedInv, ShutdownInv, Stage
    <3> QED BY <3>1
  <2>5. CASE SelectError
    BY <2>5, <2>F DEF SelectError, Alive
  <2>6. ASSUME NEW s \in Servers, NEW at \in {"shutHttp", "shutAdmin"},
               NEW next \in {"waitHttp", "waitAdmin"}, CloseServer(s, at, next)
        PROVE Promise!Next \/ UNCHANGED svars
    <3>1. /\ Alive /\ Alive' /\ UNCHANGED <<result, go, signalled, grace, req>>
          /\ inShutdown' = inShutdown \cup {s}
          /\ \A t \in Servers \ {s} : port'[t] = port[t]
          /\ go[s] = "serving" => ~port'[s]
          /\ go[s] # "serving" => port' = port
      BY <2>6 DEF CloseServer, Alive, TypeOK
    <3>2. s \notin accepts'
      BY <3>1
    <3>3. CASE s \in retired
      <4>1. accepts' = accepts /\ retired' = retired
        BY <3>1, <3>3 DEF ShutdownInv, ShutdownIsFinal
      <4> QED BY <3>1, <4>1
    <3>4. CASE s \notin retired
      BY <2>T, <3>1, <3>2, <3>4
    <3> QED BY <3>3, <3>4
  <2>7. ASSUME NEW s \in Servers, NEW at \in {"waitHttp", "waitAdmin"},
               NEW next \in {"shutAdmin", "closeTcp"}, Drain(s, at, next)
        PROVE UNCHANGED svars
    BY <2>7 DEF Drain, Alive
  <2>8. CASE CloseTcp
    <3>1. /\ state = "up" /\ state' = "stopped" /\ signalled
          /\ UNCHANGED <<go, inShutdown, signalled, grace, req>>
      BY <2>8 DEF CloseTcp, Alive, AskedInv, ShutdownInv, Stage
    <3>2. Servers \subseteq inShutdown
      BY <2>8 DEF CloseTcp, ShutdownInv, Stage, Servers
    <3>3. late \/ \A r \in Requests : req[r] # "inflight"
      BY <2>8, RequestHasServer DEF CloseTcp, ShutdownInv, Stage, Drained
    <3>4. accepts = {} /\ accepts' = {} /\ retired = Servers /\ retired' = retired
      BY <2>8, <3>1, <3>2 DEF ShutdownInv, ShutdownIsFinal, CloseTcp, Alive
    <3>5. Promise!Stop
      BY <3>1, <3>3, <3>4 DEF Promise!Stop
    <3> QED BY <3>1, <3>5 DEF Promise!Next
  <2>9. ASSUME NEW g \in Goroutines, SendError(g) PROVE UNCHANGED svars
    BY <2>9, <2>S DEF SendError, TypeOK
  <2>10. ASSUME NEW s \in Servers, Listen(s) PROVE Promise!Next \/ UNCHANGED svars
    <3>1. /\ Alive /\ Alive' /\ go[s] = "started" /\ go'[s] \in {"done", "bound", "sending"}
          /\ UNCHANGED <<main, result, inShutdown, signalled, grace, req>>
          /\ \A t \in Servers \ {s} : go'[t] = go[t] /\ port'[t] = port[t]
      BY <2>0, <2>10 DEF Listen, Alive, TypeOK
    <3>2. CASE go'[s] = "sending"
      <4>1. s \notin inShutdown
        BY <2>0, <2>10, <3>2 DEF Listen, TypeOK
      <4> QED BY <2>T, <3>1, <3>2, <4>1
    <3>3. CASE go'[s] # "sending"
      <4>1. go'[s] = "done" => s \in inShutdown
        BY <2>0, <2>10 DEF Listen, TypeOK
      <4>2. accepts' = accepts /\ retired' = retired
        BY <3>1, <3>3, <4>1
      <4> QED BY <3>1, <4>2
    <3> QED BY <3>2, <3>3
  <2>11. ASSUME NEW s \in Servers, Register(s) PROVE Promise!Next \/ UNCHANGED svars
    <3>1. /\ Alive /\ Alive' /\ go[s] = "bound" /\ go'[s] \in {"serving", "done", "sending"}
          /\ UNCHANGED <<main, result, inShutdown, signalled, grace, req>>
          /\ \A t \in Servers \ {s} : go'[t] = go[t] /\ port'[t] = port[t]
      BY <2>0, <2>11 DEF Register, Alive, TypeOK
    <3>2. CASE go'[s] = "serving"
      <4>1. s \notin inShutdown /\ port' = port
        BY <2>0, <2>11, <3>2 DEF Register, TypeOK
      <4>2. s \notin accepts \cup retired /\ retired' = retired
        BY <3>1, <3>2, <4>1
      <4>3. CASE port[s]
        <5>1. accepts' = accepts \cup {s}
          BY <3>1, <3>2, <4>1, <4>3
        <5>2. Promise!Open(s) /\ state = "up"
          BY <3>1, <4>2, <5>1 DEF Promise!Open
        <5> QED BY <5>2 DEF Promise!Next
      <4>4. CASE ~port[s]
        <5>1. accepts' = accepts
          BY <3>1, <4>1, <4>4
        <5> QED BY <3>1, <4>2, <5>1
      <4> QED BY <4>3, <4>4
    <3>3. CASE go'[s] # "serving" /\ s \in inShutdown
      <4>1. accepts' = accepts /\ retired' = retired
        BY <3>1, <3>3
      <4> QED BY <3>1, <4>1
    <3>4. CASE go'[s] # "serving" /\ s \notin inShutdown
      BY <2>T, <3>1, <3>4
    <3> QED BY <3>2, <3>3, <3>4
  <2>12. ASSUME NEW s \in Servers, ServeEnds(s) PROVE Promise!Next \/ UNCHANGED svars
    <3>1. /\ Alive /\ Alive' /\ go[s] = "serving" /\ go'[s] \in {"done", "sending"}
          /\ UNCHANGED <<main, result, inShutdown, signalled, grace, req>>
          /\ \A t \in Servers \ {s} : go'[t] = go[t] /\ port'[t] = port[t]
      BY <2>0, <2>12 DEF ServeEnds, Alive, TypeOK
    <3>2. CASE s \in inShutdown
      <4>1. ~port[s]
        BY <3>1, <3>2 DEF ShutdownInv, ShutdownIsFinal
      <4>2. accepts' = accepts /\ retired' = retired
        BY <3>1, <3>2, <4>1
      <4> QED BY <3>1, <4>2
    <3>3. CASE s \notin inShutdown
      BY <2>T, <3>1, <3>3
    <3> QED BY <3>2, <3>3
  <2>13. CASE StartWatch \/ StopWatch
    <3>1. UNCHANGED <<main, result, port, inShutdown, signalled, grace, req>>
      BY <2>13 DEF StartWatch, StopWatch
    <3>2. \E v : go' = [go EXCEPT !["watch"] = v]
      BY <2>13 DEF StartWatch, StopWatch
    <3>3. \A s \in Servers : go'[s] = go[s]
      BY <2>0, <3>2 DEF Servers, TypeOK
    <3> QED BY <2>S, <3>1, <3>3
  <2>14. CASE CloseOnCancel \/ TcpAcceptFails
    <3>1. UNCHANGED <<main, result, inShutdown, signalled, grace, req>>
      BY <2>14 DEF CloseOnCancel, TcpAcceptFails
    <3>2. \A s \in Servers : go'[s] = go[s] /\ port'[s] = port[s]
      <4>1. \/ go' = go /\ port' = [port EXCEPT !["tcp"] = FALSE]
            \/ port' = port /\ \E v : go' = [go EXCEPT !["tcp"] = v]
        BY <2>14 DEF CloseOnCancel, TcpAcceptFails
      <4> QED BY <2>0, <4>1 DEF Servers, TypeOK
    <3>3. accepts' = accepts /\ retired' = retired
      BY <3>1, <3>2 DEF Alive
    <3> QED BY <3>1, <3>3 DEF Alive
  <2>15. CASE Signal
    <3>1. /\ state = "up" /\ state' = state /\ late' = late /\ accepts' = accepts
          /\ retired' = retired /\ signalled' = TRUE /\ req' = req
      BY <2>15 DEF Signal, Alive
    <3>2. Promise!Ask
      BY <3>1 DEF Promise!Ask
    <3> QED BY <3>1, <3>2 DEF Promise!Next
  <2>16. CASE GraceOver
    <3>1. /\ state = "up" /\ state' = state /\ late' = TRUE /\ accepts' = accepts
          /\ retired' = retired /\ signalled' = signalled /\ req' = req /\ signalled
      BY <2>16 DEF GraceOver, Alive, AskedInv
    <3>2. Promise!GraceOver
      BY <3>1 DEF Promise!GraceOver
    <3> QED BY <3>1, <3>2 DEF Promise!Next
  <2>17. ASSUME NEW s \in Servers, NEW r \in RequestsOf(s), Begin(s, r) PROVE Promise!Next
    <3>1. /\ state = "up" /\ s \in accepts /\ req[r] = "none"
          /\ req' = [req EXCEPT ![r] = "inflight"]
          /\ UNCHANGED <<main, result, go, port, inShutdown, signalled, grace>>
      BY <2>17 DEF Begin, Alive
    <3>2. r \in Requests /\ server[r] = s
      BY RequestHasServer, LifecycleAssumption DEF RequestsOf, Servers
    <3>3. state' = state /\ accepts' = accepts /\ retired' = retired /\ late' = late
      BY <3>1 DEF Alive
    <3>4. Promise!Begin(r)
      BY <3>1, <3>2, <3>3 DEF Promise!Begin
    <3> QED BY <3>1, <3>2, <3>4 DEF Promise!Next
  <2>18. ASSUME NEW r \in Requests, End(r) PROVE Promise!Next
    <3>1. /\ state = "up" /\ req[r] = "inflight" /\ req' = [req EXCEPT ![r] = "done"]
          /\ UNCHANGED <<main, result, go, port, inShutdown, signalled, grace>>
      BY <2>18 DEF End, Alive
    <3>2. state' = state /\ accepts' = accepts /\ retired' = retired /\ late' = late
      BY <3>1 DEF Alive
    <3>3. Promise!End(r)
      BY <3>1, <3>2 DEF Promise!End
    <3> QED BY <3>1, <3>3 DEF Promise!Next
  <2>19. CASE UNCHANGED vars
    BY <2>19 DEF vars, Alive
  <2>20. CASE MainStep
    BY <2>1, <2>2, <2>3, <2>4, <2>5, <2>6, <2>7, <2>8, <2>20
    DEF MainStep, Servers, Goroutines
  <2>21. ASSUME NEW g \in Goroutines, GoStep(g) PROVE Promise!Next \/ UNCHANGED svars
    BY <2>9, <2>10, <2>11, <2>12, <2>13, <2>14, <2>21 DEF GoStep
  <2> QED BY <2>15, <2>16, <2>17, <2>18, <2>19, <2>20, <2>21 DEF Next
<1> QED
  BY <1>1, <1>2, TypeCorrect, ShutdownInvariant, AskedInvariant, PTL
  DEF Spec, KeepsPromise, Promise!Spec, Promise!serviceVars
====
