---- MODULE Response ----
(***************************************************************************)
(* One request on its way through the handler chain of the main server:    *)
(* withLogging around withOverrides around the handler that compose chose, *)
(* all writing to net/http's ResponseWriter, while the client may go away  *)
(* and the server's WriteTimeout may pass.                                 *)
(*                                                                         *)
(* A handler is the sequence of operations it performs on its              *)
(* ResponseWriter and its request; a body is a sequence of pieces, named   *)
(* for who wrote them.  net/http's ResponseWriter is external: it is       *)
(* modelled by what the handlers see of it over HTTP/1.1, for a request    *)
(* that is not a HEAD.  The Connection: close override, which only matters *)
(* after the response, is left out.                                        *)
(***************************************************************************)
EXTENDS Integers, Sequences, FiniteSets

CONSTANTS
    Statuses,  \* the values a client may give for _status
    UserCodes, \* the failure.status of the user routes, not validated by newFailure
    None,      \* no status, no length, no override
    MaxPieces  \* bound: pieces of a handler's body

ASSUME ResponseAssumption ==
    /\ Statuses \subseteq Int
    /\ UserCodes \subseteq Int
    /\ None \notin Int
    /\ MaxPieces \in Nat

PageCodes == {200, 302, 400, 401, 404, 426, 500, 503}
Codes == Statuses \cup UserCodes \cup PageCodes \cup {100, 204}

\* What the HTTP status rules of net/http say of a code.
Valid(s) == s \in 100..999
Informational(s) == s \in 100..199 /\ s # 101
Bodiless(s) == s \in 100..199 \cup {204, 304}

-----------------------------------------------------------------------------
(* The handlers *)

Times(ops, n) == [i \in 1..n * Len(ops) |-> ops[((i - 1) % Len(ops)) + 1]]

\* What is done before the status is written, and after it.
Handler(code, length, before, after) ==
    [code |-> code, length |-> length, encoded |-> FALSE,
     ops |-> before \o <<"head">> \o after]

\* negotiate.Write, and http.Error: the status and the rendered view
Page(code) == Handler(code, None, <<>>, <<"write">>)

\* handleHeaders, handleIP, handleUserAgent
viewHandlers == {Page(200)}

\* handleBasicAuth, handleBearer
authHandlers == {Page(200), Page(401)}

\* handleCookies, and the redirects, without a body for a POST
cookieHandlers == {Page(200), Page(302), Handler(302, None, <<>>, <<>>)}

\* handleHealthz, handleReadyz
probeHandlers == {Page(200), Page(503)}

\* A parameter is rejected; no table has the route; /ws without an upgrade or
\* without a key.
errorHandlers == {Page(400), Page(404), Page(426)}

\* handleRoot, handleAnything: envelope.Build reads the request's body
envelopeHandlers == {Handler(200, None, <<"read">>, <<"write">>)}

\* handleGzip, handleDeflate: the same, compressed, with its length and a
\* Content-Encoding
encodingHandlers == {[Handler(200, 1, <<"read">>, <<"write">>) EXCEPT !.encoded = TRUE]}

\* handleStatus
statusHandlers == {Handler(c, None, <<>>, <<>>) : c \in {100, 200, 204}}

\* handleDelay: the envelope after a wait
delayHandlers == {Handler(200, None, <<"wait", "read">>, <<"write">>)}

\* handleDrip: no wait after the last byte
Drip(n) ==
    IF n = 0 THEN <<>>
    ELSE Times(<<"write", "flush", "wait">>, n - 1) \o <<"write", "flush">>
dripHandlers ==
    {Handler(c, n, d, Drip(n)) :
        c \in {100, 200, 204}, n \in 0..MaxPieces, d \in {<<>>, <<"wait">>}}

writeExactBytes(n) == Handler(200, n, <<>>, Times(<<"write">>, n))

\* handleSize, handleBytes
exactHandlers == {writeExactBytes(n) : n \in 0..MaxPieces}

\* handleFile
fileHandlers == {writeExactBytes(n) : n \in 0..MaxPieces}

\* handleStreamBytes: the request's context is looked at after every chunk
streamHandlers ==
    {Handler(200, None, <<>>, Times(<<"write", "flush", "poll">>, n)) : n \in 0..MaxPieces}

\* Route.handler: a delay, then a 401, a failure or a body file without a look
\* at the request's body, or a template that reads it and may fail.  A
\* Content-Length that the route file sets itself is left out.
userHandlers ==
    {Handler(c, None, d, <<"write">>) :
        c \in {200, 204, 401, 404} \cup UserCodes, d \in {<<>>, <<"wait">>}}
      \cup {Handler(c, None, d \o <<"read">>, <<"write">>) :
               c \in {200, 204, 500}, d \in {<<>>, <<"wait">>}}

\* handleWS for an upgrade with a key, up to the hijack of the connection
wsHandlers == {[code |-> 200, length |-> None, encoded |-> FALSE, ops |-> <<"hijack">>]}

Handlers == viewHandlers \cup authHandlers \cup cookieHandlers \cup probeHandlers
              \cup errorHandlers \cup envelopeHandlers \cup encodingHandlers
              \cup statusHandlers \cup delayHandlers \cup dripHandlers \cup exactHandlers
              \cup fileHandlers \cup streamHandlers \cup userHandlers \cup wsHandlers

Overrides == [delay: BOOLEAN, abort: BOOLEAN, status: Statuses \cup {None}, body: BOOLEAN]

VARIABLES
    quiet,  \* --quiet: no withLogging in the chain
    ov,     \* the overrides the request asks for
    upgrade, \* the request has the headers of a WebSocket upgrade
    h,      \* the handler
    pc,     \* "delay", "abort", "handler", "replay", "finish", or the end:
            \* "done", "cut" (the connection is dropped), "hijacked"
    todo,   \* operations the handler has left
    w,      \* net/http's response: status, declared length and whether an
            \* encoding is declared, body, pieces sent
    rec,    \* bufferedRecorder: status, declared length, encoded or not, body
    status, \* statusRecorder.status
    logged, \* the status in the access log
    client, \* "here" or "gone"
    ctxDone, \* the request's context is done
    unread, \* the request has a body nobody has read to its end
    expired \* the connection's write deadline, WriteTimeout, has passed

vars == <<quiet, ov, upgrade, h, pc, todo, w, rec, status, logged, client, ctxDone,
          unread, expired>>
request == <<quiet, ov, upgrade, h>>
world == <<client, ctxDone, unread, expired>>

Pieces == {"handler", "override", "partial"}
Lengths == 0..MaxPieces \cup {1, None}

TypeOK ==
    /\ quiet \in BOOLEAN
    /\ ov \in Overrides
    /\ upgrade \in BOOLEAN
    /\ h \in Handlers
    /\ pc \in {"delay", "abort", "handler", "replay", "finish", "done", "cut", "hijacked"}
    /\ todo \in Seq({"wait", "head", "write", "flush", "poll", "read", "hijack"})
    /\ w \in [status: Codes \cup {None}, length: Lengths, encoded: BOOLEAN,
              body: Seq(Pieces), sent: Nat]
    /\ w.sent <= Len(w.body)
    /\ rec \in [status: Codes, length: Lengths, encoded: BOOLEAN, body: Seq({"handler"})]
    /\ status \in Codes
    /\ logged \in Codes \cup {None}
    /\ client \in {"here", "gone"}
    /\ ctxDone \in BOOLEAN
    /\ unread \in BOOLEAN
    /\ expired \in BOOLEAN

Init ==
    /\ quiet \in BOOLEAN
    /\ ov \in Overrides
    /\ upgrade \in BOOLEAN
    /\ h \in Handlers
    /\ h \in wsHandlers => upgrade
    /\ pc = "delay"
    /\ todo = h.ops
    /\ w = [status |-> None, length |-> None, encoded |-> FALSE, body |-> <<>>, sent |-> 0]
    /\ rec = [status |-> 200, length |-> None, encoded |-> FALSE, body |-> <<>>]
    /\ status = 200
    /\ logged = None
    /\ client = "here"
    /\ ctxDone = FALSE
    /\ unread \in BOOLEAN
    /\ expired = FALSE

-----------------------------------------------------------------------------
(* net/http's ResponseWriter *)

\* WriteHeader with a valid code: the first one that is not informational counts.
Headed(r, code) ==
    IF r.status # None \/ Informational(code) THEN r ELSE [r EXCEPT !.status = code]

\* Write: after an implicit WriteHeader(200); it is an error where the status
\* has no body or the declared length is used up.
CanWrite(r) ==
    /\ ~Bodiless(Headed(r, 200).status)
    /\ r.length # None => Len(r.body) < r.length
Written(r, piece) == [Headed(r, 200) EXCEPT !.body = Append(@, piece)]
Flushed(r) == [Headed(r, 200) EXCEPT !.sent = Len(r.body)]

-----------------------------------------------------------------------------
(* withOverrides *)

\* The response of the handler is recorded, to be changed and sent later.
Buffered == (ov.status # None \/ ov.body) /\ ~upgrade

\* The ResponseWriter that withOverrides gets is net/http's, which flushes, or
\* the statusRecorder, which does not implement http.Flusher.
OuterFlushes == quiet

Over == pc \in {"done", "cut", "hijacked"}

\* The _delay override: waited for, or not asked for.
DelayOver ==
    /\ pc = "delay"
    /\ pc' = "abort"
    /\ UNCHANGED <<request, todo, w, rec, status, logged, world>>

\* The _abort override: a partial response, then panic(http.ErrAbortHandler).
Abort ==
    /\ pc = "abort"
    /\ ov.abort
    /\ w' = LET p == Written(w, "partial") IN IF OuterFlushes /\ ~expired THEN Flushed(p) ELSE p
    /\ pc' = "cut"
    /\ UNCHANGED <<request, todo, rec, status, logged, world>>

NoAbort ==
    /\ pc = "abort"
    /\ ~ov.abort
    /\ pc' = "handler"
    /\ UNCHANGED <<request, todo, w, rec, status, logged, world>>

\* What is sent of the recorded response, and what the overrides replace.
replayCode == IF ov.status # None THEN ov.status ELSE rec.status
replayBody == IF ov.body THEN <<"override">> ELSE rec.body

\* Mutation of replayLength: the handler's Content-Length stays.
replayLength_Kept == rec.length
replayLength == IF ov.body THEN 1 ELSE rec.length

\* Mutation of Copied: only the length is sent along.
Copied_LengthOnly == [w EXCEPT !.length = replayLength]

\* The recorded headers, with the length of what is sent.
Copied == [w EXCEPT !.length = replayLength, !.encoded = rec.encoded]

\* WriteHeader, which panics on an invalid status, and one Write.
Replay ==
    /\ pc = "replay"
    /\ \/ /\ ~Valid(replayCode)
          /\ pc' = "cut"
          /\ UNCHANGED <<w, status>>
       \/ /\ Valid(replayCode)
          /\ pc' = "finish"
          /\ status' = replayCode
          /\ w' = LET r == Headed(Headed(Copied, replayCode), 200)
                  IN IF Bodiless(r.status) THEN r ELSE [r EXCEPT !.body = replayBody]
    /\ UNCHANGED <<request, todo, rec, logged, world>>

-----------------------------------------------------------------------------
(* The handler's operations *)

At(op) == pc = "handler" /\ todo # <<>> /\ Head(todo) = op
Advance == todo' = Tail(todo) /\ UNCHANGED pc

\* Mutation of Returned: what was recorded is always replayed.
Returned_AlwaysReplays == todo' = <<>> /\ pc' = "replay"

\* The handler returns.
Returned == /\ todo' = <<>>
            /\ pc' = IF Buffered THEN "replay" ELSE "finish"

Return ==
    /\ pc = "handler" /\ todo = <<>>
    /\ Returned
    /\ UNCHANGED <<request, w, rec, status, logged, world>>

\* Content-Length and Content-Encoding are set, if there are any, and
\* WriteHeader called.
WriteHeader ==
    /\ At("head")
    /\ \/ /\ Buffered
          /\ rec' = [rec EXCEPT !.status = h.code, !.length = h.length, !.encoded = h.encoded]
          /\ Advance
          /\ UNCHANGED <<w, status>>
       \/ /\ ~Buffered /\ Valid(h.code)
          /\ w' = Headed([w EXCEPT !.length = h.length, !.encoded = h.encoded], h.code)
          /\ status' = h.code
          /\ Advance
          /\ UNCHANGED rec
       \/ /\ ~Buffered /\ ~Valid(h.code)
          /\ pc' = "cut"
          /\ UNCHANGED <<todo, w, rec, status>>
    /\ UNCHANGED <<request, logged, world>>

\* A failed Write ends a handler; those that ignore the error write no more.
\* It fails once the connection does, but only if it outgrows the buffer.
Write ==
    /\ At("write")
    /\ \/ /\ Buffered
          /\ rec' = [rec EXCEPT !.body = Append(@, "handler")]
          /\ Advance
          /\ UNCHANGED w
       \/ /\ ~Buffered /\ CanWrite(w)
          /\ w' = Written(w, "handler")
          /\ Advance
          /\ UNCHANGED rec
       \/ /\ ~Buffered /\ (~CanWrite(w) \/ client = "gone" \/ expired)
          /\ w' = Headed(w, 200)
          /\ Returned
          /\ UNCHANGED rec
    /\ UNCHANGED <<request, status, logged, world>>

\* Mutation of Flush: only the recorder's type is checked, never flushed.
Flush_Never ==
    /\ At("flush")
    /\ Advance
    /\ UNCHANGED <<request, w, rec, status, logged, world>>

\* `if flusher != nil`: neither recorder is an http.Flusher.  Where net/http
\* cannot write it cancels the request's context.
Flush ==
    /\ At("flush")
    /\ \/ (~OuterFlushes \/ Buffered) /\ UNCHANGED <<w, ctxDone>>
       \/ /\ OuterFlushes /\ ~Buffered /\ ~expired
          /\ w' = Flushed(w)
          /\ UNCHANGED ctxDone
       \/ /\ OuterFlushes /\ ~Buffered /\ (expired \/ client = "gone")
          /\ w' = Headed(w, 200)
          /\ ctxDone' = TRUE
    /\ Advance
    /\ UNCHANGED <<request, rec, status, logged, client, unread, expired>>

\* The timer of a wait fires, and the handler goes on.
TimerFires ==
    /\ At("wait")
    /\ Advance
    /\ UNCHANGED <<request, w, rec, status, logged, world>>

\* io.ReadAll of the request's body, by envelope.Build and by a template route:
\* to its end, or up to the limit, or to what came within ReadTimeout.
ReadBody ==
    /\ At("read")
    /\ unread' \in {unread, FALSE}
    /\ Advance
    /\ UNCHANGED <<request, w, rec, status, logged, client, ctxDone, expired>>

Poll ==
    /\ At("poll") /\ ~ctxDone
    /\ Advance
    /\ UNCHANGED <<request, w, rec, status, logged, world>>

\* Mutation of ContextDone: the handler's own waits do not look at the context.
ContextDone_OnlyDelay ==
    /\ ctxDone
    /\ pc = "delay" /\ ov.delay /\ pc' = "finish" /\ UNCHANGED todo
    /\ UNCHANGED <<request, w, rec, status, logged, world>>

\* The request's context ends a wait, and with it the handler: in
\* withOverrides, in a delay, in /drip, or between two chunks.
ContextDone ==
    /\ ctxDone
    /\ \/ pc = "delay" /\ ov.delay /\ pc' = "finish" /\ UNCHANGED todo
       \/ (At("wait") \/ At("poll")) /\ Returned
    /\ UNCHANGED <<request, w, rec, status, logged, world>>

\* handleWS takes the connection over, through statusRecorder.Hijack if need be;
\* the rest is WebSocket's.
Hijack ==
    /\ At("hijack")
    /\ pc' = "hijacked"
    /\ todo' = <<>>
    /\ UNCHANGED <<request, w, rec, status, logged, world>>

-----------------------------------------------------------------------------
(* The end: withLogging logs, net/http finishes the response.                *)

\* withLogging after handleWS: the 101 did not pass through the statusRecorder.
LogHijacked ==
    /\ pc = "hijacked" /\ ~quiet /\ logged = None
    /\ logged' = status
    /\ UNCHANGED <<request, pc, todo, w, rec, status, world>>

\* A body shorter than the length declared makes net/http drop the connection,
\* and so does the write deadline, unless there is nothing left to write.
Whole(r) == r.length = None \/ Bodiless(r.status) \/ Len(r.body) = r.length
InTime(r) == expired => r.sent > 0 /\ r.sent = r.length

\* Mutation of Finish: the access log sits inside withOverrides.
Finish_LogsInner ==
    /\ pc = "finish"
    /\ logged' = IF quiet THEN None ELSE IF Buffered THEN rec.status ELSE status
    /\ LET r == Headed(w, 200) IN
         /\ w' = IF InTime(r) THEN [r EXCEPT !.sent = Len(r.body)] ELSE r
         /\ pc' = IF Whole(r) /\ InTime(r) THEN "done" ELSE "cut"
    /\ UNCHANGED <<request, todo, rec, status, world>>

Finish ==
    /\ pc = "finish"
    /\ logged' = IF quiet THEN None ELSE status
    /\ LET r == Headed(w, 200) IN
         /\ w' = IF InTime(r) THEN [r EXCEPT !.sent = Len(r.body)] ELSE r
         /\ pc' = IF Whole(r) /\ InTime(r) THEN "done" ELSE "cut"
    /\ UNCHANGED <<request, todo, rec, status, world>>

\* WriteTimeout passes, from the moment the request's header was read.
Expire ==
    /\ ~expired /\ ~Over
    /\ expired' = TRUE
    /\ UNCHANGED <<request, pc, todo, w, rec, status, logged, client, ctxDone, unread>>

\* The client closes its connection.
Disconnect ==
    /\ client = "here"
    /\ ~Over
    /\ client' = "gone"
    /\ UNCHANGED <<request, pc, todo, w, rec, status, logged, ctxDone, unread, expired>>

\* net/http notices and cancels the request's context; it watches the
\* connection only once the request's body has been read.
Notice ==
    /\ client = "gone"
    /\ ~unread
    /\ ~ctxDone
    /\ ~Over
    /\ ctxDone' = TRUE
    /\ UNCHANGED <<request, pc, todo, w, rec, status, logged, client, unread, expired>>

Run == Abort \/ NoAbort \/ Replay \/ Return \/ WriteHeader \/ Write \/ Flush
         \/ ReadBody \/ Poll \/ ContextDone \/ Hijack \/ Finish

Next == DelayOver \/ TimerFires \/ Run \/ LogHijacked \/ Disconnect \/ Notice \/ Expire

Spec == Init /\ [][Next]_vars

\* The handler's goroutine runs, and net/http notices a closed connection.
\* A delay may be longer than anyone waits, so no timer has to fire.
Fairness ==
    /\ WF_vars(Run)
    /\ WF_vars(DelayOver /\ ~ov.delay)
    /\ WF_vars(Notice)

FairSpec == Spec /\ Fairness

-----------------------------------------------------------------------------
(* Properties *)

\* The pieces that a sequence of operations writes.
PieceCount(ops) == Cardinality({i \in 1..Len(ops) : ops[i] = "write"})
HandlerBody == [i \in 1..PieceCount(h.ops) |-> "handler"]
ExpectedBody == IF ov.body /\ Buffered THEN <<"override">> ELSE HandlerBody

\* What arrives as a complete response is complete: the whole body of the
\* handler, or of the override.  And a response is cut short only for an abort,
\* an invalid status or the write deadline, never for a length that does not
\* match its body (overrides.go, the Content-Length of a replaced body; drip.go,
\* synthetic.go; server.go:22).
WholeBody ==
    client = "here" =>
      /\ pc = "done" /\ ~Bodiless(w.status) => w.body = ExpectedBody
      /\ pc = "cut" => \/ ov.abort \/ expired
                       \/ ~Valid(IF ov.status # None /\ Buffered THEN ov.status ELSE h.code)

\* A body arrives under the Content-Encoding it has, however the response was
\* recorded and replayed.  A replaced body is excluded: it keeps the encoding of
\* the one it replaces (overrides.go:81; encoding.go).
Decodable ==
    pc = "done" /\ w.body # <<>> /\ ~(ov.body /\ Buffered) => w.encoded = h.encoded

\* The access log shows the status that was sent, overrides included, except
\* where an informational status was asked for; of a hijacked connection it
\* shows 200 (server.go, withLogging).
LogTellsStatus ==
    logged # None /\ client = "here" /\ pc # "hijacked"
      => logged = w.status \/ Informational(logged)

\* A client that goes away ends its handler, however long the handler would
\* have waited, once the request's body is read (drip.go:16; PLAN.md:77).
DisconnectFrees == (client = "gone" /\ ~unread) ~> Over

\* Between two bytes the client has all that was written so far.
Waiting == At("wait") /\ w.body # <<>>
Delivered == Waiting /\ client = "here" /\ ~expired => w.sent = Len(w.body)

\* With --quiet a drip reaches the client byte by byte (drip.go).
TricklesWhenQuiet == quiet => Delivered

\* Claim (drip.go:14, "handleDrip trickles numbytes over duration").
Trickles == Delivered
====
