---- MODULE WebSocket ----
(***************************************************************************)
(* One WebSocket connection (websocket.go, handleWS): the upgrade, the     *)
(* banner, then the loop that reads a frame and answers it.  After the     *)
(* hijack there is no deadline in either direction.  The client sends any  *)
(* frames, reads or not, and may finish its side, reset the connection or  *)
(* stall: it sends and reads no more while its machine answers for it.     *)
(*                                                                         *)
(* A frame is its header; the payload is its size and the close code in    *)
(* its first two bytes.  It arrives in three parts: two bytes, the         *)
(* extended length, the rest.  Socket buffers are counted in frames.       *)
(***************************************************************************)
EXTENDS Integers, Sequences

CONSTANTS
    Frames,     \* the frames a client sends
    bannerSize, \* bytes of the identity banner
    PipeCap,    \* frames the socket buffer towards the client takes
    MaxFrames   \* bound: frames the client sends

maxWSFramePayload == 1048576
maxUint16 == 65535
wsOpText == 1
wsOpClose == 8
wsOpPing == 9
wsOpPong == 10

\* The forms of the length: in the head, or in 2 or 8 bytes after it.
Forms == {"head", "ext16", "ext64"}

\* Mutation of Form: one length too many for two bytes.
Form_OffByOne(size) ==
    IF size <= 125 THEN "head" ELSE IF size <= maxUint16 + 1 THEN "ext16" ELSE "ext64"

\* The form writeWSFrame chooses.
Form(size) ==
    IF size <= 125 THEN "head" ELSE IF size <= maxUint16 THEN "ext16" ELSE "ext64"

ASSUME WebSocketAssumption ==
    /\ Frames \subseteq [opcode: 0..15, fin: BOOLEAN, rsv: BOOLEAN, masked: BOOLEAN,
                         form: Forms, size: Nat, code: Nat]
    /\ \A f \in Frames : /\ f.form = "head" => f.size <= 125
                         /\ f.form = "ext16" => f.size <= maxUint16
    /\ bannerSize \in 1..maxWSFramePayload
    /\ PipeCap \in Nat \ {0}
    /\ MaxFrames \in Nat

VARIABLES
    conn,     \* handleWS: "upgrade", "handshake", "banner", "read", "write", or
              \* the end: "refused" (not hijacked), "closed"
    sent,     \* the frames of the client
    part,     \* how much of the last one has arrived
    read,     \* how many of them the server has read or rejected
    replies,  \* the frames of the server
    flushed,  \* how many of them are in the socket buffer or received
    received, \* how many of them the client has read
    client    \* "open", "finished" (sent FIN), "reset" or "stalled"

vars == <<conn, sent, part, read, replies, flushed, received, client>>
input == <<sent, part, client>>
output == <<replies, flushed, received>>

Replies == [to: Nat, opcode: 0..15, fin: BOOLEAN, form: Forms, size: Nat, code: Nat]

TypeOK ==
    /\ conn \in {"upgrade", "handshake", "banner", "read", "write", "refused", "closed"}
    /\ sent \in Seq(Frames) /\ Len(sent) <= MaxFrames
    /\ part \in {"head", "length", "whole"}
    /\ read \in 0..Len(sent)
    /\ replies \in Seq(Replies)
    /\ flushed \in 0..Len(replies)
    /\ received \in 0..flushed /\ flushed - received <= PipeCap
    /\ client \in {"open", "finished", "reset", "stalled"}

Init ==
    /\ conn = "upgrade"
    /\ sent = <<>> /\ part = "whole" /\ read = 0
    /\ replies = <<>> /\ flushed = 0 /\ received = 0
    /\ client = "open"

-----------------------------------------------------------------------------
(* readWSFrame *)

Control(opcode) == opcode >= 8

\* Rejected for its first two bytes: reserved bits, and control frames that are
\* fragmented or longer than 125 bytes.
BadHead(f) == f.rsv \/ (Control(f.opcode) /\ (~f.fin \/ f.form # "head"))

\* Mutation of BadLength: the limit on the payload is not checked.
BadLength_NoLimit(f) == ~f.masked

\* Rejected once the length is read.
BadLength(f) == f.size > maxWSFramePayload \/ ~f.masked

Rejects(f, p) == BadHead(f) \/ ((f.form = "head" \/ p # "head") /\ BadLength(f))
Accepts(f, p) == p = "whole" /\ ~BadHead(f) /\ ~BadLength(f)

-----------------------------------------------------------------------------
(* handleWS up to the banner *)

Over == conn \in {"refused", "closed"}

\* 426 for anything but an upgrade with a key, 500 if the ResponseWriter cannot
\* be hijacked; an error of Hijack is only logged.
Upgrade ==
    /\ conn = "upgrade"
    /\ \E isWebSocketUpgrade, key, hijacked \in BOOLEAN :
         conn' = IF isWebSocketUpgrade /\ key /\ hijacked THEN "handshake" ELSE "refused"
    /\ UNCHANGED <<input, read, output>>

\* The 101 response; on an error the deferred Close ends the connection.
Handshake ==
    /\ conn = "handshake"
    /\ \/ conn' = "banner"
       \/ client = "reset" /\ conn' = "closed"
    /\ UNCHANGED <<input, read, output>>

-----------------------------------------------------------------------------
(* The frame loop *)

\* writeWSFrame and writeWSClose, as the next reply; `to` is the number of the
\* frame it answers, 0 for the banner.
Reply(to, opcode, fin, size, code) ==
    /\ replies' = Append(replies, [to |-> to, opcode |-> opcode, fin |-> fin,
                                   form |-> Form(size), size |-> size, code |-> code])
    /\ conn' = "write"

\* Mutation of Banner: the frame is not final.
Banner_NotFinal ==
    /\ conn = "banner"
    /\ Reply(0, wsOpText, FALSE, bannerSize, 0)
    /\ UNCHANGED <<input, read, flushed, received>>

Banner ==
    /\ conn = "banner"
    /\ Reply(0, wsOpText, TRUE, bannerSize, 0)
    /\ UNCHANGED <<input, read, flushed, received>>

\* Mutation of Echo: the echo of a fragment is final.
Echo_AlwaysFinal(n, f) == f.opcode \in 0..2 /\ Reply(n, f.opcode, TRUE, f.size, 0)

\* Mutation of Echo: any opcode that is not a control frame's is echoed.
Echo_AnyOpcode(n, f) == f.opcode \in 0..7 /\ Reply(n, f.opcode, f.fin, f.size, 0)

\* Text, binary and continuation frames come back as they are.
Echo(n, f) == f.opcode \in 0..2 /\ Reply(n, f.opcode, f.fin, f.size, 0)

\* Mutation of Pong: after the switch the last reply is written once more.
Pong_Written(f) == f.opcode = wsOpPong /\ conn' = "write" /\ UNCHANGED replies

\* A pong calls for nothing.
Pong(f) == f.opcode = wsOpPong /\ UNCHANGED <<replies, conn>>

\* The switch on the opcode.  A close comes back with its code, if it has one;
\* what is not supported is answered with a close.
Answer(n, f) ==
    \/ Echo(n, f)
    \/ f.opcode = wsOpPing /\ Reply(n, wsOpPong, TRUE, f.size, 0)
    \/ Pong(f)
    \/ /\ f.opcode = wsOpClose
       /\ Reply(n, wsOpClose, TRUE, 2, IF f.size >= 2 THEN f.code ELSE 1000)
    \/ f.opcode \in 3..7 \cup 11..15 /\ Reply(n, wsOpClose, TRUE, 20, 1002)

\* The frame being read and how much of it is there.
Arrived == IF read + 1 = Len(sent) THEN part ELSE "whole"

Accept ==
    /\ conn = "read" /\ read < Len(sent)
    /\ Accepts(sent[read + 1], Arrived)
    /\ read' = read + 1
    /\ Answer(read + 1, sent[read + 1])
    /\ UNCHANGED <<input, flushed, received>>

\* errWSProtocol: the rest of the frame is not read.
Reject ==
    /\ conn = "read" /\ read < Len(sent)
    /\ Rejects(sent[read + 1], Arrived)
    /\ read' = read + 1
    /\ Reply(read + 1, wsOpClose, TRUE, 16, 1002)
    /\ UNCHANGED <<input, flushed, received>>

\* Mutation of Broken: the end of the stream comes before the frames.
Broken_EndFirst == client \in {"reset", "finished"}

\* The connection was reset, or the stream ends before the next frame does.
Broken ==
    \/ client = "reset"
    \/ /\ client = "finished"
       /\ read < Len(sent) =>
            ~Accepts(sent[read + 1], Arrived) /\ ~Rejects(sent[read + 1], Arrived)

ReadFails ==
    /\ conn = "read" /\ Broken
    /\ conn' = "closed"
    /\ UNCHANGED <<input, read, output>>

\* Mutation of WriteFails: the write is tried again.
WriteFails_Retried == client = "reset" /\ UNCHANGED <<conn, flushed>>

\* An error ends the loop; only a reset is one, there is no deadline.
WriteFails == client = "reset" /\ conn' = "closed" /\ UNCHANGED flushed

Room == flushed - received < PipeCap

\* The frame goes out; if it is a close, so does the connection.
Write ==
    /\ conn = "write"
    /\ \/ WriteFails
       \/ /\ Room
          /\ flushed' = flushed + 1
          /\ conn' = IF replies[Len(replies)].opcode = wsOpClose THEN "closed" ELSE "read"
    /\ UNCHANGED <<input, read, replies, received>>

ServerStep == Upgrade \/ Handshake \/ Banner \/ Accept \/ Reject \/ ReadFails \/ Write

-----------------------------------------------------------------------------
(* The client, who waits for the 101 response *)

Connected == conn \in {"banner", "read", "write"}

Send(f) ==
    /\ client = "open" /\ Connected
    /\ part = "whole" /\ Len(sent) < MaxFrames
    /\ sent' = Append(sent, f)
    /\ part' = "head"
    /\ UNCHANGED <<conn, read, output, client>>

\* More of the frame that was begun arrives; a frame that was rejected stays cut.
SendMore ==
    /\ client = "open" /\ Connected
    /\ part # "whole" /\ read < Len(sent)
    /\ part' = IF part = "head" THEN "length" ELSE "whole"
    /\ UNCHANGED <<conn, sent, read, output, client>>

Receive ==
    /\ client \in {"open", "finished"}
    /\ received < flushed
    /\ received' = received + 1
    /\ UNCHANGED <<conn, input, read, replies, flushed>>

Leave(how) ==
    /\ client = "open" \/ (client = "finished" /\ how = "reset")
    /\ client' = how
    /\ UNCHANGED <<conn, sent, part, read, output>>

Next ==
    \/ ServerStep
    \/ \E f \in Frames : Send(f)
    \/ SendMore \/ Receive
    \/ \E how \in {"finished", "reset", "stalled"} : Leave(how)

Spec == Init /\ [][Next]_vars

\* The goroutine of the connection is scheduled.  Of the client nothing is
\* expected, and no timer runs.
FairSpec == Spec /\ WF_vars(ServerStep)

-----------------------------------------------------------------------------
(* Properties *)

\* What comes back is the banner and then, in the order of the frames read, one
\* answer for each of them that calls for one, data frames with the opcode,
\* FIN bit and size they came with, pongs with those of their ping, whatever
\* control frames come between the fragments (PLAN.md:192).
Answered(n) == \E i \in 1..Len(replies) : replies[i].to = n
EchoesVerbatim ==
    /\ \A i, j \in 1..Len(replies) : i < j => replies[i].to < replies[j].to
    /\ \A i \in 1..Len(replies) :
         /\ replies[i].to \in 0..read
         /\ i > 1 /\ replies[i].opcode # wsOpClose =>
              LET f == sent[replies[i].to] IN
                /\ replies[i].opcode = IF f.opcode = wsOpPing THEN wsOpPong ELSE f.opcode
                /\ replies[i].fin = f.fin /\ replies[i].size = f.size
    /\ \A n \in 1..read : Answered(n) \/ sent[n].opcode = wsOpPong

\* A close frame is the last thing the server says, and it says it exactly to
\* the first frame that is a close, that breaks the framing rules or that has
\* an opcode it does not know (websocket.go, errWSProtocol and handleWS).
Malformed(f) == BadHead(f) \/ BadLength(f)
Ending(f) == Malformed(f) \/ f.opcode \notin {0, 1, 2, wsOpPing, wsOpPong}
CloseIsLast ==
    /\ \A i \in 1..Len(replies) :
         replies[i].opcode = wsOpClose =>
           i = Len(replies) /\ replies[i].to = read /\ conn \in {"write", "closed"}
    /\ \A n \in 1..read :
         Ending(sent[n]) <=> n = read /\ replies[Len(replies)].opcode = wsOpClose

\* The server writes no frame that a peer with its own framing rules would
\* reject or read as another: control frames are whole and short, the length has
\* its shortest form, and no payload is over the limit (websocket.go,
\* readWSFrame and writeWSFrame).
ShortestForm(r) ==
    \/ r.form = "head" /\ r.size <= 125
    \/ r.form = "ext16" /\ r.size \in 126..maxUint16
    \/ r.form = "ext64" /\ r.size > maxUint16
RepliesWellFormed ==
    \A i \in 1..Len(replies) :
      LET r == replies[i] IN
        /\ Control(r.opcode) => r.fin /\ r.form = "head"
        /\ ShortestForm(r)
        /\ r.size <= maxWSFramePayload

\* A client that fragments its messages correctly, with control frames between
\* the fragments, can put together what comes back, the banner included: among
\* the data frames, those that continue a message are exactly the ones that
\* follow a frame without FIN (PLAN.md:192).
Continues(s, i) ==
    \E j \in 1..(i - 1) :
      /\ ~Control(s[j].opcode) /\ ~s[j].fin
      /\ \A k \in (j + 1)..(i - 1) : Control(s[k].opcode)
Fragmented(s, n) ==
    \A i \in 1..n : ~Control(s[i].opcode) => (s[i].opcode = 0 <=> Continues(s, i))
FragmentsReassemble == Fragmented(sent, read) => Fragmented(replies, Len(replies))

\* A hijacked connection is closed because the client reset it, or because it
\* finished with nothing more to answer, or after a close frame that is sent
\* out (websocket.go, handleWS).
ClosedForReason ==
    conn = "closed" =>
      \/ client = "reset"
      \/ /\ flushed = Len(replies) /\ replies # <<>>
         /\ \/ replies[Len(replies)].opcode = wsOpClose
            \/ /\ client = "finished"
               /\ read < Len(sent) => read + 1 = Len(sent) /\ part # "whole"

\* A client that resets the connection, or finishes with no more to come back
\* than the socket buffer takes, frees its goroutine (websocket.go, handleWS).
\* One that stalls keeps it: there is no deadline.
Fits == Len(sent) + 1 - received <= PipeCap
DepartedIsFreed == (client = "reset" \/ (client = "finished" /\ Fits)) ~> Over
====
