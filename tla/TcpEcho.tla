---- MODULE TcpEcho ----
(***************************************************************************)
(* One connection of the TCP echo listener (tcpecho.go, handleConn): the   *)
(* server reads and writes through socket buffers of bounded size, with a  *)
(* deadline on each read and none on a write; the client may close its     *)
(* side, reset the connection, or stall: it sends and reads no more, while *)
(* its machine keeps the connection alive.                                 *)
(*                                                                         *)
(* The bytes the client sends are numbered from 1; 0 stands for the        *)
(* identity banner.                                                        *)
(***************************************************************************)
EXTENDS Integers, Sequences

CONSTANTS
    Banner,         \* --tcp-banner
    readBufferSize, \* bytes one Read returns at most
    PipeCap,        \* capacity of the socket buffers, in each direction
    MaxBytes        \* bound: bytes the client sends

ASSUME EchoAssumption ==
    /\ Banner \in BOOLEAN
    /\ readBufferSize \in Nat \ {0}
    /\ PipeCap \in Nat \ {0}
    /\ MaxBytes \in Nat

VARIABLES
    conn,     \* handleConn: "banner", "deadline", "read", "write" or "closed"
    buf,      \* what is left to write
    deadline, \* the read deadline: "off", "set" or "passed"
    client,   \* "open", "finished" (sent FIN), "reset" or "stalled"
    sent,     \* bytes the client has sent
    in,       \* bytes on the way to the server
    out,      \* bytes on the way to the client
    received  \* bytes the client has read

vars == <<conn, buf, deadline, client, sent, in, out, received>>

Bytes == 0..MaxBytes

TypeOK ==
    /\ conn \in {"banner", "deadline", "read", "write", "closed"}
    /\ buf \in Seq(Bytes) /\ Len(buf) <= readBufferSize
    /\ deadline \in {"off", "set", "passed"}
    /\ client \in {"open", "finished", "reset", "stalled"}
    /\ sent \in 0..MaxBytes
    /\ in \in Seq(Bytes) /\ Len(in) <= PipeCap
    /\ out \in Seq(Bytes) /\ Len(out) <= PipeCap
    /\ received \in Seq(Bytes)

Init ==
    /\ conn = "banner"
    /\ buf = IF Banner THEN <<0>> ELSE <<>>
    /\ deadline = "off"
    /\ client = "open"
    /\ sent = 0
    /\ in = <<>> /\ out = <<>> /\ received = <<>>

Smaller(a, b) == IF a < b THEN a ELSE b

-----------------------------------------------------------------------------
(* handleConn *)

\* Mutation of Write: what did not fit in the socket buffer is dropped.
Write_Short(at) ==
    /\ conn = at
    /\ \/ /\ client = "reset"
          /\ conn' = "closed"
          /\ UNCHANGED <<buf, out>>
       \/ /\ client # "reset" /\ buf # <<>> /\ Len(out) < PipeCap
          /\ \E k \in 1..Smaller(Len(buf), PipeCap - Len(out)) :
               out' = out \o SubSeq(buf, 1, k)
          /\ buf' = <<>>
          /\ UNCHANGED conn
       \/ /\ client # "reset" /\ buf = <<>>
          /\ conn' = "deadline"
          /\ UNCHANGED <<buf, out>>
    /\ UNCHANGED <<deadline, client, sent, in, received>>

\* conn.Write, of the banner or of what was read: it puts into the socket
\* buffer what fits, waits for room for the rest, and fails once the client has
\* reset the connection.
Write(at) ==
    /\ conn = at
    /\ \/ /\ client = "reset"
          /\ conn' = "closed"
          /\ UNCHANGED <<buf, out>>
       \/ /\ client # "reset" /\ buf # <<>> /\ Len(out) < PipeCap
          /\ \E k \in 1..Smaller(Len(buf), PipeCap - Len(out)) :
               /\ out' = out \o SubSeq(buf, 1, k)
               /\ buf' = SubSeq(buf, k + 1, Len(buf))
          /\ UNCHANGED conn
       \/ /\ client # "reset" /\ buf = <<>>
          /\ conn' = "deadline"
          /\ UNCHANGED <<buf, out>>
    /\ UNCHANGED <<deadline, client, sent, in, received>>

\* Mutation of SetReadDeadline: no deadline is set.
SetReadDeadline_Never ==
    /\ conn = "deadline"
    /\ conn' = "read"
    /\ UNCHANGED <<buf, deadline, client, sent, in, out, received>>

SetReadDeadline ==
    /\ conn = "deadline"
    /\ conn' = "read"
    /\ deadline' = "set"
    /\ UNCHANGED <<buf, client, sent, in, out, received>>

\* Mutation of Read: the end of the stream comes before the data.
Read_EndFirst ==
    /\ conn = "read"
    /\ \/ /\ (deadline = "passed" \/ client \in {"reset", "finished"})
          /\ conn' = "closed"
          /\ UNCHANGED <<buf, in>>
       \/ /\ deadline # "passed" /\ in # <<>>
          /\ \E k \in 1..Smaller(readBufferSize, Len(in)) :
               /\ buf' = SubSeq(in, 1, k)
               /\ in' = SubSeq(in, k + 1, Len(in))
          /\ conn' = "write"
    /\ UNCHANGED <<deadline, client, sent, out, received>>

\* Mutation of Read: all there is to read, as io.ReadAll gives it.
Read_All ==
    /\ conn = "read"
    /\ \/ /\ deadline = "passed" \/ client = "reset"
          /\ conn' = "closed"
          /\ UNCHANGED <<buf, in>>
       \/ /\ deadline # "passed" /\ in # <<>>
          /\ buf' = in /\ in' = <<>>
          /\ conn' = "write"
       \/ /\ deadline # "passed" /\ in = <<>> /\ client = "finished"
          /\ conn' = "closed"
          /\ UNCHANGED <<buf, in>>
    /\ UNCHANGED <<deadline, client, sent, out, received>>

\* conn.Read: the deadline, once passed, comes before any data; data come
\* before the end of the stream.
Read ==
    /\ conn = "read"
    /\ \/ /\ deadline = "passed" \/ client = "reset"
          /\ conn' = "closed"
          /\ UNCHANGED <<buf, in>>
       \/ /\ deadline # "passed" /\ in # <<>>
          /\ \E k \in 1..Smaller(readBufferSize, Len(in)) :
               /\ buf' = SubSeq(in, 1, k)
               /\ in' = SubSeq(in, k + 1, Len(in))
          /\ conn' = "write"
       \/ /\ deadline # "passed" /\ in = <<>> /\ client = "finished"
          /\ conn' = "closed"
          /\ UNCHANGED <<buf, in>>
    /\ UNCHANGED <<deadline, client, sent, out, received>>

ServerStep == Write("banner") \/ SetReadDeadline \/ Read \/ Write("write")

-----------------------------------------------------------------------------
(* Time and the client *)

\* IdleTimeout passes, during the read or after it.
IdleTimeout ==
    /\ conn # "closed"
    /\ deadline = "set"
    /\ deadline' = "passed"
    /\ UNCHANGED <<conn, buf, client, sent, in, out, received>>

Send ==
    /\ client = "open" /\ conn # "closed"
    /\ sent < MaxBytes /\ Len(in) < PipeCap
    /\ sent' = sent + 1
    /\ in' = Append(in, sent + 1)
    /\ UNCHANGED <<conn, buf, deadline, client, out, received>>

Receive ==
    /\ client \in {"open", "finished"}
    /\ out # <<>>
    /\ received' = Append(received, Head(out))
    /\ out' = Tail(out)
    /\ UNCHANGED <<conn, buf, deadline, client, sent, in>>

Leave(how) ==
    /\ client = "open" \/ (client = "finished" /\ how = "reset")
    /\ client' = how
    /\ UNCHANGED <<conn, buf, deadline, sent, in, out, received>>

Next ==
    \/ ServerStep \/ IdleTimeout
    \/ Send \/ Receive
    \/ \E how \in {"finished", "reset", "stalled"} : Leave(how)

Spec == Init /\ [][Next]_vars

\* The goroutine of the connection is scheduled and the idle timeout passes.
\* The client does not have to send, to read or to leave.
Fairness == WF_vars(ServerStep) /\ WF_vars(IdleTimeout)
FairSpec == Spec /\ Fairness

-----------------------------------------------------------------------------
(* Properties *)

banner == IF Banner THEN <<0>> ELSE <<>>
Numbered == [i \in 1..sent |-> i]

\* Nothing is lost, repeated or reordered between the client's sends and what
\* comes back, whatever the sizes of the reads and writes, and the banner comes
\* first, once (tcpecho.go, handleConn).
EchoesInOrder ==
    received \o out \o buf \o in = banner \o Numbered

\* A connection is closed because the client reset it or the idle timeout
\* passed, or else because the client finished, and then every byte it sent was
\* handed back first (tcpecho.go, handleConn).
ClosedForReason ==
    conn = "closed" =>
      \/ client = "reset"
      \/ deadline = "passed"
      \/ client = "finished" /\ in = <<>> /\ buf = <<>>

\* A client that stalls with no more on the way than it has room for is
\* disconnected (tcpecho.go, IdleTimeout); with more, a write without deadline
\* waits for as long as the client does.
Fits == Len(out) + Len(buf) + Len(in) <= PipeCap
QuietClientIsClosed == (client = "stalled" /\ Fits) ~> conn = "closed"
====
