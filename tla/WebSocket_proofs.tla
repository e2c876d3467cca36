---- MODULE WebSocket_proofs ----
(***************************************************************************)
(* Proofs about WebSocket, for any frames, any number of them and any      *)
(* socket buffer.                                                          *)
(***************************************************************************)
EXTENDS WebSocket, SequenceTheorems, TLAPS

\* The replies have grown by one.
Appended(to, opcode, fin, size) ==
    /\ replies' \in Seq(Replies) /\ conn' = "write"
    /\ Len(replies') = Len(replies) + 1
    /\ \A i \in 1..Len(replies) : replies'[i] = replies[i]
    /\ replies'[Len(replies) + 1].to = to
    /\ replies'[Len(replies) + 1].opcode = opcode
    /\ replies'[Len(replies) + 1].fin = fin
    /\ replies'[Len(replies) + 1].form = Form(size)
    /\ replies'[Len(replies) + 1].size = size

\* By a close frame.
ClosedWith(to) == \E size \in 0..125 : Appended(to, wsOpClose, TRUE, size)

LEMMA ReplyAppends ==
    ASSUME TypeOK, NEW to \in Nat, NEW opcode \in 0..15, NEW fin \in BOOLEAN,
           NEW size \in Nat, NEW code \in Nat, Reply(to, opcode, fin, size, code)
    PROVE  Appended(to, opcode, fin, size)
<1> DEFINE r == [to |-> to, opcode |-> opcode, fin |-> fin,
                 form |-> Form(size), size |-> size, code |-> code]
<1>1. Form(size) \in Forms
  BY DEF Form, Forms
<1>2. r \in Replies
  BY <1>1 DEF Replies
<1>3. replies \in Seq(Replies)
  BY DEF TypeOK
<1>4. replies' = Append(replies, r) /\ conn' = "write"
  BY DEF Reply
<1>5. r.to = to /\ r.opcode = opcode /\ r.fin = fin /\ r.form = Form(size) /\ r.size = size
  OBVIOUS
<1> HIDE DEF r
<1>6. /\ replies' \in Seq(Replies) /\ Len(replies') = Len(replies) + 1
      /\ \A i \in 1..Len(replies) : replies'[i] = replies[i]
      /\ replies'[Len(replies) + 1] = r
  BY <1>2, <1>3, <1>4, AppendProperties
<1> QED BY <1>4, <1>5, <1>6 DEF Appended

\* A frame has the fields of one.
LEMMA FrameType ==
    ASSUME TypeOK, NEW n \in 1..Len(sent)
    PROVE  /\ sent[n] \in Frames
           /\ sent[n].opcode \in 0..15 /\ sent[n].fin \in BOOLEAN
           /\ sent[n].size \in Nat /\ sent[n].code \in Nat
           /\ (sent[n].form = "head" => sent[n].size <= 125)
<1>1. sent[n] \in Frames
  BY ElementOfSeq DEF TypeOK
<1> QED BY <1>1, WebSocketAssumption

LEMMA UnknownOpcode ==
    \A o : o \in 3..7 \cup 11..15 => o \notin {0, 1, 2, wsOpPing, wsOpPong}
BY SMT DEF wsOpPing, wsOpPong

\* What an answer to a frame is: nothing to a pong, a pong to a ping, the frame
\* again if it carries data, a short close to anything else.
LEMMA AnswerIs ==
    ASSUME TypeOK, NEW n \in 1..Len(sent), Answer(n, sent[n])
    PROVE  \/ sent[n].opcode = wsOpPong /\ UNCHANGED <<replies, conn>>
           \/ /\ sent[n].opcode \in 0..2
              /\ Appended(n, sent[n].opcode, sent[n].fin, sent[n].size)
           \/ sent[n].opcode = wsOpPing /\ Appended(n, wsOpPong, TRUE, sent[n].size)
           \/ /\ sent[n].opcode \notin {0, 1, 2, wsOpPing, wsOpPong}
              /\ ClosedWith(n)
<1> DEFINE f == sent[n]
<1>0. f.opcode \in 0..15 /\ f.fin \in BOOLEAN /\ f.size \in Nat /\ f.code \in Nat /\ n \in Nat
  BY FrameType, LenProperties
<1> HIDE DEF f
<1>1. CASE Echo(n, f)
  BY <1>0, <1>1, ReplyAppends DEF Echo, f
<1>2. CASE f.opcode = wsOpPing /\ Reply(n, wsOpPong, TRUE, f.size, 0)
  <2>1. wsOpPong \in 0..15 /\ 0 \in Nat
    BY DEF wsOpPong
  <2> QED BY <1>0, <1>2, <2>1, ReplyAppends DEF f
<1>3. CASE f.opcode = wsOpPong /\ UNCHANGED <<replies, conn>>
  BY <1>3 DEF f
<1>4. CASE /\ f.opcode = wsOpClose
           /\ Reply(n, wsOpClose, TRUE, 2, IF f.size >= 2 THEN f.code ELSE 1000)
  <2> DEFINE code == IF f.size >= 2 THEN f.code ELSE 1000
  <2>1. code \in Nat /\ wsOpClose \in 0..15 /\ 2 \in 0..125
    BY <1>0 DEF wsOpClose
  <2> HIDE DEF code
  <2>2. Reply(n, wsOpClose, TRUE, 2, code)
    BY <1>4 DEF code
  <2>3. Appended(n, wsOpClose, TRUE, 2)
    BY <1>0, <2>1, <2>2, ReplyAppends
  <2>4. ClosedWith(n)
    BY <2>1, <2>3, Zenon DEF ClosedWith
  <2>5. f.opcode \notin {0, 1, 2, wsOpPing, wsOpPong}
    BY <1>4 DEF wsOpPing, wsOpPong, wsOpClose
  <2> QED BY <2>4, <2>5, Zenon DEF f
<1>5. CASE f.opcode \in 3..7 \cup 11..15 /\ Reply(n, wsOpClose, TRUE, 20, 1002)
  <2>1. /\ wsOpClose \in 0..15 /\ 20 \in 0..125 /\ 20 \in Nat /\ 1002 \in Nat
        /\ TRUE \in BOOLEAN
    BY DEF wsOpClose
  <2> DEFINE code == 1002
             size == 20
  <2>2. Reply(n, wsOpClose, TRUE, size, code)
    BY <1>5, Zenon
  <2>6. size \in Nat /\ code \in Nat
    BY <2>1, Zenon
  <2> HIDE DEF code, size
  <2>3. Appended(n, wsOpClose, TRUE, size)
    BY <1>0, <2>1, <2>2, <2>6, ReplyAppends
  <2>4. ClosedWith(n)
    BY <2>1, <2>3, Zenon DEF ClosedWith, size
  <2>5. f.opcode \notin {0, 1, 2, wsOpPing, wsOpPong}
    BY <1>5, UnknownOpcode
  <2> QED BY <2>4, <2>5, Zenon DEF f
<1> QED BY <1>1, <1>2, <1>3, <1>4, <1>5 DEF Answer, Pong, f

\* What a read of a frame does: one more frame is read, and it is answered.
LEMMA ReadIs ==
    ASSUME TypeOK, Accept \/ Reject
    PROVE  /\ conn = "read" /\ read + 1 \in 1..Len(sent) /\ read' = read + 1
           /\ UNCHANGED <<sent, part, client, flushed, received>>
           /\ \/ /\ ~Malformed(sent[read + 1])
                 /\ Answer(read + 1, sent[read + 1])
              \/ /\ Malformed(sent[read + 1])
                 /\ ClosedWith(read + 1)
<1>1. Len(sent) \in Nat /\ read \in Nat
  BY LenProperties DEF TypeOK
<1>2. CASE Accept
  <2>1. conn = "read" /\ read < Len(sent) /\ read' = read + 1 /\ Answer(read + 1, sent[read + 1])
    BY <1>2 DEF Accept
  <2>2. UNCHANGED <<sent, part, client, flushed, received>>
    BY <1>2 DEF Accept, input
  <2>3. ~Malformed(sent[read + 1])
    BY <1>2, Zenon DEF Accept, Accepts, Malformed
  <2> QED BY <1>1, <2>1, <2>2, <2>3
<1>3. CASE Reject
  <2> DEFINE size == 16
             code == 1002
  <2>1. Reply(read + 1, wsOpClose, TRUE, size, code)
    BY <1>3 DEF Reject
  <2>2. /\ size \in Nat /\ code \in Nat /\ size \in 0..125 /\ TRUE \in BOOLEAN
        /\ wsOpClose \in 0..15 /\ read + 1 \in Nat
    BY <1>1 DEF wsOpClose
  <2> HIDE DEF size, code
  <2>3. Appended(read + 1, wsOpClose, TRUE, size)
    BY <2>1, <2>2, ReplyAppends
  <2>4. Malformed(sent[read + 1])
    BY <1>3, Zenon DEF Reject, Rejects, Malformed
  <2>5. ClosedWith(read + 1)
    BY <2>2, <2>3, Zenon DEF ClosedWith
  <2>6. /\ conn = "read" /\ read < Len(sent) /\ read' = read + 1
        /\ UNCHANGED <<sent, part, client, flushed, received>>
    BY <1>3 DEF Reject, input
  <2> QED BY <1>1, <2>4, <2>5, <2>6
<1> QED BY <1>2, <1>3

\* The banner is a reply to no frame.
LEMMA BannerIs ==
    ASSUME TypeOK, Banner
    PROVE  /\ conn = "banner" /\ Appended(0, wsOpText, TRUE, bannerSize)
           /\ UNCHANGED <<sent, part, client, read, flushed, received>>
<1>1. bannerSize \in Nat
  <2>1. bannerSize \in 1..maxWSFramePayload
    BY WebSocketAssumption
  <2>2. maxWSFramePayload \in Nat
    BY SMT DEF maxWSFramePayload
  <2> QED BY <2>1, <2>2
<1>2. wsOpText \in 0..15 /\ 0 \in Nat /\ TRUE \in BOOLEAN
  BY DEF wsOpText
<1>3. Reply(0, wsOpText, TRUE, bannerSize, 0) /\ conn = "banner"
  BY DEF Banner
<1>4. Appended(0, wsOpText, TRUE, bannerSize)
  BY <1>1, <1>2, <1>3, ReplyAppends
<1> QED BY <1>3, <1>4 DEF Banner, input

-----------------------------------------------------------------------------

\* At most the last reply is still to be written.
Flushing ==
    /\ conn = "write" => flushed + 1 = Len(replies)
    /\ conn \notin {"write", "closed"} => flushed = Len(replies)
    /\ flushed <= Len(replies)

\* No frame is read before the banner is on its way.
Started ==
    /\ conn \in {"upgrade", "handshake", "banner", "refused"} => replies = <<>> /\ read = 0
    /\ conn \in {"read", "write"} => replies # <<>>
    /\ replies = <<>> => read = 0
TypeInv == TypeOK /\ Flushing /\ Started

\* An answer keeps the types and the counters: one frame more is read.
LEMMA ReadKeepsTypes ==
    ASSUME TypeInv, Accept \/ Reject
    PROVE  TypeInv'
<1>1. TypeOK /\ Len(sent) \in Nat /\ Len(replies) \in Nat /\ read \in Nat
  BY LenProperties DEF TypeInv, TypeOK
<1>2. /\ conn = "read" /\ read + 1 \in 1..Len(sent) /\ read' = read + 1
      /\ UNCHANGED <<sent, part, client, flushed, received>>
  BY <1>1, ReadIs
<1>3. \/ UNCHANGED <<replies, conn>>
      \/ /\ replies' \in Seq(Replies) /\ conn' = "write"
         /\ Len(replies') = Len(replies) + 1
  <2>1. CASE Answer(read + 1, sent[read + 1])
    BY <1>1, <1>2, <2>1, AnswerIs DEF Appended, ClosedWith
  <2>2. CASE ClosedWith(read + 1)
    BY <2>2 DEF ClosedWith, Appended
  <2> QED BY <1>1, <2>1, <2>2, ReadIs
<1>4. TypeOK'
  BY <1>1, <1>2, <1>3 DEF TypeOK
<1>5. flushed = Len(replies) /\ replies # <<>>
  BY <1>2 DEF TypeInv, Flushing, Started
<1>6. replies' # <<>>
  <2>1. CASE UNCHANGED replies
    BY <1>5, <2>1
  <2>2. CASE replies' \in Seq(Replies) /\ Len(replies') = Len(replies) + 1
    BY <1>1, <2>2, EmptySeq
  <2> QED BY <1>3, <2>1, <2>2
<1>7. Flushing' /\ Started'
  BY <1>1, <1>2, <1>3, <1>5, <1>6 DEF Flushing, Started
<1> QED BY <1>4, <1>7 DEF TypeInv

\* The inductive invariant of the types: what is flushed was a reply.
LEMMA TypeInvariant == Spec => []TypeInv
<1>1. Init => TypeInv
  <2> SUFFICES ASSUME Init PROVE TypeInv
    OBVIOUS
  <2>1. <<>> \in Seq(Frames) /\ <<>> \in Seq(Replies) /\ Len(<<>>) = 0
    BY EmptySeq
  <2> QED BY <2>1, WebSocketAssumption DEF Init, TypeInv, TypeOK, Flushing, Started
<1>2. TypeInv /\ [Next]_vars => TypeInv'
  <2> SUFFICES ASSUME TypeInv, [Next]_vars PROVE TypeInv'
    OBVIOUS
  <2>0. Len(sent) \in Nat /\ Len(replies) \in Nat /\ TypeOK
    BY LenProperties DEF TypeInv, TypeOK
  <2>00. PipeCap \in Nat /\ MaxFrames \in Nat
    BY WebSocketAssumption
  <2>1. CASE Upgrade \/ Handshake
    BY <2>1 DEF Upgrade, Handshake, input, output, TypeInv, TypeOK, Flushing, Started
  <2>2. CASE Banner
    <3>1. /\ conn = "banner" /\ replies' \in Seq(Replies) /\ conn' = "write"
          /\ Len(replies') = Len(replies) + 1
          /\ UNCHANGED <<sent, part, client, read, flushed, received>>
      BY <2>0, <2>2, BannerIs DEF Appended
    <3>2. replies' # <<>>
      BY <2>0, <3>1, EmptySeq
    <3> QED BY <2>0, <3>1, <3>2 DEF TypeInv, TypeOK, Flushing, Started
  <2>3. CASE Accept \/ Reject
    BY <2>3, ReadKeepsTypes
  <2>4. CASE ReadFails
    BY <2>4 DEF ReadFails, input, output, TypeInv, TypeOK, Flushing, Started
  <2>5. CASE Write
    <3>1. /\ conn = "write" /\ conn' \in {"closed", "read"}
          /\ \/ conn' = "closed" /\ flushed' = flushed
             \/ flushed - received < PipeCap /\ flushed' = flushed + 1
          /\ UNCHANGED <<sent, part, client, read, replies, received>>
      BY <2>5 DEF Write, WriteFails, Room, input
    <3> QED BY <2>0, <3>1, <2>00 DEF TypeInv, TypeOK, Flushing, Started
  <2>6. ASSUME NEW f \in Frames, Send(f) PROVE TypeInv'
    <3>1. sent' \in Seq(Frames) /\ Len(sent') = Len(sent) + 1
      BY <2>0, <2>6, AppendProperties DEF Send, TypeOK
    <3> QED BY <2>0, <2>6, <3>1, <2>00
            DEF Send, output, TypeInv, TypeOK, Flushing, Started
  <2>7. CASE SendMore
    BY <2>7 DEF SendMore, output, TypeInv, TypeOK, Flushing, Started
  <2>8. CASE Receive
    BY <2>0, <2>8, <2>00 DEF Receive, input, TypeInv, TypeOK, Flushing, Started
  <2>9. ASSUME NEW how \in {"finished", "reset", "stalled"}, Leave(how) PROVE TypeInv'
    BY <2>9 DEF Leave, output, TypeInv, TypeOK, Flushing, Started
  <2>10. CASE UNCHANGED vars
    BY <2>10 DEF vars, TypeInv, TypeOK, Flushing, Started
  <2> QED BY <2>1, <2>2, <2>3, <2>4, <2>5, <2>6, <2>7, <2>8, <2>9, <2>10
          DEF Next, ServerStep
<1> QED BY <1>1, <1>2, PTL DEF Spec

\* The variables keep their types, and the socket buffer its capacity
\* (websocket.go, handleWS).
THEOREM TypeCorrect == Spec => []TypeOK
<1>1. TypeInv => TypeOK
  BY DEF TypeInv
<1> QED BY <1>1, TypeInvariant, PTL

-----------------------------------------------------------------------------

\* Frames that have been read stay as they are.
LEMMA SendKeeps ==
    ASSUME TypeOK, NEW f \in Frames, Send(f)
    PROVE  /\ Len(sent') = Len(sent) + 1 /\ \A n \in 1..read : sent'[n] = sent[n]
           /\ UNCHANGED <<conn, read, replies, flushed, received, client>>
<1>1. sent \in Seq(Frames) /\ Len(sent) \in Nat /\ read \in 0..Len(sent)
  BY LenProperties DEF TypeOK
<1>2. sent' = Append(sent, f) /\ UNCHANGED <<conn, read, output, client>>
  BY DEF Send
<1>3. Len(sent') = Len(sent) + 1 /\ \A n \in 1..Len(sent) : sent'[n] = sent[n]
  BY <1>1, <1>2, AppendProperties
<1> QED BY <1>1, <1>2, <1>3 DEF output

\* A frame that was accepted is in order; a control frame among them is whole
\* and carries at most 125 bytes.
LEMMA InOrder ==
    ASSUME TypeOK, NEW n \in 1..Len(sent), ~Malformed(sent[n])
    PROVE  /\ sent[n].size <= maxWSFramePayload
           /\ sent[n].opcode >= 8 => sent[n].fin /\ sent[n].size <= 125
<1>1. ~BadHead(sent[n]) /\ ~BadLength(sent[n])
  BY Zenon DEF Malformed
<1>2. sent[n].opcode >= 8 => sent[n].fin /\ sent[n].form = "head"
  BY <1>1 DEF BadHead, Control
<1>3. sent[n].size \in Nat /\ maxWSFramePayload \in Nat
  BY FrameType, SMT DEF maxWSFramePayload
<1>4. sent[n].size <= maxWSFramePayload
  BY <1>1, <1>3 DEF BadLength
<1> QED BY <1>2, <1>4, FrameType

\* A frame with the form that writeWSFrame chooses has the shortest one.
LEMMA FormIsShortest ==
    ASSUME NEW r, NEW size \in Nat, r.size = size, r.form = Form(size)
    PROVE  ShortestForm(r)
<1>0. maxUint16 \in Nat
  BY SMT DEF maxUint16
<1>1. CASE size <= 125
  <2>1. r.form = "head"
    BY <1>1 DEF Form
  <2> QED BY <1>1, <2>1 DEF ShortestForm
<1>2. CASE size > 125 /\ size <= maxUint16
  <2>1. r.form = "ext16"
    BY <1>0, <1>2 DEF Form
  <2>2. r.size \in 126..maxUint16
    BY <1>0, <1>2
  <2> QED BY <2>1, <2>2 DEF ShortestForm
<1>3. CASE size > 125 /\ size > maxUint16
  <2>1. r.form = "ext64"
    BY <1>0, <1>3 DEF Form
  <2> QED BY <1>0, <1>3, <2>1 DEF ShortestForm
<1> QED BY <1>0, <1>1, <1>2, <1>3

\* What is written obeys the rules the server holds its peer to (websocket.go,
\* readWSFrame and writeWSFrame).
THEOREM WritesWellFormed == Spec => []RepliesWellFormed
<1> DEFINE Fine(r) == /\ Control(r.opcode) => r.fin /\ r.form = "head"
                      /\ ShortestForm(r)
                      /\ r.size <= maxWSFramePayload
<1>0. RepliesWellFormed <=> \A i \in 1..Len(replies) : Fine(replies[i])
  BY DEF RepliesWellFormed
<1>00. RepliesWellFormed' <=> \A i \in 1..Len(replies') : Fine(replies'[i])
  BY DEF RepliesWellFormed
<1>a. ASSUME NEW size \in 0..125
      PROVE  Form(size) = "head" /\ size <= maxWSFramePayload /\ size \in Nat
  <2>1. Form(size) = "head"
    BY DEF Form
  <2>2. size <= maxWSFramePayload
    BY SMT DEF maxWSFramePayload
  <2> QED BY <2>1, <2>2
<1>1. Init => RepliesWellFormed
  BY EmptySeq DEF Init, RepliesWellFormed
<1>2. TypeInv /\ RepliesWellFormed /\ [Next]_vars => RepliesWellFormed'
  <2> SUFFICES ASSUME TypeInv, RepliesWellFormed, [Next]_vars PROVE RepliesWellFormed'
    OBVIOUS
  <2>0. TypeOK /\ Len(replies) \in Nat
    BY LenProperties DEF TypeInv, TypeOK
  <2>1. ASSUME NEW to, NEW opcode, NEW fin, NEW size \in Nat,
               Appended(to, opcode, fin, size),
               Control(opcode) => fin /\ Form(size) = "head",
               size <= maxWSFramePayload
        PROVE  RepliesWellFormed'
    <3>0. ShortestForm(replies'[Len(replies) + 1])
      BY <2>1, FormIsShortest, Zenon DEF Appended
    <3>1. Fine(replies'[Len(replies) + 1])
      BY <2>1, <3>0 DEF Appended
    <3>2. \A i \in 1..Len(replies) : Fine(replies'[i])
      BY <1>0, <2>1 DEF Appended
    <3>3. Len(replies') = Len(replies) + 1
      BY <2>1 DEF Appended
    <3> HIDE DEF Fine
    <3> QED BY <1>00, <2>0, <3>1, <3>2, <3>3
  <2>2. CASE Banner
    <3>1. Appended(0, wsOpText, TRUE, bannerSize) /\ ~Control(wsOpText)
      <4>1. Appended(0, wsOpText, TRUE, bannerSize)
        BY <2>0, <2>2, BannerIs
      <4>2. ~Control(wsOpText)
        BY DEF Control, wsOpText
      <4> QED BY <4>1, <4>2
    <3>2. bannerSize <= maxWSFramePayload /\ bannerSize \in Nat
      <4>1. bannerSize \in 1..maxWSFramePayload
        BY WebSocketAssumption
      <4>2. maxWSFramePayload \in Nat
        BY SMT DEF maxWSFramePayload
      <4> QED BY <4>1, <4>2
    <3> QED BY <2>1, <3>1, <3>2
  <2>3. CASE Accept \/ Reject
    <3> DEFINE n == read + 1
               f == sent[n]
    <3>1. n \in 1..Len(sent)
      BY <2>0, <2>3, ReadIs
    <3> HIDE DEF n
    <3>2. CASE ClosedWith(n)
      <4>1. PICK size \in 0..125 : Appended(n, wsOpClose, TRUE, size)
        BY <3>2 DEF ClosedWith
      <4> QED BY <1>a, <2>1, <4>1
    <3>3. CASE ~Malformed(f) /\ Answer(n, f)
      <4>1. CASE f.opcode = wsOpPong /\ UNCHANGED <<replies, conn>>
        BY <4>1 DEF RepliesWellFormed
      <4>2. CASE f.opcode \in 0..2 /\ Appended(n, f.opcode, f.fin, f.size)
        <5>1. ~Control(f.opcode)
          BY <4>2 DEF Control
        <5>2. f.size <= maxWSFramePayload /\ f.size \in Nat
          BY <2>0, <3>1, <3>3, InOrder, FrameType
        <5> QED BY <2>1, <4>2, <5>1, <5>2
      <4>3. CASE f.opcode = wsOpPing /\ Appended(n, wsOpPong, TRUE, f.size)
        <5>1. f.size \in 0..125
          <6>1. f.size \in Nat
            BY <2>0, <3>1, FrameType
          <6>2. f.opcode >= 8
            BY <4>3 DEF wsOpPing
          <6>3. f.size <= 125
            BY <2>0, <3>1, <3>3, <6>2, InOrder
          <6> QED BY <6>1, <6>3
        <5> QED BY <1>a, <2>1, <4>3, <5>1
      <4> QED BY <2>0, <3>1, <3>2, <3>3, <4>1, <4>2, <4>3, AnswerIs
    <3> QED BY <2>0, <2>3, <3>2, <3>3, ReadIs DEF n
  <2>4. ASSUME UNCHANGED replies PROVE RepliesWellFormed'
    BY <2>4 DEF RepliesWellFormed
  <2>5. CASE Upgrade \/ Handshake \/ ReadFails \/ Write
    BY <2>4, <2>5 DEF Upgrade, Handshake, ReadFails, Write, output
  <2>6. CASE (\E f \in Frames : Send(f)) \/ SendMore \/ Receive
    BY <2>4, <2>6 DEF Send, SendMore, Receive, output
  <2>7. CASE (\E how \in {"finished", "reset", "stalled"} : Leave(how)) \/ UNCHANGED vars
    BY <2>4, <2>7 DEF Leave, output, vars
  <2> QED BY <2>2, <2>3, <2>5, <2>6, <2>7 DEF Next, ServerStep
<1> QED BY <1>1, <1>2, TypeInvariant, PTL DEF Spec

-----------------------------------------------------------------------------

\* A frame that is read ends the connection or is answered in kind.
LEMMA ReadShape ==
    ASSUME TypeInv, Accept \/ Reject
    PROVE  /\ conn = "read" /\ read \in Nat /\ read + 1 \in 1..Len(sent) /\ read' = read + 1
           /\ UNCHANGED <<sent, part, client, flushed, received>>
           /\ \/ /\ ~Ending(sent[read + 1]) /\ sent[read + 1].opcode = wsOpPong
                 /\ UNCHANGED <<replies, conn>>
              \/ /\ ~Ending(sent[read + 1]) /\ sent[read + 1].opcode \in 0..2
                 /\ Appended(read + 1, sent[read + 1].opcode, sent[read + 1].fin, sent[read + 1].size)
              \/ /\ ~Ending(sent[read + 1]) /\ sent[read + 1].opcode = wsOpPing
                 /\ Appended(read + 1, wsOpPong, sent[read + 1].fin, sent[read + 1].size)
              \/ Ending(sent[read + 1]) /\ ClosedWith(read + 1)
<1> DEFINE n == read + 1
           f == sent[n]
<1>1. TypeOK /\ n \in 1..Len(sent) /\ read \in Nat
  BY ReadIs DEF TypeInv, TypeOK
<1> HIDE DEF n
<1>2. CASE Malformed(f) /\ ClosedWith(n)
  BY <1>1, <1>2, ReadIs DEF Ending, n
<1>3. CASE ~Malformed(f) /\ Answer(n, f)
  <2>1. ASSUME f.opcode \in {0, 1, 2, wsOpPing, wsOpPong} PROVE ~Ending(f)
    BY <1>3, <2>1 DEF Ending
  <2>2. CASE f.opcode = wsOpPong /\ UNCHANGED <<replies, conn>>
    BY <1>1, <2>1, <2>2, ReadIs DEF n
  <2>3. CASE f.opcode \in 0..2 /\ Appended(n, f.opcode, f.fin, f.size)
    BY <1>1, <2>1, <2>3, ReadIs DEF n
  <2>4. CASE f.opcode = wsOpPing /\ Appended(n, wsOpPong, TRUE, f.size)
    <3>1. f.opcode >= 8
      BY <2>4 DEF wsOpPing
    <3>2. f.fin = TRUE
      BY <1>1, <1>3, <3>1, InOrder, FrameType
    <3> QED BY <1>1, <2>1, <2>4, <3>2, ReadIs DEF n
  <2>5. CASE f.opcode \notin {0, 1, 2, wsOpPing, wsOpPong} /\ ClosedWith(n)
    BY <1>1, <2>5, ReadIs DEF Ending, n
  <2> QED BY <1>1, <1>3, <2>2, <2>3, <2>4, <2>5, AnswerIs
<1> QED BY <1>1, <1>2, <1>3, ReadIs DEF n

\* The three parts of EchoesVerbatim.
Ordered ==
    \A i, j \in 1..Len(replies) : i < j => replies[i].to < replies[j].to
Echoes(r, f) ==
    r.opcode # wsOpClose =>
      /\ r.opcode = IF f.opcode = wsOpPing THEN wsOpPong ELSE f.opcode
      /\ r.fin = f.fin /\ r.size = f.size
Faithful ==
    \A i \in 1..Len(replies) :
      replies[i].to \in 0..read /\ (i > 1 => Echoes(replies[i], sent[replies[i].to]))
Complete ==
    \A n \in 1..read : Answered(n) \/ sent[n].opcode = wsOpPong

\* An answer keeps the three parts: it is to a frame later than those before.
LEMMA AnswerEchoes ==
    ASSUME TypeInv, Accept \/ Reject, Ordered, Faithful, Complete,
           NEW opcode, NEW fin, NEW size, Appended(read + 1, opcode, fin, size),
           opcode # wsOpClose =>
             /\ opcode = IF sent[read + 1].opcode = wsOpPing
                         THEN wsOpPong ELSE sent[read + 1].opcode
             /\ fin = sent[read + 1].fin /\ size = sent[read + 1].size
    PROVE  Ordered' /\ Faithful' /\ Complete'
<1> DEFINE n == read + 1
           k == Len(replies) + 1
<1>1. /\ read \in Nat /\ read' = n /\ sent' = sent /\ Len(replies) \in Nat
      /\ n \in Nat /\ k \in Nat
  BY ReadShape, LenProperties DEF TypeInv, TypeOK
<1>2. Len(replies') = k /\ \A i \in 1..Len(replies) : replies'[i] = replies[i]
  BY DEF Appended
<1>3. replies'[k].to = n /\ replies'[k].opcode = opcode
      /\ replies'[k].fin = fin /\ replies'[k].size = size
  BY DEF Appended
<1>4. \A i \in 1..Len(replies) : replies[i].to \in 0..read
  BY DEF Faithful
<1> HIDE DEF n, k
<1>5. Ordered'
  <2> SUFFICES ASSUME NEW i \in 1..k, NEW j \in 1..k, i < j
               PROVE  replies'[i].to < replies'[j].to
    BY <1>2 DEF Ordered
  <2>1. i \in 1..Len(replies) /\ replies'[i] = replies[i] /\ replies[i].to \in 0..read
    BY <1>1, <1>2, <1>4 DEF k
  <2>2. CASE j = k
    BY <1>1, <1>3, <2>1, <2>2 DEF n
  <2>3. CASE j \in 1..Len(replies)
    BY <1>2, <2>1, <2>3 DEF Ordered
  <2> QED BY <1>1, <2>2, <2>3 DEF k
<1>6. Faithful'
  <2> SUFFICES ASSUME NEW i \in 1..k
               PROVE  /\ replies'[i].to \in 0..n
                      /\ i > 1 => Echoes(replies'[i], sent[replies'[i].to])
    BY <1>1, <1>2 DEF Faithful
  <2>1. CASE i \in 1..Len(replies)
    <3>1. replies[i].to \in 0..n
      BY <1>1, <1>4, <2>1 DEF n
    <3> QED BY <1>2, <2>1, <3>1 DEF Faithful
  <2>2. CASE i = k
    <3>1. Echoes(replies'[k], sent[n])
      BY <1>3 DEF Echoes, n
    <3> QED BY <1>1, <1>3, <2>2, <3>1
  <2> QED BY <1>1, <2>1, <2>2 DEF k
<1>7. Complete'
  <2> SUFFICES ASSUME NEW m \in 1..n PROVE Answered(m)' \/ sent[m].opcode = wsOpPong
    BY <1>1 DEF Complete
  <2>1. ASSUME Answered(m) PROVE Answered(m)'
    <3>1. PICK i \in 1..Len(replies) : replies[i].to = m
      BY <2>1 DEF Answered
    <3>2. i \in 1..k /\ replies'[i].to = m
      BY <1>1, <1>2, <3>1 DEF k
    <3> QED BY <1>2, <3>2 DEF Answered
  <2>2. CASE m \in 1..read
    BY <2>1, <2>2 DEF Complete
  <2>3. CASE m = n
    <3>1. k \in 1..k /\ replies'[k].to = m
      BY <1>1, <1>3, <2>3 DEF k
    <3> QED BY <1>2, <3>1 DEF Answered
  <2> QED BY <1>1, <2>2, <2>3 DEF n
<1> QED BY <1>5, <1>6, <1>7

Inv == Ordered /\ Faithful /\ Complete

\* What comes back is in the order of the frames, the frames again, and whole.
LEMMA EchoInvariant == Spec => []Inv
<1>1. Init => Inv
  <2> SUFFICES ASSUME Init PROVE Ordered /\ Faithful /\ Complete
    BY DEF Inv
  <2>1. Len(replies) = 0 /\ read = 0
    BY EmptySeq DEF Init
  <2> QED BY <2>1 DEF Ordered, Faithful, Complete
<1>2. TypeInv /\ Inv /\ [Next]_vars => Inv'
  <2> SUFFICES ASSUME TypeInv, Ordered, Faithful, Complete, [Next]_vars
               PROVE  Ordered' /\ Faithful' /\ Complete'
    BY DEF Inv
  <2>0. TypeOK /\ Len(replies) \in Nat
    BY LenProperties DEF TypeInv, TypeOK
  <2>1. CASE Banner
    <3>1. replies = <<>> /\ read = 0 /\ read' = 0 /\ Appended(0, wsOpText, TRUE, bannerSize)
      BY <2>0, <2>1, BannerIs DEF TypeInv, Started
    <3>2. Len(replies) = 0 /\ Len(replies') = 1 /\ replies'[1].to = 0
      BY <3>1, EmptySeq DEF Appended
    <3> QED BY <3>1, <3>2 DEF Ordered, Faithful, Complete
  <2>2. CASE Accept \/ Reject
    <3> DEFINE n == read + 1
               f == sent[n]
    <3>1. CASE f.opcode = wsOpPong /\ UNCHANGED <<replies, conn>>
      <4>1. read' = n /\ n \in Nat /\ read \in Nat /\ sent' = sent /\ replies' = replies
        BY <2>2, <3>1, ReadShape
      <4>2. Ordered' /\ Faithful'
        BY <4>1 DEF Ordered, Faithful
      <4>3. Complete'
        BY <3>1, <4>1 DEF Complete, Answered
      <4> QED BY <4>2, <4>3
    <3>2. CASE f.opcode \in 0..2 /\ Appended(n, f.opcode, f.fin, f.size)
      BY <2>2, <3>2, AnswerEchoes DEF wsOpPing
    <3>3. CASE f.opcode = wsOpPing /\ Appended(n, wsOpPong, f.fin, f.size)
      BY <2>2, <3>3, AnswerEchoes
    <3>4. CASE ClosedWith(n)
      <4>1. PICK size \in 0..125 : Appended(n, wsOpClose, TRUE, size)
        BY <3>4 DEF ClosedWith
      <4> QED BY <2>2, <4>1, AnswerEchoes
    <3> QED BY <2>2, <3>1, <3>2, <3>3, <3>4, ReadShape
  <2>3. ASSUME UNCHANGED <<replies, read, sent>> PROVE Ordered' /\ Faithful' /\ Complete'
    BY <2>3 DEF Ordered, Faithful, Complete, Answered
  <2>4. CASE Upgrade \/ Handshake \/ ReadFails \/ Write
    BY <2>3, <2>4 DEF Upgrade, Handshake, ReadFails, Write, input, output
  <2>5. ASSUME NEW f \in Frames, Send(f) PROVE Ordered' /\ Faithful' /\ Complete'
    <3>1. /\ read' = read /\ replies' = replies /\ read \in Nat
          /\ \A n \in 1..read : sent'[n] = sent[n]
      BY <2>0, <2>5, SendKeeps DEF TypeOK
    <3>2. Ordered' /\ Complete'
      BY <3>1 DEF Ordered, Complete, Answered
    <3>3. Faithful'
      <4> SUFFICES ASSUME NEW i \in 1..Len(replies)
                   PROVE  /\ replies[i].to \in 0..read
                          /\ i > 1 => Echoes(replies[i], sent'[replies[i].to])
        BY <3>1 DEF Faithful
      <4>1. replies[i].to \in 0..read /\ (i > 1 => Echoes(replies[i], sent[replies[i].to]))
        BY DEF Faithful
      <4>2. i > 1 => replies[i].to \in 1..read
        <5>1. i > 1 => replies[1].to < replies[i].to /\ replies[1].to \in 0..read
          BY <2>0 DEF Ordered, Faithful
        <5> QED BY <3>1, <4>1, <5>1
      <4> QED BY <3>1, <4>1, <4>2
    <3> QED BY <3>2, <3>3
  <2>6. CASE SendMore \/ Receive \/ UNCHANGED vars
    BY <2>3, <2>6 DEF SendMore, Receive, input, output, vars
  <2>7. ASSUME NEW how \in {"finished", "reset", "stalled"}, Leave(how) PROVE Ordered' /\ Faithful' /\ Complete'
    BY <2>3, <2>7 DEF Leave, output
  <2> QED BY <2>1, <2>2, <2>4, <2>5, <2>6, <2>7 DEF Next, ServerStep
<1> QED BY <1>1, <1>2, TypeInvariant, PTL DEF Spec

\* What comes back is what was sent, frame by frame (websocket.go, handleWS).
THEOREM EchoIsFaithful == Spec => []EchoesVerbatim
<1>1. Inv => EchoesVerbatim
  BY DEF Inv, Ordered, Faithful, Complete, Echoes, EchoesVerbatim
<1> QED BY <1>1, EchoInvariant, PTL

-----------------------------------------------------------------------------

\* The server closes once, last, and exactly for what ends a connection
\* (websocket.go, handleWS and errWSProtocol).
THEOREM ClosesLast == Spec => []CloseIsLast
<1>1. Init => CloseIsLast
  <2> SUFFICES ASSUME Init PROVE CloseIsLast
    OBVIOUS
  <2>1. Len(replies) = 0 /\ read = 0
    BY EmptySeq DEF Init
  <2> QED BY <2>1 DEF CloseIsLast
<1>2. TypeInv /\ CloseIsLast /\ [Next]_vars => CloseIsLast'
  <2> SUFFICES ASSUME TypeInv, CloseIsLast, [Next]_vars PROVE CloseIsLast'
    OBVIOUS
  <2>0. TypeOK /\ Len(replies) \in Nat /\ read \in Nat
    BY LenProperties DEF TypeInv, TypeOK
  <2>1. CASE Banner
    <3>1. replies = <<>> /\ read' = 0 /\ Appended(0, wsOpText, TRUE, bannerSize)
      BY <2>0, <2>1, BannerIs DEF TypeInv, Started
    <3>2. Len(replies') = 1 /\ replies'[1].opcode = wsOpText
      BY <3>1, EmptySeq DEF Appended
    <3>3. wsOpText # wsOpClose
      BY DEF wsOpText, wsOpClose
    <3> QED BY <3>1, <3>2, <3>3 DEF CloseIsLast
  <2>2. CASE Accept \/ Reject
    <3> DEFINE n == read + 1
               k == Len(replies) + 1
    <3>1. /\ conn = "read" /\ read' = n /\ sent' = sent /\ replies # <<>>
      BY <2>2, ReadShape DEF TypeInv, Started
    <3>2. \A i \in 1..Len(replies) : replies[i].opcode # wsOpClose
      BY <3>1 DEF CloseIsLast
    <3>3. Len(replies) \in 1..Len(replies)
      BY <2>0, <3>1, EmptySeq DEF TypeOK
    <3>4. \A m \in 1..read : ~Ending(sent[m])
      BY <3>2, <3>3 DEF CloseIsLast
    <3>5. CASE ~Ending(sent[n]) /\ UNCHANGED <<replies, conn>>
      BY <2>0, <3>1, <3>2, <3>3, <3>4, <3>5 DEF CloseIsLast
    <3>6. ASSUME NEW opcode, NEW fin, NEW size, Appended(n, opcode, fin, size),
                 Ending(sent[n]) <=> opcode = wsOpClose
          PROVE  CloseIsLast'
      <4>1. /\ Len(replies') = k /\ k \in Nat /\ conn' = "write"
            /\ \A i \in 1..Len(replies) : replies'[i] = replies[i]
            /\ replies'[k].to = n /\ replies'[k].opcode = opcode
        BY <2>0, <3>6 DEF Appended
      <4>2. n \in Nat
        BY <2>0
      <4>3. \A i \in 1..k : i = k \/ i \in 1..Len(replies)
        BY <2>0
      <4>4. \A m \in 1..n : m = n \/ m \in 1..read
        BY <2>0
      <4>5. \A m \in 1..read : m # n
        BY <2>0
      <4> HIDE DEF n, k
      <4>6. ASSUME NEW i \in 1..k, replies'[i].opcode = wsOpClose
            PROVE  i = k /\ replies'[i].to = n
        BY <3>2, <4>1, <4>3, <4>6
      <4>7. ASSUME NEW m \in 1..n
            PROVE  Ending(sent[m]) <=> m = n /\ replies'[k].opcode = wsOpClose
        BY <3>4, <3>6, <4>1, <4>4, <4>5
      <4> QED BY <3>1, <4>1, <4>6, <4>7 DEF CloseIsLast
    <3>7. CASE ~Ending(sent[n]) /\ sent[n].opcode \in 0..2
               /\ Appended(n, sent[n].opcode, sent[n].fin, sent[n].size)
      BY <3>6, <3>7 DEF wsOpClose
    <3>8. CASE ~Ending(sent[n]) /\ Appended(n, wsOpPong, sent[n].fin, sent[n].size)
      BY <3>6, <3>8 DEF wsOpPong, wsOpClose
    <3>9. CASE Ending(sent[n]) /\ ClosedWith(n)
      BY <3>6, <3>9 DEF ClosedWith
    <3> QED BY <2>2, <3>5, <3>7, <3>8, <3>9, ReadShape
  <2>3. ASSUME UNCHANGED <<replies, read, sent>>, conn # "closed" \/ UNCHANGED conn,
               conn = "write" =>
                 conn' = "closed" \/ UNCHANGED conn
                   \/ replies[Len(replies)].opcode # wsOpClose
        PROVE  CloseIsLast'
    BY <2>0, <2>3 DEF CloseIsLast
  <2>4. CASE Upgrade \/ Handshake \/ ReadFails
    BY <2>3, <2>4 DEF Upgrade, Handshake, ReadFails, input, output
  <2>5. CASE Write
    BY <2>3, <2>5 DEF Write, WriteFails, input
  <2>6. ASSUME NEW f \in Frames, Send(f) PROVE CloseIsLast'
    BY <2>0, <2>6, SendKeeps DEF CloseIsLast
  <2>7. CASE SendMore \/ Receive \/ UNCHANGED vars
    BY <2>3, <2>7 DEF SendMore, Receive, input, output, vars
  <2>8. ASSUME NEW how \in {"finished", "reset", "stalled"}, Leave(how) PROVE CloseIsLast'
    BY <2>3, <2>8 DEF Leave, output
  <2> QED BY <2>1, <2>2, <2>4, <2>5, <2>6, <2>7, <2>8 DEF Next, ServerStep
<1> QED BY <1>1, <1>2, TypeInvariant, PTL DEF Spec

\* No connection is closed on a client that is owed an answer and has not reset
\* it (websocket.go, handleWS).
THEOREM ClosesForReason == Spec => []ClosedForReason
<1>1. Init => ClosedForReason
  BY DEF Init, ClosedForReason
<1>2. TypeInv /\ ClosedForReason /\ [Next]_vars => ClosedForReason'
  <2> SUFFICES ASSUME TypeInv, ClosedForReason, [Next]_vars PROVE ClosedForReason'
    OBVIOUS
  <2>0. TypeOK /\ Len(replies) \in Nat /\ Len(sent) \in Nat /\ read \in Nat
    BY LenProperties DEF TypeInv, TypeOK
  <2>1. CASE Upgrade \/ Handshake
    BY <2>1 DEF Upgrade, Handshake, input, output, ClosedForReason
  <2>2. CASE Banner
    BY <2>0, <2>2, BannerIs DEF Appended, ClosedForReason
  <2>3. CASE Accept \/ Reject
    BY <2>3, ReadShape DEF Appended, ClosedWith, ClosedForReason
  <2>4. CASE ReadFails
    <3>1. flushed = Len(replies) /\ replies # <<>>
      BY <2>4 DEF ReadFails, TypeInv, Flushing, Started
    <3>2. client = "finished" /\ read < Len(sent) /\ client # "reset"
            => read + 1 = Len(sent) /\ part # "whole"
      <4> SUFFICES ASSUME client = "finished", read < Len(sent), client # "reset"
                   PROVE  read + 1 = Len(sent) /\ part # "whole"
        OBVIOUS
      <4>1. ~Accepts(sent[read + 1], Arrived) /\ ~Rejects(sent[read + 1], Arrived)
        BY <2>4 DEF ReadFails, Broken
      <4>2. Arrived # "whole"
        BY <4>1, Zenon DEF Accepts, Rejects
      <4> QED BY <4>2 DEF Arrived
    <3>3. client \in {"reset", "finished"} /\ UNCHANGED <<input, read, output>>
      BY <2>4 DEF ReadFails, Broken
    <3> QED BY <3>1, <3>2, <3>3 DEF input, output, ClosedForReason
  <2>5. CASE Write
    <3>1. conn = "write" /\ flushed + 1 = Len(replies) /\ replies # <<>>
      BY <2>5 DEF Write, TypeInv, Flushing, Started
    <3> QED BY <2>5, <3>1 DEF Write, WriteFails, input, ClosedForReason
  <2>6. ASSUME NEW f \in Frames, Send(f) PROVE ClosedForReason'
    BY <2>6 DEF Send, Connected, output, ClosedForReason
  <2>7. CASE SendMore \/ Receive
    BY <2>7 DEF SendMore, Receive, Connected, input, output, ClosedForReason
  <2>8. ASSUME NEW how \in {"finished", "reset", "stalled"}, Leave(how)
        PROVE  ClosedForReason'
    BY <2>8 DEF Leave, output, ClosedForReason
  <2>9. CASE UNCHANGED vars
    BY <2>9 DEF vars, ClosedForReason
  <2> QED BY <2>1, <2>2, <2>3, <2>4, <2>5, <2>6, <2>7, <2>8, <2>9 DEF Next, ServerStep
<1> QED BY <1>1, <1>2, TypeInvariant, PTL DEF Spec

-----------------------------------------------------------------------------

\* The first reply is the banner, a whole text message.
BannerFirst ==
    replies # <<>> =>
      replies[1].to = 0 /\ replies[1].opcode = wsOpText /\ replies[1].fin

LEMMA BannerInvariant == Spec => []BannerFirst
<1>1. Init => BannerFirst
  BY DEF Init, BannerFirst
<1>2. TypeInv /\ BannerFirst /\ [Next]_vars => BannerFirst'
  <2> SUFFICES ASSUME TypeInv, BannerFirst, [Next]_vars PROVE BannerFirst'
    OBVIOUS
  <2>0. TypeOK /\ replies \in Seq(Replies) /\ Len(replies) \in Nat
    BY LenProperties DEF TypeInv, TypeOK
  <2>1. CASE Banner
    <3>1. replies = <<>> /\ Appended(0, wsOpText, TRUE, bannerSize)
      BY <2>0, <2>1, BannerIs DEF TypeInv, Started
    <3> QED BY <3>1, EmptySeq DEF Appended, BannerFirst
  <2>2. CASE Accept \/ Reject
    <3>1. conn = "read"
      BY <2>2, ReadShape
    <3>2. 1 \in 1..Len(replies)
      BY <2>0, <3>1, EmptySeq DEF TypeInv, Started
    <3>3. replies'[1] = replies[1]
      BY <2>2, <3>2, ReadShape DEF Appended, ClosedWith
    <3> QED BY <2>0, <3>2, <3>3, EmptySeq DEF BannerFirst
  <2>3. CASE UNCHANGED replies
    BY <2>3 DEF BannerFirst
  <2> QED BY <2>1, <2>2, <2>3
          DEF Next, ServerStep, Upgrade, Handshake, ReadFails, Write, Send, SendMore,
              Receive, Leave, output, vars
<1> QED BY <1>1, <1>2, TypeInvariant, PTL DEF Spec

\* Replies are in the order of the frames they answer.
LEMMA ToOrder ==
    ASSUME TypeOK, Ordered, NEW i \in 1..Len(replies), NEW j \in 1..Len(replies),
           replies[i].to < replies[j].to, Faithful
    PROVE  i < j
<1>1. replies[i].to \in Nat /\ replies[j].to \in Nat /\ Len(replies) \in Nat
  BY LenProperties DEF Faithful, TypeOK
<1>2. ~(j < i) /\ i # j
  BY <1>1 DEF Ordered
<1> QED BY <1>1, <1>2

\* A data frame after the banner is the frame it answers.
LEMMA DataReply ==
    ASSUME TypeOK, Inv, BannerFirst, NEW i \in 1..Len(replies), i > 1,
           ~Control(replies[i].opcode)
    PROVE  /\ replies[i].to \in 1..read
           /\ sent[replies[i].to].opcode = replies[i].opcode
           /\ sent[replies[i].to].fin = replies[i].fin
<1>1. Len(replies) \in Nat /\ read \in Nat /\ 1 \in 1..Len(replies)
  BY LenProperties DEF TypeOK
<1>2. replies[i].opcode # wsOpClose /\ replies[i].opcode # wsOpPong
  BY DEF Control, wsOpClose, wsOpPong
<1>3. replies[i].to \in 0..read /\ Echoes(replies[i], sent[replies[i].to])
  BY DEF Inv, Faithful
<1>4. replies[1].to < replies[i].to /\ replies[1].to \in 0..read
  BY <1>1 DEF Inv, Ordered, Faithful
<1> QED BY <1>1, <1>2, <1>3, <1>4 DEF Echoes

\* A data frame that others were read after came back.
LEMMA DataAnswered ==
    ASSUME TypeOK, Inv, BannerFirst, CloseIsLast, NEW m \in 1..read, m < read,
           ~Control(sent[m].opcode)
    PROVE  \E i \in 1..Len(replies) :
             /\ i > 1 /\ replies[i].to = m
             /\ replies[i].opcode = sent[m].opcode /\ replies[i].fin = sent[m].fin
<1>1. Len(replies) \in Nat /\ read \in Nat
  BY LenProperties DEF TypeOK
<1>2. sent[m].opcode # wsOpPong /\ sent[m].opcode # wsOpPing
  BY DEF Control, wsOpPong, wsOpPing
<1>3. PICK i \in 1..Len(replies) : replies[i].to = m
  BY <1>2 DEF Inv, Complete, Answered
<1>4. replies # <<>>
  BY <1>1, <1>3, EmptySeq
<1>5. i > 1
  BY <1>1, <1>3, <1>4 DEF BannerFirst
<1>6. replies[i].opcode # wsOpClose
  BY <1>1, <1>3 DEF CloseIsLast
<1>7. Echoes(replies[i], sent[m])
  BY <1>3, <1>5 DEF Inv, Faithful
<1> QED BY <1>2, <1>3, <1>5, <1>6, <1>7 DEF Echoes

\* A data frame continues a message on its way back as it did on its way in.
LEMMA ContinuesAlike ==
    ASSUME TypeOK, Inv, BannerFirst, CloseIsLast, NEW i \in 1..Len(replies), i > 1,
           ~Control(replies[i].opcode)
    PROVE  Continues(sent, replies[i].to) <=> Continues(replies, i)
<1> DEFINE m == replies[i].to
<1>0. Len(replies) \in Nat /\ read \in Nat /\ m \in 1..read /\ Ordered /\ Faithful
  BY DataReply, LenProperties DEF TypeOK, Inv
<1> HIDE DEF m
<1>1. ASSUME Continues(sent, m) PROVE Continues(replies, i)
  <2>1. PICK p \in 1..(m - 1) :
          /\ ~Control(sent[p].opcode) /\ ~sent[p].fin
          /\ \A k \in (p + 1)..(m - 1) : Control(sent[k].opcode)
    BY <1>1 DEF Continues
  <2>2. p \in 1..read /\ p < read /\ p < m
    BY <1>0, <2>1
  <2>3. PICK j \in 1..Len(replies) :
          /\ j > 1 /\ replies[j].to = p
          /\ replies[j].opcode = sent[p].opcode /\ replies[j].fin = sent[p].fin
    BY <2>1, <2>2, DataAnswered
  <2>4. j \in 1..(i - 1)
    BY <1>0, <2>2, <2>3, ToOrder DEF m
  <2>5. ASSUME NEW k \in (j + 1)..(i - 1) PROVE Control(replies[k].opcode)
    <3>1. k \in 1..Len(replies) /\ k > 1 /\ j < k /\ k < i
      BY <1>0, <2>4, <2>5
    <3>2. p < replies[k].to /\ replies[k].to < m
      BY <2>3, <3>1, <1>0 DEF Ordered, m
    <3>3. SUFFICES ASSUME ~Control(replies[k].opcode) PROVE FALSE
      OBVIOUS
    <3>4. replies[k].to \in 1..read /\ ~Control(sent[replies[k].to].opcode)
      BY <3>1, <3>3, DataReply
    <3>5. replies[k].to \in (p + 1)..(m - 1)
      BY <1>0, <3>2, <3>4
    <3> QED BY <2>1, <3>4, <3>5
  <2> QED BY <2>1, <2>3, <2>4, <2>5 DEF Continues
<1>2. ASSUME Continues(replies, i) PROVE Continues(sent, m)
  <2>1. PICK j \in 1..(i - 1) :
          /\ ~Control(replies[j].opcode) /\ ~replies[j].fin
          /\ \A k \in (j + 1)..(i - 1) : Control(replies[k].opcode)
    BY <1>2 DEF Continues
  <2>2. j \in 1..Len(replies) /\ j < i
    BY <1>0, <2>1
  <2>3. j > 1
    BY <1>0, <2>1, <2>2, EmptySeq DEF BannerFirst
  <2> DEFINE p == replies[j].to
  <2>4. /\ p \in 1..read /\ sent[p].opcode = replies[j].opcode
        /\ sent[p].fin = replies[j].fin
    BY <2>1, <2>2, <2>3, DataReply
  <2>5. p < m
    BY <1>0, <2>2 DEF Ordered, m
  <2> HIDE DEF p
  <2>6. ASSUME NEW k \in (p + 1)..(m - 1) PROVE Control(sent[k].opcode)
    <3>1. SUFFICES ASSUME ~Control(sent[k].opcode) PROVE FALSE
      OBVIOUS
    <3>2. k \in 1..read /\ k < read /\ p < k /\ k < m
      BY <1>0, <2>4, <2>6
    <3>3. PICK l \in 1..Len(replies) :
            l > 1 /\ replies[l].to = k /\ replies[l].opcode = sent[k].opcode
      BY <3>1, <3>2, DataAnswered
    <3>4. j < l /\ l < i
      BY <1>0, <2>2, <3>2, <3>3, ToOrder DEF p, m
    <3>5. l \in (j + 1)..(i - 1)
      BY <1>0, <3>4
    <3> QED BY <2>1, <3>1, <3>3, <3>5
  <2>7. p \in 1..(m - 1)
    BY <1>0, <2>4, <2>5
  <2> QED BY <2>1, <2>4, <2>6, <2>7 DEF Continues
<1> QED BY <1>1, <1>2 DEF m

\* A message that came in fragments can be put together from what comes back,
\* whatever control frames came between (websocket.go, handleWS).
THEOREM FragmentsComeBack == Spec => []FragmentsReassemble
<1>1. TypeOK /\ Inv /\ BannerFirst /\ CloseIsLast => FragmentsReassemble
  <2> SUFFICES ASSUME TypeOK, Inv, BannerFirst, CloseIsLast, Fragmented(sent, read),
                      NEW i \in 1..Len(replies), ~Control(replies[i].opcode)
               PROVE  replies[i].opcode = 0 <=> Continues(replies, i)
    BY DEF FragmentsReassemble, Fragmented
  <2>0. Len(replies) \in Nat
    BY LenProperties DEF TypeOK
  <2>1. CASE i = 1
    <3>1. replies[i].opcode = wsOpText
      BY <2>0, <2>1, EmptySeq DEF BannerFirst
    <3>2. ~Continues(replies, i)
      BY <2>1 DEF Continues
    <3> QED BY <3>1, <3>2 DEF wsOpText
  <2>2. CASE i > 1
    <3>1. /\ replies[i].to \in 1..read
          /\ sent[replies[i].to].opcode = replies[i].opcode
      BY <2>2, DataReply
    <3>2. replies[i].opcode = 0 <=> Continues(sent, replies[i].to)
      BY <3>1 DEF Fragmented
    <3> QED BY <2>2, <3>2, ContinuesAlike
  <2> QED BY <2>0, <2>1, <2>2
<1> QED BY <1>1, TypeCorrect, EchoInvariant, BannerInvariant, ClosesLast, PTL
====
