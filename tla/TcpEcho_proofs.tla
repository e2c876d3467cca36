---- MODULE TcpEcho_proofs ----
(***************************************************************************)
(* Proofs about TcpEcho, for any sizes of reads, buffers and streams.      *)
(***************************************************************************)
EXTENDS TcpEcho, SequenceTheorems, TLAPS

\* A sequence is its first k elements and the rest.
LEMMA Cut ==
    ASSUME NEW S, NEW s \in Seq(S), NEW k \in 1..Len(s)
    PROVE  /\ SubSeq(s, 1, k) \in Seq(S) /\ Len(SubSeq(s, 1, k)) = k
           /\ SubSeq(s, k + 1, Len(s)) \in Seq(S)
           /\ Len(SubSeq(s, k + 1, Len(s))) = Len(s) - k
           /\ SubSeq(s, 1, k) \o SubSeq(s, k + 1, Len(s)) = s
<1>0. Len(s) \in Nat /\ \A i \in 1..Len(s) : s[i] \in S
  BY LenProperties, ElementOfSeq
<1>1. SubSeq(s, 1, k) \in Seq(S) /\ Len(SubSeq(s, 1, k)) = k
  BY <1>0, SubSeqProperties
<1>2. /\ SubSeq(s, k + 1, Len(s)) \in Seq(S)
      /\ Len(SubSeq(s, k + 1, Len(s))) = Len(s) - k
  BY <1>0, SubSeqProperties
<1>3. SubSeq(s, 1, k) \o SubSeq(s, k + 1, Len(s)) = SubSeq(s, 1, Len(s))
  BY <1>0, ConcatAdjacentSubSeq
<1> QED BY <1>1, <1>2, <1>3, SubSeqFull

\* The head moved to the end of the sequence before it.
LEMMA MoveHead ==
    ASSUME NEW S, NEW s \in Seq(S), NEW t \in Seq(S), t # <<>>
    PROVE  /\ Append(s, Head(t)) \in Seq(S) /\ Tail(t) \in Seq(S)
           /\ Len(Tail(t)) <= Len(t)
           /\ Append(s, Head(t)) \o Tail(t) = s \o t
<1>1. /\ Head(t) \in S /\ Tail(t) \in Seq(S) /\ Len(Tail(t)) = Len(t) - 1
      /\ Len(t) \in Nat /\ Len(t) >= 1
  BY HeadTailProperties, LenProperties, EmptySeq
<1>2. Tail(t) = SubSeq(t, 2, Len(t)) /\ Head(t) = t[1] /\ t = SubSeq(t, 1, Len(t))
  BY TailIsSubSeq, SubSeqFull, HeadTailProperties
<1>3. SubSeq(t, 1, Len(t)) = <<t[1]>> \o SubSeq(t, 2, Len(t))
  BY <1>1, SubSeqRecursiveFirst
<1>4. <<Head(t)>> \o Tail(t) = t
  BY <1>2, <1>3
<1>5. Append(s, Head(t)) = s \o <<Head(t)>> /\ Append(s, Head(t)) \in Seq(S)
  BY <1>1, AppendIsConcat, AppendProperties
<1>6. (s \o <<Head(t)>>) \o Tail(t) = s \o (<<Head(t)>> \o Tail(t))
  BY <1>1, ConcatAssociative
<1> QED BY <1>1, <1>4, <1>5, <1>6

\* Concatenation is associative, for sequences of bytes.
LEMMA Associative ==
    \A r, b, i \in Seq(Bytes) : r \o b \o i = r \o (b \o i)
BY ConcatAssociative

\* A step of Write moves the front of buf to the end of out.
LEMMA WriteMoves ==
    ASSUME TypeOK, NEW k \in 1..Smaller(Len(buf), PipeCap - Len(out))
    PROVE  /\ out \o SubSeq(buf, 1, k) \in Seq(Bytes)
           /\ Len(out \o SubSeq(buf, 1, k)) <= PipeCap
           /\ SubSeq(buf, k + 1, Len(buf)) \in Seq(Bytes)
           /\ Len(SubSeq(buf, k + 1, Len(buf))) <= readBufferSize
           /\ (out \o SubSeq(buf, 1, k)) \o SubSeq(buf, k + 1, Len(buf)) = out \o buf
<1>1. /\ Len(buf) \in Nat /\ Len(out) \in Nat /\ PipeCap \in Nat
      /\ readBufferSize \in Nat /\ Len(buf) <= readBufferSize
  BY LenProperties, EchoAssumption DEF TypeOK
<1>2. k \in 1..Len(buf) /\ k <= PipeCap - Len(out)
  BY <1>1 DEF Smaller
<1>3. out \in Seq(Bytes) /\ buf \in Seq(Bytes)
  BY DEF TypeOK
<1> DEFINE a == SubSeq(buf, 1, k)
           b == SubSeq(buf, k + 1, Len(buf))
<1>4. /\ a \in Seq(Bytes) /\ Len(a) = k /\ b \in Seq(Bytes) /\ a \o b = buf
      /\ Len(b) = Len(buf) - k
  BY <1>2, <1>3, Cut
<1> HIDE DEF a, b
<1>5. out \o a \in Seq(Bytes) /\ Len(out \o a) = Len(out) + k
  BY <1>3, <1>4, ConcatProperties
<1>6. (out \o a) \o b = out \o (a \o b)
  <2>1. out \in Seq(Bytes) /\ a \in Seq(Bytes) /\ b \in Seq(Bytes)
    BY <1>3, <1>4
  <2> QED BY <2>1, Associative, Zenon
<1>7. Len(out \o a) <= PipeCap
  BY <1>1, <1>2, <1>4, <1>5
<1>8. (out \o a) \o b = out \o buf
  BY <1>4, <1>6, Zenon
<1>9. Len(b) <= readBufferSize
  BY <1>1, <1>2, <1>4
<1> QED BY <1>4, <1>5, <1>7, <1>8, <1>9, Zenon DEF a, b

\* A step of Read moves the front of in to buf.
LEMMA ReadMoves ==
    ASSUME TypeOK, NEW k \in 1..Smaller(readBufferSize, Len(in))
    PROVE  /\ SubSeq(in, 1, k) \in Seq(Bytes)
           /\ Len(SubSeq(in, 1, k)) <= readBufferSize
           /\ SubSeq(in, k + 1, Len(in)) \in Seq(Bytes)
           /\ Len(SubSeq(in, k + 1, Len(in))) <= PipeCap
           /\ SubSeq(in, 1, k) \o SubSeq(in, k + 1, Len(in)) = in
<1>1. Len(in) \in Nat /\ readBufferSize \in Nat /\ PipeCap \in Nat /\ Len(in) <= PipeCap
      /\ in \in Seq(Bytes)
  BY LenProperties, EchoAssumption DEF TypeOK
<1>2. k \in 1..Len(in) /\ k <= readBufferSize
  BY <1>1 DEF Smaller
<1> QED BY <1>1, <1>2, Cut

\* The variables keep their types, a read returns no more than its buffer takes,
\* and the socket buffers keep their capacity
\* (tcpecho.go, handleConn).
THEOREM TypeCorrect == Spec => []TypeOK
<1>1. Init => TypeOK
  <2> SUFFICES ASSUME Init PROVE TypeOK
    OBVIOUS
  <2>1. /\ 0 \in Bytes /\ <<>> \in Seq(Bytes) /\ <<0>> \in Seq(Bytes)
        /\ Len(<<>>) = 0 /\ Len(<<0>>) = 1
    BY EchoAssumption, EmptySeq DEF Bytes
  <2> QED BY <2>1, EchoAssumption DEF Init, TypeOK
<1>2. TypeOK /\ [Next]_vars => TypeOK'
  <2> SUFFICES ASSUME TypeOK, [Next]_vars PROVE TypeOK'
    OBVIOUS
  <2>1. ASSUME NEW at, Write(at) PROVE TypeOK'
    BY <2>1, WriteMoves DEF Write, TypeOK
  <2>2. CASE SetReadDeadline
    BY <2>2 DEF SetReadDeadline, TypeOK
  <2>3. CASE Read
    BY <2>3, ReadMoves DEF Read, TypeOK
  <2>4. CASE IdleTimeout
    BY <2>4 DEF IdleTimeout, TypeOK
  <2>5. CASE Send
    <3>1. sent + 1 \in Bytes /\ sent + 1 \in 0..MaxBytes
      BY <2>5, EchoAssumption DEF Send, TypeOK, Bytes
    <3>2. Append(in, sent + 1) \in Seq(Bytes) /\ Len(Append(in, sent + 1)) <= PipeCap
      BY <2>5, <3>1, AppendProperties, LenProperties, EchoAssumption DEF Send, TypeOK
    <3> QED BY <2>5, <3>1, <3>2 DEF Send, TypeOK
  <2>6. CASE Receive
    <3>1. /\ Append(received, Head(out)) \in Seq(Bytes) /\ Tail(out) \in Seq(Bytes)
          /\ Len(Tail(out)) <= Len(out)
      BY <2>6, MoveHead DEF Receive, TypeOK
    <3>2. Len(Tail(out)) <= PipeCap
      BY <3>1, LenProperties, EchoAssumption DEF TypeOK
    <3> QED BY <2>6, <3>1, <3>2 DEF Receive, TypeOK
  <2>7. ASSUME NEW how \in {"finished", "reset", "stalled"}, Leave(how) PROVE TypeOK'
    BY <2>7 DEF Leave, TypeOK
  <2>8. CASE UNCHANGED vars
    BY <2>8 DEF vars, TypeOK
  <2> QED BY <2>1, <2>2, <2>3, <2>4, <2>5, <2>6, <2>7, <2>8 DEF Next, ServerStep
<1> QED BY <1>1, <1>2, PTL DEF Spec

-----------------------------------------------------------------------------

\* Between a write and the next there is nothing left to write.
BufIsEmpty == conn \in {"deadline", "read"} => buf = <<>>
EchoInv == BufIsEmpty /\ EchoesInOrder

\* One more byte numbered is the sequence of them with one more at its end.
LEMMA NumberedGrows ==
    ASSUME NEW n \in Nat
    PROVE  [i \in 1..n + 1 |-> i] = Append([i \in 1..n |-> i], n + 1)
<1> DEFINE f == [i \in 1..n |-> i]
           g == [i \in 1..n + 1 |-> i]
<1>1. f \in Seq(Nat) /\ Len(f) = n /\ \A i \in 1..n : f[i] = i
  OBVIOUS
<1>2. g \in Seq(Nat) /\ Len(g) = n + 1 /\ \A i \in 1..n + 1 : g[i] = i
  OBVIOUS
<1> HIDE DEF f, g
<1>3. /\ Append(f, n + 1) \in Seq(Nat) /\ Len(Append(f, n + 1)) = n + 1
      /\ \A i \in 1..n : Append(f, n + 1)[i] = f[i]
      /\ Append(f, n + 1)[n + 1] = n + 1
  BY <1>1, AppendProperties
<1>4. \A i \in 1..n + 1 : Append(f, n + 1)[i] = g[i]
  BY <1>1, <1>2, <1>3
<1>5. Append(f, n + 1) = g
  BY <1>2, <1>3, <1>4, SeqEqual
<1> QED BY <1>5 DEF f, g

\* An element appended to the second of two sequences ends up behind both.
LEMMA AppendAtEnd ==
    ASSUME NEW S, NEW s \in Seq(S), NEW t \in Seq(S), NEW e \in S
    PROVE  s \o Append(t, e) = (s \o t) \o <<e>>
<1>1. <<e>> \in Seq(S)
  OBVIOUS
<1>2. Append(t, e) = t \o <<e>>
  BY AppendIsConcat
<1>3. (s \o t) \o <<e>> = s \o (t \o <<e>>)
  BY <1>1, ConcatAssociative
<1> QED BY <1>2, <1>3

\* The inductive invariant: EchoesInOrder, and what makes it hold at a Read.
LEMMA EchoInvariant == Spec => []EchoInv
<1> DEFINE all == received \o out \o buf \o in
<1>1. Init => EchoInv
  <2> SUFFICES ASSUME Init PROVE EchoInv
    OBVIOUS
  <2>1. buf = banner /\ buf \in Seq(Bytes) /\ received = <<>> /\ out = <<>> /\ in = <<>>
    <3>1. 0 \in Bytes
      BY EchoAssumption DEF Bytes
    <3> QED BY <3>1, EmptySeq DEF Init, banner
  <2>2. Numbered = <<>> /\ <<>> \in Seq(Bytes)
    BY EmptySeq DEF Init, Numbered
  <2>3. <<>> \o <<>> = <<>> /\ <<>> \o banner = banner /\ banner \o <<>> = banner
    BY <2>1, <2>2, ConcatEmptySeq
  <2>4. EchoesInOrder
    BY <2>1, <2>2, <2>3 DEF EchoesInOrder
  <2> QED BY <2>4 DEF Init, EchoInv, BufIsEmpty
<1>2. TypeOK /\ EchoInv /\ [Next]_vars => EchoInv'
  <2> SUFFICES ASSUME TypeOK, EchoInv, [Next]_vars PROVE EchoInv'
    OBVIOUS
  <2>0. /\ received \in Seq(Bytes) /\ out \in Seq(Bytes)
        /\ buf \in Seq(Bytes) /\ in \in Seq(Bytes) /\ sent \in Nat
    BY EchoAssumption DEF TypeOK
  <2> USE DEF EchoInv
  <2>1. ASSUME NEW at \in {"banner", "write"}, Write(at) PROVE EchoInv'
    <3>1. received' = received /\ in' = in /\ sent' = sent
      BY <2>1 DEF Write
    <3>2. CASE buf' = buf /\ out' = out
      BY <2>1, <3>1, <3>2 DEF Write, BufIsEmpty, EchoesInOrder, Numbered
    <3>3. ASSUME NEW k \in 1..Smaller(Len(buf), PipeCap - Len(out)),
                 out' = out \o SubSeq(buf, 1, k), buf' = SubSeq(buf, k + 1, Len(buf))
          PROVE  EchoesInOrder'
      <4>1. /\ out' \in Seq(Bytes) /\ buf' \in Seq(Bytes)
            /\ out' \o buf' = out \o buf
        BY <3>3, WriteMoves
      <4>2. (received \o out') \o buf' = received \o (out' \o buf')
        <5>1. received \in Seq(Bytes) /\ out' \in Seq(Bytes) /\ buf' \in Seq(Bytes)
          BY <2>0, <4>1
        <5> QED BY <5>1, Associative, Zenon
      <4>3. (received \o out) \o buf = received \o (out \o buf)
        <5>1. received \in Seq(Bytes) /\ out \in Seq(Bytes) /\ buf \in Seq(Bytes)
          BY <2>0
        <5> QED BY <5>1, Associative, Zenon
      <4>4. received' \o out' \o buf' \o in' = all
        BY <3>1, <4>1, <4>2, <4>3
      <4>5. Numbered' = Numbered
        BY <3>1 DEF Numbered
      <4> QED BY <4>4, <4>5 DEF EchoesInOrder
    <3>4. conn' # "read" /\ (conn' = "deadline" => buf' = <<>>)
      BY <2>1 DEF Write
    <3> QED BY <2>1, <3>2, <3>3, <3>4 DEF Write, BufIsEmpty
  <2>2. CASE Read
    <3>1. received' = received /\ out' = out /\ sent' = sent /\ conn = "read" /\ buf = <<>>
      BY <2>2 DEF Read, BufIsEmpty
    <3>2. CASE buf' = buf /\ in' = in
      BY <3>1, <3>2 DEF BufIsEmpty, EchoesInOrder, Numbered
    <3>3. ASSUME NEW k \in 1..Smaller(readBufferSize, Len(in)),
                 buf' = SubSeq(in, 1, k), in' = SubSeq(in, k + 1, Len(in))
          PROVE  EchoesInOrder'
      <4>1. buf' \in Seq(Bytes) /\ in' \in Seq(Bytes) /\ buf' \o in' = in
        BY <3>3, ReadMoves
      <4>2. received \o out \o buf' \o in' = (received \o out) \o (buf' \o in')
        <5>1. received \in Seq(Bytes) /\ out \in Seq(Bytes) /\ buf' \in Seq(Bytes) /\ in' \in Seq(Bytes)
          BY <2>0, <4>1
        <5> DEFINE ro == received \o out
        <5>2. ro \in Seq(Bytes)
          BY <5>1, ConcatProperties
        <5> HIDE DEF ro
        <5>3. (ro \o buf') \o in' = ro \o (buf' \o in')
          BY <5>1, <5>2, Associative, Zenon
        <5> QED BY <5>3 DEF ro
      <4>3. received \o out \o buf = received \o out
        <5>1. received \o out \in Seq(Bytes)
          BY <2>0, ConcatProperties
        <5>2. (received \o out) \o <<>> = received \o out
          BY <5>1, ConcatEmptySeq
        <5> QED BY <3>1, <5>2, Zenon
      <4>4. received' \o out' \o buf' \o in' = all
        BY <3>1, <4>1, <4>2, <4>3
      <4>5. Numbered' = Numbered
        BY <3>1 DEF Numbered
      <4> QED BY <4>4, <4>5 DEF EchoesInOrder
    <3>4. conn' \in {"closed", "write"}
      BY <2>2 DEF Read
    <3> QED BY <2>2, <3>2, <3>3, <3>4 DEF Read, BufIsEmpty
  <2>3. CASE Send
    <3>1. /\ received' = received /\ out' = out /\ buf' = buf /\ conn' = conn
          /\ sent' = sent + 1 /\ in' = Append(in, sent + 1) /\ sent + 1 \in Bytes
      BY <2>3, EchoAssumption DEF Send, TypeOK, Bytes
    <3>2. Numbered' = Append(Numbered, sent + 1)
      BY <2>0, <3>1, NumberedGrows DEF Numbered
    <3> DEFINE rest == received \o out \o buf
    <3>3. rest \in Seq(Bytes)
      BY <2>0, ConcatProperties
    <3>4. rest \o in' = (rest \o in) \o <<sent + 1>>
      <4> HIDE DEF rest
      <4> QED BY <2>0, <3>1, <3>3, AppendAtEnd
    <3>5. Numbered \in Seq(Nat) /\ banner \in Seq(Nat) /\ sent + 1 \in Nat
      BY <2>0 DEF Numbered, banner
    <3>6. banner \o Append(Numbered, sent + 1) = (banner \o Numbered) \o <<sent + 1>>
      BY <3>5, AppendAtEnd
    <3>7. EchoesInOrder'
      BY <3>1, <3>2, <3>4, <3>6 DEF EchoesInOrder
    <3> QED BY <3>1, <3>7 DEF BufIsEmpty
  <2>4. CASE Receive
    <3>1. /\ received' = Append(received, Head(out)) /\ out' = Tail(out) /\ out # <<>>
          /\ buf' = buf /\ in' = in /\ sent' = sent /\ conn' = conn
      BY <2>4 DEF Receive
    <3>2. received' \o out' = received \o out
      BY <2>0, <3>1, MoveHead
    <3> QED BY <3>1, <3>2 DEF EchoesInOrder, BufIsEmpty, Numbered
  <2>5. CASE SetReadDeadline
    BY <2>5 DEF SetReadDeadline, BufIsEmpty, EchoesInOrder, Numbered
  <2>6. CASE IdleTimeout \/ UNCHANGED vars
    BY <2>6 DEF IdleTimeout, vars, BufIsEmpty, EchoesInOrder, Numbered
  <2>7. ASSUME NEW how \in {"finished", "reset", "stalled"}, Leave(how) PROVE EchoInv'
    BY <2>7 DEF Leave, BufIsEmpty, EchoesInOrder, Numbered
  <2> QED BY <2>1, <2>2, <2>3, <2>4, <2>5, <2>6, <2>7 DEF Next, ServerStep
<1> QED BY <1>1, <1>2, TypeCorrect, PTL DEF Spec

\* Every byte comes back once and in order, after the banner (tcpecho.go,
\* handleConn).
THEOREM EchoIsFaithful == Spec => []EchoesInOrder
<1>1. EchoInv => EchoesInOrder
  BY DEF EchoInv
<1> QED BY <1>1, EchoInvariant, PTL

\* No connection is closed on a client that neither reset it, nor was idle, nor
\* finished and has everything it sent handed back (tcpecho.go, handleConn).
THEOREM ClosesForReason == Spec => []ClosedForReason
<1>1. Init => ClosedForReason
  BY DEF Init, ClosedForReason
<1>2. BufIsEmpty /\ ClosedForReason /\ [Next]_vars => ClosedForReason'
  <2> SUFFICES ASSUME BufIsEmpty, ClosedForReason, [Next]_vars PROVE ClosedForReason'
    OBVIOUS
  <2>1. ASSUME NEW at \in {"banner", "write"}, Write(at) PROVE ClosedForReason'
    BY <2>1 DEF Write, ClosedForReason
  <2>2. CASE Read
    BY <2>2 DEF Read, BufIsEmpty, ClosedForReason
  <2>3. CASE SetReadDeadline \/ Send
    BY <2>3 DEF SetReadDeadline, Send, ClosedForReason
  <2>4. CASE IdleTimeout \/ Receive
    BY <2>4 DEF IdleTimeout, Receive, ClosedForReason
  <2>5. ASSUME NEW how \in {"finished", "reset", "stalled"}, Leave(how)
        PROVE  ClosedForReason'
    BY <2>5 DEF Leave, ClosedForReason
  <2>6. CASE UNCHANGED vars
    BY <2>6 DEF vars, ClosedForReason
  <2> QED BY <2>1, <2>2, <2>3, <2>4, <2>5, <2>6 DEF Next, ServerStep
<1>3. EchoInv => BufIsEmpty
  BY DEF EchoInv
<1> QED BY <1>1, <1>2, <1>3, EchoInvariant, PTL DEF Spec
====
