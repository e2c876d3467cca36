---- MODULE Response_proofs ----
(***************************************************************************)
(* Proofs about Response, for any overrides, statuses and lengths.         *)
(***************************************************************************)
EXTENDS Response, SequenceTheorems, FiniteSetTheorems, TLAPS

Ops == {"wait", "head", "write", "flush", "poll", "read", "hijack"}
Before == {"wait", "read"}
After == {"write", "flush", "wait", "poll"}

\* Whoever waits has just flushed.
Follows(ops) == \A j \in 1..Len(ops) : ops[j] = "wait" => j > 1 /\ ops[j - 1] = "flush"
Bodies == {ops \in Seq(After) : Follows(ops)}

\* Repeating operations gives no others, in the same order.
LEMMA TimesOfThree ==
    ASSUME NEW c \in {"wait", "poll"}, NEW n \in Nat
    PROVE  Times(<<"write", "flush", c>>, n) \in Bodies
<1> DEFINE ops == <<"write", "flush", c>>
           f == [i \in 1..n * 3 |-> ops[((i - 1) % 3) + 1]]
<1>1. \A k \in 1..3 : ops[k] \in After /\ (k < 3 => ops[k] # "wait")
  BY DEF After
<1>2. ASSUME NEW i \in 1..n * 3
      PROVE  f[i] \in After /\ (f[i] = "wait" => i > 1 /\ f[i - 1] = "flush")
  <2>1. ((i - 1) % 3) + 1 \in 1..3
    OBVIOUS
  <2>2. CASE (i - 1) % 3 # 2
    <3>1. ((i - 1) % 3) + 1 \in 1..2
      BY <2>1, <2>2
    <3> HIDE DEF ops
    <3> QED BY <1>1, <2>1, <3>1
  <2>3. CASE (i - 1) % 3 = 2
    <3>1. i > 1 /\ (i - 2) % 3 = 1 /\ i - 1 \in 1..n * 3
      BY <2>3
    <3>2. f[i - 1] = ops[2]
      <4> HIDE DEF ops
      <4> QED BY <3>1
    <3>3. ops[2] = "flush"
      OBVIOUS
    <3>4. f[i] \in After
      <4> HIDE DEF ops
      <4> QED BY <1>1, <2>1
    <3> QED BY <3>1, <3>2, <3>3, <3>4
  <2> QED BY <2>2, <2>3
<1>3. f \in Seq(After) /\ Len(f) = n * 3
  <2>1. \A i \in 1..n * 3 : f[i] \in After
    <3> HIDE DEF f
    <3> QED BY <1>2
  <2> HIDE DEF ops
  <2>2. f \in Seq(After)
    BY <2>1
  <2>3. Len(f) = n * 3
    OBVIOUS
  <2> QED BY <2>2, <2>3
<1>4. Times(ops, n) = f
  BY DEF Times
<1> HIDE DEF f, ops
<1>5. Follows(f)
  BY <1>2, <1>3 DEF Follows
<1> QED BY <1>3, <1>4, <1>5 DEF Bodies, ops

LEMMA TimesOfOne ==
    ASSUME NEW n \in Nat
    PROVE  Times(<<"write">>, n) \in Bodies
<1> DEFINE f == [i \in 1..n * 1 |-> <<"write">>[((i - 1) % 1) + 1]]
<1>1. \A i \in 1..n * 1 : f[i] = "write"
  <2> TAKE i \in 1..n * 1
  <2>1. ((i - 1) % 1) + 1 = 1
    OBVIOUS
  <2> QED BY <2>1
<1>2. f \in Seq(After) /\ Len(f) = n
  BY <1>1 DEF After
<1>3. Times(<<"write">>, n) = f
  BY DEF Times
<1> HIDE DEF f
<1> QED BY <1>1, <1>2, <1>3 DEF Bodies, Follows

LEMMA DripAfter == ASSUME NEW n \in Nat PROVE Drip(n) \in Bodies
<1>1. CASE n = 0
  BY <1>1, EmptySeq DEF Drip, Bodies, Follows
<1>2. CASE n # 0
  <2> DEFINE a == Times(<<"write", "flush", "wait">>, n - 1)
             b == <<"write", "flush">>
             ab == a \o b
  <2>1. a \in Bodies
    BY <1>2, TimesOfThree
  <2>2. b \in Seq(After) /\ Len(b) = 2 /\ \A j \in 1..Len(b) : b[j] # "wait"
    BY DEF After
  <2>3. Drip(n) = ab
    BY <1>2 DEF Drip
  <2> HIDE DEF a, b
  <2>4. a \in Seq(After) /\ Follows(a) /\ Len(a) \in Nat
    BY <2>1, LenProperties DEF Bodies
  <2>5. /\ ab \in Seq(After) /\ Len(ab) = Len(a) + Len(b)
        /\ \A j \in 1..Len(a) + Len(b) : ab[j] = IF j <= Len(a) THEN a[j] ELSE b[j - Len(a)]
    BY <2>2, <2>4, ConcatProperties
  <2> HIDE DEF ab
  <2>6. ASSUME NEW j \in 1..Len(ab), ab[j] = "wait" PROVE j > 1 /\ ab[j - 1] = "flush"
    <3>1. j \in 1..Len(a)
      <4>1. CASE j > Len(a)
        <5>1. j - Len(a) \in 1..Len(b) /\ ab[j] = b[j - Len(a)]
          BY <2>2, <2>4, <2>5, <4>1
        <5> QED BY <2>2, <2>6, <5>1
      <4> QED BY <2>4, <4>1
    <3>2. a[j] = "wait"
      BY <2>2, <2>4, <2>5, <2>6, <3>1
    <3>3. j > 1 /\ a[j - 1] = "flush"
      BY <2>4, <3>1, <3>2 DEF Follows
    <3>4. j - 1 \in 1..Len(a) + Len(b) /\ j - 1 <= Len(a)
      BY <2>2, <2>4, <3>1, <3>3
    <3>5. ab[j - 1] = a[j - 1]
      BY <2>5, <3>4
    <3> QED BY <3>3, <3>5
  <2> QED BY <2>3, <2>5, <2>6 DEF Bodies, Follows
<1> QED BY <1>1, <1>2

\* A handler waits and reads, writes its status, and then the rest; only /ws
\* does something else.
Shaped(x) ==
    \E code \in Codes, length \in Lengths, before \in Seq(Before), after \in Bodies :
      /\ x.code = code /\ x.length = length /\ x.encoded \in BOOLEAN
      /\ x.ops = before \o <<"head">> \o after

LEMMA HandlerShape == ASSUME NEW x \in Handlers, x \notin wsHandlers PROVE Shaped(x)
<1> DEFINE none == <<>>
           wait1 == <<"wait">>
           read1 == <<"read">>
           both == <<"wait", "read">>
           body == <<"write">>
<1>1. \A code \in Codes, length \in Lengths, before \in Seq(Before), after \in Bodies :
        Shaped(Handler(code, length, before, after))
  <2> TAKE code \in Codes, length \in Lengths, before \in Seq(Before), after \in Bodies
  <2> DEFINE y == Handler(code, length, before, after)
  <2>1. /\ y.code = code /\ y.length = length /\ y.encoded \in BOOLEAN
        /\ y.ops = before \o <<"head">> \o after
    BY DEF Handler
  <2> HIDE DEF y
  <2>2. Shaped(y)
    BY <2>1, Zenon DEF Shaped
  <2> QED BY <2>2 DEF y
<1>2. /\ none \in Seq(Before) /\ wait1 \in Seq(Before) /\ read1 \in Seq(Before)
      /\ both \in Seq(Before) /\ none \in Bodies /\ body \in Bodies
  BY DEF Before, After, Bodies, Follows
<1>3. wait1 \o read1 \in Seq(Before) /\ none \o read1 \in Seq(Before)
  <2> HIDE DEF wait1, read1, none
  <2> QED BY <1>2, ConcatProperties
<1>4. /\ 100 \in Codes /\ 200 \in Codes /\ 204 \in Codes /\ 302 \in Codes /\ 400 \in Codes
      /\ 401 \in Codes /\ 404 \in Codes /\ 426 \in Codes /\ 500 \in Codes /\ 503 \in Codes
      /\ UserCodes \subseteq Codes
  BY DEF Codes, PageCodes
<1>5. None \in Lengths /\ 1 \in Lengths /\ \A n \in 0..MaxPieces : n \in Lengths
  BY DEF Lengths
<1>7. \A c \in Codes : Shaped(Page(c))
  <2>1. \A c \in Codes : Page(c) = Handler(c, None, none, body)
    BY DEF Page
  <2> HIDE DEF none, body
  <2> QED BY <1>1, <1>2, <1>5, <2>1, Zenon
<1>8. CASE x \in viewHandlers \cup authHandlers \cup probeHandlers \cup errorHandlers
  BY <1>4, <1>7, <1>8 DEF viewHandlers, authHandlers, probeHandlers, errorHandlers
<1>9. CASE x \in cookieHandlers
  <2>1. x = Page(200) \/ x = Page(302) \/ x = Handler(302, None, none, none)
    BY <1>9 DEF cookieHandlers
  <2> HIDE DEF none
  <2>2. Shaped(Handler(302, None, none, none))
    BY <1>1, <1>2, <1>4, <1>5
  <2> QED BY <1>4, <1>7, <2>1, <2>2
<1>10. CASE x \in envelopeHandlers \cup encodingHandlers \cup delayHandlers
  <2>1. \/ x = Handler(200, None, read1, body)
        \/ x = [Handler(200, 1, read1, body) EXCEPT !.encoded = TRUE]
        \/ x = Handler(200, None, both, body)
    BY <1>10 DEF envelopeHandlers, encodingHandlers, delayHandlers
  <2> HIDE DEF read1, both, body
  <2>2. CASE x = [Handler(200, 1, read1, body) EXCEPT !.encoded = TRUE]
    <3>1. /\ x.code = 200 /\ x.length = 1 /\ x.encoded = TRUE
          /\ x.ops = read1 \o <<"head">> \o body
      BY <2>2 DEF Handler
    <3>2. x.code \in Codes
      BY <1>4, <3>1
    <3>3. x.length \in Lengths
      BY <1>5, <3>1
    <3>4. x.encoded \in BOOLEAN
      BY <3>1
    <3> QED BY <1>2, <3>1, <3>2, <3>3, <3>4, Zenon DEF Shaped
  <2> QED BY <1>1, <1>2, <1>4, <1>5, <2>1, <2>2
<1>11. CASE x \in statusHandlers
  <2>1. PICK c \in {100, 200, 204} : x = Handler(c, None, none, none)
    BY <1>11 DEF statusHandlers
  <2>2. c \in Codes
    BY <1>4
  <2> HIDE DEF none
  <2> QED BY <1>1, <1>2, <1>5, <2>1, <2>2, Zenon
<1>12. CASE x \in dripHandlers
  <2>1. PICK c \in {100, 200, 204}, n \in 0..MaxPieces, d \in {none, wait1} :
          x = Handler(c, n, d, Drip(n))
    BY <1>12 DEF dripHandlers
  <2>2. c \in Codes /\ n \in Lengths /\ n \in Nat
    BY <1>4, <1>5
  <2> HIDE DEF none, wait1
  <2>3. d \in Seq(Before)
    BY <1>2
  <2>4. Drip(n) \in Bodies
    BY <2>2, DripAfter
  <2> QED BY <1>1, <2>1, <2>2, <2>3, <2>4, Zenon
<1>13. CASE x \in exactHandlers \cup fileHandlers
  <2>1. PICK n \in 0..MaxPieces : x = Handler(200, n, none, Times(body, n))
    BY <1>13 DEF exactHandlers, fileHandlers, writeExactBytes
  <2>2. Times(body, n) \in Bodies
    BY TimesOfOne
  <2> HIDE DEF none, body
  <2> QED BY <1>1, <1>2, <1>4, <1>5, <2>1, <2>2, ZenonT(30)
<1>14. CASE x \in streamHandlers
  <2>1. PICK n \in 0..MaxPieces :
          x = Handler(200, None, none, Times(<<"write", "flush", "poll">>, n))
    BY <1>14 DEF streamHandlers
  <2>2. Times(<<"write", "flush", "poll">>, n) \in Bodies
    BY TimesOfThree
  <2> HIDE DEF none
  <2> QED BY <1>1, <1>2, <1>4, <1>5, <2>1, <2>2, ZenonT(30)
<1>15. CASE x \in userHandlers
  <2>1. CASE \E c \in {200, 204, 401, 404} \cup UserCodes, d \in {none, wait1} :
               x = Handler(c, None, d, body)
    <3>1. PICK c \in {200, 204, 401, 404} \cup UserCodes, d \in {none, wait1} :
            x = Handler(c, None, d, body)
      BY <2>1
    <3>2. c \in Codes
      BY <1>4
    <3> HIDE DEF none, wait1, body
    <3>3. d \in Seq(Before)
      BY <1>2
    <3> QED BY <1>1, <1>2, <1>5, <3>1, <3>2, <3>3, Zenon
  <2>2. CASE \E c \in {200, 204, 500}, d \in {none, wait1} :
               x = Handler(c, None, d \o read1, body)
    <3>1. PICK c \in {200, 204, 500}, d \in {none, wait1} :
            x = Handler(c, None, d \o read1, body)
      BY <2>2
    <3>2. c \in Codes
      BY <1>4
    <3> HIDE DEF none, wait1, read1, body
    <3>3. d \o read1 \in Seq(Before)
      BY <1>3
    <3> QED BY <1>1, <1>2, <1>5, <3>1, <3>2, <3>3, Zenon
  <2> QED BY <1>15, <2>1, <2>2 DEF userHandlers
<1> QED BY <1>8, <1>9, <1>10, <1>11, <1>12, <1>13, <1>14, <1>15, Zenon DEF Handlers

\* The status is written once, after nothing but waiting and reading.
HeadFirst(ops) ==
    \A i, j \in 1..Len(ops) : i < j /\ ops[j] = "head" => ops[i] \in Before

\* The status has been written already, or never will be.
Headless(ops) == \A j \in 1..Len(ops) : ops[j] # "head"

\* Whoever waits has flushed what was written.
Paced(ops) ==
    \A i, j \in 1..Len(ops) :
      i < j /\ ops[i] = "write" /\ ops[j] = "wait" => ops[j - 1] = "flush"

LEMMA HandlerOps ==
    ASSUME NEW x \in Handlers
    PROVE  /\ x.ops \in Seq(Ops) /\ HeadFirst(x.ops) /\ Paced(x.ops)
           /\ x.code \in Codes /\ x.length \in Lengths /\ x.encoded \in BOOLEAN
           /\ x.encoded => ~Headless(x.ops)
<1>1. CASE x \in wsHandlers
  <2>1. x.ops = <<"hijack">> /\ x.code = 200 /\ x.length = None /\ x.encoded = FALSE
    BY <1>1 DEF wsHandlers
  <2>2. <<"hijack">> \in Seq(Ops) /\ Len(<<"hijack">>) = 1
    BY DEF Ops
  <2>3. HeadFirst(<<"hijack">>) /\ Paced(<<"hijack">>)
    BY <2>2 DEF HeadFirst, Paced
  <2>4. 200 \in Codes /\ None \in Lengths
    BY DEF Codes, PageCodes, Lengths
  <2> QED BY <2>1, <2>2, <2>3, <2>4, Zenon
<1>2. CASE x \notin wsHandlers
  <2>1. PICK code \in Codes, length \in Lengths, b \in Seq(Before), a \in Bodies :
          /\ x.code = code /\ x.length = length /\ x.encoded \in BOOLEAN
          /\ x.ops = b \o <<"head">> \o a
    BY <1>2, HandlerShape DEF Shaped
  <2> DEFINE m == b \o <<"head">>
             ops == m \o a
  <2>2. x.ops = ops /\ x.code \in Codes /\ x.length \in Lengths /\ x.encoded \in BOOLEAN
    BY <2>1
  <2>0. a \in Seq(After) /\ Follows(a)
    BY DEF Bodies
  <2>3. b \in Seq(Ops) /\ a \in Seq(Ops) /\ <<"head">> \in Seq(Ops)
    BY <2>0 DEF Before, After, Ops
  <2>4. /\ m \in Seq(Ops) /\ Len(m) = Len(b) + 1 /\ (\A i \in 1..Len(b) : m[i] = b[i])
        /\ m[Len(b) + 1] = "head"
    BY <2>3, ConcatProperties
  <2> HIDE DEF m
  <2>5. ops \in Seq(Ops) /\ Len(ops) = Len(m) + Len(a)
        /\ \A i \in 1..Len(m) + Len(a) : ops[i] = IF i <= Len(m) THEN m[i] ELSE a[i - Len(m)]
    BY <2>3, <2>4, ConcatProperties
  <2> HIDE DEF ops
  <2>6. Len(b) \in Nat /\ Len(a) \in Nat
        /\ (\A i \in 1..Len(b) : b[i] \in Before) /\ (\A i \in 1..Len(a) : a[i] \in After)
    BY <2>0, LenProperties, ElementOfSeq
  <2>7. ASSUME NEW j \in 1..Len(ops), ops[j] = "head" PROVE j <= Len(b) + 1
    <3>1. CASE j > Len(m)
      <4>1. j \in 1..Len(m) + Len(a) /\ ~(j <= Len(m)) /\ j - Len(m) \in 1..Len(a)
        BY <2>4, <2>5, <2>6, <3>1
      <4>2. ops[j] = a[j - Len(m)]
        BY <2>5, <4>1
      <4> QED BY <2>6, <2>7, <4>1, <4>2 DEF After
    <3> QED BY <2>4, <2>5, <2>6, <3>1
  <2>8. ASSUME NEW i \in 1..Len(ops), NEW j \in 1..Len(ops), i < j, ops[j] = "head"
        PROVE  ops[i] \in Before
    <3>1. i \in 1..Len(b)
      BY <2>5, <2>6, <2>7, <2>8
    <3> QED BY <2>4, <2>5, <2>6, <3>1
  <2>9. ASSUME NEW i \in 1..Len(ops), NEW j \in 1..Len(ops), i < j,
               ops[i] = "write", ops[j] = "wait"
        PROVE  ops[j - 1] = "flush"
    <3>1. i > Len(m)
      <4>0. i \in 1..Len(m) + Len(a) /\ (i <= Len(m) => m[i] = "write")
        BY <2>5, <2>9
      <4>1. CASE i \in 1..Len(b)
        <5>1. b[i] = "write"
          BY <2>4, <2>6, <4>0, <4>1
        <5> QED BY <2>6, <4>1, <5>1 DEF Before
      <4>2. CASE i = Len(b) + 1
        BY <2>4, <2>6, <4>0, <4>2
      <4> QED BY <2>4, <2>6, <4>0, <4>1, <4>2
    <3>2. j - Len(m) \in 1..Len(a) /\ a[j - Len(m)] = "wait"
      BY <2>4, <2>5, <2>6, <2>9, <3>1
    <3>3. j - Len(m) > 1 /\ a[j - Len(m) - 1] = "flush"
      BY <2>0, <3>2 DEF Follows
    <3>4. j - 1 \in 1..Len(m) + Len(a) /\ ~(j - 1 <= Len(m))
      BY <2>4, <2>6, <3>2, <3>3
    <3>5. ops[j - 1] = a[(j - 1) - Len(m)]
      BY <2>5, <3>4
    <3>6. (j - 1) - Len(m) = j - Len(m) - 1
      BY <2>4, <2>6
    <3> QED BY <3>3, <3>5, <3>6
  <2>10. ~Headless(ops)
    <3>1. /\ Len(b) + 1 \in 1..Len(ops) /\ Len(b) + 1 <= Len(m)
          /\ Len(b) + 1 \in 1..Len(m) + Len(a)
      BY <2>4, <2>5, <2>6
    <3>2. ops[Len(b) + 1] = "head"
      BY <2>4, <2>5, <3>1
    <3> QED BY <3>1, <3>2 DEF Headless
  <2>11. HeadFirst(ops) /\ Paced(ops)
    BY <2>8, <2>9 DEF HeadFirst, Paced
  <2> QED BY <2>2, <2>5, <2>10, <2>11
<1> QED BY <1>1, <1>2

-----------------------------------------------------------------------------

Responses == [status: Codes \cup {None}, length: Lengths, encoded: BOOLEAN,
              body: Seq(Pieces), sent: Nat]

\* A header written leaves the rest of the response alone.
LEMMA HeadedIs ==
    ASSUME NEW r \in Responses, NEW code \in Codes
    PROVE  /\ Headed(r, code) \in Responses
           /\ Headed(r, code).length = r.length /\ Headed(r, code).body = r.body
           /\ Headed(r, code).sent = r.sent /\ Headed(r, code).encoded = r.encoded
           /\ Headed(r, code).status =
                IF r.status # None \/ Informational(code) THEN r.status ELSE code
BY DEF Headed, Responses

LEMMA WrittenIs ==
    ASSUME NEW r \in Responses, NEW piece \in Pieces
    PROVE  /\ Written(r, piece) \in Responses
           /\ Written(r, piece).sent = r.sent /\ Written(r, piece).encoded = r.encoded
           /\ Written(r, piece).length = r.length
           /\ Written(r, piece).body = Append(r.body, piece)
           /\ Len(Written(r, piece).body) = Len(r.body) + 1
           /\ Written(r, piece).status = Headed(r, 200).status
<1>1. 200 \in Codes
  BY DEF Codes, PageCodes
<1> DEFINE q == Headed(r, 200)
<1>2. /\ q \in Responses /\ q.body = r.body /\ q.sent = r.sent /\ q.encoded = r.encoded
      /\ q.length = r.length
  BY <1>1, HeadedIs
<1> HIDE DEF q
<1>3. r.body \in Seq(Pieces)
  BY DEF Responses
<1>4. Append(q.body, piece) \in Seq(Pieces) /\ Len(Append(q.body, piece)) = Len(r.body) + 1
  BY <1>2, <1>3, AppendProperties
<1>5. Written(r, piece) = [q EXCEPT !.body = Append(@, piece)]
  BY DEF Written, q
<1>6. /\ Written(r, piece) \in Responses /\ Written(r, piece).sent = r.sent
      /\ Written(r, piece).encoded = r.encoded /\ Written(r, piece).length = r.length
      /\ Written(r, piece).body = Append(q.body, piece) /\ Written(r, piece).status = q.status
  BY <1>2, <1>4, <1>5 DEF Responses
<1> QED BY <1>2, <1>4, <1>6 DEF q

LEMMA FlushedIs ==
    ASSUME NEW r \in Responses
    PROVE  /\ Flushed(r) \in Responses
           /\ Flushed(r).sent = Len(r.body) /\ Flushed(r).body = r.body
           /\ Flushed(r).encoded = r.encoded /\ Flushed(r).length = r.length
           /\ Flushed(r).status = Headed(r, 200).status
<1>1. 200 \in Codes /\ Len(r.body) \in Nat
  BY LenProperties DEF Codes, PageCodes, Responses
<1> DEFINE q == Headed(r, 200)
<1>2. q \in Responses /\ q.body = r.body /\ q.encoded = r.encoded /\ q.length = r.length
  BY <1>1, HeadedIs
<1>3. Flushed(r) = [q EXCEPT !.sent = Len(r.body)]
  BY DEF Flushed
<1> HIDE DEF q
<1> QED BY <1>1, <1>2, <1>3 DEF Responses, q

\* A response that is recorded is not written before it is replayed.
Untouched ==
    /\ pc = "replay" => Buffered
    /\ pc \in {"delay", "abort"} \/ (Buffered /\ pc \in {"handler", "replay"})
         => w.status = None /\ w.sent = 0

TypeInv == TypeOK /\ Untouched

\* The operations that are left are operations.
LEMMA TailOps ==
    ASSUME TypeOK, todo # <<>>
    PROVE  Tail(todo) \in Seq(Ops)
BY HeadTailProperties DEF TypeOK, Ops

\* The response after a replay.
LEMMA ReplayIs ==
    ASSUME TypeInv, Replay, Valid(replayCode)
    PROVE  /\ w' \in Responses /\ w'.sent = 0 /\ status' = replayCode /\ replayCode \in Codes
           /\ w'.status = IF Informational(replayCode) THEN 200 ELSE replayCode
<1>1. /\ replayCode \in Codes /\ replayLength \in Lengths /\ 200 \in Codes
      /\ replayBody \in Seq(Pieces)
  <2>1. rec.body \in Seq(Pieces)
    BY DEF TypeInv, TypeOK, Pieces
  <2>2. <<"override">> \in Seq(Pieces)
    BY DEF Pieces
  <2> QED BY <2>1, <2>2 DEF TypeInv, TypeOK, Overrides, replayCode, replayLength, replayBody,
                            Codes, PageCodes, Lengths
<1> DEFINE a == Copied
           b == Headed(a, replayCode)
           r == Headed(b, 200)
<1>2. a \in Responses /\ a.status = None /\ a.sent = 0
  BY <1>1 DEF Replay, Copied, TypeInv, TypeOK, Untouched, Responses
<1> HIDE DEF a
<1>3. /\ b \in Responses /\ b.sent = 0
      /\ b.status = IF Informational(replayCode) THEN None ELSE replayCode
  BY <1>1, <1>2, HeadedIs
<1> HIDE DEF b
<1>4. ~Informational(200) /\ replayCode # None /\ 200 # None
  BY <1>1, ResponseAssumption DEF Informational, Codes, PageCodes, Valid
<1>5. /\ r \in Responses /\ r.sent = 0
      /\ r.status = IF Informational(replayCode) THEN 200 ELSE replayCode
  BY <1>1, <1>3, <1>4, HeadedIs
<1>6. w' = (IF Bodiless(r.status) THEN r ELSE [r EXCEPT !.body = replayBody])
  BY DEF Replay, a, b
<1> HIDE DEF r
<1>7. status' = replayCode
  BY DEF Replay
<1> QED BY <1>1, <1>5, <1>6, <1>7 DEF Responses

\* The types, and that no response is sent that is yet to be replaced.
LEMMA TypeInvariant == Spec => []TypeInv
<1>0. 200 \in Codes /\ {"handler", "override", "partial"} = Pieces
  BY DEF Codes, PageCodes, Pieces
<1>1. Init => TypeInv
  <2> SUFFICES ASSUME Init PROVE TypeInv
    OBVIOUS
  <2>1. <<>> \in Seq(Pieces) /\ <<>> \in Seq({"handler"}) /\ Len(<<>>) = 0
    BY EmptySeq
  <2>2. todo \in Seq(Ops) /\ None \in Lengths
    BY HandlerOps DEF Init, Lengths
  <2>3. w \in Responses /\ w.sent <= Len(w.body) /\ w.status = None /\ w.sent = 0
    BY <2>1, <2>2 DEF Init, Responses
  <2>4. rec \in [status: Codes, length: Lengths, encoded: BOOLEAN, body: Seq({"handler"})]
    BY <1>0, <2>1, <2>2 DEF Init
  <2>5. Untouched
    BY <2>3 DEF Init, Untouched
  <2>6. /\ quiet \in BOOLEAN /\ ov \in Overrides /\ upgrade \in BOOLEAN /\ h \in Handlers
        /\ pc = "delay" /\ status \in Codes /\ logged \in Codes \cup {None}
        /\ client = "here" /\ ctxDone \in BOOLEAN /\ unread \in BOOLEAN /\ expired \in BOOLEAN
    BY <1>0 DEF Init
  <2> QED BY <2>2, <2>3, <2>4, <2>5, <2>6 DEF TypeInv, TypeOK, Responses, Ops
<1>2. TypeInv /\ [Next]_vars => TypeInv'
  <2> SUFFICES ASSUME TypeInv, [Next]_vars PROVE TypeInv'
    OBVIOUS
  <2>0. /\ TypeOK /\ w \in Responses /\ Len(w.body) \in Nat /\ w.sent <= Len(w.body)
        /\ h.code \in Codes /\ h.length \in Lengths /\ h.encoded \in BOOLEAN /\ todo \in Seq(Ops)
    BY HandlerOps, LenProperties DEF TypeInv, TypeOK, Ops, Responses
  <2>1. CASE DelayOver \/ NoAbort
    BY <2>1 DEF DelayOver, NoAbort, request, world, TypeInv, TypeOK, Untouched, Buffered
  <2>2. CASE Abort
    <3> DEFINE p == Written(w, "partial")
    <3>1. /\ p \in Responses /\ p.sent = w.sent /\ Len(p.body) = Len(w.body) + 1
      BY <1>0, <2>0, WrittenIs
    <3> HIDE DEF p
    <3>2. Flushed(p) \in Responses /\ Flushed(p).sent = Len(Flushed(p).body)
      BY <3>1, FlushedIs
    <3>3. w' = p \/ w' = Flushed(p)
      BY <2>2 DEF Abort, p
    <3>4. w' \in Responses /\ w'.sent <= Len(w'.body)
      BY <2>0, <3>1, <3>2, <3>3, LenProperties DEF Responses
    <3> QED BY <2>2, <3>4 DEF Abort, request, world, TypeInv, TypeOK, Untouched, Responses
  <2>3. CASE Replay
    <3>1. CASE ~Valid(replayCode)
      BY <2>3, <3>1 DEF Replay, request, world, TypeInv, TypeOK, Untouched
    <3>2. CASE Valid(replayCode)
      <4>1. w' \in Responses /\ w'.sent = 0 /\ status' \in Codes
        BY <2>3, <3>2, ReplayIs
      <4>2. w'.sent <= Len(w'.body)
        BY <4>1, LenProperties DEF Responses
      <4> QED BY <2>3, <3>2, <4>1, <4>2 DEF Replay, request, world, TypeInv, TypeOK, Untouched,
                                           Responses
    <3> QED BY <3>1, <3>2
  <2>4. CASE Return
    BY <2>4, EmptySeq DEF Return, Returned, request, world, TypeInv, TypeOK, Untouched, Buffered
  <2>5. CASE WriteHeader
    <3>1. Tail(todo) \in Seq(Ops)
      BY <2>0, <2>5, TailOps DEF WriteHeader, At
    <3> DEFINE a == [w EXCEPT !.length = h.length, !.encoded = h.encoded]
    <3>2. a \in Responses /\ a.sent = w.sent /\ a.body = w.body
      BY <2>0 DEF Responses
    <3>3. /\ Headed(a, h.code) \in Responses /\ Headed(a, h.code).sent = w.sent
          /\ Headed(a, h.code).body = w.body
      BY <2>0, <3>2, HeadedIs
    <3>4. CASE Buffered /\ w' = w
      BY <2>0, <2>5, <3>1, <3>4 DEF WriteHeader, Advance, request, world, TypeInv, TypeOK,
                                   Untouched, Buffered, Ops, At
    <3>5. CASE ~Buffered /\ w' = Headed(a, h.code)
      <4> HIDE DEF a
      <4>1. w' \in Responses /\ w'.sent <= Len(w'.body)
        BY <2>0, <3>3, <3>5
      <4> QED BY <2>0, <2>5, <3>1, <3>5, <4>1
              DEF WriteHeader, Advance, request, world, TypeInv, TypeOK, Untouched,
                  Buffered, Ops, At, Responses
    <3>6. CASE ~Buffered /\ pc' = "cut" /\ w' = w
      <4>1. UNCHANGED <<quiet, ov, upgrade, h, todo, w, rec, status, logged, client, ctxDone,
                        unread, expired>>
        BY <2>5, <3>6 DEF WriteHeader, Advance, At, request, world
      <4> QED BY <3>6, <4>1 DEF TypeInv, TypeOK, Untouched
    <3> QED BY <2>5, <3>4, <3>5, <3>6 DEF WriteHeader
  <2>6. CASE Write
    <3>1. Tail(todo) \in Seq(Ops) /\ <<>> \in Seq(Ops) /\ pc = "handler"
      BY <2>0, <2>6, TailOps, EmptySeq DEF Write, At
    <3>2. CASE Buffered /\ w' = w /\ rec' = [rec EXCEPT !.body = Append(@, "handler")] /\ Advance
      <4>1. Append(rec.body, "handler") \in Seq({"handler"})
        BY <2>0, AppendProperties DEF TypeOK
      <4>2. rec' \in [status: Codes, length: Lengths, encoded: BOOLEAN, body: Seq({"handler"})]
        BY <2>0, <3>2, <4>1 DEF TypeOK
      <4> QED BY <2>6, <3>1, <3>2, <4>2 DEF Write, Advance, request, world, TypeInv, TypeOK,
                                       Untouched, Buffered, Ops
    <3>3. CASE ~Buffered /\ rec' = rec /\ (Advance \/ Returned)
               /\ (w' = Written(w, "handler") \/ w' = Headed(w, 200))
      <4>1. w' \in Responses /\ w'.sent <= Len(w'.body)
        <5>1. CASE w' = Written(w, "handler")
          <6>1. /\ w' \in Responses /\ w'.sent = w.sent
                /\ Len(w'.body) = Len(w.body) + 1
            BY <1>0, <2>0, <5>1, WrittenIs, Zenon
          <6>2. w.sent \in Nat
            BY <2>0 DEF Responses
          <6> QED BY <2>0, <6>1, <6>2
        <5>2. CASE w' = Headed(w, 200)
          BY <1>0, <2>0, <5>2, HeadedIs
        <5> QED BY <3>3, <5>1, <5>2
      <4>2. pc' \in {"handler", "finish"} /\ todo' \in Seq(Ops)
        BY <3>1, <3>3 DEF Advance, Returned
      <4> QED BY <2>6, <3>3, <4>1, <4>2 DEF Write, request, world, TypeInv, TypeOK,
                                            Untouched, Buffered, Ops, Responses
    <3> QED BY <2>6, <3>2, <3>3 DEF Write
  <2>7. CASE Flush
    <3>1. Tail(todo) \in Seq(Ops)
      BY <2>0, <2>7, TailOps DEF Flush, At
    <3>2. CASE w' = w
      <4>1. /\ UNCHANGED <<quiet, ov, upgrade, h, pc, rec, status, logged, client, unread, expired>>
            /\ todo' \in Seq(Ops) /\ ctxDone' \in BOOLEAN
        BY <2>0, <2>7, <3>1 DEF Flush, At, Advance, request, TypeOK
      <4> QED BY <3>2, <4>1 DEF TypeInv, TypeOK, Untouched, Buffered, Ops
    <3>3. CASE ~Buffered /\ (w' = Flushed(w) \/ w' = Headed(w, 200))
      <4>1. w' \in Responses /\ w'.sent <= Len(w'.body)
        <5>1. CASE w' = Flushed(w)
          BY <2>0, <5>1, FlushedIs
        <5>2. CASE w' = Headed(w, 200)
          BY <1>0, <2>0, <5>2, HeadedIs
        <5> QED BY <3>3, <5>1, <5>2
      <4> QED BY <2>7, <3>1, <3>3, <4>1 DEF Flush, At, Advance, request, TypeInv, TypeOK,
                                            Untouched, Buffered, Ops, Responses
    <3> QED BY <2>7, <3>2, <3>3 DEF Flush
  <2>8. CASE TimerFires \/ Poll \/ ReadBody
    <3>1. Tail(todo) \in Seq(Ops)
      BY <2>0, <2>8, TailOps DEF TimerFires, Poll, ReadBody, At
    <3>2. /\ UNCHANGED <<quiet, ov, upgrade, h, pc, w, rec, status, logged, client, ctxDone, expired>>
          /\ todo' = Tail(todo) /\ unread' \in BOOLEAN
      <4>1. CASE TimerFires \/ Poll
        BY <2>0, <4>1 DEF TimerFires, Poll, Advance, request, world, TypeOK
      <4>2. CASE ReadBody
        BY <2>0, <4>2 DEF ReadBody, Advance, request, TypeOK
      <4> QED BY <2>8, <4>1, <4>2
    <3> QED BY <3>1, <3>2 DEF TypeInv, TypeOK, Untouched, Buffered, Ops
  <2>9. CASE ContextDone
    <3>1. /\ UNCHANGED <<quiet, ov, upgrade, h, w, rec, status, logged, client, ctxDone,
                         unread, expired>>
          /\ pc \in {"delay", "handler"} /\ todo' \in Seq(Ops)
      BY <2>0, <2>9, EmptySeq DEF ContextDone, At, Returned, request, world
    <3>2. pc' = "finish" \/ (pc' = "replay" /\ Buffered /\ pc = "handler")
      BY <2>9 DEF ContextDone, At, Returned
    <3> QED BY <3>1, <3>2 DEF TypeInv, TypeOK, Untouched, Buffered, Ops
  <2>10. CASE Hijack \/ LogHijacked
    BY <2>10, EmptySeq DEF Hijack, LogHijacked, request, world, TypeInv, TypeOK, Untouched
  <2>11. CASE Finish
    <3> DEFINE r == Headed(w, 200)
    <3>1. r \in Responses /\ r.body = w.body /\ r.sent = w.sent
      BY <1>0, <2>0, HeadedIs
    <3>2. w' = [r EXCEPT !.sent = Len(r.body)] \/ w' = r
      BY <2>11 DEF Finish
    <3>3. logged' \in Codes \cup {None} /\ pc' \in {"done", "cut"}
      BY <2>0, <2>11 DEF Finish, TypeOK
    <3> HIDE DEF r
    <3>4. w' \in Responses /\ w'.sent <= Len(w'.body)
      BY <2>0, <3>1, <3>2 DEF Responses
    <3> QED BY <2>11, <3>3, <3>4 DEF Finish, request, world, TypeInv, TypeOK, Untouched, Responses
  <2>12. CASE Disconnect \/ Notice \/ Expire
    <3>1. /\ UNCHANGED <<quiet, ov, upgrade, h, pc, todo, w, rec, status, logged, unread>>
          /\ client' \in {"here", "gone"} /\ ctxDone' \in BOOLEAN /\ expired' \in BOOLEAN
      BY <2>0, <2>12 DEF Disconnect, Notice, Expire, request, TypeOK
    <3> QED BY <3>1 DEF TypeInv, TypeOK, Untouched, Buffered
  <2>13. CASE UNCHANGED vars
    BY <2>13 DEF vars, TypeInv, TypeOK, Untouched, Buffered
  <2> QED BY <2>1, <2>2, <2>3, <2>4, <2>5, <2>6, <2>7, <2>8, <2>9, <2>10, <2>11, <2>12, <2>13
          DEF Next, Run
<1> QED BY <1>1, <1>2, PTL DEF Spec

\* The variables keep their types, and no more is sent than was written
\* (server.go, overrides.go).
THEOREM TypeCorrect == Spec => []TypeOK
<1>1. TypeInv => TypeOK
  BY DEF TypeInv
<1> QED BY <1>1, TypeInvariant, PTL

-----------------------------------------------------------------------------

\* Nothing has been sent, nor told to the statusRecorder.
Early ==
    \/ pc \in {"delay", "abort", "replay"}
    \/ pc = "handler" /\ (Buffered \/ ~Headless(todo))

Fresh == Early => w.status = None /\ status = 200
Unlogged == pc \in {"delay", "abort", "handler", "replay", "finish"} => logged = None

\* The statusRecorder and net/http agree, 200 standing for no status yet.
Agree == status = (IF w.status = None THEN 200 ELSE w.status) \/ Informational(status)
Told == logged # None /\ pc # "hijacked" => logged = w.status \/ Informational(logged)

LogInv == HeadFirst(todo) /\ Fresh /\ Unlogged /\ Agree /\ Told

\* What is left of the operations after the first.
LEMMA TailHeads ==
    ASSUME NEW ops \in Seq(Ops), ops # <<>>, HeadFirst(ops)
    PROVE  /\ HeadFirst(Tail(ops))
           /\ Headless(ops) => Headless(Tail(ops))
           /\ Head(ops) \notin Before => Headless(Tail(ops))
           /\ Head(ops) \notin Before \cup {"head"} => Headless(ops)
<1> DEFINE rest == Tail(ops)
<1>1. /\ Len(ops) \in Nat /\ Len(ops) > 0 /\ Len(rest) = Len(ops) - 1 /\ Head(ops) = ops[1]
      /\ \A i \in 1..Len(rest) : rest[i] = ops[i + 1]
  BY EmptySeq, LenProperties, HeadTailProperties
<1> HIDE DEF rest
<1>2. HeadFirst(rest)
  BY <1>1 DEF HeadFirst
<1>3. Headless(ops) => Headless(rest)
  BY <1>1 DEF Headless
<1>4. Head(ops) \notin Before => Headless(rest)
  <2> SUFFICES ASSUME ops[1] \notin Before, NEW i \in 1..Len(rest), rest[i] = "head"
               PROVE  FALSE
    BY <1>1 DEF Headless
  <2>1. i + 1 \in 1..Len(ops) /\ 1 \in 1..Len(ops) /\ 1 < i + 1 /\ ops[i + 1] = "head"
    BY <1>1
  <2> QED BY <2>1 DEF HeadFirst
<1>5. Head(ops) \notin Before \cup {"head"} => Headless(ops)
  <2> SUFFICES ASSUME ops[1] \notin Before \cup {"head"}, NEW j \in 1..Len(ops), ops[j] = "head"
               PROVE  FALSE
    BY <1>1 DEF Headless
  <2>1. 1 \in 1..Len(ops) /\ 1 < j
    BY <1>1
  <2> QED BY <2>1 DEF HeadFirst
<1> QED BY <1>2, <1>3, <1>4, <1>5 DEF rest

LEMMA NoHeads == HeadFirst(<<>>) /\ Headless(<<>>)
<1>1. Len(<<>>) = 0
  BY EmptySeq
<1> QED BY <1>1 DEF HeadFirst, Headless

\* A step that leaves the response, its status and the log alone.
LEMMA QuietStep ==
    ASSUME LogInv, UNCHANGED <<w, status, logged, Buffered>>, HeadFirst(todo'),
           Early' => Early,
           pc' \in {"delay", "abort", "handler", "replay", "finish"}
             => pc \in {"delay", "abort", "handler", "replay", "finish"},
           pc = "hijacked" => pc' = "hijacked"
    PROVE  LogInv'
BY DEF LogInv, Fresh, Unlogged, Agree, Told

LEMMA LogInvariant == Spec => []LogInv
<1>1. Init => LogInv
  BY HandlerOps DEF Init, LogInv, Fresh, Unlogged, Agree, Told
<1>2. TypeInv /\ LogInv /\ [Next]_vars => LogInv'
  <2> SUFFICES ASSUME TypeInv, LogInv, [Next]_vars PROVE LogInv'
    OBVIOUS
  <2>0. /\ w \in Responses /\ todo \in Seq(Ops)
        /\ h.code \in Codes /\ h.length \in Lengths /\ h.encoded \in BOOLEAN
        /\ HeadFirst(todo) /\ 200 \in Codes /\ 200 # None /\ ~Informational(200)
    BY HandlerOps, ResponseAssumption
       DEF TypeInv, TypeOK, LogInv, Ops, Responses, Codes, PageCodes, Informational
  <2>1. CASE DelayOver \/ NoAbort
    <3>1. UNCHANGED <<w, status, logged, todo, ov, upgrade>>
          /\ pc \in {"delay", "abort"} /\ pc' \in {"abort", "handler"}
      BY <2>1 DEF DelayOver, NoAbort, request
    <3> QED BY <2>0, <3>1, QuietStep DEF Early, Buffered
  <2>2. CASE Abort
    <3>1. w.status = None /\ status = 200 /\ logged = None
      BY <2>2 DEF Abort, LogInv, Fresh, Unlogged, Early
    <3> DEFINE p == Written(w, "partial")
    <3>2. p \in Responses /\ p.status = 200
      <4>1. "partial" \in Pieces
        BY DEF Pieces
      <4>2. p \in Responses /\ p.status = Headed(w, 200).status
        BY <2>0, <4>1, WrittenIs, ZenonT(30)
      <4>3. Headed(w, 200).status = 200
        BY <2>0, <3>1, HeadedIs
      <4> HIDE DEF p
      <4> QED BY <4>2, <4>3
    <3>3. Flushed(p).status = 200
      BY <2>0, <3>2, FlushedIs, HeadedIs
    <3>4. w' = p \/ w' = Flushed(p)
      BY <2>2 DEF Abort
    <3> HIDE DEF p
    <3>5. w'.status = 200 /\ status' = 200 /\ logged' = None /\ pc' = "cut" /\ todo' = todo
      BY <2>2, <3>1, <3>2, <3>3, <3>4 DEF Abort
    <3> QED BY <2>0, <3>5 DEF LogInv, Fresh, Early, Unlogged, Agree, Told
  <2>3. CASE Replay
    <3>1. CASE ~Valid(replayCode)
      <4>1. pc = "replay" /\ pc' = "cut" /\ UNCHANGED <<w, status, logged, todo, ov, upgrade>>
        BY <2>3, <3>1 DEF Replay, request
      <4> QED BY <2>0, <4>1, QuietStep DEF Early, Buffered
    <3>2. CASE Valid(replayCode)
      <4>1. /\ status' = replayCode
            /\ w'.status = IF Informational(replayCode) THEN 200 ELSE replayCode
            /\ replayCode \in Codes
        BY <2>3, <3>2, ReplayIs
      <4>2. pc' = "finish" /\ logged' = None /\ todo' = todo
        BY <2>3, <3>2 DEF Replay, LogInv, Unlogged
      <4>3. replayCode # None
        BY <3>2, ResponseAssumption DEF Valid
      <4>4. Agree'
        BY <2>0, <4>1, <4>3 DEF Agree
      <4> QED BY <2>0, <4>2, <4>4 DEF LogInv, Fresh, Early, Unlogged, Told
    <3> QED BY <3>1, <3>2
  <2>4. CASE Return
    <3>1. /\ UNCHANGED <<w, status, logged, ov, upgrade>> /\ pc = "handler" /\ todo' = <<>>
          /\ pc' = IF Buffered THEN "replay" ELSE "finish"
      BY <2>4 DEF Return, Returned, request
    <3> QED BY <3>1, NoHeads, QuietStep DEF Early, Buffered
  <2>5. CASE WriteHeader
    <3>1. /\ todo # <<>> /\ Head(todo) = "head" /\ pc = "handler" /\ UNCHANGED <<logged, ov, upgrade>>
      BY <2>5 DEF WriteHeader, At, request
    <3>2. HeadFirst(Tail(todo)) /\ Headless(Tail(todo)) /\ ~Headless(todo)
      <4>1. Len(todo) \in Nat /\ Len(todo) > 0 /\ todo[1] = "head"
        BY <2>0, <3>1, EmptySeq, LenProperties, HeadTailProperties
      <4> QED BY <2>0, <3>1, <4>1, TailHeads DEF Before, Headless
    <3>3. w.status = None /\ status = 200 /\ logged = None
      BY <3>1, <3>2 DEF LogInv, Fresh, Early, Unlogged
    <3>4. CASE Buffered /\ UNCHANGED <<w, status>> /\ Advance
      BY <3>1, <3>2, <3>4, QuietStep DEF Advance, Early, Buffered
    <3>5. CASE /\ ~Buffered /\ Valid(h.code) /\ status' = h.code /\ Advance
               /\ w' = Headed([w EXCEPT !.length = h.length, !.encoded = h.encoded], h.code)
      <4> DEFINE a == [w EXCEPT !.length = h.length, !.encoded = h.encoded]
      <4>1. a \in Responses /\ a.status = None
        BY <2>0, <3>3 DEF Responses
      <4>2. w' = Headed(a, h.code)
        BY <3>5
      <4> HIDE DEF a
      <4>3. w'.status = IF Informational(h.code) THEN None ELSE h.code
        BY <2>0, <4>1, <4>2, HeadedIs
      <4>4. h.code # None
        BY <3>5, ResponseAssumption DEF Valid
      <4>5. Agree'
        BY <3>5, <4>3, <4>4 DEF Agree
      <4>6. pc' = "handler" /\ todo' = Tail(todo) /\ logged' = None /\ ~Buffered'
        BY <3>1, <3>3, <3>5 DEF Advance, Buffered
      <4> QED BY <3>2, <4>5, <4>6 DEF LogInv, Fresh, Early, Unlogged, Told
    <3>6. CASE pc' = "cut" /\ UNCHANGED <<todo, w, rec, status>>
      BY <2>0, <3>1, <3>6, QuietStep DEF Early, Buffered
    <3> QED BY <2>5, <3>4, <3>5, <3>6 DEF WriteHeader
  <2>6. CASE Write
    <3>1. /\ todo # <<>> /\ Head(todo) = "write" /\ pc = "handler"
          /\ UNCHANGED <<status, logged, ov, upgrade>>
      BY <2>6 DEF Write, At, request
    <3>2. HeadFirst(Tail(todo)) /\ Headless(Tail(todo)) /\ Headless(todo)
      BY <2>0, <3>1, TailHeads DEF Before
    <3>3. CASE Buffered /\ UNCHANGED w /\ Advance
      BY <3>1, <3>2, <3>3, QuietStep DEF Advance, Early, Buffered
    <3>4. CASE /\ ~Buffered /\ (Advance \/ Returned)
               /\ w' = Written(w, "handler") \/ w' = Headed(w, 200)
      <4>1. w'.status = IF w.status # None THEN w.status ELSE 200
        <5>1. Headed(w, 200).status = IF w.status # None THEN w.status ELSE 200
          BY <2>0, HeadedIs
        <5>2. "handler" \in Pieces
          BY DEF Pieces
        <5>3. Written(w, "handler").status = Headed(w, 200).status
          BY <2>0, <5>2, WrittenIs, Zenon
        <5> QED BY <3>4, <5>1, <5>3, Zenon
      <4>2. Agree'
        BY <2>0, <3>1, <4>1 DEF LogInv, Agree
      <4>3. /\ pc' \in {"handler", "finish"} /\ logged' = None /\ ~Buffered'
            /\ HeadFirst(todo') /\ Headless(todo')
        BY <3>1, <3>2, <3>4, NoHeads DEF Advance, Returned, Buffered, LogInv, Unlogged
      <4> QED BY <4>2, <4>3 DEF LogInv, Fresh, Early, Unlogged, Told
    <3> QED BY <2>6, <3>3, <3>4 DEF Write
  <2>7. CASE Flush
    <3>1. /\ todo # <<>> /\ Head(todo) = "flush" /\ pc = "handler" /\ pc' = pc
          /\ todo' = Tail(todo) /\ UNCHANGED <<status, logged, ov, upgrade>>
      BY <2>7 DEF Flush, At, Advance, request
    <3>2. HeadFirst(Tail(todo)) /\ Headless(Tail(todo)) /\ Headless(todo)
      BY <2>0, <3>1, TailHeads DEF Before
    <3>3. CASE UNCHANGED w
      BY <3>1, <3>2, <3>3, QuietStep DEF Early, Buffered
    <3>4. CASE ~Buffered /\ (w' = Flushed(w) \/ w' = Headed(w, 200))
      <4>1. w'.status = IF w.status # None THEN w.status ELSE 200
        BY <2>0, <3>4, FlushedIs, HeadedIs
      <4>2. Agree'
        BY <2>0, <3>1, <4>1 DEF LogInv, Agree
      <4>3. logged' = None /\ ~Buffered'
        BY <3>1, <3>4 DEF Buffered, LogInv, Unlogged
      <4> QED BY <3>1, <3>2, <4>2, <4>3 DEF LogInv, Fresh, Early, Unlogged, Told
    <3> QED BY <2>7, <3>3, <3>4 DEF Flush
  <2>8. CASE TimerFires \/ Poll \/ ReadBody
    <3>1. /\ todo # <<>> /\ pc = "handler" /\ pc' = pc /\ todo' = Tail(todo)
          /\ UNCHANGED <<w, status, logged, ov, upgrade>>
      BY <2>8 DEF TimerFires, Poll, ReadBody, At, Advance, request
    <3> QED BY <2>0, <3>1, TailHeads, QuietStep DEF Early, Buffered
  <2>9. CASE ContextDone
    <3>1. UNCHANGED <<w, status, logged, ov, upgrade>>
      BY <2>9 DEF ContextDone, request
    <3>2. CASE pc = "delay" /\ pc' = "finish" /\ UNCHANGED todo
      BY <2>0, <3>1, <3>2, QuietStep DEF Early, Buffered
    <3>3. CASE pc = "handler" /\ Returned
      BY <3>1, <3>3, NoHeads, QuietStep DEF Returned, Early, Buffered
    <3> QED BY <2>9, <3>2, <3>3 DEF ContextDone, At
  <2>10. CASE Hijack
    <3>1. /\ pc = "handler" /\ pc' = "hijacked" /\ todo' = <<>>
          /\ UNCHANGED <<w, status, logged, ov, upgrade>>
      BY <2>10 DEF Hijack, At, request
    <3> QED BY <3>1, NoHeads, QuietStep DEF Early, Buffered
  <2>11. CASE LogHijacked
    BY <2>11 DEF LogHijacked, request, LogInv, Fresh, Early, Unlogged, Agree, Told
  <2>12. CASE Finish
    <3> DEFINE r == Headed(w, 200)
    <3>1. r \in Responses /\ r.status = IF w.status # None THEN w.status ELSE 200
      BY <2>0, HeadedIs
    <3>2. w' = [r EXCEPT !.sent = Len(r.body)] \/ w' = r
      BY <2>12 DEF Finish
    <3> HIDE DEF r
    <3>3. w'.status = r.status
      BY <3>1, <3>2 DEF Responses
    <3>4. /\ status' = status /\ pc' \in {"done", "cut"} /\ todo' = todo
          /\ logged' = None \/ logged' = status
      BY <2>12 DEF Finish
    <3>5. Agree' /\ Told'
      BY <2>0, <3>1, <3>3, <3>4 DEF LogInv, Agree, Told
    <3> QED BY <2>0, <3>4, <3>5 DEF LogInv, Fresh, Early, Unlogged
  <2>13. CASE Disconnect \/ Notice \/ Expire \/ UNCHANGED vars
    <3>1. UNCHANGED <<w, status, logged, pc, todo, ov, upgrade>>
      BY <2>13 DEF Disconnect, Notice, Expire, request, vars
    <3> QED BY <2>0, <3>1, QuietStep DEF Early, Buffered
  <2> QED BY <2>1, <2>2, <2>3, <2>4, <2>5, <2>6, <2>7, <2>8, <2>9, <2>10, <2>11, <2>12, <2>13
          DEF Next, Run
<1> QED BY <1>1, <1>2, TypeInvariant, PTL DEF Spec

\* The access log shows the status that was sent, for any handler and any
\* overrides, informational ones apart (server.go, withLogging).
THEOREM LogIsRight == Spec => []LogTellsStatus
<1>1. LogInv => LogTellsStatus
  BY DEF LogInv, Told, LogTellsStatus
<1> QED BY <1>1, LogInvariant, PTL

-----------------------------------------------------------------------------

\* What has been written waits for nothing, or is flushed first.
Sent == w.sent = Len(w.body) \/ Follows(todo)

PaceInv ==
    /\ Paced(todo)
    /\ pc \in {"delay", "abort"} \/ (Buffered /\ pc = "handler") => w.body = <<>>
    /\ pc = "handler" /\ quiet /\ client = "here" /\ ~expired /\ w.body # <<>> => Sent

\* What is left of the operations after the first.
LEMMA TailPace ==
    ASSUME NEW ops \in Seq(Ops), ops # <<>>, Paced(ops)
    PROVE  /\ Paced(Tail(ops))
           /\ Head(ops) = "write" => Follows(Tail(ops))
           /\ Follows(ops) /\ Head(ops) # "flush" => Follows(Tail(ops))
           /\ Follows(ops) => Head(ops) # "wait"
<1> DEFINE rest == Tail(ops)
<1>1. /\ Len(ops) \in Nat /\ Len(ops) > 0 /\ Len(rest) = Len(ops) - 1 /\ Head(ops) = ops[1]
      /\ \A i \in 1..Len(rest) : rest[i] = ops[i + 1]
  BY EmptySeq, LenProperties, HeadTailProperties
<1> HIDE DEF rest
<1>2. Paced(rest)
  <2> SUFFICES ASSUME NEW i \in 1..Len(rest), NEW j \in 1..Len(rest),
                      i < j, rest[i] = "write", rest[j] = "wait"
               PROVE  rest[j - 1] = "flush"
    BY DEF Paced
  <2>1. /\ i + 1 \in 1..Len(ops) /\ j + 1 \in 1..Len(ops) /\ i + 1 < j + 1
        /\ ops[i + 1] = "write" /\ ops[j + 1] = "wait"
    BY <1>1
  <2>2. ops[(j + 1) - 1] = "flush"
    BY <2>1 DEF Paced
  <2>3. j - 1 \in 1..Len(rest) /\ (j + 1) - 1 = (j - 1) + 1
    BY <1>1
  <2>4. rest[j - 1] = ops[(j - 1) + 1]
    BY <1>1, <2>3
  <2> QED BY <2>2, <2>3, <2>4
<1>3. ASSUME NEW j \in 1..Len(rest), rest[j] = "wait", ops[1] # "flush", ops[(j + 1) - 1] = "flush"
      PROVE  j > 1 /\ rest[j - 1] = "flush"
  <2>1. (j + 1) - 1 = j /\ (j > 1 => j - 1 \in 1..Len(rest) /\ (j - 1) + 1 = j)
    BY <1>1
  <2>2. j > 1
    BY <1>3, <2>1
  <2> QED BY <1>1, <1>3, <2>1, <2>2
<1>4. Head(ops) = "write" => Follows(rest)
  <2> SUFFICES ASSUME ops[1] = "write", NEW j \in 1..Len(rest), rest[j] = "wait"
               PROVE  j > 1 /\ rest[j - 1] = "flush"
    BY <1>1 DEF Follows
  <2>1. 1 \in 1..Len(ops) /\ j + 1 \in 1..Len(ops) /\ 1 < j + 1 /\ ops[j + 1] = "wait"
    BY <1>1
  <2>2. ops[(j + 1) - 1] = "flush"
    BY <2>1 DEF Paced
  <2> QED BY <1>3, <2>2
<1>5. Follows(ops) /\ Head(ops) # "flush" => Follows(rest)
  <2> SUFFICES ASSUME Follows(ops), ops[1] # "flush", NEW j \in 1..Len(rest), rest[j] = "wait"
               PROVE  j > 1 /\ rest[j - 1] = "flush"
    BY <1>1 DEF Follows
  <2>1. j + 1 \in 1..Len(ops) /\ ops[j + 1] = "wait"
    BY <1>1
  <2>2. ops[(j + 1) - 1] = "flush"
    BY <2>1 DEF Follows
  <2> QED BY <1>3, <2>2
<1>6. Follows(ops) => Head(ops) # "wait"
  <2>1. 1 \in 1..Len(ops) /\ ~(1 > 1)
    BY <1>1
  <2> QED BY <1>1, <2>1 DEF Follows
<1> QED BY <1>2, <1>4, <1>5, <1>6 DEF rest

LEMMA NoPace == Paced(<<>>) /\ Follows(<<>>)
<1>1. Len(<<>>) = 0
  BY EmptySeq
<1> QED BY <1>1 DEF Paced, Follows

\* A step to a place where nothing is left of the handler.
LEMMA PaceOver ==
    ASSUME Paced(todo'), pc' \notin {"delay", "abort", "handler"}
    PROVE  PaceInv'
BY DEF PaceInv

\* A step that leaves the response and the operations alone.
LEMMA PaceStays ==
    ASSUME PaceInv, UNCHANGED <<w, todo, quiet, ov, upgrade>>,
           pc' = pc \/ (pc \in {"delay", "abort"} /\ pc' \in {"abort", "handler"}),
           client' = "here" => client = "here", expired => expired'
    PROVE  PaceInv'
BY DEF PaceInv, Sent, Buffered

\* A step to the handler's next operation, which leaves the response alone.
LEMMA PaceAdvances ==
    ASSUME TypeInv, PaceInv, todo # <<>>, Head(todo) # "flush",
           todo' = Tail(todo), pc = "handler", pc' = "handler",
           w'.body = w.body, w'.sent = w.sent, UNCHANGED <<quiet, ov, upgrade, client, expired>>
    PROVE  PaceInv'
<1>1. todo \in Seq(Ops)
  BY DEF TypeInv, TypeOK, Ops
<1>2. Paced(todo') /\ (Follows(todo) => Follows(todo'))
  BY <1>1, TailPace DEF PaceInv
<1> QED BY <1>2 DEF PaceInv, Sent, Buffered

LEMMA PaceInvariant == Spec => []PaceInv
<1>1. Init => PaceInv
  BY HandlerOps DEF Init, PaceInv
<1>2. TypeInv /\ PaceInv /\ [Next]_vars => PaceInv'
  <2> SUFFICES ASSUME TypeInv, PaceInv, [Next]_vars PROVE PaceInv'
    OBVIOUS
  <2>0. /\ w \in Responses /\ todo \in Seq(Ops) /\ Paced(todo)
        /\ h.code \in Codes /\ h.length \in Lengths /\ h.encoded \in BOOLEAN /\ 200 \in Codes
    BY HandlerOps DEF TypeInv, TypeOK, PaceInv, Ops, Responses, Codes, PageCodes
  <2>1. CASE DelayOver \/ NoAbort \/ LogHijacked \/ Disconnect \/ Notice \/ Expire
    <3>1. /\ UNCHANGED <<w, todo, quiet, ov, upgrade>>
          /\ (pc' = pc \/ (pc \in {"delay", "abort"} /\ pc' \in {"abort", "handler"}))
          /\ (client' = "here" => client = "here") /\ (expired => expired')
      BY <2>1 DEF DelayOver, NoAbort, LogHijacked, Disconnect, Notice, Expire, request, world
    <3> QED BY <3>1, PaceStays
  <2>2. CASE Abort \/ Replay \/ Finish
    <3>1. todo' = todo /\ pc' \notin {"delay", "abort", "handler"}
      BY <2>2 DEF Abort, Replay, Finish
    <3> QED BY <2>0, <3>1, PaceOver
  <2>3. CASE Return \/ Hijack
    <3>1. todo' = <<>> /\ pc' \notin {"delay", "abort", "handler"}
      BY <2>3 DEF Return, Returned, Hijack
    <3> QED BY <3>1, NoPace, PaceOver
  <2>4. CASE ContextDone
    <3>1. todo' \in {todo, <<>>} /\ pc' \notin {"delay", "abort", "handler"}
      BY <2>4 DEF ContextDone, Returned
    <3> QED BY <2>0, <3>1, NoPace, PaceOver
  <2>5. CASE TimerFires \/ Poll \/ ReadBody
    BY <2>5, PaceAdvances DEF TimerFires, Poll, ReadBody, At, Advance, request, world
  <2>6. CASE WriteHeader
    <3>1. /\ pc = "handler" /\ todo # <<>> /\ Head(todo) = "head"
          /\ UNCHANGED <<quiet, ov, upgrade, client, expired>>
      BY <2>6 DEF WriteHeader, At, request, world
    <3>2. CASE Advance /\ w' = w
      BY <3>1, <3>2, PaceAdvances DEF Advance
    <3>3. CASE Advance /\ w' = Headed([w EXCEPT !.length = h.length, !.encoded = h.encoded], h.code)
      <4>1. w'.body = w.body /\ w'.sent = w.sent
        <5> DEFINE a == [w EXCEPT !.length = h.length, !.encoded = h.encoded]
        <5>1. a \in Responses /\ a.sent = w.sent /\ a.body = w.body
          BY <2>0 DEF Responses
        <5> HIDE DEF a
        <5>2. Headed(a, h.code).body = a.body /\ Headed(a, h.code).sent = a.sent
          BY <2>0, <5>1, HeadedIs
        <5> QED BY <3>3, <5>1, <5>2 DEF a
      <4> QED BY <3>1, <3>3, <4>1, PaceAdvances DEF Advance
    <3>4. CASE pc' = "cut" /\ todo' = todo
      BY <2>0, <3>4, PaceOver
    <3> QED BY <2>6, <3>2, <3>3, <3>4 DEF WriteHeader
  <2>7. CASE Write
    <3>1. /\ pc = "handler" /\ todo # <<>> /\ Head(todo) = "write"
          /\ UNCHANGED <<quiet, ov, upgrade, client, expired>>
      BY <2>7 DEF Write, At, request, world
    <3>2. CASE Advance /\ w' = w
      BY <3>1, <3>2, PaceAdvances DEF Advance
    <3>3. CASE ~Buffered /\ Advance
      <4>1. Paced(todo') /\ Follows(todo') /\ pc' = "handler"
        BY <2>0, <3>1, <3>3, TailPace DEF Advance
      <4>2. ~Buffered'
        BY <3>1, <3>3 DEF Buffered
      <4> QED BY <4>1, <4>2 DEF PaceInv, Sent
    <3>4. CASE Returned
      <4>1. todo' = <<>> /\ pc' \notin {"delay", "abort", "handler"}
        BY <3>4 DEF Returned
      <4> QED BY <4>1, NoPace, PaceOver
    <3> QED BY <2>7, <3>2, <3>3, <3>4 DEF Write
  <2>8. CASE Flush
    <3>1. /\ pc = "handler" /\ pc' = "handler" /\ todo # <<>> /\ todo' = Tail(todo)
          /\ UNCHANGED <<quiet, ov, upgrade, client, expired>>
      BY <2>8 DEF Flush, At, Advance, request
    <3>2. Paced(todo')
      BY <2>0, <3>1, TailPace
    <3>3. CASE Buffered
      <4>1. w' = w /\ w.body = <<>> /\ Buffered'
        BY <2>8, <3>1, <3>3 DEF Flush, PaceInv, Buffered
      <4> QED BY <3>1, <3>2, <4>1 DEF PaceInv
    <3>4. CASE ~Buffered
      <4>1. ~Buffered'
        BY <3>1, <3>4 DEF Buffered
      <4>2. quiet' /\ client' = "here" /\ ~expired' => w'.sent = Len(w'.body)
        <5> SUFFICES ASSUME quiet, client = "here", ~expired PROVE w'.sent = Len(w'.body)
          BY <3>1
        <5>1. w' = Flushed(w)
          BY <2>8, <3>4 DEF Flush, OuterFlushes
        <5> QED BY <2>0, <5>1, FlushedIs
      <4> QED BY <3>1, <3>2, <4>1, <4>2 DEF PaceInv, Sent
    <3> QED BY <3>3, <3>4
  <2>9. CASE UNCHANGED vars
    BY <2>9, PaceStays DEF vars
  <2> QED BY <2>1, <2>2, <2>3, <2>4, <2>5, <2>6, <2>7, <2>8, <2>9 DEF Next, Run
<1> QED BY <1>1, <1>2, TypeInvariant, PTL DEF Spec

\* With --quiet a handler never waits while a byte it wrote is held back, so
\* long as the client is there and the write deadline has not passed (drip.go).
THEOREM PaceIsKept == Spec => []TricklesWhenQuiet
<1>1. TypeInv /\ PaceInv => TricklesWhenQuiet
  <2> SUFFICES ASSUME TypeInv, PaceInv, quiet, Waiting, client = "here", ~expired
               PROVE  w.sent = Len(w.body)
    BY DEF TricklesWhenQuiet, Delivered
  <2>1. Sent /\ todo # <<>> /\ Head(todo) = "wait"
    BY DEF PaceInv, Waiting, At
  <2>2. todo \in Seq(Ops) /\ Paced(todo)
    BY DEF TypeInv, TypeOK, PaceInv, Ops
  <2> QED BY <2>1, <2>2, TailPace DEF Sent
<1> QED BY <1>1, TypeInvariant, PaceInvariant, PTL

-----------------------------------------------------------------------------

\* The encoding declared is the handler's from the moment its header is written.
Unencoded == pc \in {"delay", "abort"} =>
    ~w.encoded /\ ~rec.encoded /\ (Headless(todo) => ~h.encoded)
HeadTells == pc = "handler" /\ Headless(todo) =>
    (IF Buffered THEN rec.encoded ELSE w.encoded) = h.encoded
RecordTells == rec.body # <<>> => rec.encoded = h.encoded
ReplyTells == pc # "cut" /\ w.body # <<>> /\ ~(ov.body /\ Buffered) => w.encoded = h.encoded
Unreplied == pc \in {"delay", "abort", "replay"} => w.body = <<>>

EncInv == Unencoded /\ HeadTells /\ RecordTells /\ ReplyTells /\ Unreplied

\* Whether the header is written changes only when it is written.
LEMMA HeadStays ==
    ASSUME NEW ops \in Seq(Ops), ops # <<>>, Head(ops) # "head", Headless(Tail(ops))
    PROVE  Headless(ops)
<1> DEFINE rest == Tail(ops)
<1>1. /\ Len(ops) \in Nat /\ Len(rest) = Len(ops) - 1 /\ Head(ops) = ops[1]
      /\ \A i \in 1..Len(rest) : rest[i] = ops[i + 1]
  BY EmptySeq, LenProperties, HeadTailProperties
<1> HIDE DEF rest
<1> SUFFICES ASSUME NEW j \in 1..Len(ops), ops[j] = "head" PROVE FALSE
  BY DEF Headless
<1>2. j - 1 \in 1..Len(rest) /\ (j - 1) + 1 = j
  BY <1>1
<1>3. rest[j - 1] = "head"
  BY <1>1, <1>2
<1> QED BY <1>2, <1>3 DEF Headless, rest

\* A step to the handler's next operation, which declares nothing and adds
\* nothing.
LEMMA EncAdvances ==
    ASSUME TypeInv, EncInv, todo # <<>>, Head(todo) # "head",
           todo' = Tail(todo), pc = "handler", pc' = "handler", rec' = rec,
           w'.body = w.body, w'.encoded = w.encoded, UNCHANGED <<ov, upgrade, h>>
    PROVE  EncInv'
<1>1. todo \in Seq(Ops)
  BY DEF TypeInv, TypeOK, Ops
<1>2. Headless(todo') => Headless(todo)
  BY <1>1, HeadStays
<1> QED BY <1>2 DEF EncInv, Unencoded, HeadTells, RecordTells, ReplyTells, Unreplied, Buffered

\* A step out of the handler, or after it, that declares and adds nothing.
LEMMA EncLeaves ==
    ASSUME EncInv, rec' = rec, w'.body = w.body, w'.encoded = w.encoded,
           UNCHANGED <<ov, upgrade, h>>, pc # "cut", pc' \notin {"delay", "abort", "handler"},
           pc' = "replay" => w.body = <<>>
    PROVE  EncInv'
BY DEF EncInv, Unencoded, HeadTells, RecordTells, ReplyTells, Unreplied, Buffered

LEMMA EncInvariant == Spec => []EncInv
<1>1. Init => EncInv
  BY HandlerOps DEF Init, EncInv, Unencoded, HeadTells, RecordTells, ReplyTells, Unreplied
<1>2. TypeInv /\ LogInv /\ PaceInv /\ EncInv /\ [Next]_vars => EncInv'
  <2> SUFFICES ASSUME TypeInv, LogInv, PaceInv, EncInv, [Next]_vars PROVE EncInv'
    OBVIOUS
  <2>0. /\ w \in Responses /\ todo \in Seq(Ops) /\ HeadFirst(todo)
        /\ h.code \in Codes /\ h.length \in Lengths /\ h.encoded \in BOOLEAN /\ 200 \in Codes
    BY HandlerOps DEF TypeInv, TypeOK, LogInv, Ops, Responses, Codes, PageCodes
  <2>1. CASE DelayOver \/ NoAbort
    <3>1. /\ UNCHANGED <<w, rec, todo, h, ov, upgrade>> /\ pc \in {"delay", "abort"}
          /\ pc' \in {"abort", "handler"}
      BY <2>1 DEF DelayOver, NoAbort, request
    <3> QED BY <2>0, <3>1 DEF EncInv, Unencoded, HeadTells, RecordTells, ReplyTells, Unreplied,
                              Buffered, TypeInv, TypeOK, Responses
  <2>2. CASE Abort
    <3>1. pc' = "cut" /\ UNCHANGED <<rec, h>>
      BY <2>2 DEF Abort, request
    <3> QED BY <3>1 DEF EncInv, Unencoded, HeadTells, RecordTells, ReplyTells, Unreplied
  <2>3. CASE Replay
    <3>1. pc = "replay" /\ UNCHANGED <<rec, h, ov, upgrade>>
      BY <2>3 DEF Replay, request
    <3>2. CASE ~Valid(replayCode)
      BY <2>3, <3>1, <3>2, EncLeaves DEF Replay
    <3>3. CASE Valid(replayCode)
      <4> DEFINE b == Headed(Copied, replayCode)
                 q == Headed(b, 200)
      <4>1. /\ replayCode \in Codes /\ Copied \in Responses
            /\ Copied.encoded = rec.encoded /\ Copied.body = w.body
        <5>1. replayCode \in Codes
          BY <2>3, <3>3, ReplayIs
        <5>2. replayLength \in Lengths /\ rec.encoded \in BOOLEAN
          BY DEF TypeInv, TypeOK, replayLength, Lengths
        <5> QED BY <2>0, <5>1, <5>2 DEF Copied, Responses
      <4>2. b \in Responses /\ b.encoded = rec.encoded /\ b.body = w.body
        BY <4>1, HeadedIs
      <4> HIDE DEF b
      <4>3. q \in Responses /\ q.encoded = rec.encoded /\ q.body = w.body
        BY <2>0, <4>2, HeadedIs
      <4>4. w' = (IF Bodiless(q.status) THEN q ELSE [q EXCEPT !.body = replayBody])
            /\ pc' = "finish"
        BY <2>3, <3>3 DEF Replay, b
      <4> HIDE DEF q
      <4>5. w'.encoded = rec.encoded /\ (w'.body = w.body \/ w'.body = replayBody)
        BY <4>3, <4>4 DEF Responses
      <4>6. w.body = <<>> /\ Buffered
        BY <3>1 DEF EncInv, Unreplied, TypeInv, Untouched
      <4> QED BY <3>1, <4>4, <4>5, <4>6
              DEF EncInv, Unencoded, HeadTells, RecordTells, ReplyTells, Unreplied, replayBody,
                  Buffered
    <3> QED BY <3>2, <3>3
  <2>4. CASE Return \/ Hijack \/ ContextDone
    <3>1. /\ UNCHANGED <<w, rec, h, ov, upgrade>> /\ pc \in {"delay", "handler"}
          /\ pc' \notin {"delay", "abort", "handler"}
          /\ (pc' = "replay" => Buffered /\ pc = "handler")
      BY <2>4 DEF Return, Hijack, ContextDone, Returned, At, request
    <3>2. pc' = "replay" => w.body = <<>>
      BY <3>1 DEF PaceInv
    <3> QED BY <3>1, <3>2, EncLeaves
  <2>5. CASE TimerFires \/ Poll \/ ReadBody
    <3>1. /\ UNCHANGED <<w, rec, h, ov, upgrade, pc>> /\ pc = "handler" /\ todo # <<>>
          /\ todo' = Tail(todo) /\ Head(todo) # "head"
      BY <2>5 DEF TimerFires, Poll, ReadBody, At, Advance, request
    <3> QED BY <3>1, EncAdvances
  <2>6. CASE WriteHeader
    <3>1. pc = "handler" /\ UNCHANGED <<h, ov, upgrade>>
      BY <2>6 DEF WriteHeader, At, request
    <3>2. CASE /\ Buffered /\ w' = w /\ pc' = pc
               /\ rec' = [rec EXCEPT !.status = h.code, !.length = h.length, !.encoded = h.encoded]
      <4>1. rec'.encoded = h.encoded
        BY <3>2 DEF TypeInv, TypeOK
      <4> QED BY <3>1, <3>2, <4>1 DEF EncInv, Unencoded, HeadTells, RecordTells, ReplyTells,
                                      Unreplied, Buffered
    <3>3. CASE /\ ~Buffered /\ rec' = rec /\ pc' = pc
               /\ w' = Headed([w EXCEPT !.length = h.length, !.encoded = h.encoded], h.code)
      <4> DEFINE a == [w EXCEPT !.length = h.length, !.encoded = h.encoded]
      <4>1. a \in Responses /\ a.encoded = h.encoded
        BY <2>0 DEF Responses
      <4> HIDE DEF a
      <4>2. Headed(a, h.code).encoded = h.encoded
        BY <2>0, <4>1, HeadedIs
      <4>3. w'.encoded = h.encoded
        BY <3>3, <4>2 DEF a
      <4> QED BY <3>1, <3>3, <4>3 DEF EncInv, Unencoded, HeadTells, RecordTells, ReplyTells,
                                      Unreplied, Buffered
    <3>4. CASE pc' = "cut" /\ UNCHANGED <<w, rec>>
      BY <3>1, <3>4, EncLeaves
    <3> QED BY <2>6, <3>2, <3>3, <3>4 DEF WriteHeader, Advance
  <2>7. CASE Write
    <3>1. /\ pc = "handler" /\ todo # <<>> /\ Head(todo) = "write"
          /\ UNCHANGED <<h, ov, upgrade>>
      BY <2>7 DEF Write, At, request
    <3>2. Headless(todo)
      BY <2>0, <3>1, TailHeads DEF Before
    <3>3. CASE Buffered /\ w' = w /\ rec' = [rec EXCEPT !.body = Append(@, "handler")] /\ Advance
      <4>1. rec'.encoded = rec.encoded /\ pc' = "handler" /\ rec.encoded = h.encoded
        BY <3>1, <3>2, <3>3 DEF TypeInv, TypeOK, Advance, EncInv, HeadTells
      <4> QED BY <3>1, <3>3, <4>1 DEF EncInv, Unencoded, HeadTells, RecordTells, ReplyTells,
                                      Unreplied, Buffered
    <3>4. CASE ~Buffered /\ rec' = rec /\ (Advance \/ Returned)
               /\ (w' = Written(w, "handler") \/ w' = Headed(w, 200))
      <4>0. "handler" \in Pieces
        BY DEF Pieces
      <4>1. w'.encoded = w.encoded
        <5>1. CASE w' = Written(w, "handler")
          BY <2>0, <4>0, <5>1, WrittenIs, ZenonT(30)
        <5>2. CASE w' = Headed(w, 200)
          BY <2>0, <5>2, HeadedIs
        <5> QED BY <3>4, <5>1, <5>2
      <4>2. w.encoded = h.encoded /\ pc' \in {"handler", "finish"}
        BY <3>1, <3>2, <3>4 DEF EncInv, HeadTells, Advance, Returned
      <4> QED BY <3>1, <3>4, <4>1, <4>2 DEF EncInv, Unencoded, HeadTells, RecordTells, ReplyTells,
                                            Unreplied, Buffered
    <3> QED BY <2>7, <3>3, <3>4 DEF Write
  <2>8. CASE Flush
    <3>1. /\ pc = "handler" /\ pc' = "handler" /\ todo # <<>> /\ todo' = Tail(todo)
          /\ Head(todo) # "head" /\ UNCHANGED <<rec, h, ov, upgrade>>
      BY <2>8 DEF Flush, At, Advance, request
    <3>2. w'.body = w.body /\ w'.encoded = w.encoded
      <4>1. w' = w \/ w' = Flushed(w) \/ w' = Headed(w, 200)
        BY <2>8 DEF Flush
      <4> QED BY <2>0, <4>1, FlushedIs, HeadedIs
    <3> QED BY <3>1, <3>2, EncAdvances
  <2>9. CASE Finish
    <3> DEFINE q == Headed(w, 200)
    <3>1. q \in Responses /\ q.body = w.body /\ q.encoded = w.encoded
      BY <2>0, HeadedIs
    <3>2. w' = [q EXCEPT !.sent = Len(q.body)] \/ w' = q
      BY <2>9 DEF Finish
    <3>3. pc = "finish" /\ pc' \in {"done", "cut"} /\ UNCHANGED <<rec, h, ov, upgrade>>
      BY <2>9 DEF Finish, request
    <3> HIDE DEF q
    <3>4. w'.body = w.body /\ w'.encoded = w.encoded
      BY <3>1, <3>2 DEF Responses
    <3> QED BY <3>3, <3>4, EncLeaves
  <2>10. CASE LogHijacked \/ Disconnect \/ Notice \/ Expire \/ UNCHANGED vars
    <3>1. UNCHANGED <<w, rec, todo, h, ov, upgrade, pc>>
      BY <2>10 DEF LogHijacked, Disconnect, Notice, Expire, request, vars
    <3> QED BY <3>1 DEF EncInv, Unencoded, HeadTells, RecordTells, ReplyTells, Unreplied, Buffered
  <2> QED BY <2>1, <2>2, <2>3, <2>4, <2>5, <2>6, <2>7, <2>8, <2>9, <2>10 DEF Next, Run
<1> QED BY <1>1, <1>2, TypeInvariant, LogInvariant, PaceInvariant, PTL DEF Spec

\* A body that was not replaced arrives under the Content-Encoding its handler
\* declared, whether it was recorded or not (overrides.go; encoding.go).
THEOREM EncodingIsTold == Spec => []Decodable
<1>1. EncInv => Decodable
  BY DEF EncInv, ReplyTells, Decodable
<1> QED BY <1>1, EncInvariant, PTL

-----------------------------------------------------------------------------

\* Counting the pieces that a sequence of operations writes.
WritesOf(ops) == {i \in 1..Len(ops) : ops[i] = "write"}

LEMMA PiecesAre ==
    ASSUME NEW ops \in Seq(Ops)
    PROVE  /\ IsFiniteSet(WritesOf(ops)) /\ PieceCount(ops) = Cardinality(WritesOf(ops))
           /\ PieceCount(ops) \in Nat
<1>1. Len(ops) \in Nat /\ WritesOf(ops) \in SUBSET (1..Len(ops))
  BY LenProperties DEF WritesOf
<1>2. IsFiniteSet(1..Len(ops))
  BY <1>1, FS_Interval
<1>3. IsFiniteSet(WritesOf(ops))
  BY <1>1, <1>2, FS_Subset
<1>4. Cardinality(WritesOf(ops)) \in Nat
  BY <1>3, FS_CardinalityType
<1>5. PieceCount(ops) = Cardinality(WritesOf(ops))
  BY DEF PieceCount, WritesOf
<1> QED BY <1>3, <1>4, <1>5

\* Moved by some places the writes are as many.
LEMMA PiecesMoved ==
    ASSUME NEW ops \in Seq(Ops), NEW k \in Int, NEW S,
           S = {i \in Int : i - k \in WritesOf(ops)}
    PROVE  IsFiniteSet(S) /\ Cardinality(S) = PieceCount(ops)
<1> DEFINE T == WritesOf(ops)
           f == [i \in T |-> i + k]
<1>1. T \subseteq Int
  BY DEF WritesOf
<1>2. IsFiniteSet(T) /\ Cardinality(T) = PieceCount(ops)
  BY PiecesAre
<1> HIDE DEF T
<1>3. f \in [T -> S]
  BY <1>1 DEF T
<1>4. f \in Injection(T, S)
  BY <1>1, <1>3 DEF Injection, IsInjective
<1>5. \A t \in S : \E i \in T : f[i] = t
  <2> TAKE t \in S
  <2>1. t - k \in T /\ t \in Int
    BY DEF T
  <2>2. f[t - k] = t
    BY <2>1
  <2> QED BY <2>1, <2>2
<1>6. f \in Surjection(T, S)
  BY <1>3, <1>5 DEF Surjection
<1>7. ExistsBijection(T, S)
  BY <1>4, <1>6 DEF ExistsBijection, Bijection
<1> QED BY <1>2, <1>7, FS_Bijection

LEMMA PiecesOfConcat ==
    ASSUME NEW a \in Seq(Ops), NEW b \in Seq(Ops)
    PROVE  PieceCount(a \o b) = PieceCount(a) + PieceCount(b)
<1> DEFINE ab == a \o b
           S == {i \in Int : i - Len(a) \in WritesOf(b)}
<1>1. Len(a) \in Nat /\ Len(b) \in Nat
  BY LenProperties
<1>2. /\ ab \in Seq(Ops) /\ Len(ab) = Len(a) + Len(b)
      /\ \A j \in 1..Len(a) + Len(b) : ab[j] = IF j <= Len(a) THEN a[j] ELSE b[j - Len(a)]
  BY ConcatProperties
<1> HIDE DEF ab
<1>3. WritesOf(ab) = WritesOf(a) \cup S
  <2>1. ASSUME NEW i \in WritesOf(ab) PROVE i \in WritesOf(a) \cup S
    <3>1. i \in 1..Len(a) + Len(b) /\ ab[i] = "write"
      BY <1>2 DEF WritesOf
    <3>2. CASE i <= Len(a)
      BY <1>1, <1>2, <3>1, <3>2 DEF WritesOf
    <3>3. CASE ~(i <= Len(a))
      <4>1. i - Len(a) \in 1..Len(b) /\ b[i - Len(a)] = "write" /\ i \in Int
        BY <1>1, <1>2, <3>1, <3>3
      <4> QED BY <4>1 DEF WritesOf
    <3> QED BY <3>2, <3>3
  <2>2. ASSUME NEW i \in WritesOf(a) PROVE i \in WritesOf(ab)
    <3>1. i \in 1..Len(a) /\ a[i] = "write"
      BY DEF WritesOf
    <3>2. i \in 1..Len(a) + Len(b) /\ ab[i] = "write"
      BY <1>1, <1>2, <3>1
    <3> QED BY <1>2, <3>2 DEF WritesOf
  <2>3. ASSUME NEW i \in S PROVE i \in WritesOf(ab)
    <3>1. i \in Int /\ i - Len(a) \in 1..Len(b) /\ b[i - Len(a)] = "write"
      BY DEF WritesOf
    <3>2. i \in 1..Len(a) + Len(b) /\ ~(i <= Len(a))
      BY <1>1, <3>1
    <3>3. ab[i] = "write"
      BY <1>2, <3>1, <3>2
    <3> QED BY <1>2, <3>2, <3>3 DEF WritesOf
  <2> QED BY <2>1, <2>2, <2>3
<1>4. WritesOf(a) \cap S = {}
  <2> SUFFICES ASSUME NEW i \in WritesOf(a), i \in S PROVE FALSE
    OBVIOUS
  <2>1. i \in 1..Len(a) /\ i - Len(a) \in 1..Len(b)
    BY DEF WritesOf
  <2> QED BY <1>1, <2>1
<1>5. IsFiniteSet(S) /\ Cardinality(S) = PieceCount(b)
  BY <1>1, PiecesMoved
<1> HIDE DEF S
<1>6. /\ IsFiniteSet(WritesOf(a)) /\ Cardinality(WritesOf(a)) = PieceCount(a)
      /\ PieceCount(a) \in Nat /\ PieceCount(b) \in Nat
      /\ Cardinality(WritesOf(ab)) = PieceCount(ab)
  BY <1>2, PiecesAre
<1>7. Cardinality(WritesOf(a) \cap S) = 0
  BY <1>4, FS_EmptySet
<1>8. Cardinality(WritesOf(a) \cup S) = PieceCount(a) + PieceCount(b) - 0
  BY <1>5, <1>6, <1>7, FS_Union
<1> QED BY <1>3, <1>6, <1>8 DEF ab

\* The pieces left after the first operation.
LEMMA PiecesOfTail ==
    ASSUME NEW ops \in Seq(Ops), ops # <<>>
    PROVE  PieceCount(ops) =
             PieceCount(Tail(ops)) + IF Head(ops) = "write" THEN 1 ELSE 0
<1> DEFINE rest == Tail(ops)
           S == {i \in Int : i - 1 \in WritesOf(rest)}
<1>1. /\ rest \in Seq(Ops) /\ Len(rest) = Len(ops) - 1 /\ Len(ops) \in Nat /\ Len(ops) > 0
      /\ Head(ops) = ops[1] /\ \A i \in 1..Len(rest) : rest[i] = ops[i + 1]
  BY EmptySeq, LenProperties, HeadTailProperties
<1> HIDE DEF rest
<1>2. IsFiniteSet(S) /\ Cardinality(S) = PieceCount(rest)
  BY <1>1, PiecesMoved
<1>3. S \subseteq WritesOf(ops) /\ 1 \notin S
  <2>1. ASSUME NEW i \in S PROVE i \in WritesOf(ops) /\ i # 1
    <3>1. i \in Int /\ i - 1 \in 1..Len(rest) /\ rest[i - 1] = "write"
      BY DEF WritesOf
    <3>2. rest[i - 1] = ops[(i - 1) + 1] /\ (i - 1) + 1 = i
      BY <1>1, <3>1
    <3> QED BY <1>1, <3>1, <3>2 DEF WritesOf
  <2> QED BY <2>1
<1>4. ASSUME NEW i \in WritesOf(ops), i # 1 PROVE i \in S
  <2>1. i \in 1..Len(ops) /\ ops[i] = "write"
    BY DEF WritesOf
  <2>2. i - 1 \in 1..Len(rest) /\ (i - 1) + 1 = i /\ i \in Int
    BY <1>1, <1>4, <2>1
  <2>3. rest[i - 1] = "write"
    BY <1>1, <2>1, <2>2
  <2> QED BY <2>2, <2>3 DEF WritesOf
<1>5. PieceCount(ops) = Cardinality(WritesOf(ops)) /\ PieceCount(rest) \in Nat
  BY <1>1, PiecesAre
<1>6. 1 \in WritesOf(ops) <=> Head(ops) = "write"
  BY <1>1 DEF WritesOf
<1> HIDE DEF S
<1>7. CASE Head(ops) = "write"
  <2>1. WritesOf(ops) = S \cup {1}
    BY <1>3, <1>4, <1>6, <1>7
  <2>2. Cardinality(S \cup {1}) = Cardinality(S) + 1
    BY <1>2, <1>3, FS_AddElement
  <2> QED BY <1>2, <1>5, <1>7, <2>1, <2>2 DEF rest
<1>8. CASE Head(ops) # "write"
  <2>1. WritesOf(ops) = S
    BY <1>3, <1>4, <1>6, <1>8
  <2> QED BY <1>2, <1>5, <1>8, <2>1 DEF rest
<1> QED BY <1>7, <1>8

LEMMA NoPieces ==
    ASSUME NEW ops \in Seq(Ops), \A i \in 1..Len(ops) : ops[i] # "write"
    PROVE  PieceCount(ops) = 0
<1>1. WritesOf(ops) = {}
  BY DEF WritesOf
<1> QED BY <1>1, PiecesAre, FS_EmptySet

LEMMA OnePiece ==
    /\ <<>> \in Seq(Ops) /\ PieceCount(<<>>) = 0
    /\ <<"head">> \in Seq(Ops) /\ PieceCount(<<"head">>) = 0
    /\ <<"read">> \in Seq(Ops) /\ PieceCount(<<"read">>) = 0
    /\ <<"wait">> \in Seq(Ops) /\ PieceCount(<<"wait">>) = 0
    /\ <<"write">> \in Seq(Ops) /\ PieceCount(<<"write">>) = 1
    /\ <<"write", "flush">> \in Seq(Ops) /\ PieceCount(<<"write", "flush">>) = 1
<1>1. /\ <<>> \in Seq(Ops) /\ <<"head">> \in Seq(Ops) /\ <<"read">> \in Seq(Ops)
      /\ <<"wait">> \in Seq(Ops) /\ <<"write">> \in Seq(Ops) /\ <<"write", "flush">> \in Seq(Ops)
  BY DEF Ops
<1>2. PieceCount(<<>>) = 0
  <2>1. Len(<<>>) = 0
    BY EmptySeq
  <2>2. \A i \in 1..Len(<<>>) : <<>>[i] # "write"
    BY <2>1
  <2> QED BY <1>1, <2>2, NoPieces
<1>5. PieceCount(<<"head">>) = 0
  <2>1. \A i \in 1..Len(<<"head">>) : <<"head">>[i] # "write"
    OBVIOUS
  <2> QED BY <1>1, <2>1, NoPieces
<1>6. PieceCount(<<"read">>) = 0
  <2>1. \A i \in 1..Len(<<"read">>) : <<"read">>[i] # "write"
    OBVIOUS
  <2> QED BY <1>1, <2>1, NoPieces
<1>7. PieceCount(<<"wait">>) = 0
  <2>1. \A i \in 1..Len(<<"wait">>) : <<"wait">>[i] # "write"
    OBVIOUS
  <2> QED BY <1>1, <2>1, NoPieces
<1>3. WritesOf(<<"write">>) = {1}
  BY DEF WritesOf
<1>4. WritesOf(<<"write", "flush">>) = {1}
  BY DEF WritesOf
<1>8. PieceCount(<<"write">>) = 1 /\ PieceCount(<<"write", "flush">>) = 1
  BY <1>1, <1>3, <1>4, PiecesAre, FS_Singleton
<1> QED BY <1>1, <1>2, <1>5, <1>6, <1>7, <1>8

LEMMA PiecesOfThree ==
    ASSUME NEW c \in {"wait", "poll"}, NEW n \in Nat
    PROVE  PieceCount(Times(<<"write", "flush", c>>, n)) = n
<1> DEFINE ops == <<"write", "flush", c>>
           f == [i \in 1..n * 3 |-> ops[((i - 1) % 3) + 1]]
           g == [k \in 1..n |-> (k - 1) * 3 + 1]
<1>0. Times(ops, n) = f
  BY DEF Times
<1>1. Len(f) = n * 3 /\ f \in Seq(Ops)
  <2>1. Len(f) = n * 3
    OBVIOUS
  <2> HIDE DEF f
  <2>2. f \in Seq(After)
    BY <1>0, TimesOfThree DEF Bodies
  <2>3. f \in Seq(Ops)
    BY <2>2 DEF After, Ops
  <2> QED BY <2>1, <2>3
<1>2. WritesOf(f) = {i \in 1..n * 3 : (i - 1) % 3 = 0}
  <2>1. ASSUME NEW i \in 1..n * 3 PROVE f[i] = "write" <=> (i - 1) % 3 = 0
    <3>1. (i - 1) % 3 \in 0..2
      OBVIOUS
    <3>2. ops[1] = "write" /\ ops[2] # "write" /\ ops[3] # "write"
      OBVIOUS
    <3>3. f[i] = ops[((i - 1) % 3) + 1]
      OBVIOUS
    <3> HIDE DEF ops, f
    <3> QED BY <3>1, <3>2, <3>3
  <2> HIDE DEF f
  <2> QED BY <1>1, <2>1 DEF WritesOf
<1> HIDE DEF f, ops
<1> DEFINE S == WritesOf(f)
<1>3. \A k \in 1..n : g[k] \in S
  <2> TAKE k \in 1..n
  <2>1. (k - 1) * 3 + 1 \in 1..n * 3 /\ ((k - 1) * 3 + 1 - 1) % 3 = 0
    OBVIOUS
  <2> QED BY <1>2, <2>1
<1>4. \A i \in S : \E k \in 1..n : g[k] = i
  <2> TAKE i \in S
  <2>1. i \in 1..n * 3 /\ (i - 1) % 3 = 0
    BY <1>2
  <2> DEFINE k == (i - 1) \div 3 + 1
  <2>2. k \in 1..n /\ (k - 1) * 3 + 1 = i
    BY <2>1
  <2>3. g[k] = (k - 1) * 3 + 1
    BY <2>2
  <2> QED BY <2>2, <2>3
<1>5. g \in Bijection(1..n, S)
  <2> HIDE DEF S
  <2>1. g \in [1..n -> S]
    BY <1>3
  <2>2. \A a, b \in 1..n : g[a] = g[b] => a = b
    OBVIOUS
  <2> HIDE DEF g
  <2> QED BY <1>4, <2>1, <2>2 DEF Bijection, Injection, IsInjective, Surjection
<1>6. ExistsBijection(1..n, S)
  BY <1>5 DEF ExistsBijection
<1>7. Cardinality(S) = n
  BY <1>6, FS_CountingElements
<1> QED BY <1>0, <1>1, <1>7, PiecesAre DEF ops

LEMMA PiecesOfOne ==
    ASSUME NEW n \in Nat
    PROVE  PieceCount(Times(<<"write">>, n)) = n
<1> DEFINE f == [i \in 1..n * 1 |-> <<"write">>[((i - 1) % 1) + 1]]
<1>1. \A i \in 1..n * 1 : f[i] = "write"
  <2> TAKE i \in 1..n * 1
  <2>1. ((i - 1) % 1) + 1 = 1
    OBVIOUS
  <2> QED BY <2>1
<1>2. f \in Seq(Ops) /\ Len(f) = n
  BY <1>1 DEF Ops
<1>3. Times(<<"write">>, n) = f
  BY DEF Times
<1>4. WritesOf(f) = 1..n
  <2> HIDE DEF f
  <2> QED BY <1>1, <1>2 DEF WritesOf
<1> HIDE DEF f
<1>5. Cardinality(1..n) = n
  BY FS_Interval
<1> QED BY <1>2, <1>3, <1>4, <1>5, PiecesAre
LEMMA DripPieces == ASSUME NEW n \in Nat PROVE PieceCount(Drip(n)) = n
<1>1. CASE n = 0
  BY <1>1, OnePiece DEF Drip
<1>2. CASE n # 0
  <2> DEFINE a == Times(<<"write", "flush", "wait">>, n - 1)
             b == <<"write", "flush">>
  <2>1. a \in Seq(Ops)
    <3>1. a \in Bodies
      BY <1>2, TimesOfThree
    <3> HIDE DEF a
    <3> QED BY <3>1 DEF Bodies, After, Ops
  <2>2. PieceCount(a) = n - 1
    BY <1>2, PiecesOfThree
  <2>3. b \in Seq(Ops) /\ PieceCount(b) = 1
    BY OnePiece
  <2>4. Drip(n) = a \o b
    BY <1>2 DEF Drip
  <2> HIDE DEF a, b
  <2>5. PieceCount(a \o b) = (n - 1) + 1
    BY <2>1, <2>2, <2>3, PiecesOfConcat
  <2> QED BY <2>4, <2>5
<1> QED BY <1>1, <1>2

\* What a handler writes before and with its status is no piece of the body.
LEMMA PiecesOfHandler ==
    ASSUME NEW code, NEW length, NEW before \in Seq(Before), NEW after \in Seq(Ops)
    PROVE  /\ Handler(code, length, before, after).ops \in Seq(Ops)
           /\ PieceCount(Handler(code, length, before, after).ops) = PieceCount(after)
<1> DEFINE x == Handler(code, length, before, after)
           m == before \o <<"head">>
<1>1. before \in Seq(Ops) /\ \A i \in 1..Len(before) : before[i] # "write"
  BY ElementOfSeq DEF Before, Ops
<1>2. PieceCount(before) = 0 /\ <<"head">> \in Seq(Ops) /\ PieceCount(<<"head">>) = 0
  BY <1>1, NoPieces, OnePiece
<1>3. x.ops = m \o after
  BY DEF Handler
<1>4. m \in Seq(Ops) /\ PieceCount(m) = 0 + 0
  BY <1>1, <1>2, PiecesOfConcat, ConcatProperties
<1> HIDE DEF m
<1>5. m \o after \in Seq(Ops) /\ PieceCount(m \o after) = PieceCount(m) + PieceCount(after)
  BY <1>4, PiecesOfConcat, ConcatProperties
<1>6. PieceCount(after) \in Nat
  BY PiecesAre
<1> QED BY <1>3, <1>4, <1>5, <1>6

\* A handler that declares a length writes that many pieces.
LEMMA DeclaredLength ==
    ASSUME NEW x \in Handlers, x.length # None
    PROVE  x.length \in Nat /\ PieceCount(x.ops) = x.length
<1> DEFINE none == <<>>
           wait1 == <<"wait">>
           read1 == <<"read">>
           body == <<"write">>
<1>1. /\ none \in Seq(Before) /\ wait1 \in Seq(Before) /\ read1 \in Seq(Before)
      /\ body \in Seq(Ops) /\ PieceCount(body) = 1
  BY OnePiece DEF Before
<1>2. \A code, length, before, after : Handler(code, length, before, after).length = length
  BY DEF Handler
<1>3. CASE x \in encodingHandlers
  <2> HIDE DEF read1, body
  <2>1. x = [Handler(200, 1, read1, body) EXCEPT !.encoded = TRUE]
    BY <1>3 DEF encodingHandlers, read1, body
  <2>2. x.length = 1 /\ x.ops = Handler(200, 1, read1, body).ops
    BY <2>1 DEF Handler
  <2> QED BY <1>1, <2>2, PiecesOfHandler
<1>4. CASE x \in dripHandlers
  <2>1. PICK c \in {100, 200, 204}, n \in 0..MaxPieces, d \in {none, wait1} :
          x = Handler(c, n, d, Drip(n))
    BY <1>4 DEF dripHandlers
  <2> HIDE DEF none, wait1
  <2>2. n \in Nat /\ d \in Seq(Before)
    BY <1>1
  <2>3. Drip(n) \in Seq(Ops) /\ PieceCount(Drip(n)) = n
    BY <2>2, DripAfter, DripPieces DEF Bodies, After, Ops
  <2>4. PieceCount(x.ops) = n
    BY <2>1, <2>2, <2>3, PiecesOfHandler
  <2>5. x.length = n
    BY <1>2, <2>1
  <2> QED BY <2>2, <2>4, <2>5
<1>5. CASE x \in exactHandlers \cup fileHandlers
  <2>1. PICK n \in 0..MaxPieces : x = Handler(200, n, none, Times(body, n))
    BY <1>5 DEF exactHandlers, fileHandlers, writeExactBytes
  <2>2. Times(body, n) \in Seq(Ops) /\ PieceCount(Times(body, n)) = n /\ n \in Nat
    BY TimesOfOne, PiecesOfOne DEF Bodies, After, Ops
  <2> HIDE DEF none, body
  <2>4. PieceCount(x.ops) = n
    BY <1>1, <2>1, <2>2, PiecesOfHandler
  <2>5. x.length = n
    BY <1>2, <2>1
  <2> QED BY <2>2, <2>4, <2>5
<1>6. CASE x \notin encodingHandlers \cup dripHandlers \cup exactHandlers \cup fileHandlers
  <2>1. CASE x \in viewHandlers \cup authHandlers \cup cookieHandlers \cup probeHandlers
                     \cup errorHandlers \cup envelopeHandlers \cup statusHandlers
                     \cup delayHandlers
    <3> HIDE DEF none, wait1, read1, body
    <3>1. \A code : Page(code).length = None
      BY <1>2 DEF Page
    <3>2. x.length = None
      BY <1>2, <2>1, <3>1
         DEF viewHandlers, authHandlers, cookieHandlers, probeHandlers, errorHandlers,
             envelopeHandlers, statusHandlers, delayHandlers
    <3> QED BY <3>2
  <2>2. CASE x \in streamHandlers \cup userHandlers
    BY <1>2, <2>2 DEF streamHandlers, userHandlers
  <2>3. CASE x \in wsHandlers
    BY <2>3 DEF wsHandlers
  <2> QED BY <1>6, <2>1, <2>2, <2>3 DEF Handlers
<1> QED BY <1>3, <1>4, <1>5, <1>6

-----------------------------------------------------------------------------

\* A body of n pieces of the handler.
Body(n) == [i \in 1..n |-> "handler"]

LEMMA BodyGrows ==
    /\ Body(0) = <<>>
    /\ \A n \in Nat : Len(Body(n)) = n /\ Append(Body(n), "handler") = Body(n + 1)
<1>1. Body(0) = <<>>
  BY DEF Body
<1>2. ASSUME NEW n \in Nat
      PROVE  Len(Body(n)) = n /\ Append(Body(n), "handler") = Body(n + 1)
  <2> DEFINE b == Body(n)
             c == Body(n + 1)
  <2>1. b \in Seq({"handler"}) /\ Len(b) = n /\ \A i \in 1..n : b[i] = "handler"
    BY DEF Body
  <2>2. c \in Seq({"handler"}) /\ Len(c) = n + 1 /\ \A i \in 1..(n + 1) : c[i] = "handler"
    BY DEF Body
  <2> HIDE DEF b, c
  <2> DEFINE d == Append(b, "handler")
  <2>3. /\ d \in Seq({"handler"}) /\ Len(d) = n + 1
        /\ (\A i \in 1..n : d[i] = b[i]) /\ d[n + 1] = "handler"
    BY <2>1, AppendProperties
  <2> HIDE DEF d
  <2>4. \A i \in 1..(n + 1) : d[i] = c[i]
    BY <2>1, <2>2, <2>3
  <2>5. d = c
    BY <2>2, <2>3, <2>4, SeqEqual
  <2> QED BY <2>1, <2>5 DEF b, c, d
<1> QED BY <1>1, <1>2

\* What is recorded of the header is the handler's, or the default.
RecordHeads == rec.status \in {200, h.code} /\ rec.length \in {None, h.length}

\* Before the deadline nothing but the client ends the request's context.
Undone == ctxDone => expired

Begun ==
    pc \in {"delay", "abort"} =>
      todo = h.ops /\ w.length = None /\ w.body = <<>> /\ rec.body = <<>>

\* What is written and what is left to write make up the handler's body.
Building == IF Buffered THEN rec ELSE w
Running ==
    pc = "handler" =>
      /\ PieceCount(todo) <= PieceCount(h.ops)
      /\ Building.body = Body(PieceCount(h.ops) - PieceCount(todo))
      /\ Building.length \in {None, h.length}

Recorded == pc = "replay" /\ ~expired => rec.body = HandlerBody

\* A response that is about to be finished in time is complete.
Complete(r) ==
    Bodiless(Headed(r, 200).status)
      \/ (r.body = ExpectedBody /\ r.length \in {None, Len(r.body)})
Ending == pc = "finish" /\ InTime(w) => Complete(w)

Present == Undone /\ Begun /\ Running /\ Recorded /\ Ending /\ WholeBody
BodyInv == RecordHeads /\ (client = "here" => Present)

\* The counts of what is left, and of all.
LEMMA Counts ==
    ASSUME TypeInv
    PROVE  /\ todo \in Seq(Ops) /\ h.ops \in Seq(Ops)
           /\ PieceCount(todo) \in Nat /\ PieceCount(h.ops) \in Nat
           /\ w \in Responses /\ Len(w.body) \in Nat /\ w.sent <= Len(w.body) /\ w.sent \in Nat
           /\ h.code \in Codes /\ h.length \in Lengths /\ h.encoded \in BOOLEAN
           /\ 200 \in Codes /\ 200 # None /\ ~Informational(200) /\ ~Bodiless(200) /\ Valid(200)
<1>1. todo \in Seq(Ops) /\ h.ops \in Seq(Ops) /\ w \in Responses /\ w.sent <= Len(w.body)
  BY HandlerOps DEF TypeInv, TypeOK, Ops, Responses
<1>2. w.body \in Seq(Pieces) /\ w.sent \in Nat
  BY <1>1 DEF Responses
<1>3. 200 \in Codes /\ 200 # None /\ ~Informational(200) /\ ~Bodiless(200) /\ Valid(200)
  BY ResponseAssumption DEF Codes, PageCodes, Informational, Bodiless, Valid
<1> QED BY <1>1, <1>2, <1>3, PiecesAre, LenProperties, HandlerOps DEF TypeInv, TypeOK

LEMMA HandlerBodyIs ==
    HandlerBody = Body(PieceCount(h.ops))
BY DEF HandlerBody, Body

\* What is written in full has the length it declares.
LEMMA DeclaredInFull ==
    ASSUME TypeInv, NEW length \in {None, h.length}
    PROVE  length \in {None, Len(HandlerBody)}
<1>1. Len(HandlerBody) = PieceCount(h.ops)
  BY Counts, HandlerBodyIs, BodyGrows
<1>2. h.length # None => h.length = PieceCount(h.ops)
  BY DeclaredLength DEF TypeInv, TypeOK
<1> QED BY <1>1, <1>2

\* The handler goes on, without writing a piece.
LEMMA RunsOn ==
    ASSUME TypeInv, BodyInv, client = "here", pc = "handler", pc' = "handler",
           todo # <<>>, Head(todo) # "write", todo' = Tail(todo),
           UNCHANGED <<h, ov, upgrade>>, ctxDone' => expired',
           Building'.body = Building.body, Building'.length \in {None, h.length}
    PROVE  Present'
<1>1. PieceCount(Tail(todo)) = PieceCount(todo)
  <2>1. PieceCount(todo) = PieceCount(Tail(todo)) + 0
    BY Counts, PiecesOfTail
  <2>2. Tail(todo) \in Seq(Ops)
    BY TailOps DEF TypeInv
  <2>3. PieceCount(Tail(todo)) \in Nat
    BY <2>2, PiecesAre
  <2> QED BY <2>1, <2>3
<1>2. Running'
  BY <1>1 DEF BodyInv, Present, Running
<1> QED BY <1>2 DEF Present, Undone, Begun, Recorded, Ending, WholeBody

\* The handler returns early: only after the write deadline, or where the status
\* has no body.
LEMMA EndsEarly ==
    ASSUME TypeInv, BodyInv, client = "here", pc = "handler", ~Buffered,
           InTime(w), expired
    PROVE  Complete(w)
<1>1. /\ PieceCount(todo) <= PieceCount(h.ops)
      /\ w.body = Body(PieceCount(h.ops) - PieceCount(todo)) /\ w.length \in {None, h.length}
  BY DEF BodyInv, Present, Running, Building
<1>2. w.sent > 0 /\ w.sent = w.length
  BY DEF InTime
<1>3. w.length # None
  BY <1>2, Counts, ResponseAssumption
<1>4. w.sent = PieceCount(h.ops)
  BY <1>1, <1>2, <1>3, DeclaredLength DEF TypeInv, TypeOK
<1>5. Len(w.body) = PieceCount(h.ops) - PieceCount(todo)
  <2>1. PieceCount(h.ops) - PieceCount(todo) \in Nat
    BY <1>1, Counts
  <2> QED BY <1>1, <2>1, BodyGrows
<1>6. PieceCount(h.ops) - PieceCount(todo) = PieceCount(h.ops)
  BY <1>4, <1>5, Counts
<1>7. w.body = HandlerBody
  BY <1>1, <1>6, HandlerBodyIs
<1>8. ExpectedBody = HandlerBody
  <2>1. Buffered \/ ~ov.body \/ upgrade
    BY DEF Buffered
  <2> QED BY DEF ExpectedBody
<1>9. w.length \in {None, Len(HandlerBody)}
  BY <1>1, DeclaredInFull
<1> QED BY <1>7, <1>8, <1>9 DEF Complete

\* A step after which the handler does not run, nor is anything finished.
LEMMA StepsOver ==
    ASSUME pc' \notin {"delay", "abort", "handler", "replay", "finish"},
           ctxDone' => expired', WholeBody'
    PROVE  Present'
BY DEF Present, Undone, Begun, Running, Recorded, Ending

\* The expected body is the same in every state.
LEMMA ExpectedStays ==
    ASSUME UNCHANGED <<h, ov, upgrade>>
    PROVE  /\ HandlerBody' = HandlerBody /\ ExpectedBody' = ExpectedBody
           /\ Buffered' = Buffered
BY DEF ExpectedBody, HandlerBody, Buffered

\* A step to the end of the handler or of the replay, with a response that is
\* complete if it is in time.
LEMMA StepsToFinish ==
    ASSUME pc' = "finish", ctxDone' => expired', UNCHANGED <<h, ov, upgrade>>,
           InTime(w)' => (Bodiless(Headed(w', 200).status)
                            \/ (w'.body = ExpectedBody /\ w'.length \in {None, Len(w'.body)}))
    PROVE  Present'
BY ExpectedStays DEF Present, Undone, Begun, Running, Recorded, Ending, Complete, WholeBody

\* The response after a replay has the body and the length it should have.
LEMMA ReplayBody ==
    ASSUME TypeInv, BodyInv, client = "here", Replay, Valid(replayCode), ~expired
    PROVE  Bodiless(Headed(w', 200).status)
             \/ (w'.body = ExpectedBody /\ w'.length \in {None, Len(w'.body)})
<1> DEFINE b == Headed(Copied, replayCode)
           q == Headed(b, 200)
<1>1. /\ replayCode \in Codes /\ Copied \in Responses /\ Copied.length = replayLength
  <2>1. replayCode \in Codes
    BY ReplayIs
  <2>2. replayLength \in Lengths /\ rec.encoded \in BOOLEAN /\ w \in Responses
    BY Counts DEF TypeInv, TypeOK, replayLength, Lengths
  <2> QED BY <2>1, <2>2 DEF Copied, Responses
<1>2. b \in Responses /\ b.length = replayLength
  BY <1>1, HeadedIs
<1> HIDE DEF b
<1>3. q \in Responses /\ q.length = replayLength /\ q.status # None
  BY <1>2, Counts, HeadedIs
<1>4. w' = IF Bodiless(q.status) THEN q ELSE [q EXCEPT !.body = replayBody]
  BY DEF Replay, b
<1>5. Headed(w', 200).status = q.status
  <2> HIDE DEF q
  <2>1. w'.status = q.status
    BY <1>3, <1>4 DEF Responses
  <2>2. w' \in Responses
    BY ReplayIs
  <2> QED BY <1>3, <2>1, <2>2, Counts, HeadedIs
<1> HIDE DEF q
<1>6. CASE Bodiless(q.status)
  BY <1>5, <1>6
<1>7. CASE ~Bodiless(q.status)
  <2>1. w'.body = replayBody /\ w'.length = replayLength
    BY <1>3, <1>4, <1>7 DEF Responses
  <2>2. Buffered /\ rec.body = HandlerBody /\ rec.length \in {None, h.length}
    BY DEF Replay, BodyInv, Present, Recorded, RecordHeads, TypeInv, Untouched
  <2>3. replayBody = ExpectedBody
    BY <2>2 DEF replayBody, ExpectedBody
  <2>4. CASE ov.body
    <3>1. Len(<<"override">>) = 1
      OBVIOUS
    <3> QED BY <2>1, <2>3, <2>4, <3>1 DEF replayBody, replayLength
  <2>5. CASE ~ov.body
    <3>1. rec.length \in {None, Len(HandlerBody)}
      BY <2>2, DeclaredInFull
    <3> QED BY <2>1, <2>2, <2>3, <2>5, <3>1 DEF replayBody, replayLength
  <2> QED BY <2>4, <2>5
<1> QED BY <1>6, <1>7

\* A handler that has done all it had to has written its whole body.
LEMMA EndsInFull ==
    ASSUME TypeInv, BodyInv, client = "here", pc = "handler", todo = <<>>
    PROVE  Building.body = HandlerBody /\ Building.length \in {None, Len(HandlerBody)}
<1>1. PieceCount(todo) = 0
  BY OnePiece
<1>2. PieceCount(h.ops) - PieceCount(todo) = PieceCount(h.ops)
  BY <1>1, Counts
<1>3. Building.body = Body(PieceCount(h.ops)) /\ Building.length \in {None, h.length}
  BY <1>2 DEF BodyInv, Present, Running
<1> QED BY <1>3, HandlerBodyIs, DeclaredInFull

\* A piece written is one less to write.
LEMMA PieceWritten ==
    ASSUME TypeInv, BodyInv, client = "here", pc = "handler", todo # <<>>,
           Head(todo) = "write"
    PROVE  /\ PieceCount(Tail(todo)) <= PieceCount(h.ops)
           /\ Append(Building.body, "handler") =
                Body(PieceCount(h.ops) - PieceCount(Tail(todo)))
           /\ Len(Building.body) < PieceCount(h.ops)
<1> DEFINE k == PieceCount(Tail(todo))
           all == PieceCount(h.ops)
<1>1. PieceCount(todo) = k + 1 /\ all \in Nat
  BY Counts, PiecesOfTail
<1>2. k \in Nat
  <2>1. Tail(todo) \in Seq(Ops)
    BY TailOps DEF TypeInv
  <2> QED BY <2>1, PiecesAre
<1>3. PieceCount(todo) <= all /\ Building.body = Body(all - PieceCount(todo))
  BY DEF BodyInv, Present, Running
<1> HIDE DEF k, all
<1>4. all - PieceCount(todo) \in Nat /\ (all - PieceCount(todo)) + 1 = all - k
      /\ k <= all /\ all - PieceCount(todo) < all
  BY <1>1, <1>2, <1>3
<1>5. /\ Len(Building.body) = all - PieceCount(todo)
      /\ Append(Building.body, "handler") = Body((all - PieceCount(todo)) + 1)
  BY <1>3, <1>4, BodyGrows
<1> QED BY <1>4, <1>5 DEF k, all

\* A Write of the handler.
LEMMA WriteInFull ==
    ASSUME TypeInv, BodyInv, client = "here", Write, UNCHANGED client
    PROVE  Present'
<1>1. /\ pc = "handler" /\ todo # <<>> /\ Head(todo) = "write"
      /\ UNCHANGED <<h, ov, upgrade, ctxDone, expired>>
  BY DEF Write, At, request, world
<1>2. Undone /\ Building.length \in {None, h.length}
  BY <1>1 DEF BodyInv, Present, Running
<1>3. w \in Responses /\ rec.length = rec.length /\ "handler" \in Pieces
  BY Counts DEF Pieces
<1>4. ASSUME Advance, Building'.body = Append(Building.body, "handler"),
             Building'.length = Building.length
      PROVE  Present'
  <2>1. pc' = "handler" /\ todo' = Tail(todo)
    BY <1>1, <1>4 DEF Advance
  <2>2. Running'
    BY <1>1, <1>2, <1>4, <2>1, PieceWritten DEF Running
  <2> QED BY <1>1, <1>2, <2>1, <2>2 DEF Present, Undone, Begun, Recorded, Ending, WholeBody
<1>5. CASE Buffered /\ rec' = [rec EXCEPT !.body = Append(@, "handler")] /\ Advance
  <2>1. rec'.body = Append(rec.body, "handler") /\ rec'.length = rec.length
    BY <1>5 DEF TypeInv, TypeOK
  <2>2. Building = rec /\ Building' = rec'
    BY <1>1, <1>5, ExpectedStays DEF Building
  <2> QED BY <1>4, <1>5, <2>1, <2>2
<1>6. CASE ~Buffered /\ w' = Written(w, "handler") /\ Advance
  <2>1. w'.body = Append(w.body, "handler") /\ w'.length = w.length
    BY <1>3, <1>6, WrittenIs, Zenon
  <2>2. Building = w /\ Building' = w'
    BY <1>1, <1>6, ExpectedStays DEF Building
  <2> QED BY <1>4, <1>6, <2>1, <2>2
<1>7. CASE ~Buffered /\ (~CanWrite(w) \/ client = "gone" \/ expired)
             /\ w' = Headed(w, 200) /\ Returned
  <2>1. /\ w'.body = w.body /\ w'.length = w.length /\ w'.sent = w.sent
        /\ Headed(w', 200).status = Headed(w, 200).status
    <3>1. /\ w' \in Responses /\ w'.body = w.body /\ w'.length = w.length
          /\ w'.sent = w.sent /\ w'.status # None
          /\ w'.status = Headed(w, 200).status
      BY <1>3, <1>7, Counts, HeadedIs
    <3>2. Headed(w', 200).status = w'.status
      BY <3>1, Counts, HeadedIs
    <3> QED BY <3>1, <3>2
  <2>2. pc' = "finish"
    BY <1>7 DEF Returned
  <2>3. InTime(w)' => InTime(w)
    BY <1>1, <2>1 DEF InTime
  <2>4. ASSUME InTime(w) PROVE Complete(w)
    <3>1. CASE expired
      BY <1>1, <1>7, <2>4, <3>1, EndsEarly
    <3>2. CASE ~expired
      <4>1. ~CanWrite(w)
        BY <1>7, <3>2
      <4>2. CASE Bodiless(Headed(w, 200).status)
        BY <4>2 DEF Complete
      <4>3. CASE w.length # None /\ ~(Len(w.body) < w.length)
        <5>1. Building = w
          BY <1>7 DEF Building
        <5>2. w.length = h.length /\ h.length = PieceCount(h.ops)
          BY <1>2, <4>3, <5>1, DeclaredLength DEF TypeInv, TypeOK
        <5>3. Len(w.body) < PieceCount(h.ops)
          BY <1>1, <5>1, PieceWritten
        <5> QED BY <4>3, <5>2, <5>3
      <4> QED BY <4>1, <4>2, <4>3 DEF CanWrite
    <3> QED BY <3>1, <3>2
  <2>5. ctxDone' => expired'
    BY <1>1, <1>2 DEF Undone
  <2> QED BY <1>1, <2>1, <2>2, <2>3, <2>4, <2>5, StepsToFinish DEF Complete
<1> QED BY <1>5, <1>6, <1>7 DEF Write

LEMMA BodyInvariant == Spec => []BodyInv
<1>1. Init => BodyInv
  BY DEF Init, BodyInv, RecordHeads, Present, Undone, Begun, Running, Recorded, Ending, WholeBody
<1>2. TypeInv /\ BodyInv /\ [Next]_vars => BodyInv'
  <2> SUFFICES ASSUME TypeInv, BodyInv, [Next]_vars PROVE BodyInv'
    OBVIOUS
  <2>0. UNCHANGED <<ov, upgrade, h>>
    BY DEF Next, Run, DelayOver, TimerFires, Abort, NoAbort, Replay, Return, WriteHeader, Write,
           Flush, ReadBody, Poll, ContextDone, Hijack, Finish, LogHijacked, Disconnect, Notice,
           Expire, request, vars
  <2>1. RecordHeads'
    <3>1. CASE rec' = rec
      BY <2>0, <3>1 DEF BodyInv, RecordHeads
    <3>2. CASE rec' = [rec EXCEPT !.status = h.code, !.length = h.length, !.encoded = h.encoded]
      BY <2>0, <3>2 DEF RecordHeads, TypeInv, TypeOK
    <3>3. CASE rec' = [rec EXCEPT !.body = Append(@, "handler")]
      BY <2>0, <3>3 DEF BodyInv, RecordHeads, TypeInv, TypeOK
    <3> QED BY <3>1, <3>2, <3>3
            DEF Next, Run, DelayOver, TimerFires, Abort, NoAbort, Replay, Return, WriteHeader,
                Write, Flush, ReadBody, Poll, ContextDone, Hijack, Finish, LogHijacked,
                Disconnect, Notice, Expire, request, vars
  <2>2. SUFFICES ASSUME client' = "here" PROVE Present'
    BY <2>1 DEF BodyInv
  <2>3. client = "here"
    <3>1. UNCHANGED client \/ client' = "gone"
      BY DEF Next, Run, DelayOver, TimerFires, Abort, NoAbort, Replay, Return, WriteHeader, Write,
             Flush, ReadBody, Poll, ContextDone, Hijack, Finish, LogHijacked, Disconnect, Notice,
             Expire, world, vars
    <3> QED BY <2>2, <3>1
  <2>4. Present /\ RecordHeads
    BY <2>3 DEF BodyInv
  <2>5. CASE DelayOver
    BY <2>0, <2>4, <2>5
       DEF DelayOver, world, Present, Undone, Begun, Running, Recorded, Ending, WholeBody
  <2>6. CASE NoAbort
    <3>1. /\ pc = "abort" /\ pc' = "handler" /\ todo = h.ops /\ w.body = <<>>
          /\ w.length = None /\ rec.body = <<>> /\ UNCHANGED <<todo, w, rec, ctxDone, expired>>
      BY <2>4, <2>6 DEF NoAbort, world, Present, Begun
    <3>2. PieceCount(h.ops) - PieceCount(todo) = 0 /\ PieceCount(todo) <= PieceCount(h.ops)
      BY <3>1, Counts
    <3>3. Building.body = Body(PieceCount(h.ops) - PieceCount(todo))
          /\ Building.length \in {None, h.length}
      BY <2>4, <3>1, <3>2, BodyGrows DEF Building, RecordHeads
    <3>4. Building' = Building
      BY <2>0, <3>1 DEF Building, Buffered
    <3>5. Running'
      BY <2>0, <3>1, <3>2, <3>3, <3>4 DEF Running
    <3> QED BY <2>4, <3>1, <3>5 DEF Present, Undone, Begun, Recorded, Ending, WholeBody
  <2>7. CASE Abort
    <3>1. pc' = "cut" /\ ov'.abort /\ UNCHANGED <<ctxDone, expired>>
      BY <2>0, <2>7 DEF Abort, world
    <3> QED BY <2>4, <3>1, StepsOver DEF Present, Undone, WholeBody
  <2>8. CASE Replay
    <3>1. UNCHANGED <<ctxDone, expired>> /\ pc = "replay" /\ Buffered
      BY <2>8 DEF Replay, world, TypeInv, Untouched
    <3>2. CASE ~Valid(replayCode)
      <4>1. pc' = "cut"
        BY <2>8, <3>2 DEF Replay
      <4>2. ~Valid(IF ov.status # None /\ Buffered THEN ov.status ELSE h.code)
        BY <2>4, <3>1, <3>2, Counts DEF replayCode, RecordHeads
      <4>3. WholeBody'
        BY <2>0, <4>1, <4>2 DEF WholeBody, Buffered
      <4> QED BY <2>4, <3>1, <4>1, <4>3, StepsOver DEF Present, Undone
    <3>3. CASE Valid(replayCode)
      <4>1. pc' = "finish" /\ w'.sent = 0
        BY <2>8, <3>3, ReplayIs DEF Replay
      <4>2. InTime(w)' => ~expired
        BY <3>1, <4>1 DEF InTime
      <4> QED BY <2>0, <2>3, <2>4, <2>8, <3>1, <3>3, <4>1, <4>2, ReplayBody, StepsToFinish
              DEF Present, Undone
    <3> QED BY <3>2, <3>3
  <2>9. CASE Return
    <3>1. /\ pc = "handler" /\ todo = <<>> /\ UNCHANGED <<w, rec, ctxDone, expired>>
          /\ pc' = IF Buffered THEN "replay" ELSE "finish"
      BY <2>9 DEF Return, Returned, world
    <3>2. Building.body = HandlerBody /\ Building.length \in {None, Len(HandlerBody)}
      BY <2>3, <3>1, EndsInFull
    <3>3. CASE Buffered
      <4>1. Recorded'
        BY <2>0, <3>1, <3>2, <3>3, ExpectedStays DEF Recorded, Building
      <4> QED BY <2>4, <3>1, <3>3, <4>1 DEF Present, Undone, Begun, Running, Ending, WholeBody
    <3>4. CASE ~Buffered
      <4>1. ExpectedBody = HandlerBody
        BY <3>4 DEF ExpectedBody
      <4> QED BY <2>0, <2>4, <3>1, <3>2, <3>4, <4>1, StepsToFinish
              DEF Present, Undone, Building
    <3> QED BY <3>3, <3>4
  <2>10. CASE WriteHeader
    <3>1. /\ pc = "handler" /\ todo # <<>> /\ Head(todo) = "head"
          /\ UNCHANGED <<ctxDone, expired>>
      BY <2>10 DEF WriteHeader, At, world
    <3>2. CASE /\ Buffered /\ w' = w /\ Advance
               /\ rec' = [rec EXCEPT !.status = h.code, !.length = h.length, !.encoded = h.encoded]
      <4>1. rec'.body = rec.body /\ rec'.length = h.length
        BY <3>2 DEF TypeInv, TypeOK
      <4>2. Building = rec /\ Building' = rec'
        BY <2>0, <3>2, ExpectedStays DEF Building
      <4> QED BY <2>0, <2>3, <2>4, <3>1, <3>2, <4>1, <4>2, RunsOn DEF Advance, Present, Undone
    <3>3. CASE /\ ~Buffered /\ rec' = rec /\ Advance
               /\ w' = Headed([w EXCEPT !.length = h.length, !.encoded = h.encoded], h.code)
      <4> DEFINE a == [w EXCEPT !.length = h.length, !.encoded = h.encoded]
      <4>1. a \in Responses /\ a.body = w.body /\ a.length = h.length
        BY Counts DEF Responses
      <4>2. w' = Headed(a, h.code)
        BY <3>3
      <4> HIDE DEF a
      <4>3. w'.body = w.body /\ w'.length = h.length
        BY <4>1, <4>2, Counts, HeadedIs
      <4>4. Building = w /\ Building' = w'
        BY <2>0, <3>3, ExpectedStays DEF Building
      <4> QED BY <2>0, <2>3, <2>4, <3>1, <3>3, <4>3, <4>4, RunsOn DEF Advance, Present, Undone
    <3>4. CASE ~Buffered /\ ~Valid(h.code) /\ pc' = "cut"
      <4>1. WholeBody'
        BY <2>0, <3>4 DEF WholeBody, Buffered
      <4> QED BY <2>4, <3>1, <3>4, <4>1, StepsOver DEF Present, Undone
    <3> QED BY <2>10, <3>2, <3>3, <3>4 DEF WriteHeader
  <2>11. CASE Write
    BY <2>2, <2>3, <2>11, WriteInFull
  <2>12. CASE Flush
    <3>1. /\ pc = "handler" /\ pc' = "handler" /\ todo # <<>> /\ Head(todo) = "flush"
          /\ todo' = Tail(todo) /\ UNCHANGED <<rec, expired>>
      BY <2>12 DEF Flush, At, Advance
    <3>2. ctxDone' => expired
      BY <2>3, <2>4, <2>12 DEF Flush, Present, Undone
    <3>3. w'.body = w.body /\ w'.length = w.length
      <4>1. w' = w \/ w' = Flushed(w) \/ w' = Headed(w, 200)
        BY <2>12 DEF Flush
      <4> QED BY <4>1, Counts, FlushedIs, HeadedIs
    <3>4. Building'.body = Building.body /\ Building'.length = Building.length
      BY <2>0, <3>1, <3>3 DEF Building, Buffered
    <3>5. Building.length \in {None, h.length}
      BY <2>4, <3>1 DEF Present, Running
    <3> QED BY <2>0, <2>3, <3>1, <3>2, <3>4, <3>5, RunsOn
  <2>13. CASE TimerFires \/ Poll \/ ReadBody
    <3>1. /\ pc = "handler" /\ pc' = "handler" /\ todo # <<>> /\ Head(todo) # "write"
          /\ todo' = Tail(todo) /\ UNCHANGED <<w, rec, ctxDone, expired>>
      BY <2>13 DEF TimerFires, Poll, ReadBody, At, Advance, world
    <3>2. Building' = Building /\ Building.length \in {None, h.length}
      BY <2>0, <2>4, <3>1 DEF Building, Buffered, Present, Running
    <3> QED BY <2>0, <2>3, <2>4, <3>1, <3>2, RunsOn DEF Present, Undone
  <2>14. CASE ContextDone
    <3>1. expired /\ UNCHANGED <<w, rec, ctxDone, expired>>
      BY <2>4, <2>14 DEF ContextDone, world, Present, Undone
    <3>2. CASE pc = "delay" /\ pc' = "finish"
      <4>1. w.sent = 0
        BY <3>2 DEF TypeInv, Untouched
      <4>2. ~InTime(w)'
        BY <3>1, <4>1 DEF InTime
      <4> QED BY <2>0, <3>1, <3>2, <4>2, StepsToFinish
    <3>3. CASE pc = "handler" /\ Returned
      <4>1. CASE Buffered
        BY <2>4, <3>1, <3>3, <4>1
           DEF Returned, Present, Undone, Begun, Running, Recorded, Ending, WholeBody
      <4>2. CASE ~Buffered
        <5>1. pc' = "finish" /\ (InTime(w)' => InTime(w))
          BY <3>1, <3>3, <4>2 DEF Returned, InTime
        <5>2. InTime(w) => Complete(w)
          BY <2>3, <3>1, <3>3, <4>2, EndsEarly
        <5> QED BY <2>0, <3>1, <5>1, <5>2, StepsToFinish DEF Complete
      <4> QED BY <4>1, <4>2
    <3> QED BY <2>14, <3>2, <3>3 DEF ContextDone, At
  <2>15. CASE Hijack \/ LogHijacked
    <3>1. pc' = "hijacked" /\ UNCHANGED <<ctxDone, expired>>
      BY <2>15 DEF Hijack, LogHijacked, world
    <3> QED BY <2>4, <3>1, StepsOver DEF Present, Undone, WholeBody
  <2>16. CASE Finish
    <3> DEFINE q == Headed(w, 200)
    <3>1. /\ q \in Responses /\ q.body = w.body /\ q.length = w.length /\ q.sent = w.sent
      BY Counts, HeadedIs
    <3>2. /\ pc = "finish" /\ UNCHANGED <<ctxDone, expired>>
          /\ w' = IF InTime(q) THEN [q EXCEPT !.sent = Len(q.body)] ELSE q
          /\ pc' = IF Whole(q) /\ InTime(q) THEN "done" ELSE "cut"
      BY <2>16 DEF Finish, world
    <3>3. InTime(q) => Complete(w)
      <4> HIDE DEF q
      <4> QED BY <2>4, <3>1, <3>2 DEF InTime, Present, Ending
    <3>4. w'.body = w.body /\ w'.status = q.status
      <4> HIDE DEF q
      <4> QED BY <3>1, <3>2 DEF Responses
    <3>5. Complete(w) => Whole(q) /\ (Bodiless(q.status) \/ w.body = ExpectedBody)
      BY <3>1 DEF Complete, Whole
    <3> HIDE DEF q
    <3>6. InTime(q) \/ expired
      BY DEF InTime
    <3>7. WholeBody'
      <4>1. CASE pc' = "done"
        <5>1. Bodiless(w'.status) \/ w'.body = ExpectedBody'
          BY <2>0, <3>2, <3>3, <3>4, <3>5, <4>1, ExpectedStays
        <5> QED BY <4>1, <5>1 DEF WholeBody
      <4>2. CASE pc' = "cut"
        BY <3>2, <3>3, <3>5, <3>6, <4>2 DEF WholeBody
      <4> QED BY <3>2, <4>1, <4>2
    <3> QED BY <2>4, <3>2, <3>7, StepsOver DEF Present, Undone
  <2>17. CASE Expire
    <3>1. expired' /\ UNCHANGED <<pc, todo, w, rec, ctxDone>> /\ pc \notin {"done", "cut"}
      BY <2>17 DEF Expire, Over
    <3>2. InTime(w)' => InTime(w)
      BY <3>1 DEF InTime
    <3>3. Running'
      BY <2>0, <2>4, <3>1 DEF Present, Running, Building, Buffered
    <3>4. Ending'
      BY <2>0, <2>4, <3>1, <3>2, ExpectedStays DEF Present, Ending, Complete
    <3> QED BY <2>0, <2>4, <3>1, <3>3, <3>4
            DEF Present, Undone, Begun, Recorded, WholeBody
  <2>18. CASE Disconnect \/ Notice
    BY <2>2, <2>3, <2>18 DEF Disconnect, Notice
  <2>19. CASE UNCHANGED vars
    <3>1. /\ UNCHANGED <<pc, todo, w, rec, ctxDone, expired, client>>
          /\ ExpectedBody' = ExpectedBody /\ HandlerBody' = HandlerBody /\ Buffered' = Buffered
      BY <2>0, <2>19, ExpectedStays DEF vars
    <3>2. Undone' /\ Begun' /\ Running' /\ Recorded'
      BY <2>0, <2>4, <3>1 DEF Present, Undone, Begun, Running, Recorded, Building
    <3>3. Ending' /\ WholeBody'
      BY <2>0, <2>4, <3>1 DEF Present, Ending, InTime, Complete, WholeBody
    <3> QED BY <3>2, <3>3 DEF Present
  <2> QED BY <2>5, <2>6, <2>7, <2>8, <2>9, <2>10, <2>11, <2>12, <2>13, <2>14, <2>15, <2>16,
             <2>17, <2>18, <2>19 DEF Next, Run
<1> QED BY <1>1, <1>2, TypeInvariant, PTL DEF Spec

\* A response that arrives as a complete one carries the whole body, and none is
\* cut short but for an abort, an invalid status or the write deadline, for any
\* handler and any overrides (overrides.go; drip.go; synthetic.go; server.go:22).
THEOREM BodyIsWhole == Spec => []WholeBody
<1>1. BodyInv => WholeBody
  BY DEF BodyInv, Present, WholeBody
<1> QED BY <1>1, BodyInvariant, PTL
====
