---- MODULE CaptureBuffer_proofs ----
(***************************************************************************)
(* Proofs about CaptureBuffer, for any number of requests, readers and     *)
(* clearers, any capacity and any body limit: the buffer is the newest     *)
(* part of the log, and CaptureBuffer implements CaptureLog.               *)
(***************************************************************************)
EXTENDS CaptureBuffer, SequenceTheorems, TLAPS

LEMMA MaxIsPositive == max \in Nat /\ max >= 1
BY CaptureAssumption DEF max

\* Appending to what was kept of a log, and keeping the newest n of that, is
\* keeping the newest n of the longer log.
LEMMA LastNAppend ==
    ASSUME NEW S, NEW s \in Seq(S), NEW e \in S, NEW n \in Nat, n >= 1
    PROVE  /\ LastN(s, n) \in Seq(S)
           /\ LastN(Append(LastN(s, n), e), n) = LastN(Append(s, e), n)
<1> DEFINE k == LastN(s, n)
           a == Append(s, e)
<1>1. /\ Len(s) \in Nat /\ a \in Seq(S) /\ Len(a) = Len(s) + 1 /\ a[Len(s) + 1] = e
      /\ \A i \in 1..Len(s) : a[i] = s[i]
  BY AppendProperties, LenProperties
<1>2. CASE Len(s) <= n
  <2>1. k = s
    BY <1>1, <1>2 DEF LastN
  <2> QED BY <2>1
<1>3. CASE Len(s) > n
  <2>1. k = SubSeq(s, Len(s) - n + 1, Len(s))
    BY <1>3 DEF LastN
  <2>2. k \in Seq(S) /\ Len(k) = n /\ \A i \in 1..n : k[i] = s[Len(s) - n + i]
    BY <1>1, <1>3, <2>1, SubSeqProperties
  <2>3. /\ Append(k, e) \in Seq(S) /\ Len(Append(k, e)) = n + 1
        /\ Append(k, e)[n + 1] = e
        /\ \A i \in 1..n : Append(k, e)[i] = k[i]
    BY <2>2, AppendProperties
  <2> DEFINE l == SubSeq(Append(k, e), 2, n + 1)
             r == SubSeq(a, Len(s) - n + 2, Len(s) + 1)
  <2>4. LastN(Append(k, e), n) = l
    BY <2>3 DEF LastN
  <2>5. LastN(a, n) = r
    <3>1. Len(a) > n /\ Len(a) - n + 1 = Len(s) - n + 2
      BY <1>1, <1>3
    <3>2. LastN(a, n) = SubSeq(a, Len(a) - n + 1, Len(a))
      BY <3>1 DEF LastN
    <3> QED BY <1>1, <3>1, <3>2
  <2>6. l \in Seq(S) /\ Len(l) = n /\ \A i \in 1..n : l[i] = Append(k, e)[i + 1]
    BY <2>3, SubSeqProperties
  <2>7. r \in Seq(S) /\ Len(r) = n /\ \A i \in 1..n : r[i] = a[Len(s) - n + 1 + i]
    BY <1>1, <1>3, SubSeqProperties
  <2>8. ASSUME NEW i \in 1..n PROVE l[i] = r[i]
    <3>1. CASE i = n
      BY <1>1, <1>3, <2>3, <2>6, <2>7, <3>1
    <3>2. CASE i # n
      <4>1. i + 1 \in 1..n /\ Len(s) - n + 1 + i \in 1..Len(s)
        BY <1>1, <1>3, <3>2
      <4>2. l[i] = s[Len(s) - n + (i + 1)]
        BY <2>2, <2>3, <2>6, <4>1
      <4>3. r[i] = s[Len(s) - n + 1 + i]
        BY <1>1, <2>7, <4>1
      <4>4. Len(s) - n + (i + 1) = Len(s) - n + 1 + i
        BY <1>1
      <4> HIDE DEF l, r
      <4> QED BY <4>2, <4>3, <4>4
    <3> QED BY <3>1, <3>2
  <2>9. l = r
    BY <2>6, <2>7, <2>8, SeqEqual
  <2> QED BY <2>2, <2>4, <2>5, <2>9
<1> QED BY <1>1, <1>2, <1>3

LEMMA EntryTyped ==
    ASSUME TypeOK, NEW q \in Requests PROVE EntryOf(q) \in Entry
<1>1. peek[q] \in 0..MaxBodyBytes + 1 /\ MaxBodyBytes \in Nat
  BY CaptureAssumption DEF TypeOK
<1> QED BY <1>1 DEF EntryOf, Entry, Smaller

\* Types: no entry keeps more than MaxBodyBytes of a body and no handler reads
\* ahead more than one byte beyond that (Middleware).
THEOREM TypeCorrect == Spec => []TypeOK
<1>0. Free \notin Actors /\ Requests \subseteq Actors /\ MaxBodyBytes \in Nat /\ MaxSize \in Nat
  BY CaptureAssumption DEF Actors
<1>1. Init => TypeOK
  <2> SUFFICES ASSUME Init PROVE TypeOK
    OBVIOUS
  <2>1. <<>> \in Seq(Entry)
    OBVIOUS
  <2>2. peek \in [Requests -> 0..MaxBodyBytes + 1] /\ seen \in [Requests -> Nat]
    BY <1>0 DEF Init
  <2>3. answer \in [Readers -> Seq(Entry)]
    BY <2>1 DEF Init
  <2>4. pc \in [Actors -> {"start", "ready", "locked", "appended", "recorded", "done"}]
    BY DEF Init
  <2> QED BY <2>1, <2>2, <2>3, <2>4 DEF Init, TypeOK
<1>2. TypeOK /\ [Next]_vars => TypeOK'
  <2> SUFFICES ASSUME TypeOK, [Next]_vars PROVE TypeOK'
    OBVIOUS
  <2> USE DEF TypeOK, Goto
  <2>1. ASSUME NEW q \in Requests, Peek(q) PROVE TypeOK'
    <3>1. /\ Smaller(body[q], MaxBodyBytes + 1) \in 0..MaxBodyBytes + 1
          /\ body[q] - Smaller(body[q], MaxBodyBytes + 1) \in 0..MaxSize
      BY <1>0 DEF Smaller
    <3> QED BY <1>0, <2>1, <3>1 DEF Peek
  <2>2. ASSUME NEW q \in Requests, AddAppend(q) PROVE TypeOK'
    <3>1. Append(entries, EntryOf(q)) \in Seq(Entry)
      BY EntryTyped, AppendProperties
    <3> QED BY <1>0, <2>2, <3>1 DEF AddAppend
  <2>3. ASSUME NEW q \in Requests, AddEvict(q) PROVE TypeOK'
    <3>1. Append(log, EntryOf(q)) \in Seq(Entry)
      BY EntryTyped, AppendProperties
    <3>2. entries' \in Seq(Entry)
      <4>1. CASE Len(entries) > max
        <5>1. SubSeq(entries, Len(entries) - max + 1, Len(entries)) \in Seq(Entry)
          BY <4>1, MaxIsPositive, SubSeqProperties, LenProperties
        <5> QED BY <2>3, <4>1, <5>1 DEF AddEvict
      <4>2. CASE ~(Len(entries) > max)
        BY <2>3, <4>2 DEF AddEvict
      <4> QED BY <4>1, <4>2
    <3> QED BY <1>0, <2>3, <3>1, <3>2 DEF AddEvict
  <2>4. ASSUME NEW q \in Requests, ServeNext(q) PROVE TypeOK'
    <3>1. peek[q] + body[q] \in Nat /\ 0 \in 0..MaxSize
      BY <1>0
    <3> QED BY <1>0, <2>4, <3>1 DEF ServeNext
  <2>5. ASSUME NEW a \in Actors, Lock(a) PROVE TypeOK'
    BY <2>5 DEF Lock
  <2>6. ASSUME NEW a \in Readers \cup Clearers, Call(a) PROVE TypeOK'
    BY <2>6 DEF Call, Actors
  <2>7. ASSUME NEW r \in Readers, All(r) PROVE TypeOK'
    BY <2>7 DEF All, Actors
  <2>8. ASSUME NEW c \in Clearers, Clear(c) PROVE TypeOK'
    <3>1. \A i \in 1..Len(log) : log[i].req \in Requests
      <4>1. log \in Seq(Entry)
        OBVIOUS
      <4>2. \A i \in 1..Len(log) : log[i] \in Entry
        BY <4>1, ElementOfSeq
      <4> QED BY <4>2 DEF Entry
    <3>2. <<>> \in Seq(Entry)
      OBVIOUS
    <3> QED BY <2>8, <3>1, <3>2 DEF Clear, Actors
  <2>9. CASE UNCHANGED vars
    BY <2>9 DEF vars
  <2> QED
    BY <2>1, <2>2, <2>3, <2>4, <2>5, <2>6, <2>7, <2>8, <2>9 DEF Next, Record
<1> QED BY <1>1, <1>2, PTL DEF Spec

-----------------------------------------------------------------------------
(* The mutex: whoever is inside the critical section holds it, so at most   *)
(* one Add is half done, and it is the holder's.                            *)

Exclusive ==
    /\ \A a \in Actors : pc[a] \in {"locked", "appended"} <=> mu = a
    /\ \A a \in Actors : pc[a] = "appended" => a \in Requests

BufferInv ==
    /\ Exclusive
    /\ \A q \in Requests : pc[q] = "appended" =>
         entries = Append(LastN(log, max), EntryOf(q))
    /\ (\A q \in Requests : pc[q] # "appended") => entries = LastN(log, max)

LEMMA BufferInvariant == Spec => []BufferInv
<1>0. /\ Free \notin Actors /\ Requests \subseteq Actors
      /\ Readers \subseteq Actors /\ Clearers \subseteq Actors
      /\ Requests \cap Readers = {} /\ Requests \cap Clearers = {}
  BY CaptureAssumption DEF Actors
<1>1. Init => BufferInv
  <2>1. LastN(<<>>, max) = <<>>
    BY MaxIsPositive DEF LastN
  <2> QED BY <1>0, <2>1 DEF Init, BufferInv, Exclusive
<1>2. TypeOK /\ BufferInv /\ [Next]_vars => BufferInv'
  <2> SUFFICES ASSUME TypeOK, BufferInv, [Next]_vars PROVE BufferInv'
    OBVIOUS
  <2>0. pc \in [Actors -> {"start", "ready", "locked", "appended", "recorded", "done"}]
    BY DEF TypeOK
  <2>1. ASSUME NEW q \in Requests, Peek(q) PROVE BufferInv'
    <3>1. /\ pc[q] = "start" /\ pc'[q] = "ready"
          /\ \A a \in Actors \ {q} : pc'[a] = pc[a]
      BY <1>0, <2>0, <2>1 DEF Peek, Goto
    <3>2. \A p \in Requests \ {q} : EntryOf(p)' = EntryOf(p)
      BY <2>1 DEF Peek, EntryOf, TypeOK
    <3>3. UNCHANGED <<mu, entries, log>>
      BY <2>1 DEF Peek
    <3>4. Exclusive'
      BY <1>0, <3>1, <3>3 DEF BufferInv, Exclusive
    <3> QED BY <1>0, <3>1, <3>2, <3>3, <3>4 DEF BufferInv
  <2>2. ASSUME NEW a \in Actors, Lock(a) PROVE BufferInv'
    <3>1. /\ pc[a] = "ready" /\ pc'[a] = "locked" /\ mu = Free /\ mu' = a
          /\ \A b \in Actors \ {a} : pc'[b] = pc[b]
      BY <2>0, <2>2 DEF Lock, Goto
    <3>2. \A p \in Requests : EntryOf(p)' = EntryOf(p)
      BY <2>2 DEF Lock, EntryOf
    <3>3. UNCHANGED <<entries, log>>
      BY <2>2 DEF Lock
    <3>4. Exclusive'
      BY <1>0, <3>1 DEF BufferInv, Exclusive
    <3> QED BY <1>0, <3>1, <3>2, <3>3, <3>4 DEF BufferInv
  <2>3. ASSUME NEW q \in Requests, AddAppend(q) PROVE BufferInv'
    <3>1. /\ pc[q] = "locked" /\ pc'[q] = "appended"
          /\ \A a \in Actors \ {q} : pc'[a] = pc[a]
      BY <1>0, <2>0, <2>3 DEF AddAppend, Goto
    <3>2. \A p \in Requests : EntryOf(p)' = EntryOf(p)
      BY <2>3 DEF AddAppend, EntryOf
    <3>3. /\ entries' = Append(entries, EntryOf(q)) /\ UNCHANGED <<mu, log>>
      BY <2>3 DEF AddAppend
    <3>4. mu = q /\ \A p \in Requests \ {q} : pc[p] # "appended"
      BY <1>0, <3>1 DEF BufferInv, Exclusive
    <3>5. entries = LastN(log, max)
      BY <1>0, <3>1, <3>4 DEF BufferInv
    <3>6. Exclusive'
      BY <1>0, <3>1, <3>3, <3>4 DEF BufferInv, Exclusive
    <3> QED BY <1>0, <3>1, <3>2, <3>3, <3>4, <3>5, <3>6 DEF BufferInv
  <2>4. ASSUME NEW q \in Requests, AddEvict(q) PROVE BufferInv'
    <3>1. /\ pc[q] = "appended" /\ pc'[q] = "recorded" /\ mu' = Free
          /\ \A a \in Actors \ {q} : pc'[a] = pc[a]
      BY <1>0, <2>0, <2>4 DEF AddEvict, Goto
    <3>2. /\ entries = Append(LastN(log, max), EntryOf(q))
          /\ log' = Append(log, EntryOf(q)) /\ entries' = LastN(entries, max)
      BY <2>4, <3>1 DEF AddEvict, BufferInv, LastN
    <3>3. log \in Seq(Entry) /\ EntryOf(q) \in Entry
      BY EntryTyped DEF TypeOK
    <3>4. entries' = LastN(log', max)
      BY <3>2, <3>3, MaxIsPositive, LastNAppend
    <3>5. Exclusive'
      BY <1>0, <3>1 DEF BufferInv, Exclusive
    <3>6. \A p \in Requests : pc'[p] # "appended"
      BY <1>0, <3>1, <3>5 DEF Exclusive
    <3> QED BY <3>4, <3>5, <3>6 DEF BufferInv
  <2>5. ASSUME NEW q \in Requests, ServeNext(q) PROVE BufferInv'
    <3>1. /\ pc[q] = "recorded" /\ pc'[q] = "done"
          /\ \A a \in Actors \ {q} : pc'[a] = pc[a]
      BY <1>0, <2>0, <2>5 DEF ServeNext, Goto
    <3>2. \A p \in Requests : EntryOf(p)' = EntryOf(p)
      BY <2>5 DEF ServeNext, EntryOf
    <3>3. UNCHANGED <<mu, entries, log>>
      BY <2>5 DEF ServeNext
    <3>4. Exclusive'
      BY <1>0, <3>1, <3>3 DEF BufferInv, Exclusive
    <3> QED BY <1>0, <3>1, <3>2, <3>3, <3>4 DEF BufferInv
  <2>6. ASSUME NEW a \in Readers \cup Clearers, Call(a) PROVE BufferInv'
    <3>1. /\ a \in Actors /\ pc[a] \in {"start", "done"} /\ pc'[a] = "ready"
          /\ \A b \in Actors \ {a} : pc'[b] = pc[b]
      BY <1>0, <2>0, <2>6 DEF Call, Goto
    <3>2. \A p \in Requests : EntryOf(p)' = EntryOf(p)
      BY <2>6 DEF Call, EntryOf
    <3>3. UNCHANGED <<mu, entries, log>>
      BY <2>6 DEF Call
    <3>4. Exclusive'
      BY <1>0, <3>1, <3>3 DEF BufferInv, Exclusive
    <3> QED BY <1>0, <3>1, <3>2, <3>3, <3>4 DEF BufferInv
  <2>7. ASSUME NEW r \in Readers, All(r) PROVE BufferInv'
    <3>1. /\ r \in Actors /\ pc[r] = "locked" /\ pc'[r] = "done" /\ mu' = Free
          /\ \A b \in Actors \ {r} : pc'[b] = pc[b]
      BY <1>0, <2>0, <2>7 DEF All, Goto
    <3>2. \A p \in Requests : EntryOf(p)' = EntryOf(p)
      BY <2>7 DEF All, EntryOf
    <3>3. UNCHANGED <<entries, log>>
      BY <2>7 DEF All
    <3>4. Exclusive'
      BY <1>0, <3>1 DEF BufferInv, Exclusive
    <3> QED BY <1>0, <3>1, <3>2, <3>3, <3>4 DEF BufferInv
  <2>8. ASSUME NEW c \in Clearers, Clear(c) PROVE BufferInv'
    <3>1. /\ c \in Actors /\ pc[c] = "locked" /\ pc'[c] = "done" /\ mu' = Free
          /\ \A b \in Actors \ {c} : pc'[b] = pc[b]
      BY <1>0, <2>0, <2>8 DEF Clear, Goto
    <3>2. entries' = <<>> /\ log' = <<>>
      BY <2>8 DEF Clear
    <3>3. LastN(<<>>, max) = <<>>
      BY MaxIsPositive DEF LastN
    <3>4. Exclusive'
      BY <1>0, <3>1 DEF BufferInv, Exclusive
    <3>5. \A p \in Requests : pc'[p] # "appended"
      BY <1>0, <3>1, <3>4 DEF Exclusive
    <3> QED BY <3>2, <3>3, <3>4, <3>5 DEF BufferInv
  <2>9. CASE UNCHANGED vars
    BY <2>9 DEF vars, BufferInv, Exclusive, EntryOf
  <2> QED
    BY <2>1, <2>2, <2>3, <2>4, <2>5, <2>6, <2>7, <2>8, <2>9 DEF Next, Record
<1> QED BY <1>1, <1>2, TypeCorrect, PTL DEF Spec

\* Between calls the buffer is exactly the newest `max` entries since the last
\* Clear, in the order they were added (Buffer.Add).
THEOREM NewestAlwaysKept == Spec => []NewestKept
<1>1. BufferInv => NewestKept
  <2> SUFFICES ASSUME BufferInv, mu = Free PROVE entries = LastN(log, max)
    BY DEF NewestKept
  <2>1. \A q \in Requests : pc[q] # "appended"
    BY CaptureAssumption DEF BufferInv, Exclusive, Actors
  <2> QED BY <2>1 DEF BufferInv
<1> QED BY <1>1, BufferInvariant, PTL

\* Every run of the buffer, its middleware and its readers is a run of the
\* promised log: each call takes effect at one instant (capture.go).
THEOREM ImplementsLog == Spec => KeepsPromise
<1>1. Init => Promise!Init
  BY DEF Init, Promise!Init
<1>2. TypeOK /\ BufferInv /\ [Next]_vars => [Promise!Next]_<<log, answer>>
  <2> SUFFICES ASSUME TypeOK, BufferInv, [Next]_vars
               PROVE  Promise!Next \/ UNCHANGED <<log, answer>>
    OBVIOUS
  <2>1. ASSUME NEW q \in Requests, AddEvict(q) PROVE Promise!Next
    <3>1. EntryOf(q) \in Entry
      BY EntryTyped
    <3>2. Promise!Record(EntryOf(q))
      BY <2>1 DEF AddEvict, Promise!Record
    <3> QED BY <3>1, <3>2 DEF Promise!Next
  <2>2. ASSUME NEW q \in Requests, Peek(q) \/ AddAppend(q) \/ ServeNext(q)
        PROVE UNCHANGED <<log, answer>>
    BY <2>2 DEF Peek, AddAppend, ServeNext
  <2>3. ASSUME NEW a \in Actors, Lock(a) PROVE UNCHANGED <<log, answer>>
    BY <2>3 DEF Lock
  <2>4. ASSUME NEW a \in Readers \cup Clearers, Call(a) PROVE UNCHANGED <<log, answer>>
    BY <2>4 DEF Call
  <2>5. ASSUME NEW r \in Readers, All(r) PROVE Promise!Next
    <3>1. mu = r /\ r \in Actors /\ r \notin Requests /\ Requests \subseteq Actors
      BY <2>5, CaptureAssumption DEF All, BufferInv, Exclusive, Actors
    <3>2. \A q \in Requests : pc[q] # "appended"
      BY <3>1 DEF BufferInv, Exclusive
    <3>3. entries = LastN(log, max)
      BY <3>2 DEF BufferInv
    <3>4. answer' = [answer EXCEPT ![r] = Promise!LastN(log, max)] /\ UNCHANGED log
      BY <2>5, <3>3 DEF All, LastN, Promise!LastN
    <3> QED BY <3>4 DEF Promise!Next, Promise!Read
  <2>6. ASSUME NEW c \in Clearers, Clear(c) PROVE Promise!Next
    BY <2>6 DEF Clear, Promise!Next, Promise!Forget
  <2>7. CASE UNCHANGED vars
    BY <2>7 DEF vars
  <2> QED
    BY <2>1, <2>2, <2>3, <2>4, <2>5, <2>6, <2>7 DEF Next, Record
<1> QED
  BY <1>1, <1>2, TypeCorrect, BufferInvariant, PTL
  DEF Spec, KeepsPromise, Promise!Spec, Promise!logVars

-----------------------------------------------------------------------------
(* Bodies: what was read ahead and what is left make up the whole body.     *)

Honest(e) == /\ e.body <= MaxBodyBytes
             /\ e.truncated <=> e.body < size[e.req]

Split(q) == /\ peek[q] + body[q] = size[q]
            /\ peek[q] = Smaller(size[q], MaxBodyBytes + 1)

BodyInv ==
    /\ \A q \in Requests : pc[q] = "start" => body[q] = size[q]
    /\ \A q \in Requests : pc[q] \notin {"start", "done"} => Split(q)
    /\ \A q \in Requests : pc[q] = "done" => seen[q] = size[q]
    /\ \A i \in 1..Len(entries) : Honest(entries[i])

\* The entry of a body that was read ahead is honest about it.
LEMMA EntryIsHonest ==
    ASSUME TypeOK, NEW q \in Requests, Split(q) PROVE Honest(EntryOf(q))
<1>1. size[q] \in Nat /\ MaxBodyBytes \in Nat
  BY CaptureAssumption DEF TypeOK
<1>2. peek[q] = IF size[q] <= MaxBodyBytes + 1 THEN size[q] ELSE MaxBodyBytes + 1
  BY DEF Split, Smaller
<1>3. /\ EntryOf(q).req = q
      /\ EntryOf(q).body = IF peek[q] <= MaxBodyBytes THEN peek[q] ELSE MaxBodyBytes
      /\ EntryOf(q).truncated = (peek[q] > MaxBodyBytes)
  BY DEF EntryOf, Smaller
<1>4. CASE size[q] <= MaxBodyBytes
  <2>1. peek[q] = size[q] /\ ~(peek[q] > MaxBodyBytes)
    BY <1>1, <1>2, <1>4
  <2>2. EntryOf(q).body = size[q]
    BY <1>3, <1>4, <2>1
  <2>3. ~EntryOf(q).truncated
    BY <1>3, <2>1, Zenon
  <2> QED BY <1>1, <1>3, <1>4, <2>2, <2>3 DEF Honest
<1>5. CASE ~(size[q] <= MaxBodyBytes)
  <2>1. peek[q] = MaxBodyBytes + 1 /\ peek[q] > MaxBodyBytes
    BY <1>1, <1>2, <1>5
  <2>2. EntryOf(q).body = MaxBodyBytes
    BY <1>1, <1>3, <2>1
  <2>3. EntryOf(q).truncated
    BY <1>3, <2>1, Zenon
  <2> QED BY <1>1, <1>3, <1>5, <2>2, <2>3 DEF Honest
<1> QED BY <1>4, <1>5

LEMMA BodyInvariant == Spec => []BodyInv
<1>0. /\ Requests \subseteq Actors /\ Readers \subseteq Actors /\ Clearers \subseteq Actors
      /\ Requests \cap Readers = {} /\ Requests \cap Clearers = {}
      /\ MaxBodyBytes \in Nat
  BY CaptureAssumption DEF Actors
<1>1. Init => BodyInv
  BY <1>0 DEF Init, BodyInv
<1>2. TypeOK /\ BodyInv /\ [Next]_vars => BodyInv'
  <2> SUFFICES ASSUME TypeOK, BodyInv, [Next]_vars PROVE BodyInv'
    OBVIOUS
  <2>0. /\ pc \in [Actors -> {"start", "ready", "locked", "appended", "recorded", "done"}]
        /\ size \in [Requests -> 0..MaxSize] /\ body \in [Requests -> 0..MaxSize]
        /\ peek \in [Requests -> 0..MaxBodyBytes + 1] /\ seen \in [Requests -> Nat]
        /\ entries \in Seq(Entry)
    BY DEF TypeOK
  <2>K. ASSUME UNCHANGED <<size, body, peek, seen>>,
               \A q \in Requests : \/ pc'[q] = pc[q]
                                   \/ {pc[q], pc'[q]} \cap {"start", "done"} = {},
               \A i \in 1..Len(entries') : Honest(entries'[i])
        PROVE BodyInv'
    <3>1. \A i \in 1..Len(entries') : Honest(entries[i])'
      BY <2>K DEF Honest
    <3>2. \A q \in Requests : pc'[q] \notin {"start", "done"} => Split(q)'
      BY <2>K DEF BodyInv, Split
    <3>3. \A q \in Requests : pc'[q] \in {"start", "done"} => pc'[q] = pc[q]
      BY <2>K
    <3> QED BY <2>K, <3>1, <3>2, <3>3 DEF BodyInv
  <2>1. ASSUME NEW q \in Requests, Peek(q) PROVE BodyInv'
    <3>1. /\ pc[q] = "start" /\ pc'[q] = "ready" /\ size' = size
          /\ peek'[q] = Smaller(body[q], MaxBodyBytes + 1)
          /\ body'[q] = body[q] - Smaller(body[q], MaxBodyBytes + 1)
          /\ \A p \in Requests \ {q} : /\ pc'[p] = pc[p] /\ peek'[p] = peek[p]
                                       /\ body'[p] = body[p]
          /\ UNCHANGED <<seen, entries>>
      BY <1>0, <2>0, <2>1 DEF Peek, Goto
    <3>2. Split(q)'
      <4>1. body[q] = size[q] /\ size[q] \in Nat
        BY <2>0, <3>1 DEF BodyInv
      <4>2. peek'[q] + body'[q] = size[q] /\ peek'[q] = Smaller(size[q], MaxBodyBytes + 1)
        BY <1>0, <3>1, <4>1 DEF Smaller
      <4> QED BY <3>1, <4>2 DEF Split, Smaller
    <3>3. \A p \in Requests \ {q} : Split(p) => Split(p)'
      BY <3>1 DEF Split
    <3>4. \A i \in 1..Len(entries') : Honest(entries[i])'
      BY <3>1 DEF BodyInv, Honest
    <3> QED BY <3>1, <3>2, <3>3, <3>4 DEF BodyInv
  <2>2. ASSUME NEW q \in Requests, AddAppend(q) PROVE BodyInv'
    <3>1. /\ pc[q] = "locked" /\ pc'[q] = "appended"
          /\ \A p \in Requests \ {q} : pc'[p] = pc[p]
          /\ UNCHANGED <<size, body, peek, seen>>
          /\ entries' = Append(entries, EntryOf(q))
      BY <1>0, <2>0, <2>2 DEF AddAppend, Goto
    <3>2. Honest(EntryOf(q))
      BY <3>1, EntryIsHonest DEF BodyInv
    <3>3. /\ Len(entries') = Len(entries) + 1 /\ Len(entries) \in Nat
          /\ entries'[Len(entries) + 1] = EntryOf(q)
          /\ \A i \in 1..Len(entries) : entries'[i] = entries[i]
      BY <2>0, <3>1, EntryTyped, AppendProperties, LenProperties
    <3>4. \A i \in 1..Len(entries') : Honest(entries'[i])
      BY <3>2, <3>3 DEF BodyInv
    <3> QED BY <2>K, <3>1, <3>4
  <2>3. ASSUME NEW q \in Requests, AddEvict(q) PROVE BodyInv'
    <3>1. /\ pc[q] = "appended" /\ pc'[q] = "recorded"
          /\ \A p \in Requests \ {q} : pc'[p] = pc[p]
          /\ UNCHANGED <<size, body, peek, seen>>
      BY <1>0, <2>0, <2>3 DEF AddEvict, Goto
    <3>2. \A i \in 1..Len(entries') : Honest(entries'[i])
      <4>1. CASE Len(entries) > max
        <5>1. entries' = SubSeq(entries, Len(entries) - max + 1, Len(entries))
          BY <2>3, <4>1 DEF AddEvict
        <5>2. /\ Len(entries') = max /\ Len(entries) \in Nat
              /\ \A i \in 1..max : entries'[i] = entries[Len(entries) - max + i]
          BY <2>0, <4>1, <5>1, MaxIsPositive, SubSeqProperties, LenProperties
        <5>3. \A i \in 1..max : Len(entries) - max + i \in 1..Len(entries)
          BY <4>1, <5>2, MaxIsPositive
        <5> QED BY <5>2, <5>3 DEF BodyInv
      <4>2. CASE ~(Len(entries) > max)
        BY <2>3, <4>2 DEF AddEvict, BodyInv
      <4> QED BY <4>1, <4>2
    <3> QED BY <2>K, <3>1, <3>2
  <2>4. ASSUME NEW q \in Requests, ServeNext(q) PROVE BodyInv'
    <3>1. /\ pc[q] = "recorded" /\ pc'[q] = "done"
          /\ seen'[q] = peek[q] + body[q]
          /\ \A p \in Requests \ {q} : /\ pc'[p] = pc[p] /\ seen'[p] = seen[p]
                                       /\ body'[p] = body[p]
          /\ UNCHANGED <<size, peek, entries>>
      BY <1>0, <2>0, <2>4 DEF ServeNext, Goto
    <3>2. seen'[q] = size[q]
      BY <3>1 DEF BodyInv, Split
    <3>3. \A p \in Requests \ {q} : Split(p) => Split(p)'
      BY <3>1 DEF Split
    <3>4. \A i \in 1..Len(entries') : Honest(entries[i])'
      BY <3>1 DEF BodyInv, Honest
    <3> QED BY <3>1, <3>2, <3>3, <3>4 DEF BodyInv
  <2>5. ASSUME NEW a \in Actors, Lock(a) PROVE BodyInv'
    <3>1. /\ pc[a] = "ready" /\ pc'[a] = "locked"
          /\ \A b \in Actors \ {a} : pc'[b] = pc[b]
          /\ UNCHANGED <<size, body, peek, seen, entries>>
      BY <2>0, <2>5 DEF Lock, Goto
    <3>2. \A i \in 1..Len(entries') : Honest(entries'[i])
      BY <3>1 DEF BodyInv
    <3> QED BY <1>0, <2>K, <3>1, <3>2
  <2>6. ASSUME NEW a \in Readers \cup Clearers, Call(a) \/ All(a) \/ Clear(a)
        PROVE BodyInv'
    <3>1. /\ \A q \in Requests : pc'[q] = pc[q]
          /\ UNCHANGED <<size, body, peek, seen>>
          /\ entries' \in {entries, <<>>}
      BY <1>0, <2>0, <2>6 DEF Call, All, Clear, Goto
    <3>2. \A i \in 1..Len(entries') : Honest(entries'[i])
      BY <3>1 DEF BodyInv
    <3> QED BY <2>K, <3>1, <3>2
  <2>7. CASE UNCHANGED vars
    BY <2>7, <2>K DEF vars, BodyInv
  <2> QED
    BY <2>1, <2>2, <2>3, <2>4, <2>5, <2>6, <2>7 DEF Next, Record
<1> QED BY <1>1, <1>2, TypeCorrect, PTL DEF Spec

\* The handler behind the middleware can read every byte of the body, and an
\* entry is marked truncated exactly when it holds less than all of it, for
\* every length of the body and every limit (Middleware).
THEOREM BodyIsPreserved == Spec => []BodyPreserved
<1>1. BodyInv => BodyPreserved
  BY DEF BodyInv, BodyPreserved, Honest
<1> QED BY <1>1, BodyInvariant, PTL

-----------------------------------------------------------------------------
LoggedInv ==
    \A q \in Requests : pc[q] \in {"recorded", "done"} =>
      q \in cleared \/ \E i \in 1..Len(log) : log[i].req = q

\* Whoever has been served is found in the log, or was cleared from it
\* (Middleware adds before it calls next).
THEOREM ServedAreLogged == Spec => []ServedIsLogged
<1>0. /\ Requests \subseteq Actors /\ Readers \subseteq Actors /\ Clearers \subseteq Actors
      /\ Requests \cap Readers = {} /\ Requests \cap Clearers = {}
  BY CaptureAssumption DEF Actors
<1>1. Init => LoggedInv
  BY <1>0 DEF Init, LoggedInv
<1>2. TypeOK /\ LoggedInv /\ [Next]_vars => LoggedInv'
  <2> SUFFICES ASSUME TypeOK, LoggedInv, [Next]_vars PROVE LoggedInv'
    OBVIOUS
  <2>0. /\ pc \in [Actors -> {"start", "ready", "locked", "appended", "recorded", "done"}]
        /\ log \in Seq(Entry)
    BY DEF TypeOK
  <2>K. ASSUME UNCHANGED <<log, cleared>>,
               \A q \in Requests : pc'[q] \in {"recorded", "done"} =>
                                     pc[q] \in {"recorded", "done"}
        PROVE LoggedInv'
    BY <2>K DEF LoggedInv
  <2>1. ASSUME NEW q \in Requests, Peek(q) \/ AddAppend(q) \/ ServeNext(q)
        PROVE LoggedInv'
    <3>1. \A p \in Requests : pc'[p] \in {"recorded", "done"} =>
                                pc[p] \in {"recorded", "done"}
      BY <1>0, <2>0, <2>1 DEF Peek, AddAppend, ServeNext, Goto
    <3> QED BY <2>1, <2>K, <3>1 DEF Peek, AddAppend, ServeNext
  <2>2. ASSUME NEW q \in Requests, AddEvict(q) PROVE LoggedInv'
    <3>1. /\ \A p \in Requests \ {q} : pc'[p] = pc[p]
          /\ cleared' = cleared /\ log' = Append(log, EntryOf(q))
      BY <1>0, <2>0, <2>2 DEF AddEvict, Goto
    <3>2. /\ Len(log') = Len(log) + 1 /\ Len(log) \in Nat
          /\ log'[Len(log) + 1] = EntryOf(q)
          /\ \A i \in 1..Len(log) : log'[i] = log[i]
      BY <2>0, <3>1, EntryTyped, AppendProperties, LenProperties
    <3>3. EntryOf(q).req = q
      BY DEF EntryOf
    <3> QED BY <3>1, <3>2, <3>3 DEF LoggedInv
  <2>3. ASSUME NEW a \in Actors, Lock(a) PROVE LoggedInv'
    <3>1. \A p \in Requests : pc'[p] \in {"recorded", "done"} =>
                                pc[p] \in {"recorded", "done"}
      BY <1>0, <2>0, <2>3 DEF Lock, Goto
    <3> QED BY <2>3, <2>K, <3>1 DEF Lock
  <2>4. ASSUME NEW a \in Readers \cup Clearers, Call(a) \/ All(a) PROVE LoggedInv'
    <3>1. \A p \in Requests : pc'[p] = pc[p]
      BY <1>0, <2>0, <2>4 DEF Call, All, Goto
    <3> QED BY <2>4, <2>K, <3>1 DEF Call, All
  <2>5. ASSUME NEW c \in Clearers, Clear(c) PROVE LoggedInv'
    <3>1. /\ \A p \in Requests : pc'[p] = pc[p]
          /\ cleared' = cleared \cup {log[i].req : i \in 1..Len(log)}
      BY <1>0, <2>0, <2>5 DEF Clear, Goto
    <3> QED BY <3>1 DEF LoggedInv
  <2>6. CASE UNCHANGED vars
    BY <2>6, <2>K DEF vars
  <2> QED
    BY <2>1, <2>2, <2>3, <2>4, <2>5, <2>6 DEF Next, Record
<1>3. LoggedInv => ServedIsLogged
  BY DEF LoggedInv, ServedIsLogged
<1> QED BY <1>1, <1>2, <1>3, TypeCorrect, PTL DEF Spec
====
