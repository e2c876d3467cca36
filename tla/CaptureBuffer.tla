---- MODULE CaptureBuffer ----
(***************************************************************************)
(* Request capture: capture.Middleware around every request of the main    *)
(* server, the bounded Buffer behind its mutex, and the admin API's GET    *)
(* and DELETE /admin/requests, all running at the same time.               *)
(*                                                                         *)
(* A body is its length in bytes, an entry the request it records, the     *)
(* bytes kept of its body and the truncated flag.                          *)
(***************************************************************************)
EXTENDS Integers, Sequences

CONSTANTS
    Requests,     \* requests to the main server, each handled once
    Readers,      \* GET /admin/requests handlers
    Clearers,     \* DELETE /admin/requests handlers
    Free,         \* the mutex has no holder
    CaptureMax,   \* --capture-max
    MaxBodyBytes, \* capture.MaxBodyBytes
    MaxSize       \* bound: the longest body that reaches the server

Actors == Requests \cup Readers \cup Clearers

ASSUME CaptureAssumption ==
    /\ CaptureMax \in Int
    /\ MaxBodyBytes \in Nat
    /\ MaxSize \in Nat
    /\ Free \notin Actors
    /\ Requests \cap Readers = {} /\ Requests \cap Clearers = {}
    /\ Readers \cap Clearers = {}

\* NewBuffer
max == IF CaptureMax < 1 THEN 1 ELSE CaptureMax

VARIABLES
    size,    \* how many body bytes of each request reach the server
    body,    \* how many of them nobody has read yet from the original r.Body
    peek,    \* how many of them the middleware has read ahead
    seen,    \* how many the wrapped handler got to read
    mu,      \* holder of Buffer.mu
    entries, \* Buffer.entries
    pc,      \* where each handler is
    answer,  \* the snapshot each reader got last
    log,     \* history: entries added since the last Clear
    cleared  \* history: requests whose entry a Clear removed

vars == <<size, body, peek, seen, mu, entries, pc, answer, log, cleared>>

Entry == [req: Requests, body: 0..MaxBodyBytes, truncated: BOOLEAN]

TypeOK ==
    /\ size \in [Requests -> 0..MaxSize]
    /\ body \in [Requests -> 0..MaxSize]
    /\ peek \in [Requests -> 0..MaxBodyBytes + 1]
    /\ seen \in [Requests -> Nat]
    /\ mu \in Actors \cup {Free}
    /\ entries \in Seq(Entry)
    /\ pc \in [Actors -> {"start", "ready", "locked", "appended", "recorded", "done"}]
    /\ answer \in [Readers -> Seq(Entry)]
    /\ log \in Seq(Entry)
    /\ cleared \subseteq Requests

Init ==
    /\ size \in [Requests -> 0..MaxSize]
    /\ body = size
    /\ peek = [q \in Requests |-> 0]
    /\ seen = [q \in Requests |-> 0]
    /\ mu = Free
    /\ entries = <<>>
    /\ pc = [a \in Actors |-> "start"]
    /\ answer = [r \in Readers |-> <<>>]
    /\ log = <<>>
    /\ cleared = {}

Smaller(a, b) == IF a <= b THEN a ELSE b
LastN(s, n) == IF Len(s) > n THEN SubSeq(s, Len(s) - n + 1, Len(s)) ELSE s

Goto(a, l) == pc' = [pc EXCEPT ![a] = l]

-----------------------------------------------------------------------------
(* Middleware *)

\* Mutation of Peek: the body is read without a limit.
Peek_Unlimited(q) ==
    /\ pc[q] = "start"
    /\ peek' = [peek EXCEPT ![q] = body[q]]
    /\ body' = [body EXCEPT ![q] = 0]
    /\ Goto(q, "ready")
    /\ UNCHANGED <<size, seen, mu, entries, answer, log, cleared>>

\* io.ReadAll of at most MaxBodyBytes+1 bytes, its error ignored.
Peek(q) ==
    /\ pc[q] = "start"
    /\ peek' = [peek EXCEPT ![q] = Smaller(body[q], MaxBodyBytes + 1)]
    /\ body' = [body EXCEPT ![q] = @ - Smaller(@, MaxBodyBytes + 1)]
    /\ Goto(q, "ready")
    /\ UNCHANGED <<size, seen, mu, entries, answer, log, cleared>>

\* Mutation of EntryOf: a body of exactly MaxBodyBytes counts as truncated.
EntryOf_OffByOne(q) ==
    [req |-> q, body |-> Smaller(peek[q], MaxBodyBytes),
     truncated |-> peek[q] >= MaxBodyBytes]

EntryOf(q) ==
    [req |-> q, body |-> Smaller(peek[q], MaxBodyBytes),
     truncated |-> peek[q] > MaxBodyBytes]

\* Mutation of Lock: All reads without the lock.
Lock_NotForReaders(a) ==
    /\ pc[a] = "ready"
    /\ mu = Free \/ a \in Readers
    /\ mu' = IF mu = Free THEN a ELSE mu
    /\ Goto(a, "locked")
    /\ UNCHANGED <<size, body, peek, seen, entries, answer, log, cleared>>

\* mu.Lock, for whoever wants the buffer.
Lock(a) ==
    /\ pc[a] = "ready"
    /\ mu = Free
    /\ mu' = a
    /\ Goto(a, "locked")
    /\ UNCHANGED <<size, body, peek, seen, entries, answer, log, cleared>>

\* Add: the entry is appended ...
AddAppend(q) ==
    /\ pc[q] = "locked"
    /\ entries' = Append(entries, EntryOf(q))
    /\ Goto(q, "appended")
    /\ UNCHANGED <<size, body, peek, seen, mu, answer, log, cleared>>

\* Mutation of AddEvict: the newest entry is dropped.
AddEvict_Newest(q) ==
    /\ pc[q] = "appended"
    /\ entries' = IF Len(entries) > max THEN SubSeq(entries, 1, max) ELSE entries
    /\ log' = Append(log, EntryOf(q))
    /\ mu' = Free
    /\ Goto(q, "recorded")
    /\ UNCHANGED <<size, body, peek, seen, answer, cleared>>

\* ... and the oldest one dropped when there are too many, then mu.Unlock.
AddEvict(q) ==
    /\ pc[q] = "appended"
    /\ entries' = IF Len(entries) > max
                    THEN SubSeq(entries, Len(entries) - max + 1, Len(entries))
                    ELSE entries
    /\ log' = Append(log, EntryOf(q))
    /\ mu' = Free
    /\ Goto(q, "recorded")
    /\ UNCHANGED <<size, body, peek, seen, answer, cleared>>

\* Mutation of ServeNext: the request is served while its Add waits.
ServeNext_Early(q) ==
    /\ pc[q] \in {"ready", "recorded"}
    /\ seen' = [seen EXCEPT ![q] = peek[q] + body[q]]
    /\ body' = [body EXCEPT ![q] = 0]
    /\ Goto(q, "done")
    /\ UNCHANGED <<size, peek, mu, entries, answer, log, cleared>>

\* next.ServeHTTP reads the body: first the peeked bytes, then the rest.
ServeNext(q) ==
    /\ pc[q] = "recorded"
    /\ seen' = [seen EXCEPT ![q] = peek[q] + body[q]]
    /\ body' = [body EXCEPT ![q] = 0]
    /\ Goto(q, "done")
    /\ UNCHANGED <<size, peek, mu, entries, answer, log, cleared>>

-----------------------------------------------------------------------------
(* The admin API: handleGetRequests (All) and handleDeleteRequests (Clear). *)

Call(a) ==
    /\ pc[a] \in {"start", "done"}
    /\ Goto(a, "ready")
    /\ UNCHANGED <<size, body, peek, seen, mu, entries, answer, log, cleared>>

All(r) ==
    /\ pc[r] = "locked"
    /\ answer' = [answer EXCEPT ![r] = entries]
    /\ mu' = Free
    /\ Goto(r, "done")
    /\ UNCHANGED <<size, body, peek, seen, entries, log, cleared>>

Clear(c) ==
    /\ pc[c] = "locked"
    /\ entries' = <<>>
    /\ log' = <<>>
    /\ cleared' = cleared \cup {log[i].req : i \in 1..Len(log)}
    /\ mu' = Free
    /\ Goto(c, "done")
    /\ UNCHANGED <<size, body, peek, seen, answer>>

-----------------------------------------------------------------------------
Record(q) == Peek(q) \/ AddAppend(q) \/ AddEvict(q) \/ ServeNext(q)

Next ==
    \/ \E q \in Requests : Record(q)
    \/ \E a \in Actors : Lock(a)
    \/ \E a \in Readers \cup Clearers : Call(a)
    \/ \E r \in Readers : All(r)
    \/ \E c \in Clearers : Clear(c)

Spec == Init /\ [][Next]_vars

-----------------------------------------------------------------------------
(* Properties *)

\* The buffer, seen by its readers, is the log that CaptureLog promises:
\* a snapshot never shows the buffer in the middle of an Add or a Clear
\* (capture.go, the mutex around Add, All and Clear).
Promise == INSTANCE CaptureLog WITH Entries <- Entry
KeepsPromise == Promise!Spec

\* Between calls the buffer is the newest `max` entries of the log, in order
\* (Buffer.Add).
NewestKept == mu = Free => entries = LastN(log, max)

\* A request that has been served has been recorded: whoever got a response
\* finds it in the log, unless the log was cleared (Middleware adds before it
\* calls next).
ServedIsLogged ==
    \A q \in Requests : pc[q] = "done" =>
      q \in cleared \/ \E i \in 1..Len(log) : log[i].req = q

\* The handler behind the middleware reads the whole body, and the entry says
\* truncated exactly when it holds less than that (Middleware).
BodyPreserved ==
    /\ \A q \in Requests : pc[q] = "done" => seen[q] = size[q]
    /\ \A i \in 1..Len(entries) :
         LET e == entries[i] IN
           /\ e.body <= MaxBodyBytes
           /\ e.truncated <=> e.body < size[e.req]
====
