---- MODULE CaptureLog ----
(***************************************************************************)
(* What the request capture promises: a log of the requests that reached   *)
(* the server since it was last cleared, of which a reader sees the newest *)
(* `max`, oldest first, as they were at one instant of its call.           *)
(***************************************************************************)
EXTENDS Integers, Sequences

CONSTANTS Entries, \* what can be recorded of a request
          Readers, \* callers of GET /admin/requests
          max      \* how many entries a reader may see

VARIABLES log,     \* every entry recorded since the last clear
          answer   \* the snapshot each reader got last

logVars == <<log, answer>>

\* The last n elements of s, or all of it.
LastN(s, n) == IF Len(s) > n THEN SubSeq(s, Len(s) - n + 1, Len(s)) ELSE s

Init == log = <<>> /\ answer = [r \in Readers |-> <<>>]

Record(e) == log' = Append(log, e) /\ UNCHANGED answer
Forget == log' = <<>> /\ UNCHANGED answer
Read(r) == answer' = [answer EXCEPT ![r] = LastN(log, max)] /\ UNCHANGED log

Next == \/ \E e \in Entries : Record(e)
        \/ Forget
        \/ \E r \in Readers : Read(r)

Spec == Init /\ [][Next]_logVars
====
