---- MODULE ServedRoutes ----
(***************************************************************************)
(* What reloading the routes promises, however many loads run at the same  *)
(* time: the served table is replaced as a whole, at one instant, by a     *)
(* table that loads, and each file is in it as it was at some moment since *)
(* the load was asked for.  An edit made before that moment is not missed. *)
(***************************************************************************)
EXTENDS Integers

CONSTANTS Files,  \* the route files
          Loaders \* whoever may load them

VARIABLES disk,   \* each file's contents: the edit that wrote them, their kind
          edits,  \* number of edits made so far
          table,  \* the contents the served routes were built from
          busy,   \* the loaders at work
          held    \* what each file has held since a loader at work was asked

promiseVars == <<disk, edits, table, busy, held>>

Kinds == {"ok", "clash", "bad", "absent"}
NotAsked == [f \in Files |-> {}]

\* Contents that make a table: none fails, no two conflict.
Loads(t) ==
    /\ \A f \in Files : t[f].kind \in Kinds \ {"bad"}
    /\ \A f, g \in Files : t[f].kind = "clash" /\ t[g].kind = "clash" => f = g

Init ==
    /\ disk \in [Files -> [rev: {0}, kind: Kinds]]
    /\ edits = 0
    /\ table = [f \in Files |-> [rev |-> 0, kind |-> "unread"]]
    /\ busy = {}
    /\ held = [r \in Loaders |-> NotAsked]

Edit(f, c) ==
    /\ edits' = edits + 1
    /\ disk' = [disk EXCEPT ![f] = c]
    /\ held' = [r \in Loaders |->
                  IF r \in busy THEN [held[r] EXCEPT ![f] = @ \cup {c}] ELSE held[r]]
    /\ UNCHANGED <<table, busy>>

Ask(r) ==
    /\ busy' = busy \cup {r}
    /\ held' = [held EXCEPT ![r] = [f \in Files |-> {disk[f]}]]
    /\ UNCHANGED <<disk, edits, table>>

\* The table of a load: one moment for each file, not one for all of them.
Swap(r) ==
    /\ table' \in [Files -> UNION {held[r][f] : f \in Files}]
    /\ \A f \in Files : table'[f] \in held[r][f]
    /\ Loads(table')

\* A load that fails leaves the table alone.
Finish(r) ==
    /\ busy' = busy \ {r}
    /\ held' = [held EXCEPT ![r] = NotAsked]
    /\ UNCHANGED <<disk, edits>>
    /\ UNCHANGED table \/ Swap(r)

Next ==
    \/ \E f \in Files, k \in Kinds : Edit(f, [rev |-> edits + 1, kind |-> k])
    \/ \E r \in Loaders \ busy : Ask(r)
    \/ \E r \in busy : Finish(r)

Spec == Init /\ [][Next]_promiseVars
====
