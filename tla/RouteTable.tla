---- MODULE RouteTable ----
(***************************************************************************)
(* How declared routes become the table that answers requests: compile's   *)
(* path check, Resolve (one action per iteration of its two loops),        *)
(* BuildMux with the conflict rule of http.ServeMux, and the choice        *)
(* between the user table and the built-in table in compose.               *)
(*                                                                         *)
(* A path pattern is known by the request paths it matches and by its      *)
(* normal form, in which every {param} segment reads {}.                   *)
(***************************************************************************)
EXTENDS Integers, Sequences

CONSTANTS
    Patterns,       \* path patterns that route files may declare
    Normal,         \* normalizePath of each pattern
    Serves,         \* the request paths each pattern matches
    Methods,        \* the HTTP methods
    Any,            \* no method declared: every method
    ProtectedPaths, \* the paths IsProtectedPath is true of
    Builtins,       \* patterns of the built-in table, all of them for any method
    MaxUser,        \* bound: routes declared in routes.d
    MaxPreset       \* bound: routes declared by presets

ASSUME TableAssumption ==
    /\ Any \notin Methods
    /\ MaxUser \in Nat /\ MaxPreset \in Nat

Routes == [path: Patterns, method: Methods \cup {Any}]
RequestPaths == UNION {Serves[p] : p \in Patterns \cup Builtins}

VARIABLES
    user,     \* routes of routes.d, in the order files and entries declare them
    preset,   \* routes of the presets, in order
    ordered,  \* Resolve's list under construction
    fromUser, \* positions of it that hold a route of routes.d
    step,     \* "user", "preset", "serving" or "failed"
    mux       \* the routes registered in the new ServeMux

vars == <<user, preset, ordered, fromUser, step, mux>>

TypeOK ==
    /\ user \in Seq(Routes) /\ preset \in Seq(Routes)
    /\ ordered \in Seq(Routes)
    /\ fromUser \subseteq 1..Len(ordered)
    /\ step \in {"user", "preset", "serving", "failed"}
    /\ mux \subseteq Routes

Init ==
    /\ user = <<>> /\ preset = <<>>
    /\ ordered = <<>>
    /\ fromUser = {}
    /\ step = "user"
    /\ mux = {}

-----------------------------------------------------------------------------
(* Resolve *)

\* The same slot: equal normal paths, and methods that are not specific and
\* different.
overlaps(a, b) ==
    /\ Normal[a.path] = Normal[b.path]
    /\ a.method = Any \/ b.method = Any \/ a.method = b.method

\* The entries the loop's `break` stops at.
FirstOverlap(r) ==
    {i \in 1..Len(ordered) : /\ overlaps(ordered[i], r)
                             /\ \A j \in 1..i - 1 : ~overlaps(ordered[j], r)}

\* compile: a protected path is an error and the whole load fails.
Reject(r) ==
    /\ step \in {"user", "preset"}
    /\ r.path \in ProtectedPaths
    /\ step' = "failed"
    /\ UNCHANGED <<user, preset, ordered, fromUser, mux>>

\* Mutation of AddUser: the position is flagged after the append.
AddUser_FlagsLate(r) ==
    /\ step = "user"
    /\ Len(user) < MaxUser
    /\ r.path \notin ProtectedPaths
    /\ user' = Append(user, r)
    /\ \/ \E i \in FirstOverlap(r) :
            /\ ordered' = [ordered EXCEPT ![i] = r]
            /\ fromUser' = fromUser \cup {i}
       \/ /\ FirstOverlap(r) = {}
          /\ ordered' = Append(ordered, r)
          /\ fromUser' = fromUser \cup {Len(ordered) + 2}
    /\ UNCHANGED <<preset, step, mux>>

\* Mutation of AddUser: the replaced entry stays and the new one is appended.
AddUser_Appends(r) ==
    /\ step = "user"
    /\ Len(user) < MaxUser
    /\ r.path \notin ProtectedPaths
    /\ user' = Append(user, r)
    /\ ordered' = Append(ordered, r)
    /\ fromUser' = fromUser \cup {Len(ordered) + 1}
    /\ UNCHANGED <<preset, step, mux>>

\* The next route of routes.d takes the place of the first entry it overlaps.
AddUser(r) ==
    /\ step = "user"
    /\ Len(user) < MaxUser
    /\ r.path \notin ProtectedPaths
    /\ user' = Append(user, r)
    /\ \/ \E i \in FirstOverlap(r) :
            /\ ordered' = [ordered EXCEPT ![i] = r]
            /\ fromUser' = fromUser \cup {i}
       \/ /\ FirstOverlap(r) = {}
          /\ ordered' = Append(ordered, r)
          /\ fromUser' = fromUser \cup {Len(ordered) + 1}
    /\ UNCHANGED <<preset, step, mux>>

\* Mutation of AddPreset: an overlapped entry of routes.d is replaced too.
AddPreset_Replaces(r) ==
    /\ step \in {"user", "preset"}
    /\ Len(preset) < MaxPreset
    /\ r.path \notin ProtectedPaths
    /\ preset' = Append(preset, r)
    /\ step' = "preset"
    /\ \/ \E i \in FirstOverlap(r) : ordered' = [ordered EXCEPT ![i] = r]
       \/ FirstOverlap(r) = {} /\ ordered' = Append(ordered, r)
    /\ UNCHANGED <<user, fromUser, mux>>

\* Mutation of AddPreset: what was not put in place is appended, although it
\* was to be skipped.
AddPreset_ForgetsSkip(r) ==
    /\ step \in {"user", "preset"}
    /\ Len(preset) < MaxPreset
    /\ r.path \notin ProtectedPaths
    /\ preset' = Append(preset, r)
    /\ step' = "preset"
    /\ \/ \E i \in FirstOverlap(r) :
            ordered' = IF i \in fromUser THEN Append(ordered, r)
                       ELSE [ordered EXCEPT ![i] = r]
       \/ FirstOverlap(r) = {} /\ ordered' = Append(ordered, r)
    /\ UNCHANGED <<user, fromUser, mux>>

\* The next route of a preset, likewise, but it yields to routes.d.
AddPreset(r) ==
    /\ step \in {"user", "preset"}
    /\ Len(preset) < MaxPreset
    /\ r.path \notin ProtectedPaths
    /\ preset' = Append(preset, r)
    /\ step' = "preset"
    /\ \/ \E i \in FirstOverlap(r) :
            ordered' = IF i \in fromUser THEN ordered ELSE [ordered EXCEPT ![i] = r]
       \/ FirstOverlap(r) = {} /\ ordered' = Append(ordered, r)
    /\ UNCHANGED <<user, fromUser, mux>>

-----------------------------------------------------------------------------
(* BuildMux: http.ServeMux refuses two patterns that match a common request  *)
(* unless one of them is strictly more specific.                             *)

Verbs(r) == IF r.method = Any THEN Methods ELSE {r.method}
Covers(r) == Verbs(r) \X Serves[r.path]
Conflict(r, s) ==
    /\ Covers(r) \cap Covers(s) # {}
    /\ Covers(r) \subseteq Covers(s) <=> Covers(s) \subseteq Covers(r)

Conflicts(list) ==
    \E i, j \in 1..Len(list) : i # j /\ Conflict(list[i], list[j])

BuildMux ==
    /\ step \in {"user", "preset"}
    /\ IF Conflicts(ordered)
         THEN step' = "failed" /\ mux' = {}
         ELSE step' = "serving" /\ mux' = {ordered[i] : i \in 1..Len(ordered)}
    /\ UNCHANGED <<user, preset, ordered, fromUser>>

Next ==
    \/ \E r \in Routes : Reject(r) \/ AddUser(r) \/ AddPreset(r)
    \/ BuildMux

Spec == Init /\ [][Next]_vars

-----------------------------------------------------------------------------
(* compose: which table answers a request. *)

builtinMux == {[path |-> p, method |-> Any] : p \in Builtins}

\* builtinMux registers its patterns without safeHandle: were there a conflict,
\* no program would start.
ASSUME BuiltinsAssumption == \A r, s \in builtinMux : r # s => ~Conflict(r, s)

\* The pattern a ServeMux matches: the most specific one, or none.
Handler(table, q) ==
    {r \in table : /\ q \in Covers(r)
                   /\ \A s \in table : q \in Covers(s) => Covers(r) \subseteq Covers(s)}

\* The route that answers and whose it is, or nothing: a 404.
compose(q, strictBuiltins) ==
    LET u == [by: {"user"}, route: Handler(mux, q)]
        b == [by: {"builtin"}, route: Handler(builtinMux, q)]
        first == IF strictBuiltins THEN b ELSE u
        second == IF strictBuiltins THEN u ELSE b
    IN IF first # {} THEN first ELSE second

RequestSet == Methods \X RequestPaths

-----------------------------------------------------------------------------
(* Properties *)

\* A route of routes.d that no later one overlaps is in the table, whatever
\* else is declared, the presets included (load.go, Resolve).
UserRouteSurvives ==
    \A i \in 1..Len(user) :
      (\A j \in i + 1..Len(user) : ~overlaps(user[j], user[i])) =>
        \E k \in fromUser : ordered[k] = user[i]

\* No preset entry is left in the table on a slot that a route of routes.d
\* holds (load.go, Resolve: the first overlap decides, and routes.d comes
\* first in the list).
PresetYields ==
    \A i \in fromUser, k \in 1..Len(ordered) \ fromUser :
      ~overlaps(ordered[i], ordered[k])

\* The declared routes; of each path, all name a method or none does.
declared == {user[i] : i \in 1..Len(user)} \cup {preset[i] : i \in 1..Len(preset)}
Unmixed ==
    \A a, b \in declared :
      Normal[a.path] = Normal[b.path] => (a.method = Any <=> b.method = Any)

\* Whoever declares a path with a method everywhere, or nowhere, gets a table
\* with one route for each slot, which always loads unless patterns of
\* different slots conflict (load.go, Resolve; mux.go, BuildMux).
OneRoutePerSlot ==
    Unmixed => \A i, j \in 1..Len(ordered) : i # j => ~overlaps(ordered[i], ordered[j])

\* Claim (load.go:153, "a later entry overlapping an earlier one ... replaces
\* it"; PLAN.md:91, "later files win"): of the routes of routes.d on one slot
\* that match a request, the last one declared answers it.
LaterFilesWin ==
    step = "serving" => \A q \in RequestSet : \A x \in Handler(mux, q) :
      \A i, j \in 1..Len(user) :
        /\ i < j /\ x = user[i] /\ q \in Covers(user[j])
        /\ Normal[user[i].path] = Normal[user[j].path]
        => x = user[j]

\* Claim (protected.go:5, "reserved for built-ins that user and preset routes
\* may never shadow, regardless of --strict-builtins").
ProtectedNeverShadowed ==
    step = "serving" => \A q \in RequestSet, strict \in BOOLEAN :
      (\E p \in ProtectedPaths : q[2] \in Serves[p]) =>
        \A a \in compose(q, strict) : a.by = "builtin"
====
