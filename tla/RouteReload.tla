---- MODULE RouteReload ----
(***************************************************************************)
(* How the active route table of `reflector serve` follows the routes      *)
(* directory: the load at startup, POST /admin/routes/reload, and --watch  *)
(* (fsnotify events, the debounce timer, the one-slot channel, the watch   *)
(* loop).  GET /admin/routes reads the files as a load does and changes    *)
(* nothing, so it is no part of the model.                                 *)
(*                                                                         *)
(* A route file's contents are abstracted to the number of the edit that   *)
(* wrote them and to what a load makes of them: "ok", "clash" (it loads,   *)
(* but conflicts in the ServeMux with any other such file), "bad" (any     *)
(* parse, compile or body_file error) or "absent" (no such file).  The     *)
(* body_file of a route is part of the contents of the file that names it. *)
(* Presets are embedded in the binary, never change, and are left out.     *)
(***************************************************************************)
EXTENDS Integers, Sequences, FiniteSets

CONSTANTS
    NFiles,      \* the route files are 1..NFiles, numbered in filename order
    ReloadCalls, \* concurrent POST /admin/routes/reload handlers
    Main,        \* the goroutine of runServeCtx
    Watcher,     \* the goroutine of watchRoutes
    Watch,       \* cfg.Watch
    BodyEdits,   \* whether body_file payloads are edited too
    ReadErrors,  \* whether ReadDir and ReadFile may fail on what exists
    MaxEdits     \* bound: edits of the routes directory in a behaviour

Files == 1..NFiles
Loaders == ReloadCalls \cup {Main, Watcher}

ASSUME ConstantsAssumption ==
    /\ NFiles \in Nat \ {0}
    /\ MaxEdits \in Nat
    /\ Watch \in BOOLEAN
    /\ BodyEdits \in BOOLEAN
    /\ ReadErrors \in BOOLEAN
    /\ Main # Watcher
    /\ {Main, Watcher} \cap ReloadCalls = {}

VARIABLES
    disk,       \* the routes directory: contents of every file
    edits,      \* number of edits made so far
    userRoutes, \* the table behind the atomic pointer UserRoutes.mux
    phase,      \* "starting", "serving" or "exited"
    watch,      \* watchRoutes: "off", "adding", "loop" or "stopped"
    events,     \* fsnotify events not yet received
    timer,      \* the debounce timer: "nil", "armed" or "fired"
    firing,     \* fire callbacks that run and have not yet sent
    debounced,  \* tokens in the channel `debounced`
    pc,         \* where each load of the directory is
    todo,       \* route files it has listed and not yet read
    got,        \* the contents it read
    failed,     \* it met an error
    began,      \* history: value of `edits` when it listed the directory
    held,       \* history: what each file has held since, until it returns
    noticed,    \* history: the last edit that produced a route file event
    floor       \* history: the newest contents a finished reload installed

watchVars == <<watch, events, timer, firing, debounced>>
loadVars == <<pc, todo, got, failed, began, held>>
vars == <<disk, edits, userRoutes, phase, watchVars, loadVars, noticed, floor>>

Kinds == {"ok", "clash", "bad", "absent"}
Contents == [rev: 0..MaxEdits, kind: Kinds \cup {"unread"}]
Unread == [rev |-> 0, kind |-> "unread"]
Tables == [Files -> Contents]
Nothing == [f \in Files |-> Unread]

\* Two files that load one by one and not together: BuildMux fails.
Conflicting(table) ==
    \E f, g \in Files : f # g /\ table[f].kind = "clash" /\ table[g].kind = "clash"

TypeOK ==
    /\ disk \in [Files -> [rev: 0..MaxEdits, kind: Kinds]]
    /\ edits \in 0..MaxEdits
    /\ userRoutes \in Tables
    /\ phase \in {"starting", "serving", "exited"}
    /\ watch \in {"off", "adding", "loop", "stopped"}
    /\ events \in Seq({"route", "other"})
    /\ timer \in {"nil", "armed", "fired"}
    /\ firing \in Nat
    /\ debounced \in 0..1
    /\ pc \in [Loaders -> {"idle", "reading", "built", "stored", "error"}]
    /\ todo \in [Loaders -> SUBSET Files]
    /\ got \in [Loaders -> Tables]
    /\ failed \in [Loaders -> BOOLEAN]
    /\ began \in [Loaders -> 0..MaxEdits]
    /\ held \in [Loaders -> [Files -> SUBSET Contents]]
    /\ noticed \in 0..MaxEdits
    /\ floor \in [Files -> 0..MaxEdits]

Init ==
    /\ disk \in [Files -> [rev: {0}, kind: Kinds]]
    /\ edits = 0
    /\ userRoutes = Nothing
    /\ phase = "starting"
    /\ watch = "off"
    /\ events = <<>>
    /\ timer = "nil"
    /\ firing = 0
    /\ debounced = 0
    /\ pc = [r \in Loaders |-> "idle"]
    /\ todo = [r \in Loaders |-> {}]
    /\ got = [r \in Loaders |-> Nothing]
    /\ failed = [r \in Loaders |-> FALSE]
    /\ began = [r \in Loaders |-> 0]
    /\ held = [r \in Loaders |-> [f \in Files |-> {}]]
    /\ noticed = 0
    /\ floor = [f \in Files |-> 0]

-----------------------------------------------------------------------------
(* The environment: whoever edits the routes directory. *)

Loading == {r \in Loaders : pc[r] \in {"reading", "built"}}

\* File f now holds c, which the edit number edits + 1 wrote.
Write(f, c) ==
    /\ edits < MaxEdits
    /\ edits' = edits + 1
    /\ disk' = [disk EXCEPT ![f] = c]
    /\ held' = [r \in Loaders |-> IF r \in Loading
                                  THEN [held[r] EXCEPT ![f] = @ \cup {c}]
                                  ELSE held[r]]

\* A route file is written, created or removed.  Once the directory is
\* watched the kernel queues an event for it.
EditRoute(f, k) ==
    /\ disk[f].kind # "absent" \/ k # "absent"
    /\ Write(f, [rev |-> edits + 1, kind |-> k])
    /\ IF watch = "loop"
         THEN /\ events' = Append(events, "route")
              /\ noticed' = edits + 1
         ELSE UNCHANGED <<events, noticed>>
    /\ UNCHANGED <<userRoutes, phase, watch, timer, firing, debounced, pc, todo,
                   got, failed, began, floor>>

\* The payload behind a route's body_file is edited.  It lies outside the
\* watched directory, or inside it under a name that is not a route file's.
EditBody(f, k, inside) ==
    /\ BodyEdits
    /\ \/ disk[f].kind \in {k, "bad"}
       \/ k = "bad" /\ disk[f].kind # "absent"
    /\ Write(f, [rev |-> edits + 1, kind |-> k])
    /\ events' = IF watch = "loop" /\ inside
                   THEN Append(events, "other") ELSE events
    /\ UNCHANGED <<userRoutes, phase, watch, timer, firing, debounced, pc, todo,
                   got, failed, began, noticed, floor>>

-----------------------------------------------------------------------------
(* loadRoutes and buildUserMux, run by any of the loaders. *)

\* fs.ReadDir: the names that exist now are listed, or an error is.
ListDir(r) ==
    /\ pc' = [pc EXCEPT ![r] = "reading"]
    /\ began' = [began EXCEPT ![r] = edits]
    /\ held' = [held EXCEPT ![r] = [f \in Files |-> {disk[f]}]]
    /\ \/ /\ todo' = [todo EXCEPT ![r] = {f \in Files : disk[f].kind # "absent"}]
          /\ got' = [got EXCEPT ![r] =
                [f \in Files |-> IF disk[f].kind = "absent" THEN disk[f] ELSE Unread]]
          /\ failed' = [failed EXCEPT ![r] = FALSE]
       \/ /\ ReadErrors
          /\ todo' = [todo EXCEPT ![r] = {}]
          /\ got' = [got EXCEPT ![r] = Nothing]
          /\ failed' = [failed EXCEPT ![r] = TRUE]

\* Mutation of LoadFile: a file that is in the served table is not read again.
LoadFile_Cached(r) ==
    /\ pc[r] = "reading"
    /\ \E f \in todo[r] :
         LET c == IF userRoutes[f].kind = "unread" THEN disk[f] ELSE userRoutes[f] IN
           /\ \A g \in todo[r] : f <= g
           /\ todo' = [todo EXCEPT ![r] = @ \ {f}]
           /\ got' = [got EXCEPT ![r][f] = c]
           /\ failed' = [failed EXCEPT ![r] = @ \/ c.kind \in {"bad", "absent"}]
    /\ UNCHANGED <<disk, edits, userRoutes, phase, watchVars, pc, began, held,
                   noticed, floor>>

\* loadFile of the next listed name.  Errors are collected, the load goes on.
LoadFile(r) ==
    /\ pc[r] = "reading"
    /\ \E f \in todo[r] :
         /\ \A g \in todo[r] : f <= g
         /\ todo' = [todo EXCEPT ![r] = @ \ {f}]
         /\ \/ /\ got' = [got EXCEPT ![r][f] = disk[f]]
               /\ failed' = [failed EXCEPT ![r] = @ \/ disk[f].kind \in {"bad", "absent"}]
            \/ /\ ReadErrors
               /\ got' = got
               /\ failed' = [failed EXCEPT ![r] = TRUE]
    /\ UNCHANGED <<disk, edits, userRoutes, phase, watchVars, pc, began, held,
                   noticed, floor>>

\* Mutation of Build: the errors of a load are logged and forgotten.
Build_IgnoresErrors(r) ==
    /\ pc[r] = "reading"
    /\ todo[r] = {}
    /\ pc' = [pc EXCEPT ![r] = "built"]
    /\ UNCHANGED <<disk, edits, userRoutes, phase, watchVars, todo, got,
                   failed, began, held, noticed, floor>>

\* Everything is read: any error, or a conflict, fails the whole build,
\* otherwise there is a new mux (nil when no route is left).
Build(r) ==
    /\ pc[r] = "reading"
    /\ todo[r] = {}
    /\ pc' = [pc EXCEPT ![r] = IF failed[r] \/ Conflicting(got[r])
                                 THEN "error" ELSE "built"]
    /\ UNCHANGED <<disk, edits, userRoutes, phase, watchVars, todo, got,
                   failed, began, held, noticed, floor>>

\* Mutation of Store: the new mux is built and dropped.
Store_Forgets(r) ==
    /\ pc[r] = "built"
    /\ pc' = [pc EXCEPT ![r] = "stored"]
    /\ UNCHANGED <<disk, edits, userRoutes, phase, watchVars, todo, got,
                   failed, began, held, noticed, floor>>

\* userRoutes.Store
Store(r) ==
    /\ pc[r] = "built"
    /\ userRoutes' = got[r]
    /\ pc' = [pc EXCEPT ![r] = "stored"]
    /\ UNCHANGED <<disk, edits, phase, watchVars, todo, got, failed, began, held,
                   noticed, floor>>

\* The load is over and its local state is gone.
Return(r) ==
    /\ pc' = [pc EXCEPT ![r] = "idle"]
    /\ todo' = [todo EXCEPT ![r] = {}]
    /\ got' = [got EXCEPT ![r] = Nothing]
    /\ failed' = [failed EXCEPT ![r] = FALSE]
    /\ began' = began
    /\ held' = [held EXCEPT ![r] = [f \in Files |-> {}]]

Newer(a, b) == IF a >= b THEN a ELSE b

-----------------------------------------------------------------------------
(* runServeCtx: load once, then start the servers and the watch goroutine. *)

Startup ==
    /\ phase = "starting"
    /\ pc[Main] = "idle"
    /\ ListDir(Main)
    /\ UNCHANGED <<disk, edits, userRoutes, phase, watchVars, noticed, floor>>

StartupFails ==
    /\ pc[Main] = "error"
    /\ phase' = "exited"
    /\ Return(Main)
    /\ UNCHANGED <<disk, edits, userRoutes, watchVars, noticed, floor>>

Serve ==
    /\ pc[Main] = "stored"
    /\ phase' = "serving"
    /\ watch' = IF Watch THEN "adding" ELSE "off"
    /\ Return(Main)
    /\ UNCHANGED <<disk, edits, userRoutes, events, timer, firing, debounced,
                   noticed, floor>>

-----------------------------------------------------------------------------
(* The admin API: handleReload. *)

\* A request comes in and the handler lists the directory.
Call(r) ==
    /\ phase = "serving"
    /\ pc[r] = "idle"
    /\ ListDir(r)
    /\ UNCHANGED <<disk, edits, userRoutes, phase, watchVars, noticed, floor>>

\* The handler answers: 200 after a swap, 400 after an error.
Answer(r) ==
    /\ pc[r] \in {"stored", "error"}
    /\ Return(r)
    /\ floor' = IF pc[r] = "stored"
                  THEN [f \in Files |-> Newer(floor[f], got[r][f].rev)]
                  ELSE floor
    /\ UNCHANGED <<disk, edits, userRoutes, phase, watchVars, noticed>>

-----------------------------------------------------------------------------
(* watchRoutes *)

\* os.Stat, NewWatcher and watcher.Add succeed.
AddDir ==
    /\ watch = "adding"
    /\ watch' = "loop"
    /\ UNCHANGED <<disk, edits, userRoutes, phase, events, timer, firing,
                   debounced, loadVars, noticed, floor>>

\* The directory does not exist: watchRoutes returns nil for good.
NoDir ==
    /\ watch = "adding"
    /\ \A f \in Files : disk[f].kind = "absent"
    /\ watch' = "stopped"
    /\ UNCHANGED <<disk, edits, userRoutes, phase, events, timer, firing,
                   debounced, loadVars, noticed, floor>>

Selecting == watch = "loop" /\ pc[Watcher] = "idle"

\* Mutation of ReceiveEvent: any event stops the timer, only a route file's
\* event starts it again.
ReceiveEvent_StopsTimer ==
    /\ Selecting
    /\ events # <<>>
    /\ events' = Tail(events)
    /\ timer' = IF Head(events) = "route" THEN "armed"
               ELSE IF timer = "nil" THEN "nil" ELSE "fired"
    /\ UNCHANGED <<disk, edits, userRoutes, phase, watch, firing, debounced,
                   loadVars, noticed, floor>>

\* Mutation of ReceiveEvent: the timer is made once and never reset.
ReceiveEvent_NoReset ==
    /\ Selecting
    /\ events # <<>>
    /\ events' = Tail(events)
    /\ timer' = IF Head(events) = "route" /\ timer = "nil" THEN "armed" ELSE timer
    /\ UNCHANGED <<disk, edits, userRoutes, phase, watch, firing, debounced,
                   loadVars, noticed, floor>>

\* case event := <-watcher.Events: a route file event (re)starts the timer.
ReceiveEvent ==
    /\ Selecting
    /\ events # <<>>
    /\ events' = Tail(events)
    /\ timer' = IF Head(events) = "route" THEN "armed" ELSE timer
    /\ UNCHANGED <<disk, edits, userRoutes, phase, watch, firing, debounced,
                   loadVars, noticed, floor>>

\* The timer expires and runs fire in a goroutine of its own.
Expire ==
    /\ timer = "armed"
    /\ timer' = "fired"
    /\ firing' = firing + 1
    /\ UNCHANGED <<disk, edits, userRoutes, phase, watch, events, debounced,
                   loadVars, noticed, floor>>

\* Mutation of Fire: the channel takes any number of tokens.
Fire_Unbounded ==
    /\ firing > 0
    /\ firing' = firing - 1
    /\ debounced' = debounced + 1
    /\ UNCHANGED <<disk, edits, userRoutes, phase, watch, events, timer,
                   loadVars, noticed, floor>>

\* fire: a non-blocking send, dropped when the slot is taken.
Fire ==
    /\ firing > 0
    /\ firing' = firing - 1
    /\ debounced' = IF debounced < 1 THEN debounced + 1 ELSE debounced
    /\ UNCHANGED <<disk, edits, userRoutes, phase, watch, events, timer,
                   loadVars, noticed, floor>>

\* case <-debounced: reload() starts, in the loop's own goroutine.
WatchReload ==
    /\ Selecting
    /\ debounced > 0
    /\ debounced' = debounced - 1
    /\ ListDir(Watcher)
    /\ UNCHANGED <<disk, edits, userRoutes, phase, watch, events, timer,
                   firing, noticed, floor>>

\* reload() returned, an error is logged, the loop goes on.
WatchReloaded == Answer(Watcher)

\* case <-ctx.Done(): the loop returns and closes its watcher.
WatchDone ==
    /\ Selecting
    /\ watch' = "stopped"
    /\ events' = <<>>
    /\ UNCHANGED <<disk, edits, userRoutes, phase, timer, firing, debounced,
                   loadVars, noticed, floor>>

-----------------------------------------------------------------------------
LoadStep(r) == LoadFile(r) \/ Build(r) \/ Store(r)
WatchStep == AddDir \/ NoDir \/ ReceiveEvent \/ WatchReload \/ WatchReloaded

Edit == \E f \in Files :
    \/ \E k \in Kinds : EditRoute(f, k)
    \/ \E k \in {"ok", "clash", "bad"}, inside \in BOOLEAN : EditBody(f, k, inside)

Next ==
    \/ Edit
    \/ \E r \in Loaders : LoadStep(r)
    \/ Startup \/ StartupFails \/ Serve
    \/ \E r \in ReloadCalls : Call(r) \/ Answer(r)
    \/ WatchStep \/ Expire \/ Fire \/ WatchDone

Spec == Init /\ [][Next]_vars

\* The Go runtime runs every goroutine that can run and every timer that is
\* due.  Nobody has to edit a file, call the API or cancel the context.
Fairness ==
    /\ \A r \in Loaders : WF_vars(LoadStep(r))
    /\ \A r \in ReloadCalls : WF_vars(Answer(r))
    /\ WF_vars(Startup \/ StartupFails \/ Serve)
    /\ WF_vars(WatchStep)
    /\ WF_vars(Expire)
    /\ WF_vars(Fire)

FairSpec == Spec /\ Fairness

-----------------------------------------------------------------------------
(* Properties *)

\* A table that is being served was built by a load without errors: a failed
\* reload leaves the old table in place (serve.go, reload; loadroutes.go,
\* buildUserMux), whatever other loads and edits run at the same time.
TableClean ==
    phase = "serving" =>
      /\ \A f \in Files : userRoutes[f].kind \in {"ok", "clash", "absent"}
      /\ ~Conflicting(userRoutes)

\* However many goroutines reload, the served table is only ever replaced as a
\* whole, by one that loads and has of each file what it held at some moment
\* between the listing of its load and the swap; so no edit made before the
\* load is missed (serve.go, reload; server.go:137, "take effect immediately";
\* loadroutes.go, buildUserMux reads the files one after the other).
HeldByLoads ==
    [r \in Loaders |-> IF r \in Loading THEN held[r] ELSE [f \in Files |-> {}]]
Promise == INSTANCE ServedRoutes WITH
             table <- userRoutes, busy <- Loading, held <- HeldByLoads
KeepsPromise == Promise!Spec

\* Something is on its way to make the watch loop read the directory again.
RouteEvent == \E i \in 1..Len(events) : events[i] = "route"
WakeupPending ==
    \/ RouteEvent
    \/ timer = "armed"
    \/ firing > 0
    \/ debounced > 0

\* No lost wake-up: when the last watch reload listed the directory before a
\* noticed edit, another reload is on its way, although fire drops its token
\* when the channel is full and the timer is shared by all events (watch.go).
NoLostWakeup ==
    watch = "loop" /\ began[Watcher] < noticed => WakeupPending

\* The table holds what is on disk.
UpToDate == userRoutes = disk
DiskLoads == (\A f \in Files : disk[f].kind # "bad") /\ ~Conflicting(disk)

Quiet == Selecting /\ ~WakeupPending

\* When the watch machinery is at rest and the last edit was one it was told
\* of, the table is exactly the directory, unless the directory does not load
\* (watch.go, the loop; load.go reads the files one after the other, so edits
\* in the middle of a load are what endangers this).
QuietMeansFresh ==
    Quiet /\ noticed = edits => UpToDate \/ ~DiskLoads

\* Contents that a reload has reported as loaded are never replaced by older
\* ones (serve.go, reload; server.go:137, "take effect immediately").
NoRollback == \A f \in Files : userRoutes[f].rev >= floor[f]

\* Once edits stop, a watched directory that loads ends up in the table, if
\* the last edit was noticed (watch.go).
Converges ==
    <>[](watch = "loop") => <>[](noticed = edits => UpToDate \/ ~DiskLoads)
====
