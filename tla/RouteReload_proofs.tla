---- MODULE RouteReload_proofs ----
(***************************************************************************)
(* Proofs about RouteReload, for any number of route files, edits and      *)
(* concurrent API calls.  TypeOK, TableClean, NoLostWakeup and the         *)
(* refinement of ServedRoutes hold however many goroutines reload.         *)
(* QuietMeansFresh and NoRollback need the watch loop to be the only one   *)
(* who reloads once the program serves.                                    *)
(***************************************************************************)
EXTENDS RouteReload, SequenceTheorems, TLAPS

USE ConstantsAssumption

\* Types: every variable keeps the type its declaration in the code gives it;
\* in particular the channel `debounced` never holds a second token.
THEOREM TypeCorrect == Spec => []TypeOK
<1>1. Init => TypeOK
  <2>1. SUFFICES ASSUME Init PROVE TypeOK
    OBVIOUS
  <2>2. events \in Seq({"route", "other"})
    BY <2>1 DEF Init
  <2>3. disk \in [Files -> [rev: 0..MaxEdits, kind: Kinds]]
    BY <2>1 DEF Init, Kinds
  <2>4. userRoutes \in Tables /\ got \in [Loaders -> Tables]
    BY <2>1 DEF Init, Tables, Contents, Nothing, Unread, Kinds
  <2>5. /\ pc \in [Loaders -> {"idle", "reading", "built", "stored", "error"}]
        /\ todo \in [Loaders -> SUBSET Files]
        /\ failed \in [Loaders -> BOOLEAN]
        /\ began \in [Loaders -> 0..MaxEdits]
        /\ floor \in [Files -> 0..MaxEdits]
        /\ held \in [Loaders -> [Files -> SUBSET Contents]]
    BY <2>1 DEF Init
  <2>6. /\ edits \in 0..MaxEdits /\ noticed \in 0..MaxEdits
        /\ phase \in {"starting", "serving", "exited"}
        /\ watch \in {"off", "adding", "loop", "stopped"}
        /\ firing \in Nat /\ debounced \in 0..1
    BY <2>1 DEF Init
  <2>7. timer \in {"nil", "armed", "fired"}
    BY <2>1 DEF Init
  <2> QED
    BY <2>2, <2>3, <2>4, <2>5, <2>6, <2>7 DEF TypeOK
<1>2. TypeOK /\ [Next]_vars => TypeOK'
  <2> SUFFICES ASSUME TypeOK, [Next]_vars PROVE TypeOK'
    OBVIOUS
  <2> USE DEF TypeOK
  <2>0. /\ Main \in Loaders /\ Watcher \in Loaders
        /\ ReloadCalls \subseteq Loaders
    BY DEF Loaders
  <2>A. ASSUME NEW r \in Loaders, ListDir(r)
        PROVE /\ pc' \in [Loaders -> {"idle", "reading", "built", "stored", "error"}]
              /\ todo' \in [Loaders -> SUBSET Files]
              /\ got' \in [Loaders -> Tables]
              /\ failed' \in [Loaders -> BOOLEAN]
              /\ began' \in [Loaders -> 0..MaxEdits]
              /\ held' \in [Loaders -> [Files -> SUBSET Contents]]
    <3>1. /\ [f \in Files |-> IF disk[f].kind = "absent" THEN disk[f] ELSE Unread] \in Tables
          /\ Nothing \in Tables
      BY DEF Tables, Contents, Nothing, Unread, Kinds
    <3>2. /\ pc' \in [Loaders -> {"idle", "reading", "built", "stored", "error"}]
          /\ began' \in [Loaders -> 0..MaxEdits]
      BY <2>A DEF ListDir
    <3>3. held' \in [Loaders -> [Files -> SUBSET Contents]]
      <4>1. [f \in Files |-> {disk[f]}] \in [Files -> SUBSET Contents]
        BY DEF Contents
      <4> QED BY <2>A, <4>1 DEF ListDir
    <3>4. /\ todo' \in [Loaders -> SUBSET Files]
          /\ got' \in [Loaders -> Tables]
          /\ failed' \in [Loaders -> BOOLEAN]
      <4>1. PICK names \in SUBSET Files, table \in Tables, error \in BOOLEAN :
              /\ todo' = [todo EXCEPT ![r] = names]
              /\ got' = [got EXCEPT ![r] = table]
              /\ failed' = [failed EXCEPT ![r] = error]
        <5>1. {f \in Files : disk[f].kind # "absent"} \in SUBSET Files
          OBVIOUS
        <5> HIDE DEF TypeOK
        <5> QED BY <2>A, <3>1, <5>1 DEF ListDir
      <4> QED BY <4>1
    <3> QED BY <3>2, <3>3, <3>4
  <2>B. ASSUME NEW r \in Loaders, Return(r)
        PROVE /\ pc' \in [Loaders -> {"idle", "reading", "built", "stored", "error"}]
              /\ todo' \in [Loaders -> SUBSET Files]
              /\ got' \in [Loaders -> Tables]
              /\ failed' \in [Loaders -> BOOLEAN]
              /\ began' \in [Loaders -> 0..MaxEdits]
              /\ held' \in [Loaders -> [Files -> SUBSET Contents]]
    <3>1. Nothing \in Tables
      BY DEF Tables, Contents, Nothing, Unread, Kinds
    <3>2. held' \in [Loaders -> [Files -> SUBSET Contents]]
      BY <2>B DEF Return
    <3> QED BY <2>B, <3>1, <3>2 DEF Return
  <2>W. ASSUME NEW f \in Files, NEW k \in Kinds, Write(f, [rev |-> edits + 1, kind |-> k])
        PROVE /\ edits' \in 0..MaxEdits /\ edits' = edits + 1
              /\ disk' \in [Files -> [rev: 0..MaxEdits, kind: Kinds]]
              /\ held' \in [Loaders -> [Files -> SUBSET Contents]]
    <3>1. edits + 1 \in 0..MaxEdits /\ edits' = edits + 1
      BY <2>W DEF Write
    <3>2. [rev |-> edits + 1, kind |-> k] \in [rev: 0..MaxEdits, kind: Kinds]
      BY <3>1
    <3>3. [rev |-> edits + 1, kind |-> k] \in Contents
      BY <3>1 DEF Contents
    <3>4. disk' \in [Files -> [rev: 0..MaxEdits, kind: Kinds]]
      BY <2>W, <3>2 DEF Write
    <3>5. \A r \in Loaders : [held[r] EXCEPT ![f] = @ \cup {[rev |-> edits + 1, kind |-> k]}]
                                \in [Files -> SUBSET Contents]
      BY <3>3
    <3>6. held' \in [Loaders -> [Files -> SUBSET Contents]]
      BY <2>W, <3>5 DEF Write
    <3> QED BY <3>1, <3>4, <3>6
  <2>1. ASSUME NEW f \in Files, NEW k \in Kinds, EditRoute(f, k) PROVE TypeOK'
    <3>1. /\ edits' \in 0..MaxEdits /\ edits' = edits + 1
          /\ disk' \in [Files -> [rev: 0..MaxEdits, kind: Kinds]]
          /\ held' \in [Loaders -> [Files -> SUBSET Contents]]
      BY <2>1, <2>W DEF EditRoute
    <3>3. events' \in Seq({"route", "other"}) /\ noticed' \in 0..MaxEdits
      <4>1. CASE watch = "loop"
        <5>1. events' = Append(events, "route") /\ noticed' = edits + 1
          BY <2>1, <4>1 DEF EditRoute
        <5> QED BY <5>1, <3>1, AppendProperties
      <4>2. CASE watch # "loop"
        BY <2>1, <4>2 DEF EditRoute
      <4> QED BY <4>1, <4>2
    <3> QED BY <2>1, <3>1, <3>3 DEF EditRoute
  <2>2. ASSUME NEW f \in Files, NEW k \in {"ok", "clash", "bad"}, NEW inside \in BOOLEAN,
               EditBody(f, k, inside)
        PROVE TypeOK'
    <3>1. /\ edits' \in 0..MaxEdits
          /\ disk' \in [Files -> [rev: 0..MaxEdits, kind: Kinds]]
          /\ held' \in [Loaders -> [Files -> SUBSET Contents]]
      BY <2>2, <2>W DEF EditBody, Kinds
    <3>3. events' \in Seq({"route", "other"})
      BY <2>2, AppendProperties DEF EditBody
    <3> QED BY <2>2, <3>1, <3>3 DEF EditBody
  <2>3. ASSUME NEW r \in Loaders, LoadFile(r) PROVE TypeOK'
    <3>1. PICK f \in todo[r] :
            /\ todo' = [todo EXCEPT ![r] = @ \ {f}]
            /\ got' = [got EXCEPT ![r][f] = disk[f]] \/ got' = got
            /\ \/ failed' = [failed EXCEPT ![r] = @ \/ disk[f].kind \in {"bad", "absent"}]
               \/ failed' = [failed EXCEPT ![r] = TRUE]
      BY <2>3 DEF LoadFile
    <3>2. f \in Files /\ disk[f] \in Contents
      BY DEF Contents
    <3>3. [got[r] EXCEPT ![f] = disk[f]] \in Tables
      BY <3>2 DEF Tables
    <3>4. got' \in [Loaders -> Tables]
      BY <3>1, <3>3
    <3>5. todo' \in [Loaders -> SUBSET Files] /\ failed' \in [Loaders -> BOOLEAN]
      BY <3>1
    <3> QED BY <2>3, <3>4, <3>5 DEF LoadFile, watchVars
  <2>4. ASSUME NEW r \in Loaders, Build(r) PROVE TypeOK'
    BY <2>4 DEF Build, watchVars
  <2>5. ASSUME NEW r \in Loaders, Store(r) PROVE TypeOK'
    BY <2>5 DEF Store, watchVars
  <2>6. CASE Startup
    BY <2>6, <2>0, <2>A DEF Startup, watchVars
  <2>7. CASE StartupFails
    BY <2>7, <2>0, <2>B DEF StartupFails, watchVars
  <2>8. CASE Serve
    BY <2>8, <2>0, <2>B DEF Serve
  <2>9. ASSUME NEW r \in ReloadCalls, Call(r) PROVE TypeOK'
    BY <2>9, <2>0, <2>A DEF Call, watchVars
  <2>10. ASSUME NEW r \in Loaders, Answer(r) PROVE TypeOK'
    <3>1. \A f \in Files : got[r][f].rev \in 0..MaxEdits
      BY DEF Tables, Contents
    <3>2. [f \in Files |-> Newer(floor[f], got[r][f].rev)] \in [Files -> 0..MaxEdits]
      BY <3>1 DEF Newer
    <3>3. floor' \in [Files -> 0..MaxEdits]
      BY <2>10, <3>2 DEF Answer
    <3> QED BY <2>10, <2>B, <3>3 DEF Answer, watchVars
  <2>11. CASE AddDir \/ NoDir
    BY <2>11 DEF AddDir, NoDir, loadVars
  <2>12. CASE ReceiveEvent
    <3>1. Tail(events) \in Seq({"route", "other"})
      BY <2>12, HeadTailProperties DEF ReceiveEvent
    <3>2. timer' \in {"nil", "armed", "fired"}
      BY <2>12 DEF ReceiveEvent
    <3> QED BY <2>12, <3>1, <3>2 DEF ReceiveEvent, loadVars
  <2>13. CASE Expire \/ Fire
    <3>1. firing' \in Nat /\ debounced' \in 0..1
      <4>1. CASE Expire BY <4>1 DEF Expire
      <4>2. CASE Fire BY <4>2 DEF Fire
      <4> QED BY <2>13, <4>1, <4>2
    <3>3. timer' \in {"nil", "armed", "fired"}
      BY <2>13, Zenon DEF Expire, Fire
    <3>2. UNCHANGED <<disk, edits, userRoutes, phase, watch, events, loadVars,
                      noticed, floor>>
      BY <2>13 DEF Expire, Fire
    <3> QED BY <3>1, <3>2, <3>3 DEF loadVars
  <2>14. CASE WatchReload
    BY <2>14, <2>0, <2>A DEF WatchReload
  <2>15. CASE WatchDone
    BY <2>15 DEF WatchDone, loadVars
  <2>16. CASE UNCHANGED vars
    BY <2>16 DEF vars, watchVars, loadVars
  <2> QED
    BY <2>0, <2>1, <2>2, <2>3, <2>4, <2>5, <2>6, <2>7, <2>8, <2>9, <2>10,
       <2>11, <2>12, <2>13, <2>14, <2>15, <2>16
    DEF Next, Edit, LoadStep, WatchStep, WatchReloaded
<1> QED BY <1>1, <1>2, PTL DEF Spec

-----------------------------------------------------------------------------
\* What appending an event to the queue, and taking the first one from it,
\* does to the presence of a route file event.
LEMMA AppendEvent ==
    ASSUME NEW s \in Seq({"route", "other"}), NEW e \in {"route", "other"}
    PROVE  (\E i \in 1..Len(Append(s, e)) : Append(s, e)[i] = "route")
             <=> (e = "route" \/ \E i \in 1..Len(s) : s[i] = "route")
<1>1. /\ Len(Append(s, e)) = Len(s) + 1
      /\ \A i \in 1..Len(s) : Append(s, e)[i] = s[i]
      /\ Append(s, e)[Len(s) + 1] = e
  BY AppendProperties
<1> QED BY <1>1, LenProperties

LEMMA TailEvent ==
    ASSUME NEW s \in Seq({"route", "other"}), s # <<>>,
           \E i \in 1..Len(s) : s[i] = "route"
    PROVE  Head(s) = "route" \/ \E i \in 1..Len(Tail(s)) : Tail(s)[i] = "route"
<1>1. PICK i \in 1..Len(s) : s[i] = "route"
  OBVIOUS
<1>2. CASE i = 1
  BY <1>1, <1>2, HeadTailProperties
<1>3. CASE i # 1
  <2>1. i - 1 \in 1..Len(Tail(s)) /\ Tail(s)[i - 1] = s[i]
    BY <1>1, <1>3, HeadTailProperties, LenProperties
  <2> QED BY <1>1, <2>1
<1> QED BY <1>2, <1>3

\* The order in which the program starts its parts: only Main loads before it
\* serves, and nothing is noticed before the directory is watched.
OrderInv ==
    /\ noticed <= edits
    /\ pc[Main] # "idle" => phase = "starting"
    /\ phase # "serving" => /\ watch = "off"
                            /\ began[Watcher] = 0
                            /\ \A r \in Loaders \ {Main} : pc[r] = "idle"
    /\ watch \in {"off", "adding"} => noticed = 0 /\ pc[Watcher] = "idle"

LEMMA OrderInvariant == Spec => []OrderInv
<1>0. /\ Main \in Loaders /\ Watcher \in Loaders /\ Main # Watcher
      /\ ReloadCalls \subseteq Loaders
      /\ Main \notin ReloadCalls /\ Watcher \notin ReloadCalls
  BY DEF Loaders
<1>1. Init => OrderInv
  BY <1>0 DEF Init, OrderInv
<1>2. TypeOK /\ TypeOK' /\ OrderInv /\ [Next]_vars => OrderInv'
  <2> SUFFICES ASSUME TypeOK, TypeOK', OrderInv, [Next]_vars PROVE OrderInv'
    OBVIOUS
  <2> USE DEF OrderInv, TypeOK
  <2>1. ASSUME NEW f \in Files, NEW k \in Kinds, EditRoute(f, k) PROVE OrderInv'
    <3>1. UNCHANGED <<phase, watch, pc, began>> /\ edits' = edits + 1
      BY <2>1 DEF EditRoute, Write
    <3>2. noticed' = noticed \/ (watch = "loop" /\ noticed' = edits + 1)
      BY <2>1 DEF EditRoute
    <3>3. noticed' <= edits'
      BY <3>1, <3>2
    <3>4. watch' \in {"off", "adding"} => noticed' = 0
      BY <3>1, <3>2
    <3> QED BY <3>1, <3>3, <3>4
  <2>2. ASSUME NEW f \in Files, NEW k \in {"ok", "clash", "bad"}, NEW inside \in BOOLEAN,
               EditBody(f, k, inside)
        PROVE OrderInv'
    <3>1. UNCHANGED <<phase, watch, pc, began, noticed>> /\ edits' = edits + 1
      BY <2>2 DEF EditBody, Write
    <3> QED BY <3>1
  <2>3. ASSUME NEW r \in Loaders, LoadFile(r) PROVE OrderInv'
    BY <2>3 DEF LoadFile, watchVars
  <2>4. ASSUME NEW r \in Loaders, Build(r) PROVE OrderInv'
    BY <2>4, <1>0 DEF Build, watchVars
  <2>5. ASSUME NEW r \in Loaders, Store(r) PROVE OrderInv'
    BY <2>5, <1>0 DEF Store, watchVars
  <2>6. CASE Startup
    BY <2>6, <1>0 DEF Startup, ListDir, watchVars
  <2>7. CASE StartupFails
    BY <2>7, <1>0 DEF StartupFails, Return, watchVars
  <2>8. CASE Serve
    BY <2>8, <1>0 DEF Serve, Return
  <2>9. ASSUME NEW r \in ReloadCalls, Call(r) PROVE OrderInv'
    BY <2>9, <1>0 DEF Call, ListDir, watchVars
  <2>10. ASSUME NEW r \in Loaders, Answer(r) PROVE OrderInv'
    BY <2>10, <1>0 DEF Answer, Return, watchVars
  <2>11. CASE AddDir \/ NoDir
    BY <2>11 DEF AddDir, NoDir, loadVars
  <2>12. CASE ReceiveEvent \/ WatchDone
    BY <2>12 DEF ReceiveEvent, WatchDone, Selecting, loadVars
  <2>13. CASE WatchReload
    BY <2>13, <1>0 DEF WatchReload, ListDir, Selecting
  <2>14. CASE Expire \/ Fire
    BY <2>14 DEF Expire, Fire, loadVars
  <2>15. CASE UNCHANGED vars
    BY <2>15 DEF vars, watchVars, loadVars
  <2> HIDE DEF OrderInv, TypeOK
  <2>16. CASE Edit
    BY <2>1, <2>2, <2>16 DEF Edit
  <2>17. CASE \E r \in Loaders : LoadStep(r)
    BY <2>3, <2>4, <2>5, <2>17 DEF LoadStep
  <2>18. CASE \E r \in ReloadCalls : Call(r) \/ Answer(r)
    BY <1>0, <2>9, <2>10, <2>18
  <2>19. CASE WatchStep
    BY <1>0, <2>10, <2>11, <2>12, <2>13, <2>19 DEF WatchStep, WatchReloaded
  <2> QED
    BY <2>6, <2>7, <2>8, <2>12, <2>14, <2>15, <2>16, <2>17, <2>18, <2>19 DEF Next
<1> QED BY <1>1, <1>2, TypeCorrect, PTL DEF Spec

\* No wake-up of the watch loop is lost (watch.go): an edit it was told of
\* after its last listing always has an event, a timer, a callback or a token
\* that leads to another listing, although a full channel drops tokens.
THEOREM WakeupKept == Spec => []NoLostWakeup
<1>1. Init => NoLostWakeup
  BY DEF Init, NoLostWakeup
<1>2. TypeOK /\ TypeOK' /\ OrderInv /\ NoLostWakeup /\ [Next]_vars => NoLostWakeup'
  <2> SUFFICES ASSUME TypeOK, TypeOK', OrderInv, NoLostWakeup, [Next]_vars,
                      watch' = "loop", began'[Watcher] < noticed'
               PROVE WakeupPending'
    BY DEF NoLostWakeup
  <2>0. Watcher \in Loaders
    BY DEF Loaders
  <2>K. ASSUME UNCHANGED <<watch, began, noticed, events, timer, firing, debounced>>
        PROVE WakeupPending'
    BY <2>K DEF NoLostWakeup, WakeupPending, RouteEvent
  <2>L. ASSUME NEW r \in Loaders, r # Watcher, ListDir(r),
               UNCHANGED <<watch, noticed, events, timer, firing, debounced>>
        PROVE WakeupPending'
    <3>1. began'[Watcher] = began[Watcher]
      BY <2>0, <2>L DEF ListDir, TypeOK
    <3> QED BY <2>L, <3>1 DEF NoLostWakeup, WakeupPending, RouteEvent
  <2>1. ASSUME NEW f \in Files, NEW k \in Kinds, EditRoute(f, k)
        PROVE WakeupPending'
    <3>1. watch = "loop" /\ events' = Append(events, "route")
      BY <2>1 DEF EditRoute
    <3> QED BY <3>1, AppendEvent DEF WakeupPending, RouteEvent, TypeOK
  <2>2. ASSUME NEW f \in Files, NEW k \in {"ok", "clash", "bad"}, NEW inside \in BOOLEAN,
               EditBody(f, k, inside)
        PROVE WakeupPending'
    <3>1. WakeupPending
      BY <2>2 DEF EditBody, NoLostWakeup
    <3>2. events' = events \/ events' = Append(events, "other")
      BY <2>2 DEF EditBody
    <3>3. UNCHANGED <<timer, firing, debounced>>
      BY <2>2 DEF EditBody
    <3>4. RouteEvent => RouteEvent'
      <4>1. CASE events' = events
        BY <4>1 DEF RouteEvent
      <4>2. CASE events' = Append(events, "other")
        <5>1. events \in Seq({"route", "other"})
          BY DEF TypeOK
        <5> HIDE DEF TypeOK
        <5>2. (\E i \in 1..Len(Append(events, "other")) : Append(events, "other")[i] = "route")
                <=> ("other" = "route" \/ \E i \in 1..Len(events) : events[i] = "route")
          BY <5>1, AppendEvent
        <5> QED BY <4>2, <5>2 DEF RouteEvent
      <4> QED BY <3>2, <4>1, <4>2
    <3> QED BY <3>1, <3>3, <3>4 DEF WakeupPending
  <2>3. ASSUME NEW r \in Loaders, LoadStep(r) PROVE WakeupPending'
    BY <2>3, <2>K DEF LoadStep, LoadFile, Build, Store, watchVars
  <2>4. CASE Startup
    BY <2>4, <2>L DEF Startup, watchVars, Loaders
  <2>5. CASE StartupFails
    BY <2>5, <2>K DEF StartupFails, Return, watchVars
  <2>6. CASE Serve
    BY <2>6 DEF Serve
  <2>7. ASSUME NEW r \in ReloadCalls, Call(r) PROVE WakeupPending'
    BY <2>7, <2>L DEF Call, watchVars, Loaders
  <2>8. ASSUME NEW r \in Loaders, Answer(r) PROVE WakeupPending'
    BY <2>8, <2>K DEF Answer, Return, watchVars
  <2>9. CASE AddDir
    <3>1. noticed' = 0
      BY <2>9 DEF AddDir, OrderInv
    <3> QED BY <3>1, <2>0 DEF TypeOK
  <2>10. CASE NoDir
    BY <2>10 DEF NoDir
  <2>11. CASE ReceiveEvent
    <3>1. WakeupPending
      BY <2>11 DEF ReceiveEvent, NoLostWakeup, loadVars
    <3>2. CASE RouteEvent
      BY <2>11, <3>2, TailEvent DEF ReceiveEvent, WakeupPending, RouteEvent, TypeOK
    <3>3. CASE ~RouteEvent
      BY <2>11, <3>1, <3>3 DEF ReceiveEvent, WakeupPending, TypeOK
    <3> QED BY <3>2, <3>3
  <2>12. CASE Expire
    BY <2>12 DEF Expire, WakeupPending, TypeOK
  <2>13. CASE Fire
    BY <2>13 DEF Fire, WakeupPending, TypeOK
  <2>14. CASE WatchReload
    BY <2>0, <2>14 DEF WatchReload, ListDir, TypeOK, OrderInv
  <2>15. CASE WatchDone
    BY <2>15 DEF WatchDone
  <2>16. CASE UNCHANGED vars
    BY <2>16, <2>K DEF vars, watchVars, loadVars
  <2> QED
    BY <2>0, <2>1, <2>2, <2>3, <2>4, <2>5, <2>6, <2>7, <2>8, <2>9, <2>10,
       <2>11, <2>12, <2>13, <2>14, <2>15, <2>16
    DEF Next, Edit, WatchStep, WatchReloaded, Loaders
<1> QED BY <1>1, <1>2, TypeCorrect, OrderInvariant, PTL DEF Spec

-----------------------------------------------------------------------------
(* What a load that found no error has read is clean, and only that is stored. *)

Clean(table) ==
    /\ \A f \in Files : table[f].kind \in {"ok", "clash", "absent"}
    /\ ~Conflicting(table)

CleanInv ==
    /\ \A r \in Loaders : pc[r] \in {"reading", "built"} /\ ~failed[r] =>
         \A f \in Files \ todo[r] : got[r][f].kind \in {"ok", "clash", "absent"}
    /\ \A r \in Loaders : pc[r] = "built" => /\ ~failed[r] /\ todo[r] = {}
                                          /\ ~Conflicting(got[r])
    /\ phase = "serving" \/ pc[Main] = "stored" => Clean(userRoutes)

LEMMA CleanInvariant == Spec => []CleanInv
<1>0. Main \in Loaders /\ Watcher \in Loaders /\ ReloadCalls \subseteq Loaders
  BY DEF Loaders
<1>1. Init => CleanInv
  BY <1>0 DEF Init, CleanInv
<1>2. TypeOK /\ CleanInv /\ [Next]_vars => CleanInv'
  <2> SUFFICES ASSUME TypeOK, CleanInv, [Next]_vars PROVE CleanInv'
    OBVIOUS
  <2> USE DEF CleanInv, TypeOK, Clean
  <2>K. ASSUME UNCHANGED <<phase, userRoutes, pc, todo, got, failed>> PROVE CleanInv'
    BY <2>K
  <2>L. ASSUME NEW r \in Loaders, ListDir(r), UNCHANGED <<phase, userRoutes>>
        PROVE CleanInv'
    <3>1. /\ pc'[r] = "reading"
          /\ ~failed'[r] => \A f \in Files \ todo'[r] : got'[r][f].kind \in {"ok", "clash", "absent"}
      BY <2>L DEF ListDir
    <3>2. \A q \in Loaders \ {r} :
            /\ pc'[q] = pc[q] /\ todo'[q] = todo[q] /\ got'[q] = got[q]
            /\ failed'[q] = failed[q]
      BY <2>L DEF ListDir
    <3> QED BY <1>0, <2>L, <3>1, <3>2
  <2>R. ASSUME NEW r \in Loaders, Return(r), UNCHANGED userRoutes,
               phase' = "serving" => Clean(userRoutes)
        PROVE CleanInv'
    <3>1. pc'[r] = "idle"
      BY <2>R DEF Return
    <3>2. \A q \in Loaders \ {r} :
            /\ pc'[q] = pc[q] /\ todo'[q] = todo[q] /\ got'[q] = got[q]
            /\ failed'[q] = failed[q]
      BY <2>R DEF Return
    <3> QED BY <1>0, <2>R, <3>1, <3>2
  <2>1. ASSUME NEW r \in Loaders, LoadFile(r) PROVE CleanInv'
    <3>1. PICK f \in todo[r] :
            /\ todo' = [todo EXCEPT ![r] = @ \ {f}]
            /\ \/ /\ got' = [got EXCEPT ![r][f] = disk[f]]
                  /\ failed' = [failed EXCEPT ![r] = @ \/ disk[f].kind \in {"bad", "absent"}]
               \/ got' = got /\ failed' = [failed EXCEPT ![r] = TRUE]
      BY <2>1 DEF LoadFile
    <3>2. pc' = pc /\ phase' = phase /\ userRoutes' = userRoutes /\ pc[r] = "reading"
      BY <2>1 DEF LoadFile
    <3>3. \A q \in Loaders \ {r} :
            todo'[q] = todo[q] /\ got'[q] = got[q] /\ failed'[q] = failed[q]
      BY <3>1
    <3>4. f \in Files /\ got[r] \in [Files -> Contents]
      BY DEF Tables
    <3>5. ~failed'[r] =>
            /\ ~failed[r] /\ disk[f].kind \in {"ok", "clash"}
            /\ got'[r][f] = disk[f] /\ \A g \in Files \ {f} : got'[r][g] = got[r][g]
      <4>1. CASE /\ got' = [got EXCEPT ![r][f] = disk[f]]
                 /\ failed' = [failed EXCEPT ![r] = @ \/ disk[f].kind \in {"bad", "absent"}]
        <5>1. disk[f].kind \in Kinds
          BY <3>4
        <5>2. failed'[r] = (failed[r] \/ disk[f].kind \in {"bad", "absent"})
          BY <4>1
        <5>3. got'[r][f] = disk[f] /\ \A g \in Files \ {f} : got'[r][g] = got[r][g]
          BY <3>4, <4>1
        <5> QED BY <5>1, <5>2, <5>3 DEF Kinds
      <4>2. CASE failed' = [failed EXCEPT ![r] = TRUE]
        BY <4>2
      <4> QED BY <3>1, <4>1, <4>2
    <3>6. todo'[r] = todo[r] \ {f}
      BY <3>1
    <3>7. ~failed'[r] => \A g \in Files \ todo'[r] : got'[r][g].kind \in {"ok", "clash", "absent"}
      BY <3>2, <3>5, <3>6
    <3> QED BY <3>2, <3>3, <3>7
  <2>2. ASSUME NEW r \in Loaders, Build(r) PROVE CleanInv'
    <3>1. UNCHANGED <<phase, userRoutes, todo, got, failed>>
      BY <2>2 DEF Build
    <3>2. /\ pc[r] = "reading" /\ todo[r] = {}
          /\ pc'[r] \in {"error", "built"}
          /\ pc'[r] = "built" => ~failed[r] /\ ~Conflicting(got[r])
          /\ \A q \in Loaders \ {r} : pc'[q] = pc[q]
      BY <2>2 DEF Build
    <3> QED BY <1>0, <3>1, <3>2
  <2>3. ASSUME NEW r \in Loaders, Store(r) PROVE CleanInv'
    <3>1. Clean(got[r])
      BY <2>3 DEF Store
    <3> QED BY <1>0, <2>3, <3>1 DEF Store
  <2>4. CASE Startup
    BY <1>0, <2>4, <2>L DEF Startup
  <2>5. CASE StartupFails
    BY <1>0, <2>5, <2>R DEF StartupFails
  <2>6. CASE Serve
    BY <1>0, <2>6, <2>R DEF Serve
  <2>7. ASSUME NEW r \in ReloadCalls, Call(r) PROVE CleanInv'
    BY <1>0, <2>7, <2>L DEF Call
  <2>8. ASSUME NEW r \in Loaders, Answer(r) PROVE CleanInv'
    BY <2>8, <2>R DEF Answer
  <2>9. ASSUME NEW f \in Files,
               \/ \E k \in Kinds : EditRoute(f, k)
               \/ \E k \in {"ok", "clash", "bad"}, inside \in BOOLEAN : EditBody(f, k, inside)
        PROVE CleanInv'
    BY <2>9, <2>K DEF EditRoute, EditBody
  <2>10. CASE AddDir \/ NoDir \/ ReceiveEvent \/ WatchDone \/ Expire \/ Fire
    BY <2>10, <2>K DEF AddDir, NoDir, ReceiveEvent, WatchDone, Expire, Fire, loadVars
  <2>11. CASE WatchReload
    BY <1>0, <2>11, <2>L DEF WatchReload
  <2>12. CASE UNCHANGED vars
    BY <2>12, <2>K DEF vars, loadVars
  <2> QED
    BY <1>0, <2>1, <2>2, <2>3, <2>4, <2>5, <2>6, <2>7, <2>8, <2>9, <2>10,
       <2>11, <2>12
    DEF Next, Edit, LoadStep, WatchStep, WatchReloaded
<1> QED BY <1>1, <1>2, TypeCorrect, PTL DEF Spec

\* A failed load never reaches the served table, however many goroutines
\* reload and whatever is edited meanwhile (serve.go, reload; loadroutes.go).
THEOREM TableStaysClean == Spec => []TableClean
<1>1. CleanInv => TableClean
  BY DEF CleanInv, TableClean, Clean
<1> QED BY <1>1, CleanInvariant, PTL

-----------------------------------------------------------------------------
(* What a load has read of a file is something the file has held since the  *)
(* load listed it.  No other loader can spoil this, so every table that is  *)
(* stored is one that ServedRoutes allows.                                  *)

ReadInv ==
    \A r \in Loading : \A f \in Files :
      /\ disk[f] \in held[r][f]
      /\ f \notin todo[r] /\ ~failed[r] => got[r][f] \in held[r][f]

LEMMA ReadInvariant == Spec => []ReadInv
<1>0. Main \in Loaders /\ Watcher \in Loaders /\ ReloadCalls \subseteq Loaders
  BY DEF Loaders
<1>1. Init => ReadInv
  BY <1>0 DEF Init, ReadInv, Loading
<1>2. TypeOK /\ ReadInv /\ [Next]_vars => ReadInv'
  <2> SUFFICES ASSUME TypeOK, ReadInv, [Next]_vars PROVE ReadInv'
    OBVIOUS
  <2> USE DEF ReadInv, TypeOK, Loading
  <2>K. ASSUME UNCHANGED <<disk, pc, todo, got, failed, held>> PROVE ReadInv'
    BY <2>K
  <2>E. ASSUME NEW f \in Files, NEW k \in Kinds, Write(f, [rev |-> edits + 1, kind |-> k]),
               UNCHANGED <<pc, todo, got, failed>>
        PROVE ReadInv'
    <3> DEFINE c == [rev |-> edits + 1, kind |-> k]
    <3>1. disk'[f] = c /\ \A g \in Files \ {f} : disk'[g] = disk[g]
      BY <2>E DEF Write
    <3>2. ASSUME NEW r \in Loading
          PROVE /\ held'[r][f] = held[r][f] \cup {c}
                /\ \A g \in Files \ {f} : held'[r][g] = held[r][g]
      <4>1. r \in Loaders /\ held[r] \in [Files -> SUBSET Contents]
        OBVIOUS
      <4> HIDE DEF ReadInv, TypeOK
      <4>2. Write(f, c)
        BY <2>E
      <4> HIDE DEF c
      <4>3. held' = [q \in Loaders |-> IF q \in Loading
                                       THEN [held[q] EXCEPT ![f] = @ \cup {c}]
                                       ELSE held[q]]
        BY <4>2 DEF Write
      <4> HIDE DEF Loading
      <4> QED BY <3>2, <4>1, <4>3
    <3> HIDE DEF c
    <3>3. Loading' = Loading /\ todo' = todo /\ got' = got /\ failed' = failed
      BY <2>E
    <3>4. ASSUME NEW r \in Loading, NEW g \in Files
          PROVE  /\ disk'[g] \in held'[r][g]
                 /\ g \notin todo[r] /\ ~failed[r] => got[r][g] \in held'[r][g]
      <4>1. CASE g = f
        BY <3>1, <3>2, <4>1
      <4>2. CASE g # f
        BY <3>1, <3>2, <4>2
      <4> QED BY <4>1, <4>2
    <3> HIDE DEF Loading, TypeOK
    <3> QED BY <3>3, <3>4
  <2>L. ASSUME NEW r \in Loaders, ListDir(r), UNCHANGED disk PROVE ReadInv'
    <3>1. \A f \in Files :
            /\ held'[r][f] = {disk[f]}
            /\ f \notin todo'[r] /\ ~failed'[r] => got'[r][f] = disk[f]
      BY <2>L DEF ListDir
    <3>2. \A q \in Loaders \ {r} :
            /\ pc'[q] = pc[q] /\ todo'[q] = todo[q] /\ got'[q] = got[q]
            /\ failed'[q] = failed[q] /\ held'[q] = held[q]
      BY <2>L DEF ListDir
    <3>3. ASSUME NEW f \in Files
          PROVE  /\ disk'[f] \in held'[r][f]
                 /\ f \notin todo'[r] /\ ~failed'[r] => got'[r][f] \in held'[r][f]
      BY <2>L, <3>1
    <3>4. ASSUME NEW q \in Loaders \ {r}, q \in Loading', NEW f \in Files
          PROVE  /\ disk'[f] \in held'[q][f]
                 /\ f \notin todo'[q] /\ ~failed'[q] => got'[q][f] \in held'[q][f]
      BY <2>L, <3>2, <3>4
    <3> HIDE DEF TypeOK
    <3> QED BY <3>3, <3>4
  <2>R. ASSUME NEW r \in Loaders, Return(r), UNCHANGED disk PROVE ReadInv'
    <3>1. pc'[r] = "idle"
      BY <2>R DEF Return
    <3>2. \A q \in Loaders \ {r} :
            /\ pc'[q] = pc[q] /\ todo'[q] = todo[q] /\ got'[q] = got[q]
            /\ failed'[q] = failed[q] /\ held'[q] = held[q]
      BY <2>R DEF Return
    <3> QED BY <2>R, <3>1, <3>2
  <2>1. ASSUME NEW r \in Loaders, LoadFile(r) PROVE ReadInv'
    <3>1. PICK f \in todo[r] :
            /\ todo' = [todo EXCEPT ![r] = @ \ {f}]
            /\ \/ /\ got' = [got EXCEPT ![r][f] = disk[f]]
                  /\ failed' = [failed EXCEPT ![r] = @ \/ disk[f].kind \in {"bad", "absent"}]
               \/ got' = got /\ failed' = [failed EXCEPT ![r] = TRUE]
      BY <2>1 DEF LoadFile
    <3>2. UNCHANGED <<disk, pc, held>> /\ pc[r] = "reading"
      BY <2>1 DEF LoadFile
    <3>3. \A q \in Loaders \ {r} :
            todo'[q] = todo[q] /\ got'[q] = got[q] /\ failed'[q] = failed[q]
      BY <3>1
    <3>4. f \in Files /\ got[r] \in [Files -> Contents]
      BY DEF Tables
    <3>5. ~failed'[r] =>
            /\ ~failed[r] /\ got'[r][f] = disk[f]
            /\ \A g \in Files \ {f} : got'[r][g] = got[r][g]
      BY <3>1, <3>4
    <3>6. todo'[r] = todo[r] \ {f}
      BY <3>1
    <3>7. ASSUME NEW g \in Files, g \notin todo'[r], ~failed'[r]
          PROVE  got'[r][g] \in held[r][g]
      <4>1. CASE g = f BY <3>2, <3>5, <3>7, <4>1
      <4>2. CASE g # f BY <3>2, <3>5, <3>6, <3>7, <4>2
      <4> QED BY <4>1, <4>2
    <3> QED BY <3>2, <3>3, <3>7
  <2>2. ASSUME NEW r \in Loaders, Build(r) \/ Store(r) PROVE ReadInv'
    <3>1. /\ UNCHANGED <<disk, todo, got, failed, held>>
          /\ r \in Loading /\ \A q \in Loaders \ {r} : pc'[q] = pc[q]
      BY <2>2 DEF Build, Store
    <3> QED BY <3>1
  <2>3. CASE Startup
    BY <1>0, <2>3, <2>L DEF Startup
  <2>4. CASE StartupFails \/ Serve
    BY <1>0, <2>4, <2>R DEF StartupFails, Serve
  <2>5. ASSUME NEW r \in ReloadCalls, Call(r) PROVE ReadInv'
    BY <1>0, <2>5, <2>L DEF Call
  <2>6. ASSUME NEW r \in Loaders, Answer(r) PROVE ReadInv'
    BY <2>6, <2>R DEF Answer
  <2>7. ASSUME NEW f \in Files, NEW k \in Kinds, EditRoute(f, k) PROVE ReadInv'
    BY <2>7, <2>E DEF EditRoute
  <2>8. ASSUME NEW f \in Files, NEW k \in {"ok", "clash", "bad"}, NEW inside \in BOOLEAN,
               EditBody(f, k, inside)
        PROVE ReadInv'
    BY <2>8, <2>E DEF EditBody, Kinds
  <2>9. CASE AddDir \/ NoDir \/ ReceiveEvent \/ WatchDone \/ Expire \/ Fire
    BY <2>9, <2>K DEF AddDir, NoDir, ReceiveEvent, WatchDone, Expire, Fire, loadVars
  <2>10. CASE WatchReload
    BY <1>0, <2>10, <2>L DEF WatchReload
  <2>11. CASE UNCHANGED vars
    BY <2>11, <2>K DEF vars, loadVars
  <2> HIDE DEF ReadInv, TypeOK
  <2> QED
    BY <1>0, <2>1, <2>2, <2>3, <2>4, <2>5, <2>6, <2>7, <2>8, <2>9, <2>10, <2>11
    DEF Next, Edit, LoadStep, WatchStep, WatchReloaded
<1> QED BY <1>1, <1>2, TypeCorrect, PTL DEF Spec

\* Reloading, by any number of goroutines at the same time, implements
\* ServedRoutes: only Store changes the table, to one that loads and that has
\* of each file what it held at some moment since the load listed the
\* directory, so no edit made before is missed (serve.go, reload;
\* loadroutes.go, buildUserMux).
THEOREM ReloadImplements == Spec => KeepsPromise
<1> DEFINE pvars == <<disk, edits, userRoutes, Loading, HeldByLoads>>
<1>0. Main \in Loaders /\ Watcher \in Loaders /\ ReloadCalls \subseteq Loaders
  BY DEF Loaders
<1>1. Init => Promise!Init
  BY DEF Init, Promise!Init, Kinds, Promise!Kinds, Unread, Nothing, Loading, HeldByLoads,
         Promise!NotAsked
<1>2. TypeOK /\ CleanInv /\ ReadInv /\ OrderInv /\ [Next]_vars => [Promise!Next]_pvars
  <2> SUFFICES ASSUME TypeOK, CleanInv, ReadInv, OrderInv, [Next]_vars
               PROVE  Promise!Next \/ UNCHANGED pvars
    OBVIOUS
  <2>0. Promise!Kinds = Kinds /\ Promise!NotAsked = [f \in Files |-> {}]
    BY DEF Promise!Kinds, Kinds, Promise!NotAsked
  <2>K. ASSUME UNCHANGED <<disk, edits, userRoutes, pc, held>> PROVE UNCHANGED pvars
    BY <2>K DEF Loading, HeldByLoads
  <2>L. ASSUME NEW r \in Loaders, pc[r] = "idle", ListDir(r),
               UNCHANGED <<disk, edits, userRoutes>>
        PROVE Promise!Next
    <3>1. /\ pc' = [pc EXCEPT ![r] = "reading"]
          /\ held' = [held EXCEPT ![r] = [f \in Files |-> {disk[f]}]]
      BY <2>L DEF ListDir
    <3>2. r \notin Loading /\ Loading' = Loading \cup {r}
      BY <2>L, <3>1 DEF Loading, TypeOK
    <3>3. HeldByLoads' = [HeldByLoads EXCEPT ![r] = [f \in Files |-> {disk[f]}]]
      BY <3>1, <3>2 DEF HeldByLoads, TypeOK
    <3>4. Promise!Ask(r)
      BY <2>L, <3>2, <3>3 DEF Promise!Ask
    <3> QED BY <3>2, <3>4 DEF Promise!Next
  <2>R. ASSUME NEW r \in Loaders, pc[r] \in {"stored", "error"}, Return(r),
               UNCHANGED <<disk, edits, userRoutes>>
        PROVE UNCHANGED pvars
    <3>1. /\ pc' = [pc EXCEPT ![r] = "idle"]
          /\ held' = [held EXCEPT ![r] = [f \in Files |-> {}]]
      BY <2>R DEF Return
    <3>2. r \notin Loading /\ Loading' = Loading
      BY <2>R, <3>1 DEF Loading, TypeOK
    <3>3. HeldByLoads' = HeldByLoads
      BY <3>1, <3>2 DEF HeldByLoads, TypeOK
    <3> QED BY <2>R, <3>2, <3>3
  \* A load that is over leaves Loading, and the rest of it stays.
  <2>F. ASSUME NEW r \in Loading, Loading' = Loading \ {r}, UNCHANGED held
        PROVE HeldByLoads' = [HeldByLoads EXCEPT ![r] = Promise!NotAsked]
    BY <2>0, <2>F DEF HeldByLoads, Loading
  <2>E. ASSUME NEW f \in Files, NEW k \in Kinds, Write(f, [rev |-> edits + 1, kind |-> k]),
               UNCHANGED <<userRoutes, pc>>
        PROVE Promise!Next
    <3> DEFINE c == [rev |-> edits + 1, kind |-> k]
    <3>1. Loading' = Loading
      BY <2>E DEF Loading
    <3>2. held' = [r \in Loaders |-> IF r \in Loading THEN [held[r] EXCEPT ![f] = @ \cup {c}]
                                                     ELSE held[r]]
      BY <2>E DEF Write
    <3>3. HeldByLoads' = [r \in Loaders |->
             IF r \in Loading THEN [HeldByLoads[r] EXCEPT ![f] = @ \cup {c}] ELSE HeldByLoads[r]]
      BY <3>1, <3>2 DEF HeldByLoads
    <3>4. Promise!Edit(f, c)
      BY <2>E, <3>1, <3>3 DEF Write, Promise!Edit
    <3> QED BY <2>0, <3>4 DEF Promise!Next
  <2>1. ASSUME NEW r \in Loaders, LoadFile(r) PROVE UNCHANGED pvars
    BY <2>1, <2>K DEF LoadFile
  <2>2. ASSUME NEW r \in Loaders, Build(r) PROVE Promise!Next \/ UNCHANGED pvars
    <3>1. CASE pc'[r] = "built"
      <4>1. pc[r] = "reading" /\ \A q \in Loaders \ {r} : pc'[q] = pc[q]
        BY <2>2 DEF Build, TypeOK
      <4>2. Loading' = Loading
        BY <3>1, <4>1 DEF Loading
      <4> QED BY <2>2, <4>2 DEF Build, HeldByLoads
    <3>2. CASE pc'[r] # "built"
      <4>1. /\ pc[r] = "reading" /\ pc'[r] = "error"
            /\ \A q \in Loaders \ {r} : pc'[q] = pc[q]
        BY <2>2, <3>2 DEF Build, TypeOK
      <4>2. r \in Loading /\ Loading' = Loading \ {r}
        BY <4>1 DEF Loading
      <4>3. Promise!Finish(r)
        BY <2>2, <2>F, <4>2 DEF Build, Promise!Finish
      <4> QED BY <4>2, <4>3 DEF Promise!Next
    <3> QED BY <3>1, <3>2
  <2>3. ASSUME NEW r \in Loaders, Store(r) PROVE Promise!Next
    <3>1. /\ UNCHANGED <<disk, edits, held>> /\ userRoutes' = got[r]
          /\ pc[r] = "built" /\ pc'[r] = "stored"
          /\ \A q \in Loaders \ {r} : pc'[q] = pc[q]
      BY <2>3 DEF Store, TypeOK
    <3>2. r \in Loading /\ Loading' = Loading \ {r}
      BY <3>1 DEF Loading
    <3>3. /\ \A f \in Files : got[r][f].kind \in {"ok", "clash", "absent"}
          /\ ~Conflicting(got[r]) /\ todo[r] = {} /\ ~failed[r]
      BY <3>1 DEF CleanInv
    <3>4. \A f \in Files : got[r][f] \in HeldByLoads[r][f]
      BY <3>2, <3>3 DEF ReadInv, HeldByLoads
    <3>5. got[r] \in [Files -> UNION {HeldByLoads[r][f] : f \in Files}]
      BY <3>4 DEF TypeOK, Tables
    <3>6. Promise!Loads(got[r])
      BY <2>0, <3>3 DEF Promise!Loads, Conflicting, Kinds
    <3>7. Promise!Swap(r)
      BY <3>1, <3>4, <3>5, <3>6 DEF Promise!Swap, Promise!Loads
    <3>8. Promise!Finish(r)
      BY <2>F, <3>1, <3>2, <3>7 DEF Promise!Finish
    <3> QED BY <3>2, <3>8 DEF Promise!Next
  <2>4. CASE Startup
    BY <1>0, <2>4, <2>L DEF Startup
  <2>5. CASE StartupFails \/ Serve
    BY <1>0, <2>5, <2>R DEF StartupFails, Serve
  <2>6. ASSUME NEW r \in ReloadCalls, Call(r) PROVE Promise!Next
    BY <1>0, <2>6, <2>L DEF Call
  <2>7. ASSUME NEW r \in Loaders, Answer(r) PROVE UNCHANGED pvars
    BY <2>7, <2>R DEF Answer
  <2>8. ASSUME NEW f \in Files, NEW k \in Kinds, EditRoute(f, k) PROVE Promise!Next
    BY <2>8, <2>E DEF EditRoute
  <2>9. ASSUME NEW f \in Files, NEW k \in {"ok", "clash", "bad"}, NEW inside \in BOOLEAN,
               EditBody(f, k, inside)
        PROVE Promise!Next
    BY <2>9, <2>E DEF EditBody, Kinds
  <2>10. CASE AddDir \/ NoDir \/ ReceiveEvent \/ WatchDone \/ Expire \/ Fire
    BY <2>10, <2>K DEF AddDir, NoDir, ReceiveEvent, WatchDone, Expire, Fire, loadVars
  <2>11. CASE WatchReload
    BY <1>0, <2>11, <2>L DEF WatchReload, Selecting
  <2>12. CASE UNCHANGED vars
    BY <2>12, <2>K DEF vars, loadVars
  <2> QED
    BY <1>0, <2>1, <2>2, <2>3, <2>4, <2>5, <2>6, <2>7, <2>8, <2>9, <2>10, <2>11, <2>12
    DEF Next, Edit, LoadStep, WatchStep, WatchReloaded
<1> QED
  BY <1>1, <1>2, TypeCorrect, CleanInvariant, ReadInvariant, OrderInvariant, PTL
  DEF Spec, KeepsPromise, Promise!Spec, Promise!promiseVars

-----------------------------------------------------------------------------
(* With the watch loop as the only one who reloads.                        *)
(*                                                                         *)
(* A load is compared with the directory only as long as the directory has *)
(* not been edited since the load listed it, and reads do not fail: then   *)
(* what it read is what is there.  An edit makes the comparison void until the next load, and      *)
(* NoLostWakeup says there will be one.                                    *)

Settled(r) == ~ReadErrors /\ DiskLoads /\ \A f \in Files : disk[f].rev <= began[r]

ReadRight(r) ==
    pc[r] # "idle" /\ Settled(r) =>
      /\ pc[r] # "error" /\ ~failed[r]
      /\ \A f \in todo[r] : disk[f].kind # "absent"
      /\ \A f \in Files \ todo[r] : got[r][f] = disk[f]

FreshInv ==
    /\ \A f \in Files : disk[f].rev <= edits
    /\ \A r \in {Main, Watcher} :
         /\ began[r] <= edits
         /\ ReadRight(r)
         /\ pc[r] = "stored" => userRoutes = got[r] /\ todo[r] = {}
    /\ phase = "serving" /\ pc[Watcher] = "idle" /\ Settled(Watcher)
         => userRoutes = disk

LEMMA FreshInvariant ==
    ASSUME ReloadCalls = {}
    PROVE  Spec => []FreshInv
<1>0. /\ Main \in Loaders /\ Watcher \in Loaders /\ Main # Watcher
      /\ Loaders = {Main, Watcher}
  BY DEF Loaders
<1>1. Init => FreshInv
  BY <1>0 DEF Init, FreshInv, ReadRight
<1>2. TypeOK /\ TypeOK' /\ OrderInv /\ CleanInv /\ FreshInv /\ [Next]_vars => FreshInv'
  <2> SUFFICES ASSUME TypeOK, TypeOK', OrderInv, CleanInv, FreshInv, [Next]_vars
               PROVE FreshInv'
    OBVIOUS
  <2> USE DEF FreshInv, TypeOK
  <2>K. ASSUME UNCHANGED <<disk, edits, phase, userRoutes, pc, todo, got, failed, began>>
        PROVE FreshInv'
    BY <2>K DEF ReadRight, Settled, DiskLoads, Conflicting
  <2>E. ASSUME NEW f \in Files, edits' = edits + 1, edits' \in Nat,
               disk'[f].rev = edits + 1,
               \A g \in Files \ {f} : disk'[g] = disk[g],
               UNCHANGED <<phase, userRoutes, pc, todo, got, failed, began>>
        PROVE FreshInv'
    <3>1. \A r \in {Main, Watcher} : ~Settled(r)'
      BY <2>E, <1>0 DEF Settled, DiskLoads, Conflicting
    <3>2. \A r \in {Main, Watcher} : ReadRight(r)'
      BY <3>1 DEF ReadRight
    <3>3. ASSUME NEW g \in Files PROVE disk'[g].rev <= edits'
      <4>1. disk[g].rev <= edits /\ disk[g].rev \in Nat /\ edits \in Nat
        BY <3>3
      <4>2. CASE g = f BY <2>E, <4>1, <4>2
      <4>3. CASE g # f BY <2>E, <4>1, <4>3
      <4> QED BY <4>2, <4>3
    <3>4. \A r \in {Main, Watcher} : began'[r] <= edits'
      BY <2>E, <1>0
    <3> QED BY <2>E, <3>1, <3>2, <3>3, <3>4
  \* A listing starts: whatever it found absent it has read.
  <2>L. ASSUME NEW r \in Loaders, ListDir(r), UNCHANGED <<disk, edits, phase, userRoutes>>,
               r = Main => phase # "serving"
        PROVE FreshInv'
    <3>1. /\ pc'[r] = "reading" /\ began'[r] = edits
          /\ ~ReadErrors => /\ ~failed'[r]
                            /\ \A f \in todo'[r] : disk[f].kind # "absent"
                            /\ \A f \in Files \ todo'[r] : got'[r][f] = disk[f]
      BY <2>L DEF ListDir
    <3>2. \A q \in Loaders \ {r} :
            /\ pc'[q] = pc[q] /\ todo'[q] = todo[q] /\ got'[q] = got[q]
            /\ failed'[q] = failed[q] /\ began'[q] = began[q]
      BY <2>L DEF ListDir
    <3>3. ReadRight(r)'
      BY <2>L, <3>1 DEF ReadRight, Settled
    <3>4. \A q \in {Main, Watcher} \ {r} : ReadRight(q)'
      BY <1>0, <2>L, <3>2 DEF ReadRight, Settled, DiskLoads, Conflicting
    <3>5. Settled(Watcher)' /\ pc'[Watcher] = "idle" => Settled(Watcher) /\ pc[Watcher] = "idle"
      BY <1>0, <2>L, <3>1, <3>2 DEF Settled, DiskLoads, Conflicting
    <3> QED BY <1>0, <2>L, <3>1, <3>2, <3>3, <3>4, <3>5
  <2>1. ASSUME NEW r \in Loaders, LoadFile(r) PROVE FreshInv'
    <3>1. PICK f \in todo[r] :
            /\ todo' = [todo EXCEPT ![r] = @ \ {f}]
            /\ \/ /\ got' = [got EXCEPT ![r][f] = disk[f]]
                  /\ failed' = [failed EXCEPT ![r] = @ \/ disk[f].kind \in {"bad", "absent"}]
               \/ ReadErrors /\ got' = got /\ failed' = [failed EXCEPT ![r] = TRUE]
      BY <2>1 DEF LoadFile
    <3>2. /\ UNCHANGED <<disk, edits, phase, userRoutes, pc, began>>
          /\ pc[r] = "reading"
      BY <2>1 DEF LoadFile
    <3>3. \A q \in Loaders \ {r} :
            todo'[q] = todo[q] /\ got'[q] = got[q] /\ failed'[q] = failed[q]
      BY <3>1
    <3>5. f \in Files /\ got[r] \in [Files -> Contents] /\ disk[f].kind \in Kinds
      BY DEF Tables, Kinds
    <3>6. ~ReadErrors =>
            /\ failed'[r] => failed[r] \/ disk[f].kind \in {"bad", "absent"}
            /\ got'[r][f] = disk[f] /\ \A g \in Files \ {f} : got'[r][g] = got[r][g]
      BY <3>1, <3>5
    <3>7. todo'[r] = todo[r] \ {f}
      BY <3>1
    <3>8. \A q \in {Main, Watcher} : Settled(q)' <=> Settled(q)
      BY <3>2 DEF Settled, DiskLoads, Conflicting
    <3>9. r \in {Main, Watcher} => ReadRight(r)'
      <4> SUFFICES ASSUME r \in {Main, Watcher}, Settled(r) PROVE ReadRight(r)'
        BY <3>8 DEF ReadRight
      <4>1. /\ ~failed[r] /\ \A g \in todo[r] : disk[g].kind # "absent"
            /\ \A g \in Files \ todo[r] : got[r][g] = disk[g]
        BY <3>2 DEF ReadRight
      <4>2. ~ReadErrors /\ disk[f].kind \notin {"bad", "absent"}
        BY <4>1, <3>5 DEF Settled, DiskLoads
      <4>3. ~failed'[r]
        BY <4>1, <4>2, <3>6
      <4> QED BY <3>2, <3>6, <3>7, <4>1, <4>2, <4>3 DEF ReadRight
    <3>10. \A q \in {Main, Watcher} \ {r} : ReadRight(q)'
      BY <1>0, <3>2, <3>3, <3>8 DEF ReadRight
    <3>11. \A q \in {Main, Watcher} : ReadRight(q)'
      BY <3>9, <3>10
    <3>12. \A q \in {Main, Watcher} : pc'[q] = "stored" => userRoutes' = got'[q] /\ todo'[q] = {}
      BY <1>0, <3>2, <3>3
    <3> HIDE DEF TypeOK
    <3> QED BY <3>2, <3>8, <3>11, <3>12
  <2>2. ASSUME NEW r \in Loaders, Build(r) PROVE FreshInv'
    <3>1. UNCHANGED <<disk, edits, phase, userRoutes, todo, got, failed, began>>
      BY <2>2 DEF Build
    <3>2. /\ pc[r] = "reading" /\ pc'[r] \in {"error", "built"}
          /\ pc'[r] = "error" => failed[r] \/ Conflicting(got[r])
          /\ todo[r] = {}
          /\ \A q \in Loaders \ {r} : pc'[q] = pc[q]
      BY <1>0, <2>2 DEF Build
    <3>3. \A q \in {Main, Watcher} : Settled(q)' <=> Settled(q)
      BY <3>1 DEF Settled, DiskLoads, Conflicting
    \* What it has read is the directory, which has no conflict.
    <3>4. r \in {Main, Watcher} /\ Settled(r) => pc'[r] # "error"
      <4> SUFFICES ASSUME r \in {Main, Watcher}, Settled(r) PROVE pc'[r] # "error"
        OBVIOUS
      <4>1. ~failed[r] /\ \A f \in Files : got[r][f] = disk[f]
        BY <3>2 DEF ReadRight
      <4>2. ~Conflicting(disk)
        BY DEF Settled, DiskLoads
      <4>3. ~Conflicting(got[r])
        <5> HIDE DEF FreshInv, TypeOK
        <5> QED BY <4>1, <4>2 DEF Conflicting
      <4> QED BY <1>0, <3>2, <4>1, <4>3
    <3>5. \A q \in {Main, Watcher} : ReadRight(q)'
      BY <1>0, <3>1, <3>2, <3>3, <3>4 DEF ReadRight
    <3> QED BY <1>0, <3>1, <3>2, <3>3, <3>5
  <2>3. ASSUME NEW r \in Loaders, Store(r) PROVE FreshInv'
    <3>1. r \in {Main, Watcher}
      BY <1>0, <2>3 DEF Store, OrderInv
    <3>2. /\ UNCHANGED <<disk, edits, phase, todo, got, failed, began>>
          /\ userRoutes' = got[r] /\ pc[r] = "built" /\ pc'[r] = "stored"
          /\ todo[r] = {}
          /\ \A q \in Loaders \ {r} : pc'[q] = pc[q]
      BY <2>3 DEF Store, CleanInv
    <3>3. \A q \in {Main, Watcher} \ {r} : pc[q] = "idle"
      BY <1>0, <3>1, <3>2 DEF OrderInv
    <3>4. \A q \in {Main, Watcher} : ReadRight(q)'
      <4>1. \A q \in {Main, Watcher} : Settled(q)' <=> Settled(q)
        BY <3>2 DEF Settled, DiskLoads, Conflicting
      <4> QED BY <1>0, <3>1, <3>2, <3>3, <4>1 DEF ReadRight
    <3>5. pc'[Watcher] = "idle" => phase # "serving"
      BY <1>0, <3>1, <3>2, <3>3 DEF OrderInv
    <3> QED BY <1>0, <3>1, <3>2, <3>3, <3>4, <3>5
  <2>4. CASE Startup
    BY <1>0, <2>4, <2>L DEF Startup
  <2>5. CASE StartupFails \/ Serve
    <3>0. Return(Main) => began' = began
      BY DEF Return
    <3>1. /\ UNCHANGED <<disk, edits, userRoutes, began>> /\ Return(Main)
          /\ phase' = "exited" \/ (phase' = "serving" /\ pc[Main] = "stored")
      <4>1. CASE StartupFails BY <3>0, <4>1 DEF StartupFails
      <4>2. CASE Serve BY <3>0, <4>2 DEF Serve
      <4> QED BY <2>5, <4>1, <4>2
    <3>2. /\ pc'[Main] = "idle" /\ pc'[Watcher] = pc[Watcher]
          /\ got'[Watcher] = got[Watcher] /\ todo'[Watcher] = todo[Watcher]
          /\ failed'[Watcher] = failed[Watcher]
      BY <1>0, <3>1 DEF Return
    <3>3. \A q \in {Main, Watcher} : Settled(q)' <=> Settled(q)
      BY <3>1 DEF Settled, DiskLoads, Conflicting
    <3>4. ReadRight(Main)' /\ ReadRight(Watcher)'
      BY <3>1, <3>2, <3>3 DEF ReadRight
    <3>5. ASSUME phase' = "serving", Settled(Watcher) PROVE userRoutes = disk
      <4>1. pc[Main] = "stored" /\ began[Watcher] = 0
        BY <2>5, <3>1, <3>5 DEF OrderInv, StartupFails, Serve
      <4>2. began[Main] \in Nat
        BY <1>0
      <4>3. Settled(Main)
        BY <3>5, <4>1, <4>2 DEF Settled, DiskLoads, Conflicting
      <4>4. /\ userRoutes = got[Main] /\ todo[Main] = {}
            /\ \A f \in Files \ todo[Main] : got[Main][f] = disk[f]
        BY <4>1, <4>3 DEF ReadRight
      <4> QED BY <4>4 DEF Tables
    <3> QED BY <1>0, <3>1, <3>2, <3>3, <3>4, <3>5
  <2>7. ASSUME NEW r \in Loaders, Answer(r), r # Main PROVE FreshInv'
    <3>1. /\ UNCHANGED <<disk, edits, userRoutes, phase, began>> /\ Return(r)
          /\ pc[r] \in {"stored", "error"}
      BY <2>7 DEF Answer, Return
    <3>2. /\ pc'[r] = "idle"
          /\ \A q \in Loaders \ {r} :
               /\ pc'[q] = pc[q] /\ todo'[q] = todo[q] /\ got'[q] = got[q]
               /\ failed'[q] = failed[q]
      BY <3>1 DEF Return
    <3>3. \A q \in {Main, Watcher} : Settled(q)' <=> Settled(q)
      BY <3>1 DEF Settled, DiskLoads, Conflicting
    <3>4. \A q \in {Main, Watcher} : ReadRight(q)'
      BY <1>0, <3>1, <3>2, <3>3 DEF ReadRight
    <3>5. ASSUME r = Watcher, Settled(Watcher) PROVE userRoutes = disk
      <4>1. pc[Watcher] = "stored"
        BY <3>1, <3>5 DEF ReadRight, OrderInv
      <4>2. /\ userRoutes = got[Watcher] /\ todo[Watcher] = {}
            /\ \A f \in Files \ todo[Watcher] : got[Watcher][f] = disk[f]
        BY <3>5, <4>1 DEF ReadRight
      <4> QED BY <4>2 DEF Tables
    <3> QED BY <1>0, <3>1, <3>2, <3>3, <3>4, <3>5
  <2>8. ASSUME NEW f \in Files, NEW k \in Kinds, EditRoute(f, k) PROVE FreshInv'
    BY <2>8, <2>E DEF EditRoute, Write
  <2>9. ASSUME NEW f \in Files, NEW k \in {"ok", "clash", "bad"}, NEW inside \in BOOLEAN,
               EditBody(f, k, inside)
        PROVE FreshInv'
    BY <2>9, <2>E DEF EditBody, Write
  <2>10. CASE AddDir \/ NoDir \/ ReceiveEvent \/ WatchDone \/ Expire \/ Fire
    BY <2>10, <2>K DEF AddDir, NoDir, ReceiveEvent, WatchDone, Expire, Fire, loadVars
  <2>11. CASE WatchReload
    BY <1>0, <2>11, <2>L DEF WatchReload
  <2>12. CASE UNCHANGED vars
    BY <2>12, <2>K DEF vars, loadVars
  <2> HIDE DEF FreshInv, TypeOK
  <2>14. ~\E r \in ReloadCalls : Call(r) \/ Answer(r)
    OBVIOUS
  <2>15. CASE WatchStep
    BY <1>0, <2>7, <2>10, <2>11, <2>15 DEF WatchStep, WatchReloaded
  <2>16. CASE Edit
    BY <2>8, <2>9, <2>16 DEF Edit
  <2>17. CASE \E r \in Loaders : LoadStep(r)
    BY <2>1, <2>2, <2>3, <2>17 DEF LoadStep
  <2> QED
    BY <2>4, <2>5, <2>10, <2>12, <2>14, <2>15, <2>16, <2>17 DEF Next
<1> QED BY <1>1, <1>2, TypeCorrect, OrderInvariant, CleanInvariant, PTL DEF Spec

\* When the watch machinery is at rest after an edit it was told of, the table
\* is the directory, for any number of files and edits (watch.go, load.go).
THEOREM QuietIsFresh ==
    ASSUME ReloadCalls = {}, ReadErrors = FALSE
    PROVE  Spec => []QuietMeansFresh
<1>1. TypeOK /\ OrderInv /\ FreshInv /\ NoLostWakeup => QuietMeansFresh
  <2> SUFFICES ASSUME TypeOK, OrderInv, FreshInv, NoLostWakeup,
                      Quiet, noticed = edits, DiskLoads
               PROVE UpToDate
    BY DEF QuietMeansFresh
  <2>1. watch = "loop" /\ pc[Watcher] = "idle" /\ ~WakeupPending
    BY DEF Quiet, Selecting
  <2>2. Watcher \in Loaders
    BY DEF Loaders
  <2>3. edits <= began[Watcher]
    BY <2>1, <2>2 DEF NoLostWakeup, TypeOK
  <2>4. Settled(Watcher)
    BY <2>2, <2>3 DEF Settled, FreshInv, DiskLoads, TypeOK
  <2>5. phase = "serving"
    BY <2>1 DEF OrderInv
  <2> QED BY <2>1, <2>4, <2>5 DEF FreshInv, UpToDate
<1> QED BY <1>1, TypeCorrect, OrderInvariant, WakeupKept, FreshInvariant, PTL

-----------------------------------------------------------------------------
(* Every load starts after the table it replaces was read, so tables only   *)
(* get newer while nobody else reloads.                                     *)

MonotonicInv ==
    /\ \A f \in Files : userRoutes[f].rev <= disk[f].rev
    /\ \A r \in {Main, Watcher} : pc[r] \in {"reading", "built"} /\ ~failed[r] =>
         \A f \in Files \ todo[r] :
           /\ userRoutes[f].rev <= got[r][f].rev
           /\ got[r][f].rev <= disk[f].rev
    /\ NoRollback

LEMMA MonotonicInvariant ==
    ASSUME ReloadCalls = {}
    PROVE  Spec => []MonotonicInv
<1>0. /\ Main \in Loaders /\ Watcher \in Loaders /\ Main # Watcher
      /\ Loaders = {Main, Watcher}
  BY DEF Loaders
<1>1. Init => MonotonicInv
  BY <1>0 DEF Init, MonotonicInv, NoRollback, Nothing, Unread
<1>2. TypeOK /\ TypeOK' /\ OrderInv /\ CleanInv /\ FreshInv /\ MonotonicInv /\ [Next]_vars
        => MonotonicInv'
  <2> SUFFICES ASSUME TypeOK, TypeOK', OrderInv, CleanInv, FreshInv, MonotonicInv, [Next]_vars
               PROVE MonotonicInv'
    OBVIOUS
  <2> USE DEF MonotonicInv, NoRollback, TypeOK
  <2>N. \A f \in Files :
          /\ disk[f].rev \in Nat /\ userRoutes[f].rev \in Nat /\ floor[f] \in Nat
          /\ \A r \in Loaders : got[r][f].rev \in Nat
    BY DEF Tables, Contents
  <2>K. ASSUME UNCHANGED <<disk, userRoutes, pc, todo, got, failed, floor>>
        PROVE MonotonicInv'
    BY <2>K
  <2>E. ASSUME NEW f \in Files, disk'[f].rev = edits + 1,
               \A g \in Files \ {f} : disk'[g] = disk[g],
               UNCHANGED <<userRoutes, pc, todo, got, failed, floor>>
        PROVE MonotonicInv'
    <3>1. edits \in Nat /\ disk[f].rev <= edits
      BY DEF FreshInv
    <3>2. ASSUME NEW g \in Files PROVE disk[g].rev <= disk'[g].rev
      <4>1. CASE g = f BY <2>E, <2>N, <3>1, <4>1
      <4>2. CASE g # f BY <2>E, <2>N, <4>2
      <4> QED BY <4>1, <4>2
    <3>3. \A g \in Files : disk'[g].rev \in Nat
      OBVIOUS
    <3>4. ASSUME NEW g \in Files PROVE userRoutes[g].rev <= disk'[g].rev
      <4>1. /\ userRoutes[g].rev \in Nat /\ disk[g].rev \in Nat /\ disk'[g].rev \in Nat
            /\ userRoutes[g].rev <= disk[g].rev /\ disk[g].rev <= disk'[g].rev
        BY <2>N, <3>2, <3>3
      <4> HIDE DEF MonotonicInv, NoRollback, TypeOK
      <4> QED BY <4>1
    <3>5. ASSUME NEW r \in {Main, Watcher}, NEW g \in Files, got[r][g].rev <= disk[g].rev
          PROVE  got[r][g].rev <= disk'[g].rev
      <4>1. /\ got[r][g].rev \in Nat /\ disk[g].rev \in Nat /\ disk'[g].rev \in Nat
            /\ disk[g].rev <= disk'[g].rev
        BY <1>0, <2>N, <3>2, <3>3
      <4> HIDE DEF MonotonicInv, NoRollback, TypeOK
      <4> QED BY <3>5, <4>1
    <3> QED BY <1>0, <2>E, <3>4, <3>5
  <2>L. ASSUME NEW r \in Loaders, ListDir(r), UNCHANGED <<disk, userRoutes, floor>>
        PROVE MonotonicInv'
    <3>1. ~failed'[r] => \A f \in Files \ todo'[r] : got'[r][f] = disk[f]
      BY <2>L DEF ListDir
    <3>2. \A q \in Loaders \ {r} :
            /\ pc'[q] = pc[q] /\ todo'[q] = todo[q] /\ got'[q] = got[q]
            /\ failed'[q] = failed[q]
      BY <2>L DEF ListDir
    <3>3. ASSUME ~failed'[r], NEW f \in Files \ todo'[r]
          PROVE /\ userRoutes[f].rev <= got'[r][f].rev
                /\ got'[r][f].rev <= disk[f].rev
      <4>1. got'[r][f] = disk[f] /\ disk[f].rev \in Nat /\ userRoutes[f].rev <= disk[f].rev
        BY <2>N, <3>1, <3>3
      <4> HIDE DEF MonotonicInv, NoRollback, TypeOK
      <4> QED BY <4>1
    <3>4. ASSUME NEW q \in {Main, Watcher} \ {r}, pc'[q] \in {"reading", "built"},
                 ~failed'[q], NEW f \in Files \ todo'[q]
          PROVE  /\ userRoutes[f].rev <= got'[q][f].rev
                 /\ got'[q][f].rev <= disk[f].rev
      BY <1>0, <3>2, <3>4
    <3>5. NoRollback' /\ \A f \in Files : userRoutes'[f].rev <= disk'[f].rev
      BY <2>L
    <3> HIDE DEF TypeOK
    <3> QED BY <2>L, <3>3, <3>4, <3>5
  <2>R. ASSUME NEW r \in Loaders, Return(r), UNCHANGED <<disk, userRoutes>>,
               \A f \in Files : floor'[f] <= userRoutes[f].rev
        PROVE MonotonicInv'
    <3>1. pc'[r] = "idle"
      BY <2>R DEF Return
    <3>2. \A q \in Loaders \ {r} :
            /\ pc'[q] = pc[q] /\ todo'[q] = todo[q] /\ got'[q] = got[q]
            /\ failed'[q] = failed[q]
      BY <2>R DEF Return
    <3>3. NoRollback'
      BY <2>R, <2>N
    <3> HIDE DEF TypeOK, NoRollback
    <3> QED BY <1>0, <2>R, <3>1, <3>2, <3>3
  <2>1. ASSUME NEW r \in Loaders, LoadFile(r) PROVE MonotonicInv'
    <3>1. PICK f \in todo[r] :
            /\ todo' = [todo EXCEPT ![r] = @ \ {f}]
            /\ \/ /\ got' = [got EXCEPT ![r][f] = disk[f]]
                  /\ failed' = [failed EXCEPT ![r] = @ \/ disk[f].kind \in {"bad", "absent"}]
               \/ got' = got /\ failed' = [failed EXCEPT ![r] = TRUE]
      BY <2>1 DEF LoadFile
    <3>2. UNCHANGED <<disk, userRoutes, pc, floor>> /\ pc[r] = "reading"
      BY <2>1 DEF LoadFile
    <3>3. \A q \in Loaders \ {r} :
            todo'[q] = todo[q] /\ got'[q] = got[q] /\ failed'[q] = failed[q]
      BY <3>1
    <3>4. f \in Files /\ got[r] \in [Files -> Contents]
      BY DEF Tables
    <3>5. ~failed'[r] => /\ ~failed[r] /\ got'[r][f] = disk[f]
                         /\ \A g \in Files \ {f} : got'[r][g] = got[r][g]
      BY <3>1, <3>4
    <3>6. todo'[r] = todo[r] \ {f}
      BY <3>1
    <3>7. ASSUME r \in {Main, Watcher}, ~failed'[r], NEW g \in Files \ todo'[r]
          PROVE userRoutes[g].rev <= got'[r][g].rev /\ got'[r][g].rev <= disk[g].rev
      <4>1. CASE g = f
        <5>1. got'[r][g] = disk[g] /\ disk[g].rev \in Nat
          BY <2>N, <3>5, <3>7, <4>1
        <5> QED BY <5>1
      <4>2. CASE g # f
        BY <3>2, <3>5, <3>6, <3>7, <4>2
      <4> QED BY <4>1, <4>2
    <3>8. ASSUME NEW q \in {Main, Watcher} \ {r}, pc'[q] \in {"reading", "built"},
                 ~failed'[q], NEW g \in Files \ todo'[q]
          PROVE  userRoutes[g].rev <= got'[q][g].rev /\ got'[q][g].rev <= disk[g].rev
      BY <1>0, <3>2, <3>3, <3>8
    <3>9. NoRollback' /\ userRoutes' = userRoutes /\ disk' = disk
          /\ \A g \in Files : userRoutes[g].rev <= disk[g].rev
      BY <2>1, <3>2 DEF LoadFile
    <3> HIDE DEF TypeOK, NoRollback
    <3> QED BY <3>7, <3>8, <3>9
  <2>2. ASSUME NEW r \in Loaders, Build(r) PROVE MonotonicInv'
    <3>1. /\ UNCHANGED <<disk, userRoutes, todo, got, failed, floor>>
          /\ pc[r] = "reading" /\ \A q \in Loaders \ {r} : pc'[q] = pc[q]
      BY <2>2 DEF Build
    <3> QED BY <1>0, <3>1
  <2>3. ASSUME NEW r \in Loaders, Store(r) PROVE MonotonicInv'
    <3>1. r \in {Main, Watcher}
      BY <1>0, <2>3 DEF Store, OrderInv
    <3>2. /\ UNCHANGED <<disk, todo, got, failed, floor>> /\ ~failed[r]
          /\ userRoutes' = got[r] /\ pc[r] = "built" /\ pc'[r] = "stored"
          /\ todo[r] = {}
          /\ \A q \in Loaders \ {r} : pc'[q] = pc[q]
      BY <2>3 DEF Store, CleanInv
    <3>3. \A q \in {Main, Watcher} \ {r} : pc[q] = "idle"
      BY <1>0, <3>1, <3>2 DEF OrderInv
    <3>4. \A f \in Files : /\ userRoutes[f].rev <= got[r][f].rev
                            /\ got[r][f].rev <= disk[f].rev
      BY <3>1, <3>2
    <3>5. ASSUME NEW f \in Files PROVE floor[f] <= got[r][f].rev
      <4>1. /\ floor[f] \in Nat /\ userRoutes[f].rev \in Nat /\ got[r][f].rev \in Nat
            /\ floor[f] <= userRoutes[f].rev
        BY <2>N
      <4> HIDE DEF MonotonicInv, NoRollback, TypeOK
      <4> QED BY <3>4, <4>1
    <3> QED BY <1>0, <3>1, <3>2, <3>3, <3>4, <3>5
  <2>4. CASE Startup
    BY <1>0, <2>4, <2>L DEF Startup
  <2>5. CASE StartupFails \/ Serve
    BY <1>0, <2>5, <2>R DEF StartupFails, Serve
  <2>7. ASSUME NEW r \in Loaders, Answer(r), r # Main PROVE MonotonicInv'
    <3>1. pc[r] = "stored" => userRoutes = got[r]
      BY <1>0 DEF OrderInv, FreshInv
    <3>2. ASSUME NEW f \in Files PROVE floor'[f] <= userRoutes[f].rev
      <4>1. CASE pc[r] = "stored"
        <5>1. floor'[f] = Newer(floor[f], got[r][f].rev)
          BY <2>7, <4>1 DEF Answer
        <5>2. got[r][f].rev = userRoutes[f].rev /\ floor[f] <= userRoutes[f].rev
          BY <2>N, <3>1, <4>1
        <5>3. floor[f] \in Nat /\ userRoutes[f].rev \in Nat
          BY <2>N
        <5> HIDE DEF MonotonicInv, NoRollback, TypeOK
        <5> QED BY <5>1, <5>2, <5>3 DEF Newer
      <4>2. CASE pc[r] # "stored"
        BY <2>7, <4>2 DEF Answer
      <4> QED BY <4>1, <4>2
    <3> QED BY <2>7, <2>R, <3>2 DEF Answer
  <2>8. ASSUME NEW f \in Files, NEW k \in Kinds, EditRoute(f, k) PROVE MonotonicInv'
    BY <2>8, <2>E DEF EditRoute, Write
  <2>9. ASSUME NEW f \in Files, NEW k \in {"ok", "clash", "bad"}, NEW inside \in BOOLEAN,
               EditBody(f, k, inside)
        PROVE MonotonicInv'
    BY <2>9, <2>E DEF EditBody, Write
  <2>10. CASE AddDir \/ NoDir \/ ReceiveEvent \/ WatchDone \/ Expire \/ Fire
    BY <2>10, <2>K DEF AddDir, NoDir, ReceiveEvent, WatchDone, Expire, Fire, loadVars
  <2>11. CASE WatchReload
    BY <1>0, <2>11, <2>L DEF WatchReload
  <2>12. CASE UNCHANGED vars
    BY <2>12, <2>K DEF vars, loadVars
  <2> HIDE DEF MonotonicInv, NoRollback, TypeOK
  <2>14. ~\E r \in ReloadCalls : Call(r) \/ Answer(r)
    OBVIOUS
  <2>15. CASE WatchStep
    BY <1>0, <2>7, <2>10, <2>11, <2>15 DEF WatchStep, WatchReloaded
  <2>16. CASE Edit
    BY <2>8, <2>9, <2>16 DEF Edit
  <2>17. CASE \E r \in Loaders : LoadStep(r)
    BY <2>1, <2>2, <2>3, <2>17 DEF LoadStep
  <2> QED
    BY <2>4, <2>5, <2>10, <2>12, <2>14, <2>15, <2>16, <2>17 DEF Next
<1> QED BY <1>1, <1>2, TypeCorrect, OrderInvariant, CleanInvariant, FreshInvariant, PTL DEF Spec

\* What a reload has reported as loaded is never replaced by older contents
\* while the watch loop alone reloads (serve.go, reload).  Two concurrent
\* reloads break this, as the run reload_race shows.
THEOREM NoRollbackAlone ==
    ASSUME ReloadCalls = {}
    PROVE  Spec => []NoRollback
<1>1. MonotonicInv => NoRollback
  BY DEF MonotonicInv
<1> QED BY <1>1, MonotonicInvariant, PTL
====
