---- MODULE Service ----
(***************************************************************************)
(* What the serving process promises to whoever runs it and to its         *)
(* clients.  A server begins to accept requests at most once, and nothing  *)
(* begins once it is retired.  The process ends without an error only if   *)
(* it was asked to, and then every server is retired and no request is cut *)
(* short, unless the grace period is over.                                 *)
(***************************************************************************)
CONSTANTS Servers, Requests,
          ServerOf \* the server each request is made to

VARIABLES state,   \* "up", or how the process ended: "stopped", "failed"
          accepts, \* the servers that accept requests
          retired, \* the servers that never will again
          asked,   \* the process was asked to stop
          late,    \* the grace period is over
          req      \* each request: "none", "inflight" or "done"

serviceVars == <<state, accepts, retired, asked, late, req>>

Init ==
    /\ state = "up"
    /\ accepts = {} /\ retired = {}
    /\ asked = FALSE /\ late = FALSE
    /\ req = [r \in Requests |-> "none"]

Open(s) ==
    /\ s \notin accepts \cup retired
    /\ accepts' = accepts \cup {s}
    /\ UNCHANGED <<state, retired, asked, late, req>>

Retire(s) ==
    /\ s \notin retired
    /\ retired' = retired \cup {s}
    /\ accepts' = accepts \ {s}
    /\ UNCHANGED <<state, asked, late, req>>

Ask == asked' = TRUE /\ UNCHANGED <<state, accepts, retired, late, req>>

GraceOver ==
    /\ asked
    /\ late' = TRUE
    /\ UNCHANGED <<state, accepts, retired, asked, req>>

Begin(r) ==
    /\ ServerOf[r] \in accepts
    /\ req[r] = "none"
    /\ req' = [req EXCEPT ![r] = "inflight"]
    /\ UNCHANGED <<state, accepts, retired, asked, late>>

End(r) ==
    /\ req[r] = "inflight"
    /\ req' = [req EXCEPT ![r] = "done"]
    /\ UNCHANGED <<state, accepts, retired, asked, late>>

Stop ==
    /\ asked /\ retired = Servers
    /\ late \/ \A r \in Requests : req[r] # "inflight"
    /\ state' = "stopped"
    /\ UNCHANGED <<accepts, retired, asked, late, req>>

\* Everything ends at once.
Fail ==
    /\ state' = "failed"
    /\ accepts' = {}
    /\ UNCHANGED <<retired, asked, late, req>>

Next ==
    /\ state = "up"
    /\ \/ \E s \in Servers : Open(s) \/ Retire(s)
       \/ \E r \in Requests : Begin(r) \/ End(r)
       \/ Ask \/ GraceOver \/ Stop \/ Fail

Spec == Init /\ [][Next]_serviceVars
====
