---- MODULE MCRouteReload ----
(* Small instances of RouteReload for TLC. *)
EXTENDS RouteReload, TLC

\* Reload handlers are interchangeable; used by runs of invariants only.
ReloadSymmetry == Permutations(ReloadCalls)
====
