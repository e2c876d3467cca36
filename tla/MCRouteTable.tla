---- MODULE MCRouteTable ----
(***************************************************************************)
(* Small instances of RouteTable for TLC: a literal path, a parameter and  *)
(* a catch-all with the same normal form, two patterns that cross, and the *)
(* protected /healthz, which the parameter matches too.                    *)
(***************************************************************************)
EXTENDS RouteTable

MCPatterns == {"/a", "/{x}", "/{x...}", "/b/{x}", "/{x}/c", "/healthz"}
\* Without the two that cross, which are a slot each.
SlotPatterns == MCPatterns \ {"/b/{x}", "/{x}/c"}
MCNormal == [p \in MCPatterns |-> IF p = "/{x...}" THEN "/{x}" ELSE p]
MCServes == [p \in MCPatterns |->
    CASE p = "/a" -> {"a"}
      [] p = "/{x}" -> {"a", "healthz", "z"}
      [] p = "/{x...}" -> {"", "a", "healthz", "z", "b/c", "b/z", "z/c"}
      [] p = "/b/{x}" -> {"b/c", "b/z"}
      [] p = "/{x}/c" -> {"b/c", "z/c"}
      [] p = "/healthz" -> {"healthz"}]
====
