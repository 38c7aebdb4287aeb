----------------------------- MODULE MCRouteManager -----------------------------
(* a1 and a2 are two versions of route a, b1 is route a after a change of its  *)
(* name, which keeps the port; c1 is a route on another port.                  *)
EXTENDS RouteManager

CONSTANTS a1, a2, b1, c1, a, b, c, p, q

Keyed == [r \in Routes |-> IF r \in {a1, a2} THEN a ELSE IF r = b1 THEN b ELSE c]
Ports == [r \in Routes |-> IF r = c1 THEN q ELSE p]
OneRoute  == {{a1}, {a2}, {b1}}
TwoRoutes == {{a1, c1}, {a2, c1}}

\* A route is modified, then renamed.
Replaced == [n \in 0..2 |-> {IF n = 0 THEN {a1} ELSE IF n = 1 THEN {a2} ELSE {b1}}]
Either   == [n \in 0..1 |-> TwoRoutes]
================================================================================
