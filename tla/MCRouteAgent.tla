----------------------------- MODULE MCRouteAgent -----------------------------
(* RouteAgent with one host route and a prefix wider than /24, thresholds   *)
(* of two and three probes and an hour of nine periods.                     *)
EXTENDS RouteAgent

CONSTANTS r1, r2, wide

OneList == {{r1, wide}}
TwoLists == {{r1}, {r1, r2}}
AnyList == {{}, {r1}, {r2, wide}}
=============================================================================
