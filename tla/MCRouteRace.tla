----------------------------- MODULE MCRouteRace ----------------------------
(* A small instance of RouteRace: three routes, two attempts to a race.    *)
EXTENDS RouteRace, TLC

CONSTANTS r1, r2, r3

ByName == r1 :> 1 @@ r2 :> 2 @@ r3 :> 3
=============================================================================
