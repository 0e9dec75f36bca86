--------------------------- MODULE MCWsInterface ---------------------------
(***************************************************************************)
(* The websocket routes for TLC: more connections over time than the map   *)
(* of /ws has places, and one on each of the other routes.  Connections of *)
(* one route are interchangeable: no property orders them and none is      *)
(* about liveness.                                                         *)
(***************************************************************************)
EXTENDS WsInterface, TLC

CONSTANTS WsConns, GpioConns, FsConns   \* the connections to each route

MCConns == WsConns \cup GpioConns \cup FsConns
MCRouteOf ==
  [c \in MCConns |-> IF c \in WsConns THEN "/ws" ELSE IF c \in FsConns THEN "/fs" ELSE "/gpio"]

ConnSymmetry == Permutations(WsConns)
=============================================================================
