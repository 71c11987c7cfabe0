---------------------------- MODULE MCReconnect ----------------------------
(***************************************************************************)
(* The matchmaker for TLC: player a may connect a second time, which meets *)
(* whatever his first connection left behind.                              *)
(***************************************************************************)
EXTENDS Matchmaking, TLC

CONSTANTS a, b

FirstTwice == {<<a, 1>>, <<a, 2>>, <<b, 1>>}
============================================================================
