------------------------------- MODULE MCShell -------------------------------
(***************************************************************************)
(* Two servers for TLC, of two releases: the older one lacks version 2,    *)
(* which was merged after version 3.                                       *)
(***************************************************************************)
EXTENDS Shell

CONSTANTS older, newer

MCServer == {older, newer}
MCFiles  == [s \in MCServer |-> IF s = older THEN {1, 3} ELSE {1, 2, 3}]
==============================================================================
