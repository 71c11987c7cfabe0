----------------------------- MODULE MCSeasons -----------------------------
(***************************************************************************)
(* Seasons for TLC: two players meet twice while two others fight, across  *)
(* the end of a season and an idle one.                                    *)
(***************************************************************************)
EXTENDS Seasons, TLC

CONSTANTS m1, m2, m3, a, b, c, d

Pairs == (m1 :> {a, b}) @@ (m2 :> {c, d}) @@ (m3 :> {a, b})
============================================================================
