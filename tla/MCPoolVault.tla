---------------------------- MODULE MCPoolVault ----------------------------
(***************************************************************************)
(* A small instance of PoolVault: a holder and the curator, two adapters,  *)
(* one virtual share and a price scale that rounds.                        *)
(***************************************************************************)
EXTENDS PoolVault

CONSTANTS ann, cur, a1, a2

Alike == Permutations({a1, a2})
=============================================================================
