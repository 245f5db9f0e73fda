---- MODULE MCBonuses ----
(***************************************************************************)
(* Small instances of Bonuses for TLC: a rule with both caps               *)
(* (PURCHASE_CASHBACK) and one without (REVIEW_LEFT).                      *)
(***************************************************************************)
EXTENDS Bonuses, TLC

CONSTANTS u1, cashback, review, t1, t2, w1, w2

AmountsOf == (cashback :> {1, 3}) @@ (review :> {2})
Caps == (cashback :> 2)

Symmetry == Permutations(Worker) \cup Permutations(Tx)
====
