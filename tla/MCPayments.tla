---- MODULE MCPayments ----
(***************************************************************************)
(* Small instances of Payments for TLC.                                    *)
(***************************************************************************)
EXTENDS Payments, TLC

CONSTANTS t1, t2, u1, u2, r1, w1, w2

AllCard == [t \in Tx |-> "WOMPI_CARD"]

(* Every payment may earn each user a bonus by each rule; or none any. *)
AllBonuses == Tx \X User \X Rule
NoBonus == {}

Symmetry == Permutations(Worker)
WorkersAndUsers == Permutations(Worker) \cup Permutations(User)
====
