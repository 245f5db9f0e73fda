---- MODULE MCWallets ----
(***************************************************************************)
(* Small instances of Wallets for TLC.  Only users of tiers 3 and 4 can    *)
(* withdraw: the others meet a hold of their tier.                         *)
(***************************************************************************)
EXTENDS Wallets, TLC

CONSTANTS u1, u2, b1, b2, d1, r1, r2

Tiers == (u1 :> 3) @@ (u2 :> 2)
Limits == [t \in 0 .. 4 |-> IF t = 3 THEN 2 ELSE 3]
BonusesOf == (b1 :> u1) @@ (b2 :> u2)
DepositsOf == [d \in Deposit |-> u1]

Symmetry == Permutations(Request)
====
