---- MODULE Account ----
(***************************************************************************)
(* What the ledger of a wallet promises (pagos-service, src/lib/ledger.ts: *)
(* "every wallet update MUST be paired with a ledger entry", "Debits MUST  *)
(* verify sufficient balance BEFORE the operation"): the money in it moves *)
(* one amount at a time, and is never overdrawn.                           *)
(***************************************************************************)
EXTENDS Integers

CONSTANT Amount

VARIABLE money

Init == money = 0

Deposit(amount) == money' = money + amount

Withdraw(amount) == money >= amount /\ money' = money - amount

Next == \E a \in Amount : Deposit(a) \/ Withdraw(a)

Spec == Init /\ [][Next]_money
====
