---- MODULE EscrowLifecycle ----
(***************************************************************************)
(* What the stored escrow state of every transaction promises to the       *)
(* people who wait for the money, whoever writes it: it is captured once,  *)
(* and then settled at most once, in favour of the seller (RELEASED), of   *)
(* the buyer (REFUNDED) or of nobody yet (DISPUTED).  The routes of        *)
(* api/payments.ts and api/delivery.ts and the webhook handlers all write  *)
(* it through transactEscrowTransition (src/lib/transact/escrow.ts), from  *)
(* any number of Lambda instances.                                         *)
(***************************************************************************)
EXTENDS Naturals

CONSTANT Tx

VARIABLES
  escrow,     \* escrow_state of each row
  version     \* escrow_version of each row: the moves it has made

Settled == {"RELEASED", "REFUNDED", "DISPUTED"}

Init ==
  /\ escrow = [t \in Tx |-> "NONE"]
  /\ version = [t \in Tx |-> 0]

Capture(t) ==
  /\ escrow[t] = "NONE" /\ version[t] = 0
  /\ escrow' = [escrow EXCEPT ![t] = "HELD"]
  /\ version' = [version EXCEPT ![t] = 1]

Settle(t, s) ==
  /\ escrow[t] = "HELD" /\ version[t] = 1
  /\ escrow' = [escrow EXCEPT ![t] = s]
  /\ version' = [version EXCEPT ![t] = 2]

Next == \E t \in Tx : Capture(t) \/ \E s \in Settled : Settle(t, s)

Spec == Init /\ [][Next]_<<escrow, version>>
====
