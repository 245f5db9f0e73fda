---- MODULE EscrowRules ----
(***************************************************************************)
(* The vocabulary and the pure decisions of the escrow state machine of    *)
(* pagos-service (src/lib/escrow.ts).  The class EscrowStateMachine never  *)
(* stores anything: it maps a transaction and an event to the next         *)
(* transaction or to an error.  EscrowMachine turns these rules into a     *)
(* specification; Payments uses the part the HTTP routes really call.      *)
(***************************************************************************)
EXTENDS Integers

EscrowState == {"NONE", "HELD", "RELEASED", "DISPUTED", "REFUNDED"}

InstantChannel == {"WOMPI_BREB", "WOMPI_NEQUI", "WOMPI_DAVIPLATA"}

Channels == InstantChannel \cup {"WOMPI_CARD", "WOMPI_PSE", "INTERNAL_TRANSFER"}

(***************************************************************************)
(* What a delivery confirmation carries, as far as the machine looks at    *)
(* it: nothing, a photo that is not a public URL, a missing basic field    *)
(* (date, recipient or tracking number), the basic fields without both     *)
(* photo and signature, or all five fields.                                *)
(***************************************************************************)
Evidence == {"missing", "unsafe_photo", "incomplete", "basic", "full"}

(* handleDeliveryConfirm: amounts above 1,000,000 COP are "high value". *)
EvidenceErrorAnyAmount(evidence, highValue) ==      \* mutant: the threshold forgotten
  IF evidence \in {"basic", "full"} THEN "NONE" ELSE "EVIDENCE_REQUIRED"

EvidenceError(evidence, highValue) ==
  CASE evidence = "unsafe_photo" -> "UNSAFE_EVIDENCE_URL"
    [] evidence = "full" -> "NONE"
    [] evidence = "basic" /\ ~highValue -> "NONE"
    [] OTHER -> "EVIDENCE_REQUIRED"

(* DELIVERY_CONFIRM is accepted only for a held payment of an escrowed
   channel that carries enough evidence. *)
DeliveryAccepted(channel, highValue, escrow, evidence) ==
  /\ channel \notin InstantChannel
  /\ escrow = "HELD"
  /\ EvidenceError(evidence, highValue) = "NONE"
====
