---- MODULE Checkout ----
(***************************************************************************)
(* Paying in the market: MarketCheckoutModal (market-web) asks             *)
(* POST /v1/payments/intent (pagos-service) for a signed intent and hands  *)
(* it to Wompi's widget.  The modal draws one idempotency key when it is   *)
(* mounted and sends it whenever it is opened or its properties change; it *)
(* never gives up a request, so that answers arrive in any order.          *)
(*                                                                         *)
(* Amounts are pesos, but in an intent: its amount_in_cents is what Wompi's *)
(* widget takes for cents, and the service puts the number of pesos there. *)
(* A reference names the product, the recipient and the millisecond, so    *)
(* that two payments may have the same.                                    *)
(***************************************************************************)
EXTENDS Naturals, Sequences

CONSTANTS
  Amount,          \* amountCop, in pesos
  MaxRequests,     \* bound: requests of all mounts
  LastMount        \* bound: times the page mounts the modal again

Unsigned == [reference |-> 0, amountInCents |-> 0]
NoIntent == [amount_in_cents |-> 0, reference |-> 0, integrity_signature |-> Unsigned]

VARIABLES
  mount,           \* the modal on the page, and its idempotency key
  open, amount,    \* its properties
  asked,           \* the amounts this mount has asked an intent for
  state,           \* its state; the intent of "ready" is the widget's
  widget,          \* the intent of the widget in its container, or NoIntent
  requests,        \* sent so far: [mount, amount, step, answer]
  rows             \* the payments the service has stored: [key, amount_cop, reference]

modal == <<mount, open, amount, asked, state, widget>>
vars == <<modal, requests, rows>>

Requested == 1 .. MaxRequests
Signature == [reference : 0 .. MaxRequests, amountInCents : Amount \cup {0}]
Intent == [amount_in_cents : Amount \cup {0}, reference : 0 .. MaxRequests,
           integrity_signature : Signature]

TypeOK ==
  /\ mount \in 0 .. LastMount
  /\ open \in BOOLEAN /\ amount \in Amount /\ asked \subseteq Amount
  /\ state \in {"idle", "loading", "ready", "error"}
  /\ widget \in Intent
  /\ requests \in Seq([mount : 0 .. LastMount, amount : Amount,
                       step : {"lookup", "create", "answered", "done"}, answer : Intent])
  /\ rows \in Seq([key : 0 .. LastMount, amount_cop : Amount, reference : Requested])

Init ==
  /\ mount = 0 /\ open = FALSE /\ amount \in Amount /\ asked = {}
  /\ state = "idle" /\ widget = NoIntent
  /\ requests = <<>> /\ rows = <<>>

----
(* The effect on [open, amountCop, ...]: it asks for an intent, once the
   fingerprint of the device is there or has failed. *)
AskIntent(a) ==
  /\ Len(requests) < MaxRequests
  /\ state' = "loading" /\ widget' = NoIntent
  /\ asked' = asked \cup {a}
  /\ requests' = Append(requests,
       [mount |-> mount, amount |-> a, step |-> "lookup", answer |-> NoIntent])

Open ==
  /\ ~open
  /\ open' = TRUE
  /\ AskIntent(amount)
  /\ UNCHANGED <<mount, amount, rows>>

ChangeAmount(a) ==
  /\ a # amount
  /\ amount' = a
  /\ IF open THEN AskIntent(a) ELSE UNCHANGED <<asked, state, widget, requests>>
  /\ UNCHANGED <<mount, open, rows>>

Close ==
  /\ open
  /\ open' = FALSE
  /\ state' = "idle" /\ widget' = NoIntent
  /\ UNCHANGED <<mount, amount, asked, requests, rows>>

(* The page unmounts the modal and mounts a new one, with a key of its own. *)
Remount ==
  /\ mount < LastMount
  /\ mount' = mount + 1
  /\ open' = FALSE /\ asked' = {}
  /\ state' = "idle" /\ widget' = NoIntent
  /\ UNCHANGED <<amount, requests, rows>>

(* Stale answers included: setState, and with the modal on the page the
   effect on [state] exchanges the widget. *)
ReceiveRelabelled(i) ==      \* mutant: the widget is given the amount on display
  /\ requests[i].step = "answered"
  /\ requests' = [requests EXCEPT ![i].step = "done"]
  /\ IF requests[i].mount # mount THEN UNCHANGED modal
     ELSE /\ state' = "ready"
          /\ widget' = IF ~open THEN NoIntent ELSE [requests[i].answer EXCEPT !.amount_in_cents = amount]
          /\ UNCHANGED <<mount, open, amount, asked>>
  /\ UNCHANGED rows

Receive(i) ==
  /\ requests[i].step = "answered"
  /\ requests' = [requests EXCEPT ![i].step = "done"]
  /\ IF requests[i].mount # mount THEN UNCHANGED modal
     ELSE /\ state' = "ready"
          /\ widget' = IF open THEN requests[i].answer ELSE NoIntent
          /\ UNCHANGED <<mount, open, amount, asked>>
  /\ UNCHANGED rows

ErrorIgnored(i) ==           \* mutant: the promise has no catch
  /\ requests[i].step # "done"
  /\ requests' = [requests EXCEPT ![i].step = "done"]
  /\ UNCHANGED <<modal, rows>>

(* Refused by the service, or lost on the way there or back. *)
ReceiveError(i) ==
  /\ requests[i].step # "done"
  /\ requests' = [requests EXCEPT ![i].step = "done"]
  /\ IF requests[i].mount # mount THEN UNCHANGED modal
     ELSE /\ state' = "error" /\ widget' = NoIntent
          /\ UNCHANGED <<mount, open, amount, asked>>
  /\ UNCHANGED rows

----
(* The answer of the route: of a payment of so many pesos. *)
Answer(i, pesos, reference, signature) ==
  requests' = [requests EXCEPT ![i].step = "answered",
                 ![i].answer = [amount_in_cents |-> pesos, reference |-> reference,
                                integrity_signature |-> signature]]

ReplayAnyKey(i, r) ==        \* mutant: the key is not compared
  /\ requests[i].step = "lookup"
  /\ Answer(i, rows[r].amount_cop, rows[r].reference, Unsigned)
  /\ UNCHANGED <<modal, rows>>

(* lookupByIdempotencyKey finds a row of the key on an index that lags
   behind, and the row is answered as it was stored.  Its signature was not
   stored, nor is the amount compared. *)
Replay(i, r) ==
  /\ requests[i].step = "lookup"
  /\ rows[r].key = requests[i].mount
  /\ Answer(i, rows[r].amount_cop, rows[r].reference, Unsigned)
  /\ UNCHANGED <<modal, rows>>

NotFound(i) ==
  /\ requests[i].step = "lookup"
  /\ requests' = [requests EXCEPT ![i].step = "create"]
  /\ UNCHANGED <<modal, rows>>

(* generateIntegritySignature. *)
Sign(reference, amountInCents) == [reference |-> reference, amountInCents |-> amountInCents]

(* The checks of the recipient's tier and of the fraud engine passed: the
   row is put without a condition. *)
Create(i, reference) ==
  /\ requests[i].step = "create"
  /\ rows' = Append(rows, [key |-> requests[i].mount, amount_cop |-> requests[i].amount,
                           reference |-> reference])
  /\ Answer(i, requests[i].amount, reference, Sign(reference, requests[i].amount))
  /\ UNCHANGED modal

Serve(i) ==
  \/ NotFound(i)
  \/ \E reference \in Requested : Create(i, reference)
  \/ \E r \in DOMAIN rows : Replay(i, r)

Next ==
  \/ Open \/ Close \/ Remount
  \/ \E a \in Amount : ChangeAmount(a)
  \/ \E i \in DOMAIN requests : Serve(i) \/ Receive(i) \/ ReceiveError(i)

(* The service answers or the browser gives the connection up. *)
Progress == \A i \in Requested :
  WF_vars(i \in DOMAIN requests /\ (Serve(i) \/ Receive(i) \/ ReceiveError(i)))

Spec == Init /\ [][Next]_vars /\ Progress

----
(***************************************************************************)
(* Whichever of the racing answers came last, the widget's intent is of a  *)
(* payment in the table that this modal, and no other, has asked for: with *)
(* its reference, of an amount it was given, and for no more than that.    *)
(***************************************************************************)
WidgetIsOwn ==
  widget # NoIntent =>
    \E r \in DOMAIN rows :
      /\ rows[r].key = mount /\ rows[r].reference = widget.reference
      /\ rows[r].amount_cop \in asked
      /\ widget.amount_in_cents <= 100 * rows[r].amount_cop

(***************************************************************************)
(* A widget that has a signature has that of the very reference and amount *)
(* it hands to Wompi, which would refuse another.                          *)
(***************************************************************************)
SignatureFits ==
  widget.integrity_signature \in {Unsigned, Sign(widget.reference, widget.amount_in_cents)}

(***************************************************************************)
(* "... so the user consents to the full amount they'll be charged" (the   *)
(* modal, :152): the widget charges what the modal shows, if that was one  *)
(* amount only.  It charges a hundredth of it.                             *)
(***************************************************************************)
ShownIsCharged ==
  widget # NoIntent /\ asked = {amount} => widget.amount_in_cents = 100 * amount

(***************************************************************************)
(* The modal does not prepare for ever: it is ready, fails, or is closed.  *)
(***************************************************************************)
LoadingEnds == state = "loading" ~> state # "loading"

----
(***************************************************************************)
(* "integrity_signature: string,  // SHA256(reference + amount + ...)"     *)
(* (openspec, opita-pagos-foundation/design.md): what the widget is given  *)
(* is signed, without which Wompi refuses it.                              *)
(***************************************************************************)
WidgetIsSigned == widget # NoIntent => widget.integrity_signature # Unsigned
====
