---- MODULE Progress ----
(***************************************************************************)
(* The components whose progress is checked, and what else each promises:  *)
(* the monitor of the UIAF (the module extended), the rights of the data   *)
(* subjects with the monitor of their terms, and the checkout.  MCProgress *)
(* moves them one at a time; what is proved of them is in ProgressProofs.  *)
(***************************************************************************)
EXTENDS Uiaf

CONSTANTS
  Nit, Value, Worker, SlaDays, Batch, MaxAge, LastDay, MaxLog,    \* Rights
  Price, MaxRequests, LastMount                                   \* Checkout

ASSUME RightsAssumption ==
  /\ Nit # {} /\ Value # {} /\ LastDay \in Nat
  /\ Batch \in Nat /\ MaxLog \in Nat /\ SlaDays \in Nat

ASSUME CheckoutAssumption == Price \subseteq Nat /\ MaxRequests \in Nat /\ LastMount \in Nat

VARIABLES
  rightsNow, place, field, suppressed, rightsPc, rightsCall, log, monitor, found, emailed,
  mount, open, amount, asked, state, widget, requests, rows

Rights == INSTANCE Rights WITH
  MaxTime <- LastDay, MaxRows <- MaxLog,
  now <- rightsNow, pc <- rightsPc, call <- rightsCall, alerted <- emailed

Checkout == INSTANCE Checkout WITH Amount <- Price

----
(* Every component keeps its types. *)
TypesOK == TypeOK /\ Rights!TypeOK /\ Checkout!TypeOK

(* Rights: erased data never comes back, a hidden commerce has none left, the
   audit log tells what was done, and a row marked as breached was in an
   email. *)
RightsAreKept ==
  /\ Rights!ErasedStaysErased /\ Rights!HiddenIsErased
  /\ Rights!AuditTellsTruth /\ Rights!FlaggedIsAlerted

(* Checkout: the widget's intent is a booked one of the modal on the page, and
   signed as it is, if at all. *)
WidgetIsOwn == Checkout!WidgetIsOwn /\ Checkout!SignatureFits
====
