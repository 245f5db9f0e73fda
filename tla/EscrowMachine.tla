---- MODULE EscrowMachine ----
(***************************************************************************)
(* The escrow state machine of src/lib/escrow.ts as a specification: one   *)
(* transaction, the events it is offered in any order, and the clock that  *)
(* closes its dispute window.  An event the machine refuses changes only   *)
(* "error", as transition() returns the transaction unchanged.             *)
(***************************************************************************)
EXTENDS EscrowRules

CONSTANTS
  Window,    \* DISPUTE_WINDOW_HOURS, in ticks of the clock
  MaxTime    \* bound of the clock

ASSUME WindowAssumption == Window \in Nat /\ MaxTime \in Nat

VARIABLES
  channel, highValue,     \* fixed by the payment intent
  escrow,                 \* escrow_state
  windowEnds,             \* dispute_window_ends_at, or NoWindow
  error,                  \* the error field of the last TransitionResult
  now,
  proof                   \* history: the evidence the delivery was confirmed with

vars == <<channel, highValue, escrow, windowEnds, error, now, proof>>
fixed == <<channel, highValue>>

NoWindow == -1

Error == {"NONE", "INVALID_TRANSITION", "EVIDENCE_REQUIRED",
          "DISPUTE_WINDOW_CLOSED", "UNSAFE_EVIDENCE_URL"}

TypeOK ==
  /\ channel \in Channels
  /\ highValue \in BOOLEAN
  /\ escrow \in EscrowState
  /\ windowEnds \in Nat \cup {NoWindow}
  /\ error \in Error
  /\ now \in 0 .. MaxTime
  /\ proof \in Evidence

Init ==
  /\ channel \in Channels
  /\ highValue \in BOOLEAN
  /\ escrow = "NONE"
  /\ windowEnds = NoWindow
  /\ error = "NONE"
  /\ now = 0
  /\ proof = "missing"

Instant == channel \in InstantChannel

Enter(s) == escrow' = s /\ error' = "NONE"

MarkReleased ==
  /\ Enter("RELEASED")
  /\ windowEnds' = now + Window

Refuse(e) ==
  /\ error' = e
  /\ UNCHANGED <<fixed, escrow, windowEnds, now, proof>>

WompiApproved ==
  /\ escrow = "NONE"
  /\ IF Instant THEN MarkReleased ELSE Enter("HELD") /\ UNCHANGED windowEnds
  /\ UNCHANGED <<fixed, now, proof>>

DeliveryConfirm(evidence) ==
  /\ DeliveryAccepted(channel, highValue, escrow, evidence)
  /\ MarkReleased
  /\ proof' = evidence
  /\ UNCHANGED <<fixed, now>>

DeliveryRefused(evidence) ==
  /\ ~Instant /\ escrow = "HELD"
  /\ EvidenceError(evidence, highValue) # "NONE"
  /\ Refuse(EvidenceError(evidence, highValue))

WompiChargeback ==
  /\ ~Instant /\ escrow \in {"HELD", "RELEASED"}
  /\ Enter("REFUNDED")
  /\ UNCHANGED <<fixed, windowEnds, now, proof>>

BuyerDispute ==
  /\ ~Instant /\ escrow = "RELEASED"
  /\ windowEnds # NoWindow /\ now <= windowEnds
  /\ Enter("DISPUTED")
  /\ UNCHANGED <<fixed, windowEnds, now, proof>>

DisputeTooLate ==
  /\ ~Instant /\ escrow = "RELEASED"
  /\ windowEnds # NoWindow /\ now > windowEnds
  /\ Refuse("DISPUTE_WINDOW_CLOSED")

ResolveByRelease(winner) ==   \* mutant: resolves through markReleased
  /\ ~Instant /\ escrow = "DISPUTED"
  /\ IF winner = "FOR_SELLER" THEN MarkReleased ELSE Enter("REFUNDED") /\ UNCHANGED windowEnds
  /\ UNCHANGED <<fixed, now, proof>>

DpoResolve(winner) ==
  /\ ~Instant /\ escrow = "DISPUTED"
  /\ Enter(IF winner = "FOR_SELLER" THEN "RELEASED" ELSE "REFUNDED")
  /\ UNCHANGED <<fixed, windowEnds, now, proof>>

(* Every event of the machine that is not offered in one of the states that
   accept it; it also stands for a dispute without a reason and a resolution
   that names no side. *)
InvalidTransition == Refuse("INVALID_TRANSITION")

Tick ==
  /\ now < MaxTime
  /\ now' = now + 1
  /\ UNCHANGED <<fixed, escrow, windowEnds, error, proof>>

Next ==
  \/ WompiApproved
  \/ \E evidence \in Evidence : DeliveryConfirm(evidence) \/ DeliveryRefused(evidence)
  \/ WompiChargeback
  \/ BuyerDispute
  \/ DisputeTooLate
  \/ \E winner \in {"FOR_SELLER", "FOR_BUYER"} : DpoResolve(winner)
  \/ InvalidTransition
  \/ Tick

Spec == Init /\ [][Next]_vars

----

(***************************************************************************)
(* A high-value payment whose money has been released to the seller was    *)
(* delivered with photo and signature, whatever was disputed, resolved or  *)
(* refused in between (RULES of escrow.ts, "Evidence of delivery").        *)
(***************************************************************************)
ReleaseIsProven ==
  ~Instant /\ highValue /\ escrow \in {"RELEASED", "DISPUTED"} => proof = "full"

(***************************************************************************)
(* A payment on an instant channel is never held, disputed or refunded:    *)
(* the transfer is irreversible (RULES of escrow.ts, "Bre-B cannot be      *)
(* disputed").                                                             *)
(***************************************************************************)
InstantIsIrreversible == Instant => escrow \in {"NONE", "RELEASED"}

(***************************************************************************)
(* The 72 hours are counted from the first release: no later event, and in *)
(* particular no resolution in favour of the seller, gives the buyer a     *)
(* second window.                                                          *)
(***************************************************************************)
WindowNeverRestarts ==
  [][windowEnds # NoWindow => windowEnds' = windowEnds]_vars
====
