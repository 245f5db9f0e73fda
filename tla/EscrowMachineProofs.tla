---- MODULE EscrowMachineProofs ----
(***************************************************************************)
(* Proofs about EscrowMachine, for every length of the dispute window and  *)
(* without a bound on the clock other than MaxTime.                        *)
(***************************************************************************)
EXTENDS EscrowMachine, TLAPS

USE DEF fixed, Enter, Refuse, MarkReleased, Instant

(***************************************************************************)
(* A dispute window exists only once the payment has been released.        *)
(***************************************************************************)
WindowFollowsRelease == escrow \in {"NONE", "HELD"} => windowEnds = NoWindow

IInv == TypeOK /\ WindowFollowsRelease /\ ReleaseIsProven /\ InstantIsIrreversible

LEMMA Accepted ==
  ASSUME NEW evidence \in Evidence, NEW high \in BOOLEAN, NEW c, NEW s,
         DeliveryAccepted(c, high, s, evidence)
  PROVE  high => evidence = "full"
  BY DEF DeliveryAccepted, EvidenceError, Evidence

LEMMA Refusals ==
  ASSUME NEW evidence \in Evidence, NEW high \in BOOLEAN
  PROVE  EvidenceError(evidence, high) \in Error
  BY DEF EvidenceError, Evidence, Error

LEMMA InitIInv == Init => IInv
<1>. SUFFICES ASSUME Init PROVE IInv
  OBVIOUS
<1>1. TypeOK
  <2>1. now \in 0 .. MaxTime
    BY WindowAssumption DEF Init
  <2>. QED
    BY <2>1 DEF Init, TypeOK, EscrowState, Error, Evidence
<1>2. WindowFollowsRelease /\ ReleaseIsProven /\ InstantIsIrreversible
  BY DEF Init, WindowFollowsRelease, ReleaseIsProven, InstantIsIrreversible
<1>. QED
  BY <1>1, <1>2 DEF IInv

LEMMA NextIInv == IInv /\ [Next]_vars => IInv'
<1>. SUFFICES ASSUME IInv, [Next]_vars PROVE IInv'
  OBVIOUS
<1>. USE WindowAssumption DEF IInv, TypeOK, WindowFollowsRelease, ReleaseIsProven,
                              InstantIsIrreversible, EscrowState, NoWindow
<1>1. CASE WompiApproved
  BY <1>1 DEF WompiApproved, Error
<1>2. ASSUME NEW evidence \in Evidence, DeliveryConfirm(evidence) PROVE IInv'
  BY <1>2, Accepted DEF DeliveryConfirm, DeliveryAccepted, Error
<1>3. ASSUME NEW evidence \in Evidence, DeliveryRefused(evidence) PROVE IInv'
  BY <1>3, Refusals DEF DeliveryRefused
<1>4. CASE WompiChargeback
  BY <1>4 DEF WompiChargeback, Error
<1>5. CASE BuyerDispute
  BY <1>5 DEF BuyerDispute, Error
<1>6. CASE DisputeTooLate
  BY <1>6 DEF DisputeTooLate, Error
<1>7. ASSUME NEW winner, DpoResolve(winner) PROVE IInv'
  BY <1>7 DEF DpoResolve, Error
<1>8. CASE InvalidTransition
  BY <1>8 DEF InvalidTransition, Error
<1>9. CASE Tick
  BY <1>9 DEF Tick
<1>10. CASE UNCHANGED vars
  BY <1>10 DEF vars
<1>. QED
  BY <1>1, <1>2, <1>3, <1>4, <1>5, <1>6, <1>7, <1>8, <1>9, <1>10 DEF Next

(***************************************************************************)
(* Releases are proven, instant payments are irreversible.                 *)
(***************************************************************************)
THEOREM ReleasesAreProven == Spec => [](TypeOK /\ ReleaseIsProven /\ InstantIsIrreversible)
<1>1. IInv => TypeOK /\ ReleaseIsProven /\ InstantIsIrreversible
  BY DEF IInv
<1>. QED
  BY <1>1, InitIInv, NextIInv, PTL DEF Spec

(***************************************************************************)
(* There is one dispute window, and it is never moved: only a release      *)
(* opens one, and no payment is released from HELD or NONE twice.          *)
(***************************************************************************)
THEOREM OneWindow == Spec => WindowNeverRestarts
<1>1. IInv /\ [Next]_vars => [windowEnds # NoWindow => windowEnds' = windowEnds]_vars
  BY DEF IInv, WindowFollowsRelease, Next, vars, WompiApproved, DeliveryConfirm, DeliveryAccepted,
         DeliveryRefused, WompiChargeback, BuyerDispute, DisputeTooLate, DpoResolve,
         InvalidTransition, Tick
<1>. QED
  BY <1>1, InitIInv, NextIInv, PTL DEF Spec, WindowNeverRestarts
====
