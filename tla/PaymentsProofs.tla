---- MODULE PaymentsProofs ----
(***************************************************************************)
(* Proofs about Payments, for any number of payments, users and requests   *)
(* in execution.  The invariants are proved in the order in which they     *)
(* rest on one another: types, then what Wompi's record implies (Money),   *)
(* then what the marks of ProcessedWebhooks imply (Marks), and at last     *)
(* that the table implements EscrowLifecycle.                              *)
(***************************************************************************)
EXTENDS Payments, SumsProofs

USE DEF EventType, Path, WebhookPath, PC, EscrowState, Status, WompiState

(***************************************************************************)
(* The dispute route has refused before it changes anything, and only a    *)
(* webhook has a mark to make.                                             *)
(***************************************************************************)
Movers ==
  \A w \in Worker :
    /\ pc[w] \in {"wompi", "query", "reverse", "transition"} => path[w] # "dispute"
    /\ pc[w] = "mark" => path[w] \in WebhookPath

Typed == TypeOK /\ Movers

LEMMA InitTyped == Init => Typed
<1>1. Tx # {} => SomeTx \in Tx
  BY DEF SomeTx
<1>. QED
  BY <1>1, ConstantsAssumption DEF Init, Typed, TypeOK, Movers

(***************************************************************************)
(* A transition of a typed request leads from one escrow state to another. *)
(***************************************************************************)
LEMMA Moves ==
  ASSUME Typed, NEW w \in Worker, Transition(w)
  PROVE  /\ path[w] \in {"approved", "disputed", "reversed", "refund", "delivery"}
         /\ escrow[tx[w]] \in {"NONE", "HELD"}
         /\ To(path[w]) \in EscrowState \ {"NONE"}
         /\ To(path[w]) = "HELD" => escrow[tx[w]] = "NONE" /\ path[w] = "approved"
         /\ To(path[w]) # "HELD" => escrow[tx[w]] = "HELD"
         /\ path[w] \in {"reversed", "refund"} <=> To(path[w]) = "REFUNDED"
         /\ path[w] = "disputed" <=> To(path[w]) = "DISPUTED"
<1>1. path[w] \in Path /\ path[w] # "dispute" /\ escrow[tx[w]] \in EscrowState
  BY DEF Typed, TypeOK, Movers, Transition
<1>2. escrow[tx[w]] = From(path[w])
  BY DEF Transition
<1>. QED
  BY <1>1, <1>2 DEF From, To

LEMMA NextTyped == Typed /\ [Next]_vars => Typed'
<1>. SUFFICES ASSUME Typed, [Next]_vars PROVE Typed'
  OBVIOUS
<1>. USE DEF table, bonuses, wallets, request, outside
<1>0. SomeTx \in Tx
  BY ConstantsAssumption DEF SomeTx
<1>1. ASSUME NEW t \in Tx, NEW s \in WompiState, NEW e \in EventType, WompiDecides(t, s, e)
      PROVE  Typed'
  BY <1>1 DEF Typed, TypeOK, Movers, WompiDecides, Emit, Event
<1>2. ASSUME NEW e \in Event, EventAges(e) PROVE Typed'
  BY <1>2 DEF Typed, TypeOK, Movers, EventAges
<1>3. ASSUME NEW t \in Tx, Reconcile(t) \/ WompiPays(t) PROVE Typed'
  BY <1>3 DEF Typed, TypeOK, Movers, Reconcile, WompiPays, Emit, Event
<1>a. BonusAmt \in Int /\ \A b \in Claimable : b[2] \in User /\ KeyOf(b) \in User \X Rule
  BY ConstantsAssumption DEF KeyOf
<1>4. ASSUME NEW b \in Claimable, BonusClaim(b) PROVE Typed'
  <2>1. balance' \in [User -> Int]
    BY <1>4, <1>a DEF Typed, TypeOK, BonusClaim
  <2>. QED
    BY <1>4, <2>1 DEF Typed, TypeOK, Movers, BonusClaim
<1>5. ASSUME NEW w \in Worker, NEW t \in Tx, NEW e \in EventType, WebhookReplay(w, t, e)
      PROVE  Typed'
  BY <1>5 DEF Typed, TypeOK, Movers, WebhookReplay, Start
<1>6. ASSUME NEW w \in Worker, NEW t \in Tx, NEW e \in EventType, WebhookDispatch(w, t, e)
      PROVE  Typed'
  <2>1. PICK p \in WebhookPath, c \in {"query", "transition"} : Start(w, t, p, c)
    BY <1>6 DEF WebhookDispatch
  <2>. QED
    BY <1>6, <2>1 DEF Typed, TypeOK, Movers, WebhookDispatch, Start
<1>7. ASSUME NEW w \in Worker, NEW t \in Tx,
             RefundRequest(w, t) \/ DeliveryConfirm(w, t) \/ DisputeRequest(w, t)
      PROVE  Typed'
  BY <1>7 DEF Typed, TypeOK, Movers, RefundRequest, DeliveryConfirm, DisputeRequest, Start
<1>8. ASSUME NEW w \in Worker, RefundAccepted(w) \/ RefundFailed(w) PROVE Typed'
  <2>1. /\ registered' \subseteq Tx /\ paidBack' \subseteq Tx
        /\ wompi' \in [Tx -> WompiState] /\ emitted' \subseteq Event
    BY <1>8 DEF Typed, TypeOK, RefundAccepted, RefundFailed, Paid, Emit, Event
  <2>. QED
    BY <1>8, <2>1 DEF Typed, TypeOK, Movers, RefundAccepted, RefundFailed, Goto, Answer
<1>9. ASSUME NEW w \in Worker, ReverseQuery(w) \/ ReverseBonus(w) \/ ReverseRefused(w)
      PROVE  Typed'
  <2>0. found \in [Worker -> SUBSET Claimable]
    BY DEF Typed, TypeOK
  <2>1. balance' \in [User -> Int]
    <3>1. CASE ReverseBonus(w)
      <4>1. PICK b \in found[w] : balance' = [balance EXCEPT ![b[2]] = @ - TotalDebit(found[w])]
        BY <3>1 DEF ReverseBonus
      <4>2. b \in Claimable /\ IsFiniteSet(found[w])
        BY <2>0, ConstantsAssumption, FS_Subset
      <4>3. TotalDebit(found[w]) \in Int
        BY <4>2, <1>a, FS_CardinalityType DEF TotalDebit
      <4>. QED
        BY <4>1, <4>2, <4>3, <1>a DEF Typed, TypeOK
    <3>. QED
      BY <1>9, <3>1 DEF Typed, TypeOK, ReverseQuery, ReverseRefused, bonuses
  <2>2. reversed' \subseteq User \X Rule /\ takenBack' \in Nat
    <3>1. CASE ReverseBonus(w)
      <4>1. found[w] \subseteq Claimable
        BY <2>0
      <4>2. IsFiniteSet(found[w]) /\ Cardinality(found[w]) \in Nat
        BY <4>1, ConstantsAssumption, FS_Subset, FS_CardinalityType
      <4>. QED
        BY <3>1, <4>1, <4>2, <1>a DEF Typed, TypeOK, ReverseBonus
    <3>. QED
      BY <1>9, <3>1 DEF Typed, TypeOK, ReverseQuery, ReverseRefused, bonuses
  <2>3. /\ pc' \in [Worker -> PC] /\ reply' \in [Worker -> {"none", "ok", "error"}]
        /\ found' \in [Worker -> SUBSET Claimable]
    BY <1>9 DEF Typed, TypeOK, ReverseQuery, ReverseBonus, ReverseRefused
  <2>4. path[w] # "dispute"
    BY <1>9 DEF Typed, Movers, ReverseQuery, ReverseBonus, ReverseRefused
  <2>5. Movers'
    BY <1>9, <2>4 DEF Typed, TypeOK, Movers, ReverseQuery, ReverseBonus, ReverseRefused
  <2>. QED
    BY <1>9, <2>1, <2>2, <2>3, <2>5
    DEF Typed, TypeOK, ReverseQuery, ReverseBonus, ReverseRefused, bonuses
<1>10. ASSUME NEW w \in Worker, Transition(w) PROVE Typed'
  <2>1. To(path[w]) \in EscrowState /\ path[w] # "dispute"
    BY <1>10, Moves
  <2>2. escrow' \in [Tx -> EscrowState] /\ version' \in [Tx -> Nat]
    BY <1>10, <2>1 DEF Typed, TypeOK, Transition
  <2>3. pc' \in [Worker -> PC] /\ reply' \in [Worker -> {"none", "ok", "error"}]
    BY <1>10 DEF Typed, TypeOK, Transition, AfterTransition
  <2>. QED
    BY <1>10, <2>1, <2>2, <2>3 DEF Typed, TypeOK, Movers, Transition, AfterTransition
<1>11. ASSUME NEW w \in Worker, TransitionRefused(w) \/ Mark(w) PROVE Typed'
  <2>1. /\ pc' = [pc EXCEPT ![w] = "respond"]
        /\ \E r \in {"ok", "error"} : reply' = [reply EXCEPT ![w] = r]
        /\ UNCHANGED <<table, status, bonuses, wallets, request, aborts, outside>>
    BY <1>11 DEF TransitionRefused, Mark, Answer
  <2>2. processed' \subseteq Event
    BY <1>11 DEF Typed, TypeOK, Movers, TransitionRefused, Mark, EventOf, Event
  <2>. QED
    BY <2>1, <2>2 DEF Typed, TypeOK, Movers
<1>12. ASSUME NEW w \in Worker, Respond(w) \/ Abort(w) PROVE Typed'
  BY <1>12, <1>0 DEF Typed, TypeOK, Movers, Respond, Abort, Finish, EventOf, Event
<1>13. ASSUME NEW u \in User, NEW amount \in 1 .. BonusAmt, Spend(u, amount) PROVE Typed'
  BY <1>13, ConstantsAssumption DEF Typed, TypeOK, Movers, Spend
<1>14. CASE UNCHANGED vars
  BY <1>14 DEF Typed, TypeOK, Movers, vars
<1>. QED
  BY <1>1, <1>2, <1>3, <1>4, <1>5, <1>6, <1>7, <1>8, <1>9, <1>10, <1>11, <1>12, <1>13, <1>14
     DEF Next, Step, Deliver

(***************************************************************************)
(* Type correctness.                                                       *)
(***************************************************************************)
THEOREM TypeCorrect == Spec => []TypeOK
<1>1. Typed => TypeOK
  BY DEF Typed
<1>. QED
  BY <1>1, InitTyped, NextTyped, PTL DEF Spec

----
(***************************************************************************)
(* Money.  What an event tells of the payment stays true of it, and every  *)
(* request acts upon an event that was sent or a refund that was made.     *)
(***************************************************************************)
After(e) ==
  CASE e = "approved" -> Captured
    [] e = "disputed" -> {"DISPUTED", "REVERSED"}
    [] e = "reversed" -> {"REVERSED"}
    [] OTHER -> WompiState

EventsAreTrue == \A e \in emitted : wompi[e[1]] \in After(e[2])

RequestsAreTrue ==
  \A w \in Worker :
    /\ pc[w] = "wompi" => path[w] = "refund"
    /\ pc[w] \in {"query", "reverse", "transition"} =>
         /\ path[w] \in EventType => <<tx[w], path[w]>> \in emitted
         /\ path[w] = "refund" => tx[w] \in registered

Money == EventsAreTrue /\ RequestsAreTrue /\ EscrowFollowsMoney

LEMMA InitMoney == Init => Money
  BY DEF Init, Money, EventsAreTrue, RequestsAreTrue, EscrowFollowsMoney, Holders

(***************************************************************************)
(* The step of a request or of the wallet that is none of the four that    *)
(* move Wompi's record leaves all that is outside the table alone, but for *)
(* what Wompi saw acknowledged, its clock and the count of refunds.        *)
(***************************************************************************)
MoneyMoves ==
  \/ \E t \in Tx, s \in WompiState, e \in EventType : WompiDecides(t, s, e)
  \/ \E t \in Tx : WompiPays(t)
  \/ \E w \in Worker : RefundAccepted(w) \/ RefundFailed(w)

LEMMA MoneyMovesOn ==
  ASSUME Typed, MoneyMoves
  PROVE  /\ \A t \in Tx, e \in EventType : wompi[t] \in After(e) => wompi'[t] \in After(e)
         /\ \A t \in Tx : wompi[t] \in Holders(escrow[t]) => wompi'[t] \in Holders(escrow[t])
         /\ emitted \subseteq emitted'
         /\ \A e \in emitted' \ emitted : wompi'[e[1]] \in After(e[2])
         /\ registered \subseteq registered'
         /\ UNCHANGED escrow
<1>1. ASSUME NEW t \in Tx, NEW s \in WompiState, NEW e \in EventType, WompiDecides(t, s, e)
      PROVE  /\ \A r \in Tx : wompi'[r] = IF r = t THEN s ELSE wompi[r]
             /\ emitted' = emitted \cup {<<t, e>>}
             /\ s \in After(e)
             /\ wompi[t] # "PENDING" => s \in {"DISPUTED", "REVERSED"}
             /\ wompi[t] \in {"PENDING", "APPROVED", "DISPUTED"}
             /\ wompi[t] = "DISPUTED" => s = "REVERSED"
             /\ UNCHANGED <<escrow, registered>>
  <2>1. \/ wompi[t] = "PENDING" /\ s = "APPROVED" /\ e = "approved"
        \/ wompi[t] = "PENDING" /\ e \in {"declined", "voided", "error"}
        \/ wompi[t] = "APPROVED" /\ s = "DISPUTED" /\ e = "disputed"
        \/ wompi[t] \in {"APPROVED", "DISPUTED"} /\ s = "REVERSED" /\ e = "reversed"
    BY <1>1 DEF WompiDecides
  <2>2. s \in After(e)
    BY <2>1 DEF After, Captured
  <2>3. /\ wompi' = [wompi EXCEPT ![t] = s] /\ emitted' = emitted \cup {<<t, e>>}
        /\ UNCHANGED <<escrow, registered>>
    BY <1>1 DEF WompiDecides, Emit, table
  <2>4. wompi \in [Tx -> WompiState]
    BY DEF Typed, TypeOK
  <2>. QED
    BY <2>1, <2>2, <2>3, <2>4
<1>2. ASSUME NEW t \in Tx,
             \/ WompiPays(t)
             \/ \E w \in Worker : t = tx[w] /\ (RefundAccepted(w) \/ RefundFailed(w))
      PROVE  /\ \A r \in Tx : wompi'[r] \in {wompi[r], "REVERSED"}
             /\ \A r \in Tx : wompi'[r] # wompi[r] => wompi[r] \in {"APPROVED", "DISPUTED"}
             /\ emitted' \in {emitted, emitted \cup {<<t, "reversed">>}}
             /\ emitted' # emitted => wompi'[t] = "REVERSED"
             /\ registered \subseteq registered'
             /\ UNCHANGED escrow
  BY <1>2 DEF Typed, TypeOK, WompiPays, RefundAccepted, RefundFailed, Refundable, Paid, Emit, table
<1>a. \A w \in Worker : tx[w] \in Tx
  BY DEF Typed, TypeOK
<1>3. \A t \in Tx, e \in EventType : wompi[t] \in After(e) => wompi'[t] \in After(e)
  BY <1>1, <1>2, <1>a DEF MoneyMoves, Typed, TypeOK, After, Captured
<1>4. \A t \in Tx : wompi[t] \in Holders(escrow[t]) => wompi'[t] \in Holders(escrow[t])
  BY <1>1, <1>2, <1>a DEF MoneyMoves, Typed, TypeOK, Holders, Captured
<1>5. emitted \subseteq emitted' /\ registered \subseteq registered' /\ UNCHANGED escrow
  BY <1>1, <1>2, <1>a DEF MoneyMoves
<1>6. \A e \in emitted' \ emitted : wompi'[e[1]] \in After(e[2])
  BY <1>1, <1>2, <1>a DEF MoneyMoves, After
<1>. QED
  BY <1>3, <1>4, <1>5, <1>6

LEMMA NextMoney == Typed /\ Money /\ [Next]_vars => Money'
<1>. SUFFICES ASSUME Typed, Money, [Next]_vars PROVE Money'
  OBVIOUS
<1>. USE DEF table, bonuses, wallets, request, outside
<1>1. CASE MoneyMoves
  <2>1. EventsAreTrue'
    BY <1>1, MoneyMovesOn DEF Money, EventsAreTrue, Typed, TypeOK, Event
  <2>2. EscrowFollowsMoney'
    <3>1. \A t \in Tx : wompi[t] = "REVERSED" => wompi'[t] = "REVERSED"
      BY <1>1, MoneyMovesOn DEF After
    <3>. QED
      BY <1>1, <3>1, MoneyMovesOn DEF Money, EscrowFollowsMoney
  <2>3. ASSUME NEW t \in Tx, NEW s \in WompiState, NEW e \in EventType, WompiDecides(t, s, e)
        PROVE  RequestsAreTrue'
    <3>1. emitted \subseteq emitted' /\ registered \subseteq registered'
      BY <1>1, MoneyMovesOn
    <3>2. UNCHANGED <<pc, path, tx>>
      BY <2>3 DEF WompiDecides
    <3>. QED
      BY <3>1, <3>2 DEF Money, RequestsAreTrue, Typed, TypeOK
  <2>5. ASSUME NEW t \in Tx, WompiPays(t) PROVE RequestsAreTrue'
    <3>1. emitted \subseteq emitted' /\ registered \subseteq registered'
      BY <1>1, MoneyMovesOn
    <3>2. UNCHANGED <<pc, path, tx>>
      BY <2>5 DEF WompiPays
    <3>. QED
      BY <3>1, <3>2 DEF Money, RequestsAreTrue, Typed, TypeOK
  <2>4. ASSUME NEW w \in Worker, RefundAccepted(w) \/ RefundFailed(w)
        PROVE  RequestsAreTrue'
    <3>1. emitted \subseteq emitted' /\ registered \subseteq registered'
      BY <1>1, MoneyMovesOn
    <3>2. UNCHANGED <<path, tx>>
      BY <2>4 DEF RefundAccepted, RefundFailed, Goto
    <3>3. \/ pc' = [pc EXCEPT ![w] = "query"] /\ tx[w] \in registered'
          \/ pc' = [pc EXCEPT ![w] = "respond"]
      BY <2>4 DEF RefundAccepted, RefundFailed, Goto, Answer, Typed, TypeOK
    <3>4. path[w] = "refund"
      BY <2>4 DEF RefundAccepted, RefundFailed, Money, RequestsAreTrue
    <3>. QED
      BY <3>1, <3>2, <3>3, <3>4 DEF Money, RequestsAreTrue, Typed, TypeOK
  <2>. QED
    BY <1>1, <2>1, <2>2, <2>3, <2>4, <2>5 DEF MoneyMoves, Money
<1>2. ASSUME NEW w \in Worker, Transition(w) PROVE Money'
  <2>1. UNCHANGED <<wompi, emitted, registered, tx, path>>
    BY <1>2 DEF Transition
  <2>2. pc' = [pc EXCEPT ![w] = IF path[w] \in WebhookPath THEN "mark" ELSE "respond"]
    BY <1>2 DEF Transition, AfterTransition
  <2>3. RequestsAreTrue' /\ EventsAreTrue'
    BY <2>1, <2>2 DEF Money, RequestsAreTrue, EventsAreTrue, After, Typed, TypeOK
  <2>4. tx[w] \in Tx /\ escrow' = [escrow EXCEPT ![tx[w]] = To(path[w])]
    BY <1>2 DEF Transition, Typed, TypeOK
  <2>5. \/ To(path[w]) # "REFUNDED" /\ wompi[tx[w]] \in Holders(To(path[w]))
        \/ To(path[w]) = "REFUNDED" /\ (wompi[tx[w]] = "REVERSED" \/ tx[w] \in registered)
    <3>1. path[w] \in {"approved", "disputed", "reversed"} => wompi[tx[w]] \in After(path[w])
      BY <1>2 DEF Transition, Money, RequestsAreTrue, EventsAreTrue
    <3>2. path[w] = "refund" => tx[w] \in registered
      BY <1>2 DEF Transition, Money, RequestsAreTrue
    <3>3. path[w] = "delivery" => wompi[tx[w]] \in Captured
      <4>1. path[w] = "delivery" => escrow[tx[w]] = "HELD"
        BY <1>2 DEF Transition, From
      <4>. QED
        BY <2>4, <4>1 DEF Money, EscrowFollowsMoney, Holders
    <3>. QED
      BY <1>2, <3>1, <3>2, <3>3, Moves DEF To, After, Holders, Captured
  <2>6. EscrowFollowsMoney'
    BY <2>1, <2>4, <2>5 DEF Money, EscrowFollowsMoney, Typed, TypeOK
  <2>. QED
    BY <2>3, <2>6 DEF Money
<1>3. CASE ~MoneyMoves /\ ~(\E w \in Worker : Transition(w))
  <2>. UNCHANGED <<wompi, emitted, registered, escrow>>
    BY <1>3
    DEF MoneyMoves, Next, Step, Deliver, vars, EventAges, Reconcile, WompiPays, BonusClaim, WebhookReplay,
        WebhookDispatch, RefundRequest, DeliveryConfirm, DisputeRequest, ReverseQuery,
        ReverseBonus, ReverseRefused, TransitionRefused, Mark, Respond, Abort, Spend
  <2>1. EventsAreTrue' /\ EscrowFollowsMoney'
    BY DEF Money, EventsAreTrue, EscrowFollowsMoney, After, Holders
  <2>. SUFFICES RequestsAreTrue'
    BY <2>1 DEF Money
  <2>2. ASSUME NEW w \in Worker, NEW t \in Tx, NEW e \in EventType,
               WebhookReplay(w, t, e) \/ WebhookDispatch(w, t, e)
        PROVE  RequestsAreTrue'
    <3>1. PICK p \in WebhookPath, c \in PC \ {"wompi"} : Start(w, t, p, c) /\ (p \in EventType => p = e)
      BY <2>2 DEF WebhookReplay, WebhookDispatch
    <3>2. <<t, e>> \in emitted
      BY <2>2 DEF WebhookReplay, WebhookDispatch
    <3>. QED
      BY <3>1, <3>2 DEF Start, Money, RequestsAreTrue, Typed, TypeOK
  <2>3. ASSUME NEW w \in Worker, NEW t \in Tx,
               RefundRequest(w, t) \/ DeliveryConfirm(w, t) \/ DisputeRequest(w, t)
        PROVE  RequestsAreTrue'
    BY <2>3
    DEF RefundRequest, DeliveryConfirm, DisputeRequest, Start, Money, RequestsAreTrue, Typed, TypeOK
  <2>4. ASSUME NEW w \in Worker,
               ReverseQuery(w) \/ ReverseBonus(w) \/ ReverseRefused(w) \/ TransitionRefused(w) \/ Mark(w)
        PROVE  RequestsAreTrue'
    BY <2>4
    DEF ReverseQuery, ReverseBonus, ReverseRefused, TransitionRefused, Mark, Goto, Answer,
        Money, RequestsAreTrue, Typed, TypeOK
  <2>5. ASSUME NEW w \in Worker, Respond(w) \/ Abort(w) PROVE RequestsAreTrue'
    BY <2>5 DEF Respond, Abort, Finish, Money, RequestsAreTrue, Typed, TypeOK
  <2>6. CASE UNCHANGED <<pc, tx, path>>
    BY <2>6 DEF Money, RequestsAreTrue
  <2>. QED
    BY <1>3, <2>2, <2>3, <2>4, <2>5, <2>6
    DEF MoneyMoves, Next, Step, Deliver, vars, EventAges, Reconcile, WompiPays, BonusClaim, Spend
<1>. QED
  BY <1>1, <1>2, <1>3

(***************************************************************************)
(* The table never runs ahead of Wompi's record.                           *)
(***************************************************************************)
THEOREM MoneyFirst == Spec => []EscrowFollowsMoney
<1>1. Money => EscrowFollowsMoney
  BY DEF Money
<1>. QED
  BY <1>1, InitTyped, NextTyped, InitMoney, NextMoney, PTL DEF Spec

----
(***************************************************************************)
(* Marks.  A request is about to mark, or to report as done, only what has *)
(* happened.                                                               *)
(***************************************************************************)
Done(w) == escrow[tx[w]] \in Effect(EventOf(w)[2])

MarkersAreDone == \A w \in Worker : pc[w] = "mark" => Done(w)

RepliesAreTrue ==
  \A w \in Worker :
    pc[w] = "respond" /\ reply[w] = "ok" /\ path[w] \in WebhookPath => EventOf(w) \in processed

Marks == MarkersAreDone /\ RepliesAreTrue /\ ProcessedTookEffect /\ AckedIsProcessed

LEMMA InitMarks == Init => Marks
  BY DEF Init, Marks, MarkersAreDone, RepliesAreTrue, ProcessedTookEffect, AckedIsProcessed

(***************************************************************************)
(* The effect of an event is never undone.                                 *)
(***************************************************************************)
LEMMA EffectsLast ==
  ASSUME Typed, NEW w \in Worker, Transition(w)
  PROVE  /\ \A t \in Tx, e \in EventType : escrow[t] \in Effect(e) => escrow'[t] \in Effect(e)
         /\ path[w] \in WebhookPath => escrow'[tx[w]] \in Effect(EventOf(w)[2])
<1>1. tx[w] \in Tx /\ escrow \in [Tx -> EscrowState] /\ escrow' = [escrow EXCEPT ![tx[w]] = To(path[w])]
  BY DEF Typed, TypeOK, Transition
<1>2. \A e \in EventType : escrow[tx[w]] \in Effect(e) => To(path[w]) \in Effect(e)
  BY Moves DEF Effect
<1>3. path[w] \in WebhookPath => To(path[w]) \in Effect(EventOf(w)[2])
  BY Moves DEF Effect, EventOf
<1>. QED
  BY <1>1, <1>2, <1>3

LEMMA NextMarks == Typed /\ Marks /\ [Next]_vars => Marks'
<1>. SUFFICES ASSUME Typed, Marks, [Next]_vars PROVE Marks'
  OBVIOUS
<1>. USE DEF table, bonuses, wallets, request, outside
<1>1. ASSUME NEW w \in Worker, Transition(w) PROVE Marks'
  <2>1. UNCHANGED <<tx, path, processed, acked>>
    BY <1>1 DEF Transition
  <2>2. \A v \in Worker : EventOf(v)' = EventOf(v) /\ (pc[v] = "mark" => EventOf(v)[2] \in EventType)
    BY <2>1 DEF EventOf, Typed, Movers
  <2>3. /\ pc' = [pc EXCEPT ![w] = AfterTransition(path[w])]
        /\ reply' = [reply EXCEPT ![w] = IF path[w] \in WebhookPath THEN "none" ELSE "ok"]
    BY <1>1 DEF Transition
  <2>4. MarkersAreDone'
    BY <1>1, <2>1, <2>2, <2>3, EffectsLast
    DEF Marks, MarkersAreDone, Done, Typed, TypeOK, AfterTransition
  <2>5. RepliesAreTrue'
    BY <2>1, <2>2, <2>3 DEF Marks, RepliesAreTrue, Typed, TypeOK, AfterTransition
  <2>6. ProcessedTookEffect' /\ AckedIsProcessed'
    BY <1>1, <2>1, EffectsLast
    DEF Marks, ProcessedTookEffect, AckedIsProcessed, Typed, TypeOK, Event
  <2>. QED
    BY <2>4, <2>5, <2>6 DEF Marks
<1>2. ASSUME NEW w \in Worker, Mark(w) PROVE Marks'
  <2>1. /\ UNCHANGED <<tx, path, escrow, acked>>
        /\ processed' = processed \cup {EventOf(w)}
        /\ \A v \in Worker : EventOf(v)' = EventOf(v)
    BY <1>2 DEF Mark, EventOf
  <2>2. escrow[EventOf(w)[1]] \in Effect(EventOf(w)[2])
    BY <1>2 DEF Mark, Marks, MarkersAreDone, Done, EventOf
  <2>3. ProcessedTookEffect' /\ AckedIsProcessed'
    BY <2>1, <2>2 DEF Marks, ProcessedTookEffect, AckedIsProcessed, Effect
  <2>4. pc' = [pc EXCEPT ![w] = "respond"] /\ reply' = [reply EXCEPT ![w] = "ok"]
    BY <1>2 DEF Mark, Answer
  <2>5. MarkersAreDone' /\ RepliesAreTrue'
    BY <2>1, <2>4 DEF Marks, MarkersAreDone, RepliesAreTrue, Done, Effect, Typed, TypeOK
  <2>. QED
    BY <2>3, <2>5 DEF Marks
<1>3. ASSUME NEW w \in Worker, Respond(w) \/ Abort(w) PROVE Marks'
  <2>1. /\ UNCHANGED <<escrow, processed>>
        /\ pc' = [pc EXCEPT ![w] = "idle"]
        /\ \A v \in Worker \ {w} : EventOf(v)' = EventOf(v) /\ UNCHANGED <<tx[v], path[v], reply[v]>>
    BY <1>3 DEF Respond, Abort, Finish, EventOf, Typed, TypeOK
  <2>2. acked' \subseteq processed
    BY <1>3 DEF Respond, Abort, Marks, RepliesAreTrue, AckedIsProcessed
  <2>3. ProcessedTookEffect' /\ AckedIsProcessed'
    BY <2>1, <2>2 DEF Marks, ProcessedTookEffect, AckedIsProcessed, Effect
  <2>4. MarkersAreDone' /\ RepliesAreTrue'
    BY <2>1 DEF Marks, MarkersAreDone, RepliesAreTrue, Done, Effect, Typed, TypeOK
  <2>. QED
    BY <2>3, <2>4 DEF Marks
<1>4. CASE /\ ~(\E w \in Worker : Transition(w) \/ Mark(w) \/ Respond(w) \/ Abort(w))
  <2>. UNCHANGED <<escrow, processed, acked>>
    BY <1>4
    DEF Next, Step, Deliver, vars, WompiDecides, EventAges, Reconcile, WompiPays, BonusClaim, WebhookReplay,
        WebhookDispatch, RefundRequest, RefundAccepted, RefundFailed, DeliveryConfirm,
        DisputeRequest, ReverseQuery, ReverseBonus, ReverseRefused, TransitionRefused, Spend
  <2>1. ProcessedTookEffect' /\ AckedIsProcessed'
    BY DEF Marks, ProcessedTookEffect, AckedIsProcessed, Effect
  <2>. SUFFICES MarkersAreDone' /\ RepliesAreTrue'
    BY <2>1 DEF Marks
  <2>2. ASSUME NEW w \in Worker, NEW t \in Tx, NEW e \in EventType, WebhookReplay(w, t, e)
        PROVE  MarkersAreDone' /\ RepliesAreTrue'
    <3>1. EventOf(w)' = <<t, e>> /\ <<t, e>> \in processed
      BY <2>2 DEF WebhookReplay, Start, EventOf, Typed, TypeOK
    <3>2. \A v \in Worker \ {w} : EventOf(v)' = EventOf(v) /\ UNCHANGED <<tx[v], path[v], reply[v], pc[v]>>
      BY <2>2 DEF WebhookReplay, Start, EventOf, Typed, TypeOK
    <3>3. pc'[w] = "respond"
      BY <2>2 DEF WebhookReplay, Start, Typed, TypeOK
    <3>. QED
      BY <3>1, <3>2, <3>3 DEF Marks, MarkersAreDone, RepliesAreTrue, Done, Effect
  <2>3. ASSUME NEW w \in Worker, NEW t \in Tx,
               \/ \E e \in EventType : WebhookDispatch(w, t, e)
               \/ RefundRequest(w, t) \/ DeliveryConfirm(w, t) \/ DisputeRequest(w, t)
        PROVE  MarkersAreDone' /\ RepliesAreTrue'
    <3>1. pc'[w] # "mark" /\ (pc'[w] = "respond" => path'[w] = "dispute")
      BY <2>3 DEF WebhookDispatch, RefundRequest, DeliveryConfirm, DisputeRequest, Start, Typed, TypeOK
    <3>2. \A v \in Worker \ {w} : EventOf(v)' = EventOf(v) /\ UNCHANGED <<tx[v], path[v], reply[v], pc[v]>>
      BY <2>3 DEF WebhookDispatch, RefundRequest, DeliveryConfirm, DisputeRequest, Start, EventOf, Typed, TypeOK
    <3>. QED
      BY <3>1, <3>2 DEF Marks, MarkersAreDone, RepliesAreTrue, Done, Effect
  <2>4. ASSUME NEW w \in Worker,
               \/ RefundAccepted(w) \/ RefundFailed(w) \/ TransitionRefused(w)
               \/ ReverseQuery(w) \/ ReverseBonus(w) \/ ReverseRefused(w)
        PROVE  MarkersAreDone' /\ RepliesAreTrue'
    <3>1. pc'[w] # "mark" /\ (pc'[w] = "respond" => reply'[w] = "error")
      BY <2>4
      DEF RefundAccepted, RefundFailed, TransitionRefused, ReverseQuery, ReverseBonus,
          ReverseRefused, Goto, Answer, Typed, TypeOK
    <3>2. \A v \in Worker \ {w} : UNCHANGED <<reply[v], pc[v]>>
      BY <2>4
      DEF RefundAccepted, RefundFailed, TransitionRefused, ReverseQuery, ReverseBonus,
          ReverseRefused, Goto, Answer, Typed, TypeOK
    <3>3. UNCHANGED <<tx, path>> /\ \A v \in Worker : EventOf(v)' = EventOf(v)
      BY <2>4
      DEF RefundAccepted, RefundFailed, TransitionRefused, ReverseQuery, ReverseBonus,
          ReverseRefused, Goto, Answer, EventOf
    <3>. QED
      BY <3>1, <3>2, <3>3 DEF Marks, MarkersAreDone, RepliesAreTrue, Done, Effect
  <2>5. CASE UNCHANGED <<pc, request, reply>>
    BY <2>5 DEF Marks, MarkersAreDone, RepliesAreTrue, Done, Effect, EventOf
  <2>. QED
    BY <1>4, <2>2, <2>3, <2>4, <2>5
    DEF Next, Step, Deliver, vars, WompiDecides, EventAges, Reconcile, WompiPays, BonusClaim, Spend
<1>. QED
  BY <1>1, <1>2, <1>3, <1>4

(***************************************************************************)
(* A mark in ProcessedWebhooks means that the event took effect.           *)
(***************************************************************************)
THEOREM MarksAreTrue == Spec => []ProcessedTookEffect
<1>1. Marks => ProcessedTookEffect
  BY DEF Marks
<1>. QED
  BY <1>1, InitTyped, NextTyped, InitMarks, NextMarks, PTL DEF Spec

(***************************************************************************)
(* A 200 that Wompi saw means that there is a mark: an event it will not   *)
(* send again is one that took effect.                                     *)
(***************************************************************************)
THEOREM AnswersAreTrue == Spec => []AckedIsProcessed
<1>1. Marks => AckedIsProcessed
  BY DEF Marks
<1>. QED
  BY <1>1, InitTyped, NextTyped, InitMarks, NextMarks, PTL DEF Spec

----
(***************************************************************************)
(* Refinement.  A step of Payments either leaves the table alone or is the *)
(* transition of one request, and that is a step of EscrowLifecycle.  The  *)
(* version is a function of the state because every move counts.           *)
(***************************************************************************)
Versions ==
  \A t \in Tx : version[t] = CASE escrow[t] = "NONE" -> 0
                               [] escrow[t] = "HELD" -> 1
                               [] OTHER -> 2

LEMMA TransitionIsMove ==
  ASSUME Typed, Versions, NEW w \in Worker, Transition(w)
  PROVE  Lifecycle!Next /\ Versions'
<1>1. /\ tx[w] \in Tx
      /\ escrow \in [Tx -> EscrowState] /\ version \in [Tx -> Nat]
      /\ escrow' = [escrow EXCEPT ![tx[w]] = To(path[w])]
      /\ version' = [version EXCEPT ![tx[w]] = @ + 1]
  BY DEF Typed, TypeOK, Transition
<1>2. CASE To(path[w]) = "HELD"
  <2>1. escrow[tx[w]] = "NONE" /\ version[tx[w]] = 0
    BY <1>1, <1>2, Moves DEF Versions
  <2>2. version' = [version EXCEPT ![tx[w]] = 1]
    BY <1>1, <2>1
  <2>. QED
    BY <1>1, <1>2, <2>1, <2>2 DEF Versions, Lifecycle!Next, Lifecycle!Capture
<1>3. CASE To(path[w]) # "HELD"
  <2>1. escrow[tx[w]] = "HELD" /\ version[tx[w]] = 1 /\ To(path[w]) \in Lifecycle!Settled
    BY <1>1, <1>3, Moves DEF Versions, Lifecycle!Settled
  <2>2. version' = [version EXCEPT ![tx[w]] = 2]
    BY <1>1, <2>1
  <2>. QED
    BY <1>1, <2>1, <2>2 DEF Versions, Lifecycle!Next, Lifecycle!Settle, Lifecycle!Settled
<1>. QED
  BY <1>2, <1>3

LEMMA NextIsLifecycle ==
  Typed /\ Versions /\ [Next]_vars => [Lifecycle!Next]_<<escrow, version>> /\ Versions'
<1>. SUFFICES ASSUME Typed, Versions, [Next]_vars
              PROVE  [Lifecycle!Next]_<<escrow, version>> /\ Versions'
  OBVIOUS
<1>1. CASE \E w \in Worker : Transition(w)
  BY <1>1, TransitionIsMove
<1>2. CASE ~(\E w \in Worker : Transition(w))
  <2>1. UNCHANGED <<escrow, version>>
    BY <1>2
    DEF Next, Step, Deliver, vars, table, WompiDecides, EventAges, Reconcile, WompiPays, BonusClaim,
        WebhookReplay, WebhookDispatch, RefundRequest, RefundAccepted, RefundFailed,
        DeliveryConfirm, DisputeRequest, ReverseQuery, ReverseBonus, ReverseRefused,
        TransitionRefused, Mark, Respond, Abort, Spend
  <2>. QED
    BY <2>1 DEF Versions
<1>. QED
  BY <1>1, <1>2

(***************************************************************************)
(* The transactions table implements EscrowLifecycle.                      *)
(***************************************************************************)
THEOREM Refinement == Spec => LifecycleSpec
<1>1. Init => Lifecycle!Init /\ Versions
  BY DEF Init, Lifecycle!Init, Versions
<1>. QED
  BY <1>1, InitTyped, NextTyped, NextIsLifecycle, PTL DEF Spec, LifecycleSpec, Lifecycle!Spec

----
(***************************************************************************)
(* Bonuses.  Of all wallets together, for a reversal may debit another     *)
(* wallet than the ones that its bonuses went to.                          *)
(***************************************************************************)
Inside == SumOf(balance, User) + SumOf(spent, User)

Owed == BonusAmt * (Cardinality(claims) - takenBack)

LEMMA Multiples ==
  \A m, n \in Int : /\ BonusAmt * m \in Int
                    /\ BonusAmt * (m + n) = BonusAmt * m + BonusAmt * n
                    /\ BonusAmt * (m - n) = BonusAmt * m - BonusAmt * n
<1>1. BonusAmt \in Int
  BY ConstantsAssumption
<1>. QED
  BY <1>1

LEMMA BonusTypes ==
  ASSUME Typed
  PROVE  /\ balance \in [User -> Int] /\ spent \in [User -> Int] /\ spent \in [User -> Nat]
         /\ IsFiniteSet(User) /\ BonusAmt \in Nat \ {0}
         /\ SumOf(balance, User) \in Int /\ SumOf(spent, User) \in Int
         /\ claims \subseteq Claimable /\ takenBack \in Int
         /\ IsFiniteSet(claims) /\ Cardinality(claims) \in Int
         /\ \A b \in Claimable : b[2] \in User
         /\ \A w \in Worker : /\ found[w] \subseteq Claimable
                              /\ IsFiniteSet(found[w]) /\ Cardinality(found[w]) \in Nat
<1>1. balance \in [User -> Int] /\ spent \in [User -> Nat] /\ claims \subseteq Claimable /\ takenBack \in Int
  BY DEF Typed, TypeOK
<1>2. spent \in [User -> Int]
  BY <1>1
<1>3. /\ IsFiniteSet(User) /\ BonusAmt \in Nat \ {0} /\ IsFiniteSet(Claimable)
      /\ \A b \in Claimable : b[2] \in User
  BY ConstantsAssumption
<1>4. SumOf(balance, User) \in Int
  BY <1>1, <1>3, SumOfType
<1>5. SumOf(spent, User) \in Int
  BY <1>2, <1>3, SumOfType
<1>6. IsFiniteSet(claims) /\ Cardinality(claims) \in Nat
  BY <1>1, <1>3, FS_Subset, FS_CardinalityType
<1>7. \A w \in Worker : found[w] \subseteq Claimable
  BY DEF Typed, TypeOK
<1>8. \A w \in Worker : IsFiniteSet(found[w]) /\ Cardinality(found[w]) \in Nat
  BY <1>3, <1>7, FS_Subset, FS_CardinalityType
<1>. QED
  BY <1>1, <1>2, <1>3, <1>4, <1>5, <1>6, <1>7, <1>8

(* The sum, when one value of the function changes. *)
LEMMA OneChange ==
  ASSUME NEW f \in [User -> Int], NEW g, NEW u \in User, NEW v \in Int, g = [f EXCEPT ![u] = v]
  PROVE  SumOf(g, User) = SumOf(f, User) + (v - f[u])
<1>1. IsFiniteSet(User)
  BY ConstantsAssumption
<1>. QED
  BY <1>1, SumOfExcept

LEMMA InitBonus == Init => BonusBacked
<1>. SUFFICES ASSUME Init PROVE BonusBacked
  OBVIOUS
<1>1. IsFiniteSet(User) /\ \A u \in User : balance[u] = 0 /\ spent[u] = 0
  BY ConstantsAssumption DEF Init
<1>2. SumOf(balance, User) = 0 /\ SumOf(spent, User) = 0
  BY <1>1, SumOfZeros
<1>3. Cardinality(claims) = 0 /\ takenBack = 0
  BY FS_EmptySet DEF Init
<1>4. BonusAmt * (0 - 0) = 0
  BY ConstantsAssumption
<1>. QED
  BY <1>1, <1>2, <1>3, <1>4 DEF BonusBacked

LEMMA NextBonus == Typed /\ BonusBacked /\ [Next]_vars => BonusBacked'
<1>. SUFFICES ASSUME Typed, BonusBacked, [Next]_vars PROVE BonusBacked'
  OBVIOUS
<1>. USE DEF table, bonuses, wallets, request, outside
<1>a. /\ \A u \in User : balance[u] >= 0
      /\ Inside = Owed
  BY DEF BonusBacked, Inside, Owed
<1>. SUFFICES /\ \A u \in User : balance'[u] >= 0
              /\ Inside' = Owed'
  BY DEF BonusBacked, Inside, Owed
<1>1. ASSUME NEW b \in Claimable, BonusClaim(b)
      PROVE  (\A u \in User : balance'[u] >= 0) /\ Inside' = Owed'
  <2>1. /\ b \notin claims /\ claims' = claims \cup {b} /\ takenBack' = takenBack /\ spent' = spent
        /\ balance' = [balance EXCEPT ![b[2]] = @ + BonusAmt]
    BY <1>1 DEF BonusClaim
  <2>2. b[2] \in User /\ balance[b[2]] \in Int
    BY BonusTypes
  <2>3. balance' = [balance EXCEPT ![b[2]] = balance[b[2]] + BonusAmt] /\ balance[b[2]] + BonusAmt \in Int
    BY <2>1, <2>2, BonusTypes
  <2>. DEFINE more == balance[b[2]] + BonusAmt
  <2>4. SumOf(balance', User) = SumOf(balance, User) + (more - balance[b[2]])
    <3>1. more \in Int /\ balance' = [balance EXCEPT ![b[2]] = more] /\ balance \in [User -> Int]
      BY <2>3, BonusTypes
    <3>. HIDE DEF more
    <3>. QED
      BY <2>2, <3>1, OneChange
  <2>5. Inside' = Inside + BonusAmt
    BY <2>1, <2>2, <2>4, BonusTypes DEF Inside
  <2>6. Cardinality(claims') = Cardinality(claims) + 1
    BY <2>1, BonusTypes, FS_AddElement
  <2>7. Owed' = BonusAmt * ((Cardinality(claims) - takenBack) + 1)
    BY <2>1, <2>6, BonusTypes DEF Owed
  <2>8. BonusAmt * 1 = BonusAmt
    BY BonusTypes
  <2>9. Owed' = Owed + BonusAmt
    BY <2>7, <2>8, BonusTypes, Multiples DEF Owed
  <2>10. \A u \in User : balance'[u] >= 0
    BY <1>a, <2>2, <2>3, BonusTypes
  <2>. QED
    BY <1>a, <2>5, <2>9, <2>10
<1>2. ASSUME NEW w \in Worker, ReverseBonus(w)
      PROVE  (\A u \in User : balance'[u] >= 0) /\ Inside' = Owed'
  <2>1. PICK b \in found[w] :
          CanReverse(found[w], b[2]) /\ balance' = [balance EXCEPT ![b[2]] = @ - TotalDebit(found[w])]
    BY <1>2 DEF ReverseBonus
  <2>. DEFINE n == Cardinality(found[w])
              u0 == b[2]
              d == BonusAmt * n
  <2>2. takenBack' = takenBack + n /\ UNCHANGED <<claims, spent>>
    BY <1>2 DEF ReverseBonus
  <2>3. n \in Int /\ u0 \in User /\ balance[u0] \in Int
    BY BonusTypes
  <2>4. d \in Int /\ balance[u0] >= d /\ balance' = [balance EXCEPT ![u0] = balance[u0] - d]
    BY <2>1, <2>3, Multiples, BonusTypes DEF CanReverse, TotalDebit
  <2>. HIDE DEF u0
  <2>. DEFINE less == balance[u0] - d
  <2>5. SumOf(balance', User) = SumOf(balance, User) + (less - balance[u0])
    <3>1. less \in Int /\ balance' = [balance EXCEPT ![u0] = less] /\ balance \in [User -> Int]
      BY <2>3, <2>4, BonusTypes
    <3>. HIDE DEF less
    <3>. QED
      BY <2>3, <3>1, OneChange
  <2>6. Inside' = Inside - d
    <3>. HIDE DEF d
    <3>. QED
      BY <2>2, <2>3, <2>4, <2>5, BonusTypes DEF Inside
  <2>. HIDE DEF n
  <2>7. Owed' = BonusAmt * ((Cardinality(claims) - takenBack) - n)
    BY <2>2, <2>3, BonusTypes DEF Owed
  <2>8. Owed' = Owed - d
    BY <2>3, <2>7, BonusTypes, Multiples DEF Owed
  <2>. HIDE DEF d
  <2>9. \A u \in User : balance'[u] >= 0
    BY <1>a, <2>3, <2>4, BonusTypes
  <2>. QED
    BY <1>a, <2>6, <2>8, <2>9
<1>3. ASSUME NEW v \in User, NEW amount \in 1 .. BonusAmt, Spend(v, amount)
      PROVE  (\A u \in User : balance'[u] >= 0) /\ Inside' = Owed'
  <2>1. /\ balance[v] \in Int /\ spent[v] \in Int /\ amount \in Int
        /\ balance[v] >= amount /\ UNCHANGED <<claims, takenBack>>
        /\ balance' = [balance EXCEPT ![v] = balance[v] - amount]
        /\ spent' = [spent EXCEPT ![v] = spent[v] + amount]
    BY <1>3, BonusTypes DEF Spend
  <2>2. balance[v] - amount \in Int /\ spent[v] + amount \in Int
    BY <2>1
  <2>. DEFINE less == balance[v] - amount
              more == spent[v] + amount
  <2>3. SumOf(balance', User) = SumOf(balance, User) + (less - balance[v])
    <3>1. less \in Int /\ balance' = [balance EXCEPT ![v] = less] /\ balance \in [User -> Int]
      BY <2>1, <2>2, BonusTypes
    <3>. HIDE DEF less
    <3>. QED
      BY <3>1, OneChange
  <2>4. SumOf(spent', User) = SumOf(spent, User) + (more - spent[v])
    <3>1. more \in Int /\ spent' = [spent EXCEPT ![v] = more] /\ spent \in [User -> Int]
      BY <2>1, <2>2, BonusTypes
    <3>. HIDE DEF more
    <3>. QED
      BY <3>1, OneChange
  <2>5. Inside' = Inside
    BY <2>1, <2>3, <2>4, BonusTypes DEF Inside
  <2>6. Owed' = Owed
    BY <2>1 DEF Owed
  <2>7. \A u \in User : balance'[u] >= 0
    BY <1>a, <2>1, BonusTypes
  <2>. QED
    BY <1>a, <2>5, <2>6, <2>7
<1>4. CASE UNCHANGED <<claims, takenBack, balance, spent>>
  BY <1>4, <1>a DEF Inside, Owed
<1>. QED
  BY <1>1, <1>2, <1>3, <1>4
  DEF Next, Step, Deliver, vars, WompiDecides, EventAges, Reconcile, WompiPays, WebhookReplay,
      WebhookDispatch, RefundRequest, RefundAccepted, RefundFailed, DeliveryConfirm,
      DisputeRequest, ReverseQuery, ReverseRefused, Transition, TransitionRefused, Mark,
      Respond, Abort

(***************************************************************************)
(* Whatever a reversal misses, whoever's wallet it debits and whether or   *)
(* not two of them carry the same timestamp: no wallet is overdrawn, and   *)
(* the wallets hold together what the claims brought less what the         *)
(* reversals and the users took out.                                       *)
(***************************************************************************)
THEOREM BonusesAreBacked == Spec => []BonusBacked
<1>1. Typed /\ BonusBacked /\ [Next]_vars => BonusBacked'
  BY NextBonus
<1>. QED
  BY <1>1, InitTyped, NextTyped, InitBonus, PTL DEF Spec
====
