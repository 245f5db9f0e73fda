---- MODULE Cancellation ----
(***************************************************************************)
(* CancellationService (src/lib/transaction-cancellation.ts): the creator  *)
(* of a pending payment gives it up.  A creation saves its payment over    *)
(* whatever has the same id; a cancellation reads the payment, checks it   *)
(* and saves it whole, so that what is saved in between is lost.           *)
(***************************************************************************)
CONSTANTS Tx, User, Worker

State == {"PENDING", "APPROVED", "DECLINED", "CANCELLED", "REFUNDED", "VOIDED"}
Nobody == "nobody"
Row == [state : State, owner : User \cup {Nobody}, cancelledAt : BOOLEAN]

VARIABLES
  saved,       \* the store; a payment of Nobody is not there
  pc, call,    \* the cancellations that have read their payment
  asked,       \* history: who has asked for the cancellation of a payment and was let
  pendingOf    \* history: whose a payment was when it was pending

vars == <<saved, pc, call, asked, pendingOf>>

TypeOK ==
  /\ saved \in [Tx -> Row]
  /\ pc \in [Worker -> {"idle", "save"}]
  /\ call \in [Worker -> [tx : Tx, owner : User]]
  /\ asked \in [Tx -> SUBSET User] /\ pendingOf \in [Tx -> SUBSET User]

Init ==
  /\ saved = [t \in Tx |-> [state |-> "PENDING", owner |-> Nobody, cancelledAt |-> FALSE]]
  /\ pc = [w \in Worker |-> "idle"]
  /\ call \in [Worker -> {[tx |-> CHOOSE t \in Tx : TRUE, owner |-> CHOOSE u \in User : TRUE]}]
  /\ asked = [t \in Tx |-> {}] /\ pendingOf = [t \in Tx |-> {}]

(* createPaymentIntent: a payment in whatever state its caller names, saved
   without a look at what is there. *)
Create(t, u, state) ==
  /\ saved' = [saved EXCEPT ![t] = [state |-> state, owner |-> u, cancelledAt |-> FALSE]]
  /\ pendingOf' = [pendingOf EXCEPT ![t] = IF state = "PENDING" THEN @ \cup {u} ELSE @]
  /\ UNCHANGED <<pc, call, asked>>

CancellableUnlessDone(state) == state # "CANCELLED"     \* mutant: any state but CANCELLED

(* CANCELLABLE_STATES. *)
Cancellable(state) == state = "PENDING"

CancelReadAnybodys(w, t, u) ==        \* mutant: the creator is not compared
  /\ pc[w] = "idle"
  /\ saved[t].owner # Nobody /\ Cancellable(saved[t].state)
  /\ pc' = [pc EXCEPT ![w] = "save"]
  /\ call' = [call EXCEPT ![w] = [tx |-> t, owner |-> saved[t].owner]]
  /\ asked' = [asked EXCEPT ![t] = @ \cup {u}]
  /\ UNCHANGED <<saved, pendingOf>>

(* cancelPaymentIntent, called by u. *)
CancelRead(w, t, u) ==
  /\ pc[w] = "idle"
  /\ saved[t].owner = u /\ Cancellable(saved[t].state)
  /\ pc' = [pc EXCEPT ![w] = "save"]
  /\ call' = [call EXCEPT ![w] = [tx |-> t, owner |-> saved[t].owner]]
  /\ asked' = [asked EXCEPT ![t] = @ \cup {u}]
  /\ UNCHANGED <<saved, pendingOf>>

(* No such payment, another's, cancelled already, or no longer pending. *)
CancelRefused(w, t, u) ==
  /\ pc[w] = "idle"
  /\ saved[t].owner # u \/ ~Cancellable(saved[t].state)
  /\ UNCHANGED vars

(* What was read, with its new state: over whatever the payment is now. *)
CancelSave(w) ==
  /\ pc[w] = "save"
  /\ saved' = [saved EXCEPT ![call[w].tx] =
                 [state |-> "CANCELLED", owner |-> call[w].owner, cancelledAt |-> TRUE]]
  /\ pc' = [pc EXCEPT ![w] = "idle"]
  /\ UNCHANGED <<call, asked, pendingOf>>

Next ==
  \/ \E t \in Tx, u \in User, s \in State : Create(t, u, s)
  \/ \E w \in Worker, t \in Tx, u \in User : CancelRead(w, t, u) \/ CancelRefused(w, t, u)
  \/ \E w \in Worker : CancelSave(w)

Spec == Init /\ [][Next]_vars

----
(***************************************************************************)
(* "Only the original creator can cancel (IDOR protection)", and only what *)
(* was pending: a payment with the mark of a cancellation is the payment   *)
(* of somebody who asked for it, and was pending as that user's - whoever  *)
(* created, settled or cancelled a payment of the same id in between.      *)
(***************************************************************************)
CancelledByCreator ==
  \A t \in Tx :
    saved[t].cancelledAt => saved[t].owner \in asked[t] /\ saved[t].owner \in pendingOf[t]
====
