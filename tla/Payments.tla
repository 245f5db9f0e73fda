---- MODULE Payments ----
(***************************************************************************)
(* The life of a card payment in pagos-service: the webhook gateway        *)
(* (src/lib/webhook-gateway/gateway.ts), the refund and dispute routes     *)
(* (src/api/payments.ts), the delivery confirmation (src/api/delivery.ts)  *)
(* and the bonuses a payment earns and loses (src/lib/transact/bonus.ts),  *)
(* run by Lambda instances that share only DynamoDB.                       *)
(*                                                                         *)
(* A Worker is one request being executed.  Every call to DynamoDB or to   *)
(* Wompi is a step of its own, so that requests interleave between their   *)
(* calls and may die after any of them.  No read of this code asks         *)
(* DynamoDB for consistency, so a read may return any earlier value of the *)
(* row; conditions of writes are evaluated on the current row.             *)
(*                                                                         *)
(* A webhook names a payment by Wompi's id, which the gateway takes for    *)
(* the key of the row; whether it is (SameId) is Wompi's to say, for the   *)
(* intent route draws the key itself and writes no wompi_tx_id.            *)
(***************************************************************************)
EXTENDS EscrowRules, Sums

CONSTANTS
  Tx,               \* payments whose intent has been created
  SameId,           \* the payments that Wompi knows by the key of their row
  User,             \* wallets
  Worker,           \* requests in execution at the same time
  Channel,          \* [Tx -> Channels]
  HighValue,        \* the payments above EVIDENCE_REQUIRED_ABOVE_COP
  Rule,             \* the rules of bonuses
  Claimable,        \* the bonuses there may be: <<payment, earner, rule>>
  BonusAmt,         \* amount of a bonus
  Requires3ds,      \* payments that require 3DS; the verifier may or may not confirm it
  SameMillisecond,  \* may two instances stamp two reversals with the same millisecond?
  Ageing,           \* bound: the kinds of event that may be retried for over 5 minutes
  MaxAborts,        \* bound: requests that die half way
  MaxRefunds        \* bound: refund requests of the DPO per payment

ASSUME ConstantsAssumption ==
  /\ Tx # {} /\ SameId \subseteq Tx
  /\ IsFiniteSet(User)
  /\ Channel \in [Tx -> Channels]
  /\ HighValue \subseteq Tx
  /\ Claimable \subseteq Tx \X User \X Rule /\ IsFiniteSet(Claimable)
  /\ BonusAmt \in Nat \ {0}
  /\ Requires3ds \subseteq Tx
  /\ SameMillisecond \in BOOLEAN
  /\ MaxAborts \in Nat /\ MaxRefunds \in Nat

EventType == {"approved", "declined", "reversed", "disputed", "voided", "error"}
Event == Tx \X EventType

(***************************************************************************)
(* What a request is doing.  A webhook is named by its event; an approved  *)
(* one whose 3DS the verifier does not confirm takes a path of its own.    *)
(***************************************************************************)
Path == EventType \cup {"approved_without_3ds", "refund", "delivery", "dispute"}
WebhookPath == EventType \cup {"approved_without_3ds"}

PC == {"idle", "wompi", "query", "reverse", "transition", "mark", "respond"}

VARIABLES
  \* DynamoDB
  escrow, version, status,  \* the transactions table
  claims,                   \* the bonus rows that a claim has written
  reversed,                 \* <<user, rule>> of the rows that a reversal has written
  balance,                  \* balance_cop of each wallet
  processed,                \* ProcessedWebhooks
  \* the requests
  pc, tx, path, found, reply, aborts,   \* found: what the query of a reversal returned
  \* Wompi
  wompi,                    \* its own record of each payment
  emitted, acked, stale,    \* events it sent, saw answered 200, and that are over 5 minutes old
  registered, paidBack,     \* payments with a refund in its books, and with one that it paid
  refunds,                  \* refund requests
  \* history
  spent,                    \* what each user moved out of the wallet
  takenBack                 \* how many bonuses the reversals have debited

table == <<escrow, version>>
bonuses == <<claims, reversed, takenBack>>
wallets == <<balance, spent>>
request == <<tx, path, found>>
outside == <<wompi, emitted, acked, stale, registered, paidBack, refunds>>
vars == <<table, status, bonuses, wallets, processed, pc, request, reply, aborts, outside>>

Status == {"PENDING", "APPROVED", "DECLINED", "REFUNDED"}
WompiState == {"PENDING", "APPROVED", "DECLINED", "VOIDED", "ERROR", "DISPUTED", "REVERSED"}
Captured == {"APPROVED", "DISPUTED", "REVERSED"}

TypeOK ==
  /\ escrow \in [Tx -> EscrowState]
  /\ version \in [Tx -> Nat]
  /\ status \in [Tx -> Status]
  /\ claims \subseteq Claimable
  /\ reversed \subseteq User \X Rule
  /\ balance \in [User -> Int]
  /\ processed \subseteq Event
  /\ pc \in [Worker -> PC]
  /\ tx \in [Worker -> Tx]
  /\ path \in [Worker -> Path]
  /\ found \in [Worker -> SUBSET Claimable]
  /\ reply \in [Worker -> {"none", "ok", "error"}]
  /\ aborts \in Nat
  /\ wompi \in [Tx -> WompiState]
  /\ emitted \subseteq Event /\ acked \subseteq Event /\ stale \subseteq Event
  /\ registered \subseteq Tx /\ paidBack \subseteq Tx
  /\ refunds \in [Tx -> Nat]
  /\ spent \in [User -> Nat]
  /\ takenBack \in Nat

SomeTx == CHOOSE t \in Tx : TRUE

Init ==
  /\ escrow = [t \in Tx |-> "NONE"]
  /\ version = [t \in Tx |-> 0]
  /\ status = [t \in Tx |-> "PENDING"]
  /\ claims = {} /\ reversed = {} /\ takenBack = 0
  /\ balance = [u \in User |-> 0]
  /\ processed = {}
  /\ pc = [w \in Worker |-> "idle"]
  /\ tx = [w \in Worker |-> SomeTx]
  /\ path = [w \in Worker |-> "dispute"]
  /\ found = [w \in Worker |-> {}]
  /\ reply = [w \in Worker |-> "none"]
  /\ aborts = 0
  /\ wompi = [t \in Tx |-> "PENDING"]
  /\ emitted = {} /\ acked = {} /\ stale = {}
  /\ registered = {} /\ paidBack = {}
  /\ refunds = [t \in Tx |-> 0]
  /\ spent = [u \in User |-> 0]

----
(***************************************************************************)
(* Wompi, as the code uses it.                                             *)
(***************************************************************************)

Emit(t, e) == emitted' = emitted \cup {<<t, e>>}

WompiDecides(t, s, e) ==
  /\ <<wompi[t], s, e>> \in { <<"PENDING", "APPROVED", "approved">>,
                              <<"PENDING", "DECLINED", "declined">>,
                              <<"PENDING", "VOIDED", "voided">>,
                              <<"PENDING", "ERROR", "error">>,
                              <<"APPROVED", "DISPUTED", "disputed">>,
                              <<"APPROVED", "REVERSED", "reversed">>,
                              <<"DISPUTED", "REVERSED", "reversed">> }
  /\ wompi' = [wompi EXCEPT ![t] = s]
  /\ Emit(t, e)
  /\ UNCHANGED <<table, status, bonuses, wallets, processed, pc, request, reply, aborts,
                 acked, stale, registered, paidBack, refunds>>

(* A refund in its books that it had not paid: it may still do so. *)
WompiPays(t) ==
  /\ t \in registered /\ wompi[t] \in {"APPROVED", "DISPUTED"}
  /\ wompi' = [wompi EXCEPT ![t] = "REVERSED"]
  /\ paidBack' = paidBack \cup {t}
  /\ (Emit(t, "reversed") \/ UNCHANGED emitted)
  /\ UNCHANGED <<table, status, bonuses, wallets, processed, pc, request, reply, aborts,
                 acked, stale, registered, refunds>>

EventAges(e) ==
  /\ e \in emitted \ stale /\ e[2] \in Ageing
  /\ stale' = stale \cup {e}
  /\ UNCHANGED <<table, status, bonuses, wallets, processed, pc, request, reply, aborts,
                 wompi, emitted, acked, registered, paidBack, refunds>>

(* The reconciliation cron, of which the repository has the tests only: it
   copies Wompi's verdict into "status". *)
Reconcile(t) ==
  /\ \E s \in Status :
       /\ \/ status[t] = "PENDING" /\ wompi[t] \in {"APPROVED", "DISPUTED"} /\ s = "APPROVED"
          \/ status[t] = "PENDING" /\ wompi[t] = "DECLINED" /\ s = "DECLINED"
          \/ status[t] = "APPROVED" /\ wompi[t] = "REVERSED" /\ s = "REFUNDED"
       /\ status' = [status EXCEPT ![t] = s]
  /\ UNCHANGED <<table, bonuses, wallets, processed, pc, request, reply, aborts, outside>>

----
(***************************************************************************)
(* Requests.                                                               *)
(***************************************************************************)

Start(w, t, p, where) ==
  /\ pc[w] = "idle"
  /\ pc' = [pc EXCEPT ![w] = where]
  /\ tx' = [tx EXCEPT ![w] = t]
  /\ path' = [path EXCEPT ![w] = p]
  /\ UNCHANGED found

Goto(w, where) ==
  /\ pc' = [pc EXCEPT ![w] = where]
  /\ UNCHANGED <<reply, request>>

Answer(w, r) ==
  /\ pc' = [pc EXCEPT ![w] = "respond"]
  /\ reply' = [reply EXCEPT ![w] = r]

(* defaultEventId: a path that handles a webhook stands for this event. *)
EventOf(w) ==
  <<tx[w], IF path[w] = "approved_without_3ds" THEN "approved" ELSE path[w]>>

(* verifyTimestamp, then isProcessed finds the event: answered as a replay. *)
WebhookReplay(w, t, e) ==
  /\ <<t, e>> \in (emitted \ stale) \cap processed
  /\ Start(w, t, e, "respond")
  /\ reply' = [reply EXCEPT ![w] = "ok"]
  /\ UNCHANGED <<table, status, bonuses, wallets, processed, aborts, outside>>

(* The same read finds nothing, or does not see the mark yet: dispatch. *)
WebhookDispatch(w, t, e) ==
  /\ <<t, e>> \in emitted \ stale
  /\ \/ Start(w, t, e, IF e = "reversed" THEN "query" ELSE "transition")
     \/ /\ e = "approved" /\ t \in Requires3ds
        /\ Start(w, t, "approved_without_3ds", "transition")
  /\ UNCHANGED <<table, status, bonuses, wallets, processed, reply, aborts, outside>>

(* The values a read of the row may return besides the current one. *)
PastEscrow(s) ==
  CASE s = "NONE" -> {"NONE"}
    [] s = "HELD" -> {"NONE", "HELD"}
    [] OTHER -> {"NONE", "HELD", s}

PastStatus(s) ==
  CASE s = "REFUNDED" -> {"PENDING", "APPROVED", "REFUNDED"}
    [] OTHER -> {"PENDING", s}

(* POST /:id/refund, up to the call of Wompi. *)
RefundRequest(w, t) ==
  /\ refunds[t] < MaxRefunds
  /\ "APPROVED" \in PastStatus(status[t])
  /\ Start(w, t, "refund", "wompi")
  /\ refunds' = [refunds EXCEPT ![t] = @ + 1]
  /\ UNCHANGED <<table, status, bonuses, wallets, processed, reply, aborts,
                 wompi, emitted, acked, stale, registered, paidBack>>

(* The route sends wompi_tx_id ?? txId, which is the key of the row. *)
Refundable(t) == t \in SameId /\ wompi[t] \in {"APPROVED", "DISPUTED"}

Paid(t) ==
  /\ wompi' = [wompi EXCEPT ![t] = "REVERSED"]
  /\ paidBack' = paidBack \cup {t}

(* refundTransaction: an answer with an id is { ok: true } whatever status it
   names.  APPROVED: Wompi pays the buyer back (and may also report it as a
   reversal).  PENDING, DECLINED, ERROR: it has not. *)
RefundAccepted(w) ==
  /\ pc[w] = "wompi" /\ tx[w] \in SameId
  /\ registered' = registered \cup {tx[w]}
  /\ \/ /\ Refundable(tx[w])
        /\ Paid(tx[w])
        /\ (Emit(tx[w], "reversed") \/ UNCHANGED emitted)
     \/ UNCHANGED <<wompi, paidBack, emitted>>
  /\ Goto(w, "query")
  /\ UNCHANGED <<table, status, bonuses, wallets, processed, aborts, acked, stale, refunds>>

RefundFailureIgnored(w) ==      \* mutant: refundResult.ok is not looked at
  /\ pc[w] = "wompi"
  /\ Goto(w, "query")
  /\ UNCHANGED <<table, status, bonuses, wallets, processed, aborts, outside>>

(* Wompi refuses, or has a refund, and may have paid it, and its answer is
   lost: both are { ok: false }. *)
RefundFailed(w) ==
  /\ pc[w] = "wompi"
  /\ \/ UNCHANGED <<wompi, registered, paidBack>>
     \/ /\ tx[w] \in SameId
        /\ registered' = registered \cup {tx[w]}
        /\ \/ Refundable(tx[w]) /\ Paid(tx[w])
           \/ UNCHANGED <<wompi, paidBack>>
  /\ Answer(w, "error")
  /\ UNCHANGED <<table, status, bonuses, wallets, processed, request, aborts,
                 emitted, acked, stale, refunds>>

(* POST /confirm, up to the transition: the state machine runs on the row
   that was read. *)
DeliveryConfirm(w, t) ==
  /\ \E seen \in PastEscrow(escrow[t]), evidence \in Evidence :
       DeliveryAccepted(Channel[t], t \in HighValue, seen, evidence)
  /\ Start(w, t, "delivery", "transition")
  /\ UNCHANGED <<table, status, bonuses, wallets, processed, reply, aborts, outside>>

(* POST /:id/dispute: refused unless the row says status = "RELEASED" and has
   a dispute_window_ends_at.  No code writes either, so it always refuses. *)
DisputeRequest(w, t) ==
  /\ status[t] # "RELEASED"
  /\ Start(w, t, "dispute", "respond")
  /\ reply' = [reply EXCEPT ![w] = "error"]
  /\ UNCHANGED <<table, status, bonuses, wallets, processed, aborts, outside>>

(* A webhook finds the rows of its payment by Wompi's id, a route by their key. *)
HasRow(w) == path[w] \in WebhookPath => tx[w] \in SameId

(* transactReverseBonus: the query of TransactionIdIndex, which may miss any
   claim.  None of the rows it finds is marked as reversed, because the mark
   goes to a row of another key. *)
ReverseQuery(w) ==
  /\ pc[w] = "query"
  /\ \E rows \in SUBSET {b \in claims : b[1] = tx[w] /\ HasRow(w)} :
       /\ found' = [found EXCEPT ![w] = rows]
       /\ pc' = [pc EXCEPT ![w] = IF rows # {} THEN "reverse" ELSE "transition"]
  /\ UNCHANGED <<table, status, bonuses, wallets, processed, tx, path, reply, aborts, outside>>

(* The key under which a reversal marks a bonus: without the payment. *)
KeyOf(b) == <<b[2], b[3]>>

TotalDebit(rows) == BonusAmt * Cardinality(rows)

CanReverseOverdrawing(rows, seller) ==          \* mutant: no condition on the wallet
  SameMillisecond \/ \A b \in rows : KeyOf(b) \notin reversed

(* The conditions of its TransactWriteItems, all or nothing: no row marked at
   another time, and a wallet that pays for everybody. *)
CanReverse(rows, seller) ==
  /\ SameMillisecond \/ \A b \in rows : KeyOf(b) \notin reversed
  /\ balance[seller] >= TotalDebit(rows)

(* The wallet is that of the first row found, in no order. *)
ReverseBonus(w) ==
  /\ pc[w] = "reverse"
  /\ \E b \in found[w] :
       /\ CanReverse(found[w], b[2])
       /\ balance' = [balance EXCEPT ![b[2]] = @ - TotalDebit(found[w])]
  /\ reversed' = reversed \cup {KeyOf(b) : b \in found[w]}
  /\ takenBack' = takenBack + Cardinality(found[w])
  /\ pc' = [pc EXCEPT ![w] = "transition"]
  /\ found' = [found EXCEPT ![w] = {}]
  /\ UNCHANGED <<table, status, claims, spent, processed, tx, path, reply, aborts, outside>>

ReverseRefused(w) ==
  /\ pc[w] = "reverse"
  /\ \E b \in found[w] : KeyOf(b) \in reversed \/ ~CanReverse(found[w], b[2])
  /\ pc' = [pc EXCEPT ![w] = "respond"]
  /\ reply' = [reply EXCEPT ![w] = "error"]
  /\ found' = [found EXCEPT ![w] = {}]
  /\ UNCHANGED <<table, status, bonuses, wallets, processed, tx, path, aborts, outside>>

(* The transition each path asks transactEscrowTransition for. *)
FromStatus(p) ==      \* mutant: an approval asks for PENDING, as the other events do
  IF p \in {"refund", "delivery", "reversed", "disputed"} THEN "HELD" ELSE "PENDING"

FromNone(p) ==        \* mutant: a failed payment asks for NONE, as an approval does
  IF p \in {"refund", "delivery", "reversed", "disputed"} THEN "HELD" ELSE "NONE"

From(p) ==
  CASE p = "approved" -> "NONE"
    [] p = "approved_without_3ds" -> "PENDING_3DS"
    [] p \in {"declined", "voided", "error"} -> "PENDING"
    [] OTHER -> "HELD"

To(p) ==
  CASE p = "approved" -> "HELD"
    [] p = "disputed" -> "DISPUTED"
    [] p \in {"reversed", "refund"} -> "REFUNDED"
    [] p = "delivery" -> "RELEASED"
    [] p = "error" -> "ERROR"
    [] OTHER -> "FAILED"

AfterTransition(p) == IF p \in WebhookPath THEN "mark" ELSE "respond"

BlindTransition(w) ==      \* mutant: the update without its condition
  /\ pc[w] = "transition"
  /\ escrow' = [escrow EXCEPT ![tx[w]] = To(path[w])]
  /\ version' = [version EXCEPT ![tx[w]] = @ + 1]
  /\ Goto(w, AfterTransition(path[w]))
  /\ UNCHANGED <<status, bonuses, wallets, processed, aborts, outside>>

(* A row that is not there fails the condition as well. *)
Transition(w) ==
  /\ pc[w] = "transition"
  /\ HasRow(w) /\ escrow[tx[w]] = From(path[w])
  /\ escrow' = [escrow EXCEPT ![tx[w]] = To(path[w])]
  /\ version' = [version EXCEPT ![tx[w]] = @ + 1]
  /\ pc' = [pc EXCEPT ![w] = AfterTransition(path[w])]
  /\ reply' = [reply EXCEPT ![w] = IF path[w] \in WebhookPath THEN "none" ELSE "ok"]
  /\ UNCHANGED <<status, bonuses, wallets, processed, request, aborts, outside>>

RefusalSwallowed(w) ==     \* mutant: the gateway marks the event all the same
  /\ pc[w] = "transition"
  /\ ~(HasRow(w) /\ escrow[tx[w]] = From(path[w]))
  /\ Goto(w, AfterTransition(path[w]))
  /\ UNCHANGED <<table, status, bonuses, wallets, processed, aborts, outside>>

TransitionRefused(w) ==
  /\ pc[w] = "transition"
  /\ ~(HasRow(w) /\ escrow[tx[w]] = From(path[w]))
  /\ Answer(w, "error")
  /\ UNCHANGED <<table, status, bonuses, wallets, processed, request, aborts, outside>>

MarkLost(w) ==             \* mutant: a failed put is ignored like a duplicate
  /\ pc[w] = "mark"
  /\ Answer(w, "ok")
  /\ UNCHANGED <<table, status, bonuses, wallets, processed, request, aborts, outside>>

(* markProcessed; an event another request marked already is no error. *)
Mark(w) ==
  /\ pc[w] = "mark"
  /\ processed' = processed \cup {EventOf(w)}
  /\ Answer(w, "ok")
  /\ UNCHANGED <<table, status, bonuses, wallets, request, aborts, outside>>

Finish(w) ==
  /\ pc' = [pc EXCEPT ![w] = "idle"]
  /\ tx' = [tx EXCEPT ![w] = SomeTx]
  /\ path' = [path EXCEPT ![w] = "dispute"]
  /\ found' = [found EXCEPT ![w] = {}]
  /\ reply' = [reply EXCEPT ![w] = "none"]

(* The answer reaches the caller, or is lost; Wompi sends again whatever it
   saw no 200 for. *)
Respond(w) ==
  /\ pc[w] = "respond"
  /\ \/ UNCHANGED acked
     \/ /\ reply[w] = "ok" /\ path[w] \in WebhookPath
        /\ acked' = acked \cup {EventOf(w)}
  /\ Finish(w)
  /\ UNCHANGED <<table, status, bonuses, wallets, processed, aborts,
                 wompi, emitted, stale, registered, paidBack, refunds>>

(* The instance dies, times out, or a DynamoDB call fails for another reason
   than its condition: the caller gets an error and nothing else happens. *)
Abort(w) ==
  /\ pc[w] \notin {"idle", "respond"}
  /\ aborts < MaxAborts
  /\ aborts' = aborts + 1
  /\ Finish(w)
  /\ UNCHANGED <<table, status, bonuses, wallets, processed, outside>>

----
(***************************************************************************)
(* The wallet of the user who earns the bonus.                             *)
(***************************************************************************)

(* transactBonusClaim, called by POST /bonuses/:user/trigger at any time:
   the bonus row and the credit, once per payment, earner and rule. *)
BonusClaim(b) ==
  /\ b \in Claimable \ claims
  /\ claims' = claims \cup {b}
  /\ balance' = [balance EXCEPT ![b[2]] = @ + BonusAmt]
  /\ UNCHANGED <<table, status, reversed, takenBack, spent, processed, pc, request, reply, aborts, outside>>

(* The debit leg of transactP2PTransfer. *)
Spend(u, amount) ==
  /\ balance[u] >= amount
  /\ balance' = [balance EXCEPT ![u] = @ - amount]
  /\ spent' = [spent EXCEPT ![u] = @ + amount]
  /\ UNCHANGED <<table, status, bonuses, processed, pc, request, reply, aborts, outside>>

----
Step(w) ==
  \/ RefundAccepted(w) \/ RefundFailed(w)
  \/ ReverseQuery(w) \/ ReverseBonus(w) \/ ReverseRefused(w)
  \/ Transition(w) \/ TransitionRefused(w)
  \/ Mark(w) \/ Respond(w)

Deliver(t, e) == \E w \in Worker : WebhookReplay(w, t, e) \/ WebhookDispatch(w, t, e)

Next ==
  \/ \E t \in Tx, s \in WompiState, e \in EventType : WompiDecides(t, s, e)
  \/ \E e \in Event : EventAges(e)
  \/ \E t \in Tx : Reconcile(t) \/ WompiPays(t)
  \/ \E b \in Claimable : BonusClaim(b)
  \/ \E t \in Tx, e \in EventType : Deliver(t, e)
  \/ \E w \in Worker, t \in Tx :
       RefundRequest(w, t) \/ DeliveryConfirm(w, t) \/ DisputeRequest(w, t)
  \/ \E w \in Worker : Step(w) \/ Abort(w)
  \/ \E u \in User, amount \in 1 .. BonusAmt : Spend(u, amount)

Spec == Init /\ [][Next]_vars

(* A request that has been accepted runs to its end or dies.  Wompi sends an
   approval it saw no 200 for again and again; an instance is always found for
   it in the end, whatever else the instances are doing.  Of other events, and
   of payments it knows by another id, nothing is assumed. *)
Retry(t, e) == <<t, e>> \notin acked /\ Deliver(t, e)

Fairness ==
  /\ \A w \in Worker : WF_vars(Step(w))
  /\ \A t \in SameId : SF_vars(Retry(t, "approved"))

FairSpec == Spec /\ Fairness

----
(***************************************************************************)
(* Whatever the webhooks, the refund route and the delivery route do at    *)
(* the same time, and wherever they die, the rows of the transactions      *)
(* table live the life of EscrowLifecycle: no two of them both move a      *)
(* payment, and its version counts its moves.                              *)
(***************************************************************************)
Lifecycle == INSTANCE EscrowLifecycle WITH Tx <- Tx, escrow <- escrow, version <- version

LifecycleSpec == Lifecycle!Spec

(***************************************************************************)
(* A webhook is marked in ProcessedWebhooks, and from then on answered     *)
(* without being looked at, only when its effect is in the table: an       *)
(* approval has been captured, a reversal has refunded, a dispute has      *)
(* frozen the payment ("mark processed AFTER successful dispatch",         *)
(* processWompiWebhook), and nothing has undone it.                        *)
(***************************************************************************)
Effect(e) ==
  CASE e = "approved" -> EscrowState \ {"NONE"}
    [] e = "reversed" -> {"REFUNDED"}
    [] e = "disputed" -> {"DISPUTED"}
    [] OTHER -> {}

ProcessedTookEffect == \A e \in processed : escrow[e[1]] \in Effect(e[2])

(***************************************************************************)
(* Wompi stops retrying only what is safely recorded: the events it saw    *)
(* answered 200 are all marked, even when the instance that answered was   *)
(* not the one that marked.                                                *)
(***************************************************************************)
AckedIsProcessed == acked \subseteq processed

(***************************************************************************)
(* The table never runs ahead of Wompi: a payment is held or released only *)
(* when Wompi captured it, frozen only when Wompi reported a dispute, and  *)
(* refunded only when Wompi reversed it or has a refund of it in its books *)
(* - which need not be paid: the route looks at `ok` and not at the status *)
(* of the answer (payments.ts:235, wompi.ts:356-365).                      *)
(***************************************************************************)
Holders(s) ==
  CASE s = "NONE" -> WompiState
    [] s = "DISPUTED" -> {"DISPUTED", "REVERSED"}
    [] OTHER -> Captured

EscrowFollowsMoney ==
  \A t \in Tx :
    \/ escrow[t] # "REFUNDED" /\ wompi[t] \in Holders(escrow[t])
    \/ escrow[t] = "REFUNDED" /\ (wompi[t] = "REVERSED" \/ t \in registered)

(***************************************************************************)
(* Reversals of payments with several bonuses and earners, which may miss  *)
(* rows, race, mark one millisecond or debit somebody else's wallet, never *)
(* overdraw it; and the pesos in all wallets, or spent from them, are one  *)
(* bonus for every claim less one for every row a reversal debited.  (That *)
(* each user pays for his own bonuses, or for each once, does not hold.)   *)
(***************************************************************************)
BonusBacked ==
  /\ \A u \in User : balance[u] >= 0
  /\ SumOf(balance, User) + SumOf(spent, User) = BonusAmt * (Cardinality(claims) - takenBack)

(***************************************************************************)
(* An approval of a payment that Wompi knows by the key of its row is      *)
(* recorded, unless it grows older than the five minutes verifyTimestamp   *)
(* allows while it is being retried, whatever the retries for payments it  *)
(* knows otherwise, whose row is never found, keep the instances doing.    *)
(* It needs requests that run to their end (MaxAborts = 0): see            *)
(* LostApproval.cfg.                                                       *)
(***************************************************************************)
ApprovedIsProcessed ==
  \A t \in SameId \ Requires3ds :
    <<t, "approved">> \in emitted ~> <<t, "approved">> \in processed \cup stale

----
(***************************************************************************)
(* Two promises of the comments and of the specifications under openspec/  *)
(* that the code does not keep.                                            *)
(***************************************************************************)

Answered(w, p, r) == pc[w] = "respond" /\ path[w] = p /\ reply[w] = r

(***************************************************************************)
(* "The system MUST support refunds that atomically reverse the original   *)
(* transaction" (payment-orchestration/spec.md): a refund that fails has   *)
(* given nothing back.  But Wompi pays before the table is asked.          *)
(***************************************************************************)
RefundIsAtomic ==
  \A w \in Worker : Answered(w, "refund", "error") => tx[w] \notin paidBack

(***************************************************************************)
(* "RELEASED -> REFUNDED (late chargeback)" (header of escrow.ts): the     *)
(* reversal of a released payment is not refused.  But the gateway asks    *)
(* for a transition from HELD only.                                        *)
(***************************************************************************)
LateChargebackRefunds ==
  \A w \in Worker : Answered(w, "reversed", "error") => escrow[tx[w]] # "RELEASED"
====
