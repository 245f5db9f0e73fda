---- MODULE Wallets ----
(***************************************************************************)
(* The wallets table of pagos-service and everybody who moves its money:   *)
(* the withdraw and transfer routes (src/api/wallet.ts, with               *)
(* src/lib/transact/wallet.ts), the bonus of a payment and its reversal    *)
(* (src/lib/transact/bonus.ts), and the deposits of CreditWalletUseCase    *)
(* (src/lib/ledger.ts), held back for five days by                         *)
(* src/lib/withdrawal-cooling-off.ts.                                      *)
(*                                                                         *)
(* A Request is one HTTP request; it is served once, each DynamoDB call a  *)
(* step of its own, and may die between two of them.  A read that does not *)
(* ask DynamoDB for consistency may return an earlier row; the condition   *)
(* of a write is evaluated on the current one.                             *)
(***************************************************************************)
EXTENDS Sums, FiniteSets

CONSTANTS
  User,
  Tier,            \* [User -> 0 .. 4]
  Request,         \* bound: the withdrawals and transfers that are asked for
  Amount,          \* the amounts they may ask
  WithdrawLimit,   \* withdrawLimitDayCop of each tier
  InstantLimit,    \* the 5 000 000 COP above which tier 3 waits four hours
  Bonus, BonusAmt, BonusOf,         \* bonuses, their amount, [Bonus -> User]
  Deposit, DepositAmt, DepositOf,   \* deposits, their amount, [Deposit -> User]
  MaxCredits       \* bound: how often a caller credits one deposit

ASSUME ConstantsAssumption ==
  /\ IsFiniteSet(User) /\ IsFiniteSet(Bonus) /\ IsFiniteSet(Deposit)
  /\ User # {} /\ Tier \in [User -> 0 .. 4]
  /\ Amount \subseteq Nat \ {0}
  /\ WithdrawLimit \in [0 .. 4 -> Nat]
  /\ InstantLimit \in Nat
  /\ BonusAmt \in Nat \ {0} /\ BonusOf \in [Bonus -> User]
  /\ DepositAmt \in Nat \ {0} /\ DepositOf \in [Deposit -> User]
  /\ MaxCredits \in Nat
  /\ "none" \notin Deposit /\ "other" \notin Deposit

VARIABLES
  \* the wallets table
  balance, rows, lastKey,
  seen,                      \* the balances a read of each row may return
  \* the ledger table, and the bonuses table
  ledger, bonus,
  \* the requests
  pc, from, to, amount,
  \* deposits: how often credited, not yet in the ledger, less than five days old
  credited, unposted, held,
  payoutsPaused,             \* is the kill switch on in some instance?
  withdrawn                  \* history: what each user has been paid out

wallet == <<balance, rows, lastKey, seen>>
request == <<from, to, amount>>
deposits == <<credited, unposted, held>>
vars == <<wallet, ledger, bonus, pc, request, deposits, payoutsPaused, withdrawn>>

(* A withdrawal, a transfer and a reversal each make up a key of their own
   (Date.now() and randomUUID()), which equals no other. *)
Key == {"none", "other"} \cup Deposit

PC == {"new", "query", "debit", "paid",                 \* a withdrawal
       "transfer", "put_out", "put_in", "completed",    \* a transfer
       "refused", "insufficient", "dead"}

Movement == {"TRANSFER_OUT", "TRANSFER_IN", "DEPOSITO"}

TypeOK ==
  /\ balance \in [User -> Int]
  /\ rows \subseteq User
  /\ lastKey \in [User -> Key]
  /\ seen \in [User -> SUBSET Int]
  /\ ledger \subseteq (Request \cup Deposit) \X Movement
  /\ bonus \in [Bonus -> {"none", "claimed", "reversed"}]
  /\ pc \in [Request -> PC]
  /\ from \in [Request -> User] /\ to \in [Request -> User]
  /\ amount \in [Request -> Nat]
  /\ credited \in [Deposit -> Nat]
  /\ unposted \subseteq Deposit /\ held \subseteq Deposit
  /\ payoutsPaused \in BOOLEAN
  /\ withdrawn \in [User -> Nat]

SomeUser == CHOOSE u \in User : TRUE

Init ==
  /\ balance = [u \in User |-> 0]
  /\ rows = {}
  /\ lastKey = [u \in User |-> "none"]
  /\ seen = [u \in User |-> {0}]
  /\ ledger = {}
  /\ bonus = [b \in Bonus |-> "none"]
  /\ pc = [r \in Request |-> "new"]
  /\ from = [r \in Request |-> SomeUser]
  /\ to = [r \in Request |-> SomeUser]
  /\ amount = [r \in Request |-> 0]
  /\ credited = [d \in Deposit |-> 0]
  /\ unposted = {} /\ held = {}
  /\ payoutsPaused = FALSE
  /\ withdrawn = [u \in User |-> 0]

----
(***************************************************************************)
(* Updates of one row of the wallets table.                                *)
(***************************************************************************)

SetBalance(u, b) ==
  /\ balance' = [balance EXCEPT ![u] = b]
  /\ seen' = [seen EXCEPT ![u] = @ \cup {b}]

SetKeyToUser(u, k) ==             \* mutant: the key of the row is stored for that of the request
  lastKey' = [lastKey EXCEPT ![u] = u]

SetKey(u, k) == lastKey' = [lastKey EXCEPT ![u] = k]

Ask(r, p, u, v, a) ==
  /\ pc[r] = "new"
  /\ pc' = [pc EXCEPT ![r] = p]
  /\ from' = [from EXCEPT ![r] = u]
  /\ to' = [to EXCEPT ![r] = v]
  /\ amount' = [amount EXCEPT ![r] = a]

Goto(r, p) == pc' = [pc EXCEPT ![r] = p]

----
(***************************************************************************)
(* POST /:user/withdraw.  A withdrawal that its checks refuse changes      *)
(* nothing; the steps below are those of one that passes them.             *)
(***************************************************************************)

WithdrawHoldFor(tier, a) ==
  IF tier = 3 /\ a > InstantLimit THEN 4 ELSE <<72, 24, 4, 0, 0>>[tier + 1]

(* The read of the wallet and the checks on what was read.  No code that
   runs writes lifetime_withdrawn_cop, so it reads 0. *)
Withdraw(r, u, a) ==
  /\ \E b \in seen[u] : b >= a
  /\ a <= WithdrawLimit[Tier[u]]
  /\ WithdrawHoldFor(Tier[u], a) = 0
  /\ Ask(r, "query", u, u, a)
  /\ UNCHANGED <<wallet, ledger, bonus, deposits, payoutsPaused, withdrawn>>

(* getOldestUnreleasedDeposit and canWithdraw, then the kill switch of the
   instance.  The query may miss a deposit: it is eventually consistent, and
   reads the first 100 entries of the ledger only. *)
CoolingOff(r) ==
  /\ pc[r] = "query"
  /\ Goto(r, "debit")
  /\ UNCHANGED <<wallet, ledger, bonus, request, deposits, payoutsPaused, withdrawn>>

Unreleased(u) == {d \in held : DepositOf[d] = u /\ <<d, "DEPOSITO">> \in ledger}

CoolingOffRefused(r) ==
  /\ pc[r] = "query"
  /\ Unreleased(from[r]) # {} \/ payoutsPaused
  /\ Goto(r, "refused")
  /\ UNCHANGED <<wallet, ledger, bonus, request, deposits, payoutsPaused, withdrawn>>

(* transactDebitWallet.  Its condition accepts a row without key, or with
   the key of this very withdrawal, which no row has. *)
DebitUnconditionally(r) ==        \* mutant: the update without its condition
  /\ pc[r] = "debit"
  /\ SetBalance(from[r], balance[from[r]] - amount[r])
  /\ SetKey(from[r], "other")
  /\ withdrawn' = [withdrawn EXCEPT ![from[r]] = @ + amount[r]]
  /\ Goto(r, "paid")
  /\ UNCHANGED <<rows, ledger, bonus, request, deposits, payoutsPaused>>

Debit(r) ==
  /\ pc[r] = "debit"
  /\ lastKey[from[r]] = "none"
  /\ SetBalance(from[r], balance[from[r]] - amount[r])
  /\ SetKey(from[r], "other")
  /\ withdrawn' = [withdrawn EXCEPT ![from[r]] = @ + amount[r]]
  /\ Goto(r, "paid")
  /\ UNCHANGED <<rows, ledger, bonus, request, deposits, payoutsPaused>>

DebitRefused(r) ==
  /\ pc[r] = "debit"
  /\ lastKey[from[r]] # "none"
  /\ Goto(r, "insufficient")
  /\ UNCHANGED <<wallet, ledger, bonus, request, deposits, payoutsPaused, withdrawn>>

----
(***************************************************************************)
(* POST /:user/transfer.                                                   *)
(***************************************************************************)

(* The recipient is looked up. *)
AskTransfer(r, u, v, a) ==
  /\ u # v /\ v \in rows
  /\ Ask(r, "transfer", u, v, a)
  /\ UNCHANGED <<wallet, ledger, bonus, deposits, payoutsPaused, withdrawn>>

(* transactP2PTransfer: both legs or none. *)
PayOverwriting(r) ==              \* mutant: the credit leg sets the balance
  /\ balance' = [balance EXCEPT ![from[r]] = @ - amount[r], ![to[r]] = amount[r]]
  /\ seen' = [seen EXCEPT ![from[r]] = @ \cup {balance[from[r]] - amount[r]},
                          ![to[r]] = @ \cup {amount[r]}]

Pay(r) ==
  /\ balance' = [balance EXCEPT ![from[r]] = @ - amount[r], ![to[r]] = @ + amount[r]]
  /\ seen' = [seen EXCEPT ![from[r]] = @ \cup {balance[from[r]] - amount[r]},
                          ![to[r]] = @ \cup {balance[to[r]] + amount[r]}]

KeylessTransfer(r) ==             \* mutant: the debit leg leaves no key
  /\ pc[r] = "transfer"
  /\ balance[from[r]] >= amount[r]
  /\ Pay(r)
  /\ Goto(r, "put_out")
  /\ UNCHANGED <<rows, lastKey, ledger, bonus, request, deposits, payoutsPaused, withdrawn>>

Transfer(r) ==
  /\ pc[r] = "transfer"
  /\ balance[from[r]] >= amount[r]
  /\ Pay(r)
  /\ SetKey(from[r], "other")
  /\ Goto(r, "put_out")
  /\ UNCHANGED <<rows, ledger, bonus, request, deposits, payoutsPaused, withdrawn>>

TransferRefused(r) ==
  /\ pc[r] = "transfer"
  /\ balance[from[r]] < amount[r]
  /\ Goto(r, "insufficient")
  /\ UNCHANGED <<wallet, ledger, bonus, request, deposits, payoutsPaused, withdrawn>>

(* The two entries of the ledger, one put after the other. *)
PutInFirst(r) ==                  \* mutant: the loop starts with the recipient
  /\ pc[r] = "put_out"
  /\ ledger' = ledger \cup {<<r, "TRANSFER_IN">>}
  /\ Goto(r, "put_in")
  /\ UNCHANGED <<wallet, bonus, request, deposits, payoutsPaused, withdrawn>>

PutOut(r) ==
  /\ pc[r] = "put_out"
  /\ ledger' = ledger \cup {<<r, "TRANSFER_OUT">>}
  /\ Goto(r, "put_in")
  /\ UNCHANGED <<wallet, bonus, request, deposits, payoutsPaused, withdrawn>>

PutIn(r) ==
  /\ pc[r] = "put_in"
  /\ ledger' = ledger \cup {<<r, "TRANSFER_IN">>}
  /\ Goto(r, "completed")
  /\ UNCHANGED <<wallet, bonus, request, deposits, payoutsPaused, withdrawn>>

(* The instance dies, or a call fails for another reason than its condition. *)
Abort(r) ==
  /\ pc[r] \in {"query", "debit", "transfer", "put_out", "put_in"}
  /\ Goto(r, "dead")
  /\ UNCHANGED <<wallet, ledger, bonus, request, deposits, payoutsPaused, withdrawn>>

----
(***************************************************************************)
(* Money that comes into the wallets, and the bonus that is taken back.    *)
(***************************************************************************)

(* The wallet leg of transactBonusClaim, and of transactReverseBonus. *)
BonusClaim(b) ==
  LET u == BonusOf[b] IN
  /\ bonus[b] = "none"
  /\ bonus' = [bonus EXCEPT ![b] = "claimed"]
  /\ SetBalance(u, balance[u] + BonusAmt)
  /\ rows' = rows \cup {u}
  /\ UNCHANGED <<lastKey, ledger, pc, request, deposits, payoutsPaused, withdrawn>>

ReverseBonus(b) ==
  LET u == BonusOf[b] IN
  /\ bonus[b] = "claimed" /\ balance[u] >= BonusAmt
  /\ bonus' = [bonus EXCEPT ![b] = "reversed"]
  /\ SetBalance(u, balance[u] - BonusAmt)
  /\ SetKey(u, "other")
  /\ UNCHANGED <<rows, ledger, pc, request, deposits, payoutsPaused, withdrawn>>

(* CreditWalletUseCase.  A caller that retries repeats the key of the
   deposit, which the row remembers until the next key. *)
CreditKeepsFirstKey(d) ==         \* mutant: the key is written by the first credit only
  LET u == DepositOf[d] IN
  /\ credited[d] < MaxCredits
  /\ lastKey[u] # d
  /\ SetBalance(u, balance[u] + DepositAmt)
  /\ UNCHANGED lastKey
  /\ rows' = rows \cup {u}
  /\ credited' = [credited EXCEPT ![d] = @ + 1]
  /\ unposted' = unposted \cup {d}
  /\ held' = held \cup {d}
  /\ UNCHANGED <<ledger, bonus, pc, request, payoutsPaused, withdrawn>>

CreditWallet(d) ==
  LET u == DepositOf[d] IN
  /\ credited[d] < MaxCredits
  /\ lastKey[u] # d
  /\ SetBalance(u, balance[u] + DepositAmt)
  /\ SetKey(u, d)
  /\ rows' = rows \cup {u}
  /\ credited' = [credited EXCEPT ![d] = @ + 1]
  /\ unposted' = unposted \cup {d}
  /\ held' = held \cup {d}
  /\ UNCHANGED <<ledger, bonus, pc, request, payoutsPaused, withdrawn>>

(* Its second write, which a crash may prevent for ever. *)
AppendLedgerEntry(d) ==
  /\ d \in unposted
  /\ ledger' = ledger \cup {<<d, "DEPOSITO">>}
  /\ unposted' = unposted \ {d}
  /\ UNCHANGED <<wallet, bonus, pc, request, credited, held, payoutsPaused, withdrawn>>

FiveDaysPass(d) ==
  /\ d \in held
  /\ held' = held \ {d}
  /\ UNCHANGED <<wallet, ledger, bonus, pc, request, credited, unposted, payoutsPaused, withdrawn>>

(* POST /kill-switch, served by one instance: the flag is its memory, and
   switching it off in one leaves it on in another. *)
KillSwitch(enabled) ==
  /\ payoutsPaused' \in IF enabled THEN {TRUE} ELSE {FALSE, payoutsPaused}
  /\ UNCHANGED <<wallet, ledger, bonus, pc, request, deposits, withdrawn>>

----
Serve(r) ==
  \/ \E u \in User, a \in Amount : Withdraw(r, u, a)
  \/ CoolingOff(r) \/ CoolingOffRefused(r) \/ Debit(r) \/ DebitRefused(r)
  \/ \E u, v \in User, a \in Amount : AskTransfer(r, u, v, a)
  \/ Transfer(r) \/ TransferRefused(r) \/ PutOut(r) \/ PutIn(r)
  \/ Abort(r)

Next ==
  \/ \E r \in Request : Serve(r)
  \/ \E b \in Bonus : BonusClaim(b) \/ ReverseBonus(b)
  \/ \E d \in Deposit : CreditWallet(d) \/ AppendLedgerEntry(d) \/ FiveDaysPass(d)
  \/ \E enabled \in BOOLEAN : KillSwitch(enabled)

Spec == Init /\ [][Next]_vars

----
(***************************************************************************)
(* No wallet is overdrawn, though the debit of a withdrawal has no         *)
(* condition on the balance and the balance it checked was read earlier,   *)
(* perhaps stale: the row accepts that debit only while nothing else has   *)
(* ever taken money out of it ("atomic condition in transactDebitWallet    *)
(* prevents concurrent withdrawals from over-drawing", api/wallet.ts).     *)
(***************************************************************************)
NoOverdraft == \A u \in User : balance[u] >= 0

(***************************************************************************)
(* A user is never paid out more than the limit of the tier, though the    *)
(* counter the limit is compared with is never written.                    *)
(***************************************************************************)
WithinTierLimit == \A u \in User : withdrawn[u] <= WithdrawLimit[Tier[u]]

(***************************************************************************)
(* Nothing is paid out of a wallet that holds a deposit younger than five  *)
(* days (Decreto 222/2020, withdrawal-cooling-off.ts), even one credited   *)
(* after the query, one the query missed, or one whose ledger entry was    *)
(* lost.                                                                   *)
(***************************************************************************)
CoolingOffKept ==
  [][\A d \in held : withdrawn'[DepositOf[d]] = withdrawn[DepositOf[d]]]_vars

(***************************************************************************)
(* Money is neither made nor lost between the wallets: what they hold is   *)
(* what came in and has not been paid out, whatever races and dies.        *)
(***************************************************************************)
Claimed == {b \in Bonus : bonus[b] = "claimed"}

MoneyConserved ==
  SumOf(balance, User) + SumOf(withdrawn, User)
    = BonusAmt * Cardinality(Claimed) + DepositAmt * SumOf(credited, Deposit)

(***************************************************************************)
(* The ledger never shows the credit of a transfer without its debit, nor  *)
(* either of a transfer that did not move money.                           *)
(***************************************************************************)
LedgerTellsTruth ==
  \A r \in Request :
    /\ <<r, "TRANSFER_IN">> \in ledger => <<r, "TRANSFER_OUT">> \in ledger
    /\ pc[r] \in {"new", "transfer", "insufficient", "refused", "paid"} =>
         <<r, "TRANSFER_OUT">> \notin ledger

----
(***************************************************************************)
(* The condition of transactDebitWallet is documented as "balance_cop >=   *)
(* :amount" and its failure reported as an insufficient balance            *)
(* (transact/wallet.ts): a withdrawal that is refused so found too little. *)
(* But the code's condition is about the key, and any earlier movement     *)
(* under another key refuses every later withdrawal.                       *)
(***************************************************************************)
RefusedForLackOfMoney ==
  [][\A r \in Request : DebitRefused(r) => balance[from[r]] < amount[r]]_vars
====
