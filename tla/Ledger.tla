---- MODULE Ledger ----
(***************************************************************************)
(* The use cases of the ledger (pagos-service, src/lib/ledger.ts) on one   *)
(* wallet: CreditWalletUseCase, DebitWalletUseCase, GetBalanceUseCase.     *)
(* Each is a few statements to DynamoDB, every one a step that may fail.   *)
(* No route calls the debit yet: withdrawals go through Wallets.           *)
(***************************************************************************)
EXTENDS Sums, Sequences, FiniteSets

CONSTANTS
  Worker,
  Amount, Key,        \* amountCop > 0, and idempotencyKey
  MaxUpdates, MaxBalance  \* bounds: of the version, and of the balance

NoKey == "none"

VARIABLES
  balance, version, lastKey,  \* the row of the wallet
  ledger,                     \* its entries; `left` is history: the balance after the update
  pc, call,
  lost                        \* history: the amounts whose entry was never written

vars == <<balance, version, lastKey, ledger, pc, call, lost>>

Movement == {"DEPOSITO", "RETIRO"}

Entry == [movement : Movement, amount : Int, after : Nat, left : Nat]
Call == [movement : Movement, amount : Amount, read : 0 .. MaxBalance, version : Nat,
         left : 0 .. MaxBalance, after : 0 .. MaxBalance]

TypeOK ==
  /\ balance \in 0 .. MaxBalance /\ version \in Nat
  /\ lastKey \in Key \cup {NoKey}
  /\ ledger \in Seq(Entry) /\ Len(ledger) <= MaxUpdates
  /\ pc \in [Worker -> {"idle", "update", "read", "put"}]
  /\ call \in [Worker -> Call]
  /\ lost \in Int

NoCall == [movement |-> "DEPOSITO", amount |-> CHOOSE a \in Amount : TRUE, read |-> 0,
           version |-> 0, left |-> 0, after |-> 0]

(* A wallet without a row reads as empty. *)
Init ==
  /\ balance = 0 /\ version = 0 /\ lastKey = NoKey
  /\ ledger = <<>>
  /\ pc = [w \in Worker |-> "idle"] /\ call = [w \in Worker |-> NoCall]
  /\ lost = 0

----
(* The bound, which stops no call half way. *)
Room == version + Cardinality({w \in Worker : pc[w] = "update"}) < MaxUpdates

(* CreditWallet, step 1: refused if the last credit had this key. *)
Credit(w, amount, key) ==
  /\ pc[w] = "idle" /\ Room
  /\ balance + amount <= MaxBalance
  /\ lastKey # key
  /\ balance' = balance + amount
  /\ version' = version + 1
  /\ lastKey' = key
  /\ call' = [call EXCEPT ![w] = [NoCall EXCEPT !.amount = amount, !.left = balance + amount]]
  /\ pc' = [pc EXCEPT ![w] = "read"]
  /\ UNCHANGED <<ledger, lost>>

(* appendLedgerEntry: the balance of its entry is read now, and is 0 if
   that read fails. *)
ReadBalance(w) ==
  /\ pc[w] = "read"
  /\ \E after \in {balance, 0} : call' = [call EXCEPT ![w].after = after]
  /\ pc' = [pc EXCEPT ![w] = "put"]
  /\ UNCHANGED <<balance, version, lastKey, ledger, lost>>

(* DebitWallet, step 1: InsufficientBalanceError, or go on. *)
DebitRead(w, amount) ==
  /\ pc[w] = "idle" /\ Room
  /\ balance >= amount
  /\ call' = [call EXCEPT ![w] = [NoCall EXCEPT !.movement = "RETIRO", !.amount = amount,
                                                !.read = balance, !.version = version]]
  /\ pc' = [pc EXCEPT ![w] = "update"]
  /\ UNCHANGED <<balance, version, lastKey, ledger, lost>>

UnchangedBalanceOnly(w) == balance >= call[w].amount     \* mutant: no version in the condition

UnchangedAnyway(w) == TRUE     \* mutant: no condition at all

(* The condition of step 2. *)
Unchanged(w) == version = call[w].version /\ balance >= call[w].amount

DebitUpdate(w) ==
  LET c == call[w] IN
  /\ pc[w] = "update" /\ Unchanged(w)
  /\ balance' = balance - c.amount
  /\ version' = version + 1
  /\ call' = [call EXCEPT ![w].left = balance - c.amount, ![w].after = c.read - c.amount]
  /\ pc' = [pc EXCEPT ![w] = "put"]
  /\ UNCHANGED <<lastKey, ledger, lost>>

(* ConditionalCheckFailedException: the caller has to try again. *)
DebitRefused(w) ==
  /\ pc[w] = "update" /\ ~Unchanged(w)
  /\ pc' = [pc EXCEPT ![w] = "idle"] /\ call' = [call EXCEPT ![w] = NoCall]
  /\ UNCHANGED <<balance, version, lastKey, ledger, lost>>

SignedAsGiven(c) == c.amount     \* mutant: a withdrawal without its sign

Signed(c) == IF c.movement = "RETIRO" THEN -c.amount ELSE c.amount

PutEntry(w) ==
  LET c == call[w] IN
  /\ pc[w] = "put"
  /\ ledger' = Append(ledger, [movement |-> c.movement, amount |-> Signed(c),
                               after |-> c.after, left |-> c.left])
  /\ pc' = [pc EXCEPT ![w] = "idle"] /\ call' = [call EXCEPT ![w] = NoCall]
  /\ UNCHANGED <<balance, version, lastKey, lost>>

Moved(w) == pc[w] \in {"read", "put"}     \* the row is updated, the entry is not written

Due(w) ==
  IF ~Moved(w) THEN 0
  ELSE IF call[w].movement = "RETIRO" THEN -call[w].amount ELSE call[w].amount

(* The entry fails, or the instance dies before it. *)
Fail(w) ==
  /\ pc[w] # "idle"
  /\ lost' = lost + Due(w)
  /\ pc' = [pc EXCEPT ![w] = "idle"] /\ call' = [call EXCEPT ![w] = NoCall]
  /\ UNCHANGED <<balance, version, lastKey, ledger>>

Next ==
  \E w \in Worker :
    \/ \E a \in Amount, k \in Key : Credit(w, a, k)
    \/ \E a \in Amount : DebitRead(w, a)
    \/ ReadBalance(w) \/ DebitUpdate(w) \/ DebitRefused(w) \/ PutEntry(w) \/ Fail(w)

Spec == Init /\ [][Next]_vars

----
Total(s) == SumOf([i \in DOMAIN s |-> s[i].amount], DOMAIN s)

Pending == SumOf([w \in Worker |-> Due(w)], Worker)

(* The money of the wallet as its entries have it: those written, those
   still to be written, and those that a failure between the two writes has
   lost. *)
Money == Total(ledger) + Pending + lost

Abstract == INSTANCE Account WITH money <- Money

(***************************************************************************)
(* The entries live the life of an Account: every update of the row moves  *)
(* the money they add up to by its amount and never overdraws it, and the  *)
(* steps that follow, or their failure, do not move it.                    *)
(***************************************************************************)
AccountSpec == Abstract!Spec

(***************************************************************************)
(* The balance of the row is the money of the entries (ledger.ts:117).     *)
(***************************************************************************)
BalanceIsMoney == balance = Money

(***************************************************************************)
(* A withdrawal's entry gives the balance that it left, though it comes    *)
(* from a read made before the update: the version holds whoever comes     *)
(* between off.  (A deposit's entry need not: its balance is read after,   *)
(* when others may have moved it.)                                         *)
(***************************************************************************)
DebitTellsBalance ==
  \A i \in DOMAIN ledger : ledger[i].movement = "RETIRO" => ledger[i].after = ledger[i].left
====
