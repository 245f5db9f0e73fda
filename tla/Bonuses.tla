---- MODULE Bonuses ----
(***************************************************************************)
(* POST /v1/bonuses/:user/trigger (src/api/bonuses.ts): the bonus engine   *)
(* (src/lib/bonuses.ts) decides on a bonus and counts it against the       *)
(* daily caps of its rule (src/lib/bonus-daily-counter-dynamo.ts), then    *)
(* transactBonusClaim (src/lib/transact/bonus.ts) credits it.              *)
(*                                                                         *)
(* A Worker is a request in execution; each DynamoDB call is a step of its *)
(* own.  The store the route gives the engine remembers nothing, so its    *)
(* checks of one-shot rules and cooldowns never refuse.                    *)
(***************************************************************************)
EXTENDS Sums, FiniteSets

CONSTANTS
  User, Tx,
  Rule,                          \* BONUS_RULES
  Amounts,                       \* [Rule -> the amounts computeBonusAmount may return]
  ClaimCapped, ClaimCap,         \* the rules with maxClaimsPerDay, and its value
  AmountCapped, AmountCap,       \* the rules with maxAmountPerDayCop, and its value
  Worker,                        \* requests in execution at the same time
  LastDay,                       \* bound of the calendar
  MaxCount                       \* bound: what a counter may count

NoTx == "none"

Day == 0 .. LastDay

ASSUME ConstantsAssumption ==
  /\ User # {} /\ Rule # {} /\ NoTx \notin Tx
  /\ Amounts \in [Rule -> SUBSET (Nat \ {0})]
  /\ ClaimCapped \subseteq Rule /\ ClaimCap \in [ClaimCapped -> Nat \ {0}]
  /\ AmountCapped \subseteq Rule /\ AmountCap \in [AmountCapped -> Nat]
  /\ IsFiniteSet(Rule) /\ IsFiniteSet(Tx) /\ IsFiniteSet(Worker)
  /\ LastDay \in Nat /\ MaxCount \in Nat

Capped == ClaimCapped \cup AmountCapped

(* dailyCounterKey: the row of one user, rule and UTC day. *)
CounterKey == User \X Rule \X Day

VARIABLES
  today,
  claims, coins,        \* claims_count and amount_cop of each row of the daily counter
  rows,                 \* amount_cop of each row of the bonuses table, 0 if there is none
  balance,              \* balance_cop of each wallet
  pc, job,              \* the requests
  credited, paid        \* history: the bonuses credited against each row, and their sum

counter == <<claims, coins>>
wallets == <<rows, balance>>
history == <<credited, paid>>
vars == <<today, counter, wallets, pc, job, history>>

Job == [user : User, rule : Rule, tx : Tx \cup {NoTx}, amount : Nat, day : Day]

TypeOK ==
  /\ today \in Day
  /\ claims \in [CounterKey -> Nat] /\ coins \in [CounterKey -> Nat]
  /\ rows \in [User \X Rule \X Tx -> Nat]
  /\ balance \in [User -> Nat]
  /\ pc \in [Worker -> {"idle", "check", "add", "claim"}]
  /\ job \in [Worker -> Job]
  /\ credited \in [CounterKey -> Nat] /\ paid \in [CounterKey -> Nat]

Idle == [user |-> CHOOSE u \in User : TRUE, rule |-> CHOOSE r \in Rule : TRUE,
         tx |-> NoTx, amount |-> 0, day |-> 0]

Init ==
  /\ today = 0
  /\ claims = [k \in CounterKey |-> 0] /\ coins = [k \in CounterKey |-> 0]
  /\ rows = [b \in User \X Rule \X Tx |-> 0]
  /\ balance = [u \in User |-> 0]
  /\ pc = [w \in Worker |-> "idle"]
  /\ job = [w \in Worker |-> Idle]
  /\ credited = [k \in CounterKey |-> 0] /\ paid = [k \in CounterKey |-> 0]

----
CounterOf(w) == <<job[w].user, job[w].rule, job[w].day>>
RowOf(w) == <<job[w].user, job[w].rule, job[w].tx>>

Finish(w) ==
  /\ pc' = [pc EXCEPT ![w] = "idle"]
  /\ job' = [job EXCEPT ![w] = Idle]

TriggerTomorrow(w, u, r, t, a) ==   \* mutant: the date is computed in a zone ahead of UTC
  /\ pc[w] = "idle"
  /\ a \in Amounts[r]
  /\ r \in Capped \/ t # NoTx
  /\ pc' = [pc EXCEPT ![w] = IF r \in Capped THEN "check" ELSE "claim"]
  /\ job' = [job EXCEPT ![w] = [user |-> u, rule |-> r, tx |-> t, amount |-> a, day |-> today + 1]]
  /\ UNCHANGED <<today, counter, wallets, history>>

(* triggerRule up to the caps.  The amount and the transaction are what the
   caller says they are. *)
Trigger(w, u, r, t, a) ==
  /\ pc[w] = "idle"
  /\ a \in Amounts[r]
  /\ r \in Capped \/ t # NoTx
  /\ pc' = [pc EXCEPT ![w] = IF r \in Capped THEN "check" ELSE "claim"]
  /\ job' = [job EXCEPT ![w] = [user |-> u, rule |-> r, tx |-> t, amount |-> a, day |-> today]]
  /\ UNCHANGED <<today, counter, wallets, history>>

(* The caps, against a row read as <<c, a>>; one never counted is not there,
   and is not compared. *)
Exceeded(j, c, a) ==
  /\ c > 0
  /\ \/ j.rule \in ClaimCapped /\ c >= ClaimCap[j.rule]
     \/ j.rule \in AmountCapped /\ a + j.amount > AmountCap[j.rule]

(* What an eventually consistent read of a number that only grows may return.
   The two numbers of a row are read at once: to choose them apart allows
   nothing more, because no row at all and the last one are among the choices
   and Exceeded grows with both. *)
Reads(n) == 0 .. n

DailyCheck(w) ==
  /\ pc[w] = "check"
  /\ \E c \in Reads(claims[CounterOf(w)]), a \in Reads(coins[CounterOf(w)]) :
       ~Exceeded(job[w], c, a)
  /\ pc' = [pc EXCEPT ![w] = "add"]
  /\ UNCHANGED <<today, counter, wallets, job, history>>

DailyRefused(w) ==
  /\ pc[w] = "check"
  /\ \E c \in Reads(claims[CounterOf(w)]), a \in Reads(coins[CounterOf(w)]) :
       Exceeded(job[w], c, a)
  /\ Finish(w)
  /\ UNCHANGED <<today, counter, wallets, history>>

(* DynamoBonusDailyCounter.add, before the bonus is credited.  A request
   without transaction_id is counted and never credited. *)
CountOne(w, k) ==            \* mutant: ":one" is added to the amount as well
  /\ pc[w] = "add" /\ claims[k] < MaxCount
  /\ claims' = [claims EXCEPT ![k] = @ + 1]
  /\ coins' = [coins EXCEPT ![k] = @ + 1]
  /\ IF job[w].tx = NoTx THEN Finish(w) ELSE pc' = [pc EXCEPT ![w] = "claim"] /\ UNCHANGED job
  /\ UNCHANGED <<today, wallets, history>>

Count(w, k) ==
  /\ pc[w] = "add" /\ claims[k] < MaxCount
  /\ claims' = [claims EXCEPT ![k] = @ + 1]
  /\ coins' = [coins EXCEPT ![k] = @ + job[w].amount]
  /\ IF job[w].tx = NoTx THEN Finish(w) ELSE pc' = [pc EXCEPT ![w] = "claim"] /\ UNCHANGED job
  /\ UNCHANGED <<today, wallets, history>>

DailyAddToday(w) ==          \* mutant: counts on the day it runs
  Count(w, <<job[w].user, job[w].rule, today>>)

DailyAdd(w) == Count(w, CounterOf(w))

(* transactBonusClaim: the row and the credit, both or none. *)
Credit(w) ==
  /\ rows' = [rows EXCEPT ![RowOf(w)] = job[w].amount]
  /\ balance' = [balance EXCEPT ![job[w].user] = @ + job[w].amount]
  /\ credited' = [credited EXCEPT ![CounterOf(w)] = @ + 1]
  /\ paid' = [paid EXCEPT ![CounterOf(w)] = @ + job[w].amount]

BonusClaimAgain(w) ==        \* mutant: no condition on claimed_at
  /\ pc[w] = "claim"
  /\ Credit(w)
  /\ Finish(w)
  /\ UNCHANGED <<today, counter>>

BonusClaim(w) ==
  /\ pc[w] = "claim"
  /\ rows[RowOf(w)] = 0
  /\ Credit(w)
  /\ Finish(w)
  /\ UNCHANGED <<today, counter>>

(* Claimed before: the route answers as if it had been applied. *)
BonusClaimRefused(w) ==
  /\ pc[w] = "claim"
  /\ rows[RowOf(w)] > 0
  /\ Finish(w)
  /\ UNCHANGED <<today, counter, wallets, history>>

(* The instance dies, or a call fails. *)
Abort(w) ==
  /\ pc[w] # "idle"
  /\ Finish(w)
  /\ UNCHANGED <<today, counter, wallets, history>>

Midnight ==
  /\ today < LastDay
  /\ today' = today + 1
  /\ UNCHANGED <<counter, wallets, pc, job, history>>

Step(w) ==
  \/ DailyCheck(w) \/ DailyRefused(w) \/ DailyAdd(w)
  \/ BonusClaim(w) \/ BonusClaimRefused(w)
  \/ Abort(w)

Next ==
  \/ \E w \in Worker, u \in User, r \in Rule, t \in Tx \cup {NoTx} :
       \E a \in Amounts[r] : Trigger(w, u, r, t, a)
  \/ \E w \in Worker : Step(w)
  \/ Midnight

Spec == Init /\ [][Next]_vars

----
(***************************************************************************)
(* Every bonus of a capped rule is counted against the day it was asked    *)
(* on before it is credited, though other requests may run between its own *)
(* two calls, midnight may pass, and instances die: the counter never says *)
(* less than what was credited (DynamoBonusDailyCounter.add precedes       *)
(* transactBonusClaim).                                                    *)
(***************************************************************************)
CreditsAreCounted ==
  \A k \in CounterKey : k[2] \in Capped => credited[k] <= claims[k]

(***************************************************************************)
(* Nor does its sum: what the cap on the amount is compared with covers    *)
(* every peso a capped rule has paid on that day.                          *)
(***************************************************************************)
PaymentsAreCounted ==
  \A k \in CounterKey : k[2] \in Capped => paid[k] <= coins[k]

(***************************************************************************)
(* The wallet holds what the rows of the bonuses table say, so that every  *)
(* credit can be found and taken back by its transaction: no request       *)
(* credits a transaction that another has credited under the same rule.    *)
(***************************************************************************)
WalletHoldsRows ==
  \A u \in User : balance[u] = SumOf(rows, {u} \X Rule \X Tx)

----
(***************************************************************************)
(* "Max cumulative COP per user per day from this rule" (bonus-rules.ts):  *)
(* what a rule credits to a user on one day stays within its cap.  But the *)
(* first claim of the day finds no row to compare with, and claims that    *)
(* run at the same time do not see one another.                            *)
(***************************************************************************)
AmountCapHolds ==
  \A k \in CounterKey : k[2] \in AmountCapped => paid[k] <= AmountCap[k[2]]
====
