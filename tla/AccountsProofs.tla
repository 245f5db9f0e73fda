---- MODULE AccountsProofs ----
(***************************************************************************)
(* Proofs of what the components that keep a user's account promise:       *)
(* Ledger, Cancellation, Tiers, Referrals and Streaks.                     *)
(***************************************************************************)
EXTENDS Components, SumsProofs, Sequences, TLAPS

(* The instances' sums are those of Sums. *)
LEMMA LedgerSums == ASSUME NEW f, NEW S PROVE Ledger!SumOf(f, S) = SumOf(f, S)
BY DEF Ledger!SumOf, Ledger!MapThenSumSet, Ledger!MapThenFoldSet, SumOf, MapThenSumSet, MapThenFoldSet

----
(***************************************************************************)
(* Ledger.                                                                 *)
(***************************************************************************)
LedgerTyped ==
  /\ balance \in 0 .. MaxBalance /\ version \in Nat
  /\ ledger \in Seq(Ledger!Entry)
  /\ ledgerPc \in [Worker -> {"idle", "update", "read", "put"}]
  /\ ledgerCall \in [Worker -> Ledger!Call]
  /\ lost \in Int

(* A debit that may still go through has read the balance there is ... *)
DebitHasReadIt ==
  \A w \in Worker : ledgerPc[w] = "update" =>
    /\ ledgerCall[w].movement = "RETIRO"
    /\ ledgerCall[w].version <= version
    /\ ledgerCall[w].version = version => ledgerCall[w].read = balance

(* ... so that the balance it computes from it is the one it leaves. *)
DebitLeavesIt ==
  \A w \in Worker :
    /\ ledgerPc[w] = "read" => ledgerCall[w].movement = "DEPOSITO"
    /\ ledgerPc[w] = "put" /\ ledgerCall[w].movement = "RETIRO" => ledgerCall[w].after = ledgerCall[w].left

LedgerStep(w) ==
  \/ \E a \in Amount, k \in CreditKey : Ledger!Credit(w, a, k)
  \/ \E a \in Amount : Ledger!DebitRead(w, a)
  \/ Ledger!ReadBalance(w) \/ Ledger!DebitUpdate(w) \/ Ledger!DebitRefused(w)
  \/ Ledger!PutEntry(w) \/ Ledger!Fail(w)

(* What a call holds ... *)
LEMMA LedgerFields ==
  ASSUME NEW c \in Ledger!Call
  PROVE  /\ c.amount \in Nat \ {0} /\ c.version \in Nat /\ c.movement \in {"DEPOSITO", "RETIRO"}
         /\ c.read \in 0 .. MaxBalance /\ c.after \in 0 .. MaxBalance /\ c.left \in 0 .. MaxBalance
BY LedgerAssumption DEF Ledger!Call, Ledger!Movement

(* ... and what the steps write into it. *)
LEMMA LedgerCalls ==
  ASSUME NEW c \in Ledger!Call
  PROVE  /\ \A after \in 0 .. MaxBalance : [c EXCEPT !.after = after] \in Ledger!Call
         /\ \A left, after \in 0 .. MaxBalance : [c EXCEPT !.left = left, !.after = after] \in Ledger!Call
         /\ \A left \in 0 .. MaxBalance, a \in Amount :
              [c EXCEPT !.amount = a, !.left = left] \in Ledger!Call
BY LedgerAssumption DEF Ledger!Call

LEMMA NoLedgerCall == Ledger!NoCall \in Ledger!Call
  /\ Ledger!NoCall.movement = "DEPOSITO"
BY LedgerAssumption DEF Ledger!NoCall, Ledger!Call, Ledger!Movement

LEMMA LedgerTypes ==
  /\ Ledger!Init => LedgerTyped
  /\ LedgerTyped /\ DebitHasReadIt /\ [Ledger!Next]_(Ledger!vars) => LedgerTyped'
<1>1. Ledger!Init => LedgerTyped
  BY LedgerAssumption, NoLedgerCall DEF Ledger!Init, LedgerTyped
<1>. SUFFICES ASSUME LedgerTyped, DebitHasReadIt, [Ledger!Next]_(Ledger!vars) PROVE LedgerTyped'
  BY <1>1
<1>2. CASE UNCHANGED Ledger!vars
  BY <1>2 DEF LedgerTyped, Ledger!vars
<1>. SUFFICES ASSUME NEW w \in Worker, LedgerStep(w) PROVE LedgerTyped'
  BY <1>2 DEF Ledger!Next, LedgerStep
<1>. USE LedgerAssumption, NoLedgerCall DEF LedgerTyped
<1>3. ASSUME NEW a \in Amount, NEW k \in CreditKey, Ledger!Credit(w, a, k) PROVE LedgerTyped'
  <2>. DEFINE c == [Ledger!NoCall EXCEPT !.amount = a, !.left = balance + a]
  <2>0. balance + a \in 0 .. MaxBalance
    BY <1>3 DEF Ledger!Credit
  <2>1. c \in Ledger!Call
    BY <2>0, LedgerCalls
  <2>2. ledgerCall' = [ledgerCall EXCEPT ![w] = c]
    BY <1>3 DEF Ledger!Credit
  <2>. HIDE DEF c
  <2>. QED
    BY <1>3, <2>0, <2>1, <2>2 DEF Ledger!Credit
<1>4. ASSUME NEW a \in Amount, Ledger!DebitRead(w, a) PROVE LedgerTyped'
  BY <1>4 DEF Ledger!DebitRead, Ledger!Call, Ledger!Movement
<1>5. CASE Ledger!ReadBalance(w)
  <2>1. PICK after \in {balance, 0} : ledgerCall' = [ledgerCall EXCEPT ![w].after = after]
    BY <1>5 DEF Ledger!ReadBalance
  <2>. DEFINE c == [ledgerCall[w] EXCEPT !.after = after]
  <2>2. ledgerCall[w] \in Ledger!Call /\ after \in 0 .. MaxBalance
    OBVIOUS
  <2>4. c \in Ledger!Call
    BY <2>2, LedgerCalls
  <2>3. ledgerCall' = [ledgerCall EXCEPT ![w] = c]
    BY <2>1
  <2>. HIDE DEF c
  <2>. QED
    BY <1>5, <2>4, <2>3 DEF Ledger!ReadBalance
<1>6. CASE Ledger!DebitUpdate(w)
  <2>. DEFINE left == balance - ledgerCall[w].amount
              after == ledgerCall[w].read - ledgerCall[w].amount
              c == [ledgerCall[w] EXCEPT !.left = left, !.after = after]
  <2>1. left \in 0 .. MaxBalance /\ after = left
    BY <1>6 DEF Ledger!DebitUpdate, Ledger!Unchanged, Ledger!Call, DebitHasReadIt
  <2>2. c \in Ledger!Call
    BY <2>1, LedgerCalls
  <2>3. ledgerCall' = [ledgerCall EXCEPT ![w] = c] /\ balance' = left
    BY <1>6 DEF Ledger!DebitUpdate
  <2>. HIDE DEF c, left, after
  <2>4. ledgerCall' \in [Worker -> Ledger!Call]
    BY <2>2, <2>3
  <2>. QED
    BY <1>6, <2>1, <2>3, <2>4 DEF Ledger!DebitUpdate
<1>7. CASE Ledger!DebitRefused(w)
  BY <1>7 DEF Ledger!DebitRefused
<1>8. CASE Ledger!PutEntry(w)
  <2>. DEFINE c == ledgerCall[w]
              e == [movement |-> c.movement, amount |-> Ledger!Signed(c), after |-> c.after, left |-> c.left]
  <2>5. c \in Ledger!Call
    OBVIOUS
  <2>. HIDE DEF c
  <2>4. /\ c.amount \in Nat \ {0} /\ c.movement \in {"DEPOSITO", "RETIRO"}
        /\ c.after \in 0 .. MaxBalance /\ c.left \in 0 .. MaxBalance
    BY <2>5, LedgerFields
  <2>0. c.amount \in Nat /\ c.after \in Nat /\ c.left \in Nat
        /\ c.movement \in Ledger!Movement
    BY <2>4 DEF Ledger!Movement
  <2>1. e \in Ledger!Entry
    BY <2>0 DEF Ledger!Entry, Ledger!Signed
  <2>2. ledger' = Append(ledger, e)
    BY <1>8 DEF Ledger!PutEntry, c
  <2>. HIDE DEF e
  <2>3. ledger' \in Seq(Ledger!Entry)
    BY <2>1, <2>2
  <2>. QED
    BY <1>8, <2>3 DEF Ledger!PutEntry
<1>9. CASE Ledger!Fail(w)
  BY <1>9 DEF Ledger!Fail, Ledger!Due, Ledger!Call
<1>. QED
  BY <1>3, <1>4, <1>5, <1>6, <1>7, <1>8, <1>9 DEF LedgerStep

LEMMA DebitsInOrder ==
  /\ Ledger!Init => DebitHasReadIt /\ DebitLeavesIt
  /\ LedgerTyped /\ DebitHasReadIt /\ DebitLeavesIt /\ [Ledger!Next]_(Ledger!vars)
       => DebitHasReadIt' /\ DebitLeavesIt'
<1>1. Ledger!Init => DebitHasReadIt /\ DebitLeavesIt
  BY DEF Ledger!Init, DebitHasReadIt, DebitLeavesIt
<1>. SUFFICES ASSUME LedgerTyped, DebitHasReadIt, DebitLeavesIt, [Ledger!Next]_(Ledger!vars)
              PROVE  DebitHasReadIt' /\ DebitLeavesIt'
  BY <1>1
<1>2. CASE UNCHANGED Ledger!vars
  BY <1>2 DEF DebitHasReadIt, DebitLeavesIt, Ledger!vars
<1>. SUFFICES ASSUME NEW w \in Worker, LedgerStep(w) PROVE DebitHasReadIt' /\ DebitLeavesIt'
  BY <1>2 DEF Ledger!Next, LedgerStep
<1>. USE NoLedgerCall DEF LedgerTyped, DebitHasReadIt, DebitLeavesIt
<1>3. ASSUME NEW a \in Amount, NEW k \in CreditKey, Ledger!Credit(w, a, k)
      PROVE  DebitHasReadIt' /\ DebitLeavesIt'
  BY <1>3 DEF Ledger!Credit, Ledger!Call
<1>4. ASSUME NEW a \in Amount, Ledger!DebitRead(w, a) PROVE DebitHasReadIt' /\ DebitLeavesIt'
  BY <1>4 DEF Ledger!DebitRead, Ledger!Call
<1>5. CASE Ledger!ReadBalance(w)
  BY <1>5 DEF Ledger!ReadBalance, Ledger!Call
<1>6. CASE Ledger!DebitUpdate(w)
  BY <1>6 DEF Ledger!DebitUpdate, Ledger!Unchanged, Ledger!Call
<1>7. CASE Ledger!DebitRefused(w)
  BY <1>7 DEF Ledger!DebitRefused
<1>8. CASE Ledger!PutEntry(w)
  BY <1>8 DEF Ledger!PutEntry
<1>9. CASE Ledger!Fail(w)
  BY <1>9 DEF Ledger!Fail
<1>. QED
  BY <1>3, <1>4, <1>5, <1>6, <1>7, <1>8, <1>9 DEF LedgerStep

(* An entry more adds its amount. *)
LEMMA OneMoreEntry ==
  ASSUME NEW s \in Seq(Ledger!Entry), NEW e \in Ledger!Entry
  PROVE  /\ Ledger!Total(s) \in Int
         /\ Ledger!Total(Append(s, e)) = Ledger!Total(s) + e.amount
<1>. DEFINE t == Append(s, e)
            n == Len(s)
            f == [i \in DOMAIN s |-> s[i].amount]
            g == [i \in DOMAIN t |-> t[i].amount]
<1>1. /\ n \in Nat /\ DOMAIN s = 1 .. n /\ DOMAIN t = 1 .. n + 1
      /\ t[n + 1] = e /\ \A i \in 1 .. n : t[i] = s[i] /\ s[i] \in Ledger!Entry
  OBVIOUS
<1>2. e.amount \in Int /\ \A i \in 1 .. n : s[i].amount \in Int
  BY <1>1 DEF Ledger!Entry
<1>. HIDE DEF t, n
<1>3. g[n + 1] = e.amount /\ \A i \in 1 .. n : f[i] \in Int /\ g[i] = f[i]
  BY <1>1, <1>2
<1>4. Ledger!Total(s) = SumOf(f, DOMAIN s) /\ Ledger!Total(t) = SumOf(g, DOMAIN t)
  BY LedgerSums DEF Ledger!Total
<1>. HIDE DEF f, g
<1>5. Ledger!Total(s) = SumOf(f, 1 .. n) /\ Ledger!Total(t) = SumOf(g, 1 .. n + 1)
  BY <1>1, <1>4, Zenon
<1>6. SumOf(g, 1 .. n + 1) = SumOf(f, 1 .. n) + g[n + 1]
  BY <1>1, <1>2, <1>3, SumOfLonger
<1>7. IsFiniteSet(1 .. n)
  BY <1>1, FS_Interval
<1>8. SumOf(f, 1 .. n) \in Int
  BY <1>3, <1>7, SumOfType
<1>. QED
  BY <1>3, <1>5, <1>6, <1>8 DEF t

(* What is still to be written changes by what the moving call owes. *)
LEMMA PendingMoves ==
  ASSUME LedgerTyped, LedgerTyped', NEW w \in Worker,
         \A v \in Worker \ {w} : ledgerPc'[v] = ledgerPc[v] /\ ledgerCall'[v] = ledgerCall[v]
  PROVE  /\ Ledger!Pending \in Int /\ Ledger!Due(w) \in Int /\ Ledger!Due(w)' \in Int
         /\ Ledger!Pending' = Ledger!Pending + (Ledger!Due(w)' - Ledger!Due(w))
<1>. DEFINE f == [v \in Worker |-> Ledger!Due(v)]
            g == [v \in Worker |-> Ledger!Due(v)']
<1>1. \A v \in Worker : Ledger!Due(v) \in Int /\ Ledger!Due(v)' \in Int
  <2>1. ASSUME NEW v \in Worker PROVE ledgerCall[v].amount \in Int /\ ledgerCall'[v].amount \in Int
    <3>1. ledgerCall[v] \in Ledger!Call /\ ledgerCall'[v] \in Ledger!Call
      BY DEF LedgerTyped
    <3>. QED
      BY <3>1, LedgerFields
  <2>. QED
    BY <2>1 DEF Ledger!Due
<1>2. \A v \in Worker \ {w} : Ledger!Due(v)' = Ledger!Due(v)
  BY DEF Ledger!Due, Ledger!Moved
<1>3. Ledger!Pending = SumOf(f, Worker) /\ Ledger!Pending' = SumOf(g, Worker)
  BY LedgerSums DEF Ledger!Pending
<1>4. /\ \A v \in Worker : f[v] \in Int /\ g[v] \in Int
      /\ \A v \in Worker \ {w} : g[v] = f[v]
      /\ f[w] = Ledger!Due(w) /\ g[w] = Ledger!Due(w)'
  BY <1>1, <1>2
<1>. HIDE DEF f, g
<1>5. SumOf(g, Worker) = SumOf(f, Worker) + (g[w] - f[w])
  BY <1>4, WorkerAssumption, SumOfChange
<1>6. SumOf(f, Worker) \in Int
  BY <1>4, WorkerAssumption, SumOfType
<1>. QED
  BY <1>1, <1>3, <1>4, <1>5, <1>6

(* Init starts without money. *)
LEMMA NoMoneyYet == Ledger!Init => Ledger!Money = 0
<1>. SUFFICES ASSUME Ledger!Init PROVE Ledger!Money = 0
  OBVIOUS
<1>1. Ledger!Pending = 0
  <2>. DEFINE f == [v \in Worker |-> Ledger!Due(v)]
  <2>1. \A v \in Worker : f[v] = 0
    BY DEF Ledger!Init, Ledger!Due, Ledger!Moved
  <2>2. Ledger!Pending = SumOf(f, Worker)
    BY LedgerSums DEF Ledger!Pending
  <2>. HIDE DEF f
  <2>. QED
    BY <2>1, <2>2, WorkerAssumption, SumOfZeros
<1>2. Ledger!Total(ledger) = 0
  <2>. DEFINE f == [i \in DOMAIN ledger |-> ledger[i].amount]
  <2>1. DOMAIN ledger = {}
    BY DEF Ledger!Init
  <2>2. Ledger!Total(ledger) = SumOf(f, DOMAIN ledger)
    BY LedgerSums DEF Ledger!Total
  <2>. HIDE DEF f
  <2>3. Ledger!Total(ledger) = SumOf(f, {})
    BY <2>1, <2>2, Zenon
  <2>. QED
    BY <2>3, SumOfNothing
<1>. QED
  BY <1>1, <1>2 DEF Ledger!Init, Ledger!Money

(* Every step moves the money of the entries by as much as the balance. *)
LEMMA MoneyMoves ==
  ASSUME LedgerTyped, LedgerTyped', DebitHasReadIt, DebitLeavesIt, NEW w \in Worker, LedgerStep(w)
  PROVE  Ledger!Money \in Int /\ Ledger!Money' = Ledger!Money + (balance' - balance)
<1>. DEFINE total == Ledger!Total(ledger)
            due == Ledger!Due(w)
            pending == Ledger!Pending
<1>1. total \in Int /\ total' \in Int /\ balance \in Int /\ balance' \in Int /\ lost \in Int /\ lost' \in Int
  <2>. DEFINE e == [movement |-> "RETIRO", amount |-> 0, after |-> 0, left |-> 0]
  <2>1. e \in Ledger!Entry
    BY DEF Ledger!Entry, Ledger!Movement
  <2>. HIDE DEF e
  <2>2. ledger \in Seq(Ledger!Entry) /\ ledger' \in Seq(Ledger!Entry)
    BY DEF LedgerTyped
  <2>3. total \in Int /\ total' \in Int
    BY <2>1, <2>2, OneMoreEntry
  <2>. QED
    BY <2>3, LedgerAssumption DEF LedgerTyped
<1>2. /\ pending \in Int /\ due \in Int /\ due' \in Int
      /\ pending' = pending + (due' - due)
  <2>1. \A v \in Worker \ {w} : ledgerPc'[v] = ledgerPc[v] /\ ledgerCall'[v] = ledgerCall[v]
    BY DEF LedgerTyped, LedgerStep, Ledger!Credit, Ledger!DebitRead, Ledger!ReadBalance,
           Ledger!DebitUpdate, Ledger!DebitRefused, Ledger!PutEntry, Ledger!Fail
  <2>. HIDE DEF LedgerStep
  <2>. QED
    BY <2>1, PendingMoves
<1>. DEFINE Balanced == (total' - total) + (due' - due) + (lost' - lost) = balance' - balance
<1>3. Balanced
  <2>. USE NoLedgerCall DEF LedgerTyped
  <2>a. ledgerCall[w] \in Ledger!Call
    OBVIOUS
  <2>b. ledgerCall[w].amount \in Int
    BY <2>a, LedgerFields
  <2>1. ASSUME NEW a \in Amount, NEW k \in CreditKey, Ledger!Credit(w, a, k) PROVE Balanced
    <3>1. due = 0 /\ due' = a
      BY <2>1, <2>a DEF Ledger!Credit, Ledger!Due, Ledger!Moved, Ledger!Call
    <3>2. total' = total /\ lost' = lost /\ balance' = balance + a /\ a \in Int
      BY <2>1, LedgerAssumption DEF Ledger!Credit
    <3>. HIDE DEF due, total
    <3>. QED
      BY <1>1, <3>1, <3>2
  <2>2. ASSUME NEW a \in Amount, Ledger!DebitRead(w, a) PROVE Balanced
    <3>1. due = 0 /\ due' = 0
      BY <2>2, <2>a DEF Ledger!DebitRead, Ledger!Due, Ledger!Moved
    <3>2. total' = total /\ lost' = lost /\ balance' = balance
      BY <2>2 DEF Ledger!DebitRead
    <3>. HIDE DEF due, total
    <3>. QED
      BY <1>1, <3>1, <3>2
  <2>3. CASE Ledger!ReadBalance(w)
    <3>1. due' = due
      BY <2>3, <2>a DEF Ledger!ReadBalance, Ledger!Due, Ledger!Moved, Ledger!Call
    <3>. HIDE DEF due
    <3>. QED
      BY <1>1, <1>2, <2>3, <3>1 DEF Ledger!ReadBalance
  <2>4. CASE Ledger!DebitUpdate(w)
    <3>1. due = 0 /\ due' = -ledgerCall[w].amount
      BY <2>4, <2>a DEF Ledger!DebitUpdate, Ledger!Due, Ledger!Moved, Ledger!Call, DebitHasReadIt
    <3>. HIDE DEF due
    <3>. QED
      BY <1>1, <2>4, <2>b, <3>1 DEF Ledger!DebitUpdate
  <2>5. CASE Ledger!DebitRefused(w)
    <3>1. due = 0 /\ due' = 0
      BY <2>5, <2>a DEF Ledger!DebitRefused, Ledger!Due, Ledger!Moved
    <3>. HIDE DEF due
    <3>. QED
      BY <1>1, <2>5, <3>1 DEF Ledger!DebitRefused
  <2>6. CASE Ledger!PutEntry(w)
    <3>. DEFINE c == ledgerCall[w]
                e == [movement |-> c.movement, amount |-> Ledger!Signed(c), after |-> c.after, left |-> c.left]
    <3>1. due = Ledger!Signed(c) /\ due' = 0
      BY <2>6 DEF Ledger!PutEntry, Ledger!Due, Ledger!Moved, Ledger!Signed
    <3>2. e \in Ledger!Entry /\ e.amount = Ledger!Signed(c)
      BY <2>a, LedgerFields, LedgerAssumption DEF Ledger!Entry, Ledger!Movement, Ledger!Signed
    <3>3. ledger' = Append(ledger, e)
      BY <2>6 DEF Ledger!PutEntry
    <3>. HIDE DEF e, c
    <3>4. total' = total + e.amount
      BY <3>2, <3>3, OneMoreEntry
    <3>. HIDE DEF due, total
    <3>. QED
      BY <1>1, <1>2, <2>6, <3>1, <3>2, <3>4 DEF Ledger!PutEntry
  <2>7. CASE Ledger!Fail(w)
    <3>1. due' = 0 /\ lost' = lost + due /\ balance' = balance /\ ledger' = ledger
      BY <2>7 DEF Ledger!Fail, Ledger!Due, Ledger!Moved
    <3>. HIDE DEF due
    <3>. QED
      BY <1>1, <1>2, <3>1
  <2>. HIDE DEF Balanced
  <2>. QED
    BY <2>1, <2>2, <2>3, <2>4, <2>5, <2>6, <2>7 DEF LedgerStep
<1>4. Ledger!Money = total + pending + lost /\ Ledger!Money' = total' + pending' + lost'
  BY DEF Ledger!Money
<1>. HIDE DEF total, due, pending
<1>. QED
  BY <1>1, <1>2, <1>3, <1>4

LedgerInv ==
  /\ LedgerTyped /\ DebitHasReadIt /\ DebitLeavesIt
  /\ Ledger!BalanceIsMoney /\ Ledger!DebitTellsBalance

LEMMA LedgerInduction ==
  /\ Ledger!Init => LedgerInv
  /\ LedgerInv /\ [Ledger!Next]_(Ledger!vars) => LedgerInv'
<1>1. Ledger!Init => LedgerInv
  BY LedgerTypes, DebitsInOrder, NoMoneyYet
  DEF LedgerInv, Ledger!Init, Ledger!BalanceIsMoney, Ledger!DebitTellsBalance
<1>. SUFFICES ASSUME LedgerInv, [Ledger!Next]_(Ledger!vars) PROVE LedgerInv'
  BY <1>1
<1>2. LedgerTyped' /\ DebitHasReadIt' /\ DebitLeavesIt'
  BY LedgerTypes, DebitsInOrder DEF LedgerInv
<1>3. Ledger!BalanceIsMoney'
  <2>1. CASE UNCHANGED Ledger!vars
    BY <2>1 DEF LedgerInv, Ledger!vars, Ledger!BalanceIsMoney, Ledger!Money, Ledger!Total,
                Ledger!Pending, Ledger!Due, Ledger!Moved
  <2>2. ASSUME NEW w \in Worker, LedgerStep(w) PROVE Ledger!BalanceIsMoney'
    <3>1. Ledger!Money \in Int /\ Ledger!Money' = Ledger!Money + (balance' - balance)
      BY <1>2, <2>2, MoneyMoves DEF LedgerInv
    <3>2. balance = Ledger!Money /\ balance \in Int /\ balance' \in Int
      BY <1>2, LedgerAssumption DEF LedgerInv, LedgerTyped, Ledger!BalanceIsMoney
    <3>3. \A b, c, m, n \in Int : b = m /\ n = m + (c - b) => c = n
      OBVIOUS
    <3>4. Ledger!Money' \in Int
      BY <3>1, <3>2
    <3>. QED
      BY <3>1, <3>2, <3>3, <3>4, Zenon DEF Ledger!BalanceIsMoney
  <2>. QED
    BY <2>1, <2>2 DEF Ledger!Next, LedgerStep
<1>4. Ledger!DebitTellsBalance'
  <2>1. CASE ledger' = ledger
    BY <2>1 DEF LedgerInv, Ledger!DebitTellsBalance
  <2>2. ASSUME NEW w \in Worker, Ledger!PutEntry(w) PROVE Ledger!DebitTellsBalance'
    <3>. DEFINE c == ledgerCall[w]
                e == [movement |-> c.movement, amount |-> Ledger!Signed(c), after |-> c.after, left |-> c.left]
    <3>1. ledger \in Seq(Ledger!Entry) /\ ledger' = Append(ledger, e)
      BY <2>2 DEF LedgerInv, LedgerTyped, Ledger!PutEntry
    <3>2. e.movement = "RETIRO" => e.after = e.left
      BY <2>2 DEF LedgerInv, DebitLeavesIt, Ledger!PutEntry
    <3>. HIDE DEF e
    <3>3. \A i \in DOMAIN ledger' : IF i \in DOMAIN ledger THEN ledger'[i] = ledger[i] ELSE ledger'[i] = e
      BY <3>1
    <3>. QED
      BY <3>2, <3>3 DEF LedgerInv, Ledger!DebitTellsBalance
  <2>3. \A w \in Worker : LedgerStep(w) => ledger' = ledger \/ Ledger!PutEntry(w)
    BY DEF LedgerStep, Ledger!Credit, Ledger!DebitRead, Ledger!ReadBalance,
           Ledger!DebitUpdate, Ledger!DebitRefused, Ledger!Fail
  <2>. QED
    BY <2>1, <2>2, <2>3 DEF Ledger!Next, LedgerStep, Ledger!vars
<1>. QED
  BY <1>2, <1>3, <1>4 DEF LedgerInv

(***************************************************************************)
(* The balance of a wallet is the money its entries tell of, those still   *)
(* to be written and those a failure has lost included, and a withdrawal's *)
(* entry tells the balance that it left (ledger.ts).                       *)
(***************************************************************************)
THEOREM LedgerIsTold == Ledger!Spec => []LedgerTellsBalance
<1>1. LedgerInv => LedgerTellsBalance
  BY DEF LedgerInv, LedgerTellsBalance
<1>. QED
  BY LedgerInduction, <1>1, PTL DEF Ledger!Spec

(***************************************************************************)
(* The use cases implement the abstract account: every step of theirs is a *)
(* deposit, a withdrawal that is covered, or nothing.                      *)
(***************************************************************************)
THEOREM LedgerIsAnAccount == Ledger!Spec => AccountSpec
<1>1. Ledger!Init => Ledger!Abstract!Init
  BY NoMoneyYet DEF Ledger!Abstract!Init
<1>2. LedgerInv /\ LedgerInv' /\ [Ledger!Next]_(Ledger!vars) => [Ledger!Abstract!Next]_(Ledger!Money)
  <2>. SUFFICES ASSUME LedgerInv, LedgerInv', [Ledger!Next]_(Ledger!vars)
                PROVE  Ledger!Abstract!Next \/ Ledger!Money' = Ledger!Money
    OBVIOUS
  <2>0. /\ balance = Ledger!Money /\ balance' = Ledger!Money'
        /\ balance \in Int /\ balance' \in Int
    BY LedgerAssumption DEF LedgerInv, LedgerTyped, Ledger!BalanceIsMoney
  <2>1. CASE balance' = balance
    BY <2>0, <2>1
  <2>2. ASSUME NEW w \in Worker, NEW a \in Amount, NEW k \in CreditKey, Ledger!Credit(w, a, k)
        PROVE  Ledger!Abstract!Next
    BY <2>0, <2>2 DEF Ledger!Credit, Ledger!Abstract!Next, Ledger!Abstract!Deposit
  <2>3. ASSUME NEW w \in Worker, Ledger!DebitUpdate(w) PROVE Ledger!Abstract!Next
    <3>1. ledgerCall[w].amount \in Amount
      BY DEF LedgerInv, LedgerTyped, Ledger!Call
    <3>. QED
      BY <2>0, <2>3, <3>1
      DEF Ledger!DebitUpdate, Ledger!Unchanged, Ledger!Abstract!Next, Ledger!Abstract!Withdraw
  <2>4. \A w \in Worker : LedgerStep(w) =>
          \/ balance' = balance \/ Ledger!DebitUpdate(w)
          \/ \E a \in Amount, k \in CreditKey : Ledger!Credit(w, a, k)
    BY DEF LedgerStep, Ledger!DebitRead, Ledger!ReadBalance, Ledger!DebitRefused, Ledger!PutEntry, Ledger!Fail
  <2>. QED
    BY <2>1, <2>2, <2>3, <2>4 DEF Ledger!Next, LedgerStep, Ledger!vars
<1>. QED
  BY LedgerInduction, <1>1, <1>2, PTL DEF Ledger!Spec, AccountSpec, Ledger!AccountSpec, Ledger!Abstract!Spec

(***************************************************************************)
(* Ledger's TypeOK bounds the number of entries by MaxUpdates.  That takes *)
(* counting: a debit that is about to update the row has room kept for it, *)
(* and every entry written or due has its update.                          *)
(***************************************************************************)
AboutToUpdate == {v \in Worker : ledgerPc[v] = "update"}
OwesAnEntry == {v \in Worker : ledgerPc[v] \in {"read", "put"}}

RoomIsKept ==
  /\ version + Cardinality(AboutToUpdate) <= MaxUpdates
  /\ Len(ledger) + Cardinality(OwesAnEntry) <= version
  /\ lastKey \in CreditKey \cup {Ledger!NoKey}

(* A set of workers counts one more, or one less, as a worker enters or
   leaves it. *)
LEMMA WorkerMoves ==
  ASSUME NEW before \in SUBSET Worker, NEW after, NEW w \in Worker
  PROVE  /\ Cardinality(before) \in Nat
         /\ after = before => Cardinality(after) = Cardinality(before)
         /\ w \notin before /\ after = before \cup {w} => Cardinality(after) = Cardinality(before) + 1
         /\ w \in before /\ after = before \ {w} => Cardinality(after) = Cardinality(before) - 1
<1>1. IsFiniteSet(before)
  BY WorkerAssumption, FS_Subset
<1>2. Cardinality(before) \in Nat
  BY <1>1, FS_CardinalityType
<1>3. w \notin before => Cardinality(before \cup {w}) = Cardinality(before) + 1
  BY <1>1, FS_AddElement
<1>4. w \in before => Cardinality(before \ {w}) = Cardinality(before) - 1
  BY <1>1, FS_RemoveElement
<1>. QED
  BY <1>2, <1>3, <1>4

(* The copy of Cardinality in Ledger is Cardinality. *)
LEMMA LedgerCards == ASSUME NEW S PROVE Ledger!Cardinality(S) = Cardinality(S)
BY DEF Ledger!Cardinality, Cardinality

(* No step takes up the room of another worker's update. *)
LEMMA RoomInduction ==
  /\ Ledger!Init => RoomIsKept
  /\ LedgerTyped /\ LedgerTyped' /\ RoomIsKept /\ [Ledger!Next]_(Ledger!vars) => RoomIsKept'
<1>1. ASSUME Ledger!Init PROVE RoomIsKept
  <2>1. version = 0 /\ ledger = <<>> /\ \A w \in Worker : ledgerPc[w] = "idle"
    BY <1>1 DEF Ledger!Init
  <2>2. AboutToUpdate = {} /\ OwesAnEntry = {}
    BY <2>1 DEF AboutToUpdate, OwesAnEntry
  <2>3. Cardinality({}) = 0
    BY FS_EmptySet
  <2>4. Cardinality(AboutToUpdate) = 0 /\ Cardinality(OwesAnEntry) = 0
    BY <2>2, <2>3, Zenon
  <2>5. lastKey = Ledger!NoKey
    BY <1>1 DEF Ledger!Init
  <2>. QED
    BY <2>1, <2>4, <2>5, LedgerAssumption DEF RoomIsKept
<1>2. ASSUME LedgerTyped, LedgerTyped', RoomIsKept, [Ledger!Next]_(Ledger!vars) PROVE RoomIsKept'
  <2>1. CASE UNCHANGED Ledger!vars
    BY <1>2, <2>1 DEF Ledger!vars, RoomIsKept, AboutToUpdate, OwesAnEntry
  <2>2. ASSUME NEW w \in Worker, LedgerStep(w) PROVE RoomIsKept'
    <3>0. /\ version \in Nat /\ ledger \in Seq(Ledger!Entry) /\ Len(ledger) \in Nat
          /\ ledgerPc \in [Worker -> {"idle", "update", "read", "put"}] /\ MaxUpdates \in Nat
      BY <1>2, LedgerAssumption DEF LedgerTyped
    <3>1. AboutToUpdate \in SUBSET Worker /\ OwesAnEntry \in SUBSET Worker
      BY DEF AboutToUpdate, OwesAnEntry
    <3>a. /\ Cardinality(AboutToUpdate) \in Nat
          /\ AboutToUpdate' = AboutToUpdate => Cardinality(AboutToUpdate)' = Cardinality(AboutToUpdate)
          /\ w \notin AboutToUpdate /\ AboutToUpdate' = AboutToUpdate \cup {w}
               => Cardinality(AboutToUpdate)' = Cardinality(AboutToUpdate) + 1
          /\ w \in AboutToUpdate /\ AboutToUpdate' = AboutToUpdate \ {w}
               => Cardinality(AboutToUpdate)' = Cardinality(AboutToUpdate) - 1
      BY <3>1, WorkerMoves
    <3>b. /\ Cardinality(OwesAnEntry) \in Nat
          /\ OwesAnEntry' = OwesAnEntry => Cardinality(OwesAnEntry)' = Cardinality(OwesAnEntry)
          /\ w \notin OwesAnEntry /\ OwesAnEntry' = OwesAnEntry \cup {w}
               => Cardinality(OwesAnEntry)' = Cardinality(OwesAnEntry) + 1
          /\ w \in OwesAnEntry /\ OwesAnEntry' = OwesAnEntry \ {w}
               => Cardinality(OwesAnEntry)' = Cardinality(OwesAnEntry) - 1
      BY <3>1, WorkerMoves
    <3>2. Ledger!Room => version + Cardinality(AboutToUpdate) < MaxUpdates
      BY LedgerCards DEF Ledger!Room, AboutToUpdate
    <3>. USE DEF RoomIsKept
    <3>3. ASSUME NEW a \in Amount, NEW k \in CreditKey, Ledger!Credit(w, a, k) PROVE RoomIsKept'
      <4>1. /\ ledgerPc[w] = "idle" /\ Ledger!Room /\ ledgerPc' = [ledgerPc EXCEPT ![w] = "read"]
            /\ version' = version + 1 /\ ledger' = ledger /\ lastKey' \in CreditKey
        BY <3>3 DEF Ledger!Credit
      <4>2. AboutToUpdate' = AboutToUpdate
        BY <3>0, <4>1 DEF AboutToUpdate
      <4>3. w \notin OwesAnEntry /\ OwesAnEntry' = OwesAnEntry \cup {w}
        BY <3>0, <4>1 DEF OwesAnEntry
      <4>. QED
        BY <1>2, <3>0, <3>2, <3>a, <3>b, <4>1, <4>2, <4>3
    <3>4. ASSUME NEW a \in Amount, Ledger!DebitRead(w, a) PROVE RoomIsKept'
      <4>1. /\ ledgerPc[w] = "idle" /\ Ledger!Room /\ ledgerPc' = [ledgerPc EXCEPT ![w] = "update"]
            /\ version' = version /\ ledger' = ledger /\ lastKey' = lastKey
        BY <3>4 DEF Ledger!DebitRead
      <4>2. w \notin AboutToUpdate /\ AboutToUpdate' = AboutToUpdate \cup {w}
        BY <3>0, <4>1 DEF AboutToUpdate
      <4>3. OwesAnEntry' = OwesAnEntry
        BY <3>0, <4>1 DEF OwesAnEntry
      <4>. QED
        BY <1>2, <3>0, <3>2, <3>a, <3>b, <4>1, <4>2, <4>3
    <3>5. CASE Ledger!ReadBalance(w)
      <4>1. /\ ledgerPc[w] = "read" /\ ledgerPc' = [ledgerPc EXCEPT ![w] = "put"]
            /\ version' = version /\ ledger' = ledger /\ lastKey' = lastKey
        BY <3>5 DEF Ledger!ReadBalance
      <4>2. AboutToUpdate' = AboutToUpdate
        BY <3>0, <4>1 DEF AboutToUpdate
      <4>3. OwesAnEntry' = OwesAnEntry
        BY <3>0, <4>1 DEF OwesAnEntry
      <4>. QED
        BY <1>2, <3>0, <3>2, <3>a, <3>b, <4>1, <4>2, <4>3
    <3>6. CASE Ledger!DebitUpdate(w)
      <4>1. /\ ledgerPc[w] = "update" /\ ledgerPc' = [ledgerPc EXCEPT ![w] = "put"]
            /\ version' = version + 1 /\ ledger' = ledger /\ lastKey' = lastKey
        BY <3>6 DEF Ledger!DebitUpdate
      <4>2. w \in AboutToUpdate /\ AboutToUpdate' = AboutToUpdate \ {w}
        BY <3>0, <4>1 DEF AboutToUpdate
      <4>3. w \notin OwesAnEntry /\ OwesAnEntry' = OwesAnEntry \cup {w}
        BY <3>0, <4>1 DEF OwesAnEntry
      <4>. QED
        BY <1>2, <3>0, <3>2, <3>a, <3>b, <4>1, <4>2, <4>3
    <3>7. CASE Ledger!DebitRefused(w)
      <4>1. /\ ledgerPc[w] = "update" /\ ledgerPc' = [ledgerPc EXCEPT ![w] = "idle"]
            /\ version' = version /\ ledger' = ledger /\ lastKey' = lastKey
        BY <3>7 DEF Ledger!DebitRefused
      <4>2. w \in AboutToUpdate /\ AboutToUpdate' = AboutToUpdate \ {w}
        BY <3>0, <4>1 DEF AboutToUpdate
      <4>3. OwesAnEntry' = OwesAnEntry
        BY <3>0, <4>1 DEF OwesAnEntry
      <4>. QED
        BY <1>2, <3>0, <3>2, <3>a, <3>b, <4>1, <4>2, <4>3
    <3>8. CASE Ledger!PutEntry(w)
      <4>. PICK e : ledger' = Append(ledger, e)
        BY <3>8 DEF Ledger!PutEntry
      <4>1. /\ ledgerPc[w] = "put" /\ ledgerPc' = [ledgerPc EXCEPT ![w] = "idle"]
            /\ version' = version /\ lastKey' = lastKey
        BY <3>8 DEF Ledger!PutEntry
      <4>2. AboutToUpdate' = AboutToUpdate
        BY <3>0, <4>1 DEF AboutToUpdate
      <4>3. w \in OwesAnEntry /\ OwesAnEntry' = OwesAnEntry \ {w}
        BY <3>0, <4>1 DEF OwesAnEntry
      <4>4. Len(ledger') = Len(ledger) + 1
        BY <3>0
      <4>. QED
        BY <1>2, <3>0, <3>a, <3>b, <4>1, <4>2, <4>3, <4>4
    <3>9. CASE Ledger!Fail(w)
      <4>1. /\ ledgerPc' = [ledgerPc EXCEPT ![w] = "idle"]
            /\ version' = version /\ ledger' = ledger /\ lastKey' = lastKey
        BY <3>9 DEF Ledger!Fail
      <4>2. AboutToUpdate' = AboutToUpdate \/ (w \in AboutToUpdate /\ AboutToUpdate' = AboutToUpdate \ {w})
        BY <3>0, <4>1 DEF AboutToUpdate
      <4>3. OwesAnEntry' = OwesAnEntry \/ (w \in OwesAnEntry /\ OwesAnEntry' = OwesAnEntry \ {w})
        BY <3>0, <4>1 DEF OwesAnEntry
      <4>. QED
        BY <1>2, <3>0, <3>a, <3>b, <4>1, <4>2, <4>3
    <3>. QED
      BY <2>2, <3>3, <3>4, <3>5, <3>6, <3>7, <3>8, <3>9 DEF LedgerStep
  <2>. QED
    BY <1>2, <2>1, <2>2 DEF Ledger!Next, LedgerStep
<1>. QED
  BY <1>1, <1>2

(* With the room that is kept, the ledger's type invariant. *)
LEMMA LedgerIsTyped == LedgerTyped /\ RoomIsKept => Ledger!TypeOK
<1>. SUFFICES ASSUME LedgerTyped, RoomIsKept PROVE Ledger!TypeOK
  OBVIOUS
<1>1. Cardinality(AboutToUpdate) \in Nat /\ Cardinality(OwesAnEntry) \in Nat
  <2>1. IsFiniteSet(AboutToUpdate) /\ IsFiniteSet(OwesAnEntry)
    BY WorkerAssumption, FS_Subset DEF AboutToUpdate, OwesAnEntry
  <2>. QED
    BY <2>1, FS_CardinalityType
<1>2. Len(ledger) <= MaxUpdates
  BY <1>1, LedgerAssumption DEF RoomIsKept, LedgerTyped
<1>. QED
  BY <1>2 DEF LedgerTyped, RoomIsKept, Ledger!TypeOK

----
(***************************************************************************)
(* Cancellation.                                                           *)
(***************************************************************************)
(* A cancellation that is about to save is that of the owner of what it has
   read, who has asked for it; and what is pending is somebody's. *)
CancelInv ==
  /\ Cancellation!TypeOK
  /\ \A w \in Worker : cancelPc[w] = "save" =>
       cancelCall[w].owner \in asked[cancelCall[w].tx] /\ cancelCall[w].owner \in pendingOf[cancelCall[w].tx]
  /\ \A t \in Tx : saved[t].state = "PENDING" /\ saved[t].owner # "nobody" => saved[t].owner \in pendingOf[t]
  /\ CancelledByCreator

LEMMA CancelInduction ==
  /\ Cancellation!Init => CancelInv
  /\ CancelInv /\ [Cancellation!Next]_(Cancellation!vars) => CancelInv'
<1>. USE DEF CancelInv, Cancellation!TypeOK, Cancellation!Row, Cancellation!State, Cancellation!Nobody,
             CancelledByCreator, Cancellation!CancelledByCreator
<1>1. Cancellation!Init => CancelInv
  BY CancellationAssumption DEF Cancellation!Init
<1>. SUFFICES ASSUME CancelInv, [Cancellation!Next]_(Cancellation!vars) PROVE CancelInv'
  BY <1>1
<1>2. CASE UNCHANGED Cancellation!vars
  BY <1>2 DEF Cancellation!vars
<1>3. ASSUME NEW t \in Tx, NEW u \in Member, NEW s \in Cancellation!State, Cancellation!Create(t, u, s)
      PROVE  CancelInv'
  BY <1>3, CancellationAssumption DEF Cancellation!Create
<1>4. ASSUME NEW w \in Worker, NEW t \in Tx, NEW u \in Member, Cancellation!CancelRead(w, t, u) PROVE CancelInv'
  BY <1>4, CancellationAssumption DEF Cancellation!CancelRead, Cancellation!Cancellable
<1>5. ASSUME NEW w \in Worker, NEW t \in Tx, NEW u \in Member, Cancellation!CancelRefused(w, t, u) PROVE CancelInv'
  BY <1>5 DEF Cancellation!CancelRefused, Cancellation!vars
<1>6. ASSUME NEW w \in Worker, Cancellation!CancelSave(w) PROVE CancelInv'
  BY <1>6, CancellationAssumption DEF Cancellation!CancelSave
<1>. QED
  BY <1>2, <1>3, <1>4, <1>5, <1>6 DEF Cancellation!Next

(***************************************************************************)
(* A payment that bears the mark of a cancellation is that of a user who   *)
(* asked for it and whose the payment was when it was pending, whatever is *)
(* created over it and whoever races (transaction-cancellation.ts).        *)
(***************************************************************************)
THEOREM OnlyTheCreatorCancels == Cancellation!Spec => []CancelledByCreator
BY CancelInduction, PTL DEF Cancellation!Spec, CancelInv

----
(***************************************************************************)
(* Tiers.                                                                  *)
(***************************************************************************)
(* The rows of the table. *)
LEMMA TierTable ==
  /\ Tiers!TIERS[0] = Tiers!Limits(500, 2000, 200, 72, 0)
  /\ Tiers!TIERS[1] = Tiers!Limits(2000, 10000, 1000, 24, 200)
  /\ Tiers!TIERS[2] = Tiers!Limits(20000, 50000, 5000, 4, 5000)
  /\ Tiers!TIERS[3] = Tiers!Limits(100000, 500000, 20000, 0, 1000000000)
  /\ Tiers!TIERS[4] = Tiers!Limits(500000, 1000000000, 1000000000, 0, 1000000000)
BY DEF Tiers!TIERS, Tiers!Tier, Tiers!NoLimit

(* A higher tier is no worse than a lower one. *)
LEMMA HigherIsNoWorse ==
  ASSUME NEW high \in Tiers!Tier, NEW low \in Tiers!Tier, high > low
  PROVE  Tiers!NoWorse(high, low)
<1>1. high \in {0, 1, 2, 3, 4} /\ low \in {0, 1, 2, 3, 4}
  BY DEF Tiers!Tier
<1>2. ASSUME NEW amount \in {0, 200, 201, 5000, 5001, 500000}
      PROVE  /\ Tiers!WithdrawHoldFor(high, amount) <= Tiers!WithdrawHoldFor(low, amount)
             /\ Tiers!Requires3DS(high, amount) => Tiers!Requires3DS(low, amount)
  BY <1>1, TierTable DEF Tiers!WithdrawHoldFor, Tiers!Requires3DS, Tiers!Limits
<1>3. ASSUME NEW limit \in {"receiveDay", "receiveWeek", "withdrawDay"}
      PROVE  Tiers!TIERS[low][limit] <= Tiers!TIERS[high][limit]
  BY <1>1, TierTable DEF Tiers!Limits
<1>4. low > 0 => Tiers!Requirements(low) \subseteq Tiers!Requirements(high)
  <2>1. 1 .. low \subseteq 1 .. high
    BY <1>1
  <2>. SUFFICES ASSUME low > 0 PROVE Tiers!Requirements(low) \subseteq Tiers!Requirements(high)
    OBVIOUS
  <2>. DEFINE of(t) == UNION {Tiers!Adds[i] : i \in 1 .. t}
  <2>2. low # 0 /\ high # 0
    BY <1>1
  <2>3. Tiers!Requirements(low) = of(low) /\ Tiers!Requirements(high) = of(high)
    BY <2>2 DEF Tiers!Requirements
  <2>4. of(low) \subseteq of(high)
    BY <2>1, Zenon
  <2>. HIDE DEF of
  <2>. QED
    BY <2>3, <2>4
<1>. QED
  BY <1>2, <1>3, <1>4 DEF Tiers!NoWorse

(* A tier that was shown for is at least 1: the requirement of tier 0 is no
   other's.  A promotion that is about to be set was earned, from a tier that
   the wallet has had; and every wallet has had tier 0, or starts there. *)
PromoteInv ==
  /\ Tiers!TypeOK
  /\ \A u \in User : 0 \in had[u]
  /\ \A w \in Worker : tierPc[w] = "set" =>
       /\ tierCall[w].target > 0
       /\ Tiers!Requirements(tierCall[w].target) \subseteq shown[tierCall[w].user]

LEMMA PromoteInduction ==
  /\ Tiers!Init => PromoteInv
  /\ PromoteInv /\ [Tiers!Next]_(Tiers!vars) => PromoteInv'
<1>1. Tiers!Init => PromoteInv
  BY UserAssumption DEF PromoteInv, Tiers!Init, Tiers!TypeOK, Tiers!Tier
<1>. SUFFICES ASSUME PromoteInv, [Tiers!Next]_(Tiers!vars) PROVE PromoteInv'
  BY <1>1
<1>. USE DEF PromoteInv, Tiers!TypeOK
<1>2. CASE UNCHANGED Tiers!vars
  BY <1>2 DEF Tiers!vars
<1>e. ASSUME NEW verified \in Tiers!Evidence PROVE verified \subseteq Tiers!Evidences
  BY DEF Tiers!Evidence, Tiers!Evidences
<1>3. ASSUME NEW w \in Worker, NEW u \in User, NEW current \in Tiers!Tier, NEW target \in Tiers!Tier,
             NEW verified \in Tiers!Evidence, Tiers!PromoteRead(w, u, current, target, verified)
      PROVE  PromoteInv'
  <2>1. target > 0 /\ Tiers!Requirements(target) \subseteq verified
    BY <1>3 DEF Tiers!PromoteRead, Tiers!CanPromoteTo, Tiers!Tier
  <2>2. /\ shown' = [shown EXCEPT ![u] = @ \cup verified]
        /\ tierCall' = [tierCall EXCEPT ![w] = [user |-> u, target |-> target]]
        /\ tierPc' = [tierPc EXCEPT ![w] = "set"] /\ tier' = tier /\ had' = had
    BY <1>3 DEF Tiers!PromoteRead, Tiers!Shows
  <2>. QED
    BY <1>e, <2>1, <2>2
<1>4. ASSUME NEW w \in Worker, NEW u \in User, NEW current \in Tiers!Tier, NEW target \in Tiers!Tier,
             NEW verified \in Tiers!Evidence, Tiers!PromoteRefused(w, u, current, target, verified)
      PROVE  PromoteInv'
  BY <1>4, <1>e DEF Tiers!PromoteRefused, Tiers!Shows
<1>5. ASSUME NEW w \in Worker, Tiers!PromoteSet(w) PROVE PromoteInv'
  BY <1>5 DEF Tiers!PromoteSet
<1>6. ASSUME NEW w \in Worker, Tiers!PromoteFails(w) PROVE PromoteInv'
  BY <1>6 DEF Tiers!PromoteFails
<1>. QED
  BY <1>2, <1>3, <1>4, <1>5, <1>6 DEF Tiers!Next

(***************************************************************************)
(* A wallet is promoted only to a tier whose requirements its requests     *)
(* have listed, above some tier it has had and no worse than any of those  *)
(* below it, whatever was read and whoever raced (tier.ts, tiers.ts).      *)
(***************************************************************************)
THEOREM PromotionsAreEarned == Tiers!Spec => PromotionIsEarned
<1>1. PromoteInv /\ [Tiers!Next]_(Tiers!vars) =>
        [\A u \in User : tier'[u] # tier[u] =>
           /\ Tiers!Requirements(tier'[u]) \subseteq shown[u]
           /\ \E past \in had[u] : past < tier'[u]
           /\ \A past \in had[u] : past < tier'[u] => Tiers!NoWorse(tier'[u], past)]_(Tiers!vars)
  <2>. SUFFICES ASSUME PromoteInv, Tiers!Next, NEW u \in User, tier'[u] # tier[u]
                PROVE  /\ Tiers!Requirements(tier'[u]) \subseteq shown[u]
                       /\ \E past \in had[u] : past < tier'[u]
                       /\ \A past \in had[u] : past < tier'[u] => Tiers!NoWorse(tier'[u], past)
    OBVIOUS
  <2>. USE DEF PromoteInv, Tiers!TypeOK
  <2>1. PICK w \in Worker : Tiers!PromoteSet(w)
    BY DEF Tiers!Next, Tiers!PromoteRead, Tiers!PromoteRefused, Tiers!PromoteFails
  <2>2. /\ tierPc[w] = "set" /\ tierCall[w].user = u
        /\ tier'[u] = tierCall[w].target /\ tier'[u] \in Tiers!Tier
    BY <2>1 DEF Tiers!PromoteSet
  <2>3. Tiers!Requirements(tier'[u]) \subseteq shown[u] /\ 0 \in had[u] /\ 0 < tier'[u]
    BY <2>2
  <2>4. ASSUME NEW past \in had[u], past < tier'[u] PROVE Tiers!NoWorse(tier'[u], past)
    <3>1. past \in Tiers!Tier /\ tier'[u] > past
      BY <2>2, <2>4 DEF Tiers!Tier
    <3>. QED
      BY <2>2, <3>1, HigherIsNoWorse
  <2>. QED
    BY <2>3, <2>4
<1>. QED
  BY PromoteInduction, <1>1, PTL DEF Tiers!Spec, PromotionIsEarned, Tiers!PromotionIsEarned

----
(***************************************************************************)
(* Referrals.                                                              *)
(***************************************************************************)
(* The instance counts as FiniteSets does. *)
LEMMA RefCards == ASSUME NEW S PROVE Ref!Cardinality(S) = Cardinality(S)
BY DEF Ref!Cardinality, Cardinality

LEMMA NoRefCall == Ref!NoCall \in Ref!Call
<1>1. PICK u, v \in Member : u # v
  BY ReferralsAssumption
<1>2. <<u, v>> \in Ref!Pair
  BY <1>1 DEF Ref!Pair
<1>3. (CHOOSE p \in Ref!Pair : TRUE) \in Ref!Pair
  BY <1>2
<1>4. (CHOOSE m \in Member : TRUE) \in Member /\ (CHOOSE c \in Code : TRUE) \in Code
  BY <1>1, ReferralsAssumption
<1>5. 0 \in Ref!Month
  BY ReferralsAssumption DEF Ref!Month
<1>. QED
  BY <1>3, <1>4, <1>5 DEF Ref!NoCall, Ref!Call

(* What the steps write into a call. *)
LEMMA RefCalls ==
  ASSUME NEW c \in Ref!Call
  PROVE  /\ c.user \in Member /\ c.code \in Code /\ c.month \in Ref!Month
         /\ c.pair \in Ref!Pair /\ c.pair[1] \in Member
         /\ \A u \in Member : [c EXCEPT !.user = u] \in Ref!Call
         /\ \A k \in Code : [c EXCEPT !.code = k] \in Ref!Call
         /\ \A p \in Ref!Pair : [c EXCEPT !.pair = p] \in Ref!Call
         /\ \A p \in Ref!Pair, k \in Code : [c EXCEPT !.pair = p, !.code = k] \in Ref!Call
         /\ \A m \in Ref!Month : [c EXCEPT !.month = m] \in Ref!Call
BY DEF Ref!Call, Ref!Pair

(* One call moves, to another step or with another content. *)
LEMMA RefCallMoves ==
  ASSUME Ref!TypeOK, NEW w \in Worker, NEW c \in Ref!Call,
         NEW s \in {"idle", "pick", "set", "dup", "cap", "create", "count", "qualify"}
  PROVE  /\ [refPc EXCEPT ![w] = s]
               \in [Worker -> {"idle", "pick", "set", "dup", "cap", "create", "count", "qualify"}]
         /\ [refCall EXCEPT ![w] = c] \in [Worker -> Ref!Call]
BY DEF Ref!TypeOK

LEMMA RefTypes ==
  /\ Ref!Init => Ref!TypeOK
  /\ Ref!TypeOK /\ [Ref!Next]_(Ref!vars) => Ref!TypeOK'
<1>1. Ref!Init => Ref!TypeOK
  BY NoRefCall, ReferralsAssumption DEF Ref!Init, Ref!TypeOK, Ref!Month, Ref!Referral
<1>. SUFFICES ASSUME Ref!TypeOK, [Ref!Next]_(Ref!vars) PROVE Ref!TypeOK'
  BY <1>1
<1>. DEFINE Steps == {"idle", "pick", "set", "dup", "cap", "create", "count", "qualify"}
<1>. USE DEF Ref!store, Ref!history, Ref!Goto, Ref!Finish
<1>2. CASE UNCHANGED Ref!vars
  BY <1>2 DEF Ref!TypeOK, Ref!vars
<1>a. \A w \in Worker : refCall[w] \in Ref!Call
  BY DEF Ref!TypeOK
(* The steps that move nothing but the call. *)
<1>b. ASSUME NEW w \in Worker, NEW c \in Ref!Call, NEW s \in Steps,
             refPc' = [refPc EXCEPT ![w] = s], refCall' = [refCall EXCEPT ![w] = c],
             UNCHANGED <<month, codes, referrals, claims, refused, granted>>
      PROVE  Ref!TypeOK'
  <2>1. /\ refPc' \in [Worker -> {"idle", "pick", "set", "dup", "cap", "create", "count", "qualify"}]
        /\ refCall' \in [Worker -> Ref!Call]
    BY <1>b, RefCallMoves
  <2>. QED
    BY <1>b, <2>1 DEF Ref!TypeOK
<1>3. ASSUME NEW w \in Worker, NEW u \in Member, Ref!Generate(w, u) PROVE Ref!TypeOK'
  <2>1. [refCall[w] EXCEPT !.user = u] \in Ref!Call
    BY <1>a, RefCalls
  <2>. QED
    BY <1>3, <1>b, <2>1 DEF Ref!Generate
<1>4. ASSUME NEW w \in Worker, NEW c \in Code, Ref!PickCode(w, c) PROVE Ref!TypeOK'
  <2>1. [refCall[w] EXCEPT !.code = c] \in Ref!Call
    BY <1>a, RefCalls
  <2>. QED
    BY <1>4, <1>b, <2>1 DEF Ref!PickCode
<1>5. ASSUME NEW w \in Worker, Ref!SetUserCode(w) PROVE Ref!TypeOK'
  <2>1. codes' \in [Member -> Code \cup {Ref!Nothing}]
    BY <1>5, <1>a, RefCalls DEF Ref!SetUserCode, Ref!TypeOK
  <2>. QED
    BY <1>5, <2>1, NoRefCall, RefCallMoves DEF Ref!SetUserCode, Ref!TypeOK
<1>6. ASSUME NEW w \in Worker, NEW u \in Member, NEW c \in Code, Ref!Accept(w, u, c) PROVE Ref!TypeOK'
  <2>1. PICK r \in Member \ {u} : refCall' = [refCall EXCEPT ![w].pair = <<r, u>>, ![w].code = c]
    BY <1>6 DEF Ref!Accept
  <2>2. <<r, u>> \in Ref!Pair
    BY DEF Ref!Pair
  <2>3. [refCall[w] EXCEPT !.pair = <<r, u>>, !.code = c] \in Ref!Call
    BY <1>a, <2>2, RefCalls
  <2>4. refCall' = [refCall EXCEPT ![w] = [refCall[w] EXCEPT !.pair = <<r, u>>, !.code = c]]
    BY <2>1 DEF Ref!TypeOK
  <2>. QED
    BY <1>6, <1>b, <2>3, <2>4 DEF Ref!Accept
<1>7. ASSUME NEW w \in Worker, Ref!NotADuplicate(w) PROVE Ref!TypeOK'
  <2>1. [refCall[w] EXCEPT !.month = month] \in Ref!Call
    BY <1>a, RefCalls DEF Ref!TypeOK
  <2>. QED
    BY <1>7, <1>b, <2>1 DEF Ref!NotADuplicate
<1>8. ASSUME NEW w \in Worker, Ref!Duplicate(w) PROVE Ref!TypeOK'
  BY <1>8, <1>b, NoRefCall DEF Ref!Duplicate
<1>9. ASSUME NEW w \in Worker, Ref!BelowCap(w) PROVE Ref!TypeOK'
  BY <1>9 DEF Ref!BelowCap, Ref!TypeOK
<1>10. ASSUME NEW w \in Worker, Ref!AtCap(w) PROVE Ref!TypeOK'
  <2>1. Ref!CounterKey(w) \in Member \X Ref!Month
    BY <1>a, RefCalls DEF Ref!CounterKey
  <2>. QED
    BY <1>10, <2>1, NoRefCall, RefCallMoves DEF Ref!AtCap, Ref!TypeOK
<1>11. ASSUME NEW w \in Worker, Ref!Create(w) PROVE Ref!TypeOK'
  <2>. DEFINE r == [pair |-> refCall[w].pair, status |-> "PENDING", created |-> month]
  <2>1. r \in Ref!Referral
    BY <1>a, RefCalls DEF Ref!Referral, Ref!TypeOK
  <2>2. referrals' = Append(referrals, r) /\ referrals \in Seq(Ref!Referral) /\ Len(referrals) < MaxReferrals
    BY <1>11 DEF Ref!Create, Ref!TypeOK
  <2>. HIDE DEF r
  <2>3. referrals' \in Seq(Ref!Referral) /\ Len(referrals') <= MaxReferrals
    BY <2>1, <2>2, ReferralsAssumption
  <2>. QED
    BY <1>11, <2>3 DEF Ref!Create, Ref!TypeOK
<1>12. ASSUME NEW w \in Worker, Ref!Count(w) PROVE Ref!TypeOK'
  <2>. DEFINE k == Ref!CounterKey(w)
  <2>1. k \in Member \X Ref!Month
    BY <1>a, RefCalls DEF Ref!CounterKey
  <2>2. claims' = [claims EXCEPT ![k] = claims[k] + 1] /\ claims \in [Member \X Ref!Month -> Nat]
    BY <1>12 DEF Ref!Count, Ref!TypeOK
  <2>. HIDE DEF k
  <2>3. claims' \in [Member \X Ref!Month -> Nat]
    BY <2>1, <2>2
  <2>. QED
    BY <1>12, <2>3, NoRefCall, RefCallMoves DEF Ref!Count, Ref!TypeOK
<1>13. ASSUME NEW w \in Worker, NEW i \in 1 .. MaxReferrals, Ref!Qualify(w, i) PROVE Ref!TypeOK'
  <2>0. referrals \in Seq(Ref!Referral) /\ i \in DOMAIN referrals
    BY <1>13 DEF Ref!Qualify, Ref!TypeOK
  <2>3. referrals[i] \in Ref!Referral
    BY <2>0
  <2>1. referrals[i].pair \in Ref!Pair
    BY <2>3 DEF Ref!Referral
  <2>2. [refCall[w] EXCEPT !.pair = referrals[i].pair] \in Ref!Call
    BY <1>a, <2>1, RefCalls
  <2>. QED
    BY <1>13, <1>b, <2>2 DEF Ref!Qualify
<1>14. ASSUME NEW w \in Worker, Ref!MarkQualified(w) PROVE Ref!TypeOK'
  <2>. DEFINE p == refCall[w].pair
              first == CHOOSE i \in Ref!Rows(p) : \A j \in Ref!Rows(p) : i <= j
  <2>1. p \in Ref!Pair
    BY <1>a, RefCalls
  <2>2. /\ referrals' = [referrals EXCEPT ![first].status = "QUALIFIED"]
        /\ granted' = [granted EXCEPT ![p] = granted[p] + 1] /\ granted[p] < MaxGrants
    BY <1>14 DEF Ref!MarkQualified
  <2>. HIDE DEF p, first
  <2>3. granted' \in [Ref!Pair -> 0 .. MaxGrants]
    BY <2>1, <2>2, ReferralsAssumption DEF Ref!TypeOK
  <2>4. /\ referrals' \in Seq(Ref!Referral) /\ Len(referrals') = Len(referrals)
    <3>1. referrals \in Seq(Ref!Referral)
      BY DEF Ref!TypeOK
    <3>2. \A r \in Ref!Referral : [r EXCEPT !.status = "QUALIFIED"] \in Ref!Referral
      BY DEF Ref!Referral
    <3>3. CASE first \in DOMAIN referrals
      <4>. DEFINE r == [referrals[first] EXCEPT !.status = "QUALIFIED"]
      <4>1. r \in Ref!Referral
        BY <3>1, <3>2, <3>3
      <4>2. referrals' = [referrals EXCEPT ![first] = r]
        BY <2>2
      <4>. HIDE DEF r
      <4>. QED
        BY <3>1, <3>3, <4>1, <4>2
    <3>4. CASE first \notin DOMAIN referrals
      <4>1. referrals' = referrals
        BY <2>2, <3>1, <3>4
      <4>. QED
        BY <3>1, <4>1
    <3>. QED
      BY <3>3, <3>4
  <2>. QED
    BY <1>14, <2>3, <2>4, NoRefCall, RefCallMoves DEF Ref!MarkQualified, Ref!TypeOK
<1>15. ASSUME NEW w \in Worker, Ref!Abort(w) PROVE Ref!TypeOK'
  BY <1>15, <1>b, NoRefCall DEF Ref!Abort
<1>16. CASE Ref!MonthEnds
  BY <1>16, ReferralsAssumption DEF Ref!MonthEnds, Ref!TypeOK, Ref!Month
<1>17. ASSUME NEW w \in Worker, NEW u \in Member, Ref!KeepCode(w, u) PROVE Ref!TypeOK'
  BY <1>2, <1>17 DEF Ref!KeepCode
<1>. QED
  BY <1>2, <1>3, <1>4, <1>5, <1>6, <1>7, <1>8, <1>9, <1>10, <1>11, <1>12, <1>13, <1>14, <1>15, <1>16, <1>17
  DEF Ref!Next, Ref!Step

(* The calls that are to count a referral in a row, and the referrals that
   may stand behind it. *)
ToCount(k) == {w \in Worker : refPc[w] = "count" /\ Ref!CounterKey(w) = k}

Behind(k) == {i \in DOMAIN referrals : referrals[i].pair[1] = k[1] /\ referrals[i].created \in {k[2], k[2] + 1}}

(* A call creates and counts in the month it has seen, or the next one; and
   whatever is counted, or is about to be, has been created. *)
RefCounts ==
  /\ \A w \in Worker : refPc[w] \in {"cap", "create", "count"} =>
       month \in {refCall[w].month, refCall[w].month + 1}
  /\ \A k \in Member \X Ref!Month : claims[k] + Cardinality(ToCount(k)) <= Cardinality(Behind(k))
  /\ \A k \in refused : MonthlyCap <= Cardinality(Behind(k))

LEMMA RefFinite ==
  ASSUME Ref!TypeOK, NEW k
  PROVE  /\ IsFiniteSet(ToCount(k)) /\ Cardinality(ToCount(k)) \in Nat
         /\ IsFiniteSet(Behind(k)) /\ Cardinality(Behind(k)) \in Nat
<1>1. ToCount(k) \subseteq Worker /\ IsFiniteSet(Worker)
  BY WorkerAssumption DEF ToCount
<1>2. Behind(k) \subseteq 1 .. Len(referrals) /\ Len(referrals) \in Int /\ 0 \in Int /\ 1 \in Int
  BY DEF Behind, Ref!TypeOK
<1>3. IsFiniteSet(1 .. Len(referrals))
  BY <1>2, FS_Interval
<1>. QED
  BY <1>1, <1>2, <1>3, FS_Subset, FS_CardinalityType

(* The next state has at least the referrals it is known to have. *)
LEMMA RefNoFewer ==
  ASSUME Ref!TypeOK', NEW k, NEW S, S \subseteq Behind(k)'
  PROVE  /\ IsFiniteSet(S) /\ Cardinality(S) \in Nat /\ Cardinality(Behind(k)') \in Nat
         /\ Cardinality(S) <= Cardinality(Behind(k)')
<1>1. Behind(k)' \subseteq 1 .. Len(referrals') /\ Len(referrals') \in Int /\ 1 \in Int
  BY DEF Behind, Ref!TypeOK
<1>2. IsFiniteSet(1 .. Len(referrals'))
  BY <1>1, FS_Interval
<1>3. IsFiniteSet(Behind(k)')
  BY <1>1, <1>2, FS_Subset
<1>. QED
  BY <1>3, FS_Subset, FS_CardinalityType

(* The steps that neither create nor count: nothing is taken from the
   referrals, and no call is added to those that are to count. *)
LEMMA RefOthers ==
  ASSUME Ref!TypeOK, Ref!TypeOK', RefCounts, UNCHANGED claims,
         \A k : ToCount(k)' \subseteq ToCount(k) /\ Behind(k) \subseteq Behind(k)'
  PROVE  /\ \A k \in Member \X Ref!Month : claims'[k] + Cardinality(ToCount(k)') <= Cardinality(Behind(k)')
         /\ \A k \in refused : MonthlyCap <= Cardinality(Behind(k)')
<1>1. ASSUME NEW k
      PROVE  /\ Cardinality(ToCount(k)') <= Cardinality(ToCount(k))
             /\ Cardinality(Behind(k)) <= Cardinality(Behind(k)')
             /\ Cardinality(ToCount(k)) \in Nat /\ Cardinality(ToCount(k)') \in Nat
             /\ Cardinality(Behind(k)) \in Nat /\ Cardinality(Behind(k)') \in Nat
  BY RefFinite, RefNoFewer, FS_Subset, FS_CardinalityType
<1>2. \A k \in Member \X Ref!Month : claims[k] \in Nat
  BY DEF Ref!TypeOK
<1>3. ASSUME NEW k \in Member \X Ref!Month
      PROVE  claims[k] + Cardinality(ToCount(k)') <= Cardinality(Behind(k)')
  <2>1. claims[k] + Cardinality(ToCount(k)) <= Cardinality(Behind(k))
    BY DEF RefCounts
  <2>. QED
    BY <1>1, <1>2, <2>1
<1>4. ASSUME NEW k \in refused PROVE MonthlyCap <= Cardinality(Behind(k)')
  <2>1. MonthlyCap <= Cardinality(Behind(k))
    BY DEF RefCounts
  <2>. QED
    BY <1>1, <2>1, ReferralsAssumption
<1>. QED
  BY <1>3, <1>4

LEMMA RefMonths ==
  ASSUME Ref!TypeOK, RefCounts, Ref!Next
  PROVE  \A w \in Worker : refPc'[w] \in {"cap", "create", "count"} =>
           month' \in {refCall'[w].month, refCall'[w].month + 1}
<1>. USE DEF RefCounts, Ref!TypeOK, Ref!store, Ref!history, Ref!Goto, Ref!Finish
<1>1. CASE Ref!MonthEnds
  BY <1>1 DEF Ref!MonthEnds
<1>2. ASSUME NEW w \in Worker, NEW u \in Member,
             Ref!KeepCode(w, u) \/ Ref!Generate(w, u) \/ \E c \in Code : Ref!Accept(w, u, c)
      PROVE  \A v \in Worker : refPc'[v] \in {"cap", "create", "count"} =>
               month' \in {refCall'[v].month, refCall'[v].month + 1}
  BY <1>2 DEF Ref!KeepCode, Ref!Generate, Ref!Accept, Ref!vars
<1>3. ASSUME NEW w \in Worker, NEW i \in 1 .. MaxReferrals, Ref!Qualify(w, i)
      PROVE  \A v \in Worker : refPc'[v] \in {"cap", "create", "count"} =>
               month' \in {refCall'[v].month, refCall'[v].month + 1}
  BY <1>3 DEF Ref!Qualify
<1>4. ASSUME NEW w \in Worker, Ref!NotADuplicate(w)
      PROVE  \A v \in Worker : refPc'[v] \in {"cap", "create", "count"} =>
               month' \in {refCall'[v].month, refCall'[v].month + 1}
  <2>1. refCall' = [refCall EXCEPT ![w] = [refCall[w] EXCEPT !.month = month]]
        /\ refCall[w] \in Ref!Call
    BY <1>4 DEF Ref!NotADuplicate
  <2>2. refCall'[w].month = month
    BY <2>1 DEF Ref!Call
  <2>. QED
    BY <1>4, <2>1, <2>2 DEF Ref!NotADuplicate
<1>5. ASSUME NEW w \in Worker,
             \/ \E c \in Code : Ref!PickCode(w, c)
             \/ Ref!SetUserCode(w) \/ Ref!Duplicate(w) \/ Ref!BelowCap(w) \/ Ref!AtCap(w)
             \/ Ref!Create(w) \/ Ref!Count(w) \/ Ref!MarkQualified(w) \/ Ref!Abort(w)
      PROVE  \A v \in Worker : refPc'[v] \in {"cap", "create", "count"} =>
               month' \in {refCall'[v].month, refCall'[v].month + 1}
  BY <1>5 DEF Ref!PickCode, Ref!SetUserCode, Ref!Duplicate, Ref!BelowCap, Ref!AtCap, Ref!Create,
              Ref!Count, Ref!MarkQualified, Ref!Abort
<1>. QED
  BY <1>1, <1>2, <1>3, <1>4, <1>5 DEF Ref!Next, Ref!Step

LEMMA RefCounting ==
  ASSUME Ref!TypeOK, Ref!TypeOK', RefCounts, [Ref!Next]_(Ref!vars)
  PROVE  RefCounts'
<1>. USE DEF Ref!store, Ref!history, Ref!Goto, Ref!Finish
<1>1. CASE UNCHANGED Ref!vars
  BY <1>1 DEF Ref!vars, RefCounts, ToCount, Behind, Ref!CounterKey
<1>. SUFFICES ASSUME Ref!Next PROVE RefCounts'
  BY <1>1
<1>. DEFINE Counts == \A k \in Member \X Ref!Month : claims'[k] + Cardinality(ToCount(k)') <= Cardinality(Behind(k)')
            Refused == \A k \in refused' : MonthlyCap <= Cardinality(Behind(k)')
<1>2. SUFFICES Counts /\ Refused
  BY RefMonths DEF RefCounts
<1>3. ASSUME NEW w \in Worker, Ref!Create(w) PROVE Counts /\ Refused
  <2>0. Ref!CounterKey(w) \in Member \X Ref!Month
    BY RefCalls DEF Ref!CounterKey, Ref!TypeOK
  <2>a. PICK k0 \in Member \X Ref!Month : k0 = Ref!CounterKey(w)
    BY <2>0
  <2>b. PICK n \in Nat : n = Len(referrals) + 1
    BY DEF Ref!TypeOK
  <2>1. k0[1] = refCall[w].pair[1] /\ k0[2] = refCall[w].month
    BY <2>a DEF Ref!CounterKey
  <2>2. \A k : ToCount(k)' = IF k = k0 THEN ToCount(k) \cup {w} ELSE ToCount(k)
    BY <1>3, <2>a DEF Ref!Create, ToCount, Ref!CounterKey, Ref!TypeOK
  <2>3. w \notin ToCount(k0)
    BY <1>3 DEF Ref!Create, ToCount
  <2>4. /\ DOMAIN referrals' = DOMAIN referrals \cup {n} /\ n \notin DOMAIN referrals
        /\ \A i \in DOMAIN referrals : referrals'[i] = referrals[i]
        /\ referrals'[n].pair = refCall[w].pair /\ referrals'[n].created = month
    BY <1>3, <2>b DEF Ref!Create, Ref!TypeOK
  <2>5. month \in {k0[2], k0[2] + 1}
    BY <1>3, <2>1 DEF RefCounts, Ref!Create
  <2>7. \A k : Behind(k) \subseteq Behind(k)'
    BY <2>4 DEF Behind
  <2>6. n \notin Behind(k0) /\ Behind(k0) \cup {n} \subseteq Behind(k0)'
    <3>1. n \notin Behind(k0) /\ n \in Behind(k0)'
      BY <2>1, <2>4, <2>5 DEF Behind
    <3>. QED
      BY <2>7, <3>1
  <2>8. ASSUME NEW k
        PROVE  /\ Cardinality(Behind(k)) <= Cardinality(Behind(k)')
               /\ Cardinality(Behind(k)) \in Nat /\ Cardinality(Behind(k)') \in Nat
               /\ Cardinality(ToCount(k)) \in Nat
    BY <2>7, RefNoFewer, RefFinite
  <2>9. /\ Cardinality(Behind(k0)) + 1 <= Cardinality(Behind(k0)')
        /\ Cardinality(ToCount(k0)') = Cardinality(ToCount(k0)) + 1
    <3>1. Cardinality(Behind(k0) \cup {n}) = Cardinality(Behind(k0)) + 1
      BY <2>6, RefFinite, FS_AddElement
    <3>2. Cardinality(Behind(k0) \cup {n}) <= Cardinality(Behind(k0)')
      BY <2>6, RefNoFewer
    <3>3. Cardinality(ToCount(k0) \cup {w}) = Cardinality(ToCount(k0)) + 1
      BY <2>3, RefFinite, FS_AddElement
    <3>. QED
      BY <2>2, <3>1, <3>2, <3>3
  <2>10. claims' = claims /\ refused' = refused /\ \A k \in Member \X Ref!Month : claims[k] \in Nat
    BY <1>3 DEF Ref!Create, Ref!TypeOK
  <2>11. ASSUME NEW k \in Member \X Ref!Month
         PROVE  claims'[k] + Cardinality(ToCount(k)') <= Cardinality(Behind(k)')
    <3>1. claims[k] + Cardinality(ToCount(k)) <= Cardinality(Behind(k))
      BY DEF RefCounts
    <3>2. CASE k = k0
      BY <2>8, <2>9, <2>10, <3>1, <3>2
    <3>3. CASE k # k0
      <4>1. ToCount(k)' = ToCount(k)
        BY <2>2, <3>3
      <4>. QED
        BY <2>8, <2>10, <3>1, <4>1
    <3>. QED
      BY <3>2, <3>3
  <2>12. ASSUME NEW k \in refused PROVE MonthlyCap <= Cardinality(Behind(k)')
    <3>1. MonthlyCap <= Cardinality(Behind(k))
      BY DEF RefCounts
    <3>. QED
      BY <2>8, <3>1, ReferralsAssumption
  <2>. QED
    BY <2>10, <2>11, <2>12
<1>4. ASSUME NEW w \in Worker, Ref!Count(w) PROVE Counts /\ Refused
  <2>0. Ref!CounterKey(w) \in Member \X Ref!Month
    BY RefCalls DEF Ref!CounterKey, Ref!TypeOK
  <2>1. PICK k0 \in Member \X Ref!Month : k0 = Ref!CounterKey(w)
    BY <2>0
  <2>2. \A k : /\ Behind(k)' = Behind(k)
               /\ ToCount(k)' = IF k = k0 THEN ToCount(k) \ {w} ELSE ToCount(k)
    BY <1>4, <2>1 DEF Ref!Count, ToCount, Behind, Ref!CounterKey, Ref!TypeOK
  <2>3. w \in ToCount(k0)
    BY <1>4, <2>1 DEF Ref!Count, ToCount
  <2>4. /\ claims \in [Member \X Ref!Month -> Nat] /\ claims' = [claims EXCEPT ![k0] = claims[k0] + 1]
        /\ refused' = refused
    BY <1>4, <2>1 DEF Ref!Count, Ref!TypeOK
  <2>5. \A k : Cardinality(Behind(k)) \in Nat /\ Cardinality(ToCount(k)) \in Nat
    BY RefFinite
  <2>6. Cardinality(ToCount(k0)) = Cardinality(ToCount(k0) \ {w}) + 1 /\ Cardinality(ToCount(k0) \ {w}) \in Nat
    BY <2>3, RefFinite, SmallerRest
  <2>7. ASSUME NEW k \in Member \X Ref!Month
        PROVE  claims'[k] + Cardinality(ToCount(k)') <= Cardinality(Behind(k)')
    <3>1. claims[k] + Cardinality(ToCount(k)) <= Cardinality(Behind(k))
      BY DEF RefCounts
    <3>2. CASE k = k0
      <4>1. claims'[k] = claims[k] + 1 /\ claims[k] \in Nat
        BY <2>1, <2>4, <3>2
      <4>2. Cardinality(ToCount(k)') + 1 = Cardinality(ToCount(k)) /\ Cardinality(ToCount(k)') \in Nat
        BY <2>2, <2>6, <3>2
      <4>. QED
        BY <2>2, <2>5, <3>1, <4>1, <4>2
    <3>3. CASE k # k0
      <4>1. claims'[k] = claims[k] /\ ToCount(k)' = ToCount(k)
        BY <2>2, <2>4, <3>3
      <4>. QED
        BY <2>2, <3>1, <4>1
    <3>. QED
      BY <3>2, <3>3
  <2>8. Refused
    BY <2>2, <2>4 DEF RefCounts
  <2>. QED
    BY <2>7, <2>8
<1>5. ASSUME UNCHANGED claims, \A k : ToCount(k)' \subseteq ToCount(k) /\ Behind(k) \subseteq Behind(k)', UNCHANGED refused
      PROVE  Counts /\ Refused
  BY <1>5, RefOthers
<1>6. ASSUME NEW w \in Worker, Ref!AtCap(w) PROVE Counts /\ Refused
  <2>0. Ref!CounterKey(w) \in Member \X Ref!Month
    BY RefCalls DEF Ref!CounterKey, Ref!TypeOK
  <2>1. PICK k0 \in Member \X Ref!Month : k0 = Ref!CounterKey(w)
    BY <2>0
  <2>2. \A k : Behind(k)' = Behind(k) /\ ToCount(k)' \subseteq ToCount(k)
    BY <1>6 DEF Ref!AtCap, ToCount, Behind, Ref!CounterKey, Ref!TypeOK
  <2>3. claims' = claims /\ refused' = refused \cup {k0} /\ \E n \in 0 .. claims[k0] : n >= MonthlyCap
    BY <1>6, <2>1 DEF Ref!AtCap
  <2>4. claims[k0] \in Nat
    BY <2>1 DEF Ref!TypeOK
  <2>5. claims[k0] + Cardinality(ToCount(k0)) <= Cardinality(Behind(k0))
    BY <2>1 DEF RefCounts
  <2>6. Cardinality(ToCount(k0)) \in Nat /\ Cardinality(Behind(k0)) \in Nat
    BY RefFinite
  <2>7. MonthlyCap <= Cardinality(Behind(k0)')
    BY <2>2, <2>3, <2>4, <2>5, <2>6, ReferralsAssumption
  <2>8. Counts /\ \A k \in refused : MonthlyCap <= Cardinality(Behind(k)')
    BY <2>2, <2>3, RefOthers
  <2>. QED
    BY <2>3, <2>7, <2>8
<1>7. ASSUME NEW w \in Worker, NEW u \in Member,
             Ref!KeepCode(w, u) \/ Ref!Generate(w, u) \/ \E c \in Code : Ref!Accept(w, u, c)
      PROVE  Counts /\ Refused
  <2>1. \A k : ToCount(k)' = ToCount(k) /\ Behind(k)' = Behind(k)
    BY <1>7 DEF Ref!KeepCode, Ref!Generate, Ref!Accept, Ref!vars, ToCount, Behind, Ref!CounterKey, Ref!TypeOK
  <2>. QED
    BY <1>5, <1>7, <2>1 DEF Ref!KeepCode, Ref!Generate, Ref!Accept, Ref!vars
<1>8. ASSUME NEW w \in Worker, NEW i \in 1 .. MaxReferrals, Ref!Qualify(w, i) PROVE Counts /\ Refused
  <2>1. \A k : ToCount(k)' = ToCount(k) /\ Behind(k)' = Behind(k)
    BY <1>8 DEF Ref!Qualify, ToCount, Behind, Ref!CounterKey, Ref!TypeOK
  <2>. QED
    BY <1>5, <1>8, <2>1 DEF Ref!Qualify
<1>9. ASSUME NEW w \in Worker,
             \/ \E c \in Code : Ref!PickCode(w, c)
             \/ Ref!SetUserCode(w) \/ Ref!NotADuplicate(w) \/ Ref!Duplicate(w) \/ Ref!BelowCap(w) \/ Ref!Abort(w)
      PROVE  Counts /\ Refused
  <2>1. \A k : ToCount(k)' \subseteq ToCount(k) /\ Behind(k)' = Behind(k)
    BY <1>9 DEF Ref!PickCode, Ref!SetUserCode, Ref!NotADuplicate, Ref!Duplicate, Ref!BelowCap, Ref!Abort,
                ToCount, Behind, Ref!CounterKey, Ref!TypeOK
  <2>. QED
    BY <1>5, <1>9, <2>1
    DEF Ref!PickCode, Ref!SetUserCode, Ref!NotADuplicate, Ref!Duplicate, Ref!BelowCap, Ref!Abort
<1>10. ASSUME NEW w \in Worker, Ref!MarkQualified(w) PROVE Counts /\ Refused
  <2>1. \A k : ToCount(k)' \subseteq ToCount(k)
    BY <1>10 DEF Ref!MarkQualified, ToCount, Ref!CounterKey, Ref!TypeOK
  <2>2. /\ DOMAIN referrals' = DOMAIN referrals
        /\ \A i \in DOMAIN referrals : /\ referrals'[i].pair = referrals[i].pair
                                       /\ referrals'[i].created = referrals[i].created
    <3>1. PICK first : referrals' = [referrals EXCEPT ![first].status = "QUALIFIED"]
      BY <1>10 DEF Ref!MarkQualified
    <3>2. referrals \in Seq(Ref!Referral)
      BY DEF Ref!TypeOK
    <3>. QED
      BY <3>1, <3>2 DEF Ref!Referral
  <2>3. \A k : Behind(k)' = Behind(k)
    BY <2>2 DEF Behind
  <2>. QED
    BY <1>5, <1>10, <2>1, <2>3 DEF Ref!MarkQualified
<1>11. CASE Ref!MonthEnds
  <2>1. \A k : ToCount(k)' = ToCount(k) /\ Behind(k)' = Behind(k)
    BY <1>11 DEF Ref!MonthEnds, ToCount, Behind, Ref!CounterKey
  <2>. QED
    BY <1>5, <1>11, <2>1 DEF Ref!MonthEnds
<1>. HIDE DEF Counts, Refused
<1>. QED
  BY <1>3, <1>4, <1>6, <1>7, <1>8, <1>9, <1>10, <1>11 DEF Ref!Next, Ref!Step

(* The calls that have read a referral of a pair as pending. *)
Racers(p) == {w \in Worker : refPc[w] = "qualify" /\ refCall[w].pair = p}

(* A pair without a referral has been granted nothing; one whose only
   referral is pending has not either; and one whose only referral is
   qualified, no more than those who may still grant leave room for. *)
RefGrants ==
  \A p \in Ref!Pair :
    /\ Ref!Rows(p) = {} => granted[p] = 0 /\ Racers(p) = {}
    /\ \A i : Ref!Rows(p) = {i} =>
         IF Ref!Pending(i) THEN granted[p] = 0
         ELSE granted[p] + Cardinality(Racers(p)) <= Cardinality(Worker)

LEMMA RacersCount ==
  ASSUME NEW S, S \subseteq Worker
  PROVE  IsFiniteSet(S) /\ Cardinality(S) \in Nat /\ Cardinality(S) <= Cardinality(Worker)
         /\ Cardinality(Worker) \in Nat
BY WorkerAssumption, FS_Subset, FS_CardinalityType

(* The steps that leave the referrals and the answers alone, and add no
   racer but to a pair that has a pending referral. *)
LEMMA RefOtherGrants ==
  ASSUME Ref!TypeOK, RefGrants, UNCHANGED <<referrals, granted>>,
         \A p \in Ref!Pair : Racers(p)' \subseteq Racers(p) \/ \E i \in Ref!Rows(p) : Ref!Pending(i)
  PROVE  RefGrants'
<1>. SUFFICES ASSUME NEW p \in Ref!Pair
              PROVE  /\ Ref!Rows(p) = {} => granted[p] = 0 /\ Racers(p)' = {}
                     /\ \A i : Ref!Rows(p) = {i} =>
                          IF Ref!Pending(i) THEN granted[p] = 0
                          ELSE granted[p] + Cardinality(Racers(p)') <= Cardinality(Worker)
  BY DEF RefGrants, Ref!Rows, Ref!Pending
<1>1. CASE Racers(p)' \subseteq Racers(p)
  <2>1. Racers(p) \subseteq Worker
    BY DEF Racers
  <2>2. /\ Cardinality(Racers(p)') <= Cardinality(Racers(p))
        /\ Cardinality(Racers(p)') \in Nat /\ Cardinality(Racers(p)) \in Nat /\ Cardinality(Worker) \in Nat
    BY <1>1, <2>1, RacersCount, FS_Subset
  <2>3. granted[p] \in Nat
    BY ReferralsAssumption DEF Ref!TypeOK
  <2>4. ASSUME NEW i, Ref!Rows(p) = {i}
        PROVE  IF Ref!Pending(i) THEN granted[p] = 0
               ELSE granted[p] + Cardinality(Racers(p)') <= Cardinality(Worker)
    <3>1. IF Ref!Pending(i) THEN granted[p] = 0
          ELSE granted[p] + Cardinality(Racers(p)) <= Cardinality(Worker)
      BY <2>4 DEF RefGrants
    <3>. QED
      BY <2>2, <2>3, <3>1
  <2>5. Ref!Rows(p) = {} => granted[p] = 0 /\ Racers(p)' = {}
    BY <1>1 DEF RefGrants
  <2>. QED
    BY <2>4, <2>5
<1>2. CASE \E i \in Ref!Rows(p) : Ref!Pending(i)
  BY <1>2 DEF RefGrants
<1>. QED
  BY <1>1, <1>2

LEMMA RefGranting ==
  ASSUME Ref!TypeOK, Ref!TypeOK', RefGrants, [Ref!Next]_(Ref!vars)
  PROVE  RefGrants'
<1>. USE DEF Ref!store, Ref!history, Ref!Goto, Ref!Finish
<1>1. CASE UNCHANGED Ref!vars
  BY <1>1 DEF Ref!vars, RefGrants, Racers, Ref!Rows, Ref!Pending
<1>2. ASSUME NEW w \in Worker, NEW u \in Member,
             Ref!KeepCode(w, u) \/ Ref!Generate(w, u) \/ \E c \in Code : Ref!Accept(w, u, c)
      PROVE  RefGrants'
  <2>1. \A p : Racers(p)' \subseteq Racers(p)
    BY <1>2 DEF Ref!KeepCode, Ref!Generate, Ref!Accept, Ref!vars, Racers, Ref!TypeOK
  <2>. QED
    BY <1>2, <2>1, RefOtherGrants DEF Ref!KeepCode, Ref!Generate, Ref!Accept, Ref!vars
<1>3. ASSUME NEW w \in Worker, NEW i \in 1 .. MaxReferrals, Ref!Qualify(w, i) PROVE RefGrants'
  <2>1. \A p : Racers(p)' \subseteq Racers(p) \/ p = referrals[i].pair
    <3>1. refCall' = [refCall EXCEPT ![w] = [refCall[w] EXCEPT !.pair = referrals[i].pair]]
          /\ refCall[w] \in Ref!Call
      BY <1>3 DEF Ref!Qualify, Ref!TypeOK
    <3>2. refCall'[w].pair = referrals[i].pair
      BY <3>1 DEF Ref!Call, Ref!TypeOK
    <3>. QED
      BY <1>3, <3>1, <3>2 DEF Ref!Qualify, Racers, Ref!TypeOK
  <2>2. i \in Ref!Rows(referrals[i].pair) /\ Ref!Pending(i)
    BY <1>3 DEF Ref!Qualify, Ref!Rows
  <2>. QED
    BY <1>3, <2>1, <2>2, RefOtherGrants DEF Ref!Qualify
<1>4. ASSUME NEW w \in Worker,
             \/ \E c \in Code : Ref!PickCode(w, c)
             \/ Ref!SetUserCode(w) \/ Ref!NotADuplicate(w) \/ Ref!Duplicate(w) \/ Ref!BelowCap(w)
             \/ Ref!AtCap(w) \/ Ref!Count(w) \/ Ref!Abort(w)
      PROVE  RefGrants'
  <2>1. \A p : Racers(p)' \subseteq Racers(p)
    BY <1>4 DEF Ref!PickCode, Ref!SetUserCode, Ref!NotADuplicate, Ref!Duplicate, Ref!BelowCap, Ref!AtCap,
                Ref!Count, Ref!Abort, Racers, Ref!TypeOK
  <2>. QED
    BY <1>4, <2>1, RefOtherGrants
    DEF Ref!PickCode, Ref!SetUserCode, Ref!NotADuplicate, Ref!Duplicate, Ref!BelowCap, Ref!AtCap,
        Ref!Count, Ref!Abort
<1>5. CASE Ref!MonthEnds
  <2>1. \A p : Racers(p)' \subseteq Racers(p)
    BY <1>5 DEF Ref!MonthEnds, Racers
  <2>. QED
    BY <1>5, <2>1, RefOtherGrants DEF Ref!MonthEnds
<1>6. ASSUME NEW w \in Worker, Ref!Create(w) PROVE RefGrants'
  <2>. SUFFICES ASSUME NEW p \in Ref!Pair
                PROVE  /\ Ref!Rows(p)' = {} => granted'[p] = 0 /\ Racers(p)' = {}
                       /\ \A i : Ref!Rows(p)' = {i} =>
                            IF Ref!Pending(i)' THEN granted'[p] = 0
                            ELSE granted'[p] + Cardinality(Racers(p)') <= Cardinality(Worker)
    BY DEF RefGrants
  <2>0. PICK n \in Nat : n = Len(referrals) + 1
    BY DEF Ref!TypeOK
  <2>1. /\ granted' = granted /\ \A q : Racers(q)' = Racers(q)
        /\ DOMAIN referrals' = DOMAIN referrals \cup {n} /\ n \notin DOMAIN referrals
        /\ \A i \in DOMAIN referrals : referrals'[i] = referrals[i]
        /\ referrals'[n].pair = refCall[w].pair /\ referrals'[n].status = "PENDING"
    BY <1>6, <2>0 DEF Ref!Create, Ref!TypeOK, Racers
  <2>2. CASE p = refCall[w].pair
    <3>1. Ref!Rows(p)' = Ref!Rows(p) \cup {n} /\ n \notin Ref!Rows(p) /\ Ref!Pending(n)'
      BY <2>1, <2>2 DEF Ref!Rows, Ref!Pending
    <3>2. ASSUME NEW i, Ref!Rows(p)' = {i} PROVE i = n /\ Ref!Rows(p) = {}
      BY <3>1, <3>2
    <3>3. Ref!Rows(p) = {} => granted[p] = 0
      BY DEF RefGrants
    <3>. QED
      BY <2>1, <3>1, <3>2, <3>3
  <2>3. CASE p # refCall[w].pair
    <3>1. Ref!Rows(p)' = Ref!Rows(p) /\ \A i \in Ref!Rows(p) : Ref!Pending(i)' <=> Ref!Pending(i)
      BY <2>1, <2>3 DEF Ref!Rows, Ref!Pending
    <3>. QED
      BY <2>1, <3>1 DEF RefGrants
  <2>. QED
    BY <2>2, <2>3
<1>7. ASSUME NEW w \in Worker, Ref!MarkQualified(w) PROVE RefGrants'
  <2>. SUFFICES ASSUME NEW p \in Ref!Pair
                PROVE  /\ Ref!Rows(p)' = {} => granted'[p] = 0 /\ Racers(p)' = {}
                       /\ \A i : Ref!Rows(p)' = {i} =>
                            IF Ref!Pending(i)' THEN granted'[p] = 0
                            ELSE granted'[p] + Cardinality(Racers(p)') <= Cardinality(Worker)
    BY DEF RefGrants
  <2>0. refCall[w].pair \in Ref!Pair
    BY RefCalls DEF Ref!TypeOK
  <2>1. PICK p0 \in Ref!Pair : p0 = refCall[w].pair
    BY <2>0
  <2>2. w \in Racers(p0) /\ \A q : Racers(q)' = IF q = p0 THEN Racers(q) \ {w} ELSE Racers(q)
    BY <1>7, <2>1 DEF Ref!MarkQualified, Racers, Ref!TypeOK
  <2>3. /\ granted' = [granted EXCEPT ![p0] = granted[p0] + 1]
        /\ granted \in [Ref!Pair -> 0 .. MaxGrants]
        /\ referrals \in Seq(Ref!Referral)
    BY <1>7, <2>1 DEF Ref!MarkQualified, Ref!TypeOK
  <2>4. PICK first \in Ref!Rows(p0) : referrals' = [referrals EXCEPT ![first].status = "QUALIFIED"]
    <3>1. Ref!Rows(p0) # {}
      BY <2>2 DEF RefGrants
    <3>2. Ref!Rows(p0) \in SUBSET Nat
      BY <2>3 DEF Ref!Rows
    <3>3. \E i \in Ref!Rows(p0) : \A j \in Ref!Rows(p0) : i <= j
      BY <3>1, <3>2, Least
    <3>. QED
      BY <1>7, <2>1, <3>3 DEF Ref!MarkQualified
  <2>5. /\ first \in DOMAIN referrals /\ referrals[first].pair = p0
        /\ DOMAIN referrals' = DOMAIN referrals
        /\ \A i \in DOMAIN referrals : /\ referrals'[i].pair = referrals[i].pair
                                       /\ i # first => referrals'[i].status = referrals[i].status
        /\ referrals'[first].status = "QUALIFIED"
    <3>1. first \in DOMAIN referrals /\ referrals[first].pair = p0
      BY <2>4 DEF Ref!Rows
    <3>2. referrals[first] \in Ref!Referral
      BY <2>3, <3>1
    <3>. DEFINE r == [referrals[first] EXCEPT !.status = "QUALIFIED"]
    <3>3. r.pair = referrals[first].pair /\ r.status = "QUALIFIED"
      BY <3>2 DEF Ref!Referral
    <3>4. referrals' = [referrals EXCEPT ![first] = r]
      BY <2>4
    <3>. HIDE DEF r
    <3>. QED
      BY <2>3, <3>1, <3>3, <3>4
  <2>6. Ref!Rows(p)' = Ref!Rows(p)
    BY <2>5 DEF Ref!Rows
  <2>7. CASE p # p0
    <3>1. \A i \in Ref!Rows(p) : Ref!Pending(i)' <=> Ref!Pending(i)
      BY <2>5, <2>7 DEF Ref!Rows, Ref!Pending
    <3>2. granted'[p] = granted[p] /\ Racers(p)' = Racers(p)
      BY <2>2, <2>3, <2>7
    <3>. QED
      BY <2>6, <3>1, <3>2 DEF RefGrants
  <2>8. CASE p = p0
    <3>1. Ref!Rows(p)' # {}
      BY <2>4, <2>6, <2>8
    <3>2. ASSUME NEW i, Ref!Rows(p)' = {i}
          PROVE  ~Ref!Pending(i)' /\ granted'[p] + Cardinality(Racers(p)') <= Cardinality(Worker)
      <4>1. i = first /\ Ref!Rows(p) = {i}
        BY <2>4, <2>6, <2>8, <3>2
      <4>2. ~Ref!Pending(i)'
        BY <2>5, <4>1 DEF Ref!Pending
      <4>3. granted'[p] = granted[p] + 1 /\ granted[p] \in Nat
        BY <2>3, <2>8, ReferralsAssumption
      <4>4. Racers(p) \subseteq Worker /\ w \in Racers(p) /\ Racers(p)' = Racers(p) \ {w}
        BY <2>2, <2>8 DEF Racers
      <4>5. /\ Cardinality(Racers(p)) = Cardinality(Racers(p)') + 1
            /\ Cardinality(Racers(p)') \in Nat /\ Cardinality(Racers(p)) <= Cardinality(Worker)
            /\ Cardinality(Worker) \in Nat
        BY <4>4, RacersCount, SmallerRest
      <4>6. granted[p] = 0 \/ granted[p] + Cardinality(Racers(p)) <= Cardinality(Worker)
        BY <4>1 DEF RefGrants
      <4>. QED
        BY <4>2, <4>3, <4>5, <4>6
    <3>. QED
      BY <3>1, <3>2
  <2>. QED
    BY <2>7, <2>8
<1>. QED
  BY <1>1, <1>2, <1>3, <1>4, <1>5, <1>6, <1>7 DEF Ref!Next, Ref!Step

RefInv == Ref!TypeOK /\ RefCounts /\ RefGrants

LEMMA RefInduction ==
  /\ Ref!Init => RefInv
  /\ RefInv /\ [Ref!Next]_(Ref!vars) => RefInv'
<1>. SUFFICES ASSUME Ref!Init PROVE RefCounts /\ RefGrants
  BY RefTypes, RefCounting, RefGranting DEF RefInv
<1>1. \A k : ToCount(k) = {} /\ Behind(k) = {} /\ Racers(k) = {}
  BY DEF Ref!Init, ToCount, Behind, Racers
<1>2. Cardinality({}) = 0
  BY FS_EmptySet
<1>3. RefCounts
  <2>1. \A k : Cardinality(ToCount(k)) = 0 /\ Cardinality(Behind(k)) = 0
    BY <1>1, <1>2
  <2>. QED
    BY <2>1 DEF Ref!Init, RefCounts
<1>4. \A p : Ref!Rows(p) = {}
  BY DEF Ref!Init, Ref!Rows
<1>5. RefGrants
  BY <1>1, <1>4 DEF Ref!Init, RefGrants
<1>. QED
  BY <1>3, <1>5

(***************************************************************************)
(* A referrer refused for the cap of a month has that many referrals, and  *)
(* a pair with one referral is answered "qualified" by no more calls than  *)
(* run at the same time (referrals.ts).                                    *)
(***************************************************************************)
THEOREM RefusalsAreFounded == Ref!Spec => []ReferralsAreEarned
<1>1. RefInv => Ref!RefusedHasReferrals
  <2>. SUFFICES ASSUME RefInv, NEW k \in refused PROVE Ref!Created(k[1], {k[2], k[2] + 1}) >= MonthlyCap
    BY DEF Ref!RefusedHasReferrals
  <2>1. Ref!Created(k[1], {k[2], k[2] + 1}) = Cardinality(Behind(k))
    BY RefCards DEF Ref!Created, Behind
  <2>2. MonthlyCap <= Cardinality(Behind(k)) /\ Cardinality(Behind(k)) \in Nat
    BY RefFinite DEF RefInv, RefCounts
  <2>. QED
    BY <2>1, <2>2, ReferralsAssumption
<1>2. RefInv => Ref!QualifiedByRacersOnly
  <2>. SUFFICES ASSUME RefInv, NEW p \in Ref!Pair, Cardinality(Ref!Rows(p)) = 1
                PROVE  granted[p] <= Cardinality(Worker)
    BY RefCards DEF Ref!QualifiedByRacersOnly
  <2>1. Ref!Rows(p) \subseteq 1 .. Len(referrals) /\ Len(referrals) \in Int /\ 1 \in Int
    BY DEF RefInv, Ref!TypeOK, Ref!Rows
  <2>2. IsFiniteSet(1 .. Len(referrals))
    BY <2>1, FS_Interval
  <2>3. PICK i : Ref!Rows(p) = {i}
    BY <2>1, <2>2, FS_Subset, FS_Singleton
  <2>4. granted[p] = 0 \/ granted[p] + Cardinality(Racers(p)) <= Cardinality(Worker)
    BY <2>3 DEF RefInv, RefGrants
  <2>5. Racers(p) \subseteq Worker
    BY DEF Racers
  <2>6. granted[p] \in Nat
    BY ReferralsAssumption DEF RefInv, Ref!TypeOK
  <2>. QED
    BY <2>4, <2>5, <2>6, RacersCount
<1>. QED
  BY RefInduction, <1>1, <1>2, PTL DEF Ref!Spec, ReferralsAreEarned

----
(***************************************************************************)
(* Streaks.  The days of a user are a set of numbers up to today; the loop *)
(* of the evaluator is a recursive function on it, which the lemmas below  *)
(* show to exist, and to count the days in a row that end at a day.        *)
(***************************************************************************)
(* A non-empty set of numbers up to a bound has a greatest one. *)
LEMMA Greatest ==
  ASSUME NEW N \in Nat, NEW T \in SUBSET (0 .. N), T # {}
  PROVE  Streaks!Max(T) \in T /\ \A t \in T : t <= Streaks!Max(T)
<1>. DEFINE U == {n \in Nat : \A t \in T : t <= n}
<1>1. N \in U /\ U \in SUBSET Nat
  OBVIOUS
<1>2. PICK m \in U : \A n \in U : m <= n
  BY <1>1, Least
<1>3. m \in T
  <2>. SUFFICES ASSUME m \notin T PROVE FALSE
    OBVIOUS
  <2>1. \A t \in T : t <= m - 1 /\ t \in Nat
    OBVIOUS
  <2>a. m - 1 \in Nat
    <3>1. PICK t \in T : TRUE
      OBVIOUS
    <3>. QED
      BY <2>1, <3>1
  <2>2. m - 1 \in U
    BY <2>1, <2>a
  <2>3. m \in Nat /\ m <= m - 1
    BY <1>2, <2>2
  <2>. QED
    BY <2>3
<1>4. \E x \in T : \A y \in T : x >= y
  BY <1>3
<1>5. Streaks!Max(T) \in T /\ \A y \in T : Streaks!Max(T) >= y
  BY <1>4 DEF Streaks!Max
<1>. QED
  BY <1>5

(* The function of calculateStreak's loop on a set of days: a day counts
   one more than the day before it, unless there is a gap between them. *)
Linked(D, d) ==
  \E e \in D : e < d /\ Streaks!Noon(d) - Streaks!Noon(Streaks!Earlier(D, d)) <= GapHours

Runs(g, D) == g = [d \in D |-> IF Linked(D, d) THEN 1 + g[Streaks!Earlier(D, d)] ELSE 1]

(* If there is such a function, the streak is a value of one. *)
LEMMA StreakIsARun ==
  ASSUME NEW D, NEW hour, \E g : Runs(g, D)
  PROVE  \E g : Runs(g, D) /\ Streaks!Streak(D, hour) =
           IF D = {} \/ hour - Streaks!Noon(Streaks!Max(D)) > 48 THEN 0 ELSE g[Streaks!Max(D)]
BY DEF Runs, Linked, Streaks!Streak

(* The gap allowed is less than two days, so that a day is linked to the
   one before only. *)
LEMMA LinkedToYesterday ==
  ASSUME NEW N \in Nat, NEW D \in SUBSET (0 .. N), NEW d \in D
  PROVE  /\ Linked(D, d) <=> d - 1 \in D
         /\ Linked(D, d) => Streaks!Earlier(D, d) = d - 1
<1>. DEFINE T == {e \in D : e < d}
<1>1. CASE T = {}
  BY <1>1 DEF Linked
<1>2. CASE T # {}
  <2>1. T \in SUBSET (0 .. N)
    OBVIOUS
  <2>. DEFINE m == Streaks!Max(T)
  <2>2. m \in T /\ \A t \in T : t <= m
    <3>. HIDE DEF T
    <3>. QED BY <1>2, <2>1, Greatest
  <2>3. Streaks!Earlier(D, d) = m
    BY DEF Streaks!Earlier
  <2>. HIDE DEF m
  <2>4. Linked(D, d) <=> 24 * d - 24 * m <= GapHours
    BY <1>2, <2>2, <2>3 DEF Linked, Streaks!Noon
  <2>5. 24 * d - 24 * m <= GapHours <=> m = d - 1
    BY <2>2, StreaksAssumption
  <2>6. m = d - 1 <=> d - 1 \in D
    BY <2>2
  <2>. QED
    BY <2>3, <2>4, <2>5, <2>6
<1>. QED
  BY <1>1, <1>2

LEMMA RunsExist ==
  ASSUME NEW N \in Nat, NEW D \in SUBSET (0 .. N)
  PROVE  \E g : Runs(g, D)
<1>. DEFINE Good(g, n) == \A d \in D : d <= n => g[d] = IF d - 1 \in D THEN 1 + g[d - 1] ELSE 1
            P == {n \in Nat : \E g : Good(g, n)}
<1>1. 0 \in P
  <2>1. Good([d \in D |-> 1], 0)
    OBVIOUS
  <2>. QED
    BY <2>1
<1>2. ASSUME NEW n \in P PROVE n + 1 \in P
  <2>1. PICK g : Good(g, n)
    OBVIOUS
  <2>. DEFINE h == [d \in D |-> IF d <= n THEN g[d] ELSE IF d - 1 \in D THEN 1 + g[d - 1] ELSE 1]
  <2>2. Good(h, n + 1)
    BY <2>1
  <2>. QED
    <3>. HIDE DEF h, Good
    <3>. QED BY <2>2
<1>3. P = Nat
  <2>. HIDE DEF P
  <2>1. P \in SUBSET Nat
    BY DEF P
  <2>. QED
    BY <1>1, <1>2, <2>1, AllOfNat
<1>4. PICK g : Good(g, N)
  BY <1>3
<1>. DEFINE r == [d \in D |-> g[d]]
<1>5. \A d \in D : r[d] = IF Linked(D, d) THEN 1 + r[Streaks!Earlier(D, d)] ELSE 1
  <2>. SUFFICES ASSUME NEW d \in D
                PROVE  r[d] = IF Linked(D, d) THEN 1 + r[Streaks!Earlier(D, d)] ELSE 1
    OBVIOUS
  <2>1. r[d] = IF d - 1 \in D THEN 1 + g[d - 1] ELSE 1
    BY <1>4
  <2>2. d - 1 \in D => r[d - 1] = g[d - 1]
    OBVIOUS
  <2>3. (Linked(D, d) <=> d - 1 \in D) /\ (Linked(D, d) => Streaks!Earlier(D, d) = d - 1)
    BY LinkedToYesterday
  <2>. HIDE DEF r
  <2>. QED
    BY <2>1, <2>2, <2>3
<1>6. r = [d \in D |-> r[d]]
  OBVIOUS
<1>7. r = [d \in D |-> IF Linked(D, d) THEN 1 + r[Streaks!Earlier(D, d)] ELSE 1]
  <2>. HIDE DEF r
  <2>. QED BY <1>5, <1>6
<1>. QED
  BY <1>7 DEF Runs

(* A run counts days in a row, and all of those before its day. *)
LEMMA RunsCount ==
  ASSUME NEW N \in Nat, NEW D \in SUBSET (0 .. N), NEW g, Runs(g, D)
  PROVE  \A d \in D : /\ g[d] \in Nat \ {0} /\ d - g[d] + 1 .. d \subseteq D
                      /\ \A n \in Nat : d - n + 1 .. d \subseteq D => n <= g[d]
<1>. DEFINE Counts(d) == /\ g[d] \in Nat \ {0} /\ d - g[d] + 1 .. d \subseteq D
                         /\ \A n \in Nat : d - n + 1 .. d \subseteq D => n <= g[d]
            P == {n \in Nat : \A d \in D : d <= n => Counts(d)}
<1>1. \A d \in D : d \in Nat /\ g[d] = IF d - 1 \in D THEN 1 + g[d - 1] ELSE 1
  BY LinkedToYesterday DEF Runs
<1>2. ASSUME NEW d \in D, d - 1 \notin D PROVE Counts(d)
  <2>1. g[d] = 1
    BY <1>1, <1>2
  <2>2. ASSUME NEW n \in Nat, d - n + 1 .. d \subseteq D PROVE n <= 1
    <3>. SUFFICES ASSUME n >= 2 PROVE FALSE
      OBVIOUS
    <3>1. d - 1 \in d - n + 1 .. d
      BY <1>1
    <3>. QED
      BY <1>2, <2>2, <3>1
  <2>. QED
    BY <1>1, <2>1, <2>2
<1>3. ASSUME NEW d \in D, d - 1 \in D, Counts(d - 1) PROVE Counts(d)
  <2>1. g[d] = 1 + g[d - 1] /\ g[d - 1] \in Nat \ {0}
    BY <1>1, <1>3
  <2>2. d - g[d] + 1 .. d \subseteq D
    <3>1. (d - 1) - g[d - 1] + 1 .. d - 1 \subseteq D
      BY <1>3
    <3>. QED
      BY <1>1, <2>1, <3>1
  <2>3. ASSUME NEW n \in Nat, d - n + 1 .. d \subseteq D PROVE n <= g[d]
    <3>1. CASE n = 0
      BY <2>1, <3>1
    <3>2. CASE n # 0
      <4>1. n - 1 \in Nat /\ (d - 1) - (n - 1) + 1 .. d - 1 \subseteq D
        BY <1>1, <2>3, <3>2
      <4>2. n - 1 <= g[d - 1]
        BY <1>3, <4>1
      <4>. QED
        BY <2>1, <4>2
    <3>. QED
      BY <3>1, <3>2
  <2>. QED
    BY <2>1, <2>2, <2>3
<1>. HIDE DEF Counts
<1>4. 0 \in P
  BY <1>1, <1>2
<1>5. ASSUME NEW n \in P PROVE n + 1 \in P
  <2>. SUFFICES ASSUME NEW d \in D, d = n + 1 PROVE Counts(d)
    BY <1>1
  <2>1. CASE d - 1 \in D
    BY <1>3, <2>1
  <2>2. CASE d - 1 \notin D
    BY <1>2, <2>2
  <2>. QED
    BY <2>1, <2>2
<1>6. P = Nat
  <2>. HIDE DEF P
  <2>1. P \in SUBSET Nat
    BY DEF P
  <2>. QED
    BY <1>4, <1>5, <2>1, AllOfNat
<1>7. \A d \in D : Counts(d)
  BY <1>1, <1>6
<1>. QED
  BY <1>7 DEF Counts

(* What a streak is made of, and what makes one. *)
LEMMA StreakIsEarned ==
  ASSUME NEW d \in Nat, NEW D \in SUBSET (0 .. d), NEW h \in Hours, NEW s, s = Streaks!Streak(D, 24 * d + h)
  PROVE  /\ s \in Nat
         /\ s # 0 => \E last \in d - 2 .. d : last - s + 1 .. last \subseteq D
         /\ \A n \in Nat \ {0} : d - n + 1 .. d \subseteq D => n <= s
<1>. DEFINE hour == 24 * d + h
            last == Streaks!Max(D)
<1>1. h \in 0 .. 23
  BY StreaksAssumption
<1>2. PICK g : /\ Runs(g, D)
               /\ Streaks!Streak(D, hour) = IF D = {} \/ hour - Streaks!Noon(last) > 48 THEN 0 ELSE g[last]
  BY RunsExist, StreakIsARun
<1>3. D # {} => last \in D /\ \A e \in D : e <= last
  BY Greatest
<1>. HIDE DEF last
<1>4. \A e \in D : /\ g[e] \in Nat \ {0} /\ e - g[e] + 1 .. e \subseteq D
                   /\ \A n \in Nat : e - n + 1 .. e \subseteq D => n <= g[e]
  BY <1>2, RunsCount
<1>5. s = Streaks!Streak(D, hour)
  OBVIOUS
<1>t. ASSUME NEW n \in Nat \ {0}, d - n + 1 .. d \subseteq D PROVE d \in D /\ last = d
  <2>1. d \in D
    BY <1>t
  <2>2. last \in D /\ d <= last
    BY <1>3, <2>1
  <2>. QED
    BY <2>1, <2>2
<1>6. CASE D = {} \/ hour - Streaks!Noon(last) > 48
  <2>1. s = 0
    BY <1>2, <1>5, <1>6
  <2>2. ASSUME NEW n \in Nat \ {0}, d - n + 1 .. d \subseteq D PROVE FALSE
    BY <1>1, <1>6, <1>t, <2>2 DEF Streaks!Noon
  <2>. QED
    BY <2>1, <2>2
<1>7. CASE ~(D = {} \/ hour - Streaks!Noon(last) > 48)
  <2>1. s = g[last] /\ last \in D
    BY <1>2, <1>3, <1>5, <1>7
  <2>2. last \in d - 2 .. d
    BY <1>1, <1>7, <2>1 DEF Streaks!Noon
  <2>3. ASSUME NEW n \in Nat \ {0}, d - n + 1 .. d \subseteq D PROVE n <= s
    <3>1. last = d
      BY <1>t, <2>3
    <3>. QED
      BY <1>4, <2>1, <2>3, <3>1
  <2>. QED
    BY <1>4, <2>1, <2>2, <2>3
<1>. QED
  BY <1>6, <1>7

(* Enough days in a row with a login, ended no more than two days before. *)
Earned(days, rule, d) == \E last \in d - 2 .. d : Streaks!InARow(days, last, Streaks!DaysFor(rule))

(* What the run of a day asks for is earned, is one bonus of a user, and
   leaves out nobody who has logged in up to that day. *)
LEMMA RulesAreEarned ==
  ASSUME NEW d \in Nat, NEW D \in SUBSET (0 .. d), NEW h \in Hours,
         NEW rules, rules = Streaks!Rule(Streaks!Streak(D, 24 * d + h))
  PROVE  /\ \A r \in rules : r \in Streaks!Rules /\ Earned(D, r, d)
         /\ \A r, q \in rules : r = q
         /\ Streaks!InARow(D, d, Short) => rules # {}
<1>1. PICK s : s = Streaks!Streak(D, 24 * d + h)
  OBVIOUS
<1>2. /\ s \in Nat
      /\ s # 0 => \E last \in d - 2 .. d : last - s + 1 .. last \subseteq D
      /\ \A n \in Nat \ {0} : d - n + 1 .. d \subseteq D => n <= s
  BY <1>1, StreakIsEarned
<1>3. rules = Streaks!Rule(s)
  BY <1>1
<1>4. ASSUME NEW r \in rules PROVE r \in Streaks!Rules /\ Earned(D, r, d)
  <2>1. /\ r \in Streaks!Rules /\ s # 0
        /\ Streaks!DaysFor(r) \in Nat \ {0} /\ Streaks!DaysFor(r) <= s
    BY <1>2, <1>3, StreaksAssumption DEF Streaks!Rule, Streaks!Rules, Streaks!DaysFor
  <2>2. PICK last \in d - 2 .. d : last - s + 1 .. last \subseteq D
    BY <1>2, <2>1
  <2>3. last - Streaks!DaysFor(r) + 1 .. last \subseteq last - s + 1 .. last
    BY <1>2, <2>1
  <2>. QED
    BY <2>1, <2>2, <2>3 DEF Earned, Streaks!InARow
<1>5. \A r, q \in rules : r = q
  BY <1>3 DEF Streaks!Rule
<1>6. Streaks!InARow(D, d, Short) => rules # {}
  BY <1>2, <1>3, StreaksAssumption DEF Streaks!Rule, Streaks!InARow
<1>. QED
  BY <1>4, <1>5, <1>6

(***************************************************************************)
(* What is asked for and what has been is earned, and no user has two of a *)
(* day; what the run of the day has still to ask for is in its queue.      *)
(***************************************************************************)
StreaksTyped ==
  /\ today \in Nat /\ today <= StreakDays
  /\ logins \in [Member -> SUBSET (0 .. StreakDays)] /\ \A u \in Member : logins[u] \subseteq 0 .. today
  /\ evaluated \in {"due", "running", "failed", "done"}
  /\ users \in [Member -> SUBSET (0 .. StreakDays)]
  /\ queue \subseteq Member \X Streaks!Rules
  /\ fired \subseteq Member \X Streaks!Rules \X (0 .. StreakDays)

StreaksEarned ==
  /\ \A b \in queue : Earned(logins[b[1]], b[2], today)
  /\ \A f \in fired : Earned(logins[f[1]], f[2], f[3])

StreaksOnce ==
  /\ \A f \in fired : f[3] <= today /\ (evaluated = "due" => f[3] < today)
  /\ \A b, c \in queue : b[1] = c[1] => b = c
  /\ \A b \in queue, f \in fired : f[3] = today => f[1] # b[1]
  /\ \A f, g \in fired : f[1] = g[1] /\ f[3] = g[3] => f = g

StreaksServed ==
  /\ evaluated # "running" => queue = {}
  /\ evaluated \in {"running", "done"} =>
       \A u \in Member : Streaks!InARow(users[u], today, Short) =>
         \E rule \in Streaks!Rules : <<u, rule>> \in queue \/ <<u, rule, today>> \in fired

StreaksInv == StreaksTyped /\ StreaksEarned /\ StreaksOnce /\ StreaksServed

LEMMA StreaksStart == Streaks!Init => StreaksInv
<1>. SUFFICES ASSUME Streaks!Init PROVE StreaksInv
  OBVIOUS
<1>1. /\ logins \in [Member -> SUBSET (0 .. StreakDays)] /\ \A u \in Member : logins[u] = {}
      /\ users \in [Member -> SUBSET (0 .. StreakDays)]
  BY DEF Streaks!Init, Streaks!Nobody
<1>2. fired = {} /\ queue = {} /\ today = 0 /\ evaluated = "due"
  BY DEF Streaks!Init
<1>3. fired \subseteq Member \X Streaks!Rules \X (0 .. StreakDays) /\ queue \subseteq Member \X Streaks!Rules
  BY <1>2, Zenon
<1>4. StreaksTyped
  <2>1. today \in Nat /\ today <= StreakDays
    BY <1>2, StreaksAssumption
  <2>2. evaluated \in {"due", "running", "failed", "done"}
    BY <1>2
  <2>. QED
    BY <1>1, <1>3, <2>1, <2>2, Zenon DEF StreaksTyped
<1>. QED
  BY <1>2, <1>4 DEF StreaksInv, StreaksEarned, StreaksOnce, StreaksServed

(* A login more takes nothing away that was earned. *)
LEMMA MoreLogins ==
  ASSUME NEW D, NEW E, D \subseteq E, NEW rule, NEW d, Earned(D, rule, d)
  PROVE  Earned(E, rule, d)
BY DEF Earned, Streaks!InARow

LEMMA StreaksLogin ==
  ASSUME StreaksInv, NEW v \in Member, Streaks!Login(v)
  PROVE  StreaksInv'
<1>1. /\ logins' = [logins EXCEPT ![v] = @ \cup {today}]
      /\ today' = today /\ evaluated' = evaluated /\ users' = users /\ queue' = queue /\ fired' = fired
  BY DEF Streaks!Login
<1>2. StreaksTyped'
  BY <1>1 DEF StreaksInv, StreaksTyped
<1>3. \A u \in Member : logins[u] \subseteq logins'[u]
  BY <1>1 DEF StreaksInv, StreaksTyped
<1>4. /\ \A b \in queue : b[1] \in Member /\ Earned(logins[b[1]], b[2], today)
      /\ \A f \in fired : f[1] \in Member /\ Earned(logins[f[1]], f[2], f[3])
  BY DEF StreaksInv, StreaksTyped, StreaksEarned
<1>5. /\ \A b \in queue : Earned(logins'[b[1]], b[2], today)
      /\ \A f \in fired : Earned(logins'[f[1]], f[2], f[3])
  BY <1>3, <1>4, MoreLogins
<1>6. StreaksEarned'
  BY <1>1, <1>5 DEF StreaksEarned
<1>. QED
  BY <1>1, <1>2, <1>6 DEF StreaksInv, StreaksOnce, StreaksServed

LEMMA StreaksRun ==
  ASSUME StreaksInv, NEW h \in Hours, Streaks!RunForUsers(h)
  PROVE  StreaksInv'
<1>. DEFINE rules(u) == Streaks!Rule(Streaks!Streak(logins[u], 24 * today + h))
<1>1. /\ evaluated = "due" /\ evaluated' = "running" /\ users' = logins
      /\ queue' = UNION {{u} \X rules(u) : u \in Member}
      /\ today' = today /\ logins' = logins /\ fired' = fired
  BY DEF Streaks!RunForUsers
<1>2. \A u \in Member : /\ \A r \in rules(u) : r \in Streaks!Rules /\ Earned(logins[u], r, today)
                        /\ \A r, q \in rules(u) : r = q
                        /\ Streaks!InARow(logins[u], today, Short) => rules(u) # {}
  <2>. SUFFICES ASSUME NEW u \in Member
                PROVE  /\ \A r \in rules(u) : r \in Streaks!Rules /\ Earned(logins[u], r, today)
                       /\ \A r, q \in rules(u) : r = q
                       /\ Streaks!InARow(logins[u], today, Short) => rules(u) # {}
    BY Zenon
  <2>1. today \in Nat /\ logins[u] \in SUBSET (0 .. today)
    BY DEF StreaksInv, StreaksTyped
  <2>2. PICK d, D, R : d = today /\ D = logins[u] /\ R = rules(u)
    OBVIOUS
  <2>3. d \in Nat /\ D \in SUBSET (0 .. d) /\ R = Streaks!Rule(Streaks!Streak(D, 24 * d + h))
    BY <2>1, <2>2
  <2>. HIDE DEF rules
  <2>4. /\ \A r \in R : r \in Streaks!Rules /\ Earned(D, r, d)
        /\ \A r, q \in R : r = q
        /\ Streaks!InARow(D, d, Short) => R # {}
    BY <2>3, RulesAreEarned
  <2>. QED
    BY <2>2, <2>4
<1>. HIDE DEF rules
<1>3. /\ \A b \in queue' : \E u \in Member : \E r \in rules(u) : b = <<u, r>>
      /\ \A u \in Member : \A r \in rules(u) : <<u, r>> \in queue'
  BY <1>1
<1>4. /\ queue' \subseteq Member \X Streaks!Rules
      /\ \A b \in queue' : b[1] \in Member /\ b[2] \in rules(b[1]) /\ b = <<b[1], b[2]>>
  BY <1>2, <1>3
<1>5. StreaksTyped'
  BY <1>1, <1>4 DEF StreaksInv, StreaksTyped
<1>6. StreaksEarned'
  BY <1>1, <1>2, <1>4 DEF StreaksInv, StreaksEarned
<1>7. StreaksOnce'
  <2>1. \A b, c \in queue' : b[1] = c[1] => b = c
    BY <1>2, <1>4
  <2>2. \A f \in fired : f[3] < today /\ f[3] \in Int
    BY <1>1 DEF StreaksInv, StreaksTyped, StreaksOnce
  <2>3. today \in Int
    BY DEF StreaksInv, StreaksTyped
  <2>. QED
    BY <1>1, <2>1, <2>2, <2>3 DEF StreaksInv, StreaksOnce
<1>8. StreaksServed'
  BY <1>1, <1>2, <1>3 DEF StreaksServed
<1>. QED
  BY <1>5, <1>6, <1>7, <1>8 DEF StreaksInv

(* A bonus is taken from the queue and recorded, or not recorded. *)
LEMMA StreaksFire ==
  ASSUME StreaksInv, NEW b \in queue, Streaks!FireStreakBonus(b)
  PROVE  StreaksInv'
<1>. DEFINE f0 == <<b[1], b[2], today>>
<1>1. /\ fired' = fired \cup {f0} /\ queue' = queue \ {b}
      /\ today' = today /\ logins' = logins /\ evaluated' = evaluated /\ users' = users
  BY DEF Streaks!FireStreakBonus
<1>2. /\ f0 \in Member \X Streaks!Rules \X (0 .. StreakDays) /\ b = <<b[1], b[2]>>
      /\ f0[1] = b[1] /\ f0[2] = b[2] /\ f0[3] = today
  BY StreaksAssumption DEF StreaksInv, StreaksTyped
<1>. HIDE DEF f0
<1>3. StreaksTyped'
  BY <1>1, <1>2 DEF StreaksInv, StreaksTyped
<1>4. StreaksEarned'
  BY <1>1, <1>2 DEF StreaksInv, StreaksEarned
<1>5. evaluated = "running"
  BY DEF StreaksInv, StreaksServed
<1>6. StreaksOnce'
  <2>1. \A f \in fired' : f[3] <= today
    BY <1>1, <1>2 DEF StreaksInv, StreaksTyped, StreaksOnce
  <2>2. \A c \in queue' : f0[1] # c[1]
    BY <1>1, <1>2 DEF StreaksInv, StreaksOnce
  <2>3. \A g \in fired : g[3] = today => g[1] # f0[1]
    BY <1>2 DEF StreaksInv, StreaksOnce
  <2>. QED
    BY <1>1, <1>2, <1>5, <2>1, <2>2, <2>3 DEF StreaksInv, StreaksOnce
<1>7. StreaksServed'
  <2>. SUFFICES ASSUME NEW u \in Member, Streaks!InARow(users[u], today, Short)
                PROVE  \E rule \in Streaks!Rules : <<u, rule>> \in queue' \/ <<u, rule, today>> \in fired'
    BY <1>1, <1>5 DEF StreaksServed
  <2>1. PICK rule \in Streaks!Rules : <<u, rule>> \in queue \/ <<u, rule, today>> \in fired
    BY <1>5 DEF StreaksInv, StreaksServed
  <2>2. <<u, rule>> = b => <<u, rule, today>> = f0
    BY DEF f0
  <2>. QED
    BY <1>1, <2>1, <2>2
<1>. QED
  BY <1>3, <1>4, <1>6, <1>7 DEF StreaksInv

LEMMA StreaksFail ==
  ASSUME StreaksInv, NEW b \in queue, NEW applied \in BOOLEAN, Streaks!FireStreakBonusFails(b, applied)
  PROVE  StreaksInv'
<1>. DEFINE f0 == <<b[1], b[2], today>>
<1>1. /\ fired' = fired \/ fired' = fired \cup {f0}
      /\ queue' = {} /\ today' = today /\ logins' = logins /\ evaluated' = "failed" /\ users' = users
  BY DEF Streaks!FireStreakBonusFails
<1>2. /\ f0 \in Member \X Streaks!Rules \X (0 .. StreakDays) /\ b = <<b[1], b[2]>>
      /\ f0[1] = b[1] /\ f0[2] = b[2] /\ f0[3] = today
  BY StreaksAssumption DEF StreaksInv, StreaksTyped
<1>. HIDE DEF f0
<1>3. StreaksTyped'
  <2>1. queue' \subseteq Member \X Streaks!Rules
    BY <1>1, Zenon
  <2>. QED
    BY <1>1, <1>2, <2>1 DEF StreaksInv, StreaksTyped
<1>4. StreaksEarned'
  BY <1>1, <1>2 DEF StreaksInv, StreaksEarned
<1>5. StreaksOnce'
  <2>1. \A f \in fired' : f[3] <= today
    BY <1>1, <1>2 DEF StreaksInv, StreaksTyped, StreaksOnce
  <2>2. \A g \in fired : g[3] = today => g[1] # f0[1]
    BY <1>2 DEF StreaksInv, StreaksOnce
  <2>. QED
    BY <1>1, <1>2, <2>1, <2>2 DEF StreaksInv, StreaksOnce
<1>6. StreaksServed'
  BY <1>1 DEF StreaksServed
<1>. QED
  BY <1>3, <1>4, <1>5, <1>6 DEF StreaksInv

LEMMA StreaksMidnight ==
  ASSUME StreaksInv, Streaks!Midnight
  PROVE  StreaksInv'
<1>1. /\ today < StreakDays /\ today' = today + 1 /\ evaluated # "running" /\ evaluated' = "due"
      /\ users' = Streaks!Nobody /\ logins' = logins /\ queue' = queue /\ fired' = fired
  BY DEF Streaks!Midnight
<1>2. today \in Nat /\ StreakDays \in Nat /\ queue = {}
  BY <1>1, StreaksAssumption DEF StreaksInv, StreaksTyped, StreaksServed
<1>3. StreaksTyped'
  <2>1. users' \in [Member -> SUBSET (0 .. StreakDays)]
    BY <1>1 DEF Streaks!Nobody
  <2>2. \A u \in Member : logins[u] \subseteq 0 .. today'
    BY <1>1, <1>2 DEF StreaksInv, StreaksTyped
  <2>3. today' \in Nat /\ today' <= StreakDays
    BY <1>1, <1>2
  <2>. QED
    BY <1>1, <2>1, <2>2, <2>3 DEF StreaksInv, StreaksTyped
<1>4. StreaksEarned'
  BY <1>1, <1>2 DEF StreaksInv, StreaksEarned
<1>5. StreaksOnce'
  <2>1. \A f \in fired : f[3] \in Int /\ f[3] <= today
    BY DEF StreaksInv, StreaksTyped, StreaksOnce
  <2>2. \A f \in fired : f[3] <= today' /\ f[3] < today'
    BY <1>1, <1>2, <2>1
  <2>. QED
    BY <1>1, <1>2, <2>2 DEF StreaksInv, StreaksOnce
<1>6. StreaksServed'
  BY <1>1, <1>2 DEF StreaksServed
<1>. QED
  BY <1>3, <1>4, <1>5, <1>6 DEF StreaksInv

LEMMA StreaksInduction == StreaksInv /\ [Streaks!Next]_(Streaks!vars) => StreaksInv'
<1>. SUFFICES ASSUME StreaksInv, [Streaks!Next]_(Streaks!vars) PROVE StreaksInv'
  OBVIOUS
<1>1. CASE UNCHANGED Streaks!vars
  BY <1>1 DEF Streaks!vars, StreaksInv, StreaksTyped, StreaksEarned, StreaksOnce, StreaksServed
<1>2. CASE Streaks!RunEnds
  BY <1>2 DEF Streaks!RunEnds, StreaksInv, StreaksTyped, StreaksEarned, StreaksOnce, StreaksServed
<1>. QED
  BY <1>1, <1>2, StreaksLogin, StreaksRun, StreaksFire, StreaksFail, StreaksMidnight DEF Streaks!Next

(***************************************************************************)
(* No bonus of a run is unearned and no user has two of a day, and a run   *)
(* that has come to its end has forgotten nobody who had logged in up to   *)
(* its day, whichever runs before it failed half way                       *)
(* (streak-evaluator.ts).                                                  *)
(***************************************************************************)
THEOREM RewardsAreEarned == Streaks!Spec => []RewardIsEarned
<1>1. StreaksInv => Streaks!RewardIsEarned
  BY DEF StreaksInv, StreaksEarned, StreaksOnce, Earned, Streaks!RewardIsEarned
<1>2. StreaksInv => Streaks!NobodyIsForgotten
  <2>. SUFFICES ASSUME StreaksInv, evaluated = "done", NEW u \in Member, Streaks!InARow(users[u], today, Short)
                PROVE  \E rule \in Streaks!Rules : <<u, rule, today>> \in fired
    BY DEF Streaks!NobodyIsForgotten
  <2>. QED
    BY DEF StreaksInv, StreaksServed
<1>. QED
  BY StreaksStart, StreaksInduction, <1>1, <1>2, PTL DEF Streaks!Spec, RewardIsEarned
====
