---- MODULE WalletsProofs ----
(***************************************************************************)
(* Proofs about Wallets, for any number of users, requests, bonuses and    *)
(* deposits and any amounts: no wallet is overdrawn, nobody is paid out    *)
(* more than the tier allows, and no deposit is paid out before its time.  *)
(* All three rest on what a row without key means (Untouched).             *)
(***************************************************************************)
EXTENDS Wallets, SumsProofs, TLAPS

USE DEF Key, PC, Movement

LEMMA InitTyped == Init => TypeOK
<1>1. SomeUser \in User
  BY ConstantsAssumption DEF SomeUser
<1>2. Init => seen \in [User -> SUBSET Int] /\ bonus \in [Bonus -> {"none", "claimed", "reversed"}]
  BY DEF Init
<1>3. Init => balance \in [User -> Int] /\ lastKey \in [User -> Key] /\ withdrawn \in [User -> Nat]
  BY DEF Init
<1>4. Init => pc \in [Request -> PC] /\ amount \in [Request -> Nat] /\ credited \in [Deposit -> Nat]
  BY DEF Init
<1>5. Init => from \in [Request -> User] /\ to \in [Request -> User]
  BY <1>1 DEF Init
<1>6. Init => ledger = {} /\ rows = {} /\ unposted = {} /\ held = {} /\ payoutsPaused = FALSE
  BY DEF Init
<1>. QED
  BY <1>2, <1>3, <1>4, <1>5, <1>6 DEF TypeOK

(***************************************************************************)
(* What the two ways of changing balances do to the types of the table.    *)
(***************************************************************************)
LEMMA SetBalanceTyped ==
  ASSUME TypeOK, NEW u \in User, NEW b \in Int, SetBalance(u, b)
  PROVE  balance' \in [User -> Int] /\ seen' \in [User -> SUBSET Int]
<1>1. balance' \in [User -> Int]
  BY DEF TypeOK, SetBalance
<1>2. seen[u] \cup {b} \in SUBSET Int
  BY DEF TypeOK
<1>3. seen' \in [User -> SUBSET Int]
  BY <1>2 DEF TypeOK, SetBalance
<1>. QED
  BY <1>1, <1>3

LEMMA PayTyped ==
  ASSUME TypeOK, NEW r \in Request, Pay(r)
  PROVE  balance' \in [User -> Int] /\ seen' \in [User -> SUBSET Int]
<1>. DEFINE f == from[r]
            t == to[r]
<1>1. f \in User /\ t \in User /\ amount[r] \in Int
  BY DEF TypeOK
<1>2. balance[f] \in Int /\ balance[t] \in Int
  BY <1>1 DEF TypeOK
<1>3. balance[f] - amount[r] \in Int /\ balance[t] + amount[r] \in Int
  BY <1>1, <1>2
<1>4. balance' \in [User -> Int]
  BY <1>1, <1>3 DEF TypeOK, Pay
<1>5. seen' \in [User -> SUBSET Int]
  BY <1>1, <1>3 DEF TypeOK, Pay
<1>. QED
  BY <1>4, <1>5

LEMMA NextTyped == TypeOK /\ [Next]_vars => TypeOK'
<1>. SUFFICES ASSUME TypeOK, [Next]_vars PROVE TypeOK'
  OBVIOUS
<1>. USE DEF wallet, request, deposits
<1>0. /\ Amount \subseteq Nat
      /\ BonusAmt \in Nat /\ DepositAmt \in Nat
      /\ BonusOf \in [Bonus -> User] /\ DepositOf \in [Deposit -> User]
  BY ConstantsAssumption
<1>1. ASSUME NEW r \in Request, NEW u \in User, NEW a \in Amount, Withdraw(r, u, a)
      PROVE  TypeOK'
  BY <1>1, <1>0 DEF TypeOK, Withdraw, Ask
<1>2. ASSUME NEW r \in Request, NEW u \in User, NEW v \in User, NEW a \in Amount,
             AskTransfer(r, u, v, a)
      PROVE  TypeOK'
  BY <1>2, <1>0 DEF TypeOK, AskTransfer, Ask
<1>3. ASSUME NEW r \in Request, \/ CoolingOff(r) \/ CoolingOffRefused(r) \/ DebitRefused(r)
                                \/ TransferRefused(r) \/ Abort(r)
      PROVE  TypeOK'
  BY <1>3 DEF TypeOK, CoolingOff, CoolingOffRefused, DebitRefused, TransferRefused, Abort, Goto
<1>4. ASSUME NEW r \in Request, Debit(r) PROVE TypeOK'
  <2>1. balance[from[r]] - amount[r] \in Int /\ from[r] \in User
    BY DEF TypeOK
  <2>2. balance' \in [User -> Int] /\ seen' \in [User -> SUBSET Int]
    BY <1>4, <2>1, SetBalanceTyped DEF Debit
  <2>3. withdrawn' \in [User -> Nat]
    BY <1>4 DEF TypeOK, Debit
  <2>. QED
    BY <1>4, <2>1, <2>2, <2>3 DEF TypeOK, Debit, SetKey, Goto
<1>5. ASSUME NEW r \in Request, Transfer(r) PROVE TypeOK'
  <2>1. balance' \in [User -> Int] /\ seen' \in [User -> SUBSET Int]
    BY <1>5, PayTyped DEF Transfer
  <2>. QED
    BY <1>5, <2>1 DEF TypeOK, Transfer, SetKey, Goto
<1>6. ASSUME NEW r \in Request, PutOut(r) \/ PutIn(r) PROVE TypeOK'
  BY <1>6 DEF TypeOK, PutOut, PutIn, Goto
<1>7. ASSUME NEW b \in Bonus, BonusClaim(b) \/ ReverseBonus(b) PROVE TypeOK'
  <2>1. /\ BonusOf[b] \in User
        /\ balance[BonusOf[b]] + BonusAmt \in Int /\ balance[BonusOf[b]] - BonusAmt \in Int
    BY <1>0 DEF TypeOK
  <2>2. balance' \in [User -> Int] /\ seen' \in [User -> SUBSET Int]
    BY <1>7, <2>1, SetBalanceTyped DEF BonusClaim, ReverseBonus
  <2>. QED
    BY <1>7, <2>1, <2>2 DEF TypeOK, BonusClaim, ReverseBonus, SetKey
<1>8. ASSUME NEW d \in Deposit, CreditWallet(d) PROVE TypeOK'
  <2>1. DepositOf[d] \in User /\ balance[DepositOf[d]] + DepositAmt \in Int
    BY <1>0 DEF TypeOK
  <2>2. balance' \in [User -> Int] /\ seen' \in [User -> SUBSET Int]
    BY <1>8, <2>1, SetBalanceTyped DEF CreditWallet
  <2>3. lastKey' \in [User -> Key] /\ credited' \in [Deposit -> Nat]
    BY <1>8, <2>1 DEF TypeOK, CreditWallet, SetKey
  <2>. QED
    BY <1>8, <2>1, <2>2, <2>3 DEF TypeOK, CreditWallet
<1>9. ASSUME NEW d \in Deposit, AppendLedgerEntry(d) \/ FiveDaysPass(d) PROVE TypeOK'
  BY <1>9 DEF TypeOK, AppendLedgerEntry, FiveDaysPass
<1>10. ASSUME NEW enabled \in BOOLEAN, KillSwitch(enabled) PROVE TypeOK'
  BY <1>10 DEF TypeOK, KillSwitch
<1>11. CASE UNCHANGED vars
  BY <1>11 DEF TypeOK, vars
<1>. QED
  BY <1>1, <1>2, <1>3, <1>4, <1>5, <1>6, <1>7, <1>8, <1>9, <1>10, <1>11 DEF Next, Serve

----
(***************************************************************************)
(* The inductive invariant.  A row without key has only ever been credited:*)
(* what any read of it returned is still there, and nothing of it has been *)
(* paid out or is a deposit.  A withdrawal that passed its checks saw      *)
(* enough, and asks no more than its tier allows.                          *)
(***************************************************************************)
Untouched(u) ==
  lastKey[u] = "none" => withdrawn[u] = 0 /\ \A b \in seen[u] : b <= balance[u]

Checked(r) ==
  pc[r] \in {"query", "debit"} =>
    /\ amount[r] <= WithdrawLimit[Tier[from[r]]]
    /\ \E b \in seen[from[r]] : b >= amount[r]

Sound ==
  /\ \A u \in User : Untouched(u)
  /\ \A r \in Request : Checked(r)
  /\ \A d \in held : lastKey[DepositOf[d]] # "none"
  /\ NoOverdraft
  /\ WithinTierLimit

LEMMA InitSound == Init => Sound
<1>1. \A u \in User : WithdrawLimit[Tier[u]] >= 0
  BY ConstantsAssumption
<1>. QED
  BY <1>1 DEF Init, Sound, Untouched, Checked, NoOverdraft, WithinTierLimit

(***************************************************************************)
(* A step that leaves the table alone keeps Sound, if the requests it      *)
(* moves were checked before.                                              *)
(***************************************************************************)
LEMMA TableAlone ==
  ASSUME Sound, UNCHANGED <<wallet, withdrawn, request>>, held' \subseteq held,
         \A r \in Request : pc'[r] \in {"query", "debit"} => pc[r] \in {"query", "debit"}
  PROVE  Sound'
BY DEF Sound, Untouched, Checked, NoOverdraft, WithinTierLimit, wallet, request

(***************************************************************************)
(* Credits: a row gets more, and no request is moved.                      *)
(***************************************************************************)
LEMMA CreditKeeps ==
  ASSUME TypeOK, Sound, NEW u \in User, NEW a \in Nat, SetBalance(u, balance[u] + a),
         lastKey' = lastKey \/ \E k \in Key \ {"none"} : SetKey(u, k),
         UNCHANGED <<pc, request, withdrawn>>,
         \A d \in held' \ held : DepositOf[d] = u /\ lastKey'[u] # "none"
  PROVE  Sound'
<1>1. balance[u] \in Int /\ balance[u] + a \in Int
  BY DEF TypeOK
<1>2. ASSUME NEW v \in User PROVE Untouched(v)'
  <2>1. CASE v = u
    BY <2>1, <1>1 DEF Sound, TypeOK, Untouched, SetBalance, SetKey
  <2>2. CASE v # u
    BY <2>2 DEF Sound, TypeOK, Untouched, SetBalance, SetKey
  <2>. QED
    BY <2>1, <2>2
<1>3. \A v \in User : seen[v] \subseteq seen'[v]
  BY DEF TypeOK, SetBalance
<1>4. \A r \in Request : Checked(r)'
  BY <1>3 DEF Sound, TypeOK, Checked, request
<1>5. \A v \in User : lastKey[v] # "none" => lastKey'[v] # "none"
  BY DEF TypeOK, SetKey
<1>6. \A d \in held' : lastKey'[DepositOf[d]] # "none"
  <2>. SUFFICES ASSUME NEW d \in held' PROVE lastKey'[DepositOf[d]] # "none"
    OBVIOUS
  <2>1. CASE d \in held
    <3>1. lastKey[DepositOf[d]] # "none" /\ DepositOf[d] \in User
      BY <2>1, ConstantsAssumption DEF Sound, TypeOK
    <3>. QED
      BY <3>1, <1>5
  <2>2. CASE d \notin held
    BY <2>2
  <2>. QED
    BY <2>1, <2>2
<1>7. NoOverdraft' /\ WithinTierLimit'
  BY <1>1 DEF Sound, TypeOK, NoOverdraft, WithinTierLimit, SetBalance
<1>. QED
  BY <1>2, <1>4, <1>6, <1>7 DEF Sound

(***************************************************************************)
(* Debits that leave a key and whatever they leave in the rows.            *)
(***************************************************************************)
LEMMA DebitKeeps ==
  ASSUME TypeOK, Sound, NEW u \in User, SetKey(u, "other"),
         \A v \in User : balance'[v] >= balance[v] \/ (v = u /\ balance'[v] >= 0),
         \A v \in User, b \in Int :
           b \in seen'[v] => b \in seen[v] \/ b = balance'[v] \/ v = u,
         \A v \in User : seen[v] \subseteq seen'[v],
         balance' \in [User -> Int], seen' \in [User -> SUBSET Int],
         \A v \in User : withdrawn'[v] = withdrawn[v] \/ v = u,
         WithinTierLimit',
         UNCHANGED <<request, held>>,
         \A r \in Request : pc'[r] \in {"query", "debit"} => pc[r] \in {"query", "debit"}
  PROVE  Sound'
<1>1. ASSUME NEW v \in User PROVE Untouched(v)'
  <2>1. CASE v = u
    BY <2>1 DEF TypeOK, Untouched, SetKey
  <2>2. CASE v # u
    <3>1. lastKey'[v] = lastKey[v] /\ withdrawn'[v] = withdrawn[v] /\ balance'[v] >= balance[v]
      BY <2>2 DEF TypeOK, SetKey
    <3>2. \A b \in seen'[v] : b \in Int /\ (b \in seen[v] \/ b = balance'[v])
      BY <2>2
    <3>3. balance[v] \in Int /\ balance'[v] \in Int
      BY DEF TypeOK
    <3>4. Untouched(v)
      BY DEF Sound
    <3>5. lastKey'[v] = "none" => \A b \in seen'[v] : b <= balance'[v]
      <4>. SUFFICES ASSUME lastKey'[v] = "none", NEW b \in seen'[v] PROVE b <= balance'[v]
        OBVIOUS
      <4>1. b \in seen[v] => b <= balance[v]
        BY <3>1, <3>4 DEF Untouched
      <4>. QED
        BY <4>1, <3>1, <3>2, <3>3
    <3>. QED
      BY <3>1, <3>4, <3>5 DEF Untouched
  <2>. QED
    BY <2>1, <2>2
<1>2. \A r \in Request : Checked(r)'
  BY DEF Sound, TypeOK, Checked, request
<1>3. \A d \in held' : lastKey'[DepositOf[d]] # "none"
  BY ConstantsAssumption DEF Sound, TypeOK, SetKey
<1>4. \A v \in User : balance'[v] >= 0
  BY DEF Sound, TypeOK, NoOverdraft
<1>. QED
  BY <1>1, <1>2, <1>3, <1>4 DEF Sound, NoOverdraft

(***************************************************************************)
(* The debit of a withdrawal: the row has no key, so what the withdrawal   *)
(* saw is still there, and it is the first of its wallet.                  *)
(***************************************************************************)
LEMMA DebitIsCovered ==
  ASSUME TypeOK, Sound, NEW r \in Request, Debit(r)
  PROVE  /\ balance[from[r]] >= amount[r]
         /\ withdrawn[from[r]] + amount[r] <= WithdrawLimit[Tier[from[r]]]
         /\ \A d \in held : DepositOf[d] # from[r]
<1>1. from[r] \in User /\ amount[r] \in Nat /\ balance[from[r]] \in Int
  BY DEF TypeOK
<1>2. Untouched(from[r]) /\ Checked(r) /\ lastKey[from[r]] = "none" /\ pc[r] = "debit"
  BY <1>1 DEF Sound, Debit
<1>3. PICK b \in seen[from[r]] : b >= amount[r]
  BY <1>2 DEF Checked
<1>4. b \in Int /\ b <= balance[from[r]]
  BY <1>1, <1>2 DEF Untouched, TypeOK
<1>5. WithdrawLimit[Tier[from[r]]] \in Nat /\ withdrawn[from[r]] = 0
  BY <1>1, <1>2, ConstantsAssumption DEF Untouched
<1>. QED
  BY <1>1, <1>2, <1>3, <1>4, <1>5 DEF Checked, Sound

LEMMA NextSound == TypeOK /\ Sound /\ [Next]_vars => Sound'
<1>. SUFFICES ASSUME TypeOK, Sound, [Next]_vars PROVE Sound'
  OBVIOUS
<1>. USE DEF request, deposits
<1>1. ASSUME NEW r \in Request, NEW u \in User, NEW a \in Amount, Withdraw(r, u, a)
      PROVE  Sound'
  <2>1. Checked(r)'
    BY <1>1 DEF TypeOK, Withdraw, Ask, Checked, wallet
  <2>2. \A q \in Request \ {r} : Checked(q)'
    BY <1>1 DEF TypeOK, Sound, Withdraw, Ask, Checked, wallet
  <2>3. \A v \in User : Untouched(v)'
    BY <1>1 DEF Sound, Withdraw, Untouched, wallet
  <2>. QED
    BY <1>1, <2>1, <2>2, <2>3 DEF Sound, Withdraw, NoOverdraft, WithinTierLimit, wallet
<1>2. ASSUME NEW r \in Request, NEW u \in User, NEW v \in User, NEW a \in Amount,
             AskTransfer(r, u, v, a)
      PROVE  Sound'
  <2>1. \A q \in Request : Checked(q)'
    BY <1>2 DEF TypeOK, Sound, AskTransfer, Ask, Checked, wallet
  <2>2. \A w \in User : Untouched(w)'
    BY <1>2 DEF Sound, AskTransfer, Untouched, wallet
  <2>. QED
    BY <1>2, <2>1, <2>2 DEF Sound, AskTransfer, NoOverdraft, WithinTierLimit, wallet
<1>3. ASSUME NEW r \in Request,
             \/ CoolingOff(r) \/ CoolingOffRefused(r) \/ DebitRefused(r) \/ TransferRefused(r)
             \/ PutOut(r) \/ PutIn(r) \/ Abort(r)
      PROVE  Sound'
  BY <1>3, TableAlone
  DEF TypeOK, CoolingOff, CoolingOffRefused, DebitRefused, TransferRefused, PutOut, PutIn,
      Abort, Goto
<1>4. ASSUME NEW r \in Request, Debit(r) PROVE Sound'
  <2>. DEFINE u == from[r]
  <2>1. u \in User /\ amount[r] \in Nat /\ balance[u] \in Int
    BY DEF TypeOK
  <2>2. balance[u] >= amount[r] /\ withdrawn[u] + amount[r] <= WithdrawLimit[Tier[u]]
    BY <1>4, DebitIsCovered
  <2>3. balance' = [balance EXCEPT ![u] = balance[u] - amount[r]]
    BY <1>4 DEF Debit, SetBalance
  <2>4. seen' = [seen EXCEPT ![u] = @ \cup {balance[u] - amount[r]}]
    BY <1>4 DEF Debit, SetBalance
  <2>5. withdrawn' = [withdrawn EXCEPT ![u] = withdrawn[u] + amount[r]]
    BY <1>4 DEF Debit
  <2>6. balance' \in [User -> Int] /\ seen' \in [User -> SUBSET Int]
    BY <1>4, <2>1, SetBalanceTyped DEF Debit
  <2>7. \A v \in User : balance'[v] >= balance[v] \/ (v = u /\ balance'[v] >= 0)
    BY <2>1, <2>2, <2>3 DEF TypeOK
  <2>8. \A v \in User : seen[v] \subseteq seen'[v] /\ (v # u => seen'[v] = seen[v])
    BY <2>4 DEF TypeOK
  <2>9. WithinTierLimit'
    BY <2>1, <2>2, <2>5 DEF Sound, TypeOK, WithinTierLimit
  <2>10. \A v \in User : withdrawn'[v] = withdrawn[v] \/ v = u
    BY <2>5 DEF TypeOK
  <2>11. \A q \in Request : pc'[q] \in {"query", "debit"} => pc[q] \in {"query", "debit"}
    BY <1>4 DEF TypeOK, Debit, Goto
  <2>. QED
    BY <1>4, <2>1, <2>6, <2>7, <2>8, <2>9, <2>10, <2>11, DebitKeeps DEF Debit
<1>5. ASSUME NEW r \in Request, Transfer(r) PROVE Sound'
  <2>. DEFINE u == from[r]
              t == to[r]
  <2>1. u \in User /\ t \in User /\ amount[r] \in Nat
    BY DEF TypeOK
  <2>2. balance[u] \in Int /\ balance[t] \in Int /\ balance[u] >= amount[r]
    BY <1>5, <2>1 DEF TypeOK, Transfer
  <2>3. balance' = [balance EXCEPT ![u] = @ - amount[r], ![t] = @ + amount[r]]
    BY <1>5 DEF Transfer, Pay
  <2>4. seen' = [seen EXCEPT ![u] = @ \cup {balance[u] - amount[r]},
                             ![t] = @ \cup {balance[t] + amount[r]}]
    BY <1>5 DEF Transfer, Pay
  <2>5. balance' \in [User -> Int] /\ seen' \in [User -> SUBSET Int]
    BY <1>5, PayTyped DEF Transfer
  <2>6. \A v \in User : balance'[v] >= balance[v] \/ (v = u /\ balance'[v] >= 0)
    BY <2>1, <2>2, <2>3 DEF TypeOK
  <2>7. t # u => balance'[t] = balance[t] + amount[r]
    BY <2>1, <2>3 DEF TypeOK
  <2>8. \A v \in User : seen[v] \subseteq seen'[v]
    BY <2>1, <2>4 DEF TypeOK
  <2>9. \A v \in User, b \in Int :
          b \in seen'[v] => b \in seen[v] \/ b = balance'[v] \/ v = u
    BY <2>1, <2>4, <2>7 DEF TypeOK
  <2>10. withdrawn' = withdrawn /\ WithinTierLimit'
    BY <1>5 DEF Sound, Transfer, WithinTierLimit
  <2>11. \A q \in Request : pc'[q] \in {"query", "debit"} => pc[q] \in {"query", "debit"}
    BY <1>5 DEF TypeOK, Transfer, Goto
  <2>. QED
    BY <1>5, <2>1, <2>5, <2>6, <2>8, <2>9, <2>10, <2>11, DebitKeeps DEF Transfer
<1>6. ASSUME NEW b \in Bonus, BonusClaim(b) PROVE Sound'
  BY <1>6, CreditKeeps, ConstantsAssumption DEF BonusClaim
<1>7. ASSUME NEW b \in Bonus, ReverseBonus(b) PROVE Sound'
  <2>. DEFINE u == BonusOf[b]
  <2>1. u \in User /\ BonusAmt \in Nat
    BY ConstantsAssumption
  <2>2. balance[u] \in Int /\ balance[u] >= BonusAmt /\ balance[u] - BonusAmt \in Int
    BY <1>7, <2>1 DEF TypeOK, ReverseBonus
  <2>3. balance' \in [User -> Int] /\ seen' \in [User -> SUBSET Int]
    BY <1>7, <2>1, <2>2, SetBalanceTyped DEF ReverseBonus
  <2>4. \A v \in User : balance'[v] >= balance[v] \/ (v = u /\ balance'[v] >= 0)
    BY <1>7, <2>1, <2>2 DEF TypeOK, ReverseBonus, SetBalance
  <2>5. \A v \in User : seen[v] \subseteq seen'[v] /\ (v # u => seen'[v] = seen[v])
    BY <1>7 DEF TypeOK, ReverseBonus, SetBalance
  <2>6. withdrawn' = withdrawn /\ WithinTierLimit'
    BY <1>7 DEF Sound, ReverseBonus, WithinTierLimit
  <2>. QED
    BY <1>7, <2>1, <2>3, <2>4, <2>5, <2>6, DebitKeeps DEF ReverseBonus
<1>8. ASSUME NEW d \in Deposit, CreditWallet(d) PROVE Sound'
  <2>1. DepositOf[d] \in User /\ DepositAmt \in Nat /\ d \in Key \ {"none"}
    BY ConstantsAssumption
  <2>2. lastKey'[DepositOf[d]] # "none"
    BY <1>8, <2>1 DEF TypeOK, CreditWallet, SetKey
  <2>. QED
    BY <1>8, <2>1, <2>2, CreditKeeps DEF CreditWallet
<1>9. ASSUME NEW d \in Deposit, AppendLedgerEntry(d) \/ FiveDaysPass(d) PROVE Sound'
  BY <1>9, TableAlone DEF AppendLedgerEntry, FiveDaysPass
<1>10. ASSUME NEW enabled \in BOOLEAN, KillSwitch(enabled) PROVE Sound'
  BY <1>10, TableAlone DEF KillSwitch
<1>11. CASE UNCHANGED vars
  BY <1>11, TableAlone DEF vars
<1>. QED
  BY <1>1, <1>2, <1>3, <1>4, <1>5, <1>6, <1>7, <1>8, <1>9, <1>10, <1>11 DEF Next, Serve

----
(***************************************************************************)
(* Type correctness, for every value of the constants.                     *)
(***************************************************************************)
THEOREM TypeCorrect == Spec => []TypeOK
BY InitTyped, NextTyped, PTL DEF Spec

(***************************************************************************)
(* No wallet is ever overdrawn, however many withdrawals, transfers and    *)
(* reversals race, and however old the balances they read.                 *)
(***************************************************************************)
THEOREM WalletsAreSolvent == Spec => []NoOverdraft
<1>1. Sound => NoOverdraft
  BY DEF Sound
<1>. QED
  BY <1>1, InitTyped, NextTyped, InitSound, NextSound, PTL DEF Spec

(***************************************************************************)
(* Nobody is ever paid out more than the limit of the tier, though no      *)
(* counter of what has been paid out is written: a wallet pays out once.   *)
(***************************************************************************)
THEOREM LimitsHold == Spec => []WithinTierLimit
<1>1. Sound => WithinTierLimit
  BY DEF Sound
<1>. QED
  BY <1>1, InitTyped, NextTyped, InitSound, NextSound, PTL DEF Spec

(***************************************************************************)
(* No step pays out of a wallet that holds a deposit younger than five     *)
(* days.                                                                   *)
(***************************************************************************)
THEOREM DepositsCoolOff == Spec => CoolingOffKept
<1>. DEFINE Kept == \A d \in held : withdrawn'[DepositOf[d]] = withdrawn[DepositOf[d]]
<1>1. TypeOK /\ Sound /\ [Next]_vars => [Kept]_vars
  <2>. SUFFICES ASSUME TypeOK, Sound, Next PROVE Kept
    BY DEF Kept
  <2>1. ASSUME NEW r \in Request, Debit(r) PROVE Kept
    <3>1. withdrawn' = [withdrawn EXCEPT ![from[r]] = @ + amount[r]]
      BY <2>1 DEF Debit
    <3>2. \A d \in held : DepositOf[d] # from[r] /\ DepositOf[d] \in User
      BY <2>1, DebitIsCovered, ConstantsAssumption DEF TypeOK
    <3>. QED
      BY <3>1, <3>2 DEF TypeOK
  <2>2. CASE \A r \in Request : ~ Debit(r)
    <3>1. withdrawn' = withdrawn
      BY <2>2
      DEF Next, Serve, Withdraw, CoolingOff, CoolingOffRefused, DebitRefused, AskTransfer,
          Transfer, TransferRefused, PutOut, PutIn, Abort, BonusClaim, ReverseBonus,
          CreditWallet, AppendLedgerEntry, FiveDaysPass, KillSwitch
    <3>. QED
      BY <3>1
  <2>. QED
    BY <2>1, <2>2
<1>. QED
  BY <1>1, InitTyped, NextTyped, InitSound, NextSound, PTL DEF Spec, CoolingOffKept

----
(***************************************************************************)
(* The money.  A step that changes one row changes the sum of the balances *)
(* by as much; a transfer, whose two rows differ, changes it by nothing.   *)
(***************************************************************************)
LEMMA OneRow ==
  ASSUME TypeOK, NEW u \in User, NEW b \in Int, SetBalance(u, b)
  PROVE  SumOf(balance', User) = SumOf(balance, User) + (b - balance[u])
<1>1. balance' = [balance EXCEPT ![u] = b] /\ balance \in [User -> Int] /\ IsFiniteSet(User)
  BY ConstantsAssumption DEF SetBalance, TypeOK
<1>. QED
  BY <1>1, SumOfExcept

LEMMA TwoRows ==
  ASSUME TypeOK, NEW r \in Request, from[r] # to[r], Pay(r)
  PROVE  SumOf(balance', User) = SumOf(balance, User)
<1>. DEFINE f == from[r]
            t == to[r]
            less == balance[f] - amount[r]
            more == balance[t] + amount[r]
            half == [balance EXCEPT ![f] = less]
<1>1. f \in User /\ t \in User /\ amount[r] \in Int /\ balance \in [User -> Int]
  BY DEF TypeOK
<1>2. balance[f] \in Int /\ balance[t] \in Int /\ IsFiniteSet(User)
  BY <1>1, ConstantsAssumption
<1>3. less \in Int /\ more \in Int /\ less - balance[f] = balance[t] - more
  BY <1>1, <1>2
<1>4. half \in [User -> Int] /\ half[t] = balance[t]
  BY <1>1, <1>2
<1>5. balance' = [half EXCEPT ![t] = more]
  BY <1>1, <1>2 DEF Pay
<1>. HIDE DEF less, more
<1>6. SumOf(half, User) = SumOf(balance, User) + (less - balance[f])
  BY <1>1, <1>2, <1>3, SumOfExcept
<1>. HIDE DEF half
<1>7. SumOf(balance', User) = SumOf(half, User) + (more - half[t])
  BY <1>1, <1>2, <1>3, <1>4, <1>5, SumOfExcept
<1>8. SumOf(balance, User) \in Int
  BY <1>1, <1>2, SumOfType
<1>. QED
  BY <1>2, <1>3, <1>4, <1>6, <1>7, <1>8

(* Every amount the equation is about is an integer. *)
LEMMA SumsTyped ==
  ASSUME TypeOK
  PROVE  /\ SumOf(balance, User) \in Int /\ SumOf(withdrawn, User) \in Int
         /\ SumOf(credited, Deposit) \in Int
         /\ IsFiniteSet(Claimed) /\ Cardinality(Claimed) \in Int
         /\ BonusAmt \in Int /\ DepositAmt \in Int
<1>1. IsFiniteSet(User) /\ IsFiniteSet(Bonus) /\ IsFiniteSet(Deposit)
  BY ConstantsAssumption
<1>2. SumOf(balance, User) \in Int
  <2>1. \A u \in User : balance[u] \in Int
    BY DEF TypeOK
  <2>. QED
    BY <1>1, <2>1, SumOfType
<1>3. SumOf(withdrawn, User) \in Int
  <2>1. \A u \in User : withdrawn[u] \in Int
    BY DEF TypeOK
  <2>. QED
    BY <1>1, <2>1, SumOfType
<1>4. SumOf(credited, Deposit) \in Int
  <2>1. \A d \in Deposit : credited[d] \in Int
    BY DEF TypeOK
  <2>. QED
    BY <1>1, <2>1, SumOfType
<1>5. IsFiniteSet(Claimed) /\ Cardinality(Claimed) \in Nat
  BY <1>1, FS_Subset, FS_CardinalityType DEF Claimed
<1>. QED
  BY <1>2, <1>3, <1>4, <1>5, ConstantsAssumption

(* A transfer that is under way is between two users. *)
Distinct == \A r \in Request : pc[r] = "transfer" => from[r] # to[r]

LEMMA InitMoney == Init => MoneyConserved /\ Distinct
<1>. SUFFICES ASSUME Init PROVE MoneyConserved /\ Distinct
  OBVIOUS
<1>1. /\ \A u \in User : balance[u] = 0 /\ withdrawn[u] = 0
      /\ \A d \in Deposit : credited[d] = 0
      /\ Claimed = {}
  BY DEF Init, Claimed
<1>2. IsFiniteSet(User) /\ IsFiniteSet(Deposit) /\ BonusAmt \in Int /\ DepositAmt \in Int
  BY ConstantsAssumption
<1>3. SumOf(balance, User) = 0 /\ SumOf(withdrawn, User) = 0 /\ SumOf(credited, Deposit) = 0
  BY <1>1, <1>2, SumOfZeros
<1>4. Cardinality(Claimed) = 0
  BY <1>1, FS_EmptySet
<1>5. MoneyConserved
  BY <1>2, <1>3, <1>4 DEF MoneyConserved
<1>. QED
  BY <1>5 DEF Init, Distinct

LEMMA NextMoney ==
  TypeOK /\ MoneyConserved /\ Distinct /\ [Next]_vars => MoneyConserved' /\ Distinct'
<1>. SUFFICES ASSUME TypeOK, MoneyConserved, Distinct, [Next]_vars
              PROVE  MoneyConserved' /\ Distinct'
  OBVIOUS
<1>. USE DEF wallet, request, deposits
<1>. DEFINE Lost == SumOf(withdrawn, User)
            Got == SumOf(credited, Deposit)
<1>0. /\ SumOf(balance, User) \in Int /\ Lost \in Int /\ Got \in Int
      /\ IsFiniteSet(Claimed) /\ Cardinality(Claimed) \in Int
      /\ BonusAmt \in Int /\ DepositAmt \in Int
      /\ SumOf(balance, User) + Lost = BonusAmt * Cardinality(Claimed) + DepositAmt * Got
  BY SumsTyped DEF MoneyConserved
<1>1. ASSUME NEW r \in Request,
             \/ \E u \in User, a \in Amount : Withdraw(r, u, a)
             \/ \E u, v \in User, a \in Amount : AskTransfer(r, u, v, a)
             \/ CoolingOff(r) \/ CoolingOffRefused(r) \/ DebitRefused(r) \/ TransferRefused(r)
             \/ PutOut(r) \/ PutIn(r) \/ Abort(r)
      PROVE  MoneyConserved' /\ Distinct'
  <2>1. UNCHANGED <<balance, withdrawn, bonus, credited>>
    BY <1>1 DEF Withdraw, AskTransfer, CoolingOff, CoolingOffRefused, DebitRefused,
                TransferRefused, PutOut, PutIn, Abort
  <2>2. MoneyConserved'
    BY <2>1 DEF MoneyConserved, Claimed
  <2>3. Distinct'
    BY <1>1 DEF TypeOK, Distinct, Withdraw, AskTransfer, Ask, CoolingOff, CoolingOffRefused,
                DebitRefused, TransferRefused, PutOut, PutIn, Abort, Goto
  <2>. QED
    BY <2>2, <2>3
<1>2. ASSUME NEW r \in Request, Debit(r) PROVE MoneyConserved' /\ Distinct'
  <2>. DEFINE u == from[r]
              paid == withdrawn[u] + amount[r]
  <2>1. /\ u \in User /\ amount[r] \in Nat /\ balance[u] \in Int
        /\ withdrawn[u] \in Int /\ paid \in Int
    BY DEF TypeOK
  <2>2. SumOf(balance', User) = SumOf(balance, User) + ((balance[u] - amount[r]) - balance[u])
    BY <1>2, <2>1, OneRow DEF Debit
  <2>3. /\ withdrawn' = [withdrawn EXCEPT ![u] = paid]
        /\ withdrawn \in [User -> Int] /\ IsFiniteSet(User)
    BY <1>2, ConstantsAssumption DEF Debit, TypeOK
  <2>4. SumOf(withdrawn', User) = Lost + (paid - withdrawn[u])
    <3>. HIDE DEF paid
    <3>. QED
      BY <2>1, <2>3, SumOfExcept
  <2>5. UNCHANGED <<bonus, credited>>
    BY <1>2 DEF Debit
  <2>6. MoneyConserved'
    BY <1>0, <2>1, <2>2, <2>4, <2>5 DEF MoneyConserved, Claimed
  <2>. QED
    BY <1>2, <2>6 DEF TypeOK, Distinct, Debit, Goto
<1>3. ASSUME NEW r \in Request, Transfer(r) PROVE MoneyConserved' /\ Distinct'
  <2>1. SumOf(balance', User) = SumOf(balance, User)
    BY <1>3, TwoRows DEF Transfer, Distinct
  <2>2. UNCHANGED <<withdrawn, bonus, credited>>
    BY <1>3 DEF Transfer
  <2>3. MoneyConserved'
    BY <2>1, <2>2 DEF MoneyConserved, Claimed
  <2>. QED
    BY <1>3, <2>3 DEF TypeOK, Distinct, Transfer, Goto
<1>4. ASSUME NEW b \in Bonus, BonusClaim(b) PROVE MoneyConserved' /\ Distinct'
  <2>. DEFINE u == BonusOf[b]
  <2>1. u \in User /\ balance[u] \in Int
    BY ConstantsAssumption DEF TypeOK
  <2>2. SumOf(balance', User) = SumOf(balance, User) + ((balance[u] + BonusAmt) - balance[u])
    BY <1>0, <1>4, <2>1, OneRow DEF BonusClaim
  <2>3. Claimed' = Claimed \cup {b} /\ b \notin Claimed
    BY <1>4 DEF TypeOK, BonusClaim, Claimed
  <2>4. Cardinality(Claimed') = Cardinality(Claimed) + 1
    BY <1>0, <2>3, FS_AddElement
  <2>5. UNCHANGED <<withdrawn, credited, pc, request>>
    BY <1>4 DEF BonusClaim
  <2>6. MoneyConserved'
    BY <1>0, <2>1, <2>2, <2>4, <2>5 DEF MoneyConserved
  <2>. QED
    BY <2>5, <2>6 DEF Distinct
<1>5. ASSUME NEW b \in Bonus, ReverseBonus(b) PROVE MoneyConserved' /\ Distinct'
  <2>. DEFINE u == BonusOf[b]
  <2>1. u \in User /\ balance[u] \in Int
    BY ConstantsAssumption DEF TypeOK
  <2>2. SumOf(balance', User) = SumOf(balance, User) + ((balance[u] - BonusAmt) - balance[u])
    BY <1>0, <1>5, <2>1, OneRow DEF ReverseBonus
  <2>3. Claimed' = Claimed \ {b} /\ b \in Claimed
    BY <1>5 DEF TypeOK, ReverseBonus, Claimed
  <2>4. Cardinality(Claimed') = Cardinality(Claimed) - 1
    BY <1>0, <2>3, FS_RemoveElement
  <2>5. UNCHANGED <<withdrawn, credited, pc, request>>
    BY <1>5 DEF ReverseBonus
  <2>6. MoneyConserved'
    BY <1>0, <2>1, <2>2, <2>4, <2>5 DEF MoneyConserved
  <2>. QED
    BY <2>5, <2>6 DEF Distinct
<1>6. ASSUME NEW d \in Deposit, CreditWallet(d) PROVE MoneyConserved' /\ Distinct'
  <2>. DEFINE u == DepositOf[d]
              times == credited[d] + 1
  <2>1. u \in User /\ balance[u] \in Int /\ credited[d] \in Int /\ times \in Int
    BY ConstantsAssumption DEF TypeOK
  <2>2. SumOf(balance', User) = SumOf(balance, User) + ((balance[u] + DepositAmt) - balance[u])
    BY <1>0, <1>6, <2>1, OneRow DEF CreditWallet
  <2>3. /\ credited' = [credited EXCEPT ![d] = times]
        /\ credited \in [Deposit -> Int] /\ IsFiniteSet(Deposit)
    BY <1>6, ConstantsAssumption DEF CreditWallet, TypeOK
  <2>4. SumOf(credited', Deposit) = Got + (times - credited[d])
    <3>. HIDE DEF times
    <3>. QED
      BY <2>1, <2>3, SumOfExcept
  <2>5. UNCHANGED <<withdrawn, bonus, pc, request>>
    BY <1>6 DEF CreditWallet
  <2>6. Claimed' = Claimed
    BY <2>5 DEF Claimed
  <2>7. MoneyConserved'
    BY <1>0, <2>1, <2>2, <2>4, <2>5, <2>6 DEF MoneyConserved
  <2>. QED
    BY <2>5, <2>7 DEF Distinct
<1>7. ASSUME \/ \E d \in Deposit : AppendLedgerEntry(d) \/ FiveDaysPass(d)
             \/ \E enabled \in BOOLEAN : KillSwitch(enabled)
             \/ UNCHANGED vars
      PROVE  MoneyConserved' /\ Distinct'
  <2>1. UNCHANGED <<balance, withdrawn, bonus, credited, pc, request>>
    BY <1>7 DEF AppendLedgerEntry, FiveDaysPass, KillSwitch, vars
  <2>. QED
    BY <2>1 DEF MoneyConserved, Claimed, Distinct
<1>. QED
  BY <1>1, <1>2, <1>3, <1>4, <1>5, <1>6, <1>7 DEF Next, Serve

(***************************************************************************)
(* The wallets together hold what came in and has not been paid out: no    *)
(* race between requests and no request that dies makes or loses money.    *)
(***************************************************************************)
THEOREM MoneyIsConserved == Spec => []MoneyConserved
BY InitTyped, NextTyped, InitMoney, NextMoney, PTL DEF Spec

----
(***************************************************************************)
(* The entries of a transfer: none before its money has moved, the debit's *)
(* before the credit's.                                                    *)
(***************************************************************************)
Unposted(r) == <<r, "TRANSFER_OUT">> \notin ledger /\ <<r, "TRANSFER_IN">> \notin ledger

Posted(r) ==
  /\ pc[r] \notin {"put_in", "completed", "dead"} => Unposted(r)
  /\ pc[r] = "put_in" => <<r, "TRANSFER_OUT">> \in ledger
  /\ <<r, "TRANSFER_IN">> \in ledger => <<r, "TRANSFER_OUT">> \in ledger

LEMMA NextPosted ==
  TypeOK /\ (\A r \in Request : Posted(r)) /\ [Next]_vars => \A r \in Request : Posted(r)'
<1>. SUFFICES ASSUME TypeOK, \A r \in Request : Posted(r), [Next]_vars, NEW q \in Request
              PROVE  Posted(q)'
  OBVIOUS
<1>. USE DEF wallet, request, deposits, Posted, Unposted
<1>1. ASSUME NEW r \in Request,
             \/ \E u \in User, a \in Amount : Withdraw(r, u, a)
             \/ \E u, v \in User, a \in Amount : AskTransfer(r, u, v, a)
      PROVE  Posted(q)'
  BY <1>1 DEF TypeOK, Withdraw, AskTransfer, Ask
<1>2. ASSUME NEW r \in Request,
             \/ CoolingOff(r) \/ CoolingOffRefused(r) \/ Debit(r) \/ DebitRefused(r)
             \/ Transfer(r) \/ TransferRefused(r) \/ Abort(r)
      PROVE  Posted(q)'
  BY <1>2 DEF TypeOK, CoolingOff, CoolingOffRefused, Debit, DebitRefused, Transfer,
              TransferRefused, Abort, Goto
<1>3. ASSUME NEW r \in Request, PutOut(r) \/ PutIn(r) PROVE Posted(q)'
  <2>1. CASE q = r
    BY <1>3, <2>1 DEF TypeOK, PutOut, PutIn, Goto
  <2>2. CASE q # r
    <3>1. pc'[q] = pc[q]
      BY <1>3, <2>2 DEF TypeOK, PutOut, PutIn, Goto
    <3>2. \A m \in Movement : <<q, m>> \in ledger' <=> <<q, m>> \in ledger
      BY <1>3, <2>2 DEF PutOut, PutIn
    <3>. QED
      BY <3>1, <3>2
  <2>. QED
    BY <2>1, <2>2
<1>4. ASSUME \/ \E b \in Bonus : BonusClaim(b) \/ ReverseBonus(b)
             \/ \E d \in Deposit : CreditWallet(d) \/ FiveDaysPass(d)
             \/ \E enabled \in BOOLEAN : KillSwitch(enabled)
             \/ UNCHANGED vars
      PROVE  Posted(q)'
  <2>1. UNCHANGED <<ledger, pc>>
    BY <1>4 DEF BonusClaim, ReverseBonus, CreditWallet, FiveDaysPass, KillSwitch, vars
  <2>. QED
    BY <2>1
<1>5. ASSUME NEW d \in Deposit, AppendLedgerEntry(d) PROVE Posted(q)'
  BY <1>5 DEF AppendLedgerEntry
<1>. QED
  BY <1>1, <1>2, <1>3, <1>4, <1>5 DEF Next, Serve

(***************************************************************************)
(* The ledger shows no credit of a transfer without its debit, nor either  *)
(* of a transfer that moved no money, wherever a request dies.             *)
(***************************************************************************)
THEOREM LedgerIsTrue == Spec => []LedgerTellsTruth
<1>. DEFINE Inv == \A r \in Request : Posted(r)
<1>1. Init => Inv
  BY DEF Init, Posted, Unposted
<1>2. TypeOK /\ Inv /\ [Next]_vars => Inv'
  BY NextPosted
<1>3. Inv => LedgerTellsTruth
  BY DEF LedgerTellsTruth, Posted, Unposted
<1>. HIDE DEF Inv
<1>. QED
  BY <1>1, <1>2, <1>3, InitTyped, NextTyped, PTL DEF Spec
====
