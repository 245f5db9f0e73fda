---- MODULE BonusesProofs ----
(***************************************************************************)
(* Proofs about Bonuses, for any number of users, rules, transactions and  *)
(* requests: the daily counter never says less than what was credited, nor *)
(* less than what was paid, and the wallets hold what the rows say.        *)
(* The first two count the requests that wait between the counter and the  *)
(* claim: the counter is ahead of the credits by at least those (Ahead),   *)
(* and its sum ahead of the payments by what those will pay (Covered).     *)
(***************************************************************************)
EXTENDS Bonuses, SumsProofs, TLAPS

LEMMA IdleTyped == Idle \in Job
<1>1. (CHOOSE u \in User : TRUE) \in User /\ (CHOOSE r \in Rule : TRUE) \in Rule
  BY ConstantsAssumption
<1>2. 0 \in Nat /\ 0 \in Day
  BY ConstantsAssumption DEF Day
<1>. QED
  BY <1>1, <1>2 DEF Idle, Job

LEMMA InitTyped == Init => TypeOK
<1>1. 0 \in Day
  BY ConstantsAssumption DEF Day
<1>. QED
  BY <1>1, IdleTyped DEF Init, TypeOK

(***************************************************************************)
(* A typed request names a row of the counter.                             *)
(***************************************************************************)
LEMMA CounterTyped == TypeOK => \A w \in Worker : CounterOf(w) \in CounterKey
  BY DEF TypeOK, Job, CounterOf, CounterKey

LEMMA FinishTyped ==
  ASSUME TypeOK, NEW w \in Worker, Finish(w)
  PROVE  pc' \in [Worker -> {"idle", "check", "add", "claim"}] /\ job' \in [Worker -> Job]
  BY IdleTyped DEF TypeOK, Finish

LEMMA NextTyped == TypeOK /\ [Next]_vars => TypeOK'
<1>. SUFFICES ASSUME TypeOK, [Next]_vars PROVE TypeOK'
  OBVIOUS
<1>. USE DEF counter, wallets, history
<1>1. ASSUME NEW w \in Worker, NEW u \in User, NEW r \in Rule, NEW t \in Tx \cup {NoTx},
             NEW a \in Amounts[r], Trigger(w, u, r, t, a)
      PROVE  TypeOK'
  <2>1. a \in Nat
    BY ConstantsAssumption
  <2>2. [user |-> u, rule |-> r, tx |-> t, amount |-> a, day |-> today] \in Job
    BY <2>1 DEF Job, TypeOK
  <2>. QED
    BY <1>1, <2>2 DEF Trigger, TypeOK
<1>2. ASSUME NEW w \in Worker, DailyCheck(w) PROVE TypeOK'
  BY <1>2 DEF DailyCheck, TypeOK
<1>3. ASSUME NEW w \in Worker, DailyRefused(w) \/ BonusClaimRefused(w) \/ Abort(w)
      PROVE  TypeOK'
  <2>1. pc' \in [Worker -> {"idle", "check", "add", "claim"}] /\ job' \in [Worker -> Job]
    BY <1>3, FinishTyped DEF DailyRefused, BonusClaimRefused, Abort
  <2>. QED
    BY <1>3, <2>1 DEF DailyRefused, BonusClaimRefused, Abort, TypeOK
<1>4. ASSUME NEW w \in Worker, DailyAdd(w) PROVE TypeOK'
  <2>1. pc' \in [Worker -> {"idle", "check", "add", "claim"}] /\ job' \in [Worker -> Job]
    BY <1>4, FinishTyped DEF DailyAdd, Count, TypeOK
  <2>2. job[w].amount \in Nat
    BY DEF TypeOK, Job
  <2>3. claims' \in [CounterKey -> Nat] /\ coins' \in [CounterKey -> Nat]
    BY <1>4, <2>2, CounterTyped DEF DailyAdd, Count, TypeOK
  <2>. QED
    BY <1>4, <2>1, <2>3 DEF DailyAdd, Count, TypeOK
<1>5. ASSUME NEW w \in Worker, BonusClaim(w) PROVE TypeOK'
  <2>1. pc' \in [Worker -> {"idle", "check", "add", "claim"}] /\ job' \in [Worker -> Job]
    BY <1>5, FinishTyped DEF BonusClaim
  <2>2. job[w].amount \in Nat /\ job[w].user \in User
    BY DEF TypeOK, Job
  <2>3. balance' \in [User -> Nat]
    BY <1>5, <2>2 DEF BonusClaim, Credit, TypeOK
  <2>5. rows' \in [User \X Rule \X Tx -> Nat]
    <3>. DEFINE D == User \X Rule \X Tx
    <3>1. rows \in [D -> Nat] /\ rows' = [rows EXCEPT ![RowOf(w)] = job[w].amount]
      BY <1>5 DEF BonusClaim, Credit, TypeOK
    <3>. HIDE DEF D
    <3>2. rows' \in [D -> Nat]
      BY <2>2, <3>1
    <3>. QED
      BY <3>2 DEF D
  <2>4. credited' \in [CounterKey -> Nat] /\ paid' \in [CounterKey -> Nat]
    BY <1>5, <2>2, CounterTyped DEF BonusClaim, Credit, TypeOK
  <2>. QED
    BY <1>5, <2>1, <2>3, <2>4, <2>5 DEF BonusClaim, TypeOK
<1>6. CASE Midnight
  <2>1. today' \in Day
    BY <1>6, ConstantsAssumption DEF Midnight, TypeOK, Day
  <2>. QED
    BY <1>6, <2>1 DEF Midnight, TypeOK
<1>7. CASE UNCHANGED vars
  BY <1>7 DEF vars, TypeOK
<1>. QED
  BY <1>1, <1>2, <1>3, <1>4, <1>5, <1>6, <1>7 DEF Next, Step

(***************************************************************************)
(* Every reachable state is typed.                                         *)
(***************************************************************************)
THEOREM TypeCorrect == Spec => []TypeOK
<1>. QED
  BY InitTyped, NextTyped, PTL DEF Spec

----
(***************************************************************************)
(* The requests about to make call p for row k of the counter.             *)
(***************************************************************************)
Waiting(p, k) == {w \in Worker : pc[w] = p /\ CounterOf(w) = k}

LEMMA WaitingFinite ==
  \A p, k : /\ IsFiniteSet(Waiting(p, k)) /\ Cardinality(Waiting(p, k)) \in Nat
            /\ Cardinality(Waiting(p, k)) <= Cardinality(Worker)
<1>1. TAKE p, k
<1>2. Waiting(p, k) \subseteq Worker
  BY DEF Waiting
<1>. QED
  BY <1>2, ConstantsAssumption, FS_Subset, FS_CardinalityType

LEMMA WaitingNext ==
  \A p, k : /\ Cardinality(Waiting(p, k)') \in Nat
            /\ Cardinality(Waiting(p, k)') <= Cardinality(Worker)
<1>1. TAKE p, k
<1>2. Waiting(p, k)' \subseteq Worker
  BY DEF Waiting
<1>. QED
  BY <1>2, ConstantsAssumption, FS_Subset, FS_CardinalityType

LEMMA Leaves ==
  ASSUME NEW p, NEW k, NEW w \in Waiting(p, k), Waiting(p, k)' \subseteq Waiting(p, k) \ {w}
  PROVE  Cardinality(Waiting(p, k)') <= Cardinality(Waiting(p, k)) - 1
<1>1. IsFiniteSet(Waiting(p, k) \ {w})
      /\ Cardinality(Waiting(p, k) \ {w}) = Cardinality(Waiting(p, k)) - 1
  BY WaitingFinite, FS_RemoveElement
<1>. QED
  BY <1>1, FS_Subset

LEMMA Enters ==
  ASSUME NEW p, NEW k, NEW w, Waiting(p, k)' \subseteq Waiting(p, k) \cup {w}
  PROVE  Cardinality(Waiting(p, k)') <= Cardinality(Waiting(p, k)) + 1
<1>. DEFINE S == Waiting(p, k)
<1>1. IsFiniteSet(S) /\ Cardinality(S) \in Nat
  BY WaitingFinite
<1>. HIDE DEF S
<1>2. IsFiniteSet(S \cup {w})
      /\ (Cardinality(S \cup {w}) = Cardinality(S) \/ Cardinality(S \cup {w}) = Cardinality(S) + 1)
  BY <1>1, FS_AddElement
<1>3. Cardinality(S \cup {w}) <= Cardinality(S) + 1 /\ Cardinality(S \cup {w}) \in Nat
  BY <1>1, <1>2
<1>4. Waiting(p, k)' \subseteq S \cup {w}
  BY DEF S
<1>5. Cardinality(Waiting(p, k)') <= Cardinality(S \cup {w}) /\ Cardinality(Waiting(p, k)') \in Nat
  BY <1>2, <1>4, FS_Subset, FS_CardinalityType
<1>6. Cardinality(Waiting(p, k)') <= Cardinality(S) + 1
  BY <1>1, <1>3, <1>5
<1>. QED
  BY <1>6 DEF S

LEMMA Stays ==
  ASSUME NEW p, NEW k, Waiting(p, k)' \subseteq Waiting(p, k)
  PROVE  Cardinality(Waiting(p, k)') <= Cardinality(Waiting(p, k))
  BY WaitingFinite, FS_Subset

----
(***************************************************************************)
(* A row has counted what was credited against it and what is about to be. *)
(***************************************************************************)
Ahead ==
  \A k \in CounterKey :
    k[2] \in Capped => credited[k] + Cardinality(Waiting("claim", k)) <= claims[k]

LEMMA InitAhead == Init => Ahead
<1>. SUFFICES ASSUME Init, NEW k \in CounterKey
              PROVE  credited[k] + Cardinality(Waiting("claim", k)) <= claims[k]
  BY DEF Ahead
<1>1. Waiting("claim", k) = {}
  BY DEF Init, Waiting
<1>2. Cardinality(Waiting("claim", k)) = 0
  BY <1>1, FS_EmptySet
<1>. QED
  BY <1>2 DEF Init

LEMMA NextAhead == TypeOK /\ Ahead /\ [Next]_vars => Ahead'
<1>. SUFFICES ASSUME TypeOK, Ahead, [Next]_vars, NEW k \in CounterKey, k[2] \in Capped
              PROVE  credited'[k] + Cardinality(Waiting("claim", k)') <= claims'[k]
  BY DEF Ahead, CounterKey, Day
<1>. DEFINE n == Cardinality(Waiting("claim", k))
            m == Cardinality(Waiting("claim", k)')
<1>0. credited[k] + n <= claims[k] /\ credited[k] \in Nat /\ claims[k] \in Nat
  BY DEF Ahead, TypeOK
<1>00. n \in Nat /\ m \in Nat
  BY WaitingFinite, WaitingNext
<1>. HIDE DEF n, m
<1>1. ASSUME credited' = credited, claims' = claims, Waiting("claim", k)' \subseteq Waiting("claim", k)
      PROVE  credited'[k] + m <= claims'[k]
  <2>1. m <= n
    BY <1>1, Stays DEF n, m
  <2>. QED
    BY <1>0, <1>00, <1>1, <2>1
<1>2. ASSUME NEW w \in Worker, NEW u \in User, NEW r \in Rule, NEW t \in Tx \cup {NoTx},
             NEW a \in Amounts[r], Trigger(w, u, r, t, a)
      PROVE  credited'[k] + m <= claims'[k]
  <2>1. credited' = credited /\ claims' = claims
    BY <1>2 DEF Trigger, counter, history
  <2>2. Waiting("claim", k)' \subseteq Waiting("claim", k)
    BY <1>2 DEF Trigger, Waiting, CounterOf, TypeOK
  <2>. QED
    BY <1>1, <2>1, <2>2
<1>3. ASSUME NEW w \in Worker, DailyCheck(w) PROVE credited'[k] + m <= claims'[k]
  <2>1. credited' = credited /\ claims' = claims
    BY <1>3 DEF DailyCheck, counter, history
  <2>2. Waiting("claim", k)' \subseteq Waiting("claim", k)
    BY <1>3 DEF DailyCheck, Waiting, CounterOf, TypeOK
  <2>. QED
    BY <1>1, <2>1, <2>2
<1>4. ASSUME NEW w \in Worker, DailyRefused(w) \/ BonusClaimRefused(w) \/ Abort(w)
      PROVE  credited'[k] + m <= claims'[k]
  <2>1. credited' = credited /\ claims' = claims /\ Finish(w)
    BY <1>4 DEF DailyRefused, BonusClaimRefused, Abort, counter, history
  <2>2. Waiting("claim", k)' \subseteq Waiting("claim", k)
    BY <2>1 DEF Finish, Waiting, CounterOf, TypeOK
  <2>. QED
    BY <1>1, <2>1, <2>2
<1>5. ASSUME NEW w \in Worker, DailyAdd(w) PROVE credited'[k] + m <= claims'[k]
  <2>1. credited' = credited /\ claims' = [claims EXCEPT ![CounterOf(w)] = @ + 1]
    BY <1>5 DEF DailyAdd, Count, history
  <2>2. Waiting("claim", k)' \subseteq Waiting("claim", k)
            \cup (IF CounterOf(w) = k THEN {w} ELSE {})
    BY <1>5 DEF DailyAdd, Count, Finish, Waiting, CounterOf, TypeOK
  <2>3. CASE CounterOf(w) = k
    <3>1. m <= n + 1
      BY <2>2, <2>3, Enters DEF n, m
    <3>2. claims'[k] = claims[k] + 1
      BY <2>1, <2>3 DEF TypeOK
    <3>. QED
      BY <1>0, <1>00, <2>1, <3>1, <3>2
  <2>4. CASE CounterOf(w) # k
    <3>1. m <= n
      BY <2>2, <2>4, Stays DEF n, m
    <3>2. claims'[k] = claims[k]
      BY <2>1, <2>4 DEF TypeOK
    <3>. QED
      BY <1>0, <1>00, <2>1, <3>1, <3>2
  <2>. QED
    BY <2>3, <2>4
<1>6. ASSUME NEW w \in Worker, BonusClaim(w) PROVE credited'[k] + m <= claims'[k]
  <2>1. claims' = claims /\ credited' = [credited EXCEPT ![CounterOf(w)] = @ + 1]
    BY <1>6 DEF BonusClaim, Credit, counter
  <2>2. Waiting("claim", k)' \subseteq Waiting("claim", k) \ {w}
    BY <1>6 DEF BonusClaim, Finish, Waiting, CounterOf, TypeOK
  <2>3. CASE CounterOf(w) = k
    <3>1. w \in Waiting("claim", k)
      BY <1>6, <2>3 DEF BonusClaim, Waiting
    <3>2. m <= n - 1
      BY <2>2, <3>1, Leaves DEF n, m
    <3>3. credited'[k] = credited[k] + 1
      BY <2>1, <2>3 DEF TypeOK
    <3>. QED
      BY <1>0, <1>00, <2>1, <3>2, <3>3
  <2>4. CASE CounterOf(w) # k
    <3>1. m <= n
      BY <2>2, Stays DEF n, m
    <3>2. credited'[k] = credited[k]
      BY <2>1, <2>4 DEF TypeOK
    <3>. QED
      BY <1>0, <1>00, <2>1, <3>1, <3>2
  <2>. QED
    BY <2>3, <2>4
<1>7. ASSUME Midnight \/ UNCHANGED vars PROVE credited'[k] + m <= claims'[k]
  <2>1. credited' = credited /\ claims' = claims /\ pc' = pc /\ job' = job
    BY <1>7 DEF Midnight, vars, counter, history
  <2>2. Waiting("claim", k)' \subseteq Waiting("claim", k)
    BY <2>1 DEF Waiting, CounterOf
  <2>. QED
    BY <1>1, <2>1, <2>2
<1>8. ASSUME NEW w \in Worker, Step(w) PROVE credited'[k] + m <= claims'[k]
  BY <1>3, <1>4, <1>5, <1>6, <1>8 DEF Step
<1>9. credited'[k] + m <= claims'[k]
  BY <1>2, <1>7, <1>8 DEF Next
<1>. QED
  BY <1>9 DEF m

(***************************************************************************)
(* The counter of a capped rule never says less than what was credited,    *)
(* whatever races, dies or runs over midnight.                             *)
(***************************************************************************)
THEOREM EveryCreditCounted == Spec => []CreditsAreCounted
<1>1. TypeOK /\ Ahead => CreditsAreCounted
  <2>. SUFFICES ASSUME TypeOK, Ahead, NEW k \in CounterKey, k[2] \in Capped
                PROVE  credited[k] <= claims[k]
    BY DEF CreditsAreCounted
  <2>1. credited[k] + Cardinality(Waiting("claim", k)) <= claims[k]
    BY DEF Ahead
  <2>2. credited[k] \in Nat /\ claims[k] \in Nat /\ Cardinality(Waiting("claim", k)) \in Nat
    BY WaitingFinite DEF TypeOK
  <2>. QED
    BY <2>1, <2>2
<1>. QED
  BY <1>1, InitTyped, NextTyped, InitAhead, NextAhead, PTL DEF Spec

----
(***************************************************************************)
(* What the requests between the counter and the claim will pay for row k. *)
(***************************************************************************)
Due(k) == [w \in Worker |-> IF pc[w] = "claim" /\ CounterOf(w) = k THEN job[w].amount ELSE 0]

Covered ==
  \A k \in CounterKey : k[2] \in Capped => paid[k] + SumOf(Due(k), Worker) <= coins[k]

LEMMA DueTyped ==
  ASSUME TypeOK
  PROVE  \A k : Due(k) \in [Worker -> Nat] /\ SumOf(Due(k), Worker) \in Int
<1>1. TAKE k
<1>2. Due(k) \in [Worker -> Nat]
  BY DEF Due, TypeOK, Job
<1>3. \A w \in Worker : Due(k)[w] \in Int
  BY <1>2
<1>4. IsFiniteSet(Worker)
  BY ConstantsAssumption
<1>. QED
  BY <1>2, <1>3, <1>4, SumOfType

(* A step of one request changes what is due by what it changes of its own. *)
LEMMA DueMoves ==
  ASSUME TypeOK, TypeOK', NEW w \in Worker,
         \A v \in Worker \ {w} : pc'[v] = pc[v] /\ job'[v] = job[v]
  PROVE  \A k : SumOf(Due(k)', Worker) = SumOf(Due(k), Worker) + (Due(k)'[w] - Due(k)[w])
<1>1. TAKE k
<1>2. Due(k) \in [Worker -> Nat]
  BY DueTyped
<1>3. Due(k)' \in [Worker -> Nat]
  BY DEF Due, TypeOK, Job
<1>4. \A v \in Worker \ {w} : Due(k)'[v] = Due(k)[v]
  BY DEF Due, CounterOf
<1>5. \A v \in Worker : Due(k)[v] \in Int /\ Due(k)'[v] \in Int
  BY <1>2, <1>3
<1>. DEFINE f == Due(k)
            g == Due(k)'
<1>. HIDE DEF f, g
<1>6. \A v \in Worker : f[v] \in Int /\ g[v] \in Int
  BY <1>5 DEF f, g
<1>7. \A v \in Worker \ {w} : g[v] = f[v]
  BY <1>4 DEF f, g
<1>8. IsFiniteSet(Worker)
  BY ConstantsAssumption
<1>9. SumOf(g, Worker) = SumOf(f, Worker) + (g[w] - f[w])
  BY <1>6, <1>7, <1>8, SumOfChange
<1>. QED
  BY <1>9 DEF f, g

LEMMA InitCovered == Init => Covered
<1>. SUFFICES ASSUME Init, NEW k \in CounterKey PROVE paid[k] + SumOf(Due(k), Worker) <= coins[k]
  BY DEF Covered
<1>1. \A w \in Worker : Due(k)[w] = 0
  BY DEF Init, Due
<1>2. SumOf(Due(k), Worker) = 0
  BY <1>1, ConstantsAssumption, SumOfZeros
<1>. QED
  BY <1>2 DEF Init

LEMMA NextCovered == TypeOK /\ TypeOK' /\ Covered /\ [Next]_vars => Covered'
<1>. SUFFICES ASSUME TypeOK, TypeOK', Covered, [Next]_vars, NEW k \in CounterKey, k[2] \in Capped
              PROVE  paid'[k] + SumOf(Due(k)', Worker) <= coins'[k]
  BY DEF Covered, CounterKey, Day
<1>. DEFINE n == SumOf(Due(k), Worker)
            m == SumOf(Due(k)', Worker)
<1>0. paid[k] + n <= coins[k] /\ paid[k] \in Int /\ coins[k] \in Int /\ n \in Int
  BY DueTyped DEF Covered, TypeOK
<1>1. ASSUME NEW w \in Worker, \A v \in Worker \ {w} : pc'[v] = pc[v] /\ job'[v] = job[v]
      PROVE  m = n + (Due(k)'[w] - Due(k)[w]) /\ Due(k)'[w] \in Int /\ Due(k)[w] \in Nat
  <2>1. m = n + (Due(k)'[w] - Due(k)[w])
    BY <1>1, DueMoves
  <2>2. Due(k)'[w] \in Int /\ Due(k)[w] \in Nat
    BY DEF Due, TypeOK, Job
  <2>. QED
    BY <2>1, <2>2
<1>. HIDE DEF n, m
<1>2. ASSUME NEW w \in Worker, paid' = paid, coins' = coins, Due(k)'[w] = 0,
             \A v \in Worker \ {w} : pc'[v] = pc[v] /\ job'[v] = job[v]
      PROVE  paid'[k] + m <= coins'[k]
  <2>1. m = n + (0 - Due(k)[w]) /\ Due(k)[w] \in Nat
    BY <1>1, <1>2
  <2>. QED
    BY <1>0, <1>2, <2>1
<1>3. ASSUME NEW w \in Worker, NEW u \in User, NEW r \in Rule, NEW t \in Tx \cup {NoTx},
             NEW a \in Amounts[r], Trigger(w, u, r, t, a)
      PROVE  paid'[k] + m <= coins'[k]
  <2>1. paid' = paid /\ coins' = coins
    BY <1>3 DEF Trigger, counter, history
  <2>2. pc'[w] = "claim" => CounterOf(w)' # k
    BY <1>3 DEF Trigger, CounterOf, TypeOK
  <2>3. Due(k)'[w] = 0
    BY <2>2 DEF Due
  <2>4. \A v \in Worker \ {w} : pc'[v] = pc[v] /\ job'[v] = job[v]
    BY <1>3 DEF Trigger, TypeOK
  <2>. QED
    BY <1>2, <2>1, <2>3, <2>4
<1>4. ASSUME NEW w \in Worker, DailyCheck(w) PROVE paid'[k] + m <= coins'[k]
  <2>1. paid' = paid /\ coins' = coins /\ pc'[w] = "add"
    BY <1>4 DEF DailyCheck, counter, history, TypeOK
  <2>2. Due(k)'[w] = 0
    BY <2>1 DEF Due
  <2>3. \A v \in Worker \ {w} : pc'[v] = pc[v] /\ job'[v] = job[v]
    BY <1>4 DEF DailyCheck, TypeOK
  <2>. QED
    BY <1>2, <2>1, <2>2, <2>3
<1>5. ASSUME NEW w \in Worker, DailyRefused(w) \/ BonusClaimRefused(w) \/ Abort(w)
      PROVE  paid'[k] + m <= coins'[k]
  <2>1. paid' = paid /\ coins' = coins /\ Finish(w)
    BY <1>5 DEF DailyRefused, BonusClaimRefused, Abort, counter, history
  <2>2. pc'[w] = "idle" /\ \A v \in Worker \ {w} : pc'[v] = pc[v] /\ job'[v] = job[v]
    BY <2>1 DEF Finish, TypeOK
  <2>3. Due(k)'[w] = 0
    BY <2>2 DEF Due
  <2>. QED
    BY <1>2, <2>1, <2>2, <2>3
<1>6. ASSUME NEW w \in Worker, DailyAdd(w) PROVE paid'[k] + m <= coins'[k]
  <2>1. paid' = paid /\ coins' = [coins EXCEPT ![CounterOf(w)] = @ + job[w].amount]
    BY <1>6 DEF DailyAdd, Count, history
  <2>2. /\ pc[w] = "add"
        /\ \/ pc'[w] = "idle"
           \/ pc'[w] = "claim" /\ job'[w] = job[w]
        /\ \A v \in Worker \ {w} : pc'[v] = pc[v] /\ job'[v] = job[v]
    BY <1>6 DEF DailyAdd, Count, Finish, TypeOK
  <2>3. job[w].amount \in Nat
    BY DEF TypeOK, Job
  <2>4. Due(k)[w] = 0
    BY <2>2 DEF Due
  <2>5. m = n + Due(k)'[w]
    BY <1>0, <1>1, <2>2, <2>4
  <2>6. CASE CounterOf(w) = k
    <3>1. coins'[k] = coins[k] + job[w].amount
      BY <2>1, <2>6 DEF TypeOK
    <3>2. Due(k)'[w] = 0 \/ Due(k)'[w] = job[w].amount
      BY <2>2 DEF Due
    <3>. QED
      BY <1>0, <2>1, <2>3, <2>5, <3>1, <3>2
  <2>7. CASE CounterOf(w) # k
    <3>1. coins'[k] = coins[k]
      BY <2>1, <2>7 DEF TypeOK
    <3>2. Due(k)'[w] = 0
      BY <2>2, <2>7 DEF Due, CounterOf
    <3>. QED
      BY <1>0, <2>1, <2>5, <3>1, <3>2
  <2>. QED
    BY <2>6, <2>7
<1>7. ASSUME NEW w \in Worker, BonusClaim(w) PROVE paid'[k] + m <= coins'[k]
  <2>1. coins' = coins /\ paid' = [paid EXCEPT ![CounterOf(w)] = @ + job[w].amount]
    BY <1>7 DEF BonusClaim, Credit, counter
  <2>2. /\ pc[w] = "claim" /\ pc'[w] = "idle"
        /\ \A v \in Worker \ {w} : pc'[v] = pc[v] /\ job'[v] = job[v]
    BY <1>7 DEF BonusClaim, Finish, TypeOK
  <2>3. job[w].amount \in Nat
    BY DEF TypeOK, Job
  <2>4. Due(k)'[w] = 0
    BY <2>2 DEF Due
  <2>5. CASE CounterOf(w) = k
    <3>1. paid'[k] = paid[k] + job[w].amount
      BY <2>1, <2>5 DEF TypeOK
    <3>2. Due(k)[w] = job[w].amount
      BY <2>2, <2>5 DEF Due
    <3>3. m = n + (0 - job[w].amount)
      BY <1>1, <2>2, <2>4, <3>2
    <3>. QED
      BY <1>0, <2>1, <2>3, <3>1, <3>3
  <2>6. CASE CounterOf(w) # k
    <3>1. paid'[k] = paid[k] /\ Due(k)[w] = 0
      BY <2>1, <2>6 DEF TypeOK, Due
    <3>2. m = n
      BY <1>0, <1>1, <2>2, <2>4, <3>1
    <3>. QED
      BY <1>0, <2>1, <3>1, <3>2
  <2>. QED
    BY <2>5, <2>6
<1>8. ASSUME Midnight \/ UNCHANGED vars PROVE paid'[k] + m <= coins'[k]
  <2>1. UNCHANGED <<paid, coins, pc, job>>
    BY <1>8 DEF Midnight, vars, counter, history
  <2>2. Due(k)' = Due(k)
    BY <2>1 DEF Due, CounterOf
  <2>. QED
    BY <1>0, <2>1, <2>2 DEF m, n
<1>9. paid'[k] + m <= coins'[k]
  BY <1>3, <1>4, <1>5, <1>6, <1>7, <1>8 DEF Next, Step
<1>. QED
  BY <1>9 DEF m

(***************************************************************************)
(* The sum the cap on the amount is compared with covers every peso a      *)
(* capped rule has paid on that day, and those about to be paid.           *)
(***************************************************************************)
THEOREM EveryPesoCounted == Spec => []PaymentsAreCounted
<1>1. TypeOK /\ Covered => PaymentsAreCounted
  <2>. SUFFICES ASSUME TypeOK, Covered, NEW k \in CounterKey, k[2] \in Capped
                PROVE  paid[k] <= coins[k]
    BY DEF PaymentsAreCounted
  <2>1. paid[k] + SumOf(Due(k), Worker) <= coins[k] /\ SumOf(Due(k), Worker) \in Int
    BY DueTyped DEF Covered
  <2>2. SumOf(Due(k), Worker) >= 0
    <3>. DEFINE f == Due(k)
    <3>1. \A w \in Worker : f[w] \in Int /\ f[w] >= 0
      BY DueTyped
    <3>. HIDE DEF f
    <3>2. SumOf(f, Worker) >= 0
      BY <3>1, ConstantsAssumption, SumOfNaturals
    <3>. QED
      BY <3>2 DEF f
  <2>. QED
    BY <2>1, <2>2 DEF TypeOK
<1>. QED
  BY <1>1, InitTyped, NextTyped, InitCovered, NextCovered, PTL DEF Spec

----
(***************************************************************************)
(* A row of the bonuses table, and the rows of one user, of which there    *)
(* are finitely many.                                                      *)
(***************************************************************************)
Bonus == User \X Rule \X Tx
Of(u) == {u} \X Rule \X Tx

LEMMA FinitelyMany == \A u : IsFiniteSet(Of(u))
<1>1. TAKE u
<1>. DEFINE P == Rule \X Tx
            f == [p \in P |-> <<u, p[1], p[2]>>]
<1>2. IsFiniteSet(P)
  BY ConstantsAssumption, FS_Product
<1>3. f \in [P -> Of(u)]
  BY DEF Of
<1>4. \A b \in Of(u) : \E p \in P : f[p] = b
  <2>. SUFFICES ASSUME NEW b \in Of(u) PROVE \E p \in P : f[p] = b
    OBVIOUS
  <2>1. <<b[2], b[3]>> \in P /\ b = <<u, b[2], b[3]>>
    BY DEF Of
  <2>2. f[<<b[2], b[3]>>] = b
    BY <2>1
  <2>. QED
    BY <2>1, <2>2
<1>. HIDE DEF P, f
<1>5. f \in Surjection(P, Of(u))
  BY <1>3, <1>4 DEF Surjection
<1>. QED
  BY <1>2, <1>5, FS_Surjection

(* A request about to claim names the transaction it claims for. *)
Named == \A w \in Worker : pc[w] = "claim" => job[w].tx \in Tx

LEMMA NextNamed == TypeOK /\ Named /\ [Next]_vars => Named'
<1>. SUFFICES ASSUME TypeOK, Named, [Next]_vars PROVE Named'
  OBVIOUS
<1>. USE DEF Named
<1>1. ASSUME NEW w \in Worker, NEW u \in User, NEW r \in Rule, NEW t \in Tx \cup {NoTx},
             NEW a \in Amounts[r], Trigger(w, u, r, t, a)
      PROVE  Named'
  BY <1>1 DEF Trigger, TypeOK
<1>2. ASSUME NEW w \in Worker, DailyCheck(w) PROVE Named'
  BY <1>2 DEF DailyCheck, TypeOK
<1>3. ASSUME NEW w \in Worker,
             DailyRefused(w) \/ BonusClaim(w) \/ BonusClaimRefused(w) \/ Abort(w)
      PROVE  Named'
  BY <1>3 DEF DailyRefused, BonusClaim, BonusClaimRefused, Abort, Finish, TypeOK
<1>4. ASSUME NEW w \in Worker, DailyAdd(w) PROVE Named'
  BY <1>4 DEF DailyAdd, Count, Finish, TypeOK, Job
<1>5. CASE Midnight \/ UNCHANGED vars
  BY <1>5 DEF Midnight, vars
<1>. QED
  BY <1>1, <1>2, <1>3, <1>4, <1>5 DEF Next, Step

LEMMA InitHolds == Init => WalletHoldsRows
<1>. SUFFICES ASSUME Init, NEW u \in User PROVE balance[u] = SumOf(rows, Of(u))
  BY DEF WalletHoldsRows, Of
<1>1. \A b \in Of(u) : rows[b] = 0
  BY DEF Init, Of
<1>2. SumOf(rows, Of(u)) = 0
  BY <1>1, FinitelyMany, SumOfZeros
<1>. QED
  BY <1>2 DEF Init

LEMMA NextHolds ==
  TypeOK /\ TypeOK' /\ Named /\ WalletHoldsRows /\ [Next]_vars => WalletHoldsRows'
<1>. SUFFICES ASSUME TypeOK, TypeOK', Named, WalletHoldsRows, [Next]_vars, NEW u \in User
              PROVE  balance'[u] = SumOf(rows', Of(u))
  BY DEF WalletHoldsRows, Of
<1>0. balance[u] = SumOf(rows, Of(u)) /\ IsFiniteSet(Of(u))
  BY FinitelyMany DEF WalletHoldsRows, Of
<1>1. ASSUME NEW w \in Worker, BonusClaim(w) PROVE balance'[u] = SumOf(rows', Of(u))
  <2>. DEFINE row == RowOf(w)
              a == job[w].amount
  <2>1. row \in Bonus /\ a \in Nat /\ row[1] = job[w].user /\ job[w].user \in User
    BY <1>1 DEF BonusClaim, Named, TypeOK, RowOf, Job, Bonus
  <2>2. rows' = [rows EXCEPT ![row] = a] /\ rows[row] = 0 /\ rows \in [Bonus -> Nat]
    BY <1>1 DEF BonusClaim, Credit, TypeOK, Bonus
  <2>3. balance' = [balance EXCEPT ![job[w].user] = @ + a]
    BY <1>1 DEF BonusClaim, Credit
  <2>4. Of(u) \subseteq Bonus /\ (row \in Of(u) <=> job[w].user = u)
    BY <2>1 DEF Of, Bonus
  <2>. HIDE DEF row, a
  <2>5. \A b \in Of(u) : rows[b] \in Int /\ rows'[b] \in Int
    BY <2>1, <2>2, <2>4
  <2>6. \A b \in Of(u) \ {row} : rows'[b] = rows[b]
    BY <2>2, <2>4
  <2>7. CASE job[w].user = u
    <3>1. row \in Of(u) /\ rows'[row] = a
      BY <2>1, <2>2, <2>4, <2>7
    <3>2. SumOf(rows', Of(u)) = SumOf(rows, Of(u)) + (rows'[row] - rows[row])
      BY <1>0, <2>5, <2>6, <3>1, SumOfChange
    <3>. QED
      BY <1>0, <2>1, <2>2, <2>3, <2>7, <3>1, <3>2 DEF TypeOK
  <2>8. CASE job[w].user # u
    <3>1. SumOf(rows, Of(u)) = SumOf(rows', Of(u))
      BY <1>0, <2>4, <2>6, <2>8, SumOfSame
    <3>. QED
      BY <1>0, <2>3, <2>8, <3>1 DEF TypeOK
  <2>. QED
    BY <2>7, <2>8
<1>2. CASE \A w \in Worker : ~BonusClaim(w)
  <2>1. UNCHANGED wallets
    BY <1>2 DEF Next, Step, Trigger, DailyCheck, DailyRefused, DailyAdd, Count,
                BonusClaimRefused, Abort, Midnight, vars
  <2>. QED
    BY <1>0, <2>1 DEF wallets
<1>. QED
  BY <1>1, <1>2

(***************************************************************************)
(* A wallet holds what its rows of the bonuses table say, for any number   *)
(* of requests that claim for the same transactions at the same time.      *)
(***************************************************************************)
THEOREM WalletsMatchRows == Spec => []WalletHoldsRows
<1>1. Init => Named
  BY DEF Init, Named
<1>. QED
  BY <1>1, InitTyped, NextTyped, NextNamed, InitHolds, NextHolds, PTL DEF Spec
====
