---- MODULE Tiers ----
(***************************************************************************)
(* The five tiers (src/lib/tiers.ts) and POST /v1/tier/:user/promote       *)
(* (src/api/tier.ts), which reads the tier of a wallet, decides, and sets  *)
(* it in a second call, without a condition.  The read is an eventually    *)
(* consistent one: it answers any tier the wallet has had.                 *)
(*                                                                         *)
(* Money is in thousands of COP; NoLimit stands for MAX_SAFE_INTEGER.      *)
(***************************************************************************)
EXTENDS Integers

CONSTANTS
  User,
  Worker        \* promotions in execution at the same time

Tier == 0 .. 4
NoLimit == 1000000000

(* TIERS.  What a tier asks for is, from tier 1 on, what the one below asks
   for and something more; tier 0 words its only requirement differently. *)
Adds == <<{"celular", "email", "nombre", "ciudad"},
          {"razon social", "nit", "dv", "consentimiento"},
          {"selfie", "cedula", "biometria"},
          {"rut", "camara", "estados", "banco"}>>

Requirements(t) == IF t = 0 THEN {"celular via sms"} ELSE UNION {Adds[i] : i \in 1 .. t}

Limits(day, week, withdraw, hold, threeDs) ==
  [receiveDay |-> day, receiveWeek |-> week, withdrawDay |-> withdraw,
   holdHours |-> hold, threeDsAbove |-> threeDs]

TIERS ==
  [t \in Tier |->
     CASE t = 0 -> Limits(500, 2000, 200, 72, 0)
       [] t = 1 -> Limits(2000, 10000, 1000, 24, 200)
       [] t = 2 -> Limits(20000, 50000, 5000, 4, 5000)
       [] t = 3 -> Limits(100000, 500000, 20000, 0, NoLimit)
       [] t = 4 -> Limits(500000, NoLimit, NoLimit, 0, NoLimit)]

HoldInMinutes(t, amount) ==      \* mutant: the hold of tier 3 is in minutes
  IF t = 3 /\ amount > 5000 THEN 240 ELSE TIERS[t].holdHours

WithdrawHoldFor(t, amount) == IF t = 3 /\ amount > 5000 THEN 4 ELSE TIERS[t].holdHours

Requires3DS(t, amount) == t = 0 \/ amount > TIERS[t].threeDsAbove

PromoteAnyway(current, target, verified) ==    \* mutant: only the requirements are compared
  Requirements(target) \subseteq verified

CanPromoteTo(current, target, verified) ==
  /\ target > current
  /\ Requirements(target) \subseteq verified

VARIABLES
  tier,            \* of each wallet
  had,             \* the tiers each wallet has had: what a read may answer
  shown,           \* history: what the requests for each wallet have listed as verified
  pc, call

vars == <<tier, had, shown, pc, call>>

Evidences == UNION {Requirements(t) : t \in Tier}

TypeOK ==
  /\ tier \in [User -> Tier]
  /\ had \in [User -> SUBSET Tier]
  /\ shown \in [User -> SUBSET Evidences]
  /\ pc \in [Worker -> {"idle", "set"}]
  /\ call \in [Worker -> [user : User, target : Tier]]

Init ==
  /\ tier = [u \in User |-> 0]
  /\ had = [u \in User |-> {0}]
  /\ shown = [u \in User |-> {}]
  /\ pc = [w \in Worker |-> "idle"]
  /\ call \in [Worker -> {[user |-> CHOOSE u \in User : TRUE, target |-> 0]}]

(* What the body lists as verified is believed. *)
Evidence == {Requirements(t) : t \in Tier}

Shows(u, verified) == shown' = [shown EXCEPT ![u] = @ \cup verified]

PromoteRead(w, u, current, target, verified) ==
  /\ pc[w] = "idle"
  /\ current \in had[u]
  /\ CanPromoteTo(current, target, verified)
  /\ pc' = [pc EXCEPT ![w] = "set"]
  /\ call' = [call EXCEPT ![w] = [user |-> u, target |-> target]]
  /\ Shows(u, verified)
  /\ UNCHANGED <<tier, had>>

PromoteRefused(w, u, current, target, verified) ==
  /\ pc[w] = "idle"
  /\ current \in had[u]
  /\ ~CanPromoteTo(current, target, verified)
  /\ Shows(u, verified)
  /\ UNCHANGED <<tier, had, pc, call>>

PromoteSet(w) ==
  /\ pc[w] = "set"
  /\ tier' = [tier EXCEPT ![call[w].user] = call[w].target]
  /\ had' = [had EXCEPT ![call[w].user] = @ \cup {call[w].target}]
  /\ pc' = [pc EXCEPT ![w] = "idle"]
  /\ UNCHANGED <<shown, call>>

PromoteFails(w) ==
  /\ pc[w] = "set"
  /\ pc' = [pc EXCEPT ![w] = "idle"]
  /\ UNCHANGED <<tier, had, shown, call>>

Next ==
  \E w \in Worker :
    \/ \E u \in User, current, target \in Tier, verified \in Evidence :
         \/ PromoteRead(w, u, current, target, verified)
         \/ PromoteRefused(w, u, current, target, verified)
    \/ PromoteSet(w)
    \/ PromoteFails(w)

Spec == Init /\ [][Next]_vars

----
(* At every amount the hold of tier `high` is no longer than that of `low`,
   its card payments ask for 3DS no more often and its limits are no lower;
   and what `low` was granted for is asked of `high` as well. *)
NoWorse(high, low) ==
  /\ \A amount \in {0, 200, 201, 5000, 5001, 500000} :
       /\ WithdrawHoldFor(high, amount) <= WithdrawHoldFor(low, amount)
       /\ Requires3DS(high, amount) => Requires3DS(low, amount)
  /\ \A limit \in {"receiveDay", "receiveWeek", "withdrawDay"} : TIERS[low][limit] <= TIERS[high][limit]
  /\ low > 0 => Requirements(low) \subseteq Requirements(high)

(***************************************************************************)
(* Whatever a promotion has read and whoever overtook it, a wallet never   *)
(* has a tier that it was not verified for, and from its first promotion   *)
(* on never again that of an unverified one: a change of tier is to one    *)
(* whose requirements have been shown, no worse than any lower tier it     *)
(* ever had, of which there is one (tier 3 has a hold of its own above     *)
(* $5M, withdrawHoldFor).                                                  *)
(***************************************************************************)
PromotionIsEarned ==
  [][\A u \in User : tier'[u] # tier[u] =>
       /\ Requirements(tier'[u]) \subseteq shown[u]
       /\ \E past \in had[u] : past < tier'[u]
       /\ \A past \in had[u] : past < tier'[u] => NoWorse(tier'[u], past)]_vars

(***************************************************************************)
(* "Demotions are not automatic - they require DPO action" (the tier       *)
(* system's specification, line 4): no request to promote takes a tier     *)
(* away.  A read of a past tier, or another promotion between the read and *)
(* the write, lets it.                                                     *)
(***************************************************************************)
NeverDemoted == [][\A u \in User : tier'[u] >= tier[u]]_vars
====
