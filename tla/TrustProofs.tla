---- MODULE TrustProofs ----
(***************************************************************************)
(* Proofs of what the components that others rely on promise: KeyRotation, *)
(* NitCache, IpReputation, Reports, Door, AuthGateway, Structuring and     *)
(* RiskChecks; and of what is computed from tables: Calendar and Ranking;  *)
(* and that every component, those of AccountsProofs too, keeps its types. *)
(***************************************************************************)
EXTENDS AccountsProofs, EscrowMachineProofs, SumsProofs, Sequences, TLAPS

----
(***************************************************************************)
(* KeyRotation.                                                            *)
(***************************************************************************)
RotationTyped ==
  /\ wompi \in Rotation!Key /\ secret \in Rotation!Key
  /\ script \in [Operator -> {"idle", "read", "set", "verify", "audit"}]
  /\ old \in [Operator -> Int] /\ new \in [Operator -> Int]

(* The key in the secret has its entry, or a script that put it there has
   still to write it. *)
EntryIsUnderWay ==
  secret # 1 /\ ~interrupted =>
    \/ \E entry \in audit : entry.new = secret
    \/ \E o \in Operator : script[o] \in {"verify", "audit"} /\ new[o] = secret

(* A script has a key to set from when it has read one. *)
SetsAKey == \A o \in Operator : script[o] \in {"set", "verify", "audit"} => new[o] \in Rotation!Key

RotationInv == RotationTyped /\ EntryIsUnderWay /\ SetsAKey /\ Rotation!OkIsOnTheBooks

LEMMA RotationStarts == Rotation!Init => RotationInv
BY KeyRotationAssumption
DEF Rotation!Init, RotationInv, RotationTyped, EntryIsUnderWay, SetsAKey, Rotation!OkIsOnTheBooks,
    Rotation!Key, Rotation!NoKey

LEMMA RotationSteps == RotationInv /\ [Rotation!Next]_(Rotation!vars) => RotationInv'
<1>. SUFFICES ASSUME RotationInv, [Rotation!Next]_(Rotation!vars) PROVE RotationInv'
  OBVIOUS
<1>. USE DEF RotationInv, RotationTyped, EntryIsUnderWay, SetsAKey, Rotation!OkIsOnTheBooks,
             Rotation!keys, Rotation!scripts, Rotation!refunds
<1>1. CASE UNCHANGED Rotation!vars
  BY <1>1 DEF Rotation!vars
<1>2. CASE Rotation!Regenerate
  BY <1>2, KeyRotationAssumption DEF Rotation!Regenerate, Rotation!Key
<1>3. CASE Rotation!Deploy
  BY <1>3 DEF Rotation!Deploy
<1>4. ASSUME NEW o \in Operator, Rotation!ReadCurrent(o) PROVE RotationInv'
  BY <1>4 DEF Rotation!ReadCurrent, Rotation!Goto, Rotation!Key
<1>5. ASSUME NEW o \in Operator, Rotation!SetNewValue(o) PROVE RotationInv'
  BY <1>5 DEF Rotation!SetNewValue, Rotation!Goto
<1>6. ASSUME NEW o \in Operator, Rotation!Verify(o) PROVE RotationInv'
  <2>1. CASE Rotation!Verified(o)
    BY <1>6, <2>1 DEF Rotation!Verify, Rotation!Goto
  <2>2. CASE ~Rotation!Verified(o)
    BY <1>6, <2>2 DEF Rotation!Verify, Rotation!Goto, Rotation!Verified, Rotation!NoKey
  <2>. QED
    BY <2>1, <2>2
<1>7. ASSUME NEW o \in Operator, Rotation!Audit(o) PROVE RotationInv'
  <2>1. Rotation!AuditEntry(o).new = new[o]
    BY DEF Rotation!AuditEntry
  <2>. HIDE DEF Rotation!AuditEntry
  <2>. QED
    BY <1>7, <2>1 DEF Rotation!Audit, Rotation!Goto, Rotation!NoKey
<1>8. ASSUME NEW o \in Operator, Rotation!Interrupt(o) PROVE RotationInv'
  <2>. USE <1>8 DEF Rotation!Interrupt, Rotation!Goto, Rotation!NoKey
  <2>1. RotationTyped' /\ SetsAKey' /\ Rotation!OkIsOnTheBooks'
    OBVIOUS
  <2>2. ~interrupted' => ~interrupted /\ script[o] \notin {"verify", "audit"}
    OBVIOUS
  <2>3. EntryIsUnderWay'
    BY <2>2
  <2>. QED
    BY <2>1, <2>3
<1>9. ASSUME NEW o \in Operator, NEW k \in Rotation!Key, Rotation!ReadNewKey(o, k) PROVE RotationInv'
  BY <1>9 DEF Rotation!ReadNewKey, Rotation!Goto, Rotation!Key
<1>10. ASSUME NEW i \in Instance, Rotation!FirstRequest(i) PROVE RotationInv'
  BY <1>10 DEF Rotation!FirstRequest
<1>11. ASSUME NEW i \in Instance, NEW r, Rotation!RefundTransaction(i, r) PROVE RotationInv'
  BY <1>11 DEF Rotation!RefundTransaction, Rotation!OkOf, Rotation!RefundStatus
<1>12. ASSUME NEW s \in Rotation!RefundStatus, Rotation!Settle(s) PROVE RotationInv'
  BY <1>12 DEF Rotation!Settle, Rotation!RefundStatus
<1>. QED
  BY <1>1, <1>2, <1>3, <1>4, <1>5, <1>6, <1>7, <1>8, <1>9, <1>10, <1>11, <1>12
  DEF Rotation!Next, Rotation!ScriptStep

(***************************************************************************)
(* When no rotation is under way the key in the secret is in the audit     *)
(* log, unless a script was interrupted after the change, and a refund     *)
(* called done is in Wompi's books, of whatever status, for any number of  *)
(* operators, instances and keys.                                          *)
(***************************************************************************)
THEOREM KeysAreAudited == Rotation!Spec => []KeysAreAccounted
<1>1. RotationInv => KeysAreAccounted
  BY DEF RotationInv, EntryIsUnderWay, KeysAreAccounted, Rotation!SecretIsAudited
<1>. QED
  BY <1>1, RotationStarts, RotationSteps, PTL DEF Rotation!Spec

----
(***************************************************************************)
(* Door.                                                                   *)
(***************************************************************************)
DoorTyped ==
  /\ doorNow \in Nat
  /\ DOMAIN cookies = {"id", "session", "csrf"}
  /\ cookies.session \in Door!Credential \cup {Door!None}

LEMMA DoorStarts == Door!Init => DoorTyped
BY DEF Door!Init, DoorTyped

(* No step touches the session. *)
LEMMA DoorSteps == DoorTyped /\ [Door!Next]_(Door!vars) => DoorTyped'
<1>. SUFFICES ASSUME DoorTyped, [Door!Next]_(Door!vars) PROVE DoorTyped'
  OBVIOUS
<1>. USE DEF DoorTyped
<1>1. CASE UNCHANGED Door!vars
  BY <1>1 DEF Door!vars
<1>2. ASSUME NEW s \in Slot, NEW m \in Door!Method, NEW r \in Door!Route, NEW b \in BOOLEAN,
             NEW c \in Door!Credential \cup {Door!None}, NEW d \in Door!DevUser \cup {Door!Nobody},
             Door!Send(s, m, r, b, c, d)
      PROVE  DoorTyped'
  BY <1>2 DEF Door!Send
<1>3. ASSUME NEW s \in Slot, Door!Serve(s) PROVE DoorTyped'
  BY <1>3 DEF Door!Serve
<1>4. ASSUME NEW s \in Slot, Door!Receive(s) PROVE DoorTyped'
  BY <1>4 DEF Door!Receive
<1>5. CASE Door!ForgetToken
  BY <1>5 DEF Door!ForgetToken
<1>6. CASE Door!Tick
  BY <1>6 DEF Door!Tick
<1>. QED
  BY <1>1, <1>2, <1>3, <1>4, <1>5, <1>6 DEF Door!Next

(* Without the headers of a developer the API knows a user by the session
   only; and the seconds are compared in two ways, which differ in one second. *)
LEMMA SessionsAgree == DoorTyped => Door!DoorsAgree
<1>. SUFFICES ASSUME DoorTyped PROVE Door!DoorsAgree
  OBVIOUS
<1>1. Door!ApiUser = IF Door!VerifyLegacySession(cookies.session) THEN cookies.session.user ELSE Door!Null
  BY DEF Door!ApiUser, Door!Actor, Door!VerifyCognitoToken, Door!Nobody
<1>2. cookies.session # Door!None => cookies.session.exp \in Nat
  BY DoorAssumption DEF DoorTyped, Door!Credential
<1>. QED
  BY <1>1, <1>2 DEF DoorTyped, Door!DoorsAgree, Door!PageUser, Door!VerifyLegacySession

----
(***************************************************************************)
(* AuthGateway.                                                            *)
(***************************************************************************)
LEMMA GatewaySums == ASSUME NEW f, NEW S PROVE Gateway!SumOf(f, S) = SumOf(f, S)
BY DEF Gateway!SumOf, Gateway!MapThenSumSet, Gateway!MapThenFoldSet, SumOf, MapThenSumSet, MapThenFoldSet

Start(k) == resetAt[k] - RateWindow
Since(from) == {t \in 0 .. LongTime : from <= t}
Before(from) == {t \in 0 .. LongTime : from - RateWindow <= t /\ t < from}

GatewayTyped ==
  /\ gateNow \in 0 .. LongTime
  /\ groups \in [User -> {"user", "dpo"}]
  /\ gateCount \in [Gateway!Key -> Nat] /\ resetAt \in [Gateway!Key -> Nat]
  /\ allowed \in [Gateway!Key -> [0 .. LongTime -> Nat]]

(* The count of a key is of the requests since its window began, and of a
   window's length before it no more than the limit were let through. *)
WindowCounts(k) ==
  IF gateCount[k] = 0 THEN \A t \in 0 .. LongTime : allowed[k][t] = 0
  ELSE /\ 0 <= Start(k) /\ Start(k) <= gateNow
       /\ \A t \in 0 .. LongTime : t > gateNow \/ t > resetAt[k] => allowed[k][t] = 0
       /\ SumOf(allowed[k], Since(Start(k))) = gateCount[k]
       /\ gateCount[k] <= Gateway!MaxOf(k)
       /\ SumOf(allowed[k], Before(Start(k))) <= Gateway!MaxOf(k)

GatewayInv ==
  /\ GatewayTyped
  /\ \A k \in Gateway!Key : WindowCounts(k)
  /\ Gateway!AllowedPerWindow /\ Gateway!RefusedHasUsed

LEMMA TimesAreFinite ==
  ASSUME NEW T \in SUBSET (0 .. LongTime)
  PROVE  IsFiniteSet(T)
<1>1. IsFiniteSet(0 .. LongTime)
  BY ClockAssumption, FS_Interval
<1>. QED
  BY <1>1, FS_Subset

(* A limit is one of those of the key. *)
LEMMA LimitsOfKeys ==
  /\ \A k \in Gateway!Key : Gateway!MaxOf(k) \in Nat \ {0}
  /\ \A i \in Ip : RATE_LIMITS["anonymous"] = Gateway!MaxOf(i)
  /\ \A u \in User, g \in {"user", "dpo"} : RATE_LIMITS[g] <= Gateway!MaxOf(u)
<1>. DEFINE larger == Gateway!Max({RATE_LIMITS["user"], RATE_LIMITS["dpo"]})
<1>1. \E x \in {RATE_LIMITS["user"], RATE_LIMITS["dpo"]} :
        \A y \in {RATE_LIMITS["user"], RATE_LIMITS["dpo"]} : x >= y
  BY GatewayAssumption
<1>2. larger \in {RATE_LIMITS["user"], RATE_LIMITS["dpo"]}
      /\ \A y \in {RATE_LIMITS["user"], RATE_LIMITS["dpo"]} : larger >= y
  BY <1>1 DEF Gateway!Max
<1>. QED
  BY <1>2, GatewayAssumption DEF Gateway!MaxOf, Gateway!Key

(* A stretch that holds the present is within the two stretches that the
   limit bounds. *)
LEMMA StretchIsBounded ==
  ASSUME NEW G \in [0 .. LongTime -> Nat], NEW a \in Nat, NEW n \in Nat, n <= a + RateWindow, a <= n,
         NEW M \in Nat, SumOf(G, Since(a)) <= M, SumOf(G, Before(a)) <= M,
         NEW s \in Nat, s + RateWindow <= LongTime, n <= s + RateWindow, s <= n
  PROVE  SumOf(G, s .. s + RateWindow) <= 2 * M
<1>. USE ClockAssumption, GatewayAssumption
<1>1. Since(a) \subseteq 0 .. LongTime /\ Before(a) \subseteq 0 .. LongTime
  BY DEF Since, Before
<1>2. s .. s + RateWindow \subseteq Since(a) \cup Before(a)
  BY DEF Since, Before
<1>3. IsFiniteSet(Since(a)) /\ IsFiniteSet(Before(a)) /\ IsFiniteSet(s .. s + RateWindow)
  BY <1>1, <1>2, TimesAreFinite
<1>4. \A x \in Since(a) \cup Before(a) : G[x] \in Nat
  BY <1>1
<1>. HIDE ClockAssumption, GatewayAssumption
<1>5. SumOf(G, s .. s + RateWindow) <= SumOf(G, Since(a)) + SumOf(G, Before(a))
  BY <1>2, <1>3, <1>4, SumOfCover
<1>6. SumOf(G, s .. s + RateWindow) \in Int /\ SumOf(G, Since(a)) \in Int /\ SumOf(G, Before(a)) \in Int
  <2>1. \A x \in Since(a) \cup Before(a) : G[x] \in Int
    BY <1>4
  <2>2. \A x \in s .. s + RateWindow : G[x] \in Int
    BY <1>2, <2>1
  <2>. QED
    BY <1>3, <2>1, <2>2, SumOfType
<1>. QED
  BY <1>5, <1>6

(* A request that begins a window, when the window before has ended. *)
LEMMA WindowBegins ==
  ASSUME NEW G \in [0 .. LongTime -> Nat], NEW n \in 0 .. LongTime, NEW M \in Nat,
         \A t \in 0 .. LongTime : t >= n => G[t] = 0,
         \/ \A t \in 0 .. LongTime : G[t] = 0
         \/ \E a \in Nat : a + RateWindow < n /\ SumOf(G, Since(a)) <= M
  PROVE  /\ SumOf([G EXCEPT ![n] = G[n] + 1], Since(n)) = 1
         /\ SumOf([G EXCEPT ![n] = G[n] + 1], Before(n)) <= M
<1>. DEFINE H == [G EXCEPT ![n] = G[n] + 1]
<1>1. Since(n) \subseteq 0 .. LongTime /\ Before(n) \subseteq 0 .. LongTime
      /\ n \in Since(n) /\ n \notin Before(n)
  BY DEF Since, Before
<1>2. IsFiniteSet(Since(n)) /\ IsFiniteSet(Before(n))
  BY <1>1, TimesAreFinite
<1>0. /\ G[n] \in Int /\ H[n] = G[n] + 1
      /\ \A t \in Since(n) : G[t] \in Int /\ (t # n => H[t] = G[t])
      /\ \A t \in Before(n) : G[t] \in Int /\ (t # n => H[t] = G[t])
  BY <1>1
<1>. HIDE DEF H
<1>3. SumOf(H, Since(n)) = SumOf(G, Since(n)) + 1 /\ SumOf(H, Before(n)) = SumOf(G, Before(n))
  BY <1>0, <1>1, <1>2, SumOfIncrement
<1>4. SumOf(H, Since(n)) = 1
  <2>1. SumOf(G, Since(n)) = 0
    BY <1>2, SumOfZeros DEF Since
  <2>. QED
    BY <1>3, <2>1
<1>6. SumOf(G, Before(n)) <= M
  <2>1. CASE \A t \in 0 .. LongTime : G[t] = 0
    <3>1. SumOf(G, Before(n)) = 0
      BY <1>1, <1>2, <2>1, SumOfZeros
    <3>. QED
      BY <3>1
  <2>2. ASSUME NEW a \in Nat, a + RateWindow < n, SumOf(G, Since(a)) <= M PROVE SumOf(G, Before(n)) <= M
    <3>1. Before(n) \subseteq Since(a) /\ Since(a) \subseteq 0 .. LongTime
      BY <2>2, GatewayAssumption DEF Before, Since
    <3>2. IsFiniteSet(Since(a)) /\ \A t \in Since(a) : G[t] \in Nat
      BY <3>1, TimesAreFinite
    <3>3. SumOf(G, Before(n)) <= SumOf(G, Since(a))
      BY <3>1, <3>2, SumOfSubset
    <3>4. SumOf(G, Before(n)) \in Int /\ SumOf(G, Since(a)) \in Int
      <4>1. \A t \in Since(a) : G[t] \in Int
        BY <3>2
      <4>2. \A t \in Before(n) : G[t] \in Int
        BY <3>1, <4>1
      <4>. QED
        BY <1>2, <3>2, <4>1, <4>2, SumOfType
    <3>. QED
      BY <2>2, <3>3, <3>4
  <2>. QED
    BY <2>1, <2>2
<1>. QED
  BY <1>3, <1>4, <1>6 DEF H

(* A request of a window that has begun. *)
LEMMA WindowGoesOn ==
  ASSUME NEW G \in [0 .. LongTime -> Nat], NEW n \in 0 .. LongTime, NEW a \in Nat, a <= n
  PROVE  /\ SumOf([G EXCEPT ![n] = G[n] + 1], Since(a)) = SumOf(G, Since(a)) + 1
         /\ SumOf([G EXCEPT ![n] = G[n] + 1], Before(a)) = SumOf(G, Before(a))
<1>1. Since(a) \subseteq 0 .. LongTime /\ Before(a) \subseteq 0 .. LongTime
      /\ n \in Since(a) /\ n \notin Before(a)
  BY DEF Since, Before
<1>2. IsFiniteSet(Since(a)) /\ IsFiniteSet(Before(a))
  BY <1>1, TimesAreFinite
<1>. DEFINE H == [G EXCEPT ![n] = G[n] + 1]
<1>3. /\ G[n] \in Int /\ H[n] = G[n] + 1
      /\ \A t \in Since(a) : G[t] \in Int /\ (t # n => H[t] = G[t])
      /\ \A t \in Before(a) : G[t] \in Int /\ (t # n => H[t] = G[t])
  BY <1>1
<1>. HIDE DEF H
<1>4. SumOf(H, Since(a)) = SumOf(G, Since(a)) + 1 /\ SumOf(H, Before(a)) = SumOf(G, Before(a))
  BY <1>1, <1>2, <1>3, SumOfIncrement
<1>. QED
  BY <1>4 DEF H

(* Whoever has used a window up has done so within its length. *)
LEMMA WindowIsRecent ==
  ASSUME NEW G \in [0 .. LongTime -> Nat], NEW n \in 0 .. LongTime, NEW a \in Nat,
         n <= a + RateWindow,
         \A t \in 0 .. LongTime : t > n => G[t] = 0
  PROVE  SumOf(G, Since(a)) <= SumOf(G, (IF n < RateWindow THEN 0 ELSE n - RateWindow) .. n)
<1>. DEFINE lately == (IF n < RateWindow THEN 0 ELSE n - RateWindow) .. n
            later == {t \in 0 .. LongTime : t > n}
<1>1. Since(a) \subseteq lately \cup later /\ lately \subseteq 0 .. LongTime /\ later \subseteq 0 .. LongTime
  BY GatewayAssumption, ClockAssumption DEF Since
<1>2. IsFiniteSet(lately) /\ IsFiniteSet(later)
  BY <1>1, TimesAreFinite
<1>3. \A x \in lately \cup later : G[x] \in Nat
  BY <1>1
<1>4. \A x \in later : G[x] = 0
  OBVIOUS
<1>5. Since(a) \in SUBSET (lately \cup later) /\ IsFiniteSet(Since(a))
  BY <1>1, TimesAreFinite DEF Since
<1>. HIDE DEF lately, later
<1>6. SumOf(G, Since(a)) <= SumOf(G, lately) + SumOf(G, later)
  BY <1>2, <1>3, <1>5, SumOfCover
<1>7. SumOf(G, later) = 0
  BY <1>2, <1>4, SumOfZeros
<1>8. SumOf(G, lately) \in Int /\ SumOf(G, Since(a)) \in Int
  <2>1. \A x \in lately \cup later : G[x] \in Int
    BY <1>3
  <2>2. \A x \in Since(a) : G[x] \in Int
    BY <1>5, <2>1
  <2>. QED
    BY <1>2, <1>5, <2>1, <2>2, SumOfType
<1>9. SumOf(G, Since(a)) <= SumOf(G, lately)
  BY <1>6, <1>7, <1>8
<1>. QED
  BY <1>9 DEF lately

Within(k, s) == SumOf(allowed[k], s .. s + RateWindow) <= 2 * Gateway!MaxOf(k)
StretchBegins == {s \in Nat : s + RateWindow <= LongTime}
AllWithin == \A k \in Gateway!Key, s \in StretchBegins : Within(k, s)

(* AllowedPerWindow in the sums of this module. *)
LEMMA StretchesOfGateway == Gateway!AllowedPerWindow <=> AllWithin
<1>1. 0 .. LongTime - RateWindow = StretchBegins
  BY ClockAssumption, GatewayAssumption DEF StretchBegins
<1>. QED
  BY <1>1, GatewaySums DEF Gateway!AllowedPerWindow, Gateway!AllowedIn, AllWithin, Within

LEMMA GatewayStarts == Gateway!Init => GatewayInv
<1>. SUFFICES ASSUME Gateway!Init PROVE GatewayInv
  OBVIOUS
<1>. USE DEF Gateway!Init, Gateway!Time
<1>1. GatewayTyped
  BY ClockAssumption DEF GatewayTyped
<1>2. \A k \in Gateway!Key : WindowCounts(k)
  BY DEF WindowCounts
<1>3. ASSUME NEW k \in Gateway!Key, NEW s \in StretchBegins PROVE Within(k, s)
  <2>1. s .. s + RateWindow \subseteq 0 .. LongTime
    BY GatewayAssumption, ClockAssumption DEF StretchBegins
  <2>2. IsFiniteSet(s .. s + RateWindow) /\ \A t \in s .. s + RateWindow : allowed[k][t] = 0
    BY <2>1, TimesAreFinite
  <2>3. SumOf(allowed[k], s .. s + RateWindow) = 0
    BY <2>2, SumOfZeros
  <2>. QED
    BY <2>3, LimitsOfKeys DEF Within
<1>4. Gateway!RefusedHasUsed
  BY DEF Gateway!RefusedHasUsed
<1>. QED
  BY <1>1, <1>2, <1>3, <1>4, StretchesOfGateway DEF GatewayInv, AllWithin

(* What a request that is let through leaves of its key. *)
LEMMA RequestIsCounted ==
  ASSUME GatewayInv, NEW k \in Gateway!Key, NEW max \in Nat \ {0}, max <= Gateway!MaxOf(k),
         Gateway!Check(k, max), UNCHANGED gateNow, Gateway!Fresh(k) \/ ~Gateway!Full(k, max)
  PROVE  WindowCounts(k)' /\ \A s \in StretchBegins : Within(k, s)'
<1>. DEFINE G == allowed[k]
            n == gateNow
            H == [G EXCEPT ![n] = G[n] + 1]
            M == Gateway!MaxOf(k)
<1>0. /\ G \in [0 .. LongTime -> Nat] /\ n \in 0 .. LongTime /\ M \in Nat \ {0}
      /\ gateCount[k] \in Nat /\ resetAt[k] \in Nat /\ RateWindow \in Nat /\ LongTime \in Nat
  BY LimitsOfKeys, GatewayAssumption, ClockAssumption DEF GatewayInv, GatewayTyped
<1>1. allowed'[k] = H
  BY DEF Gateway!Check, GatewayInv, GatewayTyped
<1>2. /\ gateCount'[k] = IF Gateway!Fresh(k) THEN 1 ELSE gateCount[k] + 1
      /\ resetAt'[k] = IF Gateway!Fresh(k) THEN n + RateWindow ELSE resetAt[k]
  BY DEF Gateway!Check, Gateway!EndOfWindow, GatewayInv, GatewayTyped
<1>3. WindowCounts(k)
  BY DEF GatewayInv
<1>4. \A t \in 0 .. LongTime : t # n => H[t] = G[t]
  BY <1>0
<1>5. WindowCounts(k)'
  <2>1. CASE Gateway!Fresh(k)
    <3>1. \A t \in 0 .. LongTime : t >= n => G[t] = 0
      BY <1>0, <1>3, <2>1 DEF WindowCounts, Gateway!Fresh
    <3>2. \/ \A t \in 0 .. LongTime : G[t] = 0
          \/ \E a \in Nat : a + RateWindow < n /\ SumOf(G, Since(a)) <= M
      <4>1. CASE gateCount[k] = 0
        BY <1>3, <4>1 DEF WindowCounts
      <4>2. CASE gateCount[k] # 0
        <5>1. Start(k) \in Nat /\ Start(k) + RateWindow < n
          BY <1>0, <1>3, <2>1, <4>2 DEF WindowCounts, Gateway!Fresh, Start
        <5>2. SumOf(G, Since(Start(k))) <= M
          BY <1>3, <4>2 DEF WindowCounts
        <5>. QED
          BY <5>1, <5>2
      <4>. QED
        BY <4>1, <4>2
    <3>3. SumOf(H, Since(n)) = 1 /\ SumOf(H, Before(n)) <= M
      BY <1>0, <3>1, <3>2, WindowBegins
    <3>4. Start(k)' = n /\ gateCount'[k] = 1 /\ resetAt'[k] = n + RateWindow
      BY <1>0, <1>2, <2>1 DEF Start
    <3>5. \A t \in 0 .. LongTime : t > n \/ t > n + RateWindow => H[t] = 0
      BY <1>0, <1>4, <3>1
    <3>. HIDE DEF H, G, M
    <3>. QED
      BY <1>0, <1>1, <3>3, <3>4, <3>5 DEF WindowCounts, M
  <2>2. CASE ~Gateway!Fresh(k)
    <3>1. gateCount[k] > 0 /\ n <= resetAt[k] /\ gateCount[k] < max
      BY <1>0, <2>2 DEF Gateway!Fresh, Gateway!Full
    <3>2. /\ Start(k) \in Nat /\ Start(k) <= n
          /\ SumOf(G, Since(Start(k))) = gateCount[k] /\ SumOf(G, Before(Start(k))) <= M
          /\ \A t \in 0 .. LongTime : t > n \/ t > resetAt[k] => G[t] = 0
      BY <1>0, <1>3, <3>1 DEF WindowCounts, Start
    <3>3. /\ SumOf(H, Since(Start(k))) = SumOf(G, Since(Start(k))) + 1
          /\ SumOf(H, Before(Start(k))) = SumOf(G, Before(Start(k)))
      BY <1>0, <3>2, WindowGoesOn
    <3>4. Start(k)' = Start(k) /\ gateCount'[k] = gateCount[k] + 1 /\ resetAt'[k] = resetAt[k]
      BY <1>2, <2>2 DEF Start
    <3>5. \A t \in 0 .. LongTime : t > n \/ t > resetAt[k] => H[t] = 0
      BY <1>0, <1>4, <3>1, <3>2
    <3>. HIDE DEF H, G, M
    <3>. QED
      BY <1>0, <1>1, <3>1, <3>2, <3>3, <3>4, <3>5 DEF WindowCounts, M
  <2>. QED
    BY <2>1, <2>2
<1>6. ASSUME NEW s \in StretchBegins PROVE Within(k, s)'
  <2>0. s \in Nat /\ s + RateWindow <= LongTime /\ s .. s + RateWindow \subseteq 0 .. LongTime
    BY <1>0 DEF StretchBegins
  <2>1. CASE s <= n /\ n <= s + RateWindow
    <3>1. gateCount'[k] # 0 /\ Start(k)' \in Nat /\ Start(k)' <= n /\ n <= Start(k)' + RateWindow
      BY <1>0, <1>2, <1>3 DEF Start, WindowCounts, Gateway!Fresh
    <3>2. SumOf(H, Since(Start(k)')) <= M /\ SumOf(H, Before(Start(k)')) <= M
      BY <1>1, <1>5, <3>1 DEF WindowCounts
    <3>3. H \in [0 .. LongTime -> Nat]
      BY <1>0
    <3>. HIDE DEF H
    <3>4. PICK a \in Nat : a = Start(k)'
      BY <3>1
    <3>5. /\ a <= n /\ n <= a + RateWindow /\ n \in Nat /\ M \in Nat
          /\ SumOf(H, Since(a)) <= M /\ SumOf(H, Before(a)) <= M
      BY <1>0, <3>1, <3>2, <3>4
    <3>. HIDE DEF M, n
    <3>6. SumOf(H, s .. s + RateWindow) <= 2 * M
      BY <2>0, <2>1, <3>3, <3>5, StretchIsBounded
    <3>. QED
      BY <1>1, <3>6 DEF Within, M
  <2>2. CASE ~(s <= n /\ n <= s + RateWindow)
    <3>1. \A t \in s .. s + RateWindow : H[t] = G[t]
      BY <1>0, <1>4, <2>0, <2>2
    <3>2. IsFiniteSet(s .. s + RateWindow)
      BY <2>0, TimesAreFinite
    <3>. HIDE DEF H, G
    <3>3. SumOf(H, s .. s + RateWindow) = SumOf(G, s .. s + RateWindow)
      BY <3>1, <3>2, SumOfSame
    <3>4. SumOf(G, s .. s + RateWindow) <= 2 * M
      BY StretchesOfGateway DEF GatewayInv, AllWithin, Within, G
    <3>. QED
      BY <1>1, <3>3, <3>4 DEF Within
  <2>. QED
    BY <2>1, <2>2
<1>. QED
  BY <1>5, <1>6

(* Who is refused has used the window up. *)
LEMMA RefusedHasUsedIt ==
  ASSUME GatewayInv, NEW k \in Gateway!Key, NEW max \in Nat \ {0},
         ~Gateway!Fresh(k), Gateway!Full(k, max)
  PROVE  SumOf(allowed[k], (IF gateNow < RateWindow THEN 0 ELSE gateNow - RateWindow) .. gateNow) >= max
<1>. DEFINE G == allowed[k]
            n == gateNow
            lately == (IF n < RateWindow THEN 0 ELSE n - RateWindow) .. n
<1>0. /\ G \in [0 .. LongTime -> Nat] /\ n \in 0 .. LongTime /\ n \in Nat
      /\ gateCount[k] \in Nat /\ resetAt[k] \in Nat /\ RateWindow \in Nat
  BY GatewayAssumption, ClockAssumption DEF GatewayInv, GatewayTyped
<1>1. gateCount[k] > 0 /\ n <= resetAt[k] /\ gateCount[k] >= max
  BY <1>0 DEF Gateway!Fresh, Gateway!Full
<1>2. /\ Start(k) \in Nat /\ n <= Start(k) + RateWindow
      /\ SumOf(G, Since(Start(k))) = gateCount[k]
      /\ \A t \in 0 .. LongTime : t > n => G[t] = 0
  BY <1>0, <1>1 DEF GatewayInv, WindowCounts, Start
<1>3. SumOf(G, Since(Start(k))) <= SumOf(G, lately)
  BY <1>0, <1>2, WindowIsRecent
<1>4. SumOf(G, lately) \in Int
  <2>1. lately \subseteq 0 .. LongTime
    BY <1>0, ClockAssumption
  <2>2. \A t \in lately : G[t] \in Int
    <3>. HIDE DEF lately, G
    <3>1. \A t \in 0 .. LongTime : G[t] \in Nat
      BY <1>0
    <3>. QED
      BY <2>1, <3>1
  <2>. HIDE DEF lately, G
  <2>3. IsFiniteSet(lately)
    BY <2>1, TimesAreFinite
  <2>. QED
    BY <2>2, <2>3, SumOfType
<1>. QED
  BY <1>0, <1>1, <1>2, <1>3, <1>4

LEMMA CheckSteps ==
  ASSUME GatewayInv, NEW k \in Gateway!Key, NEW max \in Nat \ {0}, max <= Gateway!MaxOf(k),
         Gateway!Check(k, max), UNCHANGED <<gateNow, groups>>
  PROVE  GatewayInv'
<1>1. CASE Gateway!Fresh(k) \/ ~Gateway!Full(k, max)
  <2>1. GatewayTyped'
    <3>. USE DEF GatewayInv, GatewayTyped, Gateway!Check
    <3>1. gateCount' \in [Gateway!Key -> Nat]
      <4>1. gateCount' = [gateCount EXCEPT ![k] = IF Gateway!Fresh(k) THEN 1 ELSE gateCount[k] + 1]
        BY <1>1
      <4>2. gateCount[k] + 1 \in Nat
        OBVIOUS
      <4>. QED
        BY <4>1, <4>2
    <3>2. resetAt' \in [Gateway!Key -> Nat]
      BY <1>1, GatewayAssumption DEF Gateway!EndOfWindow
    <3>3. allowed' \in [Gateway!Key -> [0 .. LongTime -> Nat]]
      <4>0. allowed[k] \in [0 .. LongTime -> Nat] /\ gateNow \in 0 .. LongTime
        OBVIOUS
      <4>1. [allowed[k] EXCEPT ![gateNow] = allowed[k][gateNow] + 1] \in [0 .. LongTime -> Nat]
        BY <4>0
      <4>2. allowed' = [allowed EXCEPT ![k] = [allowed[k] EXCEPT ![gateNow] = allowed[k][gateNow] + 1]]
        BY <1>1
      <4>. QED
        BY <4>1, <4>2
    <3>. QED
      BY <3>1, <3>2, <3>3
  <2>2. WindowCounts(k)' /\ \A s \in StretchBegins : Within(k, s)'
    BY <1>1, RequestIsCounted
  <2>3. ASSUME NEW j \in Gateway!Key, j # k
        PROVE  WindowCounts(j)' /\ \A s \in StretchBegins : Within(j, s)'
    <3>1. allowed'[j] = allowed[j] /\ gateCount'[j] = gateCount[j] /\ resetAt'[j] = resetAt[j]
      BY <1>1, <2>3 DEF GatewayInv, GatewayTyped, Gateway!Check
    <3>2. WindowCounts(j) /\ \A s \in StretchBegins : Within(j, s)
      BY StretchesOfGateway DEF GatewayInv, AllWithin
    <3>. QED
      BY <3>1, <3>2 DEF WindowCounts, Within, Start
  <2>4. Gateway!AllowedPerWindow'
    <3>1. AllWithin'
      BY <2>2, <2>3 DEF AllWithin
    <3>. QED
      BY <3>1, StretchesOfGateway, PTL
  <2>5. Gateway!RefusedHasUsed'
    BY <1>1 DEF Gateway!Check, Gateway!RefusedHasUsed
  <2>. QED
    BY <2>1, <2>2, <2>3, <2>4, <2>5 DEF GatewayInv
<1>2. CASE ~(Gateway!Fresh(k) \/ ~Gateway!Full(k, max))
  <2>1. UNCHANGED <<gateNow, groups, gateCount, resetAt, allowed>>
        /\ gateRefused' = {[key |-> k, max |-> max]}
    BY <1>2 DEF Gateway!Check
  <2>2. SumOf(allowed[k], (IF gateNow < RateWindow THEN 0 ELSE gateNow - RateWindow) .. gateNow) >= max
    BY <1>2, RefusedHasUsedIt
  <2>3. Gateway!RefusedHasUsed'
    BY <2>1, <2>2, GatewaySums DEF Gateway!RefusedHasUsed, Gateway!AllowedIn
  <2>4. GatewayTyped' /\ Gateway!AllowedPerWindow'
    BY <2>1 DEF GatewayInv, GatewayTyped, Gateway!AllowedPerWindow, Gateway!AllowedIn
  <2>5. \A j \in Gateway!Key : WindowCounts(j)'
    BY <2>1 DEF GatewayInv, WindowCounts, Start
  <2>. QED
    BY <2>3, <2>4, <2>5 DEF GatewayInv
<1>. QED
  BY <1>1, <1>2

LEMMA GatewaySteps == GatewayInv /\ [Gateway!Next]_(Gateway!vars) => GatewayInv'
<1>. SUFFICES ASSUME GatewayInv, [Gateway!Next]_(Gateway!vars) PROVE GatewayInv'
  OBVIOUS
<1>1. CASE UNCHANGED Gateway!vars
  BY <1>1 DEF GatewayInv, GatewayTyped, WindowCounts, Start, Gateway!AllowedPerWindow, Gateway!AllowedIn,
     Gateway!RefusedHasUsed, Gateway!vars
<1>2. ASSUME NEW u \in User, Gateway!Known(u) PROVE GatewayInv'
  <2>1. groups[u] \in {"user", "dpo"} /\ u \in Gateway!Key
    BY DEF GatewayInv, GatewayTyped, Gateway!Key
  <2>2. RATE_LIMITS[groups[u]] \in Nat \ {0} /\ RATE_LIMITS[groups[u]] <= Gateway!MaxOf(u)
    BY <2>1, LimitsOfKeys, GatewayAssumption
  <2>. QED
    BY <1>2, <2>1, <2>2, CheckSteps DEF Gateway!Known
<1>3. ASSUME NEW ip \in Ip, Gateway!Anonymous(ip) PROVE GatewayInv'
  <2>1. ip \in Gateway!Key
    BY DEF Gateway!Key
  <2>2. RATE_LIMITS["anonymous"] \in Nat \ {0} /\ RATE_LIMITS["anonymous"] <= Gateway!MaxOf(ip)
    BY <2>1, LimitsOfKeys, GatewayAssumption
  <2>. QED
    BY <1>3, <2>1, <2>2, CheckSteps DEF Gateway!Anonymous
<1>4. CASE Gateway!Tick
  <2>1. /\ gateNow' = gateNow + 1 /\ gateNow < LongTime /\ gateRefused' = {}
        /\ UNCHANGED <<groups, gateCount, resetAt, allowed>>
    BY <1>4 DEF Gateway!Tick
  <2>2. GatewayTyped'
    BY <2>1, ClockAssumption DEF GatewayInv, GatewayTyped
  <2>3. ASSUME NEW k \in Gateway!Key PROVE WindowCounts(k)'
    <3>1. WindowCounts(k) /\ Start(k)' = Start(k) /\ Start(k) \in Int /\ gateNow \in Int
      BY <2>1, GatewayAssumption DEF GatewayInv, GatewayTyped, Start
    <3>. QED
      BY <2>1, <3>1 DEF WindowCounts
  <2>4. Gateway!AllowedPerWindow' /\ Gateway!RefusedHasUsed'
    BY <2>1 DEF GatewayInv, Gateway!AllowedPerWindow, Gateway!AllowedIn, Gateway!RefusedHasUsed
  <2>. QED
    BY <2>2, <2>3, <2>4 DEF GatewayInv
<1>5. ASSUME UNCHANGED <<gateNow, gateCount, resetAt, allowed>>, gateRefused' = {}, GatewayTyped'
      PROVE  GatewayInv'
  <2>1. Gateway!AllowedPerWindow' /\ Gateway!RefusedHasUsed'
    BY <1>5 DEF GatewayInv, Gateway!AllowedPerWindow, Gateway!AllowedIn, Gateway!RefusedHasUsed
  <2>2. \A k \in Gateway!Key : WindowCounts(k)'
    BY <1>5 DEF GatewayInv, WindowCounts, Start
  <2>. QED
    BY <1>5, <2>1, <2>2 DEF GatewayInv
<1>6. CASE Gateway!BadToken
  BY <1>5, <1>6 DEF GatewayInv, GatewayTyped, Gateway!BadToken
<1>7. ASSUME NEW u \in User, Gateway!ChangeRole(u) PROVE GatewayInv'
  <2>1. GatewayTyped'
    BY <1>7 DEF GatewayInv, GatewayTyped, Gateway!ChangeRole
  <2>. QED
    BY <1>5, <1>7, <2>1 DEF Gateway!ChangeRole
<1>. QED
  BY <1>1, <1>2, <1>3, <1>4, <1>6, <1>7 DEF Gateway!Next

(***************************************************************************)
(* For any users, addresses, limits and window: no key of the limiter is   *)
(* let through more than twice its limit in any stretch as long as a       *)
(* window, whoever is refused has used his limit up within one, and a      *)
(* session that the API takes is one the pages take, for the same user,    *)
(* but for the second it expires in.                                       *)
(***************************************************************************)
THEOREM WayInIsKept == Door!Spec /\ Gateway!Spec => []WayInHolds
<1>1. Door!Spec => []DoorTyped
  BY DoorStarts, DoorSteps, PTL DEF Door!Spec
<1>2. Gateway!Spec => []GatewayInv
  BY GatewayStarts, GatewaySteps, PTL DEF Gateway!Spec
<1>3. DoorTyped /\ GatewayInv => WayInHolds
  BY SessionsAgree DEF GatewayInv, WayInHolds
<1>. QED
  BY <1>1, <1>2, <1>3, PTL

----
(***************************************************************************)
(* NitCache.                                                               *)
(***************************************************************************)
NitEntry == [verified : BOOLEAN, expires : Nat, kept : BOOLEAN]
NitAsked == [nit : Nit, active : BOOLEAN, at : Nat]

NitTyped ==
  /\ nitNow \in Nat
  /\ DOMAIN since = Nit /\ \A n \in Nit : since[n] \subseteq 0 .. nitNow
  /\ cache \in [Nit -> NitEntry]
  /\ nitPc \in [Worker -> {"idle", "lookup", "stamp", "put"}]
  /\ nitCall \in [Worker -> NitAsked]
  /\ answer.nit \in Nit /\ answer.at \in Nat

(* A good entry expires no later than a lifetime and a delay after a time at
   which the registry said so; S: the times at which it did. *)
Founded(entry, S) == entry.kept /\ entry.verified => \E t \in S : entry.expires <= t + NitDelay + NitTtl

(* An answer on its way is no older than the delay, and a good one was true
   when it was sent; so a stamp is a delay after that at most. *)
OnItsWay(a, S, t) ==
  a.at <= t /\ t <= a.at + NitDelay /\ (a.active => a.at \in S)

Stamped(a, S) == a.active => \E t \in S : a.at <= t + NitDelay

NitInv ==
  /\ NitTyped
  /\ \A n \in Nit : registry[n] = "ACTIVA" => nitNow \in since[n]
  /\ \A n \in Nit : Founded(cache[n], since[n])
  /\ \A w \in Worker : nitPc[w] = "stamp" => OnItsWay(nitCall[w], since[nitCall[w].nit], nitNow)
  /\ \A w \in Worker : nitPc[w] = "put" => Stamped(nitCall[w], since[nitCall[w].nit])
  /\ NitCache!AnswerIsFresh

LEMMA ANit == (CHOOSE n \in Nit : TRUE) \in Nit
BY NitCacheAssumption

LEMMA NoNitCall == NitCache!NoCall \in NitAsked
BY ANit DEF NitCache!NoCall, NitAsked

LEMMA NitStarts == NitCache!Init => NitInv
<1>. SUFFICES ASSUME NitCache!Init PROVE NitInv
  OBVIOUS
<1>1. /\ nitNow = 0 /\ since = [n \in Nit |-> IF registry[n] = "ACTIVA" THEN {} \cup {0} ELSE {}]
      /\ cache = [n \in Nit |-> NitCache!NoEntry]
      /\ nitPc = [w \in Worker |-> "idle"] /\ nitCall = [w \in Worker |-> NitCache!NoCall]
      /\ answer = NitCache!NoAnswer
  BY DEF NitCache!Init, NitCache!ActiveAt
<1>2. NitTyped
  BY <1>1, ANit, NoNitCall DEF NitTyped, NitEntry, NitCache!NoEntry, NitCache!NoAnswer
<1>. QED
  BY <1>1, <1>2 DEF NitInv, Founded, NitCache!NoEntry, NitCache!NoAnswer, NitCache!AnswerIsFresh

(* The times at which the registry would have said so only become more. *)
LEMMA FoundedStill == ASSUME NEW e, NEW S, NEW T, S \subseteq T, Founded(e, S) PROVE Founded(e, T)
BY DEF Founded

LEMMA StampedStill == ASSUME NEW e, NEW S, NEW T, S \subseteq T, Stamped(e, S) PROVE Stamped(e, T)
BY DEF Stamped

LEMMA FreshStill ==
  ASSUME NitInv, DOMAIN since' = Nit, \A n \in Nit : since[n] \subseteq since'[n], UNCHANGED answer
  PROVE  NitCache!AnswerIsFresh'
BY DEF NitInv, NitTyped, NitCache!AnswerIsFresh

LEMMA NitSteps == NitInv /\ [NitCache!Next]_(NitCache!vars) => NitInv'
<1>. SUFFICES ASSUME NitInv, [NitCache!Next]_(NitCache!vars) PROVE NitInv'
  OBVIOUS
<1>. USE DEF NitInv, NitTyped
<1>1. CASE UNCHANGED NitCache!vars
  BY <1>1 DEF NitCache!vars, NitCache!AnswerIsFresh
<1>2. ASSUME NEW w \in Worker, NEW n \in Nit, NitCache!VerifyFromCache(w, n) PROVE NitInv'
  <2>1. /\ cache[n].kept /\ ~(cache[n].expires < nitNow) /\ cache[n] \in NitEntry
        /\ answer' = [nit |-> n, verified |-> cache[n].verified, at |-> nitNow]
        /\ UNCHANGED <<nitNow, registry, since, cache, nitPc, nitCall>>
    BY <1>2 DEF NitCache!VerifyFromCache, NitCache!Live
  <2>2. NitCache!AnswerIsFresh'
    <3>1. CASE cache[n].verified
      <4>1. PICK t \in since[n] : cache[n].expires <= t + NitDelay + NitTtl
        BY <2>1, <3>1 DEF Founded
      <4>2. t \in 0 .. nitNow /\ cache[n].expires \in Nat
        BY <2>1 DEF NitEntry
      <4>3. t <= nitNow /\ nitNow <= t + NitDelay + NitTtl
        BY <2>1, <4>1, <4>2, NitCacheAssumption
      <4>. QED
        BY <2>1, <4>3 DEF NitCache!AnswerIsFresh
    <3>2. CASE ~cache[n].verified
      BY <2>1, <3>2 DEF NitCache!AnswerIsFresh
    <3>. QED
      BY <3>1, <3>2
  <2>. QED
    BY <2>1, <2>2
<1>3. ASSUME NEW w \in Worker, NEW n \in Nit, NitCache!VerifyMiss(w, n) PROVE NitInv'
  <2>1. /\ UNCHANGED <<nitNow, registry, since, cache, answer>>
        /\ nitPc' = [nitPc EXCEPT ![w] = "lookup"] /\ nitCall' = [nitCall EXCEPT ![w].nit = n]
    BY <1>3 DEF NitCache!VerifyMiss
  <2>2. nitCall' \in [Worker -> NitAsked] /\ \A v \in Worker : v # w => nitCall'[v] = nitCall[v]
    BY <2>1 DEF NitAsked
  <2>. QED
    BY <2>1, <2>2 DEF NitCache!AnswerIsFresh
<1>4. ASSUME NEW w \in Worker, NitCache!Lookup(w) PROVE NitInv'
  <2>1. PICK good \in BOOLEAN : good = (registry[nitCall[w].nit] = "ACTIVA")
    OBVIOUS
  <2>2. /\ UNCHANGED <<nitNow, registry, since, cache, answer>>
        /\ nitPc' = [nitPc EXCEPT ![w] = "stamp"]
        /\ nitCall' = [nitCall EXCEPT ![w].active = good, ![w].at = nitNow]
    BY <1>4, <2>1 DEF NitCache!Lookup
  <2>3. /\ nitCall' \in [Worker -> NitAsked] /\ \A v \in Worker : v # w => nitCall'[v] = nitCall[v]
        /\ nitCall'[w].nit = nitCall[w].nit /\ nitCall'[w].active = good /\ nitCall'[w].at = nitNow
        /\ nitCall[w].nit \in Nit
    BY <2>2 DEF NitAsked
  <2>4. OnItsWay(nitCall'[w], since[nitCall[w].nit], nitNow)
    <3>1. nitNow <= nitNow + NitDelay /\ nitNow <= nitNow
      BY NitCacheAssumption
    <3>2. good => nitNow \in since[nitCall[w].nit]
      BY <2>1, <2>3
    <3>. QED
      BY <2>3, <3>1, <3>2 DEF OnItsWay
  <2>. QED
    BY <2>2, <2>3, <2>4 DEF NitCache!AnswerIsFresh
<1>5. ASSUME NEW w \in Worker, NitCache!Stamp(w) PROVE NitInv'
  <2>1. /\ UNCHANGED <<nitNow, registry, since, cache, answer>> /\ nitPc[w] = "stamp"
        /\ nitPc' = [nitPc EXCEPT ![w] = "put"] /\ nitCall' = [nitCall EXCEPT ![w].at = nitNow]
    BY <1>5 DEF NitCache!Stamp
  <2>2. /\ nitCall' \in [Worker -> NitAsked] /\ \A v \in Worker : v # w => nitCall'[v] = nitCall[v]
        /\ nitCall'[w].nit = nitCall[w].nit /\ nitCall'[w].active = nitCall[w].active
        /\ nitCall'[w].at = nitNow
    BY <2>1 DEF NitAsked
  <2>3. Stamped(nitCall'[w], since[nitCall[w].nit])
    BY <2>1, <2>2 DEF OnItsWay, Stamped
  <2>. QED
    BY <2>1, <2>2, <2>3 DEF NitCache!AnswerIsFresh
<1>6. ASSUME NEW w \in Worker, NitCache!Put(w) PROVE NitInv'
  <2>. DEFINE n == nitCall[w].nit
              value == NitCache!Value(nitCall[w].active, nitCall[w].at)
  <2>1. /\ nitPc[w] = "put" /\ nitPc' = [nitPc EXCEPT ![w] = "idle"]
        /\ cache' = [cache EXCEPT ![n] = value] /\ nitCall' = [nitCall EXCEPT ![w] = NitCache!NoCall]
        /\ UNCHANGED <<nitNow, registry, since, answer>>
    BY <1>6 DEF NitCache!Put
  <2>2. /\ n \in Nit /\ nitCall[w].active \in BOOLEAN /\ nitCall[w].at \in Nat /\ nitCall[w] \in NitAsked
        /\ since[n] \subseteq Int
    BY DEF NitAsked
  <2>3. value.verified = nitCall[w].active /\ value.expires = nitCall[w].at + NitTtl /\ value \in NitEntry
    BY <2>2, NitCacheAssumption DEF NitCache!Value, NitEntry
  <2>4. Founded(value, since[n])
    <3>1. Stamped(nitCall[w], since[n])
      BY <2>1
    <3>. HIDE DEF value, n
    <3>. QED
      BY <2>2, <2>3, <3>1, NitCacheAssumption DEF Stamped, Founded
  <2>. HIDE DEF value, n
  <2>5. cache' \in [Nit -> NitEntry] /\ \A m \in Nit : Founded(cache'[m], since[m])
    BY <2>1, <2>2, <2>3, <2>4
  <2>6. nitCall' \in [Worker -> NitAsked] /\ \A v \in Worker : v # w => nitCall'[v] = nitCall[v]
    BY <2>1, NoNitCall
  <2>. QED
    BY <2>1, <2>5, <2>6 DEF NitCache!AnswerIsFresh
<1>7. ASSUME NEW w \in Worker, NitCache!VerifyFails(w) PROVE NitInv'
  BY <1>7, NoNitCall DEF NitCache!VerifyFails, NitCache!AnswerIsFresh
<1>8. ASSUME NEW n \in Nit, NEW s \in NitCache!Status, NitCache!RegistryChanges(n, s) PROVE NitInv'
  <2>1. /\ UNCHANGED <<nitNow, cache, nitPc, nitCall, answer>>
        /\ since' = [m \in Nit |-> IF registry'[m] = "ACTIVA" THEN since[m] \cup {nitNow} ELSE since[m]]
    BY <1>8 DEF NitCache!RegistryChanges, NitCache!ActiveAt
  <2>2. /\ DOMAIN since' = Nit
        /\ \A m \in Nit : /\ since[m] \subseteq since'[m] /\ since'[m] \subseteq 0 .. nitNow
                          /\ registry'[m] = "ACTIVA" => nitNow \in since'[m]
    BY <2>1
  <2>3. \A v \in Worker : nitCall[v].nit \in Nit
    BY DEF NitAsked
  <2>4. /\ \A m \in Nit : Founded(cache[m], since'[m])
        /\ \A v \in Worker : nitPc[v] = "put" => Stamped(nitCall[v], since'[nitCall[v].nit])
    BY <2>2, <2>3, FoundedStill, StampedStill
  <2>5. \A v \in Worker : nitPc[v] = "stamp" => OnItsWay(nitCall[v], since'[nitCall[v].nit], nitNow)
    BY <2>2, <2>3 DEF OnItsWay
  <2>. QED
    BY <2>1, <2>2, <2>4, <2>5, FreshStill
<1>9. CASE NitCache!Tick
  <2>1. /\ UNCHANGED <<registry, cache, nitPc, nitCall, answer>> /\ nitNow' = nitNow + 1
        /\ since' = [m \in Nit |-> IF registry[m] = "ACTIVA" THEN since[m] \cup {nitNow'} ELSE since[m]]
        /\ \A w \in Worker : nitPc[w] = "stamp" => nitNow < nitCall[w].at + NitDelay
    BY <1>9 DEF NitCache!Tick, NitCache!ActiveAt
  <2>2. /\ DOMAIN since' = Nit
        /\ \A m \in Nit : /\ since[m] \subseteq since'[m] /\ since'[m] \subseteq 0 .. nitNow'
                          /\ registry[m] = "ACTIVA" => nitNow' \in since'[m]
    BY <2>1
  <2>3. \A v \in Worker : nitCall[v].nit \in Nit /\ nitCall[v].at \in Nat
    BY DEF NitAsked
  <2>4. /\ \A m \in Nit : Founded(cache[m], since'[m])
        /\ \A v \in Worker : nitPc[v] = "put" => Stamped(nitCall[v], since'[nitCall[v].nit])
    BY <2>2, <2>3, FoundedStill, StampedStill
  <2>5. \A v \in Worker : nitPc[v] = "stamp" => OnItsWay(nitCall[v], since'[nitCall[v].nit], nitNow')
    BY <2>1, <2>2, <2>3, NitCacheAssumption DEF OnItsWay
  <2>6. nitNow' \in Nat
    BY <2>1
  <2>. QED
    BY <2>1, <2>2, <2>4, <2>5, <2>6, FreshStill
<1>. QED
  BY <1>1, <1>2, <1>3, <1>4, <1>5, <1>6, <1>7, <1>8, <1>9 DEF NitCache!Next

----
(***************************************************************************)
(* IpReputation.                                                           *)
(***************************************************************************)
Past == 0 .. ipNow
Never == LongTime + 1

IpCall ==
  [ip : Ip, result : [tor : BOOLEAN, type : {"-", "VPN", "TOR", "DCH", "none"}, located : BOOLEAN],
   since : 0 .. Never]

IpTyped ==
  /\ ipNow \in 0 .. LongTime
  /\ DOMAIN ipCache = Ip /\ ipExpires \in [Ip -> Int]
  /\ ipPc \in [Worker -> {"idle", "fetching", "writing"}]
  /\ ipCall \in [Worker -> IpCall]
  /\ ipAnswer.ip \in Ip /\ ipAnswer.at \in Int
  /\ seen.listed \in [Ip -> Past \cup {Never}] /\ seen.unlisted \in [Ip -> Past \cup {Never}]
  /\ seen.up \in Past \cup {Never} /\ seen.down \in Past \cup {Never}

(* What the sources say is seen now. *)
SeenNow ==
  /\ \A i \in Ip : IF i \in torList THEN seen.listed[i] = ipNow ELSE seen.unlisted[i] = ipNow
  /\ IF loaded THEN seen.up = ipNow ELSE seen.down = ipNow

Later(time, s) == time # Never /\ time >= s

(* The sources have said at s or later that i is an exit node, or that it is
   none. *)
Vouched(i, tor, s) ==
  IF tor
  THEN Later(seen.listed[i], s) \/ (Px2[i] = "TOR" /\ Later(seen.up, s))
  ELSE Later(seen.unlisted[i], s) /\ (Px2[i] = "TOR" => Later(seen.down, s))

(* What the engine told a lookup that has still to read the list. *)
EngineSaid(i, type, s) ==
  IF type = "TOR" THEN Px2[i] = "TOR" /\ Later(seen.up, s)
  ELSE Px2[i] = "TOR" => Later(seen.down, s)

RowIsFounded(i) ==
  ipCache[i] # IpReputation!NoResult =>
    /\ ipNow <= ipExpires[i] + Lag
    /\ Vouched(i, ipCache[i].tor, ipExpires[i] - IpTtl - Span)

LookupIsFounded(w) ==
  /\ ipPc[w] # "idle" => ipCall[w].since <= ipNow /\ ipNow <= ipCall[w].since + Span
  /\ ipPc[w] = "fetching" => EngineSaid(ipCall[w].ip, ipCall[w].result.type, ipCall[w].since)
  /\ ipPc[w] = "writing" => Vouched(ipCall[w].ip, ipCall[w].result.tor, ipCall[w].since)

AnswerIsFounded ==
  ipAnswer.at # Never => Vouched(ipAnswer.ip, ipAnswer.tor, ipAnswer.at - IpTtl - Lag - Span)

IpInv ==
  /\ IpTyped /\ SeenNow
  /\ \A i \in Ip : RowIsFounded(i)
  /\ \A w \in Worker : LookupIsFounded(w)
  /\ AnswerIsFounded

LEMMA IpStarts == IpReputation!Init => IpInv
<1>. SUFFICES ASSUME IpReputation!Init PROVE IpInv
  OBVIOUS
<1>1. (CHOOSE i \in Ip : TRUE) \in Ip
  BY IpReputationAssumption
<1>. USE DEF IpReputation!Init
<1>2. IpTyped
  <2>1. IpReputation!NoCall \in IpCall
    BY <1>1, ClockAssumption DEF IpReputation!NoCall, IpReputation!NoResult, IpCall, IpReputation!Never, Never
  <2>2. ipNow \in 0 .. LongTime /\ DOMAIN ipCache = Ip /\ ipExpires \in [Ip -> Int]
        /\ ipPc \in [Worker -> {"idle", "fetching", "writing"}]
    BY ClockAssumption
  <2>3. ipAnswer.ip \in Ip /\ ipAnswer.at \in Int
    BY <1>1, ClockAssumption DEF IpReputation!NoAnswer, IpReputation!Never
  <2>4. /\ seen.listed \in [Ip -> Past \cup {Never}] /\ seen.unlisted \in [Ip -> Past \cup {Never}]
        /\ seen.up \in Past \cup {Never} /\ seen.down \in Past \cup {Never}
    BY DEF Past, Never, IpReputation!Never
  <2>. QED
    BY <2>1, <2>2, <2>3, <2>4 DEF IpTyped
<1>3. SeenNow
  BY DEF SeenNow
<1>4. (\A i \in Ip : RowIsFounded(i)) /\ \A w \in Worker : LookupIsFounded(w)
  BY DEF RowIsFounded, LookupIsFounded
<1>5. AnswerIsFounded
  BY DEF AnswerIsFounded, IpReputation!NoAnswer, IpReputation!Never, Never
<1>. QED
  BY <1>2, <1>3, <1>4, <1>5 DEF IpInv

LEMMA PastOrNever ==
  ASSUME NEW x \in Past \cup {Never}
  PROVE  x = Never \/ (x \in Int /\ x <= ipNow)
BY DEF Past

(* Time goes on and the sources are looked at again, or nothing happens to
   them: what they have said they have said. *)
SeenGoesOn ==
  \/ UNCHANGED <<ipNow, torList, loaded, seen>>
  \/ /\ ipNow' \in {ipNow, ipNow + 1} /\ ipNow' <= LongTime
     /\ IpReputation!Witness

LEMMA SourcesGoOn ==
  ASSUME IpInv, SeenGoesOn
  PROVE  /\ SeenNow' /\ ipNow' \in 0 .. LongTime
         /\ seen.listed' \in [Ip -> Past' \cup {Never}] /\ seen.unlisted' \in [Ip -> Past' \cup {Never}]
         /\ seen.up' \in Past' \cup {Never} /\ seen.down' \in Past' \cup {Never}
         /\ \A i \in Ip, s \in Int : \A tor : Vouched(i, tor, s) => Vouched(i, tor, s)'
         /\ \A i \in Ip, s \in Int : \A type : EngineSaid(i, type, s) => EngineSaid(i, type, s)'
<1>1. CASE UNCHANGED <<ipNow, torList, loaded, seen>>
  BY <1>1 DEF IpInv, IpTyped, SeenNow, Past, Vouched, EngineSaid, Later
<1>2. CASE ipNow' \in {ipNow, ipNow + 1} /\ ipNow' <= LongTime /\ IpReputation!Witness
  <2>0. /\ seen'.listed = [i \in Ip |-> IF i \in torList' THEN ipNow' ELSE seen.listed[i]]
        /\ seen'.unlisted = [i \in Ip |-> IF i \in torList' THEN seen.unlisted[i] ELSE ipNow']
        /\ seen'.up = IF loaded' THEN ipNow' ELSE seen.up
        /\ seen'.down = IF loaded' THEN seen.down ELSE ipNow'
    BY <1>2 DEF IpReputation!Witness
  <2>. ipNow \in Int
    BY DEF IpInv, IpTyped
  <2>1. ipNow' \in 0 .. LongTime /\ ipNow' >= ipNow /\ ipNow' \in Int /\ Past \subseteq Past'
        /\ ipNow' \in Past'
    BY <1>2, ClockAssumption DEF IpInv, IpTyped, Past
  <2>2. SeenNow'
    BY <2>0 DEF SeenNow
  <2>3. /\ seen.listed \in [Ip -> Past \cup {Never}] /\ seen.unlisted \in [Ip -> Past \cup {Never}]
        /\ seen.up \in Past \cup {Never} /\ seen.down \in Past \cup {Never}
    BY DEF IpInv, IpTyped
  <2>4. /\ seen.listed' \in [Ip -> Past' \cup {Never}] /\ seen.unlisted' \in [Ip -> Past' \cup {Never}]
        /\ seen.up' \in Past' \cup {Never} /\ seen.down' \in Past' \cup {Never}
    BY <2>0, <2>1, <2>3
  <2>5. Never \in Int /\ ipNow' # Never /\ ipNow' < Never
    BY <2>1, ClockAssumption DEF Never
  <2>6. \A i \in Ip : /\ seen.listed[i] = Never \/ (seen.listed[i] \in Int /\ seen.listed[i] <= ipNow)
                      /\ seen.unlisted[i] = Never \/ (seen.unlisted[i] \in Int /\ seen.unlisted[i] <= ipNow)
    <3>1. \A i \in Ip : seen.listed[i] \in Past \cup {Never} /\ seen.unlisted[i] \in Past \cup {Never}
      BY <2>3
    <3>. QED
      BY <3>1, PastOrNever
  <2>7. /\ seen.up = Never \/ (seen.up \in Int /\ seen.up <= ipNow)
        /\ seen.down = Never \/ (seen.down \in Int /\ seen.down <= ipNow)
    BY <2>3, PastOrNever
  <2>8. ASSUME NEW i \in Ip, NEW s \in Int
        PROVE  /\ Later(seen.listed[i], s) => Later(seen.listed[i], s)'
               /\ Later(seen.unlisted[i], s) => Later(seen.unlisted[i], s)'
               /\ Later(seen.up, s) => Later(seen.up, s)'
               /\ Later(seen.down, s) => Later(seen.down, s)'
    <3>1. ASSUME NEW x, x = Never \/ (x \in Int /\ x <= ipNow), Later(x, s) PROVE Later(ipNow', s)
      BY <2>1, <2>5, <3>1 DEF Later
    <3>2. /\ seen'.listed[i] \in {seen.listed[i], ipNow'} /\ seen'.unlisted[i] \in {seen.unlisted[i], ipNow'}
          /\ seen'.up \in {seen.up, ipNow'} /\ seen'.down \in {seen.down, ipNow'}
      BY <2>0
    <3>3. /\ Later(seen.listed[i], s) => Later(seen'.listed[i], s)
          /\ Later(seen.unlisted[i], s) => Later(seen'.unlisted[i], s)
      <4>1. /\ seen.listed[i] = Never \/ (seen.listed[i] \in Int /\ seen.listed[i] <= ipNow)
            /\ seen.unlisted[i] = Never \/ (seen.unlisted[i] \in Int /\ seen.unlisted[i] <= ipNow)
        BY <2>6
      <4>. QED
        BY <3>1, <3>2, <4>1
    <3>4. /\ Later(seen.up, s) => Later(seen'.up, s)
          /\ Later(seen.down, s) => Later(seen'.down, s)
      BY <2>7, <3>1, <3>2
    <3>. QED
      BY <3>3, <3>4 DEF Later
  <2>9. \A i \in Ip, s \in Int : \A tor : Vouched(i, tor, s) => Vouched(i, tor, s)'
    BY <2>8 DEF Vouched
  <2>10. \A i \in Ip, s \in Int : \A type : EngineSaid(i, type, s) => EngineSaid(i, type, s)'
    BY <2>8, IpReputationAssumption DEF EngineSaid
  <2>. QED
    BY <2>1, <2>2, <2>4, <2>9, <2>10
<1>. QED
  BY <1>1, <1>2 DEF SeenGoesOn

(* What was said lately was said since before. *)
LEMMA VouchedSince ==
  ASSUME IpTyped, NEW i \in Ip, NEW tor, NEW s \in Int, NEW r \in Int, r <= s, Vouched(i, tor, s)
  PROVE  Vouched(i, tor, r)
<1>1. Never \in Int /\ Past \subseteq Int
  BY ClockAssumption DEF Never, Past, IpTyped
<1>2. seen.listed[i] \in Int /\ seen.unlisted[i] \in Int /\ seen.up \in Int /\ seen.down \in Int
  BY <1>1 DEF IpTyped
<1>. QED
  BY <1>2 DEF Vouched, Later

(* The steps that leave the rows, the lookups and the answer alone. *)
LEMMA SourcesMove ==
  ASSUME IpInv, SeenGoesOn, UNCHANGED <<ipCache, ipExpires, ipAnswer>>,
         \A i \in Ip : ipCache[i] # IpReputation!NoResult => ipNow' <= ipExpires[i] + Lag,
         \/ /\ UNCHANGED <<ipPc, ipCall>>
            /\ \A w \in Worker : ipPc[w] # "idle" => ipNow' <= ipCall[w].since + Span
         \/ /\ ipPc' = [w \in Worker |-> "idle"]
            /\ ipCall' = [w \in Worker |-> IpReputation!NoCall]
  PROVE  IpInv'
<1>1. IpTyped /\ ipNow <= ipNow'
  BY DEF IpInv, IpTyped, SeenGoesOn
<1>2. IpTyped'
  <2>1. (CHOOSE i \in Ip : TRUE) \in Ip
    BY IpReputationAssumption
  <2>2. IpReputation!NoCall \in IpCall
    BY <2>1, ClockAssumption DEF IpReputation!NoCall, IpReputation!NoResult, IpCall, IpReputation!Never, Never
  <2>. QED
    BY <1>1, <2>2, SourcesGoOn DEF IpTyped
<1>3. ASSUME NEW i \in Ip PROVE RowIsFounded(i)'
  <2>1. ipExpires[i] - IpTtl - Span \in Int
    BY <1>1, IpReputationAssumption DEF IpTyped
  <2>2. RowIsFounded(i)
    BY DEF IpInv
  <2>. QED
    BY <2>1, <2>2, SourcesGoOn DEF RowIsFounded
<1>4. ASSUME NEW w \in Worker PROVE LookupIsFounded(w)'
  <2>1. /\ ipCall[w].since \in Int /\ ipCall[w].ip \in Ip /\ ipNow \in Int /\ ipNow' \in Int
        /\ LookupIsFounded(w)
    BY SourcesGoOn, ClockAssumption DEF IpInv, IpTyped, IpCall, Never
  <2>. QED
    BY <1>1, <2>1, SourcesGoOn DEF LookupIsFounded
<1>5. AnswerIsFounded'
  <2>1. ipAnswer.ip \in Ip /\ ipAnswer.at - IpTtl - Lag - Span \in Int
    BY <1>1, IpReputationAssumption DEF IpTyped
  <2>. QED
    BY <2>1, SourcesGoOn DEF IpInv, AnswerIsFounded
<1>. QED
  BY <1>2, <1>3, <1>4, <1>5, SourcesGoOn DEF IpInv

(* The steps that leave the sources alone: what they leave alone besides
   remains as it should be. *)
LEMMA SourcesStill ==
  ASSUME IpInv, UNCHANGED <<ipNow, torList, loaded, seen>>
  PROVE  /\ SeenNow'
         /\ \A i \in Ip : ipCache'[i] = ipCache[i] /\ ipExpires'[i] = ipExpires[i] => RowIsFounded(i)'
         /\ \A w \in Worker : ipPc'[w] = ipPc[w] /\ ipCall'[w] = ipCall[w] => LookupIsFounded(w)'
         /\ UNCHANGED ipAnswer => AnswerIsFounded'
         /\ \A i, tor, s : Vouched(i, tor, s)' <=> Vouched(i, tor, s)
         /\ \A i, type, s : EngineSaid(i, type, s)' <=> EngineSaid(i, type, s)
<1>1. /\ \A i, tor, s : Vouched(i, tor, s)' <=> Vouched(i, tor, s)
      /\ \A i, type, s : EngineSaid(i, type, s)' <=> EngineSaid(i, type, s)
  BY DEF Vouched, EngineSaid, Later
<1>2. SeenNow'
  BY DEF IpInv, SeenNow
<1>3. ASSUME NEW i \in Ip, ipCache'[i] = ipCache[i], ipExpires'[i] = ipExpires[i] PROVE RowIsFounded(i)'
  <2>1. RowIsFounded(i)
    BY DEF IpInv
  <2>. QED
    BY <1>1, <1>3, <2>1 DEF RowIsFounded
<1>4. ASSUME NEW w \in Worker, ipPc'[w] = ipPc[w], ipCall'[w] = ipCall[w] PROVE LookupIsFounded(w)'
  <2>1. LookupIsFounded(w)
    BY DEF IpInv
  <2>. QED
    BY <1>1, <1>4, <2>1 DEF LookupIsFounded
<1>5. ASSUME UNCHANGED ipAnswer PROVE AnswerIsFounded'
  BY <1>1, <1>5 DEF IpInv, AnswerIsFounded
<1>. QED
  BY <1>1, <1>2, <1>3, <1>4, <1>5

LEMMA IpLookupSteps ==
  ASSUME IpInv, NEW w \in Worker, NEW i \in Ip, IpReputation!Lookup(w, i)
  PROVE  IpInv'
<1>0. /\ UNCHANGED <<ipNow, torList, loaded, ipCache, seen>> /\ IpTyped
      /\ ipExpires[i] \in Int /\ ipNow \in 0 .. LongTime /\ ipNow \in Int /\ RowIsFounded(i)
      /\ LongTime \in Int /\ Never \in Int /\ ipNow < Never /\ SeenNow
      /\ IpTtl \in Int /\ Lag \in Int /\ Span \in Nat
  BY ClockAssumption, IpReputationAssumption DEF IpReputation!Lookup, IpTyped, Never, IpInv
<1>1. CASE /\ ipCache[i] # IpReputation!NoResult
           /\ ipAnswer' = [ip |-> i, tor |-> ipCache[i].tor, at |-> ipNow]
           /\ UNCHANGED <<ipExpires, ipPc, ipCall>>
  <2>1. Vouched(i, ipCache[i].tor, ipExpires[i] - IpTtl - Span) /\ ipNow <= ipExpires[i] + Lag
    BY <1>0, <1>1 DEF RowIsFounded
  <2>2. PICK s \in Int : s = ipExpires[i] - IpTtl - Span
    BY <1>0
  <2>3. PICK r \in Int : r = ipNow - IpTtl - Lag - Span
    BY <1>0
  <2>4. r <= s
    BY <1>0, <2>1, <2>2, <2>3
  <2>5. Vouched(i, ipCache[i].tor, r)
    BY <1>0, <2>1, <2>2, <2>4, VouchedSince
  <2>6. AnswerIsFounded'
    <3>1. ipAnswer'.ip = i /\ ipAnswer'.tor = ipCache[i].tor /\ ipAnswer'.at = ipNow
      BY <1>1
    <3>2. ipAnswer'.at - IpTtl - Lag - Span = r
      BY <2>3, <3>1
    <3>. QED
      BY <1>0, <2>5, <3>1, <3>2, SourcesStill DEF AnswerIsFounded
  <2>7. IpTyped'
    BY <1>0, <1>1 DEF IpTyped, Past
  <2>. QED
    BY <1>0, <1>1, <2>6, <2>7, SourcesStill DEF IpInv
<1>2. CASE /\ ipCache[i] = IpReputation!NoResult
           /\ ipPc[w] = "idle"
           /\ ipPc' = [ipPc EXCEPT ![w] = "fetching"]
           /\ ipCall' = [ipCall EXCEPT ![w] =
                [ip |-> i, since |-> ipNow,
                 result |-> [tor |-> FALSE, type |-> IpReputation!EngineType(i), located |-> FALSE]]]
           /\ UNCHANGED <<ipAnswer, ipExpires>>
  <2>. DEFINE c == [ip |-> i, since |-> ipNow,
                    result |-> [tor |-> FALSE, type |-> IpReputation!EngineType(i), located |-> FALSE]]
  <2>1. IpReputation!EngineType(i) \in {"-", "VPN", "TOR", "DCH"}
    BY IpReputationAssumption DEF IpReputation!EngineType
  <2>2. c \in IpCall
    BY <1>0, <2>1 DEF IpCall
  <2>3. EngineSaid(i, IpReputation!EngineType(i), ipNow)
    BY <1>0 DEF EngineSaid, IpReputation!EngineType, SeenNow, Later
  <2>4. c.ip = i /\ c.since = ipNow /\ c.result.type = IpReputation!EngineType(i)
    OBVIOUS
  <2>5. ipCall' = [ipCall EXCEPT ![w] = c]
    BY <1>2
  <2>. HIDE DEF c
  <2>6. IpTyped'
    <3>1. ipCall' \in [Worker -> IpCall]
      BY <1>0, <2>2, <2>5 DEF IpTyped
    <3>. QED
      BY <1>0, <1>2, <3>1 DEF IpTyped, Past
  <2>7. LookupIsFounded(w)'
    <3>1. ipPc'[w] = "fetching" /\ ipCall'[w] = c
      BY <1>0, <1>2, <2>5 DEF IpTyped
    <3>. QED
      BY <1>0, <2>3, <2>4, <3>1, SourcesStill DEF LookupIsFounded
  <2>8. \A v \in Worker : v # w => LookupIsFounded(v)'
    BY <1>0, <1>2, <2>5, SourcesStill DEF IpTyped
  <2>. QED
    BY <1>0, <1>2, <2>6, <2>7, <2>8, SourcesStill DEF IpInv
<1>. QED
  BY <1>1, <1>2 DEF IpReputation!Lookup, IpReputation!ExpiryAfterHit

LEMMA IpFetchedSteps ==
  ASSUME IpInv, NEW w \in Worker, NEW ok \in BOOLEAN, IpReputation!Fetched(w, ok)
  PROVE  IpInv'
<1>. PICK i, type, s : i = ipCall[w].ip /\ type = ipCall[w].result.type /\ s = ipCall[w].since
  OBVIOUS
<1>0. /\ UNCHANGED <<ipNow, torList, loaded, ipCache, ipExpires, ipAnswer, seen>> /\ IpTyped /\ SeenNow
      /\ ipPc[w] = "fetching" /\ ipPc' = [ipPc EXCEPT ![w] = "writing"]
      /\ i \in Ip /\ s \in 0 .. Never /\ ipNow \in Int /\ ipNow \in 0 .. LongTime
      /\ LookupIsFounded(w) /\ ipCall[w] \in IpCall
      /\ Never \in Int /\ ipNow < Never
  BY ClockAssumption DEF IpReputation!Fetched, IpInv, IpTyped, IpCall, Never
<1>1. s \in Int /\ s <= ipNow /\ ipNow <= s + Span /\ EngineSaid(i, type, s)
  BY <1>0 DEF LookupIsFounded
<1>2. PICK tor \in BOOLEAN : tor = IpReputation!IsTor(i, type)
  BY DEF IpReputation!IsTor
<1>3. Vouched(i, tor, s)
  <2>1. CASE i \in torList
    <3>1. seen.listed[i] = ipNow /\ tor
      BY <1>0, <1>2, <2>1 DEF SeenNow, IpReputation!IsTor
    <3>. QED
      BY <1>0, <1>1, <3>1 DEF Vouched, Later
  <2>2. CASE i \notin torList /\ type = "TOR"
    <3>1. tor
      BY <1>2, <2>2 DEF IpReputation!IsTor
    <3>. QED
      BY <1>1, <2>2, <3>1 DEF Vouched, EngineSaid
  <2>3. CASE i \notin torList /\ type # "TOR"
    <3>1. seen.unlisted[i] = ipNow /\ ~tor
      BY <1>0, <1>2, <2>3 DEF SeenNow, IpReputation!IsTor
    <3>. QED
      BY <1>0, <1>1, <2>3, <3>1 DEF Vouched, EngineSaid, Later
  <2>. QED
    BY <2>1, <2>2, <2>3
<1>. PICK c : c = [ipCall[w] EXCEPT !.result = [tor |-> tor, type |-> type, located |-> ok]]
  OBVIOUS
<1>4. ipCall' = [ipCall EXCEPT ![w] = c]
  BY <1>0, <1>2 DEF IpReputation!Fetched
<1>5. c \in IpCall /\ c.ip = i /\ c.since = s /\ c.result.tor = tor
  BY <1>0 DEF IpCall
<1>6. IpTyped'
  <2>1. ipCall' \in [Worker -> IpCall]
    BY <1>0, <1>4, <1>5 DEF IpTyped
  <2>. QED
    BY <1>0, <2>1 DEF IpTyped, Past
<1>7. LookupIsFounded(w)'
  <2>1. ipPc'[w] = "writing" /\ ipCall'[w] = c /\ UNCHANGED ipNow
    BY <1>0, <1>4 DEF IpTyped
  <2>2. Vouched(i, tor, s)'
    BY <1>0, <1>3, SourcesStill
  <2>. QED
    BY <1>1, <1>5, <2>1, <2>2 DEF LookupIsFounded
<1>8. \A v \in Worker : v # w => LookupIsFounded(v)'
  BY <1>0, <1>4, SourcesStill DEF IpTyped
<1>. QED
  BY <1>0, <1>6, <1>7, <1>8, SourcesStill DEF IpInv

LEMMA IpWrittenSteps ==
  ASSUME IpInv, NEW w \in Worker, NEW ok \in BOOLEAN, IpReputation!Written(w, ok)
  PROVE  IpInv'
<1>. PICK i, result, s : i = ipCall[w].ip /\ result = ipCall[w].result /\ s = ipCall[w].since
  OBVIOUS
<1>0. /\ UNCHANGED <<ipNow, torList, loaded, seen>> /\ IpTyped
      /\ ipPc[w] = "writing" /\ ipPc' = [ipPc EXCEPT ![w] = "idle"]
      /\ ipCall' = [ipCall EXCEPT ![w] = IpReputation!NoCall]
      /\ ipAnswer' = [ip |-> i, tor |-> result.tor, at |-> ipNow]
      /\ i \in Ip /\ s \in 0 .. Never /\ ipNow \in Int /\ ipNow \in 0 .. LongTime
      /\ LookupIsFounded(w)
      /\ Never \in Int /\ ipNow < Never
      /\ IpTtl \in Nat /\ Lag \in Nat /\ Span \in Nat
  BY ClockAssumption, IpReputationAssumption DEF IpReputation!Written, IpInv, IpTyped, IpCall, Never
<1>1. s \in Int /\ ipNow <= s + Span /\ Vouched(i, result.tor, s)
  BY <1>0 DEF LookupIsFounded
<1>2. PICK r \in Int : r = ipNow - IpTtl - Lag - Span
  BY <1>0
<1>3. Vouched(i, result.tor, r)
  <2>1. r <= s
    BY <1>0, <1>1, <1>2
  <2>. QED
    BY <1>0, <1>1, <2>1, VouchedSince
<1>4. AnswerIsFounded'
  <2>1. ipAnswer'.ip = i /\ ipAnswer'.tor = result.tor /\ ipAnswer'.at = ipNow
    BY <1>0
  <2>2. ipAnswer'.at - IpTtl - Lag - Span = r
    BY <1>2, <2>1
  <2>. QED
    BY <1>0, <1>3, <2>1, <2>2, SourcesStill DEF AnswerIsFounded
<1>5. \A v \in Worker : LookupIsFounded(v)'
  <2>1. LookupIsFounded(w)'
    BY <1>0 DEF LookupIsFounded, IpTyped
  <2>2. \A v \in Worker : v # w => LookupIsFounded(v)'
    BY <1>0, SourcesStill DEF IpTyped
  <2>. QED
    BY <2>1, <2>2
<1>6. IpReputation!NoCall \in IpCall
  <2>1. (CHOOSE j \in Ip : TRUE) \in Ip
    BY <1>0
  <2>. QED
    BY <2>1, ClockAssumption
    DEF IpReputation!NoCall, IpReputation!NoResult, IpCall, IpReputation!Never, Never
<1>7. CASE ok
  <2>1. ipCache' = [ipCache EXCEPT ![i] = result] /\ ipExpires' = [ipExpires EXCEPT ![i] = ipNow + IpTtl]
    BY <1>7 DEF IpReputation!Written
  <2>2. RowIsFounded(i)'
    <3>1. ipCache'[i] = result /\ ipExpires'[i] = ipNow + IpTtl /\ ipNow' = ipNow
      BY <1>0, <2>1 DEF IpTyped
    <3>2. PICK q \in Int : q = ipNow + IpTtl - IpTtl - Span
      BY <1>0
    <3>3. q <= s /\ ipNow <= ipNow + IpTtl + Lag
      BY <1>0, <1>1, <3>2
    <3>4. Vouched(i, result.tor, q)'
      BY <1>0, <1>1, <3>3, VouchedSince, SourcesStill
    <3>5. ipExpires'[i] - IpTtl - Span = q
      BY <1>0, <3>1, <3>2
    <3>6. ipNow' <= ipExpires'[i] + Lag
      BY <3>1, <3>3
    <3>. QED
      BY <3>1, <3>4, <3>5, <3>6 DEF RowIsFounded
  <2>3. \A j \in Ip : j # i => RowIsFounded(j)'
    BY <1>0, <2>1, SourcesStill DEF IpTyped
  <2>4. IpTyped'
    <3>1. DOMAIN ipCache' = Ip
      BY <1>0, <2>1 DEF IpTyped
    <3>2. ipExpires' \in [Ip -> Int]
      BY <1>0, <2>1 DEF IpTyped
    <3>. QED
      BY <1>0, <1>6, <3>1, <3>2 DEF IpTyped, Past
  <2>. QED
    BY <1>0, <1>4, <1>5, <2>2, <2>3, <2>4, SourcesStill DEF IpInv
<1>8. CASE ~ok
  <2>1. UNCHANGED <<ipCache, ipExpires>>
    BY <1>8 DEF IpReputation!Written
  <2>2. IpTyped'
    BY <1>0, <1>6, <2>1 DEF IpTyped, Past
  <2>. QED
    BY <1>0, <1>4, <1>5, <2>1, <2>2, SourcesStill DEF IpInv
<1>. QED
  BY <1>7, <1>8

LEMMA IpSteps == IpInv /\ [IpReputation!Next]_(IpReputation!vars) => IpInv'
<1>. SUFFICES ASSUME IpInv, [IpReputation!Next]_(IpReputation!vars) PROVE IpInv'
  OBVIOUS
<1>0. ipNow \in 0 .. LongTime /\ ipNow \in Int /\ ipExpires \in [Ip -> Int] /\ LongTime \in Nat /\ Lag \in Nat
      /\ Span \in Nat
      /\ \A w \in Worker : ipCall[w].since \in Int
  BY ClockAssumption, IpReputationAssumption DEF IpInv, IpTyped, IpCall, Never
<1>1. /\ \A i \in Ip : ipCache[i] # IpReputation!NoResult => ipNow <= ipExpires[i] + Lag
      /\ \A w \in Worker : ipPc[w] # "idle" => ipNow <= ipCall[w].since + Span
  BY DEF IpInv, RowIsFounded, LookupIsFounded
<1>2. CASE UNCHANGED IpReputation!vars
  <2>1. UNCHANGED <<ipNow, torList, loaded, ipCache, ipExpires, ipPc, ipCall, ipAnswer, seen>>
    BY <1>2 DEF IpReputation!vars
  <2>2. SeenGoesOn /\ ipNow' = ipNow
    BY <2>1 DEF SeenGoesOn
  <2>. QED
    BY <1>1, <2>1, <2>2, SourcesMove
<1>3. CASE IpReputation!Tick
  <2>1. /\ ipNow' = ipNow + 1 /\ ipNow < LongTime /\ IpReputation!Witness
        /\ \A i \in Ip : ipCache[i] # IpReputation!NoResult => ipNow < ipExpires[i] + Lag
        /\ \A w \in Worker : ipPc[w] # "idle" => ipNow < ipCall[w].since + Span
        /\ UNCHANGED <<torList, loaded, ipCache, ipExpires, ipPc, ipCall, ipAnswer>>
    BY <1>3 DEF IpReputation!Tick
  <2>2. SeenGoesOn
    BY <1>0, <2>1 DEF SeenGoesOn
  <2>3. /\ \A i \in Ip : ipCache[i] # IpReputation!NoResult => ipNow' <= ipExpires[i] + Lag
        /\ \A w \in Worker : ipPc[w] # "idle" => ipNow' <= ipCall[w].since + Span
    BY <1>0, <2>1
  <2>. QED
    BY <2>1, <2>2, <2>3, SourcesMove
<1>4. ASSUME UNCHANGED <<ipNow, ipCache, ipExpires, ipAnswer>>, IpReputation!Witness,
             \/ UNCHANGED <<ipPc, ipCall>>
             \/ /\ ipPc' = [w \in Worker |-> "idle"]
                /\ ipCall' = [w \in Worker |-> IpReputation!NoCall]
      PROVE  IpInv'
  <2>1. SeenGoesOn
    BY <1>0, <1>4 DEF SeenGoesOn
  <2>. QED
    BY <1>1, <1>4, <2>1, SourcesMove
<1>5. CASE IpReputation!LoadEngine \/ IpReputation!UnloadEngine \/ IpReputation!Restart
  BY <1>4, <1>5 DEF IpReputation!LoadEngine, IpReputation!UnloadEngine, IpReputation!Restart
<1>6. ASSUME NEW lines, IpReputation!RefreshTor(lines) PROVE IpInv'
  BY <1>4, <1>6 DEF IpReputation!RefreshTor
<1>7. ASSUME NEW i \in Ip, IpReputation!Expire(i) PROVE IpInv'
  <2>1. /\ ipCache' = [ipCache EXCEPT ![i] = IpReputation!NoResult] /\ ipExpires' = [ipExpires EXCEPT ![i] = 0]
        /\ UNCHANGED <<ipNow, torList, loaded, ipPc, ipCall, ipAnswer, seen>>
    BY <1>7 DEF IpReputation!Expire
  <2>2. IpTyped'
    BY <2>1 DEF IpInv, IpTyped, Past
  <2>3. RowIsFounded(i)'
    BY <2>1 DEF RowIsFounded, IpInv, IpTyped
  <2>4. \A j \in Ip : j # i => RowIsFounded(j)'
    BY <2>1, SourcesStill DEF IpInv, IpTyped
  <2>. QED
    BY <2>1, <2>2, <2>3, <2>4, SourcesStill DEF IpInv
<1>. QED
  BY <1>2, <1>3, <1>5, <1>6, <1>7, IpLookupSteps, IpFetchedSteps, IpWrittenSteps DEF IpReputation!Next

(* What was said of the addressee of the answer. *)
LEMMA VerdictsAreFresh == IpInv => IpReputation!VerdictIsFresh
<1>. SUFFICES ASSUME IpInv, ipAnswer.at # Never PROVE IpReputation!VerdictIsFresh
  BY DEF IpReputation!VerdictIsFresh, IpReputation!Never, Never
<1>1. IpTyped /\ Never \in Int /\ Past \subseteq Int /\ IpTtl \in Int /\ Lag \in Int /\ Span \in Int
      /\ ipAnswer.ip \in Ip /\ ipAnswer.at \in Int
  BY ClockAssumption, IpReputationAssumption DEF IpInv, IpTyped, Never, Past
<1>2. ASSUME NEW time \in Int, Later(time, ipAnswer.at - IpTtl - Lag - Span) PROVE IpReputation!Recent(time)
  BY <1>1, <1>2 DEF Later, IpReputation!Recent, IpReputation!Never, Never
<1>3. /\ seen.listed[ipAnswer.ip] \in Int /\ seen.unlisted[ipAnswer.ip] \in Int
      /\ seen.up \in Int /\ seen.down \in Int
  BY <1>1 DEF IpTyped
<1>4. Vouched(ipAnswer.ip, ipAnswer.tor, ipAnswer.at - IpTtl - Lag - Span)
  BY DEF IpInv, AnswerIsFounded
<1>. QED
  BY <1>2, <1>3, <1>4 DEF Vouched, IpReputation!VerdictIsFresh, IpReputation!EngineSaysTor

(***************************************************************************)
(* Whatever calls overlap: whom the cache of the registry calls verified   *)
(* was active within the life of an entry and what an answer takes to      *)
(* arrive, and what a lookup says of an address the list and the engine    *)
(* said within that of a row and a lookup.                                 *)
(***************************************************************************)
THEOREM CachesAreTrue == NitCache!Spec /\ IpReputation!Spec => []CachesAreFresh
<1>1. NitCache!Spec => []NitInv
  BY NitStarts, NitSteps, PTL DEF NitCache!Spec
<1>2. IpReputation!Spec => []IpInv
  BY IpStarts, IpSteps, PTL DEF IpReputation!Spec
<1>3. NitInv /\ IpInv => CachesAreFresh
  BY VerdictsAreFresh DEF NitInv, CachesAreFresh
<1>. QED
  BY <1>1, <1>2, <1>3, PTL

----
(***************************************************************************)
(* Reports.                                                                *)
(***************************************************************************)
LEMMA ReportsCount == ASSUME NEW S PROVE Reports!Cardinality(S) = Cardinality(S)
BY DEF Reports!Cardinality, Cardinality

(* The first L of a set of positions. *)
Ahead(W, i) == {j \in W : j < i}
First(W, L) == {i \in W : Cardinality(Ahead(W, i)) < L}

LEMMA FirstCount ==
  ASSUME NEW L \in Nat
  PROVE  \A n \in Nat : \A W \in SUBSET (1 .. n) :
           /\ IsFiniteSet(W) /\ IsFiniteSet(First(W, L))
           /\ Cardinality(First(W, L)) = IF Cardinality(W) < L THEN Cardinality(W) ELSE L
<1>. DEFINE Counts(W) == /\ IsFiniteSet(W) /\ IsFiniteSet(First(W, L))
                           /\ Cardinality(First(W, L)) = IF Cardinality(W) < L THEN Cardinality(W) ELSE L
            P == {n \in Nat : \A W \in SUBSET (1 .. n) : Counts(W)}
<1>0. ASSUME NEW n \in Nat, NEW W \in SUBSET (1 .. n) PROVE IsFiniteSet(W) /\ Cardinality(W) \in Nat
  <2>1. IsFiniteSet(1 .. n)
    BY FS_Interval
  <2>. QED
    BY <2>1, FS_Subset, FS_CardinalityType
<1>1. 0 \in P
  <2>1. ASSUME NEW W \in SUBSET (1 .. 0) PROVE Counts(W)
    <3>1. W = {}
      OBVIOUS
    <3>2. First(W, L) = {}
      BY <3>1 DEF First
    <3>3. Cardinality({}) = 0 /\ IsFiniteSet({})
      BY FS_EmptySet
    <3>. QED
      BY <3>1, <3>2, <3>3
  <2>. HIDE DEF Counts
  <2>. QED
    BY <2>1
<1>2. ASSUME NEW n \in P PROVE n + 1 \in P
  <2>. SUFFICES ASSUME NEW W \in SUBSET (1 .. n + 1) PROVE Counts(W)
    OBVIOUS
  <2>1. n \in Nat /\ \A V \in SUBSET (1 .. n) : Counts(V)
    OBVIOUS
  <2>. HIDE DEF P
  <2>2. CASE n + 1 \notin W
    <3>1. W \in SUBSET (1 .. n)
      BY <2>1, <2>2
    <3>. HIDE DEF Counts
    <3>. QED
      BY <2>1, <3>1
  <2>3. CASE n + 1 \in W
    <3>. DEFINE V == W \ {n + 1}
    <3>1. V \in SUBSET (1 .. n) /\ W = V \cup {n + 1} /\ n + 1 \notin V
      BY <2>1, <2>3
    <3>2. Counts(V)
      <4>. HIDE DEF V, Counts
      <4>. QED
        BY <2>1, <3>1
    <3>3. \A i \in V : Ahead(W, i) = Ahead(V, i)
      <4>. SUFFICES ASSUME NEW i \in V, NEW j PROVE j \in Ahead(W, i) <=> j \in Ahead(V, i)
        OBVIOUS
      <4>1. i \in 1 .. n /\ ~(n + 1 < i)
        BY <2>1, <3>1
      <4>2. j \in W <=> j \in V \/ j = n + 1
        BY <3>1, Zenon
      <4>. HIDE DEF V
      <4>3. j = n + 1 => ~(j < i)
        BY <4>1
      <4>. QED
        BY <4>2, <4>3, Zenon DEF Ahead
    <3>. HIDE DEF V
    <3>4. Ahead(W, n + 1) = V
      <4>. SUFFICES ASSUME NEW j PROVE j \in Ahead(W, n + 1) <=> j \in V
        OBVIOUS
      <4>1. j \in V => j < n + 1
        BY <2>1, <3>1
      <4>2. ~(n + 1 < n + 1)
        BY <2>1
      <4>3. j \in W <=> j \in V \/ j = n + 1
        BY <3>1, Zenon
      <4>. QED
        BY <4>1, <4>2, <4>3, Zenon DEF Ahead
    <3>5. \A i \in V : i \in First(W, L) <=> i \in First(V, L)
      <4>1. ASSUME NEW i \in V PROVE Cardinality(Ahead(W, i)) = Cardinality(Ahead(V, i)) /\ i \in W
        BY <3>1, <3>3, Zenon
      <4>. QED
        BY <4>1 DEF First
    <3>6. n + 1 \in First(W, L) <=> Cardinality(V) < L
      BY <2>3, <3>4 DEF First
    <3>7. First(V, L) \subseteq V /\ First(W, L) \subseteq W
      BY DEF First
    <3>8. Cardinality(V) \in Nat /\ Cardinality(W) = Cardinality(V) + 1 /\ IsFiniteSet(W)
      <4>1. IsFiniteSet(V) /\ Cardinality(V) \in Nat
        BY <1>0, <2>1, <3>1
      <4>. QED
        BY <3>1, <4>1, FS_AddElement
    <3>9. CASE Cardinality(V) < L
      <4>1. First(W, L) = First(V, L) \cup {n + 1} /\ n + 1 \notin First(V, L)
        BY <3>1, <3>5, <3>6, <3>7, <3>9
      <4>2. /\ IsFiniteSet(First(V, L) \cup {n + 1})
            /\ Cardinality(First(V, L) \cup {n + 1}) = Cardinality(First(V, L)) + 1
        BY <3>2, <4>1, FS_AddElement
      <4>. QED
        BY <3>2, <3>8, <3>9, <4>1, <4>2
    <3>10. CASE ~(Cardinality(V) < L)
      <4>1. First(W, L) = First(V, L)
        BY <3>1, <3>5, <3>6, <3>7, <3>10
      <4>. QED
        BY <3>2, <3>8, <3>10, <4>1
    <3>. QED
      BY <3>9, <3>10
  <2>. QED
    BY <2>2, <2>3
<1>3. P = Nat
  <2>. HIDE DEF P
  <2>1. P \in SUBSET Nat
    BY DEF P
  <2>. QED
    BY <1>1, <1>2, <2>1, AllOfNat
<1>. QED
  BY <1>3

(* Who is not among the first comes after all of them, and they are L. *)
LEMMA FirstAreAll ==
  ASSUME NEW L \in Nat, NEW n \in Nat, NEW W \in SUBSET (1 .. n), NEW i \in W \ First(W, L)
  PROVE  /\ Cardinality(First(W, L)) = L
         /\ \A j \in First(W, L) : j < i
<1>1. IsFiniteSet(W)
  BY FirstCount
<1>2. Ahead(W, i) \in SUBSET W
  BY DEF Ahead
<1>3. /\ IsFiniteSet(Ahead(W, i)) /\ Cardinality(Ahead(W, i)) <= Cardinality(W)
      /\ Cardinality(Ahead(W, i)) \in Nat /\ Cardinality(W) \in Nat
  BY <1>1, <1>2, FS_Subset, FS_CardinalityType
<1>4. ~(Cardinality(Ahead(W, i)) < L)
  BY DEF First
<1>5. Cardinality(First(W, L)) = L
  <2>1. ~(Cardinality(W) < L)
    BY <1>3, <1>4
  <2>. QED
    BY <2>1, FirstCount
<1>6. ASSUME NEW j \in First(W, L), ~(j < i) PROVE FALSE
  <2>0. i \in 1 .. n /\ j \in 1 .. n /\ \A k \in W : k \in 1 .. n
    BY DEF First
  <2>1. Ahead(W, i) \in SUBSET Ahead(W, j)
    <3>. SUFFICES ASSUME NEW k \in W, k < i PROVE k < j
      BY DEF Ahead
    <3>. QED
      BY <1>6, <2>0
  <2>2. Ahead(W, j) \in SUBSET W
    BY DEF Ahead
  <2>3. IsFiniteSet(Ahead(W, j)) /\ Cardinality(Ahead(W, j)) \in Nat
    BY <1>1, <2>2, FS_Subset, FS_CardinalityType
  <2>4. Cardinality(Ahead(W, i)) <= Cardinality(Ahead(W, j))
    BY <2>1, <2>3, FS_Subset
  <2>5. Cardinality(Ahead(W, j)) < L
    BY DEF First
  <2>. QED
    BY <1>3, <1>4, <2>3, <2>4, <2>5
<1>. QED
  BY <1>5, <1>6

(* The log C, in which complaints come at its end and are marked. *)
Complaint == [at : Nat, resolved : BOOLEAN, breached : BOOLEAN]

Logged(C, t) ==
  /\ C \in Seq(Complaint) /\ t \in Nat
  /\ \A i \in DOMAIN C : C[i].at <= t /\ (C[i].breached => ~C[i].resolved)
  /\ \A i, j \in DOMAIN C : i <= j => C[i].at <= C[j].at

Grows(C, D) ==
  /\ C \in Seq(Complaint) /\ D \in Seq(Complaint) /\ Len(C) <= Len(D)
  /\ \A i \in DOMAIN C : /\ D[i].at = C[i].at /\ D[i].resolved = C[i].resolved
                         /\ C[i].breached => D[i].breached

OfHalf(C, half) == {i \in DOMAIN C : half.from <= C[i].at /\ C[i].at <= half.to}

LEMMA RowsAreFirst == \A half : Reports!Rows(half) = First(OfHalf(complaints, half), ReportLimit)
<1>. TAKE half
<1>1. Reports!Rows(half) = {i \in OfHalf(complaints, half) :
        Reports!Cardinality({j \in OfHalf(complaints, half) : j < i}) < ReportLimit}
  BY DEF Reports!Rows, OfHalf
<1>. QED
  BY <1>1, ReportsCount DEF First, Ahead

(* A draft lists the first complaints of its half-year, leaves out of those
   it has known only what comes after as many as it may list, and counts. *)
DraftIsTrue(d, C) ==
  /\ d.known \in Nat /\ d.known <= Len(C)
  /\ d.rows \subseteq First(OfHalf(C, d.half), ReportLimit)
  /\ \A i \in 1 .. d.known \ d.rows : i \in OfHalf(C, d.half) =>
       Cardinality(d.rows) = ReportLimit /\ \A j \in d.rows : j < i
  /\ d.resolved = Cardinality({i \in d.rows : C[i].resolved})
  /\ d.resolved + d.unresolved = Cardinality(d.rows)
  /\ d.breached \in Nat /\ d.breached <= Cardinality({i \in d.rows : C[i].breached})

(* The draft to be stored has every row of the one it takes the place of. *)
DraftIsWhole == \A d \in stored : d.half = draft.half => d.rows \subseteq draft.rows

ReportsInv ==
  /\ Logged(complaints, reportsNow)
  /\ \A d \in stored : DraftIsTrue(d, complaints)
  /\ step # "idle" => DraftIsTrue(draft, complaints)
  /\ step = "upload" => DraftIsWhole
  /\ step = "notify" => draft \in stored
  /\ Reports!NotifiedIsStored

(* What is listed and counted stays so when complaints come and are marked. *)
LEMMA DraftStaysTrue ==
  ASSUME NEW C, NEW D, Grows(C, D), NEW d, DraftIsTrue(d, C)
  PROVE  DraftIsTrue(d, D)
<1>1. /\ Len(C) \in Nat /\ Len(D) \in Nat /\ Len(C) <= Len(D)
      /\ DOMAIN C = 1 .. Len(C) /\ DOMAIN D = 1 .. Len(D)
      /\ \A i \in DOMAIN C : i \in DOMAIN D
  BY DEF Grows
<1>. DEFINE V == OfHalf(C, d.half)
            W == OfHalf(D, d.half)
<1>2. \A i \in DOMAIN C : i \in V <=> i \in W
  BY <1>1 DEF OfHalf, Grows
<1>3. V \subseteq 1 .. Len(C) /\ W \subseteq 1 .. Len(D)
  BY <1>1 DEF OfHalf
<1>. HIDE DEF V, W
<1>4. \A i \in V : Ahead(W, i) = Ahead(V, i)
  <2>. SUFFICES ASSUME NEW i \in V, NEW j PROVE j \in Ahead(W, i) <=> j \in Ahead(V, i)
    OBVIOUS
  <2>1. i \in 1 .. Len(C) /\ (j \in W => j \in 1 .. Len(D))
    BY <1>3
  <2>2. j \in V => j \in W
    BY <1>1, <1>2, <1>3
  <2>3. j \in W /\ j < i => j \in V
    BY <1>1, <1>2, <2>1
  <2>. QED
    BY <2>2, <2>3 DEF Ahead
<1>5. First(V, ReportLimit) \subseteq First(W, ReportLimit)
  <2>1. ASSUME NEW i \in V PROVE Cardinality(Ahead(W, i)) = Cardinality(Ahead(V, i)) /\ i \in W
    BY <1>1, <1>2, <1>3, <1>4
  <2>. QED
    BY <2>1 DEF First
<1>6. d.rows \subseteq First(V, ReportLimit) /\ d.rows \subseteq DOMAIN C
  BY <1>1, <1>3 DEF DraftIsTrue, First, V
<1>7. {i \in d.rows : D[i].resolved} = {i \in d.rows : C[i].resolved}
  BY <1>6 DEF Grows
<1>8. Cardinality({i \in d.rows : C[i].breached}) <= Cardinality({i \in d.rows : D[i].breached})
      /\ Cardinality({i \in d.rows : C[i].breached}) \in Nat
      /\ Cardinality({i \in d.rows : D[i].breached}) \in Nat
  <2>. DEFINE B == {i \in d.rows : D[i].breached}
              A == {i \in d.rows : C[i].breached}
  <2>1. IsFiniteSet(1 .. Len(C))
    BY <1>1, FS_Interval
  <2>2. B \in SUBSET (1 .. Len(C)) /\ A \in SUBSET B
    BY <1>1, <1>6 DEF Grows
  <2>. HIDE DEF A, B
  <2>3. IsFiniteSet(B) /\ IsFiniteSet(A) /\ Cardinality(A) <= Cardinality(B)
    BY <2>1, <2>2, FS_Subset
  <2>4. Cardinality(A) \in Nat /\ Cardinality(B) \in Nat
    BY <2>3, FS_CardinalityType
  <2>. QED
    BY <2>3, <2>4 DEF A, B
<1>9. d.breached \in Nat /\ d.breached <= Cardinality({i \in d.rows : D[i].breached})
  <2>1. d.breached \in Nat /\ d.breached <= Cardinality({i \in d.rows : C[i].breached})
    BY DEF DraftIsTrue
  <2>. QED
    BY <1>8, <2>1
<1>10. \A i \in 1 .. d.known \ d.rows : i \in W =>
         Cardinality(d.rows) = ReportLimit /\ \A j \in d.rows : j < i
  <2>1. \A i \in 1 .. d.known : i \in DOMAIN C
    BY <1>1 DEF DraftIsTrue
  <2>. QED
    BY <1>2, <2>1 DEF DraftIsTrue, V
<1>11. d.known \in Nat /\ d.known <= Len(D)
  BY <1>1 DEF DraftIsTrue
<1>12. d.resolved = Cardinality({i \in d.rows : D[i].resolved}) /\ d.resolved + d.unresolved = Cardinality(d.rows)
  BY <1>7 DEF DraftIsTrue
<1>. QED
  BY <1>5, <1>6, <1>9, <1>10, <1>11, <1>12 DEF DraftIsTrue, W

(* What computeStats makes of the rows. *)
LEMMA StatsAreTrue ==
  ASSUME Logged(complaints, reportsNow), NEW half
  PROVE  DraftIsTrue(Reports!Stats(half, Reports!Rows(half)), complaints)
<1>. DEFINE W == OfHalf(complaints, half)
            rows == Reports!Rows(half)
            resolved == {i \in rows : complaints[i].resolved}
            open == {i \in rows : ~complaints[i].resolved}
            breached == {i \in rows : complaints[i].breached}
            d == Reports!Stats(half, rows)
<1>1. /\ DOMAIN complaints = 1 .. Len(complaints) /\ Len(complaints) \in Nat
      /\ W \in SUBSET (1 .. Len(complaints))
  BY DEF OfHalf, Logged
<1>2. rows = First(W, ReportLimit)
  BY RowsAreFirst
<1>3. IsFiniteSet(rows)
  BY <1>1, <1>2, FirstCount, ReportsAssumption
<1>4. resolved \subseteq rows /\ open \subseteq rows /\ resolved \cap open = {} /\ rows = resolved \cup open
      /\ breached \subseteq rows
  OBVIOUS
<1>5. d.half = half /\ d.rows = rows /\ d.known = Len(complaints)
  BY DEF Reports!Stats
<1>6. d.resolved = Cardinality(resolved) /\ d.unresolved = Cardinality(open)
      /\ d.breached = Cardinality(breached)
  BY ReportsCount DEF Reports!Stats
<1>7. \A i \in W \ rows : Cardinality(rows) = ReportLimit /\ \A j \in rows : j < i
  <2>. HIDE DEF W, rows
  <2>. QED
    BY <1>1, <1>2, FirstAreAll, ReportsAssumption
<1>. HIDE DEF rows, resolved, open, breached, d
<1>8. IsFiniteSet(resolved) /\ IsFiniteSet(open) /\ IsFiniteSet(breached)
  BY <1>3, <1>4, FS_Subset
<1>9. Cardinality(resolved) \in Nat /\ Cardinality(open) \in Nat /\ Cardinality(breached) \in Nat
  BY <1>8, FS_CardinalityType
<1>10. Cardinality(rows) = Cardinality(resolved) + Cardinality(open)
  <2>1. Cardinality(resolved \cup open)
          = Cardinality(resolved) + Cardinality(open) - Cardinality(resolved \cap open)
    BY <1>8, FS_Union
  <2>2. Cardinality(resolved \cap open) = 0
    BY <1>4, FS_EmptySet
  <2>. QED
    BY <1>4, <1>9, <2>1, <2>2
<1>11. DraftIsTrue(d, complaints)
  <2>1. d.rows \subseteq First(OfHalf(complaints, d.half), ReportLimit)
    BY <1>2, <1>5
  <2>2. \A i \in 1 .. d.known \ d.rows : i \in OfHalf(complaints, d.half) =>
          Cardinality(d.rows) = ReportLimit /\ \A j \in d.rows : j < i
    BY <1>5, <1>7
  <2>3. d.resolved = Cardinality({i \in d.rows : complaints[i].resolved})
    BY <1>5, <1>6 DEF resolved
  <2>4. d.breached \in Nat /\ d.breached <= Cardinality({i \in d.rows : complaints[i].breached})
    BY <1>5, <1>6, <1>9 DEF breached
  <2>5. d.known \in Nat /\ d.known <= Len(complaints) /\ d.resolved + d.unresolved = Cardinality(d.rows)
    BY <1>1, <1>5, <1>6, <1>10
  <2>. QED
    BY <2>1, <2>2, <2>3, <2>4, <2>5 DEF DraftIsTrue
<1>. QED
  BY <1>11 DEF d, rows

LEMMA ReportsStart == Reports!Init => ReportsInv
<1>. SUFFICES ASSUME Reports!Init PROVE ReportsInv
  OBVIOUS
<1>1. reportsNow = 0 /\ complaints = <<>> /\ step = "idle" /\ stored = {} /\ notified = {}
  BY DEF Reports!Init
<1>2. Logged(complaints, reportsNow)
  BY <1>1 DEF Logged
<1>. QED
  BY <1>1, <1>2 DEF ReportsInv, Reports!NotifiedIsStored

(* What a complaint that comes, or is marked, leaves as it is. *)
LEMMA ComplaintsCome ==
  ASSUME ReportsInv, Grows(complaints, complaints'), Logged(complaints', reportsNow'),
         UNCHANGED <<step, draft, stored, notified>>
  PROVE  ReportsInv'
<1>1. \A d : DraftIsTrue(d, complaints) => DraftIsTrue(d, complaints')
  BY DraftStaysTrue
<1>. QED
  BY <1>1 DEF ReportsInv, DraftIsWhole, Reports!NotifiedIsStored

LEMMA ReportsSteps == ReportsInv /\ [Reports!Next]_(Reports!vars) => ReportsInv'
<1>. SUFFICES ASSUME ReportsInv, [Reports!Next]_(Reports!vars) PROVE ReportsInv'
  OBVIOUS
<1>0. /\ complaints \in Seq(Complaint) /\ reportsNow \in Nat
      /\ Len(complaints) \in Nat /\ DOMAIN complaints = 1 .. Len(complaints)
      /\ \A i \in DOMAIN complaints : /\ complaints[i].at <= reportsNow
                                      /\ complaints[i].breached => ~complaints[i].resolved
      /\ \A i, j \in DOMAIN complaints : i <= j => complaints[i].at <= complaints[j].at
  BY DEF ReportsInv, Logged
<1>1. CASE UNCHANGED Reports!vars
  BY <1>1 DEF Reports!vars, ReportsInv, DraftIsWhole, Reports!NotifiedIsStored
<1>2. ASSUME NEW b \in BOOLEAN, Reports!Complain(b) PROVE ReportsInv'
  <2>. DEFINE c == [at |-> reportsNow, resolved |-> b, breached |-> FALSE]
              n == Len(complaints)
  <2>1. c \in Complaint /\ ~c.breached /\ c.at = reportsNow
    BY <1>0 DEF Complaint
  <2>2. complaints' = Append(complaints, c) /\ UNCHANGED <<reportsNow, step, draft, stored, notified>>
    BY <1>2 DEF Reports!Complain
  <2>. HIDE DEF c
  <2>3. /\ complaints' \in Seq(Complaint) /\ Len(complaints') = n + 1 /\ DOMAIN complaints' = 1 .. n + 1
        /\ complaints'[n + 1] = c /\ \A i \in DOMAIN complaints : complaints'[i] = complaints[i]
    BY <1>0, <2>1, <2>2
  <2>4. \A i \in DOMAIN complaints' : i \in DOMAIN complaints \/ i = n + 1
    BY <1>0, <2>3
  <2>5. Grows(complaints, complaints')
    BY <1>0, <2>3 DEF Grows
  <2>6. \A i \in DOMAIN complaints' : /\ complaints'[i].at <= reportsNow
                                      /\ complaints'[i].breached => ~complaints'[i].resolved
    BY <1>0, <2>1, <2>3, <2>4
  <2>7. ASSUME NEW i \in DOMAIN complaints', NEW j \in DOMAIN complaints', i <= j
        PROVE  complaints'[i].at <= complaints'[j].at
    <3>1. CASE j = n + 1
      BY <2>1, <2>3, <2>6, <3>1
    <3>2. CASE j # n + 1
      <4>1. i \in DOMAIN complaints /\ j \in DOMAIN complaints
        BY <1>0, <2>3, <2>7, <3>2
      <4>. QED
        BY <1>0, <2>3, <2>7, <4>1
    <3>. QED
      BY <3>1, <3>2
  <2>8. Logged(complaints', reportsNow')
    BY <1>0, <2>2, <2>3, <2>6, <2>7 DEF Logged
  <2>. QED
    BY <2>2, <2>5, <2>8, ComplaintsCome
<1>3. ASSUME NEW i, Reports!Breach(i) PROVE ReportsInv'
  <2>. DEFINE c == [complaints[i] EXCEPT !.breached = TRUE]
  <2>1. i \in DOMAIN complaints /\ ~complaints[i].resolved /\ complaints' = [complaints EXCEPT ![i] = c]
        /\ UNCHANGED <<reportsNow, step, draft, stored, notified>>
    BY <1>3 DEF Reports!Breach
  <2>2. complaints[i] \in Complaint
    <3>. HIDE DEF c
    <3>. QED
      BY <1>0, <2>1
  <2>3. c \in Complaint /\ c.at = complaints[i].at /\ c.resolved = complaints[i].resolved /\ c.breached
    BY <2>2 DEF Complaint
  <2>. HIDE DEF c
  <2>4. complaints' \in Seq(Complaint) /\ DOMAIN complaints' = DOMAIN complaints /\ Len(complaints') = Len(complaints)
        /\ complaints'[i] = c /\ \A j \in DOMAIN complaints : j # i => complaints'[j] = complaints[j]
    BY <1>0, <2>1, <2>3
  <2>5. \A j \in DOMAIN complaints : /\ complaints'[j].at = complaints[j].at
                                     /\ complaints'[j].resolved = complaints[j].resolved
                                     /\ complaints[j].breached => complaints'[j].breached
                                     /\ complaints'[j].breached => ~complaints'[j].resolved
    BY <1>0, <2>1, <2>3, <2>4
  <2>6. Grows(complaints, complaints')
    BY <1>0, <2>4, <2>5 DEF Grows
  <2>7. Logged(complaints', reportsNow')
    BY <1>0, <2>1, <2>4, <2>5 DEF Logged
  <2>. QED
    BY <2>1, <2>6, <2>7, ComplaintsCome
<1>4. CASE Reports!RunReport
  <2>1. PICK half : half = Reports!HalfOfYear(reportsNow)
    OBVIOUS
  <2>2. /\ draft' = Reports!Stats(half, Reports!Rows(half))
        /\ step' = "upload" /\ UNCHANGED <<reportsNow, complaints, stored, notified>>
    BY <1>4, <2>1 DEF Reports!RunReport
  <2>3. Logged(complaints, reportsNow)
    BY DEF ReportsInv
  <2>4. /\ DraftIsTrue(draft', complaints)
        /\ draft'.half = half /\ draft'.rows = First(OfHalf(complaints, half), ReportLimit)
    BY <2>2, <2>3, StatsAreTrue, RowsAreFirst DEF Reports!Stats
  <2>5. DraftIsWhole'
    <3>. SUFFICES ASSUME NEW d \in stored, d.half = draft'.half PROVE d.rows \subseteq draft'.rows
      BY <2>2 DEF DraftIsWhole
    <3>1. d.rows \subseteq First(OfHalf(complaints, d.half), ReportLimit)
      BY DEF ReportsInv, DraftIsTrue
    <3>2. d.half = half
      BY <2>4
    <3>. QED
      BY <2>4, <3>1, <3>2, Zenon
  <2>. QED
    BY <2>2, <2>3, <2>4, <2>5 DEF ReportsInv, Reports!NotifiedIsStored
<1>5. CASE Reports!Upload
  <2>1. /\ step = "upload" /\ step' = "notify" /\ UNCHANGED <<reportsNow, complaints, draft, notified>>
        /\ stored' = {d \in stored : d.half # draft.half} \cup {draft}
    BY <1>5 DEF Reports!Upload
  <2>2. Reports!NotifiedIsStored'
    <3>. SUFFICES ASSUME NEW n \in notified PROVE \E d \in stored' : d.half = n.half /\ n.rows \subseteq d.rows
      BY <2>1 DEF Reports!NotifiedIsStored
    <3>1. PICK d \in stored : d.half = n.half /\ n.rows \subseteq d.rows
      BY DEF ReportsInv, Reports!NotifiedIsStored
    <3>2. CASE d.half # draft.half
      BY <2>1, <3>1, <3>2
    <3>3. CASE d.half = draft.half
      BY <2>1, <3>1, <3>3 DEF ReportsInv, DraftIsWhole
    <3>. QED
      BY <3>2, <3>3
  <2>. QED
    BY <2>1, <2>2 DEF ReportsInv
<1>6. CASE Reports!Notify
  BY <1>6 DEF Reports!Notify, ReportsInv, Reports!NotifiedIsStored
<1>7. CASE Reports!RunFails
  BY <1>7 DEF Reports!RunFails, ReportsInv, Reports!NotifiedIsStored
<1>8. CASE Reports!Tick
  <2>1. /\ step = "idle" /\ reportsNow' = reportsNow + 1
        /\ UNCHANGED <<complaints, step, draft, stored, notified>>
    BY <1>8 DEF Reports!Tick
  <2>2. ASSUME NEW i \in DOMAIN complaints PROVE complaints[i].at \in Nat
    <3>1. complaints[i] \in Complaint
      BY <1>0
    <3>. QED
      BY <3>1 DEF Complaint
  <2>3. Logged(complaints', reportsNow')
    BY <1>0, <2>1, <2>2 DEF Logged
  <2>. QED
    BY <2>1, <2>3 DEF ReportsInv, Reports!NotifiedIsStored
<1>. QED
  BY <1>1, <1>2, <1>3, <1>4, <1>5, <1>6, <1>7, <1>8 DEF Reports!Next

(***************************************************************************)
(* For any bounds: every stored draft lists the complaints of the          *)
(* half-year it is named for that were known, but for those that come      *)
(* after as many as it may list, and its numbers are theirs; what the DPO  *)
(* is told of is stored, or a later draft of the same half-year that lists *)
(* no less (complaint-report.ts).                                          *)
(***************************************************************************)
THEOREM DraftsAreTrue == Reports!Spec => []DraftIsComplete
<1>1. ReportsInv => DraftIsComplete
  <2>. SUFFICES ASSUME ReportsInv, NEW d \in stored
                PROVE  /\ \A i \in d.rows : Reports!OfHalf(i, d.half)
                       /\ \A i \in 1 .. d.known \ d.rows : Reports!OfHalf(i, d.half) =>
                            /\ Reports!Cardinality(d.rows) = ReportLimit
                            /\ \A j \in d.rows : complaints[j].at <= complaints[i].at
                       /\ d.resolved = Reports!Cardinality({i \in d.rows : complaints[i].resolved})
                       /\ d.resolved + d.unresolved = Reports!Cardinality(d.rows)
                       /\ d.breached <= Reports!Cardinality({i \in d.rows : complaints[i].breached})
    BY DEF ReportsInv, DraftIsComplete, Reports!DraftIsComplete
  <2>1. DraftIsTrue(d, complaints) /\ Logged(complaints, reportsNow)
    BY DEF ReportsInv
  <2>2. DOMAIN complaints = 1 .. Len(complaints) /\ Len(complaints) \in Nat
    BY <2>1 DEF Logged
  <2>3. \A i \in d.rows : i \in OfHalf(complaints, d.half)
    BY <2>1 DEF DraftIsTrue, First
  <2>4. \A i \in d.rows : Reports!OfHalf(i, d.half)
    BY <2>3 DEF OfHalf, Reports!OfHalf
  <2>5. ASSUME NEW i \in 1 .. d.known \ d.rows, Reports!OfHalf(i, d.half)
        PROVE  Cardinality(d.rows) = ReportLimit /\ \A j \in d.rows : complaints[j].at <= complaints[i].at
    <3>1. i \in DOMAIN complaints
      BY <2>1, <2>2 DEF DraftIsTrue
    <3>2. i \in OfHalf(complaints, d.half)
      BY <2>5, <3>1 DEF OfHalf, Reports!OfHalf
    <3>3. Cardinality(d.rows) = ReportLimit /\ \A j \in d.rows : j < i
      BY <2>1, <3>2 DEF DraftIsTrue
    <3>4. \A j \in d.rows : j \in DOMAIN complaints
      BY <2>3 DEF OfHalf
    <3>. QED
      BY <2>1, <2>2, <3>1, <3>3, <3>4 DEF Logged
  <2>. QED
    BY <2>1, <2>4, <2>5, ReportsCount DEF DraftIsTrue
<1>. QED
  BY <1>1, ReportsStart, ReportsSteps, PTL DEF Reports!Spec

----
(***************************************************************************)
(* Structuring.                                                            *)
(***************************************************************************)
LEMMA StructuringCounts == ASSUME NEW S PROVE Structuring!Cardinality(S) = Cardinality(S)
BY DEF Structuring!Cardinality, Cardinality

(* The index has nothing the table has not had already. *)
Indexed(t) ==
  {p \in [parties : Party, boundary : BOOLEAN, at : Nat, indexed : Nat \cup {-1}] :
    p.indexed <= p.at /\ p.at <= t}

StructuringInv ==
  /\ structNow \in Nat
  /\ approved \in Seq(Indexed(structNow))
  /\ Structuring!MarkIsFounded

LEMMA StructuringStarts == Structuring!Init => StructuringInv
BY DEF Structuring!Init, StructuringInv, Structuring!MarkIsFounded

(* A row of the table that is written again. *)
LEMMA StructuringRewrites ==
  ASSUME StructuringInv, NEW i \in DOMAIN approved, NEW row \in Indexed(structNow),
         approved' = [approved EXCEPT ![i] = row], UNCHANGED <<structNow, marked>>
  PROVE  StructuringInv'
<1>1. approved' \in Seq(Indexed(structNow))
  BY DEF StructuringInv
<1>. QED
  BY <1>1 DEF StructuringInv, Structuring!MarkIsFounded

LEMMA StructuringSteps == StructuringInv /\ [Structuring!Next]_(Structuring!vars) => StructuringInv'
<1>. SUFFICES ASSUME StructuringInv, [Structuring!Next]_(Structuring!vars) PROVE StructuringInv'
  OBVIOUS
<1>. USE DEF StructuringInv
<1>1. CASE UNCHANGED Structuring!vars
  BY <1>1 DEF Structuring!vars, Structuring!MarkIsFounded
<1>2. ASSUME NEW p \in Party, NEW b \in BOOLEAN, Structuring!Approve(p, b) PROVE StructuringInv'
  <2>. PICK row : row = [parties |-> p, boundary |-> b, at |-> structNow, indexed |-> -1]
    OBVIOUS
  <2>1. row \in Indexed(structNow)
    BY DEF Indexed
  <2>2. approved' = Append(approved, row) /\ UNCHANGED <<structNow, marked>>
    BY <1>2 DEF Structuring!Approve, Structuring!Never
  <2>3. approved' \in Seq(Indexed(structNow))
    BY <2>1, <2>2
  <2>. QED
    BY <2>2, <2>3 DEF Structuring!MarkIsFounded
<1>3. ASSUME NEW i \in 1 .. MaxPayments, Structuring!Update(i) PROVE StructuringInv'
  <2>. PICK was, row : was = approved[i] /\ row = [was EXCEPT !.at = structNow]
    OBVIOUS
  <2>1. i \in DOMAIN approved /\ approved' = [approved EXCEPT ![i] = row] /\ UNCHANGED <<structNow, marked>>
    BY <1>3 DEF Structuring!Update
  <2>2. was \in Indexed(structNow)
    BY <2>1
  <2>3. row \in Indexed(structNow)
    <3>1. /\ was \in [parties : Party, boundary : BOOLEAN, at : Nat, indexed : Nat \cup {-1}]
          /\ was.indexed <= was.at /\ was.at <= structNow
      BY <2>2 DEF Indexed
    <3>2. row \in [parties : Party, boundary : BOOLEAN, at : Nat, indexed : Nat \cup {-1}]
      BY <3>1
    <3>3. row.indexed = was.indexed /\ row.at = structNow
      BY <3>1
    <3>4. row.indexed <= row.at /\ row.at <= structNow
      BY <3>1, <3>3
    <3>. QED
      BY <3>2, <3>4 DEF Indexed
  <2>. QED
    BY <2>1, <2>3, StructuringRewrites, Zenon
<1>4. ASSUME NEW i \in 1 .. MaxPayments, Structuring!Propagate(i) PROVE StructuringInv'
  <2>. PICK was, row : was = approved[i] /\ row = [was EXCEPT !.indexed = was.at]
    OBVIOUS
  <2>1. i \in DOMAIN approved /\ approved' = [approved EXCEPT ![i] = row] /\ UNCHANGED <<structNow, marked>>
    BY <1>4 DEF Structuring!Propagate
  <2>2. was \in Indexed(structNow)
    BY <2>1
  <2>3. row \in Indexed(structNow)
    <3>1. /\ was \in [parties : Party, boundary : BOOLEAN, at : Nat, indexed : Nat \cup {-1}]
          /\ was.at <= structNow
      BY <2>2 DEF Indexed
    <3>2. row \in [parties : Party, boundary : BOOLEAN, at : Nat, indexed : Nat \cup {-1}]
      BY <3>1
    <3>3. row.indexed = was.at /\ row.at = was.at
      BY <3>1
    <3>4. row.indexed <= row.at /\ row.at <= structNow
      BY <3>1, <3>3
    <3>. QED
      BY <3>2, <3>4 DEF Indexed
  <2>. QED
    BY <2>1, <2>3, StructuringRewrites, Zenon
<1>5. ASSUME NEW p \in Party, Structuring!Intent(p) PROVE StructuringInv'
  <2>1. PICK rows \in Structuring!Query :
          /\ marked' = IF Structuring!DetectStructuring(rows, p)
                       THEN {Structuring!Cardinality(Structuring!Like(p))} ELSE {}
          /\ UNCHANGED <<structNow, approved>>
    BY <1>5 DEF Structuring!Intent
  <2>. DEFINE Hits == {i \in rows : Structuring!Matches(approved[i], p)}
              Alike == Structuring!Like(p)
  <2>2. rows \in SUBSET Structuring!Recent
    BY DEF Structuring!Query
  <2>3. Hits \in SUBSET Alike
    <3>. SUFFICES ASSUME NEW i \in Hits PROVE i \in Alike
      OBVIOUS
    <3>1. i \in DOMAIN approved /\ approved[i].indexed + StructuringDay >= structNow
      BY <2>2 DEF Structuring!Recent
    <3>2. approved[i] \in Indexed(structNow)
      BY <3>1
    <3>3. approved[i].at + StructuringDay >= structNow
      BY <3>1, <3>2, StructuringAssumption DEF Indexed
    <3>4. approved[i].parties = p /\ approved[i].boundary
      BY DEF Structuring!Matches
    <3>. QED
      BY <3>1, <3>3, <3>4 DEF Structuring!Like
  <2>4. IsFiniteSet(Alike)
    <3>1. Len(approved) \in Nat /\ Alike \in SUBSET (1 .. Len(approved))
      BY DEF Structuring!Like
    <3>2. 1 \in Int /\ Len(approved) \in Int
      BY <3>1
    <3>3. IsFiniteSet(1 .. Len(approved))
      BY <3>2, FS_Interval
    <3>. QED
      BY <3>1, <3>3, FS_Subset
  <2>. HIDE DEF Alike
  <2>5. Cardinality(Hits) <= Cardinality(Alike) /\ IsFiniteSet(Hits)
    BY <2>3, <2>4, FS_Subset
  <2>6. Cardinality(Hits) \in Nat /\ Cardinality(Alike) \in Nat
    BY <2>4, <2>5, FS_CardinalityType
  <2>7. Structuring!DetectStructuring(rows, p) <=> Cardinality(Hits) >= StructuringThreshold
    BY StructuringCounts DEF Structuring!DetectStructuring
  <2>8. marked' = IF Structuring!DetectStructuring(rows, p) THEN {Cardinality(Alike)} ELSE {}
    BY <2>1, StructuringCounts DEF Alike
  <2>. HIDE DEF Hits
  <2>9. \A n \in marked' : n >= StructuringThreshold
    BY <2>5, <2>6, <2>7, <2>8, StructuringAssumption
  <2>. QED
    BY <2>1, <2>9 DEF Structuring!MarkIsFounded
<1>6. CASE Structuring!Tick
  <2>1. structNow' = structNow + 1 /\ UNCHANGED <<approved, marked>>
    BY <1>6 DEF Structuring!Tick
  <2>2. \A i \in DOMAIN approved : approved[i] \in Indexed(structNow + 1)
    <3>. SUFFICES ASSUME NEW i \in DOMAIN approved PROVE approved[i] \in Indexed(structNow + 1)
      OBVIOUS
    <3>1. approved[i] \in Indexed(structNow)
      OBVIOUS
    <3>. QED
      BY <3>1 DEF Indexed
  <2>3. approved \in Seq(Indexed(structNow + 1))
    BY <2>2
  <2>. QED
    BY <2>1, <2>3 DEF Structuring!MarkIsFounded
<1>. QED
  BY <1>1, <1>2, <1>3, <1>4, <1>5, <1>6 DEF Structuring!Next

----
(***************************************************************************)
(* RiskChecks, one counter: the times P at which it let a request pass,    *)
(* what it has counted and when its row expires.                           *)
(***************************************************************************)
CounterType == {"IP_CARD", "DEVICE_CARD", "EMAIL_INTENT"}

(* Of the first n requests it let pass, those a window from t on still sees. *)
Lately(P, n, t, W) == {i \in 1 .. n : P[i] + W > t}

InWindow(P, t, W) == {i \in DOMAIN P : P[i] <= t /\ t < P[i] + W}

WindowsHold(P, type) ==
  \A t \in 0 .. ShortTime : Cardinality(InWindow(P, t, RiskWindow[type])) <= 2 * RiskThreshold[type] - 1

(* The row was made as the counter let a request pass, the one after the
   first m.  What the row has let pass it has counted, and of what was let
   pass before it a window sees less than the threshold. *)
RowTells(P, n, e, type, m) ==
  /\ e = P[m + 1] + RiskTtl[type]
  /\ \A i \in 1 .. m : P[i] <= P[m + 1]
  /\ Len(P) - m <= n /\ Len(P) - m <= RiskThreshold[type]
  /\ Cardinality(Lately(P, m, P[m + 1], RiskWindow[type])) <= RiskThreshold[type] - 1

CounterIsSound(P, n, e, t, type) ==
  /\ P \in Seq(Nat) /\ \A i \in 1 .. Len(P) : P[i] <= t
  /\ n \in Nat /\ e \in Int
  /\ e = -1 => /\ n = 0
               /\ Cardinality(Lately(P, Len(P), t, RiskWindow[type])) <= RiskThreshold[type] - 1
  /\ e # -1 => \E m \in 0 .. Len(P) - 1 : RowTells(P, n, e, type, m)
  /\ WindowsHold(P, type)

LEMMA TypeOfCounter == \A c \in Risk!CounterId : c[1] \in CounterType
BY DEF Risk!CounterId, CounterType

LEMMA RiskConstants ==
  ASSUME NEW type \in CounterType
  PROVE  /\ RiskWindow[type] \in Nat /\ RiskTtl[type] \in Nat
         /\ RiskThreshold[type] \in Nat /\ RiskThreshold[type] >= 1
         /\ RiskTtl[type] >= RiskWindow[type]
BY RiskAssumption DEF CounterType

LEMMA FewLately ==
  ASSUME NEW P, NEW n \in Nat, NEW t, NEW W
  PROVE  /\ IsFiniteSet(Lately(P, n, t, W)) /\ Cardinality(Lately(P, n, t, W)) \in Nat
<1>1. IsFiniteSet(1 .. n)
  BY FS_Interval
<1>2. Lately(P, n, t, W) \in SUBSET (1 .. n)
  BY DEF Lately
<1>3. IsFiniteSet(Lately(P, n, t, W))
  BY <1>1, <1>2, FS_Subset
<1>. QED
  BY <1>3, FS_CardinalityType

(* A new row starts with the request that made it. *)
LEMMA NothingCountedYet ==
  ASSUME NEW t \in Nat, NEW type \in CounterType
  PROVE  CounterIsSound(<<>>, 0, -1, t, type)
<1>1. Lately(<<>>, 0, t, RiskWindow[type]) = {}
  BY DEF Lately
<1>2. \A u : InWindow(<<>>, u, RiskWindow[type]) = {}
  BY DEF InWindow
<1>3. Cardinality({}) = 0
  BY FS_EmptySet
<1>4. Len(<<>>) = 0 /\ <<>> \in Seq(Nat)
  OBVIOUS
<1>5. RiskThreshold[type] \in Nat /\ RiskThreshold[type] >= 1
  BY RiskConstants
<1>6. WindowsHold(<<>>, type)
  <2>1. \A u : Cardinality(InWindow(<<>>, u, RiskWindow[type])) = 0
    BY <1>2, <1>3, Zenon
  <2>2. 0 <= 2 * RiskThreshold[type] - 1
    BY <1>5
  <2>. QED
    BY <2>1, <2>2 DEF WindowsHold
<1>7. Cardinality(Lately(<<>>, Len(<<>>), t, RiskWindow[type])) <= RiskThreshold[type] - 1
  <2>1. Cardinality(Lately(<<>>, Len(<<>>), t, RiskWindow[type])) = 0
    BY <1>1, <1>3, <1>4, Zenon
  <2>. QED
    BY <1>5, <2>1
<1>. QED
  BY <1>4, <1>6, <1>7 DEF CounterIsSound

LEMMA SoundAsTimePasses ==
  ASSUME NEW P, NEW n, NEW e, NEW t \in Nat, NEW type \in CounterType, CounterIsSound(P, n, e, t, type)
  PROVE  CounterIsSound(P, n, e, t + 1, type)
<1>. DEFINE A == Lately(P, Len(P), t, RiskWindow[type])
            B == Lately(P, Len(P), t + 1, RiskWindow[type])
<1>1. P \in Seq(Nat) /\ Len(P) \in Nat
  BY DEF CounterIsSound
<1>2. IsFiniteSet(A)
  BY <1>1, FewLately
<1>3. Cardinality(A) \in Nat /\ Cardinality(B) \in Nat
  BY <1>1, FewLately
<1>4. B \in SUBSET A
  <2>. SUFFICES ASSUME NEW i \in 1 .. Len(P), P[i] + RiskWindow[type] > t + 1
                PROVE  P[i] + RiskWindow[type] > t
    BY DEF Lately
  <2>. QED
    BY <1>1, RiskConstants
<1>5. Cardinality(B) <= Cardinality(A)
  BY <1>2, <1>4, FS_Subset
<1>6. \A i \in 1 .. Len(P) : P[i] <= t + 1
  <2>1. \A i \in 1 .. Len(P) : P[i] \in Nat /\ P[i] <= t
    BY <1>1 DEF CounterIsSound
  <2>. QED
    BY <2>1
<1>7. e = -1 => Cardinality(B) <= RiskThreshold[type] - 1
  <2>. HIDE DEF A, B
  <2>1. e = -1 => Cardinality(A) <= RiskThreshold[type] - 1
    BY DEF CounterIsSound, A
  <2>. QED
    BY <1>3, <1>5, <2>1, RiskConstants
<1>. QED
  BY <1>6, <1>7 DEF CounterIsSound

(* What a deleted row leaves: the request that made it is out of the window. *)
LEMMA SoundWhenDeleted ==
  ASSUME NEW P, NEW n, NEW e, NEW t \in Nat, NEW type \in CounterType, CounterIsSound(P, n, e, t, type),
         e # -1, e <= t
  PROVE  CounterIsSound(P, 0, -1, t, type)
<1>. DEFINE W == RiskWindow[type]
            A == Lately(P, Len(P), t, W)
<1>1. P \in Seq(Nat) /\ Len(P) \in Nat /\ \A i \in 1 .. Len(P) : P[i] \in Nat
  BY DEF CounterIsSound
<1>2. PICK m \in 0 .. Len(P) - 1 : RowTells(P, n, e, type, m)
  BY DEF CounterIsSound
<1>3. \A i \in 1 .. m + 1 : P[i] + W <= t
  <2>. SUFFICES ASSUME NEW i \in 1 .. m + 1 PROVE P[i] + W <= t
    OBVIOUS
  <2>1. P[i] \in Nat /\ P[m + 1] \in Nat
    BY <1>1
  <2>2. P[i] <= P[m + 1]
    <3>1. CASE i = m + 1
      BY <2>1, <3>1
    <3>2. CASE i # m + 1
      BY <1>2, <3>2 DEF RowTells
    <3>. QED
      BY <3>1, <3>2
  <2>3. P[m + 1] + RiskTtl[type] <= t
    BY <1>2 DEF RowTells
  <2>. QED
    BY <2>1, <2>2, <2>3, RiskConstants
<1>4. A \in SUBSET ((m + 2) .. Len(P))
  <2>. SUFFICES ASSUME NEW i \in 1 .. Len(P), P[i] + W > t PROVE i \in (m + 2) .. Len(P)
    BY DEF Lately
  <2>1. i \notin 1 .. m + 1
    <3>1. P[i] \in Nat /\ W \in Nat
      BY <1>1, RiskConstants
    <3>. QED
      BY <1>3, <3>1
  <2>. QED
    BY <1>1, <2>1
<1>5. IsFiniteSet((m + 2) .. Len(P)) /\ Cardinality((m + 2) .. Len(P)) = Len(P) - m - 1
  <2>1. m + 2 \in Int /\ Len(P) \in Int
    BY <1>1
  <2>2. /\ IsFiniteSet((m + 2) .. Len(P))
        /\ Cardinality((m + 2) .. Len(P)) = IF m + 2 > Len(P) THEN 0 ELSE Len(P) - (m + 2) + 1
    BY <2>1, FS_Interval
  <2>. QED
    BY <1>1, <2>2
<1>6. Cardinality(A) <= Cardinality((m + 2) .. Len(P))
  BY <1>4, <1>5, FS_Subset
<1>7. Cardinality(A) <= RiskThreshold[type] - 1
  <2>1. Cardinality(A) \in Nat
    BY <1>1, FewLately
  <2>2. Len(P) - m <= RiskThreshold[type]
    BY <1>2 DEF RowTells
  <2>. HIDE DEF A
  <2>. QED
    BY <1>1, <1>5, <1>6, <2>1, <2>2, RiskConstants
<1>. QED
  BY <1>7 DEF CounterIsSound

(* Another request passes where a window has seen less than twice the
   threshold, but one. *)
LEMMA WindowsHoldOneMore ==
  ASSUME NEW P \in Seq(Nat), NEW t \in Nat, NEW type \in CounterType,
         \A i \in 1 .. Len(P) : P[i] <= t, WindowsHold(P, type),
         Cardinality(Lately(P, Len(P), t, RiskWindow[type])) <= 2 * RiskThreshold[type] - 2
  PROVE  WindowsHold(Append(P, t), type)
<1>. DEFINE W == RiskWindow[type]
            Q == Append(P, t)
            A == Lately(P, Len(P), t, W)
<1>1. W \in Nat /\ RiskThreshold[type] \in Nat
  BY RiskConstants
<1>2. Len(Q) = Len(P) + 1 /\ Len(P) \in Nat /\ Q[Len(P) + 1] = t /\ \A i \in 1 .. Len(P) : Q[i] = P[i] /\ P[i] \in Nat
  OBVIOUS
<1>3. DOMAIN Q = 1 .. Len(P) + 1 /\ DOMAIN P = 1 .. Len(P)
  OBVIOUS
<1>. HIDE DEF Q, W
<1>. SUFFICES ASSUME NEW u \in 0 .. ShortTime
              PROVE  Cardinality(InWindow(Q, u, W)) <= 2 * RiskThreshold[type] - 1
  BY DEF WindowsHold, Q, W
<1>4. CASE u < t
  <2>1. InWindow(Q, u, W) = InWindow(P, u, W)
    BY <1>2, <1>3, <1>4 DEF InWindow
  <2>. QED
    BY <2>1 DEF WindowsHold, W
<1>5. CASE ~(u < t)
  <2>1. IsFiniteSet(A) /\ Cardinality(A) \in Nat
    BY <1>2, FewLately
  <2>2. /\ IsFiniteSet(A \cup {Len(P) + 1})
        /\ Cardinality(A \cup {Len(P) + 1})
             = IF Len(P) + 1 \in A THEN Cardinality(A) ELSE Cardinality(A) + 1
    BY <2>1, FS_AddElement
  <2>3. InWindow(Q, u, W) \in SUBSET (A \cup {Len(P) + 1})
    <3>. SUFFICES ASSUME NEW i \in DOMAIN Q, u < Q[i] + W, i # Len(P) + 1 PROVE i \in A
      BY DEF InWindow
    <3>1. i \in 1 .. Len(P)
      BY <1>2, <1>3
    <3>2. P[i] + W > t
      BY <1>1, <1>2, <1>5, <3>1
    <3>. QED
      BY <3>1, <3>2 DEF Lately, W
  <2>. DEFINE C == Cardinality(InWindow(Q, u, W))
  <2>4. C <= Cardinality(A \cup {Len(P) + 1})
    BY <2>2, <2>3, FS_Subset
  <2>5. C \in Nat
    BY <2>2, <2>3, FS_Subset, FS_CardinalityType
  <2>6. Cardinality(A) <= 2 * RiskThreshold[type] - 2
    BY DEF W
  <2>. HIDE DEF A, C
  <2>7. C <= 2 * RiskThreshold[type] - 1
    BY <1>1, <2>1, <2>2, <2>4, <2>5, <2>6
  <2>. QED
    BY <2>7 DEF C
<1>. QED
  BY <1>4, <1>5

LEMMA TwiceLess ==
  ASSUME NEW a \in Nat, NEW b \in Nat, NEW c \in Nat, NEW k \in Int, NEW th \in Nat,
         a <= b + k - c, b <= th - 1, k <= th - 1
  PROVE  a <= 2 * th - 2
OBVIOUS

(* A request that the counter counts, and lets pass if it is below the
   threshold. *)
LEMMA SoundWhenCounted ==
  ASSUME NEW P, NEW n, NEW e, NEW t \in Nat, NEW type \in CounterType, CounterIsSound(P, n, e, t, type)
  PROVE  CounterIsSound(IF n + 1 > RiskThreshold[type] THEN P ELSE Append(P, t), n + 1,
                        IF e = -1 THEN t + RiskTtl[type] ELSE e, t, type)
<1>. DEFINE W == RiskWindow[type]
            Th == RiskThreshold[type]
            Q == Append(P, t)
            A == Lately(P, Len(P), t, W)
<1>1. W \in Nat /\ Th \in Nat /\ Th >= 1 /\ RiskTtl[type] \in Nat
  BY RiskConstants
<1>2. /\ P \in Seq(Nat) /\ Len(P) \in Nat /\ n \in Nat /\ e \in Int
      /\ \A i \in 1 .. Len(P) : P[i] \in Nat /\ P[i] <= t
  BY DEF CounterIsSound
<1>3. /\ Q \in Seq(Nat) /\ Len(Q) = Len(P) + 1 /\ Q[Len(P) + 1] = t
      /\ \A i \in 1 .. Len(P) : Q[i] = P[i]
  BY <1>2
<1>4. \A i \in 1 .. Len(Q) : Q[i] <= t
  <2>. HIDE DEF Q
  <2>1. \A i \in 1 .. Len(Q) : i \in 1 .. Len(P) \/ i = Len(P) + 1
    BY <1>2, <1>3
  <2>2. t <= t
    OBVIOUS
  <2>. QED
    BY <1>2, <1>3, <2>1, <2>2
<1>5. IsFiniteSet(A) /\ Cardinality(A) \in Nat
  BY <1>2, FewLately
<1>6. ASSUME NEW k \in 0 .. Len(P), NEW u PROVE Lately(Q, k, u, W) = Lately(P, k, u, W)
  <2>. HIDE DEF Q
  <2>1. \A i \in 1 .. k : i \in 1 .. Len(P)
    BY <1>2
  <2>2. \A i \in 1 .. k : Q[i] = P[i]
    BY <1>3, <2>1
  <2>. QED
    BY <2>2 DEF Lately
<1>7. CASE e = -1
  <2>1. n = 0 /\ Cardinality(A) <= Th - 1
    BY <1>7 DEF CounterIsSound
  <2>2. WindowsHold(Q, type)
    <3>1. Cardinality(A) <= 2 * Th - 2
      <4>. HIDE DEF A, Th
      <4>. QED
        BY <1>1, <1>5, <2>1
    <3>. QED
      BY <1>2, <3>1, WindowsHoldOneMore DEF CounterIsSound
  <2>3. RowTells(Q, 1, t + RiskTtl[type], type, Len(P))
    <3>1. Cardinality(Lately(Q, Len(P), Q[Len(P) + 1], W)) <= Th - 1
      <4>1. Lately(Q, Len(P), t, W) = A
        BY <1>2, <1>6
      <4>. QED
        BY <1>3, <2>1, <4>1
    <3>. HIDE DEF Q
    <3>2. \A i \in 1 .. Len(P) : Q[i] <= Q[Len(P) + 1]
      BY <1>2, <1>3
    <3>3. Len(Q) - Len(P) <= 1 /\ Len(Q) - Len(P) <= Th
      BY <1>1, <1>2, <1>3
    <3>. QED
      BY <1>3, <3>1, <3>2, <3>3 DEF RowTells
  <2>. HIDE DEF Q
  <2>4. Len(P) \in 0 .. Len(Q) - 1
    BY <1>2, <1>3
  <2>5. t + RiskTtl[type] # -1 /\ t + RiskTtl[type] \in Int
    BY <1>1
  <2>6. CounterIsSound(Q, 1, t + RiskTtl[type], t, type)
    BY <1>3, <1>4, <2>2, <2>3, <2>4, <2>5 DEF CounterIsSound
  <2>7. n + 1 = 1 /\ ~(n + 1 > Th)
    BY <1>1, <2>1
  <2>. QED
    BY <1>7, <2>6, <2>7 DEF Q
<1>8. CASE e # -1
  <2>1. PICK m \in 0 .. Len(P) - 1 : RowTells(P, n, e, type, m)
    BY <1>8 DEF CounterIsSound
  <2>2. m \in Nat /\ m + 1 \in 1 .. Len(P)
    BY <1>2
  <2>3. Len(P) - m <= n /\ Len(P) - m <= Th
    BY <2>1 DEF RowTells
  <2>4. CASE n + 1 > Th
    <3>1. RowTells(P, n + 1, e, type, m)
      <4>1. Len(P) - m <= n + 1
        BY <1>2, <2>2, <2>3
      <4>. QED
        BY <2>1, <4>1 DEF RowTells
    <3>2. CounterIsSound(P, n + 1, e, t, type)
      <4>1. n + 1 \in Nat
        BY <1>2
      <4>. QED
        BY <1>8, <3>1, <4>1 DEF CounterIsSound
    <3>. QED
      BY <1>8, <2>4, <3>2
  <2>5. CASE ~(n + 1 > Th)
    <3>. DEFINE B == Lately(P, m, P[m + 1], W)
                New == (m + 1) .. Len(P)
    <3>1. IsFiniteSet(B) /\ Cardinality(B) \in Nat
      BY <2>2, FewLately
    <3>2. IsFiniteSet(New) /\ Cardinality(New) = Len(P) - m
      <4>1. m + 1 \in Int /\ Len(P) \in Int
        BY <1>2, <2>2
      <4>2. IsFiniteSet(New) /\ Cardinality(New) = IF m + 1 > Len(P) THEN 0 ELSE Len(P) - (m + 1) + 1
        BY <4>1, FS_Interval
      <4>. QED
        BY <1>2, <2>2, <4>2
    <3>3. A \in SUBSET (B \cup New)
      <4>. SUFFICES ASSUME NEW i \in 1 .. Len(P), P[i] + W > t, i \notin New PROVE i \in B
        BY DEF Lately
      <4>1. i \in 1 .. m
        BY <1>2, <2>2
      <4>2. P[i] + W > P[m + 1]
        BY <1>1, <1>2, <2>2
      <4>. QED
        BY <4>1, <4>2 DEF Lately
    <3>4. /\ IsFiniteSet(B \cup New) /\ IsFiniteSet(B \cap New)
          /\ Cardinality(B \cup New) = Cardinality(B) + Cardinality(New) - Cardinality(B \cap New)
      BY <3>1, <3>2, FS_Union, FS_Intersection
    <3>5. Cardinality(B \cap New) \in Nat
      BY <3>4, FS_CardinalityType
    <3>6. Cardinality(A) <= Cardinality(B \cup New)
      BY <3>3, <3>4, FS_Subset
    <3>7. Cardinality(B) <= Th - 1
      BY <2>1 DEF RowTells
    <3>8. Cardinality(A) <= 2 * Th - 2
      <4>. DEFINE bs == Cardinality(B)
                  news == Cardinality(New)
                  both == Cardinality(B \cap New)
                  all == Cardinality(B \cup New)
                  as == Cardinality(A)
      <4>1. /\ bs \in Nat /\ both \in Nat /\ as \in Nat
            /\ as <= all /\ all = bs + news - both /\ bs <= Th - 1 /\ news = Len(P) - m
        BY <1>5, <3>1, <3>2, <3>4, <3>5, <3>6, <3>7
      <4>2. Len(P) - m <= Th - 1
        BY <1>1, <1>2, <2>2, <2>3, <2>5
      <4>3. news \in Int /\ news <= Th - 1 /\ Th \in Nat
        BY <1>1, <1>2, <2>2, <4>1, <4>2
      <4>4. /\ bs \in Nat /\ both \in Nat /\ as \in Nat /\ news \in Int /\ Th \in Nat
            /\ as <= bs + news - both /\ bs <= Th - 1 /\ news <= Th - 1
        BY <4>1, <4>3
      <4>. HIDE DEF bs, news, both, as, Th
      <4>5. as <= 2 * Th - 2
        BY <4>4, TwiceLess
      <4>. QED
        BY <4>5 DEF as, Th
    <3>9. WindowsHold(Q, type)
      BY <1>2, <3>8, WindowsHoldOneMore DEF CounterIsSound
    <3>10. RowTells(Q, n + 1, e, type, m)
      <4>1. Cardinality(Lately(Q, m, Q[m + 1], W)) <= Th - 1
        <5>1. Lately(Q, m, P[m + 1], W) = B
          BY <1>2, <1>6, <2>2
        <5>2. Q[m + 1] = P[m + 1]
          BY <1>3, <2>2
        <5>. QED
          BY <3>7, <5>1, <5>2
      <4>. HIDE DEF Q
      <4>2. \A i \in 1 .. m : i \in 1 .. Len(P)
        BY <1>2, <2>2
      <4>3. Q[m + 1] = P[m + 1] /\ \A i \in 1 .. m : Q[i] = P[i]
        BY <1>3, <2>2, <4>2
      <4>4. e = Q[m + 1] + RiskTtl[type] /\ \A i \in 1 .. m : Q[i] <= Q[m + 1]
        BY <2>1, <4>3 DEF RowTells
      <4>5. Len(Q) - m <= n + 1 /\ Len(Q) - m <= Th
        <5>1. Len(P) \in Nat /\ n \in Nat /\ m \in Nat /\ Th \in Nat /\ Len(Q) = Len(P) + 1
          BY <1>1, <1>2, <1>3, <2>2
        <5>2. n + 1 <= Th
          BY <2>5, <5>1
        <5>3. Len(P) - m <= n
          BY <2>3
        <5>. HIDE DEF Th
        <5>. QED
          BY <5>1, <5>2, <5>3
      <4>. QED
        BY <4>1, <4>4, <4>5 DEF RowTells
    <3>. HIDE DEF Q
    <3>11. m \in 0 .. Len(Q) - 1 /\ n + 1 \in Nat
      BY <1>2, <1>3, <2>2
    <3>12. CounterIsSound(Q, n + 1, e, t, type)
      BY <1>2, <1>3, <1>4, <1>8, <3>9, <3>10, <3>11 DEF CounterIsSound
    <3>. QED
      BY <1>8, <2>5, <3>12 DEF Q
  <2>. QED
    BY <2>4, <2>5
<1>. QED
  BY <1>7, <1>8

----
(***************************************************************************)
(* RiskChecks, the requests.                                               *)
(***************************************************************************)
LEMMA RiskCounts == ASSUME NEW S PROVE Risk!Cardinality(S) = Cardinality(S)
BY DEF Risk!Cardinality, Cardinality

LEMMA RiskAdds == ASSUME NEW f, NEW S PROVE Risk!SumOf(f, S) = SumOf(f, S)
BY DEF Risk!SumOf, Risk!MapThenSumSet, Risk!MapThenFoldSet, SumOf, MapThenSumSet, MapThenFoldSet

(* The signals of a request, its address and then its counters. *)
LEMMA SignalOfFlag ==
  ASSUME NEW flags, NEW type, NEW weight, [type |-> type, weight |-> weight] \in Risk!Signal
  PROVE  Risk!Flagged(flags, type, weight) \in Seq(Risk!Signal)
<1>. PICK signal \in Risk!Signal : signal = [type |-> type, weight |-> weight]
  OBVIOUS
<1>1. <<signal>> \in Seq(Risk!Signal) /\ <<>> \in Seq(Risk!Signal)
  OBVIOUS
<1>. QED
  BY <1>1 DEF Risk!Flagged

LEMMA SignalsOfAddress == ASSUME NEW flags PROVE Risk!GeoSignals(flags) \in Seq(Risk!Signal)
<1>1. /\ Risk!Flagged(flags, "TOR_EXIT", 10) \in Seq(Risk!Signal)
      /\ Risk!Flagged(flags, "VPN_DETECTED", 8) \in Seq(Risk!Signal)
      /\ Risk!Flagged(flags, "PROXY_DETECTED", 6) \in Seq(Risk!Signal)
      /\ Risk!Flagged(flags, "DATACENTER_IP", 5) \in Seq(Risk!Signal)
  <2>1. /\ [type |-> "TOR_EXIT", weight |-> 10] \in Risk!Signal
        /\ [type |-> "VPN_DETECTED", weight |-> 8] \in Risk!Signal
        /\ [type |-> "PROXY_DETECTED", weight |-> 6] \in Risk!Signal
        /\ [type |-> "DATACENTER_IP", weight |-> 5] \in Risk!Signal
    BY DEF Risk!Signal
  <2>. QED
    BY <2>1, SignalOfFlag
<1>. QED
  BY <1>1 DEF Risk!GeoSignals

LEMMA SignalsOfCounters ==
  ASSUME NEW n \in Nat
  PROVE  [i \in 1 .. n |-> [type |-> "VELOCITY_EXCEEDED", weight |-> 6]] \in Seq(Risk!Signal)
<1>1. [type |-> "VELOCITY_EXCEEDED", weight |-> 6] \in Risk!Signal
  BY DEF Risk!Signal
<1>. QED
  BY <1>1

LEMMA FiniteCounters ==
  ASSUME NEW u, NEW ip, NEW devices \in {<<>>} \cup {<<d>> : d \in Device}
  PROVE  IsFiniteSet(DOMAIN Risk!Moved(u, ip, devices))
<1>. DEFINE Any == {"IP_CARD", "DEVICE_CARD", "EMAIL_INTENT"} \X ({u, ip} \cup Device)
            More == [i \in DOMAIN devices |-> <<"DEVICE_CARD", devices[i]>>]
<1>1. devices \in Seq(Device)
  <2>1. <<>> \in Seq(Device) /\ \A d \in Device : <<d>> \in Seq(Device)
    OBVIOUS
  <2>. QED
    BY <2>1, Zenon
<1>2. More \in Seq(Any)
  BY <1>1
<1>3. <<<<"IP_CARD", ip>>>> \in Seq(Any) /\ <<<<"EMAIL_INTENT", u>>>> \in Seq(Any)
  <2>1. <<"IP_CARD", ip>> \in Any /\ <<"EMAIL_INTENT", u>> \in Any
    BY Zenon
  <2>. PICK a, b : a = <<"IP_CARD", ip>> /\ b = <<"EMAIL_INTENT", u>>
    OBVIOUS
  <2>. HIDE DEF Any
  <2>2. <<a>> \in Seq(Any) /\ <<b>> \in Seq(Any)
    BY <2>1
  <2>. QED
    BY <2>2
<1>4. Risk!Moved(u, ip, devices) \in Seq(Any)
  <2>. HIDE DEF Any, More
  <2>1. Risk!Moved(u, ip, devices) = <<<<"IP_CARD", ip>>>> \o More \o <<<<"EMAIL_INTENT", u>>>>
    BY DEF Risk!Moved, More
  <2>. QED
    BY <1>2, <1>3, <2>1
<1>5. PICK n \in Nat : DOMAIN Risk!Moved(u, ip, devices) = 1 .. n
  <2>. HIDE DEF Any
  <2>. QED
    BY <1>4
<1>6. IsFiniteSet(1 .. n)
  BY FS_Interval
<1>. QED
  BY <1>5, <1>6

(* Nobody is held for his past before it was looked at. *)
Unlisted(signals) == \A i \in DOMAIN signals : signals[i].type # "BLACKLIST_MATCH"

LEMMA UnlistedJoins ==
  ASSUME NEW a \in Seq(Risk!Signal), NEW b \in Seq(Risk!Signal), Unlisted(a), Unlisted(b)
  PROVE  Unlisted(a \o b)
<1>. SUFFICES ASSUME NEW i \in DOMAIN (a \o b) PROVE (a \o b)[i].type # "BLACKLIST_MATCH"
  BY DEF Unlisted
<1>. PICK S : S = Risk!Signal
  OBVIOUS
<1>1. a \in Seq(S) /\ b \in Seq(S) /\ Len(a) \in Nat /\ Len(b) \in Nat
  OBVIOUS
<1>2. i \in 1 .. Len(a) + Len(b)
  BY <1>1
<1>3. CASE i \in 1 .. Len(a)
  BY <1>1, <1>3 DEF Unlisted
<1>4. CASE i \notin 1 .. Len(a)
  <2>1. i - Len(a) \in 1 .. Len(b) /\ (a \o b)[i] = b[i - Len(a)]
    BY <1>1, <1>2, <1>4
  <2>. QED
    BY <1>1, <2>1 DEF Unlisted
<1>. QED
  BY <1>3, <1>4

LEMMA AddressIsUnlisted == ASSUME NEW flags PROVE Unlisted(Risk!GeoSignals(flags))
<1>1. ASSUME NEW type, NEW weight, [type |-> type, weight |-> weight] \in Risk!Signal,
             type # "BLACKLIST_MATCH"
      PROVE  /\ Risk!Flagged(flags, type, weight) \in Seq(Risk!Signal)
             /\ Unlisted(Risk!Flagged(flags, type, weight))
  <2>1. Unlisted(Risk!Flagged(flags, type, weight))
    BY <1>1 DEF Risk!Flagged, Unlisted
  <2>. QED
    BY <1>1, <2>1, SignalOfFlag
<1>2. /\ [type |-> "TOR_EXIT", weight |-> 10] \in Risk!Signal
      /\ [type |-> "VPN_DETECTED", weight |-> 8] \in Risk!Signal
      /\ [type |-> "PROXY_DETECTED", weight |-> 6] \in Risk!Signal
      /\ [type |-> "DATACENTER_IP", weight |-> 5] \in Risk!Signal
  BY DEF Risk!Signal
<1>. PICK tor, vpn, proxy, host :
       /\ tor = Risk!Flagged(flags, "TOR_EXIT", 10) /\ vpn = Risk!Flagged(flags, "VPN_DETECTED", 8)
       /\ proxy = Risk!Flagged(flags, "PROXY_DETECTED", 6)
       /\ host = Risk!Flagged(flags, "DATACENTER_IP", 5)
  OBVIOUS
<1>3. /\ tor \in Seq(Risk!Signal) /\ Unlisted(tor) /\ vpn \in Seq(Risk!Signal) /\ Unlisted(vpn)
      /\ proxy \in Seq(Risk!Signal) /\ Unlisted(proxy) /\ host \in Seq(Risk!Signal) /\ Unlisted(host)
  BY <1>1, <1>2
<1>. PICK two : two = tor \o vpn
  OBVIOUS
<1>4. two \in Seq(Risk!Signal) /\ Unlisted(two)
  <2>1. tor \o vpn \in Seq(Risk!Signal)
    BY <1>3
  <2>. QED
    BY <1>3, <2>1, UnlistedJoins
<1>. PICK three : three = two \o proxy
  OBVIOUS
<1>5. three \in Seq(Risk!Signal) /\ Unlisted(three)
  <2>1. two \o proxy \in Seq(Risk!Signal)
    BY <1>3, <1>4
  <2>. QED
    BY <1>3, <1>4, <2>1, UnlistedJoins
<1>6. Unlisted(three \o host)
  BY <1>3, <1>5, UnlistedJoins
<1>. QED
  BY <1>6 DEF Risk!GeoSignals

(* Among the rows is a block that was no older than its term at time t. *)
Recently(rows, t) == \E i \in DOMAIN rows : rows[i].decision = "BLOCK" /\ rows[i].at + HistoryTtl >= t

Scored == [user : User, signals : Seq(Risk!Signal), at : Risk!Time]

Decisions == [decision : Risk!Decision, at : Nat]

LEMMA RecentlyOneMore ==
  ASSUME NEW rows \in Seq(Decisions), NEW row \in Decisions, NEW t, Recently(rows, t)
  PROVE  Recently(Append(rows, row), t)
<1>. PICK more : more = Append(rows, row)
  OBVIOUS
<1>. PICK S : S = Decisions
  OBVIOUS
<1>. PICK i \in DOMAIN rows : rows[i].decision = "BLOCK" /\ rows[i].at + HistoryTtl >= t
  BY DEF Recently
<1>1. rows \in Seq(S) /\ i \in 1 .. Len(rows)
  OBVIOUS
<1>2. i \in DOMAIN more /\ more[i] = rows[i]
  BY <1>1
<1>. QED
  BY <1>2 DEF Recently

RiskTyped ==
  /\ riskNow \in Nat /\ riskNow \in Risk!Time
  /\ DOMAIN count = Risk!CounterId /\ DOMAIN expires = Risk!CounterId /\ DOMAIN passed = Risk!CounterId
  /\ job \in [Worker -> Scored] /\ DOMAIN riskPc = Worker
  /\ history \in [User -> Seq(Decisions)]

CountersAreSound ==
  \A c \in Risk!CounterId : CounterIsSound(passed[c], count[c], expires[c], riskNow, c[1])

JobsAreFounded ==
  \A w \in Worker :
    /\ riskPc[w] = "history" => Unlisted(job[w].signals)
    /\ riskPc[w] = "record" /\ Risk!Blacklisted \in Risk!Range(job[w].signals) =>
         Recently(history[job[w].user], job[w].at)

RiskInv == RiskTyped /\ CountersAreSound /\ JobsAreFounded

LEMMA NoJobTyped == Risk!NoJob \in Scored
<1>1. (CHOOSE u \in User : TRUE) \in User
  BY UserAssumption
<1>2. <<>> \in Seq(Risk!Signal) /\ 0 \in Risk!Time
  BY ClockAssumption DEF Risk!Time
<1>. QED
  BY <1>1, <1>2 DEF Risk!NoJob, Scored

LEMMA RiskStarts == Risk!Init => RiskInv
<1>. SUFFICES ASSUME Risk!Init PROVE RiskInv
  OBVIOUS
<1>1. RiskTyped
  <2>1. job \in [Worker -> Scored]
    BY NoJobTyped DEF Risk!Init
  <2>2. <<>> \in Seq(Decisions)
    OBVIOUS
  <2>3. history \in [User -> Seq(Decisions)]
    BY <2>2, Zenon DEF Risk!Init
  <2>4. 0 \in Risk!Time
    BY ClockAssumption DEF Risk!Time
  <2>. QED
    BY <2>1, <2>3, <2>4 DEF Risk!Init, RiskTyped
<1>2. CountersAreSound
  <2>. SUFFICES ASSUME NEW c \in Risk!CounterId
                PROVE  CounterIsSound(passed[c], count[c], expires[c], riskNow, c[1])
    BY DEF CountersAreSound
  <2>1. passed[c] = <<>> /\ count[c] = 0 /\ expires[c] = -1 /\ riskNow = 0
    BY DEF Risk!Init, Risk!Never
  <2>2. CounterIsSound(<<>>, 0, -1, 0, c[1])
    BY TypeOfCounter, NothingCountedYet
  <2>. QED
    BY <2>1, <2>2
<1>3. JobsAreFounded
  BY DEF Risk!Init, JobsAreFounded
<1>. QED
  BY <1>1, <1>2, <1>3 DEF RiskInv

(* What leaves the counters and the clock alone leaves them sound. *)
LEMMA CountersUnmoved ==
  CountersAreSound /\ UNCHANGED <<passed, count, expires, riskNow>> => CountersAreSound'
BY DEF CountersAreSound

(* What leaves the requests and the history alone leaves them founded. *)
LEMMA JobsUnmoved ==
  JobsAreFounded /\ UNCHANGED <<riskPc, job, history>> => JobsAreFounded'
BY DEF JobsAreFounded

(* A step of one request: the others are as founded as they were. *)
LEMMA JobsMove ==
  ASSUME RiskTyped, JobsAreFounded, NEW w \in Worker, NEW mine \in Scored, NEW state,
         job' = [job EXCEPT ![w] = mine], riskPc' = [riskPc EXCEPT ![w] = state],
         UNCHANGED history,
         state = "history" => Unlisted(mine.signals),
         state = "record" /\ Risk!Blacklisted \in Risk!Range(mine.signals) => Recently(history[mine.user], mine.at)
  PROVE  JobsAreFounded' /\ job' \in [Worker -> Scored] /\ DOMAIN riskPc' = Worker
<1>1. \A v \in Worker : /\ job'[v] = IF v = w THEN mine ELSE job[v]
                        /\ riskPc'[v] = IF v = w THEN state ELSE riskPc[v]
  BY DEF RiskTyped
<1>2. JobsAreFounded'
  <2>. SUFFICES ASSUME NEW v \in Worker
                PROVE  /\ riskPc'[v] = "history" => Unlisted(job'[v].signals)
                       /\ riskPc'[v] = "record" /\ Risk!Blacklisted \in Risk!Range(job'[v].signals) =>
                            Recently(history[job'[v].user], job'[v].at)
    BY DEF JobsAreFounded
  <2>. QED
    BY <1>1, Zenon DEF JobsAreFounded
<1>. QED
  BY <1>2 DEF RiskTyped

LEMMA RequestSound ==
  ASSUME RiskInv, NEW w \in Worker, NEW u \in User, NEW ip \in Ip,
         NEW devices \in {<<>>} \cup {<<d>> : d \in Device}, NEW flags,
         Risk!Request(w, u, ip, devices, flags)
  PROVE  RiskInv'
<1>. PICK moved : moved = Risk!Moved(u, ip, devices)
  OBVIOUS
<1>. DEFINE exceeded(c) == count[c] + 1 > RiskThreshold[c[1]]
            X == {j \in DOMAIN moved : exceeded(moved[j])}
            velocity == [i \in 1 .. Risk!Cardinality(X) |-> [type |-> "VELOCITY_EXCEEDED", weight |-> 6]]
            mine == [user |-> u, signals |-> Risk!GeoSignals(flags) \o velocity, at |-> 0]
<1>1. /\ count' = [c \in Risk!CounterId |-> count[c] + (IF c \in Risk!Range(moved) THEN 1 ELSE 0)]
      /\ expires' = [c \in Risk!CounterId |->
           IF c \in Risk!Range(moved) /\ expires[c] = Risk!Never THEN riskNow + RiskTtl[c[1]] ELSE expires[c]]
      /\ passed' = [c \in Risk!CounterId |->
           IF c \in Risk!Range(moved) /\ ~exceeded(c) THEN Append(passed[c], riskNow) ELSE passed[c]]
      /\ job' = [job EXCEPT ![w] = mine]
      /\ riskPc' = [riskPc EXCEPT ![w] = "history"]
      /\ UNCHANGED <<riskNow, history>>
  BY DEF Risk!Request, Risk!Count
<1>2. mine \in Scored /\ Unlisted(mine.signals)
  <2>1. IsFiniteSet(DOMAIN moved)
    BY FiniteCounters
  <2>2. X \in SUBSET DOMAIN moved
    OBVIOUS
  <2>3. IsFiniteSet(X)
    BY <2>1, <2>2, FS_Subset
  <2>4. Risk!Cardinality(X) \in Nat
    BY <2>3, RiskCounts, FS_CardinalityType
  <2>5. velocity \in Seq(Risk!Signal)
    BY <2>4, SignalsOfCounters
  <2>6. Unlisted(velocity)
    BY DEF Unlisted
  <2>. HIDE DEF velocity
  <2>7. Risk!GeoSignals(flags) \o velocity \in Seq(Risk!Signal)
    BY <2>5, SignalsOfAddress
  <2>8. Unlisted(Risk!GeoSignals(flags) \o velocity)
    BY <2>5, <2>6, SignalsOfAddress, AddressIsUnlisted, UnlistedJoins
  <2>9. 0 \in Risk!Time
    BY ClockAssumption DEF Risk!Time
  <2>. QED
    BY <2>7, <2>8, <2>9 DEF Scored
<1>. HIDE DEF mine
<1>3. JobsAreFounded' /\ job' \in [Worker -> Scored] /\ DOMAIN riskPc' = Worker
  BY <1>1, <1>2, JobsMove DEF RiskInv
<1>4. CountersAreSound'
  <2>. SUFFICES ASSUME NEW c \in Risk!CounterId
                PROVE  CounterIsSound(passed'[c], count'[c], expires'[c], riskNow, c[1])
    BY <1>1 DEF CountersAreSound
  <2>1. CounterIsSound(passed[c], count[c], expires[c], riskNow, c[1])
    BY DEF RiskInv, CountersAreSound
  <2>2. CASE c \in Risk!Range(moved)
    <3>1. /\ passed'[c] = IF count[c] + 1 > RiskThreshold[c[1]] THEN passed[c] ELSE Append(passed[c], riskNow)
          /\ expires'[c] = IF expires[c] = -1 THEN riskNow + RiskTtl[c[1]] ELSE expires[c]
          /\ count'[c] = count[c] + 1
      BY <1>1, <2>2 DEF Risk!Never
    <3>2. CounterIsSound(IF count[c] + 1 > RiskThreshold[c[1]] THEN passed[c] ELSE Append(passed[c], riskNow),
                         count[c] + 1, IF expires[c] = -1 THEN riskNow + RiskTtl[c[1]] ELSE expires[c],
                         riskNow, c[1])
      BY <2>1, SoundWhenCounted, TypeOfCounter DEF RiskInv, RiskTyped
    <3>. QED
      BY <3>1, <3>2
  <2>3. CASE c \notin Risk!Range(moved)
    <3>1. count[c] \in Nat
      BY <2>1 DEF CounterIsSound
    <3>2. passed'[c] = passed[c] /\ expires'[c] = expires[c] /\ count'[c] = count[c]
      BY <1>1, <2>3, <3>1
    <3>. QED
      BY <2>1, <3>2
  <2>. QED
    BY <2>2, <2>3
<1>5. RiskTyped'
  BY <1>1, <1>3 DEF RiskInv, RiskTyped
<1>. QED
  BY <1>3, <1>4, <1>5 DEF RiskInv

LEMMA BlockSound ==
  ASSUME RiskInv, NEW w \in Worker, Risk!Block(w)
  PROVE  RiskInv'
<1>. PICK was \in Scored : was = job[w]
  BY DEF RiskInv, RiskTyped
<1>1. PICK rows \in Risk!Rows(w) :
        job' = [job EXCEPT ![w].signals = Risk!Signals(w, rows), ![w].at = riskNow]
  BY DEF Risk!Block
<1>. PICK signals : signals = Risk!Signals(w, rows)
  OBVIOUS
<1>. PICK mine : mine = [was EXCEPT !.signals = signals, !.at = riskNow]
  OBVIOUS
<1>2. /\ job' = [job EXCEPT ![w] = mine] /\ riskPc' = [riskPc EXCEPT ![w] = "record"]
      /\ UNCHANGED <<riskNow, count, expires, history, passed>>
      /\ riskPc[w] = "history"
  <2>1. job' = [job EXCEPT ![w] = mine]
    BY <1>1 DEF RiskInv, RiskTyped
  <2>. QED
    BY <2>1 DEF Risk!Block, Risk!counters
<1>3. was.signals \in Seq(Risk!Signal) /\ was.user \in User /\ Unlisted(was.signals)
  BY <1>2 DEF Scored, RiskInv, JobsAreFounded
<1>4. signals \in Seq(Risk!Signal)
  <2>1. Risk!Blacklisted \in Risk!Signal
    BY DEF Risk!Blacklisted, Risk!Signal
  <2>2. Append(was.signals, Risk!Blacklisted) \in Seq(Risk!Signal)
    BY <1>3, <2>1
  <2>. QED
    BY <1>3, <2>2 DEF Risk!Signals
<1>5. mine \in Scored /\ mine.signals = signals /\ mine.user = was.user /\ mine.at = riskNow
  BY <1>4 DEF Scored, RiskInv, RiskTyped
<1>6. ASSUME Risk!Blacklisted \in Risk!Range(signals) PROVE Recently(history[was.user], riskNow)
  <2>1. Risk!FindRecentBlock(was.user, rows)
    <3>1. CASE ~Risk!FindRecentBlock(was.user, rows)
      <4>1. signals = was.signals
        BY <3>1 DEF Risk!Signals
      <4>2. PICK i \in DOMAIN signals : signals[i] = Risk!Blacklisted
        BY <1>6 DEF Risk!Range
      <4>. QED
        BY <1>3, <4>1, <4>2 DEF Unlisted, Risk!Blacklisted
    <3>. QED
      BY <3>1
  <2>2. rows \in 0 .. Len(history[was.user]) /\ rows > 0
    BY <2>1 DEF Risk!Rows, Risk!FindRecentBlock
  <2>3. rows \in DOMAIN history[was.user]
    BY <1>3, <2>2 DEF RiskInv, RiskTyped
  <2>. QED
    BY <2>1, <2>3 DEF Risk!FindRecentBlock, Recently
<1>7. JobsAreFounded' /\ job' \in [Worker -> Scored] /\ DOMAIN riskPc' = Worker
  BY <1>2, <1>5, <1>6, JobsMove DEF RiskInv
<1>8. CountersAreSound'
  BY <1>2, CountersUnmoved DEF RiskInv
<1>9. RiskTyped'
  BY <1>2, <1>7 DEF RiskInv, RiskTyped
<1>. QED
  BY <1>7, <1>8, <1>9 DEF RiskInv

(* A request that leaves. *)
LEMMA FinishSound ==
  ASSUME RiskInv, NEW w \in Worker, Risk!Finish(w), UNCHANGED history
  PROVE  JobsAreFounded' /\ job' \in [Worker -> Scored] /\ DOMAIN riskPc' = Worker
<1>. PICK mine \in Scored : mine = Risk!NoJob
  BY NoJobTyped
<1>1. job' = [job EXCEPT ![w] = mine] /\ riskPc' = [riskPc EXCEPT ![w] = "idle"]
  BY DEF Risk!Finish
<1>. QED
  BY <1>1, JobsMove DEF RiskInv

LEMMA RecordSound ==
  ASSUME RiskInv, NEW w \in Worker, Risk!RecordBlock(w)
  PROVE  RiskInv'
<1>. PICK u : u = job[w].user
  OBVIOUS
<1>. PICK row : row = [decision |-> "BLOCK", at |-> riskNow]
  OBVIOUS
<1>1. u \in User /\ row \in Decisions
  BY DEF RiskInv, RiskTyped, Scored, Decisions, Risk!Decision
<1>2. /\ history' = [history EXCEPT ![u] = Append(@, row)]
      /\ job' = [job EXCEPT ![w] = Risk!NoJob] /\ riskPc' = [riskPc EXCEPT ![w] = "idle"]
      /\ UNCHANGED <<riskNow, count, expires, passed>>
  BY DEF Risk!RecordBlock, Risk!Record, Risk!Finish, Risk!counters
<1>3. job' \in [Worker -> Scored] /\ DOMAIN riskPc' = Worker
  BY <1>2, NoJobTyped DEF RiskInv, RiskTyped
<1>4. history' \in [User -> Seq(Decisions)]
  <2>1. history[u] \in Seq(Decisions)
    BY <1>1 DEF RiskInv, RiskTyped
  <2>2. Append(history[u], row) \in Seq(Decisions)
    BY <1>1, <2>1
  <2>. QED
    BY <1>2, <2>2 DEF RiskInv, RiskTyped
<1>5. ASSUME NEW v \in User, NEW t, Recently(history[v], t) PROVE Recently(history'[v], t)
  <2>1. history[v] \in Seq(Decisions)
    BY DEF RiskInv, RiskTyped
  <2>2. Recently(Append(history[v], row), t)
    BY <1>1, <1>5, <2>1, RecentlyOneMore
  <2>3. history'[v] = IF v = u THEN Append(history[v], row) ELSE history[v]
    BY <1>1, <1>2 DEF RiskInv, RiskTyped
  <2>. QED
    BY <1>5, <2>2, <2>3
<1>6. JobsAreFounded'
  <2>. SUFFICES ASSUME NEW v \in Worker
                PROVE  /\ riskPc'[v] = "history" => Unlisted(job'[v].signals)
                       /\ riskPc'[v] = "record" /\ Risk!Blacklisted \in Risk!Range(job'[v].signals) =>
                            Recently(history'[job'[v].user], job'[v].at)
    BY DEF JobsAreFounded
  <2>1. CASE v = w
    BY <1>2, <2>1 DEF RiskInv, RiskTyped
  <2>2. CASE v # w
    <3>1. job'[v] = job[v] /\ riskPc'[v] = riskPc[v] /\ job[v].user \in User
      BY <1>2, <2>2 DEF RiskInv, RiskTyped, Scored
    <3>2. /\ riskPc[v] = "history" => Unlisted(job[v].signals)
          /\ riskPc[v] = "record" /\ Risk!Blacklisted \in Risk!Range(job[v].signals) =>
               Recently(history[job[v].user], job[v].at)
      BY DEF RiskInv, JobsAreFounded
    <3>. QED
      BY <1>5, <3>1, <3>2, Zenon
  <2>. QED
    BY <2>1, <2>2
<1>7. CountersAreSound' /\ RiskTyped'
  BY <1>2, <1>3, <1>4, CountersUnmoved DEF RiskInv, RiskTyped
<1>. QED
  BY <1>6, <1>7 DEF RiskInv

LEMMA RiskSteps == RiskInv /\ [Risk!Next]_(Risk!vars) => RiskInv'
<1>. SUFFICES ASSUME RiskInv, [Risk!Next]_(Risk!vars) PROVE RiskInv'
  OBVIOUS
<1>1. CASE UNCHANGED Risk!vars
  <2>1. UNCHANGED <<riskNow, count, expires, history, riskPc, job, passed>>
    BY <1>1 DEF Risk!vars, Risk!counters
  <2>2. RiskTyped'
    BY <2>1 DEF RiskInv, RiskTyped
  <2>. QED
    BY <2>1, <2>2, CountersUnmoved, JobsUnmoved DEF RiskInv
<1>2. ASSUME NEW w \in Worker, NEW u \in User, NEW ip \in Ip,
             NEW devices \in {<<>>} \cup {<<d>> : d \in Device}, NEW flags \in GeoRow,
             Risk!Request(w, u, ip, devices, flags)
      PROVE  RiskInv'
  BY <1>2, RequestSound
<1>3. ASSUME NEW w \in Worker, Risk!Pass(w) \/ Risk!Abort(w) PROVE RiskInv'
  <2>1. Risk!Finish(w) /\ UNCHANGED <<riskNow, count, expires, history, passed>>
    BY <1>3 DEF Risk!Pass, Risk!Abort, Risk!counters
  <2>2. JobsAreFounded' /\ job' \in [Worker -> Scored] /\ DOMAIN riskPc' = Worker
    BY <2>1, FinishSound
  <2>3. RiskTyped'
    BY <2>1, <2>2 DEF RiskInv, RiskTyped
  <2>. QED
    BY <2>1, <2>2, <2>3, CountersUnmoved DEF RiskInv
<1>4. ASSUME NEW w \in Worker, Risk!Block(w) PROVE RiskInv'
  BY <1>4, BlockSound
<1>5. ASSUME NEW w \in Worker, Risk!RecordBlock(w) PROVE RiskInv'
  BY <1>5, RecordSound
<1>6. ASSUME NEW c \in Risk!CounterId, Risk!DeleteExpired(c) PROVE RiskInv'
  <2>1. /\ expires[c] # -1 /\ expires[c] <= riskNow
        /\ count' = [count EXCEPT ![c] = 0] /\ expires' = [expires EXCEPT ![c] = -1]
        /\ UNCHANGED <<riskNow, history, riskPc, job, passed>>
    BY <1>6 DEF Risk!DeleteExpired, Risk!Never
  <2>2. RiskTyped'
    BY <2>1 DEF RiskInv, RiskTyped
  <2>3. CountersAreSound'
    <3>. SUFFICES ASSUME NEW d \in Risk!CounterId
                  PROVE  CounterIsSound(passed[d], count'[d], expires'[d], riskNow, d[1])
      BY <2>1 DEF CountersAreSound
    <3>1. CounterIsSound(passed[d], count[d], expires[d], riskNow, d[1])
      BY DEF RiskInv, CountersAreSound
    <3>2. CASE d = c
      <4>1. CounterIsSound(passed[d], 0, -1, riskNow, d[1])
        BY <2>1, <3>1, <3>2, SoundWhenDeleted, TypeOfCounter DEF RiskInv, RiskTyped
      <4>2. count'[d] = 0 /\ expires'[d] = -1
        BY <2>1, <3>2 DEF RiskInv, RiskTyped
      <4>. QED
        BY <4>1, <4>2
    <3>3. CASE d # c
      <4>1. count'[d] = count[d] /\ expires'[d] = expires[d]
        BY <2>1, <3>3 DEF RiskInv, RiskTyped
      <4>. QED
        BY <3>1, <4>1
    <3>. QED
      BY <3>2, <3>3
  <2>. QED
    BY <2>1, <2>2, <2>3, JobsUnmoved DEF RiskInv
<1>7. CASE Risk!Tick
  <2>1. /\ riskNow' = riskNow + 1 /\ riskNow < ShortTime
        /\ UNCHANGED <<count, expires, history, riskPc, job, passed>>
    BY <1>7 DEF Risk!Tick, Risk!counters
  <2>2. riskNow' \in Nat /\ riskNow' \in Risk!Time
    BY <2>1, ClockAssumption DEF RiskInv, RiskTyped, Risk!Time
  <2>3. RiskTyped'
    BY <2>1, <2>2 DEF RiskInv, RiskTyped
  <2>4. CountersAreSound'
    BY <2>1, SoundAsTimePasses, TypeOfCounter DEF RiskInv, RiskTyped, CountersAreSound
  <2>. QED
    BY <2>1, <2>3, <2>4, JobsUnmoved DEF RiskInv
<1>. QED
  BY <1>1, <1>2, <1>3, <1>4, <1>5, <1>6, <1>7 DEF Risk!Next

LEMMA WindowsAreKept == RiskInv => Risk!PassedPerWindow
<1>. SUFFICES ASSUME RiskInv, NEW c \in Risk!CounterId, NEW t \in 0 .. ShortTime
              PROVE  Risk!Cardinality({i \in DOMAIN passed[c] :
                                         passed[c][i] <= t /\ t < passed[c][i] + RiskWindow[c[1]]})
                       <= 2 * RiskThreshold[c[1]] - 1
  BY DEF Risk!PassedPerWindow, Risk!Time
<1>1. WindowsHold(passed[c], c[1])
  BY DEF RiskInv, CountersAreSound, CounterIsSound
<1>2. Cardinality(InWindow(passed[c], t, RiskWindow[c[1]])) <= 2 * RiskThreshold[c[1]] - 1
  BY <1>1 DEF WindowsHold
<1>. QED
  BY <1>2, RiskCounts DEF InWindow

LEMMA RepeatsAreFounded == RiskInv => Risk!RepeatIsFounded
BY DEF RiskInv, JobsAreFounded, Recently, Risk!RepeatIsFounded

(***************************************************************************)
(* A counter lets less than twice its threshold pass in any window,        *)
(* whichever requests share it and whenever its row is deleted; who is     *)
(* held for an earlier block has one of the last 30 days; and behind a     *)
(* structuring mark there are the payments it is for: whatever part of the *)
(* history or of the index a query sees, for any workers, users, devices   *)
(* and addresses, any thresholds, and any windows the rows outlive.        *)
(***************************************************************************)
THEOREM SuspicionsAreFounded == Risk!Spec /\ Structuring!Spec => []SuspicionIsFounded
<1>1. StructuringInv => Structuring!MarkIsFounded
  BY DEF StructuringInv
<1>2. RiskInv => Risk!PassedPerWindow /\ Risk!RepeatIsFounded
  BY WindowsAreKept, RepeatsAreFounded
<1>3. StructuringInv /\ RiskInv => SuspicionIsFounded
  BY <1>1, <1>2 DEF SuspicionIsFounded
<1>. QED
  BY <1>3, StructuringStarts, StructuringSteps, RiskStarts, RiskSteps, PTL DEF Risk!Spec, Structuring!Spec

----
(***************************************************************************)
(* Calendar.                                                               *)
(***************************************************************************)

(* The days from Monday to Friday among the first n, from the number of
   whole weeks. *)
Weekdays(n) ==
  5 * ((n + 3) \div 7) + (IF Calendar!DayOfWeek(n) = 6 THEN 5 ELSE Calendar!DayOfWeek(n))

(* The instance counts as the module does. *)
LEMMA CalendarCards == ASSUME NEW S PROVE Calendar!Cardinality(S) = Cardinality(S)
BY Zenon DEF Calendar!Cardinality, Cardinality

Counted(from, to) == Cardinality(Calendar!BusinessDays(from, to))

LEMMA OneDayMore ==
  ASSUME NEW from \in Int, NEW to \in Int, from <= to + 1
  PROVE  Counted(from, to + 1) = Counted(from, to) + (IF Calendar!IsNonBusinessDay(to + 1) THEN 0 ELSE 1)
<1>. DEFINE B == Calendar!BusinessDays(from, to)
<1>1. IsFiniteSet(B)
  BY FS_Interval, FS_Subset DEF Calendar!BusinessDays
<1>2. to + 1 \notin B
  BY DEF Calendar!BusinessDays
<1>3. Calendar!BusinessDays(from, to + 1) = IF Calendar!IsNonBusinessDay(to + 1) THEN B ELSE B \cup {to + 1}
  BY DEF Calendar!BusinessDays
<1>. HIDE DEF B
<1>4. CASE Calendar!IsNonBusinessDay(to + 1)
  <2>1. Calendar!BusinessDays(from, to + 1) = B
    BY <1>3, <1>4
  <2>. QED
    BY <1>1, <1>4, <2>1, FS_CardinalityType DEF Counted, B
<1>5. CASE ~Calendar!IsNonBusinessDay(to + 1)
  <2>1. Calendar!BusinessDays(from, to + 1) = B \cup {to + 1}
    BY <1>3, <1>5
  <2>2. Cardinality(B \cup {to + 1}) = Cardinality(B) + 1
    BY <1>1, <1>2, FS_AddElement
  <2>3. Counted(from, to + 1) = Cardinality(B) + 1 /\ Counted(from, to) = Cardinality(B)
    BY <2>1, <2>2, Zenon DEF Counted, B
  <2>. QED
    BY <1>5, <2>3
<1>. QED
  BY <1>4, <1>5

LEMMA NoDays ==
  ASSUME NEW from \in Int PROVE Counted(from, from - 1) = 0
<1>1. Calendar!BusinessDays(from, from - 1) = {}
  BY DEF Calendar!BusinessDays
<1>. QED
  BY <1>1, FS_EmptySet, Zenon DEF Counted

LEMMA OneWeekdayMore ==
  ASSUME NEW n \in Nat
  PROVE  /\ Weekdays(n) \in Nat /\ Weekdays(n + 1) \in Nat
         /\ Weekdays(n + 1) = Weekdays(n) + (IF Calendar!DayOfWeek(n + 1) \in {0, 6} THEN 0 ELSE 1)
BY DEF Weekdays, Calendar!DayOfWeek

(* From a day of the week to the day before the same one of a later week
   there are five of them a week, less one. *)
LEMMA WholeWeeks ==
  ASSUME NEW n \in Nat, NEW weeks \in Nat, NEW day \in Nat, n <= day, day < n + 7 * weeks,
         Calendar!DayOfWeek(n) \notin {0, 6}
  PROVE  Weekdays(day) < Weekdays(n) + 5 * weeks
BY DEF Weekdays, Calendar!DayOfWeek

CalendarTyped ==
  /\ start \in Starts /\ term \in Terms
  /\ cursor \in Nat /\ start < cursor /\ counted \in 0 .. term
  /\ walker \in start .. cursor /\ between \in Nat
  /\ phase \in {"deadline", "between", "done"}

(* The first loop has counted the business days before its cursor, which are
   not more than the days from Monday to Friday. *)
CountsSoFar ==
  phase = "deadline" =>
    /\ counted < term /\ walker = start /\ between = 0
    /\ counted = Counted(start + 1, cursor - 1)
    /\ counted <= Weekdays(cursor - 1) - Weekdays(start)

(* It has stopped on the last of them ... *)
StopsOnLast ==
  phase # "deadline" =>
    /\ ~Calendar!IsNonBusinessDay(cursor)
    /\ term = Counted(start + 1, cursor)
    /\ term <= Weekdays(cursor) - Weekdays(start)

(* ... and the second counts them again, from the first day. *)
WalksSoFar ==
  /\ between = Counted(start, walker - 1)
  /\ phase = "done" => walker = cursor

CalendarInv == CalendarTyped /\ CountsSoFar /\ StopsOnLast /\ WalksSoFar

LEMMA TermsAreWeeks ==
  ASSUME CalendarTyped
  PROVE  /\ start \in Nat /\ term \in Nat \ {0} /\ start + 1 \in Int
         /\ term \div 5 \in Nat /\ term = 5 * (term \div 5)
<1>1. start \in 1 .. 365 /\ term \in Nat \ {0} /\ term % 5 = 0
  BY CalendarAssumption DEF CalendarTyped
<1>. QED
  BY <1>1

LEMMA CalendarStarts == Calendar!Init => CalendarInv
<1>. SUFFICES ASSUME Calendar!Init PROVE CalendarInv
  OBVIOUS
<1>1. start \in 1 .. 365 /\ term \in Nat \ {0} /\ start \in Starts /\ term \in Terms
  BY CalendarAssumption DEF Calendar!Init
<1>2. cursor = start + 1 /\ counted = 0 /\ walker = start /\ between = 0 /\ phase = "deadline"
  BY DEF Calendar!Init
<1>3. CalendarTyped
  BY <1>1, <1>2 DEF CalendarTyped
<1>4. Counted(start, walker - 1) = 0
  BY <1>1, <1>2, NoDays
<1>5. Counted(start + 1, (start + 1) - 1) = 0
  BY <1>1, NoDays
<1>6. cursor - 1 = (start + 1) - 1 /\ cursor - 1 = start
  BY <1>1, <1>2
<1>7. Weekdays(start) \in Nat
  BY <1>1, OneWeekdayMore
<1>8. counted <= Weekdays(cursor - 1) - Weekdays(start)
  <2>1. Weekdays(cursor - 1) = Weekdays(start)
    BY <1>6, Zenon
  <2>. QED
    BY <1>2, <1>7, <2>1
<1>9. Counted(start + 1, cursor - 1) = 0
  BY <1>5, <1>6, Zenon
<1>. QED
  BY <1>1, <1>2, <1>3, <1>4, <1>8, <1>9
  DEF CalendarInv, CountsSoFar, StopsOnLast, WalksSoFar

LEMMA DayIsCounted == CalendarInv /\ Calendar!CountDay => CalendarInv'
<1>. SUFFICES ASSUME CalendarInv, Calendar!CountDay PROVE CalendarInv'
  OBVIOUS
<1>. DEFINE here == counted + (IF Calendar!IsNonBusinessDay(cursor) THEN 0 ELSE 1)
<1>1. /\ phase = "deadline" /\ counted' = here
      /\ cursor' = IF here < term THEN cursor + 1 ELSE cursor
      /\ phase' = IF here < term THEN "deadline" ELSE "between"
      /\ start' = start /\ term' = term /\ walker' = walker /\ between' = between
  BY DEF Calendar!CountDay
<1>2. /\ start \in Nat /\ term \in Nat \ {0} /\ cursor \in Nat /\ start < cursor
      /\ counted \in Nat /\ counted < term /\ walker = start /\ between = 0
      /\ counted = Counted(start + 1, cursor - 1)
      /\ counted <= Weekdays(cursor - 1) - Weekdays(start)
      /\ start \in Starts /\ term \in Terms
  BY <1>1, TermsAreWeeks DEF CalendarInv, CalendarTyped, CountsSoFar
<1>3. here \in Nat /\ here <= term
  BY <1>2
<1>4. Counted(start + 1, cursor) = here
  <2>1. Counted(start + 1, (cursor - 1) + 1)
          = Counted(start + 1, cursor - 1) + (IF Calendar!IsNonBusinessDay((cursor - 1) + 1) THEN 0 ELSE 1)
    BY <1>2, OneDayMore
  <2>2. (cursor - 1) + 1 = cursor
    BY <1>2
  <2>. QED
    BY <1>2, <2>1, <2>2
<1>5. here <= Weekdays(cursor) - Weekdays(start)
  <2>1. cursor - 1 \in Nat /\ (cursor - 1) + 1 = cursor
    BY <1>2
  <2>2. /\ Weekdays(cursor - 1) \in Nat /\ Weekdays((cursor - 1) + 1) \in Nat
        /\ Weekdays((cursor - 1) + 1)
             = Weekdays(cursor - 1) + (IF Calendar!DayOfWeek((cursor - 1) + 1) \in {0, 6} THEN 0 ELSE 1)
    BY <2>1, OneWeekdayMore
  <2>3. Weekdays(start) \in Nat
    BY <1>2, OneWeekdayMore
  <2>4. Calendar!DayOfWeek(cursor) \in {0, 6} => Calendar!IsNonBusinessDay(cursor)
    BY DEF Calendar!IsNonBusinessDay
  <2>5. /\ Weekdays(cursor) \in Nat
        /\ Weekdays(cursor) = Weekdays(cursor - 1) + (IF Calendar!DayOfWeek(cursor) \in {0, 6} THEN 0 ELSE 1)
    BY <2>1, <2>2
  <2>6. CASE Calendar!IsNonBusinessDay(cursor)
    BY <1>2, <2>2, <2>3, <2>5, <2>6
  <2>7. CASE ~Calendar!IsNonBusinessDay(cursor)
    BY <1>2, <2>2, <2>3, <2>4, <2>5, <2>7
  <2>. QED
    BY <2>6, <2>7
<1>6. ~(here < term) => here = term /\ ~Calendar!IsNonBusinessDay(cursor)
  BY <1>2, <1>3
<1>. HIDE DEF here
<1>7. CalendarTyped'
  BY <1>1, <1>2, <1>3 DEF CalendarTyped
<1>8. WalksSoFar'
  BY <1>1 DEF CalendarInv, WalksSoFar
<1>9. CASE here < term
  <2>1. cursor' - 1 = cursor /\ start' = start
    BY <1>1, <1>2, <1>9
  <2>2. Counted(start + 1, cursor)' = Counted(start' + 1, cursor')
    BY DEF Counted, Calendar!BusinessDays
  <2>3. CountsSoFar'
    BY <1>1, <1>2, <1>3, <1>4, <1>5, <1>9, <2>1 DEF CountsSoFar
  <2>. QED
    BY <1>1, <1>7, <1>8, <1>9, <2>3 DEF CalendarInv, StopsOnLast
<1>10. CASE ~(here < term)
  <2>1. cursor' = cursor /\ start' = start /\ term' = term /\ here = term
    BY <1>1, <1>6, <1>10
  <2>2. StopsOnLast'
    BY <1>4, <1>5, <1>6, <1>10, <2>1 DEF StopsOnLast
  <2>. QED
    BY <1>1, <1>7, <1>8, <1>10, <2>2 DEF CalendarInv, CountsSoFar
<1>. QED
  BY <1>9, <1>10

LEMMA DayIsWalked == CalendarInv /\ Calendar!WalkDay => CalendarInv'
<1>. SUFFICES ASSUME CalendarInv, Calendar!WalkDay PROVE CalendarInv'
  OBVIOUS
<1>1. phase = "between" /\ start' = start /\ term' = term /\ cursor' = cursor /\ counted' = counted
  BY DEF Calendar!WalkDay
<1>2. phase' # "deadline" /\ phase' \in {"between", "done"}
  BY <1>1 DEF Calendar!WalkDay
<1>3. StopsOnLast' /\ CountsSoFar'
  BY <1>1, <1>2 DEF CalendarInv, StopsOnLast, CountsSoFar
<1>4. start \in Nat /\ cursor \in Nat /\ walker \in start .. cursor /\ between \in Nat
  BY TermsAreWeeks DEF CalendarInv, CalendarTyped
<1>5. CASE walker < cursor
  <2>1. /\ between' = between + (IF Calendar!IsNonBusinessDay(walker) THEN 0 ELSE 1)
        /\ walker' = walker + 1 /\ phase' = phase
    BY <1>5 DEF Calendar!WalkDay
  <2>2. CalendarTyped'
    BY <1>1, <1>4, <1>5, <2>1 DEF CalendarInv, CalendarTyped
  <2>3. Counted(start, (walker - 1) + 1)
          = Counted(start, walker - 1) + (IF Calendar!IsNonBusinessDay((walker - 1) + 1) THEN 0 ELSE 1)
    BY <1>4, OneDayMore
  <2>4. (walker - 1) + 1 = walker /\ walker' - 1 = walker
    BY <1>4, <2>1
  <2>5. Counted(start, walker) = between'
    BY <2>1, <2>3, <2>4 DEF CalendarInv, WalksSoFar
  <2>6. WalksSoFar'
    BY <1>1, <2>1, <2>4, <2>5 DEF WalksSoFar
  <2>. QED
    BY <1>3, <2>2, <2>6 DEF CalendarInv
<1>6. CASE ~(walker < cursor)
  <2>1. phase' = "done" /\ walker' = walker /\ between' = between
    BY <1>6 DEF Calendar!WalkDay
  <2>2. CalendarTyped' /\ WalksSoFar'
    BY <1>1, <1>4, <1>6, <2>1 DEF CalendarInv, CalendarTyped, WalksSoFar
  <2>. QED
    BY <1>3, <2>2 DEF CalendarInv
<1>. QED
  BY <1>5, <1>6

(* The months before the third have the days the recursion gives them. *)
LEMMA FirstDays == Calendar!Date(1, 2) = 2 /\ Calendar!Date(3, 31) = 90
<1>. DEFINE days == [m \in 1 .. 13 |-> <<0, 31, 59, 90, 120, 151, 181, 212, 243, 273, 304, 334, 365>>[m]]
            Step(f) == [m \in 1 .. 13 |-> IF m = 1 THEN 0 ELSE f[m - 1] + Calendar!LengthOf[m - 1]]
<1>1. ASSUME NEW m \in 1 .. 13 PROVE days[m] = IF m = 1 THEN 0 ELSE days[m - 1] + Calendar!LengthOf[m - 1]
  <2>1. m \in {1, 2, 3, 4, 5, 6, 7, 8, 9, 10, 11, 12, 13}
    OBVIOUS
  <2>. QED
    BY <2>1 DEF Calendar!LengthOf
<1>2. days = Step(days)
  BY <1>1
<1>. HIDE DEF days
<1>3. Calendar!DaysBefore = CHOOSE f : f = Step(f)
  BY DEF Calendar!DaysBefore
<1>. HIDE DEF Step
<1>4. Calendar!DaysBefore = Step(Calendar!DaysBefore)
  BY <1>2, <1>3
<1>5. \A m \in 1 .. 13 : Calendar!DaysBefore[m]
                           = IF m = 1 THEN 0 ELSE Calendar!DaysBefore[m - 1] + Calendar!LengthOf[m - 1]
  BY <1>4 DEF Step
<1>6. Calendar!DaysBefore[1] = 0
  BY <1>5
<1>7. Calendar!DaysBefore[2] = 31
  BY <1>5, <1>6 DEF Calendar!LengthOf
<1>8. Calendar!DaysBefore[3] = 59
  BY <1>5, <1>7 DEF Calendar!LengthOf
<1>. QED
  BY <1>6, <1>8 DEF Calendar!Date

LEMMA WindowsAgree == Calendar!RnbdWindowsAgree
<1>1. Calendar!WindowStart = 2 /\ Calendar!WindowEnd = 90
  BY FirstDays DEF Calendar!WindowStart, Calendar!WindowEnd
<1>. SUFFICES ASSUME NEW day \in 1 .. 365
              PROVE  LET a == Calendar!AlertWindow(day) d == Calendar!DashboardWindow(day) IN
                     /\ a.in = d.in /\ a.untilClose = d.untilClose
                     /\ d.in <=> d.untilOpen = 0
  BY DEF Calendar!RnbdWindowsAgree
<1>. DEFINE a == Calendar!AlertWindow(day)
            d == Calendar!DashboardWindow(day)
            in == Calendar!WindowStart <= day /\ day <= Calendar!WindowEnd
            target == IF day > Calendar!WindowEnd THEN 365 + Calendar!WindowStart ELSE Calendar!WindowStart
<1>2. /\ a.in = in /\ a.untilClose = IF in THEN Calendar!WindowEnd - day + 1 ELSE 0
      /\ d.in = in /\ d.untilClose = IF in THEN Calendar!WindowEnd - day + 1 ELSE 0
      /\ d.untilOpen = IF target > day THEN target - day ELSE 0
  BY Zenon DEF Calendar!AlertWindow, Calendar!DashboardWindow
<1>. HIDE DEF a, d
<1>3. in <=> ~(target > day)
  BY <1>1
<1>4. target \in Int /\ day \in Int
  BY <1>1
<1>. HIDE DEF in, target
<1>5. in <=> d.untilOpen = 0
  BY <1>2, <1>3, <1>4
<1>6. a.in = d.in /\ a.untilClose = d.untilClose
  BY <1>2, Zenon
<1>7. d.in <=> d.untilOpen = 0
  BY <1>2, <1>5, Zenon
<1>. QED
  BY <1>6, <1>7, Zenon DEF a, d

LEMMA FortnightFits == CalendarInv => Calendar!FortnightIsWithinTerm
<1>. SUFFICES ASSUME CalendarInv, phase # "deadline", ~Calendar!IsNonBusinessDay(start)
              PROVE  Calendar!AcknowledgmentDeadline(start, term) <= cursor
  BY DEF Calendar!FortnightIsWithinTerm
<1>. DEFINE weeks == term \div 5
<1>1. start \in Nat /\ cursor \in Nat /\ start < cursor /\ weeks \in Nat /\ term = 5 * weeks
  BY TermsAreWeeks DEF CalendarInv, CalendarTyped
<1>. HIDE DEF weeks
<1>2. Calendar!AcknowledgmentDeadline(start, term) = start + 7 * weeks
  BY <1>1 DEF Calendar!AcknowledgmentDeadline
<1>3. Calendar!DayOfWeek(start) \notin {0, 6}
  BY DEF Calendar!IsNonBusinessDay
<1>4. ASSUME cursor < start + 7 * weeks PROVE FALSE
  <2>1. Weekdays(cursor) < Weekdays(start) + 5 * weeks
    BY <1>1, <1>3, <1>4, WholeWeeks
  <2>2. Weekdays(cursor) \in Nat /\ Weekdays(start) \in Nat
    BY <1>1, OneWeekdayMore
  <2>3. term <= Weekdays(cursor) - Weekdays(start)
    BY DEF CalendarInv, StopsOnLast
  <2>. QED
    BY <1>1, <2>1, <2>2, <2>3
<1>. QED
  BY <1>1, <1>2, <1>4

(* A step of either walk keeps the invariant. *)
LEMMA CalendarSteps == CalendarInv /\ [Calendar!Next]_(Calendar!vars) => CalendarInv'
<1>. SUFFICES ASSUME CalendarInv, [Calendar!Next]_(Calendar!vars) PROVE CalendarInv'
  OBVIOUS
<1>1. CASE UNCHANGED Calendar!vars
  BY <1>1 DEF Calendar!vars, CalendarInv, CalendarTyped, CountsSoFar, StopsOnLast, WalksSoFar
<1>2. CASE Calendar!CountDay
  BY <1>2, DayIsCounted
<1>3. CASE Calendar!WalkDay
  BY <1>3, DayIsWalked
<1>. QED
  BY <1>1, <1>2, <1>3 DEF Calendar!Next

(***************************************************************************)
(* Whenever in the year a request comes and however many weeks its term    *)
(* has: the deadline that the loop of computeSlaDeadline finds is the      *)
(* business day of that number, the fortnights of habeas-data.ts end no    *)
(* later, and the two windows of the RNBD agree on every day.              *)
(***************************************************************************)
THEOREM CalendarIsKept == Calendar!Spec => []CalendarIsRight
<1>1. CalendarInv => CalendarIsRight
  <2>1. ASSUME CalendarInv PROVE Calendar!DeadlineIsNthBusinessDay
    <3>1. phase # "deadline" => ~Calendar!IsNonBusinessDay(cursor) /\ Counted(start + 1, cursor) = term
      BY <2>1 DEF CalendarInv, StopsOnLast
    <3>2. phase = "done" => between = Counted(start, cursor - 1)
      BY <2>1, Zenon DEF CalendarInv, WalksSoFar
    <3>. QED
      BY <3>1, <3>2, CalendarCards, Zenon DEF Calendar!DeadlineIsNthBusinessDay, Counted
  <2>. QED
    BY <2>1, FortnightFits, WindowsAgree DEF CalendarIsRight
<1>. QED
  BY <1>1, CalendarSteps, CalendarStarts, PTL DEF Calendar!Spec

----
(***************************************************************************)
(* Ranking.                                                                *)
(***************************************************************************)

(* The instance counts, adds and takes the least as the modules do. *)
LEMMA RankingCards == ASSUME NEW S PROVE Ranking!Cardinality(S) = Cardinality(S)
BY Zenon DEF Ranking!Cardinality, Cardinality

LEMMA RankingSums == ASSUME NEW f, NEW S PROVE Ranking!SumOf(f, S) = SumOf(f, S)
BY DEF Ranking!SumOf, Ranking!MapThenSumSet, Ranking!MapThenFoldSet, SumOf, MapThenSumSet, MapThenFoldSet

(* What every listed business has: the ratings and counts of reviews that the
   scores know. *)
ReviewCount == {45, 54, 67, 78, 87, 89, 98} \cup {r \in Nat : r >= 99}

BusinessTyped(n) ==
  /\ n.rating \in Nat /\ n.age \in Nat /\ n.unit \in {"minuto", "hora", "dia"}
  /\ n.reviews \in ReviewCount

ListingTyped(l) == Len(l) = 5 /\ DOMAIN l = 1 .. 5 /\ \A i \in 1 .. 5 : BusinessTyped(l[i])

LEMMA FoodsTyped == ListingTyped(Ranking!Foods)
<1>1. \A i \in 1 .. 5 : Ranking!Foods[i].rating \in Nat /\ Ranking!Foods[i].age \in Nat
  BY DEF Ranking!Foods, Ranking!Negocio
<1>2. \A i \in 1 .. 5 : Ranking!Foods[i].unit \in {"minuto", "hora", "dia"}
  BY DEF Ranking!Foods, Ranking!Negocio
<1>3. \A i \in 1 .. 5 : Ranking!Foods[i].reviews \in ReviewCount
  BY DEF Ranking!Foods, Ranking!Negocio, ReviewCount
<1>4. Len(Ranking!Foods) = 5 /\ DOMAIN Ranking!Foods = 1 .. 5
  BY DEF Ranking!Foods
<1>. QED
  BY <1>1, <1>2, <1>3, <1>4 DEF ListingTyped, BusinessTyped

LEMMA BarberTyped == ListingTyped(Ranking!Barber)
<1>1. \A i \in 1 .. 5 : Ranking!Barber[i].rating \in Nat /\ Ranking!Barber[i].age \in Nat
  BY DEF Ranking!Barber, Ranking!Negocio
<1>2. \A i \in 1 .. 5 : Ranking!Barber[i].unit \in {"minuto", "hora", "dia"}
  BY DEF Ranking!Barber, Ranking!Negocio
<1>3. \A i \in 1 .. 5 : Ranking!Barber[i].reviews \in ReviewCount
  BY DEF Ranking!Barber, Ranking!Negocio, ReviewCount
<1>4. Len(Ranking!Barber) = 5 /\ DOMAIN Ranking!Barber = 1 .. 5
  BY DEF Ranking!Barber
<1>. QED
  BY <1>1, <1>2, <1>3, <1>4 DEF ListingTyped, BusinessTyped

LEMMA BeautyTyped == ListingTyped(Ranking!Beauty)
<1>1. \A i \in 1 .. 5 : Ranking!Beauty[i].rating \in Nat /\ Ranking!Beauty[i].age \in Nat
  BY DEF Ranking!Beauty, Ranking!Negocio
<1>2. \A i \in 1 .. 5 : Ranking!Beauty[i].unit \in {"minuto", "hora", "dia"}
  BY DEF Ranking!Beauty, Ranking!Negocio
<1>3. \A i \in 1 .. 5 : Ranking!Beauty[i].reviews \in ReviewCount
  BY DEF Ranking!Beauty, Ranking!Negocio, ReviewCount
<1>4. Len(Ranking!Beauty) = 5 /\ DOMAIN Ranking!Beauty = 1 .. 5
  BY DEF Ranking!Beauty
<1>. QED
  BY <1>1, <1>2, <1>3, <1>4 DEF ListingTyped, BusinessTyped

LEMMA HogarTyped == ListingTyped(Ranking!Hogar)
<1>1. \A i \in 1 .. 5 : Ranking!Hogar[i].rating \in Nat /\ Ranking!Hogar[i].age \in Nat
  BY DEF Ranking!Hogar, Ranking!Negocio
<1>2. \A i \in 1 .. 5 : Ranking!Hogar[i].unit \in {"minuto", "hora", "dia"}
  BY DEF Ranking!Hogar, Ranking!Negocio
<1>3. \A i \in 1 .. 5 : Ranking!Hogar[i].reviews \in ReviewCount
  BY DEF Ranking!Hogar, Ranking!Negocio, ReviewCount
<1>4. Len(Ranking!Hogar) = 5 /\ DOMAIN Ranking!Hogar = 1 .. 5
  BY DEF Ranking!Hogar
<1>. QED
  BY <1>1, <1>2, <1>3, <1>4 DEF ListingTyped, BusinessTyped

LEMMA TracesTyped == \A i \in DOMAIN Ranking!Traces : ListingTyped(Ranking!Traces[i].listing)
<1>1. PICK T : T = {Ranking!TRACES_DETALLADOS[i] : i \in 1 .. 5} \cup {Ranking!TRACES[i] : i \in 1 .. 3}
  OBVIOUS
<1>2. Ranking!TRACES_DETALLADOS \in Seq(T)
  <2>1. Ranking!TRACES_DETALLADOS = [i \in 1 .. 5 |-> Ranking!TRACES_DETALLADOS[i]]
    BY DEF Ranking!TRACES_DETALLADOS
  <2>. QED
    BY <1>1, <2>1
<1>3. Ranking!TRACES \in Seq(T)
  <2>1. Ranking!TRACES = [i \in 1 .. 3 |-> Ranking!TRACES[i]]
    BY DEF Ranking!TRACES
  <2>. QED
    BY <1>1, <2>1
<1>4. Ranking!Traces \in Seq(T)
  BY <1>2, <1>3 DEF Ranking!Traces
<1>5. ASSUME NEW t \in T PROVE ListingTyped(t.listing)
  <2>1. CASE \E i \in 1 .. 5 : t = Ranking!TRACES_DETALLADOS[i]
    <3>1. \A i \in 1 .. 5 : Ranking!TRACES_DETALLADOS[i].listing
                              \in {Ranking!Foods, Ranking!Barber, Ranking!Beauty, Ranking!Hogar}
      BY DEF Ranking!TRACES_DETALLADOS, Ranking!Scenario
    <3>. QED
      BY <2>1, <3>1, FoodsTyped, BarberTyped, BeautyTyped, HogarTyped
  <2>2. CASE \E i \in 1 .. 3 : t = Ranking!TRACES[i]
    <3>1. \A i \in 1 .. 3 : Ranking!TRACES[i].listing
                              \in {Ranking!Foods, Ranking!Barber, Ranking!Beauty, Ranking!Hogar}
      BY DEF Ranking!TRACES, Ranking!Scenario
    <3>. QED
      BY <2>2, <3>1, FoodsTyped, BarberTyped, BeautyTyped, HogarTyped
  <2>. QED
    BY <1>1, <2>1, <2>2
<1>. QED
  BY <1>4, <1>5

(* Rounding, in the units of the scores: half a point at most, and half a
   point down is up. *)
LEMMA RoundedIsNear ==
  ASSUME NEW x \in Nat
  PROVE  /\ Ranking!Rounded(x, 600) \in Nat
         /\ 600 * Ranking!Rounded(x, 600) <= x + 300 /\ x - 300 < 600 * Ranking!Rounded(x, 600)
BY DEF Ranking!Rounded

LEMMA RoundedIsMonotone ==
  ASSUME NEW x \in Nat, NEW y \in Nat, x <= y
  PROVE  /\ Ranking!Rounded(x, 600) <= Ranking!Rounded(y, 600)
         /\ Ranking!Rounded(x, 100) <= Ranking!Rounded(y, 100)
         /\ Ranking!Rounded(x, 100) \in Nat
BY DEF Ranking!Rounded

LEMMA ReviewPartIsMonotone ==
  ASSUME NEW r \in ReviewCount, NEW s \in ReviewCount, r <= s
  PROVE  Ranking!ReviewPart(r) \in Nat /\ Ranking!ReviewPart(r) <= Ranking!ReviewPart(s)
BY DEF Ranking!ReviewPart, ReviewCount

LEMMA RecencyTyped ==
  ASSUME NEW n, BusinessTyped(n)
  PROVE  Ranking!recenciaScore(n) \in Nat
BY DEF BusinessTyped, Ranking!recenciaScore, Ranking!AtLeast

LEMMA ReputationIsMonotone ==
  ASSUME NEW a, NEW b, BusinessTyped(a), BusinessTyped(b), b.rating <= a.rating, b.reviews <= a.reviews
  PROVE  Ranking!reputacionScore(b) \in Nat /\ Ranking!reputacionScore(b) <= Ranking!reputacionScore(a)
<1>1. a.rating \in Nat /\ b.rating \in Nat /\ a.reviews \in ReviewCount /\ b.reviews \in ReviewCount
  BY DEF BusinessTyped
<1>2. /\ Ranking!ReviewPart(b.reviews) \in Nat /\ Ranking!ReviewPart(a.reviews) \in Nat
      /\ Ranking!ReviewPart(b.reviews) <= Ranking!ReviewPart(a.reviews)
  <2>1. b.reviews <= b.reviews /\ a.reviews <= a.reviews
    BY <1>1 DEF ReviewCount
  <2>. QED
    BY <1>1, <2>1, ReviewPartIsMonotone
<1>. DEFINE x == 160 * b.rating + Ranking!ReviewPart(b.reviews)
            y == 160 * a.rating + Ranking!ReviewPart(a.reviews)
<1>3. x \in Nat /\ y \in Nat /\ x <= y
  BY <1>1, <1>2
<1>. HIDE DEF x, y
<1>4. Ranking!Rounded(x, 100) \in Nat /\ Ranking!Rounded(x, 100) <= Ranking!Rounded(y, 100)
  BY <1>3, RoundedIsMonotone
<1>. QED
  BY <1>4 DEF x, y, Ranking!reputacionScore

(* The weighted score of a factor. *)
Weighted(n, t, f) == Ranking!FACTOR_PESOS[f] * Ranking!Score(n, t)[f]

LEMMA WeightedIs ==
  ASSUME NEW n, NEW t
  PROVE  /\ Weighted(n, t, "geo") = 35 * (6 * Ranking!geoScore(n, t))
         /\ Weighted(n, t, "verificado") = 25 * (6 * Ranking!verificadoScore(n, t))
         /\ Weighted(n, t, "acepta_saldo") = 15 * (6 * Ranking!aceptaSaldoScore(n))
         /\ Weighted(n, t, "recencia") = 15 * Ranking!recenciaScore(n)
         /\ Weighted(n, t, "reputacion") = 10 * (6 * Ranking!reputacionScore(n))
BY DEF Weighted, Ranking!FACTOR_PESOS, Ranking!Score

LEMMA WeightedTyped ==
  ASSUME NEW n, NEW t, BusinessTyped(n), NEW f \in Ranking!Factor
  PROVE  Weighted(n, t, f) \in Nat
<1>1. Ranking!geoScore(n, t) \in Nat
  BY DEF Ranking!geoScore, Ranking!DeepGeo, Ranking!ShortGeo
<1>2. Ranking!verificadoScore(n, t) \in Nat /\ Ranking!aceptaSaldoScore(n) \in Nat
  BY DEF Ranking!verificadoScore, Ranking!aceptaSaldoScore
<1>3. Ranking!recenciaScore(n) \in Nat
  BY RecencyTyped
<1>4. Ranking!reputacionScore(n) \in Nat
  <2>1. n.rating <= n.rating /\ n.reviews <= n.reviews
    BY DEF BusinessTyped, ReviewCount
  <2>. QED
    BY <2>1, ReputationIsMonotone
<1>. QED
  BY <1>1, <1>2, <1>3, <1>4, WeightedIs DEF Ranking!Factor

LEMMA FiveFactors ==
  ASSUME NEW h, \A f \in Ranking!Factor : h[f] \in Int
  PROVE  SumOf(h, Ranking!Factor)
           = h["geo"] + h["verificado"] + h["acepta_saldo"] + h["recencia"] + h["reputacion"]
<1>. DEFINE one == {"geo"}
            two == one \cup {"verificado"}
            three == two \cup {"acepta_saldo"}
            four == three \cup {"recencia"}
<1>1. /\ IsFiniteSet({}) /\ IsFiniteSet(one) /\ IsFiniteSet(two) /\ IsFiniteSet(three) /\ IsFiniteSet(four)
  <2>1. IsFiniteSet({}) /\ IsFiniteSet(one)
    BY FS_EmptySet, FS_Singleton
  <2>2. IsFiniteSet(two)
    BY <2>1, FS_AddElement, Zenon
  <2>3. IsFiniteSet(three)
    BY <2>2, FS_AddElement, Zenon
  <2>4. IsFiniteSet(four)
    BY <2>3, FS_AddElement, Zenon
  <2>. QED
    BY <2>1, <2>2, <2>3, <2>4
<1>2. /\ h["geo"] \in Int /\ h["verificado"] \in Int /\ h["acepta_saldo"] \in Int
      /\ h["recencia"] \in Int /\ h["reputacion"] \in Int
  BY DEF Ranking!Factor
<1>3. /\ "verificado" \notin one /\ "acepta_saldo" \notin two /\ "recencia" \notin three
      /\ "reputacion" \notin four /\ one = {} \cup {"geo"} /\ Ranking!Factor = four \cup {"reputacion"}
      /\ \A f \in one \cup {"verificado"} : h[f] \in Int
      /\ \A f \in two \cup {"acepta_saldo"} : h[f] \in Int
      /\ \A f \in three \cup {"recencia"} : h[f] \in Int
      /\ \A f \in four \cup {"reputacion"} : h[f] \in Int
  BY <1>2 DEF Ranking!Factor
<1>4. SumOf(h, one) = h["geo"]
  <2>1. SumOf(h, {} \cup {"geo"}) = SumOf(h, {}) + h["geo"]
    BY <1>1, <1>2, SumOfOneMore
  <2>2. SumOf(h, one) = SumOf(h, {}) + h["geo"]
    BY <1>3, <2>1, Zenon
  <2>. QED
    BY <1>2, <2>2, SumOfNothing
<1>5. SumOf(h, two) = SumOf(h, one) + h["verificado"]
  BY <1>1, <1>3, SumOfOneMore, Zenon
<1>6. SumOf(h, three) = SumOf(h, two) + h["acepta_saldo"]
  BY <1>1, <1>3, SumOfOneMore, Zenon
<1>7. SumOf(h, four) = SumOf(h, three) + h["recencia"]
  BY <1>1, <1>3, SumOfOneMore, Zenon
<1>8. SumOf(h, Ranking!Factor) = SumOf(h, four) + h["reputacion"]
  BY <1>1, <1>3, SumOfOneMore, Zenon
<1>. HIDE DEF one, two, three, four
<1>. QED
  BY <1>2, <1>4, <1>5, <1>6, <1>7, <1>8

(* A total is within two and a half points of the weighted sum. *)
LEMMA TotalIsNear ==
  ASSUME NEW n, BusinessTyped(n)
  PROVE  /\ Ranking!ScoreTotal(n, Ranking!Chosen) \in Nat /\ Ranking!Exact(n) \in Nat
         /\ 600 * Ranking!ScoreTotal(n, Ranking!Chosen) <= Ranking!Exact(n) + 1500
         /\ Ranking!Exact(n) - 1500 < 600 * Ranking!ScoreTotal(n, Ranking!Chosen)
<1>. PICK t : t = Ranking!Chosen
  OBVIOUS
<1>. DEFINE w == [f \in Ranking!Factor |-> Weighted(n, t, f)]
            r == [f \in Ranking!Factor |-> Ranking!Contribucion(n, t, f)]
<1>1. ASSUME NEW f \in Ranking!Factor
      PROVE  /\ w[f] \in Nat /\ r[f] \in Nat
             /\ 600 * r[f] <= w[f] + 300 /\ w[f] - 300 < 600 * r[f]
  <2>1. w[f] = Weighted(n, t, f) /\ r[f] = Ranking!Rounded(Weighted(n, t, f), 600)
    BY DEF Weighted, Ranking!Contribucion
  <2>2. Weighted(n, t, f) \in Nat
    BY WeightedTyped
  <2>. QED
    BY <2>1, <2>2, RoundedIsNear
<1>2. Ranking!Exact(n) = SumOf(w, Ranking!Factor)
  <2>1. Ranking!Exact(n) = Ranking!SumOf(w, Ranking!Factor)
    BY Zenon DEF Ranking!Exact, Weighted
  <2>. QED
    BY <2>1, RankingSums, Zenon
<1>3. Ranking!ScoreTotal(n, Ranking!Chosen) = SumOf(r, Ranking!Factor)
  <2>1. Ranking!ScoreTotal(n, Ranking!Chosen) = Ranking!SumOf(r, Ranking!Factor)
    BY Zenon DEF Ranking!ScoreTotal
  <2>. QED
    BY <2>1, RankingSums, Zenon
<1>. HIDE DEF w, r
<1>4. /\ SumOf(w, Ranking!Factor) = w["geo"] + w["verificado"] + w["acepta_saldo"] + w["recencia"] + w["reputacion"]
      /\ SumOf(r, Ranking!Factor) = r["geo"] + r["verificado"] + r["acepta_saldo"] + r["recencia"] + r["reputacion"]
  BY <1>1, FiveFactors
<1>5. /\ "geo" \in Ranking!Factor /\ "verificado" \in Ranking!Factor /\ "acepta_saldo" \in Ranking!Factor
      /\ "recencia" \in Ranking!Factor /\ "reputacion" \in Ranking!Factor
  BY DEF Ranking!Factor
<1>. QED
  BY <1>1, <1>2, <1>3, <1>4, <1>5

(* Who is no worse in any factor has no lower total. *)
LEMMA TotalIsMonotone ==
  ASSUME NEW a, NEW b, BusinessTyped(a), BusinessTyped(b), Ranking!NoWorse(a, b)
  PROVE  Ranking!ScoreTotal(b, Ranking!Chosen) <= Ranking!ScoreTotal(a, Ranking!Chosen)
<1>. PICK t : t = Ranking!Chosen
  OBVIOUS
<1>. DEFINE x == [f \in Ranking!Factor |-> Ranking!Contribucion(a, t, f)]
            y == [f \in Ranking!Factor |-> Ranking!Contribucion(b, t, f)]
<1>1. /\ Ranking!geoScore(b, t) \in Nat /\ Ranking!geoScore(a, t) \in Nat
      /\ Ranking!geoScore(b, t) <= Ranking!geoScore(a, t)
  <2>1. Ranking!geoScore(b, t) <= Ranking!geoScore(a, t)
    BY DEF Ranking!NoWorse
  <2>. QED
    BY <2>1 DEF Ranking!geoScore, Ranking!DeepGeo, Ranking!ShortGeo
<1>2. /\ Ranking!verificadoScore(b, t) \in Nat /\ Ranking!verificadoScore(a, t) \in Nat
      /\ Ranking!verificadoScore(b, t) <= Ranking!verificadoScore(a, t)
      /\ Ranking!aceptaSaldoScore(b) \in Nat /\ Ranking!aceptaSaldoScore(a) \in Nat
      /\ Ranking!aceptaSaldoScore(b) <= Ranking!aceptaSaldoScore(a)
  BY DEF Ranking!NoWorse, Ranking!verificadoScore, Ranking!aceptaSaldoScore
<1>3. /\ Ranking!recenciaScore(b) \in Nat /\ Ranking!recenciaScore(a) \in Nat
      /\ Ranking!recenciaScore(b) <= Ranking!recenciaScore(a)
  BY RecencyTyped DEF Ranking!NoWorse
<1>4. /\ Ranking!reputacionScore(b) \in Nat /\ Ranking!reputacionScore(a) \in Nat
      /\ Ranking!reputacionScore(b) <= Ranking!reputacionScore(a)
  <2>1. a.rating <= a.rating /\ a.reviews <= a.reviews /\ b.rating <= a.rating /\ b.reviews <= a.reviews
    BY DEF BusinessTyped, ReviewCount, Ranking!NoWorse
  <2>. QED
    BY <2>1, ReputationIsMonotone
<1>5. ASSUME NEW f \in Ranking!Factor PROVE x[f] \in Nat /\ y[f] \in Nat /\ y[f] <= x[f]
  <2>1. x[f] = Ranking!Rounded(Weighted(a, t, f), 600) /\ y[f] = Ranking!Rounded(Weighted(b, t, f), 600)
    BY DEF Weighted, Ranking!Contribucion
  <2>2. Weighted(a, t, f) \in Nat /\ Weighted(b, t, f) \in Nat
    BY WeightedTyped
  <2>3. Weighted(b, t, f) <= Weighted(a, t, f)
    BY <1>1, <1>2, <1>3, <1>4, WeightedIs DEF Ranking!Factor
  <2>. QED
    BY <2>1, <2>2, <2>3, RoundedIsNear, RoundedIsMonotone
<1>6. /\ Ranking!ScoreTotal(a, Ranking!Chosen) = SumOf(x, Ranking!Factor)
      /\ Ranking!ScoreTotal(b, Ranking!Chosen) = SumOf(y, Ranking!Factor)
  <2>1. /\ Ranking!ScoreTotal(a, Ranking!Chosen) = Ranking!SumOf(x, Ranking!Factor)
        /\ Ranking!ScoreTotal(b, Ranking!Chosen) = Ranking!SumOf(y, Ranking!Factor)
    BY Zenon DEF Ranking!ScoreTotal
  <2>. QED
    BY <2>1, RankingSums, Zenon
<1>. HIDE DEF x, y
<1>7. /\ SumOf(x, Ranking!Factor) = x["geo"] + x["verificado"] + x["acepta_saldo"] + x["recencia"] + x["reputacion"]
      /\ SumOf(y, Ranking!Factor) = y["geo"] + y["verificado"] + y["acepta_saldo"] + y["recencia"] + y["reputacion"]
  BY <1>5, FiveFactors
<1>8. /\ "geo" \in Ranking!Factor /\ "verificado" \in Ranking!Factor /\ "acepta_saldo" \in Ranking!Factor
      /\ "recencia" \in Ranking!Factor /\ "reputacion" \in Ranking!Factor
  BY DEF Ranking!Factor
<1>. QED
  BY <1>5, <1>6, <1>7, <1>8

(* Where the totals are numbers, who is above whom is a strict total order. *)
TotalsTyped(t, pool) ==
  pool \subseteq Nat /\ \A i \in pool : Ranking!ScoreTotal(t.listing[i], t) \in Nat

LEMMA AboveIsAnOrder ==
  ASSUME NEW t, NEW pool, TotalsTyped(t, pool),
         NEW i \in pool, NEW j \in pool
  PROVE  /\ ~ Ranking!Above(t, i, i)
         /\ i # j => Ranking!Above(t, i, j) \/ Ranking!Above(t, j, i)
         /\ \A k \in pool : Ranking!Above(t, k, i) /\ Ranking!Above(t, i, j) => Ranking!Above(t, k, j)
<1>. DEFINE s == [k \in pool |-> Ranking!ScoreTotal(t.listing[k], t)]
<1>1. \A k, l \in pool : Ranking!Above(t, k, l) <=> s[k] > s[l] \/ (s[k] = s[l] /\ k < l)
  BY Zenon DEF Ranking!Above
<1>2. \A k \in pool : s[k] \in Nat /\ k \in Nat
  BY DEF TotalsTyped
<1>. HIDE DEF s
<1>. QED
  BY <1>1, <1>2

(* The places of a pool are those of a competition without ties: each from
   the first to the last is somebody's, and who is above is before. *)
LEMMA Places ==
  ASSUME NEW t, NEW pool, IsFiniteSet(pool), TotalsTyped(t, pool)
  PROVE  /\ Cardinality(pool) \in Nat
         /\ \A i \in pool : Ranking!PlaceOf(t, pool, i) \in 1 .. Cardinality(pool)
         /\ \A i, j \in pool : Ranking!Above(t, i, j) => Ranking!PlaceOf(t, pool, i) < Ranking!PlaceOf(t, pool, j)
         /\ \A p \in 1 .. Cardinality(pool) : \E i \in pool : Ranking!PlaceOf(t, pool, i) = p
<1>. DEFINE before(i) == {j \in pool : Ranking!Above(t, j, i)}
            place == [i \in pool |-> Ranking!PlaceOf(t, pool, i)]
            places == 1 .. Cardinality(pool)
<1>1. Cardinality(pool) \in Nat
  BY FS_CardinalityType
<1>2. \A i \in pool : place[i] = 1 + Cardinality(before(i))
  BY RankingCards, Zenon DEF Ranking!PlaceOf
<1>3. ASSUME NEW i \in pool
      PROVE  IsFiniteSet(before(i)) /\ Cardinality(before(i)) \in Nat /\ place[i] \in places
  <2>1. before(i) \in SUBSET pool /\ before(i) # pool
    BY AboveIsAnOrder
  <2>2. IsFiniteSet(before(i)) /\ Cardinality(before(i)) <= Cardinality(pool)
        /\ Cardinality(before(i)) # Cardinality(pool)
    BY <2>1, FS_Subset, Zenon
  <2>3. Cardinality(before(i)) \in Nat
    BY <2>2, FS_CardinalityType, Zenon
  <2>4. 1 + Cardinality(before(i)) \in places
    BY <1>1, <2>2, <2>3
  <2>. QED
    BY <1>2, <2>2, <2>3, <2>4, Zenon
<1>4. ASSUME NEW i \in pool, NEW j \in pool, Ranking!Above(t, i, j)
      PROVE  place[i] < place[j]
  <2>1. before(i) \in SUBSET before(j) /\ before(i) # before(j)
    <3>1. before(i) \subseteq before(j)
      BY <1>4, AboveIsAnOrder
    <3>2. i \in before(j) /\ i \notin before(i)
      BY <1>4, AboveIsAnOrder
    <3>. QED
      BY <3>1, <3>2
  <2>2. /\ Cardinality(before(i)) <= Cardinality(before(j))
        /\ Cardinality(before(j)) # Cardinality(before(i))
    BY <1>3, <2>1, FS_Subset, Zenon
  <2>3. /\ Cardinality(before(i)) \in Nat /\ Cardinality(before(j)) \in Nat
        /\ place[i] = 1 + Cardinality(before(i)) /\ place[j] = 1 + Cardinality(before(j))
    BY <1>2, <1>3, Zenon
  <2>. QED
    BY <2>2, <2>3
<1>. HIDE DEF before, place
<1>5. ASSUME NEW p \in places PROVE \E i \in pool : place[i] = p
  <2>1. place \in Injection(pool, places)
    <3>1. place \in [pool -> places]
      BY <1>3 DEF place
    <3>2. ASSUME NEW i \in pool, NEW j \in pool, place[i] = place[j] PROVE i = j
      <4>1. place[i] \in Nat /\ place[j] \in Nat
        BY <1>3
      <4>2. ~ Ranking!Above(t, i, j) /\ ~ Ranking!Above(t, j, i)
        BY <1>4, <3>2, <4>1
      <4>. QED
        BY <4>2, AboveIsAnOrder
    <3>. QED
      BY <3>1, <3>2 DEF Injection, IsInjective
  <2>2. IsFiniteSet(places) /\ Cardinality(places) = Cardinality(pool)
    BY <1>1, FS_Interval
  <2>3. place \in Surjection(pool, places)
    BY <2>1, <2>2, FS_Injection, Zenon
  <2>. QED
    BY <2>3 DEF Surjection
<1>6. \A i \in pool : place[i] = Ranking!PlaceOf(t, pool, i)
  BY DEF place
<1>. QED
  BY <1>1, <1>3, <1>4, <1>5, <1>6

(* The list shown: at each place of the first ones, who has it. *)
LEMMA BestIs ==
  ASSUME NEW t, NEW pool, IsFiniteSet(pool), TotalsTyped(t, pool),
         NEW b, b = Ranking!Best(t, pool)
  PROVE  \A p \in DOMAIN b :
           /\ p \in Nat \ {0} /\ 1 .. p \subseteq DOMAIN b
           /\ b[p] \in pool /\ Ranking!PlaceOf(t, pool, b[p]) = p
<1>1. DOMAIN b = 1 .. Ranking!Min({Ranking!limit, Ranking!Cardinality(pool)})
  BY DEF Ranking!Best
<1>2. PICK N : N = Cardinality(pool)
  OBVIOUS
<1>3. N \in Nat /\ Ranking!Cardinality(pool) = N
  BY <1>2, FS_CardinalityType, RankingCards
<1>4. Ranking!Min({3, N}) \in {3, N} /\ Ranking!Min({3, N}) <= N
  <2>1. \E m \in {3, N} : \A y \in {3, N} : m <= y
    BY <1>3
  <2>. QED
    BY <2>1 DEF Ranking!Min
<1>5. DOMAIN b \subseteq 1 .. N
  BY <1>1, <1>3, <1>4 DEF Ranking!limit
<1>6. ASSUME NEW p \in DOMAIN b PROVE b[p] \in pool /\ Ranking!PlaceOf(t, pool, b[p]) = p
  <2>1. \E i \in pool : Ranking!PlaceOf(t, pool, i) = p
    BY <1>2, <1>5, Places
  <2>2. b[p] = CHOOSE i \in pool : Ranking!PlaceOf(t, pool, i) = p
    BY <1>1 DEF Ranking!Best
  <2>. QED
    BY <2>1, <2>2
<1>7. \A p \in DOMAIN b : 1 .. p \subseteq DOMAIN b
  BY <1>1, <1>3, <1>4 DEF Ranking!limit
<1>. QED
  BY <1>3, <1>5, <1>6, <1>7

RankingInv ==
  /\ trace \in DOMAIN Ranking!Traces
  /\ distances \in Seq(Nat) /\ Len(distances) <= 5
  /\ ranking # <<>> => Len(distances) = 5 /\ ranking = Ranking!Best(Ranking!Chosen, Ranking!EnRadio(Ranking!Chosen))

(* Whom a ranking is made of, where the listing is typed. *)
LEMMA RankingPool ==
  ASSUME RankingInv
  PROVE  /\ ListingTyped(Ranking!Chosen.listing)
         /\ Ranking!EnRadio(Ranking!Chosen) \subseteq 1 .. 5
         /\ IsFiniteSet(Ranking!EnRadio(Ranking!Chosen))
         /\ TotalsTyped(Ranking!Chosen, Ranking!EnRadio(Ranking!Chosen))
<1>1. ListingTyped(Ranking!Chosen.listing)
  BY TracesTyped DEF RankingInv, Ranking!Chosen
<1>2. Ranking!EnRadio(Ranking!Chosen) \subseteq 1 .. 5
  <2>1. DOMAIN distances = 1 .. Len(distances) /\ Len(distances) \in Nat /\ Len(distances) <= 5
    BY DEF RankingInv
  <2>2. DOMAIN distances \subseteq 1 .. 5
    BY <2>1
  <2>. QED
    BY <2>2, Zenon DEF Ranking!EnRadio
<1>3. IsFiniteSet(1 .. 5)
  BY FS_Interval, 1 \in Int, 5 \in Int
<1>4. IsFiniteSet(Ranking!EnRadio(Ranking!Chosen))
  BY <1>2, <1>3, FS_Subset, Zenon
<1>5. \A i \in 1 .. 5 : Ranking!ScoreTotal(Ranking!Chosen.listing[i], Ranking!Chosen) \in Nat
  <2>1. \A i \in 1 .. 5 : BusinessTyped(Ranking!Chosen.listing[i])
    BY <1>1, Zenon DEF ListingTyped
  <2>. QED
    BY <2>1, TotalIsNear
<1>. QED
  BY <1>1, <1>2, <1>4, <1>5 DEF TotalsTyped

(* Both properties are read off the places. *)
LEMMA RankingIsByPlace ==
  ASSUME RankingInv
  PROVE  RankingFollowsScores
<1>. DEFINE t == Ranking!Chosen
            pool == Ranking!EnRadio(t)
            place(i) == Ranking!PlaceOf(t, pool, i)
            total(i) == Ranking!ScoreTotal(t.listing[i], t)
<1>1. IsFiniteSet(pool) /\ TotalsTyped(t, pool) /\ pool \subseteq 1 .. 5
  BY RankingPool
<1>2. \A i \in pool : BusinessTyped(t.listing[i])
  BY RankingPool DEF ListingTyped
<1>3. \A p \in DOMAIN ranking : /\ p \in Nat \ {0} /\ 1 .. p \subseteq DOMAIN ranking
                               /\ ranking[p] \in pool /\ place(ranking[p]) = p
  <2>1. CASE ranking = <<>>
    BY <2>1
  <2>2. CASE ranking # <<>>
    <3>1. ranking = Ranking!Best(t, pool)
      BY <2>2 DEF RankingInv
    <3>. QED
      BY <1>1, <3>1, BestIs
  <2>. QED
    BY <2>1, <2>2
<1>4. /\ \A i \in pool : place(i) \in Nat \ {0}
      /\ \A i, j \in pool : Ranking!Above(t, i, j) => place(i) < place(j)
      /\ \A i, j \in pool : i # j => Ranking!Above(t, i, j) \/ Ranking!Above(t, j, i)
  <2>1. /\ Cardinality(pool) \in Nat
        /\ \A i \in pool : place(i) \in 1 .. Cardinality(pool)
        /\ \A i, j \in pool : Ranking!Above(t, i, j) => place(i) < place(j)
    BY <1>1, Places, Zenon
  <2>2. \A i, j \in pool : i # j => Ranking!Above(t, i, j) \/ Ranking!Above(t, j, i)
    BY <1>1, AboveIsAnOrder, Zenon
  <2>. QED
    BY <2>1, <2>2
<1>5. \A i, j \in pool : Ranking!Above(t, i, j) <=> total(i) > total(j) \/ (total(i) = total(j) /\ i < j)
  BY Zenon DEF Ranking!Above
<1>6. \A i \in pool : /\ total(i) \in Nat /\ Ranking!Exact(t.listing[i]) \in Nat
                      /\ 600 * total(i) <= Ranking!Exact(t.listing[i]) + 1500
                      /\ Ranking!Exact(t.listing[i]) - 1500 < 600 * total(i)
  BY <1>2, TotalIsNear
<1>7. \A i, j \in pool : Ranking!NoWorse(t.listing[i], t.listing[j]) => total(j) <= total(i)
  BY <1>2, TotalIsMonotone, Zenon
<1>8. \A p \in DOMAIN ranking : Ranking!Shown(p) = t.listing[ranking[p]]
  BY Zenon DEF Ranking!Shown
<1>9. Ranking!BetterIsBehindOnATieOnly
        <=> \A p \in DOMAIN ranking, i \in pool :
              /\ Ranking!NoWorse(t.listing[i], Ranking!Shown(p))
              /\ \A q \in 1 .. p : ranking[q] # i
              => Ranking!ScoreTotal(t.listing[i], t) = Ranking!ScoreTotal(Ranking!Shown(p), t) /\ ranking[p] < i
  BY Zenon DEF Ranking!BetterIsBehindOnATieOnly
<1>. HIDE DEF t, pool, place
<1>10. ASSUME NEW p \in DOMAIN ranking, NEW q \in DOMAIN ranking, p < q
       PROVE  Ranking!Exact(Ranking!Shown(p)) + 3000 > Ranking!Exact(Ranking!Shown(q))
  <2>1. PICK i \in pool, j \in pool : i = ranking[p] /\ j = ranking[q]
    BY <1>3
  <2>2. place(i) < place(j)
    BY <1>3, <1>10, <2>1
  <2>3. i # j /\ ~ Ranking!Above(t, j, i)
    BY <1>4, <2>2
  <2>4. total(i) >= total(j)
    <3>1. Ranking!Above(t, i, j)
      BY <1>4, <2>3
    <3>. QED
      BY <1>5, <1>6, <3>1
  <2>. HIDE DEF total
  <2>5. Ranking!Exact(t.listing[i]) + 3000 > Ranking!Exact(t.listing[j])
    BY <1>6, <2>4
  <2>. QED
    BY <1>8, <2>1, <2>5
<1>11. ASSUME NEW p \in DOMAIN ranking, NEW i \in pool,
              Ranking!NoWorse(t.listing[i], Ranking!Shown(p)), \A q \in 1 .. p : ranking[q] # i
       PROVE  Ranking!ScoreTotal(t.listing[i], t) = Ranking!ScoreTotal(Ranking!Shown(p), t) /\ ranking[p] < i
  <2>1. PICK j \in pool : j = ranking[p] /\ place(j) = p
    BY <1>3
  <2>2. i # j
    BY <1>3, <1>11, <2>1
  <2>3. ASSUME Ranking!Above(t, i, j) PROVE FALSE
    <3>1. PICK q : q = place(i)
      OBVIOUS
    <3>2. q \in 1 .. p
      BY <1>3, <1>4, <2>1, <2>3, <3>1
    <3>3. q \in DOMAIN ranking /\ ranking[q] \in pool /\ place(ranking[q]) = q
      BY <1>3, <3>2
    <3>4. ranking[q] = i
      BY <1>4, <3>1, <3>3
    <3>. QED
      BY <1>11, <3>2, <3>4
  <2>4. Ranking!Above(t, j, i)
    BY <1>4, <2>2, <2>3
  <2>5. total(j) <= total(i)
    BY <1>7, <1>8, <1>11, <2>1
  <2>6. total(j) = total(i) /\ j < i
    BY <1>5, <1>6, <2>4, <2>5
  <2>. QED
    BY <1>8, <2>1, <2>6
<1>. QED
  BY <1>9, <1>10, <1>11 DEF RankingFollowsScores, Ranking!RoundingKeepsOrder

(***************************************************************************)
(* A listing is ranked once the distance of each of its five businesses is *)
(* drawn, and the ranking is then the best of those within the radius.     *)
(***************************************************************************)
LEMMA RankingInvKept == RankingInv /\ [Ranking!Next]_Ranking!vars => RankingInv'
<1>. SUFFICES ASSUME RankingInv, [Ranking!Next]_Ranking!vars
              PROVE  RankingInv'
  OBVIOUS
<1>1. Len(Ranking!Chosen.listing) = 5
  BY RankingPool DEF ListingTyped
<1>2. CASE Ranking!Rank
  <2>1. Len(distances) = 5 /\ ranking' = Ranking!Best(Ranking!Chosen, Ranking!EnRadio(Ranking!Chosen))
        /\ UNCHANGED <<trace, distances>>
    BY <1>1, <1>2 DEF Ranking!Rank
  <2>2. Ranking!Chosen' = Ranking!Chosen
    BY <2>1 DEF Ranking!Chosen
  <2>3. Ranking!EnRadio(Ranking!Chosen)' = Ranking!EnRadio(Ranking!Chosen)
    BY <2>1, <2>2 DEF Ranking!EnRadio
  <2>4. ranking' = Ranking!Best(Ranking!Chosen, Ranking!EnRadio(Ranking!Chosen))'
    BY <2>1, <2>2, <2>3
  <2>. QED
    BY <2>1, <2>4 DEF RankingInv
<1>3. ASSUME NEW d \in 0 .. 104, Ranking!Draw(d) PROVE RankingInv'
  <2>1. d \in Nat /\ Len(distances) < 5 /\ distances' = Append(distances, d)
        /\ trace' = trace /\ ranking' = ranking
    BY <1>1, <1>3 DEF Ranking!Draw
  <2>2. ranking = <<>>
    BY <2>1 DEF RankingInv
  <2>. QED
    BY <2>1, <2>2 DEF RankingInv
<1>4. CASE UNCHANGED Ranking!vars
  BY <1>4 DEF RankingInv, Ranking!vars, Ranking!Chosen, Ranking!EnRadio
<1>. QED
  BY <1>2, <1>3, <1>4 DEF Ranking!Next

(* The ranking shown to a buyer follows the scores, for every distance drawn:
   rounding turns no two businesses five points apart around, and whoever is
   no worse in every factor is behind on a tie of totals only
   (algorithm.ts, buildTrace; demo-algorithm.ts). *)
THEOREM RankingIsFair == Ranking!Spec => []RankingFollowsScores
<1>1. Ranking!Init => RankingInv
  BY DEF Ranking!Init, RankingInv
<1>2. RankingInv => RankingFollowsScores
  BY RankingIsByPlace
<1>. QED
  BY <1>1, <1>2, RankingInvKept, PTL DEF Ranking!Spec

----
(***************************************************************************)
(* The types of the components.  Each TypeOK bounds what its component     *)
(* counts, so that many of them need more than themselves to be inductive: *)
(* the invariants above, or the parts that are named below.                *)
(***************************************************************************)
(* A set of places in a list has no more members than the list has room
   for. *)
LEMMA FewOf ==
  ASSUME NEW n \in Nat, NEW m \in Nat, n <= m, NEW S \in SUBSET (1 .. n)
  PROVE  Cardinality(S) \in 0 .. m
<1>1. IsFiniteSet(1 .. n) /\ Cardinality(1 .. n) = n
  <2>1. 1 \in Int /\ n \in Int
    OBVIOUS
  <2>2. Cardinality(1 .. n) = IF 1 > n THEN 0 ELSE n - 1 + 1
    BY <2>1, FS_Interval
  <2>. QED
    BY <2>1, <2>2, FS_Interval
<1>2. Cardinality(S) <= Cardinality(1 .. n) /\ IsFiniteSet(S)
  BY <1>1, FS_Subset
<1>3. Cardinality(S) \in Nat
  BY <1>2, FS_CardinalityType
<1>. QED
  BY <1>1, <1>2, <1>3

(* Calendar: a day is counted only if the term is not over, and a term
   has no more of them than days. *)
LEMMA CalendarTypes ==
  /\ Calendar!Init => Calendar!TypeOK /\ (phase = "deadline" => counted < cursor - start)
  /\ CalendarInv /\ Calendar!TypeOK /\ (phase = "deadline" => counted < cursor - start) /\ [Calendar!Next]_(Calendar!vars)
       => Calendar!TypeOK' /\ (phase = "deadline" => counted < cursor - start)'
<1>1. ASSUME Calendar!Init PROVE Calendar!TypeOK /\ (phase = "deadline" => counted < cursor - start)
  <2>1. start \in 1 .. 365 /\ term \in Nat \ {0} /\ start \in Starts /\ term \in Terms
    BY <1>1, CalendarAssumption DEF Calendar!Init
  <2>. QED
    BY <1>1, <2>1 DEF Calendar!Init, Calendar!TypeOK
<1>2. ASSUME CalendarInv, Calendar!TypeOK, phase = "deadline" => counted < cursor - start, [Calendar!Next]_(Calendar!vars)
      PROVE  Calendar!TypeOK' /\ (phase = "deadline" => counted < cursor - start)'
  <2>1. /\ start \in Nat /\ term \in Nat \ {0} /\ cursor \in Nat /\ start < cursor
        /\ walker \in Nat /\ start <= walker /\ walker <= cursor /\ counted \in Nat
    BY <1>2, TermsAreWeeks DEF CalendarInv, CalendarTyped
  <2>2. CASE Calendar!CountDay
    <3>1. phase = "deadline" /\ counted < term /\ walker = start /\ between = 0
      BY <1>2, <2>2 DEF Calendar!CountDay, CalendarInv, CountsSoFar
    <3>. DEFINE here == counted + (IF Calendar!IsNonBusinessDay(cursor) THEN 0 ELSE 1)
    <3>2. /\ counted' = here /\ cursor' = IF here < term THEN cursor + 1 ELSE cursor
          /\ phase' = IF here < term THEN "deadline" ELSE "between"
      BY <2>2 DEF Calendar!CountDay
    <3>4. here \in {counted, counted + 1}
      BY <2>1
    <3>. HIDE DEF here
    <3>3. UNCHANGED <<start, term, walker, between>>
      BY <2>2 DEF Calendar!CountDay
    <3>. QED
      BY <1>2, <2>1, <3>1, <3>2, <3>3, <3>4 DEF Calendar!TypeOK
  <2>3. CASE Calendar!WalkDay
    <3>1. phase = "between" /\ UNCHANGED <<start, term, cursor, counted>>
      BY <2>3 DEF Calendar!WalkDay
    <3>. DEFINE more == between + (IF Calendar!IsNonBusinessDay(walker) THEN 0 ELSE 1)
    <3>2. \/ walker < cursor /\ walker' = walker + 1 /\ phase' = phase /\ between' = more
          \/ phase' = "done" /\ UNCHANGED <<walker, between>>
      BY <2>3 DEF Calendar!WalkDay
    <3>3. between \in Nat /\ more \in {between, between + 1}
      BY <1>2, <2>1 DEF Calendar!TypeOK
    <3>. HIDE DEF more
    <3>. QED
      BY <1>2, <2>1, <3>1, <3>2, <3>3 DEF Calendar!TypeOK
  <2>4. CASE UNCHANGED Calendar!vars
    BY <1>2, <2>4 DEF Calendar!vars, Calendar!TypeOK
  <2>. QED
    BY <1>2, <2>2, <2>3, <2>4 DEF Calendar!Next
<1>. QED
  BY <1>1, <1>2

----
(* A script past its first command has a key to go back to. *)
HasReadAKey == \A o \in Operator : script[o] # "idle" => old[o] \in Rotation!Key

(* KeyRotation: with that, its types are inductive. *)
LEMMA RotationTypes ==
  /\ Rotation!Init => Rotation!TypeOK /\ HasReadAKey
  /\ RotationInv /\ Rotation!TypeOK /\ HasReadAKey /\ [Rotation!Next]_(Rotation!vars)
       => Rotation!TypeOK' /\ HasReadAKey'
<1>. USE DEF Rotation!TypeOK, HasReadAKey, Rotation!keys, Rotation!scripts, Rotation!refunds
<1>1. ASSUME Rotation!Init PROVE Rotation!TypeOK /\ HasReadAKey
  <2>1. 1 \in Rotation!Key /\ Rotation!NoKey \in Rotation!Key \cup {Rotation!NoKey}
    BY KeyRotationAssumption DEF Rotation!Key
  <2>. QED
    BY <1>1, <2>1, Zenon DEF Rotation!Init
<1>2. ASSUME RotationInv, Rotation!TypeOK, HasReadAKey, [Rotation!Next]_(Rotation!vars)
      PROVE  Rotation!TypeOK' /\ HasReadAKey'
  <2>1. CASE Rotation!Regenerate
    BY <1>2, <2>1, KeyRotationAssumption DEF Rotation!Regenerate, Rotation!Key
  <2>2. CASE Rotation!Deploy
    BY <1>2, <2>2 DEF Rotation!Deploy
  <2>3. ASSUME NEW o \in Operator, Rotation!ReadCurrent(o) PROVE Rotation!TypeOK' /\ HasReadAKey'
    BY <1>2, <2>3 DEF Rotation!ReadCurrent, Rotation!Goto
  <2>4. ASSUME NEW o \in Operator, Rotation!SetNewValue(o) PROVE Rotation!TypeOK' /\ HasReadAKey'
    BY <1>2, <2>4 DEF Rotation!SetNewValue, Rotation!Goto, RotationInv, SetsAKey
  <2>5. ASSUME NEW o \in Operator, Rotation!Verify(o) PROVE Rotation!TypeOK' /\ HasReadAKey'
    BY <1>2, <2>5 DEF Rotation!Verify, Rotation!Goto
  <2>6. ASSUME NEW o \in Operator, Rotation!Audit(o) PROVE Rotation!TypeOK' /\ HasReadAKey'
    BY <1>2, <2>6 DEF Rotation!Audit, Rotation!AuditEntry, Rotation!Goto, RotationInv, SetsAKey
  <2>7. ASSUME NEW o \in Operator, Rotation!Interrupt(o) PROVE Rotation!TypeOK' /\ HasReadAKey'
    BY <1>2, <2>7 DEF Rotation!Interrupt, Rotation!Goto
  <2>8. ASSUME NEW o \in Operator, NEW k \in Rotation!Key, Rotation!ReadNewKey(o, k)
        PROVE  Rotation!TypeOK' /\ HasReadAKey'
    BY <1>2, <2>8 DEF Rotation!ReadNewKey, Rotation!Goto
  <2>9. ASSUME NEW i \in Instance, Rotation!FirstRequest(i) PROVE Rotation!TypeOK' /\ HasReadAKey'
    BY <1>2, <2>9 DEF Rotation!FirstRequest
  <2>10. ASSUME NEW i \in Instance, NEW r \in Rotation!RefundStatus \cup {"error"}, Rotation!RefundTransaction(i, r)
         PROVE  Rotation!TypeOK' /\ HasReadAKey'
    <3>1. Rotation!OkOf(r) \in {"none", "ok", "error"}
      BY DEF Rotation!OkOf
    <3>2. refunded' \in Rotation!RefundStatus \cup {"none"}
      BY <1>2, <2>10 DEF Rotation!RefundTransaction
    <3>3. refundAnswer' = Rotation!OkOf(r)
          /\ UNCHANGED <<wompi, secret, deployed, client, script, old, new, audit, interrupted>>
      BY <2>10 DEF Rotation!RefundTransaction
    <3>. QED
      BY <1>2, <3>1, <3>2, <3>3
  <2>11. ASSUME NEW s \in Rotation!RefundStatus, Rotation!Settle(s) PROVE Rotation!TypeOK' /\ HasReadAKey'
    BY <1>2, <2>11 DEF Rotation!Settle
  <2>12. CASE UNCHANGED Rotation!vars
    BY <1>2, <2>12 DEF Rotation!vars
  <2>. QED
    BY <1>2, <2>1, <2>2, <2>3, <2>4, <2>5, <2>6, <2>7, <2>8, <2>9, <2>10, <2>11, <2>12
    DEF Rotation!Next, Rotation!ScriptStep
<1>. QED
  BY <1>1, <1>2

----
(* The row of a NIT nobody looked up has the type of an entry. *)
LEMMA NoEntryTyped == NitCache!NoEntry \in NitCache!Entry
BY NitCacheAssumption, ClockAssumption DEF NitCache!NoEntry, NitCache!Entry, NitCache!Time

(* What a verification carries. *)
NitCall == [nit : Nit, active : BOOLEAN, at : NitCache!Time]

LEMMA NoNitCallTyped == NitCache!NoCall \in NitCall
<1>1. (CHOOSE n \in Nit : TRUE) \in Nit
  BY NitCacheAssumption
<1>2. 0 \in NitCache!Time
  BY ClockAssumption DEF NitCache!Time
<1>. QED
  BY <1>1, <1>2 DEF NitCache!NoCall, NitCall

(* NitCache: its types are inductive as they stand. *)
LEMMA NitTypes ==
  /\ NitCache!Init => NitCache!TypeOK
  /\ NitCache!TypeOK /\ [NitCache!Next]_(NitCache!vars) => NitCache!TypeOK'
<1>. USE DEF NitCache!TypeOK
<1>1. ASSUME NitCache!Init PROVE NitCache!TypeOK
  <2>1. (CHOOSE n \in Nit : TRUE) \in Nit
    BY NitCacheAssumption
  <2>2. 0 \in NitCache!Time
    BY ClockAssumption DEF NitCache!Time
  <2>. QED
    BY <1>1, <2>1, <2>2, NoEntryTyped, NoNitCallTyped DEF NitCache!Init, NitCache!NoAnswer, NitCache!ActiveAt, NitCall
<1>2. ASSUME NitCache!TypeOK, [NitCache!Next]_(NitCache!vars) PROVE NitCache!TypeOK'
  <2>1. ASSUME NEW w \in Worker, NEW n \in Nit, NitCache!VerifyFromCache(w, n) PROVE NitCache!TypeOK'
    <3>1. cache[n].verified \in BOOLEAN
      BY <1>2 DEF NitCache!Entry
    <3>. QED
      BY <1>2, <2>1, <3>1 DEF NitCache!VerifyFromCache
  <2>2. ASSUME NEW w \in Worker, NEW n \in Nit, NitCache!VerifyMiss(w, n) PROVE NitCache!TypeOK'
    BY <1>2, <2>2 DEF NitCache!VerifyMiss
  <2>3. ASSUME NEW w \in Worker, NitCache!Lookup(w) \/ NitCache!Stamp(w) PROVE NitCache!TypeOK'
    <3>. PICK was \in NitCall : was = nitCall[w]
      BY <1>2 DEF NitCall
    <3>1. PICK is \in NitCall : nitCall' = [nitCall EXCEPT ![w] = is]
      <4>1. CASE NitCache!Lookup(w)
        <5>. PICK is : is = [was EXCEPT !.active = registry[was.nit] = "ACTIVA", !.at = nitNow]
          OBVIOUS
        <5>1. is \in NitCall
          BY <1>2 DEF NitCall
        <5>2. nitCall' = [nitCall EXCEPT ![w] = is]
          BY <1>2, <4>1 DEF NitCache!Lookup
        <5>. QED
          BY <5>1, <5>2
      <4>2. CASE NitCache!Stamp(w)
        <5>. PICK is : is = [was EXCEPT !.at = nitNow]
          OBVIOUS
        <5>1. is \in NitCall
          BY <1>2 DEF NitCall
        <5>2. nitCall' = [nitCall EXCEPT ![w] = is]
          BY <1>2, <4>2 DEF NitCache!Stamp
        <5>. QED
          BY <5>1, <5>2
      <4>. QED
        BY <2>3, <4>1, <4>2
    <3>2. nitCall' \in [Worker -> NitCall]
      BY <1>2, <3>1 DEF NitCall
    <3>3. /\ UNCHANGED <<nitNow, registry, since, cache, answer>>
          /\ nitPc' = [nitPc EXCEPT ![w] = "stamp"] \/ nitPc' = [nitPc EXCEPT ![w] = "put"]
      BY <2>3 DEF NitCache!Lookup, NitCache!Stamp
    <3>. QED
      BY <1>2, <3>2, <3>3 DEF NitCall
  <2>4. ASSUME NEW w \in Worker, NitCache!Put(w) PROVE NitCache!TypeOK'
    <3>. PICK was \in NitCall : was = nitCall[w]
      BY <1>2 DEF NitCall
    <3>. PICK v : v = NitCache!Value(was.active, was.at)
      OBVIOUS
    <3>1. was.active \in BOOLEAN /\ was.at \in 0 .. LongTime
      BY DEF NitCall, NitCache!Time
    <3>2. was.at + NitTtl \in 0 .. LongTime + NitTtl
      BY <3>1, NitCacheAssumption, ClockAssumption
    <3>3. v \in NitCache!Entry
      BY <3>1, <3>2 DEF NitCache!Value, NitCache!Entry
    <3>4. cache' = [cache EXCEPT ![was.nit] = v] /\ nitPc' = [nitPc EXCEPT ![w] = "idle"]
          /\ nitCall' = [nitCall EXCEPT ![w] = NitCache!NoCall] /\ UNCHANGED <<nitNow, registry, since, answer>>
      BY <2>4 DEF NitCache!Put
    <3>. QED
      BY <1>2, <3>3, <3>4, NoNitCallTyped DEF NitCall
  <2>5. ASSUME NEW w \in Worker, NitCache!VerifyFails(w) PROVE NitCache!TypeOK'
    BY <1>2, <2>5, NoNitCallTyped DEF NitCache!VerifyFails, NitCall
  <2>6. ASSUME NEW n \in Nit, NEW s \in NitCache!Status, NitCache!RegistryChanges(n, s) PROVE NitCache!TypeOK'
    BY <1>2, <2>6 DEF NitCache!RegistryChanges, NitCache!ActiveAt
  <2>7. CASE NitCache!Tick
    <3>1. nitNow' \in NitCache!Time
      BY <1>2, <2>7, ClockAssumption DEF NitCache!Tick, NitCache!Time
    <3>. QED
      BY <1>2, <2>7, <3>1 DEF NitCache!Tick, NitCache!ActiveAt
  <2>8. CASE UNCHANGED NitCache!vars
    BY <1>2, <2>8 DEF NitCache!vars
  <2>. QED
    BY <1>2, <2>1, <2>2, <2>3, <2>4, <2>5, <2>6, <2>7, <2>8 DEF NitCache!Next
<1>. QED
  BY <1>1, <1>2

----
(* A slot without a request holds one all the same. *)
LEMMA NoDoorCallTyped == Door!NoCall \in Door!Call
BY DEF Door!NoCall, Door!Call, Door!Method, Door!Route

(* Door: its types are inductive as they stand. *)
LEMMA DoorTypes ==
  /\ Door!Init => Door!TypeOK
  /\ Door!TypeOK /\ [Door!Next]_(Door!vars) => Door!TypeOK'
<1>. USE DEF Door!TypeOK
<1>1. ASSUME Door!Init PROVE Door!TypeOK
  BY <1>1, ClockAssumption, NoDoorCallTyped DEF Door!Init, Door!Time
<1>2. ASSUME Door!TypeOK, [Door!Next]_(Door!vars) PROVE Door!TypeOK'
  <2>1. ASSUME NEW s \in Slot, NEW m \in Door!Method, NEW r \in Door!Route, NEW b \in BOOLEAN,
               NEW c \in Door!Credential \cup {Door!None}, NEW d \in Door!DevUser \cup {Door!Nobody},
               Door!Send(s, m, r, b, c, d)
        PROVE  Door!TypeOK'
    <3>. DEFINE program == c # Door!None \/ d # Door!Nobody
    <3>. PICK token : token = IF program THEN Door!Null ELSE cookies.csrf
      OBVIOUS
    <3>. PICK header : header = IF program THEN Door!Null ELSE Door!GetCsrfHeader(m)
      OBVIOUS
    <3>. PICK with : with = (~program /\ Door!HasCookies)
      OBVIOUS
    <3>. PICK none \in Door!Call : none = Door!NoCall
      BY NoDoorCallTyped
    <3>. PICK sent : sent = [none EXCEPT !.method = m, !.route = r, !.big = b, !.bearer = c, !.dev = d,
                                         !.withCookies = with, !.csrf = token, !.header = header]
      OBVIOUS
    <3>1. token \in Token \cup {Door!Null} /\ header \in Token \cup {Door!Null}
      BY <1>2 DEF Door!GetCsrfHeader, Door!DocumentCookie
    <3>2. with \in BOOLEAN
      BY Zenon
    <3>3. sent \in Door!Call
      <4>. PICK D : D = Door!DevUser \cup {Door!Nobody}
        OBVIOUS
      <4>. PICK C : C = Door!Credential \cup {Door!None}
        OBVIOUS
      <4>1. d \in D /\ c \in C
        OBVIOUS
      <4>. PICK T : T = Token \cup {Door!Null}
        OBVIOUS
      <4>. PICK M, R : M = Door!Method /\ R = Door!Route
        OBVIOUS
      <4>. DEFINE Calls == [method : M, route : R, big : BOOLEAN, bearer : C, dev : D, withCookies : BOOLEAN,
                            csrf : T, header : T, handled : BOOLEAN, setCookie : T]
      <4>2. Door!Call = Calls
        BY DEF Door!Call
      <4>3. none \in Calls /\ m \in M /\ r \in R /\ token \in T /\ header \in T
        BY <3>1, <4>2
      <4>4. sent = [method |-> m, route |-> r, big |-> b, bearer |-> c, dev |-> d, withCookies |-> with,
                    csrf |-> token, header |-> header, handled |-> none.handled, setCookie |-> none.setCookie]
        BY <4>3
      <4>5. none.handled \in BOOLEAN /\ none.setCookie \in T
        BY <4>3
      <4>6. sent \in Calls
        BY <3>2, <4>1, <4>3, <4>4, <4>5
      <4>. QED
        BY <4>2, <4>6
    <3>4. doorCall' = [doorCall EXCEPT ![s] = sent] /\ doorPc' = [doorPc EXCEPT ![s] = "sent"]
          /\ UNCHANGED <<doorNow, env, cookies>>
      BY <2>1 DEF Door!Send
    <3>. QED
      BY <1>2, <3>3, <3>4
  <2>2. ASSUME NEW s \in Slot, Door!Serve(s) PROVE Door!TypeOK'
    <3>. PICK was \in Door!Call : was = doorCall[s]
      BY <1>2
    <3>1. PICK token \in Door!TokenToSet(was) :
            doorCall' = [doorCall EXCEPT ![s] =
              [Door!NoCall EXCEPT !.method = was.method, !.withCookies = was.withCookies, !.csrf = was.csrf,
                                  !.handled = Door!Handled(was), !.setCookie = token]]
      BY <2>2 DEF Door!Serve
    <3>. PICK handled : handled = Door!Handled(was)
      OBVIOUS
    <3>. PICK is : is = [Door!NoCall EXCEPT !.method = was.method, !.withCookies = was.withCookies,
                                            !.csrf = was.csrf, !.handled = handled, !.setCookie = token]
      OBVIOUS
    <3>2. token \in Token \cup {Door!Null}
      BY DEF Door!TokenToSet
    <3>3. handled \in BOOLEAN
      BY Zenon DEF Door!Handled
    <3>6. was.method \in Door!Method /\ was.withCookies \in BOOLEAN /\ was.csrf \in Token \cup {Door!Null}
      BY DEF Door!Call
    <3>. PICK none \in Door!Call : none = Door!NoCall
      BY NoDoorCallTyped
    <3>7. is = [none EXCEPT !.method = was.method, !.withCookies = was.withCookies, !.csrf = was.csrf,
                            !.handled = handled, !.setCookie = token]
      OBVIOUS
    <3>4. is \in Door!Call
      BY <3>2, <3>3, <3>6, <3>7 DEF Door!Call
    <3>5. doorCall' = [doorCall EXCEPT ![s] = is] /\ doorPc' = [doorPc EXCEPT ![s] = "answered"]
          /\ UNCHANGED <<doorNow, env, cookies>>
      BY <2>2, <3>1 DEF Door!Serve
    <3>. QED
      BY <1>2, <3>4, <3>5
  <2>3. ASSUME NEW s \in Slot, Door!Receive(s) PROVE Door!TypeOK'
    <3>1. doorCall[s].setCookie \in Token \cup {Door!Null}
      BY <1>2 DEF Door!Call
    <3>2. Door!NoCall \in Door!Call
      BY NoDoorCallTyped
    <3>. QED
      BY <1>2, <2>3, <3>1, <3>2 DEF Door!Receive
  <2>4. CASE Door!ForgetToken
    BY <1>2, <2>4 DEF Door!ForgetToken
  <2>5. CASE Door!Tick
    BY <1>2, <2>5, ClockAssumption DEF Door!Tick, Door!Time
  <2>6. CASE UNCHANGED Door!vars
    BY <1>2, <2>6 DEF Door!vars
  <2>. QED
    <3>1. \/ \E s \in Slot, m \in Door!Method, r \in Door!Route, b \in BOOLEAN, c \in Door!Credential \cup {Door!None},
               d \in Door!DevUser \cup {Door!Nobody} : Door!Send(s, m, r, b, c, d)
          \/ \E s \in Slot : Door!Serve(s) \/ Door!Receive(s)
          \/ Door!ForgetToken \/ Door!Tick \/ UNCHANGED Door!vars
      BY <1>2, Zenon DEF Door!Next
    <3>. HIDE DEF Door!TypeOK
    <3>. QED
      BY <2>1, <2>2, <2>3, <2>4, <2>5, <2>6, <3>1, Zenon
<1>. QED
  BY <1>1, <1>2

(* RiskChecks: what TypeOK says of the counters. *)
RiskCountersTyped ==
  /\ riskNow \in Risk!Time
  /\ count \in [Risk!CounterId -> 0 .. MaxCount] /\ expires \in [Risk!CounterId -> Risk!Lifetime]
  /\ passed \in [Risk!CounterId -> Seq(Risk!Time)]

(* What it says of the rows of the users and of where each call is. *)
RiskHistoryTyped ==
  /\ history \in [User -> Seq(Risk!Decided)]
  /\ riskPc \in [Worker -> {"idle", "history", "record"}]

(* The types of RiskChecks are these parts and those of the calls. *)
LEMMA RiskTypeParts == Risk!TypeOK <=> RiskCountersTyped /\ RiskHistoryTyped /\ job \in [Worker -> Scored]
BY Zenon DEF Risk!TypeOK, RiskCountersTyped, RiskHistoryTyped, Scored

(* A counter passes no bound: one more than MaxCount is not counted. *)
LEMMA RiskTypes ==
  /\ Risk!Init => Risk!TypeOK
  /\ RiskInv' /\ Risk!TypeOK /\ [Risk!Next]_(Risk!vars) => Risk!TypeOK'
<1>1. ASSUME Risk!Init PROVE RiskCountersTyped /\ RiskHistoryTyped /\ job \in [Worker -> Scored]
  <2>1. 0 \in Risk!Time /\ 0 \in 0 .. MaxCount /\ Risk!Never \in Risk!Lifetime
    BY ClockAssumption, RiskAssumption DEF Risk!Time, Risk!Lifetime
  <2>2. job \in [Worker -> Scored]
    BY <1>1, NoJobTyped, Zenon DEF Risk!Init
  <2>3. <<>> \in Seq(Risk!Time) /\ <<>> \in Seq(Risk!Decided)
    OBVIOUS
  <2>. QED
    BY <1>1, <2>1, <2>2, <2>3, Zenon DEF Risk!Init, RiskCountersTyped, RiskHistoryTyped
<1>2. ASSUME RiskInv', RiskCountersTyped, RiskHistoryTyped, job \in [Worker -> Scored],
             [Risk!Next]_(Risk!vars)
      PROVE  RiskCountersTyped' /\ RiskHistoryTyped' /\ (job \in [Worker -> Scored])'
  <2>1. (job \in [Worker -> Scored])'
    BY <1>2 DEF RiskInv, RiskTyped, Scored
  <2>2. ASSUME NEW w \in Worker, NEW u \in User, NEW ip \in Ip,
               NEW devices \in {<<>>} \cup {<<d>> : d \in Device}, NEW flags \in GeoRow,
               Risk!Request(w, u, ip, devices, flags)
        PROVE  RiskCountersTyped' /\ RiskHistoryTyped'
    <3>. PICK these : these = Risk!Range(Risk!Moved(u, ip, devices))
      OBVIOUS
    <3>. DEFINE exceeded(c) == count[c] + 1 > RiskThreshold[c[1]]
    <3>1. /\ \A c \in these : count[c] < MaxCount
          /\ count' = [c \in Risk!CounterId |-> count[c] + (IF c \in these THEN 1 ELSE 0)]
          /\ expires' = [c \in Risk!CounterId |->
               IF c \in these /\ expires[c] = Risk!Never THEN riskNow + RiskTtl[c[1]] ELSE expires[c]]
          /\ passed' = [c \in Risk!CounterId |->
               IF c \in these /\ ~exceeded(c) THEN Append(passed[c], riskNow) ELSE passed[c]]
          /\ riskPc' = [riskPc EXCEPT ![w] = "history"]
          /\ UNCHANGED <<riskNow, history>>
      BY <2>2 DEF Risk!Request, Risk!Count
    <3>. HIDE DEF exceeded
    <3>2. \A c \in Risk!CounterId : count[c] + (IF c \in these THEN 1 ELSE 0) \in 0 .. MaxCount
      BY <1>2, <3>1, RiskAssumption DEF RiskCountersTyped
    <3>3. \A c \in Risk!CounterId : riskNow + RiskTtl[c[1]] \in Risk!Lifetime
      <4>1. riskNow \in Risk!Time
        BY <1>2 DEF RiskCountersTyped
      <4>. QED
        BY <4>1 DEF Risk!Lifetime
    <3>4. \A c \in Risk!CounterId : Append(passed[c], riskNow) \in Seq(Risk!Time)
      <4>. SUFFICES ASSUME NEW c \in Risk!CounterId PROVE Append(passed[c], riskNow) \in Seq(Risk!Time)
        OBVIOUS
      <4>. PICK S : S = Risk!Time
        OBVIOUS
      <4>1. passed[c] \in Seq(S) /\ riskNow \in S
        BY <1>2, Zenon DEF RiskCountersTyped
      <4>. QED
        BY <4>1
    <3>5. expires' \in [Risk!CounterId -> Risk!Lifetime]
      BY <1>2, <3>1, <3>3, Zenon DEF RiskCountersTyped
    <3>6. passed' \in [Risk!CounterId -> Seq(Risk!Time)]
      BY <1>2, <3>1, <3>4, Zenon DEF RiskCountersTyped
    <3>7. count' \in [Risk!CounterId -> 0 .. MaxCount]
      BY <3>1, <3>2, Zenon
    <3>8. RiskHistoryTyped'
      BY <1>2, <3>1 DEF RiskHistoryTyped
    <3>. QED
      BY <1>2, <3>1, <3>5, <3>6, <3>7, <3>8, Zenon DEF RiskCountersTyped
  <2>3. ASSUME NEW w \in Worker, Risk!Pass(w) PROVE RiskCountersTyped' /\ RiskHistoryTyped'
    BY <1>2, <2>3 DEF Risk!Pass, Risk!Finish, Risk!counters, RiskCountersTyped, RiskHistoryTyped
  <2>4. ASSUME NEW w \in Worker, Risk!Block(w) PROVE RiskCountersTyped' /\ RiskHistoryTyped'
    BY <1>2, <2>4 DEF Risk!Block, Risk!counters, RiskCountersTyped, RiskHistoryTyped
  <2>5. ASSUME NEW w \in Worker, Risk!RecordBlock(w) PROVE RiskCountersTyped' /\ RiskHistoryTyped'
    <3>. PICK row : row = [decision |-> "BLOCK", at |-> riskNow]
      OBVIOUS
    <3>. PICK u \in User : u = job[w].user
      BY <1>2 DEF Scored
    <3>1. row \in Risk!Decided
      BY <1>2 DEF Risk!Decided, Risk!Decision, RiskCountersTyped
    <3>2. history' = [history EXCEPT ![u] = Append(history[u], row)] /\ riskPc' = [riskPc EXCEPT ![w] = "idle"]
          /\ UNCHANGED <<riskNow, count, expires, passed>>
      BY <2>5 DEF Risk!RecordBlock, Risk!Record, Risk!Finish, Risk!counters
    <3>3. Append(history[u], row) \in Seq(Risk!Decided)
      BY <1>2, <3>1 DEF RiskHistoryTyped
    <3>. QED
      BY <1>2, <3>2, <3>3 DEF RiskCountersTyped, RiskHistoryTyped
  <2>6. ASSUME NEW w \in Worker, Risk!Abort(w) PROVE RiskCountersTyped' /\ RiskHistoryTyped'
    BY <1>2, <2>6 DEF Risk!Abort, Risk!Finish, Risk!counters, RiskCountersTyped, RiskHistoryTyped
  <2>7. ASSUME NEW c \in Risk!CounterId, Risk!DeleteExpired(c) PROVE RiskCountersTyped' /\ RiskHistoryTyped'
    <3>1. 0 \in 0 .. MaxCount /\ Risk!Never \in Risk!Lifetime
      BY RiskAssumption DEF Risk!Lifetime
    <3>. QED
      BY <1>2, <2>7, <3>1, Zenon DEF Risk!DeleteExpired, RiskCountersTyped, RiskHistoryTyped
  <2>8. CASE Risk!Tick
    <3>1. riskNow' \in Risk!Time
      BY <1>2, <2>8, ClockAssumption DEF Risk!Tick, Risk!Time, RiskCountersTyped
    <3>. QED
      BY <1>2, <2>8, <3>1 DEF Risk!Tick, Risk!counters, RiskCountersTyped, RiskHistoryTyped
  <2>9. CASE UNCHANGED Risk!vars
    BY <1>2, <2>9 DEF Risk!vars, Risk!counters, RiskCountersTyped, RiskHistoryTyped
  <2>. QED
    BY <1>2, <2>1, <2>2, <2>3, <2>4, <2>5, <2>6, <2>7, <2>8, <2>9 DEF Risk!Next
<1>3. Risk!TypeOK' <=> RiskCountersTyped' /\ RiskHistoryTyped' /\ (job \in [Worker -> Scored])'
  BY Zenon DEF Risk!TypeOK, RiskCountersTyped, RiskHistoryTyped, Scored
<1>. QED
  BY <1>1, <1>2, <1>3, RiskTypeParts

----
(* Structuring: no more than the rows there are match. *)
LEMMA StructuringTypes ==
  /\ Structuring!Init => Structuring!TypeOK
  /\ Structuring!TypeOK /\ [Structuring!Next]_(Structuring!vars) => Structuring!TypeOK'
<1>1. ASSUME Structuring!Init PROVE Structuring!TypeOK
  BY <1>1, ClockAssumption, StructuringAssumption DEF Structuring!Init, Structuring!TypeOK, Structuring!Time
<1>2. ASSUME Structuring!TypeOK, [Structuring!Next]_(Structuring!vars) PROVE Structuring!TypeOK'
  <2>0. structNow \in Structuring!Time /\ approved \in Seq(Structuring!Payment) /\ Len(approved) <= MaxPayments
    BY <1>2 DEF Structuring!TypeOK
  <2>1. ASSUME NEW p \in Party, NEW b \in BOOLEAN, Structuring!Approve(p, b) PROVE Structuring!TypeOK'
    <3>. PICK row : row = [parties |-> p, boundary |-> b, at |-> structNow, indexed |-> Structuring!Never]
      OBVIOUS
    <3>1. row \in Structuring!Payment
      BY <2>0 DEF Structuring!Payment
    <3>2. Len(approved) < MaxPayments /\ approved' = Append(approved, row) /\ UNCHANGED <<structNow, marked>>
      BY <2>1 DEF Structuring!Approve
    <3>3. approved' \in Seq(Structuring!Payment) /\ Len(approved') <= MaxPayments
      BY <2>0, <3>1, <3>2, StructuringAssumption
    <3>. QED
      BY <1>2, <3>2, <3>3 DEF Structuring!TypeOK
  <2>2. ASSUME NEW i \in 1 .. MaxPayments, Structuring!Update(i) \/ Structuring!Propagate(i)
        PROVE  Structuring!TypeOK'
    <3>1. i \in DOMAIN approved /\ UNCHANGED <<structNow, marked>>
      BY <2>2 DEF Structuring!Update, Structuring!Propagate
    <3>. PICK was \in Structuring!Payment : was = approved[i]
      BY <2>0, <3>1
    <3>2. PICK row \in Structuring!Payment : approved' = [approved EXCEPT ![i] = row]
      <4>1. CASE Structuring!Update(i)
        <5>. PICK row : row = [was EXCEPT !.at = structNow]
          OBVIOUS
        <5>1. row \in Structuring!Payment /\ approved' = [approved EXCEPT ![i] = row]
          BY <2>0, <4>1 DEF Structuring!Payment, Structuring!Update
        <5>. QED
          BY <5>1
      <4>2. CASE Structuring!Propagate(i)
        <5>. PICK row : row = [was EXCEPT !.indexed = was.at]
          OBVIOUS
        <5>1. row \in Structuring!Payment /\ approved' = [approved EXCEPT ![i] = row]
          BY <2>0, <4>2 DEF Structuring!Payment, Structuring!Propagate
        <5>. QED
          BY <5>1
      <4>. QED
        BY <2>2, <4>1, <4>2
    <3>3. approved' \in Seq(Structuring!Payment) /\ Len(approved') = Len(approved)
      <4>. PICK S : S = Structuring!Payment
        OBVIOUS
      <4>. QED
        BY <2>0, <3>1, <3>2
    <3>. QED
      BY <1>2, <2>0, <3>1, <3>3 DEF Structuring!TypeOK
  <2>3. ASSUME NEW p \in Party, Structuring!Intent(p) PROVE Structuring!TypeOK'
    <3>1. PICK rows \in Structuring!Query :
            /\ marked' = IF Structuring!DetectStructuring(rows, p)
                         THEN {Structuring!Cardinality(Structuring!Like(p))} ELSE {}
            /\ UNCHANGED <<structNow, approved>>
      BY <2>3 DEF Structuring!Intent
    <3>2. Len(approved) \in 0 .. MaxPayments /\ DOMAIN approved = 1 .. Len(approved)
      BY <2>0, StructuringAssumption
    <3>3. Structuring!Like(p) \in SUBSET (DOMAIN approved)
      BY DEF Structuring!Like
    <3>4. Structuring!Cardinality(Structuring!Like(p)) \in 0 .. MaxPayments
      BY <3>2, <3>3, FewOf, StructuringAssumption, StructuringCounts
    <3>. PICK n \in 0 .. MaxPayments : n = Structuring!Cardinality(Structuring!Like(p))
      BY <3>4
    <3>5. marked' \subseteq 0 .. MaxPayments
      BY <3>1
    <3>. QED
      BY <1>2, <3>1, <3>5 DEF Structuring!TypeOK
  <2>4. CASE Structuring!Tick
    BY <1>2, <2>4, ClockAssumption DEF Structuring!Tick, Structuring!TypeOK, Structuring!Time
  <2>5. CASE UNCHANGED Structuring!vars
    BY <1>2, <2>5 DEF Structuring!vars, Structuring!TypeOK
  <2>. QED
    BY <1>2, <2>1, <2>2, <2>3, <2>4, <2>5 DEF Structuring!Next
<1>. QED
  BY <1>1, <1>2

(* IpReputation: when something was last seen. *)
TimeOrNever == IpReputation!Time \cup {IpReputation!Never}

(* Before any lookup there is a result, a call and an answer of their
   types. *)
LEMMA NoLookupTyped ==
  /\ IpReputation!NoResult \in IpReputation!Result
  /\ IpReputation!NoCall \in IpReputation!Call /\ IpReputation!NoAnswer \in IpReputation!Answer
<1>1. (CHOOSE i \in Ip : TRUE) \in Ip
  BY IpReputationAssumption
<1>2. IpReputation!NoResult \in IpReputation!Result
  BY DEF IpReputation!Result
<1>3. IpReputation!NoCall \in IpReputation!Call
  BY <1>1, <1>2, Zenon DEF IpReputation!NoCall, IpReputation!Call
<1>. QED
  BY <1>1, <1>2, <1>3 DEF IpReputation!NoAnswer, IpReputation!Answer

(* Every result says whether the address is an exit of Tor. *)
LEMMA ResultTellsTor == ASSUME NEW r \in IpReputation!Result PROVE r.tor \in BOOLEAN
<1>1. CASE r \in [tor : BOOLEAN, type : IpReputation!Type, located : BOOLEAN]
  BY <1>1
<1>2. CASE r = IpReputation!NoResult
  BY <1>2 DEF IpReputation!NoResult
<1>. QED
  BY <1>1, <1>2, Zenon DEF IpReputation!Result

(* A lookup under way has asked the engine. *)
EngineAsked == \A w \in Worker : ipPc[w] = "fetching" => ipCall[w].result.type \in IpReputation!Type

(* What TypeOK says of the cache and of the calls. *)
IpRowsTyped ==
  /\ ipCache \in [Ip -> IpReputation!Result] /\ ipExpires \in [Ip -> 0 .. (LongTime + IpTtl)]
  /\ ipPc \in [Worker -> {"idle", "fetching", "writing"}] /\ ipCall \in [Worker -> IpReputation!Call]
  /\ ipAnswer \in IpReputation!Answer

(* What it says of the clock, the list and what was seen of it. *)
IpSourcesTyped ==
  /\ ipNow \in IpReputation!Time /\ torList \subseteq Ip /\ loaded \in BOOLEAN
  /\ seen \in IpReputation!Seen

(* The types of IpReputation are these parts. *)
LEMMA IpTypeParts == IpReputation!TypeOK <=> IpRowsTyped /\ IpSourcesTyped
BY Zenon DEF IpReputation!TypeOK, IpRowsTyped, IpSourcesTyped

(* What is seen at a time is dated with that time, or keeps its date. *)
LEMMA SightsTyped ==
  ASSUME IpSourcesTyped, IpReputation!Witness, ipNow' \in IpReputation!Time,
         torList' \subseteq Ip, loaded' \in BOOLEAN
  PROVE  IpSourcesTyped'
<1>. PICK was \in IpReputation!Seen : was = seen
  BY DEF IpSourcesTyped
<1>1. /\ was.listed \in [Ip -> TimeOrNever] /\ was.unlisted \in [Ip -> TimeOrNever]
      /\ was.up \in TimeOrNever /\ was.down \in TimeOrNever
  BY DEF IpReputation!Seen, TimeOrNever
<1>. PICK listed, unlisted, up, down :
       /\ listed = [i \in Ip |-> IF i \in torList' THEN ipNow' ELSE was.listed[i]]
       /\ unlisted = [i \in Ip |-> IF i \in torList' THEN was.unlisted[i] ELSE ipNow']
       /\ up = IF loaded' THEN ipNow' ELSE was.up
       /\ down = IF loaded' THEN was.down ELSE ipNow'
  OBVIOUS
<1>2. ipNow' \in TimeOrNever
  BY DEF TimeOrNever
<1>3. /\ listed \in [Ip -> TimeOrNever] /\ unlisted \in [Ip -> TimeOrNever]
      /\ up \in TimeOrNever /\ down \in TimeOrNever
  BY <1>1, <1>2
<1>4. seen' = [listed |-> listed, unlisted |-> unlisted, up |-> up, down |-> down]
  BY DEF IpReputation!Witness
<1>5. seen' \in IpReputation!Seen
  BY <1>3, <1>4 DEF IpReputation!Seen, TimeOrNever
<1>. QED
  BY <1>5 DEF IpSourcesTyped

(* The types of IpReputation, with the engine asked, are inductive. *)
LEMMA IpTypes ==
  /\ IpReputation!Init => IpReputation!TypeOK /\ EngineAsked
  /\ IpReputation!TypeOK /\ EngineAsked /\ [IpReputation!Next]_(IpReputation!vars)
       => IpReputation!TypeOK' /\ EngineAsked'
<1>0. 0 \in IpReputation!Time /\ 0 \in TimeOrNever /\ IpReputation!Never \in TimeOrNever
      /\ 0 \in 0 .. (LongTime + IpTtl)
  BY ClockAssumption, IpReputationAssumption DEF IpReputation!Time, TimeOrNever
<1>1. ASSUME IpReputation!Init PROVE IpRowsTyped /\ IpSourcesTyped /\ EngineAsked
  <2>1. seen \in IpReputation!Seen
    BY <1>0, <1>1 DEF IpReputation!Init, IpReputation!Seen, TimeOrNever
  <2>2. EngineAsked
    BY <1>1 DEF IpReputation!Init, EngineAsked
  <2>. QED
    BY <1>0, <1>1, <2>1, <2>2, NoLookupTyped, Zenon DEF IpReputation!Init, IpRowsTyped, IpSourcesTyped
<1>2. ASSUME IpRowsTyped, IpSourcesTyped, EngineAsked, [IpReputation!Next]_(IpReputation!vars)
      PROVE  IpRowsTyped' /\ IpSourcesTyped' /\ EngineAsked'
  <2>1. CASE IpReputation!Tick
    <3>1. ipNow' \in IpReputation!Time
      BY <1>2, <2>1, ClockAssumption DEF IpReputation!Tick, IpReputation!Time, IpSourcesTyped
    <3>2. IpReputation!Witness /\ UNCHANGED <<torList, loaded, ipCache, ipExpires, ipPc, ipCall, ipAnswer>>
      BY <2>1 DEF IpReputation!Tick
    <3>. QED
      BY <1>2, <3>1, <3>2, SightsTyped DEF IpRowsTyped, IpSourcesTyped, EngineAsked
  <2>2. CASE IpReputation!LoadEngine \/ IpReputation!UnloadEngine
    <3>1. IpReputation!Witness /\ loaded' \in BOOLEAN
          /\ UNCHANGED <<ipNow, torList, ipCache, ipExpires, ipPc, ipCall, ipAnswer>>
      BY <2>2 DEF IpReputation!LoadEngine, IpReputation!UnloadEngine
    <3>. QED
      BY <1>2, <3>1, SightsTyped DEF IpRowsTyped, IpSourcesTyped, EngineAsked
  <2>3. CASE IpReputation!Restart
    <3>1. IpReputation!Witness /\ loaded' \in BOOLEAN /\ torList' = {}
          /\ UNCHANGED <<ipNow, ipCache, ipExpires, ipAnswer>>
          /\ ipPc' = [w \in Worker |-> "idle"] /\ ipCall' = [w \in Worker |-> IpReputation!NoCall]
      BY <2>3 DEF IpReputation!Restart
    <3>2. IpRowsTyped'
      BY <1>2, <3>1, NoLookupTyped DEF IpRowsTyped, EngineAsked
    <3>. QED
      BY <1>2, <3>1, <3>2, SightsTyped DEF IpSourcesTyped, EngineAsked
  <2>4. ASSUME NEW lines, IpReputation!RefreshTor(lines) PROVE IpRowsTyped' /\ IpSourcesTyped' /\ EngineAsked'
    <3>1. IpReputation!Witness /\ torList' \subseteq Ip
          /\ UNCHANGED <<ipNow, loaded, ipCache, ipExpires, ipPc, ipCall, ipAnswer>>
      BY <2>4 DEF IpReputation!RefreshTor, IpReputation!LoadFromText
    <3>. QED
      BY <1>2, <3>1, SightsTyped DEF IpRowsTyped, IpSourcesTyped, EngineAsked
  <2>5. UNCHANGED <<ipNow, torList, loaded, seen>> => IpSourcesTyped'
    BY <1>2 DEF IpSourcesTyped
  <2>6. ipNow + IpTtl \in 0 .. (LongTime + IpTtl) /\ ipNow \in TimeOrNever
    BY <1>2, ClockAssumption, IpReputationAssumption DEF IpSourcesTyped, IpReputation!Time, TimeOrNever
  <2>7. ASSUME NEW i \in Ip, IpReputation!Expire(i) PROVE IpRowsTyped' /\ IpSourcesTyped' /\ EngineAsked'
    BY <1>0, <1>2, <2>5, <2>7, NoLookupTyped, Zenon DEF IpReputation!Expire, IpRowsTyped, EngineAsked
  <2>8. ASSUME NEW w \in Worker, NEW i \in Ip, IpReputation!Lookup(w, i)
        PROVE  IpRowsTyped' /\ IpSourcesTyped' /\ EngineAsked'
    <3>. PICK found : found = [tor |-> FALSE, type |-> IpReputation!EngineType(i), located |-> FALSE]
      OBVIOUS
    <3>. PICK mine : mine = [ip |-> i, since |-> ipNow, result |-> found]
      OBVIOUS
    <3>. PICK told : told = [ip |-> i, tor |-> ipCache[i].tor, at |-> ipNow]
      OBVIOUS
    <3>1. IpReputation!EngineType(i) \in IpReputation!Type /\ found.type \in IpReputation!Type
      BY IpReputationAssumption DEF IpReputation!EngineType, IpReputation!Type
    <3>2. found \in IpReputation!Result
      BY <3>1 DEF IpReputation!Result
    <3>3. mine \in IpReputation!Call
      BY <2>6, <3>2 DEF IpReputation!Call, TimeOrNever
    <3>4. told \in IpReputation!Answer
      <4>. PICK row \in IpReputation!Result : row = ipCache[i]
        BY <1>2 DEF IpRowsTyped, EngineAsked
      <4>1. row.tor \in BOOLEAN
        BY ResultTellsTor
      <4>. QED
        BY <2>6, <4>1 DEF IpReputation!Answer, TimeOrNever
    <3>5. /\ \/ ipAnswer' = told /\ ipExpires' = ipExpires /\ UNCHANGED <<ipPc, ipCall>>
             \/ /\ ipPc' = [ipPc EXCEPT ![w] = "fetching"] /\ ipCall' = [ipCall EXCEPT ![w] = mine]
                /\ UNCHANGED <<ipAnswer, ipExpires>>
          /\ UNCHANGED <<ipNow, torList, loaded, ipCache, seen>>
      BY <2>8, Zenon DEF IpReputation!Lookup, IpReputation!ExpiryAfterHit
    <3>6. mine.result.type \in IpReputation!Type
      BY <3>1
    <3>. QED
      BY <1>2, <2>5, <3>3, <3>4, <3>5, <3>6 DEF IpRowsTyped, EngineAsked
  <2>9. ASSUME NEW w \in Worker, NEW ok \in BOOLEAN, IpReputation!Fetched(w, ok)
        PROVE  IpRowsTyped' /\ IpSourcesTyped' /\ EngineAsked'
    <3>. PICK was \in IpReputation!Call : was = ipCall[w]
      BY <1>2 DEF IpRowsTyped, EngineAsked
    <3>. PICK found : found = [tor |-> IpReputation!IsTor(was.ip, was.result.type),
                              type |-> was.result.type, located |-> ok]
      OBVIOUS
    <3>. PICK mine : mine = [was EXCEPT !.result = found]
      OBVIOUS
    <3>1. was.result.type \in IpReputation!Type
      BY <1>2, <2>9 DEF EngineAsked, IpReputation!Fetched
    <3>2. IpReputation!IsTor(was.ip, was.result.type) \in BOOLEAN
      BY Zenon DEF IpReputation!IsTor
    <3>3. found \in IpReputation!Result
      BY <3>1, <3>2 DEF IpReputation!Result
    <3>4. mine \in IpReputation!Call
      BY <3>3 DEF IpReputation!Call
    <3>5. ipPc' = [ipPc EXCEPT ![w] = "writing"] /\ ipCall' = [ipCall EXCEPT ![w] = mine]
          /\ UNCHANGED <<ipNow, torList, loaded, ipCache, ipExpires, ipAnswer, seen>>
      BY <2>9 DEF IpReputation!Fetched
    <3>. QED
      BY <1>2, <2>5, <3>4, <3>5 DEF IpRowsTyped, EngineAsked
  <2>10. ASSUME NEW w \in Worker, NEW ok \in BOOLEAN, IpReputation!Written(w, ok)
         PROVE  IpRowsTyped' /\ IpSourcesTyped' /\ EngineAsked'
    <3>. PICK was \in IpReputation!Call : was = ipCall[w]
      BY <1>2 DEF IpRowsTyped, EngineAsked
    <3>. PICK told : told = [ip |-> was.ip, tor |-> was.result.tor, at |-> ipNow]
      OBVIOUS
    <3>1. was.ip \in Ip /\ was.result \in IpReputation!Result
      BY DEF IpReputation!Call
    <3>2. was.result.tor \in BOOLEAN
      BY <3>1, ResultTellsTor
    <3>3. told \in IpReputation!Answer
      BY <2>6, <3>1, <3>2 DEF IpReputation!Answer, TimeOrNever
    <3>4. /\ \/ ipCache' = [ipCache EXCEPT ![was.ip] = was.result]
                /\ ipExpires' = [ipExpires EXCEPT ![was.ip] = ipNow + IpTtl]
             \/ UNCHANGED <<ipCache, ipExpires>>
          /\ ipAnswer' = told /\ ipPc' = [ipPc EXCEPT ![w] = "idle"]
          /\ ipCall' = [ipCall EXCEPT ![w] = IpReputation!NoCall]
          /\ UNCHANGED <<ipNow, torList, loaded, seen>>
      BY <2>10 DEF IpReputation!Written
    <3>. QED
      BY <1>2, <2>5, <2>6, <3>1, <3>3, <3>4, NoLookupTyped DEF IpRowsTyped, EngineAsked
  <2>11. CASE UNCHANGED IpReputation!vars
    BY <1>2, <2>11 DEF IpReputation!vars, IpRowsTyped, IpSourcesTyped, EngineAsked
  <2>. QED
    BY <1>2, <2>1, <2>2, <2>3, <2>4, <2>7, <2>8, <2>9, <2>10, <2>11 DEF IpReputation!Next
<1>3. IpReputation!TypeOK' <=> IpRowsTyped' /\ IpSourcesTyped'
  BY Zenon DEF IpReputation!TypeOK, IpRowsTyped, IpSourcesTyped
<1>. QED
  BY <1>1, <1>2, <1>3, IpTypeParts

(* AuthGateway: no limit is above the highest. *)
LEMMA MostIsMost ==
  /\ Gateway!Most \in Nat \ {0} /\ \A r \in Gateway!Role : RATE_LIMITS[r] <= Gateway!Most
  /\ \A k \in Gateway!Key : Gateway!MaxOf(k) <= Gateway!Most
<1>. PICK a, b, c : a = RATE_LIMITS["user"] /\ b = RATE_LIMITS["dpo"] /\ c = RATE_LIMITS["anonymous"]
  OBVIOUS
<1>1. a \in Nat \ {0} /\ b \in Nat \ {0} /\ c \in Nat \ {0}
  BY GatewayAssumption
<1>2. {RATE_LIMITS[r] : r \in Gateway!Role} = {a, b, c}
  BY DEF Gateway!Role
<1>3. \E x \in {a, b, c} : \A y \in {a, b, c} : x >= y
  <2>1. CASE a >= b /\ a >= c
    BY <1>1, <2>1
  <2>2. CASE b >= a /\ b >= c
    BY <1>1, <2>2
  <2>3. CASE c >= a /\ c >= b
    BY <1>1, <2>3
  <2>. QED
    BY <1>1, <2>1, <2>2, <2>3
<1>4. Gateway!Max({a, b, c}) \in {a, b, c} /\ \A y \in {a, b, c} : Gateway!Max({a, b, c}) >= y
  BY <1>3 DEF Gateway!Max
<1>5. Gateway!Most = Gateway!Max({a, b, c})
  BY <1>2 DEF Gateway!Most
<1>6. Gateway!Most \in Nat \ {0} /\ a <= Gateway!Most /\ b <= Gateway!Most /\ c <= Gateway!Most
  BY <1>1, <1>4, <1>5
<1>7. Gateway!Max({a, b}) \in {a, b}
  <2>1. \E x \in {a, b} : \A y \in {a, b} : x >= y
    BY <1>1
  <2>. QED
    BY <2>1 DEF Gateway!Max
<1>8. \A k \in Gateway!Key : Gateway!MaxOf(k) \in {a, b, c}
  BY <1>7 DEF Gateway!MaxOf
<1>. QED
  BY <1>6, <1>8 DEF Gateway!Role

(* A time has no more requests than the window it is in. *)
LEMMA OneTimeOfMany ==
  ASSUME NEW row \in [0 .. LongTime -> Nat], NEW from \in Int, NEW t \in 0 .. LongTime, from <= t
  PROVE  row[t] <= SumOf(row, Since(from))
<1>1. Since(from) \subseteq 0 .. LongTime /\ IsFiniteSet(Since(from))
  BY TimesAreFinite, FS_Subset DEF Since
<1>2. {t} \in SUBSET Since(from)
  BY DEF Since
<1>3. \A x \in Since(from) : row[x] \in Nat
  BY <1>1
<1>4. SumOf(row, {t}) <= SumOf(row, Since(from))
  BY <1>1, <1>2, <1>3, SumOfSubset
<1>5. SumOf(row, {t}) = row[t]
  <2>1. IsFiniteSet({})
    BY FS_EmptySet
  <2>2. {} \cup {t} = {t} /\ t \notin {} /\ row[t] \in Int
    OBVIOUS
  <2>3. SumOf(row, {} \cup {t}) = SumOf(row, {}) + row[t]
    BY <2>1, <2>2, SumOfOneMore
  <2>4. SumOf(row, {}) = 0
    BY SumOfNothing
  <2>. QED
    BY <2>2, <2>3, <2>4
<1>. QED
  BY <1>4, <1>5

(* A counter and the requests let through stay within the highest limit. *)
LEMMA GatewayTypes ==
  /\ Gateway!Init => Gateway!TypeOK
  /\ GatewayInv /\ GatewayInv' /\ Gateway!TypeOK /\ [Gateway!Next]_(Gateway!vars) => Gateway!TypeOK'
<1>. USE DEF Gateway!TypeOK
<1>1. ASSUME Gateway!Init PROVE Gateway!TypeOK
  <2>1. 0 \in Gateway!Time /\ 0 \in 0 .. Gateway!Most /\ 0 \in 0 .. LongTime + RateWindow
    BY ClockAssumption, GatewayAssumption, MostIsMost DEF Gateway!Time
  <2>. QED
    BY <1>1, <2>1 DEF Gateway!Init
<1>2. ASSUME GatewayInv, GatewayInv', Gateway!TypeOK, [Gateway!Next]_(Gateway!vars) PROVE Gateway!TypeOK'
  <2>1. ASSUME NEW k \in Gateway!Key, NEW max \in 1 .. Gateway!Most, Gateway!Check(k, max),
               UNCHANGED <<gateNow, groups>>
        PROVE  Gateway!TypeOK'
    <3>1. CASE Gateway!Fresh(k) \/ ~Gateway!Full(k, max)
      <4>. PICK more : more = IF Gateway!Fresh(k) THEN 1 ELSE gateCount[k] + 1
        OBVIOUS
      <4>1. /\ gateCount' = [gateCount EXCEPT ![k] = more]
            /\ resetAt' = [resetAt EXCEPT ![k] = Gateway!EndOfWindow(k)]
            /\ allowed' = [allowed EXCEPT ![k][gateNow] = @ + 1]
            /\ gateRefused' = {}
        <5>1. gateCount' = [gateCount EXCEPT ![k] = IF Gateway!Fresh(k) THEN 1 ELSE gateCount[k] + 1]
          BY <2>1, <3>1 DEF Gateway!Check
        <5>2. resetAt' = [resetAt EXCEPT ![k] = Gateway!EndOfWindow(k)] /\ gateRefused' = {}
          BY <2>1, <3>1 DEF Gateway!Check
        <5>3. allowed' = [allowed EXCEPT ![k][gateNow] = @ + 1]
          BY <2>1, <3>1 DEF Gateway!Check
        <5>. QED
          BY <5>1, <5>2, <5>3, Zenon
      <4>2. gateCount'[k] = more /\ more \in Nat \ {0}
        BY <1>2, <4>1 DEF GatewayInv, GatewayTyped
      <4>3. gateCount'[k] <= Gateway!Most /\ allowed'[k][gateNow'] \in 0 .. Gateway!Most
        <5>1. gateCount'[k] # 0
          BY <4>2
        <5>2. /\ gateNow' \in 0 .. LongTime /\ gateCount' \in [Gateway!Key -> Nat]
              /\ allowed' \in [Gateway!Key -> [0 .. LongTime -> Nat]] /\ resetAt' \in [Gateway!Key -> Nat]
          BY <1>2 DEF GatewayInv, GatewayTyped
        <5>. PICK from : from = Start(k)'
          OBVIOUS
        <5>3. WindowCounts(k)'
          BY <1>2 DEF GatewayInv
        <5>4. /\ from <= gateNow' /\ SumOf(allowed'[k], Since(from)) = gateCount'[k]
              /\ gateCount'[k] <= Gateway!MaxOf(k)
          BY <5>1, <5>3 DEF WindowCounts, Since, Start, Gateway!MaxOf
        <5>5. from \in Int
          BY <5>2, GatewayAssumption DEF Start
        <5>6. allowed'[k][gateNow'] <= gateCount'[k] /\ gateCount'[k] <= Gateway!Most
          <6>1. allowed'[k] \in [0 .. LongTime -> Nat]
            BY <5>2
          <6>2. allowed'[k][gateNow'] <= SumOf(allowed'[k], Since(from))
            BY <5>2, <5>4, <5>5, <6>1, OneTimeOfMany
          <6>3. gateCount'[k] \in Nat /\ Gateway!MaxOf(k) \in Nat
            BY <5>2, LimitsOfKeys
          <6>. QED
            BY <5>4, <6>2, <6>3, MostIsMost
        <5>7. gateCount'[k] \in Nat /\ allowed'[k][gateNow'] \in Nat
          BY <5>2
        <5>. QED
          BY <5>6, <5>7, MostIsMost
      <4>4. gateCount' \in [Gateway!Key -> 0 .. Gateway!Most]
        BY <1>2, <4>1, <4>2, <4>3, MostIsMost
      <4>5. Gateway!EndOfWindow(k) \in 0 .. LongTime + RateWindow
        BY <1>2, ClockAssumption, GatewayAssumption DEF Gateway!EndOfWindow, Gateway!Time
      <4>6. allowed' \in [Gateway!Key -> [Gateway!Time -> 0 .. Gateway!Most]]
        <5>1. allowed[k] \in [Gateway!Time -> 0 .. Gateway!Most] /\ gateNow \in Gateway!Time /\ gateNow' = gateNow
          BY <1>2, <2>1
        <5>. PICK row : row = [allowed[k] EXCEPT ![gateNow] = @ + 1]
          OBVIOUS
        <5>2. allowed' = [allowed EXCEPT ![k] = row]
          BY <4>1
        <5>3. allowed'[k] = row /\ row[gateNow] \in 0 .. Gateway!Most
          BY <1>2, <4>3, <5>1, <5>2
        <5>4. row \in [Gateway!Time -> 0 .. Gateway!Most]
          BY <5>1, <5>3
        <5>. QED
          BY <1>2, <5>2, <5>4
      <4>7. resetAt' \in [Gateway!Key -> 0 .. LongTime + RateWindow]
        BY <1>2, <4>1, <4>5, Zenon
      <4>8. gateNow' \in Gateway!Time /\ groups' \in [User -> {"user", "dpo"}]
        BY <1>2, <2>1, Zenon
      <4>9. gateRefused' \in SUBSET [key : Gateway!Key, max : 1 .. Gateway!Most]
        BY <4>1
      <4>. QED
        BY <4>4, <4>6, <4>7, <4>8, <4>9
    <3>2. CASE ~(Gateway!Fresh(k) \/ ~Gateway!Full(k, max))
      BY <1>2, <2>1, <3>2 DEF Gateway!Check
    <3>. QED
      BY <3>1, <3>2
  <2>2. ASSUME NEW u \in User, Gateway!Known(u) PROVE Gateway!TypeOK'
    <3>1. RATE_LIMITS[groups[u]] \in 1 .. Gateway!Most /\ u \in Gateway!Key
      BY <1>2, GatewayAssumption, MostIsMost DEF Gateway!Role, Gateway!Key
    <3>. QED
      BY <2>1, <2>2, <3>1 DEF Gateway!Known
  <2>3. ASSUME NEW ip \in Ip, Gateway!Anonymous(ip) PROVE Gateway!TypeOK'
    <3>1. RATE_LIMITS["anonymous"] \in 1 .. Gateway!Most /\ ip \in Gateway!Key
      BY GatewayAssumption, MostIsMost DEF Gateway!Role, Gateway!Key
    <3>. QED
      BY <2>1, <2>3, <3>1 DEF Gateway!Anonymous
  <2>4. ASSUME NEW u \in User, Gateway!ChangeRole(u) PROVE Gateway!TypeOK'
    BY <1>2, <2>4 DEF Gateway!ChangeRole
  <2>5. CASE Gateway!BadToken
    BY <1>2, <2>5 DEF Gateway!BadToken
  <2>6. CASE Gateway!Tick
    <3>1. gateNow' \in Gateway!Time
      BY <1>2, <2>6, ClockAssumption DEF Gateway!Tick, Gateway!Time
    <3>. QED
      BY <1>2, <2>6, <3>1 DEF Gateway!Tick
  <2>7. CASE UNCHANGED Gateway!vars
    BY <1>2, <2>7 DEF Gateway!vars
  <2>. QED
    BY <1>2, <2>2, <2>3, <2>4, <2>5, <2>6, <2>7 DEF Gateway!Next
<1>. QED
  BY <1>1, <1>2

(* The draft before there is one has the type of a draft. *)
LEMMA NoDraftTyped == Reports!NoDraft \in Reports!Draft
<1>1. 0 \in Reports!Month /\ {} \in SUBSET (1 .. MaxComplaints) /\ 0 \in 0 .. MaxComplaints
  BY ReportsAssumption DEF Reports!Month
<1>2. Reports!HalfOfYear(0) \in Reports!Half
  BY <1>1, Zenon DEF Reports!Half
<1>. QED
  BY <1>1, <1>2 DEF Reports!NoDraft, Reports!Draft

(* Reports: a draft counts no more complaints than there are. *)
LEMMA ReportsTypes ==
  /\ Reports!Init => Reports!TypeOK
  /\ Reports!TypeOK /\ [Reports!Next]_(Reports!vars) => Reports!TypeOK'
<1>1. ASSUME Reports!Init PROVE Reports!TypeOK
  <2>1. 0 \in Reports!Month
    BY ReportsAssumption DEF Reports!Month
  <2>. QED
    BY <1>1, <2>1, NoDraftTyped, ReportsAssumption DEF Reports!Init, Reports!TypeOK
<1>2. ASSUME Reports!TypeOK, [Reports!Next]_(Reports!vars) PROVE Reports!TypeOK'
  <2>0. /\ reportsNow \in Reports!Month /\ complaints \in Seq(Reports!Complaint)
        /\ Len(complaints) <= MaxComplaints /\ step \in {"idle", "upload", "notify"} /\ draft \in Reports!Draft
        /\ \A d \in stored \cup notified : d \in Reports!Draft
    BY <1>2 DEF Reports!TypeOK
  <2>1. ASSUME NEW b \in BOOLEAN, Reports!Complain(b) PROVE Reports!TypeOK'
    <3>. PICK row : row = [at |-> reportsNow, resolved |-> b, breached |-> FALSE]
      OBVIOUS
    <3>1. row \in Reports!Complaint
      BY <2>0 DEF Reports!Complaint
    <3>2. Len(complaints) < MaxComplaints /\ complaints' = Append(complaints, row)
          /\ UNCHANGED <<reportsNow, step, draft, stored, notified>>
      BY <2>1 DEF Reports!Complain
    <3>3. complaints' \in Seq(Reports!Complaint) /\ Len(complaints') <= MaxComplaints
      BY <2>0, <3>1, <3>2, ReportsAssumption
    <3>. QED
      BY <2>0, <3>2, <3>3 DEF Reports!TypeOK
  <2>2. ASSUME NEW i \in 1 .. MaxComplaints, Reports!Breach(i) PROVE Reports!TypeOK'
    <3>1. i \in DOMAIN complaints /\ UNCHANGED <<reportsNow, step, draft, stored, notified>>
      BY <2>2 DEF Reports!Breach
    <3>. PICK was \in Reports!Complaint : was = complaints[i]
      BY <2>0, <3>1
    <3>. PICK row : row = [was EXCEPT !.breached = TRUE]
      OBVIOUS
    <3>2. row \in Reports!Complaint
      BY DEF Reports!Complaint
    <3>3. complaints' = [complaints EXCEPT ![i] = row]
      BY <2>2 DEF Reports!Breach
    <3>4. complaints' \in Seq(Reports!Complaint) /\ Len(complaints') <= MaxComplaints
      BY <2>0, <3>1, <3>2, <3>3
    <3>. QED
      BY <2>0, <3>1, <3>4 DEF Reports!TypeOK
  <2>3. CASE Reports!RunReport
    <3>. PICK half : half = Reports!HalfOfYear(reportsNow)
      OBVIOUS
    <3>. PICK rows : rows = Reports!Rows(half)
      OBVIOUS
    <3>. DEFINE resolved == {i \in rows : complaints[i].resolved}
                open == {i \in rows : ~complaints[i].resolved}
                breached == {i \in rows : complaints[i].breached}
    <3>1. half \in Reports!Half
      BY <2>0, Zenon DEF Reports!Half
    <3>2. Len(complaints) \in Nat /\ DOMAIN complaints = 1 .. Len(complaints)
      BY <2>0
    <3>3. rows \in SUBSET (1 .. Len(complaints))
      BY <3>2, Zenon DEF Reports!Rows
    <3>4. resolved \in SUBSET (1 .. Len(complaints)) /\ open \in SUBSET (1 .. Len(complaints))
          /\ breached \in SUBSET (1 .. Len(complaints))
      BY <3>3
    <3>5. draft' = [half |-> half, at |-> reportsNow, rows |-> rows, known |-> Len(complaints), resolved |-> Cardinality(resolved),
                    unresolved |-> Cardinality(open), breached |-> Cardinality(breached)]
          /\ step' = "upload" /\ UNCHANGED <<reportsNow, complaints, stored, notified>>
      BY <2>3, ReportsCount DEF Reports!RunReport, Reports!Stats
    <3>6. rows \in SUBSET (1 .. MaxComplaints)
      BY <2>0, <3>2, <3>3, ReportsAssumption
    <3>. HIDE DEF resolved, open, breached
    <3>7. /\ Cardinality(resolved) \in 0 .. MaxComplaints /\ Cardinality(open) \in 0 .. MaxComplaints
          /\ Cardinality(breached) \in 0 .. MaxComplaints
      BY <2>0, <3>2, <3>4, ReportsAssumption, FewOf
    <3>8. draft' \in Reports!Draft
      <4>1. Len(complaints) \in 0 .. MaxComplaints
        BY <2>0, <3>2, ReportsAssumption
      <4>. QED
        BY <2>0, <3>1, <3>5, <3>6, <3>7, <4>1 DEF Reports!Draft
    <3>. QED
      BY <2>0, <3>5, <3>8 DEF Reports!TypeOK
  <2>4. CASE Reports!Upload
    BY <2>0, <2>4 DEF Reports!Upload, Reports!TypeOK
  <2>5. CASE Reports!Notify
    BY <2>0, <2>5, NoDraftTyped DEF Reports!Notify, Reports!TypeOK
  <2>6. CASE Reports!RunFails
    BY <2>0, <2>6, NoDraftTyped DEF Reports!RunFails, Reports!TypeOK
  <2>7. CASE Reports!Tick
    <3>1. reportsNow' \in Reports!Month /\ UNCHANGED <<complaints, step, draft, stored, notified>>
      BY <2>0, <2>7, ReportsAssumption DEF Reports!Tick, Reports!Month
    <3>. QED
      BY <2>0, <3>1 DEF Reports!TypeOK
  <2>8. CASE UNCHANGED Reports!vars
    BY <2>0, <2>8 DEF Reports!vars, Reports!TypeOK
  <2>. QED
    BY <1>2, <2>1, <2>2, <2>3, <2>4, <2>5, <2>6, <2>7, <2>8 DEF Reports!Next
<1>. QED
  BY <1>1, <1>2

----
(* Ranking: every distance drawn is one of those its business may have. *)
DistancesDrawn ==
  /\ distances \in Seq(Nat)
  /\ \A i \in DOMAIN distances : distances[i] \in Ranking!Distances(Ranking!Chosen, i)

(* A function on 1 .. n is a sequence of length n. *)
LEMMA FunctionIsSequence ==
  ASSUME NEW n \in Nat, NEW S, NEW f \in [1 .. n -> S]
  PROVE  f \in Seq(S) /\ Len(f) = n
OBVIOUS

(* A ranking lists businesses of the listing, in sequence. *)
LEMMA RankingTypes ==
  /\ Ranking!Init => DistancesDrawn
  /\ DistancesDrawn /\ [Ranking!Next]_Ranking!vars => DistancesDrawn'
  /\ RankingInv /\ DistancesDrawn => Ranking!TypeOK
<1>1. ASSUME Ranking!Init PROVE DistancesDrawn
  <2>1. distances = <<>>
    BY <1>1 DEF Ranking!Init
  <2>. QED
    BY <2>1 DEF DistancesDrawn
<1>2. ASSUME DistancesDrawn, [Ranking!Next]_Ranking!vars PROVE DistancesDrawn'
  <2>1. CASE UNCHANGED <<trace, distances>>
    BY <1>2, <2>1 DEF DistancesDrawn, Ranking!Distances, Ranking!Chosen
  <2>2. ASSUME NEW d \in 0 .. 104, Ranking!Draw(d) PROVE DistancesDrawn'
    <3>1. distances' = Append(distances, d) /\ UNCHANGED trace
          /\ d \in Ranking!Distances(Ranking!Chosen, Len(distances) + 1)
      BY <2>2 DEF Ranking!Draw, Ranking!SideOf
    <3>2. Ranking!Chosen' = Ranking!Chosen
      BY <3>1 DEF Ranking!Chosen
    <3>. PICK chosen : chosen = Ranking!Chosen
      OBVIOUS
    <3>3. distances' \in Seq(Nat) /\ DOMAIN distances' = 1 .. Len(distances) + 1 /\ Len(distances) \in Nat
          /\ \A i \in 1 .. Len(distances) : distances'[i] = distances[i]
          /\ distances'[Len(distances) + 1] = d
      BY <1>2, <3>1 DEF DistancesDrawn
    <3>4. ASSUME NEW i \in DOMAIN distances' PROVE distances'[i] \in Ranking!Distances(chosen, i)
      <4>1. CASE i = Len(distances) + 1
        BY <3>1, <3>3, <4>1
      <4>2. CASE i \in 1 .. Len(distances)
        BY <1>2, <3>3, <4>2 DEF DistancesDrawn
      <4>. QED
        BY <3>3, <4>1, <4>2
    <3>5. \A i \in DOMAIN distances' : Ranking!Distances(Ranking!Chosen, i)' = Ranking!Distances(chosen, i)
      BY <3>2 DEF Ranking!Distances
    <3>. QED
      BY <3>3, <3>4, <3>5 DEF DistancesDrawn
  <2>3. Ranking!Rank \/ UNCHANGED Ranking!vars => UNCHANGED <<trace, distances>>
    BY DEF Ranking!Rank, Ranking!vars
  <2>. QED
    BY <1>2, <2>1, <2>2, <2>3 DEF Ranking!Next
<1>3. ASSUME RankingInv, DistancesDrawn PROVE Ranking!TypeOK
  <2>. PICK chosen : chosen = Ranking!Chosen
    OBVIOUS
  <2>. PICK pool : pool = Ranking!EnRadio(chosen)
    OBVIOUS
  <2>1. Len(chosen.listing) = 5 /\ DOMAIN chosen.listing = 1 .. 5
        /\ IsFiniteSet(pool) /\ TotalsTyped(chosen, pool) /\ pool \subseteq 1 .. 5
    BY <1>3, RankingPool DEF ListingTyped
  <2>2. Ranking!Candidates(chosen) = 1 .. 5
    BY <2>1 DEF Ranking!Candidates
  <2>3. ranking \in Seq(1 .. 5) /\ Len(ranking) <= 3
    <3>1. CASE ranking = <<>>
      BY <3>1
    <3>2. CASE ranking # <<>>
      <4>1. ranking = Ranking!Best(chosen, pool)
        BY <1>3, <3>2 DEF RankingInv
      <4>2. \A p \in DOMAIN ranking : ranking[p] \in 1 .. 5
        BY <2>1, <4>1, BestIs
      <4>6. PICK places : places = Ranking!Min({Ranking!limit, Ranking!Cardinality(pool)})
        OBVIOUS
      <4>7. PICK body : body = [p \in 1 .. places |-> ranking[p]]
        OBVIOUS
      <4>3. DOMAIN ranking = 1 .. places /\ ranking = body
        BY <4>1, <4>6, <4>7 DEF Ranking!Best
      <4>. PICK n \in Nat : n = Cardinality(pool)
        BY <2>1, FS_CardinalityType
      <4>4. places \in Nat /\ places <= 3
        <5>1. Ranking!Cardinality(pool) = n
          BY RankingCards
        <5>2. \E m \in {3, n} : \A y \in {3, n} : m <= y
          OBVIOUS
        <5>3. Ranking!Min({3, n}) \in {3, n} /\ \A y \in {3, n} : Ranking!Min({3, n}) <= y
          BY <5>2 DEF Ranking!Min
        <5>. QED
          BY <4>6, <5>1, <5>3 DEF Ranking!limit
      <4>5. body \in Seq(1 .. 5) /\ Len(body) = places
        <5>1. \A p \in 1 .. places : ranking[p] \in 1 .. 5
          BY <4>2, <4>3
        <5>2. body \in [1 .. places -> 1 .. 5]
          BY <4>7, <5>1
        <5>. QED
          BY <4>4, <5>2, FunctionIsSequence
      <4>. QED
        BY <4>3, <4>4, <4>5
    <3>. QED
      BY <3>1, <3>2
  <2>4. trace \in DOMAIN Ranking!Traces /\ Len(distances) <= 5
    BY <1>3 DEF RankingInv
  <2>5. \A i \in DOMAIN distances : distances[i] \in Ranking!Distances(chosen, i)
    BY <1>3 DEF DistancesDrawn
  <2>. QED
    BY <2>1, <2>2, <2>3, <2>4, <2>5, Zenon DEF Ranking!TypeOK, Ranking!limit
<1>. QED
  BY <1>1, <1>2, <1>3

(* Every component keeps its types, for every value of the constants: the
   counters of the risk checks, the limiter and the ledger stay within their
   bounds, and no call of any component is left with a request, a draft or a
   key that is none. *)
THEOREM ComponentTypesAreKept ==
  /\ Spec
  /\ Ref!Spec /\ Tiers!Spec /\ Streaks!Spec /\ Cancellation!Spec /\ Ledger!Spec
  /\ Risk!Spec /\ Structuring!Spec /\ NitCache!Spec /\ IpReputation!Spec
  /\ Calendar!Spec /\ Reports!Spec /\ Door!Spec /\ Gateway!Spec /\ Rotation!Spec /\ Ranking!Spec
  => []TypesOK
<1>1. Spec => []TypeOK
  <2>1. IInv => TypeOK
    BY DEF IInv
  <2>. QED
    BY <2>1, InitIInv, NextIInv, PTL DEF Spec
<1>2. Ref!Spec => []Ref!TypeOK
  <2>1. RefInv => Ref!TypeOK
    BY DEF RefInv
  <2>. QED
    BY <2>1, RefInduction, PTL DEF Ref!Spec
<1>3. Tiers!Spec => []Tiers!TypeOK
  <2>1. PromoteInv => Tiers!TypeOK
    BY DEF PromoteInv
  <2>. QED
    BY <2>1, PromoteInduction, PTL DEF Tiers!Spec
<1>4. Streaks!Spec => []Streaks!TypeOK
  <2>1. StreaksInv => Streaks!TypeOK
    BY StreaksAssumption DEF StreaksInv, StreaksTyped, Streaks!TypeOK, Streaks!Day
  <2>. QED
    BY <2>1, StreaksStart, StreaksInduction, PTL DEF Streaks!Spec
<1>5. Cancellation!Spec => []Cancellation!TypeOK
  <2>1. CancelInv => Cancellation!TypeOK
    BY DEF CancelInv
  <2>. QED
    BY <2>1, CancelInduction, PTL DEF Cancellation!Spec
<1>6. Ledger!Spec => []Ledger!TypeOK
  <2>1. LedgerInv => LedgerTyped
    BY DEF LedgerInv
  <2>. QED
    BY <2>1, LedgerInduction, RoomInduction, LedgerIsTyped, PTL DEF Ledger!Spec
<1>7. Risk!Spec => []Risk!TypeOK
  BY RiskStarts, RiskSteps, RiskTypes, PTL DEF Risk!Spec
<1>8. Structuring!Spec => []Structuring!TypeOK
  BY StructuringTypes, PTL DEF Structuring!Spec
<1>9. NitCache!Spec => []NitCache!TypeOK
  BY NitTypes, PTL DEF NitCache!Spec
<1>10. IpReputation!Spec => []IpReputation!TypeOK
  BY IpTypes, PTL DEF IpReputation!Spec
<1>11. Calendar!Spec => []Calendar!TypeOK
  BY CalendarStarts, CalendarSteps, CalendarTypes, PTL DEF Calendar!Spec
<1>12. Reports!Spec => []Reports!TypeOK
  BY ReportsTypes, PTL DEF Reports!Spec
<1>13. Door!Spec => []Door!TypeOK
  BY DoorTypes, PTL DEF Door!Spec
<1>14. Gateway!Spec => []Gateway!TypeOK
  BY GatewayStarts, GatewaySteps, GatewayTypes, PTL DEF Gateway!Spec
<1>15. Rotation!Spec => []Rotation!TypeOK
  BY RotationStarts, RotationSteps, RotationTypes, PTL DEF Rotation!Spec
<1>16. Ranking!Spec => []Ranking!TypeOK
  <2>1. Ranking!Init => RankingInv
    BY DEF Ranking!Init, RankingInv
  <2>. QED
    BY <2>1, RankingInvKept, RankingTypes, PTL DEF Ranking!Spec
<1>17. /\ TypeOK /\ Ref!TypeOK /\ Tiers!TypeOK /\ Streaks!TypeOK
       /\ Risk!TypeOK /\ Structuring!TypeOK /\ Cancellation!TypeOK
       /\ NitCache!TypeOK /\ Calendar!TypeOK /\ Reports!TypeOK
       /\ Door!TypeOK /\ Gateway!TypeOK /\ Ledger!TypeOK /\ Rotation!TypeOK
       /\ IpReputation!TypeOK /\ Ranking!TypeOK
       => TypesOK
  BY Zenon DEF TypesOK
<1>. QED
  BY <1>1, <1>2, <1>3, <1>4, <1>5, <1>6, <1>7, <1>8, <1>9, <1>10, <1>11, <1>12, <1>13,
     <1>14, <1>15, <1>16, <1>17, PTL
====
