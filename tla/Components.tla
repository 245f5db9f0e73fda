---- MODULE Components ----
(***************************************************************************)
(* The components that share nothing but a database, and what each of them *)
(* promises; the escrow machine, which is one of them, is extended for its *)
(* types.  MCComponents moves them one at a time; what is proved of them,  *)
(* each under its own specification, is in AccountsProofs, TrustProofs     *)
(* and EscrowMachineProofs.                                                *)
(***************************************************************************)
EXTENDS EscrowMachine, Integers, FiniteSets

CONSTANTS
  Worker,                        \* calls in execution at the same time
  User, Member,                  \* users: of most components, and of those that need two
  Ip,
  ShortTime, LongTime,           \* bounds: of the clocks
  Code, MonthlyCap, LastMonth, MaxReferrals, MaxGrants,       \* Referrals
  Short, Long, GapHours, Hours, StreakDays,                   \* Streaks
  Device, GeoRow, RiskWindow, RiskTtl, RiskThreshold, HistoryTtl, MaxCount,
  Party, StructuringDay, StructuringThreshold, StructuringLimit, MaxPayments,
  Tx,                                                         \* Cancellation
  Nit, NitTtl, NitDelay,                                      \* NitCache
  Starts, Terms,                                              \* Calendar
  ReportLimit, MaxMonth, MaxComplaints,                       \* Reports
  Slot, Token, Dpo, Expiry,                                   \* Door
  RATE_LIMITS, RateWindow,                                    \* AuthGateway
  Amount, CreditKey, MaxUpdates, MaxBalance,                  \* Ledger
  Operator, Instance, MaxKey,                                 \* KeyRotation
  Px2, IpTtl, Lag, Span                                       \* IpReputation

(* What the proofs use of them. *)
ASSUME WorkerAssumption == IsFiniteSet(Worker)

ASSUME LedgerAssumption ==
  /\ Amount # {} /\ Amount \subseteq Nat \ {0}
  /\ MaxUpdates \in Nat /\ MaxBalance \in Nat

ASSUME CancellationAssumption == Tx # {} /\ Member # {} /\ "nobody" \notin Member

ASSUME UserAssumption == User # {}

ASSUME ReferralsAssumption ==
  /\ Code # {} /\ \E u, v \in Member : u # v
  /\ LastMonth \in Nat /\ MonthlyCap \in Nat /\ MaxReferrals \in Nat /\ MaxGrants \in Nat

ASSUME StreaksAssumption ==
  /\ Short \in Nat \ {0} /\ Long \in Nat \ {0}
  /\ GapHours \in 24 .. 47 /\ Hours \subseteq 0 .. 23 /\ StreakDays \in Nat

ASSUME KeyRotationAssumption == MaxKey \in Nat \ {0}

ASSUME ClockAssumption == ShortTime \in Nat /\ LongTime \in Nat

ASSUME DoorAssumption == Expiry \subseteq Nat

ASSUME GatewayAssumption ==
  /\ RATE_LIMITS \in [{"user", "dpo", "anonymous"} -> Nat \ {0}] /\ RateWindow \in Nat
  /\ User \cap Ip = {}

ASSUME NitCacheAssumption == Nit # {} /\ NitTtl \in Nat /\ NitDelay \in Nat

(* Terms of whole weeks, as those of ten and fifteen business days are. *)
ASSUME CalendarAssumption ==
  Starts \subseteq 1 .. 365 /\ \A t \in Terms : t \in Nat \ {0} /\ t % 5 = 0

ASSUME IpReputationAssumption ==
  /\ Ip # {} /\ Px2 \in [Ip -> {"-", "VPN", "TOR", "DCH"}]
  /\ IpTtl \in Nat /\ Lag \in Nat /\ Span \in Nat

ASSUME RiskAssumption ==
  /\ RiskWindow \in [{"IP_CARD", "DEVICE_CARD", "EMAIL_INTENT"} -> Nat]
  /\ RiskTtl \in [{"IP_CARD", "DEVICE_CARD", "EMAIL_INTENT"} -> Nat]
  /\ RiskThreshold \in [{"IP_CARD", "DEVICE_CARD", "EMAIL_INTENT"} -> Nat \ {0}]
  /\ \A type \in {"IP_CARD", "DEVICE_CARD", "EMAIL_INTENT"} : RiskTtl[type] >= RiskWindow[type]
  /\ HistoryTtl \in Nat /\ MaxCount \in Nat

ASSUME StructuringAssumption ==
  /\ StructuringDay \in Nat /\ StructuringThreshold \in Nat /\ StructuringLimit \in Nat
  /\ MaxPayments \in Nat

ASSUME ReportsAssumption == ReportLimit \in Nat /\ MaxMonth \in Nat /\ MaxComplaints \in Nat

VARIABLES
  month, codes, referrals, claims, refPc, refCall, refused, granted,
  tier, had, shown, tierPc, tierCall,
  today, logins, evaluated, users, queue, fired,
  riskNow, count, expires, history, riskPc, job, passed,
  structNow, approved, marked,
  saved, cancelPc, cancelCall, asked, pendingOf,
  nitNow, registry, since, cache, nitPc, nitCall, answer,
  reportsNow, complaints, step, draft, stored, notified,
  doorNow, env, cookies, doorPc, doorCall,
  gateNow, groups, gateCount, resetAt, allowed, gateRefused,
  balance, version, lastKey, ledger, ledgerPc, ledgerCall, lost,
  wompi, secret, deployed, client, script, old, new, audit, interrupted, refunded, refundAnswer,
  ipNow, torList, loaded, ipCache, ipExpires, ipPc, ipCall, ipAnswer, seen,
  start, term, cursor, counted, walker, between, phase,
  trace, distances, ranking

Ref == INSTANCE Referrals WITH
  User <- Member, MaxRows <- MaxReferrals, pc <- refPc, call <- refCall

Tiers == INSTANCE Tiers WITH pc <- tierPc, call <- tierCall

Streaks == INSTANCE Streaks WITH User <- Member, LastDay <- StreakDays

Risk == INSTANCE RiskChecks WITH
  Window <- RiskWindow, Ttl <- RiskTtl, Threshold <- RiskThreshold, MaxTime <- ShortTime,
  now <- riskNow, pc <- riskPc

Structuring == INSTANCE Structuring WITH
  Day <- StructuringDay, Threshold <- StructuringThreshold, Limit <- StructuringLimit,
  MaxTime <- ShortTime, MaxRows <- MaxPayments, now <- structNow

Cancellation == INSTANCE Cancellation WITH User <- Member, pc <- cancelPc, call <- cancelCall

NitCache == INSTANCE NitCache WITH
  Ttl <- NitTtl, Delay <- NitDelay, MaxTime <- LongTime,
  now <- nitNow, pc <- nitPc, call <- nitCall

Reports == INSTANCE Reports WITH Limit <- ReportLimit, now <- reportsNow

Door == INSTANCE Door WITH
  MaxTime <- ShortTime, now <- doorNow, pc <- doorPc, call <- doorCall

Gateway == INSTANCE AuthGateway WITH
  Window <- RateWindow, MaxTime <- LongTime,
  now <- gateNow, count <- gateCount, refused <- gateRefused

Ledger == INSTANCE Ledger WITH Key <- CreditKey, pc <- ledgerPc, call <- ledgerCall

Rotation == INSTANCE KeyRotation WITH answer <- refundAnswer

IpReputation == INSTANCE IpReputation WITH
  Ttl <- IpTtl, MaxTime <- LongTime, now <- ipNow, cache <- ipCache, expires <- ipExpires,
  pc <- ipPc, call <- ipCall, answer <- ipAnswer

Calendar == INSTANCE Calendar

Ranking == INSTANCE Ranking

----
(* Every component keeps its types. *)
TypesOK ==
  /\ TypeOK /\ Ref!TypeOK /\ Tiers!TypeOK /\ Streaks!TypeOK
  /\ Risk!TypeOK /\ Structuring!TypeOK /\ Cancellation!TypeOK
  /\ NitCache!TypeOK /\ Calendar!TypeOK /\ Reports!TypeOK
  /\ Door!TypeOK /\ Gateway!TypeOK /\ Ledger!TypeOK /\ Rotation!TypeOK
  /\ IpReputation!TypeOK /\ Ranking!TypeOK

(* Referrals: a referrer refused for the cap of a month has the referrals,
   and a referral is answered "qualified" twice by racing calls only. *)
ReferralsAreEarned ==
  Ref!RefusedHasReferrals /\ Ref!QualifiedByRacersOnly

(* Tiers: whatever was read and whoever raced, a wallet is promoted to what it
   was verified for, and better off than as an unverified one. *)
PromotionIsEarned == Tiers!PromotionIsEarned

(* Streaks: no run rewards who has not earned it, and none that comes to its
   end forgets anybody who has. *)
RewardIsEarned == Streaks!RewardIsEarned /\ Streaks!NobodyIsForgotten

(* Risk and structuring: what a counter lets pass, and that who is refused or
   marked for his past has one, whatever the queries have missed. *)
SuspicionIsFounded ==
  /\ Risk!PassedPerWindow /\ Risk!RepeatIsFounded
  /\ Structuring!MarkIsFounded

(* Cancellation: a cancelled payment is that of a user who asked for it. *)
CancelledByCreator == Cancellation!CancelledByCreator

(* The two caches: what they answer was true within the life of an entry. *)
CachesAreFresh ==
  /\ NitCache!AnswerIsFresh
  /\ IpReputation!VerdictIsFresh

(* Reports: a draft is true of the half-year it names, and the one the DPO is
   told of is stored. *)
DraftIsComplete == Reports!DraftIsComplete /\ Reports!NotifiedIsStored

(* Door and gateway: a session the API takes is one the pages take, for the
   same user; what a key of the limiter is let through in a window, and that
   who is refused has used it. *)
WayInHolds ==
  /\ Door!DoorsAgree
  /\ Gateway!AllowedPerWindow /\ Gateway!RefusedHasUsed

(* Ledger: the balance is the entries written and those lost, and a debit
   answers the balance it left. *)
LedgerTellsBalance == Ledger!BalanceIsMoney /\ Ledger!DebitTellsBalance

(* Ledger: the use cases implement the abstract account. *)
AccountSpec == Ledger!AccountSpec

(* Rotation: the key in the secret is in the log, and a refund called done is
   in Wompi's books whatever key the instance has. *)
KeysAreAccounted == Rotation!SecretIsAudited /\ Rotation!OkIsOnTheBooks

(* Calendar: a term ends on its business day, and whoever computes a term or
   a window in another way agrees with it. *)
CalendarIsRight ==
  /\ Calendar!DeadlineIsNthBusinessDay
  /\ Calendar!FortnightIsWithinTerm
  /\ Calendar!RnbdWindowsAgree

(* Ranking: rounding turns no two businesses far apart around, and the better
   is behind the worse on a tie only. *)
RankingFollowsScores == Ranking!RoundingKeepsOrder /\ Ranking!BetterIsBehindOnATieOnly
====
