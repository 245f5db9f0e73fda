---- MODULE MCComponents ----
(***************************************************************************)
(* The components for TLC, side by side: a behaviour moves one of them,    *)
(* `moving`, so that their state spaces add up.                            *)
(***************************************************************************)
EXTENDS Components, TLC

VARIABLE moving

DaysOf2026 == 1 .. 365
Geo == {{}, {"TOR_EXIT"}, {"VPN_DETECTED", "PROXY_DETECTED"}}
Windows == [IP_CARD |-> 1, DEVICE_CARD |-> 1, EMAIL_INTENT |-> 1]
Ttls == [IP_CARD |-> 2, DEVICE_CARD |-> 2, EMAIL_INTENT |-> 2]
Thresholds == [IP_CARD |-> 2, DEVICE_CARD |-> 1, EMAIL_INTENT |-> 1]
Limits == [user |-> 1, dpo |-> 2, anonymous |-> 1]
Proxies == [ip |-> "TOR"]

(* Calls, operators and parties of a payment are interchangeable; users are
   not, whom a component may choose from. *)
Symmetry == Permutations(Worker) \cup Permutations(Operator) \cup Permutations(Party)

refVars == <<month, codes, referrals, claims, refPc, refCall, refused, granted>>
tiersVars == <<tier, had, shown, tierPc, tierCall>>
streaksVars == <<today, logins, evaluated, users, queue, fired>>
riskVars == <<riskNow, count, expires, history, riskPc, job, passed>>
structuringVars == <<structNow, approved, marked>>
cancellationVars == <<saved, cancelPc, cancelCall, asked, pendingOf>>
nitVars == <<nitNow, registry, since, cache, nitPc, nitCall, answer>>
calendarVars == <<start, term, cursor, counted, walker, between, phase>>
reportsVars == <<reportsNow, complaints, step, draft, stored, notified>>
doorVars == <<doorNow, env, cookies, doorPc, doorCall>>
gatewayVars == <<gateNow, groups, gateCount, resetAt, allowed, gateRefused>>
ledgerVars == <<balance, version, lastKey, ledger, ledgerPc, ledgerCall, lost>>
rotationVars == <<wompi, secret, deployed, client, script, old, new, audit, interrupted,
                  refunded, refundAnswer>>
ipVars == <<ipNow, torList, loaded, ipCache, ipExpires, ipPc, ipCall, ipAnswer, seen>>
rankingVars == <<trace, distances, ranking>>

componentsVars == <<moving, vars, refVars, tiersVars, streaksVars, riskVars,
                    structuringVars, cancellationVars, nitVars, calendarVars,
                    reportsVars, doorVars, gatewayVars, ledgerVars, rotationVars,
                    ipVars, rankingVars>>

ComponentsInit ==
  /\ moving \in {"escrow", "referrals", "tiers", "streaks", "risk",
                 "structuring", "cancellation", "nit", "calendar",
                 "reports", "door", "gateway", "ledger", "rotation", "ip", "ranking"}
  /\ IF moving = "escrow" THEN TRUE ELSE channel = "WOMPI_CARD" /\ highValue = TRUE
  /\ IF moving = "nit" THEN TRUE ELSE registry = [n \in Nit |-> "ACTIVA"]
  /\ IF moving = "calendar" THEN TRUE ELSE start = 1 /\ term = 10
  /\ IF moving = "door" THEN TRUE
     ELSE /\ cookies = [id |-> Door!None, session |-> Door!None, csrf |-> Door!Null]
          /\ env = [jwtSecret |-> FALSE, production |-> TRUE]
  /\ IF moving = "ranking" THEN TRUE ELSE trace = 1
  /\ Init /\ Ref!Init /\ Tiers!Init /\ Streaks!Init /\ Risk!Init
  /\ Structuring!Init /\ Cancellation!Init
  /\ NitCache!Init /\ Calendar!Init /\ Reports!Init
  /\ Door!Init /\ Gateway!Init /\ Ledger!Init /\ Rotation!Init
  /\ IpReputation!Init /\ Ranking!Init

(* The other components stand still. *)
OthersStill ==
  /\ UNCHANGED moving
  /\ IF moving = "escrow" THEN TRUE ELSE UNCHANGED vars
  /\ IF moving = "referrals" THEN TRUE ELSE UNCHANGED refVars
  /\ IF moving = "tiers" THEN TRUE ELSE UNCHANGED tiersVars
  /\ IF moving = "streaks" THEN TRUE ELSE UNCHANGED streaksVars
  /\ IF moving = "risk" THEN TRUE ELSE UNCHANGED riskVars
  /\ IF moving = "structuring" THEN TRUE ELSE UNCHANGED structuringVars
  /\ IF moving = "cancellation" THEN TRUE ELSE UNCHANGED cancellationVars
  /\ IF moving = "nit" THEN TRUE ELSE UNCHANGED nitVars
  /\ IF moving = "calendar" THEN TRUE ELSE UNCHANGED calendarVars
  /\ IF moving = "reports" THEN TRUE ELSE UNCHANGED reportsVars
  /\ IF moving = "door" THEN TRUE ELSE UNCHANGED doorVars
  /\ IF moving = "gateway" THEN TRUE ELSE UNCHANGED gatewayVars
  /\ IF moving = "ledger" THEN TRUE ELSE UNCHANGED ledgerVars
  /\ IF moving = "rotation" THEN TRUE ELSE UNCHANGED rotationVars
  /\ IF moving = "ip" THEN TRUE ELSE UNCHANGED ipVars
  /\ IF moving = "ranking" THEN TRUE ELSE UNCHANGED rankingVars

ComponentsNext ==
  \/ moving = "escrow" /\ Next /\ OthersStill
  \/ moving = "referrals" /\ Ref!Next /\ OthersStill
  \/ moving = "tiers" /\ Tiers!Next /\ OthersStill
  \/ moving = "streaks" /\ Streaks!Next /\ OthersStill
  \/ moving = "risk" /\ Risk!Next /\ OthersStill
  \/ moving = "structuring" /\ Structuring!Next /\ OthersStill
  \/ moving = "cancellation" /\ Cancellation!Next /\ OthersStill
  \/ moving = "nit" /\ NitCache!Next /\ OthersStill
  \/ moving = "calendar" /\ Calendar!Next /\ OthersStill
  \/ moving = "reports" /\ Reports!Next /\ OthersStill
  \/ moving = "door" /\ Door!Next /\ OthersStill
  \/ moving = "gateway" /\ Gateway!Next /\ OthersStill
  \/ moving = "ledger" /\ Ledger!Next /\ OthersStill
  \/ moving = "rotation" /\ Rotation!Next /\ OthersStill
  \/ moving = "ip" /\ IpReputation!Next /\ OthersStill
  \/ moving = "ranking" /\ Ranking!Next /\ OthersStill

ComponentsSpec == ComponentsInit /\ [][ComponentsNext]_componentsVars
====
