---- MODULE AuthGateway ----
(***************************************************************************)
(* authGateway (pagos-service, src/lib/auth/gateway.ts) and the rate       *)
(* limiter it asks, InMemoryRateLimiter: fixed windows in the memory of    *)
(* one instance, by user for whoever is known and by address for the rest. *)
(* The gateway is behind a flag and no route calls it yet.                 *)
(***************************************************************************)
EXTENDS Sums, FiniteSets

CONSTANTS
  User, Ip,
  RATE_LIMITS,      \* max of each role
  Window,           \* windowMs
  MaxTime           \* bound of the clock

Role == {"user", "dpo", "anonymous"}
Key == User \cup Ip
Time == 0 .. MaxTime
Most == Max({RATE_LIMITS[r] : r \in Role})

VARIABLES
  now,
  groups,           \* the role the token of a user gives him: primaryRole
  count, resetAt,   \* windows: 0 is a key that has none
  allowed,          \* history: how many requests of a key were let through, when
  refused           \* history: the last request, when it was refused

vars == <<now, groups, count, resetAt, allowed, refused>>

TypeOK ==
  /\ now \in Time
  /\ groups \in [User -> {"user", "dpo"}]
  /\ count \in [Key -> 0 .. Most]
  /\ resetAt \in [Key -> 0 .. MaxTime + Window]
  /\ allowed \in [Key -> [Time -> 0 .. Most]]
  /\ refused \in SUBSET [key : Key, max : 1 .. Most]

Init ==
  /\ now = 0
  /\ groups \in [User -> {"user"}]
  /\ count = [k \in Key |-> 0] /\ resetAt = [k \in Key |-> 0]
  /\ allowed = [k \in Key |-> [t \in Time |-> 0]]
  /\ refused = {}

----
Fresh(k) == count[k] = 0 \/ resetAt[k] < now

FullTooLate(k, max) == count[k] > max     \* mutant: off by one

Full(k, max) == count[k] >= max

EndOfWindowSliding(k) == now + Window     \* mutant: every request starts the window again

EndOfWindow(k) == IF Fresh(k) THEN now + Window ELSE resetAt[k]

(* check. *)
Check(k, max) ==
  IF Fresh(k) \/ ~Full(k, max)
  THEN /\ count' = [count EXCEPT ![k] = IF Fresh(k) THEN 1 ELSE @ + 1]
       /\ resetAt' = [resetAt EXCEPT ![k] = EndOfWindow(k)]
       /\ allowed' = [allowed EXCEPT ![k][now] = @ + 1]
       /\ refused' = {}
  ELSE /\ refused' = {[key |-> k, max |-> max]}
       /\ UNCHANGED <<count, resetAt, allowed>>

(* authGateway: a token that verifies, or x-dev-user where the bypass is on. *)
Known(u) ==
  /\ Check(u, RATE_LIMITS[groups[u]])
  /\ UNCHANGED <<now, groups>>

(* No token: counted, and an error all the same. *)
Anonymous(ip) ==
  /\ Check(ip, RATE_LIMITS["anonymous"])
  /\ UNCHANGED <<now, groups>>

(* A token that verifyJwt refuses is an error that no window counts. *)
BadToken ==
  /\ refused' = {}
  /\ UNCHANGED <<now, groups, count, resetAt, allowed>>

(* The groups of the next token of a user. *)
ChangeRole(u) ==
  /\ groups' = [groups EXCEPT ![u] = IF @ = "user" THEN "dpo" ELSE "user"]
  /\ refused' = {}
  /\ UNCHANGED <<now, count, resetAt, allowed>>

Tick ==
  /\ now < MaxTime
  /\ now' = now + 1 /\ refused' = {}
  /\ UNCHANGED <<groups, count, resetAt, allowed>>

Next ==
  \/ \E u \in User : Known(u) \/ ChangeRole(u)
  \/ \E ip \in Ip : Anonymous(ip)
  \/ BadToken \/ Tick

Spec == Init /\ [][Next]_vars

----
AllowedIn(k, from, to) == SumOf(allowed[k], from .. to)

MaxOf(k) ==
  IF k \in Ip THEN RATE_LIMITS["anonymous"]
  ELSE Max({RATE_LIMITS["user"], RATE_LIMITS["dpo"]})

(***************************************************************************)
(* However the requests fall on the edge of two windows, an instance lets  *)
(* no more than twice the limit through in any stretch as long as a window *)
(* (rate-limit.ts:30).                                                     *)
(***************************************************************************)
AllowedPerWindow ==
  \A k \in Key, t \in 0 .. MaxTime - Window : AllowedIn(k, t, t + Window) <= 2 * MaxOf(k)

(***************************************************************************)
(* Who is refused has himself used up his limit within a window: neither   *)
(* another's requests, nor those of his address, nor a window that ended,  *)
(* count against him.                                                      *)
(***************************************************************************)
RefusedHasUsed ==
  \A r \in refused :
    AllowedIn(r.key, IF now < Window THEN 0 ELSE now - Window, now) >= r.max
====
