---- MODULE IpReputation ----
(***************************************************************************)
(* The reputation of an IP (pagos-service: src/lib/ip-geolocation.ts,      *)
(* ip2proxy-loader.ts, tor-list.ts, crons/tor-refresh.ts).                 *)
(*                                                                         *)
(* The Tor list and the IP2Proxy engine are in the memory of an instance;  *)
(* the combined result is kept a week in a table whose rows DynamoDB       *)
(* deletes some time after they expire.  A lookup reads the engine, waits  *)
(* for IP-API, and reads the list.                                         *)
(***************************************************************************)
EXTENDS Naturals

CONSTANTS
  Ip,                \* the addresses; what is no address gets null and no more
  Px2,               \* of an Ip: the proxyType of the binary, "-" for none
  Worker,            \* the requests in flight
  Ttl,               \* CACHE_TTL_SECONDS
  Lag,               \* how late the table deletes a row, at most
  Span,              \* how long a lookup lasts, at most
  MaxTime            \* bound

VARIABLES
  now,
  torList,           \* TorList.ips
  loaded,            \* whether the loader has its engine
  cache, expires,    \* of an Ip: the cached result, if one is, and its TTL
  pc, call,          \* of a Worker: where its lookup is, and what it has read
  answer,            \* what the last lookup said of Tor
  seen               \* history: when the two sources last said so, or the opposite

vars == <<now, torList, loaded, cache, expires, pc, call, answer, seen>>

Time == 0 .. MaxTime
Never == MaxTime + 1

Type == {"-", "VPN", "TOR", "DCH"}
NoResult == [tor |-> FALSE, type |-> "none", located |-> FALSE]
Result == [tor : BOOLEAN, type : Type, located : BOOLEAN] \cup {NoResult}
Call == [ip : Ip, result : Result, since : Time \cup {Never}]
Answer == [ip : Ip, tor : BOOLEAN, at : Time \cup {Never}]
Seen == [listed : [Ip -> Time \cup {Never}], unlisted : [Ip -> Time \cup {Never}],
         up : Time \cup {Never}, down : Time \cup {Never}]

NoCall == [ip |-> CHOOSE i \in Ip : TRUE, result |-> NoResult, since |-> Never]
NoAnswer == [ip |-> CHOOSE i \in Ip : TRUE, tor |-> FALSE, at |-> Never]

TypeOK ==
  /\ now \in Time
  /\ torList \subseteq Ip /\ loaded \in BOOLEAN
  /\ cache \in [Ip -> Result] /\ expires \in [Ip -> 0 .. (MaxTime + Ttl)]
  /\ pc \in [Worker -> {"idle", "fetching", "writing"}] /\ call \in [Worker -> Call]
  /\ answer \in Answer
  /\ seen \in Seen

(* A cold start; the list and the engine are loaded later. *)
Init ==
  /\ now = 0 /\ torList = {} /\ loaded = FALSE
  /\ cache = [i \in Ip |-> NoResult] /\ expires = [i \in Ip |-> 0]
  /\ pc = [w \in Worker |-> "idle"] /\ call = [w \in Worker |-> NoCall]
  /\ answer = NoAnswer
  /\ seen = [listed |-> [i \in Ip |-> Never], unlisted |-> [i \in Ip |-> 0],
             up |-> Never, down |-> 0]

(* The history notes what holds after each step. *)
Witness ==
  seen' = [listed   |-> [i \in Ip |-> IF i \in torList' THEN now' ELSE seen.listed[i]],
           unlisted |-> [i \in Ip |-> IF i \in torList' THEN seen.unlisted[i] ELSE now'],
           up       |-> IF loaded' THEN now' ELSE seen.up,
           down     |-> IF loaded' THEN seen.down ELSE now']

----
(* The rows past their time are deleted within Lag, lookups end within Span. *)
Tick ==
  /\ now < MaxTime
  /\ \A i \in Ip : cache[i] # NoResult => now < expires[i] + Lag
  /\ \A w \in Worker : pc[w] # "idle" => now < call[w].since + Span
  /\ now' = now + 1
  /\ UNCHANGED <<torList, loaded, cache, expires, pc, call, answer>>
  /\ Witness

Expire(i) ==
  /\ cache[i] # NoResult /\ expires[i] <= now
  /\ cache' = [cache EXCEPT ![i] = NoResult] /\ expires' = [expires EXCEPT ![i] = 0]
  /\ UNCHANGED <<now, torList, loaded, pc, call, answer, seen>>

(* loadFromText keeps the lines that are addresses, and none of a page that is
   not the list. *)
LoadFromText(lines) == torList' = lines \cap Ip

(* TorRefreshCron.run; a fetch that fails keeps the list there was. *)
RefreshTor(lines) ==
  /\ LoadFromText(lines)
  /\ UNCHANGED <<now, loaded, cache, expires, pc, call, answer>>
  /\ Witness

LoadEngine ==
  /\ ~loaded /\ loaded' = TRUE
  /\ UNCHANGED <<now, torList, cache, expires, pc, call, answer>>
  /\ Witness

(* unload, as for an update of the binary. *)
UnloadEngine ==
  /\ loaded /\ loaded' = FALSE
  /\ UNCHANGED <<now, torList, cache, expires, pc, call, answer>>
  /\ Witness

(* The instance is replaced: its memory and its lookups are gone. *)
Restart ==
  /\ torList' = {} /\ loaded' = FALSE
  /\ pc' = [w \in Worker |-> "idle"] /\ call' = [w \in Worker |-> NoCall]
  /\ UNCHANGED <<now, cache, expires, answer>>
  /\ Witness

----
(* IP2ProxyLoader.lookup: null, or "-", without an engine or a row. *)
EngineType(i) == IF loaded THEN Px2[i] ELSE "-"

ExpiryOnHit(i) == [expires EXCEPT ![i] = now + Ttl]     \* mutant: a hit renews the row

ExpiryAfterHit(i) == expires

Lookup(w, i) ==
  /\ pc[w] = "idle"
  /\ \/ /\ cache[i] # NoResult
        /\ answer' = [ip |-> i, tor |-> cache[i].tor, at |-> now]
        /\ expires' = ExpiryAfterHit(i)
        /\ UNCHANGED <<pc, call>>
     \/ /\ cache[i] = NoResult
        /\ pc' = [pc EXCEPT ![w] = "fetching"]
        /\ call' = [call EXCEPT ![w] =
             [ip |-> i, since |-> now,
              result |-> [tor |-> FALSE, type |-> EngineType(i), located |-> FALSE]]]
        /\ UNCHANGED <<answer, expires>>
  /\ UNCHANGED <<now, torList, loaded, cache, seen>>

IsTor(i, type) == i \in torList \/ type = "TOR"

(* IP-API has answered, or has failed; the results are combined. *)
Fetched(w, ok) ==
  LET i == call[w].ip
      type == call[w].result.type IN
  /\ pc[w] = "fetching"
  /\ pc' = [pc EXCEPT ![w] = "writing"]
  /\ call' = [call EXCEPT ![w].result =
       [tor |-> IsTor(i, type), type |-> type, located |-> ok]]
  /\ UNCHANGED <<now, torList, loaded, cache, expires, answer, seen>>

(* The write may fail; the result is returned. *)
Written(w, saved) ==
  LET i == call[w].ip IN
  /\ pc[w] = "writing"
  /\ IF saved THEN /\ cache' = [cache EXCEPT ![i] = call[w].result]
                   /\ expires' = [expires EXCEPT ![i] = now + Ttl]
     ELSE UNCHANGED <<cache, expires>>
  /\ answer' = [ip |-> i, tor |-> call[w].result.tor, at |-> now]
  /\ pc' = [pc EXCEPT ![w] = "idle"] /\ call' = [call EXCEPT ![w] = NoCall]
  /\ UNCHANGED <<now, torList, loaded, seen>>

Next ==
  \/ Tick \/ LoadEngine \/ UnloadEngine \/ Restart
  \/ \E lines \in SUBSET (Ip \cup {"<html>"}) : RefreshTor(lines)
  \/ \E i \in Ip : Expire(i)
  \/ \E w \in Worker : \/ \E i \in Ip : Lookup(w, i)
                       \/ \E ok \in BOOLEAN : Fetched(w, ok) \/ Written(w, ok)

Spec == Init /\ [][Next]_vars

----
Recent(time) == time # Never /\ time + Ttl + Lag + Span >= answer.at

EngineSaysTor == Px2[answer.ip] = "TOR"

(***************************************************************************)
(* Whatever a lookup says of Tor, from the row or anew, its sources said   *)
(* no longer ago than a row lives and a lookup lasts                       *)
(* (ip-geolocation.ts:116-133): an exit node is not passed, nor a former   *)
(* one held, for longer, though the list and the engine come and go with   *)
(* the instance, are read at different times, and racing lookups write     *)
(* over each other.                                                        *)
(***************************************************************************)
VerdictIsFresh ==
  answer.at # Never =>
    IF answer.tor
    THEN Recent(seen.listed[answer.ip]) \/ (EngineSaysTor /\ Recent(seen.up))
    ELSE Recent(seen.unlisted[answer.ip]) /\ (EngineSaysTor => Recent(seen.down))
====
