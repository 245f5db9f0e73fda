---- MODULE RiskChecks ----
(***************************************************************************)
(* runFraudChecks of POST /v1/payments/intent (src/api/payments.ts): the   *)
(* reputation of the address, the velocity counters                        *)
(* (src/lib/velocity/dynamo-counter.ts), the blocks on record              *)
(* (src/lib/velocity/dynamo-user-history.ts) and the engine that weighs    *)
(* them (src/lib/fraud.ts).                                                *)
(*                                                                         *)
(* A Worker is a request in execution.  Its increments are one step: each  *)
(* is atomic and on a row of its own, so that to interleave them changes   *)
(* nothing.  The look at the history and the record of a block follow; the *)
(* look is an eventually consistent query, which misses the newest rows.   *)
(* Weights are in tenths: those the route uses are capped to halves, whose *)
(* sums are exact in the code as well.                                     *)
(***************************************************************************)
EXTENDS Sums, Sequences, SequencesExt

CONSTANTS
  Ip, User, Device,               \* the values the counters count
  GeoRow,                         \* the flags the cache may hold for an address
  Window, Ttl, Threshold,         \* DEFAULT_THRESHOLDS, by type of counter
  HistoryTtl,                     \* USER_HISTORY_TTL_MS
  Worker,
  MaxTime, MaxCount               \* bounds: of the clock, and of what a counter counts

Time == 0 .. MaxTime
Never == -1                       \* no row

CounterId ==
  ({"IP_CARD"} \X Ip) \cup ({"DEVICE_CARD"} \X Device) \cup ({"EMAIL_INTENT"} \X User)

VARIABLES
  now,
  count, expires,      \* count and ttl_epoch of each counter's row
  history,             \* decision and timestamp_ms of each user's rows, oldest first
  pc, job,             \* at: when the request looked at the history
  passed               \* history: when each counter was moved without a signal

counters == <<count, expires>>
vars == <<now, counters, history, pc, job, passed>>

Signal == [type : {"TOR_EXIT", "VPN_DETECTED", "PROXY_DETECTED", "DATACENTER_IP",
                   "VELOCITY_EXCEEDED", "BLACKLIST_MATCH"}, weight : 0 .. 10]
Decision == {"ALLOW", "REVIEW", "BLOCK"}
Decided == [decision : Decision, at : Time]
Lifetime == Time \cup {Never} \cup {t + Ttl[c[1]] : t \in Time, c \in CounterId}

TypeOK ==
  /\ now \in Time
  /\ count \in [CounterId -> 0 .. MaxCount]
  /\ expires \in [CounterId -> Lifetime]
  /\ history \in [User -> Seq(Decided)]
  /\ pc \in [Worker -> {"idle", "history", "record"}]
  /\ job \in [Worker -> [user : User, signals : Seq(Signal), at : Time]]
  /\ passed \in [CounterId -> Seq(Time)]

NoJob == [user |-> CHOOSE u \in User : TRUE, signals |-> <<>>, at |-> 0]

Init ==
  /\ now = 0
  /\ count = [c \in CounterId |-> 0] /\ expires = [c \in CounterId |-> Never]
  /\ history = [u \in User |-> <<>>]
  /\ pc = [w \in Worker |-> "idle"] /\ job = [w \in Worker |-> NoJob]
  /\ passed = [c \in CounterId |-> <<>>]

----
(* geoSignals: the flags, in the order of the code. *)
Flagged(flags, type, weight) ==
  IF type \in flags THEN <<[type |-> type, weight |-> weight]>> ELSE <<>>

GeoSignals(flags) ==
  Flagged(flags, "TOR_EXIT", 10) \o Flagged(flags, "VPN_DETECTED", 8)
    \o Flagged(flags, "PROXY_DETECTED", 6) \o Flagged(flags, "DATACENTER_IP", 5)

Blacklisted == [type |-> "BLACKLIST_MATCH", weight |-> 10]

Capped(signals) ==
  SumOf([i \in DOMAIN signals |-> IF signals[i].weight > 5 THEN 5 ELSE signals[i].weight], DOMAIN signals)

EvaluateSignals(signals) ==
  IF Capped(signals) >= 8 THEN "BLOCK" ELSE IF Capped(signals) >= 4 THEN "REVIEW" ELSE "ALLOW"

(* collectVelocitySignals, up to the history: DynamoVelocityCounter.increment
   and checkAndEmit for each of the request's counters.  The time of expiry is
   written once, and nobody compares it with the clock. *)
Count(w, u, moved, flags, lifetime) ==
  /\ pc[w] = "idle"
  /\ \A c \in Range(moved) : count[c] < MaxCount
  /\ LET exceeded(c) == count[c] + 1 > Threshold[c[1]] IN
     /\ count' = [c \in CounterId |-> count[c] + (IF c \in Range(moved) THEN 1 ELSE 0)]
     /\ expires' = [c \in CounterId |->
          IF c \in Range(moved) /\ expires[c] = Never THEN now + lifetime[c[1]] ELSE expires[c]]
     /\ passed' = [c \in CounterId |->
          IF c \in Range(moved) /\ ~exceeded(c) THEN Append(passed[c], now) ELSE passed[c]]
     /\ job' = [job EXCEPT ![w] =
          [user |-> u,
           signals |-> GeoSignals(flags)
             \o [i \in 1 .. Cardinality({j \in DOMAIN moved : exceeded(moved[j])}) |->
                   [type |-> "VELOCITY_EXCEEDED", weight |-> 6]],
           at |-> 0]]
  /\ pc' = [pc EXCEPT ![w] = "history"]
  /\ UNCHANGED <<now, history>>

(* The counters of a request: its address, its device if a header names
   one, its user.  No card number is at hand. *)
Moved(u, ip, devices) ==
  <<<<"IP_CARD", ip>>>> \o [i \in DOMAIN devices |-> <<"DEVICE_CARD", devices[i]>>]
    \o <<<<"EMAIL_INTENT", u>>>>

RequestShortLived(w, u, ip, devices, flags) ==   \* mutant: a row expires as it is written
  Count(w, u, Moved(u, ip, devices), flags, [type \in DOMAIN Ttl |-> 0])

Request(w, u, ip, devices, flags) ==
  Count(w, u, Moved(u, ip, devices), flags, Ttl)

(* DynamoDB deletes an expired row some time later. *)
DeleteExpired(c) ==
  /\ expires[c] # Never /\ expires[c] <= now
  /\ count' = [count EXCEPT ![c] = 0]
  /\ expires' = [expires EXCEPT ![c] = Never]
  /\ UNCHANGED <<now, history, pc, job, passed>>

FindBlockEver(u, rows) ==       \* mutant: without the cutoff
  rows > 0 /\ history[u][rows].decision = "BLOCK"

(* findRecentBlock: the newest of the rows the query sees (Limit 1), if the
   filter lets it through. *)
FindRecentBlock(u, rows) ==
  /\ rows > 0
  /\ history[u][rows].decision = "BLOCK"
  /\ history[u][rows].at + HistoryTtl >= now

Signals(w, rows) ==
  IF FindRecentBlock(job[w].user, rows) THEN Append(job[w].signals, Blacklisted) ELSE job[w].signals

(* The oldest rows, as many as the replica that answers has. *)
Rows(w) == 0 .. Len(history[job[w].user])

Finish(w) ==
  /\ pc' = [pc EXCEPT ![w] = "idle"]
  /\ job' = [job EXCEPT ![w] = NoJob]

Record(w, decision) ==
  history' = [history EXCEPT ![job[w].user] = Append(@, [decision |-> decision, at |-> now])]

Pass(w) ==
  /\ pc[w] = "history"
  /\ \E rows \in Rows(w) : EvaluateSignals(Signals(w, rows)) # "BLOCK"
  /\ Finish(w)
  /\ UNCHANGED <<now, counters, history, passed>>

Block(w) ==
  /\ pc[w] = "history"
  /\ \E rows \in Rows(w) :
       /\ EvaluateSignals(Signals(w, rows)) = "BLOCK"
       /\ job' = [job EXCEPT ![w].signals = Signals(w, rows), ![w].at = now]
  /\ pc' = [pc EXCEPT ![w] = "record"]
  /\ UNCHANGED <<now, counters, history, passed>>

(* recordDecision, if it works; the request is refused either way. *)
RecordBlock(w) ==
  /\ pc[w] = "record"
  /\ Record(w, "BLOCK")
  /\ Finish(w)
  /\ UNCHANGED <<now, counters, passed>>

Abort(w) ==
  /\ pc[w] # "idle"
  /\ Finish(w)
  /\ UNCHANGED <<now, counters, history, passed>>

Tick ==
  /\ now < MaxTime
  /\ now' = now + 1
  /\ UNCHANGED <<counters, history, pc, job, passed>>

Next ==
  \/ \E w \in Worker, u \in User, ip \in Ip, devices \in {<<>>} \cup {<<d>> : d \in Device},
        flags \in GeoRow : Request(w, u, ip, devices, flags)
  \/ \E w \in Worker : Pass(w) \/ Block(w) \/ RecordBlock(w) \/ Abort(w)
  \/ \E c \in CounterId : DeleteExpired(c)
  \/ Tick

Spec == Init /\ [][Next]_vars

----
(***************************************************************************)
(* A counter lets less than twice its threshold pass in any window of its  *)
(* type, whichever requests share it and whenever DynamoDB deletes its     *)
(* row: a window is not aligned with the row, but outlived by it, so that  *)
(* it sees the end of one and the beginning of another.                    *)
(***************************************************************************)
PassedPerWindow ==
  \A c \in CounterId : \A t \in Time :
    Cardinality({i \in DOMAIN passed[c] : passed[c][i] <= t /\ t < passed[c][i] + Window[c[1]]})
      <= 2 * Threshold[c[1]] - 1

(***************************************************************************)
(* A request that is refused for an earlier block was preceded by one of   *)
(* the same user, no older than the 30 days when it looked, however long   *)
(* ago the request began and whatever part of the history it saw.  (That a *)
(* block on record is found does not hold: the query may miss it; nor that *)
(* it blocks, as user-history.ts:8 has it: it counts 0.5 of 0.8.)          *)
(***************************************************************************)
RepeatIsFounded ==
  \A w \in Worker :
    pc[w] = "record" /\ Blacklisted \in Range(job[w].signals) =>
      \E i \in DOMAIN history[job[w].user] :
        /\ history[job[w].user][i].decision = "BLOCK"
        /\ history[job[w].user][i].at + HistoryTtl >= job[w].at
====
