---- MODULE NitCache ----
(***************************************************************************)
(* Who a data subject is: makeNitDvVerifier (compliance-service,           *)
(* src/api/nit-dv.ts) asks the registry through Verifik                    *)
(* (src/lib/verifik-client.ts) and keeps the answer, good or bad, for      *)
(* CACHE_TTL_SECONDS.                                                      *)
(*                                                                         *)
(* A Worker is a verification in execution: it reads the cache, asks,      *)
(* takes the answer, stamps it with the time it has by then, and writes    *)
(* the cache; others do so in between, and the registry changes.           *)
(***************************************************************************)
EXTENDS Naturals

CONSTANTS
  Nit, Worker,
  Ttl,             \* CACHE_TTL_SECONDS
  Delay,           \* how long an answer of Verifik may be on its way: at most
                   \* as long as a request may take
  MaxTime          \* bound: of the clock

Time == 0 .. MaxTime
Status == {"ACTIVA", "OTHER"}     \* OTHER: any other estado, or a NIT that Verifik answers 404 for
NoEntry == [verified |-> FALSE, expires |-> 0, kept |-> FALSE]
NoCall == [nit |-> CHOOSE n \in Nit : TRUE, active |-> FALSE, at |-> 0]

VARIABLES
  now,
  registry,        \* what Verifik would say
  since,           \* history: the times at which it would have said a NIT is active
  cache,
  pc, call,        \* a call: whom it asks for, what it heard, and when it was sent or stamped
  answer           \* history: the last answer the cache gave

vars == <<now, registry, since, cache, pc, call, answer>>

Entry == [verified : BOOLEAN, expires : 0 .. MaxTime + Ttl, kept : BOOLEAN]
NoAnswer == [nit |-> CHOOSE n \in Nit : TRUE, verified |-> FALSE, at |-> 0]

TypeOK ==
  /\ now \in Time
  /\ registry \in [Nit -> Status]
  /\ since \in [Nit -> SUBSET Time]
  /\ cache \in [Nit -> Entry]
  /\ pc \in [Worker -> {"idle", "lookup", "stamp", "put"}]
  /\ call \in [Worker -> [nit : Nit, active : BOOLEAN, at : Time]]
  /\ answer \in [nit : Nit, verified : BOOLEAN, at : Time]

ActiveAt(t, status, known) ==
  [n \in Nit |-> IF status[n] = "ACTIVA" THEN known[n] \cup {t} ELSE known[n]]

Init ==
  /\ now = 0
  /\ registry \in [Nit -> Status]
  /\ since = ActiveAt(0, registry, [n \in Nit |-> {}])
  /\ cache = [n \in Nit |-> NoEntry]
  /\ pc = [w \in Worker |-> "idle"]
  /\ call = [w \in Worker |-> NoCall]
  /\ answer = NoAnswer

(* The get of makeDynamoCache: what has expired is not there, whether or not
   DynamoDB has deleted it. *)
Live(n) == cache[n].kept /\ ~(cache[n].expires < now)

VerifyFromCache(w, n) ==
  /\ pc[w] = "idle" /\ Live(n)
  /\ answer' = [nit |-> n, verified |-> cache[n].verified, at |-> now]
  /\ UNCHANGED <<now, registry, since, cache, pc, call>>

VerifyMiss(w, n) ==
  /\ pc[w] = "idle" /\ ~Live(n)
  /\ pc' = [pc EXCEPT ![w] = "lookup"]
  /\ call' = [call EXCEPT ![w].nit = n]
  /\ UNCHANGED <<now, registry, since, cache, answer>>

(* Verifik answers lookupNit: with the estado of a NIT it knows, or 404. *)
Lookup(w) ==
  /\ pc[w] = "lookup"
  /\ call' = [call EXCEPT ![w].active = registry[call[w].nit] = "ACTIVA", ![w].at = now]
  /\ pc' = [pc EXCEPT ![w] = "stamp"]
  /\ UNCHANGED <<now, registry, since, cache, answer>>

(* The answer has arrived, and is stamped with the time it has by then. *)
Stamp(w) ==
  /\ pc[w] = "stamp"
  /\ call' = [call EXCEPT ![w].at = now]
  /\ pc' = [pc EXCEPT ![w] = "put"]
  /\ UNCHANGED <<now, registry, since, cache, answer>>

(* The value of a call stamped at a time; a NIT Verifik does not know is kept too. *)
Value(active, at) == [verified |-> active, expires |-> at + Ttl, kept |-> TRUE]

PutRestamped(w) ==        \* mutant: the entry lives from the time it is put
  /\ pc[w] = "put"
  /\ cache' = [cache EXCEPT ![call[w].nit] = Value(call[w].active, now)]
  /\ pc' = [pc EXCEPT ![w] = "idle"]
  /\ call' = [call EXCEPT ![w] = NoCall]
  /\ UNCHANGED <<now, registry, since, answer>>

Put(w) ==
  /\ pc[w] = "put"
  /\ cache' = [cache EXCEPT ![call[w].nit] = Value(call[w].active, call[w].at)]
  /\ pc' = [pc EXCEPT ![w] = "idle"]
  /\ call' = [call EXCEPT ![w] = NoCall]
  /\ UNCHANGED <<now, registry, since, answer>>

(* Wrong key, network, an upstream error, or the cache itself: an error, and
   nothing is kept. *)
VerifyFails(w) ==
  /\ pc[w] # "idle"
  /\ pc' = [pc EXCEPT ![w] = "idle"]
  /\ call' = [call EXCEPT ![w] = NoCall]
  /\ UNCHANGED <<now, registry, since, cache, answer>>

RegistryChanges(n, status) ==
  /\ status # registry[n]
  /\ registry' = [registry EXCEPT ![n] = status]
  /\ since' = ActiveAt(now, registry', since)
  /\ UNCHANGED <<now, cache, pc, call, answer>>

(* A request that waits for an answer longer than Delay is dead by then. *)
Tick ==
  /\ now < MaxTime
  /\ \A w \in Worker : pc[w] = "stamp" => now < call[w].at + Delay
  /\ now' = now + 1
  /\ since' = ActiveAt(now', registry, since)
  /\ UNCHANGED <<registry, cache, pc, call, answer>>

Next ==
  \/ \E w \in Worker, n \in Nit : VerifyFromCache(w, n) \/ VerifyMiss(w, n)
  \/ \E w \in Worker : Lookup(w) \/ Stamp(w) \/ Put(w) \/ VerifyFails(w)
  \/ \E n \in Nit, s \in Status : RegistryChanges(n, s)
  \/ Tick

Spec == Init /\ [][Next]_vars

----
(***************************************************************************)
(* Whom the cache calls verified was active at some time within the last   *)
(* CACHE_TTL_SECONDS and what an answer of Verifik takes: of two           *)
(* verifications that overlap the one that asked first may write last,     *)
(* however late, and yet what it writes is no older than its expiry says   *)
(* (nit-dv.ts:97-107).                                                     *)
(***************************************************************************)
AnswerIsFresh ==
  answer.verified =>
    \E t \in since[answer.nit] : t <= answer.at /\ answer.at <= t + Delay + Ttl
====
