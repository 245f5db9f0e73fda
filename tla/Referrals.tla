---- MODULE Referrals ----
(***************************************************************************)
(* ReferralEngine (src/lib/referrals.ts) with the counter that enforces    *)
(* its monthly cap (src/lib/referral-monthly-counter-dynamo.ts).           *)
(*                                                                         *)
(* A Worker is a call of the engine in execution; each call of the store   *)
(* or of the counter is a step.  The route wires a store that remembers    *)
(* nothing, so the store here is the one the interface asks for and the    *)
(* tests build: a list of referrals, and one code per user.                *)
(***************************************************************************)
EXTENDS Naturals, Sequences, FiniteSets

CONSTANTS
  User, Code,
  Worker,        \* calls in execution at the same time
  MonthlyCap,    \* MAX_REFERRALS_PER_MONTH
  LastMonth,     \* bound of the calendar
  MaxRows,       \* bound: referrals in the store
  MaxGrants      \* bound: answers "qualified" for one pair

Nothing == "nothing"
Month == 0 .. LastMonth
Pair == {p \in User \X User : p[1] # p[2]}

VARIABLES
  month,           \* of the clock, in UTC
  codes,           \* the store: each user's referral_code
  referrals,       \* the store: the list, oldest first
  claims,          \* claims_count of each row of the counter
  pc, call,
  refused,         \* history: the rows of the counter some call found full
  granted          \* history: answers { qualified: true } for each pair

store == <<codes, referrals>>
history == <<refused, granted>>
vars == <<month, store, claims, pc, call, history>>

Referral == [pair : Pair, status : {"PENDING", "QUALIFIED"}, created : Month]
Call == [user : User, code : Code, pair : Pair, month : Month]

TypeOK ==
  /\ month \in Month
  /\ codes \in [User -> Code \cup {Nothing}]
  /\ referrals \in Seq(Referral) /\ Len(referrals) <= MaxRows
  /\ claims \in [User \X Month -> Nat]
  /\ pc \in [Worker -> {"idle", "pick", "set", "dup", "cap", "create", "count", "qualify"}]
  /\ call \in [Worker -> Call]
  /\ refused \subseteq User \X Month
  /\ granted \in [Pair -> 0 .. MaxGrants]

NoCall == [user |-> CHOOSE u \in User : TRUE, code |-> CHOOSE c \in Code : TRUE,
           pair |-> CHOOSE p \in Pair : TRUE, month |-> 0]

Init ==
  /\ month = 0
  /\ codes = [u \in User |-> Nothing] /\ referrals = <<>>
  /\ claims = [k \in User \X Month |-> 0]
  /\ pc = [w \in Worker |-> "idle"] /\ call = [w \in Worker |-> NoCall]
  /\ refused = {} /\ granted = [p \in Pair |-> 0]

----
Goto(w, step) == pc' = [pc EXCEPT ![w] = step]
Finish(w) == Goto(w, "idle") /\ call' = [call EXCEPT ![w] = NoCall]

Rows(p) == {i \in DOMAIN referrals : referrals[i].pair = p}
Pending(i) == referrals[i].status = "PENDING"

(* generateCode: a user who has a code keeps it ... *)
KeepCode(w, u) ==
  /\ pc[w] = "idle"
  /\ codes[u] # Nothing
  /\ UNCHANGED vars

Generate(w, u) ==
  /\ pc[w] = "idle"
  /\ codes[u] = Nothing
  /\ Goto(w, "pick")
  /\ call' = [call EXCEPT ![w].user = u]
  /\ UNCHANGED <<month, store, claims, history>>

(* ... and one who has none draws codes until one has no owner, a hundred
   times before giving up (Abort). *)
PickCode(w, c) ==
  /\ pc[w] = "pick"
  /\ \A u \in User : codes[u] # c
  /\ Goto(w, "set")
  /\ call' = [call EXCEPT ![w].code = c]
  /\ UNCHANGED <<month, store, claims, history>>

SetUserCode(w) ==
  /\ pc[w] = "set"
  /\ codes' = [codes EXCEPT ![call[w].user] = call[w].code]
  /\ Finish(w)
  /\ UNCHANGED <<month, referrals, claims, history>>

AcceptSelf(w, referee, c) ==    \* mutant: the owner may be the user himself
  /\ pc[w] = "idle" /\ Len(referrals) < MaxRows
  /\ codes[referee] = c
  /\ call' = [call EXCEPT ![w].pair = <<referee, referee>>]
  /\ Goto(w, "dup")
  /\ UNCHANGED <<month, store, claims, history>>

(* acceptCode: the owner of the code must be somebody else, seen at another
   address and on another device, all of which the caller says. *)
Accept(w, referee, c) ==
  /\ pc[w] = "idle"
  /\ Len(referrals) < MaxRows
  /\ \E referrer \in User \ {referee} :
       /\ codes[referrer] = c
       /\ call' = [call EXCEPT ![w].pair = <<referrer, referee>>, ![w].code = c]
  /\ Goto(w, "dup")
  /\ UNCHANGED <<month, store, claims, history>>

NotADuplicate(w) ==
  /\ pc[w] = "dup"
  /\ Rows(call[w].pair) = {}
  /\ Goto(w, "cap")
  /\ call' = [call EXCEPT ![w].month = month]
  /\ UNCHANGED <<month, store, claims, history>>

Duplicate(w) ==
  /\ pc[w] = "dup"
  /\ Rows(call[w].pair) # {}
  /\ Finish(w)
  /\ UNCHANGED <<month, store, claims, history>>

(* monthlyCounterKey *)
CounterKey(w) == <<call[w].pair[1], call[w].month>>

(* DynamoReferralMonthlyCounter.get is an eventually consistent read of a
   number that only grows. *)
BelowCap(w) ==
  /\ pc[w] = "cap"
  /\ \E n \in 0 .. claims[CounterKey(w)] : n < MonthlyCap
  /\ Goto(w, "create")
  /\ UNCHANGED <<month, store, claims, call, history>>

AtCap(w) ==
  /\ pc[w] = "cap"
  /\ \E n \in 0 .. claims[CounterKey(w)] : n >= MonthlyCap
  /\ refused' = refused \cup {CounterKey(w)}
  /\ Finish(w)
  /\ UNCHANGED <<month, store, claims, granted>>

CountFirst(w) ==            \* mutant: counts before it creates
  /\ pc[w] = "create" /\ Len(referrals) < MaxRows
  /\ claims' = [claims EXCEPT ![CounterKey(w)] = @ + 1]
  /\ Goto(w, "count")
  /\ UNCHANGED <<month, store, call, history>>

(* createReferral, dated by a second look at the clock; then the counter. *)
Create(w) ==
  /\ pc[w] = "create" /\ Len(referrals) < MaxRows
  /\ referrals' = Append(referrals, [pair |-> call[w].pair, status |-> "PENDING", created |-> month])
  /\ Goto(w, "count")
  /\ UNCHANGED <<month, codes, claims, call, history>>

Count(w) ==
  /\ pc[w] = "count"
  /\ claims' = [claims EXCEPT ![CounterKey(w)] = @ + 1]
  /\ Finish(w)
  /\ UNCHANGED <<month, store, history>>

(* qualifyOnAction on a first purchase, or a first incoming payment of at
   least the threshold: any pending referral of the user ... *)
QualifyAny(w, i) ==         \* mutant: the first referral of the user, pending or not
  /\ pc[w] = "idle"
  /\ i \in DOMAIN referrals
  /\ \A j \in 1 .. i - 1 : referrals[j].pair[2] # referrals[i].pair[2]
  /\ granted[referrals[i].pair] < MaxGrants
  /\ Goto(w, "qualify")
  /\ call' = [call EXCEPT ![w].pair = referrals[i].pair]
  /\ UNCHANGED <<month, store, claims, history>>

Qualify(w, i) ==
  /\ pc[w] = "idle"
  /\ i \in DOMAIN referrals
  /\ Pending(i)
  /\ \A j \in 1 .. i - 1 : referrals[j].pair[2] = referrals[i].pair[2] => ~Pending(j)
  /\ granted[referrals[i].pair] < MaxGrants
  /\ Goto(w, "qualify")
  /\ call' = [call EXCEPT ![w].pair = referrals[i].pair]
  /\ UNCHANGED <<month, store, claims, history>>

(* ... and updateReferralStatus marks the first one of the pair. *)
MarkQualified(w) ==
  /\ pc[w] = "qualify" /\ granted[call[w].pair] < MaxGrants
  /\ LET first == CHOOSE i \in Rows(call[w].pair) : \A j \in Rows(call[w].pair) : i <= j
     IN  referrals' = [referrals EXCEPT ![first].status = "QUALIFIED"]
  /\ granted' = [granted EXCEPT ![call[w].pair] = @ + 1]
  /\ Finish(w)
  /\ UNCHANGED <<month, codes, claims, refused>>

(* The instance dies, or a call fails. *)
Abort(w) ==
  /\ pc[w] # "idle"
  /\ Finish(w)
  /\ UNCHANGED <<month, store, claims, history>>

(* The next month.  A call outlives at most one end of a month. *)
MonthEnds ==
  /\ month < LastMonth
  /\ \A w \in Worker : pc[w] \in {"cap", "create", "count"} => call[w].month = month
  /\ month' = month + 1
  /\ UNCHANGED <<store, claims, pc, call, history>>

Step(w) ==
  \/ \E c \in Code : PickCode(w, c)
  \/ SetUserCode(w)
  \/ NotADuplicate(w) \/ Duplicate(w)
  \/ BelowCap(w) \/ AtCap(w)
  \/ Create(w) \/ Count(w)
  \/ MarkQualified(w)
  \/ Abort(w)

Next ==
  \/ \E w \in Worker, u \in User :
       KeepCode(w, u) \/ Generate(w, u) \/ \E c \in Code : Accept(w, u, c)
  \/ \E w \in Worker, i \in 1 .. MaxRows : Qualify(w, i)
  \/ \E w \in Worker : Step(w)
  \/ MonthEnds

Spec == Init /\ [][Next]_vars

----
Created(r, months) ==
  Cardinality({i \in DOMAIN referrals : referrals[i].pair[1] = r /\ referrals[i].created \in months})

(***************************************************************************)
(* A referrer is refused only for referrals he has: the counter is moved   *)
(* after the referral is created, so a call that dies in between leaves    *)
(* one uncounted and never one counted that is not there.  The month of    *)
(* the count is read before the referral is dated, so a referral of the    *)
(* first minutes of a month may stand against the month before.            *)
(***************************************************************************)
RefusedHasReferrals ==
  \A k \in refused : Created(k[1], {k[2], k[2] + 1}) >= MonthlyCap

(***************************************************************************)
(* As long as a pair has one referral in the store, the calls that answer  *)
(* "qualified" for it, each of which is worth two bonuses, are no more     *)
(* than run at the same time: qualifyOnAction reads PENDING and then       *)
(* writes QUALIFIED, and nothing makes it PENDING again.                   *)
(***************************************************************************)
QualifiedByRacersOnly ==
  \A p \in Pair : Cardinality(Rows(p)) = 1 => granted[p] <= Cardinality(Worker)

(***************************************************************************)
(* "there's at most ONE referral per referee (the store rejects            *)
(* duplicates)" (findReferralsByReferee): but getReferral is asked for the *)
(* pair, so that a second referrer may take the same referee.              *)
(***************************************************************************)
OneReferralPerReferee ==
  \A i, j \in DOMAIN referrals : referrals[i].pair[2] = referrals[j].pair[2] => i = j
====
