---- MODULE Rights ----
(***************************************************************************)
(* The rights of a data subject (compliance-service, src/api/rights.ts),   *)
(* the audit log they are written to (src/api/audit.ts) and the monitor    *)
(* that looks for answers past their term (src/lib/sla-monitor.ts).        *)
(*                                                                         *)
(* A Worker is a request in execution; each of its statements to Postgres  *)
(* is a step, with no transaction around them, and any may fail.  Who asks *)
(* has been verified or not (NitCache).  SlaDays stands for the term       *)
(* computeSlaDeadline works out (Calendar); time is in days.               *)
(***************************************************************************)
EXTENDS Naturals, Sequences, FiniteSets

CONSTANTS
  Nit, Value,         \* commerces, and what a field of their representative may hold
  Worker,
  SlaDays,            \* RIGHTS_SLA_BUSINESS_DAYS
  Batch,              \* LIMIT of findBreachedRows
  MaxAge,             \* maxAgeSeconds of a consent token
  MaxTime, MaxRows    \* bounds: of the clock, and of the log

Null == "null"
Time == 0 .. MaxTime
EditOps == {"update", "rectify"}
Place == {"none", "listed", "hidden"}
Field == Value \cup {Null}

VARIABLES
  now,
  place,              \* establecimientos: "none", "listed" or, once suprimido, "hidden"
  field, suppressed,  \* representantes: a field, Null once erased; suprimido_at
  pc, call,
  log,                \* public.audit_log; `applied` is history: the call changed its row
  monitor, found,     \* the run of the monitor, and the rows it has found
  alerted             \* history: the rows an email has listed

data == <<place, field, suppressed>>
calls == <<pc, call>>
monitoring == <<monitor, found, alerted>>
vars == <<now, data, calls, log, monitoring>>

Call == [op : EditOps \cup {"know", "suppress"}, nit : Nit, value : Value, applied : BOOLEAN]
Row == [op : EditOps \cup {"know", "suppress"}, nit : Nit, outcome : {"verified", "completed"},
        deadline : {t + SlaDays : t \in Time}, breached : BOOLEAN, applied : BOOLEAN]

TypeOK ==
  /\ now \in Time
  /\ place \in [Nit -> Place]
  /\ field \in [Nit -> Field]
  /\ suppressed \in [Nit -> BOOLEAN]
  /\ pc \in [Worker -> {"idle", "write", "hide", "audit"}]
  /\ call \in [Worker -> Call]
  /\ log \in Seq(Row) /\ Len(log) <= MaxRows
  /\ monitor \in {"idle", "alert", "flag"}
  /\ found \subseteq 1 .. MaxRows /\ Cardinality(found) <= Batch
  /\ alerted \subseteq 1 .. MaxRows

NoCall == [op |-> "know", nit |-> CHOOSE n \in Nit : TRUE, value |-> CHOOSE v \in Value : TRUE,
           applied |-> FALSE]

Init ==
  /\ now = 0
  /\ place \in [Nit -> {"none", "listed"}]
  /\ field \in [Nit -> Value]
  /\ suppressed = [n \in Nit |-> FALSE]
  /\ pc = [w \in Worker |-> "idle"] /\ call = [w \in Worker |-> NoCall]
  /\ log = <<>>
  /\ monitor = "idle" /\ found = {} /\ alerted = {}

----
(* verifyConsentToken, as POST /rights/update asks for it: not past its
   expiry, no older than a day whatever its expiry says, and with one of the
   two scopes.  signConsentToken keeps the life of a token within bounds. *)
TokenValid(token) ==
  /\ token.issued <= now
  /\ now < token.issued + token.life
  /\ now <= token.issued + MaxAge
  /\ token.scopes \cap {"rep.contact_email", "rep.contact_phone"} # {}

Token == [issued : Time, life : {1, MaxTime + 1},
          scopes : {{"rep.contact_email"}, {"rep.contact_phone"}, {"rep.firma"}}]

(* The checks of each right, up to its first statement that writes:
   findEstablecimientoId for all but know, the token of an update, the
   sign-off of the other two. *)
Ask(w, op, n, v) ==
  /\ pc[w] = "idle"
  /\ op # "know" => place[n] # "none"
  /\ op = "update" => \E token \in Token : TokenValid(token)
  /\ call' = [call EXCEPT ![w] = [op |-> op, nit |-> n, value |-> v, applied |-> FALSE]]
  /\ pc' = [pc EXCEPT ![w] = IF op = "know" THEN "audit" ELSE "write"]
  /\ UNCHANGED <<now, data, log, monitoring>>

Done(w) ==
  /\ pc' = [pc EXCEPT ![w] = "idle"]
  /\ call' = [call EXCEPT ![w] = NoCall]

(* Not verified, not a commerce, no token or no sign-off: an error, and
   nothing in the log. *)
AskRefused(w) == pc[w] = "idle" /\ UNCHANGED vars

EditableAlways(n) == n \in Nit     \* mutant: without AND suprimido_at IS NULL

Editable(n) == ~suppressed[n]      \* AND suprimido_at IS NULL

(* update and rectify: one UPDATE of the field. *)
Edit(w) ==
  LET c == call[w] IN
  /\ pc[w] = "write" /\ c.op \in EditOps
  /\ Editable(c.nit)
  /\ field' = [field EXCEPT ![c.nit] = c.value]
  /\ call' = [call EXCEPT ![w].applied = TRUE]
  /\ pc' = [pc EXCEPT ![w] = "audit"]
  /\ UNCHANGED <<now, place, suppressed, log, monitoring>>

EditMissedGoesOn(w) ==      \* mutant: no right looks at the rows it got back
  /\ pc[w] = "write" /\ call[w].op \in EditOps /\ ~Editable(call[w].nit)
  /\ pc' = [pc EXCEPT ![w] = "audit"]
  /\ UNCHANGED <<now, data, call, log, monitoring>>

(* The UPDATE finds no row: update tells the caller, rectify does not look. *)
EditMissed(w) ==
  /\ pc[w] = "write" /\ call[w].op \in EditOps /\ ~Editable(call[w].nit)
  /\ IF call[w].op = "update" THEN Done(w)
     ELSE pc' = [pc EXCEPT ![w] = "audit"] /\ UNCHANGED call
  /\ UNCHANGED <<now, data, log, monitoring>>

(* suppress, first statement: erases the representative, if not done. *)
Erase(w) ==
  LET n == call[w].nit IN
  /\ pc[w] = "write" /\ call[w].op = "suppress"
  /\ suppressed' = [suppressed EXCEPT ![n] = TRUE]
  /\ field' = IF suppressed[n] THEN field ELSE [field EXCEPT ![n] = Null]
  /\ call' = [call EXCEPT ![w].applied = TRUE]
  /\ pc' = [pc EXCEPT ![w] = "hide"]
  /\ UNCHANGED <<now, place, log, monitoring>>

HideFirst(w) ==          \* mutant: the two statements are swapped
  /\ pc[w] \in {"write", "hide"} /\ call[w].op = "suppress"
  /\ place' = [place EXCEPT ![call[w].nit] = "hidden"]
  /\ pc' = [pc EXCEPT ![w] = "audit"]
  /\ UNCHANGED <<now, field, suppressed, call, log, monitoring>>

(* suppress, second statement. *)
Hide(w) ==
  /\ pc[w] = "hide"
  /\ place' = [place EXCEPT ![call[w].nit] = "hidden"]
  /\ pc' = [pc EXCEPT ![w] = "audit"]
  /\ UNCHANGED <<now, field, suppressed, call, log, monitoring>>

(* buildAuditEntry and persistAudit. *)
Outcome(op) == IF op = "know" THEN "verified" ELSE "completed"

PersistAudit(w) ==
  LET c == call[w] IN
  /\ pc[w] = "audit" /\ Len(log) < MaxRows
  /\ log' = Append(log, [op |-> c.op, nit |-> c.nit, outcome |-> Outcome(c.op),
                         deadline |-> now + SlaDays, breached |-> FALSE, applied |-> c.applied])
  /\ Done(w)
  /\ UNCHANGED <<now, data, monitoring>>

(* Any statement may fail, or the function be stopped: the request ends. *)
Fail(w) ==
  /\ pc[w] # "idle"
  /\ Done(w)
  /\ UNCHANGED <<now, data, log, monitoring>>

----
Overdue(i) ==
  /\ ~log[i].breached /\ log[i].deadline < now
  /\ log[i].outcome \notin {"completed", "failed"}

(* findBreachedRows: the Batch rows whose term ended first.  (Rows are
   appended as time goes by, so that the term grows with the number.) *)
Rows == {i \in DOMAIN log : Overdue(i)}

FirstOf(rows) == {i \in rows : Cardinality({j \in rows : j < i}) < Batch}

FindUnalerted == FirstOf(Rows \ alerted)     \* mutant: no row is listed in two emails

FindBreachedAll == Rows     \* mutant: without the LIMIT

FindBreached == FirstOf(Rows)

(* runSlaMonitor, to the first call that may fail. *)
MonitorStarts ==
  /\ monitor = "idle"
  /\ found' = FindBreached
  /\ monitor' = IF FindBreached = {} THEN "idle" ELSE "alert"
  /\ UNCHANGED <<now, data, calls, log, alerted>>

(* sendAlert. *)
Alert ==
  /\ monitor = "alert"
  /\ alerted' = alerted \cup found
  /\ monitor' = "flag"
  /\ UNCHANGED <<now, data, calls, log, found>>

(* putCount and flagBreachedRows. *)
Flag ==
  /\ monitor = "flag"
  /\ log' = [i \in DOMAIN log |-> [log[i] EXCEPT !.breached = @ \/ i \in found]]
  /\ monitor' = "idle" /\ found' = {}
  /\ UNCHANGED <<now, data, calls, alerted>>

AlertSkippedOnFailure ==      \* mutant: a failed email does not stop the run
  /\ monitor # "idle"
  /\ monitor' = IF monitor = "alert" THEN "flag" ELSE "idle"
  /\ found' = IF monitor = "alert" THEN found ELSE {}
  /\ UNCHANGED <<now, data, calls, log, alerted>>

MonitorFails ==
  /\ monitor # "idle"
  /\ monitor' = "idle" /\ found' = {}
  /\ UNCHANGED <<now, data, calls, log, alerted>>

Tick ==
  /\ now < MaxTime
  /\ now' = now + 1
  /\ UNCHANGED <<data, calls, log, monitoring>>

RightsStep(w) ==
  \/ \E op \in EditOps \cup {"know", "suppress"}, n \in Nit, v \in Value : Ask(w, op, n, v)
  \/ AskRefused(w) \/ Edit(w) \/ EditMissed(w) \/ Erase(w) \/ Hide(w) \/ PersistAudit(w) \/ Fail(w)

Next ==
  \/ \E w \in Worker : RightsStep(w)
  \/ MonitorStarts \/ Alert \/ Flag \/ MonitorFails
  \/ Tick

(* The monitor runs every day, and an email or an UPDATE that is tried for
   ever works in the end. *)
Fairness == WF_vars(MonitorStarts) /\ SF_vars(Alert) /\ SF_vars(Flag)

Spec == Init /\ [][Next]_vars /\ Fairness

----
(***************************************************************************)
(* What a subject had erased never comes back, whatever update or rectify  *)
(* had been let through before the erasure and writes after it (the        *)
(* WHERE of rights.ts:180, 226 and 278).                                   *)
(***************************************************************************)
ErasedStaysErased ==
  \A n \in Nit : suppressed[n] => field[n] = Null

(***************************************************************************)
(* The log tells the truth: an update on record changed the field, and of  *)
(* a suppression on record both halves are done, though there is no        *)
(* transaction and a request may end between any two statements.           *)
(***************************************************************************)
AuditTellsTruth ==
  \A i \in DOMAIN log :
    /\ log[i].op = "update" => log[i].applied
    /\ log[i].op = "suppress" => suppressed[log[i].nit] /\ place[log[i].nit] = "hidden"

(* suppress does its two halves in one order: a commerce marked as
   suppressed has no representative's data left. *)
HiddenIsErased == \A n \in Nit : place[n] = "hidden" => suppressed[n]

(***************************************************************************)
(* A row is marked as breached only after an email has told the DPO of it, *)
(* although the email, the metric and the UPDATE fail separately           *)
(* (sla-monitor.ts:113-127).                                               *)
(***************************************************************************)
FlaggedIsAlerted == \A i \in DOMAIN log : log[i].breached => i \in alerted

(***************************************************************************)
(* Every answer that stays open past its term is marked in the end,        *)
(* however many rows are waiting: the batches of findBreachedRows leave    *)
(* none behind.                                                            *)
(***************************************************************************)
BreachIsFlagged ==
  \A i \in 1 .. MaxRows : (i \in DOMAIN log /\ Overdue(i)) ~> (i \in DOMAIN log /\ log[i].breached)

(***************************************************************************)
(* rights.ts:147 answers a know request at once, as "completed": its row   *)
(* is not one of the open ones of the monitor.  It is, since its outcome   *)
(* is "verified".                                                          *)
(***************************************************************************)
ServedIsNotBreached == \A i \in DOMAIN log : log[i].op = "know" => ~log[i].breached
====
