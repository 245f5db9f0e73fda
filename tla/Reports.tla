---- MODULE Reports ----
(***************************************************************************)
(* The half-yearly report of complaints (compliance-service,               *)
(* src/lib/dpo-tools/complaint-report.ts): a cron of February and August   *)
(* fetches the rights requests of a half-year from the audit log, computes *)
(* their statistics, stores the draft under the name of the half-year and  *)
(* tells the DPO.  Time is in months; an hour of its own is left out.      *)
(***************************************************************************)
EXTENDS Naturals, Sequences, FiniteSets

CONSTANTS
  Limit,                     \* LIMIT of fetchComplaintRows
  MaxMonth, MaxComplaints    \* bounds: of the clock, and of the requests

VARIABLES
  now,               \* months gone by; 0 is January
  complaints,        \* rights requests in public.audit_log: [at, resolved, breached]
  step, draft,       \* of the run: what it does next, the draft it has made
  stored,            \* the drafts in S3, by half-year
  notified           \* the drafts the DPO was told of

vars == <<now, complaints, step, draft, stored, notified>>

Month == 0 .. MaxMonth

(* halfOfYear: the half-year a month is in, by its first and last month. *)
HalfOfYear(month) ==
  LET year == 12 * (month \div 12) IN
  IF month % 12 <= 5 THEN [from |-> year, to |-> year + 5] ELSE [from |-> year + 6, to |-> year + 11]
Complaint == [at : Month, resolved : BOOLEAN, breached : BOOLEAN]
Half == {HalfOfYear(m) : m \in Month}
Draft == [half : Half, at : Month, rows : SUBSET (1 .. MaxComplaints), known : 0 .. MaxComplaints,
          resolved : 0 .. MaxComplaints, unresolved : 0 .. MaxComplaints, breached : 0 .. MaxComplaints]
NoDraft == [half |-> HalfOfYear(0), at |-> 0, rows |-> {}, known |-> 0,
            resolved |-> 0, unresolved |-> 0, breached |-> 0]

TypeOK ==
  /\ now \in Month
  /\ complaints \in Seq(Complaint) /\ Len(complaints) <= MaxComplaints
  /\ step \in {"idle", "upload", "notify"}
  /\ draft \in Draft
  /\ \A d \in stored \cup notified : d \in Draft

Init ==
  /\ now = 0 /\ complaints = <<>>
  /\ step = "idle" /\ draft = NoDraft
  /\ stored = {} /\ notified = {}

----
(* A rights request is written to the log, answered ("completed", "failed")
   or left open; the monitor may mark it later. *)
Complain(resolved) ==
  /\ Len(complaints) < MaxComplaints
  /\ complaints' = Append(complaints, [at |-> now, resolved |-> resolved, breached |-> FALSE])
  /\ UNCHANGED <<now, step, draft, stored, notified>>

Breach(i) ==
  /\ i \in DOMAIN complaints /\ ~complaints[i].resolved /\ ~complaints[i].breached
  /\ complaints' = [complaints EXCEPT ![i].breached = TRUE]
  /\ UNCHANGED <<now, step, draft, stored, notified>>

RowsAfterFirst(half) ==        \* mutant: from the end of the first month
  LET within == {i \in DOMAIN complaints : half.from < complaints[i].at /\ complaints[i].at <= half.to}
  IN {i \in within : Cardinality({j \in within : j < i}) < Limit}

(* fetchComplaintRows: those of the half-year, the oldest first. *)
Rows(half) ==
  LET within == {i \in DOMAIN complaints : half.from <= complaints[i].at /\ complaints[i].at <= half.to}
  IN {i \in within : Cardinality({j \in within : j < i}) < Limit}

StatsCountAll(half, rows) ==     \* mutant: breaches are counted over the whole log
  [half |-> half, at |-> now, rows |-> rows, known |-> Len(complaints),
   resolved |-> Cardinality({i \in rows : complaints[i].resolved}),
   unresolved |-> Cardinality({i \in rows : ~complaints[i].resolved}),
   breached |-> Cardinality({i \in DOMAIN complaints : complaints[i].breached})]

(* computeStats, and the report built of them; known: history, how many
   complaints the log had. *)
Stats(half, rows) ==
  [half |-> half, at |-> now, rows |-> rows, known |-> Len(complaints),
   resolved |-> Cardinality({i \in rows : complaints[i].resolved}),
   unresolved |-> Cardinality({i \in rows : ~complaints[i].resolved}),
   breached |-> Cardinality({i \in rows : complaints[i].breached})]

(* On the 24th of February and of August: the handler leaves the half-year to
   runComplaintReport, which takes the one it is in. *)
RunReport ==
  /\ step = "idle" /\ now % 12 \in {1, 7}
  /\ draft' = Stats(HalfOfYear(now), Rows(HalfOfYear(now)))
  /\ step' = "upload"
  /\ UNCHANGED <<now, complaints, stored, notified>>

(* uploadReportToS3: one object for each half-year. *)
Upload ==
  /\ step = "upload"
  /\ stored' = {d \in stored : d.half # draft.half} \cup {draft}
  /\ step' = "notify"
  /\ UNCHANGED <<now, complaints, draft, notified>>

NotifyFirst ==      \* mutant: the email leaves before the upload
  /\ step \in {"upload", "notify"}
  /\ notified' = notified \cup {draft}
  /\ stored' = IF step = "notify" THEN {d \in stored : d.half # draft.half} \cup {draft} ELSE stored
  /\ step' = IF step = "upload" THEN "notify" ELSE "idle"
  /\ draft' = IF step = "upload" THEN draft ELSE NoDraft
  /\ UNCHANGED <<now, complaints>>

(* The metric, and sendAlert. *)
Notify ==
  /\ step = "notify"
  /\ notified' = notified \cup {draft}
  /\ step' = "idle" /\ draft' = NoDraft
  /\ UNCHANGED <<now, complaints, stored>>

RunFails ==
  /\ step # "idle"
  /\ step' = "idle" /\ draft' = NoDraft
  /\ UNCHANGED <<now, complaints, stored, notified>>

Tick ==
  /\ now < MaxMonth /\ step = "idle"
  /\ now' = now + 1
  /\ UNCHANGED <<complaints, step, draft, stored, notified>>

Next ==
  \/ \E b \in BOOLEAN : Complain(b)
  \/ \E i \in 1 .. MaxComplaints : Breach(i)
  \/ RunReport \/ Upload \/ Notify \/ RunFails
  \/ Tick

Spec == Init /\ [][Next]_vars

----
(***************************************************************************)
(* A draft is true of the half-year it is named for, whichever that is:    *)
(* every row is of it; a complaint of it that was known when the draft was *)
(* made is listed, unless the draft is full of older ones (the LIMIT of    *)
(* 5000, which nothing tells the DPO of); each row is counted as answered  *)
(* or open as it is, and no more breaches are counted than there are, also *)
(* if complaints come and are marked while the draft is under way.         *)
(***************************************************************************)
OfHalf(i, half) == half.from <= complaints[i].at /\ complaints[i].at <= half.to

DraftIsComplete ==
  \A d \in stored :
    /\ \A i \in d.rows : OfHalf(i, d.half)
    /\ \A i \in 1 .. d.known \ d.rows : OfHalf(i, d.half) =>
         Cardinality(d.rows) = Limit /\ \A j \in d.rows : complaints[j].at <= complaints[i].at
    /\ d.resolved = Cardinality({i \in d.rows : complaints[i].resolved})
    /\ d.resolved + d.unresolved = Cardinality(d.rows)
    /\ d.breached <= Cardinality({i \in d.rows : complaints[i].breached})

(* What the DPO is sent to look at is there: the draft it was told of, or a
   later one of the same half-year. *)
NotifiedIsStored ==
  \A n \in notified : \E d \in stored : d.half = n.half /\ n.rows \subseteq d.rows

(***************************************************************************)
(* "Runs on 24 August (H1) and 24 February (H2)": what is reported is the  *)
(* half-year that has ended.  The code reports the one just begun.         *)
(***************************************************************************)
ReportsEndedHalf == \A d \in stored : d.half.to < d.at
====
