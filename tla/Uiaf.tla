---- MODULE Uiaf ----
(***************************************************************************)
(* The monitor of the UIAF: UiafMonitor of pagos-service adds up what each *)
(* user was approved in the last WindowHours, alerts of who passes a       *)
(* threshold or pays many times just below the limit, remembers it and     *)
(* files a report.  There are two: src/crons/uiaf-monitor.ts, "by channel",*)
(* and the older crons/uiaf-monitor.ts, "by user", which only adds up.     *)
(*                                                                         *)
(* A run goes through the keys it found in the order of a Map, which does  *)
(* not matter; whom to skip it read when it started.  The memory of flags  *)
(* is the operator's: it forgets after Dedupe.                             *)
(***************************************************************************)
EXTENDS Sums, Sequences, FiniteSets

CONSTANTS
  User, Channel,
  Threshold,              \* THRESHOLD_BY_CHANNEL
  DefaultThreshold,       \* THRESHOLD_COP
  Amount, JustBelow,      \* what is paid; the amounts of isStructuringAmount
  MinCount,               \* STRUCTURING_MIN_COUNT
  WindowHours, Dedupe,
  MaxTime, MaxTx          \* bounds: of the clock, and of the payments

ASSUME StructuringPays == JustBelow \subseteq Amount /\ Amount \subseteq Nat \ {0} /\ MinCount > 0

ASSUME MonitorAssumption ==
  "STRUCTURING" \notin Channel /\ Dedupe \in Nat /\ MaxTime \in Nat /\ MaxTx \in Nat

Structuring == "STRUCTURING"
AllChannels == "*"
Never == MaxTime + Dedupe + 1
Key == User \X (Channel \cup {Structuring, AllChannels})

VARIABLES
  variant,           \* which of the two monitors runs
  now, txs,
  flagged,           \* until when a key is remembered
  run,               \* "idle", "alert" or "report"
  skip, window,      \* of the run: alreadyFlagged(), and the payments it has read
  todo, doing,       \* the keys it has still to look at, and the one it is at
  sars,              \* the reports saved
  alerted            \* history: the keys alerted of, and when

running == <<run, skip, window, todo, doing>>
vars == <<variant, now, txs, flagged, running, sars, alerted>>

Tx == [user : User, channel : Channel, amount : Amount, approved : BOOLEAN, at : 0 .. MaxTime]
Sar == [key : Key, total : Nat, txs : SUBSET (1 .. MaxTx)]

TypeOK ==
  /\ variant \in {"by channel", "by user"}
  /\ now \in 0 .. MaxTime
  /\ txs \in Seq(Tx) /\ Len(txs) <= MaxTx
  /\ flagged \in [Key -> 0 .. Never]
  /\ run \in {"idle", "alert", "report"}
  /\ skip \subseteq Key /\ todo \subseteq Key /\ window \subseteq 1 .. MaxTx
  /\ doing \subseteq Key /\ Cardinality(doing) <= 1
  /\ \A s \in sars : s.key \in Key /\ s.total \in Nat /\ s.txs \subseteq 1 .. MaxTx
  /\ alerted \in SUBSET (Key \X (0 .. MaxTime))

Init ==
  /\ variant \in {"by channel", "by user"}
  /\ now = 0 /\ txs = <<>>
  /\ flagged = [k \in Key |-> 0]
  /\ run = "idle" /\ skip = {} /\ window = {} /\ todo = {} /\ doing = {}
  /\ sars = {} /\ alerted = {}

----
Approved(from) == {i \in from : txs[i].approved}

(* The approved payments a key adds up: those of a user, of one channel or of
   all.  A report of structuring lists all of the user's. *)
PaymentsOf(key, from) ==
  {i \in Approved(from) : txs[i].user = key[1] /\ key[2] \in {txs[i].channel, Structuring, AllChannels}}

Total(set) == SumOf([i \in DOMAIN txs |-> txs[i].amount], set)

ThresholdOf(key) == IF key[2] = AllChannels THEN DefaultThreshold ELSE Threshold[key[2]]

Volumes(from) ==
  {k \in User \X (IF variant = "by user" THEN {AllChannels} ELSE Channel) :
     Total(PaymentsOf(k, from)) >= ThresholdOf(k)}

(* detectStructuring. *)
Structured(from) ==
  IF variant = "by user" THEN {}
  ELSE {k \in User \X {Structuring} :
          Cardinality({i \in PaymentsOf(k, from) : txs[i].amount \in JustBelow}) >= MinCount}

Suspect(from) == Volumes(from) \cup Structured(from)

Recent == {i \in DOMAIN txs : txs[i].at + WindowHours >= now}

StartForgetsNothing ==      \* mutant: a flag is remembered for ever
  /\ run = "idle"
  /\ window' = Recent
  /\ skip' = {k \in Key : flagged[k] > 0}
  /\ todo' = Suspect(Recent)
  /\ run' = "alert" /\ doing' = {}
  /\ UNCHANGED <<variant, now, txs, flagged, sars, alerted>>

(* run: what there is to look at. *)
Start ==
  /\ run = "idle"
  /\ window' = Recent
  /\ skip' = {k \in Key : flagged[k] > now}
  /\ todo' = Suspect(Recent)
  /\ run' = "alert" /\ doing' = {}
  /\ UNCHANGED <<variant, now, txs, flagged, sars, alerted>>

Skip(k) ==
  /\ run = "alert" /\ k \in todo /\ k \in skip
  /\ todo' = todo \ {k}
  /\ UNCHANGED <<variant, now, txs, flagged, run, skip, window, doing, sars, alerted>>

(* sendAlert and recordFlag; the older monitor files no report. *)
AlertAndFlag(k) ==
  /\ run = "alert" /\ k \in todo \ skip
  /\ alerted' = alerted \cup {<<k, now>>}
  /\ flagged' = [flagged EXCEPT ![k] = now + Dedupe]
  /\ todo' = todo \ {k}
  /\ IF variant = "by channel" THEN run' = "report" /\ doing' = {k} ELSE UNCHANGED <<run, doing>>
  /\ UNCHANGED <<variant, now, txs, skip, window, sars>>

FlagFailed(k) ==      \* mutant: the flag is recorded before the alert is sent
  /\ run = "alert" /\ k \in todo \ skip
  /\ flagged' = [flagged EXCEPT ![k] = now + Dedupe]
  /\ todo' = todo \ {k}
  /\ UNCHANGED <<variant, now, txs, run, skip, window, doing, sars, alerted>>

(* sendAlert fails: counted in errors, and the run goes on. *)
AlertFails(k) ==
  /\ run = "alert" /\ k \in todo \ skip
  /\ todo' = todo \ {k}
  /\ UNCHANGED <<variant, now, txs, flagged, run, skip, window, doing, sars, alerted>>

ReportAll(k, from) ==      \* mutant: the report lists what was declined too
  [key |-> k, total |-> Total(PaymentsOf(k, from)), txs |-> {i \in from : txs[i].user = k[1]}]

(* generateSar. *)
Report(k, from) ==
  [key |-> k, total |-> Total(PaymentsOf(k, from)), txs |-> PaymentsOf(k, from)]

(* onSarGenerated, which saves the report or fails: counted, not retried. *)
SaveSar ==
  /\ run = "report"
  /\ \/ sars' = sars \cup {Report(k, window) : k \in doing}
     \/ UNCHANGED sars
  /\ run' = "alert" /\ doing' = {}
  /\ UNCHANGED <<variant, now, txs, flagged, skip, window, todo, alerted>>

(* The run ends, or its function is stopped. *)
End(done) ==
  /\ run # "idle" /\ (done => run = "alert" /\ todo = {})
  /\ run' = "idle" /\ skip' = {} /\ window' = {} /\ todo' = {} /\ doing' = {}
  /\ UNCHANGED <<variant, now, txs, flagged, sars, alerted>>

RunEnds == End(TRUE)

RunDies == End(FALSE)

(* A payment by a user, approved or declined. *)
Pay(u, c, a, approved) ==
  /\ Len(txs) < MaxTx
  /\ txs' = Append(txs, [user |-> u, channel |-> c, amount |-> a, approved |-> approved, at |-> now])
  /\ UNCHANGED <<variant, now, flagged, running, sars, alerted>>

Tick ==
  /\ now < MaxTime
  /\ now' = now + 1
  /\ UNCHANGED <<variant, txs, flagged, running, sars, alerted>>

Next ==
  \/ Start \/ SaveSar \/ RunEnds \/ RunDies
  \/ \E k \in Key : Skip(k) \/ AlertAndFlag(k) \/ AlertFails(k)
  \/ \E u \in User, c \in Channel, a \in Amount, b \in BOOLEAN : Pay(u, c, a, b)
  \/ Tick

(* The cron starts again and again, and an alert that is tried for ever is
   sent in the end. *)
Fairness ==
  /\ WF_vars(Start) /\ WF_vars(SaveSar) /\ WF_vars(RunEnds)
  /\ \A k \in Key : WF_vars(Skip(k)) /\ SF_vars(AlertAndFlag(k))

Spec == Init /\ [][Next]_vars /\ Fairness

----
(***************************************************************************)
(* Who is remembered as flagged, and so skipped by every run to come, has  *)
(* been alerted of: an alert that fails, or a run that dies, leaves no     *)
(* mark (uiaf-monitor.ts:304-307).                                         *)
(***************************************************************************)
FlaggedIsAlerted ==
  \A k \in Key : flagged[k] > 0 => <<k, flagged[k] - Dedupe>> \in alerted

(***************************************************************************)
(* A report says what it lists: its total is that of its payments, all of  *)
(* them approved payments of its user, and they pass the threshold or are  *)
(* often enough just below the limit, although payments go on while the    *)
(* run that reports them is under way.                                     *)
(***************************************************************************)
ReportAddsUp ==
  \A s \in sars :
    /\ s.total = Total(s.txs)
    /\ \A i \in s.txs : txs[i].user = s.key[1] /\ txs[i].approved
    /\ IF s.key[2] = Structuring
       THEN Cardinality({i \in s.txs : txs[i].amount \in JustBelow}) >= MinCount
       ELSE s.total >= ThresholdOf(s.key)

(***************************************************************************)
(* Whoever passes a threshold is alerted of, or has been within the time   *)
(* flags are kept, or falls out of the window before a run gets an alert   *)
(* through.                                                                *)
(***************************************************************************)
SuspectIsAlerted ==
  \A k \in Key : (k \in Suspect(Recent)) ~> (flagged[k] > now \/ k \notin Suspect(Recent))

(* What the memory of the monitor and its reports rest on. *)
FlagsAreFounded == FlaggedIsAlerted /\ ReportAddsUp

(* "Generate + persist SAR": a user alerted of has a report, or one on its
   way.  The code breaks it: the save may fail, and the flag stays. *)
AlertedIsReported ==
  \A a \in alerted : variant = "by channel" /\ a[1] \notin doing =>
    \E s \in sars : s.key = a[1]
====
