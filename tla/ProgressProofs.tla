---- MODULE ProgressProofs ----
(***************************************************************************)
(* Proofs of what the monitor of the UIAF, the rights of the data subjects *)
(* and the checkout promise.                                               *)
(***************************************************************************)
EXTENDS Progress, SumsProofs, TLAPS

----
(***************************************************************************)
(* Uiaf.                                                                   *)
(***************************************************************************)
RunTyped ==
  /\ now \in Nat /\ DOMAIN flagged = Key
  /\ txs \in Seq([user : User, channel : Channel, amount : Amount, approved : BOOLEAN, at : Nat])
  /\ window \subseteq DOMAIN txs
  /\ doing \subseteq Key

(* What a run has still to look at is suspect by the payments it has read. *)
TodoIsSuspect == todo \cup doing \subseteq Suspect(window)

(* A report lists payments that are there, and by which its key is suspect. *)
SarsAddUp ==
  \A s \in sars :
    /\ s.txs \subseteq DOMAIN txs
    /\ s.total = Total(s.txs)
    /\ \A i \in s.txs : txs[i].user = s.key[1] /\ txs[i].approved
    /\ IF s.key[2] = Structuring
       THEN Cardinality({i \in s.txs : txs[i].amount \in JustBelow}) >= MinCount
       ELSE s.total >= ThresholdOf(s.key)

UiafInv == RunTyped /\ TodoIsSuspect /\ FlaggedIsAlerted /\ SarsAddUp

LEMMA UiafStarts == Init => UiafInv
<1>. SUFFICES ASSUME Init PROVE UiafInv
  OBVIOUS
<1>1. RunTyped
  <2>1. txs = <<>> /\ window = {} /\ doing = {} /\ now = 0 /\ flagged = [k \in Key |-> 0]
    BY DEF Init
  <2>2. <<>> \in Seq([user : User, channel : Channel, amount : Amount, approved : BOOLEAN, at : Nat])
    OBVIOUS
  <2>3. DOMAIN flagged = Key /\ now \in Nat
    BY <2>1
  <2>. QED
    BY <2>1, <2>2, <2>3 DEF RunTyped
<1>2. TodoIsSuspect
  BY DEF Init, TodoIsSuspect
<1>3. FlaggedIsAlerted
  <2>1. \A k \in Key : flagged[k] = 0
    BY DEF Init
  <2>2. \A k \in Key : ~(flagged[k] > 0)
    BY <2>1
  <2>. QED
    BY <2>2 DEF FlaggedIsAlerted
<1>4. SarsAddUp
  BY DEF Init, SarsAddUp
<1>. QED
  BY <1>1, <1>2, <1>3, <1>4 DEF UiafInv

LEMMA FinitePayments == ASSUME RunTyped, NEW S \in SUBSET DOMAIN txs PROVE IsFiniteSet(S)
<1>1. PICK n \in Nat : DOMAIN txs = 1 .. n
  <2>. DEFINE T == [user : User, channel : Channel, amount : Amount, approved : BOOLEAN, at : Nat]
  <2>1. txs \in Seq(T)
    BY DEF RunTyped
  <2>. HIDE DEF T
  <2>. QED
    BY <2>1
<1>2. IsFiniteSet(1 .. n)
  BY FS_Interval
<1>. QED
  BY <1>1, <1>2, FS_Subset

(* The payments there were are still there, and what a set of them adds up
   to is the same after another. *)
PaymentsStay == DOMAIN txs \subseteq DOMAIN txs' /\ \A i \in DOMAIN txs : txs'[i] = txs[i]

LEMMA SameTotal ==
  ASSUME RunTyped, PaymentsStay, NEW S \in SUBSET DOMAIN txs
  PROVE  SumOf([i \in DOMAIN txs' |-> txs'[i].amount], S) = SumOf([i \in DOMAIN txs |-> txs[i].amount], S)
<1>. DEFINE f == [j \in DOMAIN txs' |-> txs'[j].amount]
            g == [j \in DOMAIN txs |-> txs[j].amount]
<1>1. \A i \in S : f[i] = g[i]
  BY DEF PaymentsStay
<1>2. IsFiniteSet(S)
  BY FinitePayments
<1>. HIDE DEF f, g
<1>3. SumOf(f, S) = SumOf(g, S)
  BY <1>1, <1>2, SumOfSame
<1>. QED
  BY <1>3 DEF f, g

LEMMA SamePayments ==
  ASSUME PaymentsStay, NEW from \in SUBSET DOMAIN txs, window' = from, NEW k
  PROVE  PaymentsOf(k, window)' = PaymentsOf(k, from)
BY DEF PaymentsStay, PaymentsOf, Approved

LEMMA SameSuspects ==
  ASSUME RunTyped, PaymentsStay, UNCHANGED variant, NEW from \in SUBSET DOMAIN txs, window' = from
  PROVE  Suspect(window)' = Suspect(from)
<1>1. ASSUME NEW k PROVE Total(PaymentsOf(k, window))' = Total(PaymentsOf(k, from))
  <2>. PICK S : S = PaymentsOf(k, from)
    OBVIOUS
  <2>1. S \in SUBSET DOMAIN txs
    BY DEF PaymentsOf, Approved
  <2>2. PaymentsOf(k, window)' = S
    BY SamePayments
  <2>3. SumOf([i \in DOMAIN txs' |-> txs'[i].amount], S) = SumOf([i \in DOMAIN txs |-> txs[i].amount], S)
    BY <2>1, SameTotal
  <2>4. Total(PaymentsOf(k, window))' = SumOf([i \in DOMAIN txs' |-> txs'[i].amount], PaymentsOf(k, window)')
    BY Zenon DEF Total
  <2>5. Total(PaymentsOf(k, from)) = SumOf([i \in DOMAIN txs |-> txs[i].amount], PaymentsOf(k, from))
    BY Zenon DEF Total
  <2>. QED
    BY <2>2, <2>3, <2>4, <2>5, Zenon
<1>2. Volumes(window)' = Volumes(from)
  <2>. DEFINE all == User \X (IF variant = "by user" THEN {AllChannels} ELSE Channel)
  <2>1. Volumes(from) = {k \in all : Total(PaymentsOf(k, from)) >= ThresholdOf(k)}
    BY Zenon DEF Volumes
  <2>2. Volumes(window)' = {k \in all' : Total(PaymentsOf(k, window))' >= ThresholdOf(k)}
    BY Zenon DEF Volumes, ThresholdOf
  <2>3. all' = all
    OBVIOUS
  <2>. HIDE DEF all
  <2>. QED
    BY <1>1, <2>1, <2>2, <2>3
<1>3. Structured(window)' = Structured(from)
  <2>1. ASSUME NEW k
        PROVE  {i \in PaymentsOf(k, window) : txs[i].amount \in JustBelow}'
                 = {i \in PaymentsOf(k, from) : txs[i].amount \in JustBelow}
    <3>1. PaymentsOf(k, window)' = PaymentsOf(k, from) /\ PaymentsOf(k, from) \subseteq DOMAIN txs
      BY SamePayments DEF PaymentsOf, Approved
    <3>. QED
      BY <3>1 DEF PaymentsStay
  <2>. QED
    BY <2>1 DEF Structured
<1>. QED
  BY <1>2, <1>3 DEF Suspect

(* A suspect is reported with payments by which it is one. *)
LEMMA SuspectAddsUp ==
  ASSUME MonitorAssumption, NEW k \in Key, k \in Suspect(window), window \subseteq DOMAIN txs
  PROVE  LET s == Report(k, window) IN
         /\ s.key = k /\ s.txs \subseteq DOMAIN txs /\ s.total = Total(s.txs)
         /\ \A i \in s.txs : txs[i].user = k[1] /\ txs[i].approved
         /\ IF k[2] = Structuring
            THEN Cardinality({i \in s.txs : txs[i].amount \in JustBelow}) >= MinCount
            ELSE s.total >= ThresholdOf(k)
<1>. PICK set : set = PaymentsOf(k, window)
  OBVIOUS
<1>. PICK s : s = Report(k, window)
  OBVIOUS
<1>1. s.key = k /\ s.txs = set /\ s.total = Total(set)
  BY DEF Report
<1>2. set \subseteq DOMAIN txs /\ \A i \in set : txs[i].user = k[1] /\ txs[i].approved
  BY DEF PaymentsOf, Approved
<1>3. CASE k[2] = Structuring
  <2>1. k \notin Volumes(window)
    BY <1>3 DEF Volumes, Structuring, AllChannels, MonitorAssumption
  <2>2. k \in Structured(window)
    BY <2>1 DEF Suspect
  <2>3. Cardinality({i \in set : txs[i].amount \in JustBelow}) >= MinCount
    BY <2>2 DEF Structured
  <2>. QED
    BY <1>1, <1>2, <1>3, <2>3
<1>4. CASE k[2] # Structuring
  <2>1. k \notin Structured(window)
    BY <1>4 DEF Structured
  <2>2. k \in Volumes(window)
    BY <2>1 DEF Suspect
  <2>3. Total(set) >= ThresholdOf(k)
    BY <2>2 DEF Volumes
  <2>. QED
    BY <1>1, <1>2, <1>4, <2>3
<1>. QED
  BY <1>3, <1>4

LEMMA TodoStays ==
  ASSUME RunTyped, TodoIsSuspect, PaymentsStay, UNCHANGED <<variant, window>>,
         todo' \cup doing' \subseteq todo \cup doing
  PROVE  TodoIsSuspect'
<1>. PICK from : from = window
  OBVIOUS
<1>1. from \in SUBSET DOMAIN txs /\ window' = from
  BY DEF RunTyped
<1>2. Suspect(window)' = Suspect(from)
  BY <1>1, SameSuspects
<1>. QED
  BY <1>2 DEF TodoIsSuspect

LEMMA UiafUnmoved ==
  ASSUME UiafInv, PaymentsStay, UNCHANGED <<variant, window>>, todo' \cup doing' \subseteq todo \cup doing,
         sars' = sars
  PROVE  TodoIsSuspect' /\ SarsAddUp'
<1>2. TodoIsSuspect'
  BY TodoStays DEF UiafInv
<1>3. SarsAddUp'
  <2>. SUFFICES ASSUME NEW s \in sars
                PROVE  /\ s.txs \subseteq DOMAIN txs'
                       /\ s.total = Total(s.txs)'
                       /\ \A i \in s.txs : txs'[i].user = s.key[1] /\ txs'[i].approved
                       /\ IF s.key[2] = Structuring
                          THEN Cardinality({i \in s.txs : txs'[i].amount \in JustBelow}) >= MinCount
                          ELSE s.total >= ThresholdOf(s.key)
    BY DEF SarsAddUp
  <2>. PICK S : S = s.txs
    OBVIOUS
  <2>1. S \in SUBSET DOMAIN txs /\ s.total = Total(S)
    BY DEF UiafInv, SarsAddUp
  <2>2. SumOf([i \in DOMAIN txs' |-> txs'[i].amount], S) = SumOf([i \in DOMAIN txs |-> txs[i].amount], S)
    BY <2>1, SameTotal DEF UiafInv
  <2>3. s.total = Total(s.txs)'
    BY <2>1, <2>2, Zenon DEF Total
  <2>4. S \subseteq DOMAIN txs' /\ \A i \in S : txs'[i].user = s.key[1] /\ txs'[i].approved
    BY <2>1 DEF UiafInv, SarsAddUp, PaymentsStay
  <2>5. {i \in S : txs'[i].amount \in JustBelow} = {i \in S : txs[i].amount \in JustBelow}
    BY <2>1 DEF PaymentsStay
  <2>6. IF s.key[2] = Structuring
        THEN Cardinality({i \in S : txs'[i].amount \in JustBelow}) >= MinCount
        ELSE s.total >= ThresholdOf(s.key)
    <3>1. IF s.key[2] = Structuring
          THEN Cardinality({i \in S : txs[i].amount \in JustBelow}) >= MinCount
          ELSE s.total >= ThresholdOf(s.key)
      BY DEF UiafInv, SarsAddUp
    <3>. QED
      BY <2>5, <3>1, Zenon
  <2>. QED
    BY <2>3, <2>4, <2>6
<1>. QED
  BY <1>2, <1>3

LEMMA UiafSteps == UiafInv /\ [Next]_vars => UiafInv'
<1>. SUFFICES ASSUME UiafInv, [Next]_vars PROVE UiafInv'
  OBVIOUS
<1>0. ASSUME UNCHANGED <<variant, txs, window>>, todo' \cup doing' \subseteq todo \cup doing, sars' = sars
      PROVE  TodoIsSuspect' /\ SarsAddUp'
  <2>1. PaymentsStay
    BY <1>0 DEF PaymentsStay
  <2>. QED
    BY <1>0, <2>1, UiafUnmoved
<1>1. CASE UNCHANGED vars
  <2>1. UNCHANGED <<variant, now, txs, flagged, window, todo, doing, sars, alerted>>
    BY <1>1 DEF vars, running
  <2>2. RunTyped' /\ FlaggedIsAlerted'
    BY <2>1 DEF UiafInv, RunTyped, FlaggedIsAlerted
  <2>. QED
    BY <1>0, <2>1, <2>2 DEF UiafInv
<1>2. CASE Start
  <2>1. /\ window' = Recent /\ todo' = Suspect(Recent) /\ doing' = {}
        /\ UNCHANGED <<variant, now, txs, flagged, sars, alerted>>
    BY <1>2 DEF Start
  <2>2. RunTyped' /\ FlaggedIsAlerted'
    BY <2>1 DEF UiafInv, RunTyped, FlaggedIsAlerted, Recent
  <2>3. Suspect(window)' = Suspect(Recent)
    <3>. PICK from : from = Recent
      OBVIOUS
    <3>1. PaymentsStay
      BY <2>1 DEF PaymentsStay
    <3>2. from \in SUBSET DOMAIN txs /\ window' = from
      BY <2>1 DEF Recent
    <3>3. Suspect(window)' = Suspect(from)
      BY <2>1, <3>1, <3>2, SameSuspects DEF UiafInv
    <3>. QED
      BY <3>3
  <2>4. TodoIsSuspect'
    BY <2>1, <2>3 DEF TodoIsSuspect
  <2>5. SarsAddUp'
    BY <2>1 DEF UiafInv, SarsAddUp, Total
  <2>. QED
    BY <2>2, <2>4, <2>5 DEF UiafInv
<1>3. CASE SaveSar
  <2>1. /\ sars' = sars \cup {Report(k, window) : k \in doing} \/ sars' = sars
        /\ doing' = {}
        /\ UNCHANGED <<variant, now, txs, flagged, window, todo, alerted>>
    BY <1>3 DEF SaveSar
  <2>2. RunTyped' /\ FlaggedIsAlerted'
    BY <2>1 DEF UiafInv, RunTyped, FlaggedIsAlerted
  <2>3. TodoIsSuspect'
    <3>1. PaymentsStay
      BY <2>1 DEF PaymentsStay
    <3>. QED
      BY <2>1, <3>1, TodoStays DEF UiafInv
  <2>4. SarsAddUp'
    <3>. SUFFICES ASSUME NEW s \in sars'
                  PROVE  /\ s.txs \subseteq DOMAIN txs
                         /\ s.total = Total(s.txs)
                         /\ \A i \in s.txs : txs[i].user = s.key[1] /\ txs[i].approved
                         /\ IF s.key[2] = Structuring
                            THEN Cardinality({i \in s.txs : txs[i].amount \in JustBelow}) >= MinCount
                            ELSE s.total >= ThresholdOf(s.key)
      BY <2>1 DEF SarsAddUp, Total
    <3>1. CASE s \in sars
      BY <3>1 DEF UiafInv, SarsAddUp
    <3>2. CASE s \notin sars
      <4>1. PICK k \in doing : s = Report(k, window)
        BY <2>1, <3>2
      <4>2. k \in Key /\ k \in Suspect(window) /\ window \subseteq DOMAIN txs
        BY DEF UiafInv, RunTyped, TodoIsSuspect
      <4>. QED
        BY <4>1, <4>2, SuspectAddsUp, MonitorAssumption
    <3>. QED
      BY <3>1, <3>2
  <2>. QED
    BY <2>2, <2>3, <2>4 DEF UiafInv
<1>4. CASE RunEnds \/ RunDies
  <2>1. /\ window' = {} /\ todo' = {} /\ doing' = {}
        /\ UNCHANGED <<variant, now, txs, flagged, sars, alerted>>
    BY <1>4 DEF RunEnds, RunDies, End
  <2>2. RunTyped' /\ FlaggedIsAlerted'
    BY <2>1 DEF UiafInv, RunTyped, FlaggedIsAlerted
  <2>3. TodoIsSuspect'
    BY <2>1 DEF TodoIsSuspect
  <2>4. SarsAddUp'
    BY <2>1 DEF UiafInv, SarsAddUp, Total
  <2>. QED
    BY <2>2, <2>3, <2>4 DEF UiafInv
<1>5. ASSUME NEW k \in Key, Skip(k) \/ AlertFails(k) PROVE UiafInv'
  <2>1. /\ todo' = todo \ {k}
        /\ UNCHANGED <<variant, now, txs, flagged, window, doing, sars, alerted>>
    BY <1>5 DEF Skip, AlertFails
  <2>2. RunTyped' /\ FlaggedIsAlerted'
    BY <2>1 DEF UiafInv, RunTyped, FlaggedIsAlerted
  <2>. QED
    BY <1>0, <2>1, <2>2 DEF UiafInv
<1>6. ASSUME NEW k \in Key, AlertAndFlag(k) PROVE UiafInv'
  <2>1. /\ k \in todo /\ alerted' = alerted \cup {<<k, now>>}
        /\ flagged' = [flagged EXCEPT ![k] = now + Dedupe]
        /\ todo' = todo \ {k} /\ (doing' = {k} \/ doing' = doing)
        /\ UNCHANGED <<variant, now, txs, window, sars>>
    BY <1>6 DEF AlertAndFlag
  <2>2. RunTyped'
    BY <2>1 DEF UiafInv, RunTyped
  <2>3. FlaggedIsAlerted'
    <3>. SUFFICES ASSUME NEW j \in Key, flagged'[j] > 0 PROVE <<j, flagged'[j] - Dedupe>> \in alerted'
      BY DEF FlaggedIsAlerted
    <3>1. CASE j = k
      <4>1. now \in Nat /\ Dedupe \in Nat /\ DOMAIN flagged = Key
        BY MonitorAssumption DEF UiafInv, RunTyped
      <4>2. flagged'[k] - Dedupe = now
        BY <2>1, <4>1
      <4>. QED
        BY <2>1, <3>1, <4>2
    <3>2. CASE j # k
      <4>1. flagged'[j] = flagged[j]
        BY <2>1, <3>2 DEF UiafInv, RunTyped
      <4>. QED
        BY <2>1, <4>1 DEF UiafInv, FlaggedIsAlerted
    <3>. QED
      BY <3>1, <3>2
  <2>. QED
    BY <1>0, <2>1, <2>2, <2>3 DEF UiafInv
<1>7. ASSUME NEW u \in User, NEW c \in Channel, NEW a \in Amount, NEW b \in BOOLEAN, Pay(u, c, a, b)
      PROVE  UiafInv'
  <2>. PICK tx : tx = [user |-> u, channel |-> c, amount |-> a, approved |-> b, at |-> now]
    OBVIOUS
  <2>. DEFINE T == [user : User, channel : Channel, amount : Amount, approved : BOOLEAN, at : Nat]
  <2>1. /\ txs' = Append(txs, tx)
        /\ UNCHANGED <<variant, now, flagged, window, todo, doing, sars, alerted>>
    BY <1>7 DEF Pay, running
  <2>2. tx \in T /\ txs \in Seq(T)
    BY DEF UiafInv, RunTyped
  <2>. HIDE DEF T
  <2>3. txs' \in Seq(T)
    BY <2>1, <2>2
  <2>4. PaymentsStay
    BY <2>1, <2>2 DEF PaymentsStay
  <2>5. RunTyped'
    BY <2>1, <2>3, <2>4 DEF UiafInv, RunTyped, PaymentsStay, T
  <2>6. FlaggedIsAlerted'
    BY <2>1 DEF UiafInv, FlaggedIsAlerted
  <2>7. TodoIsSuspect' /\ SarsAddUp'
    BY <2>1, <2>4, UiafUnmoved
  <2>. QED
    BY <2>5, <2>6, <2>7 DEF UiafInv
<1>8. CASE Tick
  <2>1. now' = now + 1 /\ UNCHANGED <<variant, txs, flagged, window, todo, doing, sars, alerted>>
    BY <1>8 DEF Tick, running
  <2>2. RunTyped' /\ FlaggedIsAlerted'
    BY <2>1 DEF UiafInv, RunTyped, FlaggedIsAlerted
  <2>. QED
    BY <1>0, <2>1, <2>2 DEF UiafInv
<1>. QED
  BY <1>1, <1>2, <1>3, <1>4, <1>5, <1>6, <1>7, <1>8 DEF Next

(***************************************************************************)
(* Who is remembered as flagged was alerted of, whichever alerts fail and  *)
(* runs die, and a report lists approved payments of its user which add up *)
(* to its total and to what makes the user suspect, however many payments  *)
(* are made while the run that reports them is under way: of both          *)
(* monitors, for any users, channels, amounts and thresholds.              *)
(***************************************************************************)
THEOREM MonitorIsFounded == Spec => []FlagsAreFounded
<1>1. UiafInv => FlagsAreFounded
  BY DEF UiafInv, SarsAddUp, FlagsAreFounded, ReportAddsUp
<1>. QED
  BY <1>1, UiafStarts, UiafSteps, PTL DEF Spec

----
(***************************************************************************)
(* Rights.                                                                 *)
(***************************************************************************)
Entry == [op : {"update", "rectify", "know", "suppress"}, nit : Nit, outcome : {"verified", "completed"},
          deadline : {t + SlaDays : t \in Rights!Time}, breached : BOOLEAN, applied : BOOLEAN]

RightsTyped ==
  /\ rightsNow \in Rights!Time
  /\ DOMAIN place = Nit /\ DOMAIN field = Nit /\ DOMAIN suppressed = Nit
  /\ DOMAIN rightsPc = Worker /\ DOMAIN rightsCall = Worker
  /\ \A w \in Worker : rightsCall[w] \in Rights!Call
  /\ log \in Seq(Entry)

(* A request is where its statements have brought it: past the erasure when
   it hides the commerce, past both halves or the edit when it writes to the
   log. *)
StatementsInOrder ==
  \A w \in Worker : LET c == rightsCall[w] IN
    /\ rightsPc[w] = "hide" => suppressed[c.nit] /\ c.op = "suppress"
    /\ rightsPc[w] = "audit" =>
         /\ c.op = "update" => c.applied
         /\ c.op = "suppress" => suppressed[c.nit] /\ place[c.nit] = "hidden"

(* What the monitor is about to mark was in its email. *)
FoundIsAlerted == monitor = "flag" => found \subseteq emailed

RightsInv == RightsTyped /\ StatementsInOrder /\ FoundIsAlerted /\ RightsAreKept

LEMMA NoCallTyped == Rights!NoCall \in Rights!Call /\ Rights!NoCall.op = "know"
<1>1. (CHOOSE n \in Nit : TRUE) \in Nit /\ (CHOOSE v \in Value : TRUE) \in Value
  BY RightsAssumption
<1>. QED
  BY <1>1 DEF Rights!NoCall, Rights!Call

LEMMA RightsStart == Rights!Init => RightsInv
<1>. SUFFICES ASSUME Rights!Init PROVE RightsInv
  OBVIOUS
<1>1. RightsTyped
  <2>1. log = <<>> /\ <<>> \in Seq(Entry)
    BY DEF Rights!Init
  <2>. QED
    BY <2>1, NoCallTyped, RightsAssumption DEF Rights!Init, RightsTyped, Rights!Time
<1>2. StatementsInOrder /\ FoundIsAlerted
  BY DEF Rights!Init, StatementsInOrder, FoundIsAlerted
<1>3. RightsAreKept
  BY DEF Rights!Init, RightsAreKept, Rights!ErasedStaysErased, Rights!HiddenIsErased, Rights!AuditTellsTruth,
         Rights!FlaggedIsAlerted
<1>. QED
  BY <1>1, <1>2, <1>3 DEF RightsInv

LEMMA RightsSteps == RightsInv /\ [Rights!Next]_(Rights!vars) => RightsInv'
<1>. SUFFICES ASSUME RightsInv, [Rights!Next]_(Rights!vars) PROVE RightsInv'
  OBVIOUS
<1>. USE DEF RightsInv, RightsTyped, StatementsInOrder, FoundIsAlerted, RightsAreKept,
             Rights!ErasedStaysErased, Rights!HiddenIsErased, Rights!AuditTellsTruth, Rights!FlaggedIsAlerted,
             Rights!data, Rights!calls, Rights!monitoring
<1>. HIDE DEF Entry
<1>1. CASE UNCHANGED Rights!vars
  BY <1>1 DEF Rights!vars
<1>2. ASSUME NEW w \in Worker, Rights!Done(w),
             UNCHANGED <<rightsNow, place, field, suppressed, log, monitor, found, emailed>>
      PROVE  RightsInv'
  BY <1>2, NoCallTyped DEF Rights!Done
<1>3. ASSUME NEW w \in Worker, NEW op \in {"update", "rectify", "know", "suppress"}, NEW n \in Nit,
             NEW v \in Value, Rights!Ask(w, op, n, v)
      PROVE  RightsInv'
  <2>. PICK c : c = [op |-> op, nit |-> n, value |-> v, applied |-> FALSE]
    OBVIOUS
  <2>1. c \in Rights!Call /\ c.op = op /\ c.nit = n
    BY DEF Rights!Call, Rights!EditOps
  <2>2. /\ rightsCall' = [rightsCall EXCEPT ![w] = c]
        /\ rightsPc' = [rightsPc EXCEPT ![w] = IF op = "know" THEN "audit" ELSE "write"]
        /\ UNCHANGED <<rightsNow, place, field, suppressed, log, monitor, found, emailed>>
    BY <1>3 DEF Rights!Ask
  <2>. QED
    BY <2>1, <2>2
<1>4. ASSUME NEW w \in Worker, Rights!AskRefused(w) PROVE RightsInv'
  BY <1>1, <1>4 DEF Rights!AskRefused, Rights!vars
<1>5. ASSUME NEW w \in Worker, Rights!Edit(w) PROVE RightsInv'
  <2>. PICK was, c : was = rightsCall[w] /\ c = [was EXCEPT !.applied = TRUE]
    OBVIOUS
  <2>1. was \in Rights!Call
    OBVIOUS
  <2>2. c \in Rights!Call /\ c.op = was.op /\ c.nit = was.nit /\ c.applied
    BY <2>1 DEF Rights!Call
  <2>3. /\ rightsCall' = [rightsCall EXCEPT ![w] = c]
        /\ rightsPc' = [rightsPc EXCEPT ![w] = "audit"]
        /\ was.op \in {"update", "rectify"} /\ was.nit \in Nit /\ ~suppressed[was.nit]
        /\ field' = [field EXCEPT ![was.nit] = was.value]
        /\ UNCHANGED <<rightsNow, place, suppressed, log, monitor, found, emailed>>
    BY <1>5, <2>1 DEF Rights!Edit, Rights!EditOps, Rights!Editable, Rights!Call
  <2>. QED
    BY <2>2, <2>3
<1>6. ASSUME NEW w \in Worker, Rights!EditMissed(w) PROVE RightsInv'
  <2>1. CASE rightsCall[w].op = "update"
    BY <1>2, <1>6, <2>1 DEF Rights!EditMissed
  <2>2. CASE rightsCall[w].op # "update"
    BY <1>6, <2>2 DEF Rights!EditMissed, Rights!EditOps
  <2>. QED
    BY <2>1, <2>2
<1>7. ASSUME NEW w \in Worker, Rights!Erase(w) PROVE RightsInv'
  <2>. PICK was, c : was = rightsCall[w] /\ c = [was EXCEPT !.applied = TRUE]
    OBVIOUS
  <2>1. was \in Rights!Call
    OBVIOUS
  <2>2. c \in Rights!Call /\ c.op = was.op /\ c.nit = was.nit
    BY <2>1 DEF Rights!Call
  <2>3. /\ rightsCall' = [rightsCall EXCEPT ![w] = c]
        /\ rightsPc' = [rightsPc EXCEPT ![w] = "hide"]
        /\ was.op = "suppress" /\ was.nit \in Nit
        /\ suppressed' = [suppressed EXCEPT ![was.nit] = TRUE]
        /\ field' = IF suppressed[was.nit] THEN field ELSE [field EXCEPT ![was.nit] = Rights!Null]
        /\ UNCHANGED <<rightsNow, place, log, monitor, found, emailed>>
    BY <1>7, <2>1 DEF Rights!Erase, Rights!Call
  <2>. QED
    BY <2>2, <2>3
<1>8. ASSUME NEW w \in Worker, Rights!Hide(w) PROVE RightsInv'
  <2>. PICK was : was = rightsCall[w]
    OBVIOUS
  <2>1. /\ rightsPc' = [rightsPc EXCEPT ![w] = "audit"]
        /\ was.op = "suppress" /\ was.nit \in Nit /\ suppressed[was.nit]
        /\ place' = [place EXCEPT ![was.nit] = "hidden"]
        /\ UNCHANGED <<rightsNow, field, suppressed, rightsCall, log, monitor, found, emailed>>
    BY <1>8 DEF Rights!Hide, Rights!Call
  <2>. QED
    BY <2>1
<1>9. ASSUME NEW w \in Worker, Rights!PersistAudit(w) PROVE RightsInv'
  <2>. PICK c : c = rightsCall[w]
    OBVIOUS
  <2>. PICK entry : entry = [op |-> c.op, nit |-> c.nit, outcome |-> Rights!Outcome(c.op),
                             deadline |-> rightsNow + SlaDays, breached |-> FALSE, applied |-> c.applied]
    OBVIOUS
  <2>1. /\ log' = Append(log, entry) /\ Rights!Done(w) /\ rightsPc[w] = "audit"
        /\ UNCHANGED <<rightsNow, place, field, suppressed, monitor, found, emailed>>
    BY <1>9 DEF Rights!PersistAudit
  <2>2. c \in Rights!Call
    OBVIOUS
  <2>3. entry \in Entry
    BY <2>2 DEF Entry, Rights!Outcome, Rights!Call, Rights!EditOps
  <2>4. entry.op = c.op /\ entry.nit = c.nit /\ ~entry.breached /\ entry.applied = c.applied
    OBVIOUS
  <2>5. /\ log' \in Seq(Entry) /\ Len(log) \in Nat /\ DOMAIN log' = DOMAIN log \cup {Len(log) + 1}
        /\ log'[Len(log) + 1] = entry /\ \A i \in DOMAIN log : log'[i] = log[i]
    BY <2>1, <2>3
  <2>6. RightsTyped' /\ StatementsInOrder' /\ FoundIsAlerted'
    BY <2>1, <2>5, NoCallTyped DEF Rights!Done
  <2>7. Rights!ErasedStaysErased' /\ Rights!HiddenIsErased'
    BY <2>1
  <2>8. Rights!AuditTellsTruth'
    <3>. SUFFICES ASSUME NEW i \in DOMAIN log'
                  PROVE  /\ log'[i].op = "update" => log'[i].applied
                         /\ log'[i].op = "suppress" => suppressed[log'[i].nit] /\ place[log'[i].nit] = "hidden"
      BY <2>1
    <3>1. CASE i \in DOMAIN log
      BY <2>5, <3>1
    <3>2. CASE i = Len(log) + 1
      BY <2>1, <2>4, <2>5, <3>2
    <3>. QED
      BY <2>5, <3>1, <3>2
  <2>9. Rights!FlaggedIsAlerted'
    BY <2>1, <2>4, <2>5
  <2>. QED
    BY <2>6, <2>7, <2>8, <2>9
<1>10. ASSUME NEW w \in Worker, Rights!Fail(w) PROVE RightsInv'
  BY <1>2, <1>10 DEF Rights!Fail
<1>11. CASE Rights!MonitorStarts \/ Rights!MonitorFails
  BY <1>11 DEF Rights!MonitorStarts, Rights!MonitorFails
<1>12. CASE Rights!Alert
  BY <1>12 DEF Rights!Alert
<1>13. CASE Rights!Flag
  <2>. PICK marks : marks = [i \in DOMAIN log |-> i \in found]
    OBVIOUS
  <2>1. /\ log' = [i \in DOMAIN log |-> [log[i] EXCEPT !.breached = @ \/ i \in found]]
        /\ monitor = "flag" /\ monitor' = "idle" /\ found' = {}
        /\ UNCHANGED <<rightsNow, place, field, suppressed, rightsPc, rightsCall, emailed>>
    BY <1>13 DEF Rights!Flag
  <2>2. \A i \in DOMAIN log :
          /\ log'[i] \in Entry
          /\ log'[i].op = log[i].op /\ log'[i].nit = log[i].nit /\ log'[i].applied = log[i].applied
          /\ log'[i].breached => log[i].breached \/ i \in found
    <3>. SUFFICES ASSUME NEW i \in DOMAIN log
                  PROVE  /\ log'[i] \in Entry
                         /\ log'[i].op = log[i].op /\ log'[i].nit = log[i].nit /\ log'[i].applied = log[i].applied
                         /\ log'[i].breached => log[i].breached \/ i \in found
      OBVIOUS
    <3>. PICK was \in Entry : was = log[i]
      OBVIOUS
    <3>. PICK mark \in BOOLEAN : mark = (log[i].breached \/ i \in found)
      OBVIOUS
    <3>1. log'[i] = [was EXCEPT !.breached = mark]
      BY <2>1
    <3>. PICK is : is = [was EXCEPT !.breached = mark]
      OBVIOUS
    <3>2. is \in Entry /\ is.op = was.op /\ is.nit = was.nit /\ is.applied = was.applied /\ is.breached = mark
      BY DEF Entry
    <3>. QED
      BY <3>1, <3>2
  <2>3. DOMAIN log' = DOMAIN log /\ log' \in Seq(Entry)
    <3>1. DOMAIN log = 1 .. Len(log) /\ Len(log) \in Nat
      OBVIOUS
    <3>2. log' \in [1 .. Len(log) -> Entry]
      BY <2>1, <2>2, <3>1
    <3>. QED
      BY <2>1, <3>1, <3>2
  <2>4. RightsTyped' /\ StatementsInOrder' /\ FoundIsAlerted'
    BY <2>1, <2>3
  <2>5. Rights!ErasedStaysErased' /\ Rights!HiddenIsErased'
    BY <2>1
  <2>6. Rights!AuditTellsTruth'
    <3>. SUFFICES ASSUME NEW i \in DOMAIN log
                  PROVE  /\ log'[i].op = "update" => log'[i].applied
                         /\ log'[i].op = "suppress" => suppressed[log'[i].nit] /\ place[log'[i].nit] = "hidden"
      BY <2>1, <2>3
    <3>1. /\ log[i].op = "update" => log[i].applied
          /\ log[i].op = "suppress" => suppressed[log[i].nit] /\ place[log[i].nit] = "hidden"
      OBVIOUS
    <3>2. log'[i].op = log[i].op /\ log'[i].nit = log[i].nit /\ log'[i].applied = log[i].applied
      BY <2>2
    <3>. QED
      BY <3>1, <3>2, Zenon
  <2>7. Rights!FlaggedIsAlerted'
    <3>. SUFFICES ASSUME NEW i \in DOMAIN log, log'[i].breached PROVE i \in emailed
      BY <2>1, <2>3
    <3>1. log[i].breached \/ i \in found
      BY <2>2
    <3>. QED
      BY <2>1, <3>1
  <2>. QED
    BY <2>4, <2>5, <2>6, <2>7
<1>14. CASE Rights!Tick
  <2>1. /\ rightsNow' \in Rights!Time
        /\ UNCHANGED <<place, field, suppressed, rightsPc, rightsCall, log, monitor, found, emailed>>
    BY <1>14, RightsAssumption DEF Rights!Tick, Rights!Time
  <2>. QED
    BY <2>1
<1>. QED
  BY <1>1, <1>3, <1>4, <1>5, <1>6, <1>7, <1>8, <1>9, <1>10, <1>11, <1>12, <1>13, <1>14
  DEF Rights!Next, Rights!RightsStep, Rights!EditOps

(***************************************************************************)
(* What a subject had erased stays erased, a hidden commerce has none of   *)
(* its data left, the log claims nothing that was not done, and a row      *)
(* marked as breached was in an email: for any requests under way at once, *)
(* any of them failing between two statements, and any batches.            *)
(***************************************************************************)
THEOREM RightsAreUpheld == Rights!Spec => []RightsAreKept
<1>1. RightsInv => RightsAreKept
  BY DEF RightsInv
<1>. QED
  BY <1>1, RightsStart, RightsSteps, PTL DEF Rights!Spec

----
(***************************************************************************)
(* Checkout.                                                               *)
(***************************************************************************)
Priced == Checkout!Intent

Sent == [mount : Nat, amount : Price, step : {"lookup", "create", "answered", "done"}, answer : Priced]

Booked == [key : Nat, amount_cop : Price, reference : Checkout!Requested]

CheckoutTyped ==
  /\ mount \in Nat /\ amount \in Price
  /\ requests \in Seq(Sent) /\ rows \in Seq(Booked)

(* A payment is of the modal whose key it has, and of an amount it asked for. *)
RowsWereAsked ==
  \A r \in DOMAIN rows : rows[r].key <= mount /\ (rows[r].key = mount => rows[r].amount_cop \in asked)

RequestsWereAsked ==
  \A i \in DOMAIN requests :
    requests[i].mount <= mount /\ (requests[i].mount = mount => requests[i].amount \in asked)

(* An intent is of a payment of a modal, and signed as it is or not at all. *)
IsBooked(table, intent, key) ==
  \E r \in DOMAIN table :
    /\ table[r].key = key /\ table[r].reference = intent.reference
    /\ table[r].amount_cop = intent.amount_in_cents

Fits(intent) ==
  intent.integrity_signature \in
    {Checkout!Unsigned, Checkout!Sign(intent.reference, intent.amount_in_cents)}

(* An answer is of a payment of the modal that asked. *)
AnswerIsBooked(request) ==
  request.step = "answered" => IsBooked(rows, request.answer, request.mount) /\ Fits(request.answer)

AnswersAreBooked == \A i \in DOMAIN requests : AnswerIsBooked(requests[i])

WidgetWasAsked ==
  widget # Checkout!NoIntent => IsBooked(rows, widget, mount) /\ Fits(widget)

CheckoutInv == CheckoutTyped /\ RowsWereAsked /\ RequestsWereAsked /\ AnswersAreBooked /\ WidgetWasAsked

LEMMA CheckoutStarts == Checkout!Init => CheckoutInv
<1>. SUFFICES ASSUME Checkout!Init PROVE CheckoutInv
  OBVIOUS
<1>1. <<>> \in Seq(Sent) /\ <<>> \in Seq(Booked)
  OBVIOUS
<1>2. CheckoutTyped
  BY <1>1 DEF Checkout!Init, CheckoutTyped
<1>. QED
  BY <1>2 DEF Checkout!Init, CheckoutInv, RowsWereAsked, RequestsWereAsked, AnswersAreBooked, WidgetWasAsked

(* A new request, with the widget gone. *)
LEMMA AskingIsFine ==
  ASSUME CheckoutInv, NEW a \in Price, Checkout!AskIntent(a), amount' \in Price, UNCHANGED <<mount, rows>>
  PROVE  CheckoutInv'
<1>. PICK request : request = [mount |-> mount, amount |-> a, step |-> "lookup", answer |-> Checkout!NoIntent]
  OBVIOUS
<1>1. /\ requests' = Append(requests, request) /\ asked' = asked \cup {a}
      /\ widget' = Checkout!NoIntent
  BY DEF Checkout!AskIntent
<1>2. Checkout!NoIntent \in Priced
  BY CheckoutAssumption DEF Priced, Checkout!Intent, Checkout!Signature, Checkout!NoIntent, Checkout!Unsigned
<1>3. request \in Sent /\ request.mount = mount /\ request.amount = a /\ request.step = "lookup"
  BY <1>2 DEF Sent, CheckoutInv, CheckoutTyped
<1>4. /\ requests' \in Seq(Sent) /\ Len(requests) \in Nat
      /\ DOMAIN requests' = DOMAIN requests \cup {Len(requests) + 1}
      /\ requests'[Len(requests) + 1] = request /\ \A i \in DOMAIN requests : requests'[i] = requests[i]
  BY <1>1, <1>3 DEF CheckoutInv, CheckoutTyped
<1>5. CheckoutTyped' /\ RowsWereAsked' /\ WidgetWasAsked'
  BY <1>1, <1>4 DEF CheckoutInv, CheckoutTyped, RowsWereAsked, WidgetWasAsked
<1>6. RequestsWereAsked'
  BY <1>1, <1>3, <1>4 DEF CheckoutInv, CheckoutTyped, RequestsWereAsked
<1>7. AnswersAreBooked'
  BY <1>3, <1>4 DEF CheckoutInv, AnswersAreBooked, AnswerIsBooked, IsBooked
<1>. QED
  BY <1>5, <1>6, <1>7 DEF CheckoutInv

(* A request that moves on, while the payments stay. *)
LEMMA RequestMovesOn ==
  ASSUME CheckoutInv, NEW i \in DOMAIN requests, NEW is \in Sent,
         requests' = [requests EXCEPT ![i] = is],
         is.mount = requests[i].mount, is.amount = requests[i].amount, AnswerIsBooked(is),
         UNCHANGED <<mount, amount, asked, rows>>
  PROVE  CheckoutTyped' /\ RowsWereAsked' /\ RequestsWereAsked' /\ AnswersAreBooked'
<1>1. /\ requests' \in Seq(Sent) /\ DOMAIN requests' = DOMAIN requests
      /\ requests'[i] = is /\ \A j \in DOMAIN requests : j # i => requests'[j] = requests[j]
  BY DEF CheckoutInv, CheckoutTyped
<1>2. CheckoutTyped' /\ RowsWereAsked'
  BY <1>1 DEF CheckoutInv, CheckoutTyped, RowsWereAsked
<1>3. RequestsWereAsked'
  BY <1>1 DEF CheckoutInv, RequestsWereAsked
<1>4. AnswersAreBooked'
  BY <1>1 DEF CheckoutInv, AnswersAreBooked, AnswerIsBooked, IsBooked
<1>. QED
  BY <1>2, <1>3, <1>4

LEMMA CheckoutSteps == CheckoutInv /\ [Checkout!Next]_(Checkout!vars) => CheckoutInv'
<1>. SUFFICES ASSUME CheckoutInv, [Checkout!Next]_(Checkout!vars) PROVE CheckoutInv'
  OBVIOUS
<1>. USE DEF Checkout!modal
<1>1. CASE UNCHANGED Checkout!vars
  BY <1>1 DEF Checkout!vars, CheckoutInv, CheckoutTyped, RowsWereAsked, RequestsWereAsked, AnswersAreBooked,
              AnswerIsBooked, WidgetWasAsked, IsBooked
<1>2. CASE Checkout!Open
  BY <1>2, AskingIsFine DEF Checkout!Open, CheckoutInv, CheckoutTyped
<1>3. ASSUME NEW a \in Price, Checkout!ChangeAmount(a) PROVE CheckoutInv'
  <2>1. CASE open
    BY <1>3, <2>1, AskingIsFine DEF Checkout!ChangeAmount
  <2>2. CASE ~open
    BY <1>3, <2>2 DEF Checkout!ChangeAmount, CheckoutInv, CheckoutTyped, RowsWereAsked, RequestsWereAsked,
                      AnswersAreBooked, AnswerIsBooked, WidgetWasAsked, IsBooked
  <2>. QED
    BY <2>1, <2>2
<1>4. CASE Checkout!Close
  BY <1>4 DEF Checkout!Close, CheckoutInv, CheckoutTyped, RowsWereAsked, RequestsWereAsked,
              AnswersAreBooked, AnswerIsBooked, WidgetWasAsked, IsBooked
<1>5. CASE Checkout!Remount
  <2>1. /\ mount' = mount + 1 /\ widget' = Checkout!NoIntent
        /\ UNCHANGED <<amount, requests, rows>>
    BY <1>5 DEF Checkout!Remount
  <2>2. CheckoutTyped' /\ AnswersAreBooked' /\ WidgetWasAsked'
    BY <2>1 DEF CheckoutInv, CheckoutTyped, AnswersAreBooked, AnswerIsBooked, WidgetWasAsked, IsBooked
  <2>3. RowsWereAsked'
    <3>. SUFFICES ASSUME NEW r \in DOMAIN rows PROVE rows[r].key <= mount + 1 /\ rows[r].key # mount + 1
      BY <2>1 DEF RowsWereAsked
    <3>1. rows[r] \in Booked /\ mount \in Nat /\ rows[r].key <= mount
      BY DEF CheckoutInv, CheckoutTyped, RowsWereAsked
    <3>2. rows[r].key \in Nat
      BY <3>1 DEF Booked
    <3>. QED
      BY <3>1, <3>2
  <2>4. RequestsWereAsked'
    <3>. SUFFICES ASSUME NEW i \in DOMAIN requests
                  PROVE  requests[i].mount <= mount + 1 /\ requests[i].mount # mount + 1
      BY <2>1 DEF RequestsWereAsked
    <3>1. requests[i] \in Sent /\ mount \in Nat /\ requests[i].mount <= mount
      BY DEF CheckoutInv, CheckoutTyped, RequestsWereAsked
    <3>2. requests[i].mount \in Nat
      BY <3>1 DEF Sent
    <3>. QED
      BY <3>1, <3>2
  <2>. QED
    BY <2>2, <2>3, <2>4 DEF CheckoutInv
<1>6. ASSUME NEW i \in DOMAIN requests, Checkout!Receive(i) \/ Checkout!ReceiveError(i) PROVE CheckoutInv'
  <2>. PICK was \in Sent : was = requests[i]
    BY DEF CheckoutInv, CheckoutTyped
  <2>. PICK is : is = [was EXCEPT !.step = "done"]
    OBVIOUS
  <2>1. is \in Sent /\ is.mount = was.mount /\ is.amount = was.amount /\ is.step = "done"
    BY DEF Sent
  <2>2. /\ requests' = [requests EXCEPT ![i] = is] /\ UNCHANGED <<mount, amount, asked, rows>>
        /\ \/ widget' = widget \/ widget' = Checkout!NoIntent
           \/ was.step = "answered" /\ was.mount = mount /\ widget' = was.answer
    BY <1>6 DEF Checkout!Receive, Checkout!ReceiveError
  <2>3. AnswerIsBooked(is)
    BY <2>1 DEF AnswerIsBooked
  <2>4. CheckoutTyped' /\ RowsWereAsked' /\ RequestsWereAsked' /\ AnswersAreBooked'
    BY <2>1, <2>2, <2>3, RequestMovesOn
  <2>5. AnswerIsBooked(was)
    BY DEF CheckoutInv, AnswersAreBooked
  <2>6. WidgetWasAsked'
    BY <2>2, <2>5 DEF CheckoutInv, WidgetWasAsked, AnswerIsBooked, IsBooked
  <2>. QED
    BY <2>4, <2>6 DEF CheckoutInv
<1>7. ASSUME NEW i \in DOMAIN requests, Checkout!NotFound(i) PROVE CheckoutInv'
  <2>. PICK was \in Sent : was = requests[i]
    BY DEF CheckoutInv, CheckoutTyped
  <2>. PICK is : is = [was EXCEPT !.step = "create"]
    OBVIOUS
  <2>1. is \in Sent /\ is.mount = was.mount /\ is.amount = was.amount /\ is.step = "create"
    BY DEF Sent
  <2>2. requests' = [requests EXCEPT ![i] = is] /\ UNCHANGED <<mount, amount, asked, rows, widget>>
    BY <1>7 DEF Checkout!NotFound
  <2>3. AnswerIsBooked(is)
    BY <2>1 DEF AnswerIsBooked
  <2>4. CheckoutTyped' /\ RowsWereAsked' /\ RequestsWereAsked' /\ AnswersAreBooked'
    BY <2>1, <2>2, <2>3, RequestMovesOn
  <2>. QED
    BY <2>2, <2>4 DEF CheckoutInv, WidgetWasAsked, IsBooked
<1>8. ASSUME NEW i \in DOMAIN requests, NEW r \in DOMAIN rows, Checkout!Replay(i, r) PROVE CheckoutInv'
  <2>. PICK was \in Sent : was = requests[i]
    BY DEF CheckoutInv, CheckoutTyped
  <2>. PICK row \in Booked : row = rows[r]
    BY DEF CheckoutInv, CheckoutTyped
  <2>. PICK reply : reply = [amount_in_cents |-> row.amount_cop, reference |-> row.reference,
                             integrity_signature |-> Checkout!Unsigned]
    OBVIOUS
  <2>. PICK is : is = [was EXCEPT !.step = "answered", !.answer = reply]
    OBVIOUS
  <2>1. /\ reply \in Priced /\ Fits(reply)
        /\ reply.amount_in_cents = row.amount_cop /\ reply.reference = row.reference
    BY CheckoutAssumption DEF Priced, Booked, Fits, Checkout!Unsigned, Checkout!Intent, Checkout!Signature,
                              Checkout!Requested
  <2>2. is \in Sent /\ is.mount = was.mount /\ is.amount = was.amount /\ is.answer = reply
    BY <2>1 DEF Sent
  <2>3. /\ requests' = [requests EXCEPT ![i] = is] /\ UNCHANGED <<mount, amount, asked, rows, widget>>
        /\ row.key = was.mount
    BY <1>8 DEF Checkout!Replay, Checkout!Answer
  <2>4. AnswerIsBooked(is)
    BY <2>1, <2>2, <2>3 DEF AnswerIsBooked, IsBooked
  <2>5. CheckoutTyped' /\ RowsWereAsked' /\ RequestsWereAsked' /\ AnswersAreBooked'
    BY <2>2, <2>3, <2>4, RequestMovesOn
  <2>. QED
    BY <2>3, <2>5 DEF CheckoutInv, WidgetWasAsked, IsBooked
<1>9. ASSUME NEW i \in DOMAIN requests, NEW ref \in Checkout!Requested, Checkout!Create(i, ref) PROVE CheckoutInv'
  <2>. PICK was \in Sent : was = requests[i]
    BY DEF CheckoutInv, CheckoutTyped
  <2>. PICK row : row = [key |-> was.mount, amount_cop |-> was.amount, reference |-> ref]
    OBVIOUS
  <2>. PICK reply : reply = [amount_in_cents |-> was.amount, reference |-> ref,
                             integrity_signature |-> Checkout!Sign(ref, was.amount)]
    OBVIOUS
  <2>. PICK is : is = [was EXCEPT !.step = "answered", !.answer = reply]
    OBVIOUS
  <2>1. row \in Booked /\ row.key = was.mount /\ row.amount_cop = was.amount /\ row.reference = ref
    BY CheckoutAssumption DEF Booked, Sent
  <2>2. /\ rows' = Append(rows, row)
        /\ requests' = [requests EXCEPT ![i] = is] /\ UNCHANGED <<mount, amount, asked, widget>>
    BY <1>9 DEF Checkout!Create, Checkout!Answer
  <2>3. /\ rows' \in Seq(Booked) /\ Len(rows) \in Nat /\ DOMAIN rows' = DOMAIN rows \cup {Len(rows) + 1}
        /\ rows'[Len(rows) + 1] = row /\ \A r \in DOMAIN rows : rows'[r] = rows[r]
    BY <2>1, <2>2 DEF CheckoutInv, CheckoutTyped
  <2>4. reply \in Priced /\ reply.amount_in_cents = was.amount /\ reply.reference = ref /\ Fits(reply)
    BY CheckoutAssumption DEF Priced, Sent, Fits, Checkout!Sign, Checkout!Intent, Checkout!Signature,
                              Checkout!Requested
  <2>5. is \in Sent /\ is.mount = was.mount /\ is.amount = was.amount /\ is.answer = reply
    BY <2>4 DEF Sent
  <2>6. /\ requests' \in Seq(Sent) /\ DOMAIN requests' = DOMAIN requests
        /\ requests'[i] = is /\ \A j \in DOMAIN requests : j # i => requests'[j] = requests[j]
    BY <2>2, <2>5 DEF CheckoutInv, CheckoutTyped
  <2>7. CheckoutTyped'
    BY <2>2, <2>3, <2>6 DEF CheckoutInv, CheckoutTyped
  <2>8. RequestsWereAsked'
    BY <2>2, <2>5, <2>6 DEF CheckoutInv, RequestsWereAsked
  <2>9. was.mount <= mount /\ (was.mount = mount => was.amount \in asked)
    BY DEF CheckoutInv, RequestsWereAsked
  <2>10. RowsWereAsked'
    BY <2>1, <2>2, <2>3, <2>9 DEF CheckoutInv, RowsWereAsked
  <2>11. AnswersAreBooked'
    <3>1. \A intent, key : IsBooked(rows, intent, key) => IsBooked(rows', intent, key)
      BY <2>3 DEF IsBooked
    <3>2. IsBooked(rows', reply, was.mount)
      BY <2>1, <2>3, <2>4 DEF IsBooked
    <3>3. ASSUME NEW j \in DOMAIN requests, requests'[j].step = "answered"
          PROVE  IsBooked(rows', requests'[j].answer, requests'[j].mount) /\ Fits(requests'[j].answer)
      <4>1. CASE j = i
        BY <2>4, <2>5, <2>6, <3>2, <4>1
      <4>2. CASE j # i
        BY <2>6, <3>1, <3>3, <4>2 DEF CheckoutInv, AnswersAreBooked, AnswerIsBooked
      <4>. QED
        BY <4>1, <4>2
    <3>. QED
      BY <2>6, <3>3 DEF AnswersAreBooked, AnswerIsBooked, IsBooked, Fits
  <2>12. WidgetWasAsked'
    BY <2>2, <2>3 DEF CheckoutInv, WidgetWasAsked, IsBooked
  <2>. QED
    BY <2>7, <2>8, <2>10, <2>11, <2>12 DEF CheckoutInv
<1>. QED
  BY <1>1, <1>2, <1>3, <1>4, <1>5, <1>6, <1>7, <1>8, <1>9 DEF Checkout!Next, Checkout!Serve

(***************************************************************************)
(* In whatever order any number of answers arrive, for any prices and any  *)
(* number of mounts: the widget's intent is of a payment that is booked    *)
(* with its reference and was asked for by the modal on the page, and if   *)
(* it is signed, the signature is that of the intent.                      *)
(***************************************************************************)
THEOREM WidgetIsOfThisModal == Checkout!Spec => []WidgetIsOwn
<1>1. ASSUME CheckoutInv PROVE WidgetIsOwn
  <2>1. ASSUME widget # Checkout!NoIntent PROVE Checkout!WidgetIsOwn
    <3>1. PICK r \in DOMAIN rows : /\ rows[r].key = mount /\ rows[r].reference = widget.reference
                                  /\ rows[r].amount_cop = widget.amount_in_cents
      BY <1>1, <2>1 DEF CheckoutInv, WidgetWasAsked, IsBooked
    <3>2. rows[r] \in Booked
      BY <1>1 DEF CheckoutInv, CheckoutTyped
    <3>3. rows[r].amount_cop \in Nat
      BY <3>2, CheckoutAssumption DEF Booked
    <3>4. rows[r].amount_cop \in asked
      BY <1>1, <3>1 DEF CheckoutInv, RowsWereAsked
    <3>. QED
      BY <3>1, <3>3, <3>4 DEF Checkout!WidgetIsOwn
  <2>2. Checkout!WidgetIsOwn
    BY <2>1 DEF Checkout!WidgetIsOwn
  <2>3. Checkout!SignatureFits
    BY <1>1 DEF CheckoutInv, WidgetWasAsked, Fits, Checkout!SignatureFits, Checkout!NoIntent
  <2>. QED
    BY <2>2, <2>3 DEF WidgetIsOwn
<1>. QED
  BY <1>1, CheckoutStarts, CheckoutSteps, PTL DEF Checkout!Spec

----
(***************************************************************************)
(* Types, the bounds of every counter among them.                          *)
(***************************************************************************)
LEMMA NoneOrOne == IsFiniteSet({}) /\ Cardinality({}) = 0 /\ \A k : Cardinality({k}) = 1
BY FS_EmptySet, FS_Singleton

LEMMA SuspectsAreKeys == ASSUME NEW from PROVE Suspect(from) \subseteq Key
<1>1. Volumes(from) \subseteq Key
  BY DEF Volumes, Key
<1>2. Structured(from) \subseteq Key
  BY DEF Structured, Key
<1>. QED
  BY <1>1, <1>2 DEF Suspect

LEMMA ReportTyped ==
  ASSUME TypeOK, window \subseteq DOMAIN txs, NEW k \in Key
  PROVE  LET s == Report(k, window) IN s.key \in Key /\ s.total \in Nat /\ s.txs \subseteq 1 .. MaxTx
<1>. PICK set : set = PaymentsOf(k, window)
  OBVIOUS
<1>1. set \subseteq window /\ window \subseteq DOMAIN txs
  BY DEF PaymentsOf, Approved
<1>2. set \subseteq 1 .. MaxTx
  BY <1>1 DEF TypeOK
<1>3. Total(set) \in Nat
  <2>. DEFINE f == [i \in DOMAIN txs |-> txs[i].amount]
  <2>1. \A i \in DOMAIN txs : txs[i] \in Tx
    <3>1. txs \in Seq(Tx)
      BY DEF TypeOK
    <3>. QED
      BY <3>1
  <2>2. \A i \in set : f[i] \in Nat
    BY <1>1, <2>1, StructuringPays DEF Tx
  <2>3. IsFiniteSet(set)
    <3>1. IsFiniteSet(1 .. MaxTx)
      BY MonitorAssumption, FS_Interval
    <3>. QED
      BY <1>2, <3>1, FS_Subset
  <2>. HIDE DEF f
  <2>4. SumOf(f, set) \in Int /\ SumOf(f, set) >= 0
    BY <2>2, <2>3, SumOfType, SumOfNaturals
  <2>5. SumOf(f, set) \in Nat
    BY <2>4
  <2>. QED
    BY <2>5, Zenon DEF Total, f
<1>. QED
  BY <1>2, <1>3 DEF Report

ClockTyped == now \in 0 .. MaxTime /\ flagged \in [Key -> 0 .. Never] /\ alerted \in SUBSET (Key \X (0 .. MaxTime))

PaymentsTyped == txs \in Seq(Tx) /\ Len(txs) <= MaxTx

RunFields ==
  /\ variant \in {"by channel", "by user"} /\ run \in {"idle", "alert", "report"}
  /\ skip \subseteq Key /\ todo \subseteq Key /\ window \subseteq 1 .. MaxTx
  /\ doing \subseteq Key /\ Cardinality(doing) <= 1

SarsTyped == \A s \in sars : s.key \in Key /\ s.total \in Nat /\ s.txs \subseteq 1 .. MaxTx

LEMMA UiafTypes == TypeOK /\ UiafInv /\ [Next]_vars => TypeOK'
<1>. SUFFICES ASSUME ClockTyped, PaymentsTyped, RunFields, SarsTyped, TypeOK, UiafInv, [Next]_vars
              PROVE  ClockTyped' /\ PaymentsTyped' /\ RunFields' /\ SarsTyped'
  BY Zenon DEF TypeOK, ClockTyped, PaymentsTyped, RunFields, SarsTyped
<1>1. ASSUME UNCHANGED txs PROVE PaymentsTyped'
  BY <1>1 DEF PaymentsTyped
<1>2. ASSUME UNCHANGED sars PROVE SarsTyped'
  BY <1>2 DEF SarsTyped
<1>3. ASSUME UNCHANGED <<now, flagged, alerted>> PROVE ClockTyped'
  BY <1>3, Zenon DEF ClockTyped
<1>4. ASSUME UNCHANGED variant, run' \in {"idle", "alert", "report"}, skip' \subseteq Key, todo' \subseteq Key,
             window' = window \/ window' \subseteq DOMAIN txs, doing' = doing \/ doing' = {} \/ \E k \in Key : doing' = {k}
      PROVE  RunFields'
  <2>1. DOMAIN txs \subseteq 1 .. MaxTx
    BY MonitorAssumption DEF PaymentsTyped
  <2>2. window' \subseteq 1 .. MaxTx
    BY <1>4, <2>1, Zenon DEF RunFields
  <2>3. doing' \subseteq Key /\ Cardinality(doing') <= 1
    <3>1. CASE doing' = doing
      BY <3>1 DEF RunFields
    <3>2. CASE doing' = {}
      BY <3>2, NoneOrOne
    <3>3. ASSUME NEW k \in Key, doing' = {k} PROVE doing' \subseteq Key /\ Cardinality(doing') <= 1
      <4>1. Cardinality({k}) = 1
        BY NoneOrOne
      <4>. QED
        BY <3>3, <4>1
    <3>. QED
      BY <1>4, <3>1, <3>2, <3>3
  <2>. QED
    BY <1>4, <2>2, <2>3 DEF RunFields
<1>5. CASE UNCHANGED vars
  BY <1>1, <1>2, <1>3, <1>4, <1>5 DEF vars, running, RunFields
<1>6. CASE Start
  <2>1. Recent \subseteq DOMAIN txs /\ Suspect(Recent) \subseteq Key
    BY SuspectsAreKeys DEF Recent
  <2>2. {k \in Key : flagged[k] > now} \subseteq Key
    OBVIOUS
  <2>. QED
    BY <1>1, <1>2, <1>3, <1>4, <1>6, <2>1, <2>2 DEF Start
<1>7. CASE SaveSar
  <2>1. /\ sars' = sars \cup {Report(k, window) : k \in doing} \/ sars' = sars
        /\ run' = "alert" /\ doing' = {}
        /\ UNCHANGED <<variant, now, txs, flagged, skip, window, todo, alerted>>
    BY <1>7 DEF SaveSar
  <2>2. SarsTyped'
    <3>1. \A k \in doing : k \in Key /\ window \subseteq DOMAIN txs
      BY DEF RunFields, UiafInv, RunTyped
    <3>. QED
      BY <2>1, <3>1, ReportTyped DEF SarsTyped
  <2>. QED
    BY <1>1, <1>3, <1>4, <2>1, <2>2 DEF RunFields
<1>8. CASE RunEnds \/ RunDies
  BY <1>1, <1>2, <1>3, <1>4, <1>8 DEF RunEnds, RunDies, End
<1>9. ASSUME NEW k \in Key, Skip(k) \/ AlertFails(k) PROVE ClockTyped' /\ PaymentsTyped' /\ RunFields' /\ SarsTyped'
  BY <1>1, <1>2, <1>3, <1>4, <1>9 DEF Skip, AlertFails, RunFields
<1>10. ASSUME NEW k \in Key, AlertAndFlag(k) PROVE ClockTyped' /\ PaymentsTyped' /\ RunFields' /\ SarsTyped'
  <2>1. /\ alerted' = alerted \cup {<<k, now>>}
        /\ flagged' = [flagged EXCEPT ![k] = now + Dedupe]
        /\ todo' = todo \ {k}
        /\ run' \in {"idle", "alert", "report"} /\ (doing' = {k} \/ doing' = doing)
        /\ UNCHANGED <<variant, now, txs, skip, window, sars>>
    BY <1>10 DEF AlertAndFlag, RunFields
  <2>2. ClockTyped'
    <3>1. now + Dedupe \in 0 .. Never
      BY MonitorAssumption DEF Never, ClockTyped
    <3>. QED
      BY <2>1, <3>1 DEF ClockTyped
  <2>. QED
    BY <1>1, <1>2, <1>4, <2>1, <2>2 DEF RunFields
<1>11. ASSUME NEW u \in User, NEW c \in Channel, NEW a \in Amount, NEW b \in BOOLEAN, Pay(u, c, a, b)
       PROVE  ClockTyped' /\ PaymentsTyped' /\ RunFields' /\ SarsTyped'
  <2>. PICK tx : tx = [user |-> u, channel |-> c, amount |-> a, approved |-> b, at |-> now]
    OBVIOUS
  <2>1. txs' = Append(txs, tx) /\ Len(txs) < MaxTx
        /\ UNCHANGED <<variant, now, flagged, run, skip, window, todo, doing, sars, alerted>>
    BY <1>11 DEF Pay, running
  <2>2. tx \in Tx
    BY DEF Tx, ClockTyped
  <2>3. PaymentsTyped'
    BY <2>1, <2>2, MonitorAssumption DEF PaymentsTyped
  <2>. QED
    BY <1>2, <1>3, <1>4, <2>1, <2>3 DEF RunFields
<1>12. CASE Tick
  <2>1. ClockTyped'
    BY <1>12, MonitorAssumption DEF Tick, ClockTyped
  <2>. QED
    BY <1>1, <1>2, <1>4, <1>12, <2>1 DEF Tick, running, RunFields
<1>. QED
  BY <1>5, <1>6, <1>7, <1>8, <1>9, <1>10, <1>11, <1>12 DEF Next

LEMMA UiafTypesStart == Init => TypeOK
<1>. SUFFICES ASSUME Init PROVE TypeOK
  OBVIOUS
<1>0. txs = <<>> /\ now = 0 /\ flagged = [k \in Key |-> 0] /\ doing = {}
  BY DEF Init
<1>1. txs \in Seq(Tx) /\ Len(txs) <= MaxTx
  BY <1>0, MonitorAssumption
<1>2. now \in 0 .. MaxTime /\ flagged \in [Key -> 0 .. Never]
  BY <1>0, MonitorAssumption DEF Never
<1>3. Cardinality(doing) <= 1
  <2>1. Cardinality({}) = 0
    BY FS_EmptySet
  <2>. QED
    BY <1>0, <2>1
<1>. QED
  BY <1>1, <1>2, <1>3 DEF Init, TypeOK

LEMMA RightsCards == ASSUME NEW S PROVE Rights!Cardinality(S) = Cardinality(S)
BY Zenon DEF Rights!Cardinality, Cardinality

(* A batch is as long as it may be: the numbers of rows before each of its
   own are different, and less than Batch. *)
LEMMA BatchIsBounded ==
  ASSUME NEW all \in SUBSET Nat, IsFiniteSet(all)
  PROVE  IsFiniteSet(Rights!FirstOf(all)) /\ Cardinality(Rights!FirstOf(all)) <= Batch
<1>. DEFINE before(i) == {j \in all : j < i}
            batch == {i \in all : Cardinality(before(i)) < Batch}
            spot == [i \in batch |-> Cardinality(before(i))]
<1>1. Rights!FirstOf(all) = batch
  BY RightsCards, Zenon DEF Rights!FirstOf
<1>2. \A i \in all : IsFiniteSet(before(i)) /\ Cardinality(before(i)) \in Nat
  <2>1. \A i \in all : before(i) \in SUBSET all
    OBVIOUS
  <2>2. \A i \in all : IsFiniteSet(before(i))
    BY <2>1, FS_Subset, Zenon
  <2>. QED
    BY <2>2, FS_CardinalityType, Zenon
<1>3. ASSUME NEW i \in all, NEW k \in all, i < k
      PROVE  Cardinality(before(i)) # Cardinality(before(k))
  <2>1. before(i) \in SUBSET before(k) /\ before(i) # before(k)
    <3>1. before(i) \subseteq before(k)
      <4>1. \A j \in all : j < i => j < k
        BY <1>3
      <4>. QED
        BY <4>1
    <3>2. i \in before(k) /\ i \notin before(i)
      BY <1>3
    <3>. QED
      BY <3>1, <3>2
  <2>. QED
    BY <1>2, <2>1, FS_Subset, Zenon
<1>4. spot \in Injection(batch, 0 .. Batch - 1)
  <2>1. \A i \in batch : spot[i] \in 0 .. Batch - 1
    <3>. SUFFICES ASSUME NEW i \in batch PROVE spot[i] \in 0 .. Batch - 1
      OBVIOUS
    <3>1. PICK n \in Nat : n = Cardinality(before(i)) /\ n < Batch
      BY <1>2
    <3>2. n \in 0 .. Batch - 1
      BY <3>1, RightsAssumption
    <3>. QED
      BY <3>1, <3>2, Zenon
  <2>2. spot \in [batch -> 0 .. Batch - 1]
    BY <2>1
  <2>3. ASSUME NEW i \in batch, NEW k \in batch, spot[i] = spot[k] PROVE i = k
    <3>1. Cardinality(before(i)) = Cardinality(before(k))
      BY <2>3, Zenon
    <3>2. ~(i < k) /\ ~(k < i)
      BY <1>3, <3>1
    <3>3. i \in Nat /\ k \in Nat
      OBVIOUS
    <3>. QED
      BY <3>2, <3>3
  <2>. HIDE DEF spot, batch
  <2>. QED
    BY <2>2, <2>3 DEF Injection, IsInjective
<1>. HIDE DEF spot, batch
<1>5. IsFiniteSet(0 .. Batch - 1) /\ Cardinality(0 .. Batch - 1) = Batch
  <2>1. 0 \in Int /\ Batch - 1 \in Int
    BY RightsAssumption
  <2>2. IsFiniteSet(0 .. Batch - 1) /\ Cardinality(0 .. Batch - 1) = IF 0 > Batch - 1 THEN 0 ELSE Batch - 1 - 0 + 1
    BY <2>1, FS_Interval
  <2>. QED
    BY <2>2, RightsAssumption
<1>. QED
  BY <1>1, <1>4, <1>5, FS_Injection

RequestsTyped ==
  /\ place \in [Nit -> Rights!Place] /\ field \in [Nit -> Rights!Field] /\ suppressed \in [Nit -> BOOLEAN]
  /\ rightsPc \in [Worker -> {"idle", "write", "hide", "audit"}]
  /\ rightsCall \in [Worker -> Rights!Call]

MonitorTyped ==
  /\ Len(log) <= MaxLog
  /\ monitor \in {"idle", "alert", "flag"}
  /\ found \subseteq 1 .. MaxLog /\ Cardinality(found) <= Batch
  /\ emailed \subseteq 1 .. MaxLog

LEMMA RightsTypesAre ==
  ASSUME RightsInv
  PROVE  RequestsTyped /\ MonitorTyped <=> Rights!TypeOK
<1>1. Rights!Row = Entry
  BY DEF Rights!Row, Entry, Rights!EditOps
<1>2. rightsNow \in Rights!Time /\ log \in Seq(Rights!Row)
  BY <1>1 DEF RightsInv, RightsTyped
<1>3. Rights!Cardinality(found) = Cardinality(found)
  BY RightsCards
<1>. QED
  BY <1>2, <1>3, Zenon DEF RequestsTyped, MonitorTyped, Rights!TypeOK

LEMMA RequestsStayTyped ==
  ASSUME RequestsTyped, [Rights!Next]_(Rights!vars)
  PROVE  RequestsTyped'
<1>. USE DEF RequestsTyped, Rights!data, Rights!calls, Rights!monitoring, Rights!Place, Rights!Field
<1>1. CASE UNCHANGED Rights!vars
  BY <1>1 DEF Rights!vars
<1>2. ASSUME NEW w \in Worker, Rights!Done(w), UNCHANGED <<place, field, suppressed>>
      PROVE  RequestsTyped'
  BY <1>2, NoCallTyped DEF Rights!Done
<1>3. ASSUME NEW w \in Worker, NEW op \in Rights!EditOps \cup {"know", "suppress"}, NEW n \in Nit,
             NEW v \in Value, Rights!Ask(w, op, n, v)
      PROVE  RequestsTyped'
  <2>. PICK c : c = [op |-> op, nit |-> n, value |-> v, applied |-> FALSE]
    OBVIOUS
  <2>1. c \in Rights!Call
    BY DEF Rights!Call
  <2>2. /\ rightsCall' = [rightsCall EXCEPT ![w] = c]
        /\ rightsPc' = [rightsPc EXCEPT ![w] = IF op = "know" THEN "audit" ELSE "write"]
        /\ UNCHANGED <<place, field, suppressed>>
    BY <1>3 DEF Rights!Ask
  <2>. QED
    BY <2>1, <2>2
<1>4. ASSUME NEW w \in Worker, Rights!AskRefused(w) PROVE RequestsTyped'
  BY <1>1, <1>4 DEF Rights!AskRefused, Rights!vars
<1>5. ASSUME NEW w \in Worker, Rights!Edit(w) \/ Rights!Erase(w) PROVE RequestsTyped'
  <2>. PICK was, c : was = rightsCall[w] /\ c = [was EXCEPT !.applied = TRUE]
    OBVIOUS
  <2>1. was \in Rights!Call
    OBVIOUS
  <2>2. c \in Rights!Call /\ was.nit \in Nit /\ was.value \in Value
    BY <2>1 DEF Rights!Call
  <2>3. /\ rightsCall' = [rightsCall EXCEPT ![w] = c]
        /\ \E at \in {"audit", "hide"} : rightsPc' = [rightsPc EXCEPT ![w] = at]
        /\ \/ field' = [field EXCEPT ![was.nit] = was.value]
           \/ field' = [field EXCEPT ![was.nit] = Rights!Null]
           \/ field' = field
        /\ suppressed' = [suppressed EXCEPT ![was.nit] = TRUE] \/ suppressed' = suppressed
        /\ place' = place
    BY <1>5 DEF Rights!Edit, Rights!Erase
  <2>. QED
    BY <2>2, <2>3
<1>6. ASSUME NEW w \in Worker, Rights!EditMissed(w) PROVE RequestsTyped'
  <2>1. CASE rightsCall[w].op = "update"
    BY <1>2, <1>6, <2>1 DEF Rights!EditMissed
  <2>2. CASE rightsCall[w].op # "update"
    BY <1>6, <2>2 DEF Rights!EditMissed
  <2>. QED
    BY <2>1, <2>2
<1>7. ASSUME NEW w \in Worker, Rights!Hide(w) PROVE RequestsTyped'
  BY <1>7 DEF Rights!Hide
<1>8. ASSUME NEW w \in Worker, Rights!PersistAudit(w) \/ Rights!Fail(w) PROVE RequestsTyped'
  BY <1>2, <1>8 DEF Rights!PersistAudit, Rights!Fail
<1>9. CASE Rights!MonitorStarts \/ Rights!Alert \/ Rights!Flag \/ Rights!MonitorFails \/ Rights!Tick
  BY <1>9 DEF Rights!MonitorStarts, Rights!Alert, Rights!Flag, Rights!MonitorFails, Rights!Tick
<1>. QED
  BY <1>1, <1>3, <1>4, <1>5, <1>6, <1>7, <1>8, <1>9 DEF Rights!Next, Rights!RightsStep

LEMMA MonitorStaysTyped ==
  ASSUME RightsInv, MonitorTyped, [Rights!Next]_(Rights!vars)
  PROVE  MonitorTyped'
<1>0. log \in Seq(Entry) /\ DOMAIN log = 1 .. Len(log) /\ Len(log) \in Nat
  BY DEF RightsInv, RightsTyped
<1>1. ASSUME UNCHANGED <<log, monitor, found, emailed>> PROVE MonitorTyped'
  BY <1>1 DEF MonitorTyped
<1>2. Cardinality({}) = 0
  BY FS_EmptySet
<1>3. ASSUME NEW w \in Worker, Rights!RightsStep(w) PROVE MonitorTyped'
  <2>1. CASE Rights!PersistAudit(w)
    <3>. PICK e : log' = Append(log, e)
      BY <2>1 DEF Rights!PersistAudit
    <3>1. Len(log) < MaxLog /\ UNCHANGED <<monitor, found, emailed>>
      BY <2>1 DEF Rights!PersistAudit, Rights!monitoring
    <3>2. Len(log') <= MaxLog
      BY <1>0, <3>1, RightsAssumption
    <3>. QED
      BY <3>1, <3>2 DEF MonitorTyped
  <2>2. CASE ~ Rights!PersistAudit(w)
    BY <1>1, <1>3, <2>2 DEF Rights!RightsStep, Rights!Ask, Rights!AskRefused, Rights!Edit, Rights!EditMissed,
       Rights!Erase, Rights!Hide, Rights!Fail, Rights!vars, Rights!monitoring
  <2>. QED
    BY <2>1, <2>2
<1>4. CASE Rights!MonitorStarts
  <2>1. /\ found' = Rights!FirstOf(Rights!Rows) /\ monitor' \in {"idle", "alert", "flag"}
        /\ UNCHANGED <<log, emailed>>
    BY <1>4 DEF Rights!MonitorStarts, Rights!FindBreached
  <2>2. Rights!Rows \in SUBSET (1 .. Len(log))
    BY <1>0 DEF Rights!Rows
  <2>3. IsFiniteSet(Rights!Rows)
    <3>1. IsFiniteSet(1 .. Len(log))
      BY <1>0, FS_Interval
    <3>. QED
      BY <2>2, <3>1, FS_Subset
  <2>4. Cardinality(found') <= Batch
    <3>. PICK all : all = Rights!Rows
      OBVIOUS
    <3>1. all \in SUBSET Nat /\ IsFiniteSet(all)
      BY <2>2, <2>3
    <3>2. Cardinality(Rights!FirstOf(all)) <= Batch
      BY <3>1, BatchIsBounded
    <3>. QED
      BY <2>1, <3>2
  <2>5. found' \subseteq 1 .. MaxLog
    <3>1. found' \subseteq Rights!Rows
      BY <2>1 DEF Rights!FirstOf
    <3>. QED
      BY <1>0, <2>2, <3>1, RightsAssumption DEF MonitorTyped
  <2>. QED
    BY <2>1, <2>4, <2>5 DEF MonitorTyped
<1>5. CASE Rights!Alert
  BY <1>5 DEF Rights!Alert, MonitorTyped
<1>6. CASE Rights!Flag
  <2>1. /\ log' = [i \in DOMAIN log |-> [log[i] EXCEPT !.breached = @ \/ i \in found]]
        /\ monitor' = "idle" /\ found' = {} /\ emailed' = emailed
    BY <1>6 DEF Rights!Flag
  <2>2. Len(log') = Len(log)
    BY <1>0, <2>1
  <2>. QED
    BY <1>2, <2>1, <2>2, RightsAssumption DEF MonitorTyped
<1>7. CASE Rights!MonitorFails
  BY <1>2, <1>7, RightsAssumption DEF Rights!MonitorFails, MonitorTyped
<1>8. CASE Rights!Tick
  BY <1>1, <1>8 DEF Rights!Tick, Rights!monitoring
<1>9. CASE UNCHANGED Rights!vars
  BY <1>1, <1>9 DEF Rights!vars, Rights!monitoring
<1>. QED
  BY <1>3, <1>4, <1>5, <1>6, <1>7, <1>8, <1>9 DEF Rights!Next

LEMMA RightsTypesStart == Rights!Init => Rights!TypeOK
<1>. SUFFICES ASSUME Rights!Init PROVE Rights!TypeOK
  OBVIOUS
<1>1. RequestsTyped
  BY NoCallTyped DEF Rights!Init, RequestsTyped, Rights!Place, Rights!Field
<1>2. MonitorTyped
  <2>1. log = <<>> /\ monitor = "idle" /\ found = {} /\ emailed = {}
    BY DEF Rights!Init
  <2>2. Cardinality({}) = 0
    BY FS_EmptySet
  <2>. QED
    BY <2>1, <2>2, RightsAssumption DEF MonitorTyped
<1>. QED
  BY <1>1, <1>2, RightsStart, RightsTypesAre

(* What CheckoutInv leaves open. *)
ModalTyped ==
  /\ mount <= LastMount
  /\ open \in BOOLEAN /\ asked \subseteq Price
  /\ state \in {"idle", "loading", "ready", "error"}
  /\ widget \in Priced

LEMMA NoIntentTyped == Checkout!NoIntent \in Priced
BY CheckoutAssumption DEF Priced, Checkout!Intent, Checkout!Signature, Checkout!NoIntent, Checkout!Unsigned

LEMMA CheckoutTypesAre == CheckoutInv => (ModalTyped => Checkout!TypeOK)
<1>. SUFFICES ASSUME CheckoutInv, ModalTyped PROVE Checkout!TypeOK
  OBVIOUS
<1>. DEFINE Ask == [mount : 0 .. LastMount, amount : Price,
                    step : {"lookup", "create", "answered", "done"}, answer : Checkout!Intent]
            Row == [key : 0 .. LastMount, amount_cop : Price, reference : Checkout!Requested]
<1>1. mount \in 0 .. LastMount /\ amount \in Price
  BY CheckoutAssumption DEF CheckoutInv, CheckoutTyped, ModalTyped
<1>2. requests \in Seq(Ask)
  <2>1. ASSUME NEW i \in DOMAIN requests PROVE requests[i] \in Ask
    <3>1. requests[i] \in Sent /\ requests[i].mount <= mount
      BY DEF CheckoutInv, CheckoutTyped, RequestsWereAsked
    <3>2. requests[i].mount \in 0 .. LastMount
      BY <1>1, <3>1, CheckoutAssumption DEF Sent
    <3>. QED
      BY <3>1, <3>2 DEF Sent, Priced
  <2>2. requests \in Seq(Sent)
    BY DEF CheckoutInv, CheckoutTyped
  <2>. HIDE DEF Ask
  <2>. QED
    BY <2>1, <2>2
<1>3. rows \in Seq(Row)
  <2>1. ASSUME NEW r \in DOMAIN rows PROVE rows[r] \in Row
    <3>1. rows[r] \in Booked /\ rows[r].key <= mount
      BY DEF CheckoutInv, CheckoutTyped, RowsWereAsked
    <3>2. rows[r].key \in 0 .. LastMount
      BY <1>1, <3>1, CheckoutAssumption DEF Booked
    <3>. QED
      BY <3>1, <3>2 DEF Booked
  <2>2. rows \in Seq(Booked)
    BY DEF CheckoutInv, CheckoutTyped
  <2>. HIDE DEF Row
  <2>. QED
    BY <2>1, <2>2
<1>. QED
  BY <1>1, <1>2, <1>3 DEF Checkout!TypeOK, ModalTyped, Priced

LEMMA CheckoutTypesStart == Checkout!Init => ModalTyped
<1>. SUFFICES ASSUME Checkout!Init PROVE ModalTyped
  OBVIOUS
<1>1. mount = 0 /\ open = FALSE /\ asked = {} /\ state = "idle" /\ widget = Checkout!NoIntent
  BY DEF Checkout!Init
<1>2. mount <= LastMount
  BY <1>1, CheckoutAssumption
<1>. QED
  BY <1>1, <1>2, NoIntentTyped, Zenon DEF ModalTyped

LEMMA CheckoutTypes == CheckoutInv /\ ModalTyped /\ [Checkout!Next]_(Checkout!vars) => ModalTyped'
<1>. SUFFICES ASSUME CheckoutInv, ModalTyped, [Checkout!Next]_(Checkout!vars) PROVE ModalTyped'
  OBVIOUS
<1>. USE DEF Checkout!modal
<1>1. requests \in Seq(Sent) /\ amount \in Price /\ mount \in Nat
  BY DEF CheckoutInv, CheckoutTyped
<1>2. ASSUME NEW a \in Price, Checkout!AskIntent(a), UNCHANGED mount, open' \in BOOLEAN PROVE ModalTyped'
  <2>1. asked' = asked \cup {a} /\ widget' = Checkout!NoIntent /\ state' = "loading"
    BY <1>2 DEF Checkout!AskIntent
  <2>. QED
    BY <1>2, <2>1, NoIntentTyped DEF ModalTyped
<1>3. ASSUME UNCHANGED <<mount, open, asked, state, widget>> PROVE ModalTyped'
  BY <1>3 DEF ModalTyped
<1>4. CASE UNCHANGED Checkout!vars
  BY <1>3, <1>4 DEF Checkout!vars
<1>5. CASE Checkout!Open
  BY <1>1, <1>2, <1>5 DEF Checkout!Open
<1>6. ASSUME NEW a \in Price, Checkout!ChangeAmount(a) PROVE ModalTyped'
  <2>1. CASE open
    BY <1>2, <1>6, <2>1 DEF Checkout!ChangeAmount
  <2>2. CASE ~open
    BY <1>3, <1>6, <2>2 DEF Checkout!ChangeAmount
  <2>. QED
    BY <2>1, <2>2
<1>7. CASE Checkout!Close
  BY <1>7, NoIntentTyped DEF Checkout!Close, ModalTyped
<1>8. CASE Checkout!Remount
  <2>1. /\ mount' = mount + 1 /\ mount < LastMount /\ open' = FALSE /\ asked' = {} /\ state' = "idle"
        /\ widget' = Checkout!NoIntent
    BY <1>8 DEF Checkout!Remount
  <2>2. mount' <= LastMount
    BY <1>1, <2>1, CheckoutAssumption
  <2>. QED
    BY <2>1, <2>2, NoIntentTyped, Zenon DEF ModalTyped
<1>9. ASSUME NEW i \in DOMAIN requests, Checkout!Receive(i) \/ Checkout!ReceiveError(i) PROVE ModalTyped'
  <2>1. requests[i].answer \in Priced
    <3>1. requests[i] \in Sent
      BY <1>1
    <3>. QED
      BY <3>1 DEF Sent
  <2>2. /\ UNCHANGED <<mount, open, asked>>
        /\ state' = state \/ state' = "ready" \/ state' = "error"
        /\ widget' = widget \/ widget' = Checkout!NoIntent \/ widget' = requests[i].answer
    BY <1>9 DEF Checkout!Receive, Checkout!ReceiveError
  <2>. QED
    BY <2>1, <2>2, NoIntentTyped DEF ModalTyped
<1>10. ASSUME NEW i \in DOMAIN requests, Checkout!Serve(i) PROVE ModalTyped'
  BY <1>3, <1>10 DEF Checkout!Serve, Checkout!NotFound, Checkout!Replay, Checkout!Create
<1>. QED
  BY <1>4, <1>5, <1>6, <1>7, <1>8, <1>9, <1>10 DEF Checkout!Next

(***************************************************************************)
(* The monitor of the UIAF, the rights of the data subjects and the        *)
(* checkout keep their types, of any size: the batch of the monitor of the *)
(* terms is never longer than its page (Batch), a report is of a total in  *)
(* pesos and of payments that exist, and what the widget is given is a     *)
(* price that was asked for, in the number of its pesos.                   *)
(***************************************************************************)
THEOREM TypesAreKept == Spec /\ Rights!Spec /\ Checkout!Spec => []TypesOK
<1>1. RightsInv => (RequestsTyped /\ MonitorTyped <=> Rights!TypeOK)
  BY RightsTypesAre
<1>2. RequestsTyped /\ [Rights!Next]_(Rights!vars) => RequestsTyped'
  BY RequestsStayTyped
<1>3. RightsInv /\ MonitorTyped /\ [Rights!Next]_(Rights!vars) => MonitorTyped'
  BY MonitorStaysTyped
<1>4. CheckoutInv /\ ModalTyped => Checkout!TypeOK
  BY CheckoutTypesAre
<1>5. Spec => []TypeOK
  BY UiafStarts, UiafSteps, UiafTypesStart, UiafTypes, PTL DEF Spec
<1>6. Rights!Spec => []Rights!TypeOK
  BY <1>1, <1>2, <1>3, RightsStart, RightsSteps, RightsTypesStart, PTL DEF Rights!Spec
<1>7. Checkout!Spec => []Checkout!TypeOK
  BY <1>4, CheckoutStarts, CheckoutSteps, CheckoutTypesStart, CheckoutTypes, PTL DEF Checkout!Spec
<1>. QED
  BY <1>5, <1>6, <1>7, PTL DEF TypesOK
====
