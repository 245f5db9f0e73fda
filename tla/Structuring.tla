---- MODULE Structuring ----
(***************************************************************************)
(* The structuring detector (src/lib/structuring.ts): an intent of an      *)
(* amount just above the 3DS threshold is marked for the DPO if the sender *)
(* has had three payments of such amounts to the same recipient approved   *)
(* within a day.                                                           *)
(*                                                                         *)
(* It asks a secondary index, which follows the table with a delay: the    *)
(* index has a payment as it was at some earlier time, or not at all.      *)
(***************************************************************************)
EXTENDS Integers, Sequences, FiniteSets

CONSTANTS
  Party,           \* <<sender, recipient>>
  Day,             \* STRUCTURING_WINDOW_MS
  Threshold,       \* STRUCTURING_THRESHOLD
  Limit,           \* of the query
  MaxTime, MaxRows \* bounds: the clock, and the payments in the table

Time == 0 .. MaxTime
Never == -1

VARIABLES
  now,
  approved,        \* payments with status APPROVED; at: updated_at, indexed: as the index has it
  marked           \* history: if the last intent was marked, {how many payments like it there were}

vars == <<now, approved, marked>>

Payment == [parties : Party, boundary : BOOLEAN, at : Time, indexed : Time \cup {Never}]

TypeOK ==
  /\ now \in Time
  /\ approved \in Seq(Payment) /\ Len(approved) <= MaxRows
  /\ marked \subseteq 0 .. MaxRows

Init == now = 0 /\ approved = <<>> /\ marked = {}

----
(* An approval; boundary: isInBoundaryRange(amount_cop). *)
Approve(parties, boundary) ==
  /\ Len(approved) < MaxRows
  /\ approved' = Append(approved,
       [parties |-> parties, boundary |-> boundary, at |-> now, indexed |-> Never])
  /\ UNCHANGED <<now, marked>>

(* Every later step of the escrow sets updated_at again. *)
Update(i) ==
  /\ i \in DOMAIN approved
  /\ approved' = [approved EXCEPT ![i].at = now]
  /\ UNCHANGED <<now, marked>>

(* DynamoDB brings the index up to date. *)
Propagate(i) ==
  /\ i \in DOMAIN approved
  /\ approved' = [approved EXCEPT ![i].indexed = approved[i].at]
  /\ UNCHANGED <<now, marked>>

Tick ==
  /\ now < MaxTime
  /\ now' = now + 1
  /\ UNCHANGED <<approved, marked>>

(* StatusUpdatedAtIndex from a day ago ... *)
Recent == {i \in DOMAIN approved : approved[i].indexed # Never /\ approved[i].indexed + Day >= now}

(* ... the oldest Limit of them, of everybody. *)
Query ==
  {rows \in SUBSET Recent :
    /\ Cardinality(rows) = Limit \/ (rows = Recent /\ Cardinality(rows) < Limit)
    /\ \A i \in rows, j \in Recent \ rows : approved[i].indexed <= approved[j].indexed}

MatchesParties(p, parties) == p.parties = parties   \* mutant: of any amount

Matches(p, parties) == p.parties = parties /\ p.boundary

DetectStructuring(rows, parties) ==
  Cardinality({i \in rows : Matches(approved[i], parties)}) >= Threshold

(* The payments of the parties, in the range, that moved within a day. *)
Like(parties) ==
  {i \in DOMAIN approved :
    approved[i].parties = parties /\ approved[i].boundary /\ approved[i].at + Day >= now}

(* An intent of an amount in the range. *)
Intent(parties) ==
  /\ \E rows \in Query :
       marked' = IF DetectStructuring(rows, parties) THEN {Cardinality(Like(parties))} ELSE {}
  /\ UNCHANGED <<now, approved>>

Next ==
  \/ \E p \in Party, b \in BOOLEAN : Approve(p, b)
  \/ \E i \in 1 .. MaxRows : Update(i) \/ Propagate(i)
  \/ \E p \in Party : Intent(p)
  \/ Tick

Spec == Init /\ [][Next]_vars

----
(***************************************************************************)
(* Nobody is marked for what others did, or did long ago: whatever the     *)
(* index has missed or has not forgotten yet, behind a mark there are      *)
(* three payments of the same parties, of such amounts, that moved within  *)
(* the last day.  (That the pattern is found does not hold: the index may  *)
(* lag, and its 200 rows are taken before everybody else's are left out.)  *)
(***************************************************************************)
MarkIsFounded == \A n \in marked : n >= Threshold
====
