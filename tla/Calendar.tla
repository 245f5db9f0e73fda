---- MODULE Calendar ----
(***************************************************************************)
(* The terms of the law, counted in days of 2026: computeSlaDeadline and   *)
(* businessDaysBetween (compliance-service, src/lib/sla-math.ts) over the  *)
(* list of src/lib/colombian-holidays.ts, the term of a habeas data        *)
(* request (pagos-service, src/lib/habeas-data.ts), and the window of the  *)
(* RNBD, which the cron and the dashboard of the DPO compute apart.        *)
(*                                                                         *)
(* A day is its number, 1 for 1 January 2026.  The list names no day of    *)
(* 2027, nor does the code know one.                                       *)
(***************************************************************************)
EXTENDS Integers, FiniteSets

CONSTANTS Starts,           \* the days on which a request is received
          Terms             \* the numbers of business days asked for

LengthOf == <<31, 28, 31, 30, 31, 30, 31, 31, 30, 31, 30, 31>>

DaysBefore[m \in 1 .. 13] == IF m = 1 THEN 0 ELSE DaysBefore[m - 1] + LengthOf[m - 1]

Date(m, d) == DaysBefore[m] + d

(* COLOMBIAN_HOLIDAYS_2026. *)
Holidays ==
  {Date(1, 1), Date(3, 23), Date(3, 30), Date(4, 1), Date(5, 1), Date(5, 18), Date(6, 8),
   Date(6, 29), Date(7, 20), Date(8, 7), Date(8, 17), Date(10, 12), Date(11, 2),
   Date(11, 16), Date(12, 8), Date(12, 25)}

DayOfWeek(day) == (day + 3) % 7        \* 0 is Sunday; 1 January 2026 is a Thursday

IsNonBusinessDay(day) == DayOfWeek(day) \in {0, 6} \/ day \in Holidays

BusinessDays(from, to) == {d \in from .. to : ~IsNonBusinessDay(d)}     \* for the properties

AcknowledgmentByFours(start, days) == start + (days * 7) \div 4    \* mutant: a week of four

(* businessDaysToMs: five business days are seven of the calendar. *)
AcknowledgmentDeadline(start, days) == start + (days * 7) \div 5

----
(* computeRnbdWindow of the cron (dpo-tools/rnbd-window.ts), which sends an
   email while the window is open, and of the dashboard
   (components/dpo/rnbd-window.ts).  Both windows end with a day, so that a
   part of a day counts as one. *)
WindowStart == Date(1, 2)
WindowEnd == Date(3, 31)

AlertWindow(day) ==
  LET in == WindowStart <= day /\ day <= WindowEnd IN
  [in |-> in, untilClose |-> IF in THEN WindowEnd - day + 1 ELSE 0]

DashboardFromFirst(day) ==       \* mutant: the window opens with the year
  LET in == day <= WindowEnd IN
  [in |-> in, untilOpen |-> 0, untilClose |-> IF in THEN WindowEnd - day + 1 ELSE 0]

DashboardWindow(day) ==
  LET in == WindowStart <= day /\ day <= WindowEnd
      target == IF day > WindowEnd THEN 365 + WindowStart ELSE WindowStart
  IN [in |-> in,
      untilOpen |-> IF target > day THEN target - day ELSE 0,
      untilClose |-> IF in THEN WindowEnd - day + 1 ELSE 0]

VARIABLES
  start, term,           \* what is asked for
  cursor, counted,       \* of computeSlaDeadline
  walker, between,       \* of businessDaysBetween(start, the deadline)
  phase

vars == <<start, term, cursor, counted, walker, between, phase>>

TypeOK ==
  /\ start \in Starts /\ term \in Terms
  /\ cursor \in Nat /\ counted \in 0 .. term /\ counted <= cursor - start
  /\ walker \in start .. cursor /\ between \in 0 .. walker - start
  /\ phase \in {"deadline", "between", "done"}

(* The cursor starts a day after the request. *)
Init ==
  /\ start \in Starts /\ term \in Terms
  /\ cursor = start + 1 /\ counted = 0
  /\ walker = start /\ between = 0
  /\ phase = "deadline"

CountFromStart ==       \* mutant: the loop advances before it looks
  LET here == counted + (IF IsNonBusinessDay(cursor) THEN 0 ELSE 1) IN
  /\ phase = "deadline"
  /\ counted' = here
  /\ cursor' = cursor + 1
  /\ phase' = IF here < term THEN "deadline" ELSE "between"
  /\ UNCHANGED <<start, term, walker, between>>

(* One turn of the loop of computeSlaDeadline. *)
CountDay ==
  LET here == counted + (IF IsNonBusinessDay(cursor) THEN 0 ELSE 1) IN
  /\ phase = "deadline"
  /\ counted' = here
  /\ cursor' = IF here < term THEN cursor + 1 ELSE cursor
  /\ phase' = IF here < term THEN "deadline" ELSE "between"
  /\ UNCHANGED <<start, term, walker, between>>

(* One turn of the loop of businessDaysBetween. *)
WalkDay ==
  /\ phase = "between"
  /\ IF walker < cursor
     THEN /\ between' = between + (IF IsNonBusinessDay(walker) THEN 0 ELSE 1)
          /\ walker' = walker + 1 /\ UNCHANGED phase
     ELSE phase' = "done" /\ UNCHANGED <<walker, between>>
  /\ UNCHANGED <<start, term, cursor, counted>>

Next == CountDay \/ WalkDay

Spec == Init /\ [][Next]_vars

----
(***************************************************************************)
(* The deadline is a business day, the term-th after the day of the        *)
(* request, wherever in the year the request falls; and the days counted   *)
(* between the two include the first and not the last (sla-math.ts).       *)
(***************************************************************************)
DeadlineIsNthBusinessDay ==
  /\ phase # "deadline" => /\ ~IsNonBusinessDay(cursor)
                           /\ Cardinality(BusinessDays(start + 1, cursor)) = term
  /\ phase = "done" => between = Cardinality(BusinessDays(start, cursor - 1))

(***************************************************************************)
(* "10 business days acknowledgment deadline": the fortnight habeas-data.ts*)
(* gives itself is never longer than ten business days as the other        *)
(* service counts them, for a request received on a business day.          *)
(***************************************************************************)
FortnightIsWithinTerm ==
  phase # "deadline" /\ ~IsNonBusinessDay(start) => AcknowledgmentDeadline(start, term) <= cursor

(***************************************************************************)
(* "this function MUST stay consistent with that helper": on every day the *)
(* email and the dashboard agree on whether the window is open and for how *)
(* long, and the dashboard shows days to wait just when it is closed.      *)
(***************************************************************************)
RnbdWindowsAgree ==
  \A day \in {start, cursor} \cap 1 .. 365 :
    LET a == AlertWindow(day) d == DashboardWindow(day) IN
    /\ a.in = d.in /\ a.untilClose = d.untilClose
    /\ d.in <=> d.untilOpen = 0
====
