---- MODULE Streaks ----
(***************************************************************************)
(* The streak evaluator (crons/streak-evaluator.ts): once a day it counts  *)
(* the days in a row on which each user has logged in, and asks for the    *)
(* bonus of the highest threshold reached.                                 *)
(*                                                                         *)
(* Days are numbered; a day's instant is its noon, as in the code.         *)
(***************************************************************************)
EXTENDS Integers, FiniteSets, FiniteSetsExt

CONSTANTS
  User,
  Short, Long,       \* the thresholds: 7 and 30
  GapHours,          \* gapThresholdHours: 36
  Hours,             \* the hours at which a run may start
  LastDay            \* bound of the calendar

Day == 0 .. LastDay
Noon(d) == 24 * d + 12

VARIABLES
  today,
  logins,          \* the days of login_dates of each user
  evaluated,       \* the run of today: "due", "running", "failed" or "done"
  users, queue,    \* the logins the run was given, and <<user, rule>> of the bonuses still to ask for
  fired            \* history: <<user, rule, day>> of every fireStreakBonus that took effect

vars == <<today, logins, evaluated, users, queue, fired>>

Rules == {"STREAK_7_DAYS", "STREAK_30_DAYS"}

TypeOK ==
  /\ today \in Day
  /\ logins \in [User -> SUBSET Day]
  /\ evaluated \in {"due", "running", "failed", "done"}
  /\ users \in [User -> SUBSET Day]
  /\ queue \subseteq User \X Rules
  /\ fired \subseteq User \X Rules \X Day

Nobody == [u \in User |-> {}]

Init ==
  /\ today = 0 /\ evaluated = "due"
  /\ logins = Nobody /\ users = Nobody
  /\ queue = {} /\ fired = {}

----
(* The day of a login before day d, in the sorted list. *)
Earlier(days, d) == Max({e \in days : e < d})

StreakWithoutGaps(days, now) ==     \* mutant: a gap does not end the streak
  IF days = {} \/ now - Noon(Max(days)) > 48 THEN 0 ELSE Cardinality(days)

(* The loop of calculateStreak, from the most recent day back. *)
Streak(days, now) ==
  LET run[d \in days] ==
        IF \E e \in days : e < d /\ Noon(d) - Noon(Earlier(days, d)) <= GapHours
        THEN 1 + run[Earlier(days, d)] ELSE 1
  IN  IF days = {} \/ now - Noon(Max(days)) > 48 THEN 0 ELSE run[Max(days)]

RuleOnce(streak) ==        \* mutant: on the day a threshold is reached, as the comment has it
  IF streak = Long THEN {"STREAK_30_DAYS"}
  ELSE IF streak = Short THEN {"STREAK_7_DAYS"} ELSE {}

Rule(streak) ==
  IF streak >= Long THEN {"STREAK_30_DAYS"}
  ELSE IF streak >= Short THEN {"STREAK_7_DAYS"} ELSE {}

Login(u) ==
  /\ logins' = [logins EXCEPT ![u] = @ \cup {today}]
  /\ UNCHANGED <<today, evaluated, users, queue, fired>>

(* runForUsers computes every streak before it asks for the first bonus.
   Whether one was asked for before is left to the bonus engine. *)
RunForUsers(hour) ==
  /\ evaluated = "due"
  /\ evaluated' = "running"
  /\ users' = logins
  /\ queue' = UNION {{u} \X Rule(Streak(logins[u], 24 * today + hour)) : u \in User}
  /\ UNCHANGED <<today, logins, fired>>

(* One turn of its loop, over a list in an order of its own. *)
FireStreakBonus(b) ==
  /\ b \in queue
  /\ fired' = fired \cup {<<b[1], b[2], today>>}
  /\ queue' = queue \ {b}
  /\ UNCHANGED <<today, logins, evaluated, users>>

(* The call fails, having taken effect or not, and the run with it: nothing
   catches it, and the users behind are left out. *)
FireStreakBonusFails(b, applied) ==
  /\ b \in queue
  /\ fired' = IF applied THEN fired \cup {<<b[1], b[2], today>>} ELSE fired
  /\ evaluated' = "failed"
  /\ queue' = {}
  /\ UNCHANGED <<today, logins, users>>

RunEnds ==
  /\ evaluated = "running" /\ queue = {}
  /\ evaluated' = "done"
  /\ UNCHANGED <<today, logins, users, queue, fired>>

Midnight ==
  /\ today < LastDay
  /\ evaluated # "running"
  /\ today' = today + 1
  /\ evaluated' = "due"
  /\ users' = Nobody
  /\ UNCHANGED <<logins, queue, fired>>

Next ==
  \/ \E u \in User : Login(u)
  \/ \E h \in Hours : RunForUsers(h)
  \/ \E b \in queue : FireStreakBonus(b) \/ \E applied \in BOOLEAN : FireStreakBonusFails(b, applied)
  \/ RunEnds
  \/ Midnight

Spec == Init /\ [][Next]_vars

----
InARow(days, last, n) == last - n + 1 .. last \subseteq days

DaysFor(rule) == IF rule = "STREAK_30_DAYS" THEN Long ELSE Short

(***************************************************************************)
(* No bonus of any run is unearned: as many days in a row with a login as  *)
(* the rule is named for, with none missed, ended no more than two days    *)
(* before it (calculateStreak counts noons 36 hours apart, so that only    *)
(* neighbouring days are in a row), and no user gets two on a day.         *)
(***************************************************************************)
RewardIsEarned ==
  \A f \in fired :
    /\ \E last \in f[3] - 2 .. f[3] : InARow(logins[f[1]], last, DaysFor(f[2]))
    /\ \A g \in fired : g[1] = f[1] /\ g[3] = f[3] => g = f

(***************************************************************************)
(* A run that has come to its end has forgotten nobody who had logged in   *)
(* on its day and on enough days before it; among them who was left out by *)
(* a run that failed, on an earlier day of the same streak: a streak that  *)
(* is past the threshold counts as one that has reached it.                *)
(***************************************************************************)
NobodyIsForgotten ==
  evaluated = "done" =>
    \A u \in User : InARow(users[u], today, Short) =>
      \E rule \in Rules : <<u, rule, today>> \in fired

(***************************************************************************)
(* "STREAK_7_DAYS fires when streak reaches 7 (once per cycle)": the rule  *)
(* does not fire on two days of one streak.  It does, on every further     *)
(* day; the cooldown of the bonus engine, where a store is wired, is what  *)
(* would hold it back.                                                     *)
(***************************************************************************)
OncePerCycle ==
  \A f, g \in fired :
    f[1] = g[1] /\ f[2] = g[2] /\ f[3] < g[3] => ~(f[3] .. g[3] \subseteq logins[f[1]])
====
