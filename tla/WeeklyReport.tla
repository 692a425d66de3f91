---------------------------- MODULE WeeklyReport ----------------------------
(***************************************************************************)
(* The weekly report (internal/reporting): WeeklyReportRunner.Run waits for  *)
(* the next scheduled local time, generates one report and delivers it.  The *)
(* schedule is in the local time of a zone whose offset may change once, the *)
(* wait is on the monotonic clock, and nothing is kept across a restart.     *)
(*                                                                         *)
(* Instants are in units of UTC since the epoch, Day of them in a day and    *)
(* Week days in a week; a local time is counted the same way.  Text, rows,   *)
(* warnings and the log and cloud deliverers change nothing here.  Late is   *)
(* how far one report can run past its scheduled instant: timers fire soon   *)
(* and every call of a generation has a timeout.                             *)
(***************************************************************************)
EXTENDS Integers, Sequences, FiniteSets, FiniteSetsExt

CONSTANTS
    Day, Week, Late,
    Offsets,        \* the UTC offsets of the zone
    Changes,        \* when its offset may change
    ClockSteps,     \* steps of the wall clock
    Calls,          \* how many exports and provider calls a generation makes
    Horizon         \* bound on the wall clock, for TLC only

ASSUME ReportAssumption ==
    /\ {Day, Week, Calls, Horizon} \subseteq Nat \ {0} /\ Late \in Nat
    /\ Offsets \subseteq Int /\ Changes \subseteq Int /\ ClockSteps \subseteq Int
    /\ \A a, b \in Offsets: Late + a - b < Week * Day

VARIABLES
    zone,       \* Schedule.Location
    schedule,   \* Weekday, and Hour and Minute as one time of day
    clock,      \* r.now() and g.now(), UTC
    at,         \* where Run is
    plan,       \* its now and next
    left,       \* how long until r.after fires
    calls,      \* calls of Generate still to make
    served,     \* history: slot, start and continuity of the last two generations
    kept,       \* history: no restart since the last of them
    shifted,    \* history: NextRun added days to a local time that was skipped
    stepped     \* history: which way the wall clock was set, or no

reportVars == <<zone, schedule, clock, at, plan, left, calls, served, kept, shifted, stepped>>

-----------------------------------------------------------------------------
(* NextRun                                                                 *)

Local(t) == t + (IF t < zone.change THEN zone.before ELSE zone.after)

\* time.Date: the instant that has this local time, and where there is none or
\* there are two, the reading of one of the two offsets, it is not said which.
Exact(local) == {t \in {local - zone.before, local - zone.after}: Local(t) = local}
Date(local) == IF Cardinality(Exact(local)) = 1 THEN CHOOSE t \in Exact(local): TRUE
               ELSE local - zone.picks

\* time.Time.AddDate: the local fields of t, days later.
AddDate(t, days) == Date(Local(t) + days * Day)

Today(now) == Local(now) \div Day
DaysUntil(now) == (schedule.weekday - (Today(now) % Week) + Week) % Week
Candidate(now) == AddDate(Date(Today(now) * Day + schedule.hour), DaysUntil(now))

\* Mutant: a run that is due now is next.
NextRunOrNow(now) == IF Candidate(now) >= now THEN Candidate(now) ELSE AddDate(Candidate(now), Week)
NextRun(now) == IF Candidate(now) > now THEN Candidate(now) ELSE AddDate(Candidate(now), Week)

-----------------------------------------------------------------------------
(* Run                                                                     *)

NoPlan == [from |-> 0, next |-> 0]

\* The process is running and Run has just started.
ReportInit ==
    /\ zone \in {z \in [change: Changes, before: Offsets, after: Offsets, picks: Offsets]:
                    z.picks \in {z.before, z.after}}
    /\ schedule \in [weekday: 0 .. Week - 1, hour: 0 .. Day - 1]
    /\ clock = 0
    /\ at = "planning" /\ plan = NoPlan /\ left = 0
    /\ calls = 0
    /\ served = <<>> /\ kept = FALSE /\ shifted = FALSE /\ stepped = "no"

\* For the history: a day whose offset change skips the schedule's hour.
Skipped(day) == Exact(day * Day + schedule.hour) = {}

\* Run reads the clock and sets its timer.
Plan ==
    /\ at = "planning"
    /\ plan' = [from |-> clock, next |-> NextRun(clock)]
    /\ left' = Max({NextRun(clock) - clock, 0})
    /\ shifted' = (shifted \/ Skipped(Today(clock))
                           \/ (Skipped(Today(clock) + DaysUntil(clock)) /\ Candidate(clock) <= clock))
    /\ at' = "waiting"
    /\ UNCHANGED <<zone, schedule, clock, calls, served, kept, stepped>>

\* normalizeRequest: a week's window that ends now must begin after the epoch.
Since(end) == end - Week * Day

LastTwo(s) == SubSeq(s, Max({Len(s) - 1, 1}), Len(s))

\* The timer fires and Generate fixes its window, or refuses it.
Fire ==
    /\ at = "waiting" /\ left <= 0
    /\ IF Since(clock) > 0
       THEN /\ at' = "generating" /\ calls' = Calls
       ELSE at' = "planning" /\ UNCHANGED calls
    /\ served' = LastTwo(Append(served, [slot |-> plan.next, at |-> clock, kept |-> kept]))
    /\ kept' = TRUE /\ plan' = NoPlan
    /\ UNCHANGED <<zone, schedule, clock, left, shifted, stepped>>

\* The next of Generate's calls: the health export, a sensor's history, either
\* log, the provider.  One that fails ends it, and there is no retry.
Call(ok) ==
    /\ at = "generating"
    /\ calls' = IF ok THEN calls - 1 ELSE 0
    /\ at' = IF ~ok THEN "planning" ELSE IF calls = 1 THEN "delivering" ELSE "generating"
    /\ UNCHANGED <<zone, schedule, clock, plan, left, served, kept, shifted, stepped>>

\* FileDeliverer.Deliver names a file for the UTC date its window ends on, and
\* replaces one of that name.
FileName(end) == end \div Day

\* Every deliverer is tried, and one that fails is only logged.
Deliver ==
    /\ at = "delivering" /\ at' = "planning"
    /\ UNCHANGED <<zone, schedule, clock, plan, left, calls, served, kept, shifted, stepped>>

\* ctx ends: Run returns from its wait, with at most the call in hand finished.
Cancel ==
    /\ at # "down" /\ at' = "down"
    /\ plan' = NoPlan /\ left' = 0 /\ calls' = 0 /\ kept' = FALSE
    /\ UNCHANGED <<zone, schedule, clock, served, shifted, stepped>>

Restart ==
    /\ at = "down" /\ at' = "planning"
    /\ UNCHANGED <<zone, schedule, clock, plan, left, calls, served, kept, shifted, stepped>>

TimePasses ==
    /\ clock < Horizon /\ clock' = clock + 1
    /\ at = "down" \/ left > -Late
    /\ left' = IF at = "down" THEN left ELSE left - 1
    /\ UNCHANGED <<zone, schedule, at, plan, calls, served, kept, shifted, stepped>>

\* The wall clock is set, once.
SetClock(by) ==
    /\ stepped = "no" /\ by # 0 /\ clock + by \in 0 .. Horizon
    /\ stepped' = IF by < 0 THEN "back" ELSE "forward"
    /\ clock' = clock + by
    /\ UNCHANGED <<zone, schedule, at, plan, left, calls, served, kept, shifted>>

ReportNext ==
    \/ Plan \/ Fire \/ Deliver \/ Cancel \/ Restart \/ TimePasses
    \/ \E ok \in BOOLEAN: Call(ok)
    \/ \E by \in ClockSteps: SetClock(by)

ReportSpec == ReportInit /\ [][ReportNext]_reportVars

-----------------------------------------------------------------------------
\* The scheduled instants: the schedule's time of its day in each week.
Slots == {Date(d * Day + schedule.hour):
             d \in {x \in -1 .. Horizon \div Day + 2 * Week: x % Week = schedule.weekday}}

(* Each week is reported once.  Unless NextRun counted days from a local    *)
(* time its zone skips, what Run waits for is the first scheduled instant   *)
(* after it looked.  No slot is served twice unless the wall clock went     *)
(* back, not even across a restart or an ambiguous hour, and no report's    *)
(* file replaces another's unless it was set at all.  Unless it was set     *)
(* forward or the process restarted, no slot between two reports is missed, *)
(* and their windows leave uncovered at most how late the second was and    *)
(* the time the zone gained.                                                *)
WeeksAreReported ==
    ~shifted =>
      /\ at = "waiting" => plan.next = Min({s \in Slots: s > plan.from})
      /\ Len(served) = 2 =>
           LET prior == served[1]  this == served[2]
           IN  /\ stepped # "back" => this.slot > prior.slot
               /\ stepped = "no" => FileName(this.at) # FileName(prior.at)
               /\ (stepped # "forward" /\ this.kept) =>
                     /\ \A s \in Slots: ~(prior.slot < s /\ s < this.slot)
                     /\ Since(this.at) - prior.at <= Late + Max({0, zone.before - zone.after})
=============================================================================
