------------------------------- MODULE Workdays -------------------------------
(***************************************************************************)
(* The days of one employee: what the calendar expects of him, what is       *)
(* recorded, what leave covers, and the roster that adds them up             *)
(* (attendance/management_service.py: roster, leave_context, validate_rows,  *)
(* validate_manual_context, record_approved_leave; attendance/service.py;    *)
(* office_holiday in attendance/management_api.py).                          *)
(*                                                                           *)
(* The working week, the holidays, the employee's office, the leave and the  *)
(* records change in any order, and the roster is computed anew from all of  *)
(* them.  The locks of these writers are in Attendance; here every request   *)
(* is one step.  Days are counted in halves.                                 *)
(***************************************************************************)
EXTENDS Integers, FiniteSets, FiniteSetsExt

CONSTANTS
  LastWorkday,  \* the period is 1..LastWorkday
  Weeks,        \* sets of weekdays somebody may save as the working week
  Sites,        \* offices
  LeaveSpans,   \* the [days, half] a leave may cover
  Unmarked      \* no attendance record

VARIABLES
  week,         \* company_working_days: empty until somebody saves one
  holidays,     \* dates of official_holidays
  siteHolidays, \* siteHolidays[o]: dates of the office's own holidays
  site,         \* the employee's office_id
  mark,         \* mark[d]: the attendance record of day d
  absences,     \* approved leave requests and recorded evidence
  clockDay      \* business_today

workdayVars == <<week, holidays, siteHolidays, site, mark, absences, clockDay>>

Workdates == 1..LastWorkday
Weekday(d) == (d - 1) % 7

ASSUME WorkdayAssumption ==
  /\ LastWorkday \in Nat \ {0}
  /\ Weeks \subseteq SUBSET (0..6)
  /\ \A s \in LeaveSpans : s.days \subseteq Workdates /\ s.half \in BOOLEAN

MarkStatus == {"Present", "Absent", "Leave", "OfficialHoliday", "WeeklyOff"}

\* punched: both Time In and Time Out are recorded.
Mark == [status: MarkStatus, punched: BOOLEAN]

\* recorded: entered by attendance from an approval on paper, for whole days.
Absence == {[days |-> s.days, half |-> s.half, recorded |-> r] :
              s \in LeaveSpans, r \in BOOLEAN}

WorkdayTypeOK ==
  /\ week \in Weeks
  /\ holidays \subseteq Workdates
  /\ siteHolidays \in [Sites -> SUBSET Workdates]
  /\ site \in Sites
  /\ mark \in [Workdates -> Mark \cup {Unmarked}]
  /\ absences \subseteq Absence
  /\ clockDay \in Workdates

WorkdayInit ==
  /\ week \in Weeks
  /\ holidays = {}
  /\ siteHolidays = [o \in Sites |-> {}]
  /\ site \in Sites
  /\ mark = [d \in Workdates |-> Unmarked]
  /\ absences = {}
  /\ clockDay = 1

-----------------------------------------------------------------------------
(* What the calendar and the leave say of a day *)

Holiday(d) == d \in holidays \cup siteHolidays[site]
OutsideWeek(d) == week # {} /\ Weekday(d) \notin week
WeekOff(d) == OutsideWeek(d) /\ ~Holiday(d)

\* leave_context.
Covering(d) == {a \in absences : d \in a.days}
FullLeave(d) == \E a \in Covering(d) : ~a.half
HalfLeave(d) == Covering(d) # {} /\ ~FullLeave(d)

\* The status of a new record must fit the day; what both validators check.
Fits(d, status) ==
  /\ FullLeave(d) => status = "Leave"
  /\ status \in {"Absent", "Leave"} => ~Holiday(d) /\ ~OutsideWeek(d)
  /\ status = "OfficialHoliday" => Holiday(d)
  /\ status = "WeeklyOff" => WeekOff(d)

\* validate_manual_context, with its rule for those who manage one office only; a
\* leave needs a type that is still active.
Enterable(d, m, officer, active) ==
  /\ d <= clockDay
  /\ Fits(d, m.status)
  /\ m.status = "Leave" => active /\ (officer => Covering(d) # {})

\* validate_rows: one row of a file.
Importable(d, m) ==
  /\ d <= clockDay
  /\ mark[d] = Unmarked
  /\ m.punched => m.status = "Present"
  /\ FullLeave(d) => m.status = "Leave"
  /\ Holiday(d) \/ OutsideWeek(d) => m.status \notin {"Absent", "Leave"}
  /\ m.status = "OfficialHoliday" => Holiday(d)
  /\ m.status = "WeeklyOff" => OutsideWeek(d) /\ ~Holiday(d)
  /\ m.status = "Leave" => Covering(d) # {}

\* suggested_status: the company's holidays only.
Suggested(d) ==
  IF d \in holidays THEN "OfficialHoliday" ELSE IF OutsideWeek(d) THEN "WeeklyOff" ELSE "none"

-----------------------------------------------------------------------------
(* Requests *)

SetWorkingDays ==
  /\ week' \in Weeks
  /\ UNCHANGED <<holidays, siteHolidays, site, mark, absences, clockDay>>

\* create_holiday: once per date; past dates too.
CreateHoliday(d) ==
  /\ d \notin holidays
  /\ holidays' = holidays \cup {d}
  /\ UNCHANGED <<week, siteHolidays, site, mark, absences, clockDay>>

\* office_holiday: creates it or renames it.
DeclareSiteHoliday(o, d) ==
  /\ siteHolidays' = [siteHolidays EXCEPT ![o] = @ \cup {d}]
  /\ UNCHANGED <<week, holidays, site, mark, absences, clockDay>>

\* save_attendance: a record is never overwritten.
EnterMark(d, m) ==
  /\ mark[d] = Unmarked
  /\ \E officer, active \in BOOLEAN : Enterable(d, m, officer, active)
  /\ mark' = [mark EXCEPT ![d] = m]
  /\ UNCHANGED <<week, holidays, siteHolidays, site, absences, clockDay>>

\* correct_attendance asks neither the calendar nor the leave.
CorrectMark(d, m) ==
  /\ mark[d] # Unmarked
  /\ mark' = [mark EXCEPT ![d] = m]
  /\ UNCHANGED <<week, holidays, siteHolidays, site, absences, clockDay>>

\* The leave service approves a request, or its cancellation; it looks at no record.
GrantLeave(s) ==
  /\ absences' = absences \cup {[days |-> s.days, half |-> s.half, recorded |-> FALSE]}
  /\ UNCHANGED <<week, holidays, siteHolidays, site, mark, clockDay>>

WithdrawLeave(a) ==
  /\ ~a.recorded
  /\ absences' = absences \ {a}
  /\ UNCHANGED <<week, holidays, siteHolidays, site, mark, clockDay>>

\* record_approved_leave.
RecordLeave(s) ==
  /\ ~s.half
  /\ \A d \in s.days :
       /\ Covering(d) = {}
       /\ mark[d] # Unmarked => mark[d].status = "Leave"
  /\ absences' = absences \cup {[days |-> s.days, half |-> FALSE, recorded |-> TRUE]}
  /\ UNCHANGED <<week, holidays, siteHolidays, site, mark, clockDay>>

\* The users or transfers service moves the employee.
MoveSite(o) ==
  /\ site' = o
  /\ UNCHANGED <<week, holidays, siteHolidays, mark, absences, clockDay>>

DayPasses ==
  /\ clockDay < LastWorkday
  /\ clockDay' = clockDay + 1
  /\ UNCHANGED <<week, holidays, siteHolidays, site, mark, absences>>

WorkdayNext ==
  \/ SetWorkingDays
  \/ \E d \in Workdates :
       \/ CreateHoliday(d)
       \/ \E o \in Sites : DeclareSiteHoliday(o, d)
       \/ \E m \in Mark : EnterMark(d, m) \/ CorrectMark(d, m)
  \/ \E s \in LeaveSpans : GrantLeave(s) \/ RecordLeave(s)
  \/ \E a \in absences : WithdrawLeave(a)
  \/ \E o \in Sites : MoveSite(o)
  \/ DayPasses

WorkdaySpec == WorkdayInit /\ [][WorkdayNext]_workdayVars

-----------------------------------------------------------------------------
(* The roster *)

Marked(d, statuses) == mark[d] # Unmarked /\ mark[d].status \in statuses

\* Mutant: a day is off by the present calendar only, whatever was recorded for it.
KnownOffByCalendar(d) == Holiday(d) \/ WeekOff(d)

KnownOff(d) ==
  Holiday(d) \/ WeekOff(d) \/ Marked(d, {"OfficialHoliday", "WeeklyOff"})

\* expected, once a working week is saved.
Expected(d) ==
  IF KnownOff(d) \/ FullLeave(d) \/ Marked(d, {"Leave"}) THEN 0
  ELSE IF HalfLeave(d) THEN 1 ELSE 2

LeaveWeight(d) == IF FullLeave(d) THEN 2 ELSE IF HalfLeave(d) THEN 1 ELSE 0

Missing(d) ==
  /\ d <= clockDay
  /\ \/ Marked(d, {"Present"}) /\ ~mark[d].punched
     \/ mark[d] = Unmarked /\ week # {} /\ Expected(d) > 0

\* The figures of the summary over the days ds, in halves of a day.
Due(ds) == MapThenSumSet(Expected, ds)
OnLeave(ds) == MapThenSumSet(LeaveWeight, {d \in ds : ~KnownOff(d)})
PresentDays == {d \in Workdates : Marked(d, {"Present"})}
AbsentDays == {d \in Workdates : Marked(d, {"Absent"})}

-----------------------------------------------------------------------------
(* Properties *)

\* Once a working week is saved, the roster adds up whatever was recorded, corrected,
\* declared a holiday or granted as leave afterwards: the days to work and the leave
\* taken are the days that are not off, less those recorded as Leave without one; all that
\* was expected up to today is present, absent or flagged as not recorded (roster).
\* And a file that validates is saved: what validate_rows accepts is refused by the
\* rules of save_attendance only for a leave whose type was deactivated; a status that
\* the day's roster suggests is refused only for a full leave or a holiday of the office.
RosterAddsUp ==
  /\ week # {} =>
       LET worked == {d \in Workdates : ~KnownOff(d) /\ ~Marked(d, {"Leave"})}
           elapsed == 1..clockDay
       IN  /\ Due(worked) + OnLeave(worked) = 2 * Cardinality(worked)
           /\ Due(Workdates \ worked) = 0
           /\ Due(elapsed) = Due(elapsed \cap PresentDays) + Due(elapsed \cap AbsentDays)
                          + Due({d \in elapsed : Missing(d) /\ mark[d] = Unmarked})
  /\ \A d \in Workdates, m \in Mark, active \in BOOLEAN :
       Importable(d, m) =>
         Enterable(d, m, TRUE, active) \/ (m.status = "Leave" /\ ~active)
  /\ \A d \in Workdates :
       \/ Suggested(d) = "none" \/ Fits(d, Suggested(d))
       \/ FullLeave(d) \/ d \in siteHolidays[site]
=============================================================================
