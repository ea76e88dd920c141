------------------------------ MODULE Attendance ------------------------------
(***************************************************************************)
(* Attendance of one month: entries, imports, corrections and recorded leave *)
(* against the closing and reopening of the month, which is kept per office  *)
(* (attendance/service.py, management_service.py, management_guards.py).     *)
(*                                                                           *)
(* Concurrency.  Every writer takes the advisory lock of the employee's      *)
(* office and month and then asks whether the month is open; it is held      *)
(* until the transaction ends.  The office is read before the lock, and the  *)
(* employee may move meanwhile: the session keeps the office it loaded, also *)
(* when it selects the employee again.  clerk[c] is an open request with     *)
(* what it has loaded, holder the advisory locks.  One date stands for the   *)
(* month; a refused or lost request rolls back (GiveUp).                     *)
(***************************************************************************)
CONSTANTS
  Staff,      \* employees
  Offices,
  Clerks,     \* concurrent requests
  Files,      \* import batches
  Rows,       \* Rows[f]: the employees in the file, all of them present
  Values,     \* values of an entry: its times or leave
  Legacy,     \* employees whose entry is older than the provenance table
  Nil

VARIABLES
  office,     \* office[e]: the employee's office_id
  closed,     \* closed[o]: the latest event of the office's month is "closed"
  entry,      \* entry[e]: the attendance record of e, or Nil
  evidence,   \* evidence[e]: office the approved leave of e was recorded under, or Nil
  batch,      \* batch[f]: "none", "staged" or "confirmed"
  holder,     \* holder[o]: who holds the lock of the office's month
  clerk

attendanceVars == <<office, closed, entry, evidence, batch, holder, clerk>>

Late(value) == value = "late"

\* late is the stored column; origin the office of its provenance; gap: some
\* correction names other old values than the record then had.
Entry == [value: Values, late: BOOLEAN, origin: Offices \cup {Nil},
          corrected: BOOLEAN, gap: BOOLEAN]

ASSUME AttendanceAssumption ==
  /\ Nil \notin Staff \cup Offices \cup Clerks \cup Files
  /\ Rows \in [Files -> SUBSET Staff] /\ Legacy \subseteq Staff
  /\ Values \subseteq {"onTime", "late", "leave"} /\ "onTime" \in Values
  /\ Nil \notin Entry

\* todo: employees whose month is still to be locked; seen: offices as loaded;
\* late and old: of the record to correct, as loaded and as refreshed.
Task == [op: {"save", "import", "correct", "leave"}, of: SUBSET Staff,
         todo: SUBSET Staff, seen: [Staff -> Offices \cup {Nil}], value: Values,
         late: BOOLEAN, old: Values \cup {Nil}, file: Files \cup {Nil}]

AttendanceTypeOK ==
  /\ office \in [Staff -> Offices]
  /\ closed \in [Offices -> BOOLEAN]
  /\ entry \in [Staff -> Entry \cup {Nil}]
  /\ evidence \in [Staff -> Offices \cup {Nil}]
  /\ batch \in [Files -> {"none", "staged", "confirmed"}]
  /\ holder \in [Offices -> Clerks \cup {Nil}]
  /\ clerk \in [Clerks -> Task \cup {Nil}]

NewEntry(value, origin) ==
  [value |-> value, late |-> Late(value), origin |-> origin,
   corrected |-> FALSE, gap |-> FALSE]

AttendanceInit ==
  /\ office \in [Staff -> Offices]
  /\ closed = [o \in Offices |-> FALSE]
  /\ entry = [e \in Staff |-> IF e \in Legacy THEN NewEntry("onTime", Nil) ELSE Nil]
  /\ evidence = [e \in Staff |-> Nil]
  /\ batch = [f \in Files |-> "none"]
  /\ holder = [o \in Offices |-> Nil]
  /\ clerk = [c \in Clerks |-> Nil]

-----------------------------------------------------------------------------
Nowhere == [e \in Staff |-> Nil]
Doing(c, op) == clerk[c] # Nil /\ clerk[c].op = op

\* The transaction of c ends: its locks go with it.
Release(c) ==
  /\ holder' = [o \in Offices |-> IF holder[o] = c THEN Nil ELSE holder[o]]
  /\ clerk' = [clerk EXCEPT ![c] = Nil]

Begin(c, op, of, seen, value, late, file) ==
  /\ clerk[c] = Nil
  /\ clerk' = [clerk EXCEPT ![c] = [op |-> op, of |-> of, todo |-> of, seen |-> seen,
                                    value |-> value, late |-> late, old |-> Nil,
                                    file |-> file]]
  /\ UNCHANGED <<office, closed, entry, evidence, batch, holder>>

\* lock_month: reentrant.
Lockable(c, o) == holder[o] \in {Nil, c}

\* assert_month_open, for the months of all offices in os.
TakeOpen(c, os) ==
  /\ \A o \in os : Lockable(c, o) /\ ~closed[o]
  /\ holder' = [o \in Offices |-> IF o \in os THEN c ELSE holder[o]]

\* Entries never replace a record, nor a recorded leave by anything else.
Acceptable(e, value) ==
  /\ entry[e] = Nil
  /\ evidence[e] # Nil => value = "leave"

-----------------------------------------------------------------------------
\* save_attendance for the employees es, up to the first.
BeginSave(c, es, value) == Begin(c, "save", es, Nowhere, value, FALSE, Nil)

\* _load_employee of the next entry.
LoadEmployee(c, e) ==
  /\ Doing(c, "save") /\ e \in clerk[c].todo
  /\ clerk[c].seen[e] = Nil
  /\ \A d \in clerk[c].todo : clerk[c].seen[d] = Nil
  /\ clerk' = [clerk EXCEPT ![c].seen[e] = office[e]]
  /\ UNCHANGED <<office, closed, entry, evidence, batch, holder>>

\* assert_month_open and validate_manual_context for that entry; saving again what
\* is recorded changes nothing.
CheckEntry(c, e) ==
  /\ Doing(c, "save") /\ e \in clerk[c].todo
  /\ clerk[c].seen[e] # Nil
  /\ TakeOpen(c, {clerk[c].seen[e]})
  /\ \/ Acceptable(e, clerk[c].value) /\ clerk' = [clerk EXCEPT ![c].todo = @ \ {e}]
     \/ /\ entry[e] # Nil /\ entry[e].value = clerk[c].value
        /\ clerk' = [clerk EXCEPT ![c].todo = @ \ {e}, ![c].of = @ \ {e}]
  /\ UNCHANGED <<office, closed, entry, evidence, batch>>

\* The records of c, with the provenance of the office as loaded.
Recorded(c) ==
  [e \in Staff |-> IF e \in clerk[c].of THEN NewEntry(clerk[c].value, clerk[c].seen[e])
                   ELSE entry[e]]

\* The commit: a record made meanwhile under another office's lock violates the
\* unique constraint.
CommitSave(c) ==
  /\ Doing(c, "save") /\ clerk[c].todo = {}
  /\ \A e \in clerk[c].of : entry[e] = Nil
  /\ entry' = Recorded(c)
  /\ Release(c)
  /\ UNCHANGED <<office, closed, evidence, batch>>

\* stage_import: once per uploader and content.
StageImport(f) ==
  /\ batch[f] = "none"
  /\ batch' = [batch EXCEPT ![f] = "staged"]
  /\ UNCHANGED <<office, closed, entry, evidence, holder, clerk>>

\* confirm_import: locks the batch and validates its rows, month included.
BeginImport(c, f) ==
  /\ batch[f] = "staged"
  /\ \A d \in Clerks : clerk[d] # Nil => clerk[d].file # f
  /\ \A e \in Rows[f] : Acceptable(e, "onTime") /\ ~closed[office[e]]
  /\ Begin(c, "import", Rows[f], office, "onTime", FALSE, f)

\* The months of all rows, at the offices loaded with the first validation.
LockImport(c, e) ==
  /\ Doing(c, "import") /\ e \in clerk[c].todo
  /\ TakeOpen(c, {clerk[c].seen[e]})
  /\ clerk' = [clerk EXCEPT ![c].todo = @ \ {e}]
  /\ UNCHANGED <<office, closed, entry, evidence, batch>>

\* The second validation and the records: nothing or everything.  The second
\* reading of the employees finds them in the session, with the same offices.
CommitImport(c) ==
  /\ Doing(c, "import") /\ clerk[c].todo = {}
  /\ \A e \in clerk[c].of : Acceptable(e, "onTime")
  /\ entry' = Recorded(c)
  /\ batch' = [batch EXCEPT ![clerk[c].file] = "confirmed"]
  /\ Release(c)
  /\ UNCHANGED <<office, closed, evidence>>

\* correct_attendance: loads the record with its employee and provenance.
BeginCorrection(c, e, value) ==
  /\ entry[e] # Nil
  /\ Begin(c, "correct", {e}, [Nowhere EXCEPT ![e] = office[e]], value, entry[e].late, Nil)

\* Mutant: only the month of the employee's office is locked.
RefreshRecordHere(c, e) ==
  /\ Doing(c, "correct") /\ clerk[c].todo = {e}
  /\ TakeOpen(c, {clerk[c].seen[e]})
  /\ clerk' = [clerk EXCEPT ![c].todo = {}, ![c].old = entry[e].value]
  /\ UNCHANGED <<office, closed, entry, evidence, batch>>

\* The months of the employee's and of the original office; then the refresh of
\* the columns that were entered, not of those calculated from them.
RefreshRecord(c, e) ==
  /\ Doing(c, "correct") /\ clerk[c].todo = {e}
  /\ TakeOpen(c, {clerk[c].seen[e], entry[e].origin} \ {Nil})
  /\ clerk' = [clerk EXCEPT ![c].todo = {}, ![c].old = entry[e].value]
  /\ UNCHANGED <<office, closed, entry, evidence, batch>>

\* The UPDATE names a calculated column only when it differs from the loaded one.
CommitCorrection(c, e) ==
  /\ Doing(c, "correct") /\ clerk[c].todo = {} /\ clerk[c].of = {e}
  /\ LET late == Late(clerk[c].value)
     IN  entry' = [entry EXCEPT
           ![e].value = clerk[c].value,
           ![e].late = IF late = clerk[c].late THEN @ ELSE late,
           ![e].corrected = TRUE,
           ![e].gap = @ \/ entry[e].value # clerk[c].old]
  /\ Release(c)
  /\ UNCHANGED <<office, closed, evidence, batch>>

\* record_approved_leave, up to the lock.
BeginLeave(c, e) ==
  Begin(c, "leave", {e}, [Nowhere EXCEPT ![e] = office[e]], "onTime", FALSE, Nil)

LockLeave(c, e) ==
  /\ Doing(c, "leave") /\ clerk[c].todo = {e}
  /\ TakeOpen(c, {clerk[c].seen[e]})
  /\ evidence[e] = Nil
  /\ entry[e] # Nil => entry[e].value = "leave"
  /\ clerk' = [clerk EXCEPT ![c].todo = {}]
  /\ UNCHANGED <<office, closed, entry, evidence, batch>>

CommitLeaveRecord(c, e) ==
  /\ Doing(c, "leave") /\ clerk[c].todo = {} /\ clerk[c].of = {e}
  /\ evidence' = [evidence EXCEPT ![e] = clerk[c].seen[e]]
  /\ Release(c)
  /\ UNCHANGED <<office, closed, entry, batch>>

\* A request is refused, fails or is lost.
GiveUp(c) ==
  /\ clerk[c] # Nil
  /\ Release(c)
  /\ UNCHANGED <<office, closed, entry, evidence, batch>>

\* Mutant: the month is closed without its lock.
ChangeMonthUnlocked(o) ==
  /\ closed' = [closed EXCEPT ![o] = ~@]
  /\ UNCHANGED <<office, entry, evidence, batch, holder, clerk>>

\* change_month: locks the month and reads its latest event.
ChangeMonth(o) ==
  /\ holder[o] = Nil
  /\ closed' = [closed EXCEPT ![o] = ~@]
  /\ UNCHANGED <<office, entry, evidence, batch, holder, clerk>>

\* The users or transfers service moves the employee.
MoveEmployee(e, o) ==
  /\ office[e] # o
  /\ office' = [office EXCEPT ![e] = o]
  /\ UNCHANGED <<closed, entry, evidence, batch, holder, clerk>>

ClerkStep(c) ==
  \/ \E es \in SUBSET Staff \ {{}}, v \in Values : BeginSave(c, es, v)
  \/ CommitSave(c)
  \/ \E f \in Files : BeginImport(c, f)
  \/ CommitImport(c)
  \/ \E e \in Staff :
       \/ LoadEmployee(c, e)
       \/ CheckEntry(c, e)
       \/ LockImport(c, e)
       \/ \E v \in Values : BeginCorrection(c, e, v)
       \/ RefreshRecord(c, e)
       \/ CommitCorrection(c, e)
       \/ BeginLeave(c, e)
       \/ LockLeave(c, e)
       \/ CommitLeaveRecord(c, e)
  \/ GiveUp(c)

AttendanceNext ==
  \/ \E c \in Clerks : ClerkStep(c)
  \/ \E f \in Files : StageImport(f)
  \/ \E o \in Offices : ChangeMonth(o)
  \/ \E e \in Staff, o \in Offices : MoveEmployee(e, o)

AttendanceSpec == AttendanceInit /\ [][AttendanceNext]_attendanceVars

-----------------------------------------------------------------------------
(* Properties *)

\* While the month of an office is closed, nothing is entered, imported or recorded
\* under that office and no record filed under it is corrected, however requests,
\* moves of the employees and month changes overlap (assert_month_open).
EnteredInOpenMonth ==
  /\ \A e \in Staff : entry'[e] # entry[e] /\ entry'[e].origin # Nil => ~closed[entry'[e].origin]
  /\ \A e \in Staff : evidence'[e] # evidence[e] => ~closed[evidence'[e]]

ClosedMonthStands == [][EnteredInOpenMonth]_attendanceVars

\* The history of a record with provenance has no gap: every correction starts from
\* what the one before it left, even when two started at the same time; and a
\* presence nobody corrected stands beside a recorded leave only if the two were
\* filed under different offices (correct_attendance, record_approved_leave,
\* save_attendance, confirm_import).
RecordsExplained ==
  \A e \in Staff :
    entry[e] # Nil /\ entry[e].origin # Nil =>
      /\ ~entry[e].gap
      /\ entry[e].value # "leave" /\ ~entry[e].corrected => evidence[e] # entry[e].origin

\* "Late/early/incomplete are recalculated" (docs/attendance.md:43): the lateness
\* stored with a record is that of the times stored with it.
LatenessRecalculated ==
  \A e \in Staff : entry[e] # Nil => entry[e].late = Late(entry[e].value)
=============================================================================
