----------------------------- MODULE MCAttendance -----------------------------
(* A small instance of Attendance: an employee, two offices, two requests.    *)
EXTENDS Attendance, TLC

\* Every file has a row for each employee.
McRows == [f \in Files |-> Staff]

\* Offices and requests are interchangeable.
AttendanceSymmetry == Permutations(Offices) \cup Permutations(Clerks)
=============================================================================
