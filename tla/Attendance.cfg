SPECIFICATION AttendanceSpec
INVARIANT LatenessRecalculated
SYMMETRY AttendanceSymmetry
CONSTANTS
  Staff = {sam}
  Offices = {dubai, sharjah}
  Clerks = {c1, c2}
  Files = {f1}
  Rows <- McRows
  Values = {"onTime", "late", "leave"}
  Legacy = {}
  Nil = Nil
