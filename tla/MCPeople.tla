------------------------------- MODULE MCPeople -------------------------------
(***************************************************************************)
(* Small instances of the components about employees, side by side: exits    *)
(* with the assets, leave, attendance, the timelines and the categories of   *)
(* assets.  A behaviour is one component's alone and focus, which never      *)
(* changes, says whose.                                                      *)
(***************************************************************************)
EXTENDS MCExits, MCAttendance, Leave, AssetTimeline, AssetCategories

CONSTANTS mgr, hr, own, y1, y2, z1, z2

VARIABLE focus

McSpans == {[days |-> {1}, half |-> TRUE], [days |-> {1, 2}, half |-> FALSE]}

\* The components share the values that stand for what is interchangeable in each.
PeopleSymmetry == Permutations({y1, y2}) \cup Permutations({z1, z2})

\* The components that are not in focus stay in one initial state.
PeopleInit ==
  /\ focus \in {"exits", "leave", "attendance", "timeline", "categories"}
  /\ Init
  /\ LeaveInit /\ (focus # "leave" => manager = mgr /\ granted = 0)
  /\ AttendanceInit
  /\ focus # "attendance" => office = [e \in Staff |-> CHOOSE o \in Offices : TRUE]
  /\ TimelineInit /\ (focus # "timeline" => snapshots)
  /\ CategoryInit
  /\ focus # "categories" => layout = [c \in Categories |-> CHOOSE l \in Layouts : TRUE]

PeopleNext ==
  \/ focus = "exits" /\ Next
     /\ UNCHANGED <<focus, leaveVars, attendanceVars, timelineVars, categoryVars>>
  \/ focus = "leave" /\ LeaveNext
     /\ UNCHANGED <<focus, vars, attendanceVars, timelineVars, categoryVars>>
  \/ focus = "attendance" /\ AttendanceNext
     /\ UNCHANGED <<focus, vars, leaveVars, timelineVars, categoryVars>>
  \/ focus = "timeline" /\ TimelineNext
     /\ UNCHANGED <<focus, vars, leaveVars, attendanceVars, categoryVars>>
  \/ focus = "categories" /\ CategoryNext
     /\ UNCHANGED <<focus, vars, leaveVars, attendanceVars, timelineVars>>

PeopleSpec ==
  PeopleInit
  /\ [][PeopleNext]_<<focus, vars, leaveVars, attendanceVars, timelineVars, categoryVars>>
=============================================================================
