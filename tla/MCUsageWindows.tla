------------------------------ MODULE MCUsageWindows ------------------------------
(* Two models of a group, m2 an alias of m1, with a cap of each kind; only *)
(* m1 has a name that relates to the group's.                              *)
EXTENDS UsageWindowsProps, TLC

CONSTANTS m1, m2

Models    == {m1, m2}
Aliased   == [m \in Models |-> m1]
Caps      == (m1 :> [mode |-> "offset", value |-> -1]) @@
             (m2 :> [mode |-> "percentage", value |-> 50]) @@
             (Group :> [mode |-> "absolute", value |-> 2])
RpdLimits == m1 :> 1
Named     == [g \in Groups |-> IF g = Group THEN {m1} ELSE {}]
NoCaps    == [s \in {} |-> 0]
===================================================================================
