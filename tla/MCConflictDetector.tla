------------------------- MODULE MCConflictDetector -------------------------
(* Instances of ConflictDetector for TLC.                                   *)
EXTENDS ConflictDetector, TLC

MCSymmetry == Permutations(Nodes)

\* A defect seen by a camera; a doubtful view of it (the gap decides); a lidar's
\* view (the sensor decides); a view without a name, found by its box (open);
\* something else without a name, which is no other target's.
Defect ==
    [target |-> "t1", class |-> "defect", confidence |-> 90, decision |-> "critical",
     sensor |-> "camera", place |-> 0, box |-> 1]
Doubt ==
    [target |-> "t1", class |-> "normal", confidence |-> 30, decision |-> "normal",
     sensor |-> "camera", place |-> 0, box |-> 0]
Scan ==
    [target |-> "t1", class |-> "scratch", confidence |-> 50, decision |-> "warning",
     sensor |-> "lidar", place |-> 4, box |-> 0]
Alias ==
    [target |-> "", class |-> "normal", confidence |-> 80, decision |-> "normal",
     sensor |-> "camera", place |-> 0, box |-> 1]
Stranger ==
    [target |-> "", class |-> "scratch", confidence |-> 70, decision |-> "warning",
     sensor |-> "thermal", place |-> 0, box |-> 0]

MCDetections == {Defect, Doubt, Scan, Alias, Stranger}
=============================================================================
