------------------------------- MODULE MCMotion -------------------------------
(***************************************************************************)
(* An instance of Motion: two targets beyond full scale, one within the    *)
(* limits of its axes and one not, and the wheel commands they come to.    *)
(***************************************************************************)
EXTENDS Motion

(* Backwards and turning: the wheels of one side run beyond full scale,    *)
(* those of the other do not.  The second one is beyond the limit of vx,   *)
(* which turns it onto the heading of the first.                           *)
TwoAims == {[vx |-> v, vy |-> 0, omega |-> -3] : v \in {-6, -9}}

Limits == [vx |-> 6, vy |-> 6, omega |-> 6]

AimCommands ==
  {Kinematics!Scale(Kinematics!WheelVals(Kinematics!ClampBody(b))) :
     b \in TwoAims \union {Kinematics!Rest}}
=============================================================================
