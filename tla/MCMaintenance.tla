---------------------------- MODULE MCMaintenance ---------------------------
(* Two parts of the system that share no state in the model, on small      *)
(* instances: the maintenance of the device by its host, and the camera    *)
(* solutions.  The part chosen at the start moves.                         *)
EXTENDS Maintenance, HicoPipeline, TLC

CONSTANTS a, b, full, t1, t2

VARIABLE part

MCSets ==
  a    :> [types |-> <<t1>>, end |-> 5, out |-> 3] @@
  b    :> [types |-> <<t1>>, end |-> 8, out |-> 1] @@
  full :> [types |-> <<t2, t1>>, end |-> 19, out |-> 2]

(* What each counter begins with; its bound minus that is what is left:    *)
(* model commands alone (two); one of each with a reboot; a switch alone.  *)
MCBegin ==
  {[update |-> 3, switch |-> 1, boot |-> 3, fault |-> 1, command |-> 1],
   [update |-> 2, switch |-> 1, boot |-> 2, fault |-> 1, command |-> 2],
   [update |-> 3, switch |-> 0, boot |-> 3, fault |-> 1, command |-> 3]}

(* Two cameras with three frames after one START, or with two frames and a *)
(* disturbance more; a ToF sensor with four frames, or three and a         *)
(* disturbance more.                                                       *)
MCHicoBegin ==
  {[solution |-> "mipi", frames |-> 1, mishaps |-> 1],
   [solution |-> "mipi", frames |-> 2, mishaps |-> 0],
   [solution |-> "tof",  frames |-> 0, mishaps |-> 1],
   [solution |-> "tof",  frames |-> 1, mishaps |-> 0]}

partVars == <<part, vars, hicoVars>>

PartInit ==
  /\ part \in {"maintenance", "camera"}
  /\ Init /\ HicoInit
  /\ part = "maintenance" => solution = "tof" /\ frames = 0
  /\ part = "camera" => done.command = 1 /\ flash.info = a /\ cfg = FactoryCfg

PartNext ==
  \/ part = "maintenance" /\ Next /\ UNCHANGED <<part, hicoVars>>
  \/ part = "camera" /\ HicoNext /\ UNCHANGED <<part, vars>>

PartSpec == PartInit /\ [][PartNext]_partVars

=============================================================================
