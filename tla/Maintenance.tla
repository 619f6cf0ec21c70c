----------------------------- MODULE Maintenance ----------------------------
(***************************************************************************)
(* The device under maintenance by its host: model loading, model and      *)
(* firmware updates and inferences, with power failures at any moment.     *)
(* One thread executes the commands of ModelStore and of Dfu, one at a     *)
(* time; inferences and control transfers go on meanwhile.                 *)
(***************************************************************************)
EXTENDS ModelStore, Dfu

vars == <<modelVars, dfuVars>>

Booting ==
  \/ pc \in {"off", "check", "load", "load0"}
  \/ /\ pc \in {"erase0", "prog0", "erase1", "prog1", "init", "init1", "initP0", "initP1"}
     /\ after \in {"load", "load0"}

Init == ModelInit /\ DfuInit

(* kdp2_cmd_handle_legend_kdp_command: the image is received over the      *)
(* models before the update begins.                                        *)
UpdateFirmware ==
  /\ ReceiveImage
  /\ \E c \in Cpus :
       BeginUpdate(c) \/ \E code \in {"auth_fail", "data_error"} : RejectUpdate(c, code)

(* kmdw_dfu_switch_active_partition has no caller in the repository: it is *)
(* modelled as a call of the thread that executes the commands.            *)
SwitchPartition ==
  /\ cmd.op = "idle"
  /\ \E c \in Cpus : kmdw_dfu_switch_active_partition(c)
  /\ UNCHANGED modelVars

BeginModelCommand ==
  /\ pc = "idle"
  /\ done.command < MaxCommand
  /\ done' = [done EXCEPT !.command = @ + 1]
  /\ ModelCommand
  /\ UNCHANGED <<dfuFlash, dfuControl, dfuHistory>>

Reboot == PowerLoss /\ ModelReboot

DfuWork   == DfuStep /\ UNCHANGED modelVars
ModelWork ==
  /\ \/ pc = "idle" /\ ModelCommandStep
     \/ ~Booting /\ ModelOther
  /\ UNCHANGED dfuVars

Next ==
  \/ DfuWork \/ ModelWork \/ Reboot
  \/ UpdateFirmware \/ SwitchPartition \/ BeginModelCommand

Spec == Init /\ [][Next]_vars

=============================================================================
