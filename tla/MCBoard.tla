------------------------------ MODULE MCBoard -------------------------------
(* Four parts of the system that share no state: the firmware update, the  *)
(* log queue, the frequency selection and a bulk endpoint.  The device     *)
(* boots; then the part chosen at the start moves.  What holds of each     *)
(* alone holds of all together.                                            *)
EXTENDS Dfu, LogQueue, Dfs, UsbEndpoint

VARIABLE part

boardVars == <<part, dfuVars, logVars, dfsVars, epVars>>

(* The flash fails in the runs about the update only.                      *)
MCBegin ==
  {[update |-> 0, switch |-> 0, boot |-> 0, fault |-> f, command |-> 0] : f \in {0, MaxFault}}

BoardInit ==
  /\ part \in {"dfu", "log", "dfs", "usb"}
  /\ DfuInit /\ LogInit /\ DfsInit /\ EpInit
  /\ part # "usb" => dir = "in"
  /\ done.fault = IF part = "dfu" THEN 0 ELSE MaxFault

Alone(p) == part = p /\ pc = "idle" /\ UNCHANGED part
OnlyDfu == UNCHANGED <<part, logVars, dfsVars, epVars>>
OnlyLog == Alone("log") /\ UNCHANGED <<dfuVars, dfsVars, epVars>>
OnlyDfs == Alone("dfs") /\ UNCHANGED <<dfuVars, logVars, epVars>>
OnlyUsb == Alone("usb") /\ UNCHANGED <<dfuVars, logVars, dfsVars>>

BoardNext ==
  \/ DfuStep /\ OnlyDfu
  \/ part = "dfu" /\ (PowerLoss \/ DfuRequest) /\ OnlyDfu
  \/ LogNext /\ OnlyLog
  \/ DfsNext /\ OnlyDfs
  \/ EpNext /\ OnlyUsb

BoardSpec == BoardInit /\ [][BoardNext]_boardVars

(* DfuFairSpec, LogFairness and DfsFairness, each of its own part.         *)
BoardFairSpec ==
  /\ BoardSpec
  /\ WF_boardVars(DfuStep /\ OnlyDfu)
  /\ WF_boardVars(Logger /\ OnlyLog)
  /\ \A w \in Writers \cup {"ncpu"} : WF_boardVars(WriterStep(w) /\ OnlyLog)
  /\ WF_boardVars(DfsIsr /\ OnlyDfs)
  /\ WF_boardVars(Poll /\ OnlyDfs)
  /\ WF_boardVars(Compute /\ OnlyDfs)
  /\ WF_boardVars(Offer /\ OnlyDfs)
  /\ WF_boardVars(BeginRun /\ OnlyDfs)
  /\ WF_boardVars(SetFrequency /\ OnlyDfs)
  /\ WF_boardVars(ClearUpdate /\ OnlyDfs)

=============================================================================
