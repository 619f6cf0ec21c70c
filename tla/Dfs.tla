-------------------------------- MODULE Dfs ---------------------------------
(***************************************************************************)
(* Dynamic frequency selection: the temperature monitor                    *)
(* (mdw/tdc/kmdw_tdc.c, drv/kdrv_tdc.c) and the choice of the NPU clock    *)
(* (mdw/dfs/kmdw_dfs.c).                                                   *)
(*                                                                         *)
(* Above the upper threshold an interrupt starts the algorithm, below the  *)
(* lower one another interrupt stops it if the NPU has its full speed      *)
(* again.  The monitor thread runs the algorithm and leaves a frequency;   *)
(* the next model run sets it.  The three share fields without a lock.     *)
(*                                                                         *)
(* Simplifications: the temperature is "hot" (above the upper threshold),  *)
(* "cool" (below the lower one) or "mild"; the averages, the report of an  *)
(* overheated chip and the printed temperature are left out.  The          *)
(* algorithm is a library (dfs_fuzzy_execution): it proposes a lower       *)
(* frequency when it is hot, a higher one when it is cool, or the limit.   *)
(***************************************************************************)
EXTENDS Integers

CONSTANTS
  Freqs,     (* the frequencies of npu_freq_array the model tells apart    *)
  Proposals  (* what the algorithm may return                              *)

FullSpeed == 700

ASSUME DfsAssumption ==
  /\ Freqs \subseteq Nat /\ Proposals \subseteq Nat /\ FullSpeed \in Freqs
  /\ \A f \in Freqs : f <= FullSpeed

Watches == {"over", "under"}

VARIABLES
  temp,      \* external: the temperature
  updated,   \* tdc_updated
  watch,     \* the threshold whose interrupt is enabled
  seen,      \* the threshold flags that are enabled (enflag)
  active,    \* kmdw_dfs_handle.running
  update,    \* kmdw_dfs_handle.update
  freq,      \* kmdw_dfs_handle.current_freq, and the clock of the NPU
  computed,  \* kmdw_dfs_handle.computed_freq
  monitor,   \* the monitor thread: "wait", or it is about to "compute" or to "offer"
  setter,    \* kmdw_model_run: "off", or it passed the tests and is about to "set"
             \* the frequency, or to "clear" the update
  raced      \* history: the algorithm was stopped between the tests and the setting

dfsVars == <<temp, updated, watch, seen, active, update, freq, computed, monitor, setter, raced>>

DfsInit ==
  /\ temp = "mild"
  /\ updated = FALSE
  /\ watch = "over" /\ seen = Watches
  /\ active = FALSE /\ update = FALSE
  /\ freq = FullSpeed /\ computed = 0
  /\ monitor = "wait" /\ setter = "off"
  /\ raced = FALSE

(* The thresholds of kmdw_dfs_set_npu_frequency: the nearest frequency.    *)
Distance(f, c) == IF f > c THEN f - c ELSE c - f
Nearest(c) ==
  CHOOSE f \in Freqs :
    \A g \in Freqs \ {f} :
      Distance(f, c) < Distance(g, c) \/ (Distance(f, c) = Distance(g, c) /\ f > g)

-----------------------------------------------------------------------------
TempChanges ==
  /\ temp' \in {"cool", "mild", "hot"}
  /\ UNCHANGED <<updated, watch, seen, active, update, freq, computed, monitor, setter, raced>>

(* The threshold interrupt is raised, and the status it shows.             *)
Status  == {t \in seen : (t = "over" /\ temp = "hot") \/ (t = "under" /\ temp = "cool")}
Pending == watch \in Status

\* mutant: the under branch stops the algorithm at any speed.
StopAtAnySpeed ==
  IF "over" \in Status
  THEN /\ active' = TRUE
       /\ watch' = "under" /\ seen' = {"under"}
       /\ UNCHANGED <<update, raced>>
  ELSE /\ active' = FALSE
       /\ update' = FALSE
       /\ watch' = "over" /\ seen' = {"over"}
       /\ raced' = (raced \/ setter = "set")

(* kmdw_dfs_tdc_callback                                                   *)
kmdw_dfs_tdc_callback ==
  IF "over" \in Status
  THEN /\ active' = TRUE
       /\ watch' = "under" /\ seen' = {"under"}
       /\ UNCHANGED <<update, raced>>
  ELSE /\ active' = (active /\ freq # FullSpeed)
       /\ update' = (update /\ freq # FullSpeed)
       /\ watch' = "over" /\ seen' = {"over"}
       /\ raced' = (raced \/ (setter = "set" /\ freq = FullSpeed))

(* kdrv_tdc_isr: the callback waits for a new value, which the monitor     *)
(* fetched or the finished conversion brings; without one the interrupt is *)
(* cleared, and raised again by the next conversion.                       *)
kdrv_tdc_isr(conversion) ==
  /\ Pending
  /\ updated \/ conversion
  /\ updated' = FALSE
  /\ kmdw_dfs_tdc_callback
  /\ UNCHANGED <<temp, freq, computed, monitor, setter>>

-----------------------------------------------------------------------------
(* The monitor thread: kdrv_tdc_update, and the test in                    *)
(* kmdw_dfs_algorithm_execution.                                           *)
Poll ==
  /\ monitor = "wait"
  /\ updated' = TRUE
  /\ monitor' = IF active THEN "compute" ELSE "wait"
  /\ UNCHANGED <<temp, watch, seen, active, update, freq, computed, setter, raced>>

(* dfs_fuzzy_execution, as far as it is relied on: a frequency that makes  *)
(* a difference, or the limit.                                             *)
algorithm_exe(f) ==
  {p \in Proposals :
     /\ temp = "hot"  => Nearest(p) < f \/ \A g \in Freqs : Nearest(p) <= g
     /\ temp = "cool" => Nearest(p) > f \/ Nearest(p) = FullSpeed}

Compute ==
  /\ monitor = "compute"
  /\ computed' \in algorithm_exe(freq)
  /\ monitor' = "offer"
  /\ UNCHANGED <<temp, updated, watch, seen, active, update, freq, setter, raced>>

Offer ==
  /\ monitor = "offer"
  /\ update' = TRUE
  /\ monitor' = "wait"
  /\ UNCHANGED <<temp, updated, watch, seen, active, freq, computed, setter, raced>>

-----------------------------------------------------------------------------
(* kmdw_model_run: kmdw_dfs_is_algorithm_running and the tests of          *)
(* kmdw_dfs_set_npu_frequency.                                             *)
BeginRun ==
  /\ setter = "off"
  /\ active /\ update
  /\ setter' = "set"
  /\ UNCHANGED <<temp, updated, watch, seen, active, update, freq, computed, monitor, raced>>

\* mutant: the frequency is taken, and not what it was computed for.
SetAndStop ==
  /\ setter = "set"
  /\ freq' = Nearest(computed)
  /\ active' = FALSE
  /\ setter' = "clear"
  /\ UNCHANGED <<temp, updated, watch, seen, update, computed, monitor, raced>>

SetFrequency ==
  /\ setter = "set"
  /\ freq' = Nearest(computed)
  /\ setter' = "clear"
  /\ UNCHANGED <<temp, updated, watch, seen, active, update, computed, monitor, raced>>

(* The end of it: what the monitor offered meanwhile is forgotten, too.    *)
ClearUpdate ==
  /\ setter = "clear"
  /\ update' = FALSE
  /\ setter' = "off"
  /\ UNCHANGED <<temp, updated, watch, seen, active, freq, computed, monitor, raced>>

-----------------------------------------------------------------------------
DfsIsr  == \E conversion \in BOOLEAN : kdrv_tdc_isr(conversion)
DfsWork == DfsIsr \/ Poll \/ Compute \/ Offer \/ BeginRun \/ SetFrequency \/ ClearUpdate
DfsNext == TempChanges \/ DfsWork

DfsSpec == DfsInit /\ [][DfsNext]_dfsVars

(* Interrupts are served, the monitor polls, and the host goes on running  *)
(* models.                                                                 *)
DfsFairness ==
  /\ WF_dfsVars(DfsIsr)
  /\ WF_dfsVars(Poll) /\ WF_dfsVars(Compute) /\ WF_dfsVars(Offer)
  /\ WF_dfsVars(BeginRun) /\ WF_dfsVars(SetFrequency) /\ WF_dfsVars(ClearUpdate)

-----------------------------------------------------------------------------
(* Properties.                                                             *)

DfsTypeOK ==
  /\ temp \in {"cool", "mild", "hot"}
  /\ {updated, active, update, raced} \subseteq BOOLEAN
  /\ watch \in Watches /\ seen \subseteq Watches
  /\ freq \in Freqs /\ computed \in Proposals \cup {0}
  /\ monitor \in {"wait", "compute", "offer"} /\ setter \in {"off", "set", "clear"}

(* The NPU is not left slow with the algorithm stopped, unless the         *)
(* interrupt came between the tests of a setting and its end: nobody would *)
(* make it fast again before it is hot once more.                          *)
SlowIsWatched == ~raced => (freq # FullSpeed => active)

(* When it stays cool the full speed comes back, when it stays hot the     *)
(* lowest frequency is reached, whatever the interrupts, the monitor and   *)
(* the runs interleave.                                                    *)
SpeedComesBack == <>[](temp = "cool") => []<>(freq = FullSpeed \/ raced)
HeatSlowsDown  == <>[](temp = "hot") => []<>(\A f \in Freqs : freq <= f)

=============================================================================
