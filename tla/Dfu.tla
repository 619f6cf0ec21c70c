-------------------------------- MODULE Dfu ---------------------------------
(***************************************************************************)
(* Firmware update (mdw/dfu/kmdw_dfu.c) and the part of the boot that      *)
(* depends on it (load_ncpu_fw, mdw/system/kmdw_system.c).                 *)
(*                                                                         *)
(* Each processor has two image partitions.  Two configuration sectors of  *)
(* the flash, one per partition, each hold an item for BOTH processors;    *)
(* the items' flags say which partition is in use.  A sector is erased     *)
(* before it is programmed, so power may fail (or the host may send        *)
(* KDP2_CONTROL_REBOOT, handled in interrupt context) with the sector      *)
(* erased, between the two sectors, or in the middle of an image.          *)
(*                                                                         *)
(* Simplifications: an image is its version, or Torn; checksums and flash  *)
(* timeouts are outcomes; the 24 bytes of a sector are programmed at once; *)
(* the second stage loader (not in the repository) only turns FIRST_BOOT   *)
(* into POST_FIRST_BOOT; reading the flash at boot does not fail.          *)
(***************************************************************************)
EXTENDS Integers

CONSTANTS
  MaxBootSeq,  (* MAX_BOOT_SEQ                                             *)
  MaxUpdate,   (* bound: firmware updates                                  *)
  MaxSwitch,   (* bound: calls of kmdw_dfu_switch_active_partition         *)
  MaxBoot,     (* bound: reboots and power failures                        *)
  MaxFault,    (* bound: flash operations that fail                        *)
  MaxCommand,  (* bound: commands other than firmware updates              *)
  Begin        (* what the counters begin with: TLC tries several mixes    *)

Counters == [update : Nat, switch : Nat, boot : Nat, fault : Nat, command : Nat]

ASSUME DfuAssumption ==
  /\ MaxBootSeq \in Nat \ {0}
  /\ {MaxUpdate, MaxSwitch, MaxBoot, MaxFault, MaxCommand} \subseteq Nat
  /\ Begin \subseteq Counters

Cpus  == {"scpu", "ncpu"}
Parts == {0, 1}
Torn  == 0                        \* an image that is not complete
Flags == {"confirmed", "first", "post", "not", "erased"}
Ones  == MaxBootSeq + 2           \* the word 0xffffffff of an erased sector

(* dfu_boot_cfg_item_t and dfu_boot_cfg_t.                                 *)
Items  == [id : {0, 1, Ones}, seq : 0 .. Ones, flag : Flags]
Item(id, seq, flag) == [id |-> id, seq |-> seq, flag |-> flag]
Erased == [c \in Cpus |-> Item(Ones, Ones, "erased")]

VARIABLES
  cfg,         \* flash: the two configuration sectors
  image,       \* flash: the image in each partition of each processor
  ram,         \* boot_cfg_0 and boot_cfg_1
  pc,          \* where the boot, or the update, stands
  job,         \* processor, target partition and version of the update
  after,       \* where the writing of the configuration returns to
  flashing,    \* the flag the power manager's hooks look at
  result,      \* what the last update returned
  running      \* the image the NCPU was started with

VARIABLES
  done,        \* how often each bounded thing happened
  cut,         \* history: what the next boot looks at was left half written
  switched     \* history: kmdw_dfu_switch_active_partition was called

dfuFlash   == <<cfg, image>>
dfuControl == <<ram, pc, job, after, flashing, result, running>>
dfuHistory == <<cut, switched>>
dfuVars    == <<dfuFlash, dfuControl, done, dfuHistory>>

Codes  == {"none", "success", "auth_fail", "flash_fail", "data_error"}
NoJob  == [cpu |-> "scpu", target |-> 1, ver |-> Torn]
Result(c, code) == [cpu |-> c, code |-> code]

(* The configuration is being rewritten: a sector is erased, or the first  *)
(* of two is new and the second old.                                       *)
CfgPcs  == {"prog", "prog0", "erase1", "prog1", "init1", "initP0", "initP1"}
DfuPcs  == CfgPcs \cup {"off", "check", "load", "load0", "idle", "init",
                           "image0", "image", "cfg", "erase0"}

(* Factory: programmed for partition 0, or never configured.               *)
FactoryCfg ==
  [p \in Parts |-> [c \in Cpus |-> IF p = 0 THEN Item(0, 1, "confirmed") ELSE Item(1, 0, "not")]]

DfuInit ==
  /\ cfg \in {FactoryCfg, [p \in Parts |-> Erased]}
  /\ image = [c \in Cpus |-> [p \in Parts |-> IF p = 0 THEN 1 ELSE Torn]]
  /\ ram = [p \in Parts |-> Erased]
  /\ pc = "off"
  /\ job = NoJob
  /\ after = "idle"
  /\ flashing = FALSE
  /\ result = Result("scpu", "none")
  /\ running = Torn
  /\ done \in Begin
  /\ cut = FALSE
  /\ switched = FALSE

-----------------------------------------------------------------------------
(* Which partition is in use.                                              *)

Unset == 2   \* neither partition: there is no configuration

BothErased(b, c)   == \A p \in Parts : b[p][c].flag = "erased"
SameItem(b, c)     == b[0][c].id = b[1][c].id /\ b[0][c].seq = b[1][c].seq

(* flag & BOOT_STATE_CONFIRMED: all bits of an erased word are set.        *)
ConfirmedBit(item) == item.flag \in {"confirmed", "erased"}
TwoActive(b, c)    == \A p \in Parts : ConfirmedBit(b[p][c])

(* kmdw_dfu_get_active_scpu_partition and ..._ncpu_partition up to the     *)
(* creation of a configuration.                                            *)
active_partition(b, c) ==
  IF BothErased(b, c) THEN Unset
  ELSE IF TwoActive(b, c) THEN -1
  ELSE IF SameItem(b, c) THEN Unset
  ELSE IF ConfirmedBit(b[1][c]) THEN 1 ELSE 0

(* The partition of processor c that a boot from configuration b uses:     *)
(* load_ncpu_fw takes every value but 0 for partition 1.                   *)
BootPartition(b, c) == IF active_partition(b, c) \in {0, Unset} THEN 0 ELSE 1

(* What the next boot would look at is half written: the configuration, or *)
(* an image whose item already says that it is to be booted.               *)
Exposed ==
  \/ pc \in CfgPcs
  \/ pc = "image" /\ cfg[job.target][job.cpu].flag \in {"first", "post"}

(* A flash operation fails (bounded).                                      *)
Fault ==
  /\ done.fault < MaxFault
  /\ done' = [done EXCEPT !.fault = @ + 1]
  /\ cut' = (cut \/ Exposed)

-----------------------------------------------------------------------------
(* Writing the configuration.                                              *)

(* dfu_mem_to_flash_small_block on sector p, from `from' via `erased'.     *)
EraseSector(p, from, erased) ==
  /\ pc = from
  /\ cfg' = [cfg EXCEPT ![p] = Erased]
  /\ pc' = erased
  /\ UNCHANGED <<image, ram, job, after, flashing, result, running, done, dfuHistory>>

(* Both sectors are written, sector 0 first; a failure ends the writing.   *)
ProgramSector(p, from, next) ==
  /\ pc = from
  /\ \/ /\ cfg' = [cfg EXCEPT ![p] = ram[p]]
        /\ pc' = next
        /\ UNCHANGED <<done, cut>>
     \/ /\ Fault
        /\ pc' = after
        /\ UNCHANGED cfg
  /\ UNCHANGED <<image, ram, job, after, flashing, result, running, switched>>

WriteBothSectors ==
  \/ EraseSector(0, "erase0", "prog0")
  \/ ProgramSector(0, "prog0", "erase1")
  \/ EraseSector(1, "erase1", "prog1")
  \/ ProgramSector(1, "prog1", after)

(* dfu_init_partition_boot_cfg: erases both sectors, then programs them,   *)
(* and does not read them back.                                            *)
InitProgram(p, from, next) ==
  /\ pc = from
  /\ \/ cfg' = [cfg EXCEPT ![p] = ram[p]] /\ UNCHANGED <<done, cut>>
     \/ Fault /\ UNCHANGED cfg
  /\ pc' = next
  /\ UNCHANGED <<image, ram, job, after, flashing, result, running, switched>>

dfu_init_partition_boot_cfg ==
  \/ /\ pc = "init"
     /\ cfg' = [cfg EXCEPT ![0] = Erased]
     /\ ram' = FactoryCfg
     /\ pc' = "init1"
     /\ UNCHANGED <<image, job, after, flashing, result, running, done, dfuHistory>>
  \/ EraseSector(1, "init1", "initP0")
  \/ InitProgram(0, "initP0", "initP1")
  \/ InitProgram(1, "initP1", after)

-----------------------------------------------------------------------------
(* Boot.                                                                   *)

(* Power fails, or the host or a command reboots the device.               *)
PowerLoss ==
  /\ pc # "off"
  /\ done.boot < MaxBoot
  /\ done' = [done EXCEPT !.boot = @ + 1]
  /\ pc' = "off"
  /\ flashing' = FALSE
  /\ job' = NoJob /\ after' = "idle"
  /\ ram' = [p \in Parts |-> Erased]
  /\ result' = Result("scpu", "none")
  /\ running' = Torn
  /\ cut' = (cut \/ Exposed)
  /\ UNCHANGED <<dfuFlash, switched>>

(* External: the loader starts the SCPU firmware.                          *)
Loader ==
  /\ pc = "off"
  /\ cfg' = [p \in Parts |-> [c \in Cpus |->
               IF cfg[p][c].flag = "first" THEN [cfg[p][c] EXCEPT !.flag = "post"] ELSE cfg[p][c]]]
  /\ pc' = "check"
  /\ UNCHANGED <<image, ram, job, after, flashing, result, running, done, dfuHistory>>

(* The image booted for the first time in partition p is confirmed and     *)
(* the one it replaces is not any more.                                    *)
Confirm_keeps_other(b, c, p) ==  \* mutant: leaves the old image confirmed
  IF b[p][c].flag = "post" THEN [b EXCEPT ![p][c].flag = "confirmed"] ELSE b

Confirm(b, c, p) ==
  IF b[p][c].flag = "post"
  THEN [b EXCEPT ![p][c].flag = "confirmed",
                 ![1 - p][c].flag = IF @ = "confirmed" THEN "not" ELSE @]
  ELSE b

ConfirmAll(b) ==
  Confirm(Confirm(Confirm(Confirm(b, "scpu", 0), "ncpu", 0), "scpu", 1), "ncpu", 1)

HasFlag(b, f) == \E p \in Parts, c \in Cpus : b[p][c].flag = f

kmdw_dfu_cfg_sts_check_again ==  \* mutant: checks again after writing, and forgets the change
  /\ pc = "check"
  /\ ram' = cfg
  /\ IF HasFlag(cfg, "post") THEN pc' = "erase0" /\ after' = "check"
                              ELSE pc' = "load" /\ UNCHANGED after
  /\ UNCHANGED <<dfuFlash, job, flashing, result, running, done, dfuHistory>>

kmdw_dfu_cfg_sts_check ==
  /\ pc = "check"
  /\ IF \/ cfg[0]["scpu"].flag = "erased" /\ cfg[1]["scpu"].flag = "erased"
        \/ HasFlag(cfg, "first")
        \/ ~HasFlag(cfg, "post")
     THEN ram' = cfg /\ pc' = "load" /\ UNCHANGED after
     ELSE ram' = ConfirmAll(cfg) /\ pc' = "erase0" /\ after' = "load"
  /\ UNCHANGED <<dfuFlash, job, flashing, result, running, done, dfuHistory>>

NcpuStarts(p) ==
  /\ running' = image["ncpu"][p]
  /\ pc' = "idle"
  /\ UNCHANGED after

load_ncpu_fw ==
  /\ \/ /\ pc = "load"
        /\ ram' = cfg
        /\ IF active_partition(cfg, "ncpu") = Unset
           THEN pc' = "init" /\ after' = "load0" /\ UNCHANGED running
           ELSE NcpuStarts(BootPartition(cfg, "ncpu"))
     \/ pc = "load0" /\ NcpuStarts(0) /\ UNCHANGED ram
  /\ UNCHANGED <<dfuFlash, job, flashing, result, done, dfuHistory>>

-----------------------------------------------------------------------------
(* kmdw_dfu_update_scpu and kmdw_dfu_update_ncpu.                          *)

(* The image did not arrive, or its checksum is wrong.                     *)
RejectUpdate(c, code) ==
  /\ pc = "idle"
  /\ done.update < MaxUpdate
  /\ done' = [done EXCEPT !.update = @ + 1]
  /\ result' = Result(c, code)
  /\ UNCHANGED <<dfuFlash, ram, pc, job, after, flashing, running, dfuHistory>>

BeginImage_in_place(c, target, ver) ==  \* mutant: the image in use is overwritten
  /\ job' = [cpu |-> c, target |-> 1 - target, ver |-> ver]
  /\ image' = [image EXCEPT ![c][1 - target] = Torn]
  /\ pc' = "image"

(* The first sector of the partition not in use is erased.                 *)
BeginImage(c, target, ver) ==
  /\ job' = [cpu |-> c, target |-> target, ver |-> ver]
  /\ image' = [image EXCEPT ![c][target] = Torn]
  /\ pc' = "image"

BeginUpdate(c) ==
  LET active == active_partition(cfg, c)
      ver    == done.update + 2
  IN /\ pc = "idle"
     /\ done.update < MaxUpdate
     /\ done' = [done EXCEPT !.update = @ + 1]
     /\ ram' = cfg
     /\ \/ /\ active = Unset
           /\ job' = [cpu |-> c, target |-> 1, ver |-> ver]
           /\ pc' = "init" /\ after' = "image0" /\ flashing' = TRUE
           /\ result' = Result(c, "none")
           /\ UNCHANGED image
        \/ /\ active = -1
           /\ result' = Result(c, "flash_fail")
           /\ UNCHANGED <<job, pc, after, flashing, image>>
        \/ /\ active \in Parts
           /\ BeginImage(c, 1 - active, ver)
           /\ flashing' = TRUE /\ result' = Result(c, "none")
           /\ UNCHANGED after
     /\ UNCHANGED <<cfg, running, cut, switched>>

(* ... after the configuration was created: partition 0 is in use.         *)
BeginAfterInit ==
  /\ pc = "image0"
  /\ BeginImage(job.cpu, 1, job.ver)
  /\ UNCHANGED <<cfg, ram, after, flashing, result, running, done, cut, switched>>

(* The update ends.                                                        *)
Return(code) ==
  /\ pc' = "idle" /\ flashing' = FALSE
  /\ result' = Result(job.cpu, code)

(* The image is written and read back.                                     *)
WriteImage_unverified ==  \* mutant: a bad image goes on to the configuration
  /\ pc = "image"
  /\ \/ image' = [image EXCEPT ![job.cpu][job.target] = job.ver] /\ UNCHANGED <<done, cut>>
     \/ Fault /\ UNCHANGED image
  /\ pc' = "cfg" /\ UNCHANGED <<flashing, result>>
  /\ UNCHANGED <<cfg, ram, job, after, running, switched>>

WriteImage ==
  /\ pc = "image"
  /\ \/ /\ image' = [image EXCEPT ![job.cpu][job.target] = job.ver]
        /\ pc' = "cfg"
        /\ UNCHANGED <<flashing, result, done, cut>>
     \/ /\ Fault
        /\ Return("flash_fail")
        /\ UNCHANGED image
  /\ UNCHANGED <<cfg, ram, job, after, running, switched>>

(* The new item: the next sequence number, or a restart of both.  Only     *)
(* the target's sector is written.                                         *)
Newer(b, c) == IF b[0][c].seq > b[1][c].seq THEN b[0][c].seq ELSE b[1][c].seq

NextCfg_confirmed(b, c, t) ==  \* mutant: the new image counts as confirmed at once
  [b EXCEPT ![t][c].seq = Newer(b, c) + 1, ![t][c].flag = "confirmed", ![1 - t][c].flag = "not"]

NextCfg_unwrapped(b, c, t) ==  \* mutant: the sequence numbers never restart
  [b EXCEPT ![t][c].seq = Newer(b, c) + 1, ![t][c].flag = "first"]

NextCfg(b, c, t) ==
  IF Newer(b, c) > MaxBootSeq
  THEN [b EXCEPT ![t][c].seq = 1, ![1 - t][c].seq = 0, ![t][c].flag = "first"]
  ELSE [b EXCEPT ![t][c].seq = Newer(b, c) + 1, ![t][c].flag = "first"]

EraseUpdateCfg ==
  /\ pc = "cfg"
  /\ ram' = NextCfg(ram, job.cpu, job.target)
  /\ cfg' = [cfg EXCEPT ![job.target] = Erased]
  /\ pc' = "prog"
  /\ UNCHANGED <<image, job, after, flashing, result, running, done, dfuHistory>>

(* The SCPU's update ignores the failure and takes any difference other    *)
(* than -1 that memcmp returns for success.                                *)
ProgramUpdateCfg ==
  /\ pc = "prog"
  /\ \/ /\ cfg' = [cfg EXCEPT ![job.target] = ram[job.target]]
        /\ Return("success")
        /\ UNCHANGED <<done, cut>>
     \/ /\ Fault
        /\ \E code \in {"success", "flash_fail"} :
             Return(IF job.cpu = "ncpu" THEN "flash_fail" ELSE code)
        /\ UNCHANGED cfg
  /\ ram' = cfg'
  /\ UNCHANGED <<image, job, after, running, switched>>

-----------------------------------------------------------------------------
(* kmdw_dfu_switch_active_partition: swaps the two items of processor c,   *)
(* unless it was never updated; the configuration is created when absent.  *)
NeverUpdated(b, c) ==
  /\ b[0][c].flag = "confirmed" /\ b[0][c].seq = 1
  /\ b[1][c].flag = "not" /\ b[1][c].seq = 0

Switched(b, c) ==
  LET swap(p) == [b EXCEPT ![1 - p][c].flag = "confirmed",
                           ![1 - p][c].seq = (Newer(b, c) + 1) % (Ones + 1),
                           ![p][c].flag = "not"]
  IN IF b[0][c].flag = "confirmed" THEN swap(0)
     ELSE IF b[1][c].flag = "confirmed" THEN swap(1) ELSE b

NothingToSwitch(c) == TwoActive(cfg, "ncpu") \/ NeverUpdated(cfg, c)

kmdw_dfu_switch_active_partition(c) ==
  /\ pc = "idle"
  /\ done.switch < MaxSwitch
  /\ done' = [done EXCEPT !.switch = @ + 1]
  /\ IF \/ BothErased(cfg, "scpu")
        \/ ~TwoActive(cfg, "ncpu") /\ SameItem(cfg, "ncpu")
     THEN ram' = cfg /\ pc' = "init" /\ after' = "idle" /\ UNCHANGED switched
     ELSE IF NothingToSwitch(c)
     THEN ram' = cfg /\ UNCHANGED <<pc, after, switched>>
     ELSE ram' = Switched(cfg, c) /\ pc' = "erase0" /\ after' = "idle" /\ switched' = TRUE
  /\ result' = Result(c, "none")
  /\ UNCHANGED <<dfuFlash, job, flashing, running, cut>>

-----------------------------------------------------------------------------
DfuStep ==
  \/ Loader \/ kmdw_dfu_cfg_sts_check \/ load_ncpu_fw
  \/ WriteBothSectors \/ dfu_init_partition_boot_cfg
  \/ BeginAfterInit \/ WriteImage \/ EraseUpdateCfg \/ ProgramUpdateCfg

DfuRequest ==
  \E c \in Cpus :
    \/ BeginUpdate(c)
    \/ \E code \in {"auth_fail", "data_error"} : RejectUpdate(c, code)
    \/ kmdw_dfu_switch_active_partition(c)

DfuNext == PowerLoss \/ DfuStep \/ DfuRequest

DfuSpec     == DfuInit /\ [][DfuNext]_dfuVars
DfuFairSpec == DfuSpec /\ WF_dfuVars(DfuStep)

-----------------------------------------------------------------------------
(* Properties.                                                             *)

DfuTypeOK ==
  /\ cfg \in [Parts -> [Cpus -> Items]]
  /\ ram \in [Parts -> [Cpus -> Items]]
  /\ image \in [Cpus -> [Parts -> Nat]]
  /\ pc \in DfuPcs
  /\ after \in {"idle", "load", "load0", "image0"}
  /\ job \in [cpu : Cpus, target : Parts, ver : Nat]
  /\ result \in [cpu : Cpus, code : Codes]
  /\ running \in Nat
  /\ {flashing, cut, switched} \subseteq BOOLEAN
  /\ done \in Counters

(* Outside the writing of the configuration, and unless power was lost or  *)
(* the flash failed while it was exposed, exactly one item of each         *)
(* processor is confirmed.  Three functions write the flags, each with a   *)
(* swap of its own, and the confirmation at boot may run half way and be   *)
(* repeated.                                                               *)
Confirmed(c) == {p \in Parts : cfg[p][c].flag = "confirmed"}
OneConfirmed ==
  ~cut /\ pc \notin CfgPcs =>
    \A c \in Cpus : BothErased(cfg, c) \/ \E p \in Parts : Confirmed(c) = {p}

(* While an image is erased and written, the partition that a boot from    *)
(* the configuration in the flash uses is the other one: a power failure   *)
(* in the middle of kmdw_dfu_update_scpu or ..._ncpu leaves the old image. *)
ImageWriteSparesBoot ==
  pc = "image" /\ ~cut => BootPartition(cfg, job.cpu) # job.target

(* Whatever updates, failures and reboots happened, the NCPU is started    *)
(* with a complete image, unless power was lost or the flash failed while  *)
(* it was exposed, or the partitions were switched by command (which does  *)
(* not look at the image).                                                 *)
BootsComplete ==
  pc = "idle" /\ ~cut /\ ~switched => running # Torn

(* Every boot and every update ends, whichever flash operations fail: the  *)
(* system comes back to the state in which it takes commands.              *)
EveryUpdateEnds == pc # "idle" ~> pc = "idle"

(* FirmwareUpdate, for the NCPU.  While sectors are rewritten the          *)
(* configuration that counts is the one in the RAM: if the rewriting does  *)
(* not end the promise is withdrawn (cut).                                 *)
Effective ==
  IF pc \in {"prog0", "erase1", "prog1", "init1", "initP0", "initP1"} THEN ram
  ELSE IF pc = "prog" THEN [cfg EXCEPT ![job.target] = ram[job.target]] ELSE cfg

CurrentImage == image["ncpu"][BootPartition(Effective, "ncpu")]
PendingImage ==
  IF \E p \in Parts : Effective[p]["ncpu"].flag \in {"first", "post"}
  THEN image["ncpu"][CHOOSE p \in Parts : Effective[p]["ncpu"].flag \in {"first", "post"}]
  ELSE Torn

Update == INSTANCE FirmwareUpdate WITH
            current <- CurrentImage, pending <- PendingImage,
            running <- running, trusted <- ~cut /\ ~switched

(* The sectors, partitions and flags implement the promise.                *)
UpdateKept == Update!Init /\ [][Update!Next]_(Update!updateVars)

=============================================================================
