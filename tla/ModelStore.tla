----------------------------- MODULE ModelStore ----------------------------
(***************************************************************************)
(* The model manager (mdw/model/kmdw_model.c): the table of models, the    *)
(* memory it lays out behind them, and the slots of the SCPU-NCPU memory   *)
(* that a run selects a model by; with the host commands that change them  *)
(* (mdw/usb_companion/kdp2_cmd_handler_720.c) and the control transfers    *)
(* that change the heap (kdp2_usb_companion.c).                            *)
(*                                                                         *)
(* Threads: the image thread executes one command at a time; the           *)
(* dispatcher runs inferences meanwhile; control transfers are handled in  *)
(* interrupt context.                                                      *)
(*                                                                         *)
(* Simplifications: a set of models (fw_info.bin with all_models.bin) is a *)
(* name; the outputs of its models have one length; the data of the model  *)
(* at place i is the set it belongs to, or Junk.                           *)
(***************************************************************************)
EXTENDS DdrHeap, Sequences, FiniteSets

CONSTANTS
  MaxModels,   (* KMDW_MODEL_MAX_MODEL_COUNT = MULTI_MODEL_MAX             *)
  ModelSets,   (* the sets of models: name -> types, end in DDR, output    *)
  NoSet,       (* no models: model_count is 0                              *)
  Blank,       (* an erased fw_info in the flash: model_count 0xffffffff   *)
  Junk,        (* data that is no model's                                  *)
  QueueSize,   (* length of the inference queues' buffers                  *)
  Buffer3,     (* length of output_mem_addr3                               *)
  Buffer4,     (* length of output_mem_addr4                               *)
  DebugSize    (* KP_DEBUG_BUF_SIZE                                        *)

SetIds == DOMAIN ModelSets

ASSUME ModelAssumption ==
  /\ MaxModels \in Nat \ {0}
  /\ {NoSet, Blank, Junk} \cap SetIds = {}
  /\ Cardinality({NoSet, Blank, Junk}) = 3
  /\ \A m \in SetIds :
       /\ Len(ModelSets[m].types) \in Nat \ {0}
       /\ DOMAIN ModelSets[m].types = 1 .. Len(ModelSets[m].types)
       /\ ModelSets[m].end \in Nat /\ ModelSets[m].out \in Nat
  /\ {QueueSize, Buffer3, Buffer4, DebugSize} \subseteq Nat \ {0}

Types    == UNION {{ModelSets[m].types[i] : i \in DOMAIN ModelSets[m].types} : m \in SetIds}
Places   == 1 .. MaxModels                 \* model_info_idx + 1
SlotIds  == 1 .. 2 * MaxModels             \* IPC_MODEL_MAX slots
Mirror_off(i) == 2 * MaxModels - i + 2     \* mutant: IPC_MODEL_MAX - model_idx
Mirror(i) == 2 * MaxModels - i + 1         \* IPC_MODEL_MAX - model_idx - 1
Infos    == SetIds \cup {NoSet, Blank}
Datas    == SetIds \cup {Junk}
Empty    == [set |-> NoSet, place |-> 0, out |-> 0]

VARIABLES
  store,      \* s_model_data, model_paralleled and the fw_info buffer
  ddr,        \* the data at each model's address
  flash,      \* fw_info and data of the models in the flash
  slot,       \* models[] of the SCPU-NCPU memory
  mem3, mem4, \* output_mem_addr3 and output_mem_addr4
  debugBuf,   \* kp_dbg_buffer
  queues,     \* the inference queues have their buffers

  ipcIdx,     \* s_current_ipc_idx
  nextIdx,    \* s_next_ipc_idx
  disp,       \* the dispatcher: where it stands in kmdw_model_run
  cmd,        \* the command in the image thread
  ready,      \* the set the host may use: its last load was answered OK
  clobbered,  \* history: an update was received over the loaded models
  raced,      \* history: the heap changed between reading and writing its tail
  adjusted    \* history: the boundary is at the end of the loaded models

modelRam  == <<store, ddr, slot, mem3, mem4, debugBuf, queues, ipcIdx, nextIdx, disp, cmd>>
modelHost == <<ready, clobbered, raced, adjusted>>
modelVars == <<heapVars, modelRam, flash, modelHost>>

Idle      == [op |-> "idle", set |-> NoSet, claim |-> 0]
AnyType   == CHOOSE t \in Types : TRUE
DispIdle  == [at |-> "idle", type |-> AnyType, ready |-> NoSet, slot |-> 0, claim |-> 0]

Stores ==
  [n : 0 .. MaxModels, source : 0 .. 2, set : SetIds \cup {NoSet}, loaded : SUBSET Places,
   end : Nat, outputs : [Places -> Nat], mirrored : SUBSET Places, buf : Infos,
   flashRead : BOOLEAN]

Flashes  == [info : Infos, data : Datas]
ModelSlots    == [set : SetIds \cup {NoSet}, place : 0 .. MaxModels, out : Nat]
Runs     == [at : {"idle", "read3", "take3", "read4", "take4", "run"}, type : Types,
             ready : SetIds \cup {NoSet}, slot : 0 .. 2 * MaxModels, claim : Int]
Commands == [op : {"idle", "load", "info", "data", "debug"}, set : SetIds \cup {NoSet}, claim : Int]

Store0 ==
  [n |-> 0, source |-> 0, set |-> NoSet, loaded |-> {}, end |-> 0,
   outputs |-> [i \in Places |-> 0], mirrored |-> {},
   buf |-> NoSet, flashRead |-> FALSE]

ModelInit ==
  /\ HeapInit
  /\ store = Store0
  /\ ddr = [i \in Places |-> Junk]
  /\ slot = [j \in SlotIds |-> Empty]
  /\ mem3 = 0 /\ mem4 = 0 /\ debugBuf = 0
  /\ queues = FALSE
  /\ ipcIdx = 0 /\ nextIdx = 0
  /\ disp = DispIdle
  /\ cmd = Idle
  /\ ready = NoSet
  /\ clobbered = FALSE /\ raced = FALSE
  /\ adjusted = FALSE
  /\ \E m \in SetIds : flash = [info |-> m, data |-> m]

(* A reboot: the RAM starts again, the flash stays.                        *)
ModelReboot ==
  /\ tail' = HeapBegin /\ boundary' = HeapEnd /\ blocks' = {}
  /\ store' = Store0
  /\ ddr' = [i \in Places |-> Junk]
  /\ slot' = [j \in SlotIds |-> Empty]
  /\ mem3' = 0 /\ mem4' = 0 /\ debugBuf' = 0
  /\ queues' = FALSE
  /\ ipcIdx' = 0 /\ nextIdx' = 0
  /\ disp' = DispIdle
  /\ cmd' = Idle
  /\ ready' = NoSet
  /\ clobbered' = FALSE /\ raced' = FALSE
  /\ adjusted' = FALSE
  /\ UNCHANGED flash

-----------------------------------------------------------------------------
(* _load_model_info, as a function of the store: the new store and the     *)
(* number it returns.                                                      *)

NumModels(m) == IF m \in SetIds THEN Len(ModelSets[m].types) ELSE 0
Outcome(s, ret) == [s |-> s, ret |-> ret]

Forget_keeps_loaded(s) ==  \* mutant: the new models count as loaded when the old ones were
  [s EXCEPT !.n = 0, !.source = 0, !.set = NoSet, !.flashRead = FALSE]

(* _reset_model_data and the flag of the flash.                            *)
Forget(s) == [s EXCEPT !.n = 0, !.source = 0, !.set = NoSet, !.loaded = {}, !.flashRead = FALSE]

WithOutputs_keeps_mirrors(s, out) ==  \* mutant: the handling of parallel runs is not reset
  [s EXCEPT !.outputs = [i \in Places |-> IF i <= s.n THEN AlignUp(s.end) + (i - 1) * AlignUp(out)
                                                       ELSE s.outputs[i]]]

(* _set_parallel_output_addr_and_ddr_end: an output buffer of its own for  *)
(* each model behind the models, for the runs in parallel.  With exactly   *)
(* MaxModels models it returns at once.                                    *)
WithOutputs(s, out) ==
  [s EXCEPT !.outputs = [i \in Places |-> IF i <= s.n THEN AlignUp(s.end) + (i - 1) * AlignUp(out)
                                                       ELSE s.outputs[i]],
            !.mirrored = @ \ (1 .. s.n)]

SetOutputs(s) ==
  LET out == ModelSets[s.set].out
      end == AlignUp(s.end) + s.n * AlignUp(out)
  IN IF s.n >= MaxModels THEN Outcome(s, s.n)
     ELSE IF end >= tail THEN Outcome(WithOutputs(s, out), 0)
     ELSE Outcome([WithOutputs(s, out) EXCEPT !.end = end], s.n)

(* The table is copied from the buffer; too many models leave it empty,    *)
(* models that reach into the heap leave it filled but without a source.   *)
CopyInfo(s, source) ==
  LET m == s.buf
  IN IF m \notin SetIds \/ NumModels(m) > MaxModels THEN Outcome([s EXCEPT !.n = 0], 0)
     ELSE LET t == [s EXCEPT !.n = NumModels(m), !.set = m, !.end = ModelSets[m].end]
          IN IF t.end >= tail THEN Outcome(t, 0)
             ELSE SetOutputs([t EXCEPT !.source = source])

ReadFlash(s) == IF s.flashRead THEN s ELSE [s EXCEPT !.buf = flash.info, !.flashRead = TRUE]

load_model_info(s, from_ddr, reload) ==
  IF s.n # 0 /\ ~reload THEN Outcome(s, s.n)
  ELSE LET t == IF reload THEN Forget(s) ELSE s
       IN IF from_ddr THEN CopyInfo(t, 2) ELSE CopyInfo(ReadFlash(t), 1)

-----------------------------------------------------------------------------
(* Commands.                                                               *)

(* The boundary is still where the host put it for the models' end.        *)
StillAdjusted == adjusted /\ store'.end = store.end

(* _load_model: the table is replaced before the data is received.         *)
BeginLoad(m) ==
  /\ cmd.op = "idle"
  /\ LET r == load_model_info([store EXCEPT !.buf = m], TRUE, TRUE)
     IN /\ store' = r.s
        /\ cmd' = IF r.ret > 0 THEN [op |-> "load", set |-> m, claim |-> 0] ELSE Idle
  /\ ready' = NoSet
  /\ adjusted' = StillAdjusted
  /\ UNCHANGED <<heapVars, ddr, slot, mem3, mem4, debugBuf, queues, ipcIdx, nextIdx, disp, flash,
                 clobbered, raced>>

(* The data comes, or a part of it and the transfer fails.                 *)
EndLoad ==
  /\ cmd.op = "load"
  /\ \/ /\ ddr' = [i \in Places |-> IF i <= NumModels(cmd.set) THEN cmd.set ELSE Junk]
        /\ ready' = cmd.set
     \/ /\ ddr' \in {ddr, [i \in Places |-> Junk]}
        /\ UNCHANGED ready
  /\ cmd' = Idle
  /\ UNCHANGED <<heapVars, store, slot, mem3, mem4, debugBuf, queues, ipcIdx, nextIdx, disp, flash,
                 clobbered, raced, adjusted>>

(* _load_model for each of the first k models.                             *)
LoadedFromFlash(s) == [i \in Places |-> IF i \in (1 .. s.n) \ s.loaded THEN flash.data ELSE ddr[i]]

(* kmdw_model_load_model(-1): the table is read again unless it already    *)
(* came from the flash, and what is not loaded is copied.                  *)
load_model_from_flash ==
  /\ cmd.op = "idle"
  /\ LET r  == IF store.source = 1 /\ store.n # 0 THEN Outcome(store, store.n)
               ELSE load_model_info(store, FALSE, TRUE)
         ok == r.ret > 0
     IN /\ store' = IF ok THEN [r.s EXCEPT !.loaded = 1 .. r.s.n] ELSE r.s
        /\ ddr' = IF ok THEN LoadedFromFlash(r.s) ELSE ddr
        /\ ready' = IF ok /\ ~clobbered /\ flash.info = flash.data THEN r.s.set ELSE NoSet
  /\ adjusted' = StillAdjusted
  /\ UNCHANGED <<heapVars, slot, mem3, mem4, debugBuf, queues, ipcIdx, nextIdx, disp, cmd, flash,
                 clobbered, raced>>

(* kmdw_dfu_update_model: the models are received where the loaded ones    *)
(* lie, then fw_info.bin and all_models.bin are written, each sector       *)
(* erased before.  When nothing useful arrives, refresh_models reads the   *)
(* table again; it finds no model loaded, so that it loads none.           *)
refresh_models == load_model_info(store, FALSE, TRUE)

BeginUpdateModel(m) ==
  /\ cmd.op = "idle"
  /\ ready' = NoSet
  /\ \/ /\ cmd' = [op |-> "info", set |-> m, claim |-> 0]
        /\ flash' = [flash EXCEPT !.info = Blank]
        /\ ddr' = [i \in Places |-> Junk]
        /\ clobbered' = TRUE
        /\ UNCHANGED <<store, adjusted>>
     \/ /\ store' = refresh_models.s
        /\ ddr' \in {ddr, [i \in Places |-> Junk]}
        /\ adjusted' = StillAdjusted
        /\ clobbered' = FALSE
        /\ UNCHANGED <<cmd, flash>>
  /\ UNCHANGED <<heapVars, slot, mem3, mem4, debugBuf, queues, ipcIdx, nextIdx, disp, raced>>

(* A sector that does not read back ends the command.                      *)
UpdateModel ==
  /\ \/ /\ cmd.op = "info"
        /\ cmd' = [cmd EXCEPT !.op = "data"]
        /\ flash' = [info |-> cmd.set, data |-> Junk]
     \/ /\ cmd.op = "data"
        /\ cmd' = Idle
        /\ flash' = [flash EXCEPT !.data = cmd.set]
     \/ /\ cmd.op \in {"info", "data"}
        /\ cmd' = Idle
        /\ UNCHANGED flash
  /\ UNCHANGED <<heapVars, store, ddr, slot, mem3, mem4, debugBuf, queues, ipcIdx, nextIdx, disp,
                 modelHost>>

(* _set_dbg_checkpoint: the first one that is not refused reserves a       *)
(* buffer.  Others may come between the reading and the writing of the     *)
(* tail.                                                                   *)
SetCheckpoint ==
  /\ cmd.op = "idle"
  /\ debugBuf = 0
  /\ ~Refused(DebugSize)
  /\ cmd' = [Idle EXCEPT !.op = "debug", !.claim = NewTail(DebugSize)]
  /\ UNCHANGED <<heapVars, store, ddr, slot, mem3, mem4, debugBuf, queues, ipcIdx, nextIdx, disp, flash,
                 modelHost>>

ReserveDebug ==
  /\ cmd.op = "debug"
  /\ debugBuf' = cmd.claim
  /\ Take(cmd.claim, DebugSize, "debug")
  /\ raced' = (raced \/ cmd.claim # Reserved(DebugSize))
  /\ cmd' = Idle
  /\ UNCHANGED <<store, ddr, slot, mem3, mem4, queues, ipcIdx, nextIdx, disp, flash, clobbered, adjusted,
                 ready>>

(* An image of the firmware is received where the models lie               *)
(* (kmdw_dfu_update_scpu and ..._ncpu).                                    *)
ReceiveImage ==
  /\ cmd.op = "idle"
  /\ ddr' = [i \in Places |-> Junk]
  /\ ready' = NoSet
  /\ clobbered' = TRUE
  /\ UNCHANGED <<heapVars, store, slot, mem3, mem4, debugBuf, queues, ipcIdx, nextIdx, disp, cmd,
                 flash, adjusted, raced>>

-----------------------------------------------------------------------------
(* Control transfers.                                                      *)

(* KDP2_CONTROL_FIFOQ_CONFIGURE: once.                                     *)
ConfigureQueues ==
  /\ ~queues
  /\ queues' = ~Refused(QueueSize)
  /\ kmdw_ddr_reserve(QueueSize, "queues")
  /\ UNCHANGED <<store, ddr, slot, mem3, mem4, debugBuf, ipcIdx, nextIdx, disp, cmd, flash, modelHost>>

(* KDP2_CONTROL_DDR_HEAP_BOUNDARY_ADJUST, to the model end that            *)
(* KDP2_COMMAND_GET_DDR_CONFIG reports.                                    *)
AdjustBoundary ==
  /\ cmd.op = "idle" /\ store.end # 0
  /\ kmdw_ddr_set_ddr_boundary(store.end)
  /\ adjusted' = (boundary' = store.end)
  /\ UNCHANGED <<modelRam, flash, clobbered, raced, ready>>

-----------------------------------------------------------------------------
(* kmdw_model_config_img and kmdw_model_run, in the dispatcher.            *)

PlaceOf(s, t) == {i \in 1 .. s.n : ModelSets[s.set].types[i] = t}

(* The slots of the SCPU-NCPU memory once model i was configured: its own  *)
(* always, its mirror at its first parallel run since the table changed.   *)
Configured(s, i, par) ==
  [j \in SlotIds |->
     CASE j = i -> [set |-> s.set, place |-> i, out |-> 0]
       [] j = Mirror(i) /\ par /\ i \notin s.mirrored -> [set |-> s.set, place |-> i, out |-> s.outputs[i]]
       [] OTHER -> slot[j]]

(* The next buffer to be reserved.                                         *)
NextBuffer(m3, m4) == IF m3 = 0 THEN "read3" ELSE IF m4 = 0 THEN "read4" ELSE "run"

Infer(t, par) ==
  /\ disp.at = "idle"
  /\ queues
  /\ ipcIdx' = nextIdx
  /\ nextIdx' = IF par THEN 1 - nextIdx ELSE nextIdx
  /\ LET r == load_model_info(store, TRUE, FALSE)
     IN IF r.ret = 0 \/ PlaceOf(r.s, t) = {}
        THEN store' = r.s /\ UNCHANGED <<slot, disp>>
        ELSE \E i \in PlaceOf(r.s, t) :
               /\ \A k \in PlaceOf(r.s, t) : i <= k
               /\ slot' = Configured(r.s, i, par)
               /\ store' = IF par THEN [r.s EXCEPT !.mirrored = @ \cup {i}] ELSE r.s
               /\ disp' = [at |-> NextBuffer(mem3, mem4), type |-> t, ready |-> ready, claim |-> 0,
                           slot |-> IF par /\ nextIdx # 0 THEN Mirror(i) ELSE i]
  /\ adjusted' = StillAdjusted
  /\ UNCHANGED <<heapVars, ddr, mem3, mem4, debugBuf, queues, cmd, flash, clobbered, raced, ready>>

(* kmdw_ddr_reserve in the dispatcher: other threads and interrupts may    *)
(* come between the reading and the writing of the tail.                   *)
ReadTail(read, n, take) ==
  /\ disp.at = read
  /\ disp' = IF Refused(n) THEN DispIdle ELSE [disp EXCEPT !.at = take, !.claim = NewTail(n)]
  /\ UNCHANGED <<heapVars, store, ddr, slot, mem3, mem4, debugBuf, queues, ipcIdx, nextIdx, cmd, flash,
                 modelHost>>

WriteTail(take, n) ==
  /\ disp.at = take
  /\ Take(disp.claim, n, take)
  /\ raced' = (raced \/ disp.claim # Reserved(n))
  /\ disp' = [disp EXCEPT !.at = NextBuffer(mem3', mem4'), !.claim = 0]
  /\ UNCHANGED <<store, ddr, slot, debugBuf, queues, ipcIdx, nextIdx, cmd, flash, clobbered, adjusted,
                 ready>>

ReserveBuffers ==
  \/ ReadTail("read3", Buffer3, "take3")
  \/ mem3' = disp.claim /\ UNCHANGED mem4 /\ WriteTail("take3", Buffer3)
  \/ ReadTail("read4", Buffer4, "take4")
  \/ mem4' = disp.claim /\ UNCHANGED mem3 /\ WriteTail("take4", Buffer4)

(* The slot becomes the active one and the NCPU is triggered.              *)
Run ==
  /\ disp.at = "run"
  /\ disp' = DispIdle
  /\ UNCHANGED <<heapVars, store, ddr, slot, mem3, mem4, debugBuf, queues, ipcIdx, nextIdx, cmd, flash,
                 modelHost>>

-----------------------------------------------------------------------------
ModelCommand ==
  \/ \E m \in SetIds : BeginLoad(m) \/ BeginUpdateModel(m)
  \/ load_model_from_flash \/ SetCheckpoint

ModelCommandStep == EndLoad \/ UpdateModel \/ ReserveDebug

ModelOther ==
  \/ ConfigureQueues \/ AdjustBoundary
  \/ \E t \in Types, par \in BOOLEAN : Infer(t, par)
  \/ ReserveBuffers \/ Run

-----------------------------------------------------------------------------
(* Properties.                                                             *)

ModelTypeOK ==
  /\ {tail, boundary, mem3, mem4, debugBuf} \subseteq Nat
  /\ store \in Stores
  /\ ddr \in [Places -> Datas]
  /\ flash \in Flashes
  /\ slot \in [SlotIds -> ModelSlots]
  /\ disp \in Runs
  /\ cmd \in Commands
  /\ ready \in SetIds \cup {NoSet}
  /\ ipcIdx \in {0, 1} /\ nextIdx \in {0, 1}
  /\ queues \in BOOLEAN /\ clobbered \in BOOLEAN /\ raced \in BOOLEAN /\ adjusted \in BOOLEAN

(* A run uses the model the host asked for, of the set the host loaded     *)
(* last, with that set's data in the DDR; and a run through the mirror     *)
(* writes into the parallel buffer of the present table, behind the        *)
(* models.  The host may have loaded, failed to load and updated other     *)
(* sets before, and run models in parallel or not.  A host that changes    *)
(* its models while a run is on its way is promised nothing, nor is one    *)
(* that runs a set of MaxModels models in parallel.                        *)
ThroughMirror == disp.slot > MaxModels
Promised == ready # NoSet /\ ready = disp.ready /\ (ThroughMirror => NumModels(ready) < MaxModels)

RightModel ==
  LET e == slot[disp.slot]
  IN /\ e.set = ready
     /\ ModelSets[ready].types[e.place] = disp.type
     /\ ddr[e.place] = ready
     /\ ThroughMirror => e.out = store.outputs[e.place] /\ e.out >= ModelSets[ready].end

RunsRequestedModel == disp.at = "run" /\ Promised => RightModel

(* A model marked as loaded is in the DDR, unless an update was received   *)
(* over it.  load_model(-1) skips the marked ones.                         *)
LoadedIsThere ==
  ~clobbered /\ flash.info = flash.data =>
    \A i \in store.loaded : ddr[i] # Junk

(* When the host has moved the boundary to the end of the loaded models,   *)
(* no reserved block lies in them or in their parallel buffers.            *)
ModelsApartFromHeap ==
  adjusted /\ ~raced => \A x \in blocks : x.from >= store.end

(* Reserved blocks do not overlap, unless another reservation or a move of *)
(* the boundary came between the two halves of one in the dispatcher.      *)
HeapSound == ~raced => BlocksApart

=============================================================================
