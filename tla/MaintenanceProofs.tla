-------------------------- MODULE MaintenanceProofs -------------------------
(***************************************************************************)
(* For every number and size of models and buffers, whatever the host asks *)
(* for and whenever power fails: the model manager keeps its types, the    *)
(* heap keeps its blocks apart (HeapSound) and away from the models        *)
(* (ModelsApartFromHeap), what is marked as loaded is in the DDR           *)
(* (LoadedIsThere), and a run uses the model the host asked for            *)
(* (RunsRequestedModel).                                                   *)
(*                                                                         *)
(* The proof goes in two layers.  StoreInv adds to the types that the heap *)
(* satisfies HeapInv as long as the dispatcher's reservation was not       *)
(* overtaken, that the address the dispatcher is about to reserve is one,  *)
(* that a command on its way has models, and that the boundary is where    *)
(* the history `adjusted' says.  HeapInv says that the tail is the lower   *)
(* end of everything reserved, so that a block taken below it meets no     *)
(* other, and that the boundary is below the tail.                         *)
(*                                                                         *)
(* LoadInv relates the table, the DDR, the flash and the slots: a table    *)
(* with a source is a complete set, with the mirrors of that set only; a   *)
(* model that counts as loaded was copied from the flash that is still     *)
(* there; the set the host may use is the one in the table and in the DDR; *)
(* the slot of a run on its way selects what was asked for.                *)
(***************************************************************************)
EXTENDS Maintenance, FiniteSetTheorems, TLAPS

HeapTypes ==
  /\ tail \in Nat /\ boundary \in Nat
  /\ \A x \in blocks : x.from \in Int /\ x.size \in Nat

HeapInv ==
  /\ HeapTypes
  /\ boundary < tail /\ tail <= HeapBegin
  /\ \A x \in blocks : tail <= x.from
  /\ BlocksApart

-----------------------------------------------------------------------------
(* Rounding.                                                               *)

LEMMA FloorFacts ==
  ASSUME NEW n \in Int
  PROVE  /\ AlignFloor(n) \in Int /\ AlignFloor(n) <= n
         /\ AlignFloor(n) % Align = 0
<1>1. Align \in Nat /\ Align > 0
  BY HeapAssumption
<1>2. n \div Align \in Int /\ n = Align * (n \div Align) + (n % Align) /\ n % Align \in 0 .. Align - 1
  BY <1>1, SMT
<1> DEFINE q == n \div Align
<1>3. AlignFloor(n) = q * Align /\ q \in Int
  BY <1>2 DEF AlignFloor
<1>4. (q * Align) % Align = 0
  <2> HIDE DEF q
  <2> QED BY <1>1, <1>3, SMT
<1>5. AlignFloor(n) <= n /\ AlignFloor(n) \in Int
  BY <1>1, <1>2, <1>3, SMT
<1> QED BY <1>3, <1>4, <1>5

LEMMA UpFacts ==
  ASSUME NEW n \in Nat
  PROVE  AlignUp(n) \in Nat /\ AlignUp(n) >= n
<1>1. Align \in Nat /\ Align > 0
  BY HeapAssumption
<1> DEFINE k == n + Align - 1
<1>2. k \in Int /\ k \div Align \in Int /\ k = Align * (k \div Align) + (k % Align)
      /\ k % Align \in 0 .. Align - 1
  BY <1>1, SMT
<1>3. AlignUp(n) = (k \div Align) * Align
  BY DEF AlignUp
<1> QED BY <1>1, <1>2, <1>3, SMT

-----------------------------------------------------------------------------
(* The operations of the heap.                                             *)

LEMMA NewTailFacts ==
  ASSUME NEW n \in Nat, tail \in Int
  PROVE  /\ NewTail(n) \in Int /\ NewTail(n) + n <= tail
         /\ NewTail(n) % Align = 0
<1>1. AlignUp(n) \in Nat /\ AlignUp(n) >= n
  BY UpFacts
<1>2. tail - AlignUp(n) \in Int
  BY <1>1
<1>3. /\ AlignFloor(tail - AlignUp(n)) \in Int
      /\ AlignFloor(tail - AlignUp(n)) <= tail - AlignUp(n)
      /\ AlignFloor(tail - AlignUp(n)) % Align = 0
  BY <1>2, FloorFacts
<1> QED BY <1>1, <1>3 DEF NewTail

LEMMA HeapBegins == HeapInit => HeapInv
BY HeapAssumption DEF HeapInit, HeapInv, HeapTypes, BlocksApart

(* A block right below the tail.                                           *)
LEMMA TakeKeeps ==
  ASSUME HeapInv, NEW n \in Nat, NEW owner, ~Refused(n), Take(NewTail(n), n, owner)
  PROVE  HeapInv'
<1> DEFINE new == [from |-> NewTail(n), size |-> n, owner |-> owner]
<1>1. /\ NewTail(n) \in Int /\ NewTail(n) + n <= tail /\ NewTail(n) % Align = 0
      /\ tail \in Nat /\ boundary \in Nat /\ tail <= HeapBegin
      /\ HeapBegin \in Nat
  BY NewTailFacts, HeapAssumption DEF HeapInv, HeapTypes
<1>2. NewTail(n) \in Nat
  BY <1>1 DEF Refused
<1>3. tail' = NewTail(n) /\ blocks' = blocks \cup {new} /\ boundary' = boundary
  BY DEF Take
<1>4. new.from \in Int /\ new.size \in Nat
  BY <1>1
<1>5. \A x \in blocks : x.from \in Int /\ x.size \in Nat /\ tail <= x.from
  BY <1>1 DEF HeapInv, HeapTypes
<1>6. HeapTypes' /\ tail' <= HeapBegin /\ boundary' < tail'
  BY <1>1, <1>2, <1>3, <1>4, <1>5 DEF HeapTypes, Refused
<1>7. \A x \in blocks' : tail' <= x.from
  BY <1>1, <1>3, <1>5
<1>8. \A x \in blocks : Apart(x, new) /\ Apart(new, x)
  BY <1>1, <1>5 DEF Apart
<1>9. \A x, y \in blocks' : x = y \/ Apart(x, y)
  BY <1>3, <1>8 DEF HeapInv, BlocksApart
<1>10. \A x \in blocks' : x.from % Align = 0 /\ x.from + x.size <= HeapBegin
  BY <1>1, <1>3 DEF HeapInv, BlocksApart
<1> QED BY <1>6, <1>7, <1>9, <1>10 DEF HeapInv, BlocksApart

LEMMA ReserveKeeps ==
  ASSUME HeapInv, NEW n \in Nat, NEW owner, kmdw_ddr_reserve(n, owner)
  PROVE  HeapInv'
<1>1. CASE Refused(n)
  BY <1>1 DEF kmdw_ddr_reserve, heapVars, HeapInv, HeapTypes, BlocksApart
<1>2. CASE ~Refused(n)
  BY <1>2, TakeKeeps DEF kmdw_ddr_reserve
<1> QED BY <1>1, <1>2

LEMMA BoundaryKeeps ==
  ASSUME HeapInv, NEW b \in Nat, kmdw_ddr_set_ddr_boundary(b)
  PROVE  HeapInv'
BY DEF kmdw_ddr_set_ddr_boundary, HeapInv, HeapTypes, BlocksApart

-----------------------------------------------------------------------------
(* The invariant of the model manager's types and of its heap.             *)

ClaimOK ==
  /\ disp.at \in {"take3", "take4"} => disp.claim > 0
  /\ cmd.op \in {"load", "info", "data"} => cmd.set \in SetIds
  /\ cmd.op = "debug" => cmd.claim > 0
  /\ adjusted => boundary = store.end

StoreInv == ModelTypeOK /\ ClaimOK /\ (~raced => HeapInv)

(* The buffer and the table of models, before the outputs are laid out.    *)
Outcomes == [s : Stores, ret : Nat]

-----------------------------------------------------------------------------
(* The table of models.                                                    *)

LEMMA SetFacts ==
  ASSUME NEW m \in SetIds
  PROVE  /\ NumModels(m) \in Nat \ {0}
         /\ ModelSets[m].end \in Nat /\ ModelSets[m].out \in Nat
BY ModelAssumption DEF NumModels

LEMMA MaxFacts == MaxModels \in Nat /\ MaxModels > 0
BY ModelAssumption

LEMMA SetOutputsType ==
  ASSUME NEW s \in Stores, s.set \in SetIds, tail \in Int
  PROVE  SetOutputs(s) \in Outcomes
<1> DEFINE out == ModelSets[s.set].out
<1>1. out \in Nat /\ MaxModels \in Nat
  BY SetFacts, ModelAssumption
<1>2. s.n \in Nat /\ s.end \in Nat /\ s.outputs \in [Places -> Nat]
  BY DEF Stores
<1>3. AlignUp(s.end) \in Nat /\ AlignUp(out) \in Nat
  BY <1>1, <1>2, UpFacts
<1>4. \A i \in Places : (i - 1) * AlignUp(out) \in Nat
  <2> TAKE i \in Places
  <2>1. i - 1 \in Nat
    BY <1>1 DEF Places
  <2> HIDE DEF out
  <2> QED BY <1>3, <2>1
<1>5. AlignUp(s.end) + s.n * AlignUp(out) \in Nat
  <2> HIDE DEF out
  <2> QED BY <1>2, <1>3
<1> DEFINE end == AlignUp(s.end) + s.n * AlignUp(out)
           outs == [i \in Places |-> IF i <= s.n THEN AlignUp(s.end) + (i - 1) * AlignUp(out)
                                                 ELSE s.outputs[i]]
<1>6. outs \in [Places -> Nat]
  <2> HIDE DEF out
  <2> QED BY <1>2, <1>3, <1>4
<1>7. WithOutputs(s, out) \in Stores
  <2>1. WithOutputs(s, out) = [s EXCEPT !.outputs = outs, !.mirrored = @ \ (1 .. s.n)]
    BY DEF WithOutputs
  <2> HIDE DEF outs, out
  <2> QED BY <1>6, <2>1 DEF Stores
<1>8. [WithOutputs(s, out) EXCEPT !.end = end] \in Stores
  <2> HIDE DEF end, out
  <2> QED BY <1>5, <1>7 DEF Stores, end
<1>9. SetOutputs(s) \in {Outcome(s, s.n), Outcome(WithOutputs(s, out), 0),
                          Outcome([WithOutputs(s, out) EXCEPT !.end = end], s.n)}
  BY DEF SetOutputs
<1> HIDE DEF out, end
<1> QED BY <1>2, <1>7, <1>8, <1>9 DEF Outcome, Outcomes

LEMMA CopyInfoType ==
  ASSUME NEW s \in Stores, NEW source \in 0 .. 2, tail \in Int
  PROVE  CopyInfo(s, source) \in Outcomes
<1> DEFINE m == s.buf
           t == [s EXCEPT !.n = NumModels(m), !.set = m, !.end = ModelSets[m].end]
<1>1. CASE m \notin SetIds \/ NumModels(m) > MaxModels
  <2>1. [s EXCEPT !.n = 0] \in Stores
    BY MaxFacts DEF Stores
  <2>2. CopyInfo(s, source) = Outcome([s EXCEPT !.n = 0], 0)
    BY <1>1 DEF CopyInfo
  <2> QED BY <2>1, <2>2 DEF Outcome, Outcomes
<1>2. CASE m \in SetIds /\ ~(NumModels(m) > MaxModels)
  <2>1. t \in Stores /\ t.set = m
    <3>1. NumModels(m) \in 0 .. MaxModels /\ ModelSets[m].end \in Nat
      BY <1>2, SetFacts, MaxFacts
    <3> QED BY <1>2, <3>1 DEF Stores
  <2>2. [t EXCEPT !.source = source] \in Stores /\ [t EXCEPT !.source = source].set = m
    <3> HIDE DEF t, m
    <3> QED BY <2>1 DEF Stores
  <2>3. SetOutputs([t EXCEPT !.source = source]) \in Outcomes
    <3> HIDE DEF t
    <3> QED BY <1>2, <2>2, SetOutputsType
  <2>4. CopyInfo(s, source) \in {Outcome(t, 0), SetOutputs([t EXCEPT !.source = source])}
    BY <1>2 DEF CopyInfo
  <2> QED
    <3> HIDE DEF t
    <3> QED BY <2>1, <2>3, <2>4 DEF Outcome, Outcomes
<1> QED BY <1>1, <1>2

LEMMA LoadType ==
  ASSUME NEW s \in Stores, NEW from_ddr \in BOOLEAN, NEW reload \in BOOLEAN,
         tail \in Int, flash \in Flashes
  PROVE  load_model_info(s, from_ddr, reload) \in Outcomes
<1> DEFINE t == IF reload THEN Forget(s) ELSE s
<1>1. t \in Stores
  <2>1. /\ 0 \in 0 .. MaxModels /\ 0 \in 0 .. 2 /\ NoSet \in SetIds \cup {NoSet}
        /\ {} \in SUBSET Places /\ FALSE \in BOOLEAN
    BY MaxFacts
  <2> DEFINE u == [s EXCEPT !.n = 0, !.source = 0, !.set = NoSet]
             v == [u EXCEPT !.loaded = {}]
  <2>2. u \in Stores
    BY <2>1 DEF Stores
  <2>3. v \in Stores
    <3> HIDE DEF u
    <3> QED BY <2>1, <2>2 DEF Stores
  <2>4. [v EXCEPT !.flashRead = FALSE] \in Stores
    <3> HIDE DEF v
    <3> QED BY <2>1, <2>3 DEF Stores
  <2>5. Forget(s) = [v EXCEPT !.flashRead = FALSE]
    BY DEF Forget, Stores
  <2> QED BY <2>4, <2>5
<1>2. ReadFlash(t) \in Stores
  <2> HIDE DEF t
  <2> QED BY <1>1 DEF ReadFlash, Stores, Flashes
<1>3. CopyInfo(t, 2) \in Outcomes /\ CopyInfo(ReadFlash(t), 1) \in Outcomes
  <2> HIDE DEF t
  <2> QED BY <1>1, <1>2, CopyInfoType
<1>4. Outcome(s, s.n) \in Outcomes
  BY DEF Outcome, Outcomes, Stores
<1>5. load_model_info(s, from_ddr, reload) \in
        {Outcome(s, s.n), CopyInfo(t, 2), CopyInfo(ReadFlash(t), 1)}
  BY DEF load_model_info
<1> HIDE DEF t
<1> QED BY <1>3, <1>4, <1>5

-----------------------------------------------------------------------------
(* The state begins, and begins again after a reboot, in the invariant.    *)

LEMMA TypesFacts == AnyType \in Types \/ SetIds = {}
<1>1. SUFFICES ASSUME SetIds # {} PROVE \E t \in Types : TRUE
  BY DEF AnyType
<1>2. PICK m \in SetIds : TRUE
  BY <1>1
<1>3. 1 \in DOMAIN ModelSets[m].types
  BY ModelAssumption
<1>4. ModelSets[m].types[1] \in Types
  BY <1>3 DEF Types
<1> QED BY <1>4

LEMMA StoreBegins == Store0 \in Stores
<1>1. 0 \in 0 .. MaxModels /\ {} \in SUBSET Places /\ [i \in Places |-> 0] \in [Places -> Nat]
  BY MaxFacts
<1> QED BY <1>1 DEF Store0, Stores, Infos

LEMMA DispBegins == AnyType \in Types => DispIdle \in Runs /\ DispIdle.at = "idle"
BY MaxFacts DEF DispIdle, Runs

LEMMA OthersBegin ==
  /\ Empty \in ModelSlots
  /\ Idle \in Commands
  /\ \A m \in SetIds : [info |-> m, data |-> m] \in Flashes
  /\ [i \in Places |-> Junk] \in [Places -> Datas]
BY MaxFacts DEF Empty, ModelSlots, Idle, Commands, Flashes, Infos, Datas

LEMMA ModelBegins == ModelInit => StoreInv
<1>1. SUFFICES ASSUME ModelInit PROVE StoreInv
  OBVIOUS
<1>2. HeapInv /\ {tail, boundary, mem3, mem4, debugBuf} \subseteq Nat
  BY <1>1, HeapBegins DEF ModelInit, HeapInv, HeapTypes
<1>3. disp \in Runs /\ disp.at = "idle" /\ cmd.op = "idle"
  BY <1>1, TypesFacts, DispBegins DEF ModelInit, Idle
<1>4. /\ store \in Stores /\ flash \in Flashes /\ slot \in [SlotIds -> ModelSlots]
      /\ ddr \in [Places -> Datas] /\ cmd \in Commands /\ ready \in SetIds \cup {NoSet}
  BY <1>1, StoreBegins, OthersBegin DEF ModelInit
<1>5. /\ ipcIdx \in {0, 1} /\ nextIdx \in {0, 1}
      /\ queues \in BOOLEAN /\ clobbered \in BOOLEAN /\ raced \in BOOLEAN /\ adjusted = FALSE
  BY <1>1 DEF ModelInit
<1> QED BY <1>2, <1>3, <1>4, <1>5 DEF StoreInv, ModelTypeOK, ClaimOK

LEMMA ModelRebootBegins == StoreInv /\ ModelReboot => StoreInv'
<1>1. SUFFICES ASSUME StoreInv, ModelReboot PROVE StoreInv'
  OBVIOUS
<1>2. HeapInv' /\ {tail', boundary', mem3', mem4', debugBuf'} \subseteq Nat
  BY <1>1, HeapAssumption DEF ModelReboot, HeapInv, HeapTypes, BlocksApart
<1>3. disp' \in Runs /\ disp'.at = "idle" /\ cmd'.op = "idle"
  <2>1. disp.type \in Types
    BY <1>1 DEF StoreInv, ModelTypeOK, Runs
  <2>2. AnyType \in Types
    BY <2>1 DEF AnyType
  <2> QED BY <1>1, <2>2, DispBegins DEF ModelReboot, Idle
<1>4. /\ store' \in Stores /\ flash' \in Flashes /\ slot' \in [SlotIds -> ModelSlots]
      /\ ddr' \in [Places -> Datas] /\ cmd' \in Commands /\ ready' \in SetIds \cup {NoSet}
  BY <1>1, StoreBegins, OthersBegin DEF ModelReboot, StoreInv, ModelTypeOK
<1>5. /\ ipcIdx' \in {0, 1} /\ nextIdx' \in {0, 1}
      /\ queues' \in BOOLEAN /\ clobbered' \in BOOLEAN /\ raced' \in BOOLEAN /\ adjusted' = FALSE
  BY <1>1 DEF ModelReboot
<1> QED BY <1>2, <1>3, <1>4, <1>5 DEF StoreInv, ModelTypeOK, ClaimOK

-----------------------------------------------------------------------------
(* Steps that leave the heap alone.                                        *)

(* What a step that does not touch the heap has to show.                   *)
OthersOK ==
  /\ store \in Stores /\ ddr \in [Places -> Datas] /\ flash \in Flashes
  /\ slot \in [SlotIds -> ModelSlots] /\ disp \in Runs /\ cmd \in Commands
  /\ ready \in SetIds \cup {NoSet}
  /\ ipcIdx \in {0, 1} /\ nextIdx \in {0, 1}
  /\ queues \in BOOLEAN /\ clobbered \in BOOLEAN /\ raced \in BOOLEAN /\ adjusted \in BOOLEAN

HeapSame == UNCHANGED <<heapVars, mem3, mem4, debugBuf, raced>>

LEMMA SameHeap ==
  ASSUME StoreInv, HeapSame, OthersOK', ClaimOK'
  PROVE  StoreInv'
<1>1. HeapInv => HeapInv'
  BY DEF HeapSame, heapVars, HeapInv, HeapTypes, BlocksApart
<1>2. raced' = raced /\ {tail', boundary', mem3', mem4', debugBuf'} \subseteq Nat
  BY DEF HeapSame, heapVars, StoreInv, ModelTypeOK
<1> QED BY <1>1, <1>2 DEF StoreInv, ModelTypeOK, OthersOK

LEMMA InvFacts ==
  ASSUME StoreInv
  PROVE  /\ OthersOK /\ ClaimOK
         /\ tail \in Nat /\ boundary \in Nat /\ mem3 \in Nat /\ mem4 \in Nat /\ debugBuf \in Nat
BY DEF StoreInv, ModelTypeOK, OthersOK

LEMMA JunkData ==
  /\ [i \in Places |-> Junk] \in [Places -> Datas]
  /\ \A m \in SetIds, n \in Nat : [i \in Places |-> IF i <= n THEN m ELSE Junk] \in [Places -> Datas]
BY DEF Datas

LEMMA BeginLoadKeeps ==
  ASSUME StoreInv, NEW m \in SetIds, BeginLoad(m)
  PROVE  StoreInv'
<1> DEFINE s == [store EXCEPT !.buf = m]
           r == load_model_info(s, TRUE, TRUE)
<1>1. OthersOK /\ ClaimOK /\ tail \in Int
  BY InvFacts
<1>2. s \in Stores
  BY <1>1 DEF OthersOK, Stores, Infos
<1>3. r \in Outcomes
  <2> HIDE DEF s
  <2> QED BY <1>1, <1>2, LoadType DEF OthersOK
<1>4. /\ store' = r.s /\ cmd' \in {[op |-> "load", set |-> m, claim |-> 0], Idle}
      /\ ready' = NoSet /\ adjusted' = StillAdjusted
      /\ UNCHANGED <<heapVars, ddr, slot, mem3, mem4, debugBuf, queues, ipcIdx, nextIdx, disp, flash,
                     clobbered, raced>>
  BY DEF BeginLoad
<1>5. /\ store' \in Stores /\ cmd' \in Commands /\ adjusted' \in BOOLEAN
      /\ cmd'.op # "debug" /\ (cmd'.op # "idle" => cmd'.set \in SetIds)
  <2> HIDE DEF r
  <2> QED BY <1>3, <1>4, OthersBegin DEF Outcomes, Commands, StillAdjusted, Idle
<1>6. OthersOK' /\ ClaimOK' /\ HeapSame
  <2> HIDE DEF r
  <2> QED BY <1>1, <1>4, <1>5 DEF OthersOK, ClaimOK, HeapSame, heapVars, StillAdjusted
<1> QED BY <1>6, SameHeap

LEMMA EndLoadKeeps ==
  ASSUME StoreInv, EndLoad
  PROVE  StoreInv'
<1>1. OthersOK /\ ClaimOK
  BY InvFacts
<1>2. ddr' \in [Places -> Datas] /\ ready' \in SetIds \cup {NoSet}
  <2>1. CASE ddr' \in {ddr, [i \in Places |-> Junk]} /\ ready' = ready
    BY <1>1, <2>1, JunkData DEF OthersOK
  <2>2. CASE /\ ddr' = [i \in Places |-> IF i <= NumModels(cmd.set) THEN cmd.set ELSE Junk]
             /\ ready' = cmd.set
    <3>1. cmd.set \in SetIds
      BY <1>1 DEF ClaimOK, EndLoad
    <3> QED BY <2>2, <3>1, SetFacts, JunkData
  <2> QED BY <2>1, <2>2 DEF EndLoad
<1>3. /\ cmd' = Idle
      /\ UNCHANGED <<heapVars, store, slot, mem3, mem4, debugBuf, queues, ipcIdx, nextIdx, disp, flash,
                     clobbered, raced, adjusted>>
  BY DEF EndLoad
<1>4. OthersOK' /\ ClaimOK' /\ HeapSame
  BY <1>1, <1>2, <1>3, OthersBegin DEF OthersOK, ClaimOK, HeapSame, Idle, heapVars
<1> QED BY <1>4, SameHeap

LEMMA LoadFromFlashKeeps ==
  ASSUME StoreInv, load_model_from_flash
  PROVE  StoreInv'
<1> DEFINE r  == IF store.source = 1 /\ store.n # 0 THEN Outcome(store, store.n)
                 ELSE load_model_info(store, FALSE, TRUE)
           ok == r.ret > 0
<1>1. OthersOK /\ ClaimOK /\ tail \in Int
  BY InvFacts
<1>2. r \in Outcomes
  <2>1. Outcome(store, store.n) \in Outcomes
    BY <1>1 DEF OthersOK, Outcome, Outcomes, Stores
  <2>2. load_model_info(store, FALSE, TRUE) \in Outcomes
    BY <1>1, LoadType DEF OthersOK
  <2> QED BY <2>1, <2>2
<1>3. /\ store' = IF ok THEN [r.s EXCEPT !.loaded = 1 .. r.s.n] ELSE r.s
      /\ ddr' = IF ok THEN LoadedFromFlash(r.s) ELSE ddr
      /\ ready' = IF ok /\ ~clobbered /\ flash.info = flash.data THEN r.s.set ELSE NoSet
      /\ adjusted' = StillAdjusted
      /\ UNCHANGED <<heapVars, slot, mem3, mem4, debugBuf, queues, ipcIdx, nextIdx, disp, cmd, flash,
                     clobbered, raced>>
  BY DEF load_model_from_flash
<1> HIDE DEF r
<1>4. r.s \in Stores /\ r.s.set \in SetIds \cup {NoSet} /\ 1 .. r.s.n \in SUBSET Places
  BY <1>2, MaxFacts DEF Outcomes, Stores, Places
<1>5. store' \in Stores
  BY <1>3, <1>4 DEF Stores
<1>6. ddr' \in [Places -> Datas]
  BY <1>1, <1>3 DEF LoadedFromFlash, OthersOK, Flashes
<1>7. ready' \in SetIds \cup {NoSet} /\ adjusted' \in BOOLEAN
  BY <1>3, <1>4 DEF StillAdjusted
<1>8. OthersOK' /\ ClaimOK' /\ HeapSame
  BY <1>1, <1>3, <1>5, <1>6, <1>7 DEF OthersOK, ClaimOK, HeapSame, heapVars, StillAdjusted
<1> QED BY <1>8, SameHeap

LEMMA BeginUpdateModelKeeps ==
  ASSUME StoreInv, NEW m \in SetIds, BeginUpdateModel(m)
  PROVE  StoreInv'
<1>1. OthersOK /\ ClaimOK /\ tail \in Int /\ cmd.op = "idle"
  BY InvFacts DEF BeginUpdateModel
<1>2. refresh_models \in Outcomes
  BY <1>1, LoadType DEF OthersOK, refresh_models
<1>3. /\ ready' = NoSet
      /\ UNCHANGED <<heapVars, slot, mem3, mem4, debugBuf, queues, ipcIdx, nextIdx, disp, raced>>
  BY DEF BeginUpdateModel
<1>4. /\ store' \in Stores /\ ddr' \in [Places -> Datas] /\ flash' \in Flashes /\ cmd' \in Commands
      /\ cmd'.op # "debug" /\ (cmd'.op # "idle" => cmd'.set \in SetIds)
      /\ clobbered' \in BOOLEAN /\ adjusted' \in BOOLEAN
      /\ adjusted' => adjusted /\ store'.end = store.end
  <2>1. CASE /\ cmd' = [op |-> "info", set |-> m, claim |-> 0] /\ flash' = [flash EXCEPT !.info = Blank]
             /\ ddr' = [i \in Places |-> Junk] /\ clobbered' = TRUE /\ UNCHANGED <<store, adjusted>>
    <3>1. flash' \in Flashes /\ cmd' \in Commands
      BY <1>1, <2>1 DEF OthersOK, Flashes, Infos, Commands
    <3> QED BY <1>1, <2>1, <3>1, JunkData DEF OthersOK, ClaimOK
  <2>2. CASE /\ store' = refresh_models.s /\ ddr' \in {ddr, [i \in Places |-> Junk]}
             /\ adjusted' = StillAdjusted /\ clobbered' = FALSE /\ UNCHANGED <<cmd, flash>>
    BY <1>1, <1>2, <2>2, JunkData DEF OthersOK, ClaimOK, Outcomes, StillAdjusted
  <2> QED BY <2>1, <2>2 DEF BeginUpdateModel
<1>5. OthersOK' /\ ClaimOK' /\ HeapSame
  BY <1>1, <1>3, <1>4 DEF OthersOK, ClaimOK, HeapSame, heapVars, StillAdjusted
<1> QED BY <1>5, SameHeap

LEMMA UpdateModelKeeps ==
  ASSUME StoreInv, UpdateModel
  PROVE  StoreInv'
<1>1. OthersOK /\ ClaimOK
  BY InvFacts
<1>2. /\ UNCHANGED <<heapVars, store, ddr, slot, mem3, mem4, debugBuf, queues, ipcIdx, nextIdx, disp,
                     modelHost>>
      /\ cmd.op \in {"info", "data"} /\ cmd.set \in SetIds
  BY <1>1 DEF UpdateModel, ClaimOK
<1>3. /\ flash' \in Flashes /\ cmd' \in Commands
      /\ cmd'.op # "debug" /\ (cmd'.op # "idle" => cmd'.set \in SetIds)
  <2>1. flash' \in {flash, [info |-> cmd.set, data |-> Junk], [flash EXCEPT !.data = cmd.set]}
    BY DEF UpdateModel
  <2>2. cmd' \in {Idle, [cmd EXCEPT !.op = "data"]}
    BY DEF UpdateModel
  <2>3. flash' \in Flashes
    BY <1>1, <1>2, <2>1 DEF OthersOK, Flashes, Infos, Datas
  <2>4. /\ [cmd EXCEPT !.op = "data"] \in Commands /\ [cmd EXCEPT !.op = "data"].set = cmd.set
        /\ [cmd EXCEPT !.op = "data"].op = "data"
    BY <1>1 DEF OthersOK, Commands
  <2>5. Idle \in Commands /\ Idle.op = "idle"
    BY OthersBegin DEF Idle
  <2>6. CASE cmd' = Idle
    BY <2>3, <2>5, <2>6
  <2>7. CASE cmd' = [cmd EXCEPT !.op = "data"]
    BY <1>2, <2>3, <2>4, <2>7
  <2> QED BY <2>2, <2>6, <2>7
<1>4. OthersOK' /\ ClaimOK' /\ HeapSame
  BY <1>1, <1>2, <1>3 DEF OthersOK, ClaimOK, HeapSame, modelHost, heapVars
<1> QED BY <1>4, SameHeap

LEMMA ReceiveImageKeeps ==
  ASSUME StoreInv, ReceiveImage
  PROVE  StoreInv'
<1>1. OthersOK /\ ClaimOK
  BY InvFacts
<1>2. OthersOK' /\ ClaimOK' /\ HeapSame
  BY <1>1, JunkData DEF ReceiveImage, OthersOK, ClaimOK, HeapSame, heapVars
<1> QED BY <1>2, SameHeap

-----------------------------------------------------------------------------
(* Steps that use the heap.                                                *)

(* A reservation in one step.                                              *)
LEMMA ReserveFacts ==
  ASSUME StoreInv, NEW n \in Nat, NEW owner, kmdw_ddr_reserve(n, owner)
  PROVE  /\ HeapInv => HeapInv'
         /\ tail' \in Nat /\ boundary' = boundary /\ Reserved(n) \in Nat
<1>1. tail \in Nat /\ boundary \in Nat
  BY InvFacts
<1>2. NewTail(n) \in Int
  BY <1>1, NewTailFacts
<1>3. CASE Refused(n)
  BY <1>1, <1>3, ReserveKeeps DEF kmdw_ddr_reserve, heapVars, Reserved
<1>4. CASE ~Refused(n)
  <2>1. NewTail(n) \in Nat
    BY <1>1, <1>2, <1>4 DEF Refused
  <2> QED BY <1>1, <1>4, <2>1, ReserveKeeps DEF kmdw_ddr_reserve, Take, Reserved
<1> QED BY <1>3, <1>4

LEMMA SetCheckpointKeeps ==
  ASSUME StoreInv, SetCheckpoint
  PROVE  StoreInv'
<1>1. OthersOK /\ ClaimOK /\ tail \in Nat /\ boundary \in Nat
  BY InvFacts
<1>2. /\ cmd' = [Idle EXCEPT !.op = "debug", !.claim = NewTail(DebugSize)] /\ ~Refused(DebugSize)
      /\ UNCHANGED <<heapVars, store, ddr, slot, mem3, mem4, debugBuf, queues, ipcIdx, nextIdx, disp,
                     flash, modelHost>>
  BY DEF SetCheckpoint
<1>3. NewTail(DebugSize) \in Int /\ NewTail(DebugSize) > 0
  BY <1>1, <1>2, NewTailFacts, ModelAssumption DEF Refused
<1>4. cmd' \in Commands /\ cmd'.op = "debug" /\ cmd'.claim > 0
  BY <1>2, <1>3 DEF Idle, Commands
<1>5. OthersOK' /\ ClaimOK' /\ HeapSame
  BY <1>1, <1>2, <1>4 DEF OthersOK, ClaimOK, HeapSame, modelHost, heapVars
<1> QED BY <1>5, SameHeap

(* As for the dispatcher's buffers: computed from the tail it is taken     *)
(* from, or the history says that it was not.                              *)
LEMMA ReserveDebugKeeps ==
  ASSUME StoreInv, ReserveDebug
  PROVE  StoreInv'
<1>1. /\ OthersOK /\ ClaimOK /\ tail \in Nat /\ boundary \in Nat
      /\ mem3 \in Nat /\ mem4 \in Nat
  BY InvFacts
<1>2. /\ debugBuf' = cmd.claim /\ Take(cmd.claim, DebugSize, "debug")
      /\ raced' = (raced \/ cmd.claim # Reserved(DebugSize)) /\ cmd' = Idle /\ cmd.op = "debug"
      /\ UNCHANGED <<store, ddr, slot, mem3, mem4, queues, ipcIdx, nextIdx, disp, flash, clobbered,
                     adjusted, ready>>
  BY DEF ReserveDebug
<1>3. cmd.claim \in Nat /\ cmd.claim > 0
  <2>1. cmd.claim \in Int
    BY <1>1 DEF OthersOK, Commands
  <2> QED BY <1>1, <1>2, <2>1 DEF ClaimOK
<1>4. tail' \in Nat /\ boundary' = boundary /\ debugBuf' \in Nat
  BY <1>2, <1>3 DEF Take
<1>5. cmd' \in Commands /\ cmd'.op = "idle" /\ raced' \in BOOLEAN
  BY <1>2, OthersBegin DEF Idle
<1>6. ~raced' => HeapInv'
  <2>1. SUFFICES ASSUME ~raced' PROVE HeapInv'
    OBVIOUS
  <2>2. HeapInv /\ cmd.claim = Reserved(DebugSize)
    BY <1>2, <2>1 DEF StoreInv
  <2>3. ~Refused(DebugSize) /\ Take(NewTail(DebugSize), DebugSize, "debug")
    BY <1>2, <1>3, <2>2 DEF Reserved
  <2> QED BY <2>2, <2>3, TakeKeeps, ModelAssumption
<1> QED BY <1>1, <1>2, <1>4, <1>5, <1>6 DEF StoreInv, ModelTypeOK, OthersOK, ClaimOK

LEMMA ConfigureQueuesKeeps ==
  ASSUME StoreInv, ConfigureQueues
  PROVE  StoreInv'
<1>1. OthersOK /\ ClaimOK /\ mem3 \in Nat /\ mem4 \in Nat /\ debugBuf \in Nat
  BY InvFacts
<1>2. /\ queues' = ~Refused(QueueSize) /\ kmdw_ddr_reserve(QueueSize, "queues")
      /\ UNCHANGED <<store, ddr, slot, mem3, mem4, debugBuf, ipcIdx, nextIdx, disp, cmd, flash, modelHost>>
  BY DEF ConfigureQueues
<1>3. QueueSize \in Nat
  BY ModelAssumption
<1>4. (HeapInv => HeapInv') /\ tail' \in Nat /\ boundary' = boundary /\ queues' \in BOOLEAN
  BY <1>2, <1>3, ReserveFacts
<1> QED BY <1>1, <1>2, <1>4 DEF StoreInv, ModelTypeOK, OthersOK, ClaimOK, modelHost

LEMMA AdjustBoundaryKeeps ==
  ASSUME StoreInv, AdjustBoundary
  PROVE  StoreInv'
<1>1. OthersOK /\ ClaimOK /\ {tail, boundary, mem3, mem4, debugBuf} \subseteq Nat
  BY InvFacts
<1>2. /\ kmdw_ddr_set_ddr_boundary(store.end) /\ adjusted' = (boundary' = store.end)
      /\ UNCHANGED <<modelRam, flash, clobbered, raced, ready>>
  BY DEF AdjustBoundary
<1>3. store.end \in Nat
  BY <1>1 DEF OthersOK, Stores
<1>4. (HeapInv => HeapInv') /\ tail' \in Nat /\ boundary' \in Nat /\ adjusted' \in BOOLEAN
  BY <1>1, <1>2, <1>3, BoundaryKeeps DEF kmdw_ddr_set_ddr_boundary
<1> QED BY <1>1, <1>2, <1>4 DEF StoreInv, ModelTypeOK, OthersOK, ClaimOK, modelRam

LEMMA ReadTailKeeps ==
  ASSUME StoreInv, NEW n \in Nat, NEW read, NEW take \in {"take3", "take4"}, ReadTail(read, n, take)
  PROVE  StoreInv'
<1>1. OthersOK /\ ClaimOK /\ tail \in Nat /\ boundary \in Nat
  BY InvFacts
<1>2. /\ disp' = IF Refused(n) THEN DispIdle ELSE [disp EXCEPT !.at = take, !.claim = NewTail(n)]
      /\ UNCHANGED <<heapVars, store, ddr, slot, mem3, mem4, debugBuf, queues, ipcIdx, nextIdx, cmd, flash,
                     modelHost>>
  BY DEF ReadTail
<1>3. disp' \in Runs /\ (disp'.at \in {"take3", "take4"} => disp'.claim > 0)
  <2>1. NewTail(n) \in Int /\ (~Refused(n) => NewTail(n) > 0)
    BY <1>1, NewTailFacts DEF Refused
  <2>2. disp.type \in Types
    BY <1>1 DEF OthersOK, Runs
  <2>3. DispIdle \in Runs /\ DispIdle.at = "idle"
    BY <2>2, DispBegins DEF AnyType
  <2>4. CASE Refused(n)
    BY <1>2, <2>3, <2>4
  <2>5. CASE ~Refused(n)
    BY <1>1, <1>2, <2>1, <2>5 DEF OthersOK, Runs
  <2> QED BY <2>4, <2>5
<1>4. OthersOK' /\ ClaimOK' /\ HeapSame
  BY <1>1, <1>2, <1>3 DEF OthersOK, ClaimOK, HeapSame, modelHost, heapVars
<1> QED BY <1>4, SameHeap

(* The block was computed from the tail that it is taken from, or the      *)
(* history says that it was not.                                           *)
LEMMA WriteTailKeeps ==
  ASSUME StoreInv, NEW n \in Nat, NEW take \in {"take3", "take4"}, WriteTail(take, n),
         mem3' \in {mem3, disp.claim}, mem4' \in {mem4, disp.claim}
  PROVE  StoreInv'
<1>1. /\ OthersOK /\ ClaimOK /\ tail \in Nat /\ boundary \in Nat
      /\ mem3 \in Nat /\ mem4 \in Nat /\ debugBuf \in Nat
  BY InvFacts
<1>2. /\ Take(disp.claim, n, take) /\ raced' = (raced \/ disp.claim # Reserved(n))
      /\ disp' = [disp EXCEPT !.at = NextBuffer(mem3', mem4'), !.claim = 0]
      /\ disp.at = take
      /\ UNCHANGED <<store, ddr, slot, debugBuf, queues, ipcIdx, nextIdx, cmd, flash, clobbered,
                     adjusted, ready>>
  BY DEF WriteTail
<1>3. disp.claim \in Nat /\ disp.claim > 0
  <2>1. disp.claim \in Int
    BY <1>1 DEF OthersOK, Runs
  <2> QED BY <1>1, <1>2, <2>1 DEF ClaimOK
<1>4. tail' \in Nat /\ boundary' = boundary /\ mem3' \in Nat /\ mem4' \in Nat /\ debugBuf' \in Nat
  BY <1>1, <1>2, <1>3 DEF Take
<1>5. disp' \in Runs /\ disp'.at \in {"read3", "read4", "run"}
  <2>1. NextBuffer(mem3', mem4') \in {"read3", "read4", "run"}
    BY DEF NextBuffer
  <2>2. \A at \in {"read3", "read4", "run"} :
          /\ [disp EXCEPT !.at = at, !.claim = 0] \in Runs
          /\ [disp EXCEPT !.at = at, !.claim = 0].at = at
    <3> TAKE at \in {"read3", "read4", "run"}
    <3>1. disp \in Runs
      BY <1>1 DEF OthersOK
    <3> DEFINE u == [disp EXCEPT !.at = at]
    <3>2. u \in Runs
      BY <3>1 DEF Runs
    <3>3. [u EXCEPT !.claim = 0] \in Runs
      <4> HIDE DEF u
      <4> QED BY <3>2 DEF Runs
    <3>4. [disp EXCEPT !.at = at, !.claim = 0] = [u EXCEPT !.claim = 0]
      BY <3>1 DEF Runs
    <3>5. [disp EXCEPT !.at = at, !.claim = 0].at = at
      BY <3>1 DEF Runs
    <3> QED BY <3>3, <3>4, <3>5
  <2> QED BY <1>2, <2>1, <2>2
<1>6. raced' \in BOOLEAN
  BY <1>2
<1>7. ~raced' => HeapInv'
  <2>1. SUFFICES ASSUME ~raced' PROVE HeapInv'
    OBVIOUS
  <2>2. HeapInv /\ disp.claim = Reserved(n)
    BY <1>2, <2>1 DEF StoreInv
  <2>3. ~Refused(n) /\ Take(NewTail(n), n, take)
    BY <1>2, <1>3, <2>2 DEF Reserved
  <2> QED BY <2>2, <2>3, TakeKeeps
<1> QED BY <1>1, <1>2, <1>4, <1>5, <1>6, <1>7 DEF StoreInv, ModelTypeOK, OthersOK, ClaimOK

LEMMA ReserveBuffersKeeps ==
  ASSUME StoreInv, ReserveBuffers
  PROVE  StoreInv'
<1>1. Buffer3 \in Nat /\ Buffer4 \in Nat
  BY ModelAssumption
<1>2. CASE ReadTail("read3", Buffer3, "take3")
  BY <1>1, <1>2, ReadTailKeeps
<1>3. CASE mem3' = disp.claim /\ UNCHANGED mem4 /\ WriteTail("take3", Buffer3)
  BY <1>1, <1>3, WriteTailKeeps
<1>4. CASE ReadTail("read4", Buffer4, "take4")
  BY <1>1, <1>4, ReadTailKeeps
<1>5. CASE mem4' = disp.claim /\ UNCHANGED mem3 /\ WriteTail("take4", Buffer4)
  BY <1>1, <1>5, WriteTailKeeps
<1> QED BY <1>2, <1>3, <1>4, <1>5 DEF ReserveBuffers

LEMMA RunKeeps ==
  ASSUME StoreInv, Run
  PROVE  StoreInv'
<1>1. OthersOK /\ ClaimOK
  BY InvFacts
<1>2. disp.type \in Types
  BY <1>1 DEF OthersOK, Runs
<1>3. DispIdle \in Runs /\ DispIdle.at = "idle"
  BY <1>2, DispBegins DEF AnyType
<1>4. OthersOK' /\ ClaimOK' /\ HeapSame
  BY <1>1, <1>3 DEF Run, OthersOK, ClaimOK, HeapSame, modelHost, heapVars
<1> QED BY <1>4, SameHeap

-----------------------------------------------------------------------------
(* Inferences.                                                             *)

LEMMA ConfiguredType ==
  ASSUME NEW s \in Stores, NEW i \in 1 .. MaxModels, NEW par \in BOOLEAN,
         slot \in [SlotIds -> ModelSlots]
  PROVE  Configured(s, i, par) \in [SlotIds -> ModelSlots]
<1>1. s.set \in SetIds \cup {NoSet} /\ s.outputs \in [Places -> Nat]
  BY DEF Stores
<1>2. i \in 0 .. MaxModels /\ s.outputs[i] \in Nat
  BY <1>1, MaxFacts DEF Places
<1>3. /\ [set |-> s.set, place |-> i, out |-> 0] \in ModelSlots
      /\ [set |-> s.set, place |-> i, out |-> s.outputs[i]] \in ModelSlots
  BY <1>1, <1>2 DEF ModelSlots
<1>4. SUFFICES ASSUME NEW j \in SlotIds
      PROVE  (CASE j = i -> [set |-> s.set, place |-> i, out |-> 0]
                [] j = Mirror(i) /\ par /\ i \notin s.mirrored ->
                     [set |-> s.set, place |-> i, out |-> s.outputs[i]]
                [] OTHER -> slot[j]) \in ModelSlots
  BY DEF Configured
<1>5. slot[j] \in ModelSlots
  BY <1>4
<1>6. CASE j = i
  <2>1. CASE j = Mirror(i) /\ par /\ i \notin s.mirrored
    BY <1>3, <1>6, <2>1
  <2>2. CASE ~(j = Mirror(i) /\ par /\ i \notin s.mirrored)
    BY <1>3, <1>6, <2>2
  <2> QED BY <2>1, <2>2
<1>7. CASE j # i
  <2>1. CASE j = Mirror(i) /\ par /\ i \notin s.mirrored
    BY <1>3, <1>7, <2>1
  <2>2. CASE ~(j = Mirror(i) /\ par /\ i \notin s.mirrored)
    BY <1>5, <1>7, <2>2
  <2> QED BY <2>1, <2>2
<1> QED BY <1>6, <1>7

LEMMA InferKeeps ==
  ASSUME StoreInv, NEW t \in Types, NEW par \in BOOLEAN, Infer(t, par)
  PROVE  StoreInv'
<1> DEFINE r == load_model_info(store, TRUE, FALSE)
<1>1. OthersOK /\ ClaimOK /\ tail \in Int
  BY InvFacts
<1>2. r \in Outcomes
  BY <1>1, LoadType DEF OthersOK
<1>3. r.s \in Stores
  BY <1>2 DEF Outcomes
<1>4. /\ ipcIdx' = nextIdx /\ nextIdx' = IF par THEN 1 - nextIdx ELSE nextIdx
      /\ adjusted' = StillAdjusted
      /\ UNCHANGED <<heapVars, ddr, mem3, mem4, debugBuf, queues, cmd, flash, clobbered, raced, ready>>
      /\ disp.at = "idle"
  BY DEF Infer
<1>5. ipcIdx' \in {0, 1} /\ nextIdx' \in {0, 1} /\ adjusted' \in BOOLEAN
  BY <1>1, <1>4 DEF OthersOK, StillAdjusted
<1>6. /\ store' \in Stores /\ slot' \in [SlotIds -> ModelSlots] /\ disp' \in Runs
      /\ disp'.at \notin {"take3", "take4"}
  <2>1. CASE store' = r.s /\ UNCHANGED <<slot, disp>>
    <3> HIDE DEF r
    <3> QED BY <1>1, <1>3, <1>4, <2>1 DEF OthersOK
  <2>2. CASE \E i \in PlaceOf(r.s, t) :
               /\ slot' = Configured(r.s, i, par)
               /\ store' = IF par THEN [r.s EXCEPT !.mirrored = @ \cup {i}] ELSE r.s
               /\ disp' = [at |-> NextBuffer(mem3, mem4), type |-> t, ready |-> ready, claim |-> 0,
                           slot |-> IF par /\ nextIdx # 0 THEN Mirror(i) ELSE i]
    <3> HIDE DEF r
    <3>1. PICK i \in PlaceOf(r.s, t) :
               /\ slot' = Configured(r.s, i, par)
               /\ store' = IF par THEN [r.s EXCEPT !.mirrored = @ \cup {i}] ELSE r.s
               /\ disp' = [at |-> NextBuffer(mem3, mem4), type |-> t, ready |-> ready, claim |-> 0,
                           slot |-> IF par /\ nextIdx # 0 THEN Mirror(i) ELSE i]
      BY <2>2
    <3>2. i \in 1 .. MaxModels
      <4>1. r.s.n \in 0 .. MaxModels
        BY <1>3 DEF Stores
      <4> QED BY <4>1, MaxFacts DEF PlaceOf
    <3>3. slot' \in [SlotIds -> ModelSlots]
      BY <1>1, <1>3, <3>1, <3>2, ConfiguredType DEF OthersOK
    <3>4. store' \in Stores
      BY <1>3, <3>1, <3>2 DEF Stores, Places
    <3>5. i \in 0 .. 2 * MaxModels /\ Mirror(i) \in 0 .. 2 * MaxModels
      BY <3>2, MaxFacts DEF Mirror
    <3>6. NextBuffer(mem3, mem4) \in {"read3", "read4", "run"}
      BY DEF NextBuffer
    <3>7. ready \in SetIds \cup {NoSet}
      BY <1>1 DEF OthersOK
    <3>8. disp' \in Runs /\ disp'.at \notin {"take3", "take4"}
      BY <3>1, <3>5, <3>6, <3>7 DEF Runs
    <3> QED BY <3>3, <3>4, <3>8
  <2> QED BY <2>1, <2>2 DEF Infer
<1>7. OthersOK' /\ ClaimOK' /\ HeapSame
  <2> HIDE DEF r
  <2> QED BY <1>1, <1>4, <1>5, <1>6 DEF OthersOK, ClaimOK, HeapSame, heapVars, StillAdjusted
<1> QED BY <1>7, SameHeap

-----------------------------------------------------------------------------
(* The theorems.                                                           *)

LEMMA StoreStutters == StoreInv /\ UNCHANGED modelVars => StoreInv'
BY DEF modelVars, modelRam, modelHost, heapVars, StoreInv, ModelTypeOK, ClaimOK, HeapInv, HeapTypes,
       BlocksApart

LEMMA StoreStep == StoreInv /\ [Next]_vars => StoreInv'
<1>1. SUFFICES ASSUME StoreInv, [Next]_vars PROVE StoreInv'
  OBVIOUS
<1>2. CASE UNCHANGED vars
  BY <1>1, <1>2, StoreStutters DEF vars
<1>3. CASE DfuWork \/ SwitchPartition
  BY <1>1, <1>3, StoreStutters DEF DfuWork, SwitchPartition
<1>4. CASE ModelWork
  <2>1. CASE ModelCommandStep
    BY <1>1, <2>1, EndLoadKeeps, UpdateModelKeeps, ReserveDebugKeeps DEF ModelCommandStep
  <2>2. CASE ModelOther
    BY <1>1, <2>2, ConfigureQueuesKeeps, AdjustBoundaryKeeps, InferKeeps, ReserveBuffersKeeps, RunKeeps
    DEF ModelOther
  <2> QED BY <1>4, <2>1, <2>2 DEF ModelWork
<1>5. CASE Reboot
  BY <1>1, <1>5, ModelRebootBegins DEF Reboot
<1>6. CASE UpdateFirmware
  BY <1>1, <1>6, ReceiveImageKeeps DEF UpdateFirmware
<1>7. CASE BeginModelCommand
  BY <1>1, <1>7, BeginLoadKeeps, BeginUpdateModelKeeps, LoadFromFlashKeeps, SetCheckpointKeeps
  DEF BeginModelCommand, ModelCommand
<1> QED BY <1>1, <1>2, <1>3, <1>4, <1>5, <1>6, <1>7 DEF Next

LEMMA StoreAlways == Spec => []StoreInv
<1>1. Init => StoreInv
  BY ModelBegins DEF Init
<1> QED BY <1>1, StoreStep, PTL DEF Spec

(* The table of models, the slots, the commands on their way and the       *)
(* addresses of buffers keep their types: no slot beyond the shared        *)
(* memory's, no table longer than MaxModels, no address below zero.        *)
THEOREM ModelTypes == Spec => []ModelTypeOK
<1>1. StoreInv => ModelTypeOK
  BY DEF StoreInv
<1> QED BY <1>1, StoreAlways, PTL

(* The blocks of the heap never overlap and stay in it, for every size and *)
(* alignment, unless another reservation or a move of the boundary came    *)
(* between the two halves of a kmdw_ddr_reserve in a thread.               *)
THEOREM HeapIsSound == Spec => []HeapSound
<1>1. StoreInv => HeapSound
  BY DEF StoreInv, HeapInv, HeapSound
<1> QED BY <1>1, StoreAlways, PTL

(* Once the host has moved the boundary to the end of the models it        *)
(* loaded, no reserved block lies in them or in their parallel buffers.    *)
THEOREM ModelsAreApart == Spec => []ModelsApartFromHeap
<1>1. StoreInv => ModelsApartFromHeap
  <2>1. SUFFICES ASSUME StoreInv, adjusted, ~raced, NEW x \in blocks
        PROVE  x.from >= store.end
    BY DEF ModelsApartFromHeap
  <2>2. /\ boundary < tail /\ tail <= x.from /\ x.from \in Int
        /\ tail \in Nat /\ boundary \in Nat /\ boundary = store.end
    BY <2>1 DEF StoreInv, ClaimOK, HeapInv, HeapTypes
  <2> QED BY <2>2
<1> QED BY <1>1, StoreAlways, PTL

-----------------------------------------------------------------------------
(* The table, the data and the slots.                                      *)

(* The parallel output buffer of model i of a set.                         *)
OutputOf(m, i) == AlignUp(ModelSets[m].end) + (i - 1) * AlignUp(ModelSets[m].out)

(* A table just copied: it is complete and no model's mirror is made.      *)
FreshTable(s) ==
  /\ s.set \in SetIds /\ s.n = NumModels(s.set) /\ s.n <= MaxModels
  /\ s.n < MaxModels => \A i \in 1 .. s.n : s.outputs[i] = OutputOf(s.set, i) /\ i \notin s.mirrored

Fresh(r, source, m) ==
  /\ r.s.loaded = {}
  /\ r.s.n = 0 => r.s.source = 0
  /\ r.s.source # 0 => r.s.source = source /\ r.s.set = m /\ FreshTable(r.s)
  /\ r.ret > 0 => r.s.source # 0

LEMMA SetOutputsFresh ==
  ASSUME NEW s \in Stores, s.set \in SetIds, s.n = NumModels(s.set), s.n <= MaxModels,
         s.end = ModelSets[s.set].end, s.loaded = {}, s.source # 0
  PROVE  Fresh(SetOutputs(s), s.source, s.set)
<1> DEFINE out == ModelSets[s.set].out
           w   == WithOutputs(s, out)
           end == AlignUp(s.end) + s.n * AlignUp(out)
           outs == [i \in Places |-> IF i <= s.n THEN AlignUp(s.end) + (i - 1) * AlignUp(out)
                                                 ELSE s.outputs[i]]
<1>1. s.n \in Nat /\ s.n > 0 /\ MaxModels \in Nat
  BY SetFacts, MaxFacts
<1>2. w = [s EXCEPT !.outputs = outs, !.mirrored = @ \ (1 .. s.n)]
  BY DEF WithOutputs
<1>3. /\ w.set = s.set /\ w.n = s.n /\ w.source = s.source /\ w.loaded = s.loaded
      /\ w.outputs = outs /\ w.mirrored = s.mirrored \ (1 .. s.n)
  <2> HIDE DEF outs, out
  <2> QED BY <1>2 DEF Stores
<1>4. \A i \in 1 .. s.n : outs[i] = OutputOf(s.set, i)
  <2> TAKE i \in 1 .. s.n
  <2>1. i \in Places /\ i <= s.n
    BY <1>1 DEF Places
  <2> QED BY <2>1 DEF OutputOf
<1>5. FreshTable(w)
  <2> HIDE DEF w, outs, out
  <2> QED BY <1>3, <1>4 DEF FreshTable
<1>6. Fresh(Outcome(w, 0), s.source, s.set)
  <2> HIDE DEF w, outs, out
  <2> QED BY <1>1, <1>3, <1>5 DEF Fresh, Outcome
<1>7. Fresh(Outcome([w EXCEPT !.end = end], s.n), s.source, s.set)
  <2> DEFINE Fields == {"n", "source", "set", "loaded", "end", "outputs", "mirrored", "buf",
                        "flashRead"}
  <2>1. w \in [Fields -> {w[f] : f \in Fields}]
    <3> HIDE DEF outs, out
    <3> QED BY <1>2 DEF Stores
  <2> DEFINE v == [w EXCEPT !.end = end]
  <2>2. /\ v.set = w.set /\ v.n = w.n /\ v.source = w.source /\ v.loaded = w.loaded
        /\ v.outputs = w.outputs /\ v.mirrored = w.mirrored
    <3> HIDE DEF w, end
    <3> QED BY <2>1
  <2>3. FreshTable(v)
    <3> HIDE DEF w, v
    <3> QED BY <1>5, <2>2 DEF FreshTable
  <2>4. Fresh(Outcome(v, s.n), s.source, s.set)
    <3> HIDE DEF v, w
    <3> QED BY <1>1, <1>3, <2>2, <2>3 DEF Fresh, Outcome
  <2> QED BY <2>4
<1>8. Fresh(Outcome(s, s.n), s.source, s.set) \/ s.n < MaxModels
  BY <1>1, MaxFacts DEF Fresh, Outcome, FreshTable
<1>9. SetOutputs(s) = IF s.n >= MaxModels THEN Outcome(s, s.n)
                      ELSE IF end >= tail THEN Outcome(w, 0)
                      ELSE Outcome([w EXCEPT !.end = end], s.n)
  BY DEF SetOutputs
<1> HIDE DEF w, end, out, outs
<1> QED BY <1>1, <1>6, <1>7, <1>8, <1>9

LEMMA CopyInfoFresh ==
  ASSUME NEW s \in Stores, NEW source \in {1, 2}, s.n = 0, s.source = 0, s.loaded = {}
  PROVE  Fresh(CopyInfo(s, source), source, s.buf)
<1> DEFINE m == s.buf
           t == [s EXCEPT !.n = NumModels(m), !.set = m, !.end = ModelSets[m].end]
           u == [t EXCEPT !.source = source]
<1>1. CASE m \notin SetIds \/ NumModels(m) > MaxModels
  <2> DEFINE e == [s EXCEPT !.n = 0]
  <2>1. CopyInfo(s, source) = Outcome(e, 0)
    BY <1>1 DEF CopyInfo
  <2>2. e.loaded = {} /\ e.source = 0
    BY DEF Stores
  <2> HIDE DEF e
  <2> QED BY <2>1, <2>2 DEF Fresh, Outcome
<1>2. CASE m \in SetIds /\ ~(NumModels(m) > MaxModels)
  <2>1. /\ t \in Stores /\ t.set = m /\ t.n = NumModels(m) /\ t.end = ModelSets[m].end
        /\ t.source = 0 /\ t.loaded = {}
    <3>1. NumModels(m) \in 0 .. MaxModels /\ ModelSets[m].end \in Nat
      BY <1>2, SetFacts, MaxFacts
    <3> QED BY <1>2, <3>1 DEF Stores
  <2>2. /\ u \in Stores /\ u.set = m /\ u.n = NumModels(m) /\ u.end = ModelSets[m].end
        /\ u.source = source /\ u.loaded = {}
    <3> HIDE DEF t, m
    <3> QED BY <2>1 DEF Stores
  <2>3. Fresh(SetOutputs(u), source, m)
    <3> HIDE DEF u, m
    <3>1. u.source # 0 /\ u.n <= MaxModels
      BY <1>2, <2>2, SetFacts, MaxFacts
    <3> QED BY <1>2, <2>2, <3>1, SetOutputsFresh
  <2>4. NumModels(m) # 0
    BY <1>2, SetFacts
  <2>5. Fresh(Outcome(t, 0), source, m)
    <3> HIDE DEF t, m
    <3> QED BY <2>1, <2>4 DEF Fresh, Outcome
  <2>6. CopyInfo(s, source) \in {Outcome(t, 0), SetOutputs(u)}
    BY <1>2 DEF CopyInfo
  <2> HIDE DEF t, u, m
  <2> QED BY <2>3, <2>5, <2>6 DEF m
<1> QED BY <1>1, <1>2

LEMMA ForgetFacts ==
  ASSUME NEW s \in Stores
  PROVE  /\ Forget(s) \in Stores
         /\ Forget(s).n = 0 /\ Forget(s).source = 0 /\ Forget(s).loaded = {}
         /\ Forget(s).buf = s.buf /\ Forget(s).flashRead = FALSE
<1>1. /\ 0 \in 0 .. MaxModels /\ 0 \in 0 .. 2 /\ NoSet \in SetIds \cup {NoSet}
      /\ {} \in SUBSET Places /\ FALSE \in BOOLEAN
  BY MaxFacts
<1> DEFINE u == [s EXCEPT !.n = 0, !.source = 0, !.set = NoSet]
           v == [u EXCEPT !.loaded = {}]
<1>2. u \in Stores /\ u.n = 0 /\ u.source = 0 /\ u.buf = s.buf
  BY <1>1 DEF Stores
<1>3. v \in Stores /\ v.n = 0 /\ v.source = 0 /\ v.buf = s.buf /\ v.loaded = {}
  <2> HIDE DEF u
  <2> QED BY <1>1, <1>2 DEF Stores
<1> DEFINE w == [v EXCEPT !.flashRead = FALSE]
<1>4. /\ w \in Stores /\ w.n = 0 /\ w.source = 0 /\ w.buf = s.buf /\ w.loaded = {}
      /\ w.flashRead = FALSE
  <2> HIDE DEF v
  <2> QED BY <1>1, <1>3 DEF Stores
<1>5. Forget(s) = w
  BY DEF Forget, Stores
<1> HIDE DEF w
<1> QED BY <1>4, <1>5

LEMMA LoadFromDdr ==
  ASSUME NEW s \in Stores, NEW reload \in BOOLEAN,
         ~reload => s.n = 0 /\ s.source = 0 /\ s.loaded = {}
  PROVE  Fresh(load_model_info(s, TRUE, reload), 2, s.buf)
<1> DEFINE t == IF reload THEN Forget(s) ELSE s
<1>1. t \in Stores /\ t.n = 0 /\ t.source = 0 /\ t.loaded = {} /\ t.buf = s.buf
  BY ForgetFacts
<1>2. load_model_info(s, TRUE, reload) = CopyInfo(t, 2)
  BY DEF load_model_info
<1> HIDE DEF t
<1> QED BY <1>1, <1>2, CopyInfoFresh

LEMMA LoadFromFlash ==
  ASSUME NEW s \in Stores, flash \in Flashes
  PROVE  Fresh(load_model_info(s, FALSE, TRUE), 1, flash.info)
<1> DEFINE t == Forget(s)
           u == ReadFlash(t)
<1>1. t \in Stores /\ t.n = 0 /\ t.source = 0 /\ t.loaded = {} /\ t.flashRead = FALSE
  BY ForgetFacts
<1>2. u \in Stores /\ u.n = 0 /\ u.source = 0 /\ u.loaded = {} /\ u.buf = flash.info
  <2> HIDE DEF t
  <2> QED BY <1>1 DEF ReadFlash, Stores, Flashes
<1>3. load_model_info(s, FALSE, TRUE) = CopyInfo(u, 1)
  BY DEF load_model_info
<1> HIDE DEF u
<1> QED BY <1>2, <1>3, CopyInfoFresh

-----------------------------------------------------------------------------
(* The loaded table: complete as soon as it has a source, and each mirror  *)
(* that counts as made selects a model of it with that model's buffer.     *)
MirrorMade(s, sl, i) ==
  i \in s.mirrored => sl[Mirror(i)] = [set |-> s.set, place |-> i, out |-> OutputOf(s.set, i)]

Table(s, sl) ==
  /\ s.set \in SetIds /\ s.n = NumModels(s.set) /\ s.n <= MaxModels
  /\ s.n < MaxModels =>
       \A i \in 1 .. s.n : s.outputs[i] = OutputOf(s.set, i) /\ MirrorMade(s, sl, i)

TableInv ==
  /\ store.n = 0 => store.source = 0
  /\ store.source # 0 => Table(store, slot)

(* What counts as loaded came from the flash, which only an update changes. *)
LoadedInv ==
  /\ store.loaded # {} => store.source = 1
  /\ cmd.op \in {"info", "data"} => clobbered
  /\ ~clobbered /\ store.source = 1 =>
       store.set = flash.info /\ \A i \in store.loaded : ddr[i] = flash.data

(* The set the host may use is the one in the table and in the DDR.        *)
ReadyInv ==
  /\ cmd.op = "load" => store.source = 2 /\ store.set = cmd.set /\ ready = NoSet
  /\ ready # NoSet => /\ cmd.op \in {"idle", "debug"} /\ store.source # 0 /\ store.set = ready
                      /\ \A i \in 1 .. store.n : ddr[i] = ready

(* The slot of a run on its way selects the model that was asked for.      *)
Requested(e, d) ==
  /\ e.set = d.ready /\ e.place \in 1 .. NumModels(d.ready)
  /\ ModelSets[d.ready].types[e.place] = d.type
  /\ d.slot > MaxModels => e.out = OutputOf(d.ready, e.place)

RunInv ==
  /\ disp.at # "idle" /\ disp.ready # NoSet
  /\ ThroughMirror => NumModels(disp.ready) < MaxModels
  => Requested(slot[disp.slot], disp)

LoadInv == TableInv /\ LoadedInv /\ ReadyInv /\ RunInv

LEMMA FreshIsTable == ASSUME NEW s, NEW sl, FreshTable(s) PROVE Table(s, sl)
BY DEF FreshTable, Table, MirrorMade

LEMMA CopiedTable ==
  ASSUME NEW r, NEW source, NEW m, Fresh(r, source, m), store' = r.s, UNCHANGED slot
  PROVE  TableInv' /\ store'.loaded = {}
<1>1. /\ r.s.loaded = {} /\ (r.s.n = 0 => r.s.source = 0)
      /\ (r.s.source # 0 => FreshTable(r.s))
  BY DEF Fresh
<1>2. store'.source # 0 => Table(store', slot')
  BY <1>1, FreshIsTable
<1>3. TableInv' <=> /\ store'.n = 0 => store'.source = 0
                    /\ store'.source # 0 => Table(store', slot')
  BY DEF TableInv, Table, MirrorMade
<1> QED BY <1>1, <1>2, <1>3

(* A run on its way sees no step that leaves the slots alone.              *)
LEMMA RunKept ==
  ASSUME RunInv, UNCHANGED slot,
         \/ disp'.at = "idle"
         \/ /\ disp.at # "idle" /\ disp'.slot = disp.slot /\ disp'.type = disp.type
            /\ disp'.ready = disp.ready
         \/ UNCHANGED disp
  PROVE  RunInv'
BY DEF RunInv, Requested, ThroughMirror

LEMMA OnlyDisp ==
  ASSUME LoadInv, UNCHANGED <<store, ddr, slot, flash, cmd, ready, clobbered>>,
         \/ disp'.at = "idle"
         \/ /\ disp.at # "idle" /\ disp'.slot = disp.slot /\ disp'.type = disp.type
            /\ disp'.ready = disp.ready
         \/ UNCHANGED disp
  PROVE  LoadInv'
<1>1. RunInv'
  BY RunKept DEF LoadInv
<1>2. TableInv' /\ LoadedInv' /\ ReadyInv'
  BY DEF LoadInv, TableInv, Table, MirrorMade, LoadedInv, ReadyInv
<1> QED BY <1>1, <1>2 DEF LoadInv

LEMMA DataFacts ==
  /\ NoSet \notin SetIds /\ Blank \notin SetIds /\ Junk \notin SetIds
  /\ Junk # NoSet /\ Junk # Blank /\ NoSet # Blank
<1>1. /\ {NoSet, Blank, Junk} \cap SetIds = {} /\ Cardinality({NoSet, Blank, Junk}) = 3
  BY ModelAssumption
<1>2. ASSUME NEW x, NEW y PROVE Cardinality({x, y}) # 3
  <2>1. IsFiniteSet({x}) /\ Cardinality({x}) = 1
    BY FS_Singleton
  <2>2. Cardinality({x} \cup {y}) \in {1, 2}
    BY <2>1, FS_AddElement
  <2>3. {x, y} = {x} \cup {y}
    OBVIOUS
  <2> QED BY <2>2, <2>3
<1>3. Junk # NoSet
  <2> SUFFICES ASSUME Junk = NoSet PROVE FALSE
    OBVIOUS
  <2>1. {NoSet, Blank, Junk} = {NoSet, Blank}
    OBVIOUS
  <2> QED BY <1>1, <1>2, <2>1
<1>4. Junk # Blank
  <2> SUFFICES ASSUME Junk = Blank PROVE FALSE
    OBVIOUS
  <2>1. {NoSet, Blank, Junk} = {NoSet, Blank}
    OBVIOUS
  <2> QED BY <1>1, <1>2, <2>1
<1>5. NoSet # Blank
  <2> SUFFICES ASSUME NoSet = Blank PROVE FALSE
    OBVIOUS
  <2>1. {NoSet, Blank, Junk} = {NoSet, Junk}
    OBVIOUS
  <2> QED BY <1>1, <1>2, <2>1
<1> QED BY <1>1, <1>3, <1>4, <1>5

-----------------------------------------------------------------------------
(* The commands.                                                           *)

LEMMA BeginLoadReady ==
  ASSUME StoreInv, LoadInv, NEW m \in SetIds, BeginLoad(m)
  PROVE  LoadInv'
<1> DEFINE s == [store EXCEPT !.buf = m]
           r == load_model_info(s, TRUE, TRUE)
<1>1. s \in Stores /\ s.buf = m
  BY InvFacts DEF OthersOK, Stores, Infos
<1>2. Fresh(r, 2, m)
  <2> HIDE DEF s
  <2> QED BY <1>1, LoadFromDdr
<1>3. /\ store' = r.s /\ cmd' = (IF r.ret > 0 THEN [op |-> "load", set |-> m, claim |-> 0] ELSE Idle)
      /\ ready' = NoSet /\ UNCHANGED <<ddr, slot, disp, flash, clobbered>>
  BY DEF BeginLoad
<1> HIDE DEF r, s
<1>4. TableInv' /\ store'.loaded = {}
  BY <1>2, <1>3, CopiedTable
<1>5. RunInv'
  BY <1>3, RunKept DEF LoadInv
<1>6. cmd' = Idle \/ (cmd' = [op |-> "load", set |-> m, claim |-> 0] /\ store'.source = 2 /\ store'.set = m)
  BY <1>2, <1>3 DEF Fresh
<1>7. store'.source \in {0, 2}
  BY <1>2, <1>3 DEF Fresh
<1>8. LoadedInv'
  BY <1>4, <1>6, <1>7 DEF LoadedInv, Idle
<1>9. ReadyInv'
  BY <1>3, <1>6 DEF ReadyInv, Idle
<1> QED BY <1>4, <1>5, <1>8, <1>9 DEF LoadInv

LEMMA EndLoadReady ==
  ASSUME StoreInv, LoadInv, EndLoad
  PROVE  LoadInv'
<1>1. /\ cmd.op = "load" /\ cmd' = Idle /\ Idle.op = "idle"
      /\ UNCHANGED <<store, slot, disp, flash, clobbered>>
  BY DEF EndLoad, Idle
<1>2. store.source = 2 /\ store.set = cmd.set /\ ready = NoSet /\ store.loaded = {}
  BY <1>1 DEF LoadInv, ReadyInv, LoadedInv
<1>3. TableInv'
  BY <1>1 DEF LoadInv, TableInv, Table, MirrorMade
<1>4. RunInv'
  BY <1>1, RunKept DEF LoadInv
<1>5. LoadedInv'
  BY <1>1, <1>2 DEF LoadedInv
<1>6. CASE /\ ddr' = [i \in Places |-> IF i <= NumModels(cmd.set) THEN cmd.set ELSE Junk]
           /\ ready' = cmd.set
  <2>1. store.n = NumModels(cmd.set) /\ store.n \in 0 .. MaxModels
    BY <1>2, InvFacts DEF LoadInv, TableInv, Table, OthersOK, Stores
  <2>2. \A i \in 1 .. store.n : i \in Places /\ i <= NumModels(cmd.set)
    BY <2>1, MaxFacts DEF Places
  <2>3. \A i \in 1 .. store'.n : ddr'[i] = ready'
    BY <1>1, <1>6, <2>2
  <2>4. ReadyInv'
    BY <1>1, <1>2, <1>6, <2>3 DEF ReadyInv
  <2> QED BY <1>3, <1>4, <1>5, <2>4 DEF LoadInv
<1>7. CASE UNCHANGED ready
  BY <1>1, <1>2, <1>3, <1>4, <1>5, <1>7 DEF ReadyInv, LoadInv
<1> QED BY <1>6, <1>7 DEF EndLoad

LEMMA BeginUpdateModelReady ==
  ASSUME StoreInv, LoadInv, NEW m \in SetIds, BeginUpdateModel(m)
  PROVE  LoadInv'
<1>1. ready' = NoSet /\ UNCHANGED <<slot, disp>> /\ cmd.op = "idle"
  BY DEF BeginUpdateModel
<1>2. RunInv'
  BY <1>1, RunKept DEF LoadInv
<1>3. CASE cmd' = [op |-> "info", set |-> m, claim |-> 0] /\ clobbered' = TRUE /\ UNCHANGED store
  BY <1>1, <1>2, <1>3 DEF LoadInv, TableInv, Table, MirrorMade, LoadedInv, ReadyInv
<1>4. CASE store' = refresh_models.s /\ clobbered' = FALSE /\ UNCHANGED <<cmd, flash>>
  <2> DEFINE r == load_model_info(store, FALSE, TRUE)
  <2>1. Fresh(r, 1, flash.info)
    BY InvFacts, LoadFromFlash DEF OthersOK
  <2>2. store' = r.s
    BY <1>4 DEF refresh_models
  <2> HIDE DEF r
  <2>3. TableInv' /\ store'.loaded = {}
    BY <1>1, <2>1, <2>2, CopiedTable
  <2>4. store'.source # 0 => store'.set = flash.info
    BY <2>1, <2>2 DEF Fresh
  <2>5. LoadedInv' /\ ReadyInv'
    BY <1>1, <1>4, <2>3, <2>4 DEF LoadedInv, ReadyInv
  <2> QED BY <1>2, <2>3, <2>5 DEF LoadInv
<1> QED BY <1>3, <1>4 DEF BeginUpdateModel

LEMMA UpdateModelReady ==
  ASSUME StoreInv, LoadInv, UpdateModel
  PROVE  LoadInv'
<1>1. /\ UNCHANGED <<store, ddr, slot, disp, ready, clobbered>>
      /\ cmd.op \in {"info", "data"}
  BY DEF UpdateModel, modelHost
<1>2. clobbered /\ ready = NoSet
  BY <1>1 DEF LoadInv, LoadedInv, ReadyInv
<1>3. cmd' \in {Idle, [cmd EXCEPT !.op = "data"]}
  BY DEF UpdateModel
<1>4. cmd'.op \in {"idle", "data"}
  BY <1>3, InvFacts DEF Idle, OthersOK, Commands
<1>5. RunInv'
  BY <1>1, RunKept DEF LoadInv
<1>6. TableInv' /\ LoadedInv' /\ ReadyInv'
  BY <1>1, <1>2, <1>4 DEF LoadInv, TableInv, Table, MirrorMade, LoadedInv, ReadyInv
<1> QED BY <1>5, <1>6 DEF LoadInv

LEMMA ReceiveImageReady ==
  ASSUME StoreInv, LoadInv, ReceiveImage
  PROVE  LoadInv'
<1>1. /\ UNCHANGED <<store, slot, disp, cmd>> /\ cmd.op = "idle"
      /\ ready' = NoSet /\ clobbered' = TRUE
  BY DEF ReceiveImage
<1>2. RunInv'
  BY <1>1, RunKept DEF LoadInv
<1>3. TableInv' /\ LoadedInv' /\ ReadyInv'
  BY <1>1 DEF LoadInv, TableInv, Table, MirrorMade, LoadedInv, ReadyInv
<1> QED BY <1>2, <1>3 DEF LoadInv

(* Models that were copied before stay, the others are copied from the     *)
(* same flash; with the flash complete these are the models of the table.  *)
LEMMA LoadFromFlashReady ==
  ASSUME StoreInv, LoadInv, load_model_from_flash
  PROVE  LoadInv'
<1> DEFINE r == IF store.source = 1 /\ store.n # 0 THEN Outcome(store, store.n)
                ELSE load_model_info(store, FALSE, TRUE)
           ok == r.ret > 0
           kept == store.source = 1 /\ store.n # 0
<1>1. /\ cmd.op = "idle" /\ UNCHANGED <<slot, disp, cmd, flash, clobbered>>
      /\ store' = IF ok THEN [r.s EXCEPT !.loaded = 1 .. r.s.n] ELSE r.s
      /\ ddr' = IF ok THEN LoadedFromFlash(r.s) ELSE ddr
      /\ ready' = IF ok /\ ~clobbered /\ flash.info = flash.data THEN r.s.set ELSE NoSet
  BY DEF load_model_from_flash
<1>2. store \in Stores /\ flash \in Flashes /\ tail \in Int
  BY InvFacts DEF OthersOK
<1>3. r.s \in Stores
  <2>1. load_model_info(store, FALSE, TRUE) \in Outcomes
    BY <1>2, LoadType
  <2> QED BY <1>2, <2>1 DEF Outcome, Outcomes
<1>4. Fresh(load_model_info(store, FALSE, TRUE), 1, flash.info)
  BY <1>2, LoadFromFlash
<1>12. (kept => r = Outcome(store, store.n)) /\ (~kept => Fresh(r, 1, flash.info))
  BY <1>4
<1> HIDE DEF r
<1>5. /\ r.s.n = 0 => r.s.source = 0
      /\ r.s.source # 0 => Table(r.s, slot)
  <2>1. CASE kept
    BY <1>12, <2>1 DEF Outcome, LoadInv, TableInv
  <2>2. CASE ~kept
    BY <1>12, <2>2, FreshIsTable DEF Fresh
  <2> QED BY <2>1, <2>2
<1>6. /\ r.s.loaded # {} => r.s.source = 1
      /\ ok => r.s.source = 1
      /\ ~clobbered /\ r.s.source = 1 =>
           r.s.set = flash.info /\ \A i \in r.s.loaded : ddr[i] = flash.data
  <2>1. CASE kept
    BY <1>12, <2>1 DEF Outcome, LoadInv, LoadedInv
  <2>2. CASE ~kept
    <3>1. r.s.loaded = {} /\ (r.s.source # 0 => r.s.source = 1 /\ r.s.set = flash.info)
          /\ (r.ret > 0 => r.s.source # 0)
      BY <1>12, <2>2 DEF Fresh
    <3> QED BY <3>1
  <2> QED BY <2>1, <2>2
<1>7. \/ store' = r.s
      \/ /\ store'.loaded = 1 .. r.s.n /\ store'.n = r.s.n /\ store'.source = r.s.source
         /\ store'.set = r.s.set /\ store'.outputs = r.s.outputs
         /\ store'.mirrored = r.s.mirrored
  BY <1>1, <1>3 DEF Stores
<1>8. TableInv'
  BY <1>1, <1>5, <1>7 DEF TableInv, Table, MirrorMade
<1>9. RunInv'
  BY <1>1, RunKept DEF LoadInv
<1>10. CASE ~ok
  BY <1>1, <1>6, <1>8, <1>9, <1>10 DEF LoadInv, LoadedInv, ReadyInv
<1>11. CASE ok
  <2>1. store'.loaded = 1 .. r.s.n /\ store'.source = 1 /\ store'.set = r.s.set /\ store'.n = r.s.n
    BY <1>1, <1>3, <1>6, <1>7, <1>11 DEF Stores
  <2>2. r.s.n \in 0 .. MaxModels /\ r.s.set \in SetIds
    BY <1>3, <1>5, <1>6, <1>11 DEF Stores, Table
  <2>3. ASSUME ~clobbered, NEW i \in 1 .. r.s.n PROVE ddr'[i] = flash.data
    <3>1. i \in Places
      BY <2>2, MaxFacts DEF Places
    <3>2. ddr'[i] = IF i \in (1 .. r.s.n) \ r.s.loaded THEN flash.data ELSE ddr[i]
      BY <1>1, <1>11, <3>1 DEF LoadedFromFlash
    <3> QED BY <1>6, <1>11, <2>3, <3>2
  <2>4. LoadedInv'
    BY <1>1, <1>6, <1>11, <2>1, <2>3 DEF LoadInv, LoadedInv
  <2>5. ReadyInv'
    BY <1>1, <1>6, <1>11, <2>1, <2>2, <2>3 DEF ReadyInv
  <2> QED BY <1>8, <1>9, <2>4, <2>5 DEF LoadInv
<1> QED BY <1>10, <1>11

-----------------------------------------------------------------------------
(* Inferences.  Only an empty table is read again, and then the host was   *)
(* promised nothing.                                                       *)

LEMMA MirrorFacts ==
  ASSUME NEW i \in 1 .. MaxModels
  PROVE  /\ i \in SlotIds /\ Mirror(i) \in SlotIds /\ Mirror(i) > MaxModels /\ Mirror(i) # i
         /\ \A k \in 1 .. MaxModels : Mirror(k) # i /\ (Mirror(k) = Mirror(i) => k = i)
BY MaxFacts DEF SlotIds, Mirror

LEMMA ConfiguredFacts ==
  ASSUME NEW s, NEW i \in 1 .. MaxModels, NEW par \in BOOLEAN
  PROVE  /\ Configured(s, i, par)[i] = [set |-> s.set, place |-> i, out |-> 0]
         /\ par /\ i \notin s.mirrored =>
              Configured(s, i, par)[Mirror(i)] =
                [set |-> s.set, place |-> i, out |-> s.outputs[i]]
         /\ ~par \/ i \in s.mirrored => Configured(s, i, par)[Mirror(i)] = slot[Mirror(i)]
         /\ \A k \in 1 .. MaxModels : k # i =>
              Configured(s, i, par)[Mirror(k)] = slot[Mirror(k)]
<1>1. /\ i \in SlotIds /\ Mirror(i) \in SlotIds /\ Mirror(i) # i
      /\ \A k \in 1 .. MaxModels : Mirror(k) # i /\ Mirror(k) \in SlotIds
                                   /\ (Mirror(k) = Mirror(i) => k = i)
  BY MirrorFacts
<1>2. \A j \in SlotIds : j # i /\ j # Mirror(i) => Configured(s, i, par)[j] = slot[j]
  BY DEF Configured
<1>3. Configured(s, i, par)[i] = [set |-> s.set, place |-> i, out |-> 0]
  BY <1>1 DEF Configured
<1>4. ASSUME par, i \notin s.mirrored
      PROVE  Configured(s, i, par)[Mirror(i)] =
               [set |-> s.set, place |-> i, out |-> s.outputs[i]]
  BY <1>1, <1>4 DEF Configured
<1>5. ASSUME ~par \/ i \in s.mirrored
      PROVE  Configured(s, i, par)[Mirror(i)] = slot[Mirror(i)]
  BY <1>1, <1>5 DEF Configured
<1> QED BY <1>1, <1>2, <1>3, <1>4, <1>5

LEMMA InferReady ==
  ASSUME StoreInv, LoadInv, NEW t \in Types, NEW par \in BOOLEAN, Infer(t, par)
  PROVE  LoadInv'
<1> DEFINE r == load_model_info(store, TRUE, FALSE)
<1>1. /\ store \in Stores /\ flash \in Flashes /\ tail \in Int
      /\ ready \in SetIds \cup {NoSet}
  BY InvFacts DEF OthersOK
<1>2. r.s \in Stores
  BY <1>1, LoadType DEF Outcomes
<1>3. r.s = store \/ (store.source = 0 /\ Fresh(r, 2, store.buf))
  <2>1. CASE store.n # 0
    BY <2>1 DEF load_model_info, Outcome
  <2>2. CASE store.n = 0
    <3>1. store.source = 0 /\ store.loaded = {}
      BY <2>2 DEF LoadInv, TableInv, LoadedInv
    <3> QED BY <1>1, <2>2, <3>1, LoadFromDdr
  <2> QED BY <2>1, <2>2
<1>4. UNCHANGED <<ddr, cmd, flash, clobbered, ready>>
  BY DEF Infer
<1>5. \/ store' = r.s /\ UNCHANGED <<slot, disp>>
      \/ \E i \in PlaceOf(r.s, t) :
           /\ slot' = Configured(r.s, i, par)
           /\ store' = IF par THEN [r.s EXCEPT !.mirrored = @ \cup {i}] ELSE r.s
           /\ disp' = [at |-> NextBuffer(mem3, mem4), type |-> t, ready |-> ready, claim |-> 0,
                       slot |-> IF par /\ nextIdx # 0 THEN Mirror(i) ELSE i]
  BY DEF Infer
<1> HIDE DEF r
<1>6. /\ r.s.n = 0 => r.s.source = 0
      /\ r.s.source # 0 => Table(r.s, slot)
      /\ r.s.loaded # {} => r.s.source = 1
      /\ ready # NoSet => r.s = store
      /\ cmd.op = "load" => r.s = store
  <2>1. CASE r.s = store
    BY <2>1 DEF LoadInv, TableInv, LoadedInv
  <2>2. CASE store.source = 0 /\ Fresh(r, 2, store.buf)
    <3>1. r.s.loaded = {} /\ (r.s.n = 0 => r.s.source = 0)
          /\ (r.s.source # 0 => FreshTable(r.s))
      BY <2>2 DEF Fresh
    <3>2. r.s.source # 0 => Table(r.s, slot)
      BY <3>1, FreshIsTable
    <3> QED BY <2>2, <3>1, <3>2 DEF LoadInv, ReadyInv
  <2> QED BY <1>3, <2>1, <2>2
<1>7. ~clobbered /\ r.s.source = 1 =>
        r.s.set = flash.info /\ \A k \in r.s.loaded : ddr[k] = flash.data
  <2>1. CASE r.s = store
    BY <2>1 DEF LoadInv, LoadedInv
  <2>2. CASE store.source = 0 /\ Fresh(r, 2, store.buf)
    BY <2>2 DEF Fresh
  <2> QED BY <1>3, <2>1, <2>2
<1>8. /\ store'.n = r.s.n /\ store'.source = r.s.source /\ store'.set = r.s.set
      /\ store'.loaded = r.s.loaded /\ store'.outputs = r.s.outputs
  BY <1>2, <1>5 DEF Stores
<1>9. LoadedInv'
  BY <1>4, <1>6, <1>7, <1>8 DEF LoadInv, LoadedInv
<1>10. ReadyInv'
  BY <1>4, <1>6, <1>8 DEF LoadInv, ReadyInv
<1>11. CASE store' = r.s /\ UNCHANGED <<slot, disp>>
  <2>1. TableInv'
    BY <1>6, <1>11 DEF TableInv, Table, MirrorMade
  <2>2. RunInv'
    BY <1>11, RunKept DEF LoadInv
  <2> QED BY <1>9, <1>10, <2>1, <2>2 DEF LoadInv
<1>12. CASE \E i \in PlaceOf(r.s, t) :
              /\ slot' = Configured(r.s, i, par)
              /\ store' = IF par THEN [r.s EXCEPT !.mirrored = @ \cup {i}] ELSE r.s
              /\ disp' = [at |-> NextBuffer(mem3, mem4), type |-> t, ready |-> ready, claim |-> 0,
                          slot |-> IF par /\ nextIdx # 0 THEN Mirror(i) ELSE i]
  <2>1. PICK i \in PlaceOf(r.s, t) :
              /\ slot' = Configured(r.s, i, par)
              /\ store' = IF par THEN [r.s EXCEPT !.mirrored = @ \cup {i}] ELSE r.s
              /\ disp' = [at |-> NextBuffer(mem3, mem4), type |-> t, ready |-> ready, claim |-> 0,
                          slot |-> IF par /\ nextIdx # 0 THEN Mirror(i) ELSE i]
    BY <1>12
  <2>2. /\ i \in 1 .. r.s.n /\ i \in 1 .. MaxModels /\ ModelSets[r.s.set].types[i] = t
        /\ r.s.n \in 0 .. MaxModels
    <3>1. r.s.n \in 0 .. MaxModels /\ i \in 1 .. r.s.n
      BY <1>2 DEF Stores, PlaceOf
    <3> QED BY <3>1, MaxFacts DEF PlaceOf
  <2>3. /\ slot'[i] = [set |-> r.s.set, place |-> i, out |-> 0]
        /\ par /\ i \notin r.s.mirrored =>
             slot'[Mirror(i)] = [set |-> r.s.set, place |-> i, out |-> r.s.outputs[i]]
        /\ ~par \/ i \in r.s.mirrored => slot'[Mirror(i)] = slot[Mirror(i)]
        /\ \A k \in 1 .. MaxModels : k # i => slot'[Mirror(k)] = slot[Mirror(k)]
    BY <2>1, <2>2, ConfiguredFacts
  <2>4. store'.mirrored = IF par THEN r.s.mirrored \cup {i} ELSE r.s.mirrored
    BY <1>2, <2>1 DEF Stores
  <2>5. ASSUME r.s.source # 0, r.s.n < MaxModels, NEW k \in 1 .. r.s.n
        PROVE  MirrorMade(store', slot', k)
    <3>1. Table(r.s, slot) /\ k \in 1 .. MaxModels
      BY <1>6, <2>2, <2>5, MaxFacts
    <3>2. r.s.outputs[k] = OutputOf(r.s.set, k) /\ MirrorMade(r.s, slot, k)
      BY <2>5, <3>1 DEF Table
    <3>3. CASE k # i
      BY <1>8, <2>3, <2>4, <3>1, <3>2, <3>3 DEF MirrorMade
    <3>4. CASE k = i
      BY <1>8, <2>3, <2>4, <3>2, <3>4 DEF MirrorMade
    <3> QED BY <3>3, <3>4
  <2>6. store'.source # 0 => Table(store', slot')
    BY <1>6, <1>8, <2>5 DEF Table
  <2>7. TableInv'
    <3>1. TableInv' <=> /\ store'.n = 0 => store'.source = 0
                        /\ store'.source # 0 => Table(store', slot')
      BY DEF TableInv, Table, MirrorMade
    <3> QED BY <1>6, <1>8, <2>6, <3>1
  <2>8. /\ disp'.ready = ready /\ disp'.type = t
        /\ disp'.slot = IF par /\ nextIdx # 0 THEN Mirror(i) ELSE i
    BY <2>1
  <2>9. ASSUME ready # NoSet, (disp'.slot > MaxModels) => NumModels(ready) < MaxModels
        PROVE  Requested(slot'[disp'.slot], disp')
    <3>1. /\ r.s = store /\ Table(store, slot) /\ store.set = ready
      BY <1>6, <2>9 DEF LoadInv, ReadyInv
    <3>2. store.n = NumModels(ready)
      BY <3>1 DEF Table
    <3>3. Mirror(i) > MaxModels /\ i <= MaxModels
      BY <2>2, MirrorFacts
    <3>4. CASE disp'.slot = i
      BY <2>2, <2>3, <2>8, <3>1, <3>2, <3>3, <3>4, MaxFacts DEF Requested
    <3>5. CASE par /\ disp'.slot = Mirror(i)
      <4>1. store.outputs[i] = OutputOf(ready, i) /\ MirrorMade(store, slot, i)
        BY <2>2, <2>9, <3>1, <3>2, <3>3, <3>5 DEF Table
      <4>2. slot'[Mirror(i)] = [set |-> ready, place |-> i, out |-> OutputOf(ready, i)]
        BY <2>3, <3>1, <3>5, <4>1 DEF MirrorMade
      <4> QED BY <2>2, <2>8, <3>1, <3>2, <3>5, <4>2 DEF Requested
    <3> QED BY <2>8, <3>4, <3>5
  <2>10. RunInv'
    BY <2>8, <2>9 DEF RunInv, Requested, ThroughMirror
  <2> QED BY <1>9, <1>10, <2>7, <2>10 DEF LoadInv
<1> QED BY <1>5, <1>11, <1>12

-----------------------------------------------------------------------------
(* The other steps.                                                        *)

LEMMA ReserveBuffersReady ==
  ASSUME StoreInv, LoadInv, ReserveBuffers
  PROVE  LoadInv'
<1>1. disp \in Runs
  BY InvFacts DEF OthersOK
<1>2. ASSUME NEW n, NEW read \in {"read3", "read4"}, NEW take, ReadTail(read, n, take)
      PROVE  LoadInv'
  <2>1. UNCHANGED <<store, ddr, slot, flash, cmd, ready, clobbered>> /\ disp.at # "idle"
    BY <1>2 DEF ReadTail, modelHost
  <2>2. disp' = DispIdle \/ disp' = [disp EXCEPT !.at = take, !.claim = NewTail(n)]
    BY <1>2 DEF ReadTail
  <2>3. disp'.at = "idle" \/ (/\ disp'.slot = disp.slot /\ disp'.type = disp.type
                              /\ disp'.ready = disp.ready)
    <3>1. CASE disp' = DispIdle
      BY <3>1 DEF DispIdle
    <3>2. CASE disp' = [disp EXCEPT !.at = take, !.claim = NewTail(n)]
      BY <1>1, <3>2 DEF Runs
    <3> QED BY <2>2, <3>1, <3>2
  <2> QED BY <2>1, <2>3, OnlyDisp
<1>3. ASSUME NEW n, NEW take \in {"take3", "take4"}, WriteTail(take, n)
      PROVE  LoadInv'
  <2>1. UNCHANGED <<store, ddr, slot, flash, cmd, ready, clobbered>> /\ disp.at # "idle"
    BY <1>3 DEF WriteTail
  <2>2. disp' = [disp EXCEPT !.at = NextBuffer(mem3', mem4'), !.claim = 0]
    BY <1>3 DEF WriteTail
  <2>3. disp'.slot = disp.slot /\ disp'.type = disp.type /\ disp'.ready = disp.ready
    BY <1>1, <2>2 DEF Runs
  <2> QED BY <2>1, <2>3, OnlyDisp
<1> QED BY <1>2, <1>3 DEF ReserveBuffers

LEMMA QuietReady ==
  ASSUME StoreInv, LoadInv, ConfigureQueues \/ AdjustBoundary \/ Run
  PROVE  LoadInv'
<1>1. UNCHANGED <<store, ddr, slot, flash, cmd, ready, clobbered>>
  BY DEF ConfigureQueues, AdjustBoundary, Run, modelHost, modelRam
<1>2. UNCHANGED disp \/ disp' = DispIdle
  BY DEF ConfigureQueues, AdjustBoundary, Run, modelRam
<1> QED BY <1>1, <1>2, OnlyDisp DEF DispIdle

LEMMA CheckpointReady ==
  ASSUME StoreInv, LoadInv, SetCheckpoint \/ ReserveDebug
  PROVE  LoadInv'
<1>1. UNCHANGED <<store, ddr, slot, disp, flash, ready, clobbered>>
  BY DEF SetCheckpoint, ReserveDebug, modelHost
<1>2. cmd'.op \in {"idle", "debug"} /\ cmd.op \in {"idle", "debug"}
  <2>1. CASE SetCheckpoint
    BY <2>1, ModelAssumption DEF SetCheckpoint, Idle
  <2>2. CASE ReserveDebug
    BY <2>2 DEF ReserveDebug, Idle
  <2> QED BY <2>1, <2>2
<1>3. RunInv'
  BY <1>1, RunKept DEF LoadInv
<1>4. TableInv' /\ LoadedInv' /\ ReadyInv'
  BY <1>1, <1>2 DEF LoadInv, TableInv, Table, MirrorMade, LoadedInv, ReadyInv
<1> QED BY <1>3, <1>4 DEF LoadInv

LEMMA LoadBegins ==
  /\ ModelInit => LoadInv
  /\ ModelReboot => LoadInv'
<1>1. ModelInit => LoadInv
  BY DEF ModelInit, LoadInv, TableInv, LoadedInv, ReadyInv, RunInv, Store0, Idle, DispIdle
<1>2. ASSUME ModelReboot PROVE LoadInv'
  <2>1. /\ store' = Store0 /\ disp' = DispIdle /\ cmd' = Idle /\ ready' = NoSet
    BY <1>2 DEF ModelReboot
  <2>2. /\ store'.n = 0 /\ store'.source = 0 /\ store'.loaded = {} /\ disp'.at = "idle"
        /\ cmd'.op = "idle"
    BY <2>1 DEF Store0, DispIdle, Idle
  <2> QED BY <2>1, <2>2 DEF LoadInv, TableInv, LoadedInv, ReadyInv, RunInv
<1> QED BY <1>1, <1>2

LEMMA LoadStep == StoreInv /\ LoadInv /\ [Next]_vars => LoadInv'
<1>1. SUFFICES ASSUME StoreInv, LoadInv, [Next]_vars PROVE LoadInv'
  OBVIOUS
<1>2. UNCHANGED modelVars => LoadInv'
  BY <1>1, OnlyDisp DEF modelVars, modelRam, modelHost
<1>3. CASE UNCHANGED vars
  BY <1>2, <1>3 DEF vars
<1>4. CASE DfuWork \/ SwitchPartition
  BY <1>2, <1>4 DEF DfuWork, SwitchPartition
<1>5. CASE ModelWork
  <2>1. CASE ModelCommandStep
    BY <1>1, <2>1, EndLoadReady, UpdateModelReady, CheckpointReady DEF ModelCommandStep
  <2>2. CASE ModelOther
    BY <1>1, <2>2, QuietReady, InferReady, ReserveBuffersReady DEF ModelOther
  <2> QED BY <1>5, <2>1, <2>2 DEF ModelWork
<1>6. CASE Reboot
  BY <1>6, LoadBegins DEF Reboot
<1>7. CASE UpdateFirmware
  BY <1>1, <1>7, ReceiveImageReady DEF UpdateFirmware
<1>8. CASE BeginModelCommand
  BY <1>1, <1>8, BeginLoadReady, BeginUpdateModelReady, LoadFromFlashReady, CheckpointReady
  DEF BeginModelCommand, ModelCommand
<1> QED BY <1>1, <1>3, <1>4, <1>5, <1>6, <1>7, <1>8 DEF Next

LEMMA LoadAlways == Spec => [](StoreInv /\ LoadInv)
<1>1. Init => StoreInv /\ LoadInv
  BY ModelBegins, LoadBegins DEF Init
<1>2. StoreInv /\ LoadInv /\ [Next]_vars => (StoreInv /\ LoadInv)'
  BY StoreStep, LoadStep
<1> QED BY <1>1, <1>2, PTL DEF Spec

(* Every model that the table marks as loaded is in the DDR, after any     *)
(* sequence of loads, updates and power failures: load_model(-1), which    *)
(* skips the marked ones, skips none that has to be copied.                *)
THEOREM LoadedModelsAreThere == Spec => []LoadedIsThere
<1>1. StoreInv /\ LoadInv => LoadedIsThere
  <2>1. SUFFICES ASSUME StoreInv, LoadInv, ~clobbered, flash.info = flash.data,
                        NEW i \in store.loaded
                 PROVE  ddr[i] # Junk
    BY DEF LoadedIsThere
  <2>2. ddr[i] = flash.data
    BY <2>1 DEF LoadInv, LoadedInv
  <2>3. flash.info \in Infos
    BY <2>1, InvFacts DEF OthersOK, Flashes
  <2> QED BY <2>1, <2>2, <2>3, DataFacts DEF Infos
<1> QED BY <1>1, LoadAlways, PTL

(* A run uses the model the host asked for: of the set the host loaded     *)
(* last, with that set's data in the DDR, and through a mirror only with   *)
(* the model's own output buffer behind the models.                        *)
THEOREM RunsTheRequested == Spec => []RunsRequestedModel
<1>1. StoreInv /\ LoadInv => RunsRequestedModel
  <2> DEFINE e == slot[disp.slot]
  <2>1. SUFFICES ASSUME StoreInv, LoadInv, disp.at = "run", Promised PROVE RightModel
    BY DEF RunsRequestedModel
  <2>2. /\ ready # NoSet /\ ready = disp.ready /\ store.set = ready /\ store.source # 0
        /\ \A i \in 1 .. store.n : ddr[i] = ready
    BY <2>1 DEF Promised, LoadInv, ReadyInv
  <2>3. Table(store, slot) /\ store.n = NumModels(ready) /\ ready \in SetIds
    BY <2>1, <2>2 DEF LoadInv, TableInv, Table
  <2>4. Requested(e, disp)
    BY <2>1, <2>2 DEF LoadInv, RunInv, Promised
  <2>5. /\ e.set = ready /\ e.place \in 1 .. store.n
        /\ ModelSets[ready].types[e.place] = disp.type
    BY <2>2, <2>3, <2>4 DEF Requested
  <2>6. ASSUME ThroughMirror
        PROVE  e.out = store.outputs[e.place] /\ e.out >= ModelSets[ready].end
    <3>1. e.out = OutputOf(ready, e.place) /\ store.n < MaxModels
      BY <2>1, <2>2, <2>3, <2>4, <2>6 DEF Requested, ThroughMirror, Promised
    <3>2. store.outputs[e.place] = OutputOf(ready, e.place)
      BY <2>2, <2>3, <2>5, <3>1 DEF Table
    <3>3. /\ ModelSets[ready].end \in Nat /\ ModelSets[ready].out \in Nat
          /\ store.n \in Nat
      BY <2>3, SetFacts
    <3>4. /\ AlignUp(ModelSets[ready].end) >= ModelSets[ready].end
          /\ AlignUp(ModelSets[ready].end) \in Nat
          /\ AlignUp(ModelSets[ready].out) \in Nat
      BY <3>3, UpFacts
    <3>5. OutputOf(ready, e.place) >= ModelSets[ready].end
      <4>1. e.place - 1 \in Nat
        BY <2>5, <3>3
      <4>2. (e.place - 1) * AlignUp(ModelSets[ready].out) \in Nat
        <5> DEFINE a == e.place - 1
                   b == AlignUp(ModelSets[ready].out)
        <5> HIDE DEF a, b
        <5> QED BY <3>4, <4>1 DEF a, b
      <4> QED BY <3>3, <3>4, <4>2 DEF OutputOf
    <3> QED BY <3>1, <3>2, <3>5
  <2>7. ddr[e.place] = ready
    BY <2>2, <2>5
  <2> QED BY <2>5, <2>6, <2>7 DEF RightModel
<1> QED BY <1>1, LoadAlways, PTL

=============================================================================
