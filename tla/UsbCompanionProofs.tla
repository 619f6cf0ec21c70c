------------------------- MODULE UsbCompanionProofs -------------------------
(***************************************************************************)
(* Machine-checked proofs about UsbCompanion, for every number of buffers, *)
(* slots and images, every bound and every behaviour of the host: the      *)
(* types first, then that no buffer is in two places.                      *)
(*                                                                         *)
(* Then what becomes of an image between the host and the dispatcher.  The *)
(* images stand in a line: the one buf_mgr took last, those in the         *)
(* temporary queue, the one the image thread has a header of, and the one  *)
(* the host sends.  Each follows the one before (LineInv), whatever is     *)
(* reset or dropped in between, so buf_mgr stores the indices of an        *)
(* inference without a gap (StoredInv): no object it completes lacks an    *)
(* image (NoMissingImage).                                                 *)
(*                                                                         *)
(* And as long as the image thread did not go on without a buffer: the     *)
(* queues hold buffers of the queues only (RealInv), so that a thread with *)
(* a buffer in its hand leaves a slot in every queue (PutsNeverWait), and  *)
(* every buffer is found where its owner says (Conserved).                 *)
(***************************************************************************)
EXTENDS UsbCompanion, TLAPS, FiniteSetTheorems

(* What the types need to be inductive: who sends holds a result buffer,   *)
(* objects have buffers, the thread that is in a loop has something left.  *)
Shapes ==
  /\ mgrPc # "get" => storedNum >= 1
  /\ imgPc = "unbundle" => extra # <<>>
  /\ infPc # "get" => obj # <<>>
  /\ infPc = "execute" => resBuf \in ResBufs
  /\ sendPc # "get" => sendBuf \in ResBufs
  /\ sendMutex = "send" => sendPc \in {"wait", "hung"}

Types == TypeOK /\ Shapes

(* Sequences.                                                              *)
LEMMA AppendType == ASSUME NEW S, NEW s \in Seq(S), NEW x \in S
                    PROVE  Append(s, x) \in Seq(S)
OBVIOUS

LEMMA TailType == ASSUME NEW S, NEW s \in Seq(S), s # <<>>
                  PROVE  Tail(s) \in Seq(S) /\ Head(s) \in S /\ Len(s) > 0
OBVIOUS

LEMMA ObjectType == ASSUME NEW S, NEW s \in Seq(S) \ {<<>>}
  PROVE /\ Head(s) \in S /\ s[1] \in S /\ s[Len(s)] \in S
        /\ Tail(s) \in Seq(S)
        /\ Len(s) > 1 => Tail(s) # <<>>
<1>1. s \in Seq(S) /\ s # <<>> /\ Len(s) \in Nat /\ Len(s) >= 1
  OBVIOUS
<1>2. Head(s) \in S /\ Tail(s) \in Seq(S) /\ s[1] \in S /\ s[Len(s)] \in S
  BY <1>1
<1>3. Len(s) > 1 => Tail(s) # <<>>
  <2> SUFFICES ASSUME Tail(s) = <<>>, Len(s) > 1 PROVE FALSE
    OBVIOUS
  <2>1. Len(Tail(s)) = Len(s) - 1
    BY <1>1
  <2>2. Len(Tail(s)) = 0
    OBVIOUS
  <2> QED BY <1>1, <2>1, <2>2
<1> QED BY <1>2, <1>3

(* Constants.                                                              *)
LEMMA ConstantTypes ==
  /\ Nothing \in Items /\ NoObject \in SpecialObjects
  /\ Temp \in Slots /\ NULL \in Slots /\ ImgBufs \subseteq Slots
  /\ 0 \in Indices /\ 1 \in 1 .. MaxInput
BY SizesAssumption DEF Nothing, Items, NoObject, SpecialObjects, Slots, AnyBuf, ImgBufs,
   Temp, NULL, Indices

LEMMA InitTypes == Init => Types
<1> SUFFICES ASSUME Init PROVE Types
  OBVIOUS
<1> USE ConstantTypes DEF Init, QueueInit
<1>1. ImgQueueTypeOK
  BY DEF ImgQueueTypeOK, ImgPlaces
<1>2. ResQueueTypeOK
  BY DEF ResQueueTypeOK, ResPlaces
<1>3. MgrTypeOK
  <2>1. storedNum \in 0 .. MaxInput /\ numReceived \in Nat
    BY SizesAssumption
  <2>2. received \in SpecialObjects /\ stored \in [Indices -> Slots]
    OBVIOUS
  <2> QED BY <2>1, <2>2 DEF MgrTypeOK
<1>4. LinkTypeOK
  BY DEF LinkTypeOK, Rounds
<1>5. ImgTypeOK
  BY DEF ImgTypeOK
<1>6. InfTypeOK /\ SendTypeOK
  BY DEF InfTypeOK, SendTypeOK
<1>7. MemTypeOK
  BY DEF MemTypeOK, NoResult
<1>8. HostTypeOK /\ HistoryTypeOK
  <2>1. asked \in Seq(Nat) /\ delivered \in Seq(Nat \X Nat) /\ executed \in Seq(Nat)
    OBVIOUS
  <2>2. host \in HostStates /\ count \in Counters
    BY DEF HostStates, Counters
  <2> QED BY <2>1, <2>2 DEF HostTypeOK, HistoryTypeOK
<1>9. Shapes
  BY DEF Shapes
<1> QED BY <1>1, <1>2, <1>3, <1>4, <1>5, <1>6, <1>7, <1>8, <1>9 DEF Types, TypeOK, QueueTypeOK

(* What an action leaves alone keeps its type.                             *)
LEMMA Frames == ASSUME Types PROVE
  /\ UNCHANGED <<imgQueues, owner>> => ImgQueueTypeOK'
  /\ UNCHANGED <<resQueues, resOwner>> => ResQueueTypeOK'
  /\ UNCHANGED <<mgrVars, allocated>> => MgrTypeOK'
  /\ UNCHANGED linkVars => LinkTypeOK'
  /\ UNCHANGED imgVars => ImgTypeOK'
  /\ UNCHANGED infVars => InfTypeOK'
  /\ UNCHANGED sendVars => SendTypeOK'
  /\ UNCHANGED memVars => MemTypeOK'
  /\ UNCHANGED hostVars => HostTypeOK'
  /\ UNCHANGED history => HistoryTypeOK'
<1> USE DEF Types, TypeOK, QueueTypeOK
<1>1. UNCHANGED <<imgQueues, owner>> => ImgQueueTypeOK'
  BY DEF imgQueues, ImgQueueTypeOK
<1>2. UNCHANGED <<resQueues, resOwner>> => ResQueueTypeOK'
  BY DEF resQueues, ResQueueTypeOK
<1>3. UNCHANGED <<mgrVars, allocated>> => MgrTypeOK'
  BY DEF mgrVars, MgrTypeOK
<1>4. UNCHANGED linkVars => LinkTypeOK'
  BY DEF linkVars, epVars, mutexVars, LinkTypeOK
<1>5. UNCHANGED imgVars => ImgTypeOK'
  BY DEF imgVars, ImgTypeOK
<1>6. UNCHANGED infVars => InfTypeOK'
  BY DEF infVars, InfTypeOK
<1>7. UNCHANGED sendVars => SendTypeOK'
  BY DEF sendVars, SendTypeOK
<1>8. UNCHANGED memVars => MemTypeOK'
  BY DEF memVars, MemTypeOK
<1>9. UNCHANGED hostVars => HostTypeOK'
  BY DEF hostVars, HostTypeOK
<1>10. UNCHANGED history => HistoryTypeOK'
  BY DEF history, HistoryTypeOK
<1> QED BY <1>1, <1>2, <1>3, <1>4, <1>5, <1>6, <1>7, <1>8, <1>9, <1>10

(* The groups of types together.                                           *)
LEMMA Together == ASSUME ImgQueueTypeOK', ResQueueTypeOK', MgrTypeOK', LinkTypeOK',
                         ImgTypeOK', InfTypeOK', SendTypeOK', MemTypeOK', HostTypeOK',
                         HistoryTypeOK', Shapes'
                  PROVE  Types'
BY DEF Types, TypeOK, QueueTypeOK

LEMMA ResetEndpointType == ASSUME LinkTypeOK, NEW S, NEW up \in BOOLEAN,
                                  reset_endpoint(S, up)
  PROVE /\ ep' \in [Endpoints -> {"na", "idle", "xfer", "done", "term"}]
        /\ evt' \in [Endpoints -> BOOLEAN]
        /\ fifo' \in {"empty", "dma", "data"} /\ armed' \in BOOLEAN
BY DEF LinkTypeOK, reset_endpoint, Stopped, Available

LEMMA TransferType == ASSUME LinkTypeOK, NEW e \in Endpoints,
                             transfer_done(e) \/ transfer_wakes(e)
  PROVE /\ ep' \in [Endpoints -> {"na", "idle", "xfer", "done", "term"}]
        /\ evt' \in [Endpoints -> BOOLEAN]
BY DEF LinkTypeOK, transfer_done, transfer_wakes, Available

LEMMA RoundType == ASSUME LinkTypeOK, late \in BOOLEAN PROVE
  /\ AfterRound \in Rounds \cup {"over"}
  /\ send_wakes => /\ ep' \in [Endpoints -> {"na", "idle", "xfer", "done", "term"}]
                   /\ evt' \in [Endpoints -> BOOLEAN]
  /\ \A b : send_begins(b) => /\ ep' \in [Endpoints -> {"na", "idle", "xfer", "done", "term"}]
                              /\ fifo' \in {"empty", "dma", "data"}
                              /\ round' \in Rounds /\ tx' \in {tx, b}
                              /\ late' \in BOOLEAN
<1>1. AfterRound \in Rounds \cup {"over"}
  BY DEF AfterRound, Rounds
<1>2. ASSUME send_wakes
      PROVE  /\ ep' \in [Endpoints -> {"na", "idle", "xfer", "done", "term"}]
             /\ evt' \in [Endpoints -> BOOLEAN]
  <2>1. CASE AfterRound = "fifo"
    BY <1>2, <2>1 DEF send_wakes, LinkTypeOK
  <2>2. CASE AfterRound # "fifo"
    BY <1>2, <2>2, TransferType DEF send_wakes, Endpoints
  <2> QED BY <2>1, <2>2
<1>3. ASSUME NEW b, send_begins(b)
      PROVE  /\ ep' \in [Endpoints -> {"na", "idle", "xfer", "done", "term"}]
             /\ fifo' \in {"empty", "dma", "data"}
             /\ round' \in Rounds /\ tx' \in {tx, b}
             /\ late' \in BOOLEAN
  <2>1. round' \in Rounds /\ tx' \in {tx, b} /\ fifo' \in {"empty", "dma", "data"}
    BY <1>3 DEF send_begins, LinkTypeOK, Rounds
  <2>2. ep' \in [Endpoints -> {"na", "idle", "xfer", "done", "term"}] /\ late' \in BOOLEAN
    BY <1>3 DEF send_begins, LinkTypeOK
  <2> QED BY <2>1, <2>2
<1> QED BY <1>1, <1>2, <1>3

LEMMA CountType == ASSUME NEW c \in Counters PROVE
  /\ c.req \in Nat
  /\ [c EXCEPT !.req = @ + 1] \in Counters
  /\ [c EXCEPT !.cmd = @ + 1] \in Counters
  /\ [c EXCEPT !.reset = @ + 1] \in Counters
  /\ [c EXCEPT !.drop = @ + 1] \in Counters
  /\ [c EXCEPT !.link = @ + 1] \in Counters
BY DEF Counters

LEMMA GiveUpType == ASSUME NEW h \in HostStates PROVE
  [h EXCEPT !.open = FALSE] \in HostStates
BY DEF HostStates

(* The interrupts keep the types.                                          *)
LEMMA LinkTypes == Types /\ LinkNext => Types'
<1> SUFFICES ASSUME Types, LinkNext PROVE Types'
  OBVIOUS
<1> USE Frames DEF queueVars, epVars, mutexVars
<1>1. CASE Configured
  <2>1. LinkTypeOK'
    BY <1>1 DEF Configured, LinkTypeOK, Types, TypeOK
  <2>2. Shapes'
    BY <1>1 DEF Configured, Shapes, Types, imgVars, infVars, sendVars
  <2> QED
    BY <1>1, <2>1, <2>2, Together DEF Configured, imgQueues, resQueues, mgrVars
<1>2. CASE Disconnected \/ VbusOff
  <2>1. LinkTypeOK'
    <3>1. CASE Disconnected
      BY <3>1, ResetEndpointType DEF Disconnected, LinkLost, LinkTypeOK, Types, TypeOK
    <3>2. CASE VbusOff
      BY <3>2 DEF VbusOff, LinkLost, LinkTypeOK, Types, TypeOK
    <3> QED BY <1>2, <3>1, <3>2
  <2>2. LinkLost
    BY <1>2 DEF Disconnected, VbusOff
  <2>3. Shapes'
    BY <2>2 DEF LinkLost, Shapes, Types, imgVars, infVars, sendVars
  <2>4. HostTypeOK'
    BY <2>2, CountType, GiveUpType DEF LinkLost, HostTypeOK, Types, TypeOK
  <2> QED
    BY <2>1, <2>2, <2>3, <2>4, Together DEF LinkLost, imgQueues, resQueues, mgrVars
<1>3. CASE ErrandResetDevice
  <2>1. LinkTypeOK'
    BY <1>3 DEF ErrandResetDevice, LinkTypeOK, Types, TypeOK
  <2>2. Shapes'
    BY <1>3 DEF ErrandResetDevice, Shapes, Types, imgVars, infVars, sendVars
  <2>3. HostTypeOK'
    BY <1>3, GiveUpType DEF ErrandResetDevice, HostTypeOK, Types, TypeOK
  <2> QED
    BY <1>3, <2>1, <2>2, <2>3, Together DEF ErrandResetDevice, imgQueues, resQueues, mgrVars
<1> QED BY <1>1, <1>2, <1>3 DEF LinkNext

(* A transfer that lands keeps the types of memory and endpoints.          *)
LEMMA LandTypes ==
  ASSUME Types, NEW item \in Items, Land(item),
         UNCHANGED <<answer, dma, tx, sent, link, fifo, connFlag, errand, doReset, droppable,
                     mutexVars>>
  PROVE  MemTypeOK' /\ LinkTypeOK'
<1>1. LinkTypeOK'
  BY TransferType DEF Land, LinkTypeOK, mutexVars, Endpoints, Types, TypeOK
<1>2. dma.buf \in Slots /\ content[dma.buf] \in [head : Items, rest : Items]
  BY DEF Types, TypeOK, MemTypeOK
<1>3. /\ [content[dma.buf] EXCEPT !.head = item] \in [head : Items, rest : Items]
      /\ [content[dma.buf] EXCEPT !.rest = item] \in [head : Items, rest : Items]
  BY <1>2
<1>4. content' \in [Slots -> [head : Items, rest : Items]]
  BY <1>2, <1>3 DEF Land, Types, TypeOK, MemTypeOK
<1> QED BY <1>1, <1>4 DEF Types, TypeOK, MemTypeOK

(* The host and its control requests keep the types.                       *)
LEMMA HostTypes == Types /\ HostNext => Types'
<1> SUFFICES ASSUME Types, HostNext PROVE Types'
  OBVIOUS
<1> USE Frames DEF queueVars, epVars, mutexVars
<1>1. CASE ControlConfigure
  <2>1. ImgQueueTypeOK'
    <3>1. \A i \in 1 .. NumImg : <<i>> \in Seq(Slots) \ {<<>>}
      BY DEF Slots, AnyBuf, ImgBufs
    <3>2. imgFree' \in Seq(Seq(Slots) \ {<<>>})
      BY <1>1, <3>1, SizesAssumption DEF ControlConfigure, fill_free_queues
    <3> QED BY <1>1, <3>2 DEF ControlConfigure, fill_free_queues, ImgQueueTypeOK,
               ImgPlaces, Types, TypeOK, QueueTypeOK
  <2>2. ResQueueTypeOK'
    <3>1. resFree' \in Seq(ResBufs)
      BY <1>1, SizesAssumption DEF ControlConfigure, fill_free_queues, ResBufs
    <3> QED BY <1>1, <3>1 DEF ControlConfigure, fill_free_queues, ResQueueTypeOK,
               ResPlaces, Types, TypeOK, QueueTypeOK
  <2>3. MgrTypeOK'
    BY <1>1 DEF ControlConfigure, fill_free_queues, mgrVars, MgrTypeOK, Types, TypeOK,
       QueueTypeOK
  <2>4. Shapes'
    BY <1>1 DEF ControlConfigure, Shapes, Types, mgrVars, linkVars, imgVars, infVars, sendVars
  <2> QED BY <1>1, <2>1, <2>2, <2>3, <2>4, Together DEF ControlConfigure
<1>2. CASE ControlReset
  <2>1. LinkTypeOK'
    BY <1>2, ResetEndpointType DEF ControlReset, LinkTypeOK, Types, TypeOK
  <2>2. HostTypeOK'
    BY <1>2, CountType, GiveUpType DEF ControlReset, HostTypeOK, Types, TypeOK
  <2>3. Shapes'
    BY <1>2 DEF ControlReset, Shapes, Types, imgVars, infVars, sendVars, mgrVars
  <2> QED BY <1>2, <2>1, <2>2, <2>3, Together DEF ControlReset, imgQueues, resQueues, mgrVars
<1>3. CASE ControlDroppable
  <2>1. LinkTypeOK'
    BY <1>3 DEF ControlDroppable, LinkTypeOK, Types, TypeOK
  <2>2. HostTypeOK'
    BY <1>3, CountType DEF ControlDroppable, HostTypeOK, Types, TypeOK
  <2>3. Shapes'
    BY <1>3 DEF ControlDroppable, Shapes, Types, imgVars, infVars, sendVars, mgrVars
  <2> QED BY <1>3, <2>1, <2>2, <2>3, Together DEF ControlDroppable, imgQueues, resQueues, mgrVars
<1>4. CASE HostBegins
  <2>1. PICK t \in Totals, c \in Crops :
          /\ host' = [req |-> count.req + 1, total |-> t, index |-> 0, chunk |-> 0,
                      crops |-> c, open |-> TRUE]
          /\ asked' = Append(asked, c)
    BY <1>4 DEF HostBegins
  <2>2. t \in 1 .. MaxInput /\ c \in Nat
    BY HostAssumption
  <2>3. count' \in Counters /\ count.req + 1 \in Nat
    <3>1. count \in Counters /\ count' = [count EXCEPT !.req = @ + 1]
      BY <1>4 DEF HostBegins, HostTypeOK, Types, TypeOK
    <3>2. count.req \in Nat /\ [count EXCEPT !.req = @ + 1] \in Counters
      BY <3>1, CountType
    <3>3. count.req + 1 \in Nat
      BY <3>2
    <3> QED BY <3>1, <3>2, <3>3
  <2>4. host' \in HostStates
    BY <2>1, <2>2, <2>3, ConstantTypes DEF HostStates
  <2>5. HostTypeOK'
    BY <1>4, <2>1, <2>2, <2>3, <2>4 DEF HostBegins, HostTypeOK, Types, TypeOK
  <2>6. Shapes'
    BY <1>4 DEF HostBegins, Shapes, Types, linkVars, imgVars, infVars, sendVars, mgrVars
  <2> QED BY <1>4, <2>5, <2>6, Together DEF HostBegins, imgQueues, resQueues, mgrVars
<1>5. CASE HostSendsImage
  <2>1. \A kind \in {"inf", "big", "part"} : HostItem(kind) \in Items
    BY DEF HostItem, Items, HostTypeOK, HostStates, Types, TypeOK
  <2>2. PICK kind \in {"inf", "big", "part"} : Land(HostItem(kind))
    BY <1>5 DEF HostSendsImage
  <2>3. MemTypeOK' /\ LinkTypeOK'
    BY <1>5, <2>1, <2>2, LandTypes DEF HostSendsImage
  <2>4. HostTypeOK'
    <3>1. host \in HostStates
      BY DEF HostTypeOK, Types, TypeOK
    <3>2. host.index + 1 < host.total => host.index + 1 \in Indices
      BY <3>1, SizesAssumption DEF HostStates, Indices
    <3>3. [host EXCEPT !.chunk = @ + 1] \in HostStates
      BY <3>1 DEF HostStates
    <3>4. host.index + 1 < host.total =>
            [host EXCEPT !.chunk = 0, !.index = @ + 1] \in HostStates
      BY <3>1, <3>2 DEF HostStates
    <3>5. host' \in HostStates
      BY <1>5, <3>1, <3>3, <3>4, GiveUpType DEF HostSendsImage
    <3> QED BY <1>5, <3>5 DEF HostSendsImage, HostTypeOK, Types, TypeOK
  <2>5. Shapes'
    BY <1>5 DEF HostSendsImage, Shapes, Types, imgVars, infVars, sendVars, mgrVars
  <2>6. HistoryTypeOK'
    BY <1>5 DEF HostSendsImage, HistoryTypeOK, Types, TypeOK
  <2>7. ImgQueueTypeOK' /\ ResQueueTypeOK' /\ MgrTypeOK' /\ ImgTypeOK' /\ InfTypeOK' /\ SendTypeOK'
    BY <1>5, Frames DEF HostSendsImage, queueVars, imgQueues, resQueues, mgrVars
  <2> QED BY <2>3, <2>4, <2>5, <2>6, <2>7, Together
<1>6. CASE HostSendsCommand
  <2>1. [Nothing EXCEPT !.kind = "cmd", !.req = count.cmd + 1] \in Items
    <3>1. count.cmd + 1 \in Nat
      BY DEF HostTypeOK, Counters, Types, TypeOK
    <3> QED BY <3>1, ConstantTypes DEF Items
  <2>2. MemTypeOK' /\ LinkTypeOK'
    BY <1>6, <2>1, LandTypes DEF HostSendsCommand
  <2>3. HostTypeOK'
    BY <1>6, CountType DEF HostSendsCommand, HostTypeOK, Types, TypeOK
  <2>4. Shapes'
    BY <1>6 DEF HostSendsCommand, Shapes, Types, imgVars, infVars, sendVars, mgrVars
  <2> QED BY <1>6, <2>2, <2>3, <2>4, Together DEF HostSendsCommand, imgQueues, resQueues, mgrVars
<1>7. CASE HostReads
  <2>1. LinkTypeOK'
    <3>1. CASE transfer_done("in")
      BY <1>7, <3>1, TransferType DEF HostReads, LinkTypeOK, Endpoints, Types, TypeOK
    <3>2. CASE ~transfer_done("in")
      BY <1>7, <3>2 DEF HostReads, LinkTypeOK, Types, TypeOK
    <3> QED BY <3>1, <3>2
  <2>2. HostTypeOK'
    <3>1. sent \in Nat \X Nat
      BY DEF Types, TypeOK, MemTypeOK
    <3>2. delivered' \in Seq(Nat \X Nat)
      BY <1>7, <3>1, AppendType DEF HostReads, HostTypeOK, Types, TypeOK
    <3> QED BY <1>7, <3>2 DEF HostReads, HostTypeOK, Types, TypeOK
  <2>3. Shapes'
    BY <1>7 DEF HostReads, Shapes, Types, imgVars, infVars, sendVars, mgrVars
  <2> QED BY <1>7, <2>1, <2>2, <2>3, Together DEF HostReads, imgQueues, resQueues, mgrVars
<1>8. CASE SendDma
  <2>1. LinkTypeOK'
    <3>1. CASE transfer_done("in")
      BY <1>8, <3>1, TransferType DEF SendDma, LinkTypeOK, Endpoints, Types, TypeOK
    <3>2. CASE ~transfer_done("in")
      BY <1>8, <3>2 DEF SendDma, LinkTypeOK, Types, TypeOK
    <3> QED BY <3>1, <3>2
  <2>2. Shapes'
    BY <1>8 DEF SendDma, Shapes, Types, imgVars, infVars, sendVars, mgrVars
  <2>3. MemTypeOK'
    <3>1. tx \in ResBufs \cup {0} /\ NoResult \in Nat \X Nat
      BY DEF NoResult, MemTypeOK, Types, TypeOK
    <3> QED BY <1>8, <3>1 DEF SendDma, MemTypeOK, Types, TypeOK
  <2> QED BY <1>8, <2>1, <2>2, <2>3, Together DEF SendDma, imgQueues, resQueues, mgrVars
<1> QED BY <1>1, <1>2, <1>3, <1>4, <1>5, <1>6, <1>7, <1>8 DEF HostNext

(* Moving a buffer keeps the type of the history of owners.                *)
LEMMA MoveType ==
  /\ \A S, p : ImgQueueTypeOK /\ p \in ImgPlaces /\ MoveImg(S, p) =>
       owner' \in [ImgBufs -> ImgPlaces]
  /\ \A b, p : ResQueueTypeOK /\ p \in ResPlaces /\ MoveRes(b, p) =>
       resOwner' \in [ResBufs -> ResPlaces]
BY DEF ImgQueueTypeOK, ResQueueTypeOK, MoveImg, MoveRes

(* Putting a buffer back keeps the type of the image queues.               *)
LEMMA PutFreeType ==
  ASSUME ImgQueueTypeOK, NEW b \in Slots, image_put_free_buffer(b), UNCHANGED <<imgData, tempQ>>
  PROVE  ImgQueueTypeOK'
<1>1. <<b>> \in Seq(Slots) \ {<<>>}
  OBVIOUS
<1>2. imgFree' \in Seq(Seq(Slots) \ {<<>>})
  BY <1>1, AppendType DEF image_put_free_buffer, ImgQueueTypeOK
<1>3. owner' \in [ImgBufs -> ImgPlaces]
  BY MoveType DEF image_put_free_buffer, ImgPlaces
<1> QED BY <1>2, <1>3 DEF ImgQueueTypeOK

(* The steps of the image thread that take or return no buffer.            *)
LEMMA ImgLocalTypes ==
  ASSUME Types,
         \/ ImgWaitConnection \/ ImgGet \/ ImgGrabFails \/ ImgRetry
         \/ ImgReceive \/ ImgMark \/ ImgArm
         \/ ImgCommand \/ ImgCommandBegins \/ ImgCommandDone \/ ImgCommandTimeout \/ ImgCleaned
  PROVE  Types'
<1> USE Frames DEF queueVars, epVars, mutexVars, imgElse
<1>1. CASE ImgWaitConnection
  <2>1. LinkTypeOK' /\ ImgTypeOK'
    BY <1>1 DEF ImgWaitConnection, LinkTypeOK, ImgTypeOK, Types, TypeOK
  <2>2. Shapes'
    BY <1>1 DEF ImgWaitConnection, Shapes, Types, infVars, sendVars
  <2> QED BY <1>1, <2>1, <2>2, Together DEF ImgWaitConnection, imgQueues, resQueues, mgrVars
<1>2. CASE ImgGet
  <2>1. ImgTypeOK'
    BY <1>2, ConstantTypes DEF ImgGet, ImgTypeOK, Types, TypeOK
  <2>2. Shapes'
    BY <1>2 DEF ImgGet, Shapes, Types, linkVars, infVars, sendVars
  <2> QED BY <1>2, <2>1, <2>2, Together DEF ImgGet, imgQueues, resQueues, mgrVars
<1>3. CASE ImgGrabFails
  <2>1. ImgTypeOK'
    BY <1>3 DEF ImgGrabFails, ImgTypeOK, Types, TypeOK
  <2>2. Shapes'
    BY <1>3 DEF ImgGrabFails, Shapes, Types, linkVars, infVars, sendVars
  <2> QED BY <1>3, <2>1, <2>2, Together DEF ImgGrabFails, imgQueues, resQueues, mgrVars
<1>4. CASE ImgRetry
  <2>1. ImgTypeOK' /\ HistoryTypeOK'
    BY <1>4 DEF ImgRetry, Received, ImgTypeOK, HistoryTypeOK, Types, TypeOK
  <2>2. Shapes'
    BY <1>4 DEF ImgRetry, Received, Shapes, Types, linkVars, infVars, sendVars
  <2> QED BY <1>4, <2>1, <2>2, Together DEF ImgRetry, imgQueues, resQueues, mgrVars
<1>5. CASE ImgReceive
  <2>1. ImgTypeOK'
    BY <1>5 DEF ImgReceive, ImgTypeOK, Types, TypeOK
  <2>2. Shapes'
    BY <1>5 DEF ImgReceive, Shapes, Types, linkVars, infVars, sendVars
  <2> QED BY <1>5, <2>1, <2>2, Together DEF ImgReceive, imgQueues, resQueues, mgrVars
<1>6. CASE ImgCommand
  <2>1. ImgTypeOK' /\ LinkTypeOK'
    BY <1>6 DEF ImgCommand, Rounds, ImgTypeOK, LinkTypeOK, Types, TypeOK
  <2>2. HistoryTypeOK'
    <3>1. content[buf].head.req \in Nat
      BY DEF Types, TypeOK, ImgTypeOK, MemTypeOK, Items
    <3> QED BY <1>6, <3>1, AppendType DEF ImgCommand, HistoryTypeOK, Types, TypeOK
  <2>3. Shapes'
    BY <1>6 DEF ImgCommand, Shapes, Types, infVars, sendVars
  <2> QED BY <1>6, <2>1, <2>2, <2>3, Together DEF ImgCommand, imgQueues, resQueues, mgrVars
<1>7. CASE ImgCommandDone
  <2>1. ImgTypeOK'
    BY <1>7 DEF ImgCommandDone, ImgTypeOK, Types, TypeOK
  <2>2. LinkTypeOK'
    BY <1>7, RoundType DEF ImgCommandDone, LinkTypeOK, HistoryTypeOK, Types, TypeOK
  <2>3. Shapes'
    BY <1>7 DEF ImgCommandDone, Shapes, Types, infVars, sendVars
  <2> QED BY <1>7, <2>1, <2>2, <2>3, Together DEF ImgCommandDone, imgQueues, resQueues, mgrVars
<1>8. CASE ImgCleaned
  <2>1. ImgTypeOK'
    BY <1>8 DEF ImgCleaned, ImgTypeOK, Types, TypeOK
  <2>2. LinkTypeOK'
    BY <1>8, ResetEndpointType DEF ImgCleaned, LinkTypeOK, Types, TypeOK
  <2>3. Shapes'
    BY <1>8 DEF ImgCleaned, Shapes, Types, infVars, sendVars, ImgTypeOK, TypeOK
  <2> QED BY <1>8, <2>1, <2>2, <2>3, Together DEF ImgCleaned, imgQueues, resQueues, mgrVars
<1>9. CASE ImgCommandTimeout
  <2>1. ImgTypeOK' /\ LinkTypeOK'
    BY <1>9 DEF ImgCommandTimeout, mutexVars, Available, ImgTypeOK, LinkTypeOK, Types, TypeOK
  <2>2. Shapes'
    BY <1>9 DEF ImgCommandTimeout, Shapes, Types, infVars, sendVars
  <2> QED BY <1>9, <2>1, <2>2, Together DEF ImgCommandTimeout, imgQueues, resQueues, mgrVars
<1>10. CASE ImgMark
  <2>1. ImgTypeOK'
    BY <1>10 DEF ImgMark, ImgTypeOK, Types, TypeOK
  <2>2. LinkTypeOK'
    <3>1. LinkTypeOK
      BY DEF Types, TypeOK
    <3>2. ep' \in [Endpoints -> {"na", "idle", "xfer", "done", "term"}]
      BY <1>10, <3>1 DEF ImgMark, LinkTypeOK
    <3> QED BY <1>10, <3>1, <3>2 DEF ImgMark, mutexVars, LinkTypeOK
  <2>3. Shapes'
    BY <1>10 DEF ImgMark, Shapes, Types, infVars, sendVars
  <2> QED BY <1>10, <2>1, <2>2, <2>3, Together DEF ImgMark, imgQueues, resQueues, mgrVars
<1>11. CASE ImgArm
  <2>1. ImgTypeOK' /\ LinkTypeOK'
    BY <1>11 DEF ImgArm, ImgTypeOK, LinkTypeOK, Types, TypeOK
  <2>2. MemTypeOK' /\ HistoryTypeOK'
    BY <1>11 DEF ImgArm, MemTypeOK, HistoryTypeOK, ImgTypeOK, LinkTypeOK, Types, TypeOK
  <2>3. Shapes'
    BY <1>11 DEF ImgArm, Shapes, Types, infVars, sendVars
  <2> QED BY <1>11, <2>1, <2>2, <2>3, Together DEF ImgArm, imgQueues, resQueues, mgrVars
<1>12. CASE ImgCommandBegins
  <2>1. LinkTypeOK' /\ tx' \in {tx, 0} /\ late' \in BOOLEAN
    <3>1. late \in BOOLEAN
      BY DEF HistoryTypeOK, Types, TypeOK
    <3> QED BY <1>12, <3>1, RoundType DEF ImgCommandBegins, LinkTypeOK, Types, TypeOK
  <2>2. MemTypeOK' /\ HistoryTypeOK'
    BY <1>12, <2>1 DEF ImgCommandBegins, MemTypeOK, HistoryTypeOK, Types, TypeOK
  <2>3. Shapes'
    BY <1>12 DEF ImgCommandBegins, Shapes, Types, imgVars, infVars, sendVars
  <2> QED BY <1>12, <2>1, <2>2, <2>3, Together DEF ImgCommandBegins, imgQueues, resQueues, mgrVars
<1> QED BY <1>1, <1>2, <1>3, <1>4, <1>5, <1>6, <1>7, <1>8, <1>9, <1>10, <1>11, <1>12

(* An inference the host begins has an image: image_enqueue refuses none.  *)
LEMMA HasImages == ASSUME Types PROVE hdr.total # 0
BY SizesAssumption DEF Types, TypeOK, ImgTypeOK, Items

(* Parsing a header or a later part keeps the types.                       *)
LEMMA ParseTypes ==
  ASSUME Types, NEW n \in Nat, Parse(n), UNCHANGED <<imgQueues, buf, extra>>
  PROVE  ImgTypeOK' /\ ImgQueueTypeOK' /\ imgPc' # "unbundle"
<1> USE DEF Types, TypeOK, QueueTypeOK
<1>1. ASSUME NEW S, MoveImg(S, "lost") PROVE owner' \in [ImgBufs -> ImgPlaces]
  BY <1>1, MoveType DEF ImgPlaces
<1>2. ImgChunks \in Nat
  BY HostAssumption
<1>3. content[buf].head \in Items
  BY DEF ImgTypeOK, MemTypeOK
<1>4. CASE recvLen = 0
  <2>1. ParseHeader(n)
    BY <1>4 DEF Parse
  <2>2. owner' = owner \/ MoveImg({buf}, "lost")
    BY <2>1 DEF ParseHeader
  <2>3. ImgQueueTypeOK'
    BY <1>1, <2>2 DEF ImgQueueTypeOK, imgQueues
  <2>4. ImgTypeOK' /\ imgPc' # "unbundle"
    BY <1>2, <1>3, <2>1 DEF ParseHeader, NextRecv, ImgTypeOK
  <2> QED BY <2>3, <2>4
<1>5. CASE recvLen # 0
  <2>1. ParseRest(n)
    BY <1>5 DEF Parse
  <2>2. ImgQueueTypeOK'
    BY <2>1 DEF ParseRest, ImgQueueTypeOK, imgQueues
  <2>3. recvLen + n \in Nat
    BY DEF ImgTypeOK
  <2>4. ImgTypeOK' /\ imgPc' # "unbundle"
    BY <2>1, <2>3 DEF ParseRest, NextRecv, ImgTypeOK
  <2> QED BY <2>2, <2>4
<1> QED BY <1>4, <1>5

(* The steps of the image thread that move buffers.                        *)
LEMMA ImgBufferTypes ==
  ASSUME Types,
         \/ ImgTakeFree \/ ImgUnbundle \/ ImgReceived \/ ImgFailed \/ ImgSwap
         \/ ImgEnqueue \/ ImgPutFree \/ ImgCleanImages \/ ImgCleanResults
  PROVE  Types'
<1> USE Frames DEF queueVars, epVars, mutexVars
<1>1. CASE ImgTakeFree
  <2>1. PICK o \in {imgFree[i] : i \in DOMAIN imgFree} \cup {imgData[i] : i \in DOMAIN imgData} :
          /\ take_free(o) \/ take_data(o)
          /\ buf' = o[1] /\ extra' = Tail(o)
          /\ imgPc' = IF Len(o) > 1 THEN "unbundle" ELSE Received(imgRet)
          /\ MoveImg(BufsOf(o), "img")
    BY <1>1 DEF ImgTakeFree
  <2>2. imgFree \in Seq(Seq(Slots) \ {<<>>}) /\ imgData \in Seq(Seq(Slots) \ {<<>>})
    BY DEF Types, TypeOK, QueueTypeOK, ImgQueueTypeOK
  <2>3. o \in Seq(Slots) \ {<<>>}
    BY <2>2
  <2>4. imgFree' \in Seq(Seq(Slots) \ {<<>>}) /\ imgData' \in Seq(Seq(Slots) \ {<<>>})
    BY <2>1, <2>2, TailType DEF take_free, take_data
  <2>5. ImgQueueTypeOK'
    BY <1>1, <2>1, <2>4, MoveType DEF ImgTakeFree, ImgQueueTypeOK, ImgPlaces, Types, TypeOK,
       QueueTypeOK
  <2>6. o[1] \in Slots /\ Tail(o) \in Seq(Slots) /\ (Len(o) > 1 => Tail(o) # <<>>)
    BY <2>3, ObjectType
  <2>7. ImgTypeOK'
    BY <1>1, <2>1, <2>6 DEF ImgTakeFree, Received, ImgTypeOK, Types, TypeOK
  <2>8. Shapes'
    BY <1>1, <2>1, <2>6 DEF ImgTakeFree, Received, Shapes, Types, linkVars, infVars, sendVars,
       mgrVars
  <2> QED BY <1>1, <2>5, <2>7, <2>8, Together DEF ImgTakeFree
<1>2. CASE ImgUnbundle
  <2>1. extra \in Seq(Slots) \ {<<>>}
    BY <1>2 DEF ImgUnbundle, Types, TypeOK, Shapes, ImgTypeOK
  <2>2. ImgQueueTypeOK'
    BY <1>2, <2>1, ObjectType, PutFreeType DEF ImgUnbundle, Types, TypeOK, QueueTypeOK
  <2>3. ImgTypeOK' /\ (imgPc' = "unbundle" => extra' # <<>>)
    BY <1>2, <2>1, ObjectType DEF ImgUnbundle, Received, ImgTypeOK, Types, TypeOK
  <2>4. Shapes'
    BY <1>2, <2>3 DEF ImgUnbundle, Shapes, Types, linkVars, infVars, sendVars, mgrVars
  <2> QED BY <1>2, <2>2, <2>3, <2>4, Together DEF ImgUnbundle
<1>3. CASE ImgReceived
  <2>1. ImgTypeOK' /\ ImgQueueTypeOK' /\ imgPc' # "unbundle"
    <3>1. CASE ep["out"] = "done"
      BY <1>3, <3>1, ParseTypes DEF ImgReceived
    <3>2. CASE ep["out"] # "done"
      BY <1>3, <3>2 DEF ImgReceived, ImgTypeOK, ImgQueueTypeOK, imgQueues, Types, TypeOK,
         QueueTypeOK
    <3> QED BY <3>1, <3>2
  <2>2. LinkTypeOK'
    BY <1>3, TransferType DEF ImgReceived, Endpoints, LinkTypeOK, Types, TypeOK
  <2>3. Shapes'
    BY <1>3, <2>1 DEF ImgReceived, Shapes, Types, infVars, sendVars, mgrVars
  <2> QED BY <1>3, <2>1, <2>2, <2>3, Together DEF ImgReceived
<1>4. CASE ImgFailed
  <2>1. ImgTypeOK' /\ ImgQueueTypeOK' /\ imgPc' # "unbundle"
    <3>1. CASE Parse(0)
      BY <1>4, <3>1, ParseTypes DEF ImgFailed
    <3>2. CASE ~Parse(0)
      <4>1. owner' \in [ImgBufs -> ImgPlaces]
        BY <1>4, <3>2, MoveType DEF ImgFailed, ImgPlaces, ImgQueueTypeOK, Types, TypeOK, QueueTypeOK
      <4> QED BY <1>4, <3>2, <4>1 DEF ImgFailed, ImgTypeOK, ImgQueueTypeOK, imgQueues, Types,
                 TypeOK, QueueTypeOK
    <3> QED BY <3>1, <3>2
  <2>2. LinkTypeOK'
    BY <1>4 DEF ImgFailed, LinkTypeOK, Types, TypeOK
  <2>3. Shapes'
    BY <1>4, <2>1 DEF ImgFailed, Shapes, Types, infVars, sendVars, mgrVars
  <2> QED BY <1>4, <2>1, <2>2, <2>3, Together DEF ImgFailed
<1>5. CASE ImgSwap
  <2>1. ImgTypeOK' /\ imgPc' # "unbundle"
    BY <1>5 DEF ImgSwap, NextRecv, ImgTypeOK, Types, TypeOK
  <2>2. ImgQueueTypeOK'
    <3>1. owner' \in [ImgBufs -> ImgPlaces]
      BY <1>5, MoveType DEF ImgSwap, ImgPlaces, ImgQueueTypeOK, Types, TypeOK, QueueTypeOK
    <3> QED BY <1>5, <3>1 DEF ImgSwap, ImgQueueTypeOK, imgQueues, Types, TypeOK, QueueTypeOK
  <2>3. MemTypeOK'
    BY <1>5, ConstantTypes DEF ImgSwap, MemTypeOK, Types, TypeOK
  <2>4. Shapes'
    BY <1>5, <2>1 DEF ImgSwap, Shapes, Types, linkVars, infVars, sendVars, mgrVars
  <2> QED BY <1>5, <2>1, <2>2, <2>3, <2>4, Together DEF ImgSwap
<1>6. CASE ImgEnqueue
  <2>1. [total |-> hdr.total, index |-> IF hdr.total = 1 THEN 0 ELSE hdr.index, buf |-> buf]
          \in SpecialObjects
    BY ConstantTypes DEF SpecialObjects, Items, ImgTypeOK, Types, TypeOK
  <2>2. ImgQueueTypeOK'
    <3>1. tempQ' \in Seq(SpecialObjects)
      BY <1>6, <2>1, HasImages, AppendType DEF ImgEnqueue, image_enqueue, ImgQueueTypeOK, Types, TypeOK,
         QueueTypeOK
    <3>2. owner' \in [ImgBufs -> ImgPlaces]
      BY <1>6, MoveType DEF ImgEnqueue, image_enqueue, ImgPlaces, Types, TypeOK, QueueTypeOK
    <3> QED BY <1>6, <3>1, <3>2 DEF ImgEnqueue, ImgQueueTypeOK, Types, TypeOK, QueueTypeOK
  <2>3. ImgTypeOK'
    BY <1>6 DEF ImgEnqueue, ImgTypeOK, Types, TypeOK
  <2>4. Shapes'
    BY <1>6 DEF ImgEnqueue, Shapes, Types, linkVars, infVars, sendVars, mgrVars
  <2> QED BY <1>6, <2>2, <2>3, <2>4, Together DEF ImgEnqueue
<1>7. CASE ImgPutFree
  <2>1. ImgQueueTypeOK'
    <3>1. CASE buf = Temp
      BY <1>7, <3>1 DEF ImgPutFree, ImgQueueTypeOK, Types, TypeOK, QueueTypeOK
    <3>2. CASE buf # Temp
      BY <1>7, <3>2, PutFreeType DEF ImgPutFree, ImgTypeOK, Types, TypeOK, QueueTypeOK
    <3> QED BY <3>1, <3>2
  <2>2. ImgTypeOK'
    BY <1>7 DEF ImgPutFree, ImgTypeOK, Types, TypeOK
  <2>3. Shapes'
    BY <1>7 DEF ImgPutFree, Shapes, Types, linkVars, infVars, sendVars, mgrVars
  <2> QED BY <1>7, <2>1, <2>2, <2>3, Together DEF ImgPutFree
<1>8. CASE ImgCleanImages
  <2>1. ImgQueueTypeOK'
    <3>1. CASE clean_image_object
      <4>1. imgData # <<>> /\ imgData \in Seq(Seq(Slots) \ {<<>>})
        BY <3>1 DEF clean_image_object, ImgQueueTypeOK, Types, TypeOK, QueueTypeOK
      <4>2. Head(imgData) \in Seq(Slots) \ {<<>>} /\ Tail(imgData) \in Seq(Seq(Slots) \ {<<>>})
        BY <4>1, TailType
      <4>3. imgFree' \in Seq(Seq(Slots) \ {<<>>})
        BY <3>1, <4>2, AppendType DEF clean_image_object, ImgQueueTypeOK, Types, TypeOK, QueueTypeOK
      <4>4. owner' \in [ImgBufs -> ImgPlaces]
        BY <3>1, MoveType DEF clean_image_object, ImgPlaces, Types, TypeOK, QueueTypeOK
      <4> QED BY <1>8, <3>1, <4>2, <4>3, <4>4 DEF ImgCleanImages, clean_image_object,
                 ImgQueueTypeOK, Types, TypeOK, QueueTypeOK
    <3>2. CASE ~clean_image_object
      BY <1>8, <3>2 DEF ImgCleanImages, ImgQueueTypeOK, Types, TypeOK, QueueTypeOK
    <3> QED BY <3>1, <3>2
  <2>2. ImgTypeOK' /\ imgPc' # "unbundle"
    BY <1>8 DEF ImgCleanImages, ImgTypeOK, Types, TypeOK
  <2>3. Shapes'
    BY <1>8, <2>2 DEF ImgCleanImages, Shapes, Types, linkVars, infVars, sendVars, mgrVars
  <2> QED BY <1>8, <2>1, <2>2, <2>3, Together DEF ImgCleanImages
<1>9. CASE ImgCleanResults
  <2>1. ResQueueTypeOK'
    <3>1. resData # <<>> /\ resData \in Seq(ResBufs) /\ resFree \in Seq(ResBufs)
      BY <1>9 DEF ImgCleanResults, clean_result_object, ResQueueTypeOK, Types, TypeOK, QueueTypeOK
    <3>2. Head(resData) \in ResBufs /\ Tail(resData) \in Seq(ResBufs)
      BY <3>1, TailType
    <3>3. resFree' \in Seq(ResBufs)
      BY <1>9, <3>1, <3>2, AppendType DEF ImgCleanResults, clean_result_object
    <3>4. resOwner' \in [ResBufs -> ResPlaces]
      BY <1>9, MoveType DEF ImgCleanResults, clean_result_object, ResPlaces, ResQueueTypeOK,
         Types, TypeOK, QueueTypeOK
    <3> QED BY <1>9, <3>2, <3>3, <3>4 DEF ImgCleanResults, clean_result_object, ResQueueTypeOK
  <2>2. Shapes'
    BY <1>9 DEF ImgCleanResults, Shapes, Types, linkVars, imgVars, infVars, sendVars, mgrVars
  <2> QED BY <1>9, <2>1, <2>2, Together DEF ImgCleanResults
<1> QED BY <1>1, <1>2, <1>3, <1>4, <1>5, <1>6, <1>7, <1>8, <1>9

(* buf_mgr keeps the types.                                                *)
LEMMA MgrTypes == Types /\ BufMgrNext => Types'
<1> SUFFICES ASSUME Types, BufMgrNext PROVE Types'
  OBVIOUS
<1> USE Frames DEF BufMgrNext, queueVars, epVars, mutexVars
<1>1. ASSUME NEW r \in SpecialObjects, NEW num \in Nat, Store(r, num)
      PROVE  /\ stored' \in [Indices -> Slots] /\ numReceived' \in Nat
             /\ mgrPc' \in {"get", "enqueue"}
  BY <1>1 DEF Store, SpecialObjects, MgrTypeOK, Types, TypeOK, QueueTypeOK
<1>2. CASE MgrGet
  <2>1. tempQ # <<>> /\ tempQ \in Seq(SpecialObjects)
    BY <1>2 DEF MgrGet, Types, TypeOK, QueueTypeOK, ImgQueueTypeOK
  <2>2. Head(tempQ) \in SpecialObjects /\ Tail(tempQ) \in Seq(SpecialObjects)
    BY <2>1, TailType
  <2>3. ImgQueueTypeOK'
    BY <1>2, <2>2, MoveType DEF MgrGet, ImgQueueTypeOK, ImgPlaces, Types, TypeOK, QueueTypeOK
  <2>4. Head(tempQ).total \in 1 .. MaxInput
    BY <2>2 DEF SpecialObjects
  <2>5. numReceived + 1 \in Nat
    BY DEF MgrTypeOK, Types, TypeOK, QueueTypeOK
  <2>6. MgrTypeOK' /\ storedNum' >= 1
    BY <1>1, <1>2, <2>2, <2>4, <2>5, SizesAssumption DEF MgrGet, MgrTypeOK, Types, TypeOK, QueueTypeOK
  <2>7. Shapes'
    BY <1>2, <2>6 DEF Shapes, Types, linkVars, imgVars, infVars, sendVars
  <2> QED BY <1>2, <2>3, <2>6, <2>7, Together DEF MgrGet
<1>3. CASE MgrPutBack
  <2>1. received \in SpecialObjects /\ stored[received.index] \in Slots /\ numReceived \in Nat
    BY DEF SpecialObjects, MgrTypeOK, Types, TypeOK, QueueTypeOK
  <2>2. ImgQueueTypeOK'
    BY <1>3, <2>1, PutFreeType DEF MgrPutBack, Types, TypeOK, QueueTypeOK
  <2>3. MgrTypeOK'
    BY <1>1, <1>3, <2>1 DEF MgrPutBack, MgrTypeOK, Types, TypeOK, QueueTypeOK
  <2>4. storedNum' = storedNum /\ storedNum >= 1
    BY <1>3, <2>1 DEF MgrPutBack, Shapes, Types
  <2>5. Shapes'
    BY <1>3, <2>4 DEF Shapes, Types, linkVars, imgVars, infVars, sendVars
  <2> QED BY <1>3, <2>2, <2>3, <2>5, Together DEF MgrPutBack
<1>4. CASE MgrEnqueue
  <2> DEFINE o == [k \in 1 .. storedNum |-> stored[k - 1]]
  <2>1. storedNum \in 1 .. MaxInput /\ stored \in [Indices -> Slots]
    BY <1>4 DEF MgrEnqueue, Shapes, MgrTypeOK, Types, TypeOK, QueueTypeOK
  <2>2. \A k \in 1 .. storedNum : stored[k - 1] \in Slots
    BY <2>1, SizesAssumption DEF Indices
  <2>3. o \in Seq(Slots) \ {<<>>}
    <3>1. o \in Seq(Slots) /\ Len(o) = storedNum
      BY <2>1, <2>2
    <3>2. o # <<>>
      BY <2>1, <3>1
    <3> QED BY <3>1, <3>2
  <2>4. imgData' = Append(imgData, o) /\ MoveImg(BufsOf(o), "data")
    BY <1>4 DEF MgrEnqueue
  <2> HIDE DEF o
  <2>5. ImgQueueTypeOK'
    <3>1. imgData' \in Seq(Seq(Slots) \ {<<>>})
      BY <2>3, <2>4, AppendType DEF ImgQueueTypeOK, Types, TypeOK, QueueTypeOK
    <3>2. owner' \in [ImgBufs -> ImgPlaces]
      BY <2>4, MoveType DEF ImgPlaces, Types, TypeOK, QueueTypeOK
    <3> QED BY <1>4, <3>1, <3>2 DEF MgrEnqueue, ImgQueueTypeOK, Types, TypeOK, QueueTypeOK
  <2>6. MgrTypeOK'
    BY <1>4, ConstantTypes, SizesAssumption DEF MgrEnqueue, MgrTypeOK, Types, TypeOK, QueueTypeOK
  <2>7. Shapes'
    BY <1>4 DEF MgrEnqueue, Shapes, Types, linkVars, imgVars, infVars, sendVars
  <2> QED BY <1>4, <2>5, <2>6, <2>7, Together DEF MgrEnqueue
<1> QED BY <1>2, <1>3, <1>4 DEF MgrNext

(* The dispatcher keeps the types.                                         *)
LEMMA InfTypes == Types /\ InfNext => Types'
<1> SUFFICES ASSUME Types, InfNext PROVE Types'
  OBVIOUS
<1> USE Frames DEF queueVars, epVars, mutexVars
<1>1. CASE InfDequeue
  <2>1. imgData # <<>> /\ imgData \in Seq(Seq(Slots) \ {<<>>})
    BY <1>1 DEF InfDequeue, image_dequeue, ImgQueueTypeOK, Types, TypeOK, QueueTypeOK
  <2>2. Head(imgData) \in Seq(Slots) \ {<<>>} /\ Tail(imgData) \in Seq(Seq(Slots) \ {<<>>})
    BY <2>1, TailType
  <2>3. ImgQueueTypeOK'
    BY <1>1, <2>2, MoveType DEF InfDequeue, image_dequeue, ImgQueueTypeOK, ImgPlaces, Types,
       TypeOK, QueueTypeOK
  <2>4. InfTypeOK'
    BY <1>1, <2>2 DEF InfDequeue, InfTypeOK, Types, TypeOK
  <2>5. Shapes'
    BY <1>1, <2>2 DEF InfDequeue, Shapes, Types, linkVars, imgVars, sendVars, mgrVars
  <2> QED BY <1>1, <2>3, <2>4, <2>5, Together DEF InfDequeue
<1>2. CASE InfGetResultBuffer
  <2>1. resFree # <<>> /\ resFree \in Seq(ResBufs)
    BY <1>2 DEF InfGetResultBuffer, result_get_free_buffer, ResQueueTypeOK, Types, TypeOK, QueueTypeOK
  <2>2. Head(resFree) \in ResBufs /\ Tail(resFree) \in Seq(ResBufs)
    BY <2>1, TailType
  <2>3. ResQueueTypeOK'
    BY <1>2, <2>2, MoveType DEF InfGetResultBuffer, result_get_free_buffer, ResQueueTypeOK,
       ResPlaces, Types, TypeOK, QueueTypeOK
  <2>4. InfTypeOK' /\ resBuf' \in ResBufs
    BY <1>2, <2>2 DEF InfGetResultBuffer, InfTypeOK, Types, TypeOK
  <2>5. Shapes'
    BY <1>2, <2>4 DEF InfGetResultBuffer, Shapes, Types, linkVars, imgVars, sendVars, mgrVars
  <2> QED BY <1>2, <2>3, <2>4, <2>5, Together DEF InfGetResultBuffer
<1>3. CASE InfExecute
  <2>1. obj \in Seq(Slots) \ {<<>>} /\ resBuf \in ResBufs /\ crop \in Nat
    BY <1>3 DEF InfExecute, Shapes, InfTypeOK, Types, TypeOK
  <2>2. obj[Len(obj)] \in Slots
    BY <2>1, ObjectType
  <2>3. content[obj[Len(obj)]].head.req \in Nat
    BY <2>2 DEF Items, MemTypeOK, Types, TypeOK
  <2>4. MemTypeOK'
    BY <1>3, <2>1, <2>3 DEF InfExecute, MemTypeOK, Types, TypeOK
  <2>5. ResQueueTypeOK'
    <3>1. resData \in Seq(ResBufs) /\ Append(resData, resBuf) \in Seq(ResBufs)
      BY <2>1, AppendType DEF ResQueueTypeOK, Types, TypeOK, QueueTypeOK
    <3>2. resData' \in Seq(ResBufs)
      BY <1>3, <3>1 DEF InfExecute, result_enqueue
    <3>3. resOwner' \in [ResBufs -> ResPlaces]
      BY <1>3, MoveType DEF InfExecute, result_enqueue, ResQueueTypeOK, ResPlaces, Types,
         TypeOK, QueueTypeOK
    <3> QED BY <1>3, <3>2, <3>3 DEF InfExecute, ResQueueTypeOK, Types, TypeOK, QueueTypeOK
  <2>6. InfTypeOK'
    BY <1>3 DEF InfExecute, InfTypeOK, Types, TypeOK
  <2>7. Shapes'
    BY <1>3, <2>1 DEF InfExecute, Shapes, Types, linkVars, imgVars, sendVars, mgrVars
  <2> QED BY <1>3, <2>4, <2>5, <2>6, <2>7, Together DEF InfExecute
<1>4. CASE InfPutFree
  <2>1. obj \in Seq(Slots) \ {<<>>}
    BY <1>4 DEF InfPutFree, Shapes, InfTypeOK, Types, TypeOK
  <2>2. ImgQueueTypeOK'
    BY <1>4, <2>1, ObjectType, PutFreeType DEF InfPutFree, Types, TypeOK, QueueTypeOK
  <2>3. InfTypeOK' /\ (infPc' # "get" => obj' # <<>>) /\ infPc' # "execute"
    BY <1>4, <2>1, ObjectType DEF InfPutFree, InfTypeOK, Types, TypeOK
  <2>4. Shapes'
    BY <1>4, <2>3 DEF InfPutFree, Shapes, Types, linkVars, imgVars, sendVars, mgrVars
  <2> QED BY <1>4, <2>2, <2>3, <2>4, Together DEF InfPutFree
<1> QED BY <1>1, <1>2, <1>3, <1>4 DEF InfNext

(* The result thread keeps the types.                                      *)
LEMMA SendTypes == Types /\ SendNext => Types'
<1> SUFFICES ASSUME Types, SendNext PROVE Types'
  OBVIOUS
<1> USE Frames DEF queueVars, epVars, mutexVars
<1>1. CASE SendDequeue
  <2>1. resData # <<>> /\ resData \in Seq(ResBufs)
    BY <1>1 DEF SendDequeue, result_dequeue, ResQueueTypeOK, Types, TypeOK, QueueTypeOK
  <2>2. Head(resData) \in ResBufs /\ Tail(resData) \in Seq(ResBufs)
    BY <2>1, TailType
  <2>3. ResQueueTypeOK'
    BY <1>1, <2>2, MoveType DEF SendDequeue, result_dequeue, ResQueueTypeOK, ResPlaces, Types,
       TypeOK, QueueTypeOK
  <2>4. SendTypeOK' /\ sendBuf' \in ResBufs
    BY <1>1, <2>2 DEF SendDequeue, SendTypeOK, Types, TypeOK
  <2>5. Shapes'
    BY <1>1, <2>4 DEF SendDequeue, Shapes, Types, linkVars, imgVars, infVars, mgrVars
  <2> QED BY <1>1, <2>3, <2>4, <2>5, Together DEF SendDequeue
<1>2. CASE SendStart
  <2>1. LinkTypeOK' /\ SendTypeOK'
    BY <1>2 DEF SendStart, Rounds, LinkTypeOK, SendTypeOK, Types, TypeOK
  <2>2. Shapes'
    BY <1>2 DEF SendStart, Shapes, Types, imgVars, infVars, mgrVars
  <2> QED BY <1>2, <2>1, <2>2, Together DEF SendStart, imgQueues, resQueues, mgrVars
<1>3. CASE SendDone
  <2>1. LinkTypeOK' /\ SendTypeOK'
    BY <1>3, RoundType DEF SendDone, LinkTypeOK, SendTypeOK, HistoryTypeOK, Types, TypeOK
  <2>2. Shapes'
    BY <1>3 DEF SendDone, Shapes, Types, imgVars, infVars, mgrVars
  <2> QED BY <1>3, <2>1, <2>2, Together DEF SendDone, imgQueues, resQueues, mgrVars
<1>4. CASE SendPutFree
  <2>1. sendBuf \in ResBufs /\ resFree \in Seq(ResBufs)
    BY <1>4 DEF SendPutFree, Shapes, ResQueueTypeOK, Types, TypeOK, QueueTypeOK
  <2>2. ResQueueTypeOK'
    BY <1>4, <2>1, AppendType, MoveType DEF SendPutFree, result_put_free_buffer, ResQueueTypeOK,
       ResPlaces, Types, TypeOK, QueueTypeOK
  <2>3. SendTypeOK' /\ sendPc' = "get"
    BY <1>4 DEF SendPutFree, SendTypeOK, Types, TypeOK
  <2>4. sendMutex' = sendMutex /\ sendMutex # "send"
    BY <1>4 DEF SendPutFree, linkVars, Shapes, Types
  <2>5. Shapes'
    BY <1>4, <2>3, <2>4 DEF SendPutFree, Shapes, Types, imgVars, infVars, mgrVars
  <2> QED BY <1>4, <2>2, <2>3, <2>5, Together DEF SendPutFree
<1>5. CASE SendHangs
  <2>1. SendTypeOK'
    BY <1>5 DEF SendHangs, SendTypeOK, Types, TypeOK
  <2>2. Shapes'
    BY <1>5 DEF SendHangs, linkVars, Shapes, Types, imgVars, infVars, mgrVars
  <2> QED BY <1>5, <2>1, <2>2, Together DEF SendHangs, imgQueues, resQueues, mgrVars
<1>6. CASE SendBegins
  <2>1. sendBuf \in ResBufs
    BY <1>6 DEF SendBegins, Shapes, Types
  <2>2. LinkTypeOK' /\ tx' \in {tx, sendBuf} /\ late' \in BOOLEAN
    <3>1. late \in BOOLEAN
      BY DEF HistoryTypeOK, Types, TypeOK
    <3> QED BY <1>6, <3>1, RoundType DEF SendBegins, LinkTypeOK, Types, TypeOK
  <2>3. MemTypeOK' /\ HistoryTypeOK'
    BY <1>6, <2>1, <2>2 DEF SendBegins, MemTypeOK, HistoryTypeOK, Types, TypeOK
  <2>4. Shapes'
    BY <1>6 DEF SendBegins, Shapes, Types, imgVars, infVars, sendVars, mgrVars
  <2> QED BY <1>6, <2>2, <2>3, <2>4, Together DEF SendBegins, imgQueues, resQueues, mgrVars
<1> QED BY <1>1, <1>2, <1>3, <1>4, <1>5, <1>6 DEF SendNext

LEMMA StutterTypes == Types /\ UNCHANGED vars => Types'
<1> SUFFICES ASSUME Types, UNCHANGED vars PROVE Types'
  OBVIOUS
<1>1. Shapes'
  BY DEF vars, queueVars, linkVars, mutexVars, imgVars, infVars, sendVars, Shapes, Types
<1> QED BY <1>1, Frames, Together DEF vars, queueVars, imgQueues, resQueues, mgrVars

LEMMA StepTypes == Types /\ [Next]_vars => Types'
BY LinkTypes, HostTypes, ImgLocalTypes, ImgBufferTypes, MgrTypes, InfTypes, SendTypes,
   StutterTypes DEF Next, ImgNext

LEMMA TypesInvariant == Spec => []Types
BY InitTypes, StepTypes, PTL DEF Spec

(* Every variable keeps its type, whatever the host and the interrupts do: *)
(* in particular the objects in the queues are never empty, and whoever    *)
(* sends a result holds a result buffer.                                   *)
THEOREM TypeCorrect == Spec => []TypeOK
BY TypesInvariant, PTL DEF Types

-----------------------------------------------------------------------------
(***************************************************************************)
(* No image buffer is ever in two places (Exclusive), for every number of  *)
(* buffers and images, every schedule and every behaviour of the host.     *)
(*                                                                         *)
(* The history owner gives each buffer one place.  The invariant AllInPlace*)
(* says that whatever is in a queue, an object or a thread's hand is there *)
(* by that history, and once; a step moves the buffers of a set S from a   *)
(* place to another, so only the structures of these two places need a     *)
(* reason to be right afterwards (the lemmas on Kept).                     *)
(***************************************************************************)
(* The clean-up of the queues either waits for the link or returns the     *)
(* buffer, and before the configuration no image buffer is anywhere.       *)
Placed ==
  /\ Exclusive
  /\ ~raced /\ ~allocated => \A b \in ImgBufs : owner[b] = "unallocated"
  /\ imgPc \in {"clean_img", "clean_res"} => imgRet \in {"wait", "put"}

IInv == Types /\ Placed

(* Every buffer at place p, but for those of S, is still there.            *)
KeptBut(S, own, own2, p) == \A b \in ImgBufs \ S : own[b] = p => own2[b] = p
Kept(own, own2, p) == KeptBut({}, own, own2, p)

-----------------------------------------------------------------------------
(* What stays in place.                                                    *)

LEMMA FlatKept ==
  ASSUME NEW own, NEW own2, NEW p, NEW f, InPlace(own, p, f), Kept(own, own2, p)
  PROVE  InPlace(own2, p, f)
BY DEF InPlace, Kept, KeptBut

LEMMA ObjectsKept ==
  ASSUME NEW own, NEW own2, NEW p, NEW q, ObjectsInPlace(own, p, q), Kept(own, own2, p)
  PROVE  ObjectsInPlace(own2, p, q)
BY DEF ObjectsInPlace, Kept, KeptBut

LEMMA HeldKept ==
  ASSUME NEW own, NEW own2, NEW p, NEW b, NEW f, HeldBeside(own, p, b, f), Kept(own, own2, p)
  PROVE  HeldBeside(own2, p, b, f)
BY DEF HeldBeside, Kept, KeptBut

(* Moving the set S away from p disturbs no other place.                   *)
LEMMA MoveKeeps ==
  ASSUME NEW S, NEW p, NEW q, MoveImg(S, q), \A b \in S \cap ImgBufs : owner[b] = p
  PROVE  /\ \A r : r # p => Kept(owner, owner', r)
         /\ KeptBut(S, owner, owner', p)
         /\ \A b \in S \cap ImgBufs : owner'[b] = q
BY DEF MoveImg, Kept, KeptBut

-----------------------------------------------------------------------------
(* Queues and objects that shrink and grow.                                *)

LEMMA FlatTail ==
  ASSUME NEW own, NEW own2, NEW p, NEW f \in Seq(Slots), f # <<>>,
         InPlace(own, p, f), KeptBut({Head(f)}, own, own2, p)
  PROVE  InPlace(own2, p, Tail(f))
<1>1. /\ DOMAIN Tail(f) = 1 .. Len(f) - 1 /\ DOMAIN f = 1 .. Len(f)
      /\ \A k \in 1 .. Len(f) - 1 : Tail(f)[k] = f[k + 1]
      /\ Head(f) = f[1] /\ Len(f) \in Nat /\ Len(f) >= 1
  OBVIOUS
<1>2. SUFFICES ASSUME NEW k \in DOMAIN Tail(f), Tail(f)[k] \in ImgBufs
      PROVE  /\ own2[Tail(f)[k]] = p
             /\ \A l \in DOMAIN Tail(f) : Tail(f)[k] = Tail(f)[l] => l = k
  BY DEF InPlace
<1>3. k \in 1 .. Len(f) - 1 /\ k + 1 \in 1 .. Len(f) /\ f[k + 1] = Tail(f)[k]
  BY <1>1, <1>2
<1>4. own[f[k + 1]] = p /\ \A l \in 1 .. Len(f) : f[k + 1] = f[l] => l = k + 1
  BY <1>1, <1>2, <1>3 DEF InPlace
<1>5. f[k + 1] # Head(f)
  BY <1>1, <1>3, <1>4
<1>6. own2[f[k + 1]] = p
  BY <1>2, <1>3, <1>4, <1>5 DEF KeptBut
<1> QED BY <1>1, <1>3, <1>4, <1>6

LEMMA ObjectsTail ==
  ASSUME NEW own, NEW own2, NEW p, NEW q \in Seq(Seq(Slots)), q # <<>>,
         ObjectsInPlace(own, p, q), KeptBut(BufsOf(Head(q)), own, own2, p)
  PROVE  ObjectsInPlace(own2, p, Tail(q))
<1>1. /\ DOMAIN Tail(q) = 1 .. Len(q) - 1 /\ DOMAIN q = 1 .. Len(q)
      /\ \A i \in 1 .. Len(q) - 1 : Tail(q)[i] = q[i + 1]
      /\ Head(q) = q[1] /\ Len(q) \in Nat /\ Len(q) >= 1
  OBVIOUS
<1>2. SUFFICES ASSUME NEW i \in DOMAIN Tail(q), NEW k \in DOMAIN Tail(q)[i],
                      Tail(q)[i][k] \in ImgBufs
      PROVE  /\ own2[Tail(q)[i][k]] = p
             /\ \A j \in DOMAIN Tail(q) : \A l \in DOMAIN Tail(q)[j] :
                  Tail(q)[j][l] = Tail(q)[i][k] => j = i /\ l = k
  BY DEF ObjectsInPlace
<1>3. i \in 1 .. Len(q) - 1 /\ i + 1 \in 1 .. Len(q) /\ q[i + 1] = Tail(q)[i]
  BY <1>1, <1>2
<1>4. /\ own[q[i + 1][k]] = p
      /\ \A j \in 1 .. Len(q) : \A l \in DOMAIN q[j] :
           q[j][l] = q[i + 1][k] => j = i + 1 /\ l = k
  BY <1>1, <1>2, <1>3 DEF ObjectsInPlace
<1>5. q[i + 1][k] \notin BufsOf(Head(q))
  <2> SUFFICES ASSUME NEW l \in DOMAIN q[1], q[1][l] = q[i + 1][k] PROVE FALSE
    BY <1>1 DEF BufsOf
  <2>1. 1 \in 1 .. Len(q) /\ 1 # i + 1
    BY <1>1, <1>3
  <2> QED BY <1>4, <2>1
<1>6. own2[q[i + 1][k]] = p
  BY <1>2, <1>3, <1>4, <1>5 DEF KeptBut
<1> QED BY <1>1, <1>3, <1>4, <1>6

(* The first object of a queue has its buffers in place.                   *)
LEMMA ObjectsHead ==
  ASSUME NEW own, NEW p, NEW q \in Seq(Seq(Slots)), q # <<>>, ObjectsInPlace(own, p, q)
  PROVE  InPlace(own, p, Head(q))
<1>1. Head(q) = q[1] /\ 1 \in DOMAIN q
  OBVIOUS
<1> QED BY <1>1 DEF ObjectsInPlace, InPlace

(* The buffers of an object in place are at the place, ...                 *)
LEMMA BufsInPlace ==
  ASSUME NEW own, NEW p, NEW f, InPlace(own, p, f)
  PROVE  \A b \in BufsOf(f) \cap ImgBufs : own[b] = p
BY DEF InPlace, BufsOf

(* ... and when they move to another the object is in place there.         *)
LEMMA ObjectMoves ==
  ASSUME NEW own, NEW own2, NEW p, NEW r, NEW f, InPlace(own, p, f),
         \A b \in BufsOf(f) \cap ImgBufs : own2[b] = r
  PROVE  InPlace(own2, r, f)
BY DEF InPlace, BufsOf

LEMMA ObjectsAppend ==
  ASSUME NEW own, NEW own2, NEW p, NEW q \in Seq(Seq(Slots)), NEW o \in Seq(Slots),
         ObjectsInPlace(own, p, q), InPlace(own2, p, o), Kept(own, own2, p),
         \A b \in BufsOf(o) \cap ImgBufs : own[b] # p
  PROVE  ObjectsInPlace(own2, p, Append(q, o))
<1> DEFINE a == Append(q, o)
<1>1. /\ DOMAIN a = 1 .. Len(q) + 1 /\ DOMAIN q = 1 .. Len(q) /\ Len(q) \in Nat
      /\ \A i \in 1 .. Len(q) : a[i] = q[i]
      /\ a[Len(q) + 1] = o
  OBVIOUS
<1> HIDE DEF a
<1>2. SUFFICES ASSUME NEW i \in DOMAIN a, NEW k \in DOMAIN a[i], a[i][k] \in ImgBufs
      PROVE  /\ own2[a[i][k]] = p
             /\ \A j \in DOMAIN a : \A l \in DOMAIN a[j] : a[j][l] = a[i][k] => j = i /\ l = k
  BY DEF ObjectsInPlace, a
<1>3. CASE i \in 1 .. Len(q)
  <2>1. /\ own[a[i][k]] = p
        /\ \A j \in 1 .. Len(q) : \A l \in DOMAIN q[j] : q[j][l] = a[i][k] => j = i /\ l = k
    <3>1. a[i] = q[i] /\ i \in DOMAIN q /\ k \in DOMAIN q[i] /\ q[i][k] \in ImgBufs
      BY <1>1, <1>2, <1>3
    <3>2. /\ own[q[i][k]] = p
          /\ \A j \in DOMAIN q : \A l \in DOMAIN q[j] : q[j][l] = q[i][k] => j = i /\ l = k
      BY <3>1 DEF ObjectsInPlace
    <3> QED BY <1>1, <3>1, <3>2
  <2>2. \A l \in DOMAIN o : o[l] # a[i][k]
    BY <1>2, <2>1 DEF BufsOf
  <2>3. own2[a[i][k]] = p
    BY <1>2, <2>1 DEF Kept, KeptBut
  <2> QED BY <1>1, <2>1, <2>2, <2>3
<1>4. CASE i = Len(q) + 1
  <2>1. /\ own2[a[i][k]] = p
        /\ \A l \in DOMAIN o : o[l] = a[i][k] => l = k
    BY <1>1, <1>2, <1>4 DEF InPlace
  <2>2. own[a[i][k]] # p
    BY <1>1, <1>2, <1>4 DEF BufsOf
  <2>3. \A j \in 1 .. Len(q) : \A l \in DOMAIN q[j] : q[j][l] # a[i][k]
    <3> SUFFICES ASSUME NEW j \in DOMAIN q, NEW l \in DOMAIN q[j], q[j][l] = a[i][k]
                 PROVE  FALSE
      BY <1>1
    <3>1. own[q[j][l]] = p
      BY <1>2 DEF ObjectsInPlace
    <3> QED BY <2>2, <3>1
  <2> QED BY <1>1, <1>4, <2>1, <2>3
<1> QED BY <1>1, <1>2, <1>3, <1>4

LEMMA TempAppend ==
  ASSUME NEW own, NEW own2, NEW q \in Seq(SpecialObjects), NEW s \in SpecialObjects,
         InPlace(own, "temp", [i \in DOMAIN q |-> q[i].buf]), Kept(own, own2, "temp"),
         s.buf \in ImgBufs => own[s.buf] # "temp" /\ own2[s.buf] = "temp"
  PROVE  InPlace(own2, "temp", [i \in DOMAIN Append(q, s) |-> Append(q, s)[i].buf])
<1> DEFINE f == [i \in DOMAIN q |-> q[i].buf]
           g == [i \in DOMAIN Append(q, s) |-> Append(q, s)[i].buf]
<1>1. /\ DOMAIN g = 1 .. Len(q) + 1 /\ DOMAIN f = 1 .. Len(q) /\ Len(q) \in Nat
      /\ \A i \in 1 .. Len(q) : g[i] = f[i]
      /\ g[Len(q) + 1] = s.buf
  OBVIOUS
<1>2. InPlace(own, "temp", f)
  OBVIOUS
<1> HIDE DEF f, g
<1>3. SUFFICES ASSUME NEW k \in 1 .. Len(q) + 1, g[k] \in ImgBufs
      PROVE  own2[g[k]] = "temp" /\ \A l \in 1 .. Len(q) + 1 : g[k] = g[l] => l = k
  BY <1>1 DEF InPlace, g
<1>4. \A l \in 1 .. Len(q) : f[l] \in ImgBufs =>
        own[f[l]] = "temp" /\ \A m \in 1 .. Len(q) : f[l] = f[m] => m = l
  BY <1>1, <1>2 DEF InPlace
<1>5. CASE k \in 1 .. Len(q)
  <2>1. own[g[k]] = "temp" /\ \A l \in 1 .. Len(q) : g[k] = g[l] => l = k
    BY <1>1, <1>3, <1>4, <1>5
  <2>2. own2[g[k]] = "temp"
    BY <1>3, <2>1 DEF Kept, KeptBut
  <2>3. g[Len(q) + 1] # g[k]
    BY <1>1, <1>3, <2>1
  <2> QED BY <1>1, <2>1, <2>2, <2>3
<1>6. CASE k = Len(q) + 1
  <2>1. g[k] = s.buf /\ own[g[k]] # "temp" /\ own2[g[k]] = "temp"
    BY <1>1, <1>3, <1>6
  <2>2. \A l \in 1 .. Len(q) : g[l] # g[k]
    BY <1>1, <1>3, <1>4, <2>1
  <2> QED BY <1>1, <1>6, <2>1, <2>2
<1> QED BY <1>1, <1>5, <1>6

LEMMA TempTail ==
  ASSUME NEW own, NEW own2, NEW q \in Seq(SpecialObjects), q # <<>>,
         InPlace(own, "temp", [i \in DOMAIN q |-> q[i].buf]),
         KeptBut({Head(q).buf}, own, own2, "temp")
  PROVE  InPlace(own2, "temp", [i \in DOMAIN Tail(q) |-> Tail(q)[i].buf])
<1> DEFINE f == [i \in DOMAIN q |-> q[i].buf]
           t == Tail(q)
           g == [i \in DOMAIN t |-> t[i].buf]
<1>1. /\ DOMAIN t = 1 .. Len(q) - 1 /\ DOMAIN q = 1 .. Len(q)
      /\ \A k \in 1 .. Len(q) - 1 : t[k] = q[k + 1]
      /\ Head(q) = q[1] /\ Len(q) \in Nat /\ Len(q) >= 1
  OBVIOUS
<1>2. /\ DOMAIN f = 1 .. Len(q) /\ f[1] = Head(q).buf
      /\ DOMAIN g = 1 .. Len(q) - 1
      /\ \A k \in 1 .. Len(q) - 1 : g[k] = f[k + 1] /\ k + 1 \in 1 .. Len(q) /\ k + 1 # 1
  BY <1>1
<1>3. InPlace(own, "temp", f)
  OBVIOUS
<1>4. InPlace(own2, "temp", g)
  <2> HIDE DEF f, g, t
  <2> SUFFICES ASSUME NEW k \in 1 .. Len(q) - 1, g[k] \in ImgBufs
               PROVE  own2[g[k]] = "temp" /\ \A l \in 1 .. Len(q) - 1 : g[k] = g[l] => l = k
    BY <1>2 DEF InPlace
  <2>1. /\ own[f[k + 1]] = "temp"
        /\ \A l \in 1 .. Len(q) : f[k + 1] = f[l] => l = k + 1
    BY <1>2, <1>3 DEF InPlace
  <2>2. f[k + 1] # f[1]
    BY <1>1, <1>2, <2>1
  <2>3. own2[f[k + 1]] = "temp"
    BY <1>2, <2>1, <2>2 DEF KeptBut
  <2> QED BY <1>1, <1>2, <2>1, <2>3
<1> QED BY <1>4

-----------------------------------------------------------------------------
(* The structures of the places a step has not taken buffers from.         *)
LEMMA Others ==
  ASSUME AllInPlace, NEW p0, \A r : r # p0 => Kept(owner, owner', r)
  PROVE  /\ p0 # "free" /\ UNCHANGED imgFree => ObjectsInPlace(owner, "free", imgFree)'
         /\ p0 # "data" /\ UNCHANGED imgData => ObjectsInPlace(owner, "data", imgData)'
         /\ p0 # "temp" /\ UNCHANGED tempQ => InPlace(owner, "temp", TempBufs)'
         /\ p0 # "mgr" /\ UNCHANGED <<stored, mgrPc, received>> => MgrInPlace'
         /\ p0 # "img" /\ UNCHANGED extra
              /\ (ImgHolds' => buf' = Temp \/ (ImgHolds /\ buf' = buf)) => ImgInPlace'
         /\ p0 # "inf" /\ UNCHANGED obj => InPlace(owner, "inf", obj)'
<1>1. p0 # "free" /\ UNCHANGED imgFree => ObjectsInPlace(owner, "free", imgFree)'
  BY ObjectsKept DEF AllInPlace
<1>2. p0 # "data" /\ UNCHANGED imgData => ObjectsInPlace(owner, "data", imgData)'
  BY ObjectsKept DEF AllInPlace
<1>3. p0 # "temp" /\ UNCHANGED tempQ => InPlace(owner, "temp", TempBufs)'
  BY FlatKept DEF AllInPlace, TempBufs
<1>4. p0 # "mgr" /\ UNCHANGED <<stored, mgrPc, received>> => MgrInPlace'
  BY FlatKept, HeldKept DEF AllInPlace, MgrInPlace
<1>5. p0 # "img" /\ UNCHANGED extra
        /\ (ImgHolds' => buf' = Temp \/ (ImgHolds /\ buf' = buf)) => ImgInPlace'
  <2> SUFFICES ASSUME p0 # "img", UNCHANGED extra,
                      ImgHolds' => buf' = Temp \/ (ImgHolds /\ buf' = buf)
               PROVE  ImgInPlace'
    OBVIOUS
  <2>1. Temp \notin ImgBufs
    BY DEF Temp, ImgBufs
  <2>2. InPlace(owner, "img", extra)'
    BY FlatKept DEF AllInPlace, ImgInPlace
  <2>3. ImgHolds /\ buf' = buf => HeldBeside(owner, "img", buf, extra)'
    BY HeldKept DEF AllInPlace, ImgInPlace
  <2>4. buf' = Temp => HeldBeside(owner, "img", buf, extra)'
    BY <2>1 DEF HeldBeside
  <2> QED BY <2>2, <2>3, <2>4 DEF ImgInPlace
<1>6. p0 # "inf" /\ UNCHANGED obj => InPlace(owner, "inf", obj)'
  BY FlatKept DEF AllInPlace
<1> QED BY <1>1, <1>2, <1>3, <1>4, <1>5, <1>6

-----------------------------------------------------------------------------
(* Initially nothing is anywhere.                                          *)
LEMMA InitPlaced == Init => Placed
<1> SUFFICES ASSUME Init PROVE Placed
  OBVIOUS
<1> USE DEF Init, QueueInit
<1>1. DOMAIN imgFree = {} /\ DOMAIN imgData = {} /\ DOMAIN tempQ = {} /\ DOMAIN extra = {}
      /\ DOMAIN obj = {}
  OBVIOUS
<1>2. \A i \in DOMAIN stored : stored[i] \notin ImgBufs
  BY DEF NULL, ImgBufs
<1>3. MgrInPlace
  BY <1>2 DEF MgrInPlace, InPlace
<1>4. ImgInPlace
  BY <1>1 DEF ImgInPlace, ImgHolds, InPlace
<1>5. AllInPlace
  BY <1>1, <1>3, <1>4 DEF AllInPlace, ObjectsInPlace, InPlace, TempBufs
<1> QED BY <1>5 DEF Placed, Exclusive

(* A step that moves no buffer and after which the image thread holds      *)
(* nothing new.                                                            *)
LEMMA Quiet ==
  ASSUME Placed, UNCHANGED <<imgQueues, owner, allocated, stored, mgrPc, received, extra, obj>>,
         raced => raced',
         ImgHolds' => buf' = Temp \/ (ImgHolds /\ buf' = buf),
         imgPc' \in {"clean_img", "clean_res"} => imgRet' \in {"wait", "put"}
  PROVE  Placed'
<1>1. \A r : Kept(owner, owner', r)
  BY DEF Kept, KeptBut
<1>2. ASSUME ~raced' PROVE AllInPlace'
  <2>1. AllInPlace
    BY <1>2 DEF Placed, Exclusive
  <2>2. MgrInPlace'
    BY <1>1, <2>1, Others DEF imgQueues
  <2> QED BY <1>1, <2>1, <2>2, Others DEF AllInPlace, imgQueues
<1> QED BY <1>2 DEF Placed, Exclusive

(* Interrupts, and the host's requests but for the configuration.          *)
LEMMA LinkPlaced == Placed /\ LinkNext => Placed'
<1> SUFFICES ASSUME Placed, LinkNext PROVE Placed'
  OBVIOUS
<1>1. UNCHANGED <<queueVars, imgVars, infVars, history>>
  BY DEF LinkNext, Configured, Disconnected, VbusOff, LinkLost, ErrandResetDevice
<1> QED BY <1>1, Quiet DEF queueVars, imgQueues, imgVars, infVars, history, ImgHolds, Placed

LEMMA ConfigurePlaced == Placed /\ ControlConfigure => Placed'
<1> SUFFICES ASSUME Placed, ControlConfigure PROVE Placed'
  OBVIOUS
<1>1. /\ imgFree' = [i \in 1 .. NumImg |-> <<i>>] /\ owner' = [b \in ImgBufs |-> "free"]
      /\ ~allocated /\ allocated'
      /\ UNCHANGED <<imgData, tempQ, stored, mgrPc, received, extra, obj, buf, imgPc, imgRet, raced>>
  BY DEF ControlConfigure, fill_free_queues, history, imgVars, infVars, mgrVars
<1>2. ASSUME ~raced' PROVE AllInPlace'
  <2>1. AllInPlace /\ \A b \in ImgBufs : owner[b] = "unallocated"
    BY <1>1, <1>2 DEF Placed, Exclusive
  <2>2. \A r : r # "unallocated" => Kept(owner, owner', r)
    BY <2>1 DEF Kept, KeptBut
  <2>3. ObjectsInPlace(owner, "free", imgFree)'
    <3>1. /\ DOMAIN imgFree' = 1 .. NumImg
          /\ \A i \in 1 .. NumImg : DOMAIN imgFree'[i] = {1} /\ imgFree'[i][1] = i
      BY <1>1
    <3>2. \A b \in ImgBufs : owner'[b] = "free"
      BY <1>1
    <3> QED BY <3>1, <3>2 DEF ObjectsInPlace
  <2>4. ImgHolds' = ImgHolds
    BY <1>1 DEF ImgHolds
  <2>5. /\ ObjectsInPlace(owner, "data", imgData)'
        /\ InPlace(owner, "temp", TempBufs)'
        /\ MgrInPlace' /\ ImgInPlace'
        /\ InPlace(owner, "inf", obj)'
    BY <1>1, <2>1, <2>2, <2>4, Others
  <2> QED BY <2>3, <2>5 DEF AllInPlace
<1> QED BY <1>1, <1>2 DEF Placed, Exclusive

LEMMA HostPlaced == Placed /\ HostNext => Placed'
<1> SUFFICES ASSUME Placed, HostNext PROVE Placed'
  OBVIOUS
<1>1. CASE ControlConfigure
  BY <1>1, ConfigurePlaced
<1>2. CASE ~ControlConfigure
  <2>1. UNCHANGED <<queueVars, imgVars, infVars, raced>>
    BY <1>2 DEF HostNext, ControlReset, ControlDroppable, HostBegins, HostSendsImage,
       HostSendsCommand, SendDma, HostReads, history
  <2> QED BY <2>1, Quiet DEF queueVars, imgQueues, imgVars, infVars, ImgHolds, Placed
<1> QED BY <1>1, <1>2

(* The steps of the image thread that move no image buffer.  ImgRetry is   *)
(* where the race is: it may leave with no new buffer.                     *)
LEMMA ImgQuietPlaced ==
  ASSUME Placed,
         \/ ImgWaitConnection \/ ImgGet \/ ImgGrabFails \/ ImgRetry \/ ImgReceive \/ ImgMark
         \/ ImgArm \/ ImgCommand \/ ImgCommandBegins \/ ImgCommandDone \/ ImgCommandTimeout
         \/ ImgCleaned \/ ImgCleanResults
  PROVE  Placed'
<1>1. UNCHANGED <<imgQueues, owner, allocated, stored, mgrPc, received, extra, obj>>
  BY DEF ImgWaitConnection, ImgGet, ImgGrabFails, ImgRetry, ImgReceive, ImgMark, ImgArm,
     ImgCommand, ImgCommandBegins, ImgCommandDone, ImgCommandTimeout, ImgCleaned,
     ImgCleanResults, queueVars, imgQueues, imgVars, infVars, mgrVars
<1> USE DEF ImgHolds, imgVars, history
<1>2. CASE ImgRetry
  <2>1. CASE raced'
    BY <1>2, <2>1 DEF ImgRetry, Received, Placed, Exclusive
  <2>2. CASE ~raced'
    BY <1>1, <1>2, <2>2, Quiet DEF ImgRetry
  <2> QED BY <2>1, <2>2
<1>3. CASE ImgCleaned
  BY <1>1, <1>3, Quiet DEF ImgCleaned, Placed
<1>4. CASE ImgWaitConnection \/ ImgGet \/ ImgGrabFails
  BY <1>1, <1>4, Quiet DEF ImgWaitConnection, ImgGet, ImgGrabFails
<1>5. CASE ImgReceive \/ ImgMark \/ ImgArm \/ ImgCommand \/ ImgCommandBegins \/ ImgCommandDone \/ ImgCommandTimeout
  BY <1>1, <1>5, Quiet DEF ImgReceive, ImgMark, ImgArm, ImgCommand, ImgCommandBegins,
      ImgCommandDone, ImgCommandTimeout
<1>6. CASE ImgCleanResults
  BY <1>1, <1>6, Quiet DEF ImgCleanResults, Placed
<1> QED BY <1>2, <1>3, <1>4, <1>5, <1>6

(* A step that moves the buffers S from the place p to the place q: what   *)
(* remains to be shown about it is AllInPlace' for the two places.         *)
LEMMA MovePlaced ==
  ASSUME Placed, UNCHANGED <<allocated, raced>>,
         imgPc' \in {"clean_img", "clean_res"} => imgRet' \in {"wait", "put"},
         ~raced => AllInPlace',
         ~raced => \A r : r = "unallocated" => Kept(owner, owner', r)
  PROVE  Placed'
BY DEF Placed, Exclusive, Kept, KeptBut

(* The types the lemmas on sequences need.                                 *)
LEMMA QueueSeqs == ASSUME Types PROVE
  /\ imgFree \in Seq(Seq(Slots)) /\ imgData \in Seq(Seq(Slots))
  /\ imgFree \in Seq(Seq(Slots) \ {<<>>}) /\ imgData \in Seq(Seq(Slots) \ {<<>>})
  /\ tempQ \in Seq(SpecialObjects)
  /\ extra \in Seq(Slots) /\ obj \in Seq(Slots) /\ buf \in Slots
  /\ stored \in [Indices -> Slots] /\ received \in SpecialObjects
<1>1. imgFree \in Seq(Seq(Slots) \ {<<>>}) /\ imgData \in Seq(Seq(Slots) \ {<<>>})
  BY DEF Types, TypeOK, QueueTypeOK, ImgQueueTypeOK
<1>2. ASSUME NEW q \in Seq(Seq(Slots) \ {<<>>}) PROVE q \in Seq(Seq(Slots))
  OBVIOUS
<1> QED BY <1>1, <1>2 DEF Types, TypeOK, QueueTypeOK, ImgQueueTypeOK, MgrTypeOK, ImgTypeOK,
           InfTypeOK

(* A buffer that a thread holds, or an object, comes back to the free      *)
(* queue as an object.                                                     *)
LEMMA FreeAppend ==
  ASSUME Types, AllInPlace, NEW o \in Seq(Slots), InPlace(owner', "free", o),
         Kept(owner, owner', "free"), \A b \in BufsOf(o) \cap ImgBufs : owner[b] # "free",
         imgFree' = Append(imgFree, o)
  PROVE  ObjectsInPlace(owner, "free", imgFree)'
BY ObjectsAppend, QueueSeqs DEF AllInPlace

LEMMA FreeOne ==
  ASSUME Types, AllInPlace, NEW b \in Slots, NEW p, p # "free",
         b \in ImgBufs => owner[b] = p, image_put_free_buffer(b)
  PROVE  /\ ObjectsInPlace(owner, "free", imgFree)'
         /\ \A r : r # p => Kept(owner, owner', r)
         /\ KeptBut({b}, owner, owner', p)
<1>1. MoveImg({b}, "free") /\ imgFree' = Append(imgFree, <<b>>)
  BY DEF image_put_free_buffer
<1>2. /\ \A r : r # p => Kept(owner, owner', r)
      /\ KeptBut({b}, owner, owner', p)
      /\ \A c \in {b} \cap ImgBufs : owner'[c] = "free"
  BY <1>1, MoveKeeps
<1> DEFINE o == <<b>>
<1>3. o \in Seq(Slots) /\ DOMAIN o = {1} /\ o[1] = b
  OBVIOUS
<1>4. imgFree' = Append(imgFree, o)
  BY <1>1
<1> HIDE DEF o
<1>5. BufsOf(o) = {b}
  BY <1>3 DEF BufsOf
<1>6. InPlace(owner', "free", o)
  BY <1>2, <1>3 DEF InPlace
<1>7. ObjectsInPlace(owner, "free", imgFree)'
  BY <1>2, <1>3, <1>4, <1>5, <1>6, FreeAppend
<1> QED BY <1>2, <1>7

(* image_get_free_buffer: the object of a queue is now in the hands of the *)
(* image thread, its first buffer to use, the others to put back.          *)
LEMMA TakeFreePlaced == Types /\ Placed /\ ImgTakeFree => Placed'
<1> SUFFICES ASSUME Types, Placed, ImgTakeFree PROVE Placed'
  OBVIOUS
<1>1. PICK o \in {imgFree[i] : i \in DOMAIN imgFree} \cup {imgData[i] : i \in DOMAIN imgData} :
        /\ take_free(o) \/ take_data(o)
        /\ buf' = o[1] /\ extra' = Tail(o)
        /\ imgPc' = IF Len(o) > 1 THEN "unbundle" ELSE Received(imgRet)
        /\ MoveImg(BufsOf(o), "img")
  BY DEF ImgTakeFree
<1>2. /\ UNCHANGED <<tempQ, stored, mgrPc, received, obj, allocated, raced>>
      /\ imgPc' \notin {"clean_img", "clean_res"}
  BY <1>1 DEF ImgTakeFree, mgrVars, infVars, history, Received
<1>3. PICK p \in {"free", "data"} :
        /\ p = "free" => imgFree # <<>> /\ o = Head(imgFree) /\ imgFree' = Tail(imgFree)
                         /\ UNCHANGED imgData
        /\ p = "data" => imgData # <<>> /\ o = Head(imgData) /\ imgData' = Tail(imgData)
                         /\ UNCHANGED imgFree
  BY <1>1 DEF take_free, take_data
<1>4. o \in Seq(Slots) \ {<<>>}
  BY <1>1, QueueSeqs
<1>5. ASSUME ~raced
      PROVE  AllInPlace' /\ \A r : r = "unallocated" => Kept(owner, owner', r)
  <2>1. AllInPlace
    BY <1>5 DEF Placed, Exclusive
  <2>2. InPlace(owner, p, o)
    BY <1>3, <2>1, QueueSeqs, ObjectsHead DEF AllInPlace
  <2>3. \A b \in BufsOf(o) \cap ImgBufs : owner[b] = p
    BY <2>2, BufsInPlace
  <2>4. /\ \A r : r # p => Kept(owner, owner', r)
        /\ KeptBut(BufsOf(o), owner, owner', p)
        /\ \A b \in BufsOf(o) \cap ImgBufs : owner'[b] = "img"
    BY <1>1, <2>3, MoveKeeps
  <2>5. InPlace(owner', "img", o)
    BY <2>2, <2>4, ObjectMoves
  <2>6. ImgInPlace'
    <3>1. o # <<>> /\ KeptBut({Head(o)}, owner', owner', "img")
      BY <1>4 DEF KeptBut
    <3>2. InPlace(owner', "img", Tail(o))
      BY <1>4, <2>5, <3>1, FlatTail
    <3>3. o[1] \in ImgBufs => owner'[o[1]] = "img"
      BY <1>4, <2>5 DEF InPlace
    <3>4. o[1] \in ImgBufs => \A k \in DOMAIN Tail(o) : Tail(o)[k] # o[1]
      <4> SUFFICES ASSUME o[1] \in ImgBufs, NEW k \in DOMAIN Tail(o), Tail(o)[k] = o[1]
                   PROVE  FALSE
        OBVIOUS
      <4>1. k + 1 \in DOMAIN o /\ 1 \in DOMAIN o /\ o[k + 1] = o[1] /\ k + 1 # 1
        BY <1>4
      <4> QED BY <2>5, <4>1 DEF InPlace
    <3> QED BY <1>1, <3>2, <3>3, <3>4 DEF ImgInPlace, HeldBeside
  <2>7. ObjectsInPlace(owner, "free", imgFree)'
    <3>1. CASE p = "free"
      <4>1. imgFree # <<>> /\ imgFree' = Tail(imgFree) /\ imgFree \in Seq(Seq(Slots))
            /\ KeptBut(BufsOf(Head(imgFree)), owner, owner', "free")
        BY <1>3, <2>4, <3>1, QueueSeqs
      <4>2. ObjectsInPlace(owner', "free", Tail(imgFree))
        BY <2>1, <4>1, ObjectsTail DEF AllInPlace
      <4> QED BY <4>1, <4>2
    <3>2. CASE p = "data"
      BY <1>3, <2>1, <2>4, <3>2, Others
    <3> QED BY <3>1, <3>2
  <2>8. ObjectsInPlace(owner, "data", imgData)'
    <3>1. CASE p = "data"
      <4>1. imgData # <<>> /\ imgData' = Tail(imgData) /\ imgData \in Seq(Seq(Slots))
            /\ KeptBut(BufsOf(Head(imgData)), owner, owner', "data")
        BY <1>3, <2>4, <3>1, QueueSeqs
      <4>2. ObjectsInPlace(owner', "data", Tail(imgData))
        BY <2>1, <4>1, ObjectsTail DEF AllInPlace
      <4> QED BY <4>1, <4>2
    <3>2. CASE p = "free"
      BY <1>3, <2>1, <2>4, <3>2, Others
    <3> QED BY <3>1, <3>2
  <2>9. InPlace(owner, "temp", TempBufs)' /\ MgrInPlace' /\ InPlace(owner, "inf", obj)'
    BY <1>2, <2>1, <2>4, Others
  <2>10. \A r : r = "unallocated" => Kept(owner, owner', r)
    BY <2>4
  <2> QED BY <2>6, <2>7, <2>8, <2>9, <2>10 DEF AllInPlace
<1> QED BY <1>2, <1>5, MovePlaced

(* Putting back a buffer of the object that was taken.                     *)
LEMMA UnbundlePlaced == Types /\ Placed /\ ImgUnbundle => Placed'
<1> SUFFICES ASSUME Types, Placed, ImgUnbundle PROVE Placed'
  OBVIOUS
<1>1. /\ imgPc = "unbundle" /\ image_put_free_buffer(Head(extra)) /\ extra' = Tail(extra)
      /\ imgPc' \in {"unbundle", "swap", "recv"}
      /\ UNCHANGED <<imgData, tempQ, stored, mgrPc, received, obj, buf, allocated, raced>>
  BY DEF ImgUnbundle, Received, mgrVars, infVars, history
<1>2. extra \in Seq(Slots) /\ extra # <<>> /\ Head(extra) \in Slots
  BY <1>1, QueueSeqs, TailType DEF Types, Shapes
<1>3. ASSUME ~raced
      PROVE  AllInPlace' /\ \A r : r = "unallocated" => Kept(owner, owner', r)
  <2>1. AllInPlace
    BY <1>3 DEF Placed, Exclusive
  <2>2. /\ InPlace(owner, "img", extra)
        /\ HeldBeside(owner, "img", buf, extra)
    BY <1>1, <2>1 DEF AllInPlace, ImgInPlace, ImgHolds
  <2>3. 1 \in DOMAIN extra /\ Head(extra) = extra[1]
    BY <1>2
  <2>4. Head(extra) \in ImgBufs => owner[Head(extra)] = "img"
    BY <2>2, <2>3 DEF InPlace
  <2>5. /\ ObjectsInPlace(owner, "free", imgFree)'
        /\ \A r : r # "img" => Kept(owner, owner', r)
        /\ KeptBut({Head(extra)}, owner, owner', "img")
    BY <1>1, <1>2, <2>1, <2>4, FreeOne
  <2>6. InPlace(owner', "img", Tail(extra))
    BY <1>2, <2>2, <2>5, FlatTail
  <2>7. HeldBeside(owner', "img", buf, Tail(extra))
    <3>1. buf \in ImgBufs => owner[buf] = "img" /\ buf # Head(extra)
      BY <2>2, <2>3 DEF HeldBeside
    <3>2. \A k \in DOMAIN Tail(extra) : \E l \in DOMAIN extra : Tail(extra)[k] = extra[l]
      BY <1>2
    <3> QED BY <2>2, <2>5, <3>1, <3>2 DEF HeldBeside, KeptBut
  <2>8. ImgInPlace'
    BY <1>1, <2>6, <2>7 DEF ImgInPlace
  <2>9. /\ ObjectsInPlace(owner, "data", imgData)' /\ InPlace(owner, "temp", TempBufs)'
        /\ MgrInPlace' /\ InPlace(owner, "inf", obj)'
    BY <1>1, <2>1, <2>5, Others
  <2> QED BY <2>5, <2>8, <2>9 DEF AllInPlace
<1> QED BY <1>1, <1>3, MovePlaced

(* The image thread goes on with its buffer, or is left without it.        *)
LEMMA HandPlaced ==
  ASSUME Placed, ImgHolds,
         UNCHANGED <<imgQueues, allocated, stored, mgrPc, received, extra, obj, buf, raced>>,
         imgPc' \in {"clean_img", "clean_res"} => imgRet' \in {"wait", "put"},
         owner' = owner \/ (MoveImg({buf}, "lost") /\ ~ImgHolds')
  PROVE  Placed'
<1>1. CASE owner' = owner
  BY <1>1, Quiet
<1>2. CASE MoveImg({buf}, "lost") /\ ~ImgHolds'
  <2>1. ASSUME ~raced
        PROVE  AllInPlace' /\ \A r : r = "unallocated" => Kept(owner, owner', r)
    <3>1. AllInPlace
      BY <2>1 DEF Placed, Exclusive
    <3>2. HeldBeside(owner, "img", buf, extra) /\ InPlace(owner, "img", extra)
      BY <3>1 DEF AllInPlace, ImgInPlace
    <3>3. \A b \in {buf} \cap ImgBufs : owner[b] = "img"
      BY <3>2 DEF HeldBeside
    <3>4. (\A r : r # "img" => Kept(owner, owner', r)) /\ KeptBut({buf}, owner, owner', "img")
      BY <1>2, <3>3, MoveKeeps
    <3>5. InPlace(owner', "img", extra)
      BY <3>2, <3>4 DEF InPlace, HeldBeside, KeptBut
    <3>6. ImgInPlace'
      BY <1>2, <3>5 DEF ImgInPlace
    <3>7. /\ ObjectsInPlace(owner, "free", imgFree)' /\ ObjectsInPlace(owner, "data", imgData)'
          /\ InPlace(owner, "temp", TempBufs)' /\ MgrInPlace' /\ InPlace(owner, "inf", obj)'
      BY <3>1, <3>4, Others DEF imgQueues
    <3> QED BY <3>4, <3>6, <3>7 DEF AllInPlace
  <2> QED BY <2>1, MovePlaced
<1> QED BY <1>1, <1>2

(* Received, failed, or swapped: the image thread still has one buffer.    *)
LEMMA ParseHolds == ASSUME NEW n, Parse(n) PROVE
  /\ imgPc' \notin {"clean_img", "clean_res"}
  /\ owner' = owner \/ (MoveImg({buf}, "lost") /\ imgPc' = "dead")
<1>1. CASE recvLen = 0
  BY <1>1 DEF Parse, ParseHeader, NextRecv
<1>2. CASE recvLen # 0
  BY <1>2 DEF Parse, ParseRest, NextRecv
<1> QED BY <1>1, <1>2

LEMMA ReceivedPlaced ==
  ASSUME Placed, ImgReceived \/ ImgFailed \/ ImgSwap
  PROVE  Placed'
<1>1. /\ ImgHolds
      /\ UNCHANGED <<imgQueues, allocated, stored, mgrPc, received, extra, obj, buf, raced>>
  BY DEF ImgReceived, ImgFailed, ImgSwap, ImgHolds, mgrVars, infVars, history
<1>2. imgPc' = "dead" => ~ImgHolds'
  BY DEF ImgHolds
<1>3. CASE ImgReceived
  <2>1. CASE Parse(1)
    BY <1>1, <1>2, <2>1, ParseHolds, HandPlaced
  <2>2. CASE ~Parse(1)
    BY <1>1, <1>3, <2>2, HandPlaced DEF ImgReceived
  <2> QED BY <2>1, <2>2
<1>4. CASE ImgFailed
  <2>1. CASE Parse(0)
    BY <1>1, <1>2, <2>1, ParseHolds, HandPlaced
  <2>2. CASE ~Parse(0)
    <3>1. /\ imgRet' \in {"wait", "put"}
          /\ owner' = owner \/ (MoveImg({buf}, "lost") /\ ~ImgHolds')
      BY <1>4, <2>2 DEF ImgFailed, ImgHolds
    <3> QED BY <1>1, <3>1, HandPlaced
  <2> QED BY <2>1, <2>2
<1>5. CASE ImgSwap
  <2>1. /\ imgPc' \notin {"clean_img", "clean_res"}
        /\ owner' = owner \/ (MoveImg({buf}, "lost") /\ imgPc' = "dead")
    BY <1>5 DEF ImgSwap, NextRecv
  <2> QED BY <1>1, <1>2, <2>1, HandPlaced
<1> QED BY <1>3, <1>4, <1>5

(* A complete image goes to buf_mgr.                                       *)
LEMMA EnqueuePlaced == Types /\ Placed /\ ImgEnqueue => Placed'
<1> SUFFICES ASSUME Types, Placed, ImgEnqueue PROVE Placed'
  OBVIOUS
<1> DEFINE s == [total |-> hdr.total, index |-> IF hdr.total = 1 THEN 0 ELSE hdr.index,
                 buf |-> buf]
<1>1. /\ imgPc = "enqueue" /\ tempQ' = Append(tempQ, s) /\ MoveImg({buf}, "temp")
      /\ imgPc' = "get"
      /\ UNCHANGED <<imgFree, imgData, stored, mgrPc, received, extra, obj, allocated, raced>>
  BY HasImages DEF ImgEnqueue, image_enqueue, mgrVars, infVars, history
<1>2. s \in SpecialObjects /\ tempQ \in Seq(SpecialObjects) /\ s.buf = buf
  BY ConstantTypes, QueueSeqs DEF SpecialObjects, Items, ImgTypeOK, Types, TypeOK
<1> HIDE DEF s
<1>3. ASSUME ~raced
      PROVE  AllInPlace' /\ \A r : r = "unallocated" => Kept(owner, owner', r)
  <2>1. AllInPlace
    BY <1>3 DEF Placed, Exclusive
  <2>2. HeldBeside(owner, "img", buf, extra) /\ InPlace(owner, "img", extra)
    BY <1>1, <2>1 DEF AllInPlace, ImgInPlace, ImgHolds
  <2>3. \A b \in {buf} \cap ImgBufs : owner[b] = "img"
    BY <2>2 DEF HeldBeside
  <2>4. /\ \A r : r # "img" => Kept(owner, owner', r)
        /\ KeptBut({buf}, owner, owner', "img")
        /\ \A b \in {buf} \cap ImgBufs : owner'[b] = "temp"
    BY <1>1, <2>3, MoveKeeps
  <2>5. InPlace(owner', "img", extra)
    BY <2>2, <2>4 DEF InPlace, HeldBeside, KeptBut
  <2>6. ImgInPlace'
    BY <1>1, <2>5 DEF ImgInPlace, ImgHolds
  <2>7. InPlace(owner, "temp", TempBufs)'
    <3>1. InPlace(owner, "temp", [i \in DOMAIN tempQ |-> tempQ[i].buf])
      BY <2>1 DEF AllInPlace, TempBufs
    <3>2. s.buf \in ImgBufs => owner[s.buf] # "temp" /\ owner'[s.buf] = "temp"
      BY <1>2, <2>3, <2>4
    <3>3. InPlace(owner', "temp",
                  [i \in DOMAIN Append(tempQ, s) |-> Append(tempQ, s)[i].buf])
      BY <1>2, <2>4, <3>1, <3>2, TempAppend
    <3> QED BY <1>1, <3>3 DEF TempBufs
  <2>8. /\ ObjectsInPlace(owner, "free", imgFree)' /\ ObjectsInPlace(owner, "data", imgData)'
        /\ MgrInPlace' /\ InPlace(owner, "inf", obj)'
    BY <1>1, <2>1, <2>4, Others
  <2> QED BY <2>4, <2>6, <2>7, <2>8 DEF AllInPlace
<1> QED BY <1>1, <1>3, MovePlaced

(* A buffer that held no image goes back.                                  *)
LEMMA PutFreePlaced == Types /\ Placed /\ ImgPutFree => Placed'
<1> SUFFICES ASSUME Types, Placed, ImgPutFree PROVE Placed'
  OBVIOUS
<1>1. /\ imgPc = "put" /\ imgPc' = "get"
      /\ UNCHANGED <<imgData, tempQ, stored, mgrPc, received, extra, obj, buf, allocated, raced>>
  BY DEF ImgPutFree, mgrVars, infVars, history
<1>2. CASE buf = Temp
  <2>1. UNCHANGED <<imgQueues, owner>>
    BY <1>1, <1>2 DEF ImgPutFree, imgQueues
  <2>2. ~ImgHolds'
    BY <1>1 DEF ImgHolds
  <2> QED BY <1>1, <2>1, <2>2, Quiet
<1>3. CASE buf # Temp
  <2>1. image_put_free_buffer(buf)
    BY <1>3 DEF ImgPutFree
  <2>2. ASSUME ~raced
        PROVE  AllInPlace' /\ \A r : r = "unallocated" => Kept(owner, owner', r)
    <3>1. AllInPlace
      BY <2>2 DEF Placed, Exclusive
    <3>2. HeldBeside(owner, "img", buf, extra) /\ InPlace(owner, "img", extra)
      BY <1>1, <3>1 DEF AllInPlace, ImgInPlace, ImgHolds
    <3>3. buf \in Slots /\ (buf \in ImgBufs => owner[buf] = "img")
      BY <3>2, QueueSeqs DEF HeldBeside
    <3>4. /\ ObjectsInPlace(owner, "free", imgFree)'
          /\ \A r : r # "img" => Kept(owner, owner', r)
          /\ KeptBut({buf}, owner, owner', "img")
      BY <2>1, <3>1, <3>3, FreeOne
    <3>5. InPlace(owner', "img", extra)
      BY <3>2, <3>4 DEF InPlace, HeldBeside, KeptBut
    <3>6. ImgInPlace'
      BY <1>1, <3>5 DEF ImgInPlace, ImgHolds
    <3>7. /\ ObjectsInPlace(owner, "data", imgData)' /\ InPlace(owner, "temp", TempBufs)'
          /\ MgrInPlace' /\ InPlace(owner, "inf", obj)'
      BY <1>1, <3>1, <3>4, Others
    <3> QED BY <3>4, <3>6, <3>7 DEF AllInPlace
  <2> QED BY <1>1, <2>2, MovePlaced
<1> QED BY <1>2, <1>3

(* The clean-up moves an object to the free queue, or loses all of it.     *)
LEMMA CleanPlaced == Types /\ Placed /\ ImgCleanImages => Placed'
<1> SUFFICES ASSUME Types, Placed, ImgCleanImages PROVE Placed'
  OBVIOUS
<1>1. /\ imgPc = "clean_img" /\ imgPc' \in {"clean_img", "clean_res"}
      /\ imgRet' = imgRet /\ imgRet \in {"wait", "put"}
      /\ UNCHANGED <<tempQ, stored, mgrPc, received, extra, obj, buf, allocated, raced>>
  BY DEF ImgCleanImages, clean_image_object, Placed, mgrVars, infVars, history
<1>2. ImgHolds' = ImgHolds
  BY <1>1 DEF ImgHolds
<1>3. CASE ~clean_image_object
  <2>1. UNCHANGED <<imgQueues, owner>>
    BY <1>1, <1>3 DEF ImgCleanImages, imgQueues
  <2> QED BY <1>1, <1>2, <2>1, Quiet
<1>4. CASE clean_image_object
  <2> DEFINE o == Head(imgData)
  <2>1. PICK q \in {"free", "lost"} :
          /\ MoveImg(BufsOf(o), q)
          /\ q = "free" => imgFree' = Append(imgFree, o)
          /\ q = "lost" => UNCHANGED imgFree
    BY <1>4 DEF clean_image_object
  <2>2. imgData # <<>> /\ imgData' = Tail(imgData) /\ imgData \in Seq(Seq(Slots))
    BY <1>4, QueueSeqs DEF clean_image_object
  <2>3. o \in Seq(Slots)
    BY <2>2
  <2>4. ASSUME ~raced
        PROVE  AllInPlace' /\ \A r : r = "unallocated" => Kept(owner, owner', r)
    <3>1. AllInPlace
      BY <2>4 DEF Placed, Exclusive
    <3>2. InPlace(owner, "data", o)
      BY <2>2, <3>1, ObjectsHead DEF AllInPlace
    <3>3. \A b \in BufsOf(o) \cap ImgBufs : owner[b] = "data"
      BY <3>2, BufsInPlace
    <3> HIDE DEF o
    <3>4. /\ \A r : r # "data" => Kept(owner, owner', r)
          /\ KeptBut(BufsOf(o), owner, owner', "data")
          /\ \A b \in BufsOf(o) \cap ImgBufs : owner'[b] = q
      BY <2>1, <3>3, MoveKeeps
    <3>5. InPlace(owner', q, o)
      BY <3>2, <3>4, ObjectMoves
    <3>6. ObjectsInPlace(owner, "data", imgData)'
      <4>1. ObjectsInPlace(owner', "data", Tail(imgData))
        BY <2>2, <3>1, <3>4, ObjectsTail DEF AllInPlace, o
      <4> QED BY <2>2, <4>1
    <3>7. ObjectsInPlace(owner, "free", imgFree)'
      <4>1. CASE q = "free"
        BY <2>1, <2>3, <3>1, <3>3, <3>4, <3>5, <4>1, FreeAppend
      <4>2. CASE q = "lost"
        BY <2>1, <3>1, <3>4, <4>2, Others
      <4> QED BY <4>1, <4>2
    <3>8. /\ InPlace(owner, "temp", TempBufs)' /\ MgrInPlace' /\ ImgInPlace'
          /\ InPlace(owner, "inf", obj)'
      BY <1>1, <1>2, <3>1, <3>4, Others
    <3> QED BY <3>4, <3>6, <3>7, <3>8 DEF AllInPlace
  <2> QED BY <1>1, <2>4, MovePlaced
<1> QED BY <1>3, <1>4

-----------------------------------------------------------------------------
(* buf_mgr.                                                                *)

(* Storing a buffer that is at no index of stored, in the place of what    *)
(* was stored at its index.                                                *)
LEMMA StorePlaced ==
  ASSUME NEW own, NEW own2, NEW f \in [Indices -> Slots], NEW i \in Indices, NEW b,
         InPlace(own, "mgr", f), KeptBut({f[i]}, own, own2, "mgr"),
         b \in ImgBufs => own2[b] = "mgr" /\ \A k \in Indices \ {i} : f[k] # b
  PROVE  InPlace(own2, "mgr", [f EXCEPT ![i] = b])
<1> DEFINE g == [f EXCEPT ![i] = b]
<1>1. DOMAIN g = Indices /\ g[i] = b /\ \A k \in Indices \ {i} : g[k] = f[k]
  OBVIOUS
<1> HIDE DEF g
<1>2. SUFFICES ASSUME NEW k \in Indices, g[k] \in ImgBufs
      PROVE  own2[g[k]] = "mgr" /\ \A l \in Indices : g[k] = g[l] => l = k
  BY <1>1 DEF InPlace, g
<1>3. \A l \in Indices : f[l] \in ImgBufs =>
        own[f[l]] = "mgr" /\ \A m \in Indices : f[l] = f[m] => m = l
  BY DEF InPlace
<1>4. CASE k = i
  BY <1>1, <1>2, <1>4
<1>5. CASE k # i
  <2>1. own[f[k]] = "mgr" /\ f[k] # f[i] /\ \A m \in Indices : f[k] = f[m] => m = k
    BY <1>1, <1>2, <1>3, <1>5
  <2>2. own2[f[k]] = "mgr"
    BY <1>1, <1>2, <1>5, <2>1 DEF KeptBut
  <2> QED BY <1>1, <1>2, <1>5, <2>1, <2>2
<1> QED BY <1>4, <1>5

LEMMA MgrGetPlaced == Types /\ Placed /\ BufMgrNext /\ MgrGet => Placed'
<1> SUFFICES ASSUME Types, Placed, BufMgrNext, MgrGet PROVE Placed'
  OBVIOUS
<1> DEFINE s == Head(tempQ)
<1>1. /\ tempQ # <<>> /\ tempQ' = Tail(tempQ) /\ received' = s /\ MoveImg({s.buf}, "mgr")
      /\ mgrPc = "get"
      /\ UNCHANGED <<imgFree, imgData, extra, obj, buf, imgPc, imgRet, allocated, raced>>
  BY DEF MgrGet, BufMgrNext, imgVars, infVars, history
<1>2. tempQ \in Seq(SpecialObjects) /\ s \in SpecialObjects /\ stored \in [Indices -> Slots]
  BY <1>1, QueueSeqs
<1>3. \/ mgrPc' = "putback" /\ UNCHANGED stored
      \/ mgrPc' # "putback" /\ stored' = [stored EXCEPT ![s.index] = s.buf]
  BY DEF MgrGet, Store
<1>4. s.index \in Indices
  BY <1>2 DEF SpecialObjects
<1>5. ASSUME ~raced
      PROVE  AllInPlace' /\ \A r : r = "unallocated" => Kept(owner, owner', r)
  <2>1. AllInPlace
    BY <1>5 DEF Placed, Exclusive
  <2>2. InPlace(owner, "temp", [i \in DOMAIN tempQ |-> tempQ[i].buf])
    BY <2>1 DEF AllInPlace, TempBufs
  <2>3. s.buf \in ImgBufs => owner[s.buf] = "temp"
    <3>1. 1 \in DOMAIN tempQ /\ s = tempQ[1]
      BY <1>1, <1>2
    <3> HIDE DEF s
    <3> QED BY <2>2, <3>1 DEF InPlace
  <2> HIDE DEF s
  <2>4. /\ \A r : r # "temp" => Kept(owner, owner', r)
        /\ KeptBut({s.buf}, owner, owner', "temp")
        /\ \A b \in {s.buf} \cap ImgBufs : owner'[b] = "mgr"
    <3>1. \A b \in {s.buf} \cap ImgBufs : owner[b] = "temp"
      BY <2>3
    <3>2. MoveImg({s.buf}, "mgr")
      BY <1>1
    <3> QED BY <3>1, <3>2, MoveKeeps
  <2>5. InPlace(owner, "temp", TempBufs)'
    <3>1. InPlace(owner', "temp", [i \in DOMAIN Tail(tempQ) |-> Tail(tempQ)[i].buf])
      BY <1>1, <1>2, <2>2, <2>4, TempTail DEF s
    <3> QED BY <1>1, <3>1 DEF TempBufs
  <2>6. InPlace(owner, "mgr", stored)
    BY <2>1 DEF AllInPlace, MgrInPlace
  <2>7. s.buf \in ImgBufs => owner'[s.buf] = "mgr" /\ \A k \in Indices : stored[k] # s.buf
    BY <1>2, <2>3, <2>4, <2>6 DEF InPlace
  <2>8. MgrInPlace'
    <3>1. CASE mgrPc' = "putback" /\ UNCHANGED stored
      <4>1. InPlace(owner', "mgr", stored)
        BY <2>4, <2>6, FlatKept
      <4> QED BY <1>1, <1>2, <2>7, <3>1, <4>1 DEF MgrInPlace, HeldBeside
    <3>2. CASE mgrPc' # "putback" /\ stored' = [stored EXCEPT ![s.index] = s.buf]
      <4>1. KeptBut({stored[s.index]}, owner, owner', "mgr")
        BY <2>4 DEF Kept, KeptBut
      <4>2. InPlace(owner', "mgr", [stored EXCEPT ![s.index] = s.buf])
        BY <1>2, <1>4, <2>6, <2>7, <4>1, StorePlaced
      <4> QED BY <3>2, <4>2 DEF MgrInPlace
    <3> QED BY <1>3, <3>1, <3>2
  <2>9. /\ ObjectsInPlace(owner, "free", imgFree)' /\ ObjectsInPlace(owner, "data", imgData)'
        /\ ImgInPlace' /\ InPlace(owner, "inf", obj)'
    <3>1. ImgHolds' => ImgHolds /\ buf' = buf
      BY <1>1 DEF ImgHolds
    <3>2. UNCHANGED <<imgFree, imgData, extra, obj>>
      BY <1>1
    <3>3. \A r : r # "temp" => Kept(owner, owner', r)
      BY <2>4
    <3> QED BY <2>1, <3>1, <3>2, <3>3, Others
  <2> QED BY <2>4, <2>5, <2>8, <2>9 DEF AllInPlace
<1> QED BY <1>1, <1>5, MovePlaced DEF Placed

LEMMA MgrPutBackPlaced == Types /\ Placed /\ BufMgrNext /\ MgrPutBack => Placed'
<1> SUFFICES ASSUME Types, Placed, BufMgrNext, MgrPutBack PROVE Placed'
  OBVIOUS
<1> DEFINE i == received.index
<1>1. /\ mgrPc = "putback" /\ image_put_free_buffer(stored[i])
      /\ stored' = [stored EXCEPT ![i] = received.buf] /\ mgrPc' # "putback"
      /\ UNCHANGED <<imgData, tempQ, extra, obj, buf, imgPc, imgRet, allocated, raced>>
  BY DEF MgrPutBack, Store, BufMgrNext, imgVars, infVars, history
<1>2. stored \in [Indices -> Slots] /\ i \in Indices /\ stored[i] \in Slots
  BY QueueSeqs DEF SpecialObjects
<1> HIDE DEF i
<1>3. ASSUME ~raced
      PROVE  AllInPlace' /\ \A r : r = "unallocated" => Kept(owner, owner', r)
  <2>1. AllInPlace
    BY <1>3 DEF Placed, Exclusive
  <2>2. InPlace(owner, "mgr", stored) /\ HeldBeside(owner, "mgr", received.buf, stored)
    BY <1>1, <2>1 DEF AllInPlace, MgrInPlace
  <2>3. stored[i] \in ImgBufs => owner[stored[i]] = "mgr"
    BY <1>2, <2>2 DEF InPlace
  <2>4. /\ ObjectsInPlace(owner, "free", imgFree)'
        /\ \A r : r # "mgr" => Kept(owner, owner', r)
        /\ KeptBut({stored[i]}, owner, owner', "mgr")
    BY <1>1, <1>2, <2>1, <2>3, FreeOne
  <2>5. received.buf \in ImgBufs =>
          owner'[received.buf] = "mgr" /\ \A k \in Indices \ {i} : stored[k] # received.buf
    BY <1>2, <2>2, <2>4 DEF HeldBeside, KeptBut
  <2>6. InPlace(owner', "mgr", [stored EXCEPT ![i] = received.buf])
    BY <1>2, <2>2, <2>4, <2>5, StorePlaced
  <2>7. MgrInPlace'
    BY <1>1, <2>6 DEF MgrInPlace
  <2>8. /\ ObjectsInPlace(owner, "data", imgData)' /\ InPlace(owner, "temp", TempBufs)'
        /\ ImgInPlace' /\ InPlace(owner, "inf", obj)'
    BY <1>1, <2>1, <2>4, Others DEF ImgHolds
  <2> QED BY <2>4, <2>7, <2>8 DEF AllInPlace
<1> QED BY <1>1, <1>3, MovePlaced DEF Placed

LEMMA MgrEnqueuePlaced == Types /\ Placed /\ BufMgrNext /\ MgrEnqueue => Placed'
<1> SUFFICES ASSUME Types, Placed, BufMgrNext, MgrEnqueue PROVE Placed'
  OBVIOUS
<1> DEFINE o == [k \in 1 .. storedNum |-> stored[k - 1]]
<1>1. /\ imgData' = Append(imgData, o) /\ MoveImg(BufsOf(o), "data")
      /\ stored' = [k \in Indices |-> NULL] /\ mgrPc = "enqueue" /\ mgrPc' = "get"
      /\ UNCHANGED <<imgFree, tempQ, extra, obj, buf, imgPc, imgRet, allocated, raced>>
  BY DEF MgrEnqueue, BufMgrNext, imgVars, infVars, history
<1>2. storedNum \in 1 .. MaxInput /\ stored \in [Indices -> Slots]
  BY <1>1 DEF Shapes, MgrTypeOK, Types, TypeOK, QueueTypeOK
<1>3. \A k \in 1 .. storedNum : k - 1 \in Indices /\ stored[k - 1] \in Slots
  BY <1>2, SizesAssumption DEF Indices
<1>4. o \in Seq(Slots) /\ DOMAIN o = 1 .. storedNum
  BY <1>2, <1>3
<1>5. ASSUME ~raced
      PROVE  AllInPlace' /\ \A r : r = "unallocated" => Kept(owner, owner', r)
  <2>1. AllInPlace
    BY <1>5 DEF Placed, Exclusive
  <2>2. InPlace(owner, "mgr", stored)
    BY <2>1 DEF AllInPlace, MgrInPlace
  <2>3. InPlace(owner, "mgr", o)
    <3> SUFFICES ASSUME NEW k \in 1 .. storedNum, stored[k - 1] \in ImgBufs
                 PROVE  /\ owner[stored[k - 1]] = "mgr"
                        /\ \A l \in 1 .. storedNum : stored[k - 1] = stored[l - 1] => l = k
      BY DEF InPlace
    <3>1. k - 1 \in Indices /\ \A l \in 1 .. storedNum : l - 1 \in Indices
      BY <1>3
    <3>2. /\ owner[stored[k - 1]] = "mgr"
          /\ \A l \in Indices : stored[k - 1] = stored[l] => l = k - 1
      BY <1>2, <2>2, <3>1 DEF InPlace
    <3> QED BY <1>2, <3>1, <3>2
  <2> HIDE DEF o
  <2>4. \A b \in BufsOf(o) \cap ImgBufs : owner[b] = "mgr"
    BY <2>3, BufsInPlace
  <2>5. /\ \A r : r # "mgr" => Kept(owner, owner', r)
        /\ \A b \in BufsOf(o) \cap ImgBufs : owner'[b] = "data"
    BY <1>1, <2>4, MoveKeeps
  <2>6. InPlace(owner', "data", o)
    BY <2>3, <2>5, ObjectMoves
  <2>7. ObjectsInPlace(owner, "data", imgData)'
    <3>1. imgData \in Seq(Seq(Slots)) /\ ObjectsInPlace(owner, "data", imgData)
      BY <2>1, QueueSeqs DEF AllInPlace
    <3>2. ObjectsInPlace(owner', "data", Append(imgData, o))
      BY <1>4, <2>4, <2>5, <2>6, <3>1, ObjectsAppend
    <3> QED BY <1>1, <3>2
  <2>8. MgrInPlace'
    <3>1. \A k \in DOMAIN stored' : stored'[k] \notin ImgBufs
      BY <1>1 DEF NULL, ImgBufs
    <3>2. InPlace(owner', "mgr", stored')
      BY <3>1 DEF InPlace
    <3> QED BY <1>1, <3>2 DEF MgrInPlace
  <2>9. /\ ObjectsInPlace(owner, "free", imgFree)' /\ InPlace(owner, "temp", TempBufs)'
        /\ ImgInPlace' /\ InPlace(owner, "inf", obj)'
    <3>1. ImgHolds' => ImgHolds /\ buf' = buf
      BY <1>1 DEF ImgHolds
    <3>2. UNCHANGED <<imgFree, tempQ, extra, obj>>
      BY <1>1
    <3> QED BY <2>1, <2>5, <3>1, <3>2, Others
  <2> QED BY <2>5, <2>7, <2>8, <2>9 DEF AllInPlace
<1> QED BY <1>1, <1>5, MovePlaced DEF Placed

-----------------------------------------------------------------------------
(* The dispatcher.                                                         *)

LEMMA InfDequeuePlaced == Types /\ Placed /\ InfDequeue => Placed'
<1> SUFFICES ASSUME Types, Placed, InfDequeue PROVE Placed'
  OBVIOUS
<1> DEFINE o == Head(imgData)
<1>1. /\ imgData # <<>> /\ imgData' = Tail(imgData) /\ MoveImg(BufsOf(o), "inf") /\ obj' = o
      /\ UNCHANGED <<imgFree, tempQ, stored, mgrPc, received, extra, buf, imgPc, imgRet,
                     allocated, raced>>
  BY DEF InfDequeue, image_dequeue, mgrVars, imgVars, history
<1>2. imgData \in Seq(Seq(Slots))
  BY QueueSeqs
<1>3. ASSUME ~raced
      PROVE  AllInPlace' /\ \A r : r = "unallocated" => Kept(owner, owner', r)
  <2>1. AllInPlace
    BY <1>3 DEF Placed, Exclusive
  <2>2. InPlace(owner, "data", o)
    BY <1>1, <1>2, <2>1, ObjectsHead DEF AllInPlace
  <2>3. \A b \in BufsOf(o) \cap ImgBufs : owner[b] = "data"
    BY <2>2, BufsInPlace
  <2>4. MoveImg(BufsOf(o), "inf")
    BY <1>1
  <2> HIDE DEF o
  <2>5. /\ \A r : r # "data" => Kept(owner, owner', r)
        /\ KeptBut(BufsOf(o), owner, owner', "data")
        /\ \A b \in BufsOf(o) \cap ImgBufs : owner'[b] = "inf"
    BY <2>3, <2>4, MoveKeeps
  <2>6. InPlace(owner', "inf", o)
    BY <2>2, <2>5, ObjectMoves
  <2>7. ObjectsInPlace(owner', "data", Tail(imgData))
    BY <1>1, <1>2, <2>1, <2>5, ObjectsTail DEF AllInPlace, o
  <2>8. /\ ObjectsInPlace(owner, "free", imgFree)' /\ InPlace(owner, "temp", TempBufs)'
        /\ MgrInPlace' /\ ImgInPlace'
    <3>1. ImgHolds' => ImgHolds
      BY <1>1 DEF ImgHolds
    <3> QED BY <1>1, <2>1, <2>5, <3>1, Others
  <2> QED BY <1>1, <2>5, <2>6, <2>7, <2>8 DEF AllInPlace
<1> QED BY <1>1, <1>3, MovePlaced DEF Placed

LEMMA InfPutFreePlaced == Types /\ Placed /\ InfPutFree => Placed'
<1> SUFFICES ASSUME Types, Placed, InfPutFree PROVE Placed'
  OBVIOUS
<1>1. /\ infPc = "put" /\ image_put_free_buffer(Head(obj)) /\ obj' = Tail(obj)
      /\ UNCHANGED <<imgData, tempQ, stored, mgrPc, received, extra, buf, imgPc, imgRet,
                     allocated, raced>>
  BY DEF InfPutFree, mgrVars, imgVars, history
<1>2. obj \in Seq(Slots) /\ obj # <<>> /\ Head(obj) \in Slots
  BY <1>1, QueueSeqs, TailType DEF Types, Shapes
<1>3. ASSUME ~raced
      PROVE  AllInPlace' /\ \A r : r = "unallocated" => Kept(owner, owner', r)
  <2>1. AllInPlace
    BY <1>3 DEF Placed, Exclusive
  <2>2. InPlace(owner, "inf", obj)
    BY <2>1 DEF AllInPlace
  <2>3. 1 \in DOMAIN obj /\ Head(obj) = obj[1]
    BY <1>2
  <2>4. Head(obj) \in ImgBufs => owner[Head(obj)] = "inf"
    BY <2>2, <2>3 DEF InPlace
  <2>5. /\ ObjectsInPlace(owner, "free", imgFree)'
        /\ \A r : r # "inf" => Kept(owner, owner', r)
        /\ KeptBut({Head(obj)}, owner, owner', "inf")
    BY <1>1, <1>2, <2>1, <2>4, FreeOne
  <2>6. InPlace(owner', "inf", Tail(obj))
    BY <1>2, <2>2, <2>5, FlatTail
  <2>7. /\ ObjectsInPlace(owner, "data", imgData)' /\ InPlace(owner, "temp", TempBufs)'
        /\ MgrInPlace' /\ ImgInPlace'
    BY <1>1, <2>1, <2>5, Others DEF ImgHolds
  <2> QED BY <1>1, <2>5, <2>6, <2>7 DEF AllInPlace
<1> QED BY <1>1, <1>3, MovePlaced DEF Placed

(* The steps about result buffers only.                                    *)
LEMMA ResultStepPlaced ==
  ASSUME Placed, InfGetResultBuffer \/ InfExecute \/ SendNext \/ UNCHANGED vars
  PROVE  Placed'
<1>1. CASE InfGetResultBuffer \/ InfExecute \/ SendNext
  <2>1. UNCHANGED <<imgQueues, owner, allocated, mgrVars, imgVars, obj, raced>>
    BY <1>1 DEF InfGetResultBuffer, InfExecute, SendNext, SendDequeue, SendStart, SendBegins,
       SendDone, SendHangs, SendPutFree, queueVars, imgQueues, mgrVars, infVars,
       history
  <2> QED BY <2>1, Quiet DEF mgrVars, imgVars, ImgHolds, Placed
<1>2. CASE UNCHANGED vars
  <2>1. UNCHANGED <<imgQueues, owner, allocated, mgrVars, imgVars, obj, raced>>
    BY <1>2 DEF vars, queueVars, imgQueues, mgrVars, infVars, history
  <2> QED BY <2>1, Quiet DEF mgrVars, imgVars, ImgHolds, Placed
<1> QED BY <1>1, <1>2

-----------------------------------------------------------------------------
LEMMA StepPlaced == Types /\ Placed /\ [Next]_vars => Placed'
<1> SUFFICES ASSUME Types, Placed, [Next]_vars PROVE Placed'
  OBVIOUS
<1>1. CASE LinkNext \/ HostNext
  BY <1>1, LinkPlaced, HostPlaced
<1>2. CASE ImgNext
  BY <1>2, ImgQuietPlaced, TakeFreePlaced, UnbundlePlaced, ReceivedPlaced, EnqueuePlaced,
     PutFreePlaced, CleanPlaced DEF ImgNext
<1>3. CASE BufMgrNext
  BY <1>3, MgrGetPlaced, MgrPutBackPlaced, MgrEnqueuePlaced DEF BufMgrNext, MgrNext
<1>4. CASE InfNext
  BY <1>4, InfDequeuePlaced, InfPutFreePlaced, ResultStepPlaced DEF InfNext
<1>5. CASE SendNext \/ UNCHANGED vars
  BY <1>5, ResultStepPlaced
<1> QED BY <1>1, <1>2, <1>3, <1>4, <1>5 DEF Next

LEMMA IInvInvariant == Spec => []IInv
<1>1. Init => IInv
  BY InitTypes, InitPlaced DEF IInv
<1>2. IInv /\ [Next]_vars => IInv'
  BY StepTypes, StepPlaced DEF IInv
<1> QED BY <1>1, <1>2, PTL DEF Spec

(* As long as the image thread did not go on without a buffer (ImgRetry),  *)
(* no image buffer is ever in two places: whatever the schedule, however   *)
(* often the link goes down, the queues are reset or images are dropped.   *)
THEOREM ImagesExclusive == Spec => []Exclusive
<1>1. IInv => Exclusive
  BY DEF IInv, Placed
<1> QED BY <1>1, IInvInvariant, PTL

-----------------------------------------------------------------------------
(* Dropping is what the race needs: without an ENABLE_DROPPABLE request it *)
(* cannot happen, ...                                                      *)
NeverDroppable == ~droppable /\ imgPc \notin {"grab", "steal", "retry"} /\ ~raced

LEMMA InitNeverDroppable == Init => NeverDroppable
BY DEF Init, NeverDroppable

LEMMA StepNeverDroppable ==
  ASSUME MaxDrop = 0, Types, NeverDroppable, [Next]_vars
  PROVE  NeverDroppable'
<1> USE DEF NeverDroppable
<1>1. CASE LinkNext
  <2>1. UNCHANGED <<droppable, imgPc, raced>>
    BY <1>1 DEF LinkNext, Configured, Disconnected, VbusOff, LinkLost, ErrandResetDevice,
                    imgVars, history
  <2> QED BY <2>1
<1>2. CASE HostNext
  <2>1. ~ControlDroppable
    BY DEF ControlDroppable, HostTypeOK, Counters, Types, TypeOK
  <2> QED BY <1>2, <2>1 DEF HostNext, ControlConfigure, ControlReset, HostBegins,
             HostSendsImage, HostSendsCommand, SendDma, HostReads, linkVars, imgVars, history
<1>3. CASE ImgNext
  <2>1. ~ImgGrabFails /\ ~ImgRetry
    BY DEF ImgGrabFails, ImgRetry
  <2>2. CASE ImgReceived \/ ImgFailed
    <3>1. UNCHANGED <<droppable, raced>>
      BY <2>2 DEF ImgReceived, ImgFailed, history
    <3>2. imgPc' \notin {"grab", "steal", "retry"}
      BY <2>2 DEF ImgReceived, ImgFailed, Parse, ParseHeader, ParseRest, NextRecv
    <3> QED BY <3>1, <3>2
  <2>3. CASE ImgCleaned
    <3>1. imgPc' \in {"recv", "swap", "wait", "put"}
      BY <2>3 DEF ImgCleaned, ImgTypeOK, Types, TypeOK
    <3> QED BY <2>3, <3>1 DEF ImgCleaned, history
  <2>4. CASE ImgWaitConnection \/ ImgGet \/ ImgTakeFree \/ ImgUnbundle \/ ImgReceive
             \/ ImgMark \/ ImgArm \/ ImgSwap \/ ImgEnqueue
    BY <2>4 DEF ImgWaitConnection, ImgGet, ImgTakeFree, ImgUnbundle, ImgReceive, ImgMark,
       ImgArm, ImgSwap, ImgEnqueue, Received, NextRecv, imgElse, linkVars, history
  <2>5. CASE ImgCommand \/ ImgCommandBegins \/ ImgCommandDone \/ ImgCommandTimeout
             \/ ImgPutFree \/ ImgCleanImages \/ ImgCleanResults
    BY <2>5 DEF ImgCommand, ImgCommandBegins, ImgCommandDone, ImgCommandTimeout, ImgPutFree,
       ImgCleanImages, ImgCleanResults, imgVars, linkVars, history
  <2> QED BY <1>3, <2>1, <2>2, <2>3, <2>4, <2>5 DEF ImgNext
<1>4. CASE BufMgrNext
  BY <1>4 DEF BufMgrNext, linkVars, imgVars, history
<1>5. CASE InfNext
  BY <1>5 DEF InfNext, InfDequeue, InfGetResultBuffer, InfExecute, InfPutFree, linkVars,
     imgVars, history
<1>6. CASE SendNext
  BY <1>6 DEF SendNext, SendDequeue, SendStart, SendBegins, SendDone, SendHangs, SendPutFree,
     linkVars, imgVars, history
<1>7. CASE UNCHANGED vars
  BY <1>7 DEF vars, linkVars, imgVars, history
<1> QED BY <1>1, <1>2, <1>3, <1>4, <1>5, <1>6, <1>7 DEF Next

(* ... so with a host that never asks to drop images the buffers are       *)
(* exclusive without any condition.                                        *)
THEOREM ExclusiveWithoutDropping == ASSUME MaxDrop = 0 PROVE Spec => []AllInPlace
<1>1. Types /\ NeverDroppable /\ [Next]_vars => NeverDroppable'
  BY StepNeverDroppable
<1>2. Exclusive /\ NeverDroppable => AllInPlace
  BY DEF Exclusive, NeverDroppable
<1> QED BY <1>1, <1>2, InitNeverDroppable, TypesInvariant, ImagesExclusive, PTL DEF Spec

-----------------------------------------------------------------------------
(* Result buffers.                                                         *)

(* Before the configuration no result buffer is anywhere either.           *)
ResPlaced ==
  /\ ResultExclusive
  /\ ~allocated => \A r \in ResBufs : resOwner[r] = "unallocated"

LEMMA InitResPlaced == Init => ResPlaced
<1> SUFFICES ASSUME Init PROVE ResPlaced
  OBVIOUS
<1>1. DOMAIN resFree = {} /\ DOMAIN resData = {}
  BY DEF Init, QueueInit
<1> QED BY <1>1 DEF Init, QueueInit, ResPlaced, ResultExclusive, Once

(* The sequence s of different buffers grows by one that is not in it, or  *)
(* loses its head.                                                         *)
LEMMA OnceAppend ==
  ASSUME NEW S, NEW s \in Seq(S), NEW x \in S, Once(s), \A i \in DOMAIN s : s[i] # x
  PROVE  Once(Append(s, x)) /\ \A i \in DOMAIN Append(s, x) :
           Append(s, x)[i] = x \/ (i \in DOMAIN s /\ Append(s, x)[i] = s[i])
<1> DEFINE a == Append(s, x)
<1>1. /\ DOMAIN a = 1 .. Len(s) + 1 /\ DOMAIN s = 1 .. Len(s) /\ Len(s) \in Nat
      /\ \A i \in 1 .. Len(s) : a[i] = s[i]
      /\ a[Len(s) + 1] = x
  OBVIOUS
<1> HIDE DEF a
<1>2. \A i, j \in 1 .. Len(s) : s[i] = s[j] => i = j
  BY <1>1 DEF Once
<1>3. Once(a)
  <2> SUFFICES ASSUME NEW i \in 1 .. Len(s) + 1, NEW j \in 1 .. Len(s) + 1, a[i] = a[j]
               PROVE  i = j
    BY <1>1 DEF Once
  <2>1. CASE i \in 1 .. Len(s) /\ j \in 1 .. Len(s)
    BY <1>1, <1>2, <2>1
  <2>2. CASE i = Len(s) + 1 \/ j = Len(s) + 1
    BY <1>1, <2>2
  <2> QED BY <1>1, <2>1, <2>2
<1> QED BY <1>1, <1>3 DEF a

LEMMA OnceTail ==
  ASSUME NEW S, NEW s \in Seq(S), s # <<>>, Once(s)
  PROVE  /\ Once(Tail(s)) /\ 1 \in DOMAIN s /\ Head(s) = s[1]
         /\ \A i \in DOMAIN Tail(s) : /\ i + 1 \in DOMAIN s /\ Tail(s)[i] = s[i + 1]
                                     /\ Tail(s)[i] # Head(s)
<1>1. /\ DOMAIN Tail(s) = 1 .. Len(s) - 1 /\ DOMAIN s = 1 .. Len(s)
      /\ \A k \in 1 .. Len(s) - 1 : Tail(s)[k] = s[k + 1]
      /\ Head(s) = s[1] /\ Len(s) \in Nat /\ Len(s) >= 1
  OBVIOUS
<1>2. \A i, j \in 1 .. Len(s) : s[i] = s[j] => i = j
  BY <1>1 DEF Once
<1>3. \A i \in 1 .. Len(s) - 1 : i + 1 \in 1 .. Len(s) /\ i + 1 # 1 /\ 1 \in 1 .. Len(s)
  BY <1>1
<1>4. Once(Tail(s))
  BY <1>1, <1>2, <1>3 DEF Once
<1> QED BY <1>1, <1>2, <1>3, <1>4

(* A step that moves no result buffer.                                     *)
LEMMA ResQuiet ==
  ASSUME ResPlaced, UNCHANGED <<resQueues, resOwner, allocated>>,
         infPc' = "execute" => infPc = "execute" /\ resBuf' = resBuf,
         sendPc' # "get" => sendPc # "get" /\ sendBuf' = sendBuf
  PROVE  ResPlaced'
BY DEF ResPlaced, ResultExclusive, resQueues, Once

LEMMA ResConfigure == Types /\ ResPlaced /\ ControlConfigure => ResPlaced'
<1> SUFFICES ASSUME Types, ResPlaced, ControlConfigure PROVE ResPlaced'
  OBVIOUS
<1>1. /\ ~allocated /\ allocated' /\ resFree' = [i \in 1 .. NumRes |-> i]
      /\ resOwner' = [b \in ResBufs |-> "free"]
      /\ UNCHANGED <<resData, infPc, resBuf, sendPc, sendBuf>>
  BY DEF ControlConfigure, fill_free_queues, infVars, sendVars
<1>2. \A r \in ResBufs : resOwner[r] = "unallocated"
  BY <1>1 DEF ResPlaced
<1>3. infPc # "execute" /\ sendPc = "get"
  BY <1>2 DEF ResPlaced, ResultExclusive
<1>4. DOMAIN resData = {}
  <2>1. resData \in Seq(ResBufs)
    BY DEF Types, TypeOK, QueueTypeOK, ResQueueTypeOK
  <2> QED BY <1>2, <2>1 DEF ResPlaced, ResultExclusive
<1>5. DOMAIN resFree' = ResBufs /\ \A i \in ResBufs : resFree'[i] = i
  BY <1>1 DEF ResBufs
<1>6. ResultExclusive'
  BY <1>1, <1>3, <1>4, <1>5 DEF ResultExclusive, Once
<1> QED BY <1>1, <1>6 DEF ResPlaced

LEMMA ResMoves ==
  ASSUME Types, ResPlaced,
         \/ ImgCleanResults \/ InfGetResultBuffer \/ InfExecute
         \/ SendDequeue \/ SendPutFree
  PROVE  ResPlaced'
<1>1. resFree \in Seq(ResBufs) /\ resData \in Seq(ResBufs) /\ resOwner \in [ResBufs -> ResPlaces]
  BY DEF Types, TypeOK, QueueTypeOK, ResQueueTypeOK
<1> USE DEF ResPlaced, ResultExclusive, MoveRes
<1>2. CASE ImgCleanResults
  <2>1. resData # <<>> /\ resData' = Tail(resData)
        /\ UNCHANGED <<infPc, resBuf, sendPc, sendBuf, allocated>>
    BY <1>2 DEF ImgCleanResults, clean_result_object, infVars, sendVars
  <2>2. Head(resData) \in ResBufs /\ resOwner[Head(resData)] = "data"
    BY <1>1, <2>1, TailType, OnceTail
  <2>3. CASE Len(resFree) < ResCap
    <3>1. resFree' = Append(resFree, Head(resData)) /\ MoveRes(Head(resData), "free")
      BY <1>2, <2>3 DEF ImgCleanResults, clean_result_object
    <3>2. \A i \in DOMAIN resFree : resFree[i] \in ResBufs /\ resFree[i] # Head(resData)
      BY <1>1, <2>2
    <3>3. Once(resFree') /\ \A i \in DOMAIN resFree' : resOwner'[resFree'[i]] = "free"
      BY <1>1, <2>2, <3>1, <3>2, OnceAppend
    <3>4. Once(resData') /\ \A i \in DOMAIN resData' : resOwner'[resData'[i]] = "data"
      BY <1>1, <2>1, <3>1, OnceTail
    <3> QED BY <2>1, <2>2, <3>1, <3>3, <3>4
  <2>4. CASE ~(Len(resFree) < ResCap)
    <3>1. UNCHANGED <<resFree, resOwner>>
      BY <1>2, <2>4 DEF ImgCleanResults, clean_result_object
    <3> QED BY <1>1, <2>1, <3>1, OnceTail
  <2> QED BY <2>3, <2>4
<1>3. CASE InfGetResultBuffer
  <2>1. /\ resFree # <<>> /\ resFree' = Tail(resFree) /\ MoveRes(Head(resFree), "inf")
        /\ resBuf' = Head(resFree) /\ UNCHANGED <<resData, sendPc, sendBuf, allocated>>
    BY <1>3 DEF InfGetResultBuffer, result_get_free_buffer, sendVars
  <2>2. Head(resFree) \in ResBufs /\ resOwner[Head(resFree)] = "free"
    BY <1>1, <2>1, TailType, OnceTail
  <2>3. Once(resFree') /\ \A i \in DOMAIN resFree' : resOwner'[resFree'[i]] = "free"
    BY <1>1, <2>1, OnceTail
  <2>4. \A i \in DOMAIN resData : resOwner'[resData[i]] = "data"
    BY <1>1, <2>1, <2>2
  <2> QED BY <1>1, <2>1, <2>2, <2>3, <2>4
<1>4. CASE InfExecute
  <2>1. infPc = "execute" /\ infPc' # "execute" /\ result_enqueue(resBuf)
        /\ UNCHANGED <<resFree, sendPc, sendBuf, allocated>>
    BY <1>4 DEF InfExecute, sendVars
  <2>2. resBuf \in ResBufs /\ resOwner[resBuf] = "inf"
    BY <2>1
  <2>3. CASE Len(resData) < ResCap
    <3>1. resData' = Append(resData, resBuf) /\ MoveRes(resBuf, "data")
      BY <2>1, <2>3 DEF result_enqueue
    <3>2. \A i \in DOMAIN resData : resData[i] # resBuf
      BY <1>1, <2>2
    <3>3. Once(resData') /\ \A i \in DOMAIN resData' : resOwner'[resData'[i]] = "data"
      BY <1>1, <2>2, <3>1, <3>2, OnceAppend
    <3>4. \A i \in DOMAIN resFree : resOwner'[resFree[i]] = "free"
      BY <1>1, <2>2, <3>1
    <3> QED BY <1>1, <2>1, <2>2, <3>1, <3>3, <3>4
  <2>4. CASE ~(Len(resData) < ResCap)
    BY <2>1, <2>4 DEF result_enqueue
  <2> QED BY <2>3, <2>4
<1>5. CASE SendDequeue
  <2>1. /\ resData # <<>> /\ resData' = Tail(resData) /\ MoveRes(Head(resData), "send")
        /\ sendPc = "get" /\ sendBuf' = Head(resData) /\ UNCHANGED <<resFree, infPc, resBuf, allocated>>
    BY <1>5 DEF SendDequeue, result_dequeue, infVars
  <2>2. Head(resData) \in ResBufs /\ resOwner[Head(resData)] = "data"
    BY <1>1, <2>1, TailType, OnceTail
  <2>3. Once(resData') /\ \A i \in DOMAIN resData' : resOwner'[resData'[i]] = "data"
    BY <1>1, <2>1, OnceTail
  <2>4. \A i \in DOMAIN resFree : resOwner'[resFree[i]] = "free"
    BY <1>1, <2>1, <2>2
  <2> QED BY <1>1, <2>1, <2>2, <2>3, <2>4
<1>6. CASE SendPutFree
  <2>1. /\ resFree' = Append(resFree, sendBuf) /\ MoveRes(sendBuf, "free")
        /\ sendPc # "get" /\ sendPc' = "get" /\ UNCHANGED <<resData, infPc, resBuf, allocated>>
    BY <1>6 DEF SendPutFree, result_put_free_buffer, infVars
  <2>2. sendBuf \in ResBufs /\ resOwner[sendBuf] = "send"
    BY <2>1
  <2>3. \A i \in DOMAIN resFree : resFree[i] # sendBuf
    BY <1>1, <2>2
  <2>4. Once(resFree') /\ \A i \in DOMAIN resFree' : resOwner'[resFree'[i]] = "free"
    BY <1>1, <2>1, <2>2, <2>3, OnceAppend
  <2>5. \A i \in DOMAIN resData : resOwner'[resData[i]] = "data"
    BY <1>1, <2>1, <2>2
  <2> QED BY <1>1, <2>1, <2>2, <2>4, <2>5
<1> QED BY <1>2, <1>3, <1>4, <1>5, <1>6

LEMMA StepResPlaced == Types /\ ResPlaced /\ [Next]_vars => ResPlaced'
<1> SUFFICES ASSUME Types, ResPlaced, [Next]_vars PROVE ResPlaced'
  OBVIOUS
<1> USE DEF queueVars, resQueues, infVars, sendVars
<1>1. CASE LinkNext
  BY <1>1, ResQuiet
     DEF LinkNext, Configured, Disconnected, VbusOff, LinkLost, ErrandResetDevice
<1>2. CASE HostNext
  <2>1. CASE ControlConfigure
    BY <2>1, ResConfigure
  <2>2. CASE ~ControlConfigure
    BY <1>2, <2>2, ResQuiet DEF HostNext, ControlReset, ControlDroppable, HostBegins,
       HostSendsImage, HostSendsCommand, SendDma, HostReads
  <2> QED BY <2>1, <2>2
<1>3. CASE ImgNext
  <2>1. CASE ImgCleanResults
    BY <2>1, ResMoves
  <2>2. CASE ~ImgCleanResults
    <3>1. UNCHANGED <<resQueues, resOwner, allocated, infVars, sendVars>>
      BY <1>3, <2>2 DEF ImgNext, ImgWaitConnection, ImgGet, ImgTakeFree, ImgUnbundle,
         ImgGrabFails, ImgRetry, ImgReceive, ImgMark, ImgArm, ImgReceived, ImgFailed, ImgSwap,
         ImgEnqueue, ImgCommand, ImgCommandBegins, ImgCommandDone, ImgCommandTimeout,
         ImgPutFree, ImgCleanImages, ImgCleaned
    <3> QED BY <3>1, ResQuiet
  <2> QED BY <2>1, <2>2
<1>4. CASE BufMgrNext
  BY <1>4, ResQuiet DEF BufMgrNext, MgrNext, MgrGet, MgrPutBack, MgrEnqueue
<1>5. CASE InfNext
  <2>1. CASE InfGetResultBuffer \/ InfExecute
    BY <2>1, ResMoves
  <2>2. CASE InfDequeue \/ InfPutFree
    BY <2>2, ResQuiet DEF InfDequeue, InfPutFree
  <2> QED BY <1>5, <2>1, <2>2 DEF InfNext
<1>6. CASE SendNext
  <2>1. CASE SendDequeue \/ SendPutFree
    BY <2>1, ResMoves
  <2>2. CASE SendStart \/ SendBegins \/ SendDone \/ SendHangs
    BY <2>2, ResQuiet DEF SendStart, SendBegins, SendDone, SendHangs
  <2> QED BY <1>6, <2>1, <2>2 DEF SendNext
<1>7. CASE UNCHANGED vars
  BY <1>7, ResQuiet DEF vars
<1> QED BY <1>1, <1>2, <1>3, <1>4, <1>5, <1>6, <1>7 DEF Next

(* No result buffer is ever in two places, and the one that is filled or   *)
(* sent is nobody else's, whatever the schedule and the host, dropping     *)
(* included.                                                               *)
THEOREM ResultsExclusive == Spec => []ResultExclusive
<1>1. ResPlaced => ResultExclusive
  BY DEF ResPlaced
<1>2. Types /\ ResPlaced /\ [Next]_vars => ResPlaced'
  BY StepResPlaced
<1> QED BY <1>1, <1>2, InitResPlaced, TypesInvariant, PTL DEF Spec

-----------------------------------------------------------------------------
(* Receiving.                                                              *)

(* The event of DATA_OUT is for the image thread that arms the DMA or      *)
(* waits for it.  An endpoint that is marked has had no event since, and   *)
(* neither has a DMA that was armed in time: it waits for the data of the  *)
(* receive the image thread waits for.                                     *)
Receiving ==
  /\ evt["out"] => imgPc \in {"arm", "recv_wait"}
  /\ (link \/ imgPc = "arm") /\ ep["out"] = "xfer" =>
       imgPc \in {"arm", "recv_wait"} /\ ~evt["out"]
  /\ ~late /\ armed =>
       /\ imgPc = "recv_wait" /\ ~evt["out"] /\ ep["out"] = "xfer"
       /\ dma = [buf |-> buf, at |-> recvLen]

LEMMA InitReceiving == Init => Receiving
BY DEF Init, Receiving, Endpoints

(* The steps of others change neither the event nor the status of DATA_OUT *)
(* nor its DMA.                                                            *)
LEMMA ReceivingKept ==
  ASSUME Receiving, UNCHANGED <<link, imgPc, buf, recvLen, dma, armed>>, late => late',
         evt'["out"] = evt["out"], ep'["out"] = ep["out"]
  PROVE  Receiving'
BY DEF Receiving

LEMMA OutUntouched ==
  ASSUME Types, \/ transfer_done("in") \/ transfer_wakes("in") \/ send_wakes
                \/ (\E b : send_begins(b)) /\ UNCHANGED evt
                \/ \E up \in BOOLEAN : reset_endpoint({"in"}, up)
  PROVE  evt'["out"] = evt["out"] /\ ep'["out"] = ep["out"]
<1>1. ep \in [Endpoints -> {"na", "idle", "xfer", "done", "term"}]
      /\ evt \in [Endpoints -> BOOLEAN]
  BY DEF Types, TypeOK, LinkTypeOK
<1>2. CASE transfer_done("in") \/ transfer_wakes("in")
  BY <1>1, <1>2 DEF transfer_done, transfer_wakes, Endpoints
<1>3. CASE send_wakes
  BY <1>1, <1>2, <1>3 DEF send_wakes, transfer_wakes, Endpoints
<1>4. CASE (\E b : send_begins(b)) /\ UNCHANGED evt
  BY <1>1, <1>4 DEF send_begins, Endpoints
<1>5. CASE \E up \in BOOLEAN : reset_endpoint({"in"}, up)
  <2>1. PICK up \in BOOLEAN : reset_endpoint({"in"}, up)
    BY <1>5
  <2>2. "out" \in Endpoints /\ "out" \notin {"in"} /\ evt["out"] \in BOOLEAN
    BY <1>1 DEF Endpoints
  <2>3. ep'["out"] = ep["out"]
    BY <2>1, <2>2 DEF reset_endpoint
  <2>4. evt'["out"] = (evt["out"] \/ ("out" \in {"in"} /\ ep["out"] = "xfer"))
    BY <2>1, <2>2 DEF reset_endpoint
  <2>5. evt'["out"] = evt["out"]
    BY <2>2, <2>4
  <2> QED BY <2>3, <2>5
<1> QED BY <1>2, <1>3, <1>4, <1>5

LEMMA StepReceiving == Types /\ Receiving /\ [Next]_vars => Receiving'
<1> SUFFICES ASSUME Types, Receiving, [Next]_vars PROVE Receiving'
  OBVIOUS
<1>1. ep \in [Endpoints -> {"na", "idle", "xfer", "done", "term"}]
      /\ evt \in [Endpoints -> BOOLEAN] /\ "out" \in Endpoints /\ link \in BOOLEAN
      /\ armed \in BOOLEAN /\ late \in BOOLEAN
  BY DEF Types, TypeOK, LinkTypeOK, HistoryTypeOK, Endpoints
<1> USE DEF imgVars, memVars, linkVars, epVars, history
<1>2. CASE LinkNext
  <2>1. CASE Configured
    BY <1>1, <2>1 DEF Configured, Receiving
  <2>2. CASE Disconnected
    <3>1. ep'["out"] # "xfer" /\ ~armed' /\ UNCHANGED imgPc
      BY <1>1, <2>2 DEF Disconnected, LinkLost, reset_endpoint, Stopped, Available
    <3>2. evt'["out"] = (evt["out"] \/ ep["out"] = "xfer") /\ link
      BY <1>1, <2>2 DEF Disconnected, LinkLost, reset_endpoint
    <3> QED BY <3>1, <3>2 DEF Receiving
  <2>4. CASE VbusOff
    BY <1>1, <2>4 DEF VbusOff, LinkLost, Receiving
  <2>3. CASE ErrandResetDevice
    <3>1. evt'["out"] = (imgPc = "recv_wait") /\ ~link' /\ imgPc' = imgPc /\ ~armed'
      BY <1>1, <2>3 DEF ErrandResetDevice, Endpoints
    <3> QED BY <3>1 DEF Receiving
  <2> QED BY <1>2, <2>1, <2>2, <2>3, <2>4 DEF LinkNext
<1>3. CASE HostNext
  <2>1. CASE ControlReset
    BY <1>1, <2>1 DEF ControlReset, reset_endpoint, Stopped, Available, Receiving
  <2>2. CASE HostSendsImage \/ HostSendsCommand
    <3>1. \/ \E kind \in {"inf", "big", "part"} : Land(HostItem(kind))
          \/ Land([Nothing EXCEPT !.kind = "cmd", !.req = count.cmd + 1])
      BY <2>2 DEF HostSendsImage, HostSendsCommand
    <3>2. ~armed' /\ (transfer_done("out") \/ UNCHANGED <<ep, evt>>)
      BY <3>1 DEF Land
    <3>3. UNCHANGED <<link, imgPc>> /\ link
      BY <2>2 DEF HostSendsImage, HostSendsCommand
    <3>4. CASE transfer_done("out")
      <4>1. ep["out"] = "xfer" /\ ep'["out"] = "done"
        BY <1>1, <3>4 DEF transfer_done
      <4> QED BY <3>2, <3>3, <4>1 DEF Receiving
    <3>5. CASE UNCHANGED <<ep, evt>>
      BY <3>2, <3>3, <3>5 DEF Receiving
    <3> QED BY <3>2, <3>4, <3>5
  <2>3. CASE SendDma
    <3>1. evt'["out"] = evt["out"] /\ ep'["out"] = ep["out"]
      BY <2>3, OutUntouched DEF SendDma
    <3> QED BY <2>3, <3>1, ReceivingKept DEF SendDma
  <2>4. CASE HostReads
    <3>1. evt'["out"] = evt["out"] /\ ep'["out"] = ep["out"]
      BY <2>4, OutUntouched DEF HostReads
    <3> QED BY <2>4, <3>1, ReceivingKept DEF HostReads
  <2>5. CASE ControlConfigure \/ ControlDroppable \/ HostBegins
    BY <2>5, ReceivingKept DEF ControlConfigure, ControlDroppable, HostBegins
  <2> QED BY <1>3, <2>1, <2>2, <2>3, <2>4, <2>5 DEF HostNext
<1>4. CASE ImgNext
  <2>1. CASE ImgReceive \/ ImgMark
    BY <1>1, <2>1 DEF ImgReceive, ImgMark, Receiving
  <2>4. CASE ImgArm
    BY <1>1, <2>4 DEF ImgArm, Receiving
  <2>2. CASE ImgReceived
    <3>1. transfer_wakes("out") /\ UNCHANGED <<link, armed, late>> /\ imgPc = "recv_wait"
          /\ imgPc' # "arm"
      BY <2>2 DEF ImgReceived, Parse, ParseHeader, ParseRest, NextRecv
    <3>2. evt["out"] /\ ~evt'["out"] /\ (ep'["out"] = "xfer" => ep["out"] = "xfer")
      BY <1>1, <3>1 DEF transfer_wakes, Available
    <3> QED BY <3>1, <3>2 DEF Receiving
  <2>3. CASE ~ImgReceive /\ ~ImgMark /\ ~ImgArm /\ ~ImgReceived
    <3>1. imgPc \notin {"arm", "recv_wait"}
      BY <1>4, <2>3 DEF ImgNext, ImgWaitConnection, ImgGet, ImgTakeFree, ImgUnbundle,
         ImgGrabFails, ImgRetry, ImgFailed, ImgSwap, ImgEnqueue, ImgCommand, ImgCommandBegins,
         ImgCommandDone, ImgCommandTimeout, ImgPutFree, ImgCleanImages, ImgCleanResults,
         ImgCleaned
    <3>3. imgPc' # "arm"
      <4>1. CASE ImgFailed
        BY <4>1 DEF ImgFailed, Parse, ParseHeader, ParseRest, NextRecv
      <4>2. CASE ImgCleaned
        BY <4>2 DEF ImgCleaned, ImgTypeOK, Types, TypeOK
      <4>3. CASE \/ ImgWaitConnection \/ ImgGet \/ ImgTakeFree \/ ImgUnbundle \/ ImgGrabFails
                 \/ ImgRetry \/ ImgSwap \/ ImgEnqueue \/ ImgPutFree
        BY <4>3 DEF ImgWaitConnection, ImgGet, ImgTakeFree, ImgUnbundle, ImgGrabFails, ImgRetry,
           ImgSwap, ImgEnqueue, ImgPutFree, Received, NextRecv
      <4>4. CASE ImgCommand \/ ImgCommandDone \/ ImgCommandTimeout
        BY <4>4 DEF ImgCommand, ImgCommandDone, ImgCommandTimeout
      <4>5. CASE ImgCommandBegins \/ ImgCleanImages \/ ImgCleanResults
        BY <3>1, <4>5 DEF ImgCommandBegins, ImgCleanImages, ImgCleanResults
      <4> QED BY <1>4, <2>3, <4>1, <4>2, <4>3, <4>4, <4>5 DEF ImgNext
    <3>4. (armed' => armed) /\ (late => late')
      <4>1. CASE ImgCleaned
        BY <1>1, <4>1 DEF ImgCleaned, reset_endpoint
      <4>2. CASE ImgCommandBegins
        <5>1. armed' = armed
          BY <4>2 DEF ImgCommandBegins
        <5>2. late => late'
          BY <4>2 DEF ImgCommandBegins, send_begins
        <5> QED BY <5>1, <5>2
      <4>3. CASE UNCHANGED <<armed, late>>
        BY <4>3
      <4> QED BY <1>4, <2>3, <4>1, <4>2, <4>3 DEF ImgNext, ImgWaitConnection, ImgGet,
                 ImgTakeFree, ImgUnbundle, ImgGrabFails, ImgRetry, ImgFailed, ImgSwap, ImgEnqueue,
                 ImgCommand, ImgCommandDone, ImgCommandTimeout, ImgPutFree, ImgCleanImages,
                 ImgCleanResults, imgElse
    <3>2. link' = link /\ evt'["out"] = evt["out"] /\ ep'["out"] = ep["out"]
      <4>1. CASE ImgCommand \/ ImgCommandBegins \/ ImgCommandDone
        BY <4>1, OutUntouched DEF ImgCommand, ImgCommandBegins, ImgCommandDone
      <4>2. CASE ImgCommandTimeout
        BY <1>1, <4>2 DEF ImgCommandTimeout
      <4>3. CASE ImgCleaned
        BY <1>1, <4>3, OutUntouched DEF ImgCleaned
      <4>4. CASE UNCHANGED <<link, epVars>>
        BY <4>4
      <4> QED BY <1>4, <2>3, <4>1, <4>2, <4>3, <4>4 DEF ImgNext, ImgWaitConnection, ImgGet,
                 ImgTakeFree, ImgUnbundle, ImgGrabFails, ImgRetry, ImgFailed, ImgSwap,
                 ImgEnqueue, ImgPutFree, ImgCleanImages, ImgCleanResults, imgElse
    <3> QED BY <1>1, <3>1, <3>2, <3>3, <3>4 DEF Receiving
  <2> QED BY <1>4, <2>1, <2>2, <2>3, <2>4
<1>5. CASE BufMgrNext
  BY <1>5, ReceivingKept DEF BufMgrNext
<1>6. CASE InfNext
  BY <1>6, ReceivingKept DEF InfNext, InfDequeue, InfGetResultBuffer, InfExecute, InfPutFree
<1>7. CASE SendNext
  <2>1. UNCHANGED <<link, imgPc, buf, recvLen, dma, armed>> /\ (late => late')
    <3>1. CASE SendBegins
      <4>1. UNCHANGED <<link, imgPc, buf, recvLen, dma, armed>>
        BY <3>1 DEF SendBegins, imgVars
      <4>2. late => late'
        BY <3>1 DEF SendBegins, send_begins
      <4> QED BY <4>1, <4>2
    <3>2. CASE ~SendBegins
      BY <1>7, <3>2 DEF SendNext, SendDequeue, SendStart, SendDone, SendHangs, SendPutFree
    <3> QED BY <3>1, <3>2
  <2>2. evt'["out"] = evt["out"] /\ ep'["out"] = ep["out"]
    BY <1>7, OutUntouched DEF SendNext, SendDequeue, SendStart, SendBegins, SendDone,
       SendHangs, SendPutFree
  <2> QED BY <2>1, <2>2, ReceivingKept
<1>8. CASE UNCHANGED vars
  BY <1>8, ReceivingKept DEF vars
<1> QED BY <1>2, <1>3, <1>4, <1>5, <1>6, <1>7, <1>8 DEF Next

(* With a host that never asks to drop images an armed DMA never writes to *)
(* an image buffer but the one the image thread waits for, however the     *)
(* link goes up and down and the endpoints are reset, unless that comes    *)
(* between the marking of an endpoint and the arming of its DMA: no DMA    *)
(* into an image that is queued or being read by the NPU.                  *)
THEOREM ReceivesExclusive == ASSUME MaxDrop = 0 PROVE Spec => []DmaExclusive
<1>1. AllInPlace /\ Receiving => DmaExclusive
  BY DEF AllInPlace, ImgInPlace, ImgHolds, HeldBeside, Receiving, DmaExclusive
<1>2. Types /\ Receiving /\ [Next]_vars => Receiving'
  BY StepReceiving
<1>3. Spec => []AllInPlace
  BY ExclusiveWithoutDropping
<1> QED BY <1>1, <1>2, <1>3, InitReceiving, TypesInvariant, PTL DEF Spec

-----------------------------------------------------------------------------
(* An image follows another: it is the next of the same inference, or the  *)
(* first of one.                                                           *)
Follows(a, b) == \/ b.index = 0
                 \/ b.index = a.index + 1 /\ b.total = a.total

(* The image thread has begun to receive an image or a command ...         *)
WaitsForBuffer == imgPc \in {"get", "block", "grab", "steal", "retry", "unbundle"}
InReceive == \/ imgPc \in {"recv", "mark", "arm", "recv_wait", "failed", "swap"}
             \/ WaitsForBuffer /\ imgRet = "swap"
Landed == imgPc = "recv_wait" /\ ep["out"] = "done"

(* ... of which this many transfers are in its buffer,                     *)
Got == (IF InReceive THEN recvLen ELSE 0) + (IF Landed THEN 1 ELSE 0)

(* and the header of an image it will hand on.                             *)
NewHeader == Landed /\ recvLen = 0
HasHeader == \/ imgPc = "enqueue"
             \/ InReceive /\ recvLen >= 1 /\ recvType = "inf"
             \/ NewHeader /\ IsInf(content[buf].head)
Header == IF NewHeader THEN content[buf].head ELSE hdr

LastQueued == IF tempQ = <<>> THEN received ELSE tempQ[Len(tempQ)]
LastImage == IF HasHeader THEN Header ELSE LastQueued

(* The host sends the first transfer of an inference next, if any.         *)
Fresh == host.open => host.index = 0 /\ host.chunk = 0

(* How the image thread and its endpoint stand, as long as no DMA was      *)
(* armed late.                                                             *)
ReceiveInv ==
  /\ host.open => link /\ host.index < host.total
  /\ host.chunk < ImgChunks
  /\ link /\ imgPc \notin {"arm", "recv_wait"} => ep["out"] = "idle"
  /\ link => ep["out"] # "na"
  /\ imgPc = "failed" => Fresh
  /\ imgPc = "recv_wait" /\ ep["out"] \notin {"xfer", "done"} => Fresh
  /\ Landed /\ recvLen >= 1 /\ content[buf].rest.kind = "cmd" => Fresh

(* How much of an image it has.                                            *)
LengthInv ==
  /\ WaitsForBuffer => imgRet \in {"recv", "swap"}
  /\ imgPc \in {"block", "grab", "steal", "retry", "unbundle"} /\ imgRet = "recv" =>
       recvLen = 0
  /\ imgPc = "swap" \/ (WaitsForBuffer /\ imgRet = "swap") =>
       recvType = "inf" /\ wantLen = ImgChunks /\ recvLen \in {0, 1} /\ allocated
  /\ imgPc \in {"recv", "mark", "arm", "recv_wait", "failed"} =>
       \/ recvLen = 0
       \/ recvLen = 1 /\ wantLen = 2 /\ ImgChunks = 2
  /\ imgPc = "enqueue" => recvLen >= 1
  /\ imgPc \in {"clean_img", "clean_res"} => imgRet \in {"wait", "put"}

(* The images come one after the other, from buf_mgr to the host.          *)
LineInv ==
  /\ received.index < received.total
  /\ \A i \in DOMAIN tempQ : tempQ[i].index < tempQ[i].total
  /\ \A i \in DOMAIN tempQ : i > 1 => Follows(tempQ[i - 1], tempQ[i])
  /\ tempQ # <<>> => Follows(received, tempQ[1])
  /\ HasHeader => Header.index < Header.total /\ Follows(LastQueued, Header)
  /\ host.open /\ imgPc # "dead" =>
       IF host.chunk = 1 /\ Got = 1
       THEN HasHeader /\ Header.index = host.index /\ Header.total = host.total
       ELSE Follows(LastImage, host)

(* What buf_mgr has stored.                                                *)
StoredAt == {i \in Indices : stored[i] # NULL}
EndOrStart == received.index = 0 \/ received.index = received.total - 1
StoredInv ==
  /\ mgrPc = "get" =>
       \/ numReceived = 0 /\ StoredAt = {} /\ EndOrStart
       \/ /\ StoredAt = 0 .. numReceived - 1
          /\ received.index < numReceived /\ numReceived # received.total
       \/ StoredAt = 1 .. numReceived /\ received.index = numReceived
  /\ mgrPc = "putback" =>
       /\ StoredAt = 0 .. numReceived - 1 /\ received.index < numReceived
       /\ received.index = 0 \/ numReceived # received.total
       /\ storedNum = received.total
  /\ mgrPc = "enqueue" =>
       /\ StoredAt = 0 .. numReceived - 1
       /\ numReceived = received.total /\ storedNum = received.total
       /\ EndOrStart

(* No address is missing but in buf_mgr.                                   *)
NoNull ==
  /\ \A i \in DOMAIN imgFree : NULL \notin BufsOf(imgFree[i])
  /\ ObjectsComplete
  /\ \A i \in DOMAIN tempQ : tempQ[i].buf # NULL
  /\ received.buf # NULL /\ buf # NULL
  /\ NULL \notin BufsOf(extra) /\ NULL \notin BufsOf(obj)

(* Once the later part of an image was taken for the beginning of one, the *)
(* image has no header and the line has a gap.  And once a DMA was armed   *)
(* late, what the host sends may land in a buffer of the free queue.       *)
OrderInv == /\ Receiving /\ LengthInv
            /\ ~late => ReceiveInv
            /\ ~late /\ ~torn => LineInv /\ StoredInv /\ NoNull

-----------------------------------------------------------------------------
LEMMA ImgFacts == ASSUME Types PROVE
  /\ ep \in [Endpoints -> {"na", "idle", "xfer", "done", "term"}]
  /\ evt \in [Endpoints -> BOOLEAN] /\ "out" \in Endpoints /\ "in" \in Endpoints
  /\ link \in BOOLEAN /\ host \in HostStates /\ content \in [Slots -> [head : Items, rest : Items]]
  /\ dma \in [buf : Slots, at : Nat] /\ buf \in Slots /\ hdr \in Items
  /\ recvLen \in Nat /\ wantLen \in Nat /\ ImgChunks \in {1, 2}
BY HostAssumption DEF Types, TypeOK, LinkTypeOK, ImgTypeOK, MemTypeOK, HostTypeOK, Endpoints

(* DATA_OUT is as it was, and the image thread does not wait for it.       *)
LEMMA ReceiveAway ==
  ASSUME ReceiveInv, UNCHANGED <<link, host>>, ep'["out"] = ep["out"],
         imgPc \notin {"arm", "recv_wait"}, imgPc' \notin {"recv_wait", "failed"}
  PROVE  ReceiveInv'
BY DEF ReceiveInv, Landed, Fresh

(* Neither the image thread nor its buffer moves: its endpoint is as it    *)
(* was, or stopped while the host starts anew.                             *)
LEMMA ReceiveKept ==
  ASSUME ReceiveInv, UNCHANGED <<imgPc, recvLen, buf, content, link>>,
         ep'["out"] = ep["out"], host' = host \/ Fresh',
         host'.open => link' /\ host'.index < host'.total, host'.chunk < ImgChunks
  PROVE  ReceiveInv'
<1>1. CASE host' = host
  BY <1>1 DEF ReceiveInv, Landed, Fresh
<1>2. CASE Fresh'
  BY <1>2 DEF ReceiveInv, Landed
<1> QED BY <1>1, <1>2

LEMMA ReceiveStopped ==
  ASSUME ReceiveInv, UNCHANGED <<imgPc, recvLen, buf, content>>, ~host'.open,
         host'.chunk = host.chunk,
         \/ ~link' /\ ep'["out"] = ep["out"]
         \/ /\ ep'["out"] \notin {"xfer", "done"} /\ (link' => ep'["out"] # "na")
            /\ link' /\ imgPc \notin {"arm", "recv_wait"} => ep'["out"] = "idle"
  PROVE  ReceiveInv'
BY DEF ReceiveInv, Landed, Fresh

LEMMA LinkReceives == Types /\ ReceiveInv /\ LinkNext => ReceiveInv'
<1> SUFFICES ASSUME Types, ReceiveInv, LinkNext PROVE ReceiveInv'
  OBVIOUS
<1> USE ImgFacts
<1>1. UNCHANGED <<imgPc, recvLen, buf, content>> /\ host'.chunk = host.chunk /\ ~host'.open
  <2>1. CASE Configured
    BY <2>1 DEF Configured, imgVars, memVars, hostVars, ReceiveInv
  <2>2. CASE LinkLost \/ ErrandResetDevice
    BY <2>2 DEF LinkLost, ErrandResetDevice, imgVars, memVars, HostStates
  <2> QED BY <2>1, <2>2 DEF LinkNext, Disconnected, VbusOff
<1>2. CASE Configured
  BY <1>1, <1>2, ReceiveStopped DEF Configured
<1>3. CASE Disconnected
  <2>1. ep'["out"] \in {"term", "na"} /\ ~link'
    BY <1>3 DEF Disconnected, LinkLost, reset_endpoint, Stopped, Available
  <2> QED BY <1>1, <2>1, ReceiveStopped
<1>4. CASE VbusOff
  <2>1. ep'["out"] = "na" /\ ~link'
    BY <1>4 DEF VbusOff, LinkLost
  <2> QED BY <1>1, <2>1, ReceiveStopped
<1>5. CASE ErrandResetDevice
  BY <1>1, <1>5, ReceiveStopped DEF ErrandResetDevice
<1> QED BY <1>2, <1>3, <1>4, <1>5 DEF LinkNext

LEMMA HostReceives == Types /\ Receiving /\ ~late /\ ReceiveInv /\ HostNext => ReceiveInv'
<1> SUFFICES ASSUME Types, Receiving, ~late, ReceiveInv, HostNext PROVE ReceiveInv'
  OBVIOUS
<1> USE ImgFacts
<1>1. CASE ControlConfigure \/ ControlDroppable \/ SendDma \/ HostReads
  <2>1. UNCHANGED <<imgPc, recvLen, buf, content, link, host>> /\ ep'["out"] = ep["out"]
    BY <1>1, OutUntouched DEF ControlConfigure, ControlDroppable, SendDma, HostReads, imgVars,
       memVars, linkVars, epVars, hostVars
  <2> QED BY <2>1, ReceiveKept DEF ReceiveInv
<1>2. CASE ControlReset
  <2>1. UNCHANGED <<imgPc, recvLen, buf, content, link>> /\ host'.chunk = host.chunk
        /\ ~host'.open
    BY <1>2 DEF ControlReset, imgVars, memVars, HostStates
  <2>2. ep'["out"] = Stopped("out", link) /\ link
    BY <1>2 DEF ControlReset, reset_endpoint
  <2>3. /\ ep'["out"] \in {"term", "idle"}
        /\ imgPc \notin {"arm", "recv_wait"} => ep'["out"] = "idle"
    BY <2>2 DEF Stopped, Available, Receiving
  <2> QED BY <2>1, <2>2, <2>3, ReceiveStopped
<1>3. CASE HostBegins
  <2>1. UNCHANGED <<imgPc, recvLen, buf, content, link>> /\ ep'["out"] = ep["out"] /\ link
    BY <1>3 DEF HostBegins, imgVars, memVars, linkVars, epVars
  <2>2. host'.index = 0 /\ host'.chunk = 0 /\ host'.total \in 1 .. MaxInput
    BY <1>3, HostAssumption DEF HostBegins
  <2>3. host'.index < host'.total /\ host'.chunk < ImgChunks /\ Fresh'
    BY <2>2 DEF Fresh
  <2> QED BY <2>1, <2>3, ReceiveKept
<1>4. CASE HostSendsImage \/ HostSendsCommand
  <2>1. PICK item \in {HostItem("inf"), HostItem("big"), HostItem("part"),
                       [Nothing EXCEPT !.kind = "cmd", !.req = count.cmd + 1]} :
          Land(item) /\ (item.kind = "cmd" => ~host.open /\ host' = host)
    <3>1. CASE HostSendsImage
      <4>1. PICK kind \in {"inf", "big", "part"} : Land(HostItem(kind))
        BY <3>1 DEF HostSendsImage
      <4>2. HostItem(kind).kind # "cmd"
        BY DEF HostItem
      <4> QED BY <4>1, <4>2
    <3>2. CASE HostSendsCommand
      BY <3>2 DEF HostSendsCommand
    <3> QED BY <1>4, <3>1, <3>2
  <2>2. UNCHANGED <<imgPc, recvLen, buf, dma, link>> /\ link
    BY <1>4 DEF HostSendsImage, HostSendsCommand, imgVars
  <2>4. imgPc = "recv_wait" /\ dma.buf = buf /\ dma.at = recvLen /\ ep["out"] = "xfer"
    BY <2>1 DEF Land, Receiving
  <2>3. ep'["out"] = "done"
    BY <2>1, <2>4 DEF Land, transfer_done
  <2>5. recvLen >= 1 => content'[buf].rest = item
    BY <2>1, <2>4 DEF Land
  <2>6. /\ host'.open => link /\ host'.index < host'.total
        /\ host'.chunk < ImgChunks
    <3>1. CASE HostSendsImage
      <4>1. host.index < host.total /\ host.index \in Nat /\ host.total \in Nat
            /\ host.chunk \in Nat
        BY <3>1 DEF HostSendsImage, ReceiveInv, HostStates, Indices
      <4>2. \/ host' = [host EXCEPT !.chunk = @ + 1] /\ host.chunk + 1 < ImgChunks
            \/ host' = [host EXCEPT !.chunk = 0, !.index = @ + 1] /\ host.index + 1 < host.total
            \/ host' = [host EXCEPT !.open = FALSE]
        BY <3>1 DEF HostSendsImage
      <4>3. CASE host' = [host EXCEPT !.chunk = @ + 1] /\ host.chunk + 1 < ImgChunks
        BY <2>2, <4>1, <4>3 DEF HostStates
      <4>4. CASE host' = [host EXCEPT !.chunk = 0, !.index = @ + 1] /\ host.index + 1 < host.total
        BY <2>2, <4>1, <4>4 DEF HostStates
      <4>5. CASE host' = [host EXCEPT !.open = FALSE]
        BY <2>2, <4>1, <4>5 DEF HostStates, ReceiveInv
      <4> QED BY <4>2, <4>3, <4>4, <4>5
    <3>2. CASE HostSendsCommand
      BY <2>2, <3>2 DEF HostSendsCommand, ReceiveInv
    <3> QED BY <1>4, <3>1, <3>2
  <2>7. recvLen >= 1 /\ content'[buf].rest.kind = "cmd" => Fresh'
    BY <2>1, <2>5 DEF Fresh
  <2> QED BY <2>2, <2>3, <2>4, <2>6, <2>7 DEF ReceiveInv, Landed
<1> QED BY <1>1, <1>2, <1>3, <1>4 DEF HostNext


(* The steps of the image thread that do not receive.                      *)
ImgElsewhere == \/ ImgWaitConnection \/ ImgGet \/ ImgTakeFree \/ ImgUnbundle \/ ImgGrabFails
                \/ ImgRetry \/ ImgSwap \/ ImgEnqueue \/ ImgCommand
                \/ ImgCommandBegins \/ ImgCommandDone \/ ImgCommandTimeout \/ ImgPutFree
                \/ ImgCleanImages \/ ImgCleanResults \/ ImgCleaned

LEMMA ElsewhereLink ==
  ASSUME Types, ImgElsewhere
  PROVE  UNCHANGED <<link, host>> /\ ep'["out"] = ep["out"]
<1> USE ImgFacts
<1>1. CASE ImgCommand \/ ImgCommandBegins \/ ImgCommandDone
  BY <1>1, OutUntouched DEF ImgCommand, ImgCommandBegins, ImgCommandDone, hostVars, epVars
<1>2. CASE ImgCommandTimeout
  BY <1>2 DEF ImgCommandTimeout, hostVars
<1>3. CASE ImgCleaned
  BY <1>3, OutUntouched DEF ImgCleaned, hostVars, epVars
<1>4. CASE ImgSwap \/ ImgEnqueue \/ ImgPutFree \/ ImgCleanImages \/ ImgCleanResults
  BY <1>4 DEF ImgSwap, ImgEnqueue, ImgPutFree, ImgCleanImages, ImgCleanResults, linkVars,
     epVars, hostVars
<1>5. CASE \/ ImgWaitConnection \/ ImgGet \/ ImgTakeFree \/ ImgUnbundle \/ ImgGrabFails
           \/ ImgRetry
  BY <1>5 DEF ImgWaitConnection, ImgGet, ImgTakeFree, ImgUnbundle, ImgGrabFails, ImgRetry,
     imgElse, linkVars, epVars, hostVars
<1> QED BY <1>1, <1>2, <1>3, <1>4, <1>5 DEF ImgElsewhere

LEMMA ElsewherePc ==
  ASSUME Types, LengthInv, ImgElsewhere
  PROVE  /\ imgPc \notin {"mark", "arm", "recv_wait", "recv", "failed"}
         /\ imgPc' \notin {"mark", "arm", "recv_wait", "failed"}
<1>1. CASE \/ ImgWaitConnection \/ ImgGet \/ ImgTakeFree \/ ImgUnbundle \/ ImgGrabFails
           \/ ImgRetry \/ ImgSwap \/ ImgEnqueue
  BY <1>1 DEF ImgWaitConnection, ImgGet, ImgTakeFree, ImgUnbundle, ImgGrabFails, ImgRetry,
     ImgSwap, ImgEnqueue, Received, NextRecv
<1>2. CASE ImgCommand \/ ImgCommandBegins \/ ImgCommandDone \/ ImgCommandTimeout \/ ImgPutFree
  BY <1>2 DEF ImgCommand, ImgCommandBegins, ImgCommandDone, ImgCommandTimeout, ImgPutFree,
     imgVars
<1>3. CASE ImgCleanImages \/ ImgCleanResults \/ ImgCleaned
  BY <1>3 DEF ImgCleanImages, ImgCleanResults, ImgCleaned, LengthInv, imgVars
<1> QED BY <1>1, <1>2, <1>3 DEF ImgElsewhere

LEMMA ImgReceives ==
  ASSUME Types, Receiving, ReceiveInv, LengthInv, ImgNext, ~late'
  PROVE  ReceiveInv'
<1> USE ImgFacts
<1>1. CASE ImgElsewhere
  BY <1>1, ElsewhereLink, ElsewherePc, ReceiveAway
<1>2. CASE ImgReceive
  <2>1. imgPc = "recv" /\ UNCHANGED <<link, host, ep>>
    BY <1>2 DEF ImgReceive, hostVars, linkVars, epVars
  <2>2. IF ep["out"] = "idle" THEN imgPc' = "mark" ELSE imgPc' = "failed"
    BY <1>2 DEF ImgReceive
  <2> QED BY <2>1, <2>2 DEF ReceiveInv, Landed, Fresh
<1>5. CASE ImgMark
  <2>1. imgPc = "mark" /\ imgPc' = "arm" /\ ep'["out"] = "xfer" /\ UNCHANGED <<link, host>>
    BY <1>5 DEF ImgMark, hostVars
  <2> QED BY <2>1 DEF ReceiveInv, Landed, Fresh
<1>6. CASE ImgArm
  <2>1. imgPc = "arm" /\ imgPc' = "recv_wait" /\ ep["out"] = "xfer" /\ UNCHANGED <<link, host, ep>>
    BY <1>6 DEF ImgArm, hostVars
  <2> QED BY <2>1 DEF ReceiveInv, Landed, Fresh
<1>3. CASE ImgReceived
  <2>1. imgPc = "recv_wait" /\ UNCHANGED <<link, host>> /\ evt["out"]
    BY <1>3 DEF ImgReceived, transfer_wakes, hostVars
  <2>2. imgPc' \notin {"mark", "arm", "recv_wait"}
    BY <1>3 DEF ImgReceived, Parse, ParseHeader, ParseRest, NextRecv
  <2>3. imgPc' = "failed" => ep["out"] # "done"
    BY <1>3 DEF ImgReceived, Parse, ParseHeader, ParseRest, NextRecv
  <2>4. link => ep["out"] \in {"done", "term", "idle"}
    BY <2>1 DEF Receiving, ReceiveInv
  <2>5. ep'["out"] = CASE ep["out"] = "done" -> "idle"
                       [] ep["out"] = "term" -> Available(link)
                       [] OTHER              -> ep["out"]
    BY <1>3 DEF ImgReceived, transfer_wakes
  <2>6. link => ep'["out"] = "idle"
    BY <2>4, <2>5 DEF Available
  <2>7. imgPc' = "failed" => Fresh
    BY <2>1, <2>3 DEF Receiving, ReceiveInv, Fresh
  <2> QED BY <2>1, <2>2, <2>6, <2>7 DEF ReceiveInv, Landed, Fresh
<1>4. CASE ImgFailed
  <2>1. imgPc = "failed" /\ UNCHANGED <<link, host, ep>>
    BY <1>4 DEF ImgFailed, hostVars, epVars
  <2>2. imgPc' \notin {"recv_wait", "failed"}
    BY <1>4 DEF ImgFailed, Parse, ParseHeader, ParseRest, NextRecv
  <2> QED BY <2>1, <2>2, ReceiveAway
<1> QED BY <1>1, <1>2, <1>3, <1>4, <1>5, <1>6 DEF ImgNext, ImgElsewhere

LEMMA StepReceives ==
  ASSUME Types, Receiving, ReceiveInv, LengthInv, [Next]_vars, ~late, ~late'
  PROVE  ReceiveInv'
<1> USE ImgFacts
<1>1. CASE BufMgrNext \/ InfNext \/ SendNext \/ UNCHANGED vars
  <2>1. UNCHANGED <<imgPc, recvLen, buf, content, link, host>>
    BY <1>1 DEF BufMgrNext, InfNext, InfDequeue, InfGetResultBuffer, InfExecute, InfPutFree,
       SendNext, SendDequeue, SendStart, SendBegins, SendDone, SendHangs, SendPutFree, vars,
       linkVars, imgVars, memVars, hostVars
  <2>2. ep'["out"] = ep["out"]
    BY <1>1, OutUntouched DEF BufMgrNext, InfNext, InfDequeue, InfGetResultBuffer, InfExecute,
       InfPutFree, SendNext, SendDequeue, SendStart, SendBegins, SendDone, SendHangs,
       SendPutFree, vars, linkVars, epVars
  <2> QED BY <2>1, <2>2, ReceiveKept DEF ReceiveInv
<1> QED BY <1>1, LinkReceives, HostReceives, ImgReceives DEF Next

-----------------------------------------------------------------------------
LEMMA LengthKept ==
  ASSUME LengthInv, UNCHANGED imgVars, allocated => allocated'
  PROVE  LengthInv'
BY DEF LengthInv, WaitsForBuffer, imgVars

LEMMA ParseLengths ==
  ASSUME Types, LengthInv, NEW n \in {0, 1}, Parse(n), UNCHANGED allocated,
         imgPc \in {"recv_wait", "failed"}
  PROVE  LengthInv'
<1> USE ImgFacts
<1>1. CASE recvLen = 0
  <2>1. ParseHeader(n)
    BY <1>1 DEF Parse
  <2> DEFINE h == content[buf].head
  <2>2. CASE IsInf(h) /\ buf = Temp /\ allocated
    BY <2>1, <2>2 DEF ParseHeader, LengthInv, WaitsForBuffer
  <2>3. CASE IsInf(h) /\ ~(buf = Temp /\ allocated) /\ h.kind = "big"
    BY <2>1, <2>3 DEF ParseHeader, LengthInv, WaitsForBuffer
  <2>4. CASE IsInf(h) /\ ~(buf = Temp /\ allocated) /\ h.kind # "big"
    <3>1. /\ recvType' = "inf" /\ wantLen' = ImgChunks /\ recvLen' = n
          /\ imgPc' = IF n < ImgChunks THEN "recv" ELSE "enqueue"
      BY <2>1, <2>4 DEF ParseHeader, NextRecv
    <3> QED BY <3>1 DEF LengthInv, WaitsForBuffer
  <2>5. CASE ~IsInf(h)
    BY <2>1, <2>5 DEF ParseHeader, LengthInv, WaitsForBuffer
  <2> QED BY <2>2, <2>3, <2>4, <2>5
<1>2. CASE recvLen # 0
  <2>1. recvLen = 1 /\ wantLen = 2 /\ ImgChunks = 2 /\ wantLen' = wantLen
    BY <1>2 DEF LengthInv, Parse, ParseRest
  <2>2. PICK len \in {1, 2} : recvLen' = len /\ imgPc' = NextRecv(len, wantLen, recvType')
    BY <1>2, <2>1 DEF Parse, ParseRest
  <2>3. \/ len = 1 /\ imgPc' = "recv"
        \/ len = 2 /\ imgPc' \in {"enqueue", "cmd", "put"}
    BY <2>1, <2>2 DEF NextRecv
  <2> QED BY <2>1, <2>2, <2>3 DEF LengthInv, WaitsForBuffer
<1> QED BY <1>1, <1>2

LEMMA StepLengths ==
  ASSUME Types, LengthInv, [Next]_vars
  PROVE  LengthInv'
<1> USE ImgFacts
<1>1. CASE LinkNext \/ HostNext \/ BufMgrNext \/ InfNext \/ SendNext \/ UNCHANGED vars
  <2>1. UNCHANGED imgVars
    BY <1>1 DEF LinkNext, Configured, Disconnected, VbusOff, LinkLost, ErrandResetDevice,
       HostNext, ControlConfigure, ControlReset, ControlDroppable, HostBegins, HostSendsImage,
       HostSendsCommand, SendDma, HostReads, BufMgrNext, InfNext, InfDequeue,
       InfGetResultBuffer, InfExecute, InfPutFree, SendNext, SendDequeue, SendStart,
       SendBegins, SendDone, SendHangs, SendPutFree, vars
  <2>2. allocated => allocated'
    BY <1>1 DEF LinkNext, Configured, Disconnected, VbusOff, LinkLost, ErrandResetDevice,
       HostNext, ControlConfigure, fill_free_queues, ControlReset, ControlDroppable, HostBegins,
       HostSendsImage, HostSendsCommand, SendDma, HostReads, BufMgrNext, MgrNext, MgrGet,
       MgrPutBack, MgrEnqueue, InfNext, InfDequeue, InfGetResultBuffer, InfExecute, InfPutFree,
       SendNext, SendDequeue, SendStart, SendBegins, SendDone, SendHangs, SendPutFree, vars,
       queueVars
  <2> QED BY <2>1, <2>2, LengthKept
<1>a. ImgNext => UNCHANGED allocated
  BY DEF ImgNext, ImgWaitConnection, ImgGet, ImgTakeFree, ImgUnbundle, ImgGrabFails, ImgRetry,
     ImgReceive, ImgMark, ImgArm, ImgReceived, ImgFailed, ImgSwap, ImgEnqueue, ImgCommand,
     ImgCommandBegins, ImgCommandDone, ImgCommandTimeout, ImgPutFree, ImgCleanImages,
     ImgCleanResults, ImgCleaned, queueVars
<1>2. CASE ImgWaitConnection
  BY <1>2 DEF ImgWaitConnection, LengthInv, WaitsForBuffer
<1>3. CASE ImgGet
  BY <1>3, <1>a DEF ImgNext, ImgGet, LengthInv, WaitsForBuffer
<1>4. CASE ImgTakeFree \/ ImgUnbundle \/ ImgRetry
  <2>1. /\ imgPc \in {"block", "grab", "steal", "unbundle", "retry"}
        /\ imgPc' \in {"unbundle", "get", Received(imgRet)}
        /\ UNCHANGED <<imgRet, recvLen, wantLen, recvType>>
    BY <1>4 DEF ImgTakeFree, ImgUnbundle, ImgRetry
  <2> QED BY <1>4, <1>a, <2>1 DEF ImgNext, LengthInv, WaitsForBuffer, Received
<1>5. CASE ImgGrabFails
  BY <1>5, <1>a DEF ImgNext, ImgGrabFails, LengthInv, WaitsForBuffer
<1>6. CASE ImgReceive \/ ImgMark \/ ImgArm
  <2>1. imgPc \in {"recv", "mark", "arm"} /\ imgPc' \in {"mark", "arm", "recv_wait", "failed"}
        /\ UNCHANGED <<imgRet, recvLen, wantLen, recvType>>
    BY <1>6 DEF ImgReceive, ImgMark, ImgArm
  <2> QED BY <2>1 DEF LengthInv, WaitsForBuffer
<1>7. CASE ImgReceived
  <2>1. CASE Parse(1)
    BY <1>7, <1>a, <2>1, ParseLengths DEF ImgNext, ImgReceived
  <2>2. CASE imgPc' = "failed" /\ UNCHANGED <<imgRet, recvLen, wantLen, recvType>>
    BY <1>7, <2>2 DEF ImgReceived, LengthInv, WaitsForBuffer
  <2> QED BY <1>7, <2>1, <2>2 DEF ImgReceived
<1>8. CASE ImgFailed
  <2>1. CASE Parse(0)
    BY <1>8, <1>a, <2>1, ParseLengths DEF ImgNext, ImgFailed
  <2>2. CASE imgPc' = "clean_img" /\ imgRet' \in {"wait", "put"}
    BY <2>2 DEF LengthInv, WaitsForBuffer
  <2> QED BY <1>8, <2>1, <2>2 DEF ImgFailed
<1>9. CASE ImgSwap
  <2>1. imgPc = "swap" /\ imgRet' = "recv" /\ UNCHANGED <<recvLen, wantLen, recvType>>
        /\ imgPc' \in {"dead", NextRecv(recvLen, wantLen, recvType)}
    BY <1>9 DEF ImgSwap
  <2>2. recvType = "inf" /\ wantLen = ImgChunks /\ recvLen \in {0, 1}
    BY <2>1 DEF LengthInv
  <2>3. CASE recvLen < wantLen
    BY <2>1, <2>2, <2>3 DEF NextRecv, LengthInv, WaitsForBuffer
  <2>4. CASE ~(recvLen < wantLen)
    <3>1. recvLen = 1 /\ imgPc' \in {"dead", "enqueue"}
      BY <2>1, <2>2, <2>4 DEF NextRecv
    <3> QED BY <2>1, <3>1 DEF LengthInv, WaitsForBuffer
  <2> QED BY <2>3, <2>4
<1>10. CASE ImgEnqueue \/ ImgPutFree
  <2>1. imgPc' = "get" /\ imgRet' = "recv"
    BY <1>10 DEF ImgEnqueue, ImgPutFree
  <2> QED BY <2>1 DEF LengthInv, WaitsForBuffer
<1>11. CASE ImgCommand \/ ImgCommandBegins \/ ImgCommandDone \/ ImgCommandTimeout
  <2>1. imgPc' \in {"cmd_wait", "put", "hung"}
    BY <1>11 DEF ImgCommand, ImgCommandBegins, ImgCommandDone, ImgCommandTimeout, imgVars
  <2> QED BY <2>1 DEF LengthInv, WaitsForBuffer
<1>12. CASE ImgCleanImages \/ ImgCleanResults
  <2>1. imgPc' \in {"clean_img", "clean_res"} /\ imgPc \in {"clean_img", "clean_res"}
        /\ imgRet' = imgRet
    BY <1>12 DEF ImgCleanImages, ImgCleanResults, imgVars
  <2> QED BY <2>1 DEF LengthInv, WaitsForBuffer
<1>13. CASE ImgCleaned
  <2>1. imgPc' \in {"wait", "put"}
    BY <1>13 DEF ImgCleaned, LengthInv
  <2> QED BY <2>1 DEF LengthInv, WaitsForBuffer
<1> QED BY <1>1, <1>2, <1>3, <1>4, <1>5, <1>6, <1>7, <1>8, <1>9, <1>10, <1>11, <1>12, <1>13
       DEF Next, ImgNext

-----------------------------------------------------------------------------
(* The line of images stays what it is, but for a header that is given up. *)
LEMMA LineKept ==
  ASSUME LineInv, UNCHANGED <<received, tempQ>>, HasHeader' => HasHeader /\ Header' = Header,
         \/ Fresh'
         \/ imgPc' = "dead"
         \/ /\ host' = host /\ imgPc # "dead" /\ (HasHeader => HasHeader')
            /\ host.chunk = 1 => (Got' = 1 <=> Got = 1)
  PROVE  LineInv'
<1>1. LastQueued' = LastQueued
  BY DEF LastQueued
<1>2. /\ received'.index < received'.total
      /\ \A i \in DOMAIN tempQ' : tempQ'[i].index < tempQ'[i].total
      /\ \A i \in DOMAIN tempQ' : i > 1 => Follows(tempQ'[i - 1], tempQ'[i])
      /\ tempQ' # <<>> => Follows(received', tempQ'[1])
  BY DEF LineInv
<1>3. HasHeader' => Header'.index < Header'.total /\ Follows(LastQueued', Header')
  BY <1>1 DEF LineInv
<1>4. CASE Fresh'
  BY <1>2, <1>3, <1>4 DEF LineInv, Fresh, Follows
<1>5. CASE imgPc' = "dead"
  BY <1>2, <1>3, <1>5 DEF LineInv, Follows
<1>6. CASE /\ host' = host /\ imgPc # "dead" /\ (HasHeader => HasHeader')
           /\ host.chunk = 1 => (Got' = 1 <=> Got = 1)
  <2>1. LastImage' = LastImage
    BY <1>1, <1>6 DEF LastImage
  <2> QED BY <1>2, <1>3, <1>6, <2>1 DEF LineInv, Follows
<1> QED BY <1>4, <1>5, <1>6

(* The image thread and its buffer do not move, and nothing arrives.       *)
LEMMA LineUntouched ==
  ASSUME LineInv, UNCHANGED <<received, tempQ, imgVars, content>>,
         Landed' => Landed, Fresh' \/ (host' = host /\ (Landed => Landed'))
  PROVE  LineInv'
<1> USE DEF imgVars
<1>1. HasHeader' => HasHeader /\ Header' = Header
  BY DEF HasHeader, Header, NewHeader, InReceive, WaitsForBuffer, Landed
<1>2. CASE Fresh'
  BY <1>1, <1>2, LineKept
<1>3. CASE host' = host /\ (Landed => Landed')
  <2>1. (Landed' <=> Landed) /\ (InReceive' <=> InReceive) /\ (HasHeader' <=> HasHeader)
    BY <1>3 DEF HasHeader, NewHeader, InReceive, WaitsForBuffer
  <2>2. Got' = Got
    BY <2>1 DEF Got
  <2>3. CASE imgPc # "dead"
    BY <1>1, <1>3, <2>1, <2>2, <2>3, LineKept
  <2>4. CASE imgPc = "dead"
    BY <1>1, <2>4, LineKept
  <2> QED BY <2>3, <2>4
<1> QED BY <1>2, <1>3

LEMMA LinkLine == Types /\ ReceiveInv /\ LineInv /\ LinkNext => LineInv'
<1> SUFFICES ASSUME Types, ReceiveInv, LineInv, LinkNext PROVE LineInv'
  OBVIOUS
<1> USE ImgFacts
<1>1. UNCHANGED <<received, tempQ, imgVars, content>> /\ ~host'.open
  <2>1. CASE Configured
    BY <2>1 DEF Configured, queueVars, memVars, hostVars, ReceiveInv
  <2>2. CASE LinkLost \/ ErrandResetDevice
    BY <2>2 DEF LinkLost, ErrandResetDevice, queueVars, memVars, HostStates
  <2> QED BY <2>1, <2>2 DEF LinkNext, Disconnected, VbusOff
<1>2. Landed' => Landed
  BY <1>1 DEF LinkNext, Configured, Disconnected, VbusOff, ErrandResetDevice, reset_endpoint,
     Stopped, Available, Landed, imgVars
<1> QED BY <1>1, <1>2, LineUntouched DEF Fresh

LEMMA HostQuietLine ==
  ASSUME Types, ReceiveInv, LineInv,
         ControlConfigure \/ ControlDroppable \/ SendDma \/ HostReads \/ ControlReset \/ HostBegins
  PROVE  LineInv'
<1> USE ImgFacts
<1>1. UNCHANGED <<received, tempQ, imgVars, content>>
  BY DEF ControlConfigure, ControlDroppable, SendDma, HostReads, ControlReset, HostBegins,
     queueVars, mgrVars, memVars
<1>2. CASE ControlConfigure \/ ControlDroppable \/ SendDma \/ HostReads \/ HostBegins
  <2>1. ep'["out"] = ep["out"]
    BY <1>2, OutUntouched DEF ControlConfigure, ControlDroppable, SendDma, HostReads, HostBegins,
       linkVars, epVars
  <2>2. Landed' <=> Landed
    BY <1>1, <2>1 DEF Landed, imgVars
  <2>3. host' = host \/ Fresh'
    BY <1>2 DEF ControlConfigure, ControlDroppable, SendDma, HostReads, HostBegins, hostVars,
       Fresh
  <2> QED BY <1>1, <2>2, <2>3, LineUntouched
<1>3. CASE ControlReset
  <2>1. Landed' => Landed
    BY <1>1, <1>3 DEF ControlReset, reset_endpoint, Stopped, Available, Landed, imgVars
  <2>2. Fresh'
    BY <1>3 DEF ControlReset, Fresh, HostStates
  <2> QED BY <1>1, <2>1, <2>2, LineUntouched
<1> QED BY <1>2, <1>3

(* What the host sends lands in the buffer of the image thread.            *)
LEMMA Lands ==
  ASSUME Types, Receiving, ~late, LengthInv, NEW item, Land(item), UNCHANGED imgVars
  PROVE  /\ imgPc = "recv_wait" /\ ~Landed /\ Landed'
         /\ recvLen = 0 => content'[buf].head = item
         /\ recvLen # 0 => recvLen = 1 /\ content'[buf].head = content[buf].head
         /\ dma.at = recvLen
<1> USE ImgFacts
<1>2. imgPc = "recv_wait" /\ dma.buf = buf /\ dma.at = recvLen /\ ep["out"] = "xfer"
  BY DEF Land, Receiving
<1>1. ep'["out"] = "done"
  BY <1>2 DEF Land, transfer_done
<1>3. recvLen # 0 => recvLen = 1
  BY <1>2 DEF LengthInv
<1>4. recvLen = 0 => content'[buf].head = item
  BY <1>2 DEF Land
<1>5. recvLen # 0 => content'[buf].head = content[buf].head
  BY <1>2 DEF Land
<1> QED BY <1>1, <1>2, <1>3, <1>4, <1>5 DEF Landed, imgVars

LEMMA CommandLine ==
  ASSUME Types, Receiving, ~late, LengthInv, LineInv, HostSendsCommand
  PROVE  LineInv'
<1> USE ImgFacts
<1> DEFINE item == [Nothing EXCEPT !.kind = "cmd", !.req = count.cmd + 1]
<1>1. Land(item) /\ link /\ ~host.open /\ UNCHANGED <<received, tempQ, imgVars, dma, host>>
  BY DEF HostSendsCommand, queueVars, mgrVars
<1>2. ~IsInf(item)
  BY DEF IsInf, Nothing
<1> HIDE DEF item
<1>3. /\ imgPc = "recv_wait" /\ ~Landed /\ Landed'
      /\ recvLen = 0 => content'[buf].head = item
      /\ recvLen # 0 => recvLen = 1
  BY <1>1, Lands
<1>4. HasHeader' => HasHeader /\ Header' = Header
  BY <1>1, <1>2, <1>3 DEF HasHeader, Header, NewHeader, InReceive, WaitsForBuffer, imgVars
<1>5. Fresh'
  BY <1>1 DEF Fresh
<1> QED BY <1>1, <1>4, <1>5, LineKept

LEMMA HostMoves ==
  ASSUME Types, ReceiveInv, HostSendsImage
  PROVE  /\ host.open /\ host.index < host.total /\ host.chunk \in {0, 1} /\ host.index \in Nat
         /\ \/ /\ host' = [host EXCEPT !.chunk = @ + 1]
               /\ host.chunk = 0 /\ ImgChunks = 2 /\ host'.chunk = 1 /\ host'.open
               /\ host'.index = host.index /\ host'.total = host.total
            \/ /\ host' = [host EXCEPT !.chunk = 0, !.index = @ + 1]
               /\ host.chunk + 1 = ImgChunks /\ host'.chunk = 0 /\ host'.open
               /\ host'.index = host.index + 1 /\ host'.total = host.total
            \/ ~host'.open
<1> USE ImgFacts
<1>1. host.open /\ host.index < host.total /\ host.chunk \in {0, 1} /\ host.index \in Nat
      /\ host.chunk < ImgChunks
  BY DEF HostSendsImage, ReceiveInv, HostStates, Indices
<1>2. \/ host' = [host EXCEPT !.chunk = @ + 1] /\ host.chunk + 1 < ImgChunks
      \/ /\ host' = [host EXCEPT !.chunk = 0, !.index = @ + 1] /\ host.index + 1 < host.total
         /\ ~(host.chunk + 1 < ImgChunks)
      \/ host' = [host EXCEPT !.open = FALSE]
  BY DEF HostSendsImage
<1>3. CASE host' = [host EXCEPT !.chunk = @ + 1] /\ host.chunk + 1 < ImgChunks
  <2>1. host.chunk = 0 /\ ImgChunks = 2
    BY <1>1, <1>3
  <2>2. host'.chunk = host.chunk + 1 /\ host'.open = host.open /\ host'.index = host.index
        /\ host'.total = host.total
    BY <1>3 DEF HostStates
  <2> QED BY <1>1, <1>3, <2>1, <2>2
<1>4. CASE /\ host' = [host EXCEPT !.chunk = 0, !.index = @ + 1] /\ host.index + 1 < host.total
           /\ ~(host.chunk + 1 < ImgChunks)
  <2>1. host.chunk + 1 = ImgChunks
    BY <1>1, <1>4
  <2>2. host'.chunk = 0 /\ host'.open = host.open /\ host'.index = host.index + 1
        /\ host'.total = host.total
    BY <1>4 DEF HostStates
  <2> QED BY <1>1, <1>4, <2>1, <2>2
<1>5. CASE host' = [host EXCEPT !.open = FALSE]
  BY <1>1, <1>5 DEF HostStates
<1> QED BY <1>2, <1>3, <1>4, <1>5

(* The line without the host.                                              *)
QueueLine ==
  /\ received.index < received.total
  /\ \A i \in DOMAIN tempQ : tempQ[i].index < tempQ[i].total
  /\ \A i \in DOMAIN tempQ : i > 1 => Follows(tempQ[i - 1], tempQ[i])
  /\ tempQ # <<>> => Follows(received, tempQ[1])
HostLine ==
  host.open /\ imgPc # "dead" =>
    IF host.chunk = 1 /\ Got = 1
    THEN HasHeader /\ Header.index = host.index /\ Header.total = host.total
    ELSE Follows(LastImage, host)

LEMMA LineParts ==
  /\ LineInv <=> /\ QueueLine
                 /\ HasHeader => Header.index < Header.total /\ Follows(LastQueued, Header)
                 /\ HostLine
  /\ UNCHANGED <<received, tempQ>> => LastQueued' = LastQueued
  /\ QueueLine /\ UNCHANGED <<received, tempQ>> => QueueLine'
<1>1. LineInv <=> /\ QueueLine
                  /\ HasHeader => Header.index < Header.total /\ Follows(LastQueued, Header)
                  /\ HostLine
  BY DEF LineInv, QueueLine, HostLine
<1>2. UNCHANGED <<received, tempQ>> => LastQueued' = LastQueued
  BY DEF LastQueued
<1>3. QueueLine /\ UNCHANGED <<received, tempQ>> => QueueLine'
  BY DEF QueueLine, Follows
<1> QED BY <1>1, <1>2, <1>3

LEMMA ImageLine ==
  ASSUME Types, Receiving, ~late, ReceiveInv, LengthInv, LineInv, HostSendsImage, ~torn'
  PROVE  LineInv'
<1> USE ImgFacts
<1>1. PICK kind \in {"inf", "big", "part"} :
        Land(HostItem(kind)) /\ (kind = "part" => host.chunk > 0)
  BY DEF HostSendsImage
<1> DEFINE item == HostItem(kind)
<1>2. /\ item.index = host.index /\ item.total = host.total
      /\ dma.at = 0 => host.chunk = 0 /\ IsInf(item)
  <2>1. host.chunk \in Nat
    BY DEF HostStates
  <2>2. ~(host.chunk > 0 /\ dma.at = 0)
    BY DEF HostSendsImage
  <2>3. dma.at = 0 => host.chunk = 0 /\ kind # "part"
    BY <1>1, <2>1, <2>2
  <2> QED BY <2>3 DEF HostItem, IsInf
<1>3. link /\ UNCHANGED <<received, tempQ, imgVars, dma>>
  BY DEF HostSendsImage, queueVars, mgrVars
<1>4. Land(item)
  BY <1>1
<1> HIDE DEF item
<1>5. /\ imgPc = "recv_wait" /\ ~Landed /\ Landed'
      /\ recvLen = 0 => content'[buf].head = item
      /\ recvLen # 0 => recvLen = 1 /\ content'[buf].head = content[buf].head
      /\ dma.at = recvLen
  BY <1>3, <1>4, Lands
<1>6. UNCHANGED <<imgPc, imgRet, buf, recvLen, recvType, hdr>> /\ LastQueued' = LastQueued
  BY <1>3, LineParts DEF imgVars
<1>7. QueueLine /\ QueueLine' /\ HostLine
  BY <1>3, LineParts
<1>8. InReceive /\ InReceive'
  BY <1>5, <1>6 DEF InReceive
<1>9. host.open /\ imgPc # "dead"
  BY <1>5, HostMoves
<1>10. CASE recvLen = 0
  <2>1. ~HasHeader /\ Got = 0 /\ HasHeader' /\ Header' = item /\ Got' = 1
    BY <1>2, <1>5, <1>6, <1>8, <1>10 DEF HasHeader, Header, NewHeader, Got
  <2>2. Follows(LastQueued, host)
    BY <1>7, <1>9, <2>1 DEF HostLine, LastImage
  <2>3. Header'.index < Header'.total /\ Follows(LastQueued', Header')
    BY <1>2, <1>6, <2>1, <2>2, HostMoves DEF Follows
  <2>4. HostLine'
    <3>1. CASE host'.chunk = 1 /\ host'.index = host.index /\ host'.total = host.total
      BY <1>2, <2>1, <3>1 DEF HostLine
    <3>2. CASE host'.chunk = 0 /\ host'.index = host.index + 1 /\ host'.total = host.total
      <4>1. Follows(LastImage', host')
        BY <1>2, <2>1, <3>2 DEF LastImage, Follows
      <4> QED BY <3>2, <4>1 DEF HostLine
    <3>3. CASE ~host'.open
      BY <3>3 DEF HostLine
    <3> QED BY <3>1, <3>2, <3>3, HostMoves
  <2> QED BY <1>7, <2>1, <2>3, <2>4 DEF LineInv, QueueLine, HostLine
<1>11. CASE recvLen # 0
  <2>1. recvLen = 1 /\ ImgChunks = 2
    BY <1>5, <1>11 DEF LengthInv
  <2>2. Got = 1 /\ Got' = 2
    BY <1>5, <1>6, <1>8, <2>1 DEF Got
  <2>3. (HasHeader' <=> HasHeader) /\ Header' = Header
    BY <1>5, <1>6, <1>8, <2>1 DEF HasHeader, Header, NewHeader
  <2>4. LastImage' = LastImage
    BY <1>6, <2>3 DEF LastImage
  <2>5. HasHeader' => Header'.index < Header'.total /\ Follows(LastQueued', Header')
    BY <1>6, <2>3, LineParts
  <2>6. HostLine'
    <3>1. CASE host.chunk = 0 /\ host'.index = host.index /\ host'.total = host.total
      <4>1. Follows(LastImage, host)
        BY <1>7, <1>9, <3>1 DEF HostLine
      <4>2. Follows(LastImage', host')
        BY <2>4, <3>1, <4>1 DEF Follows
      <4> QED BY <2>2, <4>2 DEF HostLine
    <3>2. CASE host.chunk + 1 = ImgChunks /\ host'.index = host.index + 1 /\ host'.total = host.total
      <4>1. HasHeader /\ Header.index = host.index /\ Header.total = host.total
        BY <1>7, <1>9, <2>1, <2>2, <3>2, HostMoves DEF HostLine
      <4>2. Follows(LastImage', host')
        BY <2>3, <3>2, <4>1 DEF LastImage, Follows
      <4> QED BY <2>2, <4>2 DEF HostLine
    <3>3. CASE ~host'.open
      BY <3>3 DEF HostLine
    <3> QED BY <3>1, <3>2, <3>3, HostMoves
  <2> QED BY <1>7, <2>5, <2>6 DEF LineInv, QueueLine, HostLine
<1> QED BY <1>10, <1>11

(* The header of a buffer is looked at.                                    *)
LEMMA ParseLine ==
  ASSUME Types, ReceiveInv, LengthInv, LineInv, NEW n \in {0, 1}, Parse(n),
         UNCHANGED <<received, tempQ, host, buf, content>>,
         \/ n = 1 /\ Landed
         \/ n = 0 /\ imgPc = "failed"
  PROVE  LineInv'
<1> USE ImgFacts
<1>1. /\ imgPc \in {"recv_wait", "failed"} /\ imgPc' \notin {"recv_wait", "failed"} /\ ~Landed'
      /\ InReceive /\ imgPc # "dead" /\ ~NewHeader'
  BY DEF Parse, ParseHeader, ParseRest, NextRecv, Landed, NewHeader, InReceive
<1>2. recvLen # 0 => recvLen = 1 /\ wantLen = 2 /\ ImgChunks = 2
  BY <1>1 DEF LengthInv
<1>3. n = 0 => Fresh'
  BY <1>1 DEF ReceiveInv, Landed, Fresh
<1>4. CASE recvLen = 0 /\ n = 0
  <2>1. imgPc' = "dead" \/ (recvLen' = 0 /\ imgPc' # "enqueue")
    BY <1>4 DEF Parse, ParseHeader, NextRecv
  <2>2. ~HasHeader'
    BY <1>1, <2>1 DEF HasHeader, InReceive, WaitsForBuffer
  <2> QED BY <1>3, <1>4, <2>2, LineKept
<1>5. CASE recvLen = 0 /\ n = 1
  <2> DEFINE h == content[buf].head
  <2>1. ParseHeader(1) /\ Landed /\ NewHeader /\ Got = 1
    BY <1>1, <1>5 DEF Parse, NewHeader, Landed, Got
  <2>2. HasHeader => IsInf(h) /\ Header = h
    BY <1>5, <2>1 DEF HasHeader, Header, NewHeader, Landed
  <2>3. IsInf(h) => HasHeader
    BY <2>1 DEF HasHeader
  <2>4. CASE IsInf(h) /\ imgPc' # "dead"
    <3>1. /\ hdr' = h /\ recvType' = "inf" /\ recvLen' = 1
          /\ \/ imgPc' = "get" /\ imgRet' = "swap"
             \/ imgPc' = NextRecv(1, ImgChunks, "inf")
      BY <2>1, <2>4 DEF ParseHeader
    <3>2. HasHeader' /\ Header' = h
      BY <1>1, <3>1 DEF HasHeader, Header, InReceive, WaitsForBuffer, NextRecv
    <3>3. CASE imgPc' \in {"get", "recv"}
      <4>1. InReceive'
        BY <3>1, <3>3 DEF InReceive, WaitsForBuffer, NextRecv
      <4>2. Got' = 1
        BY <1>1, <3>1, <4>1 DEF Got
      <4> QED BY <1>1, <2>1, <2>2, <2>3, <2>4, <3>2, <4>2, LineKept
    <3>4. CASE imgPc' \notin {"get", "recv"}
      <4>1. ImgChunks = 1
        BY <3>1, <3>4 DEF NextRecv
      <4>2. host.chunk # 1
        BY <4>1 DEF ReceiveInv
      <4> QED BY <1>1, <2>1, <2>2, <2>3, <2>4, <3>2, <4>2, LineKept
    <3> QED BY <3>3, <3>4
  <2>5. CASE IsInf(h) /\ imgPc' = "dead"
    <3>1. ~HasHeader'
      BY <1>1, <2>5 DEF HasHeader, InReceive, WaitsForBuffer
    <3> QED BY <2>5, <3>1, LineKept
  <2>6. CASE ~IsInf(h)
    <3>1. imgPc' = "cmd"
      BY <2>1, <2>6 DEF ParseHeader
    <3>2. ~HasHeader' /\ ~HasHeader /\ Got' = 0 /\ LastQueued' = LastQueued
      BY <1>1, <2>2, <2>6, <3>1, LineParts DEF HasHeader, InReceive, WaitsForBuffer, Got
    <3>3. host.open => Follows(LastQueued, host)
      BY <1>1, <2>1, <3>2 DEF LineInv, LastImage
    <3>4. HostLine'
      BY <3>2, <3>3 DEF HostLine, LastImage, Follows
    <3> QED BY <3>2, <3>4, LineParts DEF LineInv, QueueLine, HostLine
  <2> QED BY <2>4, <2>5, <2>6
<1>6. CASE recvLen # 0
  <2> DEFINE stray == content[buf].rest.kind = "cmd"
  <2>1. /\ recvLen = 1 /\ wantLen = 2 /\ ImgChunks = 2 /\ hdr' = hdr
        /\ recvLen' \in IF stray THEN {recvLen, recvLen + n} ELSE {recvLen + n}
        /\ recvType' = IF stray THEN "unknown" ELSE recvType
        /\ imgPc' = NextRecv(recvLen', wantLen, recvType')
    BY <1>2, <1>6 DEF Parse, ParseRest
  <2>2. Header = hdr /\ (HasHeader <=> recvType = "inf")
    BY <1>1, <2>1 DEF HasHeader, Header, NewHeader
  <2>3. Header' = hdr
    BY <1>1, <2>1 DEF Header
  <2>4. CASE stray \/ n = 0
    <3>1. HasHeader' => recvType' = "inf"
      BY <1>1, <2>1 DEF HasHeader, InReceive, WaitsForBuffer, NextRecv
    <3>2. HasHeader' => HasHeader /\ Header' = Header
      BY <2>1, <2>2, <2>3, <3>1
    <3>3. Fresh'
      BY <1>3, <2>1, <2>4 DEF ReceiveInv, Fresh
    <3> QED BY <3>2, <3>3, LineKept
  <2>5. CASE ~stray /\ n = 1
    <3>1. recvLen' = 2 /\ recvType' = recvType /\ imgPc' = NextRecv(2, 2, recvType)
      BY <2>1, <2>5
    <3>2. ~InReceive' /\ (imgPc' = "enqueue" <=> recvType = "inf")
      BY <3>1 DEF InReceive, WaitsForBuffer, NextRecv
    <3>3. (HasHeader' <=> HasHeader) /\ Header' = Header
      BY <1>1, <2>2, <2>3, <3>2 DEF HasHeader
    <3>4. Got = 2 /\ Got' = 0
      BY <1>1, <2>1, <2>5, <3>2 DEF Got, Landed
    <3> QED BY <1>1, <3>3, <3>4, LineKept
  <2> QED BY <2>4, <2>5
<1> QED BY <1>4, <1>5, <1>6

LEMMA ImgQuietLine ==
  ASSUME Types, LengthInv, LineInv, ImgElsewhere, ~ImgSwap, ~ImgEnqueue
  PROVE  LineInv'
<1> USE ImgFacts
<1>1. UNCHANGED <<received, tempQ, host, hdr, content>>
  <2>1. UNCHANGED <<received, tempQ>>
    BY DEF ImgElsewhere, ImgWaitConnection, ImgGet, ImgTakeFree, ImgUnbundle, ImgGrabFails,
       ImgRetry, ImgCommand, ImgCommandBegins, ImgCommandDone, ImgCommandTimeout, ImgPutFree,
       ImgCleanImages, ImgCleanResults, ImgCleaned, queueVars, mgrVars, imgQueues
  <2>2. UNCHANGED <<host, content, hdr>>
    BY DEF ImgElsewhere, ImgWaitConnection, ImgGet, ImgTakeFree, ImgUnbundle, ImgGrabFails,
       ImgRetry, ImgCommand, ImgCommandBegins, ImgCommandDone, ImgCommandTimeout, ImgPutFree,
       ImgCleanImages, ImgCleanResults, ImgCleaned, memVars, hostVars, imgVars
  <2> QED BY <2>1, <2>2
<1>2. imgPc \notin {"recv_wait", "recv", "failed"} /\ imgPc' \notin {"recv_wait", "failed"}
  BY ElsewherePc
<1>3. ~NewHeader /\ ~NewHeader' /\ ~Landed /\ ~Landed' /\ Header' = Header
  BY <1>1, <1>2 DEF NewHeader, Landed, Header
<1>4. CASE ImgGet \/ ImgTakeFree \/ ImgUnbundle \/ ImgGrabFails \/ ImgRetry
  <2>1. WaitsForBuffer /\ imgPc # "dead" /\ imgRet' = imgRet
        /\ imgPc' \in {"get", "block", "grab", "steal", "retry", "unbundle", "recv", "swap"}
    BY <1>4 DEF ImgGet, ImgTakeFree, ImgUnbundle, ImgGrabFails, ImgRetry, WaitsForBuffer,
       Received
  <2>2. CASE imgRet = "swap"
    <3>1. InReceive /\ InReceive' /\ UNCHANGED <<recvLen, recvType>>
      BY <1>4, <2>1, <2>2 DEF InReceive, WaitsForBuffer, ImgGet, ImgTakeFree, ImgUnbundle,
         ImgGrabFails, ImgRetry, Received
    <3>2. (HasHeader' <=> HasHeader) /\ Got' = Got
      BY <1>3, <2>1, <3>1 DEF HasHeader, Got, WaitsForBuffer
    <3> QED BY <1>1, <1>3, <2>1, <3>2, LineKept
  <2>3. CASE imgRet = "recv"
    <3>1. ~InReceive /\ imgPc # "enqueue" /\ recvLen' = 0
          /\ imgPc' \in {"get", "block", "grab", "steal", "retry", "unbundle", "recv"}
      BY <1>4, <2>1, <2>3 DEF InReceive, WaitsForBuffer, ImgGet, ImgTakeFree, ImgUnbundle,
         ImgGrabFails, ImgRetry, Received, LengthInv
    <3>2. ~HasHeader' /\ ~HasHeader /\ Got' = 0 /\ Got = 0
      BY <1>3, <3>1 DEF HasHeader, Got
    <3> QED BY <1>1, <2>1, <3>2, LineKept
  <2> QED BY <2>1, <2>2, <2>3 DEF LengthInv
<1>5. CASE \/ ImgWaitConnection \/ ImgCommand \/ ImgCommandBegins \/ ImgCommandDone
           \/ ImgCommandTimeout \/ ImgPutFree \/ ImgCleanImages \/ ImgCleanResults \/ ImgCleaned
  <2>1. imgPc \in {"wait", "cmd", "cmd_wait", "put", "clean_img", "clean_res"}
    BY <1>5 DEF ImgWaitConnection, ImgCommand, ImgCommandBegins, ImgCommandDone,
       ImgCommandTimeout, ImgPutFree, ImgCleanImages, ImgCleanResults, ImgCleaned
  <2>2. \/ imgPc' = "get" /\ imgRet' = "recv"
        \/ imgPc' \in {"wait", "cmd_wait", "put", "hung", "clean_img", "clean_res"}
    <3>1. CASE ImgWaitConnection \/ ImgPutFree
      BY <3>1 DEF ImgWaitConnection, ImgPutFree
    <3>2. CASE ImgCommand \/ ImgCommandBegins \/ ImgCommandDone \/ ImgCommandTimeout
      BY <3>2 DEF ImgCommand, ImgCommandBegins, ImgCommandDone, ImgCommandTimeout, imgVars
    <3>3. CASE ImgCleanImages \/ ImgCleanResults \/ ImgCleaned
      BY <3>3 DEF ImgCleanImages, ImgCleanResults, ImgCleaned, imgVars, LengthInv
    <3> QED BY <1>5, <3>1, <3>2, <3>3
  <2>3. ~InReceive /\ ~InReceive'
    BY <2>1, <2>2 DEF InReceive, WaitsForBuffer
  <2>4. ~HasHeader' /\ ~HasHeader /\ Got' = 0 /\ Got = 0
    BY <1>3, <2>1, <2>2, <2>3 DEF HasHeader, Got
  <2> QED BY <1>1, <2>1, <2>4, LineKept
<1> QED BY <1>4, <1>5 DEF ImgElsewhere

LEMMA SwapLine ==
  ASSUME Types, ReceiveInv, LengthInv, LineInv, ImgSwap
  PROVE  LineInv'
<1> USE ImgFacts
<1>1. /\ imgPc = "swap" /\ UNCHANGED <<received, tempQ, host, hdr, recvLen, recvType, wantLen>>
      /\ imgPc' = "dead" \/ imgPc' = NextRecv(recvLen, wantLen, recvType)
  BY DEF ImgSwap, mgrVars, imgQueues, hostVars
<1>2. recvType = "inf" /\ wantLen = ImgChunks /\ recvLen \in {0, 1}
  BY <1>1 DEF LengthInv
<1>3. imgPc' \in {"dead", "recv", "enqueue"} /\ (imgPc' = "enqueue" => recvLen = 1 /\ ImgChunks = 1)
  BY <1>1, <1>2 DEF NextRecv
<1>4. ~NewHeader /\ ~NewHeader' /\ ~Landed /\ ~Landed' /\ Header' = Header /\ InReceive
  BY <1>1, <1>3 DEF NewHeader, Landed, Header, InReceive
<1>5. CASE imgPc' = "dead"
  <2>1. ~HasHeader'
    BY <1>4, <1>5 DEF HasHeader, InReceive, WaitsForBuffer
  <2> QED BY <1>1, <1>5, <2>1, LineKept
<1>6. CASE imgPc' = "recv"
  <2>1. (HasHeader' <=> HasHeader) /\ Got' = Got
    BY <1>1, <1>4, <1>6 DEF HasHeader, Got, InReceive
  <2> QED BY <1>1, <1>4, <2>1, LineKept
<1>7. CASE imgPc' = "enqueue"
  <2>1. HasHeader' /\ HasHeader /\ host.chunk # 1
    BY <1>2, <1>3, <1>4, <1>7 DEF HasHeader, ReceiveInv
  <2> QED BY <1>1, <1>4, <2>1, LineKept
<1> QED BY <1>3, <1>5, <1>6, <1>7

(* A sequence with one more element, and without its first.                *)
LEMMA LineAppends ==
  ASSUME NEW q \in Seq(SpecialObjects), NEW x \in SpecialObjects
  PROVE  /\ Append(q, x) # <<>>
         /\ DOMAIN Append(q, x) = 1 .. Len(q) + 1 /\ DOMAIN q = 1 .. Len(q) /\ Len(q) \in Nat
         /\ Append(q, x)[Len(q) + 1] = x /\ Len(Append(q, x)) = Len(q) + 1
         /\ \A i \in 1 .. Len(q) : Append(q, x)[i] = q[i]
         /\ q = <<>> <=> Len(q) = 0
OBVIOUS

LEMMA LineTails ==
  ASSUME NEW q \in Seq(SpecialObjects), q # <<>>
  PROVE  /\ DOMAIN Tail(q) = 1 .. Len(q) - 1 /\ DOMAIN q = 1 .. Len(q) /\ Len(q) \in Nat
         /\ Len(q) >= 1 /\ Head(q) = q[1] /\ Len(Tail(q)) = Len(q) - 1
         /\ \A i \in 1 .. Len(q) - 1 : Tail(q)[i] = q[i + 1]
         /\ Tail(q) = <<>> <=> Len(q) = 1
<1>1. Tail(q) \in Seq(SpecialObjects) /\ Len(Tail(q)) = Len(q) - 1 /\ Len(q) \in Nat
      /\ DOMAIN q = 1 .. Len(q) /\ Len(q) >= 1 /\ Head(q) = q[1]
  OBVIOUS
<1>2. \A i \in 1 .. Len(q) - 1 : Tail(q)[i] = q[i + 1]
  OBVIOUS
<1>3. Tail(q) = <<>> <=> Len(Tail(q)) = 0
  <2> DEFINE t == Tail(q)
  <2>1. t \in Seq(SpecialObjects)
    BY <1>1
  <2> HIDE DEF t
  <2>2. t = <<>> <=> Len(t) = 0
    BY <2>1
  <2> QED BY <2>2 DEF t
<1> QED BY <1>1, <1>2, <1>3

LEMMA EnqueueLine ==
  ASSUME Types, Types', ReceiveInv, LengthInv, LineInv, ImgEnqueue
  PROVE  LineInv'
<1> USE ImgFacts
<1> DEFINE x == [total |-> hdr.total, index |-> IF hdr.total = 1 THEN 0 ELSE hdr.index, buf |-> buf]
<1>1. /\ imgPc = "enqueue" /\ imgPc' = "get" /\ imgRet' = "recv"
      /\ tempQ' = Append(tempQ, x) /\ UNCHANGED <<received, host>>
  BY HasImages DEF ImgEnqueue, image_enqueue, mgrVars, hostVars
<1>2. HasHeader /\ ~HasHeader' /\ Got = 0 /\ Got' = 0 /\ Header = hdr
  BY <1>1 DEF HasHeader, Got, InReceive, WaitsForBuffer, NewHeader, Landed, Header
<1>3. hdr.index < hdr.total /\ Follows(LastQueued, hdr) /\ QueueLine /\ HostLine
  BY <1>2, LineParts
<1>4. x.index = hdr.index /\ x.total = hdr.total /\ x \in SpecialObjects
  <2>1. hdr.index \in Indices /\ hdr.total \in 1 .. MaxInput
    BY DEF Items
  <2>2. hdr.total = 1 => hdr.index = 0
    BY <1>3, <2>1, SizesAssumption DEF Indices
  <2> QED BY <2>1, <2>2 DEF SpecialObjects
<1>5. tempQ \in Seq(SpecialObjects)
  BY DEF Types, TypeOK, QueueTypeOK, ImgQueueTypeOK
<1> HIDE DEF x
<1> DEFINE L == Len(tempQ)
<1>6. /\ tempQ' # <<>> /\ Len(tempQ') = L + 1
      /\ DOMAIN tempQ' = 1 .. L + 1 /\ DOMAIN tempQ = 1 .. L /\ L \in Nat
      /\ tempQ'[L + 1] = x /\ \A i \in 1 .. L : tempQ'[i] = tempQ[i]
      /\ tempQ = <<>> <=> L = 0
  BY <1>1, <1>4, <1>5, LineAppends
<1>7. LastQueued = IF L = 0 THEN received ELSE tempQ[L]
  BY <1>6 DEF LastQueued
<1>8. LastQueued' = x
  BY <1>6 DEF LastQueued
<1>9. Follows(LastQueued, x) /\ x.index < x.total
  BY <1>3, <1>4 DEF Follows
<1> HIDE DEF L
<1>10. QueueLine'
  <2>1. received'.index < received'.total
    BY <1>1, <1>3 DEF QueueLine
  <2>2. \A i \in DOMAIN tempQ' : tempQ'[i].index < tempQ'[i].total
    BY <1>3, <1>6, <1>9 DEF QueueLine
  <2>3. ASSUME NEW i \in DOMAIN tempQ', i > 1 PROVE Follows(tempQ'[i - 1], tempQ'[i])
    <3>1. CASE i = L + 1
      <4>1. L # 0 /\ L \in 1 .. L /\ i - 1 = L
        BY <1>6, <2>3, <3>1
      <4> QED BY <1>6, <1>7, <1>9, <3>1, <4>1
    <3>2. CASE i # L + 1
      <4>1. i \in 1 .. L /\ i - 1 \in 1 .. L
        BY <1>6, <2>3, <3>2
      <4> QED BY <1>3, <1>6, <2>3, <4>1 DEF QueueLine
    <3> QED BY <3>1, <3>2
  <2>4. Follows(received', tempQ'[1])
    <3>1. CASE L = 0
      BY <1>1, <1>6, <1>7, <1>9, <3>1
    <3>2. CASE L # 0
      BY <1>1, <1>3, <1>6, <3>2 DEF QueueLine
    <3> QED BY <3>1, <3>2
  <2> QED BY <2>1, <2>2, <2>3, <2>4 DEF QueueLine
<1>11. HostLine'
  <2>1. host.open => Follows(hdr, host)
    BY <1>1, <1>2, <1>3 DEF HostLine, LastImage
  <2>2. host.open => Follows(LastImage', host)
    BY <1>2, <1>4, <1>8, <2>1 DEF LastImage, Follows
  <2> QED BY <1>1, <1>2, <2>2 DEF HostLine
<1> QED BY <1>2, <1>10, <1>11 DEF LineInv, QueueLine, HostLine

LEMMA MgrGetLine == ASSUME Types, LineInv, BufMgrNext, MgrGet PROVE LineInv'
<1> USE ImgFacts
<1>1. /\ tempQ # <<>> /\ tempQ' = Tail(tempQ) /\ received' = Head(tempQ)
      /\ UNCHANGED <<imgPc, imgRet, recvLen, recvType, hdr, buf, ep, content, host>>
  BY DEF BufMgrNext, MgrGet, linkVars, epVars, imgVars, memVars, hostVars
<1>2. (HasHeader' <=> HasHeader) /\ Header' = Header /\ Got' = Got
  BY <1>1 DEF HasHeader, Header, Got, NewHeader, InReceive, WaitsForBuffer, Landed
<1>3. tempQ \in Seq(SpecialObjects)
  BY DEF Types, TypeOK, QueueTypeOK, ImgQueueTypeOK
<1> DEFINE L == Len(tempQ)
<1>4. /\ DOMAIN tempQ' = 1 .. L - 1 /\ DOMAIN tempQ = 1 .. L /\ L \in Nat /\ L >= 1
      /\ received' = tempQ[1] /\ Len(tempQ') = L - 1
      /\ \A i \in 1 .. L - 1 : tempQ'[i] = tempQ[i + 1]
      /\ tempQ' = <<>> <=> L = 1
  BY <1>1, <1>3, LineTails
<1>5. LastQueued = tempQ[L]
  BY <1>1 DEF LastQueued
<1> HIDE DEF L
<1>6. LastQueued' = LastQueued
  <2>1. CASE L = 1
    BY <1>4, <1>5, <2>1 DEF LastQueued
  <2>2. CASE L # 1
    <3>1. L - 1 \in 1 .. L - 1 /\ (L - 1) + 1 = L
      BY <1>4, <2>2
    <3>2. tempQ'[L - 1] = tempQ[L]
      BY <1>4, <3>1
    <3>3. LastQueued' = tempQ'[L - 1]
      BY <1>4, <2>2 DEF LastQueued
    <3> QED BY <1>5, <3>2, <3>3
  <2> QED BY <2>1, <2>2
<1>7. QueueLine /\ HostLine /\ (HasHeader => Header.index < Header.total /\ Follows(LastQueued, Header))
  BY LineParts
<1>8. QueueLine'
  <2>1. received'.index < received'.total
    <3>1. 1 \in DOMAIN tempQ
      BY <1>4
    <3> QED BY <1>4, <1>7, <3>1 DEF QueueLine
  <2>2. ASSUME NEW i \in DOMAIN tempQ' PROVE tempQ'[i].index < tempQ'[i].total
    <3>1. i + 1 \in 1 .. L /\ tempQ'[i] = tempQ[i + 1]
      BY <1>4
    <3> QED BY <1>4, <1>7, <3>1 DEF QueueLine
  <2>3. ASSUME NEW i \in DOMAIN tempQ', i > 1 PROVE Follows(tempQ'[i - 1], tempQ'[i])
    <3>1. i + 1 \in 1 .. L /\ tempQ'[i] = tempQ[i + 1] /\ i + 1 > 1
      BY <1>4, <2>3
    <3>2. i - 1 \in 1 .. L - 1 /\ (i - 1) + 1 = i /\ (i + 1) - 1 = i
      BY <1>4, <2>3
    <3>3. tempQ'[i - 1] = tempQ[i]
      BY <1>4, <3>2
    <3>4. Follows(tempQ[(i + 1) - 1], tempQ[i + 1])
      BY <1>4, <1>7, <3>1 DEF QueueLine
    <3> QED BY <3>1, <3>2, <3>3, <3>4
  <2>4. tempQ' # <<>> => Follows(received', tempQ'[1])
    <3> SUFFICES ASSUME L # 1 PROVE Follows(tempQ[1], tempQ'[1])
      BY <1>4
    <3>1. 2 \in 1 .. L /\ 1 \in 1 .. L - 1 /\ 2 - 1 = 1 /\ 2 > 1
      BY <1>4
    <3>2. tempQ'[1] = tempQ[2]
      BY <1>4, <3>1
    <3> QED BY <1>4, <1>7, <3>1, <3>2 DEF QueueLine
  <2> QED BY <2>1, <2>2, <2>3, <2>4 DEF QueueLine
<1>9. HostLine'
  <2>1. LastImage' = LastImage
    BY <1>2, <1>6 DEF LastImage
  <2> QED BY <1>1, <1>2, <1>7, <2>1 DEF HostLine, Follows
<1> QED BY <1>2, <1>6, <1>7, <1>8, <1>9 DEF LineInv, QueueLine, HostLine, Follows

LEMMA StepLine ==
  ASSUME Types, Types', Receiving, ReceiveInv, LengthInv, LineInv, [Next]_vars,
         ~torn', ~late, ~late'
  PROVE  LineInv'
<1> USE ImgFacts
<1>1. CASE LinkNext
  BY <1>1, LinkLine
<1>2. CASE HostNext
  BY <1>2, HostQuietLine, CommandLine, ImageLine DEF HostNext
<1>3. CASE ImgNext
  <2>1. CASE ImgElsewhere /\ ~ImgSwap /\ ~ImgEnqueue
    BY <2>1, ImgQuietLine
  <2>2. CASE ImgSwap \/ ImgEnqueue
    BY <2>2, SwapLine, EnqueueLine
  <2>3. CASE ImgReceive \/ ImgMark \/ ImgArm
    <3>1. imgPc \in {"recv", "mark", "arm"}
          /\ UNCHANGED <<received, tempQ, host, recvLen, recvType, hdr>>
          /\ imgPc' \in {"mark", "arm", "recv_wait", "failed"}
      BY <2>3 DEF ImgReceive, ImgMark, ImgArm, queueVars, hostVars
    <3>4. ~Landed'
      BY <2>3 DEF ImgReceive, ImgMark, ImgArm, Landed
    <3>2. ~Landed /\ ~Landed' /\ InReceive /\ InReceive' /\ ~NewHeader /\ ~NewHeader'
      BY <3>1, <3>4 DEF Landed, InReceive, NewHeader
    <3>3. (HasHeader' <=> HasHeader) /\ Header' = Header /\ Got' = Got
      BY <3>1, <3>2 DEF HasHeader, Header, Got
    <3> QED BY <3>1, <3>3, LineKept
  <2>4. CASE ImgReceived
    <3>1. imgPc = "recv_wait" /\ UNCHANGED <<received, tempQ, host, buf, content>>
      BY <2>4 DEF ImgReceived, imgQueues, mgrVars, hostVars, memVars
    <3>2. CASE ep["out"] = "done"
      BY <2>4, <3>1, <3>2, ParseLine DEF ImgReceived, Landed
    <3>3. CASE ep["out"] # "done"
      <4>1. imgPc' = "failed" /\ UNCHANGED <<recvLen, recvType, hdr>>
        BY <2>4, <3>3 DEF ImgReceived
      <4>2. ~Landed /\ ~Landed' /\ InReceive /\ InReceive' /\ ~NewHeader /\ ~NewHeader'
        BY <3>1, <3>3, <4>1 DEF Landed, InReceive, NewHeader
      <4>3. (HasHeader' <=> HasHeader) /\ Header' = Header /\ Got' = Got
        BY <3>1, <4>1, <4>2 DEF HasHeader, Header, Got
      <4> QED BY <3>1, <4>3, LineKept
    <3> QED BY <3>2, <3>3
  <2>5. CASE ImgFailed
    <3>1. imgPc = "failed" /\ UNCHANGED <<received, tempQ, host, buf, content>>
      BY <2>5 DEF ImgFailed, imgQueues, mgrVars, hostVars, memVars
    <3>2. CASE Parse(0)
      BY <3>1, <3>2, ParseLine
    <3>3. CASE imgPc' = "clean_img"
      <4>1. ~HasHeader' /\ Fresh'
        BY <3>1, <3>3 DEF HasHeader, InReceive, WaitsForBuffer, NewHeader, Landed, ReceiveInv, Fresh
      <4> QED BY <3>1, <4>1, LineKept
    <3> QED BY <2>5, <3>2, <3>3 DEF ImgFailed
  <2> QED BY <1>3, <2>1, <2>2, <2>3, <2>4, <2>5 DEF ImgNext, ImgElsewhere
<1>4. CASE BufMgrNext /\ ~MgrGet
  <2>1. UNCHANGED <<received, tempQ, imgVars, content, ep, host>>
    BY <1>4 DEF BufMgrNext, MgrNext, MgrPutBack, MgrEnqueue, linkVars, epVars, memVars, hostVars
  <2>2. Landed' <=> Landed
    BY <2>1 DEF Landed, imgVars
  <2> QED BY <2>1, <2>2, LineUntouched
<1>5. CASE BufMgrNext /\ MgrGet
  BY <1>5, MgrGetLine
<1>6. CASE InfNext \/ SendNext \/ UNCHANGED vars
  <2>1. UNCHANGED <<received, tempQ, imgVars, content, host>>
    BY <1>6 DEF InfNext, InfDequeue, InfGetResultBuffer, InfExecute, InfPutFree, SendNext,
       SendDequeue, SendStart, SendBegins, SendDone, SendHangs, SendPutFree, queueVars,
       imgQueues, mgrVars, memVars, hostVars, vars
  <2>2. ep'["out"] = ep["out"]
    BY <1>6, OutUntouched DEF InfNext, InfDequeue, InfGetResultBuffer, InfExecute, InfPutFree,
       SendNext, SendDequeue, SendStart, SendBegins, SendDone, SendHangs, SendPutFree, vars,
       linkVars, epVars
  <2>3. Landed' <=> Landed
    BY <2>1, <2>2 DEF Landed, imgVars
  <2> QED BY <2>1, <2>3, LineUntouched
<1> QED BY <1>1, <1>2, <1>3, <1>4, <1>5, <1>6 DEF Next

-----------------------------------------------------------------------------
LEMMA MgrFacts == ASSUME Types PROVE
  /\ received \in SpecialObjects /\ stored \in [Indices -> Slots] /\ numReceived \in Nat
  /\ storedNum \in 0 .. MaxInput /\ StoredAt \subseteq Indices /\ Indices \subseteq Nat
  /\ tempQ \in Seq(SpecialObjects) /\ MaxInput \in Nat /\ NULL \in Slots
  /\ \A r \in SpecialObjects : r.index \in Indices /\ r.total \in 1 .. MaxInput /\ r.buf \in Slots
BY SizesAssumption DEF Types, TypeOK, QueueTypeOK, MgrTypeOK, ImgQueueTypeOK, StoredAt, Indices,
   SpecialObjects, Slots

LEMMA StoredKept ==
  ASSUME StoredInv, UNCHANGED mgrVars
  PROVE  StoredInv'
BY DEF StoredInv, StoredAt, EndOrStart, mgrVars

LEMMA StoreAt ==
  ASSUME Types, NEW r \in SpecialObjects, NEW num, r.buf # NULL, Store(r, num)
  PROVE  /\ StoredAt' = StoredAt \cup {r.index}
         /\ numReceived' = num
         /\ mgrPc' = IF num = r.total THEN "enqueue" ELSE "get"
<1> USE MgrFacts
<1>1. stored' = [stored EXCEPT ![r.index] = r.buf] /\ numReceived' = num
      /\ mgrPc' = IF num = r.total THEN "enqueue" ELSE "get"
  BY DEF Store
<1>2. r.index \in Indices
  OBVIOUS
<1>3. StoredAt' = StoredAt \cup {r.index}
  BY <1>1, <1>2 DEF StoredAt
<1> QED BY <1>1, <1>3

LEMMA MgrGetStored ==
  ASSUME Types, LineInv, StoredInv, NoNull, MgrGet
  PROVE  StoredInv'
<1> USE MgrFacts
<1> DEFINE r == Head(tempQ)
           n == numReceived
<1>1. /\ mgrPc = "get" /\ tempQ # <<>> /\ received' = r /\ storedNum' = r.total
      /\ IF stored[r.index] # NULL THEN mgrPc' = "putback" /\ UNCHANGED <<stored, numReceived>>
                                   ELSE Store(r, n + 1)
  BY DEF MgrGet
<1>2. r = tempQ[1] /\ 1 \in DOMAIN tempQ /\ r \in SpecialObjects
  BY <1>1, LineTails
<1>3. Follows(received, r) /\ r.index < r.total /\ r.buf # NULL
  BY <1>1, <1>2 DEF LineInv, NoNull
<1>4. r.index \in Nat /\ r.total \in Nat /\ received.index \in Nat /\ received.total \in Nat
      /\ n \in Nat /\ r.index \in Indices
  BY <1>2
<1>5. \/ n = 0 /\ StoredAt = {} /\ EndOrStart
      \/ StoredAt = 0 .. n - 1 /\ received.index < n /\ n # received.total
      \/ StoredAt = 1 .. n /\ received.index = n
  BY <1>1 DEF StoredInv
<1> HIDE DEF r
<1>6. CASE stored[r.index] # NULL
  <2>1. r.index \in StoredAt /\ StoredAt' = StoredAt /\ numReceived' = n /\ mgrPc' = "putback"
    BY <1>1, <1>4, <1>6 DEF StoredAt
  <2>2. StoredAt = 0 .. n - 1 /\ received.index < n /\ n # received.total
    BY <1>3, <1>4, <1>5, <2>1 DEF Follows
  <2>3. r.index < n /\ (r.index = 0 \/ n # r.total)
    BY <1>3, <1>4, <2>1, <2>2 DEF Follows
  <2> QED BY <1>1, <2>1, <2>2, <2>3 DEF StoredInv
<1>7. CASE stored[r.index] = NULL
  <2>1. /\ r.index \notin StoredAt
        /\ StoredAt' = StoredAt \cup {r.index} /\ numReceived' = n + 1
        /\ mgrPc' = IF n + 1 = r.total THEN "enqueue" ELSE "get"
    BY <1>1, <1>2, <1>3, <1>7, StoreAt DEF StoredAt
  <2>2. \/ r.index <= n /\ StoredAt' = 0 .. n /\ (r.index = 0 \/ r.index = n)
        \/ r.index = n + 1 /\ StoredAt' = 1 .. n + 1
    <3>1. CASE n = 0 /\ StoredAt = {} /\ EndOrStart
      <4>1. r.index \in {0, 1}
        BY <1>3, <1>4, <3>1 DEF Follows, EndOrStart
      <4> QED BY <2>1, <3>1, <4>1
    <3>2. CASE StoredAt = 0 .. n - 1 /\ received.index < n /\ n # received.total
      <4>1. r.index = n
        BY <1>3, <1>4, <2>1, <3>2 DEF Follows
      <4> QED BY <1>4, <2>1, <3>2, <4>1
    <3>3. CASE StoredAt = 1 .. n /\ received.index = n
      <4>1. r.index = 0 \/ r.index = n + 1
        BY <1>3, <1>4, <3>3 DEF Follows
      <4> QED BY <1>4, <2>1, <3>3, <4>1
    <3> QED BY <1>5, <3>1, <3>2, <3>3
  <2>3. CASE r.index <= n /\ StoredAt' = 0 .. n /\ (r.index = 0 \/ r.index = n)
    <3>1. StoredAt' = 0 .. numReceived' - 1 /\ received'.index < numReceived'
      BY <1>1, <1>4, <2>1, <2>3
    <3>2. n + 1 = r.total => EndOrStart'
      BY <1>1, <1>4, <2>3 DEF EndOrStart
    <3> QED BY <1>1, <2>1, <3>1, <3>2 DEF StoredInv
  <2>4. CASE r.index = n + 1 /\ StoredAt' = 1 .. n + 1
    <3>1. mgrPc' = "get" /\ StoredAt' = 1 .. numReceived' /\ received'.index = numReceived'
      BY <1>1, <1>3, <1>4, <2>1, <2>4
    <3> QED BY <3>1 DEF StoredInv
  <2> QED BY <2>2, <2>3, <2>4
<1> QED BY <1>6, <1>7

LEMMA MgrPutBackStored ==
  ASSUME Types, StoredInv, NoNull, MgrPutBack
  PROVE  StoredInv'
<1> USE MgrFacts
<1>1. mgrPc = "putback" /\ Store(received, numReceived) /\ UNCHANGED <<received, storedNum>>
  BY DEF MgrPutBack
<1>2. /\ StoredAt = 0 .. numReceived - 1 /\ received.index < numReceived
      /\ received.index = 0 \/ numReceived # received.total
      /\ storedNum = received.total
  BY <1>1 DEF StoredInv
<1>3. received.buf # NULL
  BY DEF NoNull
<1>4. StoredAt' = StoredAt \cup {received.index} /\ numReceived' = numReceived
      /\ mgrPc' = IF numReceived = received.total THEN "enqueue" ELSE "get"
  BY <1>1, <1>3, StoreAt
<1>5. received.index \in StoredAt /\ StoredAt' = StoredAt
  BY <1>2, <1>4
<1> QED BY <1>1, <1>2, <1>4, <1>5 DEF StoredInv, EndOrStart

LEMMA MgrEnqueueStored ==
  ASSUME Types, StoredInv, MgrEnqueue
  PROVE  StoredInv'
<1>1. mgrPc = "enqueue" /\ mgrPc' = "get" /\ stored' = [i \in Indices |-> NULL]
      /\ numReceived' = 0 /\ received' = received
  BY DEF MgrEnqueue
<1>2. StoredAt' = {}
  BY <1>1 DEF StoredAt
<1>3. EndOrStart'
  BY <1>1 DEF StoredInv, EndOrStart
<1> QED BY <1>1, <1>2, <1>3 DEF StoredInv

LEMMA StepStored ==
  ASSUME Types, LineInv, StoredInv, NoNull, [Next]_vars
  PROVE  StoredInv'
<1>1. CASE BufMgrNext
  BY <1>1, MgrGetStored, MgrPutBackStored, MgrEnqueueStored DEF BufMgrNext, MgrNext
<1>2. CASE LinkNext \/ HostNext \/ ImgNext \/ InfNext \/ SendNext \/ UNCHANGED vars
  <2>1. UNCHANGED mgrVars
    BY <1>2 DEF LinkNext, Configured, Disconnected, VbusOff, LinkLost, ErrandResetDevice,
       HostNext, ControlConfigure, ControlReset, ControlDroppable, HostBegins, HostSendsImage,
       HostSendsCommand, SendDma, HostReads, InfNext, InfDequeue,
       InfGetResultBuffer, InfExecute, InfPutFree, SendNext, SendDequeue, SendStart,
       SendBegins, SendDone, SendHangs, SendPutFree, vars, queueVars, mgrVars,
       ImgNext, ImgWaitConnection, ImgGet, ImgTakeFree, ImgUnbundle, ImgGrabFails, ImgRetry,
       ImgReceive, ImgMark, ImgArm, ImgReceived, ImgFailed, ImgSwap, ImgEnqueue, ImgCommand,
       ImgCommandBegins, ImgCommandDone, ImgCommandTimeout, ImgPutFree, ImgCleanImages,
       ImgCleanResults, ImgCleaned
  <2> QED BY <2>1, StoredKept
<1> QED BY <1>1, <1>2 DEF Next

-----------------------------------------------------------------------------
(* x stands in no object of the queue q.                                   *)
Lacks(x, q) == \A i \in DOMAIN q : x \notin BufsOf(q[i])

LEMMA LacksAppend ==
  ASSUME NEW x, NEW q \in Seq(Seq(Slots)), NEW o \in Seq(Slots), Lacks(x, q), x \notin BufsOf(o)
  PROVE  Lacks(x, Append(q, o))
<1>1. /\ DOMAIN Append(q, o) = 1 .. Len(q) + 1 /\ DOMAIN q = 1 .. Len(q) /\ Len(q) \in Nat
      /\ Append(q, o)[Len(q) + 1] = o
      /\ \A i \in 1 .. Len(q) : Append(q, o)[i] = q[i]
  OBVIOUS
<1>2. SUFFICES ASSUME NEW i \in 1 .. Len(q) + 1 PROVE x \notin BufsOf(Append(q, o)[i])
  BY <1>1 DEF Lacks
<1>3. CASE i \in 1 .. Len(q)
  BY <1>1, <1>3 DEF Lacks
<1>4. CASE i = Len(q) + 1
  BY <1>1, <1>4
<1> QED BY <1>1, <1>3, <1>4

LEMMA LacksTail ==
  ASSUME NEW x, NEW q \in Seq(Seq(Slots)), q # <<>>, Lacks(x, q)
  PROVE  Lacks(x, Tail(q)) /\ x \notin BufsOf(Head(q)) /\ Head(q) \in Seq(Slots)
<1>1. /\ DOMAIN Tail(q) = 1 .. Len(q) - 1 /\ DOMAIN q = 1 .. Len(q) /\ Len(q) \in Nat
      /\ Head(q) = q[1] /\ Len(q) >= 1 /\ q[1] \in Seq(Slots)
      /\ \A i \in 1 .. Len(q) - 1 : Tail(q)[i] = q[i + 1]
  OBVIOUS
<1>2. x \notin BufsOf(Head(q))
  <2>1. 1 \in DOMAIN q
    BY <1>1
  <2> QED BY <1>1, <2>1 DEF Lacks
<1>3. ASSUME NEW i \in DOMAIN Tail(q) PROVE x \notin BufsOf(Tail(q)[i])
  <2>1. i + 1 \in DOMAIN q /\ Tail(q)[i] = q[i + 1]
    BY <1>1
  <2> QED BY <2>1 DEF Lacks
<1> QED BY <1>1, <1>2, <1>3 DEF Lacks

LEMMA ObjectBufs ==
  /\ \A b \in Slots : BufsOf(<<b>>) = {b} /\ <<b>> \in Seq(Slots)
  /\ BufsOf(<<>>) = {}
  /\ \A o \in Seq(Slots) : o # <<>> => /\ BufsOf(Tail(o)) \subseteq BufsOf(o)
                                       /\ o[1] \in BufsOf(o) /\ Head(o) \in BufsOf(o)
                                       /\ Tail(o) \in Seq(Slots)
<1>1. ASSUME NEW b \in Slots PROVE BufsOf(<<b>>) = {b} /\ <<b>> \in Seq(Slots)
  BY DEF BufsOf
<1>2. ASSUME NEW o \in Seq(Slots), o # <<>>
      PROVE  /\ BufsOf(Tail(o)) \subseteq BufsOf(o)
             /\ o[1] \in BufsOf(o) /\ Head(o) \in BufsOf(o)
             /\ Tail(o) \in Seq(Slots)
  <2>1. /\ DOMAIN Tail(o) = 1 .. Len(o) - 1 /\ DOMAIN o = 1 .. Len(o) /\ Len(o) \in Nat
        /\ Len(o) >= 1 /\ Head(o) = o[1] /\ Tail(o) \in Seq(Slots)
        /\ \A i \in 1 .. Len(o) - 1 : Tail(o)[i] = o[i + 1]
    BY <1>2
  <2>2. o[1] \in BufsOf(o)
    BY <2>1 DEF BufsOf
  <2>3. ASSUME NEW i \in DOMAIN Tail(o) PROVE Tail(o)[i] \in BufsOf(o)
    <3>1. i + 1 \in DOMAIN o /\ Tail(o)[i] = o[i + 1]
      BY <2>1
    <3> QED BY <3>1 DEF BufsOf
  <2> QED BY <2>1, <2>2, <2>3 DEF BufsOf
<1>3. BufsOf(<<>>) = {}
  BY DEF BufsOf
<1> QED BY <1>1, <1>2, <1>3

LEMMA PlaceTypes == ASSUME Types PROVE
  /\ imgFree \in Seq(Seq(Slots)) /\ imgData \in Seq(Seq(Slots)) /\ tempQ \in Seq(SpecialObjects)
  /\ extra \in Seq(Slots) /\ obj \in Seq(Slots) /\ buf \in Slots /\ received.buf \in Slots
BY MgrFacts, ImgFacts DEF Types, TypeOK, QueueTypeOK, ImgQueueTypeOK, ImgTypeOK, InfTypeOK

LEMMA NoNullParts ==
  NoNull <=> /\ Lacks(NULL, imgFree) /\ Lacks(NULL, imgData)
             /\ \A i \in DOMAIN tempQ : tempQ[i].buf # NULL
             /\ received.buf # NULL /\ buf # NULL
             /\ NULL \notin BufsOf(extra) /\ NULL \notin BufsOf(obj)
BY DEF NoNull, ObjectsComplete, Lacks

LEMMA NoNullKept ==
  ASSUME NoNull, UNCHANGED <<imgQueues, received, buf, extra, obj>>
  PROVE  NoNull'
BY DEF NoNull, ObjectsComplete, imgQueues, BufsOf

LEMMA ConfigureNoNull == ASSUME Types, NoNull, ControlConfigure PROVE NoNull'
<1>1. imgFree' = [i \in 1 .. NumImg |-> <<i>>]
      /\ UNCHANGED <<imgData, tempQ, received, buf, extra, obj>>
  BY DEF ControlConfigure, fill_free_queues, mgrVars, imgVars, infVars
<1>2. Lacks(NULL, imgFree')
  <2> SUFFICES ASSUME NEW i \in 1 .. NumImg PROVE NULL \notin BufsOf(<<i>>)
    BY <1>1 DEF Lacks
  <2>1. BufsOf(<<i>>) = {i}
    BY DEF BufsOf
  <2> QED BY <2>1, SizesAssumption DEF NULL
<1> QED BY <1>1, <1>2, NoNullParts DEF NoNull, ObjectsComplete, Lacks, BufsOf

LEMMA FreeLacks ==
  ASSUME Types, NEW x, Lacks(x, imgFree), NEW b \in Slots, b # x, image_put_free_buffer(b)
  PROVE  Lacks(x, imgFree')
<1>1. imgFree' = Append(imgFree, <<b>>)
  BY DEF image_put_free_buffer
<1>2. x \notin BufsOf(<<b>>) /\ <<b>> \in Seq(Slots)
  BY ObjectBufs
<1> QED BY <1>1, <1>2, LacksAppend, PlaceTypes

LEMMA TakeLacks ==
  ASSUME Types, NEW x, Lacks(x, imgFree), Lacks(x, imgData), NEW o, take_free(o) \/ take_data(o)
  PROVE  /\ Lacks(x, imgFree') /\ Lacks(x, imgData') /\ x \notin BufsOf(o)
         /\ o \in Seq(Slots) /\ o # <<>>
<1>1. CASE /\ imgFree # <<>> /\ o = Head(imgFree) /\ imgFree' = Tail(imgFree)
           /\ imgData' = imgData
  <2>1. Lacks(x, Tail(imgFree)) /\ x \notin BufsOf(o) /\ o \in Seq(Slots)
    BY <1>1, LacksTail, PlaceTypes
  <2>2. o # <<>>
    BY <1>1, TailType DEF Types, TypeOK, QueueTypeOK, ImgQueueTypeOK
  <2> QED BY <1>1, <2>1, <2>2
<1>2. CASE /\ imgData # <<>> /\ o = Head(imgData) /\ imgData' = Tail(imgData)
           /\ imgFree' = imgFree
  <2>1. Lacks(x, Tail(imgData)) /\ x \notin BufsOf(o) /\ o \in Seq(Slots)
    BY <1>2, LacksTail, PlaceTypes
  <2>2. o # <<>>
    BY <1>2, TailType DEF Types, TypeOK, QueueTypeOK, ImgQueueTypeOK
  <2> QED BY <1>2, <2>1, <2>2
<1> QED BY <1>1, <1>2 DEF take_free, take_data

LEMMA TakeNoNull == ASSUME Types, NoNull, ImgTakeFree PROVE NoNull'
<1>1. PICK o : /\ take_free(o) \/ take_data(o)
               /\ buf' = o[1] /\ extra' = Tail(o)
  BY DEF ImgTakeFree
<1>2. UNCHANGED <<tempQ, received, obj>>
  BY DEF ImgTakeFree, mgrVars, infVars
<1>3. Lacks(NULL, imgFree) /\ Lacks(NULL, imgData)
  BY NoNullParts
<1>4. /\ Lacks(NULL, imgFree') /\ Lacks(NULL, imgData') /\ NULL \notin BufsOf(o) /\ o \in Seq(Slots)
      /\ o # <<>>
  BY <1>1, <1>3, TakeLacks
<1>5. buf' # NULL /\ NULL \notin BufsOf(extra')
  BY <1>1, <1>4, ObjectBufs
<1> QED BY <1>2, <1>4, <1>5 DEF NoNull, ObjectsComplete, Lacks, BufsOf

LEMMA ImgNoNull == ASSUME Types, LineInv, NoNull, ImgNext PROVE NoNull'
<1> USE DEF imgQueues, imgVars, infVars, mgrVars, queueVars
<1>1. CASE ImgTakeFree
  BY <1>1, TakeNoNull
<1>2. CASE ImgUnbundle
  <2>1. /\ imgPc = "unbundle" /\ image_put_free_buffer(Head(extra)) /\ extra' = Tail(extra)
        /\ UNCHANGED <<imgData, tempQ, received, buf, obj>>
    BY <1>2 DEF ImgUnbundle
  <2>2. extra # <<>>
    BY <2>1 DEF Types, Shapes
  <2>3. Head(extra) # NULL /\ Head(extra) \in Slots /\ NULL \notin BufsOf(Tail(extra))
    BY <2>2, ObjectBufs, PlaceTypes DEF NoNull
  <2>4. Lacks(NULL, imgFree')
    BY <2>1, <2>3, FreeLacks, NoNullParts
  <2> QED BY <2>1, <2>3, <2>4 DEF NoNull, ObjectsComplete, Lacks, BufsOf
<1>3. CASE ImgEnqueue
  <2> DEFINE x == [total |-> hdr.total, index |-> IF hdr.total = 1 THEN 0 ELSE hdr.index,
                   buf |-> buf]
  <2>1. tempQ' = Append(tempQ, x) /\ UNCHANGED <<imgFree, imgData, received, buf, extra, obj>>
    BY <1>3, HasImages DEF ImgEnqueue, image_enqueue
  <2>2. x.buf # NULL /\ x \in SpecialObjects
    <3>1. hdr.total \in 1 .. MaxInput /\ hdr.index \in Indices /\ buf \in Slots /\ 0 \in Indices
      BY ImgFacts, ConstantTypes DEF Items
    <3> QED BY <3>1 DEF NoNull, SpecialObjects
  <2> HIDE DEF x
  <2>3. \A i \in DOMAIN tempQ' : tempQ'[i].buf # NULL
    <3>1. /\ DOMAIN tempQ' = 1 .. Len(tempQ) + 1 /\ DOMAIN tempQ = 1 .. Len(tempQ)
          /\ Len(tempQ) \in Nat /\ tempQ'[Len(tempQ) + 1] = x
          /\ \A i \in 1 .. Len(tempQ) : tempQ'[i] = tempQ[i]
      BY <2>1, <2>2, LineAppends, PlaceTypes
    <3>2. ASSUME NEW i \in 1 .. Len(tempQ) + 1 PROVE tempQ'[i].buf # NULL
      <4>1. CASE i \in 1 .. Len(tempQ)
        BY <3>1, <4>1 DEF NoNull
      <4>2. CASE i = Len(tempQ) + 1
        BY <2>2, <3>1, <4>2
      <4> QED BY <3>1, <4>1, <4>2
    <3> QED BY <3>1, <3>2
  <2> QED BY <2>1, <2>3 DEF NoNull, ObjectsComplete, BufsOf
<1>4. CASE ImgPutFree
  <2>1. UNCHANGED <<imgData, tempQ, received, buf, extra, obj>>
        /\ (imgFree' = imgFree \/ image_put_free_buffer(buf))
    BY <1>4 DEF ImgPutFree
  <2>2. Lacks(NULL, imgFree')
    <3>1. buf # NULL /\ buf \in Slots
      BY PlaceTypes DEF NoNull
    <3> QED BY <2>1, <3>1, FreeLacks, NoNullParts
  <2> QED BY <2>1, <2>2 DEF NoNull, ObjectsComplete, Lacks, BufsOf
<1>5. CASE ImgCleanImages
  <2>1. UNCHANGED <<tempQ, received, buf, extra, obj>>
    BY <1>5 DEF ImgCleanImages
  <2>2. Lacks(NULL, imgFree) /\ Lacks(NULL, imgData)
    BY NoNullParts
  <2>3. CASE UNCHANGED <<imgFree, imgData>>
    BY <2>1, <2>3, NoNullKept
  <2>4. CASE clean_image_object
    <3>1. imgData # <<>> /\ imgData' = Tail(imgData)
          /\ (imgFree' = imgFree \/ imgFree' = Append(imgFree, Head(imgData)))
      BY <2>4 DEF clean_image_object
    <3>2. Lacks(NULL, imgData') /\ NULL \notin BufsOf(Head(imgData)) /\ Head(imgData) \in Seq(Slots)
      BY <2>2, <3>1, LacksTail, PlaceTypes
    <3>3. Lacks(NULL, imgFree')
      BY <2>2, <3>1, <3>2, LacksAppend, PlaceTypes
    <3> QED BY <2>1, <3>2, <3>3 DEF NoNull, ObjectsComplete, Lacks, BufsOf
  <2> QED BY <1>5, <2>3, <2>4 DEF ImgCleanImages
<1>6. CASE ImgGet
  <2>1. UNCHANGED <<imgQueues, received, extra, obj>> /\ buf' \in {buf, Temp}
    BY <1>6 DEF ImgGet
  <2> QED BY <2>1 DEF NoNull, ObjectsComplete, BufsOf, Temp, NULL
<1>7. CASE \/ ImgWaitConnection \/ ImgGrabFails \/ ImgRetry \/ ImgReceive \/ ImgMark
           \/ ImgArm \/ ImgReceived \/ ImgFailed \/ ImgSwap \/ ImgCommand
           \/ ImgCommandBegins \/ ImgCommandDone \/ ImgCommandTimeout \/ ImgCleanResults
           \/ ImgCleaned
  <2>1. UNCHANGED <<imgQueues, received, buf, extra, obj>>
    BY <1>7 DEF ImgWaitConnection, ImgGrabFails, ImgRetry, ImgReceive, ImgMark, ImgArm,
       ImgReceived, ImgFailed, ImgSwap, ImgCommand, ImgCommandBegins, ImgCommandDone,
       ImgCommandTimeout, ImgCleanResults, ImgCleaned
  <2> QED BY <2>1, NoNullKept
<1> QED BY <1>1, <1>2, <1>3, <1>4, <1>5, <1>6, <1>7 DEF ImgNext

LEMMA MgrNoNull ==
  ASSUME Types, StoredInv, NoNull, BufMgrNext
  PROVE  NoNull'
<1> USE MgrFacts DEF imgVars, infVars
<1>1. UNCHANGED <<buf, extra, obj>>
  BY DEF BufMgrNext
<1>2. CASE MgrGet
  <2>1. tempQ # <<>> /\ tempQ' = Tail(tempQ) /\ received' = Head(tempQ)
        /\ UNCHANGED <<imgFree, imgData>>
    BY <1>2 DEF MgrGet
  <2>2. /\ DOMAIN tempQ' = 1 .. Len(tempQ) - 1 /\ DOMAIN tempQ = 1 .. Len(tempQ)
        /\ Len(tempQ) \in Nat /\ Len(tempQ) >= 1 /\ received' = tempQ[1]
        /\ \A i \in 1 .. Len(tempQ) - 1 : tempQ'[i] = tempQ[i + 1]
    BY <2>1, LineTails
  <2>3. \A i \in DOMAIN tempQ : tempQ[i].buf # NULL
    BY DEF NoNull
  <2>4. received'.buf # NULL
    BY <2>2, <2>3
  <2>5. ASSUME NEW i \in DOMAIN tempQ' PROVE tempQ'[i].buf # NULL
    <3>1. i + 1 \in DOMAIN tempQ /\ tempQ'[i] = tempQ[i + 1]
      BY <2>2
    <3> QED BY <2>3, <3>1
  <2> QED BY <1>1, <2>1, <2>4, <2>5 DEF NoNull, ObjectsComplete, BufsOf
<1>3. CASE MgrPutBack
  <2>1. mgrPc = "putback" /\ image_put_free_buffer(stored[received.index])
        /\ UNCHANGED <<imgData, tempQ, received>>
    BY <1>3 DEF MgrPutBack
  <2>2. received.index \in StoredAt
    <3>1. StoredAt = 0 .. numReceived - 1 /\ received.index < numReceived
      BY <2>1 DEF StoredInv
    <3> QED BY <3>1
  <2>3. stored[received.index] # NULL /\ stored[received.index] \in Slots
    BY <2>2 DEF StoredAt
  <2>4. Lacks(NULL, imgFree')
    BY <2>1, <2>3, FreeLacks, NoNullParts
  <2> QED BY <1>1, <2>1, <2>4 DEF NoNull, ObjectsComplete, Lacks, BufsOf
<1>4. CASE MgrEnqueue
  <2> DEFINE o == [k \in 1 .. storedNum |-> stored[k - 1]]
  <2>1. mgrPc = "enqueue" /\ imgData' = Append(imgData, o) /\ UNCHANGED <<imgFree, tempQ, received>>
    BY <1>4 DEF MgrEnqueue
  <2>2. StoredAt = 0 .. storedNum - 1 /\ storedNum \in Nat
    BY <2>1 DEF StoredInv
  <2>3. ASSUME NEW k \in 1 .. storedNum PROVE stored[k - 1] \in Slots /\ stored[k - 1] # NULL
    <3>1. k - 1 \in StoredAt
      BY <2>2
    <3> QED BY <3>1 DEF StoredAt
  <2>4. o \in Seq(Slots) /\ NULL \notin BufsOf(o)
    BY <2>2, <2>3 DEF BufsOf
  <2> HIDE DEF o
  <2>5. Lacks(NULL, imgData')
    BY <2>1, <2>4, LacksAppend, PlaceTypes, NoNullParts
  <2> QED BY <1>1, <2>1, <2>5 DEF NoNull, ObjectsComplete, Lacks, BufsOf
<1> QED BY <1>2, <1>3, <1>4 DEF BufMgrNext, MgrNext

LEMMA InfNoNull ==
  ASSUME Types, NoNull, InfNext
  PROVE  NoNull'
<1> USE DEF imgVars, mgrVars, imgQueues
<1>1. CASE InfDequeue
  <2>1. imgData # <<>> /\ imgData' = Tail(imgData) /\ obj' = Head(imgData)
        /\ UNCHANGED <<imgFree, tempQ, received, buf, extra>>
    BY <1>1 DEF InfDequeue, image_dequeue
  <2>2. Lacks(NULL, imgData') /\ NULL \notin BufsOf(obj')
    BY <2>1, LacksTail, PlaceTypes, NoNullParts
  <2> QED BY <2>1, <2>2 DEF NoNull, ObjectsComplete, Lacks, BufsOf
<1>2. CASE InfGetResultBuffer \/ InfExecute
  <2>1. UNCHANGED <<imgQueues, received, buf, extra, obj>>
    BY <1>2 DEF InfGetResultBuffer, InfExecute
  <2> QED BY <2>1, NoNullKept
<1>3. CASE InfPutFree
  <2>1. infPc = "put" /\ image_put_free_buffer(Head(obj)) /\ obj' = Tail(obj)
        /\ UNCHANGED <<imgData, tempQ, received, buf, extra>>
    BY <1>3 DEF InfPutFree
  <2>2. obj # <<>>
    BY <2>1 DEF Types, Shapes
  <2>3. Head(obj) # NULL /\ Head(obj) \in Slots /\ NULL \notin BufsOf(Tail(obj))
    BY <2>2, ObjectBufs, PlaceTypes DEF NoNull
  <2>4. Lacks(NULL, imgFree')
    BY <2>1, <2>3, FreeLacks, NoNullParts
  <2> QED BY <2>1, <2>3, <2>4 DEF NoNull, ObjectsComplete, Lacks, BufsOf
<1> QED BY <1>1, <1>2, <1>3 DEF InfNext

LEMMA StepNoNull ==
  ASSUME Types, LineInv, StoredInv, NoNull, [Next]_vars
  PROVE  NoNull'
<1>1. CASE LinkNext \/ SendNext \/ UNCHANGED vars \/ (HostNext /\ ~ControlConfigure)
  <2>1. UNCHANGED <<imgQueues, received, buf, extra, obj>>
    BY <1>1 DEF LinkNext, Configured, Disconnected, VbusOff, LinkLost, ErrandResetDevice,
       HostNext, ControlReset, ControlDroppable, HostBegins, HostSendsImage,
       HostSendsCommand, SendDma, HostReads, SendNext, SendDequeue, SendStart, SendBegins,
       SendDone, SendHangs, SendPutFree, vars, queueVars, imgQueues, mgrVars,
       imgVars, infVars
  <2> QED BY <2>1, NoNullKept
<1> QED BY <1>1, ConfigureNoNull, ImgNoNull, MgrNoNull, InfNoNull DEF Next, HostNext

-----------------------------------------------------------------------------
LEMMA InitOrder == Init => OrderInv
<1> SUFFICES ASSUME Init PROVE OrderInv
  OBVIOUS
<1> USE DEF Init, QueueInit
<1>1. Receiving
  BY InitReceiving
<1>2. ReceiveInv
  <2>1. ImgChunks \in {1, 2} /\ ep["out"] = "na"
    BY HostAssumption DEF Endpoints
  <2> QED BY <2>1 DEF ReceiveInv, Landed, Fresh
<1>3. LengthInv
  BY DEF LengthInv, WaitsForBuffer
<1>4. LineInv
  <2>1. ~HasHeader
    BY DEF HasHeader, InReceive, WaitsForBuffer, NewHeader, Landed
  <2>2. DOMAIN tempQ = {}
    OBVIOUS
  <2> QED BY <2>1, <2>2 DEF LineInv, NoObject, Follows
<1>5. StoredInv
  BY DEF StoredInv, StoredAt, EndOrStart, NoObject
<1>6. NoNull
  BY DEF NoNull, ObjectsComplete, BufsOf, NoObject, Temp, NULL
<1> QED BY <1>1, <1>2, <1>3, <1>4, <1>5, <1>6 DEF OrderInv

(* What was recorded once stays recorded.                                  *)
LEMMA TornOnlyThere == ASSUME [Next]_vars, ~HostSendsImage PROVE torn' = torn
<1>1. CASE ImgNext
  BY <1>1 DEF ImgNext, ImgWaitConnection, ImgGet, ImgTakeFree, ImgUnbundle,
     ImgGrabFails, ImgRetry, ImgReceive, ImgMark, ImgArm, ImgReceived, ImgFailed, ImgSwap,
     ImgEnqueue, ImgCommand, ImgCommandBegins, ImgCommandDone, ImgCommandTimeout, ImgPutFree,
     ImgCleanImages, ImgCleanResults, ImgCleaned, history
<1>2. CASE ~ImgNext
  BY <1>2 DEF Next, LinkNext, Configured, Disconnected, VbusOff, LinkLost, ErrandResetDevice,
     HostNext, ControlConfigure, ControlReset, ControlDroppable, HostBegins,
     HostSendsCommand, SendDma, HostReads, BufMgrNext, InfNext, InfDequeue,
     InfGetResultBuffer, InfExecute, InfPutFree, SendNext, SendDequeue, SendStart, SendBegins,
     SendDone, SendHangs, SendPutFree, vars, history
<1> QED BY <1>1, <1>2

LEMMA LateStays == ASSUME [Next]_vars PROVE late => late'
<1>1. CASE ImgArm \/ ImgCommandBegins \/ SendBegins
  BY <1>1 DEF ImgArm, ImgCommandBegins, SendBegins, send_begins
<1>2. CASE ImgNext /\ ~ImgArm /\ ~ImgCommandBegins
  BY <1>2 DEF ImgNext, ImgWaitConnection, ImgGet, ImgTakeFree, ImgUnbundle,
     ImgGrabFails, ImgRetry, ImgReceive, ImgMark, ImgReceived, ImgFailed, ImgSwap,
     ImgEnqueue, ImgCommand, ImgCommandDone, ImgCommandTimeout,
     ImgPutFree, ImgCleanImages, ImgCleanResults, ImgCleaned, history
<1>3. CASE ~ImgNext /\ ~SendBegins
  BY <1>3 DEF Next, LinkNext, Configured, Disconnected, VbusOff, LinkLost, ErrandResetDevice,
     HostNext, ControlConfigure, ControlReset, ControlDroppable, HostBegins, HostSendsImage,
     HostSendsCommand, SendDma, HostReads, BufMgrNext, InfNext, InfDequeue,
     InfGetResultBuffer, InfExecute, InfPutFree, SendNext, SendDequeue, SendStart,
     SendDone, SendHangs, SendPutFree, vars, history
<1> QED BY <1>1, <1>2, <1>3

LEMMA HistoryStays ==
  ASSUME [Next]_vars
  PROVE  (raced => raced') /\ (torn => torn') /\ (late => late')
<1>1. (torn => torn') /\ (late => late')
  <2>1. torn => torn'
    <3>1. CASE HostSendsImage
      BY <3>1 DEF HostSendsImage
    <3>2. CASE ~HostSendsImage
      BY <3>2, TornOnlyThere
    <3> QED BY <3>1, <3>2
  <2> QED BY <2>1, LateStays
<1>2. CASE ImgNext
  <2>1. CASE ImgRetry
    BY <1>1, <2>1 DEF ImgRetry
  <2>2. CASE ~ImgRetry
    <3>1. raced' = raced
      BY <1>2, <2>2 DEF ImgNext, ImgWaitConnection, ImgGet, ImgTakeFree, ImgUnbundle,
         ImgGrabFails, ImgReceive, ImgMark, ImgArm, ImgReceived, ImgFailed, ImgSwap,
         ImgEnqueue, ImgCommand, ImgCommandBegins, ImgCommandDone, ImgCommandTimeout,
         ImgPutFree, ImgCleanImages, ImgCleanResults, ImgCleaned, history
    <3> QED BY <1>1, <3>1
  <2> QED BY <2>1, <2>2
<1>3. CASE ~ImgNext
  <2>1. raced' = raced
    BY <1>3 DEF Next, LinkNext, Configured, Disconnected, VbusOff, LinkLost, ErrandResetDevice,
       HostNext, ControlConfigure, ControlReset, ControlDroppable, HostBegins, HostSendsImage,
       HostSendsCommand, SendDma, HostReads, BufMgrNext, InfNext, InfDequeue,
       InfGetResultBuffer, InfExecute, InfPutFree, SendNext, SendDequeue, SendStart,
       SendBegins, SendDone, SendHangs, SendPutFree, vars, history
  <2> QED BY <1>1, <2>1
<1> QED BY <1>2, <1>3

LEMMA StepOrder == Types /\ Types' /\ OrderInv /\ [Next]_vars => OrderInv'
<1> SUFFICES ASSUME Types, Types', OrderInv, [Next]_vars PROVE OrderInv'
  OBVIOUS
<1>1. Receiving' /\ LengthInv'
  BY StepReceiving, StepLengths DEF OrderInv
<1>3. ASSUME ~late' PROVE ReceiveInv'
  BY <1>3, HistoryStays, StepReceives DEF OrderInv
<1>2. ASSUME ~late', ~torn' PROVE LineInv' /\ StoredInv' /\ NoNull'
  <2>1. ReceiveInv /\ LineInv /\ StoredInv /\ NoNull /\ ~late
    BY <1>2, HistoryStays DEF OrderInv
  <2> QED BY <1>2, <2>1, StepLine, StepStored, StepNoNull DEF OrderInv
<1> QED BY <1>1, <1>2, <1>3 DEF OrderInv

LEMMA OrderInvariant == Spec => []OrderInv
BY InitOrder, StepOrder, TypesInvariant, PTL DEF Spec

(* Whatever the host resets, drops or unplugs: as long as no later part of *)
(* an image was taken for the beginning of one and no DMA was armed late,  *)
(* an object that waits for inference has a buffer for every image, so     *)
(* that the NPU is never given the address 0.                              *)
THEOREM NoImageIsMissing == Spec => []NoMissingImage
<1>1. OrderInv => NoMissingImage
  BY DEF OrderInv, NoNull, NoMissingImage
<1> QED BY <1>1, OrderInvariant, PTL

(* Images of one transfer have no later part.                              *)
LEMMA OneTransferIsWhole == ASSUME ImgChunks = 1 PROVE Spec => []~torn
<1> DEFINE Whole == ~torn /\ host.chunk = 0
<1>1. Init => Whole
  BY DEF Init
<1>2. Types /\ Whole /\ [Next]_vars => Whole'
  <2> SUFFICES ASSUME Types, Whole, [Next]_vars PROVE Whole'
    OBVIOUS
  <2> USE ImgFacts
  <2>1. CASE HostSendsImage
    <3>1. host'.chunk = 0
      BY <2>1 DEF HostSendsImage, HostStates
    <3>2. torn' = (torn \/ (host.chunk > 0 /\ dma.at = 0))
      BY <2>1 DEF HostSendsImage
    <3>3. ~(host.chunk > 0)
      OBVIOUS
    <3> QED BY <3>1, <3>2, <3>3
  <2>2. CASE ~HostSendsImage
    <3> SUFFICES host'.chunk = 0
      BY <2>2, TornOnlyThere
    <3>1. CASE LinkNext
      BY <3>1 DEF LinkNext, Configured, Disconnected, VbusOff, LinkLost, ErrandResetDevice,
         hostVars, HostStates
    <3>2. CASE HostNext
      BY <2>2, <3>2 DEF HostNext, ControlConfigure, ControlReset, ControlDroppable, HostBegins,
         HostSendsCommand, SendDma, HostReads, hostVars, HostStates
    <3>3. CASE ImgNext
      BY <3>3 DEF ImgNext, ImgWaitConnection, ImgGet, ImgTakeFree, ImgUnbundle,
         ImgGrabFails, ImgRetry, ImgReceive, ImgMark, ImgArm, ImgReceived, ImgFailed, ImgSwap,
         ImgEnqueue, ImgCommand, ImgCommandBegins, ImgCommandDone, ImgCommandTimeout, ImgPutFree,
         ImgCleanImages, ImgCleanResults, ImgCleaned, hostVars
    <3>4. CASE BufMgrNext \/ InfNext \/ SendNext \/ UNCHANGED vars
      BY <3>4 DEF BufMgrNext, InfNext, InfDequeue, InfGetResultBuffer, InfExecute, InfPutFree,
         SendNext, SendDequeue, SendStart, SendBegins, SendDone, SendHangs, SendPutFree, vars,
         hostVars
    <3> QED BY <2>2, <3>1, <3>2, <3>3, <3>4 DEF Next
  <2> QED BY <2>1, <2>2
<1> QED BY <1>1, <1>2, TypesInvariant, PTL DEF Spec

(* So with them no image is missing, unless a DMA was armed late.          *)
THEOREM NoImageOfOneTransferIsMissing ==
  ASSUME ImgChunks = 1
  PROVE  Spec => [](~late => ObjectsComplete)
<1>1. NoMissingImage /\ ~torn => (~late => ObjectsComplete)
  BY DEF NoMissingImage
<1> QED BY <1>1, NoImageIsMissing, OneTransferIsWhole, PTL

-----------------------------------------------------------------------------
(* Buffers of the queues, and of the reserve.                              *)

(* Unless the image thread went on without a buffer, the system reserve    *)
(* buffer, which is not of the queues, gets into none of them, ...         *)
QueuesReal ==
  /\ Lacks(Temp, imgFree) /\ Lacks(Temp, imgData)
  /\ \A i \in DOMAIN tempQ : tempQ[i].buf # Temp
  /\ \A i \in Indices : stored[i] # Temp
  /\ mgrPc = "putback" => received.buf # Temp
  /\ Temp \notin BufsOf(extra) /\ Temp \notin BufsOf(obj)
(* ... because the image thread swaps it for another in time.              *)
HandReal ==
  /\ imgPc \in {"unbundle", "swap", "enqueue"} => buf # Temp
  /\ imgPc \in {"recv", "mark", "arm", "recv_wait", "failed"} /\ recvLen >= 1 => buf # Temp

(* Before the configuration no image is sent; and nobody keeps an object   *)
(* or its rest longer than needed.                                         *)
Unconfigured == ~allocated => ~host.open /\ \A b \in Slots : ~IsInf(content[b].head)
NoRest == /\ imgPc # "unbundle" => extra = <<>>
          /\ infPc = "get" => obj = <<>>

RealInv == Unconfigured /\ NoRest /\ (~raced /\ ~torn /\ ~late => QueuesReal /\ HandReal)

LEMMA StepUnconfigured ==
  ASSUME Types, LengthInv, Unconfigured, [Next]_vars
  PROVE  Unconfigured'
<1> USE ImgFacts DEF Unconfigured
<1>1. CASE LinkNext
  <2>1. UNCHANGED <<allocated, content>> /\ (host'.open => host.open)
    <3>1. CASE Configured
      BY <3>1 DEF Configured, queueVars, memVars, hostVars
    <3>2. CASE Disconnected \/ VbusOff \/ ErrandResetDevice
      <4>1. host' = [host EXCEPT !.open = FALSE] /\ UNCHANGED <<allocated, content>>
        BY <3>2 DEF Disconnected, VbusOff, LinkLost, ErrandResetDevice, queueVars, memVars
      <4>2. ~host'.open
        BY <4>1 DEF HostStates
      <4> QED BY <4>1, <4>2
    <3> QED BY <1>1, <3>1, <3>2 DEF LinkNext
  <2> QED BY <2>1
<1>2. CASE HostNext
  <2>1. CASE ControlConfigure
    BY <2>1 DEF ControlConfigure, fill_free_queues
  <2>2. CASE ControlReset \/ HostBegins
    BY <2>2 DEF ControlReset, HostBegins, queueVars
  <2>3. CASE ControlDroppable \/ SendDma \/ HostReads
    <3>1. UNCHANGED <<allocated, content, host>>
      BY <2>3 DEF ControlDroppable, SendDma, HostReads, queueVars, memVars, hostVars
    <3> QED BY <3>1
  <2>4. CASE HostSendsImage
    BY <2>4 DEF HostSendsImage, queueVars
  <2>5. CASE HostSendsCommand
    <3> DEFINE item == [Nothing EXCEPT !.kind = "cmd", !.req = count.cmd + 1]
    <3>1. Land(item) /\ UNCHANGED <<allocated, host>>
      BY <2>5 DEF HostSendsCommand, queueVars
    <3>2. ~IsInf(item)
      BY DEF Nothing, IsInf
    <3> HIDE DEF item
    <3>3. ASSUME NEW b \in Slots
          PROVE  content'[b].head \in {content[b].head, item}
      <4>1. content' = [content EXCEPT ![dma.buf] = IF dma.at = 0 THEN [@ EXCEPT !.head = item]
                                                                 ELSE [@ EXCEPT !.rest = item]]
        BY <3>1 DEF Land
      <4>2. content[b] \in [head : Items, rest : Items]
        OBVIOUS
      <4>3. CASE b = dma.buf /\ dma.at = 0
        <5>1. content'[b] = [content[b] EXCEPT !.head = item]
          BY <4>1, <4>3
        <5> QED BY <4>2, <5>1
      <4>4. CASE b = dma.buf /\ dma.at # 0
        <5>1. content'[b] = [content[b] EXCEPT !.rest = item]
          BY <4>1, <4>4
        <5> QED BY <4>2, <5>1
      <4>5. CASE b # dma.buf
        BY <4>1, <4>5
      <4> QED BY <4>3, <4>4, <4>5
    <3> QED BY <3>1, <3>2, <3>3
  <2> QED BY <1>2, <2>1, <2>2, <2>3, <2>4, <2>5 DEF HostNext
<1>3. CASE ImgNext
  <2>1. CASE ImgSwap
    BY <2>1 DEF ImgSwap, LengthInv
  <2>2. CASE ~ImgSwap
    <3>1. UNCHANGED <<allocated, content, host>>
      BY <1>3, <2>2 DEF ImgNext, ImgWaitConnection, ImgGet, ImgTakeFree, ImgUnbundle,
         ImgGrabFails, ImgRetry, ImgReceive, ImgMark, ImgArm, ImgReceived, ImgFailed,
         ImgEnqueue, ImgCommand, ImgCommandBegins, ImgCommandDone, ImgCommandTimeout,
         ImgPutFree, ImgCleanImages, ImgCleanResults, ImgCleaned, queueVars, memVars, hostVars
    <3> QED BY <3>1
  <2> QED BY <2>1, <2>2
<1>4. CASE BufMgrNext \/ InfNext \/ SendNext \/ UNCHANGED vars
  <2>1. UNCHANGED <<allocated, content, host>>
    BY <1>4 DEF BufMgrNext, MgrNext, MgrGet, MgrPutBack, MgrEnqueue, InfNext, InfDequeue,
       InfGetResultBuffer, InfExecute, InfPutFree, SendNext, SendDequeue, SendStart,
       SendBegins, SendDone, SendHangs, SendPutFree, vars, queueVars, memVars, hostVars
  <2> QED BY <2>1
<1> QED BY <1>1, <1>2, <1>3, <1>4 DEF Next

LEMMA RestOf ==
  ASSUME NEW o \in Seq(Slots), ~(Len(o) > 1)
  PROVE  Tail(o) = <<>>
<1>1. CASE o = <<>>
  BY <1>1
<1>2. CASE o # <<>>
  <2>1. Len(o) \in Nat /\ Len(o) >= 1 /\ Tail(o) \in Seq(Slots) /\ Len(Tail(o)) = Len(o) - 1
    BY <1>2
  <2>2. Len(Tail(o)) = 0
    BY <2>1
  <2> QED BY <2>1, <2>2
<1> QED BY <1>1, <1>2

LEMMA StepNoRest ==
  ASSUME Types, NoRest, [Next]_vars
  PROVE  NoRest'
<1> USE PlaceTypes DEF NoRest
<1>1. CASE ImgTakeFree
  <2>1. PICK o : /\ take_free(o) \/ take_data(o)
                 /\ extra' = Tail(o)
                 /\ imgPc' = IF Len(o) > 1 THEN "unbundle" ELSE Received(imgRet)
    BY <1>1 DEF ImgTakeFree
  <2>2. o \in Seq(Slots)
    BY <2>1, TailType DEF take_free, take_data
  <2>3. imgPc' # "unbundle" => extra' = <<>>
    BY <2>1, <2>2, RestOf
  <2> QED BY <1>1, <2>3 DEF ImgTakeFree, infVars
<1>2. CASE ImgUnbundle
  <2>1. /\ extra' = Tail(extra) /\ UNCHANGED <<infPc, obj>>
        /\ imgPc' = IF Len(extra) > 1 THEN "unbundle" ELSE Received(imgRet)
    BY <1>2 DEF ImgUnbundle, infVars
  <2>2. imgPc' # "unbundle" => extra' = <<>>
    BY <2>1, RestOf
  <2> QED BY <2>1, <2>2
<1>3. CASE ImgNext /\ ~ImgTakeFree /\ ~ImgUnbundle
  <2>1. UNCHANGED <<extra, infPc, obj>>
    BY <1>3 DEF ImgNext, ImgWaitConnection, ImgGet, ImgGrabFails, ImgRetry, ImgReceive,
       ImgMark, ImgArm, ImgReceived, ImgFailed, ImgSwap, ImgEnqueue, ImgCommand,
       ImgCommandBegins, ImgCommandDone, ImgCommandTimeout, ImgPutFree, ImgCleanImages,
       ImgCleanResults, ImgCleaned, imgVars, infVars
  <2>2. imgPc # "unbundle"
    BY <1>3 DEF ImgNext, ImgWaitConnection, ImgGet, ImgGrabFails, ImgRetry, ImgReceive,
       ImgMark, ImgArm, ImgReceived, ImgFailed, ImgSwap, ImgEnqueue, ImgCommand,
       ImgCommandBegins, ImgCommandDone, ImgCommandTimeout, ImgPutFree, ImgCleanImages,
       ImgCleanResults, ImgCleaned
  <2> QED BY <2>1, <2>2
<1>4. CASE InfNext
  <2>1. UNCHANGED <<imgPc, extra>>
    BY <1>4 DEF InfNext, InfDequeue, InfGetResultBuffer, InfExecute, InfPutFree, imgVars
  <2>2. infPc' = "get" => obj' = <<>>
    <3>1. CASE InfDequeue \/ InfGetResultBuffer \/ InfExecute
      BY <3>1 DEF InfDequeue, InfGetResultBuffer, InfExecute
    <3>2. CASE InfPutFree
      <4>1. obj' = Tail(obj) /\ infPc' = IF Len(obj) > 1 THEN "put" ELSE "get"
        BY <3>2 DEF InfPutFree
      <4> QED BY <4>1, RestOf
    <3> QED BY <1>4, <3>1, <3>2 DEF InfNext
  <2> QED BY <2>1, <2>2
<1>5. CASE LinkNext \/ HostNext \/ BufMgrNext \/ SendNext \/ UNCHANGED vars
  <2>1. UNCHANGED <<imgPc, extra, infPc, obj>>
    BY <1>5 DEF LinkNext, Configured, Disconnected, VbusOff, LinkLost, ErrandResetDevice,
       HostNext, ControlConfigure, ControlReset, ControlDroppable, HostBegins, HostSendsImage,
       HostSendsCommand, SendDma, HostReads, BufMgrNext, SendNext, SendDequeue, SendStart,
       SendBegins, SendDone, SendHangs, SendPutFree, vars, imgVars, infVars
  <2> QED BY <2>1
<1> QED BY <1>1, <1>2, <1>3, <1>4, <1>5 DEF Next

-----------------------------------------------------------------------------
(* The system reserve buffer stays out of the queues.                      *)

LEMMA QueuesKept ==
  ASSUME QueuesReal, UNCHANGED <<imgQueues, stored, mgrPc, received, extra, obj>>
  PROVE  QueuesReal'
BY DEF QueuesReal, Lacks, BufsOf, imgQueues

LEMMA ParseReal ==
  ASSUME Types, Unconfigured, HandReal, NEW n \in {0, 1}, Parse(n),
         imgPc \in {"recv_wait", "failed"}, buf' = buf
  PROVE  HandReal'
<1> USE ImgFacts
<1>1. CASE recvLen = 0
  <2>1. ParseHeader(n)
    BY <1>1 DEF Parse
  <2>2. CASE ~IsInf(content[buf].head)
    <3>1. imgPc' = "cmd"
      BY <2>1, <2>2 DEF ParseHeader
    <3> QED BY <3>1 DEF HandReal
  <2>3. CASE IsInf(content[buf].head)
    <3>1. allocated
      BY <2>3 DEF Unconfigured
    <3>2. CASE buf = Temp
      <4>1. imgPc' = "get"
        BY <2>1, <2>3, <3>1, <3>2 DEF ParseHeader
      <4> QED BY <4>1 DEF HandReal
    <3>3. CASE buf # Temp
      BY <3>3 DEF HandReal
    <3> QED BY <3>2, <3>3
  <2> QED BY <2>2, <2>3
<1>2. CASE recvLen # 0
  <2>1. buf # Temp
    BY <1>2 DEF HandReal
  <2> QED BY <2>1 DEF HandReal
<1> QED BY <1>1, <1>2

LEMMA ImgHandReal ==
  ASSUME Types, LengthInv, NoNull, Unconfigured, QueuesReal, HandReal, ImgNext, ~raced'
  PROVE  HandReal'
<1> USE ImgFacts
<1>1. CASE ImgTakeFree
  <2>1. PICK o : /\ take_free(o) \/ take_data(o)
                 /\ buf' = o[1]
    BY <1>1 DEF ImgTakeFree
  <2>2. o \in Seq(Slots) /\ o # <<>> /\ Temp \notin BufsOf(o)
    BY <2>1, TakeLacks DEF QueuesReal
  <2>3. buf' # Temp
    BY <2>1, <2>2, ObjectBufs
  <2> QED BY <2>3 DEF HandReal
<1>2. CASE ImgUnbundle
  BY <1>2 DEF ImgUnbundle, HandReal
<1>3. CASE ImgReceived \/ ImgFailed
  <2>1. buf' = buf /\ imgPc \in {"recv_wait", "failed"}
    BY <1>3 DEF ImgReceived, ImgFailed
  <2>2. CASE Parse(0) \/ Parse(1)
    BY <2>1, <2>2, ParseReal
  <2>3. CASE imgPc' = "clean_img"
    BY <2>3 DEF HandReal
  <2>4. CASE imgPc' = "failed" /\ recvLen' = recvLen /\ imgPc = "recv_wait"
    BY <2>1, <2>4 DEF HandReal
  <2> QED BY <1>3, <2>2, <2>3, <2>4 DEF ImgReceived, ImgFailed
<1>4. CASE ImgSwap
  BY <1>4 DEF ImgSwap, HandReal
<1>5. CASE ImgReceive \/ ImgMark \/ ImgArm
  BY <1>5 DEF ImgReceive, ImgMark, ImgArm, HandReal
<1>6. CASE ImgGet
  <2>1. imgPc = "get" /\ imgPc' \in {"grab", "block", "recv"}
        /\ (imgPc' = "recv" => ~allocated)
        /\ (imgRet = "recv" => recvLen' = 0)
    BY <1>6 DEF ImgGet
  <2>2. imgRet = "recv" \/ (imgRet = "swap" /\ allocated)
    BY <2>1 DEF LengthInv, WaitsForBuffer
  <2> QED BY <2>1, <2>2 DEF HandReal
<1>7. CASE ImgRetry
  BY <1>7 DEF ImgRetry, HandReal
<1>8. CASE \/ ImgWaitConnection \/ ImgGrabFails \/ ImgEnqueue \/ ImgCommand
           \/ ImgCommandBegins \/ ImgCommandDone \/ ImgCommandTimeout \/ ImgPutFree
           \/ ImgCleanImages \/ ImgCleanResults \/ ImgCleaned
  <2>1. imgPc' \notin {"unbundle", "swap", "enqueue", "recv", "mark", "arm", "recv_wait",
                       "failed"}
    BY <1>8 DEF ImgWaitConnection, ImgGrabFails, ImgEnqueue, ImgCommand, ImgCommandBegins,
        ImgCommandDone, ImgCommandTimeout, ImgPutFree, ImgCleanImages,
       ImgCleanResults, ImgCleaned, LengthInv, imgVars
  <2> QED BY <2>1 DEF HandReal
<1> QED BY <1>1, <1>2, <1>3, <1>4, <1>5, <1>6, <1>7, <1>8 DEF ImgNext

LEMMA ImgQueuesReal ==
  ASSUME Types, QueuesReal, HandReal, ImgNext
  PROVE  QueuesReal'
<1> USE DEF imgQueues, imgVars, infVars, mgrVars, queueVars
<1> DEFINE Rest == UNCHANGED <<stored, mgrPc, received, obj>>
<1>a. Lacks(Temp, imgFree) /\ Lacks(Temp, imgData)
  BY DEF QueuesReal
<1>1. CASE ImgTakeFree
  <2>1. PICK o : /\ take_free(o) \/ take_data(o)
                 /\ extra' = Tail(o)
    BY <1>1 DEF ImgTakeFree
  <2>2. /\ Lacks(Temp, imgFree') /\ Lacks(Temp, imgData') /\ Temp \notin BufsOf(o)
        /\ o \in Seq(Slots) /\ o # <<>>
    BY <1>a, <2>1, TakeLacks
  <2>3. Temp \notin BufsOf(extra')
    BY <2>1, <2>2, ObjectBufs
  <2>4. UNCHANGED tempQ /\ Rest
    BY <1>1 DEF ImgTakeFree
  <2> QED BY <2>2, <2>3, <2>4 DEF QueuesReal, Lacks, BufsOf
<1>2. CASE ImgUnbundle
  <2>1. /\ imgPc = "unbundle" /\ image_put_free_buffer(Head(extra)) /\ extra' = Tail(extra)
        /\ UNCHANGED <<imgData, tempQ>> /\ Rest
    BY <1>2 DEF ImgUnbundle
  <2>2. extra # <<>>
    BY <2>1 DEF Types, Shapes
  <2>3. Head(extra) # Temp /\ Head(extra) \in Slots /\ Temp \notin BufsOf(Tail(extra))
    BY <2>2, ObjectBufs, PlaceTypes DEF QueuesReal
  <2>4. Lacks(Temp, imgFree')
    BY <1>a, <2>1, <2>3, FreeLacks
  <2> QED BY <2>1, <2>3, <2>4 DEF QueuesReal, Lacks, BufsOf
<1>3. CASE ImgEnqueue
  <2> DEFINE x == [total |-> hdr.total, index |-> IF hdr.total = 1 THEN 0 ELSE hdr.index,
                   buf |-> buf]
  <2>1. tempQ' = Append(tempQ, x) /\ imgPc = "enqueue"
        /\ UNCHANGED <<imgFree, imgData, extra>> /\ Rest
    BY <1>3, HasImages DEF ImgEnqueue, image_enqueue
  <2>2. x.buf # Temp /\ x \in SpecialObjects
    <3>1. hdr.total \in 1 .. MaxInput /\ hdr.index \in Indices /\ buf \in Slots /\ 0 \in Indices
      BY ImgFacts, ConstantTypes DEF Items
    <3> QED BY <2>1, <3>1 DEF HandReal, SpecialObjects
  <2> HIDE DEF x
  <2>3. ASSUME NEW i \in DOMAIN tempQ' PROVE tempQ'[i].buf # Temp
    <3>1. /\ DOMAIN tempQ' = 1 .. Len(tempQ) + 1 /\ DOMAIN tempQ = 1 .. Len(tempQ)
          /\ Len(tempQ) \in Nat /\ tempQ'[Len(tempQ) + 1] = x
          /\ \A k \in 1 .. Len(tempQ) : tempQ'[k] = tempQ[k]
      BY <2>1, <2>2, LineAppends, PlaceTypes
    <3>2. CASE i \in 1 .. Len(tempQ)
      BY <3>1, <3>2 DEF QueuesReal
    <3>3. CASE i = Len(tempQ) + 1
      BY <2>2, <3>1, <3>3
    <3> QED BY <3>1, <3>2, <3>3
  <2> QED BY <2>1, <2>3 DEF QueuesReal, Lacks, BufsOf
<1>4. CASE ImgPutFree
  <2>1. UNCHANGED <<imgData, tempQ, extra>> /\ Rest
        /\ (imgFree' = imgFree \/ (buf # Temp /\ image_put_free_buffer(buf)))
    BY <1>4 DEF ImgPutFree
  <2>2. Lacks(Temp, imgFree')
    BY <1>a, <2>1, FreeLacks, PlaceTypes
  <2> QED BY <2>1, <2>2 DEF QueuesReal, Lacks, BufsOf
<1>5. CASE ImgCleanImages
  <2>1. UNCHANGED <<tempQ, extra>> /\ Rest
    BY <1>5 DEF ImgCleanImages
  <2>2. CASE UNCHANGED <<imgFree, imgData>>
    BY <2>1, <2>2, QueuesKept
  <2>3. CASE clean_image_object
    <3>1. imgData # <<>> /\ imgData' = Tail(imgData)
          /\ (imgFree' = imgFree \/ imgFree' = Append(imgFree, Head(imgData)))
      BY <2>3 DEF clean_image_object
    <3>2. Lacks(Temp, imgData') /\ Temp \notin BufsOf(Head(imgData))
          /\ Head(imgData) \in Seq(Slots)
      BY <1>a, <3>1, LacksTail, PlaceTypes
    <3>3. Lacks(Temp, imgFree')
      BY <1>a, <3>1, <3>2, LacksAppend, PlaceTypes
    <3> QED BY <2>1, <3>2, <3>3 DEF QueuesReal, Lacks, BufsOf
  <2> QED BY <1>5, <2>2, <2>3 DEF ImgCleanImages
<1>6. CASE \/ ImgWaitConnection \/ ImgGet \/ ImgGrabFails \/ ImgRetry \/ ImgReceive
           \/ ImgMark \/ ImgArm \/ ImgReceived \/ ImgFailed \/ ImgSwap \/ ImgCommand
           \/ ImgCommandBegins \/ ImgCommandDone \/ ImgCommandTimeout \/ ImgCleanResults
           \/ ImgCleaned
  <2>1. UNCHANGED <<imgQueues, extra>> /\ Rest
    BY <1>6 DEF ImgWaitConnection, ImgGet, ImgGrabFails, ImgRetry, ImgReceive, ImgMark, ImgArm,
       ImgReceived, ImgFailed, ImgSwap, ImgCommand, ImgCommandBegins, ImgCommandDone,
       ImgCommandTimeout, ImgCleanResults, ImgCleaned
  <2> QED BY <2>1, QueuesKept
<1> QED BY <1>1, <1>2, <1>3, <1>4, <1>5, <1>6 DEF ImgNext

LEMMA MgrQueuesReal ==
  ASSUME Types, StoredInv, NoNull, QueuesReal, BufMgrNext
  PROVE  QueuesReal'
<1> USE MgrFacts DEF imgVars, infVars
<1>1. UNCHANGED <<extra, obj>>
  BY DEF BufMgrNext
<1>a. Lacks(Temp, imgFree) /\ Lacks(Temp, imgData)
  BY DEF QueuesReal
<1>b. ASSUME NEW r \in SpecialObjects, r.buf # Temp, NEW n, Store(r, n)
      PROVE  \A i \in Indices : stored'[i] # Temp
  <2>1. stored' = [stored EXCEPT ![r.index] = r.buf]
    BY <1>b DEF Store
  <2> QED BY <1>b, <2>1 DEF QueuesReal
<1>2. CASE MgrGet
  <2>1. tempQ # <<>> /\ tempQ' = Tail(tempQ) /\ received' = Head(tempQ)
        /\ UNCHANGED <<imgFree, imgData>>
    BY <1>2 DEF MgrGet
  <2>2. /\ DOMAIN tempQ' = 1 .. Len(tempQ) - 1 /\ DOMAIN tempQ = 1 .. Len(tempQ)
        /\ Len(tempQ) \in Nat /\ Len(tempQ) >= 1 /\ received' = tempQ[1]
        /\ \A i \in 1 .. Len(tempQ) - 1 : tempQ'[i] = tempQ[i + 1]
    BY <2>1, LineTails
  <2>3. received'.buf # Temp /\ received' \in SpecialObjects
    <3>1. 1 \in DOMAIN tempQ
      BY <2>2
    <3> QED BY <2>2, <3>1 DEF QueuesReal
  <2>4. ASSUME NEW i \in DOMAIN tempQ' PROVE tempQ'[i].buf # Temp
    <3>1. i + 1 \in DOMAIN tempQ /\ tempQ'[i] = tempQ[i + 1]
      BY <2>2
    <3> QED BY <3>1 DEF QueuesReal
  <2>5. \A i \in Indices : stored'[i] # Temp
    <3>1. CASE stored' = stored
      BY <3>1 DEF QueuesReal
    <3>2. CASE Store(Head(tempQ), numReceived + 1)
      <4> DEFINE r == Head(tempQ)
      <4>1. r \in SpecialObjects /\ r.buf # Temp /\ Store(r, numReceived + 1)
        BY <2>1, <2>3, <3>2
      <4> HIDE DEF r
      <4> QED BY <1>b, <4>1
    <3> QED BY <1>2, <3>1, <3>2 DEF MgrGet
  <2> QED BY <1>1, <2>1, <2>3, <2>4, <2>5 DEF QueuesReal, Lacks, BufsOf
<1>3. CASE MgrPutBack
  <2>1. mgrPc = "putback" /\ image_put_free_buffer(stored[received.index])
        /\ Store(received, numReceived) /\ UNCHANGED <<imgData, tempQ, received>>
    BY <1>3 DEF MgrPutBack
  <2>2. stored[received.index] # Temp /\ stored[received.index] \in Slots
    BY DEF QueuesReal
  <2>3. Lacks(Temp, imgFree')
    BY <1>a, <2>1, <2>2, FreeLacks
  <2>4. \A i \in Indices : stored'[i] # Temp
    BY <1>b, <2>1 DEF QueuesReal
  <2>5. mgrPc' # "putback"
    BY <2>1 DEF Store
  <2> QED BY <1>1, <2>1, <2>3, <2>4, <2>5 DEF QueuesReal, Lacks, BufsOf
<1>4. CASE MgrEnqueue
  <2> DEFINE o == [k \in 1 .. storedNum |-> stored[k - 1]]
  <2>1. mgrPc = "enqueue" /\ imgData' = Append(imgData, o) /\ mgrPc' = "get"
        /\ stored' = [i \in Indices |-> NULL] /\ UNCHANGED <<imgFree, tempQ>>
    BY <1>4 DEF MgrEnqueue
  <2>2. storedNum \in Nat
    BY <2>1 DEF StoredInv
  <2>3. ASSUME NEW k \in 1 .. storedNum PROVE stored[k - 1] \in Slots /\ stored[k - 1] # Temp
    <3>1. k - 1 \in Indices
      BY DEF Indices
    <3> QED BY <3>1 DEF QueuesReal
  <2>4. o \in Seq(Slots) /\ Temp \notin BufsOf(o)
    BY <2>2, <2>3 DEF BufsOf
  <2> HIDE DEF o
  <2>5. Lacks(Temp, imgData')
    BY <1>a, <2>1, <2>4, LacksAppend, PlaceTypes
  <2>6. \A i \in Indices : stored'[i] # Temp
    BY <2>1 DEF NULL, Temp
  <2> QED BY <1>1, <2>1, <2>5, <2>6 DEF QueuesReal, Lacks, BufsOf
<1> QED BY <1>2, <1>3, <1>4 DEF BufMgrNext, MgrNext

LEMMA InfQueuesReal ==
  ASSUME Types, QueuesReal, InfNext
  PROVE  QueuesReal'
<1> USE DEF imgVars, mgrVars, imgQueues
<1>a. Lacks(Temp, imgFree) /\ Lacks(Temp, imgData)
  BY DEF QueuesReal
<1>1. CASE InfDequeue
  <2>1. imgData # <<>> /\ imgData' = Tail(imgData) /\ obj' = Head(imgData)
        /\ UNCHANGED <<imgFree, tempQ, stored, mgrPc, received, extra>>
    BY <1>1 DEF InfDequeue, image_dequeue
  <2>2. Lacks(Temp, imgData') /\ Temp \notin BufsOf(obj')
    BY <1>a, <2>1, LacksTail, PlaceTypes
  <2> QED BY <2>1, <2>2 DEF QueuesReal, Lacks, BufsOf
<1>2. CASE InfGetResultBuffer \/ InfExecute
  <2>1. UNCHANGED <<imgQueues, stored, mgrPc, received, extra, obj>>
    BY <1>2 DEF InfGetResultBuffer, InfExecute
  <2> QED BY <2>1, QueuesKept
<1>3. CASE InfPutFree
  <2>1. infPc = "put" /\ image_put_free_buffer(Head(obj)) /\ obj' = Tail(obj)
        /\ UNCHANGED <<imgData, tempQ, stored, mgrPc, received, extra>>
    BY <1>3 DEF InfPutFree
  <2>2. obj # <<>>
    BY <2>1 DEF Types, Shapes
  <2>3. Head(obj) # Temp /\ Head(obj) \in Slots /\ Temp \notin BufsOf(Tail(obj))
    BY <2>2, ObjectBufs, PlaceTypes DEF QueuesReal
  <2>4. Lacks(Temp, imgFree')
    BY <1>a, <2>1, <2>3, FreeLacks
  <2> QED BY <2>1, <2>3, <2>4 DEF QueuesReal, Lacks, BufsOf
<1> QED BY <1>1, <1>2, <1>3 DEF InfNext

LEMMA StepReal ==
  ASSUME Types, OrderInv, RealInv, [Next]_vars
  PROVE  RealInv'
<1>1. Unconfigured' /\ NoRest'
  BY StepUnconfigured, StepNoRest DEF RealInv, OrderInv
<1>2. SUFFICES ASSUME ~raced', ~torn', ~late' PROVE QueuesReal' /\ HandReal'
  BY <1>1 DEF RealInv
<1>a. ~raced /\ ~torn /\ ~late /\ LengthInv /\ StoredInv /\ NoNull
  BY <1>2, HistoryStays DEF OrderInv
<1>3. CASE ImgNext
  <2>2. QueuesReal /\ HandReal
    BY <1>a DEF RealInv
  <2> QED BY <1>2, <1>3, <1>a, <2>2, ImgQueuesReal, ImgHandReal DEF RealInv
<1>4. CASE BufMgrNext \/ InfNext
  <2>1. UNCHANGED <<imgPc, buf, recvLen, raced>>
    BY <1>4 DEF BufMgrNext, InfNext, InfDequeue, InfGetResultBuffer, InfExecute, InfPutFree,
       imgVars, history
  <2> QED BY <1>2, <1>4, <1>a, <2>1, MgrQueuesReal, InfQueuesReal DEF RealInv, HandReal
<1>5. CASE ControlConfigure
  <2>1. /\ imgFree' = [i \in 1 .. NumImg |-> <<i>>]
        /\ UNCHANGED <<imgData, tempQ, stored, mgrPc, received, imgPc, buf, recvLen, extra, obj, raced>>
    BY <1>5 DEF ControlConfigure, fill_free_queues, mgrVars, imgVars, infVars, history
  <2>2. Lacks(Temp, imgFree')
    <3> SUFFICES ASSUME NEW i \in 1 .. NumImg PROVE Temp \notin BufsOf(<<i>>)
      BY <2>1 DEF Lacks
    <3>1. BufsOf(<<i>>) = {i}
      BY DEF BufsOf
    <3> QED BY <3>1 DEF Temp
  <2> QED BY <1>2, <1>a, <2>1, <2>2 DEF RealInv, QueuesReal, HandReal, Lacks, BufsOf
<1>6. CASE LinkNext \/ (HostNext /\ ~ControlConfigure) \/ SendNext \/ UNCHANGED vars
  <2>1. UNCHANGED <<imgQueues, stored, mgrPc, received, extra, obj, imgPc, buf, recvLen, raced>>
    BY <1>6 DEF LinkNext, Configured, Disconnected, VbusOff, LinkLost, ErrandResetDevice,
       HostNext, ControlReset, ControlDroppable, HostBegins, HostSendsImage,
       HostSendsCommand, SendDma, HostReads, SendNext, SendDequeue, SendStart, SendBegins,
       SendDone, SendHangs, SendPutFree, vars, queueVars, imgQueues, mgrVars,
       imgVars, infVars, history
  <2> QED BY <1>2, <1>a, <2>1, QueuesKept DEF RealInv, HandReal
<1> QED BY <1>3, <1>4, <1>5, <1>6 DEF Next, HostNext

LEMMA InitReal == Init => RealInv
<1> SUFFICES ASSUME Init PROVE RealInv
  OBVIOUS
<1> USE DEF Init, QueueInit
<1>1. Unconfigured
  BY DEF Unconfigured, IsInf, Nothing
<1>2. NoRest
  BY DEF NoRest
<1>3. DOMAIN imgFree = {} /\ DOMAIN imgData = {} /\ DOMAIN tempQ = {} /\ BufsOf(<<>>) = {}
  BY ObjectBufs
<1>4. QueuesReal /\ HandReal
  BY <1>3 DEF QueuesReal, HandReal, Lacks, Temp, NULL
<1> QED BY <1>1, <1>2, <1>4 DEF RealInv

LEMMA RealInvariant == Spec => []RealInv
<1>1. Types /\ OrderInv /\ RealInv /\ [Next]_vars => RealInv'
  BY StepReal
<1> QED BY <1>1, InitReal, TypesInvariant, OrderInvariant, PTL DEF Spec

-----------------------------------------------------------------------------
(* Counting: a message queue of n different buffers that lacks one of the  *)
(* N there are has a slot left.                                            *)

LEMMA Fewer ==
  ASSUME NEW N \in Nat, NEW n \in Nat, NEW f \in [1 .. n -> 1 .. N],
         \A i, j \in 1 .. n : f[i] = f[j] => i = j,
         NEW b \in 1 .. N, \A i \in 1 .. n : f[i] # b
  PROVE  n < N
<1> DEFINE T == (1 .. N) \ {b}
<1>1. IsFiniteSet(1 .. n) /\ Cardinality(1 .. n) = n
  BY FS_Interval
<1>2. IsFiniteSet(1 .. N) /\ Cardinality(1 .. N) = N
  BY FS_Interval
<1>3. IsFiniteSet(T) /\ Cardinality(T) = N - 1
  BY <1>2, FS_RemoveElement
<1>4. f \in [1 .. n -> T]
  OBVIOUS
<1> HIDE DEF T
<1>5. ~(Cardinality(T) < Cardinality(1 .. n))
  BY <1>1, <1>3, <1>4, FS_PigeonHole
<1> QED BY <1>1, <1>3, <1>5

(* A queue of objects in place at p is short of the buffers that are not,  *)
(* because the first buffers of its objects are different.                 *)
LEMMA ObjectsFewer ==
  ASSUME NEW p, NEW q \in Seq(Seq(Slots) \ {<<>>}), ObjectsInPlace(owner, p, q),
         Lacks(Temp, q), Lacks(NULL, q), NEW b \in ImgBufs, owner[b] # p
  PROVE  Len(q) < NumImg
<1> DEFINE f == [i \in 1 .. Len(q) |-> q[i][1]]
<1>1. DOMAIN q = 1 .. Len(q) /\ Len(q) \in Nat
  OBVIOUS
<1>2. ASSUME NEW i \in 1 .. Len(q)
      PROVE  1 \in DOMAIN q[i] /\ q[i][1] \in ImgBufs /\ owner[q[i][1]] = p
  <2>1. q[i] \in Seq(Slots) /\ q[i] # <<>>
    OBVIOUS
  <2>2. q[i][1] \in Slots /\ 1 \in DOMAIN q[i]
    BY <2>1
  <2>3. q[i][1] \in BufsOf(q[i])
    BY <2>2 DEF BufsOf
  <2>4. q[i][1] \in ImgBufs
    BY <1>1, <2>2, <2>3 DEF Lacks, Slots, AnyBuf
  <2> QED BY <1>1, <2>2, <2>4 DEF ObjectsInPlace
<1>3. f \in [1 .. Len(q) -> 1 .. NumImg]
  BY <1>2 DEF ImgBufs
<1>4. \A i, j \in 1 .. Len(q) : f[i] = f[j] => i = j
  <2> SUFFICES ASSUME NEW i \in 1 .. Len(q), NEW j \in 1 .. Len(q), q[i][1] = q[j][1]
               PROVE  i = j
    OBVIOUS
  <2>1. 1 \in DOMAIN q[i] /\ 1 \in DOMAIN q[j] /\ q[i][1] \in ImgBufs
    BY <1>2
  <2> QED BY <1>1, <2>1 DEF ObjectsInPlace
<1>5. \A i \in 1 .. Len(q) : f[i] # b
  BY <1>2
<1> HIDE DEF f
<1> QED BY <1>1, <1>3, <1>4, <1>5, Fewer, SizesAssumption DEF ImgBufs

(* So are the temporary queue and the queues of result buffers.            *)
LEMMA TempFewer ==
  ASSUME NEW q \in Seq(SpecialObjects), InPlace(owner, "temp", [i \in DOMAIN q |-> q[i].buf]),
         \A i \in DOMAIN q : q[i].buf \in ImgBufs,
         NEW b \in ImgBufs, owner[b] # "temp"
  PROVE  Len(q) < NumImg
<1> DEFINE f == [i \in DOMAIN q |-> q[i].buf]
<1>1. DOMAIN q = 1 .. Len(q) /\ Len(q) \in Nat /\ DOMAIN f = 1 .. Len(q)
  OBVIOUS
<1>2. f \in [1 .. Len(q) -> 1 .. NumImg]
  BY <1>1 DEF ImgBufs
<1>3. \A i \in 1 .. Len(q) : f[i] \in ImgBufs
  BY <1>1
<1>4. InPlace(owner, "temp", f)
  OBVIOUS
<1> HIDE DEF f
<1>5. \A i, j \in 1 .. Len(q) : f[i] = f[j] => i = j
  BY <1>1, <1>3, <1>4 DEF InPlace
<1>6. \A i \in 1 .. Len(q) : f[i] # b
  BY <1>1, <1>3, <1>4 DEF InPlace
<1> QED BY <1>1, <1>2, <1>5, <1>6, Fewer, SizesAssumption DEF ImgBufs

LEMMA ResultsFewer ==
  ASSUME NEW s \in Seq(ResBufs), Once(s), NEW p, \A i \in DOMAIN s : resOwner[s[i]] = p,
         NEW b \in ResBufs, resOwner[b] # p
  PROVE  Len(s) < NumRes
<1>1. DOMAIN s = 1 .. Len(s) /\ Len(s) \in Nat /\ s \in [1 .. Len(s) -> ResBufs]
  OBVIOUS
<1>2. \A i, j \in 1 .. Len(s) : s[i] = s[j] => i = j
  BY <1>1 DEF Once
<1>3. \A i \in 1 .. Len(s) : s[i] # b
  BY <1>1
<1> QED BY <1>1, <1>2, <1>3, Fewer, SizesAssumption DEF ResBufs

LEMMA RoomForResults ==
  ASSUME Types, ResultExclusive
  PROVE  /\ infPc = "execute" => Len(resData) < ResCap
         /\ sendPc = "put" \/ (imgPc = "clean_res" /\ resData # <<>>) => Len(resFree) < ResCap
<1>1. /\ resFree \in Seq(ResBufs) /\ resData \in Seq(ResBufs) /\ NumRes <= ResCap
      /\ Len(resFree) \in Nat /\ Len(resData) \in Nat /\ NumRes \in Nat /\ ResCap \in Nat
  BY SizesAssumption DEF Types, TypeOK, QueueTypeOK, ResQueueTypeOK
<1>2. ASSUME infPc = "execute" PROVE Len(resData) < ResCap
  <2>1. resBuf \in ResBufs /\ resOwner[resBuf] # "data"
    BY <1>2 DEF ResultExclusive
  <2>2. Len(resData) < NumRes
    BY <1>1, <2>1, ResultsFewer DEF ResultExclusive
  <2> QED BY <1>1, <2>2
<1>3. ASSUME NEW b \in ResBufs, resOwner[b] # "free" PROVE Len(resFree) < ResCap
  <2>1. Len(resFree) < NumRes
    BY <1>1, <1>3, ResultsFewer DEF ResultExclusive
  <2> QED BY <1>1, <2>1
<1>4. ASSUME sendPc = "put" PROVE Len(resFree) < ResCap
  <2>1. sendBuf \in ResBufs /\ resOwner[sendBuf] # "free"
    BY <1>4 DEF ResultExclusive
  <2> QED BY <1>3, <2>1
<1>5. ASSUME resData # <<>> PROVE Len(resFree) < ResCap
  <2>1. 1 \in DOMAIN resData /\ resData[1] \in ResBufs
    BY <1>1, <1>5
  <2>2. resOwner[resData[1]] # "free"
    BY <2>1 DEF ResultExclusive
  <2> QED BY <1>3, <2>1, <2>2
<1> QED BY <1>2, <1>4, <1>5

(* A place where one of the N image buffers is not has room for it.        *)
LEMMA RoomForImages ==
  ASSUME Types, AllInPlace, NoNull, QueuesReal, NEW b \in ImgBufs
  PROVE  /\ owner[b] # "free" => Len(imgFree) < ImgCap
         /\ owner[b] # "data" => Len(imgData) < ImgCap
         /\ owner[b] # "temp" => Len(tempQ) < ImgCap
<1>1. /\ imgFree \in Seq(Seq(Slots) \ {<<>>}) /\ imgData \in Seq(Seq(Slots) \ {<<>>})
      /\ tempQ \in Seq(SpecialObjects)
  BY QueueSeqs
<1>2. NumImg \in Nat /\ ImgCap \in Nat /\ NumImg <= ImgCap
  BY SizesAssumption
<1>3. Lacks(NULL, imgFree) /\ Lacks(NULL, imgData)
  BY NoNullParts
<1>4. \A i \in DOMAIN tempQ : tempQ[i].buf \in ImgBufs
  <2> SUFFICES ASSUME NEW i \in DOMAIN tempQ PROVE tempQ[i].buf \in ImgBufs
    OBVIOUS
  <2>1. tempQ[i] \in SpecialObjects
    BY <1>1
  <2>2. tempQ[i].buf \in Slots
    BY <2>1 DEF SpecialObjects
  <2> QED BY <2>2 DEF NoNull, QueuesReal, Slots, AnyBuf
<1>5. owner[b] # "free" => Len(imgFree) < ImgCap
  <2>1. owner[b] # "free" => Len(imgFree) < NumImg
    BY <1>1, <1>3, ObjectsFewer DEF AllInPlace, QueuesReal
  <2> QED BY <1>1, <1>2, <2>1
<1>6. owner[b] # "data" => Len(imgData) < ImgCap
  <2>1. owner[b] # "data" => Len(imgData) < NumImg
    BY <1>1, <1>3, ObjectsFewer DEF AllInPlace, QueuesReal
  <2> QED BY <1>1, <1>2, <2>1
<1>7. owner[b] # "temp" => Len(tempQ) < ImgCap
  <2>1. owner[b] # "temp" => Len(tempQ) < NumImg
    BY <1>1, <1>4, TempFewer DEF AllInPlace, TempBufs
  <2> QED BY <1>1, <1>2, <2>1
<1> QED BY <1>5, <1>6, <1>7

(* The first buffer of an object that is in place.                         *)
LEMMA FirstInPlace ==
  ASSUME NEW p, NEW o \in Seq(Slots), o # <<>>, InPlace(owner, p, o),
         Temp \notin BufsOf(o), NULL \notin BufsOf(o)
  PROVE  o[1] \in ImgBufs /\ owner[o[1]] = p
<1>1. o[1] \in Slots /\ 1 \in DOMAIN o /\ o[1] \in BufsOf(o)
  BY ObjectBufs
<1>2. o[1] \in ImgBufs
  BY <1>1 DEF Slots, AnyBuf
<1> QED BY <1>1, <1>2 DEF InPlace

LEMMA RoomForAll ==
  ASSUME Types, StoredInv, NoNull, QueuesReal, HandReal, AllInPlace, ResultExclusive
  PROVE  PutsNeverWait
<1> USE PlaceTypes
<1>1. ASSUME mgrPc = "putback" \/ mgrPc = "enqueue"
      PROVE  \E b \in ImgBufs : owner[b] = "mgr"
  <2>1. \E i \in Indices : stored[i] # NULL
    <3>1. CASE mgrPc = "putback"
      <4>1. received.index \in StoredAt
        <5>1. received.index \in Nat /\ numReceived \in Nat
          BY MgrFacts
        <5> QED BY <3>1, <5>1 DEF StoredInv
      <4> QED BY <4>1 DEF StoredAt
    <3>2. CASE mgrPc = "enqueue"
      <4>1. received.total >= 1 /\ numReceived = received.total /\ received.total \in Nat
        BY <3>2, MgrFacts DEF StoredInv
      <4>2. 0 \in StoredAt
        BY <3>2, <4>1 DEF StoredInv
      <4> QED BY <4>2 DEF StoredAt
    <3> QED BY <1>1, <3>1, <3>2
  <2>2. PICK i \in Indices : stored[i] # NULL
    BY <2>1
  <2>3. stored[i] \in Slots /\ stored[i] # Temp /\ i \in DOMAIN stored
    BY MgrFacts DEF QueuesReal
  <2>4. stored[i] \in ImgBufs
    BY <2>2, <2>3 DEF Slots, AnyBuf
  <2> QED BY <2>3, <2>4 DEF AllInPlace, MgrInPlace, InPlace
<1>2. ASSUME infPc = "put" PROVE \E b \in ImgBufs : owner[b] = "inf"
  <2>1. obj # <<>>
    BY <1>2 DEF Types, Shapes
  <2> QED BY <2>1, FirstInPlace DEF AllInPlace, QueuesReal, NoNull
<1>3. ASSUME imgPc = "unbundle" PROVE \E b \in ImgBufs : owner[b] = "img"
  <2>1. extra # <<>>
    BY <1>3 DEF Types, Shapes
  <2> QED BY <2>1, FirstInPlace DEF AllInPlace, ImgInPlace, QueuesReal, NoNull
<1>4. ASSUME \/ imgPc = "put" /\ buf # Temp
             \/ imgPc = "enqueue"
      PROVE  \E b \in ImgBufs : owner[b] = "img"
  <2>1. buf # Temp /\ buf # NULL
    BY <1>4 DEF HandReal, NoNull
  <2>2. buf \in ImgBufs
    BY <2>1 DEF Slots, AnyBuf
  <2> QED BY <1>4, <2>2 DEF AllInPlace, ImgInPlace, ImgHolds, HeldBeside
<1>5. ASSUME imgData # <<>> PROVE \E b \in ImgBufs : owner[b] = "data"
  <2>1. Head(imgData) \in Seq(Slots) /\ Head(imgData) # <<>>
    BY <1>5, TailType DEF Types, TypeOK, QueueTypeOK, ImgQueueTypeOK
  <2>2. InPlace(owner, "data", Head(imgData))
    BY <1>5, ObjectsHead DEF AllInPlace
  <2>3. Temp \notin BufsOf(Head(imgData)) /\ NULL \notin BufsOf(Head(imgData))
    BY <1>5, LacksTail, NoNullParts DEF QueuesReal
  <2> QED BY <2>1, <2>2, <2>3, FirstInPlace
<1> QED BY <1>1, <1>2, <1>3, <1>4, <1>5, RoomForImages, RoomForResults DEF PutsNeverWait

(* Whatever the host resets, drops or unplugs: as long as the image thread *)
(* did not go on without a buffer, every image began with its first        *)
(* transfer and no DMA was armed late, no thread of the path ever waits to *)
(* put a buffer into a queue, and no put with timeout 0 loses one.  So the *)
(* threads cannot block each other over full queues.                       *)
THEOREM NoPutWaits == Spec => []PutsNeverWait
<1>1. Types /\ OrderInv /\ RealInv /\ Exclusive /\ ResultExclusive => PutsNeverWait
  <2> SUFFICES ASSUME Types, OrderInv, RealInv, Exclusive, ResultExclusive
               PROVE  PutsNeverWait
    OBVIOUS
  <2>1. CASE raced \/ torn \/ late
    BY <2>1 DEF PutsNeverWait
  <2>2. CASE ~raced /\ ~torn /\ ~late
    BY <2>2, RoomForAll DEF OrderInv, RealInv, Exclusive
  <2> QED BY <2>1, <2>2
<1> QED BY <1>1, TypesInvariant, OrderInvariant, RealInvariant, ImagesExclusive,
           ResultsExclusive, PTL

-----------------------------------------------------------------------------
(* No buffer disappears.                                                   *)

InQueue(q, b) == \E i \in DOMAIN q : b \in BufsOf(q[i])
InTemp(q, b)  == \E i \in DOMAIN q : q[i].buf = b
AtMgr(b)      == \/ \E i \in Indices : stored[i] = b
                 \/ mgrPc = "putback" /\ received.buf = b
AtImg(b)      == (ImgHolds /\ buf = b) \/ b \in BufsOf(extra)
MayLose       == imgPc = "dead" \/ count.link > 0

(* The buffer b is where its owner says.                                   *)
Found(b) ==
  /\ owner[b] = "free" => InQueue(imgFree, b)
  /\ owner[b] = "data" => InQueue(imgData, b)
  /\ owner[b] = "temp" => InTemp(tempQ, b)
  /\ owner[b] = "mgr" => AtMgr(b)
  /\ owner[b] = "img" => AtImg(b)
  /\ owner[b] = "inf" => b \in BufsOf(obj)
  /\ owner[b] = "unallocated" => ~allocated
  /\ owner[b] = "lost" => MayLose
AllFound == \A b \in ImgBufs : Found(b)

(* While the link never went down the image thread never sees it down.     *)
NeverDown == count.link = 0 => ~errand /\ (connFlag \/ imgPc # "wait" => link)

LEMMA InitNeverDown == Init => NeverDown
BY DEF Init, NeverDown

LEMMA CountFacts == ASSUME Types PROVE
  /\ count \in Counters /\ count.link \in Nat
  /\ \A c \in Counters : [c EXCEPT !.link = @ + 1].link = c.link + 1
  /\ \A c \in Counters : /\ [c EXCEPT !.req = @ + 1].link = c.link
                         /\ [c EXCEPT !.cmd = @ + 1].link = c.link
                         /\ [c EXCEPT !.reset = @ + 1].link = c.link
                         /\ [c EXCEPT !.drop = @ + 1].link = c.link
BY DEF Types, TypeOK, HostTypeOK, Counters

(* The link is counted down but never up.                                  *)
LEMMA LinkCounts ==
  ASSUME Types, [Next]_vars
  PROVE  \/ count'.link = count.link /\ (errand' => errand) /\ (link => link' \/ errand)
         \/ count'.link = count.link + 1
<1> USE CountFacts
<1>1. CASE Configured \/ ErrandResetDevice
  BY <1>1 DEF Configured, ErrandResetDevice, hostVars
<1>2. CASE Disconnected \/ VbusOff
  <2>1. count' = [count EXCEPT !.link = @ + 1]
    BY <1>2 DEF Disconnected, VbusOff, LinkLost
  <2> QED BY <2>1
<1>3. CASE ControlReset \/ ControlDroppable \/ HostBegins \/ HostSendsCommand
  <2>1. UNCHANGED <<errand, link>>
    BY <1>3 DEF ControlReset, ControlDroppable, HostBegins, HostSendsCommand, linkVars
  <2>2. \/ count' = [count EXCEPT !.req = @ + 1]
        \/ count' = [count EXCEPT !.cmd = @ + 1]
        \/ count' = [count EXCEPT !.reset = @ + 1]
        \/ count' = [count EXCEPT !.drop = @ + 1]
    BY <1>3 DEF ControlReset, ControlDroppable, HostBegins, HostSendsCommand
  <2> QED BY <2>1, <2>2
<1>4. CASE ControlConfigure \/ HostSendsImage \/ SendDma \/ HostReads
  BY <1>4 DEF ControlConfigure, HostSendsImage, SendDma, HostReads, linkVars, hostVars
<1>5. CASE ImgNext
  BY <1>5 DEF ImgNext, ImgWaitConnection, ImgGet, ImgTakeFree, ImgUnbundle,
     ImgGrabFails, ImgRetry, ImgReceive, ImgMark, ImgArm, ImgReceived, ImgFailed, ImgSwap,
     ImgEnqueue, ImgCommand, ImgCommandBegins, ImgCommandDone, ImgCommandTimeout, ImgPutFree,
     ImgCleanImages, ImgCleanResults, ImgCleaned, linkVars, hostVars, imgElse
<1>6. CASE BufMgrNext \/ InfNext \/ SendNext \/ UNCHANGED vars
  BY <1>6 DEF BufMgrNext, InfNext, InfDequeue, InfGetResultBuffer, InfExecute, InfPutFree,
     SendNext, SendDequeue, SendStart, SendBegins, SendDone, SendHangs, SendPutFree, vars,
     linkVars, hostVars
<1> QED BY <1>1, <1>2, <1>3, <1>4, <1>5, <1>6 DEF Next, LinkNext, HostNext

LEMMA StepNeverDown ==
  ASSUME Types, NeverDown, [Next]_vars
  PROVE  NeverDown'
<1> USE CountFacts
<1>1. SUFFICES ASSUME count'.link = 0 PROVE ~errand' /\ (connFlag' \/ imgPc' # "wait" => link')
  BY DEF NeverDown
<1>2. count.link = 0 /\ ~errand' /\ (link => link')
  BY <1>1, LinkCounts DEF NeverDown
<1>3. ~errand /\ (connFlag \/ imgPc # "wait" => link)
  BY <1>2 DEF NeverDown
<1>4. CASE Configured
  BY <1>2, <1>4 DEF Configured
<1>5. CASE ImgWaitConnection
  BY <1>2, <1>3, <1>5 DEF ImgWaitConnection
<1>6. CASE ImgNext /\ ~ImgWaitConnection
  <2>1. imgPc # "wait"
    BY <1>6 DEF ImgNext, ImgGet, ImgTakeFree, ImgUnbundle,
       ImgGrabFails, ImgRetry, ImgReceive, ImgMark, ImgArm, ImgReceived, ImgFailed, ImgSwap,
       ImgEnqueue, ImgCommand, ImgCommandBegins, ImgCommandDone, ImgCommandTimeout, ImgPutFree,
       ImgCleanImages, ImgCleanResults, ImgCleaned
  <2> QED BY <1>2, <1>3, <2>1
<1>7. CASE ~Configured /\ ~ImgNext
  <2>1. UNCHANGED <<connFlag, imgPc>>
    BY <1>7 DEF Next, LinkNext, Disconnected, VbusOff, LinkLost, ErrandResetDevice,
       HostNext, ControlConfigure, ControlReset, ControlDroppable, HostBegins, HostSendsImage,
       HostSendsCommand, SendDma, HostReads, BufMgrNext, InfNext, InfDequeue,
       InfGetResultBuffer, InfExecute, InfPutFree, SendNext, SendDequeue, SendStart,
       SendBegins, SendDone, SendHangs, SendPutFree, vars, linkVars, imgVars
  <2> QED BY <1>2, <1>3, <2>1
<1> QED BY <1>4, <1>5, <1>6, <1>7

LEMMA LosesForEver ==
  ASSUME Types, [Next]_vars, MayLose
  PROVE  MayLose'
<1>1. count.link > 0 => count'.link > 0
  BY LinkCounts, CountFacts
<1>2. imgPc = "dead" => imgPc' = "dead"
  <2>1. CASE ImgNext
    BY <2>1 DEF ImgNext, ImgWaitConnection, ImgGet, ImgTakeFree, ImgUnbundle,
       ImgGrabFails, ImgRetry, ImgReceive, ImgMark, ImgArm, ImgReceived, ImgFailed, ImgSwap,
       ImgEnqueue, ImgCommand, ImgCommandBegins, ImgCommandDone, ImgCommandTimeout, ImgPutFree,
       ImgCleanImages, ImgCleanResults, ImgCleaned
  <2>2. CASE ~ImgNext
    BY <2>2 DEF Next, LinkNext, Configured, Disconnected, VbusOff, LinkLost, ErrandResetDevice,
       HostNext, ControlConfigure, ControlReset, ControlDroppable, HostBegins, HostSendsImage,
       HostSendsCommand, SendDma, HostReads, BufMgrNext, InfNext, InfDequeue,
       InfGetResultBuffer, InfExecute, InfPutFree, SendNext, SendDequeue, SendStart,
       SendBegins, SendDone, SendHangs, SendPutFree, vars, imgVars
  <2> QED BY <2>1, <2>2
<1> QED BY <1>1, <1>2 DEF MayLose

(* A buffer is still found when it stays in the structure it is in.        *)
LEMMA StillFound ==
  ASSUME NEW b, Found(b), owner'[b] = owner[b], allocated' = allocated, MayLose => MayLose',
         InQueue(imgFree, b) => InQueue(imgFree', b),
         InQueue(imgData, b) => InQueue(imgData', b),
         InTemp(tempQ, b) => InTemp(tempQ', b),
         AtMgr(b) => AtMgr(b)', AtImg(b) => AtImg(b)',
         b \in BufsOf(obj) => b \in BufsOf(obj')
  PROVE  Found(b)'
BY DEF Found

LEMMA QueueGrows ==
  ASSUME NEW q \in Seq(Seq(Slots)), NEW o \in Seq(Slots), NEW b
  PROVE  InQueue(q, b) \/ b \in BufsOf(o) => InQueue(Append(q, o), b)
<1>1. /\ DOMAIN Append(q, o) = 1 .. Len(q) + 1 /\ DOMAIN q = 1 .. Len(q) /\ Len(q) \in Nat
      /\ Append(q, o)[Len(q) + 1] = o
      /\ \A i \in 1 .. Len(q) : Append(q, o)[i] = q[i]
  OBVIOUS
<1>2. ASSUME NEW i \in DOMAIN q, b \in BufsOf(q[i]) PROVE InQueue(Append(q, o), b)
  <2>1. i \in DOMAIN Append(q, o) /\ Append(q, o)[i] = q[i]
    BY <1>1
  <2> QED BY <1>2, <2>1 DEF InQueue
<1>3. ASSUME b \in BufsOf(o) PROVE InQueue(Append(q, o), b)
  <2>1. Len(q) + 1 \in DOMAIN Append(q, o)
    BY <1>1
  <2> QED BY <1>1, <1>3, <2>1 DEF InQueue
<1> QED BY <1>2, <1>3 DEF InQueue

LEMMA QueueShrinks ==
  ASSUME NEW q \in Seq(Seq(Slots)), q # <<>>, NEW b, b \notin BufsOf(Head(q)), InQueue(q, b)
  PROVE  InQueue(Tail(q), b)
<1>1. /\ DOMAIN Tail(q) = 1 .. Len(q) - 1 /\ DOMAIN q = 1 .. Len(q) /\ Len(q) \in Nat
      /\ Head(q) = q[1] /\ Len(q) >= 1
      /\ \A i \in 1 .. Len(q) - 1 : Tail(q)[i] = q[i + 1]
  OBVIOUS
<1>2. PICK i \in DOMAIN q : b \in BufsOf(q[i])
  BY DEF InQueue
<1>3. i # 1
  BY <1>1, <1>2
<1>4. i - 1 \in DOMAIN Tail(q) /\ Tail(q)[i - 1] = q[(i - 1) + 1]
  BY <1>1, <1>3
<1>5. Tail(q)[i - 1] = q[i]
  BY <1>1, <1>4
<1> QED BY <1>2, <1>4, <1>5 DEF InQueue

LEMMA ObjectShrinks ==
  ASSUME NEW o \in Seq(Slots), o # <<>>
  PROVE  \A b \in BufsOf(o) : b # Head(o) => b \in BufsOf(Tail(o))
<1>1. /\ DOMAIN Tail(o) = 1 .. Len(o) - 1 /\ DOMAIN o = 1 .. Len(o) /\ Len(o) \in Nat
      /\ Head(o) = o[1] /\ Len(o) >= 1
      /\ \A i \in 1 .. Len(o) - 1 : Tail(o)[i] = o[i + 1]
  OBVIOUS
<1>2. SUFFICES ASSUME NEW i \in DOMAIN o, o[i] # Head(o) PROVE o[i] \in BufsOf(Tail(o))
  BY DEF BufsOf
<1>3. i # 1
  BY <1>1, <1>2
<1>4. i - 1 \in DOMAIN Tail(o) /\ Tail(o)[i - 1] = o[(i - 1) + 1]
  BY <1>1, <1>3
<1>5. Tail(o)[i - 1] = o[i]
  BY <1>1, <1>4
<1> QED BY <1>4, <1>5 DEF BufsOf

(* Nobody moves a buffer.                                                  *)
LEMMA QuietFound ==
  ASSUME AllFound, MayLose => MayLose', UNCHANGED <<imgQueues, stored, mgrPc, received,
                                                    extra, obj, owner, allocated>>,
         ImgHolds => buf = Temp \/ (ImgHolds' /\ buf' = buf)
  PROVE  AllFound'
<1> SUFFICES ASSUME NEW b \in ImgBufs PROVE Found(b)'
  BY DEF AllFound
<1>1. AtImg(b) => AtImg(b)'
  BY DEF AtImg, Temp, ImgBufs, BufsOf
<1> QED BY <1>1, StillFound DEF AllFound, imgQueues, AtMgr

(* The image thread loses the buffer it holds.                             *)
LEMMA LostFound ==
  ASSUME AllFound, MoveImg({buf}, "lost"), MayLose',
         UNCHANGED <<imgQueues, stored, mgrPc, received, extra, obj, allocated>>
  PROVE  AllFound'
<1> SUFFICES ASSUME NEW b \in ImgBufs PROVE Found(b)'
  BY DEF AllFound
<1>1. CASE b = buf
  <2>1. owner'[b] = "lost"
    BY <1>1 DEF MoveImg
  <2> QED BY <2>1 DEF Found
<1>2. CASE b # buf
  <2>1. owner'[b] = owner[b]
    BY <1>2 DEF MoveImg
  <2>2. AtImg(b) => AtImg(b)'
    BY <1>2 DEF AtImg, BufsOf
  <2> QED BY <2>1, <2>2, StillFound DEF AllFound, imgQueues, AtMgr
<1> QED BY <1>1, <1>2

LEMMA ConfigureFound ==
  ASSUME AllFound, ControlConfigure
  PROVE  AllFound'
<1> SUFFICES ASSUME NEW b \in ImgBufs PROVE Found(b)'
  BY DEF AllFound
<1>1. imgFree' = [i \in 1 .. NumImg |-> <<i>>] /\ owner'[b] = "free"
  BY DEF ControlConfigure, fill_free_queues
<1>2. b \in DOMAIN imgFree' /\ imgFree'[b] = <<b>> /\ b \in BufsOf(<<b>>)
  BY <1>1 DEF ImgBufs, BufsOf
<1>3. InQueue(imgFree', b)
  BY <1>2 DEF InQueue
<1> QED BY <1>1, <1>3 DEF Found

(* A buffer that is put back is in the free queue, the others are where    *)
(* they were.                                                              *)
LEMMA PutBackFound ==
  ASSUME Types, NEW x \in Slots, image_put_free_buffer(x), NEW b \in ImgBufs
  PROVE  /\ b = x => owner'[b] = "free" /\ InQueue(imgFree', b)
         /\ b # x => owner'[b] = owner[b] /\ (InQueue(imgFree, b) => InQueue(imgFree', b))
<1>1. imgFree' = Append(imgFree, <<x>>)
      /\ owner' = [c \in ImgBufs |-> IF c \in {x} THEN "free" ELSE owner[c]]
  BY DEF image_put_free_buffer, MoveImg
<1>2. BufsOf(<<x>>) = {x} /\ <<x>> \in Seq(Slots)
  BY ObjectBufs
<1>3. InQueue(imgFree, b) \/ b \in BufsOf(<<x>>) => InQueue(imgFree', b)
  BY <1>1, <1>2, QueueGrows, PlaceTypes
<1> QED BY <1>1, <1>2, <1>3

LEMMA ParseFound ==
  ASSUME Types, NoNull, AllFound, NEW n \in {0, 1}, Parse(n), imgPc \in {"recv_wait", "failed"},
         MayLose => MayLose',
         UNCHANGED <<imgQueues, stored, mgrPc, received, extra, obj, allocated, buf>>
  PROVE  AllFound'
<1>1. \/ owner' = owner /\ (ImgHolds' \/ buf = Temp)
      \/ MoveImg({buf}, "lost") /\ imgPc' = "dead"
  <2>1. CASE recvLen = 0
    BY <2>1 DEF Parse, ParseHeader, NextRecv, ImgHolds
  <2>2. CASE recvLen # 0
    BY <2>2 DEF Parse, ParseRest, NextRecv, ImgHolds
  <2> QED BY <2>1, <2>2
<1>2. CASE owner' = owner /\ (ImgHolds' \/ buf = Temp)
  BY <1>2, QuietFound
<1>3. CASE MoveImg({buf}, "lost") /\ imgPc' = "dead"
  BY <1>3, LostFound DEF MayLose
<1> QED BY <1>1, <1>2, <1>3

LEMMA TakeFound ==
  ASSUME Types, NoRest, AllFound, MayLose => MayLose', ImgTakeFree
  PROVE  AllFound'
<1> SUFFICES ASSUME NEW b \in ImgBufs PROVE Found(b)'
  BY DEF AllFound
<1>1. PICK o : /\ take_free(o) \/ take_data(o)
               /\ buf' = o[1] /\ extra' = Tail(o)
               /\ imgPc' = IF Len(o) > 1 THEN "unbundle" ELSE Received(imgRet)
               /\ MoveImg(BufsOf(o), "img")
  BY DEF ImgTakeFree
<1>2. /\ imgPc \in {"block", "grab", "steal"}
      /\ UNCHANGED <<tempQ, stored, mgrPc, received, obj, allocated>>
  BY DEF ImgTakeFree, mgrVars, infVars
<1>3. imgFree \in Seq(Seq(Slots) \ {<<>>}) /\ imgData \in Seq(Seq(Slots) \ {<<>>})
      /\ imgFree \in Seq(Seq(Slots)) /\ imgData \in Seq(Seq(Slots))
  BY QueueSeqs
<1>4. o \in Seq(Slots) /\ o # <<>>
  <2>1. CASE imgFree # <<>> /\ o = Head(imgFree)
    BY <1>3, <2>1, TailType
  <2>2. CASE imgData # <<>> /\ o = Head(imgData)
    BY <1>3, <2>2, TailType
  <2> QED BY <1>1, <2>1, <2>2 DEF take_free, take_data
<1>5. CASE b \in BufsOf(o)
  <2>1. owner'[b] = "img"
    BY <1>1, <1>5 DEF MoveImg
  <2>2. b = o[1] \/ b \in BufsOf(extra')
    <3>1. Head(o) = o[1]
      BY <1>4
    <3> QED BY <1>1, <1>4, <1>5, <3>1, ObjectShrinks
  <2>3. ImgHolds'
    BY <1>1 DEF ImgHolds, Received
  <2> QED BY <1>1, <2>1, <2>2, <2>3 DEF Found, AtImg
<1>6. CASE b \notin BufsOf(o)
  <2>1. owner'[b] = owner[b]
    BY <1>1, <1>6 DEF MoveImg
  <2>2. InQueue(imgFree, b) => InQueue(imgFree', b)
    BY <1>1, <1>3, <1>6, QueueShrinks DEF take_free, take_data
  <2>3. InQueue(imgData, b) => InQueue(imgData', b)
    BY <1>1, <1>3, <1>6, QueueShrinks DEF take_free, take_data
  <2>4. ~AtImg(b)
    <3>1. ~ImgHolds /\ extra = <<>>
      BY <1>2 DEF ImgHolds, NoRest
    <3>2. BufsOf(extra) = {}
      BY <3>1, ObjectBufs
    <3> QED BY <3>1, <3>2 DEF AtImg
  <2>5. AtMgr(b) => AtMgr(b)'
    BY <1>2 DEF AtMgr
  <2> QED BY <1>2, <2>1, <2>2, <2>3, <2>4, <2>5, StillFound DEF AllFound
<1> QED BY <1>5, <1>6

LEMMA ImgFound ==
  ASSUME Types, LengthInv, NoNull, NoRest, NeverDown, PutsNeverWait, AllFound, MayLose => MayLose',
         ImgNext, ~torn, ~late, ~raced, ~raced'
  PROVE  AllFound'
<1> USE DEF imgQueues, mgrVars, infVars, queueVars
<1>1. CASE ImgTakeFree
  BY <1>1, TakeFound
<1>2. CASE ImgUnbundle
  <2>1. /\ imgPc = "unbundle" /\ image_put_free_buffer(Head(extra)) /\ extra' = Tail(extra)
        /\ imgPc' = IF Len(extra) > 1 THEN "unbundle" ELSE Received(imgRet)
        /\ UNCHANGED <<imgData, tempQ, stored, mgrPc, received, obj, allocated, buf>>
    BY <1>2 DEF ImgUnbundle
  <2>2. extra \in Seq(Slots) /\ extra # <<>>
    BY <2>1, PlaceTypes DEF Types, Shapes
  <2>3. Head(extra) \in Slots
    BY <2>2, TailType
  <2>4. ImgHolds'
    BY <2>1 DEF ImgHolds, Received
  <2>5. ASSUME NEW b \in ImgBufs PROVE Found(b)'
    <3>1. CASE b = Head(extra)
      <4>1. owner'[b] = "free" /\ InQueue(imgFree', b)
        BY <2>1, <2>3, <3>1, PutBackFound
      <4> QED BY <4>1 DEF Found
    <3>2. CASE b # Head(extra)
      <4>1. owner'[b] = owner[b] /\ (InQueue(imgFree, b) => InQueue(imgFree', b))
        BY <2>1, <2>3, <3>2, PutBackFound
      <4>2. AtImg(b) => AtImg(b)'
        BY <2>1, <2>2, <2>4, <3>2, ObjectShrinks DEF AtImg
      <4>3. AtMgr(b) => AtMgr(b)'
        BY <2>1 DEF AtMgr
      <4> QED BY <2>1, <4>1, <4>2, <4>3, StillFound DEF AllFound
    <3> QED BY <3>1, <3>2
  <2> QED BY <2>5 DEF AllFound
<1>3. CASE ImgEnqueue
  <2> DEFINE x == [total |-> hdr.total, index |-> IF hdr.total = 1 THEN 0 ELSE hdr.index,
                   buf |-> buf]
  <2>1. /\ tempQ' = Append(tempQ, x) /\ MoveImg({buf}, "temp")
        /\ UNCHANGED <<imgFree, imgData, stored, mgrPc, received, extra, obj, allocated>>
    BY <1>3, HasImages DEF ImgEnqueue, image_enqueue
  <2>2. x.buf = buf /\ x \in SpecialObjects
    <3>1. hdr.total \in 1 .. MaxInput /\ hdr.index \in Indices /\ buf \in Slots /\ 0 \in Indices
      BY ImgFacts, ConstantTypes DEF Items
    <3> QED BY <3>1 DEF SpecialObjects
  <2> HIDE DEF x
  <2>3. /\ DOMAIN tempQ' = 1 .. Len(tempQ) + 1 /\ DOMAIN tempQ = 1 .. Len(tempQ)
        /\ Len(tempQ) \in Nat /\ tempQ'[Len(tempQ) + 1] = x
        /\ \A k \in 1 .. Len(tempQ) : tempQ'[k] = tempQ[k]
    BY <2>1, <2>2, LineAppends, PlaceTypes
  <2>4. ASSUME NEW b \in ImgBufs PROVE Found(b)'
    <3>1. CASE b = buf
      <4>1. owner'[b] = "temp"
        BY <2>1, <3>1 DEF MoveImg
      <4>2. Len(tempQ) + 1 \in DOMAIN tempQ'
        BY <2>3
      <4>3. InTemp(tempQ', b)
        BY <2>2, <2>3, <3>1, <4>2 DEF InTemp
      <4> QED BY <4>1, <4>3 DEF Found
    <3>2. CASE b # buf
      <4>1. owner'[b] = owner[b]
        BY <2>1, <3>2 DEF MoveImg
      <4>2. InTemp(tempQ, b) => InTemp(tempQ', b)
        <5> SUFFICES ASSUME NEW i \in DOMAIN tempQ, tempQ[i].buf = b PROVE InTemp(tempQ', b)
          BY DEF InTemp
        <5>1. i \in DOMAIN tempQ' /\ tempQ'[i] = tempQ[i]
          BY <2>3
        <5> QED BY <5>1 DEF InTemp
      <4>3. AtImg(b) => AtImg(b)'
        BY <2>1, <3>2 DEF AtImg, BufsOf
      <4>4. AtMgr(b) => AtMgr(b)'
        BY <2>1 DEF AtMgr
      <4> QED BY <2>1, <4>1, <4>2, <4>3, <4>4, StillFound DEF AllFound
    <3> QED BY <3>1, <3>2
  <2> QED BY <2>4 DEF AllFound
<1>4. CASE ImgPutFree
  <2>1. /\ UNCHANGED <<imgData, tempQ, stored, mgrPc, received, extra, obj, allocated, buf>>
        /\ \/ buf = Temp /\ UNCHANGED <<imgFree, owner>>
           \/ image_put_free_buffer(buf)
    BY <1>4 DEF ImgPutFree
  <2>2. CASE buf = Temp /\ UNCHANGED <<imgFree, owner>>
    BY <2>1, <2>2, QuietFound
  <2>3. CASE image_put_free_buffer(buf)
    <3>1. ASSUME NEW b \in ImgBufs PROVE Found(b)'
      <4>1. CASE b = buf
        <5>1. owner'[b] = "free" /\ InQueue(imgFree', b)
          BY <2>3, <4>1, PutBackFound, PlaceTypes
        <5> QED BY <5>1 DEF Found
      <4>2. CASE b # buf
        <5>1. owner'[b] = owner[b] /\ (InQueue(imgFree, b) => InQueue(imgFree', b))
          BY <2>3, <4>2, PutBackFound, PlaceTypes
        <5>2. (AtImg(b) => AtImg(b)') /\ (AtMgr(b) => AtMgr(b)')
          BY <2>1, <4>2 DEF AtImg, AtMgr, BufsOf
        <5> QED BY <2>1, <5>1, <5>2, StillFound DEF AllFound
      <4> QED BY <4>1, <4>2
    <3> QED BY <3>1 DEF AllFound
  <2> QED BY <2>1, <2>2, <2>3
<1>5. CASE ImgCleanImages
  <2>1. UNCHANGED <<tempQ, stored, mgrPc, received, extra, obj, allocated, buf, imgRet>>
        /\ imgPc = "clean_img" /\ imgPc' \in {"clean_img", "clean_res"}
    BY <1>5 DEF ImgCleanImages
  <2>2. ImgHolds => ImgHolds'
    BY <2>1 DEF ImgHolds
  <2>3. CASE UNCHANGED <<imgData, imgFree, owner>>
    BY <2>1, <2>2, <2>3, QuietFound
  <2>4. CASE clean_image_object
    <3> DEFINE o == Head(imgData)
    <3>1. imgData # <<>> /\ Len(imgFree) < ImgCap
      BY <2>1, <2>4 DEF clean_image_object, PutsNeverWait
    <3>2. imgData' = Tail(imgData) /\ imgFree' = Append(imgFree, o) /\ MoveImg(BufsOf(o), "free")
      BY <2>4, <3>1 DEF clean_image_object
    <3>3. o \in Seq(Slots)
      BY <3>1, TailType, PlaceTypes
    <3>4. ASSUME NEW b \in ImgBufs PROVE Found(b)'
      <4>1. InQueue(imgFree, b) \/ b \in BufsOf(o) => InQueue(imgFree', b)
        BY <3>2, <3>3, QueueGrows, PlaceTypes
      <4>2. CASE b \in BufsOf(o)
        <5>1. owner'[b] = "free"
          BY <3>2, <4>2 DEF MoveImg
        <5> QED BY <4>1, <4>2, <5>1 DEF Found
      <4>3. CASE b \notin BufsOf(o)
        <5>1. owner'[b] = owner[b]
          BY <3>2, <4>3 DEF MoveImg
        <5>2. InQueue(imgData, b) => InQueue(imgData', b)
          BY <3>1, <3>2, <4>3, QueueShrinks, PlaceTypes
        <5>3. (AtImg(b) => AtImg(b)') /\ (AtMgr(b) => AtMgr(b)')
          BY <2>1, <2>2 DEF AtImg, AtMgr, BufsOf
        <5> QED BY <2>1, <4>1, <5>1, <5>2, <5>3, StillFound DEF AllFound
      <4> QED BY <4>2, <4>3
    <3> QED BY <3>4 DEF AllFound
  <2> QED BY <1>5, <2>3, <2>4 DEF ImgCleanImages
<1>6. CASE ImgReceived
  <2>1. UNCHANGED <<imgQueues, stored, mgrPc, received, extra, obj, allocated, buf>>
        /\ imgPc = "recv_wait"
    BY <1>6 DEF ImgReceived
  <2>2. CASE Parse(1)
    BY <2>1, <2>2, ParseFound
  <2>3. CASE imgPc' = "failed" /\ UNCHANGED owner
    <3>1. ImgHolds'
      BY <2>3 DEF ImgHolds
    <3> QED BY <2>1, <2>3, <3>1, QuietFound
  <2> QED BY <1>6, <2>2, <2>3 DEF ImgReceived
<1>7. CASE ImgFailed
  <2>1. UNCHANGED <<imgQueues, stored, mgrPc, received, extra, obj, allocated, buf>>
        /\ imgPc = "failed"
    BY <1>7 DEF ImgFailed
  <2>2. CASE ~link /\ MoveImg({buf}, "lost")
    <3>1. count.link > 0
      BY <2>1, <2>2, CountFacts DEF NeverDown
    <3> QED BY <2>1, <2>2, <3>1, LostFound DEF MayLose
  <2>3. CASE imgPc' = "clean_img" /\ imgRet' = "put" /\ UNCHANGED owner
    <3>1. ImgHolds'
      BY <2>3 DEF ImgHolds
    <3> QED BY <2>1, <2>3, <3>1, QuietFound
  <2>4. CASE Parse(0)
    BY <2>1, <2>4, ParseFound
  <2> QED BY <1>7, <2>2, <2>3, <2>4 DEF ImgFailed
<1>8. CASE ImgSwap
  <2>1. UNCHANGED <<imgQueues, stored, mgrPc, received, extra, obj, allocated, buf>>
    BY <1>8 DEF ImgSwap
  <2>2. CASE imgPc' = "dead" /\ MoveImg({buf}, "lost")
    BY <2>1, <2>2, LostFound DEF MayLose
  <2>3. CASE imgPc' = NextRecv(recvLen, wantLen, recvType) /\ UNCHANGED owner
    <3>1. ImgHolds'
      BY <2>3 DEF ImgHolds, NextRecv
    <3> QED BY <2>1, <2>3, <3>1, QuietFound
  <2> QED BY <1>8, <2>2, <2>3 DEF ImgSwap
<1>9. CASE ImgGet \/ ImgWaitConnection \/ ImgGrabFails \/ ImgRetry
  <2>1. UNCHANGED <<imgQueues, stored, mgrPc, received, extra, obj, owner, allocated>>
        /\ ~ImgHolds
    BY <1>9 DEF ImgGet, ImgWaitConnection, ImgGrabFails, ImgRetry, ImgHolds
  <2> QED BY <2>1, QuietFound
<1>10. CASE \/ ImgReceive \/ ImgMark \/ ImgArm
            \/ ImgCommand \/ ImgCommandBegins \/ ImgCommandDone \/ ImgCommandTimeout
  <2>1. UNCHANGED <<imgQueues, stored, mgrPc, received, extra, obj, owner, allocated, buf>>
        /\ ImgHolds'
    BY <1>10 DEF ImgReceive, ImgMark, ImgArm, ImgCommand, ImgCommandBegins, ImgCommandDone,
       ImgCommandTimeout, ImgHolds, imgVars
  <2> QED BY <2>1, QuietFound
<1>11. CASE ImgCleanResults \/ ImgCleaned
  <2>1. UNCHANGED <<imgQueues, stored, mgrPc, received, extra, obj, owner, allocated, buf>>
    BY <1>11 DEF ImgCleanResults, ImgCleaned, imgVars
  <2>2. ImgHolds => ImgHolds'
    BY <1>11 DEF ImgCleanResults, ImgCleaned, imgVars, ImgHolds
  <2> QED BY <2>1, <2>2, QuietFound
<1> QED BY <1>1, <1>2, <1>3, <1>4, <1>5, <1>6, <1>7, <1>8, <1>9, <1>10, <1>11 DEF ImgNext

LEMMA MgrFound ==
  ASSUME Types, StoredInv, NoNull, AllFound, MayLose => MayLose', BufMgrNext
  PROVE  AllFound'
<1> USE MgrFacts DEF imgVars, infVars
<1>1. UNCHANGED <<imgPc, imgRet, buf, extra, obj>>
  BY DEF BufMgrNext
<1>2. \A b : AtImg(b) => AtImg(b)'
  BY <1>1 DEF AtImg, ImgHolds, BufsOf
<1>3. CASE MgrGet
  <2> DEFINE r == Head(tempQ)
  <2>1. /\ tempQ # <<>> /\ tempQ' = Tail(tempQ) /\ received' = r /\ MoveImg({r.buf}, "mgr")
        /\ mgrPc = "get" /\ UNCHANGED <<imgFree, imgData, allocated>>
    BY <1>3 DEF MgrGet
  <2>2. /\ DOMAIN tempQ' = 1 .. Len(tempQ) - 1 /\ DOMAIN tempQ = 1 .. Len(tempQ)
        /\ Len(tempQ) \in Nat /\ Len(tempQ) >= 1 /\ r = tempQ[1]
        /\ \A i \in 1 .. Len(tempQ) - 1 : tempQ'[i] = tempQ[i + 1]
    BY <2>1, LineTails
  <2>3. r \in SpecialObjects
    BY <2>1
  <2>4. \/ mgrPc' = "putback" /\ stored' = stored
        \/ stored[r.index] = NULL /\ Store(r, numReceived + 1)
    BY <1>3 DEF MgrGet
  <2> HIDE DEF r
  <2>5. ASSUME NEW b \in ImgBufs PROVE Found(b)'
    <3>1. CASE b = r.buf
      <4>1. owner'[b] = "mgr"
        BY <2>1, <3>1 DEF MoveImg
      <4>2. AtMgr(b)'
        <5>1. CASE mgrPc' = "putback"
          BY <2>1, <3>1, <5>1 DEF AtMgr
        <5>2. CASE Store(r, numReceived + 1)
          <6>1. stored'[r.index] = b /\ r.index \in Indices
            BY <2>3, <3>1, <5>2 DEF Store
          <6> QED BY <6>1 DEF AtMgr
        <5> QED BY <2>4, <5>1, <5>2
      <4> QED BY <4>1, <4>2 DEF Found
    <3>2. CASE b # r.buf
      <4>1. owner'[b] = owner[b]
        BY <2>1, <3>2 DEF MoveImg
      <4>2. InTemp(tempQ, b) => InTemp(tempQ', b)
        <5> SUFFICES ASSUME NEW i \in DOMAIN tempQ, tempQ[i].buf = b PROVE InTemp(tempQ', b)
          BY DEF InTemp
        <5>1. i # 1 /\ i \in 1 .. Len(tempQ)
          BY <2>2, <3>2
        <5>2. i - 1 \in DOMAIN tempQ' /\ tempQ'[i - 1] = tempQ[(i - 1) + 1]
          BY <2>2, <5>1
        <5>3. tempQ'[i - 1] = tempQ[i]
          BY <5>1, <5>2
        <5> QED BY <5>2, <5>3 DEF InTemp
      <4>3. AtMgr(b) => AtMgr(b)'
        <5>1. AtMgr(b) => \E i \in Indices : stored[i] = b
          BY <2>1 DEF AtMgr
        <5>2. ASSUME NEW i \in Indices, stored[i] = b PROVE stored'[i] = b
          <6>1. b # NULL
            BY DEF ImgBufs, NULL
          <6>2. CASE stored' = stored
            BY <5>2, <6>2
          <6>3. CASE stored[r.index] = NULL /\ Store(r, numReceived + 1)
            BY <2>3, <5>2, <6>1, <6>3 DEF Store
          <6> QED BY <2>4, <6>2, <6>3
        <5> QED BY <5>1, <5>2 DEF AtMgr
      <4> QED BY <1>1, <1>2, <2>1, <4>1, <4>2, <4>3, StillFound DEF AllFound
    <3> QED BY <3>1, <3>2
  <2> QED BY <2>5 DEF AllFound
<1>4. CASE MgrPutBack
  <2> DEFINE x == stored[received.index]
  <2>1. /\ mgrPc = "putback" /\ image_put_free_buffer(x)
        /\ stored' = [stored EXCEPT ![received.index] = received.buf]
        /\ UNCHANGED <<imgData, tempQ, allocated>>
    BY <1>4 DEF MgrPutBack, Store
  <2>2. x \in Slots /\ received.index \in Indices
    OBVIOUS
  <2>3. ASSUME NEW i \in Indices, stored[i] # x PROVE stored'[i] = stored[i]
    BY <2>1, <2>3
  <2>4. stored'[received.index] = received.buf
    BY <2>1
  <2> HIDE DEF x
  <2>5. ASSUME NEW b \in ImgBufs PROVE Found(b)'
    <3>1. CASE b = x
      <4>1. owner'[b] = "free" /\ InQueue(imgFree', b)
        BY <2>1, <2>2, <3>1, PutBackFound
      <4> QED BY <4>1 DEF Found
    <3>2. CASE b # x
      <4>1. owner'[b] = owner[b] /\ (InQueue(imgFree, b) => InQueue(imgFree', b))
        BY <2>1, <2>2, <3>2, PutBackFound
      <4>2. AtMgr(b) => AtMgr(b)'
        BY <2>2, <2>3, <2>4, <3>2 DEF AtMgr
      <4> QED BY <1>1, <1>2, <2>1, <4>1, <4>2, StillFound DEF AllFound
    <3> QED BY <3>1, <3>2
  <2> QED BY <2>5 DEF AllFound
<1>5. CASE MgrEnqueue
  <2> DEFINE o == [k \in 1 .. storedNum |-> stored[k - 1]]
  <2>1. /\ mgrPc = "enqueue" /\ imgData' = Append(imgData, o) /\ MoveImg(BufsOf(o), "data")
        /\ UNCHANGED <<imgFree, tempQ, allocated>>
    BY <1>5 DEF MgrEnqueue
  <2>2. StoredAt = 0 .. storedNum - 1 /\ storedNum \in Nat
    BY <2>1 DEF StoredInv
  <2>3. ASSUME NEW k \in 1 .. storedNum PROVE stored[k - 1] \in Slots
    <3>1. k - 1 \in StoredAt
      BY <2>2
    <3> QED BY <3>1 DEF StoredAt
  <2>4. o \in Seq(Slots)
    BY <2>2, <2>3
  <2>5. ASSUME NEW b \in ImgBufs, AtMgr(b) PROVE b \in BufsOf(o)
    <3>1. PICK i \in Indices : stored[i] = b
      BY <2>1, <2>5 DEF AtMgr
    <3>2. i \in StoredAt
      BY <3>1 DEF StoredAt, ImgBufs, NULL
    <3>3. i + 1 \in 1 .. storedNum /\ stored[(i + 1) - 1] = b
      BY <2>2, <3>1, <3>2
    <3>4. i + 1 \in DOMAIN o /\ o[i + 1] = b
      BY <3>3
    <3> QED BY <3>4 DEF BufsOf
  <2> HIDE DEF o
  <2>6. ASSUME NEW b \in ImgBufs PROVE Found(b)'
    <3>1. InQueue(imgData, b) \/ b \in BufsOf(o) => InQueue(imgData', b)
      BY <2>1, <2>4, QueueGrows, PlaceTypes
    <3>2. CASE b \in BufsOf(o)
      <4>1. owner'[b] = "data"
        BY <2>1, <3>2 DEF MoveImg
      <4> QED BY <3>1, <3>2, <4>1 DEF Found
    <3>3. CASE b \notin BufsOf(o)
      <4>1. owner'[b] = owner[b]
        BY <2>1, <3>3 DEF MoveImg
      <4>2. ~AtMgr(b)
        BY <2>5, <3>3
      <4> QED BY <1>1, <1>2, <2>1, <3>1, <4>1, <4>2, StillFound DEF AllFound
    <3> QED BY <3>2, <3>3
  <2> QED BY <2>6 DEF AllFound
<1> QED BY <1>3, <1>4, <1>5 DEF BufMgrNext, MgrNext

LEMMA InfFound ==
  ASSUME Types, NoRest, AllFound, MayLose => MayLose', InfNext
  PROVE  AllFound'
<1> USE DEF imgVars, mgrVars, imgQueues
<1>1. UNCHANGED <<tempQ, stored, mgrPc, received, imgPc, imgRet, buf, extra, allocated>>
  BY DEF InfNext, InfDequeue, InfGetResultBuffer, InfExecute, InfPutFree
<1>2. \A b : (AtImg(b) => AtImg(b)') /\ (AtMgr(b) => AtMgr(b)')
  BY <1>1 DEF AtImg, AtMgr, ImgHolds, BufsOf
<1>3. CASE InfDequeue
  <2> DEFINE o == Head(imgData)
  <2>1. /\ infPc = "get" /\ imgData # <<>> /\ imgData' = Tail(imgData) /\ obj' = o
        /\ MoveImg(BufsOf(o), "inf") /\ UNCHANGED imgFree
    BY <1>3 DEF InfDequeue, image_dequeue
  <2>2. ASSUME NEW b \in ImgBufs, b \notin BufsOf(o), InQueue(imgData, b)
        PROVE  InQueue(imgData', b)
    BY <2>1, <2>2, QueueShrinks, PlaceTypes
  <2>3. BufsOf(obj) = {}
    BY <2>1, ObjectBufs DEF NoRest
  <2> HIDE DEF o
  <2>4. ASSUME NEW b \in ImgBufs PROVE Found(b)'
    <3>1. CASE b \in BufsOf(o)
      <4>1. owner'[b] = "inf" /\ b \in BufsOf(obj')
        BY <2>1, <3>1 DEF MoveImg
      <4> QED BY <4>1 DEF Found
    <3>2. CASE b \notin BufsOf(o)
      <4>1. owner'[b] = owner[b]
        BY <2>1, <3>2 DEF MoveImg
      <4> QED BY <1>1, <1>2, <2>1, <2>2, <2>3, <3>2, <4>1, StillFound DEF AllFound
    <3> QED BY <3>1, <3>2
  <2> QED BY <2>4 DEF AllFound
<1>4. CASE InfGetResultBuffer \/ InfExecute
  <2>1. UNCHANGED <<imgFree, imgData, owner, obj>>
    BY <1>4 DEF InfGetResultBuffer, InfExecute
  <2> QED BY <1>1, <2>1, QuietFound DEF ImgHolds
<1>5. CASE InfPutFree
  <2>1. /\ infPc = "put" /\ image_put_free_buffer(Head(obj)) /\ obj' = Tail(obj)
        /\ UNCHANGED imgData
    BY <1>5 DEF InfPutFree
  <2>2. obj \in Seq(Slots) /\ obj # <<>>
    BY <2>1, PlaceTypes DEF Types, Shapes
  <2>3. Head(obj) \in Slots
    BY <2>2, TailType
  <2>4. ASSUME NEW b \in ImgBufs PROVE Found(b)'
    <3>1. CASE b = Head(obj)
      <4>1. owner'[b] = "free" /\ InQueue(imgFree', b)
        BY <2>1, <2>3, <3>1, PutBackFound
      <4> QED BY <4>1 DEF Found
    <3>2. CASE b # Head(obj)
      <4>1. owner'[b] = owner[b] /\ (InQueue(imgFree, b) => InQueue(imgFree', b))
        BY <2>1, <2>3, <3>2, PutBackFound
      <4>2. b \in BufsOf(obj) => b \in BufsOf(obj')
        BY <2>1, <2>2, <3>2, ObjectShrinks
      <4> QED BY <1>1, <1>2, <2>1, <4>1, <4>2, StillFound DEF AllFound
    <3> QED BY <3>1, <3>2
  <2> QED BY <2>4 DEF AllFound
<1> QED BY <1>3, <1>4, <1>5 DEF InfNext

FoundInv == NeverDown /\ (~raced /\ ~torn /\ ~late => AllFound)

LEMMA StepFound ==
  ASSUME Types, OrderInv, RealInv, PutsNeverWait, FoundInv, [Next]_vars
  PROVE  FoundInv'
<1>1. NeverDown'
  BY StepNeverDown DEF FoundInv
<1>2. SUFFICES ASSUME ~raced', ~torn', ~late' PROVE AllFound'
  BY <1>1 DEF FoundInv
<1>3. ~raced /\ ~torn /\ ~late /\ AllFound /\ (MayLose => MayLose')
  BY <1>2, HistoryStays, LosesForEver DEF FoundInv
<1>4. CASE ControlConfigure
  BY <1>3, <1>4, ConfigureFound
<1>5. CASE ImgNext
  BY <1>2, <1>3, <1>5, ImgFound DEF OrderInv, RealInv, FoundInv
<1>6. CASE BufMgrNext
  BY <1>3, <1>6, MgrFound DEF OrderInv
<1>7. CASE InfNext
  BY <1>3, <1>7, InfFound DEF RealInv
<1>8. CASE LinkNext \/ (HostNext /\ ~ControlConfigure) \/ SendNext \/ UNCHANGED vars
  <2>1. UNCHANGED <<imgQueues, stored, mgrPc, received, extra, obj, owner, allocated, imgPc,
                    imgRet, buf>>
    BY <1>8 DEF LinkNext, Configured, Disconnected, VbusOff, LinkLost, ErrandResetDevice,
       HostNext, ControlReset, ControlDroppable, HostBegins, HostSendsImage,
       HostSendsCommand, SendDma, HostReads, SendNext, SendDequeue, SendStart, SendBegins,
       SendDone, SendHangs, SendPutFree, vars, queueVars, imgQueues, mgrVars,
       imgVars, infVars
  <2> QED BY <1>3, <2>1, QuietFound DEF ImgHolds
<1> QED BY <1>4, <1>5, <1>6, <1>7, <1>8 DEF Next, HostNext

LEMMA InitFound == Init => FoundInv
<1> SUFFICES ASSUME Init PROVE FoundInv
  OBVIOUS
<1>1. \A b \in ImgBufs : owner[b] = "unallocated"
  BY DEF Init, QueueInit
<1>2. ~allocated
  BY DEF Init, QueueInit
<1> QED BY <1>1, <1>2, InitNeverDown DEF FoundInv, AllFound, Found

(* Whatever the host resets, drops or unplugs: no image buffer disappears. *)
(* Every one is in a queue, in the object of a thread or in its hand; only *)
(* when the link goes down, or with an image too big for the buffers, the  *)
(* image thread forgets the one it holds.  As long as the image thread did *)
(* not go on without a buffer, every image began with its first transfer   *)
(* and no DMA was armed late.                                              *)
THEOREM BuffersConserved == Spec => []Conserved
<1>1. Types /\ FoundInv => Conserved
  <2> SUFFICES ASSUME Types, FoundInv, ~raced, ~torn, ~late, NEW b \in ImgBufs
      PROVE CASE owner[b] = "free" -> \E i \in DOMAIN imgFree : b \in BufsOf(imgFree[i])
              [] owner[b] = "data" -> \E i \in DOMAIN imgData : b \in BufsOf(imgData[i])
              [] owner[b] = "temp" -> \E i \in DOMAIN tempQ : tempQ[i].buf = b
              [] owner[b] = "mgr"  -> \/ \E i \in Indices : stored[i] = b
                                      \/ mgrPc = "putback" /\ received.buf = b
              [] owner[b] = "img"  -> \/ ImgHolds /\ buf = b
                                      \/ b \in BufsOf(extra)
              [] owner[b] = "inf"  -> b \in BufsOf(obj)
              [] owner[b] = "unallocated" -> ~allocated
              [] OTHER -> imgPc = "dead" \/ count.link > 0
    BY DEF Conserved
  <2>1. Found(b)
    BY DEF FoundInv, AllFound
  <2>2. owner[b] \in ImgPlaces
    BY DEF Types, TypeOK, QueueTypeOK, ImgQueueTypeOK
  <2> QED BY <2>1, <2>2 DEF Found, InQueue, InTemp, AtMgr, AtImg, MayLose, ImgPlaces
<1>2. Types /\ OrderInv /\ RealInv /\ PutsNeverWait /\ FoundInv /\ [Next]_vars => FoundInv'
  BY StepFound
<1> QED BY <1>1, <1>2, InitFound, TypesInvariant, OrderInvariant, RealInvariant, NoPutWaits,
           PTL DEF Spec

=============================================================================
