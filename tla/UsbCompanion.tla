---------------------------- MODULE UsbCompanion ----------------------------
(***************************************************************************)
(* The inference path of the KL720 companion firmware: the host on the     *)
(* other end of the USB cable, the USB callbacks that run in interrupt     *)
(* context, and four threads.                                              *)
(*                                                                         *)
(*   image thread   kdp2_usb_companion_image_thread   (host -> device)     *)
(*   buf_mgr        kdp2_fifoq_manager_enqueue_image_thread                *)
(*   dispatcher     kmdw_inference_image_dispatcher_thread                 *)
(*   result thread  kdp2_usb_companion_result_thread  (device -> host)     *)
(*                                                                         *)
(* Threads interleave between any two queue or USB calls; interrupts       *)
(* interleave anywhere.  Thread priorities are not modelled: the model has *)
(* every schedule the RTOS has, and more.                                  *)
(*                                                                         *)
(* The endpoint driver is seen through what its callers rely on: the       *)
(* status of an endpoint and its bit of usbd_ctrl.evtFlag.                 *)
(***************************************************************************)
EXTENDS FifoqManager

CONSTANTS
  ImgChunks,   (* USB transfers the host uses for one image, 1 or 2        *)
  Totals,      (* numbers of images the host puts into one inference       *)
  Crops,       (* numbers of crop boxes (results) of one inference         *)
  MaxReq,      (* bound: inferences the host starts                        *)
  MaxCmd,      (* bound: commands the host sends                           *)
  MaxSent,     (* bound: inferences and commands together                  *)
  MaxReset,    (* bound: FIFOQ_RESET requests                              *)
  MaxDrop,     (* bound: ENABLE_DROPPABLE requests                         *)
  MaxLink,     (* bound: times the link goes down                          *)
  Oversize,    (* may the host send an image bigger than the buffers?      *)
  SlowHost     (* may the host leave an answer unread for seconds?         *)

ASSUME HostAssumption ==
  /\ ImgChunks \in {1, 2}
  /\ Totals \subseteq 1 .. MaxInput
  /\ Crops \subseteq Nat \ {0}
  /\ {MaxReq, MaxCmd, MaxSent, MaxReset, MaxDrop, MaxLink} \subseteq Nat
  /\ {Oversize, SlowHost} \subseteq BOOLEAN

Endpoints == {"in", "out"}      \* DATA_IN and DATA_OUT

(* What one USB transfer carries and what therefore stands in a buffer:    *)
(* nothing yet, an inference image that fits ("inf") or not ("big"), with  *)
(* its header, a later part of an image ("part"), or a command.  req       *)
(* counts the host's inferences and commands.                              *)
Nothing == [kind |-> "none", req |-> 0, index |-> 0, total |-> 1, crops |-> 1]
Items   == [kind : {"none", "inf", "big", "part", "cmd"}, req : Nat, index : Indices,
            total : 1 .. MaxInput, crops : Nat]
IsInf(item) == item.kind \in {"inf", "big"}

VARIABLES
  link,        \* usbd_ctrl.link_status is CONFIGURED
  ep,          \* ep_ctrl[e].status
  evt,         \* the endpoint's bit of usbd_ctrl.evtFlag
  fifo,        \* DATA_IN: "dma" runs, or its "data" waits for the host
  armed,       \* DATA_OUT: H_hw_own of the PRD, the DMA waits for the host's data
  connFlag,    \* FLAG_WAIT_USB_CONNECTION of the image thread
  errand,      \* usbd_hal_reset_device is queued in the errand service
  doReset,     \* _do_reset_queue
  droppable,   \* _enable_inf_droppable
  sendMutex,   \* send_bulk_mutex: which thread holds it
  round,       \* what the sender that holds it is about to do, or waits for
  imgPc,       \* where the image thread stands
  imgRet,      \* why it asks for a free buffer: a new receive, or a swap
  buf,         \* buf_addr
  extra,       \* buffers of a grabbed object still to be put back
  recvLen,     \* total_recv_len, in transfers
  wantLen,     \* total_wanted_len, in transfers
  recvType,    \* recv_type
  hdr,         \* total_image_count and image_index of the received header
  infPc,       \* where the dispatcher stands
  obj,         \* fifoq_obj: the buffers it works on
  crop,        \* c, the crop box it works on
  resBuf,      \* result_buf, 0 when it holds none
  sendPc,      \* where the result thread stands
  sendBuf,     \* buf_addr of the result thread
  content,     \* memory: header and rest of what a buffer last received
  answer,      \* memory: what inference and crop a result buffer answers
  dma,         \* the PRD of DATA_OUT: buffer and offset, in transfers
  tx,          \* the PRD of DATA_IN: the result buffer, 0 for a command's answer
  sent         \* memory: what DATA_IN's FIFO holds, a result or NoResult

VARIABLES
  host,        \* the image the host sends next: request, total, index, chunk
  count,       \* how often the host did each bounded thing
  asked,       \* history: crop boxes of each inference the host began
  delivered,   \* history: the results the host received, in order
  executed,    \* history: the commands executed, in order
  raced,       \* history: the image thread went on without a buffer
  torn,        \* history: a later part of an image came first into a buffer
  late         \* history: a DMA was armed for a transfer already terminated

epVars   == <<ep, evt, fifo, armed>>
mutexVars == <<sendMutex, round>>
linkVars == <<link, epVars, connFlag, errand, doReset, droppable, mutexVars>>
imgVars  == <<imgPc, imgRet, buf, extra, recvLen, wantLen, recvType, hdr>>
infVars  == <<infPc, obj, crop, resBuf>>
sendVars == <<sendPc, sendBuf>>
memVars  == <<content, answer, dma, tx, sent>>
hostVars == <<host, count, asked, delivered>>
history  == <<executed, raced, torn, late>>
vars == <<queueVars, linkVars, imgVars, infVars, sendVars, memVars, hostVars, history>>

-----------------------------------------------------------------------------
(* Endpoints (kdrv_usbd3.c).                                               *)

Available(up) == IF up THEN "idle" ELSE "na"

(* kdrv_usbd3_reset_endpoint on the endpoints S, when the link is up: the  *)
(* DMA is halted, and a transfer that runs is terminated.                  *)
Stopped(e, up) == IF ep[e] = "xfer" THEN "term" ELSE Available(up)

reset_endpoint_keeps_dma(S, up) ==  \* mutant: the DMA goes on
  /\ ep' = [e \in Endpoints |-> IF e \in S THEN Stopped(e, up) ELSE ep[e]]
  /\ evt' = [e \in Endpoints |-> evt[e] \/ (e \in S /\ ep[e] = "xfer")]
  /\ UNCHANGED <<fifo, armed>>

reset_endpoint(S, up) ==
  /\ ep' = [e \in Endpoints |-> IF e \in S THEN Stopped(e, up) ELSE ep[e]]
  /\ evt' = [e \in Endpoints |-> evt[e] \/ (e \in S /\ ep[e] = "xfer")]
  /\ fifo' = IF "in" \in S THEN "empty" ELSE fifo
  /\ armed' = (armed /\ "out" \notin S)

(* PRD or FIFO interrupt of a running transfer.                            *)
transfer_done(e) ==
  /\ ep[e] = "xfer"
  /\ ep' = [ep EXCEPT ![e] = "done"]
  /\ evt' = [evt EXCEPT ![e] = TRUE]

(* The thread waiting for endpoint e wakes up: a transfer that is done or  *)
(* terminated leaves the endpoint available.                               *)
transfer_wakes(e) ==
  /\ evt[e]
  /\ evt' = [evt EXCEPT ![e] = FALSE]
  /\ ep' = [ep EXCEPT ![e] = CASE @ = "done" -> "idle"
                               [] @ = "term" -> Available(link)
                               [] OTHER      -> @]

(* A sender that found its endpoint idle marks it, arms the DMA, and waits *)
(* in a loop of two rounds (_endpoint_send).  In the first it waits for    *)
(* the DMA, and again for the FIFO when that still holds the data; when it *)
(* is woken and finds its transfer neither done nor terminated, because    *)
(* the endpoint was reset or configured since the event, it also waits     *)
(* again.  The second round ends in any case.                              *)
Rounds == {"mark", "arm", "dma", "fifo", "again"}
SenderWaits == round \notin {"mark", "arm"}

send_begins(b) ==
  \/ /\ round = "mark" /\ round' = "arm"
     /\ ep' = [ep EXCEPT !["in"] = "xfer"]
     /\ UNCHANGED <<fifo, tx, late>>
  \/ /\ round = "arm" /\ round' = "dma"
     /\ fifo' = "dma" /\ tx' = b
     /\ late' = (late \/ ep["in"] # "xfer")
     /\ UNCHANGED ep

AfterRound ==
  CASE round = "dma" /\ ep["in"] = "done" /\ fifo = "data" -> "fifo"
    [] round = "dma" /\ ep["in"] \notin {"done", "term"}   -> "again"
    [] OTHER                                               -> "over"

send_wakes ==
  /\ SenderWaits
  /\ IF AfterRound = "fifo"
     THEN /\ evt["in"]
          /\ evt' = [evt EXCEPT !["in"] = FALSE]
          /\ ep' = [ep EXCEPT !["in"] = "xfer"]
     ELSE transfer_wakes("in")

NoResult == <<0, 0>>

Init ==
  /\ QueueInit
  /\ link = FALSE
  /\ ep = [e \in Endpoints |-> "na"]
  /\ evt = [e \in Endpoints |-> FALSE]
  /\ fifo = "empty" /\ armed = FALSE
  /\ connFlag = FALSE /\ errand = FALSE
  /\ doReset = FALSE /\ droppable = FALSE
  /\ sendMutex = "free" /\ round = "dma"
  /\ imgPc = "wait" /\ imgRet = "recv"
  /\ buf = Temp /\ extra = <<>>
  /\ recvLen = 0 /\ wantLen = 0 /\ recvType = "unknown"
  /\ hdr = Nothing
  /\ infPc = "get" /\ obj = <<>> /\ crop = 0 /\ resBuf = 0
  /\ sendPc = "get" /\ sendBuf = 0
  /\ content = [b \in Slots |-> [head |-> Nothing, rest |-> Nothing]]
  /\ answer = [b \in ResBufs |-> <<0, 0>>]
  /\ dma = [buf |-> Temp, at |-> 0]
  /\ tx = 0 /\ sent = NoResult
  /\ host = [req |-> 0, total |-> 1, index |-> 0, chunk |-> 0, crops |-> 1, open |-> FALSE]
  /\ count = [req |-> 0, cmd |-> 0, reset |-> 0, drop |-> 0, link |-> 0]
  /\ delivered = <<>>
  /\ asked = <<>>
  /\ executed = <<>> /\ raced = FALSE /\ torn = FALSE /\ late = FALSE

-----------------------------------------------------------------------------
(* Interrupt context: the link and the control endpoint.                   *)

(* set_configuration, which clears the PRDs (set_up_endpoint_fifo), then   *)
(* _usb_user_link_status_callback(CONFIGURED).                             *)
Configured ==
  /\ ~link
  /\ link' = TRUE
  /\ ep' = [e \in Endpoints |-> "idle"]
  /\ armed' = FALSE
  /\ fifo' = IF fifo = "dma" THEN "empty" ELSE fifo
  /\ connFlag' = TRUE
  /\ UNCHANGED <<queueVars, evt, errand, doReset, droppable, mutexVars, imgVars,
                 infVars, sendVars, memVars, hostVars, history>>

(* _usb_user_link_status_callback(DISCONNECTED), which also resets both    *)
(* endpoints.  What the host was sending is over.                          *)
LinkLost ==
  /\ link
  /\ count.link < MaxLink
  /\ count' = [count EXCEPT !.link = @ + 1]
  /\ link' = FALSE
  /\ errand' = TRUE
  /\ host' = [host EXCEPT !.open = FALSE]
  /\ UNCHANGED <<queueVars, connFlag, doReset, droppable, mutexVars, imgVars,
                 infVars, sendVars, memVars, asked, delivered, history>>

(* A bus reset or a hot reset.                                             *)
Disconnected ==
  /\ reset_endpoint(Endpoints, FALSE)
  /\ LinkLost

(* VBUS is off: the interrupt handler has reset the endpoints before it    *)
(* calls back, so that a terminated transfer is reset once more.           *)
VbusOff ==
  /\ ep' = [e \in Endpoints |-> "na"]
  /\ evt' = [e \in Endpoints |-> evt[e] \/ ep[e] = "xfer"]
  /\ fifo' = "empty" /\ armed' = FALSE
  /\ LinkLost

(* errand_thread runs usbd_hal_reset_device: kdrv_usbd3_initialize resets  *)
(* the controller, sets the link down again and replaces evtFlag, which    *)
(* releases the threads that wait (one about to wait begins with no event);*)
(* no callback is called and no endpoint status changes.                   *)
ErrandResetDevice ==
  /\ errand
  /\ errand' = FALSE
  /\ link' = FALSE
  /\ host' = [host EXCEPT !.open = FALSE]
  /\ evt' = [evt EXCEPT !["out"] = (imgPc = "recv_wait"),
                        !["in"]  = SenderWaits /\ (imgPc = "cmd_wait" \/ sendPc = "wait")]
  /\ fifo' = "empty" /\ armed' = FALSE
  /\ UNCHANGED <<queueVars, ep, connFlag, doReset, droppable, mutexVars, imgVars,
                 infVars, sendVars, memVars, count, asked, delivered, history>>

(* KDP2_CONTROL_FIFOQ_CONFIGURE.  Once only; the DDR reservation succeeds. *)
ControlConfigure ==
  /\ link
  /\ fill_free_queues
  /\ UNCHANGED <<imgData, tempQ, resData, mgrVars, linkVars, imgVars, infVars,
                 sendVars, memVars, hostVars, history>>

(* KDP2_CONTROL_FIFOQ_RESET.  The host gives up the image it was sending.  *)
ControlReset ==
  /\ link /\ allocated
  /\ count.reset < MaxReset
  /\ count' = [count EXCEPT !.reset = @ + 1]
  /\ doReset' = TRUE
  /\ droppable' = FALSE
  /\ reset_endpoint({"out"}, link)
  /\ host' = [host EXCEPT !.open = FALSE]
  /\ UNCHANGED <<queueVars, link, connFlag, errand, mutexVars, imgVars, infVars,
                 sendVars, memVars, asked, delivered, history>>

(* KDP2_CONTROL_FIFOQ_ENABLE_DROPPABLE with wValue 0 or 1.                 *)
ControlDroppable ==
  /\ link
  /\ count.drop < MaxDrop
  /\ count' = [count EXCEPT !.drop = @ + 1]
  /\ droppable' \in BOOLEAN
  /\ UNCHANGED <<queueVars, link, epVars, connFlag, errand, doReset, mutexVars,
                 imgVars, infVars, sendVars, memVars, host, asked, delivered, history>>

-----------------------------------------------------------------------------
(* The host and the bulk endpoints.                                        *)

(* The host decides on its next inference: images and crop boxes.          *)
HostBegins ==
  /\ link /\ allocated /\ ~host.open
  /\ count.req < MaxReq /\ count.req + count.cmd < MaxSent
  /\ count' = [count EXCEPT !.req = @ + 1]
  /\ \E t \in Totals, c \in Crops :
       /\ host' = [req |-> count.req + 1, total |-> t, index |-> 0, chunk |-> 0,
                   crops |-> c, open |-> TRUE]
       /\ asked' = Append(asked, c)
  /\ UNCHANGED <<queueVars, linkVars, imgVars, infVars, sendVars, memVars,
                 delivered, history>>

HostItem(kind) == [kind |-> kind, req |-> host.req, index |-> host.index,
                   total |-> host.total, crops |-> host.crops]

(* Data comes in when the DMA is armed, and lands where the PRD points.    *)
(* Its interrupt ends the transfer that runs; with none it does nothing.   *)
Land(item) ==
  /\ armed /\ armed' = FALSE
  /\ transfer_done("out") \/ (ep["out"] # "xfer" /\ UNCHANGED <<ep, evt>>)
  /\ content' = [content EXCEPT ![dma.buf] =
                   IF dma.at = 0 THEN [@ EXCEPT !.head = item]
                                  ELSE [@ EXCEPT !.rest = item]]

(* The next transfer of the image being sent; after the last transfer of   *)
(* the last image the inference is complete on the host's side.  Only the  *)
(* first transfer of an image has a header, which matters when the thread  *)
(* took it for the end of an image that was given up.                      *)
HostSendsImage ==
  /\ link /\ host.open
  /\ \E kind \in IF host.chunk > 0 THEN {"part"} ELSE IF Oversize THEN {"inf", "big"} ELSE {"inf"} :
       Land(HostItem(kind))
  /\ torn' = (torn \/ (host.chunk > 0 /\ dma.at = 0))
  /\ host' = IF host.chunk + 1 < ImgChunks
             THEN [host EXCEPT !.chunk = @ + 1]
             ELSE IF host.index + 1 < host.total
                  THEN [host EXCEPT !.chunk = 0, !.index = @ + 1]
                  ELSE [host EXCEPT !.open = FALSE]
  /\ UNCHANGED <<queueVars, link, fifo, connFlag, errand, doReset, droppable, mutexVars,
                 imgVars, infVars, sendVars, answer, dma, tx, sent, count, asked,
                 delivered, executed, raced, late>>

(* A command, between two inferences.                                      *)
HostSendsCommand ==
  /\ link /\ ~host.open
  /\ count.cmd < MaxCmd /\ count.req + count.cmd < MaxSent
  /\ count' = [count EXCEPT !.cmd = @ + 1]
  /\ Land([Nothing EXCEPT !.kind = "cmd", !.req = count.cmd + 1])
  /\ UNCHANGED <<queueVars, link, fifo, connFlag, errand, doReset, droppable, mutexVars,
                 imgVars, infVars, sendVars, answer, dma, tx, sent, host, asked,
                 delivered, history>>

(* The DMA of DATA_IN is done: its data waits in the FIFO for the host.    *)
SendDma ==
  /\ fifo = "dma"
  /\ fifo' = "data"
  /\ sent' = IF tx = 0 THEN NoResult ELSE answer[tx]
  /\ transfer_done("in") \/ (ep["in"] # "xfer" /\ UNCHANGED <<ep, evt>>)
  /\ UNCHANGED <<queueVars, link, armed, connFlag, errand, doReset, droppable, mutexVars,
                 imgVars, infVars, sendVars, content, answer, dma, tx, hostVars, history>>

(* The host reads DATA_IN: the result the result thread sends, or the      *)
(* answer of the command the image thread executes.  It is the FIFO        *)
(* interrupt of a sender that waits for it.                                *)
HostReads ==
  /\ link
  /\ fifo = "data"
  /\ fifo' = "empty"
  /\ transfer_done("in") \/ (ep["in"] # "xfer" /\ UNCHANGED <<ep, evt>>)
  /\ delivered' = IF sent = NoResult THEN delivered ELSE Append(delivered, sent)
  /\ UNCHANGED <<queueVars, link, armed, connFlag, errand, doReset, droppable, mutexVars,
                 imgVars, infVars, sendVars, memVars, host, count, asked, history>>

-----------------------------------------------------------------------------
(* The image thread.                                                       *)

imgElse == <<link, epVars, errand, doReset, droppable, mutexVars>>

(* WAIT_FOR_CONNECTION: waits for FLAG_WAIT_USB_CONNECTION, which a        *)
(* connection the thread never noticed may have left set.                  *)
ImgWaitConnection ==
  /\ imgPc = "wait"
  /\ connFlag
  /\ connFlag' = FALSE
  /\ imgPc' = "get" /\ imgRet' = "recv"
  /\ UNCHANGED <<queueVars, imgElse, buf, extra, recvLen, wantLen, recvType, hdr,
                 infVars, sendVars, memVars, hostVars, history>>

(* "Take a free buffer": the system reserve buffer before the queues are   *)
(* configured, else image_get_free_buffer with the value _enable_inf_droppable *)
(* has at the call.                                                        *)
ImgGet ==
  /\ imgPc = "get"
  /\ IF allocated
     THEN /\ imgPc' = IF droppable THEN "grab" ELSE "block"
          /\ UNCHANGED buf
     ELSE /\ imgPc' = "recv"
          /\ buf' = Temp
  /\ IF imgRet = "recv"
     THEN recvLen' = 0 /\ wantLen' = 0 /\ recvType' = "unknown"
     ELSE UNCHANGED <<recvLen, wantLen, recvType>>
  /\ UNCHANGED <<queueVars, linkVars, imgRet, extra, hdr, infVars, sendVars,
                 memVars, hostVars, history>>

(* What happens once image_get_free_buffer returned a buffer: receive into *)
(* it, or, in a swap, go on with the header that is in the reserve buffer. *)
Received(ret) == IF ret = "swap" THEN "swap" ELSE "recv"

(* kmdw_fifoq_manager_image_get_free_buffer got an object, from the free   *)
(* queue or, looking at the other one, from the data queue: its first      *)
(* buffer is for the caller, the others still have to go back.             *)
ImgTakeFree ==
  /\ imgPc \in {"block", "grab", "steal"}
  /\ \E o \in {imgFree[i] : i \in DOMAIN imgFree} \cup {imgData[i] : i \in DOMAIN imgData} :
       /\ IF imgPc = "steal" THEN take_data(o) ELSE take_free(o)
       /\ buf' = o[1]
       /\ extra' = Tail(o)
       /\ imgPc' = IF Len(o) > 1 THEN "unbundle" ELSE Received(imgRet)
       /\ MoveImg(BufsOf(o), "img")
  /\ UNCHANGED <<tempQ, resQueues, allocated, mgrVars, resOwner, linkVars, imgRet,
                 recvLen, wantLen, recvType, hdr, infVars, sendVars, memVars,
                 hostVars, history>>

(* Puts back the second and later buffers of the object it got.            *)
ImgUnbundle ==
  /\ imgPc = "unbundle"
  /\ image_put_free_buffer(Head(extra))
  /\ extra' = Tail(extra)
  /\ imgPc' = IF Len(extra) > 1 THEN "unbundle" ELSE Received(imgRet)
  /\ UNCHANGED <<imgData, tempQ, resQueues, allocated, mgrVars, resOwner, linkVars,
                 imgRet, buf, recvLen, wantLen, recvType, hdr, infVars, sendVars,
                 memVars, hostVars, history>>

(* The free queue is empty in droppable mode: the data queue is looked at; *)
(* that one empty as well: osErrorResource.                                *)
ImgGrabFails ==
  /\ \/ imgPc = "grab" /\ imgFree = <<>> /\ imgPc' = "steal"
     \/ imgPc = "steal" /\ imgData = <<>> /\ imgPc' = "retry"
  /\ UNCHANGED <<queueVars, linkVars, imgRet, buf, extra, recvLen, wantLen, recvType,
                 hdr, infVars, sendVars, memVars, hostVars, history>>

(* while (_enable_inf_droppable && osErrorResource == sts): calls again as *)
(* long as the mode is on (and reads the mode again for the call).  When a *)
(* control request switched it off since the call, the loop ends without a *)
(* buffer: buf_addr is what it was, the system reserve buffer in a swap,   *)
(* and for the uninitialized local of a new receive what its stack slot    *)
(* holds, the buffer of the last receive.                                  *)
ImgRetry ==
  /\ imgPc = "retry"
  /\ IF droppable
     THEN /\ imgPc' = "get"
          /\ UNCHANGED raced
     ELSE /\ imgPc' = Received(imgRet)
          /\ raced' = TRUE
  /\ UNCHANGED <<queueVars, linkVars, imgRet, buf, extra, recvLen, wantLen, recvType, hdr,
                 infVars, sendVars, memVars, hostVars, executed, torn, late>>

(* usbd_hal_bulk_receive, down to _endpoint_receive: fails at once unless  *)
(* the endpoint is idle, ...                                               *)
ImgReceive ==
  /\ imgPc = "recv"
  /\ imgPc' = IF ep["out"] = "idle" THEN "mark" ELSE "failed"
  /\ UNCHANGED <<queueVars, linkVars, imgRet, buf, extra, recvLen, wantLen, recvType, hdr,
                 infVars, sendVars, memVars, hostVars, history>>

(* ... marks it ...                                                        *)
ImgMark ==
  /\ imgPc = "mark"
  /\ imgPc' = "arm"
  /\ ep' = [ep EXCEPT !["out"] = "xfer"]
  /\ UNCHANGED <<queueVars, link, evt, fifo, armed, connFlag, errand, doReset, droppable,
                 mutexVars, imgRet, buf, extra, recvLen, wantLen, recvType, hdr,
                 infVars, sendVars, memVars, hostVars, history>>

(* ... and arms the DMA, without a look whether an interrupt terminated    *)
(* the transfer since it was marked.                                       *)
ImgArm ==
  /\ imgPc = "arm"
  /\ imgPc' = "recv_wait"
  /\ armed' = TRUE
  /\ dma' = [buf |-> buf, at |-> recvLen]
  /\ late' = (late \/ ep["out"] # "xfer")
  /\ UNCHANGED <<queueVars, link, ep, evt, fifo, connFlag, errand, doReset, droppable,
                 mutexVars, imgRet, buf, extra, recvLen, wantLen, recvType, hdr,
                 infVars, sendVars, content, answer, tx, sent, hostVars, executed, raced,
                 torn>>

(* Where the receive loop goes with len of the wanted transfers received.  *)
NextRecv(len, want, type) ==
  IF len < want THEN "recv"
  ELSE CASE type = "inf" -> "enqueue"
         [] type = "cmd" -> "cmd"
         [] OTHER        -> "put"

(* The header of a new buffer after n (0 or 1) transfers arrived, and the  *)
(* buffer swap when an image came into the reserve buffer.                 *)
ParseHeader(n) ==
  LET h == content[buf].head
  IN  IF IsInf(h)
      THEN /\ recvType' = "inf" /\ wantLen' = ImgChunks /\ hdr' = h
           /\ IF buf = Temp /\ allocated
              THEN /\ imgPc' = "get" /\ imgRet' = "swap" /\ recvLen' = n
                   /\ UNCHANGED owner
              ELSE IF h.kind = "big"
              THEN /\ imgPc' = "dead"
                   /\ MoveImg({buf}, "lost")
                   /\ UNCHANGED <<imgRet, recvLen>>
              ELSE /\ recvLen' = n
                   /\ imgPc' = NextRecv(n, ImgChunks, "inf")
                   /\ UNCHANGED <<imgRet, owner>>
      ELSE /\ recvType' = "cmd" /\ wantLen' = n /\ recvLen' = n
           /\ imgPc' = "cmd"
           /\ UNCHANGED <<imgRet, hdr, owner>>

(* A later part of the image: only its beginning is looked at, for the     *)
(* magic of a command.  A command is shorter than the part it replaces or  *)
(* reaches the wanted length all the same.                                 *)
ParseRest(n) ==
  LET stray == content[buf].rest.kind = "cmd"
  IN  \E len \in IF stray THEN {recvLen, recvLen + n} ELSE {recvLen + n} :
        /\ recvType' = IF stray THEN "unknown" ELSE recvType
        /\ recvLen' = len
        /\ imgPc' = NextRecv(len, wantLen, recvType')
        /\ UNCHANGED <<imgRet, wantLen, hdr, owner>>

Parse(n) == IF recvLen = 0 THEN ParseHeader(n) ELSE ParseRest(n)

(* The transfer ended: with data, it is parsed; else bulk_receive failed.  *)
ImgReceived ==
  /\ imgPc = "recv_wait"
  /\ transfer_wakes("out")
  /\ IF ep["out"] = "done"
     THEN Parse(1)
     ELSE /\ imgPc' = "failed"
          /\ UNCHANGED <<imgRet, recvLen, wantLen, recvType, hdr, owner>>
  /\ UNCHANGED <<imgQueues, resQueues, allocated, mgrVars, resOwner, link, fifo, armed, connFlag,
                 errand, doReset, droppable, mutexVars, buf, extra, infVars,
                 sendVars, memVars, hostVars, history>>

(* usb_sts is not KDRV_STATUS_OK.  Link down: clean the queues and wait    *)
(* for a connection, whatever buffer is held.  Reset requested: clean the  *)
(* queues, then return the buffer.  Neither: the buffer is parsed although *)
(* nothing was received.                                                   *)
ImgFailed ==
  /\ imgPc = "failed"
  /\ \/ /\ ~link
        /\ imgPc' = "clean_img" /\ imgRet' = "wait"
        /\ recvType' = "unknown"
        /\ MoveImg({buf}, "lost")
        /\ UNCHANGED <<doReset, recvLen, wantLen, hdr>>
     \/ /\ link /\ doReset
        /\ doReset' = FALSE
        /\ imgPc' = "clean_img" /\ imgRet' = "put"
        /\ recvType' = "unknown"
        /\ UNCHANGED <<recvLen, wantLen, hdr, owner>>
     \/ /\ link /\ ~doReset
        /\ Parse(0)
        /\ UNCHANGED doReset
  /\ UNCHANGED <<imgQueues, resQueues, allocated, mgrVars, resOwner, link, epVars,
                 connFlag, errand, droppable, mutexVars, buf, extra, infVars,
                 sendVars, memVars, hostVars, history>>

(* The swap got its buffer: copy what was received, then the size check    *)
(* and the receive loop go on.                                             *)
ImgSwap ==
  /\ imgPc = "swap"
  /\ imgRet' = "recv"
  /\ content' = IF recvLen = 0 THEN content ELSE [content EXCEPT ![buf] = content[Temp]]
  /\ IF hdr.kind = "big"
     THEN imgPc' = "dead" /\ MoveImg({buf}, "lost")
     ELSE imgPc' = NextRecv(recvLen, wantLen, recvType) /\ UNCHANGED owner
  /\ UNCHANGED <<imgQueues, resQueues, allocated, mgrVars, resOwner, linkVars, buf,
                 extra, recvLen, wantLen, recvType, hdr, infVars, sendVars, answer, dma,
                 tx, sent, hostVars, history>>

(* A complete image goes to buf_mgr.                                       *)
ImgEnqueue ==
  /\ imgPc = "enqueue"
  /\ image_enqueue(hdr.total, hdr.index, buf)
  /\ imgPc' = "get" /\ imgRet' = "recv"
  /\ UNCHANGED <<imgFree, imgData, resQueues, allocated, mgrVars, resOwner, linkVars,
                 buf, extra, recvLen, wantLen, recvType, hdr, infVars, sendVars,
                 memVars, hostVars, history>>

(* _process_plus_command: a command is executed and answered over DATA_IN, *)
(* under send_bulk_mutex; anything else is ignored.                        *)
ImgCommand ==
  /\ imgPc = "cmd"
  /\ IF content[buf].head.kind = "cmd"
     THEN /\ sendMutex = "free"
          /\ executed' = Append(executed, content[buf].head.req)
          /\ IF ep["in"] = "idle"
             THEN sendMutex' = "img" /\ imgPc' = "cmd_wait" /\ round' = "mark"
             ELSE imgPc' = "put" /\ UNCHANGED mutexVars
     ELSE imgPc' = "put" /\ UNCHANGED <<mutexVars, executed>>
  /\ UNCHANGED <<queueVars, link, epVars, connFlag, errand, doReset, droppable, imgRet,
                 buf, extra, recvLen, wantLen, recvType, hdr, infVars, sendVars,
                 memVars, hostVars, raced, torn, late>>

(* The answer's endpoint is marked, the DMA armed.                         *)
ImgCommandBegins ==
  /\ imgPc = "cmd_wait"
  /\ send_begins(0)
  /\ UNCHANGED <<queueVars, link, evt, armed, connFlag, errand, doReset, droppable, sendMutex,
                 imgVars, infVars, sendVars, content, answer, dma, sent, hostVars, executed,
                 raced, torn>>

(* A round of the answer ends.                                             *)
ImgCommandDone ==
  /\ imgPc = "cmd_wait"
  /\ send_wakes
  /\ \/ AfterRound # "over" /\ round' = AfterRound /\ UNCHANGED <<imgPc, sendMutex>>
     \/ AfterRound = "over" /\ imgPc' = "put" /\ sendMutex' = "free" /\ UNCHANGED round
  /\ UNCHANGED <<queueVars, link, fifo, armed, connFlag, errand, doReset, droppable, imgRet, buf,
                 extra, recvLen, wantLen, recvType, hdr, infVars, sendVars, memVars,
                 hostVars, history>>

(* The answer was not read in time: a timeout in the first round gives the *)
(* transfer up, one in the second stops the thread in the driver for good  *)
(* (ERROR_WATCH_REMOVE_IT_IN_THE_FUTURE), with its buffer and the mutex.   *)
ImgCommandTimeout ==
  /\ SlowHost
  /\ imgPc = "cmd_wait" /\ SenderWaits /\ ~evt["in"]
  /\ IF round = "dma"
     THEN /\ imgPc' = "put" /\ sendMutex' = "free"
          /\ ep' = [ep EXCEPT !["in"] = Available(link)]
          /\ fifo' = "empty"
     ELSE imgPc' = "hung" /\ UNCHANGED <<ep, fifo, sendMutex>>
  /\ UNCHANGED <<queueVars, link, evt, armed, connFlag, errand, doReset, droppable, imgRet, buf,
                 extra, recvLen, wantLen, recvType, hdr, round, infVars, sendVars, memVars,
                 hostVars, history>>

(* The buffer was not put into the inference queue: it returns to the free *)
(* queue, unless it is the system reserve buffer.                          *)
ImgPutFree_not_after_command ==  \* mutant: forgets the buffer of a command
  /\ imgPc = "put"
  /\ IF buf = Temp \/ recvType = "cmd" THEN UNCHANGED <<imgFree, owner>>
                                       ELSE image_put_free_buffer(buf)
  /\ imgPc' = "get" /\ imgRet' = "recv"
  /\ UNCHANGED <<imgData, tempQ, resQueues, allocated, mgrVars, resOwner, linkVars,
                 buf, extra, recvLen, wantLen, recvType, hdr, infVars, sendVars,
                 memVars, hostVars, history>>

ImgPutFree ==
  /\ imgPc = "put"
  /\ IF buf = Temp THEN UNCHANGED <<imgFree, owner>> ELSE image_put_free_buffer(buf)
  /\ imgPc' = "get" /\ imgRet' = "recv"
  /\ UNCHANGED <<imgData, tempQ, resQueues, allocated, mgrVars, resOwner, linkVars,
                 buf, extra, recvLen, wantLen, recvType, hdr, infVars, sendVars,
                 memVars, hostVars, history>>

(* kmdw_fifoq_manager_clean_queues, object by object.                      *)
ImgCleanImages ==
  /\ imgPc = "clean_img"
  /\ \/ clean_image_object /\ UNCHANGED imgPc
     \/ imgData = <<>> /\ imgPc' = "clean_res" /\ UNCHANGED <<imgData, imgFree, owner>>
  /\ UNCHANGED <<tempQ, resQueues, allocated, mgrVars, resOwner, linkVars, imgRet,
                 buf, extra, recvLen, wantLen, recvType, hdr, infVars, sendVars,
                 memVars, hostVars, history>>

ImgCleanResults ==
  /\ imgPc = "clean_res"
  /\ clean_result_object
  /\ UNCHANGED <<imgQueues, allocated, mgrVars, owner, linkVars, imgVars, infVars,
                 sendVars, memVars, hostVars, history>>

(* Both data queues are empty.  A requested reset then also terminates     *)
(* DATA_IN, which may still hold a buffer.                                 *)
ImgCleaned ==
  /\ imgPc = "clean_res"
  /\ resData = <<>>
  /\ imgPc' = imgRet
  /\ IF imgRet = "put" THEN reset_endpoint({"in"}, link) ELSE UNCHANGED epVars
  /\ UNCHANGED <<queueVars, link, connFlag, errand, doReset, droppable, mutexVars,
                 imgRet, buf, extra, recvLen, wantLen, recvType, hdr, infVars,
                 sendVars, memVars, hostVars, history>>

ImgNext ==
  \/ ImgWaitConnection \/ ImgGet \/ ImgTakeFree \/ ImgUnbundle \/ ImgGrabFails
  \/ ImgRetry \/ ImgReceive \/ ImgMark \/ ImgArm \/ ImgReceived \/ ImgFailed \/ ImgSwap
  \/ ImgEnqueue \/ ImgCommand \/ ImgCommandBegins \/ ImgCommandDone \/ ImgCommandTimeout
  \/ ImgPutFree \/ ImgCleanImages \/ ImgCleanResults \/ ImgCleaned

-----------------------------------------------------------------------------
(* The dispatcher with the generic raw inference, the job the firmware     *)
(* itself provides: one result per crop box.                               *)

InfDequeue ==
  /\ infPc = "get"
  /\ image_dequeue
  /\ obj' = Head(imgData)
  /\ crop' = 0
  /\ infPc' = "result"
  /\ UNCHANGED <<imgFree, tempQ, resQueues, allocated, mgrVars, resOwner, linkVars,
                 imgVars, resBuf, sendVars, memVars, hostVars, history>>

InfGetResultBuffer ==
  /\ infPc = "result"
  /\ result_get_free_buffer
  /\ resBuf' = Head(resFree)
  /\ infPc' = "execute"
  /\ UNCHANGED <<imgQueues, resData, allocated, mgrVars, owner, linkVars, imgVars,
                 obj, crop, sendVars, memVars, hostVars, history>>

(* kmdw_inference_app_execute returned, with whatever status: the result   *)
(* header gets the inference number of the last image and the number of    *)
(* the crop box, and the result is queued.                                 *)
InfExecute ==
  /\ infPc = "execute"
  /\ answer' = [answer EXCEPT ![resBuf] = <<content[obj[Len(obj)]].head.req, crop + 1>>]
  /\ result_enqueue(resBuf)
  /\ resBuf' = 0
  /\ crop' = crop + 1
  /\ infPc' = IF crop + 1 < content[obj[1]].head.crops THEN "result" ELSE "put"
  /\ UNCHANGED <<imgQueues, resFree, allocated, mgrVars, owner, linkVars, imgVars,
                 obj, sendVars, content, dma, tx, sent, hostVars, history>>

(* Returns the buffers of the object one by one.                           *)
InfPutFree ==
  /\ infPc = "put"
  /\ image_put_free_buffer(Head(obj))
  /\ obj' = Tail(obj)
  /\ infPc' = IF Len(obj) > 1 THEN "put" ELSE "get"
  /\ UNCHANGED <<imgData, tempQ, resQueues, allocated, mgrVars, resOwner, linkVars,
                 imgVars, crop, resBuf, sendVars, memVars, hostVars, history>>

InfNext == InfDequeue \/ InfGetResultBuffer \/ InfExecute \/ InfPutFree

-----------------------------------------------------------------------------
(* The result thread.                                                      *)

SendDequeue ==
  /\ sendPc = "get"
  /\ result_dequeue
  /\ sendBuf' = Head(resData)
  /\ sendPc' = "send"
  /\ UNCHANGED <<imgQueues, resFree, allocated, mgrVars, owner, linkVars, imgVars,
                 infVars, memVars, hostVars, history>>

(* usbd_hal_bulk_send: under send_bulk_mutex, fails at once unless the     *)
(* endpoint is idle.                                                       *)
SendStart ==
  /\ sendPc = "send"
  /\ sendMutex = "free"
  /\ IF ep["in"] = "idle"
     THEN sendMutex' = "send" /\ sendPc' = "wait" /\ round' = "mark"
     ELSE sendPc' = "put" /\ UNCHANGED mutexVars
  /\ UNCHANGED <<queueVars, link, epVars, connFlag, errand, doReset, droppable, imgVars,
                 infVars, sendBuf, memVars, hostVars, history>>

(* The endpoint is marked, the DMA armed.                                  *)
SendBegins ==
  /\ sendPc = "wait"
  /\ send_begins(sendBuf)
  /\ UNCHANGED <<queueVars, link, evt, armed, connFlag, errand, doReset, droppable, sendMutex,
                 imgVars, infVars, sendVars, content, answer, dma, sent, hostVars, executed,
                 raced, torn>>

(* A round of the send ends.                                               *)
SendDone_resends ==  \* mutant: a send that failed is tried again
  /\ sendPc = "wait"
  /\ send_wakes
  /\ \/ /\ AfterRound # "over"
        /\ round' = AfterRound
        /\ UNCHANGED <<sendPc, sendMutex>>
     \/ /\ AfterRound = "over"
        /\ sendPc' = IF ep["in"] = "done" THEN "put" ELSE "send"
        /\ sendMutex' = "free"
        /\ UNCHANGED round
  /\ UNCHANGED <<queueVars, link, fifo, armed, connFlag, errand, doReset, droppable, imgVars,
                 infVars, sendBuf, memVars, hostVars, history>>

SendDone ==
  /\ sendPc = "wait"
  /\ send_wakes
  /\ \/ AfterRound # "over" /\ round' = AfterRound /\ UNCHANGED <<sendPc, sendMutex>>
     \/ AfterRound = "over" /\ sendPc' = "put" /\ sendMutex' = "free" /\ UNCHANGED round
  /\ UNCHANGED <<queueVars, link, fifo, armed, connFlag, errand, doReset, droppable, imgVars,
                 infVars, sendBuf, memVars, hostVars, history>>

(* A send waits for ever, but for the FIFO no longer than three seconds:   *)
(* then the thread stops in the driver for good.                           *)
SendHangs ==
  /\ SlowHost
  /\ sendPc = "wait" /\ round = "fifo" /\ ~evt["in"]
  /\ sendPc' = "hung"
  /\ UNCHANGED <<queueVars, linkVars, imgVars, infVars, sendBuf, memVars, hostVars, history>>

(* Sent or not, the result buffer is free again.                           *)
SendPutFree ==
  /\ sendPc = "put"
  /\ result_put_free_buffer(sendBuf)
  /\ sendBuf' = 0
  /\ sendPc' = "get"
  /\ UNCHANGED <<imgQueues, resData, allocated, mgrVars, owner, linkVars, imgVars,
                 infVars, memVars, hostVars, history>>

SendNext == SendDequeue \/ SendStart \/ SendBegins \/ SendDone \/ SendHangs \/ SendPutFree

-----------------------------------------------------------------------------
BufMgrNext ==
  /\ MgrNext
  /\ UNCHANGED <<linkVars, imgVars, infVars, sendVars, memVars, hostVars, history>>

LinkNext == Configured \/ Disconnected \/ VbusOff \/ ErrandResetDevice
HostNext == ControlConfigure \/ ControlReset \/ ControlDroppable \/ HostBegins
            \/ HostSendsImage \/ HostSendsCommand \/ SendDma \/ HostReads

Next == LinkNext \/ HostNext \/ ImgNext \/ BufMgrNext \/ InfNext \/ SendNext

Spec == Init /\ [][Next]_vars

(* Fairness.  A thread that can run eventually does (the RTOS shares the   *)
(* core among equal priorities, and the higher priority threads of this    *)
(* path block on queues); send_bulk_mutex wakes its waiters in turn, so a  *)
(* thread that finds it free again and again gets it.                      *)
ThreadFairness ==
  /\ WF_vars(ImgNext) /\ SF_vars(ImgCommand)
  /\ WF_vars(BufMgrNext)
  /\ WF_vars(InfNext)
  /\ WF_vars(SendNext) /\ SF_vars(SendStart)

(* A host that finishes the images it began, and reads what it is sent.    *)
HostFairness ==
  /\ WF_vars(Configured)
  /\ WF_vars(SendDma) /\ WF_vars(HostReads)
  /\ SF_vars(HostSendsImage)

FairSpec == Spec /\ ThreadFairness /\ HostFairness

-----------------------------------------------------------------------------
(* Types of the variables, actor by actor.                                 *)
LinkTypeOK ==
  /\ link \in BOOLEAN /\ connFlag \in BOOLEAN /\ errand \in BOOLEAN
  /\ ep \in [Endpoints -> {"na", "idle", "xfer", "done", "term"}]
  /\ evt \in [Endpoints -> BOOLEAN]
  /\ doReset \in BOOLEAN /\ droppable \in BOOLEAN
  /\ fifo \in {"empty", "dma", "data"} /\ armed \in BOOLEAN
  /\ sendMutex \in {"free", "img", "send"} /\ round \in Rounds
ImgTypeOK ==
  /\ imgPc \in {"wait", "get", "block", "grab", "steal", "retry", "unbundle", "recv",
                "mark", "arm", "recv_wait", "failed", "swap", "enqueue", "cmd", "cmd_wait",
                "hung", "put", "clean_img", "clean_res", "dead"}
  /\ imgRet \in {"recv", "swap", "wait", "put"}
  /\ buf \in Slots
  /\ extra \in Seq(Slots)
  /\ recvLen \in Nat /\ wantLen \in Nat
  /\ recvType \in {"inf", "cmd", "unknown"}
  /\ hdr \in Items
InfTypeOK ==
  /\ infPc \in {"get", "result", "execute", "put"}
  /\ obj \in Seq(Slots)
  /\ crop \in Nat
  /\ resBuf \in ResBufs \cup {0}
SendTypeOK ==
  /\ sendPc \in {"get", "send", "wait", "hung", "put"}
  /\ sendBuf \in ResBufs \cup {0}
MemTypeOK ==
  /\ content \in [Slots -> [head : Items, rest : Items]]
  /\ answer \in [ResBufs -> Nat \X Nat]
  /\ dma \in [buf : Slots, at : Nat]
  /\ tx \in ResBufs \cup {0} /\ sent \in Nat \X Nat
HostStates == [req : Nat, total : 1 .. MaxInput, index : Indices, chunk : Nat,
               crops : Nat, open : BOOLEAN]
Counters   == [req : Nat, cmd : Nat, reset : Nat, drop : Nat, link : Nat]
HostTypeOK ==
  /\ host \in HostStates
  /\ count \in Counters
  /\ asked \in Seq(Nat)
  /\ delivered \in Seq(Nat \X Nat)
HistoryTypeOK == executed \in Seq(Nat) /\ raced \in BOOLEAN /\ torn \in BOOLEAN
                 /\ late \in BOOLEAN

TypeOK == QueueTypeOK /\ LinkTypeOK /\ ImgTypeOK /\ InfTypeOK /\ SendTypeOK
          /\ MemTypeOK /\ HostTypeOK /\ HistoryTypeOK

(* The image thread holds buf_addr: it will put it into a queue, lose it,  *)
(* or is receiving into it.                                                *)
ImgHolds ==
  \/ imgPc \in {"unbundle", "recv", "mark", "arm", "recv_wait", "failed", "swap",
                "enqueue", "cmd", "cmd_wait", "hung", "put"}
  \/ imgPc \in {"clean_img", "clean_res"} /\ imgRet = "put"

(* The image buffers in f, a sequence or function of buffers, are at the   *)
(* place p by the history own, and each is in f once ...                   *)
InPlace(own, p, f) ==
  \A k \in DOMAIN f : f[k] \in ImgBufs =>
    /\ own[f[k]] = p
    /\ \A l \in DOMAIN f : f[l] = f[k] => l = k

(* ... and those in q, a queue of objects, also.                           *)
ObjectsInPlace(own, p, q) ==
  \A i \in DOMAIN q : \A k \in DOMAIN q[i] : q[i][k] \in ImgBufs =>
    /\ own[q[i][k]] = p
    /\ \A j \in DOMAIN q : \A l \in DOMAIN q[j] : q[j][l] = q[i][k] => j = i /\ l = k

TempBufs == [i \in DOMAIN tempQ |-> tempQ[i].buf]

(* A buffer b held alone, and not also in f, is at the place p.            *)
HeldBeside(own, p, b, f) ==
  b \in ImgBufs => own[b] = p /\ \A k \in DOMAIN f : f[k] # b

MgrInPlace ==
  /\ InPlace(owner, "mgr", stored)
  /\ mgrPc = "putback" => HeldBeside(owner, "mgr", received.buf, stored)

ImgInPlace ==
  /\ InPlace(owner, "img", extra)
  /\ ImgHolds => HeldBeside(owner, "img", buf, extra)

AllInPlace ==
  /\ ObjectsInPlace(owner, "free", imgFree)
  /\ ObjectsInPlace(owner, "data", imgData)
  /\ InPlace(owner, "temp", TempBufs)
  /\ MgrInPlace
  /\ ImgInPlace
  /\ InPlace(owner, "inf", obj)

(* No image buffer is ever in two places: two queues, two objects, two     *)
(* threads, or a queue and a thread.  Breaking it is an image overwritten  *)
(* while it waits or while the NPU reads it.  It can only break through    *)
(* the race in ImgRetry.                                                   *)
Exclusive == ~raced => AllInPlace

(* The same for result buffers, which no race can reach.                   *)
Once(seq) == \A i, j \in DOMAIN seq : seq[i] = seq[j] => i = j
ResultExclusive ==
  /\ \A i \in DOMAIN resFree : resOwner[resFree[i]] = "free"
  /\ \A i \in DOMAIN resData : resOwner[resData[i]] = "data"
  /\ Once(resFree) /\ Once(resData)
  /\ infPc = "execute" => resBuf \in ResBufs /\ resOwner[resBuf] = "inf"
  /\ sendPc # "get" => sendBuf \in ResBufs /\ resOwner[sendBuf] = "send"

(* Every buffer is where its owner says: none disappears on the way.       *)
Conserved ==
  ~raced /\ ~torn /\ ~late => \A b \in ImgBufs :
    CASE owner[b] = "free" -> \E i \in DOMAIN imgFree : b \in BufsOf(imgFree[i])
      [] owner[b] = "data" -> \E i \in DOMAIN imgData : b \in BufsOf(imgData[i])
      [] owner[b] = "temp" -> \E i \in DOMAIN tempQ : tempQ[i].buf = b
      [] owner[b] = "mgr"  -> \/ \E i \in Indices : stored[i] = b
                              \/ mgrPc = "putback" /\ received.buf = b
      [] owner[b] = "img"  -> \/ ImgHolds /\ buf = b
                              \/ b \in BufsOf(extra)
      [] owner[b] = "inf"  -> b \in BufsOf(obj)
      [] owner[b] = "unallocated" -> ~allocated
      [] OTHER -> imgPc = "dead" \/ count.link > 0

(* A transfer of the host never lands in an image buffer but the one the   *)
(* image thread has taken for it and still waits for, through disconnects, *)
(* new configurations, resets of the endpoint and the re-initialisation of *)
(* the driver while the DMA is armed or before the endpoint is marked.     *)
(* Not so once one of them came between the marking and the arming (late): *)
(* the DMA then starts for a receive that returns terminated.              *)
DmaExclusive ==
  ~late /\ armed /\ dma.buf \in ImgBufs =>
    imgPc = "recv_wait" /\ dma.buf = buf /\ owner[buf] = "img"

(* No put that "waits forever" ever has to wait, and none with timeout 0   *)
(* drops its buffer: a message queue has a slot for every buffer there is. *)
PutsNeverWait ==
  ~raced /\ ~torn /\ ~late =>
    /\ \/ mgrPc = "putback" \/ infPc = "put" \/ imgPc = "unbundle"
       \/ imgPc = "put" /\ buf # Temp
       \/ imgPc = "clean_img" /\ imgData # <<>>
       => Len(imgFree) < ImgCap
    /\ mgrPc = "enqueue" => Len(imgData) < ImgCap
    /\ imgPc = "enqueue" => Len(tempQ) < ImgCap
    /\ infPc = "execute" => Len(resData) < ResCap
    /\ (sendPc = "put" \/ (imgPc = "clean_res" /\ resData # <<>>)) => Len(resFree) < ResCap

(* An object that waits for inference has an image at every index: the     *)
(* dispatcher is never given the address 0 for one, whatever is reset,     *)
(* dropped or unplugged, as long as every image began with its first       *)
(* transfer and the DMA was never armed late.                              *)
ObjectsComplete == \A i \in DOMAIN imgData : NULL \notin BufsOf(imgData[i])
NoMissingImage == ~torn /\ ~late => ObjectsComplete

(* An object that waits for inference has the images of one inference, all *)
(* of them, in their order.                                                *)
WholeInference(o) ==
  \A k \in DOMAIN o : LET h == content[o[k]].head IN
    /\ h.req = content[o[1]].head.req
    /\ h.total = Len(o)
    /\ h.index = k - 1
OneInference == \A i \in DOMAIN imgData : WholeInference(imgData[i])

(* The host gets its results in the order of its inferences, and within an *)
(* inference in the order of the crop boxes, none twice.  Not so once the  *)
(* DMA was armed late: a transfer in a buffer that is free ends a receive  *)
(* into another one, and what was in that one before is inferred again.    *)
ResultsInOrder ==
  ~late => \A i \in 2 .. Len(delivered) :
    \/ delivered[i - 1][1] < delivered[i][1]
    \/ delivered[i - 1][1] = delivered[i][1] /\ delivered[i - 1][2] < delivered[i][2]

(* A command the host sent once is executed once.                          *)
CommandsOnce == \A i, j \in DOMAIN executed : executed[i] = executed[j] => i = j

Service == INSTANCE InferenceService WITH
             asked <- asked, delivered <- delivered, Crops <- Crops, MaxReq <- MaxReq

(* Without resets, dropping and unplugging the path is a queue: what the   *)
(* host reads next is always the result that is due.                       *)
ServiceSpec == Service!Spec

(* ... and under FairSpec every result that is due is read.                *)
ServiceFairSpec == Service!FairSpec

(* A requested reset is carried out.                                       *)
ResetHappens == doReset ~> ~doReset

(* A result that is being sent is sent or given up: the result thread      *)
(* comes back to its queue, whatever the host resets.                      *)
SenderGoesOn == sendPc # "get" ~> sendPc = "get"

=============================================================================
