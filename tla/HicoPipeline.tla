---------------------------- MODULE HicoPipeline ----------------------------
(***************************************************************************)
(* The camera solutions: build/solution_kdp2_hico_mipi (one or two MIPI    *)
(* cameras, images shown and optionally inferred) and                      *)
(* build/solution_kdp2_hico_tof (one ToF sensor, every image inferred).    *)
(*                                                                         *)
(* The camera interface (drv/kdrv_dpi2ahb.c) writes frames alternately to  *)
(* two page registers.  At the end of a frame its interrupt hands the      *)
(* buffer on and sets a new one in the register: a free buffer, or the     *)
(* oldest image nobody has begun with, or the same buffer again.  The      *)
(* threads of FifoqManager and of the solution work on what is handed on.  *)
(*                                                                         *)
(* Simplifications: interrupts are served before the next frame ends; the  *)
(* run on the NPU is one step (see NcpuIpc), its result is enqueued in the *)
(* same step; the host reads what is offered as long as the link is up.    *)
(* _img_queue has a slot for every buffer: it is never full.  The other    *)
(* commands of the host are those of ModelStore and Dfu.                   *)
(***************************************************************************)
EXTENDS FifoqManager, FiniteSets

CONSTANTS
  Cameras,    (* the cameras of the MIPI solution                          *)
  MaxFrames,  (* bound: frames                                             *)
  MaxUpset,   (* bound: START commands, disconnections and FIFO overflows  *)
  HicoBegin   (* the builds, with what the two counters begin with         *)

Pages     == {0, 1}
NoPage    == -1

ASSUME HicoAssumption ==
  /\ Cameras \subseteq Nat /\ Cameras # {}
  /\ MaxInput = 1
  /\ \A begin \in HicoBegin : begin.solution \in {"mipi", "tof"} /\ begin.frames \in Nat

VARIABLES
  solution,  \* the build
  page,      \* D2APage0Addr and D2APage1Addr of each camera
  filling,   \* external: the page the camera writes
  frameDone, \* external: D2A_INT_WRD with the page of D2AStatus, or NoPage
  overflow,  \* external: D2A_INT_FIFO_OF
  skip,      \* skip_next_count
  streaming, \* the interrupt of the camera is enabled
  imgQueue,  \* _img_queue
  liveView,  \* _hico_mode, g_tof_mode
  camDone,   \* _init_cam_done
  linkUp     \* external: the device is configured

(* The threads: where each stands, and what it holds.                      *)
VARIABLES
  cmdPc, cmdCams, cmdBufs,  \* the command thread, its remaining cameras, buf_addr
  showPc, shown,            \* the thread that sends images back, its img_obj
  infPc, obj, resBuf,       \* the dispatcher with its object and result buffer
  resPc, resSend            \* the result thread and its buffer

VARIABLES
  frames,    \* history: frames the cameras have written
  content,   \* history: the frame a buffer holds
  images,    \* history: the frames whose images the host got
  outcomes,   \* history: the frames whose results were enqueued
  mishaps,    \* history: counts what MaxUpset bounds
  restarted  \* history: a running camera was started again

camVars   == <<page, filling, frameDone, overflow, skip, streaming>>
modeVars  == <<liveView, camDone>>
cmdVars   == <<cmdPc, cmdCams, cmdBufs>>
showVars  == <<showPc, shown>>
infVars   == <<infPc, obj, resBuf>>
sendVars  == <<resPc, resSend>>
histVars  == <<frames, content, images, outcomes, mishaps, restarted>>
hicoVars  == <<queueVars, solution, camVars, imgQueue, modeVars, linkUp, cmdVars, showVars,
               infVars, sendVars, histVars>>

Cams    == IF solution = "tof" THEN {CHOOSE c \in Cameras : TRUE} ELSE Cameras
NoFrame == [cam |-> CHOOSE c \in Cameras : TRUE, number |-> 0]
(* The cameras of a command are started in their order.                    *)
FirstOf(cams) == CHOOSE c \in cams : \A d \in cams : c <= d
NoImage == [cam |-> CHOOSE c \in Cameras : TRUE, buf |-> NULL]

(* kdp2_hico_mipi_init, kdp2_hico_tof_init: the buffers are in the free    *)
(* queues before the threads start.                                        *)
HicoInit ==
  /\ \E begin \in HicoBegin :
       solution = begin.solution /\ frames = begin.frames /\ mishaps = begin.mishaps
  /\ imgFree = [i \in 1 .. NumImg |-> <<i>>] /\ imgData = <<>> /\ tempQ = <<>>
  /\ resFree = [i \in 1 .. NumRes |-> i] /\ resData = <<>>
  /\ allocated = TRUE
  /\ mgrPc = "get" /\ received = NoObject
  /\ stored = [i \in Indices |-> NULL] /\ storedNum = 0 /\ numReceived = 0
  /\ owner = [b \in ImgBufs |-> "free"] /\ resOwner = [b \in ResBufs |-> "free"]
  /\ page = [c \in Cameras |-> [p \in Pages |-> NULL]]
  /\ filling = [c \in Cameras |-> 0]
  /\ frameDone = [c \in Cameras |-> NoPage]
  /\ overflow = [c \in Cameras |-> FALSE]
  /\ skip = [c \in Cameras |-> 0]
  /\ streaming = [c \in Cameras |-> FALSE]
  /\ imgQueue = <<>> /\ liveView = (solution = "mipi") /\ camDone = FALSE /\ linkUp = FALSE
  /\ cmdPc = "link" /\ cmdCams = {} /\ cmdBufs = <<>>
  /\ showPc = "get" /\ shown = NoImage
  /\ infPc = "get" /\ obj = <<>> /\ resBuf = NULL
  /\ resPc = "get" /\ resSend = NULL
  /\ content = [b \in ImgBufs |-> NoFrame]
  /\ images = <<>> /\ outcomes = <<>>
  /\ restarted = FALSE

-----------------------------------------------------------------------------
(* The camera interface.                                                   *)

(* A frame is complete: the interrupt is raised and the camera goes on     *)
(* with the other page.                                                    *)
FrameEnds(c) ==
  /\ c \in Cams /\ streaming[c] /\ frameDone[c] = NoPage
  /\ frames < MaxFrames
  /\ frames' = frames + 1
  /\ content' = [content EXCEPT ![page[c][filling[c]]] = [cam |-> c, number |-> frames']]
  /\ frameDone' = [frameDone EXCEPT ![c] = filling[c]]
  /\ filling' = [filling EXCEPT ![c] = 1 - @]
  /\ UNCHANGED <<queueVars, solution, page, overflow, skip, streaming, imgQueue, modeVars, linkUp,
                 cmdVars, showVars, infVars, sendVars, images, outcomes, mishaps, restarted>>

Overflows(c) ==
  /\ c \in Cams /\ streaming[c] /\ mishaps < MaxUpset
  /\ mishaps' = mishaps + 1
  /\ overflow' = [overflow EXCEPT ![c] = TRUE]
  /\ UNCHANGED <<queueVars, solution, page, filling, frameDone, skip, streaming, imgQueue,
                 modeVars, linkUp, cmdVars, showVars, infVars, sendVars, frames, content, images,
                 outcomes, restarted>>

(* The page the status shows: the one that is complete.                    *)
StatusPage_busy(c) == filling[c]  \* mutant: the page that is being written

StatusPage(c) == frameDone[c]

(* kmdw_fifoq_manager_image_get_free_buffer with timeout 0 and force_grab. *)
Grabbed == IF imgFree # <<>> THEN Head(imgFree)[1] ELSE Head(imgData)[1]

(* image_coming_callback of the MIPI solution.  Without a buffer in the    *)
(* queues the oldest image that has not been shown gives its buffer.       *)
ComingMipi(c, old) ==
  LET image == [cam |-> c, buf |-> old] IN
  IF imgFree # <<>> \/ imgData # <<>>
  THEN /\ TakeFree(TRUE, <<Grabbed>>)
       /\ imgQueue' = Append(imgQueue, image)
       /\ page' = [page EXCEPT ![c][StatusPage(c)] = Grabbed]
       /\ MoveImg({Grabbed}, "img")
       /\ UNCHANGED tempQ
  ELSE IF imgQueue # <<>>
  THEN /\ imgQueue' = Append(Tail(imgQueue), image)
       /\ page' = [page EXCEPT ![c][StatusPage(c)] = Head(imgQueue).buf]
       /\ UNCHANGED <<imgFree, imgData, tempQ, owner>>
  ELSE UNCHANGED <<imgFree, imgData, imgQueue, page, owner, tempQ>>

(* image_coming_callback of the ToF solution: the image goes to buf_mgr;   *)
(* a full queue (timeout 0) would lose it.                                 *)
ComingTof(c, old) ==
  IF imgFree # <<>> \/ imgData # <<>>
  THEN /\ TakeFree(TRUE, <<Grabbed>>)
       /\ page' = [page EXCEPT ![c][StatusPage(c)] = Grabbed]
       /\ tempQ' = IF Len(tempQ) < ImgCap
                   THEN Append(tempQ, [total |-> 1, index |-> 0, buf |-> old]) ELSE tempQ
       /\ owner' = [owner EXCEPT ![Grabbed] = "img",
                                 ![old] = IF Len(tempQ) < ImgCap THEN "temp" ELSE "lost"]
       /\ UNCHANGED imgQueue
  ELSE UNCHANGED <<imgFree, imgData, imgQueue, page, owner, tempQ>>

Coming(c, old) == IF solution = "mipi" THEN ComingMipi(c, old) ELSE ComingTof(c, old)

(* kdrv_dpi2ahb_irqhandler.  An overflow spoils two frames.                *)
kdrv_dpi2ahb_irqhandler(c) ==
  /\ streaming[c] /\ (frameDone[c] # NoPage \/ overflow[c])
  /\ frameDone' = [frameDone EXCEPT ![c] = NoPage]
  /\ overflow' = [overflow EXCEPT ![c] = FALSE]
  /\ skip' = [skip EXCEPT ![c] = IF overflow[c] THEN 2
                                 ELSE IF frameDone[c] # NoPage /\ @ > 0 THEN @ - 1 ELSE @]
  /\ IF frameDone[c] # NoPage /\ skip[c] = 0
     THEN Coming(c, page[c][StatusPage(c)])
     ELSE UNCHANGED <<imgFree, imgData, imgQueue, page, owner, tempQ>>
  /\ UNCHANGED <<resQueues, allocated, mgrVars, resOwner, solution, filling, streaming, modeVars,
                 linkUp, cmdVars, showVars, infVars, sendVars, histVars>>

-----------------------------------------------------------------------------
(* The USB link and its command thread.                                    *)

(* usb_user_link_status_callback: the flag lets the command thread begin.  *)
LinkConfigured ==
  /\ ~linkUp
  /\ linkUp' = TRUE
  /\ cmdPc' = IF cmdPc = "link" THEN "receive" ELSE cmdPc
  /\ UNCHANGED <<queueVars, solution, camVars, imgQueue, modeVars, cmdCams, cmdBufs, showVars,
                 infVars, sendVars, histVars>>

(* A transfer that goes on ends with an error; the result thread ignores   *)
(* the error.                                                              *)
Unplug ==
  /\ linkUp /\ mishaps < MaxUpset
  /\ linkUp' = FALSE
  /\ mishaps' = mishaps + 1
  /\ showPc' = IF showPc = "sending" THEN "cut" ELSE showPc
  /\ resPc' = IF resPc = "sending" THEN "put" ELSE resPc
  /\ UNCHANGED <<queueVars, solution, camVars, imgQueue, modeVars, cmdVars, shown, infVars,
                 resSend, frames, content, images, outcomes, restarted>>

(* JID_START_HICO_MIPI with the selected sensors, JID_START_HICO_TOF.      *)
Start ==
  /\ cmdPc = "receive" /\ linkUp /\ mishaps < MaxUpset
  /\ mishaps' = mishaps + 1
  /\ liveView' \in BOOLEAN
  /\ \E selected \in SUBSET Cams \ {{}} : cmdCams' = selected
  /\ cmdPc' = "camera"
  /\ UNCHANGED <<queueVars, solution, camVars, imgQueue, camDone, linkUp, cmdBufs, showVars,
                 infVars, sendVars, frames, content, images, outcomes, restarted>>

(* camera_start: the sensor is opened and set up, or this fails.           *)
CameraOpens ==
  /\ cmdPc = "camera" /\ cmdCams # {}
  /\ \/ /\ cmdPc' = "buffers"
        /\ restarted' = (restarted \/ streaming[FirstOf(cmdCams)])
        /\ UNCHANGED cmdCams
     \/ cmdCams' = cmdCams \ {FirstOf(cmdCams)} /\ UNCHANGED <<cmdPc, restarted>>
  /\ UNCHANGED <<queueVars, solution, camVars, imgQueue, modeVars, linkUp, cmdBufs, showVars,
                 infVars, sendVars, frames, content, images, outcomes, mishaps>>

(* It waits for two free buffers, without grabbing.                        *)
CameraTakes ==
  /\ cmdPc = "buffers" /\ Len(cmdBufs) < Cardinality(Pages)
  /\ \E b \in ImgBufs :
       /\ TakeFree(FALSE, <<b>>)
       /\ cmdBufs' = Append(cmdBufs, b)
       /\ MoveImg({b}, "img")
  /\ UNCHANGED <<tempQ, resQueues, allocated, mgrVars, resOwner, solution, camVars, imgQueue,
                 modeVars, linkUp, cmdPc, cmdCams, showVars, infVars, sendVars, histVars>>

(* kmdw_camera_buffer_init and kmdw_camera_start: what the pages held      *)
(* before is forgotten.                                                    *)
CameraStarts ==
  /\ cmdPc = "buffers" /\ Len(cmdBufs) = Cardinality(Pages)
  /\ LET c == FirstOf(cmdCams) IN
       /\ page' = [page EXCEPT ![c] = [p \in Pages |-> cmdBufs[p + 1]]]
       /\ MoveImg({page[c][p] : p \in Pages}, "lost")
       /\ streaming' = [streaming EXCEPT ![c] = TRUE]
       /\ cmdCams' = cmdCams \ {c}
  /\ cmdBufs' = <<>>
  /\ cmdPc' = "camera"
  /\ UNCHANGED <<imgQueues, resQueues, allocated, mgrVars, resOwner, solution, filling, frameDone,
                 overflow, skip, imgQueue, modeVars, linkUp, showVars, infVars, sendVars,
                 histVars>>

NobodySends == showPc # "sending" /\ resPc # "sending"

Respond ==
  /\ cmdPc = "camera" /\ cmdCams = {} /\ NobodySends
  /\ camDone' = TRUE
  /\ cmdPc' = "receive"
  /\ UNCHANGED <<queueVars, solution, camVars, imgQueue, liveView, linkUp, cmdCams, cmdBufs,
                 showVars, infVars, sendVars, histVars>>

CmdThread == CameraOpens \/ CameraTakes \/ CameraStarts \/ Respond

-----------------------------------------------------------------------------
(* kdp2_hico_mipi_usb_img_send_back_thread.                                *)
restOfShow == <<solution, camVars, modeVars, linkUp, cmdVars, infVars, sendVars>>

ShowGet ==
  /\ showPc = "get" /\ imgQueue # <<>>
  /\ shown' = Head(imgQueue)
  /\ imgQueue' = Tail(imgQueue)
  /\ showPc' = "got"
  /\ UNCHANGED <<queueVars, restOfShow, histVars>>

ShowBegin ==
  /\ showPc = "got"
  /\ \/ ~camDone /\ showPc' = "sent"
     \/ camDone /\ NobodySends /\ showPc' = IF linkUp THEN "sending" ELSE "cut"
  /\ UNCHANGED <<queueVars, imgQueue, shown, restOfShow, histVars>>

ShowSent ==
  /\ showPc = "sending"
  /\ showPc' = "sent"
  /\ images' = Append(images, content[shown.buf])
  /\ UNCHANGED <<queueVars, imgQueue, shown, restOfShow, frames, content, outcomes, mishaps,
                 restarted>>

(* After a failed transfer the thread returns, with its buffer.            *)
ShowReturns ==
  /\ showPc = "cut"
  /\ showPc' = "gone"
  /\ MoveImg({shown.buf}, "lost")
  /\ shown' = NoImage
  /\ UNCHANGED <<imgQueues, resQueues, allocated, mgrVars, resOwner, imgQueue, restOfShow, histVars>>

ShowReleases ==
  /\ showPc = "sent"
  /\ IF liveView
     THEN image_put_free_buffer(shown.buf) /\ UNCHANGED tempQ
     ELSE image_enqueue(1, 0, shown.buf) /\ UNCHANGED imgFree
  /\ shown' = NoImage
  /\ showPc' = "get"
  /\ UNCHANGED <<imgData, resQueues, allocated, mgrVars, resOwner, imgQueue, restOfShow, histVars>>

ShowThread == ShowGet \/ ShowBegin \/ ShowSent \/ ShowReturns \/ ShowReleases

-----------------------------------------------------------------------------
(* The dispatcher with kdp2_app_yolo_inference or kdp2_app_tof_inference.  *)
restOfInf == <<solution, camVars, imgQueue, modeVars, linkUp, cmdVars, showVars, sendVars>>

InfGet ==
  /\ infPc = "get"
  /\ image_dequeue
  /\ obj' = Head(imgData)
  /\ infPc' = "result"
  /\ UNCHANGED <<imgFree, tempQ, resQueues, allocated, mgrVars, resOwner, resBuf, restOfInf, histVars>>

(* A result buffer for the job, or for the status that replaces it.        *)
InfResult ==
  /\ infPc \in {"result", "status"}
  /\ result_get_free_buffer
  /\ resBuf' = Head(resFree)
  /\ infPc' = IF infPc = "result" THEN "run" ELSE "report"
  /\ UNCHANGED <<imgQueues, resData, allocated, mgrVars, owner, obj, restOfInf, histVars>>

(* The result, or the error of a YOLO run, is enqueued.                    *)
InfAnswers ==
  /\ infPc \in {"run", "report"}
  /\ result_enqueue(resBuf)
  /\ outcomes' = Append(outcomes, content[obj[1]])
  /\ resBuf' = NULL
  /\ infPc' = "put"
  /\ UNCHANGED <<imgQueues, resFree, allocated, mgrVars, owner, obj, restOfInf, frames, content,
                 images, mishaps, restarted>>

(* The ToF job returns without its result buffer: its raw image is not     *)
(* decoded, and a status goes out in another buffer; or its run fails.     *)
InfFails ==
  /\ solution = "tof" /\ infPc = "run"
  /\ MoveRes(resBuf, "lost")
  /\ resBuf' = NULL
  /\ \/ infPc' = "status"
     \/ ~liveView /\ infPc' = "put"
  /\ UNCHANGED <<imgQueues, resQueues, allocated, mgrVars, owner, obj, restOfInf, histVars>>

InfPut ==
  /\ infPc = "put"
  /\ image_put_free_buffer(obj[1])
  /\ obj' = <<>>
  /\ infPc' = "get"
  /\ UNCHANGED <<imgData, tempQ, resQueues, allocated, mgrVars, resOwner, resBuf, restOfInf, histVars>>

InfThread == InfGet \/ InfResult \/ InfAnswers \/ InfFails \/ InfPut

-----------------------------------------------------------------------------
(* kdp2_hico_mipi_usb_result_thread, kdp2_hico_tof_usb_result_thread.      *)
restOfRes == <<solution, camVars, imgQueue, modeVars, linkUp, cmdVars, showVars, infVars>>

ResGet ==
  /\ resPc = "get"
  /\ result_dequeue
  /\ resSend' = Head(resData)
  /\ resPc' = "got"
  /\ UNCHANGED <<imgQueues, resFree, allocated, mgrVars, owner, restOfRes, histVars>>

\* mutant: it returns after a failed transfer, as the image thread does.
ResBegin_returns ==
  /\ resPc = "got" /\ NobodySends
  /\ resPc' = IF linkUp THEN "sending" ELSE "gone"
  /\ UNCHANGED <<queueVars, resSend, restOfRes, histVars>>

ResBegin ==
  /\ resPc = "got" /\ NobodySends
  /\ resPc' = IF linkUp THEN "sending" ELSE "put"
  /\ UNCHANGED <<queueVars, resSend, restOfRes, histVars>>

ResSent ==
  /\ resPc = "sending"
  /\ resPc' = "put"
  /\ UNCHANGED <<queueVars, resSend, restOfRes, histVars>>

ResPut ==
  /\ resPc = "put"
  /\ result_put_free_buffer(resSend)
  /\ resSend' = NULL
  /\ resPc' = "get"
  /\ UNCHANGED <<imgQueues, resData, allocated, mgrVars, owner, restOfRes, histVars>>

ResThread == ResGet \/ ResBegin \/ ResSent \/ ResPut

-----------------------------------------------------------------------------
BufMgr == MgrNext /\ UNCHANGED <<solution, camVars, imgQueue, modeVars, linkUp, cmdVars, showVars,
                                infVars, sendVars, histVars>>
CamIsr == \E c \in Cameras : kdrv_dpi2ahb_irqhandler(c)

HicoWork == CamIsr \/ CmdThread \/ ShowThread \/ BufMgr \/ InfThread \/ ResThread

HicoNext ==
  \/ \E c \in Cameras : FrameEnds(c) \/ Overflows(c)
  \/ LinkConfigured \/ Unplug \/ Start
  \/ HicoWork

HicoSpec == HicoInit /\ [][HicoNext]_hicoVars

-----------------------------------------------------------------------------
(* Where the image buffers are, and how many places have one.  An object   *)
(* has one buffer.                                                         *)
First(s) == {s[k][1] : k \in DOMAIN s}
Taken    == {cp \in Cameras \X Pages : page[cp[1]][cp[2]] # NULL}
Held ==
  First(imgFree) \cup First(imgData) \cup {tempQ[k].buf : k \in DOMAIN tempQ}
  \cup {stored[i] : i \in 0 .. numReceived - 1} \cup {imgQueue[k].buf : k \in DOMAIN imgQueue}
  \cup {page[cp[1]][cp[2]] : cp \in Taken} \cup BufsOf(cmdBufs) \cup BufsOf(obj)
  \cup ({shown.buf} \ {NULL})
NumPlaces ==
  Len(imgFree) + Len(imgData) + Len(tempQ) + numReceived + Len(imgQueue) + Cardinality(Taken)
  + Len(cmdBufs) + Len(obj) + IF shown = NoImage THEN 0 ELSE 1

(* Every image buffer is in exactly one place, whatever the interrupt      *)
(* grabs while threads pass buffers on: no camera writes to an image that  *)
(* waits, is shown or inferred.  Lost are only the buffers of a thread     *)
(* that returned, and those of a camera that is started a second time.     *)
CameraBuffersApart ==
  /\ Held = {b \in ImgBufs : owner[b] # "lost"}
  /\ NumPlaces = Cardinality(Held)

(* The host gets the images of a camera, and their results, in the order   *)
(* of the frames and each at most once, however many are dropped in        *)
(* between, unless a running camera was started again: then the pages hold *)
(* old images, and the interrupt hands them on.                            *)
Rising(s) == \A i, k \in DOMAIN s :
               i < k /\ s[i].cam = s[k].cam => s[i].number < s[k].number
FramesInOrder == restarted \/ (Rising(images) /\ Rising(outcomes))

(* What the steps of HicoWork need: the guards of its actions, one line    *)
(* for each place where a thread may stand.                                *)
CanWork ==
  \/ \E c \in Cameras : streaming[c] /\ (frameDone[c] # NoPage \/ overflow[c])
  \/ cmdPc = "camera" /\ (cmdCams # {} \/ NobodySends)
  \/ cmdPc = "buffers" /\ (Len(cmdBufs) = Cardinality(Pages) \/ imgFree # <<>>)
  \/ showPc = "get" /\ imgQueue # <<>>
  \/ showPc = "got" /\ (camDone => NobodySends)
  \/ showPc \in {"sending", "cut"}
  \/ showPc = "sent" /\ IF liveView THEN Len(imgFree) < ImgCap ELSE Len(tempQ) < ImgCap
  \/ mgrPc = "get" /\ tempQ # <<>>
  \/ mgrPc = "putback" /\ Len(imgFree) < ImgCap
  \/ mgrPc = "enqueue" /\ Len(imgData) < ImgCap
  \/ infPc = "get" /\ imgData # <<>>
  \/ infPc \in {"result", "status"} /\ resFree # <<>>
  \/ infPc \in {"run", "report"}
  \/ infPc = "put" /\ Len(imgFree) < ImgCap
  \/ resPc = "get" /\ resData # <<>>
  \/ resPc = "got" /\ NobodySends
  \/ resPc = "sending"
  \/ resPc = "put" /\ Len(resFree) < ResCap

(* When no thread and no interrupt has anything to do, every buffer is     *)
(* back in the free queue or in a page, unless a buffer was lost, a        *)
(* running camera is started again (the command thread then waits for      *)
(* buffers that never come) or the ToF job lost all result buffers: no     *)
(* thread waits for ever for what another one holds.                       *)
Settled(b) == owner[b] = "free" \/ \E cp \in Taken : page[cp[1]][cp[2]] = b
Starved ==
  \/ restarted
  \/ \E b \in ImgBufs : owner[b] = "lost"
  \/ \A r \in ResBufs : resOwner[r] = "lost"
BuffersReturn == CanWork \/ Starved \/ \A b \in ImgBufs : Settled(b)

=============================================================================
