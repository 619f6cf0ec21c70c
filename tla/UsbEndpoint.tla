---------------------------- MODULE UsbEndpoint -----------------------------
(***************************************************************************)
(* One bulk endpoint of drv/kdrv_usbd3.c, statement by statement: a thread *)
(* in _endpoint_receive or _endpoint_send against the interrupt handler,   *)
(* kdrv_usbd3_reset_endpoint and the re-initialisation of the driver by    *)
(* the errand thread.  None of them takes a lock: the thread tests the     *)
(* status and then writes it, and all the others write it as well.         *)
(*                                                                         *)
(* UsbCompanion has the test, the marking, the arming and the end of each  *)
(* call; here are the steps of that end as well, for one call after the    *)
(* other (the HAL's mutex lets one in at a time).                          *)
(*                                                                         *)
(* Simplifications: a buffer is the number of its call; the DMA's end and  *)
(* its interrupt are one step; kdrv_usbd3_reset_endpoint is one step; a    *)
(* transfer longer than PRD_MAX_BUF_SIZE is not split.                     *)
(***************************************************************************)
EXTENDS Naturals

CONSTANTS
  MaxCalls,  (* bound: transfers                                           *)
  MaxLink,   (* bound: disconnections                                      *)
  MaxReset   (* bound: resets of the endpoint with the link up             *)

ASSUME EndpointAssumption == {MaxCalls, MaxLink, MaxReset} \subseteq Nat

VARIABLES
  dir,        \* the direction of the endpoint: "out" receives, "in" sends
  status,     \* ep_ctrl[epno].status
  event,      \* the endpoint's bit in usbd_ctrl.evtFlag
  armed,      \* H_hw_own and PAR: the call whose buffer the DMA uses, or 0
  fifo,       \* IN: the call whose data the host did not read yet, or 0
  fifoInt,    \* the FIFO interrupt is enabled
  configured, \* usbd_ctrl.link_status is CONFIGURED
  device,     \* usbd_hal_reset_device: "up", "asked" for, or in the middle of it, "down"
  at,         \* where the call stands; "stuck" is the loop in line 2218
  round,      \* the wait of a send: for the DMA, or for the FIFO
  limited,    \* the wait has a timeout
  waited,     \* what the wait returned
  call,       \* the number of the last call
  answer      \* what it returned

VARIABLES
  moved,      \* history: the last call whose data was moved completely
  drops,      \* history: disconnections, and
  resets,     \* resets with the link up
  odd         \* history: what came between two statements of a call

epVars == <<dir, status, event, armed, fifo, fifoInt, configured, device, at, round, limited,
            waited, call, answer, moved, drops, resets, odd>>

hardware == <<armed, fifo, fifoInt, moved>>
linkVars == <<dir, configured, device, drops, resets>>
waitVars == <<round, limited, waited>>
threadVars == <<at, waitVars, call, answer>>

Statuses == {"none", "idle", "busy", "done", "term"}
Places   == {"out", "test", "mark", "arm", "wait", "woken", "remark", "enable", "halt",
             "settle", "finish", "stuck"}
Answers  == {"none", "ok", "error", "in_progress", "timeout", "terminated"}

EpInit ==
  /\ dir \in {"in", "out"}
  /\ status = "none" /\ event = FALSE
  /\ armed = 0 /\ fifo = 0 /\ fifoInt = FALSE
  /\ configured = FALSE /\ device = "up"
  /\ at = "out" /\ round = 1 /\ limited = FALSE /\ waited = "none"
  /\ call = 0 /\ answer = "none"
  /\ moved = 0 /\ drops = 0 /\ resets = 0 /\ odd = {}

Available == IF configured THEN "idle" ELSE "none"

-----------------------------------------------------------------------------
(* The thread.                                                             *)

Goes(from, to) == at = from /\ at' = to
Ends(r)      == at' = "out" /\ answer' = r

(* With or without a timeout.  An interrupt that is due comes first.       *)
BeginCall ==
  /\ ~(fifoInt /\ fifo = 0)
  /\ Goes("out", "test")
  /\ call < MaxCalls /\ call' = call + 1
  /\ limited' \in BOOLEAN
  /\ round' = 1 /\ waited' = "none" /\ answer' = "none"
  /\ UNCHANGED <<hardware, linkVars, status, event, odd>>

Test ==
  /\ at = "test"
  /\ \/ status = "idle" /\ at' = "mark" /\ UNCHANGED answer
     \/ status = "busy" /\ Ends("in_progress")
     \/ status \notin {"idle", "busy"} /\ Ends("error")
  /\ UNCHANGED <<hardware, linkVars, waitVars, status, event, call, odd>>

Mark ==
  /\ Goes("mark", "arm")
  /\ status' = "busy"
  /\ odd' = IF configured /\ device # "down" THEN odd ELSE odd \cup {"unplugged"}
  /\ UNCHANGED <<hardware, linkVars, waitVars, event, call, answer>>

(* While the driver is initialised the controller is held in reset, and    *)
(* registers that are written keep nothing.                                *)
Arm ==
  /\ Goes("arm", "wait")
  /\ armed' = IF device = "down" THEN armed ELSE call
  /\ UNCHANGED <<linkVars, waitVars, status, event, call, answer, fifo, fifoInt, moved, odd>>

(* osEventFlagsWait returns the flag, a timeout, or an error because the   *)
(* flags are deleted.                                                      *)
Wake ==
  /\ at = "wait"
  /\ \/ device = "down" /\ waited' = "error" /\ UNCHANGED event
     \/ device # "down" /\ event /\ waited' = "set" /\ event' = FALSE
     \/ device # "down" /\ ~event /\ limited /\ waited' = "timeout" /\ UNCHANGED event
  /\ at' = IF round = 2 /\ waited' = "timeout" THEN "stuck" ELSE "woken"
  /\ UNCHANGED <<hardware, linkVars, round, limited, status, call, answer, odd>>

(* What a finished wait leads to.  A send looks at the FIFO after the DMA; *)
(* one that finds neither the end of the transfer nor its termination      *)
(* waits once more, a receive returns.                                     *)
\* mutant: the wait is over, whatever the interrupt handler wrote
CompletedOnEvent == waited # "timeout"

Completed == waited # "timeout" /\ status = "done"

\* mutant: the loop of a send, in a receive
WaitsTwiceAlways == round = 1

WaitsTwice == dir = "in" /\ round = 1

AfterWake ==
  /\ at = "woken"
  /\ \/ /\ Completed
        /\ at' = IF WaitsTwice /\ fifo # 0 THEN "remark" ELSE "finish"
        /\ UNCHANGED <<round, answer>>
     \/ /\ waited = "timeout"
        /\ at' = "halt" /\ UNCHANGED <<round, answer>>
     \/ /\ ~Completed /\ waited # "timeout" /\ status = "term"
        /\ at' = "settle" /\ UNCHANGED <<round, answer>>
     \/ /\ ~Completed /\ waited # "timeout" /\ status # "term"
        /\ IF WaitsTwice
           THEN at' = "wait" /\ round' = 2 /\ UNCHANGED answer
           ELSE Ends("error") /\ UNCHANGED round
  /\ UNCHANGED <<hardware, linkVars, limited, waited, status, event, call, odd>>

(* Wait for the FIFO: at most three seconds.                               *)
Remark ==
  /\ Goes("remark", "enable")
  /\ status' = "busy"
  /\ UNCHANGED <<hardware, linkVars, waitVars, event, call, answer, odd>>

Enable ==
  /\ Goes("enable", "wait")
  /\ fifoInt' = (device # "down")
  /\ limited' = TRUE /\ round' = 2
  /\ UNCHANGED <<linkVars, waited, status, event, call, answer, armed, fifo, moved, odd>>

\* mutant: a timeout that does not stop the DMA
HaltNothing ==
  /\ Goes("halt", "settle")
  /\ UNCHANGED <<hardware, linkVars, waitVars, status, event, call, answer, odd>>

(* _halt_dma_work after a timeout.                                         *)
Halt ==
  /\ Goes("halt", "settle")
  /\ armed' = 0 /\ fifo' = 0
  /\ UNCHANGED <<linkVars, waitVars, status, event, call, answer, fifoInt, moved, odd>>

\* mutant: the status of a call that failed stays
SettleNothing ==
  /\ at = "settle"
  /\ Ends(IF waited = "timeout" THEN "timeout" ELSE "terminated")
  /\ UNCHANGED <<hardware, linkVars, waitVars, status, event, call, odd>>

(* After a timeout or a termination.                                       *)
Settle ==
  /\ at = "settle"
  /\ status' = Available
  /\ Ends(IF waited = "timeout" THEN "timeout" ELSE "terminated")
  /\ UNCHANGED <<hardware, linkVars, waitVars, event, call, odd>>

Finish ==
  /\ at = "finish"
  /\ status' = "idle"
  /\ Ends("ok")
  /\ UNCHANGED <<hardware, linkVars, waitVars, event, call, odd>>

-----------------------------------------------------------------------------
(* The hardware and the interrupt handler.                                 *)

(* Somebody else writes the status while the call is not in its wait: once *)
(* it has marked the endpoint, when it has woken up, or with the transfer  *)
(* done.  A wait on deleted event flags is over as well.                   *)
Window ==
  [arming |-> at \in {"mark", "arm"},
   woken  |-> at \in {"woken", "halt", "settle"} \/ (at = "wait" /\ device = "down"),
   ending |-> at \in {"remark", "enable", "finish"} \/ (at = "wait" /\ status = "done")]

Between == odd' = odd \cup {w \in DOMAIN Window : Window[w]}

(* PRD_INT or FIFO_INT.                                                    *)
usbd3_isr ==
  IF status = "busy"
  THEN status' = "done" /\ event' = TRUE /\ Between
  ELSE UNCHANGED <<status, event, odd>>

(* The DMA fills the buffer with what the host sends, or has moved the     *)
(* buffer to the FIFO.                                                     *)
DmaDone ==
  /\ armed # 0 /\ device # "down"
  /\ \/ dir = "out" /\ configured /\ moved' = armed /\ UNCHANGED fifo
     \/ dir = "in" /\ fifo' = armed /\ UNCHANGED moved
  /\ armed' = 0
  /\ usbd3_isr
  /\ UNCHANGED <<threadVars, linkVars, fifoInt>>

HostReads ==
  /\ fifo # 0 /\ configured /\ device # "down"
  /\ moved' = fifo /\ fifo' = 0
  /\ UNCHANGED <<threadVars, linkVars, status, event, armed, fifoInt, odd>>

FifoEmpty ==
  /\ fifoInt /\ fifo = 0 /\ device # "down"
  /\ fifoInt' = FALSE
  /\ usbd3_isr
  /\ UNCHANGED <<threadVars, linkVars, armed, fifo, moved>>

(* Stops the DMA and clears the FIFO; a transfer that runs is terminated.  *)
AfterReset(linked) == IF status = "busy" THEN "term" ELSE IF linked THEN "idle" ELSE "none"

kdrv_usbd3_reset_endpoint ==
  /\ armed' = 0 /\ fifo' = 0
  /\ event' = (event \/ status = "busy")
  /\ Between

(* FIFOQ_RESET, or the image thread's answer to it.                        *)
ResetEndpoint ==
  /\ configured /\ device # "down"
  /\ resets < MaxReset /\ resets' = resets + 1
  /\ status' = AfterReset(TRUE)
  /\ kdrv_usbd3_reset_endpoint
  /\ UNCHANGED <<threadVars, dir, configured, device, drops, fifoInt, moved>>

\* mutant: no errand is asked for
DisconnectOnly ==
  /\ configured /\ device # "down"
  /\ drops < MaxLink /\ drops' = drops + 1
  /\ configured' = FALSE
  /\ status' \in {AfterReset(FALSE), "none"}
  /\ kdrv_usbd3_reset_endpoint
  /\ UNCHANGED <<threadVars, dir, device, resets, fifoInt, moved>>

(* A bus reset marks the link, and the link callback resets the endpoints  *)
(* and asks for the errand.  When VBUS is off the endpoints are reset      *)
(* before that as well: what the first reset terminates the second makes   *)
(* unavailable, and the call finds neither.                                *)
Disconnect ==
  /\ configured /\ device # "down"
  /\ drops < MaxLink /\ drops' = drops + 1
  /\ configured' = FALSE /\ device' = "asked"
  /\ status' \in {AfterReset(FALSE), "none"}
  /\ kdrv_usbd3_reset_endpoint
  /\ UNCHANGED <<threadVars, dir, resets, fifoInt, moved>>

SetConfiguration ==
  /\ ~configured /\ device # "down"
  /\ configured' = TRUE
  /\ status' = "idle"
  /\ armed' = 0 /\ fifoInt' = FALSE
  /\ Between
  /\ UNCHANGED <<threadVars, dir, device, drops, resets, event, fifo, moved>>

(* kdrv_usbd3_reset_device deletes the event flags, which wakes whoever    *)
(* waits for them, resets the controller ...                               *)
ErrandBegins ==
  /\ device = "asked" /\ device' = "down"
  /\ event' = FALSE
  /\ armed' = 0 /\ fifo' = 0 /\ fifoInt' = FALSE
  /\ IF at = "wait" THEN at' = "woken" /\ waited' = "error" ELSE UNCHANGED <<at, waited>>
  /\ Between
  /\ UNCHANGED <<dir, configured, drops, resets, round, limited, call, answer, status, moved>>

(* ... and makes new ones.  The status of the endpoint is left as it is.   *)
ErrandEnds ==
  /\ device = "down" /\ device' = "up"
  /\ configured' = FALSE
  /\ Between
  /\ UNCHANGED <<threadVars, hardware, dir, drops, resets, status, event>>

-----------------------------------------------------------------------------
EpThread == Test \/ Mark \/ Arm \/ Wake \/ AfterWake \/ Remark \/ Enable \/ Halt \/ Settle
            \/ Finish
EpErrand == ErrandBegins \/ ErrandEnds
EpNext   == BeginCall \/ EpThread \/ EpErrand \/ DmaDone \/ HostReads \/ FifoEmpty
            \/ ResetEndpoint \/ Disconnect \/ SetConfiguration

EpSpec   == EpInit /\ [][EpNext]_epVars

-----------------------------------------------------------------------------
(* Properties.                                                             *)

DriverTypeOK ==
  /\ dir \in {"in", "out"} /\ status \in Statuses /\ event \in BOOLEAN
  /\ armed \in Nat /\ fifo \in Nat /\ moved \in Nat
  /\ fifoInt \in BOOLEAN /\ configured \in BOOLEAN
  /\ device \in {"up", "asked", "down"}
  /\ drops \in Nat /\ resets \in Nat

CallTypeOK ==
  /\ at \in Places /\ round \in {1, 2} /\ limited \in BOOLEAN
  /\ waited \in {"none", "set", "timeout", "error"}
  /\ call \in Nat /\ answer \in Answers

Windows == {"unplugged", "arming", "woken", "ending"}

(* The values the endpoint and its call take: only a send waits twice, and *)
(* for the FIFO.                                                           *)
EpTypeOK ==
  /\ DriverTypeOK /\ CallTypeOK
  /\ round = 2 \/ fifoInt \/ at \in {"remark", "enable"} => dir = "in"
  /\ odd \subseteq Windows

(* The statements the code leaves open to others, and what they break.     *)
Spared(windows) == odd \cap windows = {}

InCall == at \notin {"out", "test", "mark"}

(* The DMA uses a buffer only while the call that lent it goes on,         *)
(* whatever resets, disconnections and errands come while it waits.  Not   *)
(* so when somebody resets the endpoint between the status and the         *)
(* registers (the call is told that it was terminated, and the DMA         *)
(* starts), or when the interrupt comes after a timeout: its event ends    *)
(* the next call at once.                                                  *)
DmaInCall == Spared({"arming", "woken"}) /\ armed # 0 => InCall /\ armed = call

(* A call that succeeds has moved its data: no event of an earlier call,   *)
(* no reset and no disconnection makes it succeed.  Each of the three      *)
(* windows does: the late interrupt and the DMA that nobody stopped belong *)
(* to the call before, and a send reset after its DMA finds the FIFO empty *)
(* and takes that for the end.                                             *)
OkIsMoved == Spared({"arming", "woken", "ending"}) /\ answer = "ok" => moved = call

(* The endpoint of a device that is up and configured is idle between two  *)
(* calls, however the last one ended.  Not so after a late interrupt: the  *)
(* call that its event ends leaves the endpoint busy.                      *)
Usable ==
  Spared({"woken"}) /\ at = "out" /\ configured /\ device = "up" => status = "idle"

(* No wake-up is lost: a call that waits, with or without a timeout, while *)
(* the link is down has its event, or the errand that ends it is to come.  *)
(* Not so for a call that somebody interfered with between two statements, *)
(* or that began on an endpoint left idle with the link down.              *)
WokenByDrop ==
  odd = {} /\ at = "wait" /\ ~configured => event \/ device # "up"
=============================================================================
