------------------------ MODULE UsbEndpointProofs --------------------------
(***************************************************************************)
(* Proofs about UsbEndpoint for any number of calls, disconnections and    *)
(* resets: its types, Usable, DmaInCall, OkIsMoved and WokenByDrop.        *)
(*                                                                         *)
(* Usable rests on EventInv: an event belongs to a transfer that is no     *)
(* longer busy, so no wait ends on a busy endpoint, except while the       *)
(* driver is started again.  DmaInCall rests on DmaInv as well: the DMA    *)
(* runs only while its endpoint is busy, and a FIFO interrupt that an      *)
(* earlier send left enabled is taken before the next send begins.         *)
(* OkIsMoved follows a call's data from the DMA to the FIFO to the host    *)
(* (OrderInv, MovedInv): done means moved, but for a send that still has   *)
(* to look at the FIFO.  WokenByDrop rests on DropInv: the link a call     *)
(* waits on is up, or the errand that wakes it was asked for.              *)
(***************************************************************************)
EXTENDS UsbEndpoint, TLAPS

(* Nothing came between a wake-up and what the thread does then; nor       *)
(* between the status and the registers.                                   *)
Calm   == Spared({"woken"})
Calmer == Spared({"arming", "woken"})

(* The link and the registers of a driver that is started again, whatever  *)
(* came between two statements.                                            *)
ResetInv ==
  /\ status = "none" => ~configured
  /\ device = "down" => armed = 0 /\ ~fifoInt /\ ~event
  /\ at = "woken" => waited # "none"

(* An event belongs to a transfer that is no longer busy.                  *)
EventInv ==
  Calm =>
    /\ event => status # "busy" /\ at \in {"arm", "wait", "enable", "stuck"}
    /\ at \in {"mark", "remark", "finish"} => status # "busy"
    /\ at = "woken" /\ waited = "set" => status # "busy"
    /\ at = "woken" /\ waited = "error" => device = "down"
    /\ at \in {"out", "test"} =>
         \/ status \in {"idle", "none"}
         \/ status = "busy" /\ armed = 0 /\ ~fifoInt /\ (device = "down" \/ ~configured)

(* The DMA runs while its endpoint is busy; the FIFO interrupt is enabled  *)
(* from the second wait of a send on.                                      *)
DmaInv ==
  Calmer =>
    /\ at = "arm" => status = "busy"
    /\ armed # 0 => /\ status = "busy" /\ armed = call
                    /\ at \in {"wait", "woken", "halt", "stuck"}
    /\ fifoInt => /\ armed = 0 /\ round = 2
                  /\ at \in {"out", "wait", "woken", "settle", "finish", "stuck"}
    /\ fifoInt /\ fifo # 0 => at \in {"wait", "stuck"} /\ ~event
    /\ at = "enable" /\ event => fifo = 0
    /\ at = "woken" /\ waited = "timeout" => round = 1

(* Nothing came between two statements of a call whose transfer ends,      *)
(* either.                                                                 *)
Quiet == Spared({"arming", "woken", "ending"})

(* A call's data goes from the DMA to the FIFO to the host, once.          *)
OrderInv ==
  /\ armed <= call /\ fifo <= call /\ moved <= call
  /\ at \in {"test", "mark", "arm"} => armed < call /\ fifo < call /\ moved < call
  /\ fifo # 0 => dir = "in"
  /\ fifo = call => armed = 0
  /\ moved = call => armed = 0 /\ fifo = 0

(* The data of the call is with the host, or in the FIFO.                  *)
Left == moved = call \/ (fifo = call /\ fifo # 0)

(* Done means moved, but for a send that still has to look at the FIFO.    *)
MovedInv ==
  Quiet =>
    /\ armed # 0 \/ at \in {"test", "mark", "arm"} => round = 1
    /\ status = "done" /\ at \in {"wait", "woken"} =>
         IF WaitsTwice THEN Left ELSE moved = call
    /\ at \in {"remark", "enable"} => Left
    /\ at = "enable" => status = "busy"
    /\ at = "wait" /\ round = 2 /\ status = "busy" => Left \/ device = "down"
    /\ at = "finish" \/ answer = "ok" => moved = call

(* A call that nobody interfered with waits on a link that is up, or has   *)
(* the errand to come.                                                     *)
DropInv ==
  odd = {} /\ at \in {"arm", "wait", "woken", "remark", "enable"} =>
    configured \/ device # "up"

EpInv == EpTypeOK /\ ResetInv /\ EventInv /\ DmaInv
EpFlowInv == OrderInv /\ MovedInv /\ DropInv
-----------------------------------------------------------------------------
(* What a step of somebody else leaves of the two assumptions.             *)
LEMMA CalmerIsCalm == Calmer => Calm
BY DEF Calm, Calmer, Spared

LEMMA Unmarked == ASSUME UNCHANGED odd PROVE (Calm' <=> Calm) /\ (Calmer' <=> Calmer)
BY DEF Calm, Calmer, Spared

LEMMA Marked ==
  ASSUME odd \subseteq Windows, Between
  PROVE  /\ odd' \subseteq Windows
         /\ Calm' => /\ Calm /\ at \notin {"woken", "halt", "settle"}
                     /\ ~(at = "wait" /\ device = "down")
         /\ Calmer' => Calmer /\ at \notin {"mark", "arm"}
<1>1. DOMAIN Window = {"arming", "woken", "ending"}
  BY DEF Window
<1>2. /\ Window["woken"] <=>
           at \in {"woken", "halt", "settle"} \/ (at = "wait" /\ device = "down")
      /\ Window["arming"] <=> at \in {"mark", "arm"}
  BY DEF Window
<1>3. odd' = odd \cup {w \in {"arming", "woken", "ending"} : Window[w]}
  BY <1>1 DEF Between
<1>4. Calm' => Calm /\ ~Window["woken"]
  BY <1>3 DEF Calm, Spared
<1>5. Calmer' => Calmer /\ ~Window["arming"]
  BY <1>3 DEF Calmer, Spared
<1> QED BY <1>2, <1>3, <1>4, <1>5 DEF Windows

(* The types.                                                              *)
LEMMA EpTypes == EpTypeOK /\ [EpNext]_epVars => EpTypeOK'
<1> SUFFICES ASSUME EpTypeOK, [EpNext]_epVars PROVE EpTypeOK'
  OBVIOUS
<1>0. Between => odd' \subseteq Windows
  BY Marked DEF EpTypeOK
<1> USE DEF hardware, linkVars, waitVars, threadVars, Statuses, Places, Answers, Goes, Ends,
            Available, AfterReset
<1>1. CASE BeginCall
  BY <1>1 DEF EpTypeOK, DriverTypeOK, CallTypeOK, BeginCall
<1>2. CASE Test
  BY <1>2 DEF EpTypeOK, DriverTypeOK, CallTypeOK, Test
<1>3. CASE Mark
  BY <1>3 DEF EpTypeOK, DriverTypeOK, CallTypeOK, Windows, Mark
<1>4. CASE Arm
  BY <1>4 DEF EpTypeOK, DriverTypeOK, CallTypeOK, Arm
<1>5. CASE Wake
  <2>1. at' \in Places /\ waited' \in {"none", "set", "timeout", "error"} /\ event' \in BOOLEAN
    BY <1>5 DEF EpTypeOK, DriverTypeOK, Wake
  <2>2. UNCHANGED <<hardware, linkVars, round, limited, status, call, answer, odd>>
    BY <1>5 DEF Wake
  <2>3. at' \notin {"remark", "enable"}
    BY <1>5 DEF Wake
  <2> QED BY <2>1, <2>2, <2>3 DEF EpTypeOK, DriverTypeOK, CallTypeOK
<1>6. CASE AfterWake
  <2>1. DriverTypeOK' /\ odd' \subseteq Windows
    BY <1>6 DEF EpTypeOK, DriverTypeOK, AfterWake
  <2>2. CallTypeOK'
    BY <1>6 DEF EpTypeOK, CallTypeOK, AfterWake, Completed, WaitsTwice
  <2>3. (round = 2 \/ fifoInt \/ at \in {"remark", "enable"} => dir = "in")'
    BY <1>6 DEF EpTypeOK, CallTypeOK, AfterWake, Completed, WaitsTwice
  <2> QED BY <2>1, <2>2, <2>3 DEF EpTypeOK
<1>7. CASE Remark
  BY <1>7 DEF EpTypeOK, DriverTypeOK, CallTypeOK, Remark
<1>8. CASE Enable
  <2>1. DriverTypeOK' /\ odd' \subseteq Windows
    BY <1>8 DEF EpTypeOK, DriverTypeOK, Enable
  <2>2. CallTypeOK'
    BY <1>8 DEF EpTypeOK, CallTypeOK, Enable
  <2>3. (round = 2 \/ fifoInt \/ at \in {"remark", "enable"} => dir = "in")'
    BY <1>8 DEF EpTypeOK, CallTypeOK, Enable
  <2> QED BY <2>1, <2>2, <2>3 DEF EpTypeOK
<1>9. CASE Halt
  BY <1>9 DEF EpTypeOK, DriverTypeOK, CallTypeOK, Halt
<1>10. CASE Settle
  BY <1>10 DEF EpTypeOK, DriverTypeOK, CallTypeOK, Settle
<1>11. CASE Finish
  BY <1>11 DEF EpTypeOK, DriverTypeOK, CallTypeOK, Finish
<1>12. CASE DmaDone
  <2>1. DriverTypeOK'
    BY <1>12 DEF EpTypeOK, DriverTypeOK, CallTypeOK, DmaDone, usbd3_isr
  <2>2. CallTypeOK'
    BY <1>12 DEF EpTypeOK, CallTypeOK, DmaDone, usbd3_isr
  <2>3. (round = 2 \/ fifoInt \/ at \in {"remark", "enable"} => dir = "in")'
    BY <1>12 DEF EpTypeOK, CallTypeOK, DmaDone, usbd3_isr
  <2>4. odd' \subseteq Windows
    BY <1>0, <1>12 DEF EpTypeOK, Windows, DmaDone, usbd3_isr
  <2> QED BY <2>1, <2>2, <2>3, <2>4 DEF EpTypeOK
<1>13. CASE HostReads
  BY <1>13 DEF EpTypeOK, DriverTypeOK, CallTypeOK, HostReads
<1>14. CASE FifoEmpty
  <2>1. DriverTypeOK'
    BY <1>14 DEF EpTypeOK, DriverTypeOK, CallTypeOK, FifoEmpty, usbd3_isr
  <2>2. CallTypeOK'
    BY <1>14 DEF EpTypeOK, CallTypeOK, FifoEmpty, usbd3_isr
  <2>3. (round = 2 \/ fifoInt \/ at \in {"remark", "enable"} => dir = "in")'
    BY <1>14 DEF EpTypeOK, CallTypeOK, FifoEmpty, usbd3_isr
  <2>4. odd' \subseteq Windows
    BY <1>0, <1>14 DEF EpTypeOK, Windows, FifoEmpty, usbd3_isr
  <2> QED BY <2>1, <2>2, <2>3, <2>4 DEF EpTypeOK
<1>15. CASE ResetEndpoint
  <2>1. DriverTypeOK'
    BY <1>15 DEF EpTypeOK, DriverTypeOK, CallTypeOK, ResetEndpoint, kdrv_usbd3_reset_endpoint
  <2>2. CallTypeOK'
    BY <1>15 DEF EpTypeOK, CallTypeOK, ResetEndpoint, kdrv_usbd3_reset_endpoint
  <2>3. (round = 2 \/ fifoInt \/ at \in {"remark", "enable"} => dir = "in")'
    BY <1>15 DEF EpTypeOK, CallTypeOK, ResetEndpoint, kdrv_usbd3_reset_endpoint
  <2>4. odd' \subseteq Windows
    BY <1>0, <1>15 DEF EpTypeOK, Windows, ResetEndpoint, kdrv_usbd3_reset_endpoint
  <2> QED BY <2>1, <2>2, <2>3, <2>4 DEF EpTypeOK
<1>16. CASE Disconnect
  <2>1. status' \in Statuses
    BY <1>16 DEF Disconnect
  <2>2. event' = (event \/ status = "busy") /\ armed' = 0 /\ fifo' = 0 /\ Between
    BY <1>16 DEF Disconnect, kdrv_usbd3_reset_endpoint
  <2>3. configured' = FALSE /\ device' = "asked" /\ drops' = drops + 1
    BY <1>16 DEF Disconnect
  <2>4. UNCHANGED <<at, round, limited, waited, call, answer, dir, resets, fifoInt, moved>>
    BY <1>16 DEF Disconnect
  <2>5. dir' \in {"in", "out"} /\ status' \in Statuses /\ event' \in BOOLEAN
    BY <2>1, <2>2, <2>4 DEF EpTypeOK, DriverTypeOK
  <2>6. armed' \in Nat /\ fifo' \in Nat /\ moved' \in Nat /\ resets' \in Nat /\ drops' \in Nat
    BY <2>2, <2>3, <2>4 DEF EpTypeOK, DriverTypeOK
  <2>7. fifoInt' \in BOOLEAN /\ configured' \in BOOLEAN /\ device' \in {"up", "asked", "down"}
    BY <2>3, <2>4 DEF EpTypeOK, DriverTypeOK
  <2>8. DriverTypeOK'
    BY <2>5, <2>6, <2>7 DEF DriverTypeOK
  <2> QED BY <1>0, <2>2, <2>4, <2>8 DEF EpTypeOK, CallTypeOK
<1>17. CASE SetConfiguration
  <2>1. DriverTypeOK'
    BY <1>17 DEF EpTypeOK, DriverTypeOK, CallTypeOK, SetConfiguration
  <2>2. CallTypeOK'
    BY <1>17 DEF EpTypeOK, CallTypeOK, SetConfiguration
  <2>3. (round = 2 \/ fifoInt \/ at \in {"remark", "enable"} => dir = "in")'
    BY <1>17 DEF EpTypeOK, CallTypeOK, SetConfiguration
  <2>4. odd' \subseteq Windows
    BY <1>0, <1>17 DEF EpTypeOK, Windows, SetConfiguration
  <2> QED BY <2>1, <2>2, <2>3, <2>4 DEF EpTypeOK
<1>18. CASE ErrandBegins
  <2>1. DriverTypeOK'
    BY <1>18 DEF EpTypeOK, DriverTypeOK, CallTypeOK, ErrandBegins
  <2>2. CallTypeOK'
    BY <1>18 DEF EpTypeOK, CallTypeOK, ErrandBegins
  <2>3. (round = 2 \/ fifoInt \/ at \in {"remark", "enable"} => dir = "in")'
    BY <1>18 DEF EpTypeOK, CallTypeOK, ErrandBegins
  <2>4. odd' \subseteq Windows
    BY <1>0, <1>18 DEF EpTypeOK, Windows, ErrandBegins
  <2> QED BY <2>1, <2>2, <2>3, <2>4 DEF EpTypeOK
<1>19. CASE ErrandEnds
  <2>1. DriverTypeOK'
    BY <1>19 DEF EpTypeOK, DriverTypeOK, CallTypeOK, ErrandEnds
  <2>2. CallTypeOK'
    BY <1>19 DEF EpTypeOK, CallTypeOK, ErrandEnds
  <2>3. (round = 2 \/ fifoInt \/ at \in {"remark", "enable"} => dir = "in")'
    BY <1>19 DEF EpTypeOK, CallTypeOK, ErrandEnds
  <2>4. odd' \subseteq Windows
    BY <1>0, <1>19 DEF EpTypeOK, Windows, ErrandEnds
  <2> QED BY <2>1, <2>2, <2>3, <2>4 DEF EpTypeOK
<1>20. CASE UNCHANGED epVars
  BY <1>20 DEF epVars, EpTypeOK, DriverTypeOK, CallTypeOK
<1> QED BY <1>1, <1>2, <1>3, <1>4, <1>5, <1>6, <1>7, <1>8, <1>9, <1>10,
           <1>11, <1>12, <1>13, <1>14, <1>15, <1>16, <1>17, <1>18, <1>19, <1>20
        DEF EpNext, EpThread, EpErrand

(* The endpoint and the link, the errand and the registers.                *)
LEMMA StepReset == EpTypeOK /\ EpTypeOK' /\ ResetInv /\ [EpNext]_epVars => ResetInv'
<1> SUFFICES ASSUME EpTypeOK, EpTypeOK', ResetInv, [EpNext]_epVars PROVE ResetInv'
  OBVIOUS
<1>0. odd \subseteq Windows
  BY DEF EpTypeOK
<1> USE DEF ResetInv, hardware, linkVars, waitVars, threadVars, Goes, Ends, Available,
            AfterReset
<1>1. CASE BeginCall
  BY <1>1 DEF EpTypeOK, DriverTypeOK, CallTypeOK, BeginCall
<1>2. CASE Test
  BY <1>2 DEF EpTypeOK, DriverTypeOK, CallTypeOK, Test
<1>3. CASE Mark
  BY <1>3 DEF EpTypeOK, DriverTypeOK, CallTypeOK, Mark
<1>4. CASE Arm
  BY <1>4 DEF EpTypeOK, DriverTypeOK, CallTypeOK, Arm
<1>5. CASE Wake
  BY <1>5 DEF EpTypeOK, DriverTypeOK, CallTypeOK, Wake
<1>6. CASE AfterWake
  BY <1>6 DEF EpTypeOK, DriverTypeOK, CallTypeOK, AfterWake, Completed, WaitsTwice
<1>7. CASE Remark
  BY <1>7 DEF EpTypeOK, DriverTypeOK, CallTypeOK, Remark
<1>8. CASE Enable
  BY <1>8 DEF EpTypeOK, DriverTypeOK, CallTypeOK, Enable
<1>9. CASE Halt
  BY <1>9 DEF EpTypeOK, DriverTypeOK, CallTypeOK, Halt
<1>10. CASE Settle
  BY <1>10 DEF EpTypeOK, DriverTypeOK, CallTypeOK, Settle
<1>11. CASE Finish
  BY <1>11 DEF EpTypeOK, DriverTypeOK, CallTypeOK, Finish
<1>12. CASE DmaDone
  BY <1>12 DEF EpTypeOK, DriverTypeOK, CallTypeOK, DmaDone, usbd3_isr
<1>13. CASE HostReads
  BY <1>13 DEF EpTypeOK, DriverTypeOK, CallTypeOK, HostReads
<1>14. CASE FifoEmpty
  BY <1>14 DEF EpTypeOK, DriverTypeOK, CallTypeOK, FifoEmpty, usbd3_isr
<1>15. CASE ResetEndpoint
  BY <1>15 DEF EpTypeOK, DriverTypeOK, CallTypeOK, ResetEndpoint, kdrv_usbd3_reset_endpoint
<1>16. CASE Disconnect
  BY <1>16 DEF EpTypeOK, DriverTypeOK, CallTypeOK, Disconnect, kdrv_usbd3_reset_endpoint
<1>17. CASE SetConfiguration
  BY <1>17 DEF EpTypeOK, DriverTypeOK, CallTypeOK, SetConfiguration
<1>18. CASE ErrandBegins
  BY <1>18 DEF EpTypeOK, DriverTypeOK, CallTypeOK, ErrandBegins
<1>19. CASE ErrandEnds
  BY <1>19 DEF EpTypeOK, DriverTypeOK, CallTypeOK, ErrandEnds
<1>20. CASE UNCHANGED epVars
  BY <1>20 DEF epVars
<1> QED BY <1>1, <1>2, <1>3, <1>4, <1>5, <1>6, <1>7, <1>8, <1>9, <1>10,
           <1>11, <1>12, <1>13, <1>14, <1>15, <1>16, <1>17, <1>18, <1>19, <1>20
        DEF EpNext, EpThread, EpErrand

(* Whoever ends a transfer that is busy, in a call that waits or is about  *)
(* to, sets its event.                                                     *)
LEMMA Ended ==
  ASSUME EpTypeOK, EventInv, Between, status = "busy", status' # "busy",
         UNCHANGED <<at, waited>>,
         armed # 0 \/ fifoInt \/ (configured /\ device # "down")
  PROVE  EventInv'
<1> SUFFICES ASSUME Calm'
             PROVE  at \in {"arm", "wait", "enable", "stuck"}
  BY DEF EventInv
<1>1. Calm /\ at \notin {"woken", "halt", "settle"}
  BY Marked DEF EpTypeOK
<1>2. at \notin {"mark", "remark", "finish", "out", "test"}
  BY <1>1 DEF EventInv
<1>3. at \in Places
  BY DEF EpTypeOK, CallTypeOK
<1> QED BY <1>1, <1>2, <1>3 DEF Places

(* Events and the status of an endpoint nobody uses.                       *)
LEMMA StepEvent ==
  EpTypeOK /\ EpTypeOK' /\ ResetInv /\ EventInv /\ [EpNext]_epVars => EventInv'
<1> SUFFICES ASSUME EpTypeOK, EpTypeOK', ResetInv, EventInv, [EpNext]_epVars PROVE EventInv'
  OBVIOUS
<1>0. odd \subseteq Windows
  BY DEF EpTypeOK
<1> USE DEF ResetInv, EventInv, hardware, linkVars, waitVars, threadVars, Goes, Ends,
            Available, AfterReset
<1>1. CASE BeginCall
  BY <1>1, Unmarked DEF EpTypeOK, DriverTypeOK, CallTypeOK, BeginCall
<1>2. CASE Test
  BY <1>2, Unmarked DEF EpTypeOK, DriverTypeOK, CallTypeOK, Test
<1>3. CASE Mark
  <2>1. Calm' => Calm
    BY <1>3 DEF Mark, Calm, Spared
  <2> QED BY <1>3, <2>1 DEF EpTypeOK, DriverTypeOK, CallTypeOK, Mark
<1>4. CASE Arm
  BY <1>4, Unmarked DEF EpTypeOK, DriverTypeOK, CallTypeOK, Arm
<1>5. CASE Wake
  <2>1. /\ UNCHANGED <<status, odd, armed, fifoInt, device, configured>>
        /\ at' \in {"woken", "stuck"}
    BY <1>5 DEF Wake
  <2>2. at' = "woken" /\ waited' = "error" => device = "down"
    BY <1>5 DEF Wake
  <2>3. waited' = "set" => event
    BY <1>5 DEF Wake
  <2>4. at = "wait" /\ (event' => event) /\ (at' = "woken" => ~event' \/ device = "down")
    BY <1>5 DEF Wake
  <2> QED BY <2>1, <2>2, <2>3, <2>4, Unmarked
<1>6. CASE AfterWake
  <2>1. UNCHANGED <<status, event, odd, armed, fifoInt, device, configured, waited>>
    BY <1>6 DEF AfterWake
  <2>2. Calm => ~event
    BY <1>6 DEF AfterWake
  <2>3. at' = "out" => ~Completed /\ status # "term" /\ waited # "timeout"
    BY <1>6 DEF AfterWake
  <2>4. at' \notin {"woken", "test"}
    BY <1>6 DEF AfterWake
  <2>5. at' = "out" => waited \in {"set", "error"}
    BY <1>6, <2>3 DEF EpTypeOK, CallTypeOK, AfterWake
  <2> QED BY <1>6, <2>1, <2>2, <2>3, <2>4, <2>5, Unmarked
         DEF EpTypeOK, DriverTypeOK, CallTypeOK, AfterWake, Completed, Statuses
<1>7. CASE Remark
  BY <1>7, Unmarked DEF EpTypeOK, DriverTypeOK, CallTypeOK, Remark
<1>8. CASE Enable
  BY <1>8, Unmarked DEF EpTypeOK, DriverTypeOK, CallTypeOK, Enable
<1>9. CASE Halt
  BY <1>9, Unmarked DEF EpTypeOK, DriverTypeOK, CallTypeOK, Halt
<1>10. CASE Settle
  BY <1>10, Unmarked DEF EpTypeOK, DriverTypeOK, CallTypeOK, Settle
<1>11. CASE Finish
  BY <1>11, Unmarked DEF EpTypeOK, DriverTypeOK, CallTypeOK, Finish
<1>12. CASE DmaDone
  <2>1. CASE status = "busy"
    BY <1>12, <2>1, Ended DEF DmaDone, usbd3_isr
  <2>2. CASE status # "busy"
    BY <1>12, <1>0, <2>2, Marked, Unmarked
       DEF EpTypeOK, DriverTypeOK, CallTypeOK, DmaDone, usbd3_isr
  <2> QED BY <2>1, <2>2
<1>13. CASE HostReads
  BY <1>13, Unmarked DEF EpTypeOK, DriverTypeOK, CallTypeOK, HostReads
<1>14. CASE FifoEmpty
  <2>1. CASE status = "busy"
    BY <1>14, <2>1, Ended DEF FifoEmpty, usbd3_isr
  <2>2. CASE status # "busy"
    BY <1>14, <1>0, <2>2, Marked, Unmarked
       DEF EpTypeOK, DriverTypeOK, CallTypeOK, FifoEmpty, usbd3_isr
  <2> QED BY <2>1, <2>2
<1>15. CASE ResetEndpoint
  <2>1. CASE status = "busy"
    BY <1>15, <2>1, Ended DEF ResetEndpoint, kdrv_usbd3_reset_endpoint
  <2>2. CASE status # "busy"
    BY <1>15, <1>0, <2>2, Marked, Unmarked
       DEF EpTypeOK, DriverTypeOK, CallTypeOK, ResetEndpoint, kdrv_usbd3_reset_endpoint
  <2> QED BY <2>1, <2>2
<1>16. CASE Disconnect
  <2>1. CASE status = "busy"
    BY <1>16, <2>1, Ended DEF Disconnect, kdrv_usbd3_reset_endpoint
  <2>2. CASE status # "busy"
    BY <1>16, <1>0, <2>2, Marked, Unmarked
       DEF EpTypeOK, DriverTypeOK, CallTypeOK, Disconnect, kdrv_usbd3_reset_endpoint
  <2> QED BY <2>1, <2>2
<1>17. CASE SetConfiguration
  BY <1>17, <1>0, Marked DEF EpTypeOK, DriverTypeOK, CallTypeOK, SetConfiguration
<1>18. CASE ErrandBegins
  BY <1>18, <1>0, Marked DEF EpTypeOK, DriverTypeOK, CallTypeOK, ErrandBegins
<1>19. CASE ErrandEnds
  BY <1>19, <1>0, Marked DEF EpTypeOK, DriverTypeOK, CallTypeOK, ErrandEnds
<1>20. CASE UNCHANGED epVars
  BY <1>20, Unmarked DEF epVars
<1> QED BY <1>1, <1>2, <1>3, <1>4, <1>5, <1>6, <1>7, <1>8, <1>9, <1>10,
           <1>11, <1>12, <1>13, <1>14, <1>15, <1>16, <1>17, <1>18, <1>19, <1>20
        DEF EpNext, EpThread, EpErrand

(* What came between two statements leaves both assumptions weaker.        *)
LEMMA Later == odd \subseteq odd' => (Calmer' => Calmer)
BY DEF Calmer, Spared

(* The DMA and the FIFO interrupt.                                         *)
LEMMA StepDma ==
  EpTypeOK /\ EpTypeOK' /\ ResetInv /\ EventInv /\ DmaInv /\ [EpNext]_epVars => DmaInv'
<1> SUFFICES ASSUME EpTypeOK, EpTypeOK', ResetInv, EventInv, DmaInv, [EpNext]_epVars
             PROVE  DmaInv'
  OBVIOUS
<1>0. odd \subseteq Windows
  BY DEF EpTypeOK
<1> USE DEF ResetInv, DmaInv, hardware, linkVars, waitVars, threadVars, Goes, Ends
<1>1. CASE BeginCall
  BY <1>1, Unmarked, CalmerIsCalm DEF EpTypeOK, DriverTypeOK, CallTypeOK, EventInv, BeginCall
<1>2. CASE Test
  BY <1>2, Unmarked, CalmerIsCalm DEF EpTypeOK, DriverTypeOK, CallTypeOK, EventInv, Test
<1>3. CASE Mark
  BY <1>3, Later, CalmerIsCalm DEF EpTypeOK, DriverTypeOK, CallTypeOK, Mark
<1>4. CASE Arm
  BY <1>4, Unmarked, CalmerIsCalm DEF EpTypeOK, DriverTypeOK, CallTypeOK, EventInv, Arm
<1>5. CASE Wake
  BY <1>5, Unmarked, CalmerIsCalm DEF EpTypeOK, DriverTypeOK, CallTypeOK, EventInv, Wake
<1>6. CASE AfterWake
  BY <1>6, Unmarked, CalmerIsCalm
     DEF EpTypeOK, DriverTypeOK, CallTypeOK, EventInv, AfterWake, Completed, WaitsTwice
<1>7. CASE Remark
  BY <1>7, Unmarked, CalmerIsCalm DEF EpTypeOK, DriverTypeOK, CallTypeOK, EventInv, Remark
<1>8. CASE Enable
  BY <1>8, Unmarked, CalmerIsCalm DEF EpTypeOK, DriverTypeOK, CallTypeOK, EventInv, Enable
<1>9. CASE Halt
  BY <1>9, Unmarked, CalmerIsCalm DEF EpTypeOK, DriverTypeOK, CallTypeOK, EventInv, Halt
<1>10. CASE Settle
  BY <1>10, Unmarked, CalmerIsCalm DEF EpTypeOK, DriverTypeOK, CallTypeOK, EventInv, Settle
<1>11. CASE Finish
  BY <1>11, Unmarked, CalmerIsCalm DEF EpTypeOK, DriverTypeOK, CallTypeOK, EventInv, Finish
<1>12. CASE DmaDone
  BY <1>12, <1>0, Marked, Unmarked, CalmerIsCalm
     DEF EpTypeOK, DriverTypeOK, CallTypeOK, EventInv, AfterReset, DmaDone, usbd3_isr
<1>13. CASE HostReads
  BY <1>13, Unmarked, CalmerIsCalm DEF EpTypeOK, DriverTypeOK, CallTypeOK, EventInv, HostReads
<1>14. CASE FifoEmpty
  BY <1>14, <1>0, Marked, Unmarked, CalmerIsCalm
     DEF EpTypeOK, DriverTypeOK, CallTypeOK, EventInv, AfterReset, FifoEmpty, usbd3_isr
<1>15. CASE ResetEndpoint
  BY <1>15, <1>0, Marked, Unmarked, CalmerIsCalm
     DEF EpTypeOK, DriverTypeOK, CallTypeOK, EventInv, AfterReset, ResetEndpoint,
         kdrv_usbd3_reset_endpoint
<1>16. CASE Disconnect
  BY <1>16, <1>0, Marked, Unmarked, CalmerIsCalm
     DEF EpTypeOK, DriverTypeOK, CallTypeOK, EventInv, AfterReset, Disconnect,
         kdrv_usbd3_reset_endpoint
<1>17. CASE SetConfiguration
  BY <1>17, <1>0, Marked, Unmarked, CalmerIsCalm
     DEF EpTypeOK, DriverTypeOK, CallTypeOK, EventInv, AfterReset, SetConfiguration
<1>18. CASE ErrandBegins
  BY <1>18, <1>0, Marked, Unmarked, CalmerIsCalm
     DEF EpTypeOK, DriverTypeOK, CallTypeOK, EventInv, AfterReset, ErrandBegins
<1>19. CASE ErrandEnds
  BY <1>19, <1>0, Marked, Unmarked, CalmerIsCalm
     DEF EpTypeOK, DriverTypeOK, CallTypeOK, EventInv, AfterReset, ErrandEnds
<1>20. CASE UNCHANGED epVars
  BY <1>20, Unmarked DEF epVars
<1> QED BY <1>1, <1>2, <1>3, <1>4, <1>5, <1>6, <1>7, <1>8, <1>9, <1>10,
           <1>11, <1>12, <1>13, <1>14, <1>15, <1>16, <1>17, <1>18, <1>19, <1>20
        DEF EpNext, EpThread, EpErrand

(* The way of a call's data.                                               *)
LEMMA StepOrder == EpTypeOK /\ OrderInv /\ [EpNext]_epVars => OrderInv'
<1> SUFFICES ASSUME EpTypeOK, OrderInv, [EpNext]_epVars PROVE OrderInv'
  OBVIOUS
<1> USE DEF EpTypeOK, DriverTypeOK, CallTypeOK, OrderInv, hardware, linkVars, waitVars,
            threadVars, Goes, Ends
<1>1. CASE BeginCall
  BY <1>1 DEF BeginCall
<1>2. CASE Test
  BY <1>2 DEF Test
<1>3. CASE Mark
  BY <1>3 DEF Mark
<1>4. CASE Arm
  BY <1>4 DEF Arm
<1>5. CASE Wake
  BY <1>5 DEF Wake
<1>6. CASE AfterWake
  BY <1>6 DEF AfterWake, Completed, WaitsTwice
<1>7. CASE Remark
  BY <1>7 DEF Remark
<1>8. CASE Enable
  BY <1>8 DEF Enable
<1>9. CASE Halt
  BY <1>9 DEF Halt
<1>10. CASE Settle
  BY <1>10 DEF Settle
<1>11. CASE Finish
  BY <1>11 DEF Finish
<1>12. CASE DmaDone
  BY <1>12 DEF DmaDone, usbd3_isr
<1>13. CASE HostReads
  BY <1>13 DEF HostReads
<1>14. CASE FifoEmpty
  BY <1>14 DEF FifoEmpty, usbd3_isr
<1>15. CASE ResetEndpoint
  BY <1>15 DEF ResetEndpoint, kdrv_usbd3_reset_endpoint
<1>16. CASE Disconnect
  BY <1>16 DEF Disconnect, kdrv_usbd3_reset_endpoint
<1>17. CASE SetConfiguration
  BY <1>17 DEF SetConfiguration
<1>18. CASE ErrandBegins
  BY <1>18 DEF ErrandBegins
<1>19. CASE ErrandEnds
  BY <1>19 DEF ErrandEnds
<1>20. CASE UNCHANGED epVars
  BY <1>20 DEF epVars
<1> QED BY <1>1, <1>2, <1>3, <1>4, <1>5, <1>6, <1>7, <1>8, <1>9, <1>10,
           <1>11, <1>12, <1>13, <1>14, <1>15, <1>16, <1>17, <1>18, <1>19, <1>20
        DEF EpNext, EpThread, EpErrand

(* What a step of somebody else tells of the third assumption.             *)
LEMMA QuietMarked ==
  ASSUME odd \subseteq Windows, Between, Quiet'
  PROVE  /\ Quiet
         /\ at \notin {"mark", "arm", "woken", "halt", "settle", "remark", "enable", "finish"}
         /\ ~(at = "wait" /\ (device = "down" \/ status = "done"))
<1>1. DOMAIN Window = {"arming", "woken", "ending"}
  BY DEF Window
<1>2. /\ Window["woken"] <=>
           at \in {"woken", "halt", "settle"} \/ (at = "wait" /\ device = "down")
      /\ Window["arming"] <=> at \in {"mark", "arm"}
      /\ Window["ending"] <=>
           at \in {"remark", "enable", "finish"} \/ (at = "wait" /\ status = "done")
  BY DEF Window
<1>3. odd' = odd \cup {w \in {"arming", "woken", "ending"} : Window[w]}
  BY <1>1 DEF Between
<1>4. Quiet /\ ~Window["woken"] /\ ~Window["arming"] /\ ~Window["ending"]
  BY <1>3 DEF Quiet, Spared
<1> QED BY <1>2, <1>4

LEMMA QuietIsCalm == Quiet => Calm /\ Calmer
BY DEF Quiet, Calm, Calmer, Spared

LEMMA QuietLater == odd \subseteq odd' => (Quiet' => Quiet)
BY DEF Quiet, Spared

(* What is done is moved.                                                  *)
LEMMA StepMoved == EpInv /\ OrderInv /\ MovedInv /\ [EpNext]_epVars => MovedInv'
<1> SUFFICES ASSUME EpInv, OrderInv, MovedInv, [EpNext]_epVars, Quiet' PROVE MovedInv'
  BY DEF MovedInv
<1>0. EpTypeOK /\ odd \subseteq Windows
  BY DEF EpInv, EpTypeOK
<1>q. odd \subseteq odd' => /\ Quiet /\ Calm /\ Calmer
  BY QuietLater, QuietIsCalm
<1>m. Between => odd \subseteq odd'
  BY DEF Between
<1> USE DEF EpTypeOK, DriverTypeOK, CallTypeOK, OrderInv, MovedInv, Left, WaitsTwice, hardware,
            linkVars, waitVars, threadVars, Goes, Ends
<1>1. CASE BeginCall
  BY <1>1, <1>0, <1>q DEF EpInv, ResetInv, EventInv, DmaInv, AfterReset, BeginCall
<1>2. CASE Test
  BY <1>2, <1>0, <1>q DEF EpInv, ResetInv, EventInv, DmaInv, AfterReset, Test
<1>3. CASE Mark
  BY <1>3, <1>0, <1>q DEF EpInv, ResetInv, EventInv, DmaInv, AfterReset, Mark
<1>4. CASE Arm
  BY <1>4, <1>0, <1>q DEF EpInv, ResetInv, EventInv, DmaInv, AfterReset, Arm
<1>5. CASE Wake
  BY <1>5, <1>0, <1>q DEF EpInv, ResetInv, EventInv, DmaInv, AfterReset, Wake
<1>6. CASE AfterWake
  BY <1>6, <1>0, <1>q
     DEF EpInv, ResetInv, EventInv, DmaInv, AfterReset, AfterWake, Completed, WaitsTwice
<1>7. CASE Remark
  BY <1>7, <1>0, <1>q DEF EpInv, ResetInv, EventInv, DmaInv, AfterReset, Remark
<1>8. CASE Enable
  BY <1>8, <1>0, <1>q DEF EpInv, ResetInv, EventInv, DmaInv, AfterReset, Enable
<1>9. CASE Halt
  BY <1>9, <1>0, <1>q DEF EpInv, ResetInv, EventInv, DmaInv, AfterReset, Halt
<1>10. CASE Settle
  BY <1>10, <1>0, <1>q DEF EpInv, ResetInv, EventInv, DmaInv, AfterReset, Settle
<1>11. CASE Finish
  BY <1>11, <1>0, <1>q DEF EpInv, ResetInv, EventInv, DmaInv, AfterReset, Finish
<1>12. CASE DmaDone
  BY <1>12, <1>0, <1>q, <1>m, QuietMarked
     DEF EpInv, ResetInv, EventInv, DmaInv, AfterReset, DmaDone, usbd3_isr
<1>13. CASE HostReads
  BY <1>13, <1>0, <1>q DEF EpInv, ResetInv, EventInv, DmaInv, AfterReset, HostReads
<1>14. CASE FifoEmpty
  BY <1>14, <1>0, <1>q, <1>m, QuietMarked
     DEF EpInv, ResetInv, EventInv, DmaInv, AfterReset, FifoEmpty, usbd3_isr
<1>15. CASE ResetEndpoint
  BY <1>15, <1>0, <1>q, <1>m, QuietMarked
     DEF EpInv, ResetInv, EventInv, DmaInv, AfterReset, ResetEndpoint, kdrv_usbd3_reset_endpoint
<1>16. CASE Disconnect
  BY <1>16, <1>0, <1>q, <1>m, QuietMarked
     DEF EpInv, ResetInv, EventInv, DmaInv, AfterReset, Disconnect, kdrv_usbd3_reset_endpoint
<1>17. CASE SetConfiguration
  BY <1>17, <1>0, <1>q, <1>m, QuietMarked
     DEF EpInv, ResetInv, EventInv, DmaInv, AfterReset, SetConfiguration
<1>18. CASE ErrandBegins
  BY <1>18, <1>0, <1>q, <1>m, QuietMarked
     DEF EpInv, ResetInv, EventInv, DmaInv, AfterReset, ErrandBegins
<1>19. CASE ErrandEnds
  BY <1>19, <1>0, <1>q, <1>m, QuietMarked
     DEF EpInv, ResetInv, EventInv, DmaInv, AfterReset, ErrandEnds
<1>20. CASE UNCHANGED epVars
  BY <1>20, <1>q DEF epVars
<1> QED BY <1>1, <1>2, <1>3, <1>4, <1>5, <1>6, <1>7, <1>8, <1>9, <1>10,
           <1>11, <1>12, <1>13, <1>14, <1>15, <1>16, <1>17, <1>18, <1>19, <1>20
        DEF EpNext, EpThread, EpErrand

(* The link of a call that waits.                                          *)
LEMMA DropMarked ==
  ASSUME Between, odd' = {}
  PROVE  /\ odd = {}
         /\ at \notin {"mark", "arm", "woken", "halt", "settle", "remark", "enable", "finish"}
         /\ ~(at = "wait" /\ (device = "down" \/ status = "done"))
BY QuietMarked DEF Between, Quiet, Spared

LEMMA StepDrop == EpTypeOK /\ DropInv /\ [EpNext]_epVars => DropInv'
<1> SUFFICES ASSUME EpTypeOK, DropInv, [EpNext]_epVars, odd' = {} PROVE DropInv'
  BY DEF DropInv
<1> USE DEF EpTypeOK, DriverTypeOK, CallTypeOK, DropInv, hardware, linkVars, waitVars,
            threadVars, Goes, Ends
<1>1. CASE BeginCall
  BY <1>1 DEF BeginCall
<1>2. CASE Test
  BY <1>2 DEF Test
<1>3. CASE Mark
  BY <1>3 DEF Mark
<1>4. CASE Arm
  BY <1>4 DEF Arm
<1>5. CASE Wake
  BY <1>5 DEF Wake
<1>6. CASE AfterWake
  BY <1>6 DEF AfterWake, Completed, WaitsTwice
<1>7. CASE Remark
  BY <1>7 DEF Remark
<1>8. CASE Enable
  BY <1>8 DEF Enable
<1>9. CASE Halt
  BY <1>9 DEF Halt
<1>10. CASE Settle
  BY <1>10 DEF Settle
<1>11. CASE Finish
  BY <1>11 DEF Finish
<1>12. CASE DmaDone
  BY <1>12, DropMarked DEF DmaDone, usbd3_isr
<1>13. CASE HostReads
  BY <1>13 DEF HostReads
<1>14. CASE FifoEmpty
  BY <1>14, DropMarked DEF FifoEmpty, usbd3_isr
<1>15. CASE ResetEndpoint
  BY <1>15, DropMarked DEF ResetEndpoint, kdrv_usbd3_reset_endpoint
<1>16. CASE Disconnect
  BY <1>16, DropMarked DEF Disconnect, kdrv_usbd3_reset_endpoint
<1>17. CASE SetConfiguration
  BY <1>17, DropMarked DEF SetConfiguration
<1>18. CASE ErrandBegins
  BY <1>18, DropMarked DEF ErrandBegins
<1>19. CASE ErrandEnds
  BY <1>19, DropMarked DEF ErrandEnds
<1>20. CASE UNCHANGED epVars
  BY <1>20 DEF epVars
<1> QED BY <1>1, <1>2, <1>3, <1>4, <1>5, <1>6, <1>7, <1>8, <1>9, <1>10,
           <1>11, <1>12, <1>13, <1>14, <1>15, <1>16, <1>17, <1>18, <1>19, <1>20
        DEF EpNext, EpThread, EpErrand

-----------------------------------------------------------------------------
LEMMA EpStarts == EpInit => EpInv
<1> SUFFICES ASSUME EpInit PROVE EpInv
  OBVIOUS
<1>1. DriverTypeOK
  BY DEF EpInit, DriverTypeOK, Statuses
<1>2. CallTypeOK
  BY DEF EpInit, CallTypeOK, Places, Answers
<1>3. EpTypeOK
  BY <1>1, <1>2 DEF EpInit, EpTypeOK
<1>4. ResetInv /\ EventInv /\ DmaInv
  BY DEF EpInit, ResetInv, EventInv, DmaInv
<1> QED BY <1>3, <1>4 DEF EpInv

LEMMA EpSteps == EpInv /\ [EpNext]_epVars => EpInv'
BY EpTypes, StepReset, StepEvent, StepDma DEF EpInv

LEMMA EpAlways == EpSpec => []EpInv
BY EpStarts, EpSteps, PTL DEF EpSpec

(* Every variable of the endpoint keeps its type, and only a send waits    *)
(* for the FIFO: for any number of calls, resets and disconnections.       *)
THEOREM EndpointTypes == EpSpec => []EpTypeOK
<1>1. EpInv => EpTypeOK
  BY DEF EpInv
<1> QED BY <1>1, EpAlways, PTL

(* The endpoint of a device that is up and configured is idle between two  *)
(* calls, for any number of calls, resets and disconnections that come     *)
(* while a call waits: _endpoint_receive and _endpoint_send leave no       *)
(* status behind that keeps the next call out.                             *)
THEOREM EndpointUsable == EpSpec => []Usable
<1>1. EpInv => Usable
  BY DEF EpInv, ResetInv, EventInv, Usable, Calm
<1> QED BY <1>1, EpAlways, PTL

(* The DMA uses the buffer of the call that goes on, and of no other, for  *)
(* any number of calls, resets and disconnections that come while a call   *)
(* waits.                                                                  *)
THEOREM EndpointDmaInCall == EpSpec => []DmaInCall
<1>1. EpInv => DmaInCall
  BY DEF EpInv, DmaInv, DmaInCall, InCall, Calmer
<1> QED BY <1>1, EpAlways, PTL
LEMMA FlowStarts == EpInit => EpFlowInv
BY DEF EpInit, EpFlowInv, OrderInv, MovedInv, DropInv

LEMMA FlowSteps == EpInv /\ EpFlowInv /\ [EpNext]_epVars => EpFlowInv'
BY StepOrder, StepMoved, StepDrop DEF EpInv, EpFlowInv

LEMMA FlowAlways == EpSpec => []EpFlowInv
BY FlowStarts, FlowSteps, EpAlways, PTL DEF EpSpec

(* A call that succeeds has moved its data, for any number of calls, resets *)
(* and disconnections that come while it waits: _endpoint_receive returns  *)
(* with its buffer filled, _endpoint_send with the FIFO read by the host.  *)
THEOREM EndpointOkIsMoved == EpSpec => []OkIsMoved
<1>1. EpFlowInv => OkIsMoved
  BY DEF EpFlowInv, MovedInv, OkIsMoved, Quiet
<1> QED BY <1>1, FlowAlways, PTL

(* No disconnection leaves a call waiting for an event that nobody sends:  *)
(* while the link is down its event is set, or the errand that wakes it is *)
(* to come, for any number of calls, resets and disconnections.            *)
THEOREM EndpointWokenByDrop == EpSpec => []WokenByDrop
<1>1. EpFlowInv => WokenByDrop
  BY DEF EpFlowInv, DropInv, WokenByDrop
<1> QED BY <1>1, FlowAlways, PTL
=============================================================================
