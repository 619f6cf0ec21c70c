--------------------------- MODULE UsbOrderProofs ---------------------------
(***************************************************************************)
(* The order of what goes through the companion path, as long as the image *)
(* thread did not go on without a buffer and no DMA was armed late.  The   *)
(* headers in the buffers come in the order of the host's images, from the *)
(* host to buf_mgr (FrontOrder, TempOrder, MgrOrder), so do the objects it *)
(* makes of them (ObjectOrder) and their results (ResultOrder): the host   *)
(* reads them in the order it asked for them (ResultsInOrder).             *)
(*                                                                         *)
(* A host that requests no reset and stays connected leaves no image half  *)
(* received (Steady).  Each image in the line is then the very next after  *)
(* the one before it (FrontStrict, TempStrict, MgrStrict), and an object   *)
(* is one inference (OneInference).                                        *)
(*                                                                         *)
(* A host that does not switch dropping on either gets one inference after *)
(* the other through the path (ObjectChain, WorkChain), one result after   *)
(* the other (ResultChain), and none of the sends fails (SendSteady): the  *)
(* path implements InferenceService (ServiceImplemented).                  *)
(***************************************************************************)
EXTENDS UsbCompanionProofs, SequenceTheorems

-----------------------------------------------------------------------------
(* The order of the results.                                               *)

(* The header of what a buffer holds, and of the last image of an object.  *)
H(b) == content[b].head
LastBuf(o)  == o[Len(o)]
LastItem(o) == H(LastBuf(o))

(* The host sends the image a before the image b, and every image of an    *)
(* earlier inference before one of a later; b is the image a, or the first *)
(* image of the inference a stands for, or comes later.                    *)
After(a, b) == \/ a.req < b.req
               \/ a.req = b.req /\ a.total = b.total /\ a.index < b.index
Upto(a, b)  == \/ a.req < b.req
               \/ a.req = b.req /\ (a.index = 0 \/ (a.total = b.total /\ a.index <= b.index))
Dated(a)    == a.req \in Nat /\ a.index \in Nat

(* Nothing in S comes before all of T.                                     *)
Covers(S, T) == \A y \in S : \E z \in T : Upto(z, y)

(* What the host sends next, now or as its next inference, and the images  *)
(* on their way to the dispatcher.                                         *)
NextItem  == [Nothing EXCEPT !.req = count.req + 1]
HostItems == (IF host.open THEN {HostItem("inf")} ELSE {}) \cup {NextItem}
HandItems == IF HasHeader THEN {Header} ELSE {}
Front     == HandItems \cup HostItems
TempItems == {H(tempQ[i].buf) : i \in DOMAIN tempQ}
Coming    == TempItems \cup Front
MgrItems  == {H(stored[i]) : i \in StoredAt}
             \cup (IF mgrPc = "putback" THEN {H(received.buf)} ELSE {})
Pending   == MgrItems \cup Coming

(* The image in the hands of the image thread.                             *)
Swapping  == imgPc = "swap" \/ (WaitsForBuffer /\ imgRet = "swap")
HandBuf   == IF Swapping THEN Temp ELSE buf
FrontOrder ==
  /\ HasHeader /\ ~NewHeader => H(HandBuf) = hdr
  /\ host.open => host.req <= count.req
  /\ HasHeader => Header.req <= count.req
  /\ HasHeader /\ host.open =>
       IF host.chunk = 1 /\ Got = 1 THEN Header.req = host.req ELSE After(Header, host)

(* The images buf_mgr has not taken yet ...                                *)
TempOrder ==
  /\ \A i \in DOMAIN tempQ : /\ H(tempQ[i].buf).index = tempQ[i].index
                             /\ H(tempQ[i].buf).total = tempQ[i].total
  /\ \A x \in TempItems, y \in Front : After(x, y)
  /\ \A i, j \in DOMAIN tempQ : i < j => After(H(tempQ[i].buf), H(tempQ[j].buf))

(* ... and those it has, of which the last one taken is the last.          *)
MgrOrder ==
  /\ mgrPc = "putback" => /\ H(received.buf).index = received.index
                          /\ H(received.buf).total = received.total
                          /\ \A i \in StoredAt : After(H(stored[i]), H(received.buf))
  /\ mgrPc = "enqueue" => /\ received.index \in StoredAt
                          /\ H(stored[received.index]).index = received.index
                          /\ H(stored[received.index]).total = received.total
                          /\ \A i \in StoredAt \ {received.index} :
                               After(H(stored[i]), H(stored[received.index]))
  /\ \A x \in MgrItems, y \in Coming : After(x, y)

(* All the images of the inference n and of those before went on from      *)
(* there to the dispatcher.                                                *)
Precedes(n) == /\ \A i \in DOMAIN imgData : n < LastItem(imgData[i]).req
               /\ \A y \in Pending : n < y.req

(* The objects come in the order of their inferences.                      *)
ObjectOrder ==
  /\ \A i \in DOMAIN imgData : \A y \in Pending : LastItem(imgData[i]).req < y.req
  /\ \A i, j \in DOMAIN imgData : i < j => LastItem(imgData[i]).req < LastItem(imgData[j]).req
  /\ infPc \in {"result", "execute"} => Precedes(LastItem(obj).req)

(* A result in the FIFO that waits for the host to read it; one that waits *)
(* to be sent or goes into the FIFO; and all the results, up to those the  *)
(* host has.                                                               *)
Unread == fifo = "data" /\ sent # NoResult
Going  == fifo = "dma" /\ tx # 0
ToSend == \/ sendPc = "send"
          \/ sendMutex = "send" /\ ~SenderWaits
          \/ Going
Result(r) == \/ \E i \in DOMAIN resData : r = answer[resData[i]]
             \/ ToSend /\ r = answer[sendBuf]
             \/ Unread /\ r = sent
             \/ \E i \in DOMAIN delivered : r = delivered[i]

(* A DMA into the FIFO belongs to the sender that waits for it, as long as *)
(* none was armed late.                                                    *)
Feeding == fifo = "dma" =>
  /\ sendMutex # "free" /\ round \in {"dma", "again"}
  /\ tx = IF sendMutex = "send" THEN sendBuf ELSE 0
  /\ ep["in"] \notin {"done", "term"}
  /\ round = "again" => ~evt["in"]
FeedInv == ~late => Feeding

(* They come in the order of the inferences and of their crop boxes.       *)
Before(r, s) == r[1] < s[1] \/ (r[1] = s[1] /\ r[2] < s[2])
NextResult   == <<LastItem(obj).req, crop + 1>>
ResultOrder ==
  /\ \A i, j \in DOMAIN delivered : i < j => Before(delivered[i], delivered[j])
  /\ Unread => \A i \in DOMAIN delivered : Before(delivered[i], sent)
  /\ ToSend => /\ \A i \in DOMAIN delivered : Before(delivered[i], answer[sendBuf])
               /\ Unread => Before(sent, answer[sendBuf])
  /\ \A j \in DOMAIN resData :
       /\ \A i \in DOMAIN delivered : Before(delivered[i], answer[resData[j]])
       /\ ToSend => Before(answer[sendBuf], answer[resData[j]])
       /\ Unread => Before(sent, answer[resData[j]])
       /\ \A i \in DOMAIN resData : i < j => Before(answer[resData[i]], answer[resData[j]])
  /\ \A r : Result(r) =>
       /\ Precedes(r[1])
       /\ infPc \in {"result", "execute"} => Before(r, NextResult)
       /\ r # NoResult

(* The buffer b is between the image thread and the dispatcher's end.      *)
Waits(b) == \/ \E i \in DOMAIN imgData : b \in BufsOf(imgData[i])
            \/ \E i \in DOMAIN tempQ : b = tempQ[i].buf
            \/ \E i \in StoredAt : b = stored[i]
            \/ mgrPc = "putback" /\ b = received.buf
            \/ b \in BufsOf(obj)

LEMMA AfterUpto ==
  ASSUME NEW x, NEW y, NEW z, Dated(x), Dated(y), Dated(z), After(x, y), Upto(y, z)
  PROVE  After(x, z)
BY DEF Dated, After, Upto

LEMMA AfterAfter ==
  ASSUME NEW x, NEW y, NEW z, Dated(x), Dated(y), Dated(z), After(x, y), After(y, z)
  PROVE  After(x, z)
BY DEF Dated, After

LEMMA UptoSelf == ASSUME NEW x, Dated(x) PROVE Upto(x, x)
BY DEF Dated, Upto

LEMMA CoversPart == ASSUME NEW S, NEW T, S \subseteq T, \A x \in S : Dated(x) PROVE Covers(S, T)
BY UptoSelf DEF Covers

LEMMA AllDated ==
  ASSUME Types
  PROVE  /\ Dated(hdr) /\ Dated(host) /\ Dated(NextItem) /\ NextItem.index = 0 /\ NextItem.req = count.req + 1
         /\ \A kind : /\ Dated(HostItem(kind)) /\ HostItem(kind).req = host.req
                      /\ HostItem(kind).index = host.index /\ HostItem(kind).total = host.total
         /\ \A b \in Slots : Dated(H(b))
         /\ \A y \in Front : Dated(y)
         /\ count.req \in Nat
<1> USE ImgFacts
<1>1. Dated(hdr) /\ Dated(host)
  BY DEF Dated, Items, HostStates, Indices
<1>2. count.req \in Nat
  BY DEF Types, TypeOK, HostTypeOK, Counters
<1>3. Dated(NextItem) /\ NextItem.index = 0 /\ NextItem.req = count.req + 1
  BY <1>2 DEF Dated, NextItem, Nothing
<1>4. ASSUME NEW kind
      PROVE  /\ Dated(HostItem(kind)) /\ HostItem(kind).req = host.req
             /\ HostItem(kind).index = host.index /\ HostItem(kind).total = host.total
  BY <1>1 DEF Dated, HostItem
<1>5. ASSUME NEW b \in Slots PROVE Dated(H(b))
  BY DEF Dated, H, Items, Indices
<1>6. Dated(Header)
  BY <1>1, <1>5 DEF Header, H
<1> QED BY <1>1, <1>2, <1>3, <1>4, <1>5, <1>6 DEF Front, HandItems, HostItems

(* The front moves on, but for a header that is given up.                  *)
LEMMA FrontKept ==
  ASSUME Types, Types', FrontOrder, count'.req = count.req,
         HasHeader' => HasHeader /\ Header' = Header /\ (~NewHeader' => H(HandBuf)' = hdr'),
         \/ ~host'.open
         \/ host' = host /\ (host.open /\ HasHeader' /\ host.chunk = 1 => (Got' = 1 <=> Got = 1))
  PROVE  FrontOrder' /\ Covers(Front', Front)
<1>1. NextItem' = NextItem
  BY DEF NextItem
<1>2. HandItems' \subseteq HandItems
  BY DEF HandItems
<1>3. HostItems' \subseteq HostItems
  BY <1>1 DEF HostItems, HostItem
<1>4. Front' \subseteq Front /\ \A x \in Front' : Dated(x)
  BY <1>2, <1>3, AllDated DEF Front
<1>5. Covers(Front', Front)
  BY <1>4, CoversPart
<1>6. HasHeader' /\ ~NewHeader' => H(HandBuf)' = hdr'
  OBVIOUS
<1>7. host'.open => host'.req <= count'.req
  BY DEF FrontOrder
<1>8. HasHeader' => Header'.req <= count'.req
  BY DEF FrontOrder
<1>9. HasHeader' /\ host'.open =>
       IF host'.chunk = 1 /\ Got' = 1 THEN Header'.req = host'.req ELSE After(Header', host')
  BY DEF FrontOrder
<1> QED BY <1>5, <1>6, <1>7, <1>8, <1>9 DEF FrontOrder

(* Neither the image thread nor its buffer moves, and nothing arrives.     *)
LEMMA FrontUntouched ==
  ASSUME Types, Types', FrontOrder, UNCHANGED <<imgVars, content>>, count'.req = count.req,
         Landed' => Landed, ~host'.open \/ (host' = host /\ (Landed => Landed'))
  PROVE  FrontOrder' /\ Covers(Front', Front)
<1> USE DEF imgVars
<1>1. HasHeader' => HasHeader /\ Header' = Header
  BY DEF HasHeader, Header, NewHeader, InReceive, WaitsForBuffer, Landed
<1>2. HasHeader' /\ ~NewHeader' => ~NewHeader
  <2>1. CASE imgPc = "enqueue"
    BY <2>1 DEF NewHeader, Landed
  <2>2. CASE imgPc # "enqueue"
    <3>1. HasHeader' /\ ~NewHeader' => recvLen >= 1
      BY <2>2 DEF HasHeader
    <3>2. recvLen \in Nat
      BY ImgFacts
    <3> QED BY <3>1, <3>2 DEF NewHeader
  <2> QED BY <2>1, <2>2
<1>3. H(HandBuf)' = H(HandBuf)
  BY DEF H, HandBuf, Swapping, WaitsForBuffer
<1>4. HasHeader' /\ ~NewHeader' => H(HandBuf)' = hdr'
  BY <1>1, <1>2, <1>3 DEF FrontOrder
<1>5. CASE ~host'.open
  BY <1>1, <1>4, <1>5, FrontKept
<1>6. CASE host' = host /\ (Landed => Landed')
  <2>1. (Landed' <=> Landed) /\ (InReceive' <=> InReceive)
    BY <1>6 DEF InReceive, WaitsForBuffer
  <2>2. Got' = Got
    BY <2>1 DEF Got
  <2> QED BY <1>1, <1>4, <1>6, <2>2, FrontKept
<1> QED BY <1>5, <1>6

LEMMA OthersFront ==
  ASSUME Types, Types', FrontOrder, BufMgrNext \/ InfNext \/ SendNext \/ UNCHANGED vars
  PROVE  FrontOrder' /\ Covers(Front', Front)
<1>1. UNCHANGED <<imgVars, content, host, count>>
  BY DEF BufMgrNext, InfNext, InfDequeue, InfGetResultBuffer, InfExecute, InfPutFree,
     SendNext, SendDequeue, SendStart, SendBegins, SendDone, SendHangs, SendPutFree, vars,
     memVars, hostVars
<1>2. ep'["out"] = ep["out"]
  BY OutUntouched, ImgFacts DEF BufMgrNext, InfNext, InfDequeue, InfGetResultBuffer, InfExecute,
     InfPutFree, SendNext, SendDequeue, SendStart, SendBegins, SendDone, SendHangs,
     SendPutFree, vars, linkVars, epVars
<1>3. Landed' <=> Landed
  BY <1>1, <1>2 DEF Landed, imgVars
<1> QED BY <1>1, <1>3, FrontUntouched

LEMMA LinkFront ==
  ASSUME Types, Types', ReceiveInv, FrontOrder, LinkNext
  PROVE  FrontOrder' /\ Covers(Front', Front)
<1> USE ImgFacts
<1>1. UNCHANGED <<imgVars, content>> /\ ~host'.open
  <2>1. CASE Configured
    BY <2>1 DEF Configured, memVars, hostVars, ReceiveInv
  <2>2. CASE LinkLost \/ ErrandResetDevice
    BY <2>2 DEF LinkLost, ErrandResetDevice, memVars, HostStates
  <2> QED BY <2>1, <2>2 DEF LinkNext, Disconnected, VbusOff
<1>2. Landed' => Landed
  BY <1>1 DEF LinkNext, Configured, Disconnected, VbusOff, ErrandResetDevice, reset_endpoint,
     Stopped, Available, Landed, imgVars
<1>3. count'.req = count.req
  <2>1. count \in Counters
    BY DEF Types, TypeOK, HostTypeOK
  <2>2. CASE LinkLost
    BY <2>1, <2>2 DEF LinkLost, Counters
  <2>3. CASE Configured \/ ErrandResetDevice
    BY <2>3 DEF Configured, ErrandResetDevice, hostVars
  <2> QED BY <2>2, <2>3 DEF LinkNext, Disconnected, VbusOff
<1> QED BY <1>1, <1>2, <1>3, FrontUntouched

LEMMA HostQuietFront ==
  ASSUME Types, Types', ReceiveInv, FrontOrder,
         ControlConfigure \/ ControlDroppable \/ SendDma \/ HostReads \/ ControlReset
  PROVE  FrontOrder' /\ Covers(Front', Front)
<1> USE ImgFacts
<1>1. UNCHANGED <<imgVars, content>>
  BY DEF ControlConfigure, ControlDroppable, SendDma, HostReads, ControlReset, memVars
<1>2. count'.req = count.req
  <2>1. count \in Counters
    BY DEF Types, TypeOK, HostTypeOK
  <2>2. CASE ControlDroppable \/ ControlReset
    BY <2>1, <2>2 DEF ControlDroppable, ControlReset, Counters
  <2>3. CASE ControlConfigure \/ SendDma \/ HostReads
    BY <2>3 DEF ControlConfigure, SendDma, HostReads, hostVars
  <2> QED BY <2>2, <2>3
<1>3. CASE ControlConfigure \/ ControlDroppable \/ SendDma \/ HostReads
  <2>1. ep'["out"] = ep["out"] /\ host' = host
    BY <1>3, OutUntouched DEF ControlConfigure, ControlDroppable, SendDma, HostReads,
       linkVars, epVars, hostVars
  <2>2. Landed' <=> Landed
    BY <1>1, <2>1 DEF Landed, imgVars
  <2> QED BY <1>1, <1>2, <2>1, <2>2, FrontUntouched
<1>4. CASE ControlReset
  <2>1. Landed' => Landed
    BY <1>1, <1>4 DEF ControlReset, reset_endpoint, Stopped, Available, Landed, imgVars
  <2>2. ~host'.open
    BY <1>4 DEF ControlReset, HostStates
  <2> QED BY <1>1, <1>2, <2>1, <2>2, FrontUntouched
<1> QED BY <1>3, <1>4

(* A new inference comes after all that was sent.                          *)
LEMMA BeginsFront ==
  ASSUME Types, Types', FrontOrder, HostBegins
  PROVE  FrontOrder' /\ Covers(Front', Front)
<1> USE ImgFacts
<1>1. UNCHANGED <<imgVars, content, ep>>
  BY DEF HostBegins, memVars, linkVars, epVars
<1>2. count'.req = count.req + 1
  BY DEF HostBegins, Types, TypeOK, HostTypeOK, Counters
<1>3. host'.req = count.req + 1 /\ host'.index = 0 /\ host'.chunk = 0 /\ host'.open
  BY DEF HostBegins
<1>4. (HasHeader' <=> HasHeader) /\ Header' = Header /\ (NewHeader' <=> NewHeader)
  BY <1>1 DEF HasHeader, Header, NewHeader, InReceive, WaitsForBuffer, Landed, imgVars
<1>5. H(HandBuf)' = H(HandBuf) /\ hdr' = hdr
  BY <1>1 DEF H, HandBuf, Swapping, WaitsForBuffer, imgVars
<1>6. count.req \in Nat /\ Dated(NextItem) /\ NextItem.index = 0 /\ NextItem.req = count.req + 1
  BY AllDated
<1>7. HasHeader => Header.req \in Nat
  BY AllDated DEF Front, HandItems, Dated
<1>8. FrontOrder'
  <2>1. HasHeader' /\ ~NewHeader' => H(HandBuf)' = hdr'
    BY <1>4, <1>5 DEF FrontOrder
  <2>2. host'.open => host'.req <= count'.req
    BY <1>2, <1>3, <1>6
  <2>3. HasHeader' => Header'.req <= count'.req
    BY <1>2, <1>4, <1>6, <1>7 DEF FrontOrder
  <2>4. HasHeader' => After(Header', host')
    BY <1>3, <1>4, <1>6, <1>7 DEF FrontOrder, After
  <2> QED BY <1>3, <2>1, <2>2, <2>3, <2>4 DEF FrontOrder
<1>9. ASSUME NEW y \in Front' PROVE \E z \in Front : Upto(z, y)
  <2>1. CASE y \in HandItems'
    <3>1. y \in Front
      BY <1>4, <2>1 DEF HandItems, Front
    <3>2. Upto(y, y)
      BY <3>1, AllDated, UptoSelf
    <3> QED BY <3>1, <3>2
  <2>2. CASE y \in HostItems'
    <3>1. y.req = count.req + 1 \/ y.req = count.req + 2
      <4>1. NextItem'.req = count'.req + 1
        BY DEF NextItem, Nothing
      <4>2. HostItem("inf")'.req = host'.req
        BY DEF HostItem
      <4> QED BY <1>2, <1>3, <1>6, <2>2, <4>1, <4>2 DEF HostItems
    <3>2. Upto(NextItem, y)
      BY <1>6, <3>1 DEF Upto
    <3>3. NextItem \in Front
      BY DEF Front, HostItems
    <3> QED BY <3>2, <3>3
  <2> QED BY <2>1, <2>2 DEF Front
<1> QED BY <1>8, <1>9 DEF Covers

LEMMA CommandFront ==
  ASSUME Types, Types', Receiving, ~late, ReceiveInv, LengthInv, FrontOrder, HostSendsCommand
  PROVE  FrontOrder' /\ Covers(Front', Front)
<1> USE ImgFacts
<1> DEFINE item == [Nothing EXCEPT !.kind = "cmd", !.req = count.cmd + 1]
<1>1. Land(item) /\ link /\ ~host.open /\ UNCHANGED <<imgVars, dma, host>>
  BY DEF HostSendsCommand
<1>2. ~IsInf(item)
  BY DEF IsInf, Nothing
<1> HIDE DEF item
<1>3. /\ imgPc = "recv_wait" /\ ~Landed /\ Landed'
      /\ recvLen = 0 => content'[buf].head = item
      /\ recvLen # 0 => recvLen = 1 /\ content'[buf].head = content[buf].head
  BY <1>1, Lands
<1>4. HasHeader' => recvLen # 0 /\ HasHeader /\ Header' = Header /\ ~NewHeader
  BY <1>1, <1>2, <1>3 DEF HasHeader, Header, NewHeader, InReceive, WaitsForBuffer, imgVars
<1>5. recvLen # 0 => H(HandBuf)' = H(HandBuf)
  BY <1>1, <1>3 DEF H, HandBuf, Swapping, WaitsForBuffer, imgVars
<1>6. HasHeader' => H(HandBuf)' = hdr'
  BY <1>1, <1>4, <1>5 DEF FrontOrder, imgVars
<1>7. count'.req = count.req
  BY DEF HostSendsCommand, Types, TypeOK, HostTypeOK, Counters
<1> QED BY <1>1, <1>4, <1>6, <1>7, FrontKept

(* An image of the host becomes the image in the hands of the thread, and  *)
(* the host goes on to the next.                                           *)
LEMMA HostGoesOn ==
  ASSUME Types, ReceiveInv, HostSendsImage
  PROVE  /\ host.open /\ host.chunk \in {0, 1} /\ host'.req = host.req /\ host.index \in Nat
         /\ host'.open =>
              /\ host'.total = host.total
              /\ \/ /\ host.chunk = 0 /\ host'.chunk = 1 /\ host'.index = host.index
                 \/ /\ host.chunk + 1 = ImgChunks /\ host'.chunk = 0
                    /\ host'.index = host.index + 1
<1>1. host'.req = host.req
  BY ImgFacts DEF HostSendsImage, HostStates
<1> QED BY <1>1, HostMoves

LEMMA ImageFront ==
  ASSUME Types, Types', Receiving, ReceiveInv, LengthInv, LineInv, FrontOrder, HostSendsImage,
         ~torn', ~late
  PROVE  FrontOrder' /\ Covers(Front', Front)
<1> USE ImgFacts
<1>1. PICK kind \in {"inf", "big", "part"} :
        Land(HostItem(kind)) /\ (kind = "part" => host.chunk > 0)
  BY DEF HostSendsImage
<1> DEFINE item == HostItem(kind)
<1>2. /\ Dated(item) /\ item.req = host.req /\ item.index = host.index /\ item.total = host.total
      /\ dma.at = 0 => host.chunk = 0 /\ IsInf(item)
  <2>1. host.chunk \in Nat
    BY DEF HostStates
  <2>2. ~(host.chunk > 0 /\ dma.at = 0)
    BY DEF HostSendsImage
  <2>3. dma.at = 0 => host.chunk = 0 /\ kind # "part"
    BY <1>1, <2>1, <2>2
  <2> QED BY <2>3, AllDated DEF HostItem, IsInf
<1>3. link /\ UNCHANGED <<imgVars, dma, count>>
  BY DEF HostSendsImage
<1>4. Land(item)
  BY <1>1
<1> HIDE DEF item
<1>5. /\ imgPc = "recv_wait" /\ ~Landed /\ Landed'
      /\ recvLen = 0 => content'[buf].head = item
      /\ recvLen # 0 => recvLen = 1 /\ content'[buf].head = content[buf].head
      /\ dma.at = recvLen
  BY <1>3, <1>4, Lands
<1>6. UNCHANGED <<imgPc, imgRet, buf, recvLen, recvType, hdr>>
  BY <1>3 DEF imgVars
<1>7. InReceive /\ InReceive'
  BY <1>5, <1>6 DEF InReceive
<1>8. NextItem' = NextItem /\ NextItem \in Front
  BY <1>3 DEF NextItem, Front, HostItems
<1>9. host'.open => host'.req <= count'.req
  BY <1>3, HostGoesOn DEF FrontOrder
<1>10. HostItem("inf") \in Front
  BY HostGoesOn DEF Front, HostItems
(* Whatever the host sends next does not come before what it just sent.    *)
<1>11. \A y \in HostItems' : \E z \in Front : Upto(z, y)
  <2>1. ASSUME host'.open PROVE Upto(HostItem("inf"), HostItem("inf")')
    <3>1. /\ HostItem("inf")'.req = host'.req /\ HostItem("inf")'.index = host'.index
          /\ HostItem("inf")'.total = host'.total
      BY DEF HostItem
    <3> QED BY <2>1, <3>1, HostGoesOn, AllDated DEF Upto, Dated
  <2>2. Upto(NextItem, NextItem')
    BY <1>8, UptoSelf, AllDated
  <2> QED BY <1>8, <1>10, <2>1, <2>2 DEF HostItems
<1>12. CASE recvLen = 0
  <2>1. HasHeader' /\ NewHeader' /\ Header' = item /\ Got' = 1
    BY <1>2, <1>5, <1>6, <1>7, <1>12 DEF HasHeader, Header, NewHeader, Got
  <2>2. Header'.req <= count'.req
    BY <1>2, <1>3, <2>1, HostGoesOn DEF FrontOrder
  <2>3. ASSUME host'.open
        PROVE  IF host'.chunk = 1 /\ Got' = 1 THEN Header'.req = host'.req ELSE After(Header', host')
    <3>1. CASE host'.chunk = 1
      BY <1>2, <2>1, <3>1, HostGoesOn
    <3>2. CASE host'.chunk # 1
      BY <1>2, <2>1, <2>3, <3>2, HostGoesOn DEF After
    <3> QED BY <2>1, <3>1, <3>2
  <2>4. FrontOrder'
    BY <1>9, <2>1, <2>2, <2>3 DEF FrontOrder
  <2>5. Upto(HostItem("inf"), item)
    BY <1>2, AllDated DEF Upto, Dated
  <2>6. Covers(Front', Front)
    BY <1>10, <1>11, <2>1, <2>5 DEF Covers, Front, HandItems
  <2> QED BY <2>4, <2>6
<1>13. CASE recvLen # 0
  <2>1. Got = 1 /\ Got' = 2 /\ recvLen = 1
    BY <1>5, <1>6, <1>7, <1>13 DEF Got
  <2>2. (HasHeader' <=> HasHeader) /\ Header' = Header /\ ~NewHeader /\ ~NewHeader'
    BY <1>5, <1>6, <1>7, <2>1 DEF HasHeader, Header, NewHeader
  <2>3. H(HandBuf)' = H(HandBuf)
    BY <1>5, <1>6, <1>13 DEF H, HandBuf, Swapping, WaitsForBuffer
  <2>4. HasHeader' => H(HandBuf)' = hdr' /\ Header'.req <= count'.req
    BY <1>3, <1>6, <2>2, <2>3 DEF FrontOrder
  <2>5. ASSUME HasHeader', host'.open PROVE After(Header', host')
    <3>1. CASE host.chunk = 0 /\ host'.index = host.index
      <4>1. After(Header, host)
        BY <2>2, <2>5, <3>1, HostGoesOn DEF FrontOrder
      <4> QED BY <2>2, <2>5, <3>1, <4>1, HostGoesOn DEF After
    <3>2. CASE host.chunk = 1 /\ host'.index = host.index + 1
      <4>1. Header.req = host.req
        BY <2>1, <2>2, <2>5, <3>2, HostGoesOn DEF FrontOrder
      <4>2. Header.index = host.index /\ Header.total = host.total
        BY <1>5, <2>1, <3>2, HostGoesOn DEF LineInv
      <4> QED BY <2>2, <2>5, <3>2, <4>1, <4>2, HostGoesOn DEF After
    <3>3. ImgChunks = 2
      BY <1>5, <2>1 DEF LengthInv
    <3> QED BY <2>5, <3>1, <3>2, <3>3, HostGoesOn
  <2>6. FrontOrder'
    BY <1>9, <2>1, <2>2, <2>4, <2>5 DEF FrontOrder
  <2>7. HandItems' \subseteq HandItems
    BY <2>2 DEF HandItems
  <2>8. \A y \in HandItems' : y \in Front /\ Upto(y, y)
    BY <2>7, AllDated, UptoSelf DEF Front
  <2> QED BY <1>11, <2>6, <2>8 DEF Covers, Front
<1> QED BY <1>12, <1>13

(* The header of a buffer is looked at.                                    *)
LEMMA ParseFront ==
  ASSUME Types, Types', ReceiveInv, LengthInv, FrontOrder, NEW n \in {0, 1}, Parse(n),
         UNCHANGED <<host, count, buf, content>>,
         \/ n = 1 /\ Landed
         \/ n = 0 /\ imgPc = "failed"
  PROVE  FrontOrder' /\ Covers(Front', Front)
<1> USE ImgFacts
<1>1. /\ imgPc \in {"recv_wait", "failed"} /\ imgPc' \notin {"recv_wait", "failed", "swap"}
      /\ ~Landed' /\ InReceive /\ ~NewHeader' /\ HandBuf = buf
      /\ n = 1 => imgPc = "recv_wait" /\ Landed
  BY DEF Parse, ParseHeader, ParseRest, NextRecv, Landed, NewHeader, InReceive, HandBuf,
     Swapping, WaitsForBuffer
<1>2. recvLen # 0 => recvLen = 1 /\ wantLen = 2 /\ ImgChunks = 2
  BY <1>1 DEF LengthInv
<1>3. n = 0 => Fresh
  BY <1>1 DEF ReceiveInv, Landed
<1>4. CASE recvLen = 0 /\ n = 0
  <2>1. imgPc' = "dead" \/ (recvLen' = 0 /\ imgPc' # "enqueue")
    BY <1>4 DEF Parse, ParseHeader, NextRecv
  <2>2. ~HasHeader'
    BY <1>1, <2>1 DEF HasHeader, InReceive, WaitsForBuffer
  <2> QED BY <2>2, FrontKept
<1>5. CASE recvLen = 0 /\ n = 1
  <2> DEFINE h == content[buf].head
  <2>1. ParseHeader(1) /\ NewHeader /\ Got = 1
    BY <1>1, <1>5 DEF Parse, NewHeader, Landed, Got
  <2>2. CASE IsInf(h) /\ imgPc' # "dead"
    <3>1. /\ hdr' = h /\ recvType' = "inf" /\ recvLen' = 1
          /\ \/ imgPc' = "get" /\ imgRet' = "swap" /\ buf = Temp
             \/ imgPc' = NextRecv(1, ImgChunks, "inf")
      BY <2>1, <2>2 DEF ParseHeader
    <3>2. HasHeader' /\ Header' = h /\ HasHeader /\ Header = h
      BY <1>1, <2>1, <2>2, <3>1 DEF HasHeader, Header, InReceive, WaitsForBuffer, NextRecv
    <3>3. HandBuf' = buf
      BY <1>1, <3>1 DEF HandBuf, Swapping, WaitsForBuffer, NextRecv
    <3>4. H(HandBuf)' = hdr'
      BY <3>1, <3>3 DEF H
    <3>5. CASE imgPc' \in {"get", "recv"}
      <4>1. InReceive'
        BY <3>1, <3>5 DEF InReceive, WaitsForBuffer, NextRecv
      <4>2. Got' = 1
        BY <1>1, <3>1, <4>1 DEF Got
      <4> QED BY <2>1, <3>2, <3>4, <4>2, FrontKept
    <3>6. CASE imgPc' \notin {"get", "recv"}
      <4>1. ImgChunks = 1
        BY <3>1, <3>6 DEF NextRecv
      <4>2. host.chunk # 1
        BY <4>1 DEF ReceiveInv
      <4> QED BY <3>2, <3>4, <4>2, FrontKept
    <3> QED BY <3>5, <3>6
  <2>3. CASE ~(IsInf(h) /\ imgPc' # "dead")
    <3>1. imgPc' \in {"dead", "cmd"}
      BY <2>1, <2>3 DEF ParseHeader
    <3>2. ~HasHeader'
      BY <1>1, <3>1 DEF HasHeader, InReceive, WaitsForBuffer
    <3> QED BY <3>2, FrontKept
  <2> QED BY <2>2, <2>3
<1>6. CASE recvLen # 0
  <2> DEFINE stray == content[buf].rest.kind = "cmd"
  <2>1. /\ recvLen = 1 /\ wantLen = 2 /\ ImgChunks = 2 /\ hdr' = hdr
        /\ recvLen' \in IF stray THEN {recvLen, recvLen + n} ELSE {recvLen + n}
        /\ recvType' = IF stray THEN "unknown" ELSE recvType
        /\ imgPc' = NextRecv(recvLen', wantLen, recvType')
    BY <1>2, <1>6 DEF Parse, ParseRest
  <2>2. Header = hdr /\ (HasHeader <=> recvType = "inf") /\ ~NewHeader
    BY <1>1, <2>1 DEF HasHeader, Header, NewHeader
  <2>3. Header' = hdr
    BY <1>1, <2>1 DEF Header
  <2>4. HasHeader' => recvType' = "inf"
    BY <1>1, <2>1 DEF HasHeader, InReceive, WaitsForBuffer, NextRecv
  <2>5. HandBuf' = buf
    BY <1>1, <2>1 DEF HandBuf, Swapping, WaitsForBuffer, NextRecv
  <2>6. HasHeader' => HasHeader /\ Header' = Header /\ H(HandBuf)' = hdr' /\ ~stray
    <3>1. HasHeader' => HasHeader /\ ~stray
      BY <2>1, <2>2, <2>4
    <3>2. H(HandBuf)' = H(HandBuf)
      BY <1>1, <2>5 DEF H
    <3>3. HasHeader => H(HandBuf) = hdr
      BY <2>2 DEF FrontOrder
    <3> QED BY <2>1, <2>2, <2>3, <3>1, <3>2, <3>3
  <2>7. CASE n = 0
    <3>1. host.open => host.chunk # 1
      BY <1>3, <2>7 DEF Fresh
    <3> QED BY <2>6, <3>1, FrontKept
  <2>8. CASE n = 1
    <3>1. HasHeader' => Got = 2 /\ Got' = 0
      <4>1. ~stray => recvLen' = 2
        BY <2>1, <2>8
      <4>2. recvLen' = 2 => imgPc' \in {"enqueue", "cmd", "put"}
        BY <2>1 DEF NextRecv
      <4>3. ~stray => ~InReceive'
        BY <4>1, <4>2 DEF InReceive, WaitsForBuffer
      <4>4. Got = 2
        BY <1>1, <2>1, <2>8 DEF Got
      <4>5. HasHeader' => Got' = 0
        BY <1>1, <2>6, <4>3 DEF Got
      <4> QED BY <4>4, <4>5
    <3> QED BY <2>6, <3>1, FrontKept
  <2> QED BY <2>7, <2>8
<1> QED BY <1>4, <1>5, <1>6

LEMMA ImgQuietFront ==
  ASSUME Types, Types', LengthInv, FrontOrder, ImgElsewhere, ~ImgSwap
  PROVE  FrontOrder' /\ Covers(Front', Front)
<1> USE ImgFacts
<1>1. UNCHANGED <<host, count, hdr, content>>
  BY DEF ImgElsewhere, ImgWaitConnection, ImgGet, ImgTakeFree, ImgUnbundle, ImgGrabFails,
     ImgRetry, ImgEnqueue, ImgCommand, ImgCommandBegins, ImgCommandDone, ImgCommandTimeout,
     ImgPutFree, ImgCleanImages, ImgCleanResults, ImgCleaned, memVars, hostVars, imgVars
<1>2. imgPc \notin {"recv_wait", "recv", "failed"} /\ imgPc' \notin {"recv_wait", "failed"}
  BY ElsewherePc
<1>3. ~NewHeader /\ ~NewHeader' /\ ~Landed /\ ~Landed' /\ Header' = Header
  BY <1>1, <1>2 DEF NewHeader, Landed, Header
<1>4. CASE ImgGet \/ ImgTakeFree \/ ImgUnbundle \/ ImgGrabFails \/ ImgRetry
  <2>1. WaitsForBuffer /\ imgRet' = imgRet /\ UNCHANGED allocated
        /\ imgPc' \in {"get", "block", "grab", "steal", "retry", "unbundle", "recv", "swap"}
    BY <1>4 DEF ImgGet, ImgTakeFree, ImgUnbundle, ImgGrabFails, ImgRetry, WaitsForBuffer,
       Received, queueVars
  <2>2. CASE imgRet = "swap"
    <3>1. InReceive /\ InReceive' /\ UNCHANGED <<recvLen, recvType>>
      BY <1>4, <2>1, <2>2 DEF InReceive, WaitsForBuffer, ImgGet, ImgTakeFree, ImgUnbundle,
         ImgGrabFails, ImgRetry, Received
    <3>2. imgPc # "enqueue" /\ imgPc' # "enqueue"
      BY <2>1 DEF WaitsForBuffer
    <3>3. (HasHeader' <=> HasHeader) /\ Got' = Got
      BY <1>3, <3>1, <3>2 DEF HasHeader, Got
    <3>4. allocated
      BY <2>1, <2>2 DEF LengthInv
    <3>5. imgPc' # "recv"
      BY <1>4, <2>2, <3>4 DEF ImgGet, ImgTakeFree, ImgUnbundle, ImgGrabFails, ImgRetry, Received
    <3>6. HandBuf = Temp /\ HandBuf' = Temp
      BY <2>1, <2>2, <3>5 DEF HandBuf, Swapping, WaitsForBuffer
    <3>7. H(HandBuf)' = H(HandBuf)
      BY <1>1, <3>6 DEF H
    <3>8. HasHeader => H(HandBuf)' = hdr'
      BY <1>1, <1>3, <3>7 DEF FrontOrder
    <3> QED BY <1>1, <1>3, <3>3, <3>8, FrontKept
  <2>3. CASE imgRet = "recv"
    <3>1. recvLen' = 0
          /\ imgPc' \in {"get", "block", "grab", "steal", "retry", "unbundle", "recv"}
      BY <1>4, <2>1, <2>3 DEF WaitsForBuffer, ImgGet, ImgTakeFree, ImgUnbundle,
         ImgGrabFails, ImgRetry, Received, LengthInv
    <3>2. ~HasHeader'
      BY <1>3, <3>1 DEF HasHeader
    <3> QED BY <1>1, <3>2, FrontKept
  <2> QED BY <2>1, <2>2, <2>3 DEF LengthInv
<1>5. CASE \/ ImgWaitConnection \/ ImgEnqueue \/ ImgCommand
           \/ ImgCommandBegins \/ ImgCommandDone \/ ImgCommandTimeout \/ ImgPutFree
           \/ ImgCleanImages \/ ImgCleanResults \/ ImgCleaned
  <2>1. \/ imgPc' = "get" /\ imgRet' = "recv"
        \/ imgPc' \in {"wait", "cmd_wait", "put", "hung", "clean_img", "clean_res"}
    <3>1. CASE ImgWaitConnection \/ ImgPutFree \/ ImgEnqueue
      BY <3>1 DEF ImgWaitConnection, ImgPutFree, ImgEnqueue
    <3>2. CASE ImgCommand \/ ImgCommandBegins \/ ImgCommandDone \/ ImgCommandTimeout
      BY <3>2 DEF ImgCommand, ImgCommandBegins, ImgCommandDone, ImgCommandTimeout, imgVars
    <3>3. CASE ImgCleanImages \/ ImgCleanResults \/ ImgCleaned
      BY <3>3 DEF ImgCleanImages, ImgCleanResults, ImgCleaned, imgVars, LengthInv
    <3> QED BY <1>5, <3>1, <3>2, <3>3
  <2>2. ~HasHeader'
    BY <1>3, <2>1 DEF HasHeader, InReceive, WaitsForBuffer
  <2> QED BY <1>1, <2>2, FrontKept
<1> QED BY <1>4, <1>5 DEF ImgElsewhere

LEMMA SwapFront ==
  ASSUME Types, Types', ReceiveInv, LengthInv, FrontOrder, ImgSwap
  PROVE  FrontOrder' /\ Covers(Front', Front)
<1> USE ImgFacts
<1>1. /\ imgPc = "swap" /\ UNCHANGED <<host, count, hdr, buf, recvLen, recvType, wantLen>>
      /\ imgPc' = "dead" \/ imgPc' = NextRecv(recvLen, wantLen, recvType)
      /\ imgRet' = "recv"
      /\ content' = IF recvLen = 0 THEN content ELSE [content EXCEPT ![buf] = content[Temp]]
  BY DEF ImgSwap, hostVars
<1>2. recvType = "inf" /\ wantLen = ImgChunks /\ recvLen \in {0, 1}
  BY <1>1 DEF LengthInv
<1>3. imgPc' \in {"dead", "recv", "enqueue"} /\ (imgPc' = "enqueue" => recvLen = 1 /\ ImgChunks = 1)
  BY <1>1, <1>2 DEF NextRecv
<1>4. ~NewHeader /\ ~NewHeader' /\ ~Landed /\ ~Landed' /\ Header' = Header /\ InReceive
  BY <1>1, <1>3 DEF NewHeader, Landed, Header, InReceive
<1>5. CASE imgPc' = "dead" \/ recvLen = 0
  <2>1. ~HasHeader'
    BY <1>1, <1>3, <1>4, <1>5 DEF HasHeader, InReceive, WaitsForBuffer
  <2> QED BY <1>1, <2>1, FrontKept
<1>6. CASE imgPc' # "dead" /\ recvLen # 0
  <2>1. HasHeader /\ HandBuf = Temp /\ HandBuf' = buf
    BY <1>1, <1>2, <1>3, <1>4, <1>6 DEF HasHeader, HandBuf, Swapping, WaitsForBuffer
  <2>2. content'[buf].head = content[Temp].head
    BY <1>1, <1>6
  <2>3. H(HandBuf)' = hdr'
    BY <1>1, <1>4, <2>1, <2>2 DEF FrontOrder, H
  <2>4. CASE imgPc' = "recv"
    <3>1. Got' = Got
      BY <1>1, <1>4, <2>4 DEF Got, InReceive
    <3> QED BY <1>1, <1>4, <2>1, <2>3, <3>1, FrontKept
  <2>5. CASE imgPc' = "enqueue"
    <3>1. host.chunk # 1
      BY <1>3, <2>5 DEF ReceiveInv
    <3> QED BY <1>1, <1>4, <2>1, <2>3, <3>1, FrontKept
  <2> QED BY <1>3, <1>6, <2>4, <2>5
<1> QED BY <1>5, <1>6

LEMMA ImgFront ==
  ASSUME Types, Types', ReceiveInv, LengthInv, FrontOrder, ImgNext, ~late'
  PROVE  FrontOrder' /\ Covers(Front', Front)
<1> USE ImgFacts
<1>1. CASE ImgElsewhere
  BY <1>1, ImgQuietFront, SwapFront
<1>2. CASE ImgReceive \/ ImgMark \/ ImgArm \/ (ImgReceived /\ ep["out"] # "done")
  <2>1. imgPc \in {"recv", "mark", "arm", "recv_wait"}
        /\ UNCHANGED <<host, count, recvLen, recvType, hdr>>
        /\ imgPc' \in {"mark", "arm", "recv_wait", "failed"} /\ UNCHANGED <<buf, content>>
    BY <1>2 DEF ImgReceive, ImgMark, ImgArm, ImgReceived, queueVars, hostVars, memVars
  <2>2. ~Landed /\ ~Landed' /\ InReceive /\ InReceive' /\ ~NewHeader /\ ~NewHeader'
    BY <1>2, <2>1 DEF ImgReceive, ImgMark, ImgArm, ImgReceived, Landed, InReceive, NewHeader
  <2>3. (HasHeader' <=> HasHeader) /\ Header' = Header /\ Got' = Got
    BY <2>1, <2>2 DEF HasHeader, Header, Got
  <2>4. HandBuf = buf /\ HandBuf' = buf
    BY <2>1 DEF HandBuf, Swapping, WaitsForBuffer
  <2>5. HasHeader => H(HandBuf)' = hdr'
    BY <2>1, <2>2, <2>4 DEF FrontOrder, H
  <2> QED BY <2>1, <2>2, <2>3, <2>5, FrontKept
<1>3. CASE ImgReceived /\ ep["out"] = "done"
  <2>1. imgPc = "recv_wait" /\ UNCHANGED <<host, count, buf, content>> /\ Parse(1) /\ Landed
    BY <1>3 DEF ImgReceived, hostVars, memVars, Landed
  <2> QED BY <2>1, ParseFront
<1>4. CASE ImgFailed
  <2>1. imgPc = "failed" /\ UNCHANGED <<host, count, buf, content>>
    BY <1>4 DEF ImgFailed, hostVars, memVars
  <2>2. CASE Parse(0)
    BY <2>1, <2>2, ParseFront
  <2>3. CASE imgPc' = "clean_img"
    <3>1. ~HasHeader'
      BY <2>3 DEF HasHeader, InReceive, WaitsForBuffer, NewHeader, Landed
    <3> QED BY <2>1, <3>1, FrontKept
  <2> QED BY <1>4, <2>2, <2>3 DEF ImgFailed
<1> QED BY <1>1, <1>2, <1>3, <1>4 DEF ImgNext, ImgElsewhere

LEMMA StepFront ==
  ASSUME Types, Types', Receiving, ReceiveInv, LengthInv, LineInv, FrontOrder, [Next]_vars,
         ~torn', ~late, ~late'
  PROVE  FrontOrder' /\ Covers(Front', Front)
BY OthersFront, LinkFront, HostQuietFront, BeginsFront, CommandFront, ImageFront, ImgFront
   DEF Next, HostNext

LEMMA WaitingApart ==
  ASSUME Types, NoNull, QueuesReal, AllInPlace
  PROVE  \A b : Waits(b) => b \in ImgBufs /\ (ImgHolds => b # buf)
<1> SUFFICES ASSUME NEW b, Waits(b) PROVE b \in ImgBufs /\ (ImgHolds => b # buf)
  OBVIOUS
<1>a. ASSUME b \in Slots, b # NULL, b # Temp PROVE b \in ImgBufs
  BY <1>a DEF Slots, AnyBuf
<1>b. ASSUME b \in ImgBufs, owner[b] # "img" PROVE ImgHolds => b # buf
  BY <1>b DEF AllInPlace, ImgInPlace, HeldBeside
<1>1. CASE \E i \in DOMAIN imgData : b \in BufsOf(imgData[i])
  <2>1. PICK i \in DOMAIN imgData : \E k \in DOMAIN imgData[i] : b = imgData[i][k]
    BY <1>1 DEF BufsOf
  <2>2. PICK k \in DOMAIN imgData[i] : b = imgData[i][k]
    BY <2>1
  <2>3. imgData \in Seq(Seq(Slots) \ {<<>>})
    BY DEF Types, TypeOK, QueueTypeOK, ImgQueueTypeOK
  <2>4. imgData[i] \in Seq(Slots)
    BY <2>3
  <2>5. b \in Slots
    BY <2>2, <2>4
  <2>6. b # NULL /\ b # Temp
    BY <1>1 DEF NoNull, ObjectsComplete, QueuesReal, Lacks
  <2>7. b \in ImgBufs
    BY <1>a, <2>5, <2>6
  <2>8. owner[b] = "data"
    BY <2>2, <2>7 DEF AllInPlace, ObjectsInPlace
  <2> QED BY <1>b, <2>7, <2>8
<1>2. CASE \E i \in DOMAIN tempQ : b = tempQ[i].buf
  <2>1. PICK i \in DOMAIN tempQ : b = tempQ[i].buf
    BY <1>2
  <2>2. tempQ \in Seq(SpecialObjects)
    BY DEF Types, TypeOK, QueueTypeOK, ImgQueueTypeOK
  <2>3. b \in Slots
    <3>1. tempQ[i] \in SpecialObjects
      BY <2>2
    <3> QED BY <2>1, <3>1 DEF SpecialObjects
  <2>4. b # NULL /\ b # Temp
    BY <2>1 DEF NoNull, QueuesReal
  <2>5. b \in ImgBufs
    BY <1>a, <2>3, <2>4
  <2>6. i \in DOMAIN TempBufs /\ TempBufs[i] = b
    BY <2>1 DEF TempBufs
  <2>7. owner[b] = "temp"
    BY <2>5, <2>6 DEF AllInPlace, InPlace
  <2> QED BY <1>b, <2>5, <2>7
<1>3. CASE \E i \in StoredAt : b = stored[i]
  <2>1. PICK i \in Indices : b = stored[i] /\ b # NULL
    BY <1>3 DEF StoredAt
  <2>2. b \in Slots /\ b # Temp /\ i \in DOMAIN stored
    BY <2>1, MgrFacts DEF QueuesReal
  <2>3. b \in ImgBufs
    BY <1>a, <2>1, <2>2
  <2>4. owner[b] = "mgr"
    BY <2>1, <2>2, <2>3 DEF AllInPlace, MgrInPlace, InPlace
  <2> QED BY <1>b, <2>3, <2>4
<1>4. CASE mgrPc = "putback" /\ b = received.buf
  <2>1. b \in Slots
    BY <1>4, MgrFacts DEF SpecialObjects
  <2>2. b # NULL /\ b # Temp
    BY <1>4 DEF NoNull, QueuesReal
  <2>3. b \in ImgBufs
    BY <1>a, <2>1, <2>2
  <2>4. owner[b] = "mgr"
    BY <1>4, <2>3 DEF AllInPlace, MgrInPlace, HeldBeside
  <2> QED BY <1>b, <2>3, <2>4
<1>5. CASE b \in BufsOf(obj)
  <2>1. PICK k \in DOMAIN obj : b = obj[k]
    BY <1>5 DEF BufsOf
  <2>2. b \in Slots
    BY <2>1, PlaceTypes
  <2>3. b # NULL /\ b # Temp
    BY <1>5 DEF NoNull, QueuesReal
  <2>4. b \in ImgBufs
    BY <1>a, <2>2, <2>3
  <2>5. owner[b] = "inf"
    BY <2>1, <2>4 DEF AllInPlace, InPlace
  <2> QED BY <1>b, <2>4, <2>5
<1> QED BY <1>1, <1>2, <1>3, <1>4, <1>5 DEF Waits

(* Nobody writes to a buffer that waits.                                   *)
LEMMA ContentStays ==
  ASSUME Types, Receiving, ~late, NoNull, QueuesReal, AllInPlace, [Next]_vars
  PROVE  \A b : Waits(b) => H(b)' = H(b)
<1> USE ImgFacts
<1>1. CASE HostSendsImage \/ HostSendsCommand
  <2>1. \E item : Land(item)
    BY <1>1 DEF HostSendsImage, HostSendsCommand
  <2>2. link /\ UNCHANGED <<imgVars, dma>>
    BY <1>1 DEF HostSendsImage, HostSendsCommand
  <2>4. imgPc = "recv_wait" /\ dma.buf = buf
    BY <2>1, <2>2 DEF Receiving, Land
  <2>5. ~Waits(buf)
    BY <2>4, WaitingApart DEF ImgHolds
  <2>6. \A b \in Slots : b # buf => content'[b] = content[b]
    BY <2>1, <2>4 DEF Land
  <2> QED BY <2>5, <2>6, WaitingApart DEF H, Slots, AnyBuf
<1>2. CASE ImgSwap
  <2>1. ~Waits(buf)
    BY <1>2, WaitingApart DEF ImgHolds, ImgSwap
  <2>2. \A b \in Slots : b # buf => content'[b] = content[b]
    BY <1>2 DEF ImgSwap
  <2> QED BY <2>1, <2>2, WaitingApart DEF H, Slots, AnyBuf
<1>3. CASE ~(HostSendsImage \/ HostSendsCommand \/ ImgSwap)
  <2>1. content' = content
    <3>1. CASE ImgNext
      BY <1>3, <3>1 DEF ImgNext, ImgWaitConnection, ImgGet, ImgTakeFree, ImgUnbundle,
         ImgGrabFails, ImgRetry, ImgReceive, ImgMark, ImgArm, ImgReceived, ImgFailed,
         ImgEnqueue, ImgCommand, ImgCommandBegins, ImgCommandDone, ImgCommandTimeout,
         ImgPutFree, ImgCleanImages, ImgCleanResults, ImgCleaned, memVars
    <3>2. CASE ~ImgNext
      BY <1>3, <3>2 DEF Next, LinkNext, Configured, Disconnected, VbusOff, LinkLost,
         ErrandResetDevice, HostNext, ControlConfigure, ControlReset, ControlDroppable,
         HostBegins, SendDma, HostReads, BufMgrNext, InfNext, InfDequeue, InfGetResultBuffer,
         InfExecute, InfPutFree, SendNext, SendDequeue, SendStart, SendBegins, SendDone,
         SendHangs, SendPutFree, vars, memVars
    <3> QED BY <3>1, <3>2
  <2> QED BY <2>1 DEF H
<1> QED BY <1>1, <1>2, <1>3

LEMMA TempFacts == ASSUME Types PROVE
  /\ \A i \in DOMAIN tempQ : Dated(H(tempQ[i].buf)) /\ H(tempQ[i].buf) \in TempItems
  /\ \A x \in TempItems : Dated(x)
  /\ \A x \in MgrItems : Dated(x)
  /\ \A y \in Coming : Dated(y)
<1>1. ASSUME NEW i \in DOMAIN tempQ PROVE Dated(H(tempQ[i].buf)) /\ H(tempQ[i].buf) \in TempItems
  <2>1. tempQ[i] \in SpecialObjects
    BY MgrFacts
  <2>2. tempQ[i].buf \in Slots
    BY <2>1, MgrFacts
  <2> QED BY <2>2, AllDated DEF TempItems
<1>2. \A x \in TempItems : Dated(x)
  BY <1>1 DEF TempItems
<1>3. ASSUME NEW x \in MgrItems PROVE Dated(x)
  <2>1. CASE \E i \in StoredAt : x = H(stored[i])
    BY <2>1, MgrFacts, AllDated
  <2>2. CASE mgrPc = "putback" /\ x = H(received.buf)
    BY <2>2, MgrFacts, AllDated
  <2>3. \/ x \in {H(stored[i]) : i \in StoredAt}
        \/ x \in (IF mgrPc = "putback" THEN {H(received.buf)} ELSE {})
    BY DEF MgrItems
  <2> QED BY <2>1, <2>2, <2>3
<1>4. \A y \in Coming : Dated(y)
  BY <1>2, AllDated DEF Coming
<1> QED BY <1>1, <1>2, <1>3, <1>4

ComingIsDated == \A y \in Coming : Dated(y)

LEMMA ComingDated == Types => ComingIsDated
BY TempFacts DEF ComingIsDated

LEMMA ComingDatedNext == Types' => ComingIsDated'
BY ComingDated, PTL

PendingIsDated == \A y \in Pending : Dated(y)

LEMMA PendingDated == Types => PendingIsDated
BY TempFacts DEF PendingIsDated, Pending

LEMMA PendingDatedNext == Types' => PendingIsDated'
BY PendingDated, PTL

(* The queue is left alone.                                                *)
LEMMA TempKept ==
  ASSUME Types, Types', TempOrder, UNCHANGED tempQ, Covers(Front', Front),
         \A b : Waits(b) => H(b)' = H(b)
  PROVE  TempOrder' /\ TempItems' = TempItems
<1>1. \A i \in DOMAIN tempQ : H(tempQ[i].buf)' = H(tempQ[i].buf)
  BY DEF Waits
<1>2. TempItems' = TempItems
  BY <1>1 DEF TempItems
<1>3. ASSUME NEW i \in DOMAIN tempQ' PROVE /\ H(tempQ[i].buf)'.index = tempQ[i]'.index
                                           /\ H(tempQ[i].buf)'.total = tempQ[i]'.total
  BY <1>1 DEF TempOrder
<1>4. ASSUME NEW x \in TempItems', NEW y \in Front' PROVE After(x, y)
  <2>1. PICK z \in Front : Upto(z, y)
    BY DEF Covers
  <2>2. After(x, z) /\ Dated(x) /\ Dated(z) /\ Dated(y)
    <3>1. After(x, z) /\ Dated(x) /\ Dated(z)
      BY <1>2, TempFacts, AllDated DEF TempOrder
    <3>2. \A v \in Front' : Dated(v)
      BY ComingDatedNext DEF ComingIsDated, Coming
    <3> QED BY <3>1, <3>2
  <2> QED BY <2>1, <2>2, AfterUpto
<1>5. ASSUME NEW i \in DOMAIN tempQ', NEW j \in DOMAIN tempQ', i < j
      PROVE  After(H(tempQ[i].buf)', H(tempQ[j].buf)')
  BY <1>1, <1>5 DEF TempOrder
<1> QED BY <1>2, <1>3, <1>4, <1>5 DEF TempOrder

(* The image in the thread's hands goes to the end of the queue.           *)
LEMMA TempGrows ==
  ASSUME Types, Types', LineInv, FrontOrder, TempOrder, ImgEnqueue
  PROVE  /\ TempOrder' /\ Coming' \subseteq Coming
<1> USE ImgFacts
<1> DEFINE x == [total |-> hdr.total, index |-> IF hdr.total = 1 THEN 0 ELSE hdr.index, buf |-> buf]
<1>1. /\ imgPc = "enqueue" /\ imgPc' = "get" /\ imgRet' = "recv"
      /\ tempQ' = Append(tempQ, x) /\ UNCHANGED <<buf, host, count, content>>
  BY HasImages DEF ImgEnqueue, image_enqueue, hostVars, memVars
<1>2. HasHeader /\ ~HasHeader' /\ Got = 0 /\ Header = hdr /\ ~NewHeader /\ HandBuf = buf
  BY <1>1 DEF HasHeader, Got, InReceive, WaitsForBuffer, NewHeader, Landed, Header, HandBuf, Swapping
<1>3. H(buf) = hdr /\ H(buf)' = hdr /\ hdr.req <= count.req /\ (host.open => After(hdr, host))
  <2>1. H(buf) = hdr /\ hdr.req <= count.req /\ (host.open => After(hdr, host))
    BY <1>2 DEF FrontOrder
  <2>2. H(buf)' = H(buf)
    BY <1>1 DEF H
  <2> QED BY <2>1, <2>2
<1>4. x.index = hdr.index /\ x.total = hdr.total /\ x \in SpecialObjects /\ x.buf = buf
  <2>1. hdr.index \in Indices /\ hdr.total \in 1 .. MaxInput /\ hdr.index < hdr.total
    BY <1>2 DEF Items, LineInv
  <2>2. hdr.total = 1 => hdr.index = 0
    BY <2>1, SizesAssumption DEF Indices
  <2> QED BY <2>1, <2>2 DEF SpecialObjects
<1> HIDE DEF x
<1>z. PICK L \in Nat : L = Len(tempQ)
  BY MgrFacts
<1>5. /\ DOMAIN tempQ' = 1 .. L + 1 /\ DOMAIN tempQ = 1 .. L /\ L \in Nat
      /\ tempQ'[L + 1] = x /\ \A i \in 1 .. L : tempQ'[i] = tempQ[i]
  BY <1>1, <1>4, <1>z, MgrFacts, LineAppends
<1>6. \A i \in 1 .. L : H(tempQ[i].buf)' = H(tempQ[i].buf)
  BY <1>1, <1>5 DEF H
<1>7. hdr \in Front /\ HostItems' = HostItems /\ Front' = HostItems /\ HostItems \subseteq Front
  BY <1>1, <1>2 DEF Front, HandItems, HostItems, HostItem, NextItem
<1>8. H(tempQ[L + 1].buf)' = hdr
  <2>1. H(tempQ[L + 1].buf)' = content'[tempQ'[L + 1].buf].head
    BY DEF H
  <2>2. tempQ'[L + 1].buf = buf
    BY <1>4, <1>5
  <2>3. content'[buf].head = hdr
    BY <1>1, <1>3 DEF H
  <2> QED BY <2>1, <2>2, <2>3
<1>9. \A z \in TempItems' : z \in TempItems \/ z = hdr
  <2> SUFFICES ASSUME NEW i \in 1 .. L + 1 PROVE H(tempQ[i].buf)' \in TempItems \cup {hdr}
    BY <1>5 DEF TempItems
  <2>1. CASE i = L + 1
    BY <1>8, <2>1
  <2>2. CASE i # L + 1
    <3>1. i \in 1 .. L
      BY <1>5, <2>2
    <3> QED BY <1>5, <1>6, <3>1 DEF TempItems
  <2> QED BY <2>1, <2>2
<1>10. Coming' \subseteq Coming
  BY <1>7, <1>9 DEF Coming
<1>11. ASSUME NEW y \in HostItems PROVE After(hdr, y)
  <2>1. CASE y = NextItem
    BY <1>3, <2>1, AllDated DEF After, Dated
  <2>2. CASE host.open /\ y = HostItem("inf")
    BY <1>3, <2>2, AllDated DEF After
  <2> QED BY <2>1, <2>2 DEF HostItems
<1>12. ASSUME NEW i \in DOMAIN tempQ' PROVE /\ H(tempQ[i].buf)'.index = tempQ'[i].index
                                            /\ H(tempQ[i].buf)'.total = tempQ'[i].total
  <2>1. CASE i = L + 1
    BY <1>4, <1>5, <1>8, <2>1
  <2>2. CASE i # L + 1
    <3>1. i \in 1 .. L
      BY <1>5, <2>2
    <3> QED BY <1>5, <1>6, <3>1 DEF TempOrder
  <2> QED BY <2>1, <2>2
<1>13. ASSUME NEW z \in TempItems', NEW y \in Front' PROVE After(z, y)
  BY <1>7, <1>9, <1>11 DEF TempOrder
<1>14. ASSUME NEW i \in DOMAIN tempQ', NEW j \in DOMAIN tempQ', i < j
       PROVE  After(H(tempQ[i].buf)', H(tempQ[j].buf)')
  <2>1. i \in 1 .. L
    BY <1>5, <1>14
  <2>2. CASE j = L + 1
    <3>1. H(tempQ[i].buf)' \in TempItems
      BY <1>5, <1>6, <2>1 DEF TempItems
    <3> QED BY <1>7, <1>8, <2>2, <3>1 DEF TempOrder
  <2>3. CASE j # L + 1
    <3>1. j \in 1 .. L
      BY <1>5, <2>3
    <3> QED BY <1>5, <1>6, <1>14, <2>1, <3>1 DEF TempOrder
  <2> QED BY <2>2, <2>3
<1> QED BY <1>10, <1>12, <1>13, <1>14 DEF TempOrder

(* buf_mgr takes its head.                                                 *)
LEMMA TempShrinks ==
  ASSUME Types, Types', TempOrder, BufMgrNext, MgrGet
  PROVE  /\ TempOrder' /\ Coming' \subseteq Coming /\ content' = content
         /\ 1 \in DOMAIN tempQ /\ received' = tempQ[1] /\ H(tempQ[1].buf) \in Coming
         /\ \A y \in Coming' : After(H(tempQ[1].buf), y)
<1> USE ImgFacts
<1>1. /\ tempQ # <<>> /\ tempQ' = Tail(tempQ) /\ received' = Head(tempQ)
      /\ UNCHANGED <<imgVars, ep, content, host, count>>
  BY DEF BufMgrNext, MgrGet, linkVars, epVars, memVars, hostVars
<1>2. Front' = Front
  BY <1>1 DEF Front, HandItems, HasHeader, Header, NewHeader, InReceive, WaitsForBuffer, Landed,
     HostItems, HostItem, NextItem, imgVars
<1>z. PICK L \in Nat : L = Len(tempQ)
  BY MgrFacts
<1>3. /\ DOMAIN tempQ' = 1 .. L - 1 /\ DOMAIN tempQ = 1 .. L /\ L \in Nat /\ L >= 1
      /\ received' = tempQ[1]
      /\ \A i \in 1 .. L - 1 : tempQ'[i] = tempQ[i + 1]
  BY <1>1, <1>z, MgrFacts, LineTails
<1>4. \A i \in 1 .. L - 1 : i + 1 \in DOMAIN tempQ /\ H(tempQ[i].buf)' = H(tempQ[i + 1].buf)
  <2> SUFFICES ASSUME NEW i \in 1 .. L - 1
               PROVE  i + 1 \in DOMAIN tempQ /\ H(tempQ[i].buf)' = H(tempQ[i + 1].buf)
    OBVIOUS
  <2>1. H(tempQ[i].buf)' = content'[tempQ'[i].buf].head
    BY DEF H
  <2> QED BY <1>1, <1>3, <2>1 DEF H
<1>5. TempItems' \subseteq TempItems
  <2> SUFFICES ASSUME NEW i \in 1 .. L - 1 PROVE H(tempQ[i].buf)' \in TempItems
    BY <1>3 DEF TempItems
  <2>1. H(tempQ[i].buf)' = H(tempQ[i + 1].buf) /\ i + 1 \in DOMAIN tempQ
    BY <1>4
  <2> QED BY <2>1 DEF TempItems
<1>6. Coming' \subseteq Coming
  BY <1>2, <1>5 DEF Coming
<1>7. 1 \in DOMAIN tempQ
  BY <1>3
<1>8. H(tempQ[1].buf) \in Coming
  BY <1>7, TempFacts DEF Coming
<1>9. ASSUME NEW y \in Coming' PROVE After(H(tempQ[1].buf), y)
  <2>1. CASE y \in Front
    BY <1>7, <2>1, TempFacts DEF TempOrder
  <2>2. CASE y \in TempItems'
    <3>1. PICK i \in 1 .. L - 1 : y = H(tempQ[i].buf)'
      BY <1>3, <2>2 DEF TempItems
    <3>2. y = H(tempQ[i + 1].buf) /\ i + 1 \in DOMAIN tempQ /\ 1 < i + 1
      BY <1>4, <3>1
    <3> QED BY <1>7, <3>2 DEF TempOrder
  <2> QED BY <1>2, <2>1, <2>2 DEF Coming
<1>10. ASSUME NEW i \in DOMAIN tempQ' PROVE /\ H(tempQ[i].buf)'.index = tempQ'[i].index
                                            /\ H(tempQ[i].buf)'.total = tempQ'[i].total
  <2>1. i \in 1 .. L - 1 /\ i + 1 \in DOMAIN tempQ /\ H(tempQ[i].buf)' = H(tempQ[i + 1].buf)
    BY <1>3, <1>4
  <2>2. /\ H(tempQ[i + 1].buf).index = tempQ[i + 1].index
        /\ H(tempQ[i + 1].buf).total = tempQ[i + 1].total
    BY <2>1 DEF TempOrder
  <2> QED BY <1>3, <2>1, <2>2
<1>11. ASSUME NEW x \in TempItems', NEW y \in Front' PROVE After(x, y)
  BY <1>2, <1>5 DEF TempOrder
<1>12. ASSUME NEW i \in DOMAIN tempQ', NEW j \in DOMAIN tempQ', i < j
       PROVE  After(H(tempQ[i].buf)', H(tempQ[j].buf)')
  <2>1. i + 1 < j + 1 /\ i + 1 \in DOMAIN tempQ /\ j + 1 \in DOMAIN tempQ
    BY <1>3, <1>12
  <2>2. After(H(tempQ[i + 1].buf), H(tempQ[j + 1].buf))
    BY <2>1 DEF TempOrder
  <2> QED BY <1>3, <1>4, <2>2
<1>13. TempOrder'
  BY <1>10, <1>11, <1>12 DEF TempOrder
<1> QED BY <1>1, <1>3, <1>6, <1>7, <1>8, <1>9, <1>13

LEMMA StepTemp ==
  ASSUME Types, Types', LineInv, FrontOrder, TempOrder, Covers(Front', Front),
         \A b : Waits(b) => H(b)' = H(b), [Next]_vars
  PROVE  TempOrder' /\ Covers(Coming', Coming)
<1>1. \A y \in Coming' : Dated(y)
  BY ComingDatedNext DEF ComingIsDated
<1>2. CASE ImgEnqueue
  BY <1>1, <1>2, TempGrows, CoversPart
<1>3. CASE BufMgrNext /\ MgrGet
  BY <1>1, <1>3, TempShrinks, CoversPart
<1>4. CASE ~ImgEnqueue /\ ~(BufMgrNext /\ MgrGet)
  <2>1. UNCHANGED tempQ
    BY <1>4 DEF Next, LinkNext, Configured, Disconnected, VbusOff, LinkLost,
       ErrandResetDevice, HostNext, ControlConfigure, ControlReset, ControlDroppable,
       HostBegins, HostSendsImage, HostSendsCommand, SendDma, HostReads, BufMgrNext, MgrNext,
       MgrPutBack, MgrEnqueue, InfNext, InfDequeue, InfGetResultBuffer, InfExecute, InfPutFree,
       SendNext, SendDequeue, SendStart, SendBegins, SendDone, SendHangs, SendPutFree, vars,
       queueVars, imgQueues, ImgNext, ImgWaitConnection, ImgGet, ImgTakeFree, ImgUnbundle,
       ImgGrabFails, ImgRetry, ImgReceive, ImgMark, ImgArm, ImgReceived, ImgFailed, ImgSwap,
       ImgCommand, ImgCommandBegins, ImgCommandDone, ImgCommandTimeout, ImgPutFree,
       ImgCleanImages, ImgCleanResults, ImgCleaned
  <2>2. TempOrder' /\ TempItems' = TempItems
    BY <2>1, TempKept
  <2>3. ASSUME NEW y \in Coming' PROVE \E z \in Coming : Upto(z, y)
    <3>1. CASE y \in TempItems'
      BY <1>1, <2>2, <3>1, UptoSelf DEF Coming
    <3>2. CASE y \in Front'
      BY <3>2 DEF Covers, Coming
    <3> QED BY <3>1, <3>2 DEF Coming
  <2> QED BY <2>2, <2>3 DEF Covers
<1> QED BY <1>2, <1>3, <1>4

(* Nothing comes to buf_mgr.                                               *)
LEMMA MgrKept ==
  ASSUME Types, Types', MgrOrder, UNCHANGED <<mgrPc, received, stored>>, Covers(Coming', Coming),
         \A b : Waits(b) => H(b)' = H(b)
  PROVE  MgrOrder' /\ MgrItems' = MgrItems
<1>1. StoredAt' = StoredAt
  BY DEF StoredAt
<1>2. \A i \in StoredAt : H(stored[i])' = H(stored[i])
  BY DEF Waits
<1>3. mgrPc = "putback" => H(received.buf)' = H(received.buf)
  BY DEF Waits
<1>4. MgrItems' = MgrItems
  BY <1>1, <1>2, <1>3 DEF MgrItems
<1>5. ASSUME NEW x \in MgrItems, NEW y \in Coming' PROVE After(x, y)
  <2>1. PICK z \in Coming : Upto(z, y)
    BY DEF Covers
  <2>2. After(x, z) /\ Dated(x) /\ Dated(z)
    BY TempFacts DEF MgrOrder
  <2>3. Dated(y)
    BY ComingDatedNext DEF ComingIsDated
  <2> QED BY <2>1, <2>2, <2>3, AfterUpto
<1>6. mgrPc' = "putback" => /\ H(received.buf)'.index = received'.index
                            /\ H(received.buf)'.total = received'.total
                            /\ \A i \in StoredAt' : After(H(stored[i])', H(received.buf)')
  BY <1>1, <1>2, <1>3 DEF MgrOrder
<1>7. mgrPc' = "enqueue" =>
        /\ received'.index \in StoredAt'
        /\ H(stored[received.index])'.index = received'.index
        /\ H(stored[received.index])'.total = received'.total
        /\ \A i \in StoredAt' \ {received'.index} :
             After(H(stored[i])', H(stored[received.index])')
  BY <1>1, <1>2 DEF MgrOrder
<1> QED BY <1>4, <1>5, <1>6, <1>7 DEF MgrOrder

(* It takes the head of the temporary queue.                               *)
LEMMA MgrGetOrder ==
  ASSUME Types, Types', NoNull, TempOrder, MgrOrder, BufMgrNext, MgrGet
  PROVE  MgrOrder' /\ Covers(Pending', Pending)
<1> USE MgrFacts
<1>1. PICK r \in SpecialObjects :
        /\ r = tempQ[1] /\ received' = r /\ H(r.buf) \in Coming /\ r.buf # NULL
        /\ H(r.buf).index = r.index /\ H(r.buf).total = r.total
        /\ \A y \in Coming' : After(H(r.buf), y)
  <2>1. /\ 1 \in DOMAIN tempQ /\ received' = tempQ[1] /\ H(tempQ[1].buf) \in Coming
        /\ \A y \in Coming' : After(H(tempQ[1].buf), y)
    BY TempShrinks
  <2>2. tempQ[1] \in SpecialObjects
    BY <2>1
  <2> QED BY <2>1, <2>2 DEF TempOrder, NoNull
<1>2. content' = content /\ Coming' \subseteq Coming
  BY TempShrinks
<1>3. mgrPc = "get" /\ \/ mgrPc' = "putback" /\ UNCHANGED stored
                       \/ stored[r.index] = NULL /\ Store(r, numReceived + 1)
  <2>1. Head(tempQ) = r
    BY <1>1 DEF MgrGet
  <2> QED BY <2>1 DEF MgrGet
<1>4. r.index \in Indices /\ r.buf \in Slots
  OBVIOUS
<1>5. ASSUME NEW i \in StoredAt PROVE After(H(stored[i]), H(r.buf))
  BY <1>1 DEF MgrOrder, MgrItems
<1>6. ASSUME NEW x \in MgrItems' PROVE x \in MgrItems \/ x = H(r.buf)
  <2>1. CASE mgrPc' = "putback" /\ UNCHANGED stored
    BY <1>1, <1>2, <2>1 DEF MgrItems, StoredAt, H
  <2>2. CASE Store(r, numReceived + 1)
    <3>1. mgrPc' # "putback" /\ stored' = [stored EXCEPT ![r.index] = r.buf]
      BY <2>2 DEF Store
    <3>2. PICK i \in StoredAt' : x = content'[stored'[i]].head
      BY <3>1 DEF MgrItems, H
    <3>3. CASE i = r.index
      BY <1>2, <1>4, <3>1, <3>2, <3>3 DEF H
    <3>4. CASE i # r.index
      <4>1. i \in StoredAt /\ stored'[i] = stored[i]
        BY <3>1, <3>2, <3>4 DEF StoredAt
      <4> QED BY <1>2, <3>2, <4>1 DEF MgrItems, H
    <3> QED BY <3>3, <3>4
  <2> QED BY <1>3, <2>1, <2>2
<1>7. ASSUME NEW x \in MgrItems', NEW y \in Coming' PROVE After(x, y)
  BY <1>1, <1>2, <1>6 DEF MgrOrder
<1>8. Covers(Pending', Pending)
  <2>1. Pending' \subseteq Pending
    BY <1>1, <1>2, <1>6 DEF Pending
  <2>2. \A x \in Pending : Dated(x)
    BY TempFacts DEF Pending
  <2> QED BY <2>1, <2>2, CoversPart
<1>9. CASE mgrPc' = "putback" /\ UNCHANGED stored
  <2>1. \A b : H(b)' = H(b)
    BY <1>2 DEF H
  <2>2. StoredAt' = StoredAt
    BY <1>9 DEF StoredAt
  <2>3. H(received.buf)' = H(r.buf)
    BY <1>1, <1>2 DEF H
  <2>4. \A i \in StoredAt' : After(H(stored[i])', H(received.buf)')
    BY <1>5, <1>9, <2>1, <2>2, <2>3
  <2> QED BY <1>1, <1>7, <1>8, <1>9, <2>3, <2>4 DEF MgrOrder
<1>10. CASE stored[r.index] = NULL /\ Store(r, numReceived + 1)
  <2>1. /\ StoredAt' = StoredAt \cup {r.index} /\ mgrPc' # "putback"
        /\ stored' = [stored EXCEPT ![r.index] = r.buf]
    BY <1>1, <1>10, StoreAt DEF Store
  <2>2. H(stored[received.index])' = H(r.buf)
    <3>1. H(stored[received.index])' = content'[stored'[received'.index]].head
      BY DEF H
    <3> QED BY <1>1, <1>2, <1>4, <2>1, <3>1 DEF H
  <2>3. ASSUME NEW i \in StoredAt' \ {r.index} PROVE After(H(stored[i])', H(r.buf))
    <3>1. i \in StoredAt /\ i \in Indices /\ stored'[i] = stored[i]
      BY <2>1, <2>3
    <3>2. H(stored[i])' = content'[stored'[i]].head
      BY DEF H
    <3>3. H(stored[i])' = H(stored[i])
      BY <1>2, <3>1, <3>2 DEF H
    <3> QED BY <1>5, <3>1, <3>3
  <2> QED BY <1>1, <1>7, <1>8, <2>1, <2>2, <2>3 DEF MgrOrder
<1> QED BY <1>3, <1>9, <1>10

(* The image that was stored goes back.                                    *)
LEMMA MgrPutBackOrder ==
  ASSUME Types, Types', NoNull, MgrOrder, BufMgrNext, MgrPutBack
  PROVE  MgrOrder' /\ Covers(Pending', Pending)
<1> USE MgrFacts
<1>1. /\ mgrPc = "putback" /\ Store(received, numReceived) /\ received' = received
      /\ received.buf # NULL /\ mgrPc' # "putback"
      /\ stored' = [stored EXCEPT ![received.index] = received.buf]
      /\ UNCHANGED <<content, tempQ, imgVars, ep, host, count>>
  BY DEF BufMgrNext, MgrPutBack, Store, NoNull, linkVars, epVars, memVars, hostVars
<1>2. StoredAt' = StoredAt \cup {received.index} /\ received.index \in Indices
  BY <1>1, StoreAt
<1>3. Coming' = Coming
  BY <1>1 DEF Coming, TempItems, H, Front, HandItems, HasHeader, Header, NewHeader, InReceive,
     WaitsForBuffer, Landed, HostItems, HostItem, NextItem, imgVars
<1>4. H(stored[received.index])' = H(received.buf)
  <2>1. H(stored[received.index])' = content'[stored'[received'.index]].head
    BY DEF H
  <2> QED BY <1>1, <1>2, <2>1 DEF H
<1>5. ASSUME NEW i \in StoredAt' \ {received.index}
      PROVE  i \in StoredAt /\ H(stored[i])' = H(stored[i])
  <2>1. i \in StoredAt /\ i \in Indices /\ stored'[i] = stored[i]
    BY <1>1, <1>2, <1>5
  <2>2. H(stored[i])' = content'[stored'[i]].head
    BY DEF H
  <2> QED BY <1>1, <2>1, <2>2 DEF H
<1>6. ASSUME NEW x \in MgrItems' PROVE x \in MgrItems
  <2>1. PICK i \in StoredAt' : x = H(stored[i])'
    BY <1>1 DEF MgrItems
  <2>2. CASE i = received.index
    BY <1>1, <1>4, <2>1, <2>2 DEF MgrItems
  <2>3. CASE i # received.index
    BY <1>5, <2>1, <2>3 DEF MgrItems
  <2> QED BY <2>2, <2>3
<1>7. ASSUME NEW x \in MgrItems', NEW y \in Coming' PROVE After(x, y)
  BY <1>3, <1>6 DEF MgrOrder
<1>8. Covers(Pending', Pending)
  <2>1. Pending' \subseteq Pending
    BY <1>3, <1>6 DEF Pending
  <2>2. \A x \in Pending : Dated(x)
    BY TempFacts DEF Pending
  <2> QED BY <2>1, <2>2, CoversPart
<1>9. /\ received'.index \in StoredAt'
      /\ H(stored[received.index])'.index = received'.index
      /\ H(stored[received.index])'.total = received'.total
  BY <1>1, <1>2, <1>4 DEF MgrOrder
<1>10. \A i \in StoredAt' \ {received'.index} : After(H(stored[i])', H(stored[received.index])')
  BY <1>1, <1>4, <1>5 DEF MgrOrder
<1> QED BY <1>1, <1>7, <1>8, <1>9, <1>10 DEF MgrOrder

(* The object goes to the dispatcher.                                      *)
LEMMA MgrEnqueueOrder ==
  ASSUME Types, Types', MgrOrder, BufMgrNext, MgrEnqueue
  PROVE  MgrOrder' /\ Covers(Pending', Pending) /\ Pending' = Coming /\ Coming' = Coming
<1>1. /\ mgrPc' = "get" /\ stored' = [i \in Indices |-> NULL]
      /\ UNCHANGED <<content, tempQ, imgVars, ep, host, count>>
  BY DEF BufMgrNext, MgrEnqueue, linkVars, epVars, memVars, hostVars
<1>2. Coming' = Coming
  BY <1>1 DEF Coming, TempItems, H, Front, HandItems, HasHeader, Header, NewHeader, InReceive,
     WaitsForBuffer, Landed, HostItems, HostItem, NextItem, imgVars
<1>3. StoredAt' = {}
  BY <1>1 DEF StoredAt
<1>4. MgrItems' = {}
  BY <1>1, <1>3 DEF MgrItems
<1>5. Pending' = Coming
  BY <1>2, <1>4 DEF Pending
<1>6. Covers(Pending', Pending)
  <2>1. \A x \in Pending : Dated(x)
    BY TempFacts DEF Pending
  <2>2. Pending' \subseteq Pending
    BY <1>5 DEF Pending
  <2> QED BY <2>1, <2>2, CoversPart
<1> QED BY <1>1, <1>2, <1>4, <1>5, <1>6 DEF MgrOrder

LEMMA StepMgr ==
  ASSUME Types, Types', NoNull, TempOrder, MgrOrder, Covers(Coming', Coming),
         \A b : Waits(b) => H(b)' = H(b), [Next]_vars
  PROVE  MgrOrder' /\ Covers(Pending', Pending)
<1>1. CASE BufMgrNext
  BY <1>1, MgrGetOrder, MgrPutBackOrder, MgrEnqueueOrder DEF BufMgrNext, MgrNext
<1>2. CASE LinkNext \/ HostNext \/ ImgNext \/ InfNext \/ SendNext \/ UNCHANGED vars
  <2>1. UNCHANGED mgrVars
    BY <1>2 DEF LinkNext, Configured, Disconnected, VbusOff, LinkLost, ErrandResetDevice,
       HostNext, ControlConfigure, ControlReset, ControlDroppable, HostBegins, HostSendsImage,
       HostSendsCommand, SendDma, HostReads, InfNext, InfDequeue,
       InfGetResultBuffer, InfExecute, InfPutFree, SendNext, SendDequeue, SendStart,
       SendBegins, SendDone, SendHangs, SendPutFree, vars, queueVars, mgrVars,
       ImgNext, ImgWaitConnection, ImgGet, ImgTakeFree, ImgUnbundle, ImgGrabFails, ImgRetry,
       ImgReceive, ImgMark, ImgArm, ImgReceived, ImgFailed, ImgSwap, ImgEnqueue, ImgCommand,
       ImgCommandBegins, ImgCommandDone, ImgCommandTimeout, ImgPutFree, ImgCleanImages,
       ImgCleanResults, ImgCleaned
  <2>2. MgrOrder' /\ MgrItems' = MgrItems
    BY <2>1, MgrKept DEF mgrVars
  <2>3. ASSUME NEW y \in Pending' PROVE \E z \in Pending : Upto(z, y)
    <3>1. CASE y \in MgrItems
      BY <3>1, TempFacts, UptoSelf DEF Pending
    <3>2. CASE y \in Coming'
      BY <3>2 DEF Covers, Pending
    <3> QED BY <2>2, <3>1, <3>2 DEF Pending
  <2> QED BY <2>2, <2>3 DEF Covers
<1> QED BY <1>1, <1>2 DEF Next

-----------------------------------------------------------------------------
(* The objects.                                                            *)

LEMMA LastIn ==
  ASSUME NEW o \in Seq(Slots), o # <<>>
  PROVE  LastBuf(o) \in BufsOf(o) /\ LastBuf(o) \in Slots
<1>1. Len(o) \in DOMAIN o
  OBVIOUS
<1> QED BY <1>1 DEF LastBuf, BufsOf

LEMMA ObjectFacts == ASSUME Types PROVE
  /\ \A i \in DOMAIN imgData : /\ imgData[i] \in Seq(Slots) /\ imgData[i] # <<>>
                               /\ Waits(LastBuf(imgData[i]))
                               /\ LastItem(imgData[i]).req \in Nat
  /\ infPc # "get" => Waits(LastBuf(obj)) /\ LastItem(obj).req \in Nat
<1>1. ASSUME NEW i \in DOMAIN imgData
      PROVE  /\ imgData[i] \in Seq(Slots) /\ imgData[i] # <<>>
             /\ Waits(LastBuf(imgData[i])) /\ LastItem(imgData[i]).req \in Nat
  <2>1. imgData \in Seq(Seq(Slots) \ {<<>>})
    BY DEF Types, TypeOK, QueueTypeOK, ImgQueueTypeOK
  <2>2. imgData[i] \in Seq(Slots) \ {<<>>}
    BY <2>1
  <2>3. LastBuf(imgData[i]) \in BufsOf(imgData[i]) /\ LastBuf(imgData[i]) \in Slots
    BY <2>2, LastIn
  <2> QED BY <2>2, <2>3, AllDated DEF Waits, LastItem, Dated
<1>2. ASSUME infPc # "get" PROVE Waits(LastBuf(obj)) /\ LastItem(obj).req \in Nat
  <2>1. obj \in Seq(Slots) /\ obj # <<>>
    BY <1>2, PlaceTypes DEF Types, Shapes
  <2>2. LastBuf(obj) \in BufsOf(obj) /\ LastBuf(obj) \in Slots
    BY <2>1, LastIn
  <2> QED BY <2>2, AllDated DEF Waits, LastItem, Dated
<1> QED BY <1>1, <1>2

LEMMA ObjectTails ==
  ASSUME NEW q \in Seq(Seq(Slots)), q # <<>>
  PROVE  /\ DOMAIN Tail(q) = 1 .. Len(q) - 1 /\ DOMAIN q = 1 .. Len(q) /\ Len(q) \in Nat
         /\ Len(q) >= 1 /\ Head(q) = q[1]
         /\ \A i \in 1 .. Len(q) - 1 : Tail(q)[i] = q[i + 1]
OBVIOUS

LEMMA ObjectAppends ==
  ASSUME NEW q \in Seq(Seq(Slots)), NEW x \in Seq(Slots)
  PROVE  /\ DOMAIN Append(q, x) = 1 .. Len(q) + 1 /\ DOMAIN q = 1 .. Len(q) /\ Len(q) \in Nat
         /\ Append(q, x)[Len(q) + 1] = x
         /\ \A i \in 1 .. Len(q) : Append(q, x)[i] = q[i]
OBVIOUS

(* The queue of objects is left alone or loses its head.                   *)
LEMMA ObjectsLeave ==
  ASSUME Types, ~(BufMgrNext /\ MgrEnqueue), [Next]_vars
  PROVE  imgData' = imgData \/ (imgData # <<>> /\ imgData' = Tail(imgData))
<1>1. CASE ImgNext
  <2>1. CASE ImgTakeFree
    BY <2>1 DEF ImgTakeFree, take_free, take_data
  <2>2. CASE ImgCleanImages
    BY <2>2 DEF ImgCleanImages, clean_image_object
  <2>3. CASE ~ImgTakeFree /\ ~ImgCleanImages
    BY <1>1, <2>3 DEF ImgNext, ImgWaitConnection, ImgGet, ImgUnbundle, ImgGrabFails,
       ImgRetry, ImgReceive, ImgMark, ImgArm, ImgReceived, ImgFailed, ImgSwap, ImgEnqueue,
       ImgCommand, ImgCommandBegins, ImgCommandDone, ImgCommandTimeout, ImgPutFree,
       ImgCleanResults, ImgCleaned, queueVars, imgQueues
  <2> QED BY <2>1, <2>2, <2>3
<1>2. CASE InfDequeue
  BY <1>2 DEF InfDequeue, image_dequeue
<1>3. CASE ~ImgNext /\ ~InfDequeue
  BY <1>3 DEF Next, LinkNext, Configured, Disconnected, VbusOff, LinkLost,
     ErrandResetDevice, HostNext, ControlConfigure, ControlReset, ControlDroppable,
     HostBegins, HostSendsImage, HostSendsCommand, SendDma, HostReads, BufMgrNext, MgrNext,
     MgrGet, MgrPutBack, InfNext, InfGetResultBuffer, InfExecute, InfPutFree,
     SendNext, SendDequeue, SendStart, SendBegins, SendDone, SendHangs, SendPutFree, vars,
     queueVars, imgQueues
<1> QED BY <1>1, <1>2, <1>3

(* Then each of its objects was there, at its place or the next.           *)
LEMMA ObjectsMove ==
  ASSUME Types, imgData' = imgData \/ (imgData # <<>> /\ imgData' = Tail(imgData))
  PROVE  \E d \in {0, 1}, L \in Nat :
           /\ DOMAIN imgData = 1 .. L /\ DOMAIN imgData' = 1 .. L - d
           /\ \A i \in 1 .. L - d : i + d \in DOMAIN imgData /\ imgData'[i] = imgData[i + d]
<1>1. imgData \in Seq(Seq(Slots))
  BY PlaceTypes
<1>2. PICK L \in Nat : L = Len(imgData) /\ DOMAIN imgData = 1 .. L
  BY <1>1
<1>3. CASE imgData # <<>> /\ imgData' = Tail(imgData)
  <2>1. /\ DOMAIN imgData' = 1 .. L - 1 /\ DOMAIN imgData = 1 .. L
        /\ \A i \in 1 .. L - 1 : imgData'[i] = imgData[i + 1]
    BY <1>1, <1>2, <1>3, ObjectTails
  <2>2. \A i \in 1 .. L - 1 : i + 1 \in DOMAIN imgData
    BY <1>2
  <2> QED BY <2>1, <2>2
<1>4. CASE imgData' = imgData
  <2>1. \A i \in 1 .. L - 0 : i + 0 = i
    OBVIOUS
  <2>2. L - 0 = L
    OBVIOUS
  <2> QED BY <1>2, <1>4, <2>1, <2>2
<1> QED BY <1>3, <1>4

(* What went on is never caught up with.                                   *)
LEMMA LaterKept ==
  ASSUME Types, Types', Covers(Pending', Pending), \A b : Waits(b) => H(b)' = H(b),
         imgData' = imgData \/ (imgData # <<>> /\ imgData' = Tail(imgData))
  PROVE  /\ \A n \in Nat : Precedes(n) => Precedes(n)'
         /\ ObjectOrder =>
              /\ \A i \in DOMAIN imgData' : \A y \in Pending' : LastItem(imgData[i])'.req < y.req
              /\ \A i, j \in DOMAIN imgData' : i < j =>
                   LastItem(imgData[i])'.req < LastItem(imgData[j])'.req
<1>1. PICK d \in {0, 1}, L \in Nat :
           /\ DOMAIN imgData = 1 .. L /\ DOMAIN imgData' = 1 .. L - d
           /\ \A i \in 1 .. L - d : i + d \in DOMAIN imgData /\ imgData'[i] = imgData[i + d]
  BY ObjectsMove
<1>2. ASSUME NEW i \in DOMAIN imgData'
      PROVE  /\ i + d \in DOMAIN imgData /\ LastItem(imgData[i])' = LastItem(imgData[i + d])
             /\ LastItem(imgData[i + d]).req \in Nat
  <2>1. i + d \in DOMAIN imgData /\ imgData'[i] = imgData[i + d]
    BY <1>1
  <2>2. Waits(LastBuf(imgData[i + d])) /\ LastItem(imgData[i + d]).req \in Nat
    BY <2>1, ObjectFacts
  <2>3. content'[LastBuf(imgData[i + d])].head = content[LastBuf(imgData[i + d])].head
    BY <2>2 DEF H
  <2>4. LastItem(imgData[i])' = content'[LastBuf(imgData'[i])].head
    BY DEF LastItem, H, LastBuf
  <2> QED BY <2>1, <2>2, <2>3, <2>4 DEF LastItem, H
<1>3. ASSUME NEW y \in Pending', NEW n \in Nat, \A z \in Pending : n < z.req
      PROVE  n < y.req
  <2>1. PICK z \in Pending : Upto(z, y)
    BY DEF Covers
  <2>2. Dated(z) /\ Dated(y)
    BY TempFacts, PendingDatedNext DEF Pending, PendingIsDated
  <2> QED BY <1>3, <2>1, <2>2 DEF Upto, Dated
<1>4. ASSUME NEW n \in Nat, Precedes(n) PROVE Precedes(n)'
  <2>1. \A i \in DOMAIN imgData' : n < LastItem(imgData[i])'.req
    BY <1>2, <1>4 DEF Precedes
  <2>2. \A y \in Pending' : n < y.req
    BY <1>3, <1>4 DEF Precedes
  <2> QED BY <2>1, <2>2 DEF Precedes
<1>5. ASSUME ObjectOrder, NEW i \in DOMAIN imgData', NEW y \in Pending'
      PROVE  LastItem(imgData[i])'.req < y.req
  <2>1. \A z \in Pending : LastItem(imgData[i + d]).req < z.req
    BY <1>2, <1>5 DEF ObjectOrder
  <2> QED BY <1>2, <1>3, <2>1
<1>6. ASSUME ObjectOrder, NEW i \in DOMAIN imgData', NEW j \in DOMAIN imgData', i < j
      PROVE  LastItem(imgData[i])'.req < LastItem(imgData[j])'.req
  <2>1. i + d < j + d
    BY <1>1, <1>6
  <2>2. LastItem(imgData[i + d]).req < LastItem(imgData[j + d]).req
    BY <1>2, <1>6, <2>1 DEF ObjectOrder
  <2> QED BY <1>2, <2>2
<1> QED BY <1>4, <1>5, <1>6

(* What is on its way was begun.                                           *)
LEMMA ComingInside ==
  ASSUME Types, ReceiveInv, LineInv, TempOrder, NEW y \in Coming
  PROVE  y.index < y.total /\ y.index \in Nat /\ y.total \in Nat
<1> USE ImgFacts
<1>1. CASE y \in TempItems
  <2>1. PICK i \in DOMAIN tempQ : y = H(tempQ[i].buf)
    BY <1>1 DEF TempItems
  <2>2. tempQ[i] \in SpecialObjects
    BY <2>1, MgrFacts
  <2>3. tempQ[i].index \in Nat /\ tempQ[i].total \in Nat
    BY <2>2, MgrFacts
  <2> QED BY <2>1, <2>3 DEF TempOrder, LineInv
<1>2. CASE HasHeader /\ y = Header
  <2>1. Header \in Items
    BY DEF Header
  <2> QED BY <1>2, <2>1 DEF LineInv, Items, Indices
<1>3. CASE host.open /\ y = HostItem("inf")
  <2>1. host.index < host.total /\ host.index \in Nat /\ host.total \in Nat
    BY <1>3 DEF ReceiveInv, HostStates, Indices
  <2> QED BY <1>3, <2>1, AllDated
<1>4. CASE y = NextItem
  BY <1>4 DEF NextItem, Nothing
<1> QED BY <1>1, <1>2, <1>3, <1>4 DEF Coming, Front, HandItems, HostItems

(* An object that is complete ends an inference.                           *)
LEMMA CompleteOrder ==
  ASSUME Types, ReceiveInv, LineInv, StoredInv, TempOrder, MgrOrder, mgrPc = "enqueue"
  PROVE  /\ storedNum >= 1 /\ stored[storedNum - 1] \in Slots
         /\ H(stored[storedNum - 1]) \in MgrItems
         /\ \A y \in Coming : H(stored[storedNum - 1]).req < y.req
<1> USE MgrFacts
<1>1. /\ StoredAt = 0 .. storedNum - 1 /\ storedNum = received.total /\ storedNum >= 1
      /\ storedNum \in Nat /\ (received.index = 0 \/ received.index = storedNum - 1)
  BY DEF StoredInv, EndOrStart
<1>2. storedNum - 1 \in StoredAt /\ stored[storedNum - 1] \in Slots
  <2>1. storedNum - 1 \in 0 .. storedNum - 1
    BY <1>1
  <2>2. storedNum - 1 \in StoredAt
    BY <1>1, <2>1
  <2> QED BY <2>2
<1> DEFINE x == H(stored[storedNum - 1])
           r == H(stored[received.index])
<1>3. x \in MgrItems /\ Dated(x)
  BY <1>2, AllDated DEF MgrItems
<1>4. /\ r \in MgrItems /\ Dated(r) /\ r.index = received.index /\ r.total = received.total
      /\ (received.index # storedNum - 1 => After(x, r))
  <2>1. received.index \in StoredAt /\ stored[received.index] \in Slots
    BY DEF MgrOrder
  <2> QED BY <1>2, <2>1, AllDated DEF MgrOrder, MgrItems
<1>5. ASSUME NEW y \in Coming PROVE x.req < y.req
  <2>1. After(x, y) /\ After(r, y) /\ Dated(y)
    BY <1>3, <1>4, TempFacts DEF MgrOrder
  <2>2. y.index < y.total /\ y.index \in Nat /\ y.total \in Nat
    BY ComingInside
  <2>3. CASE received.index = storedNum - 1
    <3>1. x.index = storedNum - 1 /\ x.total = storedNum
      BY <1>1, <1>4, <2>3
    <3> HIDE DEF x
    <3> QED BY <1>1, <2>1, <2>2, <3>1 DEF After
  <2>4. CASE received.index # storedNum - 1
    <3>1. After(x, r) /\ r.index = 0
      BY <1>1, <1>4, <2>4
    <3> HIDE DEF x, r
    <3> QED BY <1>3, <1>4, <2>1, <3>1 DEF After, Dated
  <2> QED BY <2>3, <2>4
<1> QED BY <1>1, <1>2, <1>3, <1>5

LEMMA MgrEnqueueObjects ==
  ASSUME Types, Types', ReceiveInv, LineInv, StoredInv, TempOrder, MgrOrder, ObjectOrder,
         BufMgrNext, MgrEnqueue
  PROVE  ObjectOrder' /\ \A n \in Nat : Precedes(n) => Precedes(n)'
<1> USE MgrFacts
<1> DEFINE b == stored[storedNum - 1]
           o == [k \in 1 .. storedNum |-> stored[k - 1]]
<1>1. /\ mgrPc = "enqueue" /\ imgData' = Append(imgData, o)
      /\ UNCHANGED <<content, infPc, obj>>
  BY DEF BufMgrNext, MgrEnqueue, infVars, memVars
<1>2. /\ storedNum >= 1 /\ b \in Slots /\ H(b) \in MgrItems
      /\ \A y \in Coming : H(b).req < y.req
  BY <1>1, CompleteOrder
<1>3. o \in Seq(Slots) /\ LastBuf(o) = b
  <2>1. StoredAt = 0 .. storedNum - 1 /\ storedNum \in Nat
    BY <1>1 DEF StoredInv
  <2>2. ASSUME NEW k \in 1 .. storedNum PROVE stored[k - 1] \in Slots
    <3>1. k - 1 \in StoredAt
      BY <2>1
    <3> QED BY <3>1 DEF StoredAt
  <2>3. o \in Seq(Slots) /\ Len(o) = storedNum
    BY <2>1, <2>2
  <2> QED BY <1>2, <2>1, <2>3 DEF LastBuf
<1>4. Pending' = Coming /\ Coming' = Coming
  BY MgrEnqueueOrder
<1> HIDE DEF b, o
<1>5. PICK L \in Nat : L = Len(imgData)
  BY PlaceTypes
<1>6. /\ DOMAIN imgData' = 1 .. L + 1 /\ DOMAIN imgData = 1 .. L
      /\ imgData'[L + 1] = o /\ \A i \in 1 .. L : imgData'[i] = imgData[i]
  BY <1>1, <1>3, <1>5, PlaceTypes, ObjectAppends
<1>7. ASSUME NEW i \in 1 .. L PROVE LastItem(imgData[i])' = LastItem(imgData[i])
  <2>1. LastItem(imgData[i])' = content'[LastBuf(imgData'[i])].head
    BY DEF LastItem, H, LastBuf
  <2> QED BY <1>1, <1>6, <2>1 DEF LastItem, H
<1>8. LastItem(imgData[L + 1])' = H(b)
  <2>1. LastItem(imgData[L + 1])' = content'[LastBuf(imgData'[L + 1])].head
    BY DEF LastItem, H, LastBuf
  <2> QED BY <1>1, <1>3, <1>6, <2>1 DEF H
<1>9. LastItem(obj)' = LastItem(obj)
  BY <1>1 DEF LastItem, H, LastBuf
<1>10. ASSUME NEW n \in Nat, Precedes(n) PROVE Precedes(n)'
  <2>1. ASSUME NEW i \in DOMAIN imgData' PROVE n < LastItem(imgData[i])'.req
    <3>1. CASE i = L + 1
      BY <1>2, <1>8, <1>10, <3>1 DEF Precedes, Pending
    <3>2. CASE i # L + 1
      <4>1. i \in 1 .. L
        BY <1>6, <3>2
      <4> QED BY <1>6, <1>7, <1>10, <4>1 DEF Precedes
    <3> QED BY <3>1, <3>2
  <2>2. \A y \in Pending' : n < y.req
    BY <1>4, <1>10 DEF Precedes, Pending
  <2> QED BY <2>1, <2>2 DEF Precedes
<1>11. ASSUME NEW i \in DOMAIN imgData', NEW y \in Pending'
       PROVE  LastItem(imgData[i])'.req < y.req
  <2>1. CASE i = L + 1
    BY <1>2, <1>4, <1>8, <2>1
  <2>2. CASE i # L + 1
    <3>1. i \in DOMAIN imgData /\ i \in 1 .. L
      BY <1>6, <2>2
    <3> QED BY <1>4, <1>7, <3>1 DEF ObjectOrder, Pending
  <2> QED BY <2>1, <2>2
<1>12. ASSUME NEW i \in DOMAIN imgData', NEW j \in DOMAIN imgData', i < j
       PROVE  LastItem(imgData[i])'.req < LastItem(imgData[j])'.req
  <2>1. i \in DOMAIN imgData /\ i \in 1 .. L
    BY <1>6, <1>12
  <2>2. CASE j = L + 1
    BY <1>2, <1>7, <1>8, <2>1, <2>2 DEF ObjectOrder, Pending
  <2>3. CASE j # L + 1
    <3>1. j \in DOMAIN imgData /\ j \in 1 .. L
      BY <1>6, <2>3
    <3> QED BY <1>7, <1>12, <2>1, <3>1 DEF ObjectOrder
  <2> QED BY <2>2, <2>3
<1>13. infPc' \in {"result", "execute"} => Precedes(LastItem(obj).req)'
  <2> SUFFICES ASSUME infPc \in {"result", "execute"} PROVE Precedes(LastItem(obj).req)'
    BY <1>1
  <2>1. PICK n \in Nat : n = LastItem(obj).req
    BY ObjectFacts
  <2>2. Precedes(n)
    BY <2>1 DEF ObjectOrder
  <2>3. Precedes(n)'
    BY <1>10, <2>2
  <2>4. LastItem(obj)'.req = n
    BY <1>9, <2>1
  <2> QED BY <2>3, <2>4 DEF Precedes
<1> QED BY <1>10, <1>11, <1>12, <1>13 DEF ObjectOrder

LEMMA StepObjects ==
  ASSUME Types, Types', ReceiveInv, LineInv, StoredInv, TempOrder, MgrOrder, ObjectOrder,
         Covers(Pending', Pending), \A b : Waits(b) => H(b)' = H(b), [Next]_vars
  PROVE  ObjectOrder' /\ \A n \in Nat : Precedes(n) => Precedes(n)'
<1>1. CASE BufMgrNext /\ MgrEnqueue
  BY <1>1, MgrEnqueueObjects
<1>2. CASE ~(BufMgrNext /\ MgrEnqueue)
  <2>1. imgData' = imgData \/ (imgData # <<>> /\ imgData' = Tail(imgData))
    BY <1>2, ObjectsLeave
  <2>2. /\ \A n \in Nat : Precedes(n) => Precedes(n)'
        /\ \A i \in DOMAIN imgData' : \A y \in Pending' : LastItem(imgData[i])'.req < y.req
        /\ \A i, j \in DOMAIN imgData' : i < j =>
             LastItem(imgData[i])'.req < LastItem(imgData[j])'.req
    BY <2>1, LaterKept
  <2>3. CASE InfDequeue
    <3>1. /\ imgData # <<>> /\ imgData' = Tail(imgData) /\ obj' = Head(imgData)
          /\ content' = content
      BY <2>3 DEF InfDequeue, image_dequeue, memVars
    <3>2. PICK L \in Nat : L = Len(imgData)
      BY PlaceTypes
    <3>3. /\ DOMAIN imgData' = 1 .. L - 1 /\ DOMAIN imgData = 1 .. L /\ L >= 1
          /\ obj' = imgData[1] /\ \A i \in 1 .. L - 1 : imgData'[i] = imgData[i + 1]
      BY <3>1, <3>2, PlaceTypes, ObjectTails
    <3>4. LastItem(obj)' = LastItem(imgData[1]) /\ LastItem(imgData[1]).req \in Nat
      <4>1. LastItem(obj)' = content'[LastBuf(obj')].head
        BY DEF LastItem, H, LastBuf
      <4> QED BY <3>1, <3>3, <4>1, ObjectFacts DEF LastItem, H
    <3>5. ASSUME NEW i \in DOMAIN imgData'
          PROVE  LastItem(imgData[1]).req < LastItem(imgData[i])'.req
      <4>1. i \in 1 .. L - 1 /\ imgData'[i] = imgData[i + 1] /\ i + 1 \in DOMAIN imgData /\ 1 < i + 1
        BY <3>3
      <4>2. LastItem(imgData[i])' = content'[LastBuf(imgData'[i])].head
        BY DEF LastItem, H, LastBuf
      <4>3. LastItem(imgData[i])' = LastItem(imgData[i + 1])
        BY <3>1, <4>1, <4>2 DEF LastItem, H
      <4> QED BY <3>3, <4>1, <4>3 DEF ObjectOrder
    <3>6. UNCHANGED mgrVars /\ UNCHANGED <<content, tempQ, imgVars, ep, host, count>>
      BY <2>3 DEF InfDequeue, linkVars, epVars, memVars, hostVars
    <3>7. Pending' = Pending
      BY <3>6 DEF Pending, MgrItems, StoredAt, Coming, TempItems, H, Front, HandItems, HasHeader,
         Header, NewHeader, InReceive, WaitsForBuffer, Landed, HostItems, HostItem, NextItem,
         imgVars, mgrVars
    <3>8. \A y \in Pending' : LastItem(imgData[1]).req < y.req
      BY <3>3, <3>7 DEF ObjectOrder
    <3>9. Precedes(LastItem(obj).req)'
      BY <3>4, <3>5, <3>8 DEF Precedes
    <3> QED BY <2>2, <3>9 DEF ObjectOrder
  <2>4. CASE ~InfDequeue
    <3>1. infPc' \in {"result", "execute"} => infPc \in {"result", "execute"} /\ obj' = obj
      <4>1. CASE InfNext
        BY <2>4, <4>1 DEF InfNext, InfGetResultBuffer, InfExecute, InfPutFree
      <4>2. CASE ~InfNext
        <5>1. UNCHANGED <<infPc, obj>>
          BY <4>2 DEF Next, LinkNext, Configured, Disconnected, VbusOff, LinkLost,
             ErrandResetDevice, HostNext, ControlConfigure, ControlReset, ControlDroppable,
             HostBegins, HostSendsImage, HostSendsCommand, SendDma, HostReads, BufMgrNext,
             SendNext, SendDequeue, SendStart, SendBegins, SendDone, SendHangs, SendPutFree,
             vars, infVars, ImgNext, ImgWaitConnection, ImgGet, ImgTakeFree, ImgUnbundle,
             ImgGrabFails, ImgRetry, ImgReceive, ImgMark, ImgArm, ImgReceived, ImgFailed,
             ImgSwap, ImgEnqueue, ImgCommand, ImgCommandBegins, ImgCommandDone,
             ImgCommandTimeout, ImgPutFree, ImgCleanImages, ImgCleanResults, ImgCleaned
        <5> QED BY <5>1
      <4> QED BY <4>1, <4>2
    <3>2. ASSUME infPc' \in {"result", "execute"} PROVE Precedes(LastItem(obj).req)'
      <4>1. infPc \in {"result", "execute"} /\ obj' = obj
        BY <3>1, <3>2
      <4>2. Waits(LastBuf(obj)) /\ LastItem(obj).req \in Nat
        BY <4>1, ObjectFacts
      <4>3. content'[LastBuf(obj)].head = content[LastBuf(obj)].head
        BY <4>2 DEF H
      <4>4. LastItem(obj)' = content'[LastBuf(obj')].head
        BY DEF LastItem, H, LastBuf
      <4>5. LastItem(obj)' = LastItem(obj)
        BY <4>1, <4>3, <4>4 DEF LastItem, H
      <4>6. PICK n \in Nat : n = LastItem(obj).req
        BY <4>2
      <4>7. Precedes(n)
        BY <4>1, <4>6 DEF ObjectOrder
      <4>8. Precedes(n)'
        BY <2>2, <4>7
      <4>9. LastItem(obj)'.req = n
        BY <4>5, <4>6
      <4> QED BY <4>8, <4>9 DEF Precedes
    <3> QED BY <2>2, <3>2 DEF ObjectOrder
  <2> QED BY <2>3, <2>4
<1> QED BY <1>1, <1>2

-----------------------------------------------------------------------------
(* Who sends holds send_bulk_mutex.                                        *)
SendMutexHeld == /\ imgPc = "cmd_wait" => sendMutex = "img"
                 /\ sendPc = "wait" => sendMutex = "send"

LEMMA StepMutex ==
  ASSUME Types, SendMutexHeld, [Next]_vars PROVE SendMutexHeld'
<1> USE DEF SendMutexHeld, linkVars, mutexVars, sendVars, imgVars
<1>1. CASE SendNext
  BY <1>1 DEF SendNext, SendDequeue, SendStart, SendBegins, SendDone, SendHangs, SendPutFree
<1>2. CASE ImgCommand \/ ImgCommandBegins \/ ImgCommandDone \/ ImgCommandTimeout
  BY <1>2 DEF ImgCommand, ImgCommandBegins, ImgCommandDone, ImgCommandTimeout
<1>3. CASE ImgNext /\ ~(ImgCommand \/ ImgCommandBegins \/ ImgCommandDone \/ ImgCommandTimeout)
  <2>1. UNCHANGED <<sendMutex, sendPc>>
    BY <1>3 DEF ImgNext, ImgWaitConnection, ImgGet, ImgTakeFree, ImgUnbundle, ImgGrabFails,
       ImgRetry, ImgReceive, ImgMark, ImgArm, ImgReceived, ImgFailed, ImgSwap, ImgEnqueue,
       ImgPutFree, ImgCleanImages, ImgCleanResults, ImgCleaned, imgElse
  <2>2. imgPc' # "cmd_wait"
    <3>1. CASE ImgReceived \/ ImgFailed
      BY <3>1 DEF ImgReceived, ImgFailed, Parse, ParseHeader, ParseRest, NextRecv
    <3>2. CASE ImgCleaned
      BY <3>2 DEF ImgCleaned, Types, TypeOK, ImgTypeOK
    <3>3. CASE ~(ImgReceived \/ ImgFailed \/ ImgCleaned)
      BY <1>3, <3>3 DEF ImgNext, ImgWaitConnection, ImgGet, ImgTakeFree, ImgUnbundle,
         ImgGrabFails, ImgRetry, ImgReceive, ImgMark, ImgArm, ImgSwap, ImgEnqueue, ImgPutFree,
         ImgCleanImages, ImgCleanResults, Received, NextRecv
    <3> QED BY <3>1, <3>2, <3>3
  <2> QED BY <2>1, <2>2
<1>4. CASE LinkNext \/ HostNext
  BY <1>4 DEF LinkNext, Configured, Disconnected, VbusOff, LinkLost, ErrandResetDevice,
     HostNext, ControlConfigure, ControlReset, ControlDroppable, HostBegins, HostSendsImage,
     HostSendsCommand, SendDma, HostReads
<1>5. CASE BufMgrNext \/ InfNext \/ UNCHANGED vars
  BY <1>5 DEF BufMgrNext, InfNext, InfDequeue, InfGetResultBuffer, InfExecute, InfPutFree, vars
<1> QED BY <1>1, <1>2, <1>3, <1>4, <1>5 DEF Next

LEMMA MutexInvariant == Spec => []SendMutexHeld
<1>1. Init => SendMutexHeld
  BY DEF Init, SendMutexHeld
<1> QED BY <1>1, StepMutex, TypesInvariant, PTL DEF Spec

-----------------------------------------------------------------------------
(* The DMA of DATA_IN.                                                     *)

LEMMA FeedFacts == ASSUME Types PROVE
  /\ ep \in [Endpoints -> {"na", "idle", "xfer", "done", "term"}]
  /\ evt \in [Endpoints -> BOOLEAN] /\ "in" \in Endpoints /\ "out" \in Endpoints
  /\ sendMutex = "send" => sendPc \in {"wait", "hung"}
BY DEF Types, TypeOK, LinkTypeOK, Shapes, Endpoints

LEMMA FeedUntouched ==
  ASSUME Feeding, ep'["in"] = ep["in"], evt'["in"] = evt["in"],
         UNCHANGED <<fifo, sendMutex, round, tx, sendBuf>>
  PROVE  Feeding'
BY DEF Feeding

LEMMA FeedBegins ==
  ASSUME Types, ~late', ~SenderWaits, UNCHANGED <<sendMutex, sendBuf>>,
         sendMutex # "free", NEW b, b = IF sendMutex = "send" THEN sendBuf ELSE 0,
         Feeding, send_begins(b)
  PROVE  Feeding'
<1>1. CASE round = "mark"
  <2>1. fifo # "dma"
    BY <1>1 DEF Feeding
  <2> QED BY <1>1, <2>1 DEF send_begins, Feeding
<1>2. CASE round = "arm"
  BY <1>2 DEF send_begins, Feeding
<1> QED BY <1>1, <1>2 DEF SenderWaits

LEMMA FeedWakes ==
  ASSUME Types, Feeding, send_wakes, UNCHANGED <<fifo, tx, sendBuf>>,
         \/ AfterRound # "over" /\ round' = AfterRound /\ UNCHANGED sendMutex
         \/ AfterRound = "over" /\ sendMutex' = "free" /\ UNCHANGED round
  PROVE  Feeding'
<1> USE FeedFacts
<1> SUFFICES ASSUME fifo = "dma" PROVE Feeding'
  BY DEF Feeding
<1>1. evt["in"] /\ round \in {"dma", "again"} /\ ep["in"] \notin {"done", "term"}
  BY DEF send_wakes, transfer_wakes, Feeding
<1>2. round = "dma"
  BY <1>1 DEF Feeding
<1>3. AfterRound = "again"
  BY <1>1, <1>2 DEF AfterRound
<1>4. ep'["in"] = ep["in"] /\ evt'["in"] = FALSE
  BY <1>1, <1>3 DEF send_wakes, transfer_wakes
<1> QED BY <1>1, <1>3, <1>4 DEF Feeding

LEMMA FeedLink ==
  ASSUME Types, Feeding, LinkNext PROVE Feeding'
<1>1. CASE Configured
  BY <1>1 DEF Configured, Feeding
<1>2. CASE Disconnected
  BY <1>2 DEF Disconnected, reset_endpoint, Endpoints, Feeding
<1>3. CASE VbusOff \/ ErrandResetDevice
  BY <1>3 DEF VbusOff, ErrandResetDevice, Feeding
<1> QED BY <1>1, <1>2, <1>3 DEF LinkNext

LEMMA FeedHost ==
  ASSUME Types, Feeding, HostNext PROVE Feeding'
<1> USE FeedFacts DEF linkVars, epVars, mutexVars, memVars, sendVars
<1>1. CASE ControlConfigure \/ ControlDroppable \/ HostBegins
  <2>1. UNCHANGED <<ep, evt, fifo, sendMutex, round, tx, sendBuf>>
    BY <1>1 DEF ControlConfigure, ControlDroppable, HostBegins
  <2> QED BY <2>1, FeedUntouched
<1>2. CASE ControlReset
  <2>1. UNCHANGED <<fifo, sendMutex, round, tx, sendBuf>>
        /\ ep'["in"] = ep["in"] /\ evt'["in"] = evt["in"]
    BY <1>2 DEF ControlReset, reset_endpoint
  <2> QED BY <2>1, FeedUntouched
<1>3. CASE HostSendsImage \/ HostSendsCommand
  <2>1. UNCHANGED <<fifo, sendMutex, round, tx, sendBuf>>
    BY <1>3 DEF HostSendsImage, HostSendsCommand
  <2>2. \/ transfer_done("out")
        \/ UNCHANGED <<ep, evt>>
    BY <1>3 DEF HostSendsImage, HostSendsCommand, Land
  <2>3. ep'["in"] = ep["in"] /\ evt'["in"] = evt["in"]
    BY <2>2 DEF transfer_done
  <2> QED BY <2>1, <2>3, FeedUntouched
<1>4. CASE SendDma \/ HostReads
  BY <1>4 DEF SendDma, HostReads, Feeding
<1> QED BY <1>1, <1>2, <1>3, <1>4 DEF HostNext

LEMMA FeedImg ==
  ASSUME Types, Feeding, ~late', SendMutexHeld, ImgNext PROVE Feeding'
<1> USE FeedFacts DEF linkVars, epVars, mutexVars, memVars, sendVars
<1>1. CASE ImgMark \/ ImgReceived
  <2>1. UNCHANGED <<fifo, sendMutex, round, tx, sendBuf>>
        /\ ep'["in"] = ep["in"] /\ evt'["in"] = evt["in"]
    BY <1>1 DEF ImgMark, ImgReceived, transfer_wakes
  <2> QED BY <2>1, FeedUntouched
<1>2. CASE ImgCommand
  BY <1>2 DEF ImgCommand, Feeding
<1>3. CASE ImgCommandBegins
  <2>1. sendMutex = "img" /\ ~SenderWaits /\ send_begins(0)
        /\ UNCHANGED <<sendMutex, sendBuf>>
    BY <1>3 DEF ImgCommandBegins, SendMutexHeld, send_begins, SenderWaits
  <2> QED BY <2>1, FeedBegins
<1>4. CASE ImgCommandDone
  BY <1>4, FeedWakes DEF ImgCommandDone
<1>5. CASE ImgCommandTimeout
  BY <1>5 DEF ImgCommandTimeout, Feeding
<1>6. CASE ImgCleaned
  <2>1. CASE imgRet = "put"
    BY <1>6, <2>1 DEF ImgCleaned, reset_endpoint, Feeding
  <2>2. CASE imgRet # "put"
    BY <1>6, <2>2 DEF ImgCleaned, Feeding
  <2> QED BY <2>1, <2>2
<1>7. CASE ~(ImgMark \/ ImgReceived \/ ImgCommand \/ ImgCommandBegins \/ ImgCommandDone
             \/ ImgCommandTimeout \/ ImgCleaned)
  <2>1. UNCHANGED <<ep, evt, fifo, sendMutex, round, tx, sendBuf>>
    BY <1>7 DEF ImgNext, ImgWaitConnection, ImgGet, ImgTakeFree, ImgUnbundle,
       ImgGrabFails, ImgRetry, ImgReceive, ImgArm, ImgFailed, ImgSwap, ImgEnqueue,
       ImgPutFree, ImgCleanImages, ImgCleanResults, imgElse
  <2> QED BY <2>1, FeedUntouched
<1> QED BY <1>1, <1>2, <1>3, <1>4, <1>5, <1>6, <1>7

LEMMA FeedSend ==
  ASSUME Types, Feeding, ~late', SendMutexHeld, SendNext PROVE Feeding'
<1> USE FeedFacts DEF linkVars, epVars, mutexVars, memVars, sendVars
<1>1. CASE SendDequeue
  BY <1>1 DEF SendDequeue, Feeding
<1>2. CASE SendStart
  BY <1>2 DEF SendStart, Feeding
<1>3. CASE SendBegins
  <2>1. sendMutex = "send" /\ ~SenderWaits /\ send_begins(sendBuf)
        /\ UNCHANGED <<sendMutex, sendBuf>>
    BY <1>3 DEF SendBegins, SendMutexHeld, send_begins, SenderWaits
  <2> QED BY <2>1, FeedBegins
<1>4. CASE SendDone
  BY <1>4, FeedWakes DEF SendDone
<1>5. CASE SendHangs
  BY <1>5, FeedUntouched DEF SendHangs
<1>6. CASE SendPutFree
  BY <1>6 DEF SendPutFree, Feeding
<1> QED BY <1>1, <1>2, <1>3, <1>4, <1>5, <1>6 DEF SendNext

LEMMA StepFeed ==
  ASSUME Types, SendMutexHeld, FeedInv, [Next]_vars PROVE FeedInv'
<1> SUFFICES ASSUME ~late' PROVE Feeding'
  BY DEF FeedInv
<1>1. Feeding
  BY HistoryStays DEF FeedInv
<1>2. CASE BufMgrNext \/ InfNext \/ UNCHANGED vars
  <2>1. UNCHANGED <<ep, evt, fifo, sendMutex, round, tx, sendBuf>>
    BY <1>2 DEF BufMgrNext, InfNext, InfDequeue, InfGetResultBuffer, InfExecute, InfPutFree,
       vars, linkVars, epVars, mutexVars, memVars, sendVars
  <2> QED BY <1>1, <2>1, FeedUntouched
<1> QED BY <1>1, <1>2, FeedLink, FeedHost, FeedImg, FeedSend DEF Next

LEMMA FeedInvariant == Spec => []FeedInv
<1>1. Init => FeedInv
  BY DEF Init, FeedInv, Feeding
<1> QED BY <1>1, StepFeed, TypesInvariant, MutexInvariant, PTL DEF Spec

-----------------------------------------------------------------------------
(* The results.                                                            *)

LEMMA ResultFacts == ASSUME Types PROVE
  /\ resData \in Seq(ResBufs) /\ answer \in [ResBufs -> Nat \X Nat]
  /\ delivered \in Seq(Nat \X Nat) /\ crop \in Nat /\ sent \in Nat \X Nat
  /\ \A i \in DOMAIN resData : resData[i] \in ResBufs
  /\ \A i \in DOMAIN delivered : delivered[i] \in Nat \X Nat
<1>1. /\ resData \in Seq(ResBufs) /\ answer \in [ResBufs -> Nat \X Nat]
      /\ delivered \in Seq(Nat \X Nat) /\ crop \in Nat /\ sent \in Nat \X Nat
  BY DEF Types, TypeOK, QueueTypeOK, ResQueueTypeOK, MemTypeOK, HostTypeOK, InfTypeOK
<1>2. /\ \A i \in DOMAIN resData : resData[i] \in ResBufs
      /\ \A i \in DOMAIN delivered : delivered[i] \in Nat \X Nat
  BY <1>1
<1> QED BY <1>1, <1>2

(* What goes into the FIFO is the result thread's.                         *)
LEMMA SentFacts == ASSUME Types, Feeding PROVE
  /\ Going => sendMutex = "send" /\ SenderWaits /\ tx = sendBuf
  /\ ToSend => sendPc # "get" /\ sendBuf \in ResBufs
  /\ \A r : Result(r) => r \in Nat \X Nat
<1>1. Going => sendMutex = "send" /\ SenderWaits /\ tx = sendBuf
  BY DEF Going, Feeding, SenderWaits
<1>2. ToSend => sendPc # "get" /\ sendBuf \in ResBufs
  BY <1>1 DEF ToSend, Types, Shapes
<1>3. \A r : Result(r) => r \in Nat \X Nat
  BY <1>2, ResultFacts DEF Result
<1> QED BY <1>1, <1>2, <1>3

LEMMA ResTails ==
  ASSUME NEW q \in Seq(ResBufs), q # <<>>
  PROVE  /\ DOMAIN Tail(q) = 1 .. Len(q) - 1 /\ DOMAIN q = 1 .. Len(q) /\ Len(q) \in Nat
         /\ Len(q) >= 1 /\ Head(q) = q[1]
         /\ \A i \in 1 .. Len(q) - 1 : Tail(q)[i] = q[i + 1]
OBVIOUS

LEMMA ResAppends ==
  ASSUME NEW q \in Seq(ResBufs), NEW x \in ResBufs
  PROVE  /\ DOMAIN Append(q, x) = 1 .. Len(q) + 1 /\ DOMAIN q = 1 .. Len(q) /\ Len(q) \in Nat
         /\ Append(q, x)[Len(q) + 1] = x
         /\ \A i \in 1 .. Len(q) : Append(q, x)[i] = q[i]
OBVIOUS

LEMMA PairAppends ==
  ASSUME NEW q \in Seq(Nat \X Nat), NEW x \in Nat \X Nat
  PROVE  /\ DOMAIN Append(q, x) = 1 .. Len(q) + 1 /\ DOMAIN q = 1 .. Len(q) /\ Len(q) \in Nat
         /\ Append(q, x)[Len(q) + 1] = x
         /\ \A i \in 1 .. Len(q) : Append(q, x)[i] = q[i]
OBVIOUS

(* Each result that is queued was, at its place or the next.               *)
LEMMA ResultsMove ==
  ASSUME Types, resData' = resData \/ (resData # <<>> /\ resData' = Tail(resData))
  PROVE  \E d \in {0, 1}, L \in Nat :
           /\ DOMAIN resData = 1 .. L /\ DOMAIN resData' = 1 .. L - d
           /\ \A i \in 1 .. L - d : i + d \in DOMAIN resData /\ resData'[i] = resData[i + d]
<1>1. resData \in Seq(ResBufs)
  BY ResultFacts
<1>2. PICK L \in Nat : L = Len(resData) /\ DOMAIN resData = 1 .. L
  BY <1>1
<1>3. CASE resData # <<>> /\ resData' = Tail(resData)
  <2>1. /\ DOMAIN resData' = 1 .. L - 1 /\ DOMAIN resData = 1 .. L
        /\ \A i \in 1 .. L - 1 : resData'[i] = resData[i + 1]
    BY <1>1, <1>2, <1>3, ResTails
  <2>2. \A i \in 1 .. L - 1 : i + 1 \in DOMAIN resData
    BY <1>2
  <2> QED BY <2>1, <2>2
<1>4. CASE resData' = resData
  <2>1. \A i \in 1 .. L - 0 : i + 0 = i
    OBVIOUS
  <2>2. L - 0 = L
    OBVIOUS
  <2> QED BY <1>2, <1>4, <2>1, <2>2
<1> QED BY <1>3, <1>4

(* No result comes to the queue, to the result thread or to the host; one  *)
(* may come into the FIFO.                                                 *)
LEMMA ResultsKept ==
  ASSUME Types, Types', Feeding, ResultOrder, \A n \in Nat : Precedes(n) => Precedes(n)',
         UNCHANGED <<answer, delivered>>,
         resData' = resData \/ (resData # <<>> /\ resData' = Tail(resData)),
         ToSend' => ToSend /\ sendBuf' = sendBuf,
         Unread' => \/ Unread /\ sent' = sent
                    \/ ToSend /\ ~ToSend' /\ sent' = answer[sendBuf],
         infPc' \in {"result", "execute"} =>
           \A r : Result(r) => Before(r, NextResult')
  PROVE  ResultOrder'
<1>1. PICK d \in {0, 1}, L \in Nat :
           /\ DOMAIN resData = 1 .. L /\ DOMAIN resData' = 1 .. L - d
           /\ \A i \in 1 .. L - d : i + d \in DOMAIN resData /\ resData'[i] = resData[i + d]
  BY ResultsMove
<1>2. ASSUME NEW r, Result(r)' PROVE Result(r)
  BY <1>1, <1>2 DEF Result
<1>3. ASSUME NEW r, Result(r)'
      PROVE  /\ Precedes(r[1])' /\ r # NoResult
             /\ infPc' \in {"result", "execute"} => Before(r, NextResult')
  <2>1. Result(r) /\ r[1] \in Nat
    BY <1>2, <1>3, SentFacts
  <2> QED BY <2>1 DEF ResultOrder
<1>4. ASSUME NEW j \in DOMAIN resData'
      PROVE  /\ \A i \in DOMAIN delivered' : Before(delivered'[i], answer'[resData'[j]])
             /\ ToSend' => Before(answer'[sendBuf'], answer'[resData'[j]])
             /\ Unread' => Before(sent', answer'[resData'[j]])
             /\ \A i \in DOMAIN resData' : i < j => Before(answer'[resData'[i]], answer'[resData'[j]])
  <2>1. j + d \in DOMAIN resData /\ resData'[j] = resData[j + d]
    BY <1>1
  <2>2. ASSUME NEW i \in DOMAIN resData', i < j
        PROVE  Before(answer'[resData'[i]], answer'[resData'[j]])
    <3>1. i + d \in DOMAIN resData /\ resData'[i] = resData[i + d]
      BY <1>1
    <3>2. i \in Nat /\ j \in Nat
      BY <1>1
    <3>3. i + d < j + d
      BY <2>2, <3>2
    <3> QED BY <2>1, <3>1, <3>3 DEF ResultOrder
  <2>3. Unread' => Before(sent', answer'[resData'[j]])
    BY <2>1 DEF ResultOrder
  <2> QED BY <2>1, <2>2, <2>3 DEF ResultOrder
<1>5. /\ Unread' => \A i \in DOMAIN delivered' : Before(delivered'[i], sent')
      /\ ToSend' => \A i \in DOMAIN delivered' : Before(delivered'[i], answer'[sendBuf'])
  BY DEF ResultOrder
<1>6. ToSend' /\ Unread' => Before(sent', answer'[sendBuf'])
  BY DEF ResultOrder
<1>7. \A i, j \in DOMAIN delivered' : i < j => Before(delivered'[i], delivered'[j])
  BY DEF ResultOrder
<1> QED BY <1>3, <1>4, <1>5, <1>6, <1>7 DEF ResultOrder

(* The result thread takes the first.                                      *)
LEMMA SendDequeueResults ==
  ASSUME Types, Types', Feeding, ResultOrder, \A n \in Nat : Precedes(n) => Precedes(n)',
         SendDequeue
  PROVE  ResultOrder'
<1>1. /\ sendPc = "get" /\ sendPc' = "send" /\ resData # <<>> /\ resData' = Tail(resData)
      /\ sendBuf' = Head(resData) /\ UNCHANGED <<answer, delivered, infPc, obj, crop, content>>
      /\ UNCHANGED <<fifo, sent>>
  BY DEF SendDequeue, result_dequeue, infVars, memVars, hostVars, linkVars, epVars
<1>2. PICK L \in Nat : L = Len(resData)
  BY ResultFacts
<1>3. /\ DOMAIN resData' = 1 .. L - 1 /\ DOMAIN resData = 1 .. L /\ L >= 1
      /\ sendBuf' = resData[1] /\ \A i \in 1 .. L - 1 : resData'[i] = resData[i + 1]
  BY <1>1, <1>2, ResTails, ResultFacts
<1>4. ASSUME NEW i \in DOMAIN resData'
      PROVE  /\ i + 1 \in DOMAIN resData /\ 1 < i + 1 /\ resData'[i] = resData[i + 1]
             /\ i \in Nat
  BY <1>3
<1>5. 1 \in DOMAIN resData
  BY <1>3
<1>6. NextResult' = NextResult
  BY <1>1 DEF NextResult, LastItem, LastBuf, H
<1>7. ASSUME NEW r, Result(r)'
      PROVE  /\ Precedes(r[1])' /\ r # NoResult
             /\ infPc' \in {"result", "execute"} => Before(r, NextResult')
  <2>1. Result(r)
    BY <1>1, <1>3, <1>4, <1>5, <1>7 DEF Result, Unread
  <2>2. r[1] \in Nat
    BY <2>1, SentFacts
  <2> QED BY <1>1, <1>6, <2>1, <2>2 DEF ResultOrder
<1>8. /\ \A i \in DOMAIN delivered' : Before(delivered'[i], answer'[sendBuf'])
      /\ Unread' => Unread /\ Before(sent', answer'[sendBuf'])
      /\ Unread' => \A i \in DOMAIN delivered' : Before(delivered'[i], sent')
  BY <1>1, <1>3, <1>5 DEF ResultOrder, Unread
<1>9. ASSUME NEW j \in DOMAIN resData'
      PROVE  /\ \A i \in DOMAIN delivered' : Before(delivered'[i], answer'[resData'[j]])
             /\ Before(answer'[sendBuf'], answer'[resData'[j]])
             /\ Unread' => Before(sent', answer'[resData'[j]])
             /\ \A i \in DOMAIN resData' : i < j => Before(answer'[resData'[i]], answer'[resData'[j]])
  <2>1. j + 1 \in DOMAIN resData /\ 1 < j + 1 /\ resData'[j] = resData[j + 1] /\ j \in Nat
    BY <1>4
  <2>2. ASSUME NEW i \in DOMAIN resData', i < j
        PROVE  Before(answer'[resData'[i]], answer'[resData'[j]])
    <3>1. i + 1 \in DOMAIN resData /\ resData'[i] = resData[i + 1] /\ i \in Nat
      BY <1>4
    <3>2. i + 1 < j + 1
      BY <2>1, <2>2, <3>1
    <3> QED BY <1>1, <2>1, <3>1, <3>2 DEF ResultOrder
  <2>3. Unread' => Before(sent', answer'[resData'[j]])
    BY <1>1, <2>1 DEF ResultOrder, Unread
  <2> QED BY <1>1, <1>3, <1>5, <2>1, <2>2, <2>3 DEF ResultOrder
<1>10. \A i, j \in DOMAIN delivered' : i < j => Before(delivered'[i], delivered'[j])
  BY <1>1 DEF ResultOrder
<1> QED BY <1>7, <1>8, <1>9, <1>10 DEF ResultOrder

(* The host reads the one that is sent.                                    *)
LEMMA HostReadsResults ==
  ASSUME Types, Types', Feeding, ResultOrder, \A n \in Nat : Precedes(n) => Precedes(n)',
         HostReads, sent # NoResult
  PROVE  ResultOrder'
<1>1. /\ fifo = "data" /\ fifo' = "empty" /\ delivered' = Append(delivered, sent)
      /\ UNCHANGED <<resData, answer, sendPc, sendBuf, sendMutex, round, infPc, obj, crop, content>>
  BY DEF HostReads, queueVars, resQueues, mutexVars, infVars, sendVars, memVars
<1>2. Unread /\ ~Unread' /\ (ToSend' => ToSend)
  BY <1>1 DEF ToSend, Unread, Going, SenderWaits
<1> DEFINE a == sent
<1>3. a \in Nat \X Nat
  BY <1>2, ResultFacts
<1> HIDE DEF a
<1>4. PICK L \in Nat : L = Len(delivered)
  BY ResultFacts
<1>5. /\ DOMAIN delivered' = 1 .. L + 1 /\ DOMAIN delivered = 1 .. L
      /\ delivered'[L + 1] = a /\ \A i \in 1 .. L : delivered'[i] = delivered[i]
  BY <1>1, <1>3, <1>4, PairAppends, ResultFacts DEF a
<1>6. ASSUME NEW i \in DOMAIN delivered'
      PROVE  \/ i \in DOMAIN delivered /\ delivered'[i] = delivered[i]
             \/ i = L + 1 /\ delivered'[i] = a
  BY <1>5
<1>7. NextResult' = NextResult
  BY <1>1 DEF NextResult, LastItem, LastBuf, H
<1>8. ASSUME NEW r, Result(r)'
      PROVE  /\ Precedes(r[1])' /\ r # NoResult
             /\ infPc' \in {"result", "execute"} => Before(r, NextResult')
  <2>1. Result(r)
    BY <1>1, <1>2, <1>6, <1>8 DEF Result, a
  <2>2. r[1] \in Nat
    BY <2>1, SentFacts
  <2> QED BY <1>1, <1>7, <2>1, <2>2 DEF ResultOrder
<1>9. ASSUME NEW j \in DOMAIN resData'
      PROVE  /\ \A i \in DOMAIN delivered' : Before(delivered'[i], answer'[resData'[j]])
             /\ ToSend' => Before(answer'[sendBuf'], answer'[resData'[j]])
             /\ \A i \in DOMAIN resData' : i < j => Before(answer'[resData'[i]], answer'[resData'[j]])
  BY <1>1, <1>2, <1>6 DEF ResultOrder, a
<1>11. ASSUME ToSend', NEW i \in DOMAIN delivered'
       PROVE  Before(delivered'[i], answer'[sendBuf'])
  BY <1>1, <1>2, <1>6, <1>11 DEF ResultOrder, a
<1>10. ASSUME NEW i \in DOMAIN delivered', NEW j \in DOMAIN delivered', i < j
       PROVE  Before(delivered'[i], delivered'[j])
  <2>1. i \in DOMAIN delivered /\ delivered'[i] = delivered[i]
    BY <1>5, <1>10
  <2>2. CASE j \in DOMAIN delivered /\ delivered'[j] = delivered[j]
    BY <1>10, <2>1, <2>2 DEF ResultOrder
  <2>3. CASE delivered'[j] = a
    BY <1>2, <2>1, <2>3 DEF ResultOrder, a
  <2> QED BY <1>6, <2>2, <2>3
<1> QED BY <1>2, <1>8, <1>9, <1>10, <1>11 DEF ResultOrder

(* The dispatcher makes the next result.                                   *)
LEMMA InfExecuteResults ==
  ASSUME Types, Types', Feeding, ResultExclusive, ObjectOrder, ResultOrder,
         \A n \in Nat : Precedes(n) => Precedes(n)', InfExecute
  PROVE  ResultOrder'
<1> DEFINE a == NextResult
<1>1. /\ infPc = "execute" /\ infPc' \in {"result", "put"} /\ crop' = crop + 1
      /\ answer' = [answer EXCEPT ![resBuf] = a]
      /\ resData' = resData \/ resData' = Append(resData, resBuf)
      /\ UNCHANGED <<obj, content, delivered, sendPc, sendBuf, sendMutex, round, fifo, tx, sent>>
  BY DEF InfExecute, result_enqueue, hostVars, sendVars, linkVars, mutexVars, epVars, NextResult,
     LastItem, LastBuf, H
<1>2. LastItem(obj).req \in Nat /\ crop \in Nat /\ a = <<LastItem(obj).req, crop + 1>>
  BY <1>1, ObjectFacts, ResultFacts DEF NextResult
<1>3. NextResult' = <<LastItem(obj).req, crop + 2>>
  <2>1. NextResult' = <<content'[LastBuf(obj')].head.req, crop' + 1>>
    BY DEF NextResult, LastItem, LastBuf, H
  <2> QED BY <1>1, <1>2, <2>1 DEF LastItem, H
<1>4. a \in Nat \X Nat /\ a[1] = LastItem(obj).req /\ Before(a, NextResult')
  BY <1>2, <1>3 DEF Before
<1>5. Precedes(a[1])
  BY <1>1, <1>4 DEF ObjectOrder
<1> HIDE DEF a
<1>6. /\ resBuf \in ResBufs /\ answer'[resBuf] = a
      /\ \A i \in DOMAIN resData : answer'[resData[i]] = answer[resData[i]]
      /\ ToSend => answer'[sendBuf] = answer[sendBuf]
  <2>1. resBuf \in ResBufs /\ resOwner[resBuf] = "inf"
    BY <1>1 DEF ResultExclusive
  <2>2. \A i \in DOMAIN resData : resData[i] # resBuf /\ resData[i] \in ResBufs
    BY <2>1, ResultFacts DEF ResultExclusive
  <2>3. ToSend => sendBuf # resBuf /\ sendBuf \in ResBufs
    BY <2>1, SentFacts DEF ResultExclusive
  <2> QED BY <1>1, <2>1, <2>2, <2>3, ResultFacts
<1>7. (ToSend' <=> ToSend) /\ (Unread' <=> Unread)
  BY <1>1 DEF ToSend, Going, SenderWaits, Unread
<1>8. PICK L \in Nat : L = Len(resData) /\ DOMAIN resData = 1 .. L
  BY ResultFacts
<1>9. ASSUME NEW i \in DOMAIN resData'
      PROVE  \/ i \in DOMAIN resData /\ answer'[resData'[i]] = answer[resData[i]]
             \/ i = L + 1 /\ answer'[resData'[i]] = a
  <2>1. CASE resData' = resData
    BY <1>6, <2>1
  <2>2. CASE resData' = Append(resData, resBuf)
    <3>1. /\ DOMAIN resData' = 1 .. L + 1 /\ resData'[L + 1] = resBuf
          /\ \A k \in 1 .. L : resData'[k] = resData[k]
      BY <1>6, <1>8, <2>2, ResAppends, ResultFacts
    <3> QED BY <1>6, <1>8, <3>1
  <2> QED BY <1>1, <2>1, <2>2
<1>10. \A r : Result(r) => Before(r, a)
  BY <1>1 DEF ResultOrder, a
<1>11. ASSUME NEW r, Result(r)' PROVE Result(r) \/ r = a
  <2>1. CASE \E i \in DOMAIN resData' : r = answer'[resData'[i]]
    BY <1>9, <2>1 DEF Result
  <2>2. CASE ToSend' /\ r = answer'[sendBuf']
    BY <1>1, <1>6, <1>7, <2>2 DEF Result
  <2>3. CASE \/ Unread' /\ r = sent'
             \/ \E i \in DOMAIN delivered' : r = delivered'[i]
    BY <1>1, <1>7, <2>3 DEF Result
  <2> QED BY <1>11, <2>1, <2>2, <2>3 DEF Result
<1>12. ASSUME NEW r, Result(r)'
       PROVE  Precedes(r[1])' /\ Before(r, NextResult') /\ r # NoResult
  <2>1. CASE r = a
    <3>1. r[2] = crop + 1
      BY <1>2, <2>1
    <3>2. r # NoResult
      BY <1>2, <3>1 DEF NoResult
    <3> QED BY <1>2, <1>4, <1>5, <2>1, <3>2
  <2>2. CASE Result(r)
    <3>1. r \in Nat \X Nat /\ Precedes(r[1]) /\ Before(r, a) /\ r # NoResult
      BY <1>10, <2>2, SentFacts DEF ResultOrder
    <3>2. Precedes(r[1])'
      BY <3>1
    <3>3. Before(r, NextResult')
      BY <1>2, <1>3, <3>1 DEF Before
    <3> QED BY <3>1, <3>2, <3>3
  <2> QED BY <1>11, <1>12, <2>1, <2>2
<1>13. ASSUME NEW j \in DOMAIN resData'
       PROVE  /\ \A i \in DOMAIN delivered' : Before(delivered'[i], answer'[resData'[j]])
              /\ ToSend' => Before(answer'[sendBuf'], answer'[resData'[j]])
              /\ Unread' => Before(sent', answer'[resData'[j]])
              /\ \A i \in DOMAIN resData' : i < j => Before(answer'[resData'[i]], answer'[resData'[j]])
  <2>1. CASE j \in DOMAIN resData /\ answer'[resData'[j]] = answer[resData[j]]
    <3>1. ASSUME NEW i \in DOMAIN resData', i < j
          PROVE  Before(answer'[resData'[i]], answer'[resData'[j]])
      <4>1. i # L + 1
        BY <1>8, <2>1, <3>1
      <4>2. i \in DOMAIN resData /\ answer'[resData'[i]] = answer[resData[i]]
        BY <1>9, <4>1
      <4> QED BY <2>1, <3>1, <4>2 DEF ResultOrder
    <3> QED BY <1>1, <1>6, <1>7, <2>1, <3>1 DEF ResultOrder
  <2>2. CASE j = L + 1 /\ answer'[resData'[j]] = a
    <3>1. ASSUME NEW i \in DOMAIN resData', i < j
          PROVE  Before(answer'[resData'[i]], answer'[resData'[j]])
      <4>1. i # L + 1
        BY <2>2, <3>1
      <4>2. i \in DOMAIN resData /\ answer'[resData'[i]] = answer[resData[i]]
        BY <1>9, <4>1
      <4> QED BY <1>10, <2>2, <4>2 DEF Result
    <3> QED BY <1>1, <1>6, <1>7, <1>10, <2>2, <3>1 DEF Result
  <2> QED BY <1>9, <2>1, <2>2
<1>14. /\ ToSend' => \A i \in DOMAIN delivered' : Before(delivered'[i], answer'[sendBuf'])
       /\ ToSend' /\ Unread' => Before(sent', answer'[sendBuf'])
       /\ Unread' => \A i \in DOMAIN delivered' : Before(delivered'[i], sent')
       /\ \A i, j \in DOMAIN delivered' : i < j => Before(delivered'[i], delivered'[j])
  BY <1>1, <1>6, <1>7 DEF ResultOrder
<1> QED BY <1>12, <1>13, <1>14 DEF ResultOrder

LEMMA ToSendKept ==
  ASSUME Types, Feeding, SendMutexHeld, [Next]_vars, ~SendDequeue
  PROVE  ToSend' => ToSend /\ sendBuf' = sendBuf
<1> USE DEF ToSend, Going, SenderWaits, linkVars, epVars, mutexVars, sendVars, memVars
<1>1. CASE SendNext
  <2>1. CASE SendStart \/ SendHangs
    BY <2>1 DEF SendStart, SendHangs
  <2>2. CASE SendBegins
    BY <2>2 DEF SendBegins, send_begins, SendMutexHeld
  <2>3. CASE SendDone
    BY <2>3 DEF SendDone, send_wakes, AfterRound
  <2>4. CASE SendPutFree
    BY <2>4, SentFacts DEF SendPutFree, Types, Shapes
  <2> QED BY <1>1, <2>1, <2>2, <2>3, <2>4 DEF SendNext
<1>2. CASE LinkNext
  BY <1>2 DEF LinkNext, Configured, Disconnected, VbusOff, LinkLost, ErrandResetDevice,
     reset_endpoint
<1>3. CASE HostNext
  BY <1>3 DEF HostNext, ControlConfigure, ControlReset, ControlDroppable, HostBegins,
     HostSendsImage, HostSendsCommand, SendDma, HostReads, reset_endpoint
<1>4. CASE ImgNext
  <2>1. CASE ImgCommand \/ ImgCommandTimeout
    BY <2>1 DEF ImgCommand, ImgCommandTimeout
  <2>2. CASE ImgCommandBegins
    BY <2>2 DEF ImgCommandBegins, send_begins, SendMutexHeld
  <2>4. CASE ImgCommandDone
    BY <2>4 DEF ImgCommandDone, send_wakes, AfterRound
  <2>5. CASE ImgCleaned
    BY <2>5 DEF ImgCleaned, reset_endpoint
  <2>3. CASE ~(ImgCommand \/ ImgCommandBegins \/ ImgCommandDone \/ ImgCommandTimeout
             \/ ImgCleaned)
    BY <1>4, <2>3 DEF ImgNext, ImgWaitConnection, ImgGet, ImgTakeFree, ImgUnbundle,
       ImgGrabFails, ImgRetry, ImgReceive, ImgMark, ImgArm, ImgReceived, ImgFailed, ImgSwap,
       ImgEnqueue, ImgPutFree, ImgCleanImages, ImgCleanResults, imgElse
  <2> QED BY <2>1, <2>2, <2>3, <2>4, <2>5
<1>5. CASE BufMgrNext \/ InfNext \/ UNCHANGED vars
  BY <1>5 DEF BufMgrNext, InfNext, InfDequeue, InfGetResultBuffer, InfExecute, InfPutFree, vars
<1> QED BY <1>1, <1>2, <1>3, <1>4, <1>5 DEF Next

(* The DMA takes the result thread's result into the FIFO.                 *)
LEMMA UnreadKept ==
  ASSUME Types, Feeding, [Next]_vars
  PROVE  Unread' => \/ Unread /\ sent' = sent
                    \/ ToSend /\ ~ToSend' /\ sent' = answer[sendBuf]
<1>1. CASE SendDma
  <2> SUFFICES ASSUME Unread' PROVE ToSend /\ ~ToSend' /\ sent' = answer[sendBuf]
    OBVIOUS
  <2>1. /\ fifo = "dma" /\ fifo' = "data" /\ sent' = IF tx = 0 THEN NoResult ELSE answer[tx]
        /\ UNCHANGED <<sendPc, sendMutex, round>>
    BY <1>1 DEF SendDma, sendVars, mutexVars
  <2>2. tx # 0
    BY <2>1 DEF Unread
  <2>3. Going /\ sendMutex = "send" /\ SenderWaits /\ tx = sendBuf
    BY <2>1, <2>2, SentFacts DEF Going
  <2>4. ~ToSend'
    BY <2>1, <2>3 DEF ToSend, Going, SenderWaits, Types, Shapes
  <2> QED BY <2>1, <2>2, <2>3, <2>4 DEF ToSend
<1>2. CASE ~SendDma
  <2>1. sent' = sent
    BY <1>2 DEF Next, LinkNext, Configured, Disconnected, VbusOff, LinkLost,
       ErrandResetDevice, HostNext, ControlConfigure, ControlReset, ControlDroppable,
       HostBegins, HostSendsImage, HostSendsCommand, HostReads, BufMgrNext, InfNext,
       InfDequeue, InfGetResultBuffer, InfExecute, InfPutFree, SendNext, SendDequeue,
       SendStart, SendBegins, SendDone, SendHangs, SendPutFree, vars, memVars, ImgNext,
       ImgWaitConnection, ImgGet, ImgTakeFree, ImgUnbundle, ImgGrabFails, ImgRetry, ImgReceive,
       ImgMark, ImgArm, ImgReceived, ImgFailed, ImgSwap, ImgEnqueue, ImgCommand,
       ImgCommandBegins, ImgCommandDone, ImgCommandTimeout, ImgPutFree, ImgCleanImages,
       ImgCleanResults, ImgCleaned
  <2>2. fifo' = "data" => fifo = "data"
    <3>1. CASE ImgCommandBegins \/ SendBegins \/ ImgCommandTimeout
      BY <3>1 DEF ImgCommandBegins, SendBegins, ImgCommandTimeout, send_begins
    <3>2. CASE LinkNext
      BY <3>2 DEF LinkNext, Configured, Disconnected, VbusOff, ErrandResetDevice,
         reset_endpoint
    <3>3. CASE HostNext
      BY <1>2, <3>3 DEF HostNext, ControlConfigure, ControlReset, ControlDroppable,
         HostBegins, HostSendsImage, HostSendsCommand, HostReads, reset_endpoint, linkVars,
         epVars
    <3>4. CASE ImgCleaned
      BY <3>4 DEF ImgCleaned, reset_endpoint, epVars
    <3>5. CASE BufMgrNext \/ InfNext \/ UNCHANGED vars
      BY <3>5 DEF BufMgrNext, InfNext, InfDequeue, InfGetResultBuffer, InfExecute,
         InfPutFree, vars, linkVars, epVars
    <3>6. CASE (ImgNext \/ SendNext) /\ ~(ImgCommandBegins \/ SendBegins
               \/ ImgCommandTimeout \/ ImgCleaned)
      BY <3>6 DEF SendNext, SendDequeue, SendStart, SendDone, SendHangs, SendPutFree,
         linkVars, epVars, ImgNext, ImgWaitConnection, ImgGet, ImgTakeFree, ImgUnbundle,
         ImgGrabFails, ImgRetry, ImgReceive, ImgMark, ImgArm, ImgReceived, ImgFailed,
         ImgSwap, ImgEnqueue, ImgCommand, ImgCommandDone, ImgPutFree, ImgCleanImages,
         ImgCleanResults, imgElse
    <3> QED BY <3>1, <3>2, <3>3, <3>4, <3>5, <3>6 DEF Next
  <2> QED BY <2>1, <2>2 DEF Unread
<1> QED BY <1>1, <1>2

LEMMA ResultsQuiet ==
  ASSUME Types, [Next]_vars, ~SendDequeue, ~(HostReads /\ sent # NoResult), ~InfExecute
  PROVE  /\ UNCHANGED <<answer, delivered>>
         /\ resData' = resData \/ (resData # <<>> /\ resData' = Tail(resData))
<1> USE DEF memVars, hostVars, queueVars, resQueues
<1>1. CASE SendNext \/ InfNext
  BY <1>1 DEF SendNext, SendStart, SendBegins, SendDone, SendHangs, SendPutFree, InfNext,
     InfDequeue, InfGetResultBuffer, InfPutFree
<1>2. CASE LinkNext
  BY <1>2 DEF LinkNext, Configured, Disconnected, VbusOff, LinkLost, ErrandResetDevice
<1>3. CASE HostNext
  BY <1>3 DEF HostNext, ControlConfigure, ControlReset, ControlDroppable, HostBegins,
     HostSendsImage, HostSendsCommand, SendDma, HostReads
<1>4. CASE ImgNext
  <2>1. CASE ImgCleanResults
    BY <2>1 DEF ImgCleanResults, clean_result_object
  <2>2. CASE ~ImgCleanResults
    BY <1>4, <2>2 DEF ImgNext, ImgWaitConnection, ImgGet, ImgTakeFree, ImgUnbundle,
       ImgGrabFails, ImgRetry, ImgReceive, ImgMark, ImgArm, ImgReceived, ImgFailed, ImgSwap,
       ImgEnqueue, ImgCommand, ImgCommandBegins, ImgCommandDone, ImgCommandTimeout, ImgPutFree,
       ImgCleanImages, ImgCleaned
  <2> QED BY <2>1, <2>2
<1>5. CASE BufMgrNext \/ UNCHANGED vars
  BY <1>5 DEF BufMgrNext, MgrNext, MgrGet, MgrPutBack, MgrEnqueue, vars
<1> QED BY <1>1, <1>2, <1>3, <1>4, <1>5 DEF Next

(* The dispatcher's next result comes after those there are.               *)
LEMMA NextResultKept ==
  ASSUME Types, ResultOrder, \A b : Waits(b) => H(b)' = H(b), [Next]_vars, ~InfExecute,
         infPc' \in {"result", "execute"}
  PROVE  \A r : Result(r) => Before(r, NextResult')
<1>1. CASE InfDequeue
  <2>1. /\ imgData # <<>> /\ obj' = Head(imgData) /\ crop' = 0 /\ content' = content
    BY <1>1 DEF InfDequeue, image_dequeue, memVars
  <2>2. 1 \in DOMAIN imgData /\ obj' = imgData[1]
    BY <2>1, PlaceTypes, ObjectTails
  <2>3. NextResult' = <<content'[LastBuf(obj')].head.req, crop' + 1>>
    BY DEF NextResult, LastItem, LastBuf, H
  <2>4. NextResult'[1] = LastItem(imgData[1]).req
    BY <2>1, <2>2, <2>3 DEF LastItem, H
  <2>5. ASSUME NEW r, Result(r) PROVE r[1] < LastItem(imgData[1]).req
    BY <2>2, <2>5 DEF ResultOrder, Precedes
  <2> QED BY <2>4, <2>5 DEF Before
<1>2. CASE ~InfDequeue
  <2>1. infPc \in {"result", "execute"} /\ UNCHANGED <<obj, crop>>
    <3>1. CASE InfNext
      BY <1>2, <3>1 DEF InfNext, InfGetResultBuffer, InfPutFree
    <3>2. CASE ~InfNext
      <4>1. UNCHANGED <<infPc, obj, crop>>
        BY <3>2 DEF Next, LinkNext, Configured, Disconnected, VbusOff, LinkLost,
           ErrandResetDevice, HostNext, ControlConfigure, ControlReset, ControlDroppable,
           HostBegins, HostSendsImage, HostSendsCommand, SendDma, HostReads, BufMgrNext,
           SendNext, SendDequeue, SendStart, SendBegins, SendDone, SendHangs, SendPutFree,
           vars, infVars, ImgNext, ImgWaitConnection, ImgGet, ImgTakeFree, ImgUnbundle,
           ImgGrabFails, ImgRetry, ImgReceive, ImgMark, ImgArm, ImgReceived, ImgFailed,
           ImgSwap, ImgEnqueue, ImgCommand, ImgCommandBegins, ImgCommandDone,
           ImgCommandTimeout, ImgPutFree, ImgCleanImages, ImgCleanResults, ImgCleaned
      <4> QED BY <4>1
    <3> QED BY <3>1, <3>2
  <2>2. content'[LastBuf(obj)].head = content[LastBuf(obj)].head
    BY <2>1, ObjectFacts DEF H
  <2>3. NextResult' = <<content'[LastBuf(obj')].head.req, crop' + 1>>
    BY DEF NextResult, LastItem, LastBuf, H
  <2>4. NextResult' = NextResult
    BY <2>1, <2>2, <2>3 DEF NextResult, LastItem, H
  <2> QED BY <2>1, <2>4 DEF ResultOrder
<1> QED BY <1>1, <1>2

LEMMA StepResults ==
  ASSUME Types, Types', Feeding, SendMutexHeld, ResultExclusive, ObjectOrder, ResultOrder,
         \A b : Waits(b) => H(b)' = H(b), \A n \in Nat : Precedes(n) => Precedes(n)',
         [Next]_vars
  PROVE  ResultOrder'
<1>1. CASE SendDequeue
  BY <1>1, SendDequeueResults
<1>2. CASE HostReads /\ sent # NoResult
  BY <1>2, HostReadsResults
<1>3. CASE InfExecute
  BY <1>3, InfExecuteResults
<1>4. CASE ~SendDequeue /\ ~(HostReads /\ sent # NoResult) /\ ~InfExecute
  <2>1. /\ UNCHANGED <<answer, delivered>>
        /\ resData' = resData \/ (resData # <<>> /\ resData' = Tail(resData))
    BY <1>4, ResultsQuiet
  <2>2. ToSend' => ToSend /\ sendBuf' = sendBuf
    BY <1>4, ToSendKept
  <2>3. Unread' => \/ Unread /\ sent' = sent
                   \/ ToSend /\ ~ToSend' /\ sent' = answer[sendBuf]
    BY UnreadKept
  <2>4. infPc' \in {"result", "execute"} => \A r : Result(r) => Before(r, NextResult')
    BY <1>4, NextResultKept
  <2> QED BY <2>1, <2>2, <2>3, <2>4, ResultsKept
<1> QED BY <1>1, <1>2, <1>3, <1>4

(* As long as the image thread has its buffers and its headers, and no DMA *)
(* was armed late.                                                         *)
ResultInv == ~raced /\ ~torn /\ ~late =>
               FrontOrder /\ TempOrder /\ MgrOrder /\ ObjectOrder /\ ResultOrder

LEMMA InitResults == Init => ResultInv
<1> SUFFICES ASSUME Init PROVE FrontOrder /\ TempOrder /\ MgrOrder /\ ObjectOrder /\ ResultOrder
  BY DEF ResultInv
<1> USE DEF Init, QueueInit
<1>1. ~HasHeader /\ ~host.open
  BY DEF HasHeader, InReceive, WaitsForBuffer, NewHeader, Landed
<1>2. TempItems = {} /\ StoredAt = {} /\ MgrItems = {}
  <2>1. StoredAt = {}
    BY DEF StoredAt
  <2>2. TempItems = {}
    BY DEF TempItems
  <2> QED BY <2>1, <2>2 DEF MgrItems
<1>3. FrontOrder
  BY <1>1 DEF FrontOrder
<1>4. TempOrder
  BY <1>2 DEF TempOrder
<1>5. MgrOrder
  BY <1>2 DEF MgrOrder
<1>6. ObjectOrder
  BY DEF ObjectOrder
<1>7. ~ToSend /\ ~Unread /\ \A r : ~Result(r)
  BY DEF ToSend, Going, Unread, Result
<1>8. ResultOrder
  BY <1>7 DEF ResultOrder
<1> QED BY <1>3, <1>4, <1>5, <1>6, <1>8

LEMMA StepInOrder ==
  ASSUME Types, Types', FeedInv, SendMutexHeld, OrderInv, RealInv, Exclusive, ResultExclusive,
         ResultInv, [Next]_vars
  PROVE  ResultInv'
<1> SUFFICES ASSUME ~raced', ~torn', ~late'
             PROVE  FrontOrder' /\ TempOrder' /\ MgrOrder' /\ ObjectOrder' /\ ResultOrder'
  BY DEF ResultInv
<1>1. ~raced /\ ~torn /\ ~late
  BY HistoryStays
<1>2. /\ Receiving /\ ReceiveInv /\ LengthInv /\ LineInv /\ StoredInv /\ NoNull /\ QueuesReal
      /\ AllInPlace /\ FrontOrder /\ TempOrder /\ MgrOrder /\ ObjectOrder /\ ResultOrder
      /\ Feeding
  BY <1>1 DEF OrderInv, RealInv, Exclusive, ResultInv, FeedInv
<1>3. \A b : Waits(b) => H(b)' = H(b)
  BY <1>1, <1>2, ContentStays
<1>4. FrontOrder' /\ Covers(Front', Front)
  BY <1>1, <1>2, StepFront
<1>5. TempOrder' /\ Covers(Coming', Coming)
  BY <1>2, <1>3, <1>4, StepTemp
<1>6. MgrOrder' /\ Covers(Pending', Pending)
  BY <1>2, <1>3, <1>5, StepMgr
<1>7. ObjectOrder' /\ \A n \in Nat : Precedes(n) => Precedes(n)'
  BY <1>2, <1>3, <1>6, StepObjects
<1>8. ResultOrder'
  BY <1>2, <1>3, <1>7, StepResults
<1> QED BY <1>4, <1>5, <1>6, <1>7, <1>8

LEMMA ResultInvariant == Spec => []ResultInv
<1>1. Types /\ Types' /\ FeedInv /\ SendMutexHeld /\ OrderInv /\ RealInv /\ Exclusive
      /\ ResultExclusive /\ ResultInv /\ [Next]_vars => ResultInv'
  BY StepInOrder
<1> QED BY <1>1, InitResults, TypesInvariant, FeedInvariant, MutexInvariant, OrderInvariant,
           RealInvariant, ImagesExclusive, ResultsExclusive, PTL DEF Spec

(* Whatever the host resets, drops or unplugs: as long as the image thread *)
(* neither went on without a buffer nor took the later part of an image    *)
(* for a new one, and no DMA was armed late, the host gets the results in  *)
(* the order of its inferences and, within an inference, of the crop       *)
(* boxes, none twice.                                                      *)
THEOREM ResultsComeInOrder == Spec => [](~raced /\ ~torn => ResultsInOrder)
<1>1. Types /\ ResultInv /\ ~raced /\ ~torn => ResultsInOrder
  <2> SUFFICES ASSUME Types, ResultOrder, NEW i \in 2 .. Len(delivered)
               PROVE  Before(delivered[i - 1], delivered[i])
    BY DEF ResultInv, ResultsInOrder, Before
  <2>1. DOMAIN delivered = 1 .. Len(delivered) /\ Len(delivered) \in Nat
    BY ResultFacts
  <2>2. i \in DOMAIN delivered /\ i - 1 \in DOMAIN delivered /\ i - 1 < i
    BY <2>1
  <2> QED BY <2>2 DEF ResultOrder
<1> QED BY <1>1, TypesInvariant, ResultInvariant, PTL

(* So for a host that never switches dropping on and sends each image in   *)
(* one transfer, the order holds until a DMA is armed late.                *)
THEOREM ResultsComeInOrderUndropped ==
  ASSUME MaxDrop = 0, ImgChunks = 1
  PROVE  Spec => []ResultsInOrder
<1>1. Types /\ NeverDroppable /\ [Next]_vars => NeverDroppable'
  BY StepNeverDroppable
<1>2. NeverDroppable => ~raced
  BY DEF NeverDroppable
<1>3. Spec => [](~raced)
  BY <1>1, <1>2, InitNeverDroppable, TypesInvariant, PTL DEF Spec
<1>4. Spec => []~torn
  BY OneTransferIsWhole
<1> QED BY <1>3, <1>4, ResultsComeInOrder, PTL

-----------------------------------------------------------------------------
(* A host that requests no reset and stays connected.  No transfer is      *)
(* terminated between its marking and its arming: no DMA is armed late.    *)
(* DATA_IN is never stopped: it runs for the thread that has               *)
(* send_bulk_mutex, first the DMA and then the FIFO, and is idle when      *)
(* nobody has it.                                                          *)
HostSteady ==
  /\ count.link = 0 /\ ~doReset
  /\ imgPc \notin {"clean_img", "clean_res"}
  /\ imgPc = "arm" => ep["out"] = "xfer"
Sending ==
  \/ round = "mark" /\ ep["in"] = "idle" /\ ~evt["in"] /\ fifo = "empty"
  \/ round = "arm"  /\ ep["in"] = "xfer" /\ ~evt["in"] /\ fifo = "empty"
  \/ round = "dma"  /\ ep["in"] = "xfer" /\ ~evt["in"] /\ fifo = "dma"
  \/ round = "dma"  /\ ep["in"] = "done" /\ evt["in"]  /\ fifo \in {"data", "empty"}
  \/ round = "fifo" /\ ep["in"] = "xfer" /\ ~evt["in"] /\ fifo = "data"
  \/ round = "fifo" /\ ep["in"] = "done" /\ evt["in"]  /\ fifo = "empty"
SendSteady ==
  /\ ~late /\ HostSteady
  /\ allocated => link
  /\ sendMutex = "img" <=> imgPc \in {"cmd_wait", "hung"}
  /\ sendMutex = "send" <=> sendPc \in {"wait", "hung"}
  /\ sendMutex = "img" /\ fifo = "data" => sent = NoResult
  /\ IF sendMutex = "free"
     THEN fifo = "empty" /\ ~evt["in"] /\ (link => ep["in"] = "idle")
     ELSE Sending

LEMMA InitSendSteady == Init => SendSteady
BY DEF Init, QueueInit, SendSteady, HostSteady, Endpoints

LEMMA ResPlacedInvariant == Spec => []ResPlaced
<1>1. Types /\ ResPlaced /\ [Next]_vars => ResPlaced'
  BY StepResPlaced
<1> QED BY <1>1, InitResPlaced, TypesInvariant, PTL DEF Spec

LEMMA InUntouched ==
  ASSUME Types, transfer_done("out") \/ transfer_wakes("out")
  PROVE  evt'["in"] = evt["in"] /\ ep'["in"] = ep["in"]
<1> USE ImgFacts
<1>1. "in" \in Endpoints /\ "in" # "out"
  BY DEF Endpoints
<1> QED BY <1>1 DEF transfer_done, transfer_wakes


(* The result thread sends on a link that is up.                           *)
LEMMA SenderUp ==
  ASSUME Types, ResPlaced, SendSteady, sendPc # "get" PROVE link
<1>1. sendBuf \in ResBufs /\ resOwner[sendBuf] # "unallocated"
  BY DEF ResPlaced, ResultExclusive
<1> QED BY <1>1 DEF ResPlaced, SendSteady

(* The link comes up once, before anything is sent.                        *)
LEMMA OnlyConfigured ==
  ASSUME MaxLink = 0, Types, NeverDown, HostSteady, LinkNext
  PROVE  Configured /\ imgPc = "wait"
<1>1. Configured
  BY CountFacts DEF LinkNext, Disconnected, VbusOff, LinkLost, ErrandResetDevice, NeverDown,
     HostSteady
<1> QED BY <1>1 DEF Configured, NeverDown, HostSteady

LEMMA HostStaysSteady ==
  ASSUME MaxReset = 0, Types, Receiving, NeverDown, SendSteady, HostNext
  PROVE  HostSteady'
<1> USE ImgFacts DEF linkVars, epVars, imgVars, hostVars
<1>1. ~ControlReset
  BY DEF ControlReset, Types, TypeOK, HostTypeOK, Counters
<1>2. count'.link = count.link
  <2>1. CASE ControlDroppable \/ HostBegins \/ HostSendsCommand
    <3>1. \/ count' = [count EXCEPT !.drop = @ + 1]
          \/ count' = [count EXCEPT !.req = @ + 1]
          \/ count' = [count EXCEPT !.cmd = @ + 1]
      BY <2>1 DEF ControlDroppable, HostBegins, HostSendsCommand
    <3> QED BY <3>1, CountFacts
  <2>2. CASE ~(ControlDroppable \/ HostBegins \/ HostSendsCommand)
    BY <1>1, <2>2 DEF HostNext, ControlConfigure, HostSendsImage, SendDma, HostReads
  <2> QED BY <2>1, <2>2
<1>3. UNCHANGED <<doReset, imgPc>>
  BY <1>1 DEF HostNext, ControlConfigure, ControlDroppable, HostBegins, HostSendsImage,
     HostSendsCommand, SendDma, HostReads
<1>4. imgPc = "arm" => ep'["out"] = ep["out"]
  <2>1. CASE HostSendsImage \/ HostSendsCommand
    <3>1. imgPc = "recv_wait"
      BY <2>1 DEF HostSendsImage, HostSendsCommand, Land, Receiving, SendSteady
    <3> QED BY <3>1
  <2>2. CASE SendDma \/ HostReads
    <3>1. transfer_done("in") \/ ep' = ep
      BY <2>2 DEF SendDma, HostReads
    <3> QED BY <3>1, OutUntouched
  <2>3. CASE ControlConfigure \/ ControlDroppable \/ HostBegins
    BY <2>3 DEF ControlConfigure, ControlDroppable, HostBegins
  <2> QED BY <1>1, <2>1, <2>2, <2>3 DEF HostNext
<1> QED BY <1>2, <1>3, <1>4 DEF HostSteady, SendSteady

LEMMA ImgStaysSteady ==
  ASSUME Types, NeverDown, SendSteady, ImgNext
  PROVE  HostSteady'
<1> USE ImgFacts
<1>1. count' = count
  BY DEF ImgNext, ImgWaitConnection, ImgGet, ImgTakeFree, ImgUnbundle, ImgGrabFails, ImgRetry,
     ImgReceive, ImgMark, ImgArm, ImgReceived, ImgFailed, ImgSwap, ImgEnqueue, ImgCommand,
     ImgCommandBegins, ImgCommandDone, ImgCommandTimeout, ImgPutFree, ImgCleanImages,
     ImgCleanResults, ImgCleaned, hostVars
<1>2. ~ImgCleanImages /\ ~ImgCleanResults /\ ~ImgCleaned
  BY DEF ImgCleanImages, ImgCleanResults, ImgCleaned, SendSteady, HostSteady
<1>3. ImgFailed => Parse(0) /\ doReset' = doReset
  BY DEF ImgFailed, SendSteady, HostSteady, NeverDown
<1>4. doReset' = doReset
  BY <1>2, <1>3 DEF ImgNext, ImgWaitConnection, ImgGet, ImgTakeFree, ImgUnbundle,
     ImgGrabFails, ImgRetry, ImgReceive, ImgMark, ImgArm, ImgReceived, ImgSwap, ImgEnqueue,
     ImgCommand, ImgCommandBegins, ImgCommandDone, ImgCommandTimeout, ImgPutFree, linkVars,
     imgElse
<1>5. CASE ImgReceived \/ ImgFailed
  <2>1. imgPc' \in {"failed", "get", "dead", "recv", "enqueue", "cmd", "put"}
    BY <1>3, <1>5 DEF ImgReceived, Parse, ParseHeader, ParseRest, NextRecv
  <2> QED BY <1>1, <1>4, <2>1 DEF HostSteady, SendSteady
<1>6. CASE ImgCommandBegins
  <2>1. imgPc' = imgPc /\ imgPc = "cmd_wait"
    BY <1>6 DEF ImgCommandBegins, imgVars
  <2> QED BY <1>1, <1>4, <2>1 DEF HostSteady, SendSteady
<1>7. CASE ImgMark
  BY <1>1, <1>4, <1>7 DEF ImgMark, HostSteady, SendSteady
<1>8. CASE ~(ImgReceived \/ ImgFailed \/ ImgCommandBegins \/ ImgMark)
  <2>1. imgPc' \notin {"clean_img", "clean_res", "arm"}
    BY <1>2, <1>8 DEF ImgNext, ImgWaitConnection, ImgGet, ImgTakeFree, ImgUnbundle,
       ImgGrabFails, ImgRetry, ImgReceive, ImgArm, ImgSwap, ImgEnqueue, ImgCommand,
       ImgCommandDone, ImgCommandTimeout, ImgPutFree, Received, NextRecv
  <2> QED BY <1>1, <1>4, <2>1 DEF HostSteady, SendSteady
<1> QED BY <1>5, <1>6, <1>7, <1>8

LEMMA SendStaysSteady ==
  ASSUME Types, SendSteady, SendNext
  PROVE  HostSteady'
<1> USE ImgFacts
<1>1. UNCHANGED <<count, doReset, imgPc>>
  BY DEF SendNext, SendDequeue, SendStart, SendBegins, SendDone, SendHangs, SendPutFree,
     hostVars, linkVars, imgVars
<1>2. ep'["out"] = ep["out"]
  <2>1. CASE SendDone
    BY <2>1, OutUntouched DEF SendDone
  <2>2. CASE SendBegins
    <3>1. "in" # "out"
      OBVIOUS
    <3> QED BY <2>2, <3>1 DEF SendBegins, send_begins
  <2>3. CASE SendDequeue \/ SendStart \/ SendHangs \/ SendPutFree
    BY <2>3 DEF SendDequeue, SendStart, SendHangs, SendPutFree, linkVars, epVars
  <2> QED BY <2>1, <2>2, <2>3 DEF SendNext
<1> QED BY <1>1, <1>2 DEF HostSteady, SendSteady

LEMMA StepHostSteady ==
  ASSUME MaxReset = 0, MaxLink = 0, Types, Receiving, NeverDown, SendSteady, [Next]_vars
  PROVE  HostSteady'
<1>1. CASE LinkNext
  <2>1. Configured /\ imgPc = "wait"
    BY <1>1, OnlyConfigured DEF SendSteady
  <2> QED BY <2>1 DEF Configured, HostSteady, SendSteady, hostVars, imgVars
<1>2. CASE BufMgrNext \/ InfNext \/ UNCHANGED vars
  <2>1. UNCHANGED <<count, doReset, imgPc, ep>>
    BY <1>2 DEF BufMgrNext, InfNext, InfDequeue, InfGetResultBuffer, InfExecute, InfPutFree,
       vars, linkVars, epVars, imgVars, hostVars
  <2> QED BY <2>1 DEF HostSteady, SendSteady
<1> QED BY <1>1, <1>2, HostStaysSteady, ImgStaysSteady, SendStaysSteady DEF Next

LEMMA SendSteadyKept ==
  ASSUME SendSteady, HostSteady', late' => late,
         UNCHANGED <<link, fifo, sendMutex, round, sendPc, sent>>,
         evt'["in"] = evt["in"], ep'["in"] = ep["in"],
         imgPc' = imgPc \/ (imgPc \notin {"cmd_wait", "hung"} /\ imgPc' \notin {"cmd_wait", "hung"}),
         allocated' => allocated \/ link
  PROVE  SendSteady'
BY DEF SendSteady, Sending

LEMMA ConnectSendSteady ==
  ASSUME MaxLink = 0, Types, ResPlaced, NeverDown, SendSteady, HostSteady', LinkNext
  PROVE  SendSteady'
<1> USE ImgFacts
<1>1. Configured /\ imgPc = "wait"
  BY OnlyConfigured DEF SendSteady
<1>2. ~link /\ sendPc = "get"
  BY <1>1, SenderUp DEF Configured
<1>3. sendMutex = "free" /\ fifo = "empty"
  BY <1>1, <1>2 DEF SendSteady, Types, TypeOK, LinkTypeOK
<1>4. /\ link' /\ UNCHANGED <<imgPc, sendPc, sendMutex, fifo, evt, allocated, late>>
      /\ ep'["in"] = "idle"
  BY <1>1, <1>3 DEF Configured, imgVars, sendVars, mutexVars, queueVars, history
<1> QED BY <1>1, <1>2, <1>3, <1>4 DEF SendSteady

LEMMA HostSendSteady ==
  ASSUME MaxReset = 0, Types, Receiving, FeedInv, SendSteady, HostSteady', HostNext
  PROVE  SendSteady'
<1> USE ImgFacts DEF linkVars, epVars, mutexVars, sendVars, imgVars, queueVars, memVars, history
<1>1. "in" \in Endpoints
  BY DEF Endpoints
<1>2. CASE HostSendsImage \/ HostSendsCommand
  <2>1. transfer_done("out")
    BY <1>2 DEF HostSendsImage, HostSendsCommand, Land, Receiving, SendSteady
  <2>2. UNCHANGED <<link, fifo, sendMutex, round, sendPc, imgPc, allocated, sent, late>>
    BY <1>2 DEF HostSendsImage, HostSendsCommand
  <2> QED BY <2>1, <2>2, InUntouched, SendSteadyKept
<1>3. CASE SendDma
  <2>1. /\ fifo = "dma" /\ fifo' = "data" /\ sent' = IF tx = 0 THEN NoResult ELSE answer[tx]
        /\ UNCHANGED <<link, sendMutex, round, sendPc, imgPc, allocated, late>>
    BY <1>3 DEF SendDma
  <2>2. ep["in"] = "xfer" /\ sendMutex # "free" /\ round = "dma"
    BY <2>1 DEF SendSteady, Sending
  <2>3. ep'["in"] = "done" /\ evt'["in"]
    BY <1>1, <1>3, <2>2 DEF SendDma, transfer_done
  <2>4. sendMutex = "img" => sent' = NoResult
    BY <2>1 DEF FeedInv, Feeding, SendSteady
  <2> QED BY <2>1, <2>2, <2>3, <2>4 DEF SendSteady, Sending
<1>4. CASE HostReads
  <2>1. /\ fifo = "data" /\ fifo' = "empty"
        /\ UNCHANGED <<link, sendMutex, round, sendPc, imgPc, allocated, late>>
    BY <1>4 DEF HostReads
  <2>2. IF ep["in"] = "xfer" THEN ep'["in"] = "done" /\ evt'["in"]
                             ELSE ep'["in"] = ep["in"] /\ evt'["in"] = evt["in"]
    BY <1>1, <1>4 DEF HostReads, transfer_done
  <2> QED BY <2>1, <2>2 DEF SendSteady, Sending
<1>5. ~ControlReset
  BY DEF ControlReset, Types, TypeOK, HostTypeOK, Counters
<1>6. CASE ControlConfigure \/ ControlDroppable \/ HostBegins
  <2>1. /\ UNCHANGED <<link, fifo, sendMutex, round, sendPc, imgPc, ep, evt, sent, late>>
        /\ allocated' => allocated \/ link
    BY <1>6 DEF ControlConfigure, ControlDroppable, HostBegins
  <2> QED BY <2>1, SendSteadyKept
<1> QED BY <1>2, <1>3, <1>4, <1>5, <1>6 DEF HostNext

(* The endpoint is marked, the DMA armed.                                  *)
LEMMA BeginsSendSteady ==
  ASSUME Types, SendSteady, HostSteady', NEW b, send_begins(b), sendMutex # "free",
         UNCHANGED <<link, evt, sendMutex, sendPc, imgPc, allocated, sent>>
  PROVE  SendSteady'
<1> USE ImgFacts
<1>1. "in" \in Endpoints
  BY DEF Endpoints
<1>2. CASE round = "mark"
  <2>1. round' = "arm" /\ ep'["in"] = "xfer" /\ UNCHANGED <<fifo, late>>
    BY <1>1, <1>2 DEF send_begins
  <2> QED BY <1>2, <2>1 DEF SendSteady, Sending
<1>3. CASE round = "arm"
  <2>1. ep["in"] = "xfer"
    BY <1>3 DEF SendSteady, Sending
  <2>2. round' = "dma" /\ fifo' = "dma" /\ ep' = ep /\ late' = (late \/ ep["in"] # "xfer")
    BY <1>3 DEF send_begins
  <2>3. ~late'
    BY <2>1, <2>2 DEF SendSteady
  <2> QED BY <1>3, <2>1, <2>2, <2>3 DEF SendSteady, Sending
<1> QED BY <1>2, <1>3 DEF send_begins

LEMMA ImgSendSteady ==
  ASSUME Types, NeverDown, SendSteady, HostSteady', ImgNext
  PROVE  SendSteady'
<1> USE ImgFacts
<1>1. "in" \in Endpoints
  BY DEF Endpoints
<1>2. CASE ImgCommand
  <2>1. /\ imgPc = "cmd" /\ link
        /\ UNCHANGED <<link, sendPc, allocated, ep, evt, fifo, sent, late>>
    BY <1>2 DEF ImgCommand, NeverDown, SendSteady, HostSteady, sendVars, queueVars, epVars, memVars
  <2>2. CASE /\ sendMutex = "free" /\ sendMutex' = "img" /\ imgPc' = "cmd_wait"
             /\ round' = "mark" /\ ep["in"] = "idle"
    BY <2>1, <2>2 DEF SendSteady, Sending
  <2>3. CASE imgPc' = "put" /\ UNCHANGED <<sendMutex, round>>
    BY <2>1, <2>3, SendSteadyKept
  <2> QED BY <1>2, <2>2, <2>3 DEF ImgCommand, mutexVars
<1>3. CASE ImgCommandBegins
  <2>1. /\ send_begins(0) /\ imgPc = "cmd_wait"
        /\ UNCHANGED <<link, evt, sendMutex, sendPc, imgPc, allocated, sent>>
    BY <1>3 DEF ImgCommandBegins, imgVars, sendVars, queueVars
  <2>2. sendMutex # "free"
    BY <2>1 DEF SendSteady
  <2> QED BY <2>1, <2>2, BeginsSendSteady
<1>4. CASE ImgCommandDone
  <2>1. /\ imgPc = "cmd_wait" /\ sendMutex = "img" /\ SenderWaits
        /\ UNCHANGED <<link, sendPc, allocated, fifo, sent, late>>
    BY <1>4 DEF ImgCommandDone, send_wakes, SendSteady, sendVars, queueVars, memVars, history
  <2>2. evt["in"] /\ ~evt'["in"] /\ ep["in"] = "done" /\ link
    <3>1. evt["in"] /\ ~evt'["in"]
      BY <1>1, <1>4 DEF ImgCommandDone, send_wakes, transfer_wakes
    <3> QED BY <2>1, <3>1 DEF SendSteady, HostSteady, Sending, NeverDown
  <2>3. CASE AfterRound = "fifo"
    <3>1. fifo = "data" /\ ep'["in"] = "xfer" /\ round' = "fifo" /\ UNCHANGED <<imgPc, sendMutex>>
      BY <1>1, <1>4, <2>1, <2>2, <2>3 DEF ImgCommandDone, send_wakes, AfterRound
    <3> QED BY <2>1, <2>2, <3>1 DEF SendSteady, Sending
  <2>4. CASE AfterRound # "fifo"
    <3>1. AfterRound = "over" /\ fifo = "empty"
      BY <2>1, <2>2, <2>4 DEF AfterRound, SendSteady, Sending
    <3>2. ep'["in"] = "idle" /\ imgPc' = "put" /\ sendMutex' = "free"
      BY <1>1, <1>4, <2>2, <3>1 DEF ImgCommandDone, send_wakes, transfer_wakes
    <3> QED BY <2>1, <2>2, <3>1, <3>2 DEF SendSteady
  <2> QED BY <2>3, <2>4
<1>5. CASE ImgCommandTimeout
  <2>1. /\ imgPc = "cmd_wait" /\ sendMutex = "img" /\ ~evt["in"] /\ link
        /\ UNCHANGED <<link, sendPc, allocated, evt, round, sent, late>>
    BY <1>5 DEF ImgCommandTimeout, SendSteady, HostSteady, sendVars, queueVars, memVars, history,
       NeverDown
  <2>2. CASE round = "dma"
    <3>1. ep'["in"] = "idle" /\ fifo' = "empty" /\ imgPc' = "put" /\ sendMutex' = "free"
      BY <1>1, <1>5, <2>1, <2>2 DEF ImgCommandTimeout, Available
    <3> QED BY <2>1, <3>1 DEF SendSteady
  <2>3. CASE round # "dma"
    <3>1. imgPc' = "hung" /\ UNCHANGED <<ep, fifo, sendMutex>>
      BY <1>5, <2>3 DEF ImgCommandTimeout
    <3> QED BY <2>1, <3>1 DEF SendSteady, Sending
  <2> QED BY <2>2, <2>3
<1>6. ~ImgCleanImages /\ ~ImgCleanResults /\ ~ImgCleaned
  BY DEF ImgCleanImages, ImgCleanResults, ImgCleaned, SendSteady, HostSteady
<1>7. CASE ImgReceived \/ ImgFailed
  <2>1. evt'["in"] = evt["in"] /\ ep'["in"] = ep["in"]
    BY <1>7, InUntouched DEF ImgReceived, ImgFailed, epVars
  <2>2. imgPc \in {"recv_wait", "failed"} /\ imgPc' \notin {"cmd_wait", "hung"}
    BY <1>7 DEF ImgReceived, ImgFailed, Parse, ParseHeader, ParseRest, NextRecv
  <2>3. UNCHANGED <<link, fifo, sendMutex, round, sendPc, allocated, sent, late>>
    BY <1>7 DEF ImgReceived, ImgFailed, epVars, mutexVars, sendVars, memVars, history
  <2> QED BY <2>1, <2>2, <2>3, SendSteadyKept
<1>8. CASE ImgMark \/ ImgArm
  <2>1. evt'["in"] = evt["in"] /\ ep'["in"] = ep["in"]
    BY <1>1, <1>8 DEF ImgMark, ImgArm
  <2>2. ~late'
    <3>1. CASE ImgMark
      BY <3>1 DEF ImgMark, history, SendSteady
    <3>2. CASE ImgArm
      BY <3>2 DEF ImgArm, SendSteady, HostSteady
    <3> QED BY <1>8, <3>1, <3>2
  <2>3. /\ imgPc \in {"mark", "arm"} /\ imgPc' \notin {"cmd_wait", "hung"}
        /\ UNCHANGED <<link, fifo, sendMutex, round, sendPc, allocated, sent>>
    BY <1>8 DEF ImgMark, ImgArm, mutexVars, sendVars, memVars, queueVars
  <2> QED BY <2>1, <2>2, <2>3, SendSteadyKept
<1>9. CASE \/ ImgWaitConnection \/ ImgGet \/ ImgTakeFree \/ ImgUnbundle \/ ImgGrabFails \/ ImgRetry
           \/ ImgReceive \/ ImgSwap \/ ImgEnqueue \/ ImgPutFree
  <2>1. /\ UNCHANGED <<link, fifo, sendMutex, round, sendPc, allocated, ep, evt, sent, late>>
        /\ imgPc \notin {"cmd_wait", "hung"} /\ imgPc' \notin {"cmd_wait", "hung"}
    BY <1>9 DEF ImgWaitConnection, ImgGet, ImgTakeFree, ImgUnbundle, ImgGrabFails, ImgRetry,
       ImgReceive, ImgSwap, ImgEnqueue, ImgPutFree, Received, NextRecv, imgElse, linkVars,
       epVars, mutexVars, sendVars, queueVars, memVars, history
  <2> QED BY <2>1, SendSteadyKept
<1> QED BY <1>2, <1>3, <1>4, <1>5, <1>6, <1>7, <1>8, <1>9 DEF ImgNext

(* The result thread always finds DATA_IN idle, and is woken when its data *)
(* is in the FIFO or was read.                                             *)
LEMMA StartsSending ==
  ASSUME Types, ResPlaced, SendSteady, HostSteady', SendStart
  PROVE  SendSteady' /\ sendMutex' = "send" /\ round' = "mark" /\ sendPc' = "wait"
<1> USE ImgFacts
<1>1. sendMutex = "free" /\ link /\ ep["in"] = "idle"
      /\ UNCHANGED <<link, imgPc, allocated, ep, evt, fifo, late>>
  BY SenderUp DEF SendStart, SendSteady, imgVars, queueVars, epVars, history
<1>2. sendMutex' = "send" /\ sendPc' = "wait" /\ round' = "mark"
  BY <1>1 DEF SendStart
<1> QED BY <1>1, <1>2 DEF SendSteady, Sending

LEMMA SendsOn ==
  ASSUME Types, SendSteady, HostSteady', SendBegins
  PROVE  SendSteady' /\ sendMutex = "send"
<1>1. /\ send_begins(sendBuf) /\ sendPc = "wait"
      /\ UNCHANGED <<link, evt, sendMutex, sendPc, imgPc, allocated, sent>>
  BY DEF SendBegins, imgVars, sendVars, queueVars
<1>2. sendMutex = "send"
  BY <1>1 DEF SendSteady
<1> QED BY <1>1, <1>2, BeginsSendSteady

LEMMA EndsSending ==
  ASSUME Types, ResPlaced, SendSteady, HostSteady', SendDone
  PROVE  /\ SendSteady' /\ fifo' = fifo
         /\ sendMutex' = sendMutex \/ fifo = "empty"
         /\ sendMutex = "send" /\ sendPc' # "send"
<1> USE ImgFacts
<1>1. "in" \in Endpoints
  BY DEF Endpoints
<1>2. /\ sendPc = "wait" /\ sendMutex = "send" /\ link /\ SenderWaits
      /\ UNCHANGED <<link, imgPc, allocated, fifo, sent, late>>
  BY SenderUp DEF SendDone, send_wakes, SendSteady, imgVars, queueVars, memVars, history
<1>3. evt["in"] /\ ~evt'["in"] /\ ep["in"] = "done"
  <2>1. evt["in"] /\ ~evt'["in"]
    BY <1>1 DEF SendDone, send_wakes, transfer_wakes
  <2> QED BY <1>2, <2>1 DEF SendSteady, Sending
<1>4. CASE AfterRound = "fifo"
  <2>1. fifo = "data" /\ ep'["in"] = "xfer" /\ round' = "fifo" /\ UNCHANGED <<sendPc, sendMutex>>
    BY <1>1, <1>2, <1>3, <1>4 DEF SendDone, send_wakes, AfterRound
  <2> QED BY <1>2, <1>3, <2>1 DEF SendSteady, Sending
<1>5. CASE AfterRound # "fifo"
  <2>1. AfterRound = "over" /\ fifo = "empty"
    BY <1>2, <1>3, <1>5 DEF AfterRound, SendSteady, Sending
  <2>2. ep'["in"] = "idle" /\ sendPc' = "put" /\ sendMutex' = "free"
    BY <1>1, <1>3, <1>2, <2>1 DEF SendDone, send_wakes, transfer_wakes
  <2> QED BY <1>2, <1>3, <2>1, <2>2 DEF SendSteady
<1> QED BY <1>4, <1>5

LEMMA StepSendSteady ==
  ASSUME MaxReset = 0, MaxLink = 0, Types, ResPlaced, Receiving, FeedInv, NeverDown, SendSteady,
         [Next]_vars
  PROVE  SendSteady'
<1>1. HostSteady'
  BY StepHostSteady
<1>2. CASE SendDequeue \/ SendHangs \/ SendPutFree
  <2>1. UNCHANGED <<link, fifo, sendMutex, round, imgPc, allocated, ep, evt, sent, late>>
    BY <1>2 DEF SendDequeue, SendHangs, SendPutFree, linkVars, epVars, mutexVars, imgVars,
       queueVars, memVars, history
  <2>2. sendPc \in {"wait", "hung"} <=> sendPc' \in {"wait", "hung"}
    BY <1>2 DEF SendDequeue, SendHangs, SendPutFree
  <2> QED BY <1>1, <2>1, <2>2 DEF SendSteady, Sending
<1>3. CASE BufMgrNext \/ InfNext \/ UNCHANGED vars
  <2>1. UNCHANGED <<link, fifo, sendMutex, round, imgPc, allocated, ep, evt, sendPc, sent, late>>
    BY <1>3 DEF BufMgrNext, MgrNext, MgrGet, MgrPutBack, MgrEnqueue, InfNext, InfDequeue,
       InfGetResultBuffer, InfExecute, InfPutFree, vars, linkVars, epVars, mutexVars, imgVars,
       queueVars, sendVars, memVars, history
  <2> QED BY <1>1, <2>1, SendSteadyKept
<1>4. CASE LinkNext
  BY <1>1, <1>4, ConnectSendSteady
<1>5. CASE HostNext
  BY <1>1, <1>5, HostSendSteady
<1>6. CASE ImgNext
  BY <1>1, <1>6, ImgSendSteady
<1>7. CASE SendStart \/ SendBegins \/ SendDone
  BY <1>1, <1>7, StartsSending, SendsOn, EndsSending
<1> QED BY <1>2, <1>3, <1>4, <1>5, <1>6, <1>7 DEF Next, SendNext

LEMMA SendSteadyInvariant ==
  ASSUME MaxReset = 0, MaxLink = 0 PROVE Spec => [](NeverDown /\ SendSteady)
<1>1. Types /\ NeverDown /\ [Next]_vars => NeverDown'
  BY StepNeverDown
<1>2. Types /\ ResPlaced /\ OrderInv /\ FeedInv /\ NeverDown /\ SendSteady /\ [Next]_vars
      => SendSteady'
  BY StepSendSteady DEF OrderInv
<1> QED BY <1>1, <1>2, InitNeverDown, InitSendSteady, TypesInvariant, ResPlacedInvariant,
           OrderInvariant, FeedInvariant, PTL DEF Spec

-----------------------------------------------------------------------------
(* With such a host the image thread has no receive that fails, it has the *)
(* first of two transfers of an image exactly when the host has sent the   *)
(* first, and nothing is ever torn.                                        *)
MidImage == host.open /\ host.chunk = 1
Halfway  == HasHeader /\ imgPc # "enqueue" /\ Got = 1 /\ ImgChunks = 2
Steady ==
  /\ count.link = 0
  /\ ~torn
  /\ imgPc \notin {"failed", "clean_img", "clean_res"}
  /\ imgPc = "recv_wait" => ep["out"] \in {"xfer", "done"}
  /\ InReceive /\ recvLen >= 1 => recvType = "inf"
  /\ Landed /\ recvLen >= 1 => content[buf].rest.kind # "cmd"
  /\ host.open => host.req = count.req
  /\ imgPc # "dead" => (MidImage <=> Halfway)

(* What a step does to the header in the hands of the image thread and to  *)
(* the host.  Nothing; the host begins an inference;                       *)
SameHeader == (HasHeader' <=> HasHeader) /\ (HasHeader => Header' = Header)
Untouched ==
  /\ host' = host /\ count'.req = count.req /\ SameHeader
  /\ (imgPc' = "dead") <=> (imgPc = "dead")
Begun ==
  /\ ~host.open /\ host'.open /\ host'.index = 0 /\ host'.req = count.req + 1
  /\ count'.req = count.req + 1 /\ SameHeader /\ ~MidImage'
  /\ (imgPc' = "dead") <=> (imgPc = "dead")

(* it sends a transfer, the last of an image or not; an image too big      *)
(* stops the thread; and the image goes on to buf_mgr.                     *)
SameImage(a, b) == /\ a.req = b.req /\ a.index = b.index
                   /\ a.total = b.total /\ a.crops = b.crops
Sent ==
  /\ imgPc # "dead" /\ imgPc' = imgPc /\ host.open /\ count'.req = count.req
  /\ HasHeader' /\ SameImage(Header', host)
  /\ HasHeader => Header' = Header /\ MidImage
  /\ \/ MidImage' /\ SameImage(host, host')
     \/ ~MidImage' /\ host'.open /\ host.index + 1 < host.total
        /\ host'.req = host.req /\ host'.index = host.index + 1 /\ host'.total = host.total
        /\ host'.crops = host.crops
     \/ ~MidImage' /\ ~host'.open /\ host.index + 1 = host.total
Moves == \/ Untouched \/ Begun \/ Sent
         \/ imgPc' = "dead" /\ ~HasHeader' /\ count'.req = count.req /\ host' = host
         \/ ImgEnqueue

(* What the host sends next; a is the image just before b; and the image   *)
(* in the hands of the thread is the one just before the host's.           *)
NextSent == IF host.open THEN HostItem("inf") ELSE NextItem
Just(a, b) == IF a.index + 1 < a.total
              THEN b.req = a.req /\ b.index = a.index + 1 /\ b.total = a.total
              ELSE b.req = a.req + 1 /\ b.index = 0
FrontStrict == HasHeader => IF MidImage THEN SameImage(Header, host) ELSE Just(Header, NextSent)

LEMMA SteadyUntouched ==
  ASSUME Steady, UNCHANGED <<imgVars, content, host, torn>>, ep'["out"] = ep["out"],
         count'.req = count.req, count'.link = count.link
  PROVE  Steady' /\ Untouched
<1>1. /\ Landed' = Landed /\ InReceive' = InReceive /\ NewHeader' = NewHeader
      /\ HasHeader' = HasHeader /\ Header' = Header
  BY DEF Landed, InReceive, WaitsForBuffer, NewHeader, HasHeader, Header, imgVars
<1>2. Got' = Got
  BY <1>1 DEF Got, imgVars
<1>3. MidImage' = MidImage /\ Halfway' = Halfway
  BY <1>1, <1>2 DEF MidImage, Halfway, imgVars
<1> QED BY <1>1, <1>3 DEF Steady, Untouched, SameHeader, imgVars

LEMMA OthersSteady ==
  ASSUME Types, Steady, BufMgrNext \/ InfNext \/ SendNext \/ UNCHANGED vars
  PROVE  Steady' /\ Untouched
<1>1. UNCHANGED <<imgVars, content, host, count, torn>>
  BY DEF BufMgrNext, InfNext, InfDequeue, InfGetResultBuffer, InfExecute, InfPutFree,
     SendNext, SendDequeue, SendStart, SendBegins, SendDone, SendHangs, SendPutFree, vars,
     memVars, hostVars, history
<1>2. ep'["out"] = ep["out"]
  BY OutUntouched, ImgFacts DEF BufMgrNext, InfNext, InfDequeue, InfGetResultBuffer, InfExecute,
     InfPutFree, SendNext, SendDequeue, SendStart, SendBegins, SendDone, SendHangs,
     SendPutFree, vars, linkVars, epVars
<1> QED BY <1>1, <1>2, SteadyUntouched

(* The only change of the link is the first connection.                    *)
LEMMA LinkSteady ==
  ASSUME MaxLink = 0, Types, NeverDown, Steady, LinkNext
  PROVE  Steady' /\ Untouched
<1> USE ImgFacts
<1>1. Configured
  BY CountFacts DEF LinkNext, Disconnected, VbusOff, LinkLost, ErrandResetDevice, NeverDown, Steady
<1>2. imgPc = "wait" /\ UNCHANGED <<imgVars, content, host, count, torn>>
  BY <1>1 DEF Configured, NeverDown, Steady, memVars, hostVars, history
<1>3. ~Landed /\ ~Landed' /\ ~InReceive /\ ~InReceive' /\ ~HasHeader /\ ~HasHeader' /\ imgPc' = "wait"
  BY <1>2 DEF Landed, InReceive, WaitsForBuffer, NewHeader, HasHeader, imgVars
<1>4. (MidImage' <=> MidImage) /\ ~Halfway /\ ~Halfway'
  BY <1>2, <1>3 DEF MidImage, Halfway
<1> QED BY <1>2, <1>3, <1>4 DEF Steady, Untouched, SameHeader

LEMMA HostQuietSteady ==
  ASSUME MaxReset = 0, Types, Steady,
         ControlConfigure \/ ControlDroppable \/ SendDma \/ HostReads \/ ControlReset
  PROVE  Steady' /\ Untouched
<1> USE ImgFacts
<1>1. ControlConfigure \/ ControlDroppable \/ SendDma \/ HostReads
  BY DEF ControlReset, Types, TypeOK, HostTypeOK, Counters
<1>2. UNCHANGED <<imgVars, content, host, torn>>
  BY <1>1 DEF ControlConfigure, ControlDroppable, SendDma, HostReads, memVars, hostVars, history
<1>3. count'.req = count.req /\ count'.link = count.link
  BY <1>1 DEF ControlConfigure, ControlDroppable, SendDma, HostReads, hostVars,
     Types, TypeOK, HostTypeOK, Counters
<1>4. ep'["out"] = ep["out"]
  BY <1>1, OutUntouched DEF ControlConfigure, ControlDroppable, SendDma, HostReads,
     linkVars, epVars
<1> QED BY <1>2, <1>3, <1>4, SteadyUntouched

LEMMA BeginsSteady ==
  ASSUME Types, Steady, HostBegins
  PROVE  Steady' /\ Begun
<1> USE ImgFacts
<1>1. UNCHANGED <<imgVars, content, ep, torn>>
  BY DEF HostBegins, memVars, linkVars, epVars, history
<1>2. count'.req = count.req + 1 /\ count'.link = count.link
  BY DEF HostBegins, Types, TypeOK, HostTypeOK, Counters
<1>3. /\ ~host.open /\ host'.req = count.req + 1 /\ host'.index = 0 /\ host'.chunk = 0
      /\ host'.open
  BY DEF HostBegins
<1>4. /\ Landed' = Landed /\ InReceive' = InReceive /\ NewHeader' = NewHeader
      /\ HasHeader' = HasHeader /\ Header' = Header
  BY <1>1 DEF Landed, InReceive, WaitsForBuffer, NewHeader, HasHeader, Header, imgVars
<1>5. Got' = Got
  BY <1>1, <1>4 DEF Got, imgVars
<1>6. ~MidImage /\ ~MidImage' /\ Halfway' = Halfway
  BY <1>1, <1>3, <1>4, <1>5 DEF MidImage, Halfway, imgVars
<1> QED BY <1>1, <1>2, <1>3, <1>4, <1>6 DEF Steady, Begun, SameHeader, imgVars

(* No command comes in the middle of an image.                             *)
LEMMA CommandSteady ==
  ASSUME Types, Receiving, ReceiveInv, LengthInv, SendSteady, Steady, HostSendsCommand
  PROVE  Steady' /\ Untouched
<1> USE ImgFacts
<1> DEFINE item == [Nothing EXCEPT !.kind = "cmd", !.req = count.cmd + 1]
<1>1. /\ Land(item) /\ link /\ ~host.open
      /\ UNCHANGED <<imgVars, dma, host, torn>>
  BY DEF HostSendsCommand, history
<1>2. ~IsInf(item)
  BY DEF IsInf, Nothing
<1> HIDE DEF item
<1>3. /\ imgPc = "recv_wait" /\ ~Landed /\ Landed'
      /\ recvLen = 0 => content'[buf].head = item
      /\ recvLen # 0 => recvLen = 1
  BY <1>1, Lands DEF SendSteady
<1>4. recvLen = 0
  <2>1. CASE recvLen = 1
    <3>1. recvType = "inf" /\ InReceive /\ ImgChunks = 2
      BY <1>3, <2>1 DEF Steady, InReceive, LengthInv
    <3>2. HasHeader /\ Got = 1
      BY <1>3, <2>1, <3>1 DEF HasHeader, Got
    <3> QED BY <1>1, <1>3, <3>1, <3>2 DEF Steady, Halfway, MidImage
  <2> QED BY <1>3, <2>1
<1>5. UNCHANGED <<imgPc, recvLen, recvType, buf>>
  BY <1>1 DEF imgVars
<1>6. ~HasHeader /\ ~HasHeader'
  BY <1>1, <1>2, <1>3, <1>4, <1>5 DEF HasHeader, NewHeader, InReceive, WaitsForBuffer
<1>7. ~MidImage /\ ~MidImage' /\ ~Halfway /\ ~Halfway'
  BY <1>1, <1>6 DEF MidImage, Halfway
<1>8. count'.req = count.req /\ count'.link = count.link
  BY DEF HostSendsCommand, Types, TypeOK, HostTypeOK, Counters
<1>9. ep'["out"] = "done"
  BY <1>3, <1>5 DEF Landed
<1> QED BY <1>1, <1>3, <1>4, <1>5, <1>6, <1>7, <1>8, <1>9 DEF Steady, Untouched, SameHeader

(* A transfer of an image lands: the first is its header, the second       *)
(* completes the image the first began.                                    *)
LEMMA ImageSteady ==
  ASSUME Types, Receiving, ReceiveInv, LengthInv, LineInv, FrontOrder, FrontStrict,
         SendSteady, Steady, HostSendsImage
  PROVE  Steady' /\ Sent
<1> USE ImgFacts
<1>1. PICK kind \in {"inf", "big", "part"} :
        Land(HostItem(kind)) /\ (kind = "part" <=> host.chunk > 0)
  BY DEF HostSendsImage
<1> DEFINE item == HostItem(kind)
<1>2. /\ item.req = host.req /\ item.index = host.index /\ item.total = host.total
      /\ item.kind = kind /\ item.crops = host.crops
  BY DEF HostItem
<1>3. link /\ UNCHANGED <<imgVars, dma, count>> /\ torn' = (torn \/ (host.chunk > 0 /\ dma.at = 0))
  BY DEF HostSendsImage
<1>4. Land(item)
  BY <1>1
<1>5. content' = [content EXCEPT ![dma.buf] = IF dma.at = 0 THEN [@ EXCEPT !.head = item]
                                                            ELSE [@ EXCEPT !.rest = item]]
  BY <1>4 DEF Land
<1> HIDE DEF item
<1>6. /\ imgPc = "recv_wait" /\ ~Landed /\ Landed'
      /\ recvLen = 0 => content'[buf].head = item
      /\ recvLen # 0 => recvLen = 1 /\ content'[buf].head = content[buf].head
      /\ dma.at = recvLen
  BY <1>3, <1>4, Lands DEF SendSteady
<1>7. UNCHANGED <<imgPc, imgRet, buf, recvLen, recvType, hdr>>
  BY <1>3 DEF imgVars
<1>8. InReceive /\ InReceive' /\ ep'["out"] = "done"
  BY <1>6, <1>7 DEF InReceive, Landed
<1>9. /\ host.open /\ host.index < host.total /\ host.chunk \in {0, 1} /\ host.index \in Nat
      /\ host.total \in Nat /\ host'.req = host.req /\ host.req = count.req
      /\ \/ host.chunk = 0 /\ ImgChunks = 2 /\ host'.open /\ host'.chunk = 1
            /\ host'.index = host.index /\ host'.total = host.total /\ host'.crops = host.crops
         \/ host.chunk + 1 = ImgChunks /\ host.index + 1 < host.total /\ host'.open
            /\ host'.chunk = 0 /\ host'.index = host.index + 1 /\ host'.total = host.total
            /\ host'.crops = host.crops
         \/ host.chunk + 1 = ImgChunks /\ host.index + 1 = host.total /\ ~host'.open
  <2>1. /\ host.open /\ host.index < host.total /\ host.chunk \in {0, 1} /\ host.index \in Nat
        /\ host'.req = host.req /\ host.chunk < ImgChunks /\ host.total \in Nat
    BY HostMoves, HostGoesOn, SizesAssumption DEF ReceiveInv, HostStates
  <2>2. \/ host' = [host EXCEPT !.chunk = @ + 1] /\ host.chunk + 1 < ImgChunks
        \/ /\ host' = [host EXCEPT !.chunk = 0, !.index = @ + 1] /\ host.index + 1 < host.total
           /\ ~(host.chunk + 1 < ImgChunks)
        \/ /\ host' = [host EXCEPT !.open = FALSE] /\ ~(host.index + 1 < host.total)
           /\ ~(host.chunk + 1 < ImgChunks)
    BY DEF HostSendsImage
  <2>3. host.req = count.req
    BY <2>1 DEF Steady
  <2>4. CASE host' = [host EXCEPT !.chunk = @ + 1] /\ host.chunk + 1 < ImgChunks
    <3>1. host.chunk = 0 /\ ImgChunks = 2
      BY <2>1, <2>4
    <3>2. /\ host'.open /\ host'.chunk = 1 /\ host'.index = host.index /\ host'.total = host.total
          /\ host'.crops = host.crops
      BY <2>1, <2>4, <3>1 DEF HostStates
    <3> QED BY <2>1, <2>3, <3>1, <3>2
  <2>5. CASE /\ host' = [host EXCEPT !.chunk = 0, !.index = @ + 1] /\ host.index + 1 < host.total
             /\ ~(host.chunk + 1 < ImgChunks)
    <3>1. host.chunk + 1 = ImgChunks
      BY <2>1, <2>5
    <3>2. /\ host'.open /\ host'.chunk = 0 /\ host'.index = host.index + 1 /\ host'.total = host.total
          /\ host'.crops = host.crops
      BY <2>1, <2>5 DEF HostStates
    <3> QED BY <2>1, <2>3, <2>5, <3>1, <3>2
  <2>6. CASE /\ host' = [host EXCEPT !.open = FALSE] /\ ~(host.index + 1 < host.total)
             /\ ~(host.chunk + 1 < ImgChunks)
    <3>1. host.chunk + 1 = ImgChunks /\ host.index + 1 = host.total
      BY <2>1, <2>6
    <3>2. ~host'.open
      BY <2>6 DEF HostStates
    <3> QED BY <2>1, <2>3, <3>1, <3>2
  <2> QED BY <2>2, <2>4, <2>5, <2>6
<1>10. \/ MidImage' /\ SameImage(host, host')
       \/ ~MidImage' /\ host'.open /\ host.index + 1 < host.total
          /\ host'.req = host.req /\ host'.index = host.index + 1 /\ host'.total = host.total
          /\ host'.crops = host.crops
       \/ ~MidImage' /\ ~host'.open /\ host.index + 1 = host.total
  BY <1>9 DEF MidImage, SameImage
<1>11. CASE recvLen = 0
  <2>1. ~HasHeader /\ ~Halfway
    BY <1>6, <1>11 DEF HasHeader, NewHeader, Halfway
  <2>2. host.chunk = 0
    BY <1>6, <1>9, <2>1 DEF Steady, MidImage
  <2>3. IsInf(item)
    BY <1>1, <1>2, <2>2 DEF IsInf
  <2>4. HasHeader' /\ Header' = item /\ Got' = 1 /\ imgPc' # "enqueue"
    BY <1>6, <1>7, <1>8, <1>11, <2>3 DEF HasHeader, Header, NewHeader, Got
  <2>5. MidImage' <=> Halfway'
    BY <1>9, <2>2, <2>4 DEF MidImage, Halfway
  <2>6. SameImage(Header', host)
    BY <1>2, <2>4 DEF SameImage
  <2>7. ~torn'
    <3>1. ~(host.chunk > 0)
      BY <2>2
    <3> QED BY <1>3, <3>1 DEF Steady
  <2>8. Steady'
    BY <1>3, <1>6, <1>7, <1>8, <1>9, <1>11, <2>5, <2>7 DEF Steady
  <2> QED BY <1>3, <1>6, <1>7, <1>9, <1>10, <2>1, <2>4, <2>6, <2>8 DEF Sent
<1>12. CASE recvLen # 0
  <2>1. recvLen = 1 /\ recvType = "inf" /\ ImgChunks = 2
    BY <1>6, <1>8, <1>12 DEF Steady, LengthInv
  <2>2. Got = 1 /\ Got' = 2 /\ HasHeader /\ HasHeader' /\ Header' = Header
    BY <1>6, <1>7, <1>8, <2>1 DEF Got, HasHeader, Header, NewHeader
  <2>3. MidImage /\ host.chunk = 1
    BY <1>6, <2>1, <2>2 DEF Steady, MidImage, Halfway
  <2>4. ~MidImage' /\ ~Halfway'
    BY <1>9, <2>1, <2>2, <2>3 DEF MidImage, Halfway
  <2>5. SameImage(Header, host)
    BY <2>2, <2>3 DEF FrontStrict
  <2>6. ~torn'
    BY <1>3, <1>6, <1>12 DEF Steady
  <2>7. content'[buf].rest.kind # "cmd"
    <3>1. dma.buf = buf
      BY <1>6, <1>3, <1>4 DEF Land, Receiving, SendSteady
    <3>2. content'[buf].rest = item
      BY <1>5, <1>6, <1>12, <3>1
    <3> QED BY <1>2, <3>2
  <2>8. Steady'
    BY <1>3, <1>6, <1>7, <1>8, <1>9, <2>1, <2>4, <2>6, <2>7 DEF Steady
  <2> QED BY <1>3, <1>6, <1>7, <1>9, <1>10, <2>2, <2>3, <2>5, <2>8 DEF Sent
<1> QED BY <1>11, <1>12

(* The header of a buffer is looked at, and the later part.                *)
LEMMA ParseSteady ==
  ASSUME Types, LengthInv, Steady, Landed, Parse(1), UNCHANGED <<host, count, buf, content, torn>>
  PROVE  Steady' /\ Moves
<1> USE ImgFacts
<1>1. /\ imgPc = "recv_wait" /\ imgPc' \notin {"recv_wait", "failed", "swap", "clean_img", "clean_res"}
      /\ ~Landed' /\ InReceive /\ ~NewHeader' /\ MidImage' = MidImage
  BY DEF Parse, ParseHeader, ParseRest, NextRecv, Landed, NewHeader, InReceive, MidImage
<1>2. recvLen # 0 => recvLen = 1 /\ wantLen = 2 /\ ImgChunks = 2
  BY <1>1 DEF LengthInv
<1>3. CASE imgPc' = "dead"
  <2>1. ~HasHeader' /\ ~InReceive'
    BY <1>1, <1>3 DEF HasHeader, InReceive, WaitsForBuffer
  <2> QED BY <1>1, <1>3, <2>1 DEF Steady, Moves
<1>4. CASE recvLen = 0 /\ imgPc' # "dead" /\ IsInf(content[buf].head)
  <2> DEFINE h == content[buf].head
  <2>1. /\ ParseHeader(1) /\ NewHeader /\ HasHeader /\ Header = h /\ Got = 1
    BY <1>1, <1>4 DEF Parse, NewHeader, Landed, Got, HasHeader, Header
  <2>2. /\ hdr' = h /\ recvType' = "inf" /\ recvLen' = 1
        /\ \/ imgPc' = "get" /\ imgRet' = "swap"
           \/ imgPc' = NextRecv(1, ImgChunks, "inf")
    BY <1>4, <2>1 DEF ParseHeader
  <2>3. HasHeader' /\ Header' = h
    BY <1>1, <2>2 DEF HasHeader, Header, InReceive, WaitsForBuffer, NextRecv
  <2>4. Halfway' <=> Halfway
    <3>1. CASE imgPc' \in {"get", "recv"}
      <4>1. InReceive' /\ Got' = 1
        BY <1>1, <2>2, <3>1 DEF InReceive, WaitsForBuffer, NextRecv, Got
      <4> QED BY <1>1, <2>1, <2>3, <3>1, <4>1 DEF Halfway
    <3>2. CASE imgPc' \notin {"get", "recv"}
      <4>1. ImgChunks = 1
        BY <2>2, <3>2 DEF NextRecv
      <4> QED BY <4>1 DEF Halfway
    <3> QED BY <3>1, <3>2
  <2>5. Steady'
    BY <1>1, <1>4, <2>2, <2>4 DEF Steady
  <2>6. Untouched
    BY <1>1, <1>4, <2>1, <2>3 DEF Untouched, SameHeader
  <2> QED BY <2>5, <2>6 DEF Moves
<1>5. CASE recvLen = 0 /\ imgPc' # "dead" /\ ~IsInf(content[buf].head)
  <2>1. imgPc' = "cmd"
    BY <1>5 DEF Parse, ParseHeader
  <2>2. ~HasHeader /\ ~HasHeader' /\ ~InReceive'
    BY <1>1, <1>5, <2>1 DEF HasHeader, InReceive, WaitsForBuffer, NewHeader
  <2>3. ~Halfway /\ ~Halfway'
    BY <2>2 DEF Halfway
  <2>4. Steady'
    BY <1>1, <2>1, <2>2, <2>3 DEF Steady
  <2>5. Untouched
    BY <1>1, <1>5, <2>2 DEF Untouched, SameHeader
  <2> QED BY <2>4, <2>5 DEF Moves
<1>6. CASE recvLen # 0
  <2>1. /\ recvLen = 1 /\ wantLen = 2 /\ hdr' = hdr /\ recvType = "inf"
        /\ content[buf].rest.kind # "cmd"
    BY <1>1, <1>2, <1>6 DEF Parse, ParseRest, Steady
  <2>2. recvLen' = 2 /\ recvType' = "inf" /\ imgPc' = "enqueue"
    BY <2>1, <1>6 DEF Parse, ParseRest, NextRecv
  <2>3. HasHeader /\ HasHeader' /\ Header = hdr /\ Header' = hdr /\ Got = 2
    BY <1>1, <2>1, <2>2 DEF HasHeader, Header, NewHeader, Got
  <2>4. ~Halfway /\ ~Halfway'
    BY <2>2, <2>3 DEF Halfway
  <2>5. Steady'
    BY <1>1, <2>2, <2>4 DEF Steady
  <2>6. Untouched
    BY <1>1, <2>2, <2>3 DEF Untouched, SameHeader
  <2> QED BY <2>5, <2>6 DEF Moves
<1> QED BY <1>3, <1>4, <1>5, <1>6

(* While the image thread waits for a buffer, or does something else, its  *)
(* header stays.                                                           *)
LEMMA ImgQuietSteady ==
  ASSUME Types, LengthInv, Steady, ImgElsewhere, ~ImgSwap, ~ImgEnqueue
  PROVE  Steady' /\ Untouched
<1> USE ImgFacts
<1>1. UNCHANGED <<host, count, hdr, content, torn>>
  BY DEF ImgElsewhere, ImgWaitConnection, ImgGet, ImgTakeFree, ImgUnbundle, ImgGrabFails,
     ImgRetry, ImgCommand, ImgCommandBegins, ImgCommandDone, ImgCommandTimeout, ImgPutFree,
     ImgCleanImages, ImgCleanResults, ImgCleaned, memVars, hostVars, imgVars, history
<1>2. imgPc \notin {"recv_wait", "recv", "failed"} /\ imgPc' \notin {"recv_wait", "failed"}
  BY ElsewherePc
<1>3. ~NewHeader /\ ~NewHeader' /\ ~Landed /\ ~Landed' /\ Header' = Header /\ MidImage' = MidImage
  BY <1>1, <1>2 DEF NewHeader, Landed, Header, MidImage
<1>4. CASE ImgGet \/ ImgTakeFree \/ ImgUnbundle \/ ImgGrabFails \/ ImgRetry
  <2>1. WaitsForBuffer /\ imgRet' = imgRet /\ UNCHANGED allocated
        /\ imgPc' \in {"get", "block", "grab", "steal", "retry", "unbundle", "recv", "swap"}
    BY <1>4 DEF ImgGet, ImgTakeFree, ImgUnbundle, ImgGrabFails, ImgRetry, WaitsForBuffer,
       Received, queueVars
  <2>2. imgPc # "dead" /\ imgPc # "enqueue" /\ imgPc' # "enqueue"
    BY <2>1 DEF WaitsForBuffer
  <2>3. CASE imgRet = "swap"
    <3>1. UNCHANGED <<recvLen, recvType>> /\ imgPc' # "recv"
      BY <1>4, <2>1, <2>3 DEF ImgGet, ImgTakeFree, ImgUnbundle, ImgGrabFails, ImgRetry, Received,
         LengthInv
    <3>2. InReceive /\ InReceive'
      BY <2>1, <2>3, <3>1 DEF InReceive, WaitsForBuffer
    <3>3. (HasHeader' <=> HasHeader) /\ Got' = Got
      BY <1>3, <2>2, <3>1, <3>2 DEF HasHeader, Got
    <3>4. Halfway' <=> Halfway
      BY <2>2, <3>3 DEF Halfway
    <3> QED BY <1>1, <1>3, <2>1, <2>2, <3>1, <3>2, <3>3, <3>4 DEF Steady, Untouched, SameHeader
  <2>4. CASE imgRet = "recv"
    <3>1. recvLen' = 0
          /\ imgPc' \in {"get", "block", "grab", "steal", "retry", "unbundle", "recv"}
      BY <1>4, <2>1, <2>4 DEF WaitsForBuffer, ImgGet, ImgTakeFree, ImgUnbundle,
         ImgGrabFails, ImgRetry, Received, LengthInv
    <3>2. ~HasHeader'
      BY <1>3, <3>1 DEF HasHeader
    <3>3. ~HasHeader
      BY <1>3, <2>1, <2>2, <2>4 DEF HasHeader, InReceive, WaitsForBuffer
    <3>4. ~Halfway /\ ~Halfway'
      BY <3>2, <3>3 DEF Halfway
    <3> QED BY <1>1, <1>3, <2>1, <2>2, <3>1, <3>2, <3>3, <3>4 DEF Steady, Untouched, SameHeader
  <2> QED BY <2>1, <2>3, <2>4 DEF LengthInv
<1>5. CASE \/ ImgWaitConnection \/ ImgCommand \/ ImgCommandBegins \/ ImgCommandDone
           \/ ImgCommandTimeout \/ ImgPutFree \/ ImgCleanImages \/ ImgCleanResults \/ ImgCleaned
  <2>1. imgPc \in {"wait", "cmd", "cmd_wait", "put"}
    BY <1>5 DEF ImgWaitConnection, ImgCommand, ImgCommandBegins, ImgCommandDone,
       ImgCommandTimeout, ImgPutFree, ImgCleanImages, ImgCleanResults, ImgCleaned, Steady
  <2>2. \/ imgPc' = "get" /\ imgRet' = "recv"
        \/ imgPc' \in {"cmd_wait", "put", "hung"}
    <3>1. CASE ImgWaitConnection \/ ImgPutFree
      BY <3>1 DEF ImgWaitConnection, ImgPutFree
    <3>2. CASE ImgCommand \/ ImgCommandBegins \/ ImgCommandDone \/ ImgCommandTimeout
      BY <3>2 DEF ImgCommand, ImgCommandBegins, ImgCommandDone, ImgCommandTimeout, imgVars
    <3>3. CASE ImgCleanImages \/ ImgCleanResults \/ ImgCleaned
      BY <2>1, <3>3 DEF ImgCleanImages, ImgCleanResults, ImgCleaned
    <3> QED BY <1>5, <3>1, <3>2, <3>3
  <2>3. ~HasHeader' /\ ~HasHeader /\ ~InReceive'
    BY <1>3, <2>1, <2>2 DEF HasHeader, InReceive, WaitsForBuffer
  <2>4. ~Halfway /\ ~Halfway' /\ imgPc # "dead" /\ imgPc' # "dead"
    BY <2>1, <2>2, <2>3 DEF Halfway
  <2> QED BY <1>1, <1>3, <2>2, <2>3, <2>4 DEF Steady, Untouched, SameHeader
<1> QED BY <1>4, <1>5 DEF ImgElsewhere

LEMMA SwapSteady ==
  ASSUME Types, LengthInv, Steady, ImgSwap
  PROVE  Steady' /\ Moves
<1> USE ImgFacts
<1>1. /\ imgPc = "swap" /\ UNCHANGED <<host, count, hdr, recvLen, recvType, wantLen, torn>>
      /\ imgPc' = "dead" \/ imgPc' = NextRecv(recvLen, wantLen, recvType)
  BY DEF ImgSwap, hostVars, history
<1>2. recvType = "inf" /\ wantLen = ImgChunks /\ recvLen \in {0, 1}
  BY <1>1 DEF LengthInv
<1>3. imgPc' \in {"dead", "recv", "enqueue"} /\ (imgPc' = "enqueue" => recvLen = 1 /\ ImgChunks = 1)
  BY <1>1, <1>2 DEF NextRecv
<1>4. /\ ~NewHeader /\ ~NewHeader' /\ ~Landed /\ ~Landed' /\ Header' = Header /\ InReceive
      /\ MidImage' = MidImage
  BY <1>1, <1>3 DEF NewHeader, Landed, Header, InReceive, MidImage
<1>5. CASE imgPc' = "dead"
  <2>1. ~HasHeader' /\ ~InReceive'
    BY <1>4, <1>5 DEF HasHeader, InReceive, WaitsForBuffer
  <2> QED BY <1>1, <1>4, <1>5, <2>1 DEF Steady, Moves
<1>6. CASE imgPc' = "recv"
  <2>1. InReceive' /\ (HasHeader' <=> HasHeader) /\ Got' = Got
    BY <1>1, <1>4, <1>6 DEF InReceive, HasHeader, Got
  <2>2. Halfway' <=> Halfway
    BY <1>1, <1>6, <2>1 DEF Halfway
  <2>3. Steady'
    BY <1>1, <1>2, <1>4, <1>6, <2>2 DEF Steady
  <2>4. Untouched
    BY <1>1, <1>4, <1>6, <2>1 DEF Untouched, SameHeader
  <2> QED BY <2>3, <2>4 DEF Moves
<1>7. CASE imgPc' = "enqueue"
  <2>1. HasHeader /\ HasHeader' /\ ~InReceive' /\ ~Halfway /\ ~Halfway'
    BY <1>1, <1>2, <1>3, <1>4, <1>7 DEF HasHeader, Halfway, InReceive, WaitsForBuffer
  <2>2. Steady'
    BY <1>1, <1>4, <1>7, <2>1 DEF Steady
  <2>3. Untouched
    BY <1>1, <1>4, <1>7, <2>1 DEF Untouched, SameHeader
  <2> QED BY <2>2, <2>3 DEF Moves
<1> QED BY <1>3, <1>5, <1>6, <1>7

LEMMA ImgSteady ==
  ASSUME Types, Receiving, ReceiveInv, LengthInv, NeverDown, SendSteady, Steady, ImgNext
  PROVE  Steady' /\ Moves
<1> USE ImgFacts
<1>1. CASE ImgElsewhere /\ ~ImgSwap /\ ~ImgEnqueue
  BY <1>1, ImgQuietSteady DEF Moves
<1>2. CASE ImgSwap
  BY <1>2, SwapSteady
<1>3. CASE ImgEnqueue
  <2>1. /\ imgPc = "enqueue" /\ imgPc' = "get" /\ imgRet' = "recv"
        /\ UNCHANGED <<host, count, content, torn>>
    BY <1>3 DEF ImgEnqueue, memVars, hostVars, history
  <2>2. ~Landed' /\ ~InReceive' /\ ~HasHeader' /\ MidImage' = MidImage
    BY <2>1 DEF Landed, InReceive, WaitsForBuffer, NewHeader, HasHeader, MidImage
  <2>3. ~Halfway /\ ~Halfway'
    BY <2>1, <2>2 DEF Halfway
  <2> QED BY <1>3, <2>1, <2>2, <2>3 DEF Steady, Moves
<1>4. CASE ImgReceive \/ ImgMark \/ ImgArm
  <2>1. /\ imgPc \in {"recv", "mark", "arm"}
        /\ UNCHANGED <<host, count, buf, content, recvLen, recvType, hdr, torn>>
    BY <1>4 DEF ImgReceive, ImgMark, ImgArm, hostVars, memVars, history
  <2>2. imgPc' \in {"mark", "arm", "recv_wait"} /\ (imgPc' = "recv_wait" => ep'["out"] = "xfer")
    <3>1. CASE ImgReceive
      BY <3>1 DEF ImgReceive, ReceiveInv, NeverDown, Steady
    <3>2. CASE ImgMark
      BY <3>2 DEF ImgMark
    <3>3. CASE ImgArm
      BY <3>3 DEF ImgArm, SendSteady, HostSteady
    <3> QED BY <1>4, <3>1, <3>2, <3>3
  <2>3. ~Landed /\ ~Landed' /\ InReceive /\ InReceive' /\ ~NewHeader /\ ~NewHeader'
    BY <2>1, <2>2 DEF Landed, InReceive, NewHeader
  <2>4. (HasHeader' <=> HasHeader) /\ Header' = Header /\ Got' = Got /\ MidImage' = MidImage
    BY <2>1, <2>2, <2>3 DEF HasHeader, Header, Got, MidImage
  <2>5. Halfway' <=> Halfway
    BY <2>1, <2>2, <2>4 DEF Halfway
  <2>6. Steady'
    BY <2>1, <2>2, <2>3, <2>4, <2>5 DEF Steady
  <2>7. Untouched
    BY <2>1, <2>2, <2>4 DEF Untouched, SameHeader
  <2> QED BY <2>6, <2>7 DEF Moves
<1>5. CASE ImgReceived
  <2>1. imgPc = "recv_wait" /\ UNCHANGED <<host, count, buf, content, torn>> /\ evt["out"]
    BY <1>5 DEF ImgReceived, transfer_wakes, hostVars, memVars, history
  <2>2. link
    BY <2>1 DEF NeverDown, Steady
  <2>3. ep["out"] = "done"
    BY <2>1, <2>2 DEF Receiving, Steady
  <2>4. Landed /\ Parse(1)
    BY <1>5, <2>1, <2>3 DEF ImgReceived, Landed
  <2> QED BY <2>1, <2>4, ParseSteady
<1>6. ~ImgFailed
  BY DEF ImgFailed, Steady
<1> QED BY <1>1, <1>2, <1>3, <1>4, <1>5, <1>6 DEF ImgNext, ImgElsewhere

LEMMA StepSteady ==
  ASSUME MaxReset = 0, MaxLink = 0, Types, Receiving, ReceiveInv, LengthInv, LineInv, NeverDown,
         FrontOrder, FrontStrict, SendSteady, Steady, [Next]_vars
  PROVE  Steady' /\ Moves
BY OthersSteady, LinkSteady, HostQuietSteady, BeginsSteady, CommandSteady, ImageSteady,
   ImgSteady DEF Next, HostNext, Moves

(* What comes to buf_mgr's queue next; it is the same image after a step,  *)
(* or one with the same place.                                             *)
FirstFront == IF HasHeader THEN Header ELSE NextSent
Alike(a, b) == SameImage(a, b) \/ (a.req = b.req /\ a.index = 0 /\ b.index = 0)

LEMMA JustAlike ==
  ASSUME NEW x, NEW a, NEW b, x.index \in Nat, a.index \in Nat, Just(x, a), Alike(a, b)
  PROVE  Just(x, b)
<1>1. x.index + 1 # 0
  OBVIOUS
<1> QED BY <1>1 DEF Just, Alike, SameImage

LEMMA FrontMoves ==
  ASSUME Types, Types', FrontStrict, Steady, Steady', Moves
  PROVE  /\ FrontStrict'
         /\ imgPc' # "dead" => imgPc # "dead" /\ (ImgEnqueue \/ Alike(FirstFront, FirstFront'))
<1> USE ImgFacts
<1>1. /\ NextItem.req = count.req + 1 /\ NextItem.index = 0
      /\ NextItem'.req = count'.req + 1 /\ NextItem'.index = 0
      /\ count.req \in Nat /\ (HasHeader => Header.index \in Nat) /\ host.index \in Nat
  BY AllDated DEF NextItem, Nothing, Front, HandItems, Dated
<1>2. /\ HostItem("inf").req = host.req /\ HostItem("inf").index = host.index
      /\ HostItem("inf").total = host.total /\ HostItem("inf").crops = host.crops
      /\ HostItem("inf")'.req = host'.req /\ HostItem("inf")'.index = host'.index
      /\ HostItem("inf")'.total = host'.total
  BY DEF HostItem
<1>3. CASE Untouched
  <2>1. MidImage' = MidImage /\ NextSent' = NextSent
    BY <1>3 DEF Untouched, MidImage, NextSent, NextItem, HostItem
  <2>2. FrontStrict'
    BY <1>3, <2>1 DEF FrontStrict, Untouched, SameHeader, Just, SameImage
  <2>3. FirstFront' = FirstFront
    BY <1>3, <2>1 DEF FirstFront, Untouched, SameHeader
  <2> QED BY <1>3, <2>2, <2>3 DEF Untouched, Alike, SameImage
<1>4. CASE Begun
  <2>1. ~MidImage /\ ~MidImage' /\ NextSent = NextItem /\ NextSent' = HostItem("inf")'
    BY <1>4 DEF Begun, MidImage, NextSent
  <2>2. Alike(NextSent, NextSent') /\ NextSent.index \in Nat
    BY <1>1, <1>2, <1>4, <2>1 DEF Alike, Begun
  <2>3. FrontStrict'
    <3>1. HasHeader' => HasHeader /\ Header' = Header
      BY <1>4 DEF Begun, SameHeader
    <3>2. HasHeader => Just(Header, NextSent')
      BY <1>1, <2>1, <2>2, JustAlike DEF FrontStrict
    <3> QED BY <2>1, <3>1, <3>2 DEF FrontStrict, Just
  <2>4. Alike(FirstFront, FirstFront')
    <3>1. CASE HasHeader
      BY <1>4, <3>1 DEF FirstFront, Begun, SameHeader, Alike, SameImage
    <3>2. CASE ~HasHeader
      BY <1>4, <2>2, <3>2 DEF FirstFront, Begun, SameHeader
    <3> QED BY <3>1, <3>2
  <2> QED BY <1>4, <2>3, <2>4 DEF Begun
<1>5. CASE Sent
  <2>1. HasHeader' /\ SameImage(Header', host) /\ host.open /\ host.req = count.req
        /\ count'.req = count.req
    BY <1>5 DEF Sent, Steady
  <2>a. /\ Header'.req = host.req /\ Header'.index = host.index /\ Header'.total = host.total
        /\ Header'.crops = host.crops
    BY <2>1 DEF SameImage
  <2>2. ASSUME MidImage', SameImage(host, host') PROVE FrontStrict'
    <3>1. SameImage(Header', host')
      BY <2>2, <2>a DEF SameImage
    <3> QED BY <2>2, <3>1 DEF FrontStrict, SameImage
  <2>3. ASSUME ~MidImage', host'.open, host.index + 1 < host.total,
               host'.req = host.req, host'.index = host.index + 1, host'.total = host.total
        PROVE  FrontStrict'
    <3>1. NextSent' = HostItem("inf")'
      BY <2>3 DEF NextSent
    <3>2. Just(Header', NextSent')
      BY <1>2, <2>a, <2>3, <3>1 DEF Just
    <3> QED BY <2>3, <3>2 DEF FrontStrict, Just
  <2>4. ASSUME ~MidImage', ~host'.open, host.index + 1 = host.total PROVE FrontStrict'
    <3>1. NextSent' = NextItem'
      BY <2>4 DEF NextSent
    <3>2. Just(Header', NextSent')
      <4>1. ~(Header'.index + 1 < Header'.total)
        BY <1>1, <2>a, <2>4
      <4>2. NextSent'.req = Header'.req + 1 /\ NextSent'.index = 0
        BY <1>1, <2>1, <2>a, <3>1
      <4> QED BY <4>1, <4>2 DEF Just
    <3> QED BY <2>4, <3>2 DEF FrontStrict, Just
  <2>5. FrontStrict'
    BY <1>5, <2>2, <2>3, <2>4 DEF Sent
  <2>6. SameImage(FirstFront, FirstFront')
    <3>1. CASE HasHeader
      BY <1>5, <2>1, <3>1 DEF FirstFront, Sent, SameImage
    <3>2. CASE ~HasHeader
      BY <1>2, <2>1, <3>2 DEF FirstFront, NextSent, SameImage
    <3> QED BY <3>1, <3>2
  <2> QED BY <1>5, <2>5, <2>6 DEF Sent, Alike
<1>6. CASE imgPc' = "dead" /\ ~HasHeader'
  BY <1>6 DEF FrontStrict
<1>7. CASE ImgEnqueue
  <2>1. imgPc = "enqueue" /\ imgPc' = "get" /\ imgRet' = "recv"
    BY <1>7 DEF ImgEnqueue
  <2>2. ~HasHeader'
    BY <2>1 DEF HasHeader, InReceive, WaitsForBuffer, NewHeader, Landed
  <2> QED BY <1>7, <2>1, <2>2 DEF FrontStrict
<1> QED BY <1>3, <1>4, <1>5, <1>6, <1>7 DEF Moves

-----------------------------------------------------------------------------
(* The images in buf_mgr's queue follow each other, too.                   *)
TempStrict ==
  /\ \A i, j \in DOMAIN tempQ : j = i + 1 => Just(H(tempQ[i].buf), H(tempQ[j].buf))
  /\ tempQ # <<>> /\ imgPc # "dead" => Just(H(tempQ[Len(tempQ)].buf), FirstFront)
First == IF tempQ # <<>> THEN H(tempQ[1].buf) ELSE FirstFront
Goes  == tempQ # <<>> \/ imgPc # "dead"

LEMMA TempUntouched ==
  ASSUME ~ImgEnqueue, ~(BufMgrNext /\ MgrGet), [Next]_vars
  PROVE  UNCHANGED tempQ
BY DEF Next, LinkNext, Configured, Disconnected, VbusOff, LinkLost,
   ErrandResetDevice, HostNext, ControlConfigure, ControlReset, ControlDroppable,
   HostBegins, HostSendsImage, HostSendsCommand, SendDma, HostReads, BufMgrNext, MgrNext,
   MgrPutBack, MgrEnqueue, InfNext, InfDequeue, InfGetResultBuffer, InfExecute, InfPutFree,
   SendNext, SendDequeue, SendStart, SendBegins, SendDone, SendHangs, SendPutFree, vars,
   queueVars, imgQueues, ImgNext, ImgWaitConnection, ImgGet, ImgTakeFree, ImgUnbundle,
   ImgGrabFails, ImgRetry, ImgReceive, ImgMark, ImgArm, ImgReceived, ImgFailed, ImgSwap,
   ImgCommand, ImgCommandBegins, ImgCommandDone, ImgCommandTimeout, ImgPutFree, ImgCleanImages,
   ImgCleanResults, ImgCleaned

LEMMA FirstFrontFacts == ASSUME Types PROVE
  /\ FirstFront.index \in Nat
  /\ \A i \in DOMAIN tempQ : H(tempQ[i].buf).index \in Nat
  /\ First.index \in Nat
<1>1. FirstFront.index \in Nat
  BY AllDated DEF FirstFront, NextSent, Front, HandItems, HostItems, Dated
<1>2. \A i \in DOMAIN tempQ : H(tempQ[i].buf).index \in Nat
  BY TempFacts DEF Dated
<1>3. tempQ # <<>> => 1 \in DOMAIN tempQ
  BY MgrFacts, LineTails
<1> QED BY <1>1, <1>2, <1>3 DEF First

(* The front moves on while the queue stays.                               *)
LEMMA TempStays ==
  ASSUME Types, TempStrict, UNCHANGED tempQ, \A b : Waits(b) => H(b)' = H(b),
         imgPc' # "dead" => imgPc # "dead" /\ Alike(FirstFront, FirstFront')
  PROVE  TempStrict' /\ (Goes' => Goes /\ Alike(First, First'))
<1>1. \A i \in DOMAIN tempQ : H(tempQ[i].buf)' = H(tempQ[i].buf)
  BY DEF Waits
<1>2. ASSUME NEW i \in DOMAIN tempQ', NEW j \in DOMAIN tempQ', j = i + 1
      PROVE  Just(H(tempQ[i].buf)', H(tempQ[j].buf)')
  BY <1>1, <1>2 DEF TempStrict
<1>3. PICK L \in Nat : L = Len(tempQ) /\ DOMAIN tempQ = 1 .. L /\ (tempQ # <<>> <=> L > 0)
  BY MgrFacts, LineTails
<1>4. ASSUME tempQ # <<>>, imgPc' # "dead" PROVE Just(H(tempQ[L].buf)', FirstFront')
  <2>1. L \in DOMAIN tempQ
    BY <1>3, <1>4
  <2>2. Just(H(tempQ[L].buf), FirstFront)
    BY <1>3, <1>4 DEF TempStrict
  <2>3. H(tempQ[L].buf).index \in Nat /\ FirstFront.index \in Nat
    BY <2>1, FirstFrontFacts
  <2>4. Just(H(tempQ[L].buf), FirstFront')
    BY <1>4, <2>2, <2>3, JustAlike
  <2> QED BY <1>1, <2>1, <2>4
<1>5. TempStrict'
  <2>1. tempQ' # <<>> /\ imgPc' # "dead" => Just(H(tempQ[Len(tempQ)].buf)', FirstFront')
    BY <1>3, <1>4
  <2> QED BY <1>2, <2>1 DEF TempStrict
<1>6. ASSUME Goes' PROVE Goes /\ Alike(First, First')
  <2>1. CASE tempQ # <<>>
    <3>1. 1 \in DOMAIN tempQ
      BY <1>3, <2>1
    <3>2. First = H(tempQ[1].buf) /\ First' = H(tempQ[1].buf)'
      BY <2>1 DEF First
    <3> QED BY <1>1, <2>1, <3>1, <3>2 DEF Goes, Alike, SameImage
  <2>2. CASE tempQ = <<>>
    BY <1>6, <2>2 DEF First, Goes
  <2> QED BY <2>1, <2>2
<1> QED BY <1>5, <1>6

(* The image in the thread's hands goes to the end of the queue.           *)
LEMMA TempGrowsStrict ==
  ASSUME Types, FrontOrder, FrontStrict, TempStrict, Steady, ImgEnqueue
  PROVE  TempStrict' /\ Goes /\ SameImage(First, First')
<1> USE ImgFacts
<1> DEFINE x == [total |-> hdr.total, index |-> IF hdr.total = 1 THEN 0 ELSE hdr.index, buf |-> buf]
<1>1. /\ imgPc = "enqueue" /\ imgPc' = "get" /\ imgRet' = "recv"
      /\ tempQ' = Append(tempQ, x) /\ UNCHANGED <<host, count, content>>
  BY HasImages DEF ImgEnqueue, image_enqueue, hostVars, memVars
<1>2. HasHeader /\ ~HasHeader' /\ Header = hdr /\ ~NewHeader /\ HandBuf = buf /\ ~MidImage
  BY <1>1 DEF HasHeader, InReceive, WaitsForBuffer, NewHeader, Landed, Header, HandBuf, Swapping,
     Steady, Halfway
<1>3. FirstFront = hdr /\ FirstFront' = NextSent /\ Just(hdr, NextSent)
  BY <1>1, <1>2 DEF FirstFront, FrontStrict, NextSent, HostItem, NextItem
<1>4. x \in SpecialObjects /\ x.buf = buf
  BY SizesAssumption DEF Items, SpecialObjects, Indices
<1> HIDE DEF x
<1>5. PICK L \in Nat : L = Len(tempQ)
  BY MgrFacts
<1>6. /\ DOMAIN tempQ' = 1 .. L + 1 /\ DOMAIN tempQ = 1 .. L /\ Len(tempQ') = L + 1
      /\ tempQ'[L + 1] = x /\ \A i \in 1 .. L : tempQ'[i] = tempQ[i]
      /\ tempQ' # <<>> /\ (tempQ = <<>> <=> L = 0)
  BY <1>1, <1>4, <1>5, MgrFacts, LineAppends
<1>7. \A i \in 1 .. L : H(tempQ[i].buf)' = H(tempQ[i].buf)
  <2>1. SUFFICES ASSUME NEW i \in 1 .. L PROVE content'[tempQ'[i].buf].head = content[tempQ[i].buf].head
    BY DEF H
  <2> QED BY <1>1, <1>6
<1>8. H(tempQ[L + 1].buf)' = hdr
  <2>1. H(tempQ[L + 1].buf)' = content'[tempQ'[L + 1].buf].head
    BY DEF H
  <2>2. H(buf) = hdr
    BY <1>2 DEF FrontOrder
  <2> QED BY <1>1, <1>4, <1>6, <2>1, <2>2 DEF H
<1>9. L > 0 => L \in DOMAIN tempQ /\ Just(H(tempQ[L].buf), hdr)
  <2>1. L > 0 => Just(H(tempQ[Len(tempQ)].buf), FirstFront)
    BY <1>1, <1>6 DEF TempStrict
  <2> QED BY <1>3, <1>5, <1>6, <2>1
<1>10. ASSUME NEW i \in DOMAIN tempQ', NEW j \in DOMAIN tempQ', j = i + 1
       PROVE  Just(H(tempQ[i].buf)', H(tempQ[j].buf)')
  <2>1. i \in 1 .. L
    BY <1>6, <1>10
  <2>2. CASE j \in 1 .. L
    <3>1. Just(H(tempQ[i].buf), H(tempQ[j].buf))
      BY <1>6, <1>10, <2>1, <2>2 DEF TempStrict
    <3> QED BY <1>7, <2>1, <2>2, <3>1
  <2>3. CASE j = L + 1
    <3>1. i = L /\ L > 0
      BY <1>10, <2>1, <2>3
    <3> QED BY <1>7, <1>8, <1>9, <2>1, <2>3, <3>1
  <2> QED BY <1>6, <2>2, <2>3
<1>11. TempStrict'
  <2>1. Just(H(tempQ[Len(tempQ)].buf)', FirstFront')
    BY <1>3, <1>6, <1>8
  <2> QED BY <1>10, <2>1 DEF TempStrict
<1>12. SameImage(First, First')
  <2>1. First' = H(tempQ[1].buf)'
    BY <1>6 DEF First
  <2>2. CASE L = 0
    BY <1>3, <1>6, <1>8, <2>1, <2>2 DEF First, SameImage
  <2>3. CASE L > 0
    <3>1. 1 \in 1 .. L
      BY <2>3
    <3> QED BY <1>6, <1>7, <2>1, <2>3, <3>1 DEF First, SameImage
  <2> QED BY <2>2, <2>3
<1> QED BY <1>1, <1>11, <1>12 DEF Goes

(* buf_mgr takes its head.                                                 *)
LEMMA TempShrinksStrict ==
  ASSUME Types, TempStrict, BufMgrNext, MgrGet, Alike(FirstFront, FirstFront')
  PROVE  TempStrict' /\ Goes /\ First = H(tempQ[1].buf) /\ (Goes' => Just(First, First'))
<1>1. tempQ # <<>> /\ tempQ' = Tail(tempQ) /\ UNCHANGED <<content, imgPc>>
  BY DEF BufMgrNext, MgrGet, memVars, imgVars
<1>2. PICK L \in Nat : L = Len(tempQ)
  BY MgrFacts
<1>3. /\ DOMAIN tempQ' = 1 .. L - 1 /\ DOMAIN tempQ = 1 .. L /\ Len(tempQ') = L - 1
      /\ L >= 1 /\ \A i \in 1 .. L - 1 : tempQ'[i] = tempQ[i + 1]
      /\ tempQ' = <<>> <=> L = 1
  BY <1>1, <1>2, MgrFacts, LineTails
<1>4. \A i \in 1 .. L - 1 : H(tempQ[i].buf)' = H(tempQ[i + 1].buf)
  <2>1. SUFFICES ASSUME NEW i \in 1 .. L - 1
                 PROVE  content'[tempQ'[i].buf].head = content[tempQ[i + 1].buf].head
    BY DEF H
  <2> QED BY <1>1, <1>3
<1>5. ASSUME imgPc # "dead" PROVE Just(H(tempQ[L].buf), FirstFront')
  <2>1. Just(H(tempQ[L].buf), FirstFront)
    BY <1>1, <1>2, <1>5 DEF TempStrict
  <2>2. L \in DOMAIN tempQ
    BY <1>3
  <2>3. H(tempQ[L].buf).index \in Nat /\ FirstFront.index \in Nat
    BY <2>2, FirstFrontFacts
  <2> QED BY <2>1, <2>3, JustAlike
<1>6. ASSUME NEW i \in DOMAIN tempQ', NEW j \in DOMAIN tempQ', j = i + 1
      PROVE  Just(H(tempQ[i].buf)', H(tempQ[j].buf)')
  <2>1. i \in 1 .. L - 1 /\ j \in 1 .. L - 1
    BY <1>3, <1>6
  <2>2. i + 1 \in DOMAIN tempQ /\ j + 1 \in DOMAIN tempQ /\ j + 1 = (i + 1) + 1
    BY <1>3, <1>6, <2>1
  <2>3. Just(H(tempQ[i + 1].buf), H(tempQ[j + 1].buf))
    BY <2>2 DEF TempStrict
  <2> QED BY <1>4, <2>1, <2>3
<1>7. ASSUME tempQ' # <<>>, imgPc' # "dead"
      PROVE  Just(H(tempQ[Len(tempQ)].buf)', FirstFront')
  <2>1. L - 1 \in 1 .. L - 1 /\ (L - 1) + 1 = L
    BY <1>3, <1>7
  <2>2. H(tempQ[L - 1].buf)' = H(tempQ[L].buf)
    BY <1>4, <2>1
  <2>3. H(tempQ[Len(tempQ)].buf)' = H(tempQ[L - 1].buf)'
    BY <1>3
  <2> QED BY <1>1, <1>5, <1>7, <2>2, <2>3
<1>8. TempStrict'
  BY <1>6, <1>7 DEF TempStrict
<1>9. First = H(tempQ[1].buf)
  BY <1>1 DEF First
<1>10. ASSUME Goes' PROVE Just(First, First')
  <2>1. CASE L = 1
    <3>1. imgPc' # "dead" /\ First' = FirstFront'
      BY <1>3, <1>10, <2>1 DEF Goes, First
    <3> QED BY <1>1, <1>5, <1>9, <2>1, <3>1
  <2>2. CASE L # 1
    <3>1. 1 \in 1 .. L - 1 /\ 1 + 1 = 2 /\ 1 \in DOMAIN tempQ /\ 2 \in DOMAIN tempQ
      BY <1>3, <2>2
    <3>2. First' = H(tempQ[1].buf)'
      BY <1>3, <2>2 DEF First
    <3>3. First' = H(tempQ[2].buf)
      BY <1>4, <3>1, <3>2
    <3> QED BY <1>9, <3>1, <3>3 DEF TempStrict
  <2> QED BY <2>1, <2>2
<1> QED BY <1>1, <1>8, <1>9, <1>10 DEF Goes

(* What comes next stays until buf_mgr takes it.                           *)
LEMMA StepTempStrict ==
  ASSUME Types, Types', FrontOrder, FrontStrict, TempStrict, Steady, Steady', Moves, [Next]_vars,
         \A b : Waits(b) => H(b)' = H(b)
  PROVE  /\ FrontStrict' /\ TempStrict'
         /\ IF BufMgrNext /\ MgrGet
            THEN Goes /\ First = H(tempQ[1].buf) /\ (Goes' => Just(First, First'))
            ELSE Goes' => Goes /\ Alike(First, First')
<1>1. /\ FrontStrict'
      /\ imgPc' # "dead" => imgPc # "dead" /\ (ImgEnqueue \/ Alike(FirstFront, FirstFront'))
  BY FrontMoves
<1>2. CASE ImgEnqueue
  <2>1. ~BufMgrNext
    BY <1>2 DEF ImgEnqueue, BufMgrNext, imgVars
  <2> QED BY <1>1, <1>2, <2>1, TempGrowsStrict DEF Alike
<1>3. CASE BufMgrNext /\ MgrGet
  <2>1. Untouched
    BY <1>3, OthersSteady
  <2>2. NextSent' = NextSent
    BY <2>1 DEF Untouched, NextSent, NextItem, HostItem
  <2>3. Alike(FirstFront, FirstFront')
    BY <2>1, <2>2 DEF Untouched, SameHeader, FirstFront, Alike, SameImage
  <2> QED BY <1>1, <1>3, <2>3, TempShrinksStrict
<1>4. CASE ~ImgEnqueue /\ ~(BufMgrNext /\ MgrGet)
  BY <1>1, <1>4, TempUntouched, TempStays
<1> QED BY <1>2, <1>3, <1>4

-----------------------------------------------------------------------------
(* buf_mgr has stored the first images of one inference, in their order,   *)
(* and the next one is about to come, or another inference.                *)
MgrStrict ==
  /\ mgrPc # "putback" /\ StoredAt = 0 .. numReceived - 1
  /\ \A i \in StoredAt : /\ H(stored[i]).index = i
                         /\ H(stored[i]).req = H(stored[0]).req
                         /\ H(stored[i]).total = H(stored[0]).total
  /\ mgrPc = "get" /\ numReceived > 0 => numReceived < H(stored[0]).total
  /\ mgrPc = "enqueue" => numReceived > 0 /\ storedNum = numReceived
                          /\ storedNum = H(stored[0]).total
  /\ Goes => IF numReceived = 0 THEN First.index = 0
                                ELSE Just(H(stored[numReceived - 1]), First)

LEMMA MgrStays ==
  ASSUME Types, MgrStrict, UNCHANGED mgrVars, \A b : Waits(b) => H(b)' = H(b),
         Goes' => Goes /\ Alike(First, First')
  PROVE  MgrStrict'
<1> USE MgrFacts
<1>1. UNCHANGED <<mgrPc, stored, storedNum, numReceived>>
  BY DEF mgrVars
<1>2. StoredAt' = StoredAt
  BY <1>1 DEF StoredAt
<1>3. \A i \in StoredAt : H(stored[i])' = H(stored[i])
  <2>1. ASSUME NEW i \in StoredAt PROVE content'[stored'[i]].head = content[stored[i]].head
    <3>1. PICK b : b = stored[i]
      OBVIOUS
    <3>2. Waits(b)
      BY <3>1 DEF Waits
    <3>3. content'[b].head = content[b].head
      BY <3>2 DEF H
    <3> QED BY <1>1, <3>1, <3>3
  <2> QED BY <2>1 DEF H
<1>4. numReceived > 0 => 0 \in StoredAt /\ numReceived - 1 \in StoredAt
  BY DEF MgrStrict
<1>5. ASSUME Goes' PROVE IF numReceived' = 0 THEN First'.index = 0
                         ELSE Just(H(stored[numReceived - 1])', First')
  <2>1. Goes /\ Alike(First, First')
    BY <1>5
  <2>2. CASE numReceived = 0
    BY <1>1, <2>1, <2>2 DEF MgrStrict, Alike, SameImage
  <2>3. CASE numReceived # 0
    <3>1. Just(H(stored[numReceived - 1]), First) /\ numReceived - 1 \in StoredAt
      BY <1>4, <2>1, <2>3 DEF MgrStrict
    <3>2. H(stored[numReceived - 1]).index \in Nat /\ First.index \in Nat
      BY <3>1, FirstFrontFacts, AllDated DEF Dated
    <3>3. Just(H(stored[numReceived - 1]), First')
      BY <2>1, <3>1, <3>2, JustAlike
    <3>4. H(stored[numReceived - 1])' = H(stored[numReceived - 1])
      <4>1. PICK n : n = numReceived - 1 /\ n = numReceived' - 1
        BY <1>1
      <4>2. H(stored[n])' = H(stored[n])
        BY <1>3, <3>1, <4>1
      <4>3. content'[stored'[n]].head = content[stored[n]].head
        BY <4>2 DEF H
      <4>4. content'[stored'[numReceived' - 1]].head = content[stored[numReceived - 1]].head
        BY <4>1, <4>3
      <4> QED BY <4>4 DEF H
    <3> QED BY <1>1, <2>3, <3>3, <3>4
  <2> QED BY <2>2, <2>3
<1>6. numReceived > 0 => H(stored[0])' = H(stored[0])
  BY <1>3, <1>4
<1>7. \A i \in StoredAt' : /\ H(stored[i])'.index = i
                           /\ H(stored[i])'.req = H(stored[0])'.req
                           /\ H(stored[i])'.total = H(stored[0])'.total
  <2>1. SUFFICES ASSUME NEW i \in StoredAt
                 PROVE  /\ H(stored[i])'.index = i
                        /\ H(stored[i])'.req = H(stored[0])'.req
                        /\ H(stored[i])'.total = H(stored[0])'.total
    BY <1>2
  <2>2. numReceived > 0
    BY <2>1 DEF MgrStrict
  <2> QED BY <1>3, <1>6, <2>2 DEF MgrStrict
<1>8. mgrPc' = "get" /\ numReceived' > 0 => numReceived' < H(stored[0])'.total
  BY <1>1, <1>6 DEF MgrStrict
<1>9. mgrPc' = "enqueue" => numReceived' > 0 /\ storedNum' = numReceived'
                            /\ storedNum' = H(stored[0])'.total
  BY <1>1, <1>6 DEF MgrStrict
<1>10. mgrPc' # "putback" /\ StoredAt' = 0 .. numReceived' - 1
  BY <1>1, <1>2 DEF MgrStrict
<1> QED BY <1>5, <1>7, <1>8, <1>9, <1>10 DEF MgrStrict

(* The image it takes is the one its object lacks.                         *)
LEMMA MgrGetPlace ==
  ASSUME Types, NoNull, TempOrder, MgrStrict, BufMgrNext, MgrGet,
         Goes, First = H(tempQ[1].buf)
  PROVE  \E r \in SpecialObjects, n \in Nat :
           /\ First = H(r.buf) /\ H(r.buf).index = n /\ H(r.buf).total = r.total
           /\ n > 0 => H(r.buf).req = H(stored[0]).req /\ H(r.buf).total = H(stored[0]).total
           /\ mgrPc = "get" /\ content' = content /\ storedNum' = r.total
           /\ n = numReceived /\ numReceived' = n + 1
           /\ StoredAt = 0 .. n - 1 /\ StoredAt' = 0 .. n /\ n \in Indices /\ r.buf \in Slots
           /\ stored' = [stored EXCEPT ![n] = r.buf]
           /\ mgrPc' = IF n + 1 = r.total THEN "enqueue" ELSE "get"
<1> USE MgrFacts
<1>1. PICK r \in SpecialObjects :
        /\ r = tempQ[1] /\ r.buf # NULL /\ H(r.buf).index = r.index /\ H(r.buf).total = r.total
        /\ r = Head(tempQ) /\ First = H(r.buf)
  <2>1. 1 \in DOMAIN tempQ /\ Head(tempQ) = tempQ[1]
    BY LineTails DEF MgrGet
  <2>2. tempQ[1] \in SpecialObjects
    BY <2>1
  <2> QED BY <2>1, <2>2 DEF TempOrder, NoNull
<1>2. content' = content /\ mgrPc = "get"
  BY DEF BufMgrNext, MgrGet, memVars
<1>3. PICK n \in Nat : n = numReceived
  OBVIOUS
<1>4. StoredAt = 0 .. n - 1
  BY <1>3 DEF MgrStrict
<1>5. /\ r.index = n
      /\ n > 0 => H(r.buf).req = H(stored[0]).req /\ H(r.buf).total = H(stored[0]).total
  <2>1. CASE n = 0
    BY <1>1, <1>3, <2>1 DEF MgrStrict
  <2>2. CASE n > 0
    <3>1. /\ Just(H(stored[n - 1]), H(r.buf)) /\ n < H(stored[0]).total
          /\ n - 1 \in StoredAt
      BY <1>1, <1>2, <1>3, <1>4, <2>2 DEF MgrStrict
    <3>2. H(stored[n - 1]).index = n - 1 /\ H(stored[n - 1]).req = H(stored[0]).req
          /\ H(stored[n - 1]).total = H(stored[0]).total
      BY <3>1 DEF MgrStrict
    <3>3. H(stored[n - 1]).index + 1 < H(stored[n - 1]).total
      BY <3>1, <3>2
    <3>4. H(r.buf).req = H(stored[n - 1]).req /\ H(r.buf).index = H(stored[n - 1]).index + 1
          /\ H(r.buf).total = H(stored[n - 1]).total
      BY <3>1, <3>3 DEF Just
    <3> QED BY <1>1, <3>2, <3>4
  <2> QED BY <2>1, <2>2
<1>6. stored[r.index] = NULL
  <2>1. r.index \notin StoredAt
    BY <1>4, <1>5
  <2> QED BY <2>1 DEF StoredAt
<1>7. Store(r, n + 1) /\ storedNum' = r.total
  BY <1>1, <1>3, <1>6 DEF MgrGet
<1>8. /\ stored' = [stored EXCEPT ![n] = r.buf] /\ numReceived' = n + 1
      /\ StoredAt' = 0 .. n /\ mgrPc' = IF n + 1 = r.total THEN "enqueue" ELSE "get"
      /\ n \in Indices /\ r.buf \in Slots
  <2>1. StoredAt' = StoredAt \cup {n}
    BY <1>1, <1>5, <1>7, StoreAt
  <2>2. StoredAt' = 0 .. n
    BY <1>4, <2>1
  <2> QED BY <1>5, <1>7, <2>2 DEF Store
<1> QED BY <1>1, <1>2, <1>3, <1>4, <1>5, <1>7, <1>8

LEMMA MgrGetStrict ==
  ASSUME Types, NoNull, TempOrder, MgrStrict, BufMgrNext, MgrGet,
         Goes, First = H(tempQ[1].buf), Goes' => Just(First, First')
  PROVE  MgrStrict'
<1> USE MgrFacts
<1>1. PICK r \in SpecialObjects, n \in Nat :
        /\ First = H(r.buf) /\ H(r.buf).index = n /\ H(r.buf).total = r.total
        /\ n > 0 => H(r.buf).req = H(stored[0]).req /\ H(r.buf).total = H(stored[0]).total
        /\ mgrPc = "get" /\ content' = content /\ storedNum' = r.total
        /\ n = numReceived /\ numReceived' = n + 1
        /\ StoredAt = 0 .. n - 1 /\ StoredAt' = 0 .. n /\ n \in Indices /\ r.buf \in Slots
        /\ stored' = [stored EXCEPT ![n] = r.buf]
        /\ mgrPc' = IF n + 1 = r.total THEN "enqueue" ELSE "get"
  BY MgrGetPlace
<1>2. H(stored[n])' = H(r.buf)
  <2>1. stored'[n] = r.buf
    BY <1>1
  <2>2. content'[stored'[n]].head = content[r.buf].head
    BY <1>1, <2>1
  <2> QED BY <2>2 DEF H
<1>3. ASSUME NEW i \in 0 .. n - 1 PROVE H(stored[i])' = H(stored[i])
  <2>1. i \in Indices /\ i # n
    BY <1>1
  <2>2. stored'[i] = stored[i]
    BY <1>1, <2>1
  <2>3. content'[stored'[i]].head = content[stored[i]].head
    BY <1>1, <2>2
  <2> QED BY <2>3 DEF H
<1>4. H(stored[0])'.req = H(r.buf).req /\ H(stored[0])'.total = r.total
  <2>1. CASE n = 0
    BY <1>1, <1>2, <2>1
  <2>2. CASE n > 0
    <3>1. 0 \in 0 .. n - 1
      BY <2>2
    <3> QED BY <1>1, <1>3, <2>2, <3>1
  <2> QED BY <2>1, <2>2
<1>5. ASSUME NEW i \in StoredAt'
       PROVE  /\ H(stored[i])'.index = i
              /\ H(stored[i])'.req = H(stored[0])'.req
              /\ H(stored[i])'.total = H(stored[0])'.total
  <2>1. CASE i = n
    BY <1>1, <1>2, <1>4, <2>1
  <2>2. CASE i # n
    <3>1. i \in 0 .. n - 1 /\ i \in StoredAt /\ 0 \in 0 .. n - 1
      BY <1>1, <2>2
    <3> QED BY <1>3, <3>1 DEF MgrStrict
  <2> QED BY <2>1, <2>2
<1>6. r.total \in Nat /\ n + 1 <= r.total
  <2>1. r.total \in 1 .. MaxInput
    OBVIOUS
  <2>2. CASE n = 0
    BY <2>1, <2>2
  <2>3. CASE n > 0
    <3>1. n < H(stored[0]).total
      BY <1>1, <2>3 DEF MgrStrict
    <3> QED BY <1>1, <2>1, <2>3, <3>1
  <2> QED BY <2>2, <2>3
<1>7. mgrPc' = "get" /\ numReceived' > 0 => numReceived' < H(stored[0])'.total
  BY <1>1, <1>4, <1>6
<1>8. mgrPc' = "enqueue" => numReceived' > 0 /\ storedNum' = numReceived'
                             /\ storedNum' = H(stored[0])'.total
  BY <1>1, <1>4
<1>9. Goes' => Just(H(stored[numReceived - 1])', First')
  <2>1. numReceived' - 1 = n
    BY <1>1
  <2> QED BY <1>1, <1>2, <2>1
<1>10. mgrPc' # "putback" /\ StoredAt' = 0 .. numReceived' - 1 /\ numReceived' # 0
  BY <1>1
<1> QED BY <1>5, <1>7, <1>8, <1>9, <1>10 DEF MgrStrict

(* When it has them all, the next inference comes.                         *)
LEMMA MgrEnqueueStrict ==
  ASSUME Types, MgrStrict, BufMgrNext, MgrEnqueue, Goes' => Goes /\ Alike(First, First')
  PROVE  MgrStrict'
<1> USE MgrFacts
<1>1. /\ mgrPc = "enqueue" /\ mgrPc' = "get" /\ stored' = [i \in Indices |-> NULL]
      /\ numReceived' = 0
  BY DEF BufMgrNext, MgrEnqueue
<1>2. StoredAt' = {}
  BY <1>1 DEF StoredAt
<1>3. ASSUME Goes' PROVE First'.index = 0
  <2>1. Goes /\ Alike(First, First') /\ numReceived > 0
    BY <1>1, <1>3 DEF MgrStrict
  <2>2. Just(H(stored[numReceived - 1]), First) /\ numReceived - 1 \in StoredAt
        /\ numReceived = H(stored[0]).total
    BY <1>1, <2>1 DEF MgrStrict
  <2>3. H(stored[numReceived - 1]).index = numReceived - 1
        /\ H(stored[numReceived - 1]).total = numReceived
    BY <2>2 DEF MgrStrict
  <2>4. First.index = 0
    BY <2>2, <2>3 DEF Just
  <2> QED BY <2>1, <2>4 DEF Alike, SameImage
<1> QED BY <1>1, <1>2, <1>3 DEF MgrStrict

LEMMA OthersManage ==
  ASSUME ~BufMgrNext, [Next]_vars
  PROVE  UNCHANGED mgrVars
BY DEF Next, LinkNext, Configured, Disconnected, VbusOff, LinkLost, ErrandResetDevice,
   HostNext, ControlConfigure, ControlReset, ControlDroppable, HostBegins, HostSendsImage,
   HostSendsCommand, SendDma, HostReads, InfNext, InfDequeue,
   InfGetResultBuffer, InfExecute, InfPutFree, SendNext, SendDequeue, SendStart, SendBegins,
    SendDone, SendHangs, SendPutFree, vars, queueVars, mgrVars,
   ImgNext, ImgWaitConnection, ImgGet, ImgTakeFree, ImgUnbundle, ImgGrabFails, ImgRetry,
   ImgReceive, ImgMark, ImgArm, ImgReceived, ImgFailed, ImgSwap, ImgEnqueue, ImgCommand,
   ImgCommandBegins, ImgCommandDone, ImgCommandTimeout, ImgPutFree, ImgCleanImages,
   ImgCleanResults, ImgCleaned

LEMMA StepMgrStrict ==
  ASSUME Types, NoNull, TempOrder, MgrStrict, [Next]_vars, \A b : Waits(b) => H(b)' = H(b),
         IF BufMgrNext /\ MgrGet
         THEN Goes /\ First = H(tempQ[1].buf) /\ (Goes' => Just(First, First'))
         ELSE Goes' => Goes /\ Alike(First, First')
  PROVE  MgrStrict'
<1>1. CASE BufMgrNext /\ MgrGet
  BY <1>1, MgrGetStrict
<1>2. CASE BufMgrNext /\ ~MgrGet
  <2>1. MgrEnqueue
    BY <1>2 DEF BufMgrNext, MgrNext, MgrPutBack, MgrStrict
  <2> QED BY <1>2, <2>1, MgrEnqueueStrict
<1>3. CASE ~BufMgrNext
  <2>1. UNCHANGED mgrVars
    BY <1>3, OthersManage
  <2> QED BY <1>3, <2>1, MgrStays
<1> QED BY <1>1, <1>2, <1>3

-----------------------------------------------------------------------------
(* The objects.                                                            *)
LEMMA WholeKept ==
  ASSUME NEW o \in Seq(Slots), WholeInference(o),
         \A k \in DOMAIN o : content'[o[k]].head = content[o[k]].head
  PROVE  WholeInference(o)'
<1>1. DOMAIN o # {} => 1 \in DOMAIN o
  OBVIOUS
<1>2. ASSUME NEW k \in DOMAIN o
      PROVE  /\ content'[o[k]].head.req = content'[o[1]].head.req
             /\ content'[o[k]].head.total = Len(o)
             /\ content'[o[k]].head.index = k - 1
  BY <1>1 DEF WholeInference
<1> QED BY <1>2 DEF WholeInference

LEMMA ObjectsStayWhole ==
  ASSUME Types, OneInference, ~(BufMgrNext /\ MgrEnqueue), [Next]_vars,
         \A b : Waits(b) => H(b)' = H(b)
  PROVE  OneInference'
<1>1. PICK d \in {0, 1}, L \in Nat :
        /\ DOMAIN imgData = 1 .. L /\ DOMAIN imgData' = 1 .. L - d
        /\ \A i \in 1 .. L - d : i + d \in DOMAIN imgData /\ imgData'[i] = imgData[i + d]
  BY ObjectsLeave, ObjectsMove
<1>2. SUFFICES ASSUME NEW i \in DOMAIN imgData' PROVE WholeInference(imgData[i])'
  BY DEF OneInference
<1>3. PICK o : o = imgData'[i] /\ i + d \in DOMAIN imgData /\ o = imgData[i + d]
  BY <1>1, <1>2
<1>4. o \in Seq(Slots) /\ WholeInference(o)
  BY <1>3, ObjectFacts DEF OneInference
<1>5. ASSUME NEW k \in DOMAIN o PROVE content'[o[k]].head = content[o[k]].head
  <2>1. PICK b : b = o[k]
    OBVIOUS
  <2>2. Waits(b)
    BY <1>3, <2>1 DEF Waits, BufsOf
  <2>3. content'[b].head = content[b].head
    BY <2>2 DEF H
  <2> QED BY <2>1, <2>3
<1>6. WholeInference(o)'
  BY <1>4, <1>5, WholeKept
<1> QED BY <1>3, <1>6 DEF WholeInference

(* The object of an inference that is complete is whole.                   *)
LEMMA NewObjectWhole ==
  ASSUME Types, MgrStrict, OneInference, BufMgrNext, MgrEnqueue
  PROVE  OneInference'
<1> USE MgrFacts
<1>1. PICK n \in Nat : n = storedNum /\ n > 0 /\ StoredAt = 0 .. n - 1
                       /\ n = H(stored[0]).total
  BY DEF MgrEnqueue, MgrStrict
<1>2. PICK o : o = [k \in 1 .. n |-> stored[k - 1]]
  OBVIOUS
<1>3. imgData' = Append(imgData, o) /\ content' = content
  BY <1>1, <1>2 DEF BufMgrNext, MgrEnqueue, memVars
<1>4. o \in Seq(Slots) /\ DOMAIN o = 1 .. n /\ Len(o) = n
  <2>1. ASSUME NEW k \in 1 .. n PROVE stored[k - 1] \in Slots
    <3>1. k - 1 \in StoredAt
      BY <1>1
    <3> QED BY <3>1 DEF StoredAt
  <2> DEFINE x == [k \in 1 .. n |-> stored[k - 1]]
  <2>2. x \in Seq(Slots) /\ Len(x) = n /\ DOMAIN x = 1 .. n
    BY <1>1, <2>1
  <2> QED BY <1>2, <2>2
<1>5. WholeInference(o)
  <2>1. o[1] = stored[0]
    BY <1>1, <1>2
  <2>2. ASSUME NEW k \in DOMAIN o
        PROVE  /\ content[o[k]].head.req = content[o[1]].head.req
               /\ content[o[k]].head.total = Len(o) /\ content[o[k]].head.index = k - 1
    <3>1. o[k] = stored[k - 1] /\ k - 1 \in StoredAt
      BY <1>1, <1>2, <1>4
    <3>2. /\ H(stored[k - 1]).index = k - 1
          /\ H(stored[k - 1]).req = H(stored[0]).req
          /\ H(stored[k - 1]).total = H(stored[0]).total
      BY <3>1 DEF MgrStrict
    <3> QED BY <1>1, <1>4, <2>1, <3>1, <3>2 DEF H
  <2> QED BY <2>2 DEF WholeInference
<1>6. PICK L \in Nat : L = Len(imgData)
  BY PlaceTypes
<1>7. /\ DOMAIN imgData' = 1 .. L + 1 /\ DOMAIN imgData = 1 .. L
      /\ imgData'[L + 1] = o /\ \A i \in 1 .. L : imgData'[i] = imgData[i]
  BY <1>3, <1>4, <1>6, PlaceTypes, ObjectAppends
<1>8. SUFFICES ASSUME NEW i \in DOMAIN imgData' PROVE WholeInference(imgData[i])'
  BY DEF OneInference
<1>9. PICK x : x = imgData'[i]
  OBVIOUS
<1>10. x \in Seq(Slots) /\ WholeInference(x)
  <2>1. CASE i = L + 1
    BY <1>4, <1>5, <1>7, <1>9, <2>1
  <2>2. CASE i # L + 1
    <3>1. i \in DOMAIN imgData /\ x = imgData[i]
      BY <1>7, <1>8, <1>9, <2>2
    <3> QED BY <3>1, ObjectFacts DEF OneInference
  <2> QED BY <2>1, <2>2
<1>11. WholeInference(x)'
  BY <1>3, <1>10, WholeKept
<1> QED BY <1>9, <1>11 DEF WholeInference

-----------------------------------------------------------------------------
(* As long as the image thread has its buffers.                            *)
StrictInv == ~raced => Steady /\ FrontStrict /\ TempStrict /\ MgrStrict /\ OneInference

LEMMA InitStrict == Init => StrictInv
<1> SUFFICES ASSUME Init
             PROVE  Steady /\ FrontStrict /\ TempStrict /\ MgrStrict /\ OneInference
  BY DEF StrictInv
<1> USE DEF Init, QueueInit
<1>1. ~HasHeader /\ ~host.open /\ ~MidImage /\ ~Halfway /\ ~InReceive /\ ~Landed
  BY DEF HasHeader, InReceive, WaitsForBuffer, NewHeader, Landed, MidImage, Halfway
<1>2. Steady
  BY <1>1 DEF Steady
<1>3. FrontStrict
  BY <1>1 DEF FrontStrict
<1>4. TempStrict
  BY DEF TempStrict
<1>5. First.index = 0
  BY <1>1 DEF First, FirstFront, NextSent, NextItem, Nothing
<1>6. StoredAt = {}
  BY DEF StoredAt
<1>7. MgrStrict
  BY <1>5, <1>6 DEF MgrStrict
<1>8. OneInference
  BY DEF OneInference
<1> QED BY <1>2, <1>3, <1>4, <1>7, <1>8

LEMMA StepStrict ==
  ASSUME MaxReset = 0, MaxLink = 0, Types, Types', OrderInv, NeverDown, SendSteady, RealInv,
         Exclusive, ResultInv, StrictInv, [Next]_vars
  PROVE  StrictInv'
<1> SUFFICES ASSUME ~raced'
             PROVE  Steady' /\ FrontStrict' /\ TempStrict' /\ MgrStrict' /\ OneInference'
  BY DEF StrictInv
<1>1. ~raced
  BY HistoryStays
<1>2. Steady /\ FrontStrict /\ TempStrict /\ MgrStrict /\ OneInference /\ ~torn /\ ~late
  BY <1>1 DEF StrictInv, Steady, SendSteady
<1>3. /\ Receiving /\ ReceiveInv /\ LengthInv /\ LineInv /\ NoNull /\ QueuesReal /\ AllInPlace
      /\ FrontOrder /\ TempOrder
  BY <1>1, <1>2 DEF OrderInv, RealInv, Exclusive, ResultInv
<1>4. \A b : Waits(b) => H(b)' = H(b)
  BY <1>2, <1>3, ContentStays
<1>5. Steady' /\ Moves
  BY <1>2, <1>3, StepSteady
<1>6. /\ FrontStrict' /\ TempStrict'
      /\ IF BufMgrNext /\ MgrGet
         THEN Goes /\ First = H(tempQ[1].buf) /\ (Goes' => Just(First, First'))
         ELSE Goes' => Goes /\ Alike(First, First')
  BY <1>2, <1>3, <1>4, <1>5, StepTempStrict
<1>7. MgrStrict'
  BY <1>2, <1>3, <1>4, <1>6, StepMgrStrict
<1>8. OneInference'
  BY <1>2, <1>4, NewObjectWhole, ObjectsStayWhole
<1> QED BY <1>5, <1>6, <1>7, <1>8

LEMMA StrictInvariant == ASSUME MaxReset = 0, MaxLink = 0 PROVE Spec => []StrictInv
<1>1. Types /\ Types' /\ OrderInv /\ NeverDown /\ SendSteady /\ RealInv /\ Exclusive
      /\ ResultInv /\ StrictInv /\ [Next]_vars => StrictInv'
  BY StepStrict
<1>2. Spec => [](NeverDown /\ SendSteady)
  BY SendSteadyInvariant
<1> QED BY <1>1, <1>2, InitStrict, TypesInvariant, OrderInvariant, RealInvariant,
           ImagesExclusive, ResultInvariant, PTL DEF Spec

(* Under a host that stays connected and requests no reset, as long as the *)
(* image thread did not go on without a buffer: an object that waits for   *)
(* inference has the images of one inference, all of them, in their order. *)
THEOREM InferencesAreWhole ==
  ASSUME MaxReset = 0, MaxLink = 0
  PROVE  Spec => [](~raced => OneInference)
<1>1. StrictInv => (~raced => OneInference)
  BY DEF StrictInv
<1> QED BY <1>1, StrictInvariant, PTL

(* So it is always, when the host does not switch dropping on either.      *)
THEOREM InferencesAreWholeUndropped ==
  ASSUME MaxReset = 0, MaxLink = 0, MaxDrop = 0
  PROVE  Spec => []OneInference
<1>1. Types /\ NeverDroppable /\ [Next]_vars => NeverDroppable'
  BY StepNeverDroppable
<1>2. NeverDroppable => ~raced
  BY DEF NeverDroppable
<1>3. Spec => [](~raced)
  BY <1>1, <1>2, InitNeverDroppable, TypesInvariant, PTL DEF Spec
<1> QED BY <1>3, InferencesAreWhole, PTL

-----------------------------------------------------------------------------
(* Each image carries the number of crop boxes its inference was asked     *)
(* with.                                                                   *)
CropsOf(a) == a.req \in DOMAIN asked /\ a.crops = asked[a.req]
CropsRight ==
  /\ Len(asked) = count.req
  /\ \A r \in DOMAIN asked : asked[r] > 0
  /\ host.open => CropsOf(host)
  /\ HasHeader => CropsOf(Header)
  /\ \A b : Waits(b) => CropsOf(H(b))

LEMMA AskedFacts == ASSUME Types PROVE
  asked \in Seq(Nat) /\ DOMAIN asked = 1 .. Len(asked) /\ Len(asked) \in Nat
BY DEF Types, TypeOK, HostTypeOK

(* What was asked stays, but for the inference the host begins.            *)
LEMMA AskedMoves ==
  ASSUME Types, [Next]_vars, ~HostBegins
  PROVE  asked' = asked /\ count'.req = count.req
<1>1. CASE LinkNext
  BY <1>1, CountFacts DEF LinkNext, Configured, Disconnected, VbusOff, LinkLost, ErrandResetDevice,
     hostVars, Counters
<1>2. CASE HostNext
  BY <1>2, CountFacts DEF HostNext, ControlConfigure, ControlReset, ControlDroppable,
     HostSendsImage, HostSendsCommand, SendDma, HostReads, hostVars, Counters
<1>3. CASE ImgNext
  BY <1>3 DEF ImgNext, ImgWaitConnection, ImgGet, ImgTakeFree, ImgUnbundle, ImgGrabFails,
     ImgRetry, ImgReceive, ImgMark, ImgArm, ImgReceived, ImgFailed, ImgSwap, ImgEnqueue,
     ImgCommand, ImgCommandBegins, ImgCommandDone, ImgCommandTimeout, ImgPutFree,
     ImgCleanImages, ImgCleanResults, ImgCleaned, hostVars
<1>4. CASE BufMgrNext \/ InfNext \/ SendNext \/ UNCHANGED vars
  BY <1>4 DEF BufMgrNext, InfNext, InfDequeue, InfGetResultBuffer, InfExecute, InfPutFree,
     SendNext, SendDequeue, SendStart, SendBegins, SendDone, SendHangs, SendPutFree, vars,
     hostVars
<1> QED BY <1>1, <1>2, <1>3, <1>4 DEF Next

LEMMA HostAsks ==
  ASSUME Types, CropsRight, HostBegins
  PROVE  /\ \E c \in Crops : asked' = Append(asked, c) /\ c > 0 /\ c \in Nat
         /\ Len(asked) = count.req /\ count.req < MaxReq
         /\ DOMAIN asked' = 1 .. Len(asked) + 1 /\ Len(asked') = Len(asked) + 1
         /\ \A r \in DOMAIN asked : asked'[r] = asked[r] /\ r \in DOMAIN asked'
         /\ asked'[Len(asked) + 1] > 0
         /\ count'.req = count.req + 1 /\ CropsOf(host)' /\ delivered' = delivered
<1>1. PICK t \in Totals, c \in Crops :
        /\ host' = [req |-> count.req + 1, total |-> t, index |-> 0, chunk |-> 0,
                    crops |-> c, open |-> TRUE]
        /\ asked' = Append(asked, c)
  BY DEF HostBegins
<1>2. c > 0 /\ c \in Nat
  BY HostAssumption
<1>3. PICK L \in Nat : L = Len(asked) /\ L = count.req
  BY AskedFacts DEF CropsRight
<1>4. /\ DOMAIN asked' = 1 .. L + 1 /\ Len(asked') = L + 1 /\ asked'[L + 1] = c
      /\ \A r \in 1 .. L : asked'[r] = asked[r]
  BY <1>1, <1>2, <1>3, AskedFacts
<1>5. count'.req = count.req + 1
  BY DEF HostBegins, Types, TypeOK, HostTypeOK, Counters
<1>6. CropsOf(host)'
  <2>1. host'.req = L + 1 /\ host'.crops = c /\ L + 1 \in 1 .. L + 1
    BY <1>1, <1>3
  <2> QED BY <1>4, <2>1 DEF CropsOf
<1> QED BY <1>1, <1>2, <1>3, <1>4, <1>5, <1>6, AskedFacts DEF HostBegins

LEMMA AskedStays ==
  ASSUME Types, CropsRight, [Next]_vars
  PROVE  /\ \A r \in DOMAIN asked : r \in DOMAIN asked' /\ asked'[r] = asked[r]
         /\ Len(asked') = count'.req
         /\ \A r \in DOMAIN asked' : asked'[r] > 0
<1>1. CASE HostBegins
  <2>1. ASSUME NEW r \in DOMAIN asked' PROVE asked'[r] > 0
    <3>1. r \in DOMAIN asked \/ r = Len(asked) + 1
      BY <1>1, HostAsks, AskedFacts
    <3> QED BY <1>1, <3>1, HostAsks DEF CropsRight
  <2> QED BY <1>1, <2>1, HostAsks
<1>2. CASE ~HostBegins
  BY <1>2, AskedMoves DEF CropsRight
<1> QED BY <1>1, <1>2

LEMMA CropsStay ==
  ASSUME Types, CropsRight, [Next]_vars
  PROVE  \A a : CropsOf(a) => CropsOf(a)'
BY AskedStays DEF CropsOf

(* The buffers that wait do, or come from the image thread.                *)
LEMMA ObjectsWait ==
  ASSUME Types, MgrStrict, [Next]_vars, NEW b, \E i \in DOMAIN imgData' : b \in BufsOf(imgData'[i])
  PROVE  Waits(b)
<1>1. CASE BufMgrNext /\ MgrEnqueue
  <2>1. PICK n \in Nat : n = storedNum /\ StoredAt = 0 .. n - 1
    BY <1>1, MgrFacts DEF MgrEnqueue, MgrStrict
  <2> DEFINE x == [k \in 1 .. n |-> stored[k - 1]]
  <2>2. \A k \in 1 .. n : k - 1 \in StoredAt /\ stored[k - 1] \in Slots
    BY <2>1, MgrFacts DEF StoredAt
  <2>3. x \in Seq(Slots) /\ DOMAIN x = 1 .. n /\ \A k \in 1 .. n : x[k] = stored[k - 1]
    BY <2>2
  <2>4. imgData' = Append(imgData, x)
    BY <1>1, <2>1 DEF MgrEnqueue
  <2> HIDE DEF x
  <2>5. PICK L \in Nat : L = Len(imgData)
    BY PlaceTypes
  <2>6. /\ DOMAIN imgData' = 1 .. L + 1 /\ DOMAIN imgData = 1 .. L
        /\ imgData'[L + 1] = x /\ \A i \in 1 .. L : imgData'[i] = imgData[i]
    BY <2>3, <2>4, <2>5, PlaceTypes, ObjectAppends
  <2>7. PICK i \in DOMAIN imgData' : b \in BufsOf(imgData'[i])
    OBVIOUS
  <2>8. CASE i = L + 1
    <3>1. PICK k \in 1 .. n : b = x[k]
      BY <2>3, <2>6, <2>7, <2>8 DEF BufsOf
    <3> QED BY <2>2, <2>3, <3>1 DEF Waits
  <2>9. CASE i # L + 1
    <3>1. i \in DOMAIN imgData /\ imgData'[i] = imgData[i]
      BY <2>6, <2>7, <2>9
    <3> QED BY <2>7, <3>1 DEF Waits
  <2> QED BY <2>8, <2>9
<1>2. CASE ~(BufMgrNext /\ MgrEnqueue)
  <2>1. PICK d \in {0, 1}, L \in Nat :
          /\ DOMAIN imgData = 1 .. L /\ DOMAIN imgData' = 1 .. L - d
          /\ \A i \in 1 .. L - d : i + d \in DOMAIN imgData /\ imgData'[i] = imgData[i + d]
    BY <1>2, ObjectsLeave, ObjectsMove
  <2> QED BY <2>1 DEF Waits
<1> QED BY <1>1, <1>2

LEMMA QueuedWait ==
  ASSUME Types, [Next]_vars, NEW b, \E i \in DOMAIN tempQ' : b = tempQ'[i].buf
  PROVE  Waits(b) \/ (ImgEnqueue /\ b = buf)
<1>1. PICK L \in Nat : L = Len(tempQ)
  BY MgrFacts
<1>2. CASE ImgEnqueue
  <2> DEFINE x == [total |-> hdr.total, index |-> IF hdr.total = 1 THEN 0 ELSE hdr.index, buf |-> buf]
  <2>1. tempQ' = Append(tempQ, x) /\ x.buf = buf
    BY <1>2, HasImages DEF ImgEnqueue, image_enqueue
  <2>2. x \in SpecialObjects
    <3>1. hdr.index \in Indices /\ hdr.total \in 1 .. MaxInput /\ buf \in Slots /\ 0 \in Indices
      BY ImgFacts, SizesAssumption DEF Items, Indices
    <3> QED BY <3>1 DEF SpecialObjects
  <2> HIDE DEF x
  <2>3. /\ DOMAIN tempQ' = 1 .. L + 1 /\ DOMAIN tempQ = 1 .. L
        /\ tempQ'[L + 1] = x /\ \A i \in 1 .. L : tempQ'[i] = tempQ[i]
    BY <1>1, <2>1, <2>2, MgrFacts, LineAppends
  <2>4. PICK i \in 1 .. L + 1 : b = tempQ'[i].buf
    BY <2>3
  <2>5. i = L + 1 \/ i \in 1 .. L
    OBVIOUS
  <2> QED BY <1>2, <2>1, <2>3, <2>4, <2>5 DEF Waits
<1>3. CASE BufMgrNext /\ MgrGet
  <2>1. tempQ # <<>> /\ tempQ' = Tail(tempQ)
    BY <1>3 DEF MgrGet
  <2>2. /\ DOMAIN tempQ' = 1 .. L - 1 /\ DOMAIN tempQ = 1 .. L
        /\ \A i \in 1 .. L - 1 : tempQ'[i] = tempQ[i + 1]
    BY <1>1, <2>1, MgrFacts, LineTails
  <2>3. PICK i \in 1 .. L - 1 : b = tempQ'[i].buf
    BY <2>2
  <2>4. i + 1 \in 1 .. L
    OBVIOUS
  <2> QED BY <2>2, <2>3, <2>4 DEF Waits
<1>4. CASE ~ImgEnqueue /\ ~(BufMgrNext /\ MgrGet)
  BY <1>4, TempUntouched DEF Waits
<1> QED BY <1>2, <1>3, <1>4

LEMMA OthersWork ==
  ASSUME ~InfDequeue, ~InfPutFree, [Next]_vars
  PROVE  obj' = obj
BY DEF Next, LinkNext, Configured, Disconnected, VbusOff, LinkLost,
   ErrandResetDevice, HostNext, ControlConfigure, ControlReset, ControlDroppable,
   HostBegins, HostSendsImage, HostSendsCommand, SendDma, HostReads, BufMgrNext,
   InfNext, InfGetResultBuffer, InfExecute,
   SendNext, SendDequeue, SendStart, SendBegins, SendDone, SendHangs, SendPutFree, vars,
   infVars, ImgNext, ImgWaitConnection, ImgGet, ImgTakeFree, ImgUnbundle, ImgGrabFails,
   ImgRetry, ImgReceive, ImgMark, ImgArm, ImgReceived, ImgFailed, ImgSwap, ImgEnqueue,
   ImgCommand, ImgCommandBegins, ImgCommandDone, ImgCommandTimeout, ImgPutFree, ImgCleanImages,
   ImgCleanResults, ImgCleaned

LEMMA StoredWait ==
  ASSUME Types, MgrStrict, [Next]_vars, NEW b,
         (\E i \in StoredAt' : b = stored'[i]) \/ (mgrPc' = "putback" /\ b = received'.buf)
  PROVE  Waits(b)
<1>1. CASE BufMgrNext
  <2>1. CASE MgrGet
    <3>1. 1 \in DOMAIN tempQ /\ Head(tempQ) = tempQ[1] /\ received' = tempQ[1]
      BY <2>1, LineTails, MgrFacts DEF MgrGet
    <3>2. Waits(tempQ[1].buf)
      BY <3>1 DEF Waits
    <3>3. \/ stored' = stored
          \/ stored' = [stored EXCEPT ![tempQ[1].index] = tempQ[1].buf]
      BY <2>1, <3>1 DEF MgrGet, Store
    <3>4. ASSUME NEW i \in StoredAt', b = stored'[i] PROVE Waits(b)
      <4>1. i \in Indices /\ stored'[i] # NULL
        BY <3>4 DEF StoredAt
      <4>2. b = stored[i] \/ b = tempQ[1].buf
        BY <3>3, <3>4, <4>1, MgrFacts
      <4>3. CASE b = stored[i]
        BY <3>4, <4>1, <4>3 DEF Waits, StoredAt
      <4> QED BY <3>2, <4>2, <4>3
    <3> QED BY <3>1, <3>2, <3>4
  <2>2. CASE MgrEnqueue
    <3>1. StoredAt' = {} /\ mgrPc' = "get"
      BY <2>2 DEF MgrEnqueue, StoredAt
    <3> QED BY <3>1
  <2> QED BY <1>1, <2>1, <2>2 DEF BufMgrNext, MgrNext, MgrPutBack, MgrStrict
<1>2. CASE ~BufMgrNext
  <2>1. UNCHANGED mgrVars
    BY <1>2, OthersManage
  <2>2. UNCHANGED <<stored, received, mgrPc>>
    BY <2>1 DEF mgrVars
  <2> QED BY <2>2 DEF Waits, StoredAt
<1> QED BY <1>1, <1>2

LEMMA WorkedWait ==
  ASSUME Types, [Next]_vars, NEW b, b \in BufsOf(obj')
  PROVE  Waits(b)
<1>1. CASE InfDequeue
  <2>1. imgData # <<>> /\ obj' = Head(imgData)
    BY <1>1 DEF InfDequeue, image_dequeue
  <2>2. 1 \in DOMAIN imgData /\ obj' = imgData[1]
    BY <2>1, PlaceTypes, ObjectTails
  <2> QED BY <2>2 DEF Waits
<1>2. CASE InfPutFree
  <2>1. obj \in Seq(Slots) /\ obj # <<>> /\ obj' = Tail(obj)
    BY <1>2, PlaceTypes DEF InfPutFree, Types, Shapes
  <2>2. \A k \in DOMAIN Tail(obj) : k + 1 \in DOMAIN obj /\ Tail(obj)[k] = obj[k + 1]
    BY <2>1
  <2> QED BY <2>1, <2>2 DEF BufsOf, Waits
<1>3. CASE ~InfDequeue /\ ~InfPutFree
  BY <1>3, OthersWork DEF Waits
<1> QED BY <1>1, <1>2, <1>3

LEMMA WaitsComes ==
  ASSUME Types, MgrStrict, [Next]_vars
  PROVE  \A b : Waits(b)' => Waits(b) \/ (ImgEnqueue /\ b = buf)
<1> SUFFICES ASSUME NEW b, Waits(b)' PROVE Waits(b) \/ (ImgEnqueue /\ b = buf)
  OBVIOUS
<1>1. \/ \E i \in DOMAIN imgData' : b \in BufsOf(imgData'[i])
      \/ \E i \in DOMAIN tempQ' : b = tempQ'[i].buf
      \/ (\E i \in StoredAt' : b = stored'[i]) \/ (mgrPc' = "putback" /\ b = received'.buf)
      \/ b \in BufsOf(obj')
  BY DEF Waits, BufsOf
<1> QED BY <1>1, ObjectsWait, QueuedWait, StoredWait, WorkedWait

LEMMA StepCropsRight ==
  ASSUME Types, FrontOrder, Steady, MgrStrict, Moves, CropsRight, [Next]_vars,
         \A b : Waits(b) => H(b)' = H(b)
  PROVE  CropsRight'
<1>1. \A a : CropsOf(a) => CropsOf(a)'
  BY CropsStay
<1>2. /\ host'.open => CropsOf(host)'
      /\ HasHeader' => CropsOf(Header)'
  <2>1. CASE HostBegins
    <3>1. CropsOf(host)' /\ SameHeader
      BY <2>1, HostAsks, BeginsSteady DEF Begun
    <3>2. PICK h : h = Header
      OBVIOUS
    <3>3. HasHeader' => CropsOf(h)' /\ Header' = h
      BY <1>1, <3>1, <3>2 DEF SameHeader, CropsRight
    <3> QED BY <3>1, <3>3 DEF CropsOf
  <2>2. CASE ~HostBegins
    <3>1. asked' = asked /\ count'.req = count.req /\ count.req \in Nat
      BY <2>2, AskedMoves, AllDated
    <3>2. CASE Untouched
      BY <3>1, <3>2 DEF Untouched, SameHeader, CropsRight, CropsOf
    <3>3. CASE Sent
      BY <3>1, <3>3 DEF Sent, SameImage, CropsRight, CropsOf
    <3>4. CASE imgPc' = "dead" /\ ~HasHeader' /\ host' = host
      BY <3>1, <3>4 DEF CropsRight, CropsOf
    <3>5. CASE ImgEnqueue
      <4>1. ~HasHeader' /\ host' = host
        BY <3>5 DEF ImgEnqueue, HasHeader, NewHeader, Landed, InReceive, WaitsForBuffer, hostVars
      <4> QED BY <3>1, <4>1 DEF CropsRight, CropsOf
    <3> QED BY <3>1, <3>2, <3>3, <3>4, <3>5 DEF Moves, Begun
  <2> QED BY <2>1, <2>2
<1>3. ASSUME NEW b, Waits(b)' PROVE CropsOf(H(b))'
  <2>1. PICK h : h = H(b)
    OBVIOUS
  <2>2. CASE Waits(b)
    <3>1. H(b)' = h /\ CropsOf(h)
      BY <2>1, <2>2 DEF CropsRight
    <3>2. CropsOf(h)'
      BY <1>1, <3>1
    <3> QED BY <3>1, <3>2 DEF CropsOf
  <2>3. CASE ImgEnqueue /\ b = buf
    <3>1. HasHeader /\ ~NewHeader /\ Header = hdr /\ HandBuf = buf
      BY <2>3 DEF ImgEnqueue, HasHeader, NewHeader, Landed, InReceive, WaitsForBuffer, Header,
         HandBuf, Swapping
    <3>2. H(b) = hdr /\ CropsOf(hdr)
      BY <2>3, <3>1 DEF FrontOrder, CropsRight
    <3>3. H(b)' = hdr
      BY <2>3, <3>2 DEF ImgEnqueue, memVars, H
    <3>4. CropsOf(h)' /\ H(b)' = h
      BY <1>1, <2>1, <3>2, <3>3
    <3> QED BY <3>4 DEF CropsOf
  <2> QED BY <1>3, <2>2, <2>3, WaitsComes
<1> QED BY <1>2, <1>3, AskedStays DEF CropsRight

LEMMA InitCropsRight == Init => CropsRight
<1> SUFFICES ASSUME Init PROVE CropsRight
  OBVIOUS
<1>1. ~HasHeader /\ ~host.open
  BY DEF Init, HasHeader, InReceive, WaitsForBuffer, NewHeader, Landed
<1>2. \A b : ~Waits(b)
  BY DEF Init, QueueInit, Waits, StoredAt, BufsOf
<1> QED BY <1>1, <1>2 DEF Init, CropsRight

-----------------------------------------------------------------------------
(* The objects that wait, buf_mgr's object and the image it takes next are *)
(* of one inference after the other, from e on, and the dispatcher works   *)
(* on the one before e.                                                    *)
ComesNext(n) == IF numReceived > 0 THEN H(stored[0]).req = n ELSE Goes => First.req = n
ObjectChain(e) ==
  /\ \A i \in DOMAIN imgData : LastItem(imgData[i]).req = e + i - 1
  /\ ComesNext(e + Len(imgData))
Busy == infPc \in {"result", "execute"}
WorkChain(e) ==
  Busy => /\ LastItem(obj).req = e - 1 /\ e - 1 \in DOMAIN asked
          /\ crop < asked[e - 1] /\ H(obj[1]).crops = asked[e - 1]

(* What a step of another thread leaves to come.                           *)
LEMMA ComesNextStays ==
  ASSUME Types, NoNull, TempOrder, MgrStrict, [Next]_vars, ~(BufMgrNext /\ MgrEnqueue),
         \A b : Waits(b) => H(b)' = H(b),
         IF BufMgrNext /\ MgrGet
         THEN Goes /\ First = H(tempQ[1].buf) /\ (Goes' => Just(First, First'))
         ELSE Goes' => Goes /\ Alike(First, First'),
         NEW n, ComesNext(n)
  PROVE  ComesNext(n)'
<1> USE MgrFacts
<1>1. CASE BufMgrNext /\ MgrGet
  <2>1. PICK r \in SpecialObjects, k \in Nat :
          /\ First = H(r.buf)
          /\ k > 0 => H(r.buf).req = H(stored[0]).req
          /\ content' = content /\ k = numReceived /\ numReceived' = k + 1
          /\ StoredAt = 0 .. k - 1 /\ k \in Indices
          /\ stored' = [stored EXCEPT ![k] = r.buf]
    BY <1>1, MgrGetPlace
  <2>2. CASE k = 0
    <3>1. First.req = n
      BY <1>1, <2>1, <2>2 DEF ComesNext
    <3>2. content'[stored'[0]].head = content[r.buf].head
      BY <2>1, <2>2
    <3>3. H(stored[0])'.req = n
      BY <2>1, <3>1, <3>2 DEF H
    <3> QED BY <2>1, <2>2, <3>3 DEF ComesNext
  <2>3. CASE k > 0
    <3>1. 0 \in Indices /\ 0 # k
      BY <2>1, <2>3 DEF StoredAt
    <3>2. stored'[0] = stored[0]
      BY <2>1, <3>1
    <3>3. content'[stored'[0]].head = content[stored[0]].head
      BY <2>1, <3>2
    <3>4. H(stored[0])'.req = n
      BY <2>1, <2>3, <3>3 DEF H, ComesNext
    <3> QED BY <2>1, <2>3, <3>4 DEF ComesNext
  <2> QED BY <2>2, <2>3
<1>2. CASE ~BufMgrNext
  <2>1. UNCHANGED <<stored, numReceived>>
    BY <1>2, OthersManage DEF mgrVars
  <2>2. CASE numReceived > 0
    <3>1. 0 \in StoredAt
      BY <2>2 DEF MgrStrict
    <3>2. PICK b : b = stored[0] /\ Waits(b)
      BY <3>1 DEF Waits
    <3>3. content'[b].head = content[b].head
      BY <3>2 DEF H
    <3>4. content'[stored'[0]].head = content[stored[0]].head
      BY <2>1, <3>2, <3>3
    <3> QED BY <2>1, <2>2, <3>4 DEF ComesNext, H
  <2>3. CASE ~(numReceived > 0)
    BY <1>2, <2>1, <2>3 DEF ComesNext, Alike, SameImage
  <2> QED BY <2>2, <2>3
<1>3. ~(BufMgrNext /\ MgrPutBack)
  BY DEF MgrPutBack, MgrStrict
<1> QED BY <1>1, <1>2, <1>3 DEF BufMgrNext, MgrNext

(* The complete object has the inference that came next; then comes the    *)
(* one after it.                                                           *)
LEMMA CompleteComes ==
  ASSUME Types, MgrStrict, BufMgrNext, MgrEnqueue, Goes' => Goes /\ Alike(First, First'),
         NEW n \in Nat, ComesNext(n)
  PROVE  /\ \E o \in Seq(Slots) : imgData' = Append(imgData, o) /\ LastItem(o).req = n
         /\ ComesNext(n + 1)'
<1> USE MgrFacts
<1>1. PICK k \in Nat : /\ k = storedNum /\ k > 0 /\ StoredAt = 0 .. k - 1 /\ k = numReceived
                       /\ k = H(stored[0]).total
  BY DEF MgrEnqueue, MgrStrict
<1>2. H(stored[0]).req = n
  BY <1>1 DEF ComesNext
<1>3. H(stored[k - 1]).req = n /\ H(stored[k - 1]).index = k - 1 /\ H(stored[k - 1]).total = k
  <2>1. k - 1 \in StoredAt
    BY <1>1
  <2> QED BY <1>1, <1>2, <2>1 DEF MgrStrict
<1> DEFINE x == [i \in 1 .. k |-> stored[i - 1]]
<1>4. x \in Seq(Slots) /\ Len(x) = k /\ x[k] = stored[k - 1]
  <2>1. \A i \in 1 .. k : stored[i - 1] \in Slots
    <3>1. \A i \in 1 .. k : i - 1 \in StoredAt
      BY <1>1
    <3> QED BY <3>1 DEF StoredAt
  <2>2. Len(x) = k /\ x[k] = stored[k - 1]
    BY <1>1
  <2> QED BY <2>1, <2>2
<1>5. imgData' = Append(imgData, x) /\ numReceived' = 0
  BY <1>1 DEF MgrEnqueue
<1> HIDE DEF x
<1>6. LastItem(x).req = n
  BY <1>3, <1>4 DEF LastItem, LastBuf
<1>7. ASSUME Goes' PROVE First'.req = n + 1
  <2>1. Goes /\ Alike(First, First')
    BY <1>7
  <2>2. Just(H(stored[k - 1]), First)
    BY <1>1, <2>1 DEF MgrStrict
  <2>3. First.req = n + 1
    BY <1>1, <1>3, <2>2 DEF Just
  <2> QED BY <2>1, <2>3 DEF Alike, SameImage
<1> QED BY <1>4, <1>5, <1>6, <1>7 DEF ComesNext

(* Without dropping and resets no object leaves the queue but to the       *)
(* dispatcher.                                                             *)
LEMMA ObjectsQuiet ==
  ASSUME NeverDroppable, Steady, [Next]_vars, ~(BufMgrNext /\ MgrEnqueue), ~InfDequeue
  PROVE  imgData' = imgData
<1>1. CASE ImgNext
  <2>1. CASE ImgTakeFree
    BY <2>1 DEF ImgTakeFree, take_free, take_data, NeverDroppable
  <2>2. CASE ~ImgTakeFree
    BY <1>1, <2>2 DEF ImgNext, ImgWaitConnection, ImgGet, ImgUnbundle, ImgGrabFails,
       ImgRetry, ImgReceive, ImgMark, ImgArm, ImgReceived, ImgFailed, ImgSwap, ImgEnqueue,
       ImgCommand, ImgCommandBegins, ImgCommandDone, ImgCommandTimeout, ImgPutFree,
       ImgCleanImages, ImgCleanResults, ImgCleaned, queueVars, imgQueues, Steady
  <2> QED BY <2>1, <2>2
<1>2. CASE ~ImgNext
  BY <1>2 DEF Next, LinkNext, Configured, Disconnected, VbusOff, LinkLost,
     ErrandResetDevice, HostNext, ControlConfigure, ControlReset, ControlDroppable,
     HostBegins, HostSendsImage, HostSendsCommand, SendDma, HostReads, BufMgrNext, MgrNext,
     MgrGet, MgrPutBack, InfNext, InfGetResultBuffer, InfExecute, InfPutFree,
     SendNext, SendDequeue, SendStart, SendBegins, SendDone, SendHangs, SendPutFree, vars,
     queueVars, imgQueues
<1> QED BY <1>1, <1>2

LEMMA StepObjectChain ==
  ASSUME Types, NoNull, TempOrder, NeverDroppable, Steady, MgrStrict, [Next]_vars,
         \A b : Waits(b) => H(b)' = H(b),
         IF BufMgrNext /\ MgrGet
         THEN Goes /\ First = H(tempQ[1].buf) /\ (Goes' => Just(First, First'))
         ELSE Goes' => Goes /\ Alike(First, First'),
         NEW e \in Nat, ObjectChain(e)
  PROVE  IF InfDequeue THEN ObjectChain(e + 1)' ELSE ObjectChain(e)'
<1>1. PICK L \in Nat : L = Len(imgData) /\ DOMAIN imgData = 1 .. L
  BY PlaceTypes
<1>2. ASSUME NEW i \in DOMAIN imgData
      PROVE  content'[LastBuf(imgData[i])].head = LastItem(imgData[i]) /\ LastItem(imgData[i]).req = e + i - 1
  <2>1. PICK b : b = LastBuf(imgData[i]) /\ Waits(b)
    BY ObjectFacts
  <2>2. content'[b].head = content[b].head
    BY <2>1 DEF H
  <2> QED BY <2>1, <2>2 DEF LastItem, H, ObjectChain
<1>3. ComesNext(e + L) /\ e + L \in Nat
  BY <1>1 DEF ObjectChain
<1>4. CASE BufMgrNext /\ MgrEnqueue
  <2>1. Goes' => Goes /\ Alike(First, First')
    BY <1>4 DEF MgrEnqueue, MgrGet
  <2>2. PICK o \in Seq(Slots) : imgData' = Append(imgData, o) /\ LastItem(o).req = e + L
    BY <1>3, <1>4, <2>1, CompleteComes
  <2>3. ComesNext((e + L) + 1)'
    BY <1>3, <1>4, <2>1, CompleteComes
  <2>4. /\ DOMAIN imgData' = 1 .. L + 1 /\ Len(imgData') = L + 1
        /\ imgData'[L + 1] = o /\ \A i \in 1 .. L : imgData'[i] = imgData[i]
    BY <1>1, <2>2, PlaceTypes, ObjectAppends
  <2>5. ASSUME NEW i \in DOMAIN imgData' PROVE content'[LastBuf(imgData'[i])].head.req = e + i - 1
    <3>1. CASE i = L + 1
      <4>1. content' = content
        BY <1>4 DEF BufMgrNext, memVars
      <4> QED BY <2>2, <2>4, <3>1, <4>1 DEF LastItem, H
    <3>2. CASE i # L + 1
      <4>1. i \in DOMAIN imgData /\ imgData'[i] = imgData[i]
        BY <1>1, <2>4, <3>2
      <4> QED BY <1>2, <4>1
    <3> QED BY <3>1, <3>2
  <2>6. (e + L) + 1 = e + Len(imgData')
    BY <1>1, <2>4
  <2>7. ~InfDequeue
    BY <1>4 DEF BufMgrNext, InfDequeue, infVars
  <2> QED BY <2>3, <2>5, <2>6, <2>7 DEF ObjectChain, ComesNext, LastItem, LastBuf, H
<1>5. CASE InfDequeue
  <2>1. ~BufMgrNext
    BY <1>5 DEF BufMgrNext, InfDequeue, infVars
  <2>2. ComesNext(e + L)'
    BY <1>3, <2>1, ComesNextStays
  <2>3. imgData # <<>> /\ imgData' = Tail(imgData)
    BY <1>5 DEF InfDequeue, image_dequeue
  <2>4. /\ DOMAIN imgData' = 1 .. L - 1 /\ Len(imgData') = L - 1
        /\ \A i \in 1 .. L - 1 : imgData'[i] = imgData[i + 1]
    BY <1>1, <2>3, PlaceTypes, ObjectTails
  <2>5. ASSUME NEW i \in DOMAIN imgData'
        PROVE  content'[LastBuf(imgData'[i])].head.req = (e + 1) + i - 1
    <3>1. i + 1 \in DOMAIN imgData /\ imgData'[i] = imgData[i + 1] /\ e + (i + 1) - 1 = (e + 1) + i - 1
      BY <1>1, <2>4
    <3> QED BY <1>2, <3>1
  <2>6. e + L = (e + 1) + Len(imgData')
    BY <1>1, <2>4
  <2> QED BY <1>5, <2>2, <2>5, <2>6 DEF ObjectChain, ComesNext, LastItem, LastBuf, H
<1>6. CASE ~InfDequeue /\ ~(BufMgrNext /\ MgrEnqueue)
  <2>1. imgData' = imgData
    BY <1>6, ObjectsQuiet
  <2>2. ComesNext(e + L)'
    BY <1>3, <1>6, ComesNextStays
  <2>3. ASSUME NEW i \in DOMAIN imgData' PROVE content'[LastBuf(imgData'[i])].head.req = e + i - 1
    BY <1>2, <2>1
  <2>4. e + L = e + Len(imgData')
    BY <1>1, <2>1
  <2> QED BY <1>6, <2>2, <2>3, <2>4 DEF ObjectChain, ComesNext, LastItem, LastBuf, H
<1> QED BY <1>4, <1>5, <1>6

(* The dispatcher's work.                                                  *)
LEMMA OthersInfer ==
  ASSUME [Next]_vars, ~InfDequeue, ~InfExecute
  PROVE  /\ Busy' <=> Busy
         /\ Busy => UNCHANGED <<obj, crop>>
<1>1. CASE InfNext
  BY <1>1 DEF InfNext, InfGetResultBuffer, InfPutFree, Busy
<1>2. CASE ~InfNext
  <2>1. UNCHANGED <<infPc, obj, crop>>
    BY <1>2 DEF Next, LinkNext, Configured, Disconnected, VbusOff, LinkLost,
       ErrandResetDevice, HostNext, ControlConfigure, ControlReset, ControlDroppable,
       HostBegins, HostSendsImage, HostSendsCommand, SendDma, HostReads, BufMgrNext,
       SendNext, SendDequeue, SendStart, SendBegins, SendDone, SendHangs, SendPutFree, vars,
       infVars, ImgNext, ImgWaitConnection, ImgGet, ImgTakeFree, ImgUnbundle, ImgGrabFails,
       ImgRetry, ImgReceive, ImgMark, ImgArm, ImgReceived, ImgFailed, ImgSwap, ImgEnqueue,
       ImgCommand, ImgCommandBegins, ImgCommandDone, ImgCommandTimeout, ImgPutFree,
       ImgCleanImages, ImgCleanResults, ImgCleaned
  <2> QED BY <2>1 DEF Busy
<1> QED BY <1>1, <1>2

LEMMA WorkFacts ==
  ASSUME Types, Busy
  PROVE  /\ Waits(LastBuf(obj)) /\ Waits(obj[1]) /\ LastItem(obj).req \in Nat /\ crop \in Nat
         /\ 1 \in DOMAIN obj
<1>1. infPc # "get"
  BY DEF Busy
<1>2. obj \in Seq(Slots) /\ obj # <<>>
  BY <1>1, PlaceTypes DEF Types, Shapes
<1>3. 1 \in DOMAIN obj
  BY <1>2
<1> QED BY <1>1, <1>3, ObjectFacts, ResultFacts DEF Waits, BufsOf

LEMMA WorkChainStays ==
  ASSUME Types, CropsRight, [Next]_vars, \A b : Waits(b) => H(b)' = H(b),
         Busy, obj' = obj, NEW e \in Nat, WorkChain(e),
         Busy' => crop' \in Nat /\ crop' < asked[e - 1]
  PROVE  WorkChain(e)'
<1>1. /\ LastItem(obj).req = e - 1 /\ e - 1 \in DOMAIN asked /\ H(obj[1]).crops = asked[e - 1]
  BY DEF WorkChain
<1>2. e - 1 \in DOMAIN asked' /\ asked'[e - 1] = asked[e - 1]
  BY <1>1, AskedStays
<1>3. content'[LastBuf(obj)].head = LastItem(obj) /\ content'[obj[1]].head = H(obj[1])
  <2>1. PICK b : b = LastBuf(obj) /\ Waits(b)
    BY WorkFacts
  <2>2. PICK c : c = obj[1] /\ Waits(c)
    BY WorkFacts
  <2>3. content'[b].head = content[b].head /\ content'[c].head = content[c].head
    BY <2>1, <2>2 DEF H
  <2> QED BY <2>1, <2>2, <2>3 DEF LastItem, H
<1> QED BY <1>1, <1>2, <1>3 DEF WorkChain, LastItem, LastBuf, H

LEMMA DequeueWorkChain ==
  ASSUME Types, CropsRight, OneInference, InfDequeue, NEW e \in Nat, ObjectChain(e)
  PROVE  WorkChain(e + 1)' /\ e \in DOMAIN asked
<1>1. /\ imgData # <<>> /\ obj' = Head(imgData) /\ crop' = 0 /\ UNCHANGED <<content, asked>>
  BY DEF InfDequeue, image_dequeue, memVars, hostVars
<1>2. 1 \in DOMAIN imgData /\ obj' = imgData[1]
  BY <1>1, PlaceTypes, ObjectTails
<1>3. PICK o \in Seq(Slots) : o = imgData[1] /\ o # <<>> /\ WholeInference(o) /\ LastItem(o).req = e
  <2>1. LastItem(imgData[1]).req = e + 1 - 1
    BY <1>2 DEF ObjectChain
  <2> QED BY <1>2, <2>1, ObjectFacts DEF OneInference
<1>4. 1 \in DOMAIN o /\ Len(o) \in DOMAIN o
  BY <1>3
<1>5. H(o[1]).req = e
  <2>1. H(o[Len(o)]).req = H(o[1]).req
    BY <1>3, <1>4 DEF WholeInference, H
  <2> QED BY <1>3, <2>1 DEF LastItem, LastBuf
<1>6. e \in DOMAIN asked /\ H(o[1]).crops = asked[e] /\ asked[e] > 0
  <2>1. Waits(o[1])
    BY <1>2, <1>3, <1>4 DEF Waits, BufsOf
  <2> QED BY <1>5, <2>1 DEF CropsRight, CropsOf
<1>7. (e + 1) - 1 = e
  OBVIOUS
<1> QED BY <1>1, <1>2, <1>3, <1>6, <1>7 DEF WorkChain, LastItem, LastBuf, H

LEMMA StepWorkChain ==
  ASSUME Types, CropsRight, OneInference, [Next]_vars, \A b : Waits(b) => H(b)' = H(b),
         NEW e \in Nat, ObjectChain(e), WorkChain(e)
  PROVE  IF InfDequeue THEN WorkChain(e + 1)' ELSE WorkChain(e)'
<1>1. CASE InfDequeue
  BY <1>1, DequeueWorkChain
<1>2. CASE InfExecute
  <2>1. /\ infPc = "execute" /\ obj' = obj /\ crop' = crop + 1
        /\ infPc' = IF crop + 1 < H(obj[1]).crops THEN "result" ELSE "put"
    BY <1>2 DEF InfExecute, H
  <2>2. Busy /\ ~InfDequeue /\ crop \in Nat
    BY <2>1, WorkFacts DEF Busy, InfDequeue
  <2>3. Busy' => crop' \in Nat /\ crop' < asked[e - 1]
    BY <2>1, <2>2 DEF Busy, WorkChain
  <2> QED BY <2>1, <2>2, <2>3, WorkChainStays
<1>3. CASE ~InfDequeue /\ ~InfExecute
  <2>1. CASE Busy
    <3>1. obj' = obj /\ crop' = crop /\ crop \in Nat /\ crop < asked[e - 1]
      BY <1>3, <2>1, OthersInfer, WorkFacts DEF WorkChain
    <3> QED BY <1>3, <2>1, <3>1, WorkChainStays
  <2>2. CASE ~Busy
    BY <1>3, <2>2, OthersInfer DEF WorkChain
  <2> QED BY <2>1, <2>2
<1> QED BY <1>1, <1>2, <1>3

-----------------------------------------------------------------------------
(* All the results there are, in their order: those the host has, the one  *)
(* that is in the FIFO or will be, and those that wait for the result      *)
(* thread.                                                                 *)
Queued     == [i \in DOMAIN resData |-> answer[resData[i]]]
OnTheWay   == IF Unread THEN <<sent>> ELSE IF ToSend THEN <<answer[sendBuf]>> ELSE <<>>
AllResults == (delivered \o OnTheWay) \o Queued

(* They begin with the first and each is followed by the next crop box of  *)
(* its inference, or the first of the next inference; the one that comes   *)
(* next is what the dispatcher works on.                                   *)
FollowedBy(r, s) ==
  /\ r[1] \in DOMAIN asked
  /\ s = IF r[2] < asked[r[1]] THEN <<r[1], r[2] + 1>> ELSE <<r[1] + 1, 1>>
Chain(q, n) ==
  /\ \A i, j \in DOMAIN q : j = i + 1 => FollowedBy(q[i], q[j])
  /\ IF q = <<>> THEN n = <<1, 1>> ELSE q[1] = <<1, 1>> /\ FollowedBy(q[Len(q)], n)
DueFrom(e) == IF Busy THEN <<e - 1, crop + 1>> ELSE <<e, 1>>
ResultChain(e) == Chain(AllResults, DueFrom(e))

Pairs == Nat \X Nat

LEMMA ChainStays ==
  ASSUME Types, CropsRight, [Next]_vars, NEW q, NEW n, Chain(q, n)
  PROVE  Chain(q, n)'
<1>1. ASSUME NEW r, NEW s, FollowedBy(r, s) PROVE FollowedBy(r, s)'
  BY <1>1, AskedStays DEF FollowedBy
<1> QED BY <1>1 DEF Chain

LEMMA ChainGrows ==
  ASSUME NEW q \in Seq(Pairs), NEW d \in Pairs, NEW n, Chain(q, d), FollowedBy(d, n)
  PROVE  Chain(Append(q, d), n)
<1>1. PICK L \in Nat : L = Len(q)
  OBVIOUS
<1>2. PICK p : p = Append(q, d)
  OBVIOUS
<1>3. /\ DOMAIN p = 1 .. L + 1 /\ DOMAIN q = 1 .. L /\ p[L + 1] = d /\ Len(p) = L + 1
      /\ \A i \in 1 .. L : p[i] = q[i]
      /\ p # <<>> /\ (q = <<>> <=> L = 0)
  <2>1. p \in Seq(Pairs) /\ Len(p) = L + 1
    BY <1>1, <1>2, AppendProperties
  <2>2. /\ DOMAIN p = 1 .. L + 1 /\ DOMAIN q = 1 .. L /\ p[L + 1] = d
        /\ \A i \in 1 .. L : p[i] = q[i]
    BY <1>1, <1>2, PairAppends DEF Pairs
  <2>3. p # <<>> /\ (q = <<>> <=> L = 0)
    BY <1>1, <2>1
  <2> QED BY <2>1, <2>2, <2>3
<1>4. ASSUME NEW i \in DOMAIN p, NEW j \in DOMAIN p, j = i + 1 PROVE FollowedBy(p[i], p[j])
  <2>1. i \in 1 .. L
    BY <1>3, <1>4
  <2>2. CASE j \in 1 .. L
    BY <1>3, <1>4, <2>1, <2>2 DEF Chain
  <2>3. CASE j = L + 1
    <3>1. i = L /\ L # 0
      BY <1>4, <2>1, <2>3
    <3> QED BY <1>1, <1>3, <2>1, <2>3, <3>1 DEF Chain
  <2> QED BY <1>3, <2>2, <2>3
<1>5. p[1] = <<1, 1>>
  <2>1. CASE L = 0
    BY <1>3, <2>1 DEF Chain
  <2>2. CASE L # 0
    <3>1. 1 \in 1 .. L
      BY <2>2
    <3> QED BY <1>3, <2>2, <3>1 DEF Chain
  <2> QED BY <2>1, <2>2
<1> QED BY <1>2, <1>3, <1>4, <1>5 DEF Chain

LEMMA LineTypes == ASSUME Types, Feeding PROVE
  /\ delivered \in Seq(Pairs) /\ OnTheWay \in Seq(Pairs) /\ Queued \in Seq(Pairs)
  /\ AllResults \in Seq(Pairs)
<1>1. PICK L \in Nat : DOMAIN resData = 1 .. L
  BY ResultFacts
<1>2. \A i \in 1 .. L : answer[resData[i]] \in Nat \X Nat
  BY <1>1, ResultFacts
<1>3. Queued \in Seq(Nat \X Nat)
  <2> DEFINE x == [i \in 1 .. L |-> answer[resData[i]]]
  <2>1. x \in [1 .. L -> Nat \X Nat]
    BY <1>2
  <2>2. x \in Seq(Nat \X Nat)
    BY <2>1
  <2> QED BY <1>1, <2>2 DEF Queued
<1>4. OnTheWay \in Seq(Nat \X Nat)
  <2>1. (ToSend => answer[sendBuf] \in Nat \X Nat) /\ sent \in Nat \X Nat
    BY ResultFacts, SentFacts
  <2> QED BY <2>1 DEF OnTheWay
<1>5. delivered \in Seq(Nat \X Nat)
  BY ResultFacts
<1>6. delivered \o OnTheWay \in Seq(Nat \X Nat)
  BY <1>4, <1>5, ConcatProperties
<1> QED BY <1>3, <1>4, <1>5, <1>6, ConcatProperties DEF AllResults, Pairs

(* At most one is on the way, the result thread's.                         *)
LEMMA OneOnTheWay ==
  ASSUME Types, Feeding, SendSteady
  PROVE  /\ ~(Unread /\ ToSend)
         /\ Unread => sendMutex = "send" /\ SenderWaits
         /\ Unread \/ ToSend => sendPc # "get"
<1>1. Unread => sendMutex = "send" /\ SenderWaits
  BY ImgFacts DEF Unread, SendSteady, Sending, SenderWaits, Types, TypeOK, LinkTypeOK
<1>2. Unread => sendPc \in {"wait", "hung"} /\ ~Going
  BY <1>1 DEF SendSteady, Unread, Going
<1>3. ~(Unread /\ ToSend)
  BY <1>1, <1>2 DEF ToSend
<1> QED BY <1>1, <1>2, <1>3, SentFacts

(* The result thread takes the first that waits.                           *)
LEMMA TakesFirst ==
  ASSUME Types, Feeding, SendSteady, SendDequeue
  PROVE  AllResults' = AllResults
<1>1. /\ sendPc = "get" /\ sendPc' = "send" /\ resData # <<>> /\ resData' = Tail(resData)
      /\ sendBuf' = Head(resData) /\ UNCHANGED <<answer, delivered, fifo, sent>>
  BY DEF SendDequeue, result_dequeue, memVars, hostVars, linkVars, epVars
<1>2. ~ToSend /\ ToSend' /\ ~Unread /\ ~Unread'
  <2>1. ~ToSend /\ ~Unread
    BY <1>1, OneOnTheWay
  <2> QED BY <1>1, <2>1 DEF ToSend, Unread
<1>3. PICK L \in Nat : L = Len(resData)
  BY ResultFacts
<1>4. /\ DOMAIN resData' = 1 .. L - 1 /\ DOMAIN resData = 1 .. L /\ L >= 1
      /\ sendBuf' = resData[1] /\ \A i \in 1 .. L - 1 : resData'[i] = resData[i + 1]
  BY <1>1, <1>3, ResTails, ResultFacts
<1>5. PICK q \in Seq(Pairs) : q = Queued
  BY LineTypes
<1>6. /\ DOMAIN q = 1 .. L /\ Len(q) = L /\ q # <<>> /\ q[1] = answer[resData[1]]
      /\ \A i \in 1 .. L - 1 : q[i + 1] = answer[resData[i + 1]]
  <2>1. q = [i \in 1 .. L |-> answer[resData[i]]]
    BY <1>4, <1>5 DEF Queued
  <2>2. DOMAIN q = 1 .. L /\ \A i \in 1 .. L : q[i] = answer[resData[i]]
    BY <2>1
  <2>3. 1 \in 1 .. L /\ \A i \in 1 .. L - 1 : i + 1 \in 1 .. L
    BY <1>4
  <2>4. Len(q) = L /\ q # <<>>
    BY <1>4, <2>2
  <2> QED BY <2>2, <2>3, <2>4
<1>7. Queued' = Tail(q)
  <2>1. Queued' = [i \in 1 .. L - 1 |-> answer[resData[i + 1]]]
    BY <1>1, <1>4 DEF Queued
  <2>2. Tail(q) \in Seq(Pairs) /\ Len(Tail(q)) = L - 1 /\ \A i \in 1 .. L - 1 : Tail(q)[i] = q[i + 1]
    BY <1>6, HeadTailProperties
  <2>3. PICK t : t = Tail(q)
    OBVIOUS
  <2>4. DOMAIN t = 1 .. L - 1 /\ t = [i \in DOMAIN t |-> t[i]]
    <3>1. t \in Seq(Pairs) /\ Len(t) = L - 1
      BY <2>2, <2>3
    <3>2. t \in [1 .. L - 1 -> Pairs]
      BY <3>1
    <3> QED BY <3>2
  <2>5. t = [i \in 1 .. L - 1 |-> t[i]] /\ \A i \in 1 .. L - 1 : t[i] = answer[resData[i + 1]]
    BY <1>6, <2>2, <2>3, <2>4
  <2> QED BY <2>1, <2>3, <2>5
<1>8. OnTheWay = <<>> /\ OnTheWay' = <<Head(q)>>
  BY <1>1, <1>2, <1>4, <1>6 DEF OnTheWay
<1>9. PICK d \in Seq(Pairs), h \in Pairs, t \in Seq(Pairs) :
        d = delivered /\ h = Head(q) /\ t = Tail(q)
  BY <1>5, <1>6, LineTypes, HeadTailProperties
<1>10. q = <<h>> \o t
  <2>1. /\ <<h>> \in Seq(Pairs) /\ Len(<<h>>) = 1 /\ <<h>>[1] = h /\ h = q[1]
        /\ Len(t) = L - 1 /\ \A i \in 1 .. L - 1 : t[i] = q[i + 1]
    BY <1>4, <1>6, <1>9, HeadTailProperties
  <2>2. PICK u : u = <<h>> \o t
    OBVIOUS
  <2>3. /\ u \in Seq(Pairs) /\ Len(u) = L
        /\ \A i \in 1 .. L : u[i] = IF i <= 1 THEN <<h>>[i] ELSE t[i - 1]
    BY <1>9, <2>1, <2>2, ConcatProperties
  <2>4. ASSUME NEW i \in 1 .. L PROVE u[i] = q[i]
    <3>1. CASE i = 1
      BY <2>1, <2>3, <3>1
    <3>2. CASE i # 1
      <4>1. i - 1 \in 1 .. L - 1 /\ (i - 1) + 1 = i /\ ~(i <= 1)
        BY <3>2
      <4>2. u[i] = t[i - 1]
        BY <2>3, <4>1
      <4>3. t[i - 1] = q[(i - 1) + 1]
        BY <2>1, <4>1
      <4> QED BY <4>1, <4>2, <4>3
    <3> QED BY <3>1, <3>2
  <2> QED BY <1>6, <2>2, <2>3, <2>4, SeqEqual
<1>11. AllResults = d \o q /\ AllResults' = (d \o <<h>>) \o t
  BY <1>1, <1>5, <1>7, <1>8, <1>9, ConcatEmptySeq DEF AllResults
<1>12. <<h>> \in Seq(Pairs)
  BY <1>9
<1>13. (d \o <<h>>) \o t = d \o (<<h>> \o t)
  <2>1. PICK s \in Seq(Pairs) : s = <<h>>
    BY <1>12
  <2>2. (d \o s) \o t = d \o (s \o t)
    BY ConcatAssociative
  <2> QED BY <2>1, <2>2
<1> QED BY <1>10, <1>11, <1>13

(* The host reads what is sent.                                            *)
LEMMA HostGets ==
  ASSUME Types, Feeding, SendSteady, HostReads, sent # NoResult
  PROVE  /\ AllResults' = AllResults /\ UNCHANGED asked
         /\ delivered' = Append(delivered, sent) /\ OnTheWay = <<sent>>
<1>1. /\ fifo = "data" /\ fifo' = "empty" /\ delivered' = Append(delivered, sent)
      /\ UNCHANGED <<resData, answer, sendPc, sendBuf, sendMutex, round, asked>>
  BY DEF HostReads, queueVars, resQueues, mutexVars, sendVars, memVars
<1>2. Unread /\ ~Unread' /\ ~ToSend /\ ~ToSend'
  <2>1. Unread /\ ~Unread'
    BY <1>1 DEF Unread
  <2>2. ~ToSend
    BY <2>1, OneOnTheWay
  <2> QED BY <1>1, <2>1, <2>2 DEF ToSend, Going, SenderWaits
<1>3. OnTheWay = <<sent>> /\ OnTheWay' = <<>> /\ Queued' = Queued
  BY <1>1, <1>2 DEF OnTheWay, Queued
<1>4. PICK d \in Seq(Pairs), a \in Pairs : d = delivered /\ a = sent
  BY ResultFacts DEF Pairs
<1>5. Append(d, a) = d \o <<a>> /\ (d \o <<a>>) \o <<>> = d \o <<a>>
  BY AppendIsConcat, AppendProperties, ConcatEmptySeq
<1> QED BY <1>1, <1>3, <1>4, <1>5 DEF AllResults

(* The dispatcher makes the result that comes next.                        *)
LEMMA MakesNext ==
  ASSUME Types, Feeding, ResultExclusive, Len(resData) < ResCap, InfExecute
  PROVE  /\ AllResults' = Append(AllResults, NextResult) /\ NextResult \in Pairs
         /\ UNCHANGED asked
<1> DEFINE a == NextResult
<1>1. /\ infPc = "execute" /\ answer' = [answer EXCEPT ![resBuf] = a]
      /\ resData' = Append(resData, resBuf)
      /\ UNCHANGED <<delivered, asked, sendPc, sendBuf, sendMutex, round, fifo, tx, sent>>
  BY DEF InfExecute, result_enqueue, hostVars, sendVars, linkVars, mutexVars, epVars, NextResult,
     LastItem, LastBuf, H
<1>2. a \in Pairs
  BY <1>1, ObjectFacts, ResultFacts DEF NextResult, Pairs
<1> HIDE DEF a
<1>3. resBuf \in ResBufs /\ resOwner[resBuf] = "inf"
  BY <1>1 DEF ResultExclusive
<1>4. \A i \in DOMAIN resData : answer'[resData[i]] = answer[resData[i]]
  <2>1. \A i \in DOMAIN resData : resData[i] # resBuf /\ resData[i] \in ResBufs
    BY <1>3, ResultFacts DEF ResultExclusive
  <2> QED BY <1>1, <1>3, <2>1, ResultFacts
<1>5. ToSend => answer'[sendBuf] = answer[sendBuf]
  <2>1. ToSend => sendBuf # resBuf /\ sendBuf \in ResBufs
    BY <1>3, SentFacts DEF ResultExclusive
  <2> QED BY <1>1, <1>3, <2>1, ResultFacts
<1>6. OnTheWay' = OnTheWay
  <2>1. (Unread' <=> Unread) /\ (ToSend' <=> ToSend)
    BY <1>1 DEF ToSend, Unread, Going, SenderWaits
  <2> QED BY <1>1, <1>5, <2>1 DEF OnTheWay
<1>7. PICK L \in Nat : L = Len(resData) /\ DOMAIN resData = 1 .. L
  BY ResultFacts
<1>8. PICK q \in Seq(Pairs) : q = Queued
  BY LineTypes
<1>9. Queued' = Append(q, a)
  <2>1. /\ DOMAIN resData' = 1 .. L + 1 /\ resData'[L + 1] = resBuf
        /\ \A k \in 1 .. L : resData'[k] = resData[k]
    BY <1>1, <1>3, <1>7, ResAppends, ResultFacts
  <2>2. Len(q) = L /\ \A i \in 1 .. L : q[i] = answer[resData[i]]
    BY <1>7, <1>8 DEF Queued
  <2>3. Queued' = [i \in 1 .. L + 1 |-> answer'[resData'[i]]]
    BY <2>1 DEF Queued
  <2>4. answer'[resBuf] = a
    BY <1>1, <1>3, ResultFacts
  <2>5. PICK p : p = Append(q, a)
    OBVIOUS
  <2>6. /\ DOMAIN p = 1 .. L + 1 /\ p = [i \in DOMAIN p |-> p[i]] /\ p[L + 1] = a
        /\ \A i \in 1 .. L : p[i] = q[i]
    <3>1. p \in Seq(Pairs) /\ Len(p) = L + 1
      BY <1>2, <2>2, <2>5, AppendProperties
    <3>2. p \in [1 .. L + 1 -> Pairs]
      BY <3>1
    <3>3. DOMAIN p = 1 .. L + 1 /\ p = [i \in DOMAIN p |-> p[i]]
      BY <3>2
    <3>4. p[L + 1] = a /\ \A i \in 1 .. L : p[i] = q[i]
      BY <1>2, <2>2, <2>5, AppendProperties
    <3> QED BY <3>3, <3>4
  <2>7. ASSUME NEW i \in 1 .. L + 1 PROVE answer'[resData'[i]] = p[i]
    <3>1. CASE i = L + 1
      BY <2>1, <2>4, <2>6, <3>1
    <3>2. CASE i # L + 1
      <4>1. i \in 1 .. L
        BY <3>2
      <4> QED BY <1>4, <1>7, <2>1, <2>2, <2>6, <4>1
    <3> QED BY <3>1, <3>2
  <2>8. p = [i \in 1 .. L + 1 |-> p[i]]
    BY <2>6
  <2> QED BY <2>3, <2>5, <2>7, <2>8
<1>10. PICK s \in Seq(Pairs) : s = delivered \o OnTheWay
  BY LineTypes, ConcatProperties
<1>11. AllResults = s \o q /\ AllResults' = s \o Append(q, a)
  BY <1>1, <1>6, <1>8, <1>9, <1>10 DEF AllResults
<1>12. s \o Append(q, a) = Append(s \o q, a)
  <2>1. <<a>> \in Seq(Pairs) /\ s \o q \in Seq(Pairs)
    BY <1>2, ConcatProperties
  <2>2. Append(q, a) = q \o <<a>> /\ Append(s \o q, a) = (s \o q) \o <<a>>
    BY <1>2, <2>1, AppendIsConcat
  <2> QED BY <2>1, <2>2, ConcatAssociative
<1> QED BY <1>1, <1>2, <1>11, <1>12 DEF a

(* DATA_IN is left alone by all but those who send and the host.           *)
LEMMA WayQuiet ==
  ASSUME MaxReset = 0, MaxLink = 0, Types, ResPlaced, NeverDown, SendSteady, sendPc # "get",
         [Next]_vars, ~SendNext, ~SendDma, ~HostReads,
         ~(ImgCommand \/ ImgCommandBegins \/ ImgCommandDone \/ ImgCommandTimeout)
  PROVE  UNCHANGED <<fifo, tx, sent, sendMutex, round, sendPc>>
<1> USE DEF linkVars, epVars, mutexVars, sendVars, memVars
<1>1. ~LinkNext
  BY OnlyConfigured, SenderUp DEF SendSteady, Configured
<1>2. CASE HostNext
  <2>1. ~ControlReset
    BY DEF ControlReset, Types, TypeOK, HostTypeOK, Counters
  <2> QED BY <1>2, <2>1 DEF HostNext, ControlConfigure, ControlDroppable, HostBegins,
     HostSendsImage, HostSendsCommand
<1>3. CASE ImgNext
  <2>1. ~ImgCleaned
    BY DEF ImgCleaned, SendSteady, HostSteady
  <2> QED BY <1>3, <2>1 DEF ImgNext, ImgWaitConnection, ImgGet, ImgTakeFree, ImgUnbundle,
     ImgGrabFails, ImgRetry, ImgReceive, ImgMark, ImgArm, ImgReceived, ImgFailed, ImgSwap,
     ImgEnqueue, ImgPutFree, ImgCleanImages, ImgCleanResults, imgElse
<1>4. CASE BufMgrNext \/ InfNext \/ UNCHANGED vars
  BY <1>4 DEF BufMgrNext, InfNext, InfDequeue, InfGetResultBuffer, InfExecute, InfPutFree, vars
<1> QED BY <1>1, <1>2, <1>3, <1>4 DEF Next

(* A result that is in the FIFO stays there until the host reads it.       *)
LEMMA UnreadStays ==
  ASSUME MaxReset = 0, MaxLink = 0, Types, ResPlaced, NeverDown, Feeding, SendMutexHeld,
         SendSteady, [Next]_vars, ~HostReads, Unread
  PROVE  Unread'
<1>1. /\ fifo = "data" /\ sent # NoResult /\ sendMutex = "send" /\ SenderWaits
      /\ sendPc # "get"
  BY OneOnTheWay DEF Unread
<1>2. SUFFICES UNCHANGED <<fifo, sent>>
  BY DEF Unread
<1>3. CASE SendNext
  <2>1. ~SendBegins
    BY <1>1 DEF SendBegins, send_begins, SenderWaits
  <2> QED BY <1>3, <2>1 DEF SendNext, SendDequeue, SendStart, SendDone, SendHangs,
     SendPutFree, linkVars, epVars, memVars
<1>4. ~(ImgCommandBegins \/ ImgCommandDone \/ ImgCommandTimeout)
  BY <1>1 DEF ImgCommandBegins, ImgCommandDone, ImgCommandTimeout, SendMutexHeld
<1>5. CASE ImgCommand
  BY <1>5 DEF ImgCommand, epVars, memVars
<1>6. ~SendDma
  BY <1>1 DEF SendDma
<1> QED BY <1>1, <1>3, <1>4, <1>5, <1>6, WayQuiet

(* A result that is to be sent stays until it is in the FIFO.              *)
LEMMA ToSendStays ==
  ASSUME MaxReset = 0, MaxLink = 0, Types, ResPlaced, NeverDown, Feeding, SendMutexHeld,
         SendSteady, ResultOrder, [Next]_vars, ToSend
  PROVE  ToSend' \/ Unread'
<1> USE DEF linkVars, epVars, mutexVars, sendVars, memVars
<1>1. sendPc # "get" /\ sendBuf \in ResBufs /\ (Going => sendMutex = "send" /\ tx = sendBuf)
  BY SentFacts
<1>2. ~SendDequeue /\ ~SendPutFree
  BY <1>1 DEF ToSend, SendSteady, SendDequeue, SendPutFree
<1>3. CASE SendStart
  <2>1. sendMutex' = "send" /\ round' = "mark"
    <3>1. sendMutex = "free" /\ link /\ ep["in"] = "idle"
      BY <1>1, <1>3, SenderUp DEF SendStart, SendSteady
    <3> QED BY <1>3, <3>1 DEF SendStart
  <2> QED BY <2>1 DEF ToSend, SenderWaits
<1>4. CASE SendBegins
  <2>1. sendMutex' = "send" /\ send_begins(sendBuf) /\ sendBuf # 0
    BY <1>1, <1>4, SizesAssumption DEF SendBegins, SendMutexHeld, ResBufs
  <2> QED BY <2>1 DEF send_begins, ToSend, Going, SenderWaits
<1>5. CASE SendDone
  <2>1. sendPc = "wait" /\ sendMutex = "send" /\ SenderWaits
    BY <1>5 DEF SendDone, send_wakes, SendMutexHeld
  <2>2. evt["in"] /\ fifo = "dma"
    <3>1. evt["in"]
      BY <1>5 DEF SendDone, send_wakes, transfer_wakes
    <3> QED BY <2>1, <3>1 DEF ToSend, Going
  <2> QED BY <2>1, <2>2 DEF SendSteady, Sending
<1>6. CASE SendHangs
  BY <1>6 DEF SendHangs, ToSend, Going, SenderWaits
<1>7. CASE SendDma
  <2>1. /\ fifo = "dma" /\ fifo' = "data" /\ sent' = IF tx = 0 THEN NoResult ELSE answer[tx]
        /\ UNCHANGED <<sendPc, sendMutex, round>>
    BY <1>7 DEF SendDma
  <2>2. CASE Going
    <3>1. Result(answer[sendBuf])
      BY DEF Result
    <3>2. answer[sendBuf] # NoResult
      BY <3>1 DEF ResultOrder
    <3> QED BY <1>1, <2>1, <2>2, <3>2 DEF Unread, Going
  <2>3. CASE ~Going
    BY <2>1, <2>3 DEF ToSend, SenderWaits
  <2> QED BY <2>2, <2>3
<1>8. CASE HostReads
  BY <1>8 DEF HostReads, ToSend, Going, SenderWaits
<1>9. CASE ImgCommand
  <2>1. UNCHANGED <<sendPc, fifo, tx>>
    BY <1>9 DEF ImgCommand
  <2>2. sendMutex = "send" => UNCHANGED <<sendMutex, round>>
    BY <1>9 DEF ImgCommand
  <2> QED BY <1>1, <2>1, <2>2 DEF ToSend, Going, SenderWaits
<1>10. CASE ImgCommandBegins \/ ImgCommandDone \/ ImgCommandTimeout
  <2>1. sendMutex = "img" /\ sendPc' = sendPc
    BY <1>10 DEF ImgCommandBegins, ImgCommandDone, ImgCommandTimeout, SendMutexHeld
  <2> QED BY <1>1, <2>1 DEF ToSend
<1>11. CASE ~SendNext /\ ~SendDma /\ ~HostReads
            /\ ~(ImgCommand \/ ImgCommandBegins \/ ImgCommandDone \/ ImgCommandTimeout)
  <2>1. UNCHANGED <<fifo, tx, sendMutex, round, sendPc>>
    BY <1>1, <1>11, WayQuiet
  <2> QED BY <2>1 DEF ToSend, Going, SenderWaits
<1> QED BY <1>2, <1>3, <1>4, <1>5, <1>6, <1>7, <1>8, <1>9, <1>10, <1>11 DEF SendNext

(* Without resets the queued results wait for the result thread.           *)
LEMMA QueuedStay ==
  ASSUME Steady, [Next]_vars, ~SendDequeue, ~InfExecute
  PROVE  resData' = resData
<1> USE DEF queueVars, resQueues
<1>1. CASE SendNext \/ InfNext
  BY <1>1 DEF SendNext, SendStart, SendBegins, SendDone, SendHangs, SendPutFree, InfNext,
     InfDequeue, InfGetResultBuffer, InfPutFree, result_put_free_buffer, result_get_free_buffer
<1>2. CASE LinkNext \/ HostNext
  BY <1>2 DEF LinkNext, Configured, Disconnected, VbusOff, LinkLost, ErrandResetDevice,
     HostNext, ControlConfigure, ControlReset, ControlDroppable, HostBegins,
     HostSendsImage, HostSendsCommand, SendDma, HostReads
<1>3. CASE ImgNext
  <2>1. ~ImgCleanResults
    BY DEF ImgCleanResults, Steady
  <2> QED BY <1>3, <2>1 DEF ImgNext, ImgWaitConnection, ImgGet, ImgTakeFree, ImgUnbundle,
     ImgGrabFails, ImgRetry, ImgReceive, ImgMark, ImgArm, ImgReceived, ImgFailed, ImgSwap,
     ImgEnqueue, ImgCommand, ImgCommandBegins, ImgCommandDone, ImgCommandTimeout, ImgPutFree,
     ImgCleanImages, ImgCleaned
<1>4. CASE BufMgrNext \/ UNCHANGED vars
  BY <1>4 DEF BufMgrNext, MgrNext, MgrGet, MgrPutBack, MgrEnqueue, vars
<1> QED BY <1>1, <1>2, <1>3, <1>4 DEF Next

LEMMA AllResultsStay ==
  ASSUME MaxReset = 0, MaxLink = 0, Types, ResPlaced, NeverDown, Feeding, SendMutexHeld, Steady,
         SendSteady, ResultOrder, [Next]_vars, ~InfExecute
  PROVE  AllResults' = AllResults
<1>1. CASE SendDequeue
  BY <1>1, TakesFirst
<1>2. CASE HostReads /\ sent # NoResult
  BY <1>2, HostGets
<1>3. CASE ~SendDequeue /\ ~(HostReads /\ sent # NoResult)
  <2>1. UNCHANGED <<answer, delivered, resData>>
    BY <1>3, ResultsQuiet, QueuedStay
  <2>2. OnTheWay' = OnTheWay
    <3>1. /\ Unread' => \/ Unread /\ sent' = sent
                        \/ ToSend /\ ~ToSend' /\ sent' = answer[sendBuf]
          /\ ToSend' => ToSend /\ sendBuf' = sendBuf
      BY <1>3, UnreadKept, ToSendKept
    <3>2. CASE Unread
      <4>1. ~ToSend
        BY <3>2, OneOnTheWay
      <4>2. Unread' /\ sent' = sent
        BY <1>3, <3>1, <3>2, <4>1, UnreadStays DEF Unread
      <4> QED BY <3>2, <4>2 DEF OnTheWay
    <3>3. CASE ToSend
      <4>1. ~Unread
        BY <3>3, OneOnTheWay
      <4>2. ToSend' \/ Unread'
        BY <3>3, ToSendStays
      <4> QED BY <2>1, <3>1, <3>3, <4>1, <4>2 DEF OnTheWay
    <3>4. CASE ~Unread /\ ~ToSend
      BY <3>1, <3>4 DEF OnTheWay
    <3> QED BY <3>2, <3>3, <3>4
  <2> QED BY <2>1, <2>2 DEF AllResults, Queued
<1> QED BY <1>1, <1>2, <1>3

(* What comes next stays, and comes after the result the dispatcher makes. *)
LEMMA DueStays ==
  ASSUME [Next]_vars, ~InfExecute, NEW e \in Nat
  PROVE  IF InfDequeue THEN DueFrom(e + 1)' = DueFrom(e) ELSE DueFrom(e)' = DueFrom(e)
<1>1. CASE InfDequeue
  <2>1. ~Busy /\ Busy' /\ crop' = 0
    BY <1>1 DEF InfDequeue, Busy
  <2>2. (e + 1) - 1 = e /\ 0 + 1 = 1
    OBVIOUS
  <2> QED BY <1>1, <2>1, <2>2 DEF DueFrom
<1>2. CASE ~InfDequeue
  BY <1>2, OthersInfer DEF DueFrom
<1> QED BY <1>1, <1>2

LEMMA DueComes ==
  ASSUME Types, NEW e \in Nat, WorkChain(e), InfExecute
  PROVE  /\ NextResult = DueFrom(e) /\ FollowedBy(DueFrom(e), DueFrom(e)')
<1>1. /\ infPc = "execute" /\ obj' = obj /\ crop' = crop + 1
      /\ infPc' = IF crop + 1 < H(obj[1]).crops THEN "result" ELSE "put"
  BY DEF InfExecute, H
<1>2. Busy /\ crop \in Nat
  BY <1>1, WorkFacts DEF Busy
<1>3. /\ LastItem(obj).req = e - 1 /\ e - 1 \in DOMAIN asked /\ H(obj[1]).crops = asked[e - 1]
  BY <1>2 DEF WorkChain
<1>4. DueFrom(e) = <<e - 1, crop + 1>> /\ NextResult = DueFrom(e)
  BY <1>2, <1>3 DEF DueFrom, NextResult
<1>5. DueFrom(e)' = IF crop + 1 < asked[e - 1] THEN <<e - 1, (crop + 1) + 1>> ELSE <<(e - 1) + 1, 1>>
  BY <1>1, <1>3 DEF DueFrom, Busy
<1> QED BY <1>3, <1>4, <1>5 DEF FollowedBy

LEMMA StepResultChain ==
  ASSUME MaxReset = 0, MaxLink = 0, Types, ResPlaced, NeverDown, Feeding, SendMutexHeld, Steady,
         SendSteady, ResultOrder, CropsRight, InfExecute => Len(resData) < ResCap, [Next]_vars,
         NEW e \in Nat, WorkChain(e), ResultChain(e)
  PROVE  IF InfDequeue THEN ResultChain(e + 1)' ELSE ResultChain(e)'
<1>1. CASE InfExecute
  <2>1. AllResults' = Append(AllResults, NextResult) /\ NextResult \in Pairs
    <3>1. ResultExclusive /\ Len(resData) < ResCap
      BY <1>1 DEF ResPlaced
    <3> QED BY <1>1, <3>1, MakesNext
  <2>2. NextResult = DueFrom(e) /\ FollowedBy(DueFrom(e), DueFrom(e)')
    BY <1>1, DueComes
  <2>3. PICK q \in Seq(Pairs), d \in Pairs : q = AllResults /\ d = DueFrom(e)
    BY <2>1, <2>2, LineTypes
  <2>4. PICK n, p : n = DueFrom(e)' /\ p = Append(q, d)
    OBVIOUS
  <2>5. Chain(p, n)
    BY <2>2, <2>3, <2>4, ChainGrows DEF ResultChain
  <2>6. Chain(p, n)'
    BY <2>5, ChainStays
  <2>7. p = AllResults' /\ n = DueFrom(e)'
    BY <2>1, <2>2, <2>3, <2>4
  <2>8. ~InfDequeue
    BY <1>1 DEF InfExecute, InfDequeue
  <2> QED BY <2>6, <2>7, <2>8 DEF ResultChain, Chain, FollowedBy
<1>2. CASE ~InfExecute
  <2>1. PICK q, d : q = AllResults /\ d = DueFrom(e)
    OBVIOUS
  <2>2. Chain(q, d)'
    BY <2>1, ChainStays DEF ResultChain
  <2>3. q = AllResults'
    BY <1>2, <2>1, AllResultsStay
  <2>4. CASE InfDequeue
    <3>1. d = DueFrom(e + 1)'
      BY <1>2, <2>1, <2>4, DueStays
    <3> QED BY <2>2, <2>3, <2>4, <3>1 DEF ResultChain, Chain, FollowedBy
  <2>5. CASE ~InfDequeue
    <3>1. d = DueFrom(e)'
      BY <1>2, <2>1, <2>5, DueStays
    <3> QED BY <2>2, <2>3, <2>5, <3>1 DEF ResultChain, Chain, FollowedBy
  <2> QED BY <2>4, <2>5
<1> QED BY <1>1, <1>2

-----------------------------------------------------------------------------
(* All of it: e is the inference the dispatcher takes next.                *)
ServiceInv == /\ CropsRight
              /\ \E e \in Nat : ObjectChain(e) /\ WorkChain(e) /\ ResultChain(e)

LEMMA InitService == Init => ServiceInv
<1> SUFFICES ASSUME Init PROVE ServiceInv
  OBVIOUS
<1> USE DEF Init, QueueInit
<1>1. CropsRight
  BY InitCropsRight
<1>2. ~HasHeader /\ ~host.open /\ ~Busy
  BY DEF HasHeader, InReceive, WaitsForBuffer, NewHeader, Landed, Busy
<1>3. First.req = 1
  BY <1>2 DEF First, FirstFront, NextSent, NextItem, Nothing
<1>4. ObjectChain(1)
  BY <1>3 DEF ObjectChain, ComesNext
<1>5. WorkChain(1)
  BY <1>2 DEF WorkChain
<1>6. ResultChain(1)
  <2>1. OnTheWay = <<>>
    BY DEF OnTheWay, ToSend, Unread, Going
  <2>2. Queued = <<>>
    BY DEF Queued
  <2>3. AllResults = <<>>
    BY <2>1, <2>2 DEF AllResults
  <2>4. DueFrom(1) = <<1, 1>>
    BY <1>2 DEF DueFrom
  <2> QED BY <2>3, <2>4 DEF ResultChain, Chain
<1> QED BY <1>1, <1>4, <1>5, <1>6 DEF ServiceInv

LEMMA StepService ==
  ASSUME MaxReset = 0, MaxLink = 0, Types, Types', OrderInv, NeverDown, SendSteady, FeedInv,
         SendMutexHeld, RealInv, Exclusive, ResPlaced, PutsNeverWait, ResultInv, StrictInv,
         NeverDroppable, ServiceInv, [Next]_vars
  PROVE  ServiceInv'
<1>1. ~raced
  BY DEF NeverDroppable
<1>2. Steady /\ FrontStrict /\ TempStrict /\ MgrStrict /\ OneInference /\ ~torn /\ ~late
  BY <1>1 DEF StrictInv, Steady, SendSteady
<1>3. /\ Receiving /\ ReceiveInv /\ LengthInv /\ LineInv /\ NoNull /\ QueuesReal /\ AllInPlace
      /\ FrontOrder /\ TempOrder /\ ResultOrder /\ Feeding
  BY <1>1, <1>2 DEF OrderInv, RealInv, Exclusive, ResultInv, FeedInv
<1>4. \A b : Waits(b) => H(b)' = H(b)
  BY <1>2, <1>3, ContentStays
<1>5. Steady' /\ Moves
  BY <1>2, <1>3, StepSteady
<1>6. IF BufMgrNext /\ MgrGet
      THEN Goes /\ First = H(tempQ[1].buf) /\ (Goes' => Just(First, First'))
      ELSE Goes' => Goes /\ Alike(First, First')
  BY <1>2, <1>3, <1>4, <1>5, StepTempStrict
<1>7. CropsRight
  BY DEF ServiceInv
<1>8. PICK e \in Nat : ObjectChain(e) /\ WorkChain(e) /\ ResultChain(e)
  BY DEF ServiceInv
<1>9. CropsRight'
  BY <1>2, <1>3, <1>4, <1>5, <1>7, StepCropsRight
<1>10. IF InfDequeue THEN ObjectChain(e + 1)' ELSE ObjectChain(e)'
  BY <1>2, <1>3, <1>4, <1>6, <1>8, StepObjectChain
<1>11. IF InfDequeue THEN WorkChain(e + 1)' ELSE WorkChain(e)'
  BY <1>2, <1>4, <1>7, <1>8, StepWorkChain
<1>12. IF InfDequeue THEN ResultChain(e + 1)' ELSE ResultChain(e)'
  <2>1. InfExecute => Len(resData) < ResCap
    BY <1>1, <1>2 DEF PutsNeverWait, InfExecute
  <2> QED BY <1>2, <1>3, <1>7, <1>8, <2>1, StepResultChain
<1>13. e + 1 \in Nat
  OBVIOUS
<1> QED BY <1>8, <1>9, <1>10, <1>11, <1>12, <1>13 DEF ServiceInv

(* What the host gets is what the service owes it.                         *)
LEMMA AnswersDue ==
  ASSUME Types, Feeding, SendSteady, ServiceInv, HostReads, sent # NoResult
  PROVE  Service!Answer
<1>1. /\ delivered' = Append(delivered, sent) /\ OnTheWay = <<sent>>
      /\ UNCHANGED asked
  BY HostGets
<1>2. PICK e \in Nat : Chain(AllResults, DueFrom(e))
  BY DEF ServiceInv, ResultChain
<1>3. PICK d \in Seq(Pairs), q \in Seq(Pairs), s \in Seq(Pairs) :
        d = delivered /\ q = Queued /\ s = OnTheWay
  BY LineTypes
<1>4. PICK a : a = sent /\ s = <<a>>
  BY <1>1, <1>3
<1>5. Len(s) = 1 /\ s[1] = a
  BY <1>4
<1>6. PICK D \in Nat, Q \in Nat : D = Len(d) /\ Q = Len(q)
  OBVIOUS
<1>7. PICK x \in Seq(Pairs) : x = (d \o s) \o q /\ x = AllResults
  BY <1>3, LineTypes DEF AllResults
<1>8. /\ Len(x) = (D + 1) + Q /\ x[D + 1] = a
      /\ \A i \in 1 .. D : x[i] = d[i]
  <2>1. PICK y \in Seq(Pairs) : y = d \o s
    BY ConcatProperties
  <2>2. Len(y) = D + 1 /\ \A i \in 1 .. D + 1 : y[i] = IF i <= D THEN d[i] ELSE s[i - D]
    <3>1. /\ Len(y) = Len(d) + Len(s)
          /\ \A i \in 1 .. Len(d) + Len(s) : y[i] = IF i <= Len(d) THEN d[i] ELSE s[i - Len(d)]
      BY <2>1, ConcatProperties
    <3> QED BY <1>5, <1>6, <3>1
  <2>3. y[D + 1] = a /\ \A i \in 1 .. D : y[i] = d[i]
    <3>1. D + 1 \in 1 .. D + 1 /\ ~(D + 1 <= D) /\ (D + 1) - D = 1
      OBVIOUS
    <3>2. y[D + 1] = a
      BY <1>5, <2>2, <3>1
    <3>3. \A i \in 1 .. D : i \in 1 .. D + 1 /\ i <= D
      OBVIOUS
    <3> QED BY <2>2, <3>2, <3>3
  <2>4. /\ Len(x) = (D + 1) + Q
        /\ \A i \in 1 .. (D + 1) + Q : x[i] = IF i <= D + 1 THEN y[i] ELSE q[i - (D + 1)]
    <3>1. /\ Len(x) = Len(y) + Len(q)
          /\ \A i \in 1 .. Len(y) + Len(q) : x[i] = IF i <= Len(y) THEN y[i] ELSE q[i - Len(y)]
      <4>1. x = y \o q
        BY <1>7, <2>1
      <4> QED BY <1>3, <2>1, <4>1, ConcatProperties
    <3> QED BY <1>6, <2>2, <3>1
  <2>5. \A i \in 1 .. D + 1 : i \in 1 .. (D + 1) + Q /\ i <= D + 1
    OBVIOUS
  <2>6. \A i \in 1 .. D + 1 : x[i] = y[i]
    BY <2>4, <2>5
  <2> QED BY <2>3, <2>4, <2>6
<1>9. DOMAIN x = 1 .. (D + 1) + Q /\ x # <<>> /\ D + 1 \in DOMAIN x
  BY <1>7, <1>8
<1>10. a[1] \in DOMAIN asked
  <2>1. CASE Q = 0
    BY <1>2, <1>7, <1>8, <1>9, <2>1 DEF Chain, FollowedBy
  <2>2. CASE Q # 0
    <3>1. (D + 1) + 1 \in DOMAIN x
      BY <1>9, <2>2
    <3> QED BY <1>2, <1>7, <1>8, <1>9, <3>1 DEF Chain, FollowedBy
  <2> QED BY <2>1, <2>2
<1>11. a = Service!Due
  <2>1. CASE D = 0
    <3>1. x[1] = <<1, 1>>
      BY <1>2, <1>7, <1>9 DEF Chain
    <3>2. d = <<>>
      <4>1. d \in Seq(Pairs) /\ Len(d) = 0
        BY <1>3, <1>6, <2>1
      <4> QED BY <4>1
    <3>3. x[1] = a
      BY <1>8, <2>1
    <3>4. Service!Due = <<1, 1>>
      BY <1>3, <3>2 DEF Service!Due
    <3> QED BY <3>1, <3>3, <3>4
  <2>2. CASE D # 0
    <3>1. D \in DOMAIN x /\ D \in 1 .. D /\ d # <<>>
      BY <1>6, <1>9, <2>2
    <3>2. PICK l : l = d[D] /\ FollowedBy(l, a)
      BY <1>2, <1>7, <1>8, <1>9, <3>1 DEF Chain
    <3>3. l[1] > 0
      BY <3>2, AskedFacts DEF FollowedBy
    <3>4. Service!Due = Service!Successor(l[1], l[2])
      BY <1>3, <1>6, <3>1, <3>2 DEF Service!Due
    <3> QED BY <3>2, <3>3, <3>4 DEF FollowedBy, Service!Successor
  <2> QED BY <2>1, <2>2
<1>12. a[1] <= Len(asked)
  BY <1>10, AskedFacts
<1> QED BY <1>1, <1>3, <1>4, <1>11, <1>12 DEF Service!Answer

(* Each step of the path is one of the service, or none.                   *)
LEMMA StepImplements ==
  ASSUME Types, SendSteady, FeedInv, ServiceInv, [Next]_vars
  PROVE  [Service!Next]_<<asked, delivered>>
<1>0. Feeding
  BY DEF SendSteady, FeedInv
<1>1. CASE HostBegins
  <2>1. CropsRight
    BY DEF ServiceInv
  <2>2. Service!Ask
    BY <1>1, <2>1, HostAsks DEF Service!Ask
  <2> QED BY <2>2 DEF Service!Next
<1>2. CASE HostReads /\ sent # NoResult
  BY <1>0, <1>2, AnswersDue DEF Service!Next
<1>3. CASE ~HostBegins /\ ~(HostReads /\ sent # NoResult)
  <2>1. asked' = asked
    BY <1>3, AskedMoves
  <2>2. delivered' = delivered
    <3>1. CASE SendDequeue \/ InfExecute
      BY <3>1 DEF SendDequeue, InfExecute, hostVars
    <3>2. CASE ~SendDequeue /\ ~InfExecute
      BY <1>3, <3>2, ResultsQuiet
    <3> QED BY <3>1, <3>2
  <2> QED BY <2>1, <2>2
<1> QED BY <1>1, <1>2, <1>3

(* For a host that requests no reset, never switches dropping on and stays *)
(* connected, the four threads and their queues are one queue: every       *)
(* result the host reads is the one that is due, the next crop box of the  *)
(* inference that was asked first and is not answered.  None is lost, none *)
(* comes twice, none is answered under another number.                     *)
THEOREM ServiceImplemented ==
  ASSUME MaxReset = 0, MaxDrop = 0, MaxLink = 0
  PROVE  Spec => ServiceSpec
<1>2. Types /\ NeverDroppable /\ [Next]_vars => NeverDroppable'
  BY StepNeverDroppable
<1>3. /\ Types /\ Types' /\ OrderInv /\ NeverDown /\ SendSteady /\ FeedInv /\ SendMutexHeld
      /\ RealInv /\ Exclusive /\ ResPlaced /\ PutsNeverWait /\ ResultInv /\ StrictInv
      /\ NeverDroppable /\ ServiceInv /\ [Next]_vars
      => ServiceInv'
  BY StepService
<1>4. Spec => []ServiceInv
  BY <1>2, <1>3, InitNeverDroppable, InitService, TypesInvariant, OrderInvariant,
     SendSteadyInvariant, FeedInvariant, MutexInvariant, RealInvariant, ImagesExclusive,
     ResPlacedInvariant, NoPutWaits, ResultInvariant, StrictInvariant, PTL DEF Spec
<1>5. Init => Service!Init
  BY DEF Init, Service!Init
<1>6. Types /\ SendSteady /\ FeedInv /\ ServiceInv /\ [Next]_vars
      => [Service!Next]_<<asked, delivered>>
  BY StepImplements
<1> QED BY <1>4, <1>5, <1>6, TypesInvariant, SendSteadyInvariant, FeedInvariant, PTL
        DEF Spec, ServiceSpec, Service!Spec

=============================================================================
