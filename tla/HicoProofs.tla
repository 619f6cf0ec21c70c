----------------------------- MODULE HicoProofs -----------------------------
(***************************************************************************)
(* Proofs about the camera solutions, for every number of buffers and      *)
(* cameras, every frame rate and every behaviour of the host: each image   *)
(* buffer is in exactly one place (CameraBuffersApart), the images and     *)
(* results of a camera come in the order of its frames (FramesInOrder),    *)
(* and no thread waits for ever for what another one holds (BuffersReturn).*)
(***************************************************************************)
EXTENDS HicoPipeline, FiniteSetTheorems, SequenceTheorems, WellFoundedInduction, TLAPS

(* What the queues hold: objects of one buffer, images for buf_mgr, images *)
(* to show; and the buffer of each.                                        *)
Singles  == {<<b>> : b \in ImgBufs}
Received == [total : {1}, index : {0}, buf : ImgBufs]
Images   == [cam : Cameras, buf : ImgBufs]
Frames   == [cam : Cameras, number : Nat]
OfSingle == [o \in Singles |-> o[1]]
OfRecord == [r \in Received \cup Images |-> r.buf]
OfBuffer == [b \in ImgBufs |-> b]

(* The buffers of a queue, and that none is there twice.                   *)
Bufs(q, of) == {of[q[k]] : k \in DOMAIN q}
Once(q, of) == \A i, k \in DOMAIN q : of[q[i]] = of[q[k]] => i = k

QueueTypes ==
  /\ imgFree \in Seq(Singles) /\ imgData \in Seq(Singles) /\ tempQ \in Seq(Received)
  /\ imgQueue \in Seq(Images)
  /\ owner \in [ImgBufs -> ImgPlaces]
(* An object of one buffer is complete with it: buf_mgr never puts back.   *)
MgrTypes ==
  /\ stored \in [{0} -> ImgBufs \cup {NULL}]
  /\ \/ mgrPc = "get" /\ numReceived = 0 /\ stored[0] = NULL
     \/ mgrPc = "enqueue" /\ numReceived = 1 /\ storedNum = 1 /\ stored[0] \in ImgBufs
CameraTypes ==
  /\ solution \in {"mipi", "tof"}
  /\ page \in [Cameras -> [Pages -> ImgBufs \cup {NULL}]]
  /\ filling \in [Cameras -> Pages]
  /\ frameDone \in [Cameras -> Pages \cup {NoPage}]
  /\ streaming \in [Cameras -> BOOLEAN]
  /\ \A c \in Cameras : streaming[c] => \A p \in Pages : page[c][p] \in ImgBufs
  /\ \A c \in Cameras : frameDone[c] # NoPage => streaming[c]
ThreadTypes ==
  /\ cmdCams \subseteq Cameras /\ cmdBufs \in Seq(ImgBufs)
  /\ cmdPc = "buffers" => cmdCams # {}
  /\ cmdPc # "buffers" => cmdBufs = <<>>
  /\ IF showPc \in {"get", "gone"} THEN shown = NoImage ELSE shown \in Images
  /\ obj \in Seq(ImgBufs)
  /\ IF infPc = "get" THEN obj = <<>> ELSE Len(obj) = 1
FrameTypes ==
  /\ frames \in Nat /\ content \in [ImgBufs -> Frames]
  /\ images \in Seq(Frames) /\ outcomes \in Seq(Frames)
TypesInv == QueueTypes /\ MgrTypes /\ CameraTypes /\ ThreadTypes /\ FrameTypes

At(p)    == {b \in ImgBufs : owner[b] = p}
FreeSet  == Bufs(imgFree, OfSingle)
DataSet  == Bufs(imgData, OfSingle)
TempSet  == Bufs(tempQ, OfRecord)
MgrSet   == {stored[i] : i \in 0 .. numReceived - 1}
InfSet   == Bufs(obj, OfBuffer)
QueueSet == Bufs(imgQueue, OfRecord)
PageSet  == {page[cp[1]][cp[2]] : cp \in Taken}
CmdSet   == Bufs(cmdBufs, OfBuffer)
ShownSet == {shown.buf} \ {NULL}

(* The history says where every buffer is; those the camera side has are   *)
(* in pages, with the command thread, waiting to be shown, or shown.       *)
PlaceInv ==
  /\ FreeSet = At("free") /\ DataSet = At("data") /\ TempSet = At("temp")
  /\ MgrSet = At("mgr") /\ InfSet = At("inf")
  /\ QueueSet \cup PageSet \cup CmdSet \cup ShownSet = At("img")
  /\ QueueSet \cap PageSet = {} /\ QueueSet \cap CmdSet = {} /\ QueueSet \cap ShownSet = {}
  /\ PageSet \cap CmdSet = {} /\ PageSet \cap ShownSet = {} /\ CmdSet \cap ShownSet = {}
  /\ \A b \in ImgBufs : owner[b] \in {"free", "data", "temp", "mgr", "inf", "img", "lost"}

PageOnce == \A x, y \in Taken : page[x[1]][x[2]] = page[y[1]][y[2]] => x = y
OnceInv ==
  /\ Once(imgFree, OfSingle) /\ Once(imgData, OfSingle) /\ Once(tempQ, OfRecord)
  /\ Once(imgQueue, OfRecord) /\ Once(cmdBufs, OfBuffer) /\ PageOnce

BufferInv == TypesInv /\ PlaceInv /\ OnceInv

(* One frame comes before another of the same camera.                      *)
Before(x, y) == x.cam = y.cam => x.number < y.number
AllBefore(con, S, T) == \A b \in S, d \in T : Before(con[b], con[d])
(* The images of a queue are in the order of their frames.                 *)
InLine(con, q, of) == \A i, k \in DOMAIN q : i < k => Before(con[of[q[i]]], con[of[q[k]]])
InOrder(s)         == \A i, k \in DOMAIN s : i < k => Before(s[i], s[k])
Past(con, s, T)    == \A i \in DOMAIN s, d \in T : Before(s[i], con[d])

(* The frame an interrupt reports is the latest of its camera.             *)
Done(c)   == page[c][frameDone[c]]
LatestInv ==
  \A c \in Cameras : frameDone[c] # NoPage =>
    /\ content[Done(c)].cam = c
    /\ \A b \in ImgBufs \ {Done(c)} : Before(content[b], content[Done(c)])
    /\ Past(content, images, {Done(c)}) /\ Past(content, outcomes, {Done(c)})
NumberInv ==
  /\ \A b \in ImgBufs : content[b].number <= frames
  /\ \A i \in DOMAIN images : images[i].number <= frames
  /\ \A i \in DOMAIN outcomes : outcomes[i].number <= frames

(* The way of an image: shown, to buf_mgr, to the dispatcher.              *)
Lined(con, I, D, M, T, S, Q) ==
  /\ AllBefore(con, S, Q)
  /\ AllBefore(con, T, S \cup Q)
  /\ AllBefore(con, M, T \cup S \cup Q)
  /\ AllBefore(con, D, M \cup T \cup S \cup Q)
  /\ AllBefore(con, I, D \cup M \cup T \cup S \cup Q)
LineInv ==
  /\ InLine(content, imgQueue, OfRecord) /\ InLine(content, tempQ, OfRecord) /\ InLine(content, imgData, OfSingle)
  /\ Lined(content, InfSet, DataSet, MgrSet, TempSet, ShownSet, QueueSet)
  /\ solution = "tof" => imgQueue = <<>> /\ ShownSet = {}
ToShow  == QueueSet \cup IF showPc = "sent" THEN {} ELSE ShownSet
ToInfer == DataSet \cup MgrSet \cup TempSet \cup ShownSet \cup QueueSet
           \cup IF infPc = "put" THEN {} ELSE InfSet
SentInv ==
  /\ InOrder(images) /\ Past(content, images, ToShow)
  /\ InOrder(outcomes) /\ Past(content, outcomes, ToInfer)

(* Before a camera is started its interrupt has nothing to report.         *)
StartInv == cmdPc = "buffers" => ~streaming[FirstOf(cmdCams)]

OrderInv == NumberInv /\ (~restarted => LatestInv /\ LineInv /\ SentInv /\ StartInv)

-----------------------------------------------------------------------------
(* Queues that shrink and grow.                                            *)

LEMMA QueueTail ==
  ASSUME NEW S, NEW q \in Seq(S), NEW of, q # <<>>, Once(q, of)
  PROVE  /\ Tail(q) \in Seq(S) /\ Head(q) \in S
         /\ of[Head(q)] \in Bufs(q, of)
         /\ Bufs(Tail(q), of) = Bufs(q, of) \ {of[Head(q)]}
         /\ Once(Tail(q), of)
<1> DEFINE t == Tail(q)
<1>1. /\ t \in Seq(S) /\ Head(q) \in S /\ Head(q) = q[1] /\ Len(q) \in Nat /\ Len(q) >= 1
      /\ DOMAIN q = 1 .. Len(q) /\ DOMAIN t = 1 .. Len(q) - 1
      /\ \A k \in 1 .. Len(q) - 1 : t[k] = q[k + 1]
  OBVIOUS
<1> HIDE DEF t
<1>2. 1 \in DOMAIN q /\ \A k \in DOMAIN t : k + 1 \in DOMAIN q /\ k + 1 # 1
  BY <1>1
<1>3. of[Head(q)] \in Bufs(q, of)
  BY <1>1, <1>2 DEF Bufs
<1>4. ASSUME NEW b \in Bufs(t, of) PROVE b \in Bufs(q, of) \ {of[Head(q)]}
  <2>1. PICK k \in DOMAIN t : b = of[t[k]]
    BY DEF Bufs
  <2>2. b = of[q[k + 1]] /\ k + 1 \in DOMAIN q /\ k + 1 # 1
    BY <1>1, <1>2, <2>1
  <2>3. b # of[q[1]]
    BY <1>2, <2>2 DEF Once
  <2> QED BY <1>1, <2>2, <2>3 DEF Bufs
<1>5. ASSUME NEW b \in Bufs(q, of) \ {of[Head(q)]} PROVE b \in Bufs(t, of)
  <2>1. PICK k \in DOMAIN q : b = of[q[k]]
    BY DEF Bufs
  <2>2. k # 1
    BY <1>1, <2>1
  <2>3. k - 1 \in DOMAIN t /\ t[k - 1] = q[k]
    BY <1>1, <2>2
  <2> QED BY <2>1, <2>3 DEF Bufs
<1>6. Once(t, of)
  <2> SUFFICES ASSUME NEW i \in DOMAIN t, NEW k \in DOMAIN t, of[t[i]] = of[t[k]] PROVE i = k
    BY DEF Once
  <2>1. i + 1 = k + 1
    BY <1>1, <1>2 DEF Once
  <2> QED BY <1>1, <2>1
<1>7. Bufs(t, of) = Bufs(q, of) \ {of[Head(q)]}
  BY <1>4, <1>5
<1> QED BY <1>1, <1>3, <1>6, <1>7 DEF t

LEMMA QueueAppend ==
  ASSUME NEW S, NEW q \in Seq(S), NEW of, NEW x \in S, Once(q, of), of[x] \notin Bufs(q, of)
  PROVE  /\ Append(q, x) \in Seq(S)
         /\ Bufs(Append(q, x), of) = Bufs(q, of) \cup {of[x]}
         /\ Once(Append(q, x), of)
<1> DEFINE a == Append(q, x)
<1>1. /\ a \in Seq(S) /\ Len(q) \in Nat
      /\ DOMAIN q = 1 .. Len(q) /\ DOMAIN a = 1 .. Len(q) + 1
      /\ \A k \in 1 .. Len(q) : a[k] = q[k]
      /\ a[Len(q) + 1] = x
  OBVIOUS
<1> HIDE DEF a
<1>2. \A k \in DOMAIN a : k \in DOMAIN q \/ k = Len(q) + 1
  BY <1>1
<1>3. ASSUME NEW b \in Bufs(a, of) PROVE b \in Bufs(q, of) \cup {of[x]}
  BY <1>1, <1>2 DEF Bufs
<1>4. ASSUME NEW b \in Bufs(q, of) PROVE b \in Bufs(a, of)
  <2>1. PICK k \in DOMAIN q : b = of[q[k]]
    BY DEF Bufs
  <2>2. k \in DOMAIN a /\ a[k] = q[k]
    BY <1>1
  <2> QED BY <2>1, <2>2 DEF Bufs
<1>5. of[x] \in Bufs(a, of)
  <2>1. Len(q) + 1 \in DOMAIN a
    BY <1>1
  <2> QED BY <1>1, <2>1 DEF Bufs
<1>6. Once(a, of)
  <2> SUFFICES ASSUME NEW i \in DOMAIN a, NEW k \in DOMAIN a, of[a[i]] = of[a[k]] PROVE i = k
    BY DEF Once
  <2>1. \A l \in DOMAIN q : of[q[l]] # of[x]
    BY DEF Bufs
  <2>2. CASE i \in DOMAIN q /\ k \in DOMAIN q
    <3>1. a[i] = q[i] /\ a[k] = q[k]
      BY <1>1, <2>2
    <3> QED BY <2>2, <3>1 DEF Once
  <2>3. CASE i \in DOMAIN q /\ k = Len(q) + 1
    BY <1>1, <2>1, <2>3
  <2>4. CASE k \in DOMAIN q /\ i = Len(q) + 1
    BY <1>1, <2>1, <2>4
  <2> QED BY <1>2, <2>2, <2>3, <2>4
<1>7. Bufs(a, of) = Bufs(q, of) \cup {of[x]}
  BY <1>3, <1>4, <1>5
<1> QED BY <1>1, <1>6, <1>7 DEF a

LEMMA EmptyQueue == ASSUME NEW of PROVE Bufs(<<>>, of) = {} /\ Once(<<>>, of)
BY DEF Bufs, Once

LEMMA SingleQueue ==
  ASSUME NEW b \in ImgBufs
  PROVE  Bufs(<<b>>, OfBuffer) = {b} /\ Once(<<b>>, OfBuffer)
<1>1. DOMAIN <<b>> = {1} /\ <<b>>[1] = b
  OBVIOUS
<1> QED BY <1>1 DEF Bufs, Once, OfBuffer

(* A queue of different buffers is as long as they are many.               *)
LEMMA QueueCount ==
  ASSUME NEW S, NEW q \in Seq(S), NEW of, Once(q, of)
  PROVE  IsFiniteSet(Bufs(q, of)) /\ Cardinality(Bufs(q, of)) = Len(q)
<1> DEFINE f == [k \in 1 .. Len(q) |-> of[q[k]]]
<1>1. Len(q) \in Nat /\ DOMAIN q = 1 .. Len(q)
  OBVIOUS
<1>2. IsFiniteSet(1 .. Len(q)) /\ Cardinality(1 .. Len(q)) = Len(q)
  BY <1>1, FS_Interval
<1>3. f \in Bijection(1 .. Len(q), Bufs(q, of))
  <2>1. f \in [1 .. Len(q) -> Bufs(q, of)]
    BY <1>1 DEF Bufs
  <2>2. \A i, k \in 1 .. Len(q) : f[i] = f[k] => i = k
    BY <1>1 DEF Once
  <2>3. \A b \in Bufs(q, of) : \E k \in 1 .. Len(q) : f[k] = b
    BY <1>1 DEF Bufs
  <2> HIDE DEF f
  <2> QED BY <2>1, <2>2, <2>3 DEF Bijection, Injection, Surjection, IsInjective
<1>4. ExistsBijection(1 .. Len(q), Bufs(q, of))
  BY <1>3 DEF ExistsBijection
<1> QED BY <1>2, <1>4, FS_Bijection

(* What a step that moves one buffer does to the places.                   *)
LEMMA AtMoves ==
  ASSUME owner \in [ImgBufs -> ImgPlaces], NEW x \in ImgBufs, NEW p \in ImgPlaces, MoveImg({x}, p)
  PROVE  /\ owner' \in [ImgBufs -> ImgPlaces]
         /\ At(p)' = At(p) \cup {x}
         /\ \A r : r # p => At(r)' = At(r) \ {x}
         /\ owner'[x] = p /\ \A b \in ImgBufs \ {x} : owner'[b] = owner[b]
<1>1. owner' = [b \in ImgBufs |-> IF b \in {x} THEN p ELSE owner[b]]
  BY DEF MoveImg
<1>2. owner' \in [ImgBufs -> ImgPlaces]
  BY <1>1
<1>3. owner'[x] = p /\ \A b \in ImgBufs \ {x} : owner'[b] = owner[b]
  BY <1>1
<1>4. At(p)' = At(p) \cup {x}
  BY <1>3 DEF At
<1>5. \A r : r # p => At(r)' = At(r) \ {x}
  BY <1>3 DEF At
<1> QED BY <1>2, <1>3, <1>4, <1>5

(* Every nonempty set of cameras has a first one.                          *)
LEMMA FirstIsThere == ASSUME NEW cams \in SUBSET Cameras, cams # {} PROVE FirstOf(cams) \in cams
<1>1. IsWellFoundedOn(OpToRel(<, Nat), Nat)
  BY NatLessThanWellFounded
<1>2. \A x, y \in Nat : <<y, x>> \in OpToRel(<, Nat) <=> y < x
  BY DEF OpToRel
<1> DEFINE R == OpToRel(<, Nat)
<1> HIDE DEF R
<1>3. cams \subseteq Nat
  BY HicoAssumption
<1>4. \E x \in cams : \A y \in cams : ~(<<y, x>> \in R)
  <2>1. IsWellFoundedOn(R, Nat)
    BY <1>1 DEF R
  <2> QED BY <1>3, <2>1, WFMin
<1>5. PICK c \in cams : \A y \in cams : ~(<<y, c>> \in R)
  BY <1>4
<1>6. \A y \in cams : ~(y < c)
  BY <1>2, <1>3, <1>5 DEF R
<1>7. \A y \in cams : c <= y
  BY <1>3, <1>6
<1> QED BY <1>7 DEF FirstOf

-----------------------------------------------------------------------------
(* What the definitions of the data come to.                               *)
LEMMA Values ==
  /\ MaxInput = 1 /\ Indices = {0}
  /\ NULL = -1 /\ NoPage = -1 /\ Pages = {0, 1} /\ NumImg \in Nat
  /\ NULL \notin ImgBufs /\ NoPage \notin Pages
  /\ NoImage.buf = NULL
  /\ NoFrame \in Frames
<1>1. MaxInput = 1 /\ Indices = {0}
  BY HicoAssumption DEF Indices
<1>2. (CHOOSE c \in Cameras : TRUE) \in Cameras
  BY HicoAssumption
<1>3. NULL \notin ImgBufs /\ NumImg \in Nat
  BY SizesAssumption DEF NULL, ImgBufs
<1> QED BY <1>1, <1>2, <1>3 DEF Pages, NoPage, NoImage, NoFrame, Frames, NULL

LEMMA DataFacts ==
  /\ \A b \in ImgBufs : <<b>> \in Singles /\ OfSingle[<<b>>] = b /\ OfBuffer[b] = b
  /\ \A o \in Singles : OfSingle[o] \in ImgBufs /\ o = <<OfSingle[o]>> /\ o[1] = OfSingle[o]
                        /\ BufsOf(o) = {OfSingle[o]}
  /\ \A r \in Images : OfRecord[r] = r.buf /\ r.buf \in ImgBufs /\ r.buf # NULL
  /\ \A r \in Received : OfRecord[r] = r.buf /\ r.buf \in ImgBufs /\ r.total = 1 /\ r.index = 0
  /\ \A b \in ImgBufs, c \in Cameras : [cam |-> c, buf |-> b] \in Images
  /\ \A b \in ImgBufs : [total |-> 1, index |-> 0, buf |-> b] \in Received
<1>1. \A b \in ImgBufs : <<b>> \in Singles /\ OfSingle[<<b>>] = b /\ OfBuffer[b] = b
  BY DEF Singles, OfSingle, OfBuffer
<1>2. ASSUME NEW o \in Singles
      PROVE  OfSingle[o] \in ImgBufs /\ o = <<OfSingle[o]>> /\ o[1] = OfSingle[o]
             /\ BufsOf(o) = {OfSingle[o]}
  <2>1. PICK b \in ImgBufs : o = <<b>>
    BY DEF Singles
  <2>2. OfSingle[o] = b /\ o[1] = b /\ DOMAIN o = {1}
    BY <1>1, <2>1
  <2> QED BY <2>1, <2>2 DEF BufsOf
<1>3. \A r \in Images : OfRecord[r] = r.buf /\ r.buf \in ImgBufs /\ r.buf # NULL
  BY Values DEF Images, OfRecord
<1>4. \A r \in Received : OfRecord[r] = r.buf /\ r.buf \in ImgBufs /\ r.total = 1 /\ r.index = 0
  BY DEF Received, OfRecord
<1>5. \A b \in ImgBufs, c \in Cameras : [cam |-> c, buf |-> b] \in Images
  BY DEF Images
<1>6. \A b \in ImgBufs : [total |-> 1, index |-> 0, buf |-> b] \in Received
  BY DEF Received
<1> QED BY <1>1, <1>2, <1>3, <1>4, <1>5, <1>6

LEMMA PageFacts ==
  ASSUME CameraTypes
  PROVE  /\ PageSet \subseteq ImgBufs
         /\ \A c \in Cameras, p \in Pages : page[c][p] # NULL => page[c][p] \in PageSet
<1>1. ASSUME NEW cp \in Taken PROVE page[cp[1]][cp[2]] \in ImgBufs
  BY DEF Taken, CameraTypes
<1>2. ASSUME NEW c \in Cameras, NEW p \in Pages, page[c][p] # NULL PROVE page[c][p] \in PageSet
  <2>1. <<c, p>> \in Taken
    BY <1>2 DEF Taken
  <2>2. <<c, p>>[1] = c /\ <<c, p>>[2] = p
    OBVIOUS
  <2> QED BY <2>1, <2>2 DEF PageSet
<1> QED BY <1>1, <1>2 DEF PageSet

-----------------------------------------------------------------------------
(* The steps that move no buffer.                                          *)
placeVars == <<imgFree, imgData, tempQ, owner, stored, storedNum, numReceived, mgrPc, imgQueue,
               page, cmdBufs, obj, shown>>

LEMMA StillPlaced ==
  ASSUME PlaceInv, OnceInv, UNCHANGED placeVars
  PROVE  PlaceInv' /\ OnceInv'
<1>1. Taken' = Taken
  BY DEF placeVars, Taken
<1> QED BY <1>1 DEF placeVars, PlaceInv, OnceInv, FreeSet, DataSet, TempSet, MgrSet, InfSet,
                    QueueSet, PageSet, CmdSet, ShownSet, At, PageOnce

LEMMA BeginBuffers == HicoInit => BufferInv
<1> SUFFICES ASSUME HicoInit PROVE BufferInv
  OBVIOUS
<1> USE DEF HicoInit
<1>0. NumImg \in Nat /\ \A b \in ImgBufs : b \in 1 .. NumImg
  BY Values DEF ImgBufs
<1>1. imgFree \in Seq(Singles) /\ DOMAIN imgFree = ImgBufs
      /\ \A k \in ImgBufs : OfSingle[imgFree[k]] = k
  <2>1. imgFree = [i \in ImgBufs |-> <<i>>]
    BY DEF ImgBufs
  <2>2. imgFree \in [1 .. NumImg -> Singles]
    BY <1>0, <2>1, DataFacts DEF ImgBufs
  <2> QED BY <1>0, <2>1, <2>2, DataFacts
<1>2. QueueTypes
  BY <1>1 DEF QueueTypes, ImgPlaces
<1>3. MgrTypes
  BY Values DEF MgrTypes
<1>4. CameraTypes
  <2>1. solution \in {"mipi", "tof"}
    BY HicoAssumption
  <2>2. 0 \in Pages
    BY Values
  <2> QED BY <2>1, <2>2 DEF CameraTypes
<1>5. ThreadTypes
  BY DEF ThreadTypes
<1>6. FrameTypes
  <2>1. frames \in Nat
    BY HicoAssumption
  <2> QED BY <2>1, Values DEF FrameTypes
<1>7. FreeSet = ImgBufs /\ Once(imgFree, OfSingle)
  <2> HIDE DEF HicoInit
  <2>1. \A b \in ImgBufs : \E k \in DOMAIN imgFree : b = OfSingle[imgFree[k]]
    BY <1>1
  <2>2. \A k \in DOMAIN imgFree : OfSingle[imgFree[k]] \in ImgBufs
    BY <1>1
  <2>3. FreeSet = ImgBufs
    BY <2>1, <2>2 DEF FreeSet, Bufs
  <2>4. Once(imgFree, OfSingle)
    BY <1>1 DEF Once
  <2> QED BY <2>3, <2>4
<1>8. /\ DataSet = {} /\ TempSet = {} /\ InfSet = {} /\ QueueSet = {} /\ CmdSet = {}
      /\ Once(imgData, OfSingle) /\ Once(tempQ, OfRecord) /\ Once(imgQueue, OfRecord)
      /\ Once(cmdBufs, OfBuffer)
  BY EmptyQueue DEF DataSet, TempSet, InfSet, QueueSet, CmdSet
<1>9. MgrSet = {} /\ ShownSet = {}
  BY Values DEF MgrSet, ShownSet
<1>10. Taken = {}
  BY DEF Taken
<1>11. PageSet = {} /\ PageOnce
  BY <1>10 DEF PageSet, PageOnce
<1>12. At("free") = ImgBufs /\ \A r : r # "free" => At(r) = {}
  BY DEF At
<1>13. PlaceInv
  <2>1. \A b \in ImgBufs : owner[b] = "free"
    OBVIOUS
  <2>2. FreeSet = At("free") /\ DataSet = At("data") /\ TempSet = At("temp")
    BY <1>7, <1>8, <1>12
  <2>3. MgrSet = At("mgr") /\ InfSet = At("inf")
    BY <1>8, <1>9, <1>12
  <2>4. QueueSet \cup PageSet \cup CmdSet \cup ShownSet = At("img")
    BY <1>8, <1>9, <1>11, <1>12
  <2> HIDE DEF HicoInit
  <2> QED BY <1>8, <1>9, <2>1, <2>2, <2>3, <2>4 DEF PlaceInv
<1> QED BY <1>2, <1>3, <1>4, <1>5, <1>6, <1>7, <1>8, <1>11, <1>13 DEF TypesInv, OnceInv, BufferInv

LEMMA FrameEndsBuffers ==
  ASSUME BufferInv, NEW c \in Cameras, FrameEnds(c)
  PROVE  BufferInv'
<1>1. UNCHANGED <<placeVars, solution, streaming, showPc, infPc, cmdPc, cmdCams, images, outcomes>>
  BY DEF FrameEnds, queueVars, modeVars, cmdVars, showVars, infVars, placeVars
<1>2. /\ streaming[c] /\ filling[c] \in Pages /\ page[c][filling[c]] \in ImgBufs
      /\ frameDone' = [frameDone EXCEPT ![c] = filling[c]]
      /\ filling' = [filling EXCEPT ![c] = 1 - @]
      /\ frames' = frames + 1
      /\ content' = [content EXCEPT ![page[c][filling[c]]] = [cam |-> c, number |-> frames']]
  BY DEF FrameEnds, BufferInv, TypesInv, CameraTypes
<1>3. CameraTypes'
  <2>1. 1 - filling[c] \in Pages
    BY <1>2, Values
  <2>2. filling' \in [Cameras -> Pages] /\ frameDone' \in [Cameras -> Pages \cup {NoPage}]
    BY <1>2, <2>1 DEF BufferInv, TypesInv, CameraTypes
  <2>3. \A d \in Cameras : frameDone'[d] # NoPage => streaming[d]
    BY <1>2 DEF BufferInv, TypesInv, CameraTypes
  <2> QED BY <1>1, <2>2, <2>3 DEF BufferInv, TypesInv, CameraTypes, placeVars
<1>4. FrameTypes'
  <2>1. frames' \in Nat /\ [cam |-> c, number |-> frames'] \in Frames
    BY <1>2 DEF BufferInv, TypesInv, FrameTypes, Frames
  <2>2. content' \in [ImgBufs -> Frames]
    BY <1>2, <2>1 DEF BufferInv, TypesInv, FrameTypes
  <2> QED BY <1>1, <2>1, <2>2 DEF BufferInv, TypesInv, FrameTypes
<1>5. QueueTypes' /\ MgrTypes' /\ ThreadTypes'
  BY <1>1 DEF BufferInv, TypesInv, QueueTypes, MgrTypes, ThreadTypes, placeVars
<1> QED BY <1>1, <1>3, <1>4, <1>5, StillPlaced DEF BufferInv, TypesInv

(* The steps of the link, the command, the result thread and the others    *)
(* that change no queue.                                                   *)
quietVars == <<placeVars, solution, filling, streaming, frames, content>>
Quiet ==
  \/ \E c \in Cameras : Overflows(c)
  \/ LinkConfigured \/ Unplug \/ Start \/ CameraOpens \/ Respond \/ ShowBegin \/ ShowSent
  \/ InfResult \/ InfAnswers \/ InfFails \/ ResThread \/ UNCHANGED hicoVars

LEMMA QuietFacts ==
  ASSUME BufferInv, Quiet
  PROVE  UNCHANGED <<quietVars, frameDone>> /\ ThreadTypes' /\ FrameTypes'
<1> USE DEF queueVars, imgQueues, mgrVars, camVars, modeVars, cmdVars, showVars, infVars, sendVars,
            histVars, placeVars, quietVars, restOfShow, restOfInf, restOfRes, BufferInv, TypesInv,
            ThreadTypes, FrameTypes
<1>1. ASSUME NEW c \in Cameras, Overflows(c)
      PROVE  UNCHANGED <<quietVars, frameDone>> /\ ThreadTypes' /\ FrameTypes'
  BY <1>1 DEF Overflows
<1>2. CASE LinkConfigured
  BY <1>2 DEF LinkConfigured
<1>3. CASE Unplug
  BY <1>3 DEF Unplug
<1>4. CASE Start
  <2>1. cmdCams' \subseteq Cameras
    <3>1. Cams \subseteq Cameras
      BY HicoAssumption DEF Cams
    <3> QED BY <1>4, <3>1 DEF Start
  <2> QED BY <1>4, <2>1 DEF Start
<1>5. CASE CameraOpens
  BY <1>5 DEF CameraOpens
<1>6. CASE Respond
  BY <1>6 DEF Respond
<1>7. CASE ShowBegin
  BY <1>7 DEF ShowBegin
<1>8. CASE ShowSent
  <2>1. content[shown.buf] \in Frames
    BY <1>8, DataFacts DEF ShowSent
  <2> QED BY <1>8, <2>1 DEF ShowSent
<1>9. CASE InfResult
  BY <1>9 DEF InfResult, result_get_free_buffer
<1>10. CASE InfAnswers
  <2>1. content[obj[1]] \in Frames
    BY <1>10 DEF InfAnswers
  <2> QED BY <1>10, <2>1 DEF InfAnswers, result_enqueue
<1>11. CASE InfFails
  BY <1>11 DEF InfFails
<1>12. CASE ResThread
  BY <1>12 DEF ResThread, ResGet, ResBegin, ResSent, ResPut, result_dequeue, result_put_free_buffer
<1>13. CASE UNCHANGED hicoVars
  BY <1>13 DEF hicoVars
<1> QED BY <1>1, <1>2, <1>3, <1>4, <1>5, <1>6, <1>7, <1>8, <1>9, <1>10, <1>11, <1>12, <1>13 DEF Quiet

LEMMA QuietBuffers == ASSUME BufferInv, Quiet PROVE BufferInv'
<1>1. UNCHANGED <<quietVars, frameDone>> /\ ThreadTypes' /\ FrameTypes'
  BY QuietFacts
<1>2. QueueTypes' /\ MgrTypes' /\ CameraTypes'
  BY <1>1 DEF quietVars, placeVars, BufferInv, TypesInv, QueueTypes, MgrTypes, CameraTypes
<1> QED BY <1>1, <1>2, StillPlaced DEF quietVars, BufferInv, TypesInv

-----------------------------------------------------------------------------
(* The steps that move a buffer.                                           *)

(* Where a buffer is, it is nowhere else.                                  *)
LEMMA NowhereElse ==
  ASSUME PlaceInv, NEW x \in ImgBufs
  PROVE  /\ x \in FreeSet <=> owner[x] = "free"
         /\ x \in DataSet <=> owner[x] = "data"
         /\ x \in TempSet <=> owner[x] = "temp"
         /\ x \in MgrSet <=> owner[x] = "mgr"
         /\ x \in InfSet <=> owner[x] = "inf"
         /\ owner[x] = "img" <=> x \in QueueSet \cup PageSet \cup CmdSet \cup ShownSet
BY DEF PlaceInv, At

(* The sets of a state after a step, from those that did not change.       *)
LEMMA SetsKept ==
  /\ UNCHANGED imgFree => FreeSet' = FreeSet
  /\ UNCHANGED imgData => DataSet' = DataSet
  /\ UNCHANGED tempQ => TempSet' = TempSet
  /\ UNCHANGED <<stored, numReceived>> => MgrSet' = MgrSet
  /\ UNCHANGED obj => InfSet' = InfSet
  /\ UNCHANGED imgQueue => QueueSet' = QueueSet
  /\ UNCHANGED page => PageSet' = PageSet /\ Taken' = Taken
  /\ UNCHANGED page => (PageOnce => PageOnce')
  /\ UNCHANGED cmdBufs => CmdSet' = CmdSet
  /\ UNCHANGED shown => ShownSet' = ShownSet
BY DEF FreeSet, DataSet, TempSet, MgrSet, InfSet, QueueSet, PageSet, Taken, PageOnce, CmdSet, ShownSet

(* A buffer that leaves a place for another one, outside the camera side,  *)
(* or within it.                                                           *)
Outside(F, D, T, M, I, own) ==
  /\ F = {b \in ImgBufs : own[b] = "free"} /\ D = {b \in ImgBufs : own[b] = "data"}
  /\ T = {b \in ImgBufs : own[b] = "temp"} /\ M = {b \in ImgBufs : own[b] = "mgr"}
  /\ I = {b \in ImgBufs : own[b] = "inf"}
  /\ \A b \in ImgBufs : own[b] \in {"free", "data", "temp", "mgr", "inf", "img", "lost"}
Inside(Q, P, C, S, own) ==
  /\ Q \cup P \cup C \cup S = {b \in ImgBufs : own[b] = "img"}
  /\ Q \cap P = {} /\ Q \cap C = {} /\ Q \cap S = {}
  /\ P \cap C = {} /\ P \cap S = {} /\ C \cap S = {}

LEMMA PlaceSplit ==
  PlaceInv <=> /\ Outside(FreeSet, DataSet, TempSet, MgrSet, InfSet, owner)
               /\ Inside(QueueSet, PageSet, CmdSet, ShownSet, owner)
BY DEF PlaceInv, Outside, Inside, At

LEMMA PlaceSplitNext ==
  PlaceInv' <=> /\ Outside(FreeSet', DataSet', TempSet', MgrSet', InfSet', owner')
                /\ Inside(QueueSet', PageSet', CmdSet', ShownSet', owner')
BY DEF PlaceInv, Outside, Inside, At

(* x moves to another place.                                               *)
LEMMA OutsideTo ==
  ASSUME NEW F, NEW D, NEW T, NEW M, NEW I, NEW own, NEW own2, NEW x \in ImgBufs,
         Outside(F, D, T, M, I, own), \A b \in ImgBufs \ {x} : own2[b] = own[b]
  PROVE  /\ own2[x] \in {"img", "lost"} =>
              Outside(F \ {x}, D \ {x}, T \ {x}, M \ {x}, I \ {x}, own2)
         /\ own2[x] = "free" => Outside(F \cup {x}, D \ {x}, T \ {x}, M \ {x}, I \ {x}, own2)
         /\ own2[x] = "data" => Outside(F \ {x}, D \cup {x}, T \ {x}, M \ {x}, I \ {x}, own2)
         /\ own2[x] = "temp" => Outside(F \ {x}, D \ {x}, T \cup {x}, M \ {x}, I \ {x}, own2)
         /\ own2[x] = "mgr" => Outside(F \ {x}, D \ {x}, T \ {x}, M \cup {x}, I \ {x}, own2)
         /\ own2[x] = "inf" => Outside(F \ {x}, D \ {x}, T \ {x}, M \ {x}, I \cup {x}, own2)
<1>1. \A l : own2[x] = l =>
        {b \in ImgBufs : own2[b] = l} = {b \in ImgBufs : own[b] = l} \cup {x}
  OBVIOUS
<1>2. \A l : own2[x] # l =>
        {b \in ImgBufs : own2[b] = l} = {b \in ImgBufs : own[b] = l} \ {x}
  OBVIOUS
<1>3. own2[x] \in {"free", "data", "temp", "mgr", "inf", "img", "lost"} =>
        \A b \in ImgBufs : own2[b] \in {"free", "data", "temp", "mgr", "inf", "img", "lost"}
  BY DEF Outside
<1>4. ASSUME own2[x] \in {"img", "lost"}
      PROVE  Outside(F \ {x}, D \ {x}, T \ {x}, M \ {x}, I \ {x}, own2)
  BY <1>2, <1>3, <1>4 DEF Outside
<1>5. ASSUME own2[x] = "free" PROVE Outside(F \cup {x}, D \ {x}, T \ {x}, M \ {x}, I \ {x}, own2)
  BY <1>1, <1>2, <1>3, <1>5 DEF Outside
<1>6. ASSUME own2[x] = "data" PROVE Outside(F \ {x}, D \cup {x}, T \ {x}, M \ {x}, I \ {x}, own2)
  BY <1>1, <1>2, <1>3, <1>6 DEF Outside
<1>7. ASSUME own2[x] = "temp" PROVE Outside(F \ {x}, D \ {x}, T \cup {x}, M \ {x}, I \ {x}, own2)
  BY <1>1, <1>2, <1>3, <1>7 DEF Outside
<1>8. ASSUME own2[x] = "mgr" PROVE Outside(F \ {x}, D \ {x}, T \ {x}, M \cup {x}, I \ {x}, own2)
  BY <1>1, <1>2, <1>3, <1>8 DEF Outside
<1>9. ASSUME own2[x] = "inf" PROVE Outside(F \ {x}, D \ {x}, T \ {x}, M \ {x}, I \cup {x}, own2)
  BY <1>1, <1>2, <1>3, <1>9 DEF Outside
<1> QED BY <1>4, <1>5, <1>6, <1>7, <1>8, <1>9

LEMMA InsideEnters ==
  ASSUME NEW Q, NEW P, NEW C, NEW S, NEW own, NEW own2, NEW x \in ImgBufs,
         Inside(Q, P, C, S, own), own[x] # "img",
         own2[x] = "img", \A b \in ImgBufs \ {x} : own2[b] = own[b]
  PROVE  Inside(Q, P, C \cup {x}, S, own2)
<1>1. x \notin Q \cup P \cup C \cup S
  BY DEF Inside
<1>2. Q \cup P \cup C \cup S \cup {x} = {b \in ImgBufs : own2[b] = "img"}
  BY DEF Inside
<1> QED BY <1>1, <1>2 DEF Inside

LEMMA InsideFills ==
  ASSUME NEW Q, NEW P, NEW C, NEW S, NEW own, NEW own2, NEW x \in ImgBufs,
         Inside(Q, P, C, S, own), own[x] # "img",
         own2[x] = "img", \A b \in ImgBufs \ {x} : own2[b] = own[b]
  PROVE  Inside(Q, P \cup {x}, C, S, own2)
<1>1. x \notin Q \cup P \cup C \cup S
  BY DEF Inside
<1>2. Q \cup P \cup C \cup S \cup {x} = {b \in ImgBufs : own2[b] = "img"}
  BY DEF Inside
<1> QED BY <1>1, <1>2 DEF Inside

LEMMA InsideLeaves ==
  ASSUME NEW Q, NEW P, NEW C, NEW S, NEW own, NEW own2, NEW x \in ImgBufs,
         Inside(Q, P, C, S, own),
         own2[x] # "img", \A b \in ImgBufs \ {x} : own2[b] = own[b]
  PROVE  Inside(Q \ {x}, P \ {x}, C \ {x}, S \ {x}, own2)
<1>1. (Q \ {x}) \cup (P \ {x}) \cup (C \ {x}) \cup (S \ {x}) = {b \in ImgBufs : own2[b] = "img"}
  BY DEF Inside
<1> QED BY <1>1 DEF Inside

LEMMA InsideStays ==
  ASSUME NEW Q, NEW P, NEW C, NEW S, NEW own, NEW own2, NEW x \in ImgBufs,
         Inside(Q, P, C, S, own),
         own[x] # "img", own2[x] # "img", \A b \in ImgBufs \ {x} : own2[b] = own[b]
  PROVE  Inside(Q, P, C, S, own2)
<1>1. Q \cup P \cup C \cup S = {b \in ImgBufs : own2[b] = "img"}
  BY DEF Inside
<1> QED BY <1>1 DEF Inside

(* A free buffer, or one that waits for the dispatcher, is taken.          *)
LEMMA TakesFacts ==
  ASSUME BufferInv, NEW force, NEW x, TakeFree(force, <<x>>)
  PROVE  /\ x \in ImgBufs /\ owner[x] \in {"free", "data"}
         /\ imgFree' \in Seq(Singles) /\ imgData' \in Seq(Singles)
         /\ Once(imgFree', OfSingle) /\ Once(imgData', OfSingle)
         /\ FreeSet' = FreeSet \ {x} /\ DataSet' = DataSet \ {x}
         /\ TempSet \ {x} = TempSet /\ MgrSet \ {x} = MgrSet /\ InfSet \ {x} = InfSet
<1>0. /\ imgFree \in Seq(Singles) /\ imgData \in Seq(Singles)
      /\ Once(imgFree, OfSingle) /\ Once(imgData, OfSingle)
      /\ owner \in [ImgBufs -> ImgPlaces]
      /\ Outside(FreeSet, DataSet, TempSet, MgrSet, InfSet, owner)
  BY PlaceSplit DEF BufferInv, TypesInv, QueueTypes, OnceInv
<1> DEFINE Freed == imgFree # <<>> /\ <<x>> = Head(imgFree) /\ imgFree' = Tail(imgFree)
                    /\ UNCHANGED imgData
           Grabs == imgData # <<>> /\ <<x>> = Head(imgData) /\ imgData' = Tail(imgData)
                    /\ UNCHANGED imgFree
<1>1. Freed \/ Grabs
  BY DEF TakeFree, take_free, take_data
<1>2. ASSUME Freed
      PROVE  /\ x \in ImgBufs /\ owner[x] = "free"
             /\ imgFree' \in Seq(Singles) /\ imgData' \in Seq(Singles)
             /\ FreeSet' = FreeSet \ {x} /\ DataSet' = DataSet
             /\ Once(imgFree', OfSingle) /\ Once(imgData', OfSingle)
  <2>1. /\ Tail(imgFree) \in Seq(Singles) /\ Head(imgFree) \in Singles
        /\ OfSingle[Head(imgFree)] \in FreeSet
        /\ Bufs(Tail(imgFree), OfSingle) = FreeSet \ {OfSingle[Head(imgFree)]}
        /\ Once(Tail(imgFree), OfSingle)
    BY <1>0, <1>2, QueueTail DEF FreeSet
  <2>2. x = OfSingle[Head(imgFree)] /\ x \in ImgBufs
    BY <1>2, <2>1, DataFacts
  <2>3. owner[x] = "free"
    BY <1>0, <2>1, <2>2 DEF Outside
  <2> QED BY <1>0, <1>2, <2>1, <2>2, <2>3 DEF FreeSet, DataSet
<1>3. ASSUME Grabs
      PROVE  /\ x \in ImgBufs /\ owner[x] = "data"
             /\ imgFree' \in Seq(Singles) /\ imgData' \in Seq(Singles)
             /\ FreeSet' = FreeSet /\ DataSet' = DataSet \ {x}
             /\ Once(imgFree', OfSingle) /\ Once(imgData', OfSingle)
  <2>1. /\ Tail(imgData) \in Seq(Singles) /\ Head(imgData) \in Singles
        /\ OfSingle[Head(imgData)] \in DataSet
        /\ Bufs(Tail(imgData), OfSingle) = DataSet \ {OfSingle[Head(imgData)]}
        /\ Once(Tail(imgData), OfSingle)
    BY <1>0, <1>3, QueueTail DEF DataSet
  <2>2. x = OfSingle[Head(imgData)] /\ x \in ImgBufs
    BY <1>3, <2>1, DataFacts
  <2>3. owner[x] = "data"
    BY <1>0, <2>1, <2>2 DEF Outside
  <2> QED BY <1>0, <1>3, <2>1, <2>2, <2>3 DEF FreeSet, DataSet
<1>4. x \in ImgBufs /\ owner[x] \in {"free", "data"}
  BY <1>1, <1>2, <1>3
<1>5. TempSet \ {x} = TempSet /\ MgrSet \ {x} = MgrSet /\ InfSet \ {x} = InfSet
  BY <1>0, <1>4 DEF Outside
<1>6. FreeSet' = FreeSet \ {x}
  BY <1>0, <1>1, <1>2, <1>3 DEF Outside
<1>7. DataSet' = DataSet \ {x}
  BY <1>0, <1>1, <1>2, <1>3 DEF Outside
<1> HIDE DEF Freed, Grabs
<1> QED BY <1>1, <1>2, <1>3, <1>4, <1>5, <1>6, <1>7

LEMMA CameraTakesBuffers == ASSUME BufferInv, CameraTakes PROVE BufferInv'
<1>1. PICK x \in ImgBufs :
        TakeFree(FALSE, <<x>>) /\ cmdBufs' = Append(cmdBufs, x) /\ MoveImg({x}, "img")
  BY DEF CameraTakes
<1>2. /\ cmdPc = "buffers"
      /\ UNCHANGED <<tempQ, stored, storedNum, numReceived, mgrPc, solution, page, filling, frameDone,
                     streaming, imgQueue, cmdPc, cmdCams, showPc, shown, infPc, obj>>
      /\ UNCHANGED <<frames, content, images, outcomes>>
  BY DEF CameraTakes, mgrVars, camVars, cmdVars, showVars, infVars, histVars
<1>3. /\ owner[x] \in {"free", "data"}
      /\ imgFree' \in Seq(Singles) /\ imgData' \in Seq(Singles)
      /\ Once(imgFree', OfSingle) /\ Once(imgData', OfSingle)
      /\ FreeSet' = FreeSet \ {x} /\ DataSet' = DataSet \ {x}
      /\ TempSet \ {x} = TempSet /\ MgrSet \ {x} = MgrSet /\ InfSet \ {x} = InfSet
  BY <1>1, TakesFacts
<1>4. /\ owner' \in [ImgBufs -> ImgPlaces] /\ owner'[x] = "img"
      /\ \A b \in ImgBufs \ {x} : owner'[b] = owner[b]
  BY <1>1, AtMoves DEF BufferInv, TypesInv, QueueTypes, ImgPlaces
<1>5. Outside(FreeSet', DataSet', TempSet', MgrSet', InfSet', owner')
  <2>1. Outside(FreeSet, DataSet, TempSet, MgrSet, InfSet, owner)
    BY PlaceSplit DEF BufferInv
  <2>2. Outside(FreeSet \ {x}, DataSet \ {x}, TempSet \ {x}, MgrSet \ {x}, InfSet \ {x}, owner')
    BY <1>4, <2>1, OutsideTo
  <2>3. TempSet' = TempSet /\ MgrSet' = MgrSet /\ InfSet' = InfSet
    BY <1>2, SetsKept
  <2> QED BY <1>3, <2>2, <2>3
<1>6. x \notin CmdSet /\ Inside(QueueSet, PageSet, CmdSet \cup {x}, ShownSet, owner')
  <2>1. Inside(QueueSet, PageSet, CmdSet, ShownSet, owner) /\ owner[x] # "img"
    BY <1>3, PlaceSplit DEF BufferInv
  <2>2. x \in ImgBufs /\ owner'[x] = "img" /\ \A b \in ImgBufs \ {x} : owner'[b] = owner[b]
    BY <1>4
  <2>3. x \notin QueueSet \cup PageSet \cup CmdSet \cup ShownSet
    BY <2>1 DEF Inside
  <2>4. Inside(QueueSet, PageSet, CmdSet \cup {x}, ShownSet, owner')
    BY <2>1, <2>2, InsideEnters
  <2> QED BY <2>3, <2>4
<1>7. cmdBufs' \in Seq(ImgBufs) /\ CmdSet' = CmdSet \cup {x} /\ Once(cmdBufs', OfBuffer)
  BY <1>1, <1>6, DataFacts, QueueAppend DEF CmdSet, BufferInv, TypesInv, ThreadTypes, OnceInv
<1>8. PlaceInv'
  BY <1>2, <1>5, <1>6, <1>7, SetsKept, PlaceSplitNext
<1>9. OnceInv'
  BY <1>2, <1>3, <1>7, SetsKept DEF OnceInv, BufferInv
<1>10. TypesInv'
  BY <1>4, <1>2, <1>3, <1>7
     DEF TypesInv, BufferInv, QueueTypes, MgrTypes, CameraTypes, ThreadTypes, FrameTypes
<1> QED BY <1>8, <1>9, <1>10 DEF BufferInv

(* A START puts two buffers into the pages of a camera; those the pages    *)
(* had are lost.                                                           *)
LEMMA CameraStartsBuffers == ASSUME BufferInv, CameraStarts PROVE BufferInv'
<1> DEFINE c   == FirstOf(cmdCams)
           Old == {page[c][p] : p \in Pages}
<1>1. /\ cmdPc = "buffers" /\ Len(cmdBufs) = Cardinality(Pages)
      /\ page' = [page EXCEPT ![c] = [p \in Pages |-> cmdBufs[p + 1]]]
      /\ MoveImg(Old, "lost")
      /\ streaming' = [streaming EXCEPT ![c] = TRUE]
      /\ cmdCams' = cmdCams \ {c} /\ cmdBufs' = <<>> /\ cmdPc' = "camera"
      /\ UNCHANGED <<imgFree, imgData, tempQ, stored, storedNum, numReceived, mgrPc, solution,
                     filling, frameDone, imgQueue, showPc, shown, infPc, obj>>
      /\ UNCHANGED <<frames, content, images, outcomes>>
  BY DEF CameraStarts, imgQueues, mgrVars, showVars, infVars, histVars
<1>2. c \in Cameras
  BY <1>1, FirstIsThere DEF BufferInv, TypesInv, ThreadTypes
<1>3. Len(cmdBufs) = 2 /\ cmdBufs \in Seq(ImgBufs) /\ Once(cmdBufs, OfBuffer)
  <2>1. Cardinality(Pages) = 2
    <3>1. IsFiniteSet({0}) /\ Cardinality({0}) = 1
      BY FS_Singleton
    <3>2. Cardinality({0} \cup {1}) = IF 1 \in {0} THEN Cardinality({0}) ELSE Cardinality({0}) + 1
      BY <3>1, FS_AddElement
    <3>3. Pages = {0} \cup {1}
      BY Values
    <3> QED BY <3>1, <3>2, <3>3
  <2> QED BY <1>1, <2>1 DEF BufferInv, TypesInv, ThreadTypes, OnceInv
<1>4. /\ cmdBufs[1] \in ImgBufs /\ cmdBufs[2] \in ImgBufs /\ cmdBufs[1] # cmdBufs[2]
      /\ CmdSet = {cmdBufs[1], cmdBufs[2]}
  <2>1. DOMAIN cmdBufs = {1, 2} /\ cmdBufs[1] \in ImgBufs /\ cmdBufs[2] \in ImgBufs
    BY <1>3
  <2>2. OfBuffer[cmdBufs[1]] = cmdBufs[1] /\ OfBuffer[cmdBufs[2]] = cmdBufs[2]
    BY <2>1, DataFacts
  <2>3. cmdBufs[1] # cmdBufs[2]
    BY <1>3, <2>1, <2>2 DEF Once
  <2>4. CmdSet = {cmdBufs[1], cmdBufs[2]}
    BY <2>1, <2>2 DEF CmdSet, Bufs
  <2> QED BY <2>1, <2>3, <2>4
<1> HIDE DEF c, Old
<1>5. page \in [Cameras -> [Pages -> ImgBufs \cup {NULL}]]
  BY DEF BufferInv, TypesInv, CameraTypes
<1>6. /\ page' \in [Cameras -> [Pages -> ImgBufs \cup {NULL}]]
      /\ page'[c][0] = cmdBufs[1] /\ page'[c][1] = cmdBufs[2]
      /\ \A d \in Cameras \ {c} : page'[d] = page[d]
  <2>1. [p \in Pages |-> cmdBufs[p + 1]] \in [Pages -> ImgBufs \cup {NULL}]
    BY <1>4, Values
  <2>2. page'[c] = [p \in Pages |-> cmdBufs[p + 1]]
    BY <1>1, <1>2, <1>5
  <2>3. page'[c][0] = cmdBufs[1] /\ page'[c][1] = cmdBufs[2]
    BY <2>2, Values
  <2> QED BY <1>1, <1>2, <1>5, <2>1, <2>3
<1>7. Old \cap ImgBufs \subseteq PageSet
  BY <1>2, PageFacts, Values DEF Old, BufferInv, TypesInv
<1>8. \A b \in ImgBufs : owner'[b] = IF b \in Old THEN "lost" ELSE owner[b]
  BY <1>1 DEF MoveImg
<1>9. \A cp \in Taken : cp \in Cameras \X Pages /\ page[cp[1]][cp[2]] # NULL
  BY DEF Taken
<1>10. \A cp \in Taken : cp[1] # c => page[cp[1]][cp[2]] \notin Old
  <2> SUFFICES ASSUME NEW cp \in Taken, cp[1] # c, NEW p \in Pages,
                      page[cp[1]][cp[2]] = page[c][p]
               PROVE  FALSE
    BY DEF Old
  <2>1. <<c, p>> \in Taken /\ <<c, p>>[1] = c /\ <<c, p>>[2] = p
    BY <1>2, <1>9 DEF Taken
  <2>2. <<c, p>> = cp
    BY <2>1 DEF BufferInv, OnceInv, PageOnce
  <2> QED BY <2>1, <2>2
<1>11. \A cp \in Taken' : \/ cp = <<c, 0>> \/ cp = <<c, 1>>
                          \/ cp[1] # c /\ cp \in Taken /\ page'[cp[1]][cp[2]] = page[cp[1]][cp[2]]
  <2> SUFFICES ASSUME NEW d \in Cameras, NEW p \in Pages, page'[d][p] # NULL
               PROVE  \/ <<d, p>> = <<c, 0>> \/ <<d, p>> = <<c, 1>>
                      \/ d # c /\ <<d, p>> \in Taken /\ page'[d][p] = page[d][p]
    BY DEF Taken
  <2>1. CASE d = c
    BY <2>1, Values
  <2>2. CASE d # c
    BY <1>6, <2>2 DEF Taken
  <2> QED BY <2>1, <2>2
<1>12. <<c, 0>> \in Taken' /\ <<c, 1>> \in Taken'
  <2>1. page'[c][0] # NULL /\ page'[c][1] # NULL /\ 0 \in Pages /\ 1 \in Pages
    BY <1>4, <1>6, Values
  <2> QED BY <1>2, <2>1 DEF Taken
<1>13. \A cp \in Taken : cp[1] # c => cp \in Taken' /\ page'[cp[1]][cp[2]] = page[cp[1]][cp[2]]
  BY <1>6, <1>9 DEF Taken
<1>14. PageSet' = (PageSet \ Old) \cup CmdSet
  <2>1. ASSUME NEW b \in PageSet' PROVE b \in (PageSet \ Old) \cup CmdSet
    <3>1. PICK cp \in Taken' : b = page'[cp[1]][cp[2]]
      BY DEF PageSet
    <3>2. CASE cp = <<c, 0>> \/ cp = <<c, 1>>
      BY <1>4, <1>6, <3>1, <3>2
    <3>3. CASE cp[1] # c /\ cp \in Taken /\ page'[cp[1]][cp[2]] = page[cp[1]][cp[2]]
      BY <1>10, <3>1, <3>3 DEF PageSet
    <3> QED BY <1>11, <3>2, <3>3
  <2>2. ASSUME NEW b \in PageSet \ Old PROVE b \in PageSet'
    <3>1. PICK cp \in Taken : b = page[cp[1]][cp[2]]
      BY DEF PageSet
    <3>2. cp[1] # c
      <4> SUFFICES ASSUME cp[1] = c PROVE FALSE
        OBVIOUS
      <4>1. b = page[c][cp[2]] /\ cp[2] \in Pages
        BY <1>9, <3>1
      <4> QED BY <4>1 DEF Old
    <3> QED BY <1>13, <3>1, <3>2 DEF PageSet
  <2>3. \A cp \in Taken' : page'[cp[1]][cp[2]] \in PageSet'
    BY DEF PageSet
  <2>4. cmdBufs[1] \in PageSet' /\ cmdBufs[2] \in PageSet'
    <3>1. /\ <<c, 0>>[1] = c /\ <<c, 0>>[2] = 0 /\ <<c, 1>>[1] = c /\ <<c, 1>>[2] = 1
      OBVIOUS
    <3>2. page'[c][0] \in PageSet' /\ page'[c][1] \in PageSet'
      BY <1>12, <2>3, <3>1
    <3> QED BY <1>6, <3>2
  <2> QED BY <1>4, <2>1, <2>2, <2>4
<1>15. PageSet \cap CmdSet = {}
  BY DEF BufferInv, PlaceInv
<1>16. PageOnce'
  <2> SUFFICES ASSUME NEW x \in Taken', NEW y \in Taken',
                      page'[x[1]][x[2]] = page'[y[1]][y[2]]
               PROVE  x = y
    BY DEF PageOnce
  <2>1. \A z \in Taken' : \/ z = <<c, 0>> /\ page'[z[1]][z[2]] = cmdBufs[1]
                          \/ z = <<c, 1>> /\ page'[z[1]][z[2]] = cmdBufs[2]
                          \/ /\ z \in Taken /\ page'[z[1]][z[2]] = page[z[1]][z[2]]
                             /\ page[z[1]][z[2]] \notin CmdSet
    <3> SUFFICES ASSUME NEW z \in Taken'
                 PROVE  \/ z = <<c, 0>> /\ page'[z[1]][z[2]] = cmdBufs[1]
                        \/ z = <<c, 1>> /\ page'[z[1]][z[2]] = cmdBufs[2]
                        \/ /\ z \in Taken /\ page'[z[1]][z[2]] = page[z[1]][z[2]]
                           /\ page[z[1]][z[2]] \notin CmdSet
      OBVIOUS
    <3>1. CASE z = <<c, 0>>
      BY <1>6, <3>1
    <3>2. CASE z = <<c, 1>>
      BY <1>6, <3>2
    <3>3. CASE z[1] # c /\ z \in Taken /\ page'[z[1]][z[2]] = page[z[1]][z[2]]
      <4>1. page[z[1]][z[2]] \in PageSet
        BY <3>3 DEF PageSet
      <4> QED BY <1>15, <3>3, <4>1
    <3> QED BY <1>11, <3>1, <3>2, <3>3
  <2>2. \A v, w \in Taken : page[v[1]][v[2]] = page[w[1]][w[2]] => v = w
    BY DEF BufferInv, OnceInv, PageOnce
  <2> QED BY <1>4, <2>1, <2>2
<1>17. CmdSet' = {} /\ Once(cmdBufs', OfBuffer)
  BY <1>1, EmptyQueue DEF CmdSet
<1>18. /\ Outside(FreeSet, DataSet, TempSet, MgrSet, InfSet, owner)
       /\ Inside(QueueSet, PageSet, CmdSet, ShownSet, owner)
  BY PlaceSplit DEF BufferInv
<1>19. \A b \in Old \cap ImgBufs : owner[b] = "img"
  BY <1>7, <1>18 DEF Inside
<1>20. Outside(FreeSet, DataSet, TempSet, MgrSet, InfSet, owner')
  <2>1. \A p \in {"free", "data", "temp", "mgr", "inf"} :
          {b \in ImgBufs : owner'[b] = p} = {b \in ImgBufs : owner[b] = p}
    BY <1>8, <1>19
  <2>2. \A b \in ImgBufs : owner'[b] \in {"free", "data", "temp", "mgr", "inf", "img", "lost"}
    BY <1>8, <1>18 DEF Outside
  <2> QED BY <1>18, <2>1, <2>2 DEF Outside
<1>21. Inside(QueueSet, (PageSet \ Old) \cup CmdSet, {}, ShownSet, owner')
  <2>1. PageSet \subseteq ImgBufs
    BY PageFacts DEF BufferInv, TypesInv
  <2>2. QueueSet \cup ((PageSet \ Old) \cup CmdSet) \cup {} \cup ShownSet
          = {b \in ImgBufs : owner'[b] = "img"}
    BY <1>7, <1>8, <1>18, <2>1 DEF Inside
  <2> QED BY <1>18, <2>2 DEF Inside
<1>22. PlaceInv'
  <2>1. /\ FreeSet' = FreeSet /\ DataSet' = DataSet /\ TempSet' = TempSet /\ MgrSet' = MgrSet
        /\ InfSet' = InfSet /\ QueueSet' = QueueSet /\ ShownSet' = ShownSet
    BY <1>1, SetsKept
  <2> QED BY <1>14, <1>17, <1>20, <1>21, <2>1, PlaceSplitNext
<1>23. OnceInv'
  BY <1>1, <1>16, <1>17 DEF OnceInv, BufferInv
<1>24. QueueTypes' /\ MgrTypes' /\ FrameTypes'
  <2>1. owner' \in [ImgBufs -> ImgPlaces]
    BY <1>1 DEF MoveImg, ImgPlaces, BufferInv, TypesInv, QueueTypes
  <2> QED BY <1>1, <2>1 DEF BufferInv, TypesInv, QueueTypes, MgrTypes, FrameTypes
<1>25. CameraTypes'
  <2>1. \A d \in Cameras : streaming'[d] => \A p \in Pages : page'[d][p] \in ImgBufs
    <3> SUFFICES ASSUME NEW d \in Cameras, streaming'[d], NEW p \in Pages
                 PROVE  page'[d][p] \in ImgBufs
      OBVIOUS
    <3>1. CASE d = c
      BY <1>4, <1>6, <3>1, Values
    <3>2. CASE d # c
      BY <1>1, <1>2, <1>6, <3>2 DEF BufferInv, TypesInv, CameraTypes
    <3> QED BY <3>1, <3>2
  <2>2. streaming' \in [Cameras -> BOOLEAN]
    BY <1>1 DEF BufferInv, TypesInv, CameraTypes
  <2>3. \A d \in Cameras : frameDone'[d] # NoPage => streaming'[d]
    BY <1>1, <1>2 DEF BufferInv, TypesInv, CameraTypes
  <2> QED BY <1>1, <1>6, <2>1, <2>2, <2>3 DEF BufferInv, TypesInv, CameraTypes
<1>26. ThreadTypes'
  BY <1>1 DEF BufferInv, TypesInv, ThreadTypes
<1> QED BY <1>22, <1>23, <1>24, <1>25, <1>26 DEF BufferInv, TypesInv

LEMMA ShownFacts ==
  ASSUME TypesInv
  PROVE  /\ showPc \in {"get", "gone"} => ShownSet = {} /\ shown = NoImage
         /\ showPc \notin {"get", "gone"} =>
              /\ shown \in Images /\ shown.buf \in ImgBufs /\ ShownSet = {shown.buf}
<1>1. CASE showPc \in {"get", "gone"}
  BY <1>1, Values DEF TypesInv, ThreadTypes, ShownSet
<1>2. CASE showPc \notin {"get", "gone"}
  <2>1. shown \in Images
    BY <1>2 DEF TypesInv, ThreadTypes
  <2>2. shown.buf \in ImgBufs /\ shown.buf # NULL
    BY <2>1, DataFacts
  <2> QED BY <1>2, <2>1, <2>2 DEF ShownSet
<1> QED BY <1>1, <1>2

LEMMA ShowGetBuffers == ASSUME BufferInv, ShowGet PROVE BufferInv'
<1> DEFINE r == Head(imgQueue)
<1>1. /\ showPc = "get" /\ imgQueue # <<>> /\ shown' = r /\ imgQueue' = Tail(imgQueue)
      /\ showPc' = "got"
      /\ UNCHANGED <<imgFree, imgData, tempQ, owner, stored, storedNum, numReceived, mgrPc, solution,
                     page, filling, frameDone, streaming, cmdPc, cmdCams, cmdBufs, infPc, obj>>
      /\ UNCHANGED <<frames, content, images, outcomes>>
  BY DEF ShowGet, queueVars, restOfShow, camVars, cmdVars, infVars, histVars
<1>2. /\ r \in Images /\ imgQueue' \in Seq(Images) /\ OfRecord[r] \in QueueSet
      /\ QueueSet' = QueueSet \ {OfRecord[r]} /\ Once(imgQueue', OfRecord)
  BY <1>1, QueueTail DEF QueueSet, BufferInv, TypesInv, QueueTypes, OnceInv
<1> HIDE DEF r
<1>3. OfRecord[r] = r.buf /\ r.buf \in ImgBufs /\ r.buf # NULL
  BY <1>2, DataFacts
<1>4. ShownSet = {} /\ ShownSet' = {r.buf}
  BY <1>1, <1>3, ShownFacts DEF ShownSet, BufferInv
<1>5. PlaceInv'
  <2>1. /\ Outside(FreeSet, DataSet, TempSet, MgrSet, InfSet, owner)
        /\ Inside(QueueSet, PageSet, CmdSet, ShownSet, owner)
    BY PlaceSplit DEF BufferInv
  <2>2. Inside(QueueSet \ {r.buf}, PageSet, CmdSet, {r.buf}, owner)
    <3>1. (QueueSet \ {r.buf}) \cup PageSet \cup CmdSet \cup {r.buf}
            = {b \in ImgBufs : owner[b] = "img"}
      BY <1>2, <1>3, <1>4, <2>1 DEF Inside
    <3> QED BY <1>2, <1>3, <2>1, <3>1 DEF Inside
  <2>3. /\ FreeSet' = FreeSet /\ DataSet' = DataSet /\ TempSet' = TempSet /\ MgrSet' = MgrSet
        /\ InfSet' = InfSet /\ PageSet' = PageSet /\ CmdSet' = CmdSet
    BY <1>1, SetsKept
  <2> QED BY <1>1, <1>2, <1>3, <1>4, <2>1, <2>2, <2>3, PlaceSplitNext
<1>6. OnceInv'
  BY <1>1, <1>2, SetsKept DEF OnceInv, BufferInv
<1>7. ThreadTypes'
  BY <1>1, <1>2 DEF BufferInv, TypesInv, ThreadTypes
<1>8. QueueTypes' /\ MgrTypes' /\ CameraTypes' /\ FrameTypes'
  BY <1>1, <1>2 DEF BufferInv, TypesInv, QueueTypes, MgrTypes, CameraTypes, FrameTypes
<1> QED BY <1>5, <1>6, <1>7, <1>8 DEF BufferInv, TypesInv

LEMMA ShowReturnsBuffers == ASSUME BufferInv, ShowReturns PROVE BufferInv'
<1>1. /\ showPc = "cut" /\ shown' = NoImage /\ showPc' = "gone" /\ MoveImg({shown.buf}, "lost")
      /\ UNCHANGED <<imgFree, imgData, tempQ, stored, storedNum, numReceived, mgrPc, solution,
                     page, filling, frameDone, streaming, imgQueue, cmdPc, cmdCams, cmdBufs, infPc, obj>>
      /\ UNCHANGED <<frames, content, images, outcomes>>
  BY DEF ShowReturns, imgQueues, mgrVars, restOfShow, camVars, cmdVars, infVars, histVars
<1>2. shown.buf \in ImgBufs /\ ShownSet = {shown.buf}
  BY <1>1, ShownFacts DEF BufferInv
<1>0. PICK x \in ImgBufs : x = shown.buf
  BY <1>2
<1>3. ShownSet' = {}
  BY <1>1, Values DEF ShownSet
<1>4. /\ owner' \in [ImgBufs -> ImgPlaces] /\ owner'[x] = "lost"
      /\ \A b \in ImgBufs \ {x} : owner'[b] = owner[b]
  BY <1>1, <1>0, AtMoves DEF BufferInv, TypesInv, QueueTypes, ImgPlaces
<1>5. PlaceInv'
  <2>1. /\ Outside(FreeSet, DataSet, TempSet, MgrSet, InfSet, owner)
        /\ Inside(QueueSet, PageSet, CmdSet, ShownSet, owner)
    BY PlaceSplit DEF BufferInv
  <2>2. owner[x] = "img"
    BY <1>2, <1>0, <2>1 DEF Inside
  <2>3. Outside(FreeSet \ {x}, DataSet \ {x}, TempSet \ {x},
                MgrSet \ {x}, InfSet \ {x}, owner')
    BY <1>4, <2>1, OutsideTo
  <2>4. /\ FreeSet \ {x} = FreeSet /\ DataSet \ {x} = DataSet
        /\ TempSet \ {x} = TempSet /\ MgrSet \ {x} = MgrSet
        /\ InfSet \ {x} = InfSet
    BY <2>1, <2>2 DEF Outside
  <2>5. Inside(QueueSet \ {x}, PageSet \ {x}, CmdSet \ {x},
               ShownSet \ {x}, owner')
    BY <1>2, <1>0, <1>4, <2>1, InsideLeaves
  <2>6. /\ QueueSet \ {x} = QueueSet /\ PageSet \ {x} = PageSet
        /\ CmdSet \ {x} = CmdSet /\ ShownSet \ {x} = {}
    BY <1>2, <1>0, <2>1 DEF Inside
  <2>7. /\ FreeSet' = FreeSet /\ DataSet' = DataSet /\ TempSet' = TempSet /\ MgrSet' = MgrSet
        /\ InfSet' = InfSet /\ QueueSet' = QueueSet /\ PageSet' = PageSet /\ CmdSet' = CmdSet
    BY <1>1, SetsKept
  <2> QED BY <1>3, <2>3, <2>4, <2>5, <2>6, <2>7, PlaceSplitNext
<1>6. OnceInv'
  BY <1>1, SetsKept DEF OnceInv, BufferInv
<1>7. ThreadTypes'
  BY <1>1 DEF BufferInv, TypesInv, ThreadTypes
<1>8. QueueTypes' /\ MgrTypes' /\ CameraTypes' /\ FrameTypes'
  BY <1>1, <1>4 DEF BufferInv, TypesInv, QueueTypes, MgrTypes, CameraTypes, FrameTypes
<1> QED BY <1>5, <1>6, <1>7, <1>8 DEF BufferInv, TypesInv

(* A buffer is put into the free queue, ...                                *)
LEMMA PutsFree ==
  ASSUME BufferInv, NEW x \in ImgBufs, image_put_free_buffer(x), owner[x] # "free"
  PROVE  /\ imgFree' \in Seq(Singles) /\ FreeSet' = FreeSet \cup {x} /\ Once(imgFree', OfSingle)
         /\ owner' \in [ImgBufs -> ImgPlaces] /\ owner'[x] = "free"
         /\ \A b \in ImgBufs \ {x} : owner'[b] = owner[b]
<1>1. imgFree' = Append(imgFree, <<x>>) /\ MoveImg({x}, "free")
  BY DEF image_put_free_buffer
<1>2. x \notin FreeSet /\ imgFree \in Seq(Singles) /\ Once(imgFree, OfSingle)
      /\ owner \in [ImgBufs -> ImgPlaces]
  BY NowhereElse DEF BufferInv, TypesInv, QueueTypes, OnceInv
<1>3. /\ owner' \in [ImgBufs -> ImgPlaces] /\ owner'[x] = "free"
      /\ \A b \in ImgBufs \ {x} : owner'[b] = owner[b]
  BY <1>1, <1>2, AtMoves DEF ImgPlaces
<1>4. <<x>> \in Singles /\ OfSingle[<<x>>] = x
  BY DataFacts
<1>5. imgFree' \in Seq(Singles) /\ FreeSet' = FreeSet \cup {x} /\ Once(imgFree', OfSingle)
  BY <1>1, <1>2, <1>4, QueueAppend DEF FreeSet
<1> QED BY <1>3, <1>5

(* ... or into the one of buf_mgr.                                         *)
LEMMA PutsTemp ==
  ASSUME BufferInv, NEW x \in ImgBufs, image_enqueue(1, 0, x), owner[x] # "temp"
  PROVE  /\ tempQ' \in Seq(Received) /\ TempSet' = TempSet \cup {x} /\ Once(tempQ', OfRecord)
         /\ owner' \in [ImgBufs -> ImgPlaces] /\ owner'[x] = "temp"
         /\ \A b \in ImgBufs \ {x} : owner'[b] = owner[b]
<1>1. tempQ' = Append(tempQ, [total |-> 1, index |-> 0, buf |-> x]) /\ MoveImg({x}, "temp")
  BY DEF image_enqueue
<1>2. x \notin TempSet /\ tempQ \in Seq(Received) /\ Once(tempQ, OfRecord)
      /\ owner \in [ImgBufs -> ImgPlaces]
  BY NowhereElse DEF BufferInv, TypesInv, QueueTypes, OnceInv
<1>3. /\ owner' \in [ImgBufs -> ImgPlaces] /\ owner'[x] = "temp"
      /\ \A b \in ImgBufs \ {x} : owner'[b] = owner[b]
  BY <1>1, <1>2, AtMoves DEF ImgPlaces
<1>4. /\ [total |-> 1, index |-> 0, buf |-> x] \in Received
      /\ OfRecord[[total |-> 1, index |-> 0, buf |-> x]] = x
  BY DataFacts
<1>5. tempQ' \in Seq(Received) /\ TempSet' = TempSet \cup {x} /\ Once(tempQ', OfRecord)
  BY <1>1, <1>2, <1>4, QueueAppend DEF TempSet
<1> QED BY <1>3, <1>5

LEMMA ShowReleasesBuffers == ASSUME BufferInv, ShowReleases PROVE BufferInv'
<1>1. /\ showPc = "sent" /\ shown' = NoImage /\ showPc' = "get"
      /\ \/ image_put_free_buffer(shown.buf) /\ UNCHANGED tempQ
         \/ image_enqueue(1, 0, shown.buf) /\ UNCHANGED imgFree
      /\ UNCHANGED <<imgData, stored, storedNum, numReceived, mgrPc, solution,
                     page, filling, frameDone, streaming, imgQueue, cmdPc, cmdCams, cmdBufs, infPc, obj>>
      /\ UNCHANGED <<frames, content, images, outcomes>>
  BY DEF ShowReleases, mgrVars, restOfShow, camVars, cmdVars, infVars, histVars
<1>2. shown.buf \in ImgBufs /\ ShownSet = {shown.buf}
  BY <1>1, ShownFacts DEF BufferInv
<1>3. PICK x \in ImgBufs : x = shown.buf
  BY <1>2
<1>4. ShownSet' = {}
  BY <1>1, Values DEF ShownSet
<1>5. /\ Outside(FreeSet, DataSet, TempSet, MgrSet, InfSet, owner)
      /\ Inside(QueueSet, PageSet, CmdSet, ShownSet, owner)
  BY PlaceSplit DEF BufferInv
<1>6. owner[x] = "img"
  BY <1>2, <1>3, <1>5 DEF Inside
<1>7. /\ FreeSet \ {x} = FreeSet /\ DataSet \ {x} = DataSet /\ TempSet \ {x} = TempSet
      /\ MgrSet \ {x} = MgrSet /\ InfSet \ {x} = InfSet
  BY <1>5, <1>6 DEF Outside
<1>8. /\ QueueSet \ {x} = QueueSet /\ PageSet \ {x} = PageSet
      /\ CmdSet \ {x} = CmdSet /\ ShownSet \ {x} = {}
  BY <1>2, <1>3, <1>5 DEF Inside
<1>9. /\ DataSet' = DataSet /\ MgrSet' = MgrSet /\ InfSet' = InfSet /\ QueueSet' = QueueSet
      /\ PageSet' = PageSet /\ CmdSet' = CmdSet
  BY <1>1, SetsKept
<1>10. ASSUME image_put_free_buffer(x), UNCHANGED tempQ
       PROVE  /\ Outside(FreeSet', DataSet', TempSet', MgrSet', InfSet', owner')
              /\ owner' \in [ImgBufs -> ImgPlaces] /\ owner'[x] = "free"
              /\ \A b \in ImgBufs \ {x} : owner'[b] = owner[b]
              /\ imgFree' \in Seq(Singles) /\ tempQ' \in Seq(Received)
              /\ Once(imgFree', OfSingle) /\ Once(tempQ', OfRecord)
  <2>1. /\ imgFree' \in Seq(Singles) /\ FreeSet' = FreeSet \cup {x} /\ Once(imgFree', OfSingle)
        /\ owner' \in [ImgBufs -> ImgPlaces] /\ owner'[x] = "free"
        /\ \A b \in ImgBufs \ {x} : owner'[b] = owner[b]
    BY <1>6, <1>10, PutsFree
  <2>2. TempSet' = TempSet
    BY <1>10, SetsKept
  <2>3. Outside(FreeSet \cup {x}, DataSet \ {x}, TempSet \ {x}, MgrSet \ {x}, InfSet \ {x}, owner')
    BY <1>5, <2>1, OutsideTo
  <2> QED BY <1>7, <1>9, <1>10, <2>1, <2>2, <2>3 DEF BufferInv, TypesInv, QueueTypes, OnceInv
<1>11. ASSUME image_enqueue(1, 0, x), UNCHANGED imgFree
       PROVE  /\ Outside(FreeSet', DataSet', TempSet', MgrSet', InfSet', owner')
              /\ owner' \in [ImgBufs -> ImgPlaces] /\ owner'[x] = "temp"
              /\ \A b \in ImgBufs \ {x} : owner'[b] = owner[b]
              /\ imgFree' \in Seq(Singles) /\ tempQ' \in Seq(Received)
              /\ Once(imgFree', OfSingle) /\ Once(tempQ', OfRecord)
  <2>1. /\ tempQ' \in Seq(Received) /\ TempSet' = TempSet \cup {x} /\ Once(tempQ', OfRecord)
        /\ owner' \in [ImgBufs -> ImgPlaces] /\ owner'[x] = "temp"
        /\ \A b \in ImgBufs \ {x} : owner'[b] = owner[b]
    BY <1>6, <1>11, PutsTemp
  <2>2. FreeSet' = FreeSet
    BY <1>11, SetsKept
  <2>3. Outside(FreeSet \ {x}, DataSet \ {x}, TempSet \cup {x}, MgrSet \ {x}, InfSet \ {x}, owner')
    BY <1>5, <2>1, OutsideTo
  <2> QED BY <1>7, <1>9, <1>11, <2>1, <2>2, <2>3 DEF BufferInv, TypesInv, QueueTypes, OnceInv
<1>12. /\ Outside(FreeSet', DataSet', TempSet', MgrSet', InfSet', owner')
       /\ owner' \in [ImgBufs -> ImgPlaces] /\ owner'[x] # "img"
       /\ \A b \in ImgBufs \ {x} : owner'[b] = owner[b]
       /\ imgFree' \in Seq(Singles) /\ tempQ' \in Seq(Received)
       /\ Once(imgFree', OfSingle) /\ Once(tempQ', OfRecord)
  BY <1>1, <1>3, <1>10, <1>11
<1>13. PlaceInv'
  <2>1. Inside(QueueSet \ {x}, PageSet \ {x}, CmdSet \ {x}, ShownSet \ {x}, owner')
    BY <1>5, <1>12, InsideLeaves
  <2> QED BY <1>4, <1>8, <1>9, <1>12, <2>1, PlaceSplitNext
<1>14. OnceInv'
  BY <1>1, <1>12, SetsKept DEF OnceInv, BufferInv
<1>15. ThreadTypes'
  BY <1>1 DEF BufferInv, TypesInv, ThreadTypes
<1>16. QueueTypes' /\ MgrTypes' /\ CameraTypes' /\ FrameTypes'
  BY <1>1, <1>12 DEF BufferInv, TypesInv, QueueTypes, MgrTypes, CameraTypes, FrameTypes
<1> QED BY <1>13, <1>14, <1>15, <1>16 DEF BufferInv, TypesInv

(* The object of the dispatcher.                                           *)
LEMMA ObjectFacts ==
  ASSUME TypesInv
  PROVE  /\ infPc = "get" => obj = <<>> /\ InfSet = {}
         /\ infPc # "get" => obj[1] \in ImgBufs /\ obj = <<obj[1]>> /\ InfSet = {obj[1]}
<1>1. CASE infPc = "get"
  BY <1>1, EmptyQueue DEF TypesInv, ThreadTypes, InfSet
<1>2. CASE infPc # "get"
  <2>1. obj \in Seq(ImgBufs) /\ Len(obj) = 1
    BY <1>2 DEF TypesInv, ThreadTypes
  <2>2. obj[1] \in ImgBufs /\ obj = <<obj[1]>>
    BY <2>1
  <2> QED BY <1>2, <2>2, SingleQueue DEF InfSet
<1> QED BY <1>1, <1>2

LEMMA InfGetBuffers == ASSUME BufferInv, InfGet PROVE BufferInv'
<1> DEFINE o == Head(imgData)
<1>1. /\ infPc = "get" /\ infPc' = "result" /\ obj' = o
      /\ imgData # <<>> /\ imgData' = Tail(imgData) /\ MoveImg(BufsOf(o), "inf")
      /\ UNCHANGED <<imgFree, tempQ, stored, storedNum, numReceived, mgrPc, solution, page, filling,
                     frameDone, streaming, imgQueue, cmdPc, cmdCams, cmdBufs, showPc, shown>>
      /\ UNCHANGED <<frames, content, images, outcomes>>
  BY DEF InfGet, image_dequeue, mgrVars, restOfInf, camVars, cmdVars, showVars, histVars
<1>2. /\ o \in Singles /\ imgData' \in Seq(Singles) /\ OfSingle[o] \in DataSet
      /\ DataSet' = DataSet \ {OfSingle[o]} /\ Once(imgData', OfSingle)
  BY <1>1, QueueTail DEF DataSet, BufferInv, TypesInv, QueueTypes, OnceInv
<1> HIDE DEF o
<1>3. PICK x \in ImgBufs : x = OfSingle[o] /\ o = <<x>> /\ BufsOf(o) = {x}
  BY <1>2, DataFacts
<1>4. /\ Outside(FreeSet, DataSet, TempSet, MgrSet, InfSet, owner)
      /\ Inside(QueueSet, PageSet, CmdSet, ShownSet, owner)
  BY PlaceSplit DEF BufferInv
<1>5. /\ owner' \in [ImgBufs -> ImgPlaces] /\ owner'[x] = "inf"
      /\ \A b \in ImgBufs \ {x} : owner'[b] = owner[b]
  BY <1>1, <1>3, AtMoves DEF BufferInv, TypesInv, QueueTypes, ImgPlaces
<1>6. owner[x] = "data" /\ InfSet = {} /\ InfSet' = {x}
  <2>1. owner[x] = "data"
    BY <1>2, <1>3, <1>4 DEF Outside
  <2>2. InfSet = {}
    BY <1>1, ObjectFacts DEF BufferInv
  <2>3. InfSet' = {x}
    BY <1>1, <1>3, SingleQueue DEF InfSet
  <2> QED BY <2>1, <2>2, <2>3
<1>7. PlaceInv'
  <2>1. Outside(FreeSet \ {x}, DataSet \ {x}, TempSet \ {x}, MgrSet \ {x}, InfSet \cup {x}, owner')
    BY <1>4, <1>5, OutsideTo
  <2>2. FreeSet \ {x} = FreeSet /\ TempSet \ {x} = TempSet /\ MgrSet \ {x} = MgrSet
    BY <1>4, <1>6 DEF Outside
  <2>3. Inside(QueueSet, PageSet, CmdSet, ShownSet, owner')
    BY <1>4, <1>5, <1>6, InsideStays
  <2>4. /\ FreeSet' = FreeSet /\ TempSet' = TempSet /\ MgrSet' = MgrSet /\ QueueSet' = QueueSet
        /\ PageSet' = PageSet /\ CmdSet' = CmdSet /\ ShownSet' = ShownSet
    BY <1>1, SetsKept
  <2> QED BY <1>2, <1>3, <1>6, <2>1, <2>2, <2>3, <2>4, PlaceSplitNext
<1>8. OnceInv'
  BY <1>1, <1>2, SetsKept DEF OnceInv, BufferInv
<1>9. ThreadTypes'
  <2>1. obj' \in Seq(ImgBufs) /\ Len(obj') = 1
    BY <1>1, <1>3
  <2> QED BY <1>1, <2>1 DEF BufferInv, TypesInv, ThreadTypes
<1>10. QueueTypes' /\ MgrTypes' /\ CameraTypes' /\ FrameTypes'
  BY <1>1, <1>2, <1>5 DEF BufferInv, TypesInv, QueueTypes, MgrTypes, CameraTypes, FrameTypes
<1> QED BY <1>7, <1>8, <1>9, <1>10 DEF BufferInv, TypesInv

LEMMA InfPutBuffers == ASSUME BufferInv, InfPut PROVE BufferInv'
<1>1. /\ infPc = "put" /\ infPc' = "get" /\ obj' = <<>> /\ image_put_free_buffer(obj[1])
      /\ UNCHANGED <<imgData, tempQ, stored, storedNum, numReceived, mgrPc, solution, page, filling,
                     frameDone, streaming, imgQueue, cmdPc, cmdCams, cmdBufs, showPc, shown>>
      /\ UNCHANGED <<frames, content, images, outcomes>>
  BY DEF InfPut, mgrVars, restOfInf, camVars, cmdVars, showVars, histVars
<1>2. obj[1] \in ImgBufs /\ InfSet = {obj[1]}
  BY <1>1, ObjectFacts DEF BufferInv
<1>3. PICK x \in ImgBufs : x = obj[1]
  BY <1>2
<1>4. /\ Outside(FreeSet, DataSet, TempSet, MgrSet, InfSet, owner)
      /\ Inside(QueueSet, PageSet, CmdSet, ShownSet, owner)
  BY PlaceSplit DEF BufferInv
<1>5. owner[x] = "inf" /\ InfSet' = {}
  <2>1. owner[x] = "inf"
    BY <1>2, <1>3, <1>4 DEF Outside
  <2> QED BY <1>1, <2>1, EmptyQueue DEF InfSet
<1>6. /\ imgFree' \in Seq(Singles) /\ FreeSet' = FreeSet \cup {x} /\ Once(imgFree', OfSingle)
      /\ owner' \in [ImgBufs -> ImgPlaces] /\ owner'[x] = "free"
      /\ \A b \in ImgBufs \ {x} : owner'[b] = owner[b]
  <2>1. image_put_free_buffer(x)
    BY <1>1, <1>3
  <2> QED BY <1>5, <2>1, PutsFree
<1>7. PlaceInv'
  <2>1. Outside(FreeSet \cup {x}, DataSet \ {x}, TempSet \ {x}, MgrSet \ {x}, InfSet \ {x}, owner')
    BY <1>4, <1>6, OutsideTo
  <2>2. DataSet \ {x} = DataSet /\ TempSet \ {x} = TempSet /\ MgrSet \ {x} = MgrSet
        /\ InfSet \ {x} = {}
    BY <1>2, <1>3, <1>4, <1>5 DEF Outside
  <2>3. Inside(QueueSet, PageSet, CmdSet, ShownSet, owner')
    BY <1>4, <1>5, <1>6, InsideStays
  <2>4. /\ DataSet' = DataSet /\ TempSet' = TempSet /\ MgrSet' = MgrSet /\ QueueSet' = QueueSet
        /\ PageSet' = PageSet /\ CmdSet' = CmdSet /\ ShownSet' = ShownSet
    BY <1>1, SetsKept
  <2> QED BY <1>5, <1>6, <2>1, <2>2, <2>3, <2>4, PlaceSplitNext
<1>8. OnceInv'
  BY <1>1, <1>6, SetsKept DEF OnceInv, BufferInv
<1>9. ThreadTypes'
  BY <1>1 DEF BufferInv, TypesInv, ThreadTypes
<1>10. QueueTypes' /\ MgrTypes' /\ CameraTypes' /\ FrameTypes'
  BY <1>1, <1>6 DEF BufferInv, TypesInv, QueueTypes, MgrTypes, CameraTypes, FrameTypes
<1> QED BY <1>7, <1>8, <1>9, <1>10 DEF BufferInv, TypesInv

LEMMA MgrFacts ==
  ASSUME MgrTypes
  PROVE  /\ mgrPc = "get" => MgrSet = {} /\ stored[0] = NULL /\ numReceived = 0
         /\ mgrPc = "enqueue" => MgrSet = {stored[0]} /\ stored[0] \in ImgBufs /\ storedNum = 1
         /\ mgrPc \in {"get", "enqueue"}
<1>1. CASE mgrPc = "get"
  BY <1>1 DEF MgrTypes, MgrSet
<1>2. CASE mgrPc = "enqueue"
  <2>1. numReceived = 1 /\ stored[0] \in ImgBufs /\ storedNum = 1
    BY <1>2 DEF MgrTypes
  <2>2. 0 .. numReceived - 1 = {0}
    BY <2>1
  <2> QED BY <1>2, <2>1, <2>2 DEF MgrSet
<1> QED BY <1>1, <1>2 DEF MgrTypes

(* buf_mgr takes an image: its object is complete with it.                 *)
LEMMA MgrGetFacts ==
  ASSUME BufferInv, MgrGet
  PROVE  /\ mgrPc = "get" /\ tempQ # <<>> /\ tempQ' = Tail(tempQ)
         /\ stored' = [stored EXCEPT ![0] = Head(tempQ).buf] /\ numReceived' = 1 /\ storedNum' = 1
         /\ mgrPc' = "enqueue" /\ MoveImg({Head(tempQ).buf}, "mgr")
         /\ UNCHANGED <<imgFree, imgData>>
<1> DEFINE r == Head(tempQ)
<1>1. mgrPc = "get" /\ tempQ # <<>> /\ stored[0] = NULL /\ numReceived = 0
  BY MgrFacts DEF MgrGet, BufferInv, TypesInv
<1>2. r \in Received
  BY <1>1 DEF BufferInv, TypesInv, QueueTypes
<1>3. r.total = 1 /\ r.index = 0
  BY <1>2, DataFacts
<1>4. stored[r.index] = NULL
  BY <1>1, <1>3
<1>5. Store(r, numReceived + 1)
  BY <1>4 DEF MgrGet
<1>6. stored' = [stored EXCEPT ![0] = r.buf] /\ numReceived' = 1 /\ mgrPc' = "enqueue"
  <2> HIDE DEF r
  <2>1. numReceived + 1 = 1
    BY <1>1
  <2>2. Store(r, 1)
    BY <1>5, <2>1
  <2> QED BY <1>3, <2>2 DEF Store
<1> QED BY <1>1, <1>3, <1>6 DEF MgrGet

LEMMA MgrGetBuffers == ASSUME BufferInv, MgrGet, BufMgr PROVE BufferInv'
<1> DEFINE r == Head(tempQ)
<1>1. /\ mgrPc = "get" /\ tempQ # <<>> /\ tempQ' = Tail(tempQ)
      /\ stored' = [stored EXCEPT ![0] = r.buf] /\ numReceived' = 1 /\ storedNum' = 1
      /\ mgrPc' = "enqueue" /\ MoveImg({r.buf}, "mgr")
      /\ UNCHANGED <<imgFree, imgData, solution, page, filling, frameDone, streaming, imgQueue,
                     cmdPc, cmdCams, cmdBufs, showPc, shown, infPc, obj>>
      /\ UNCHANGED <<frames, content, images, outcomes>>
  BY MgrGetFacts DEF BufMgr, camVars, cmdVars, showVars, infVars, histVars
<1>2. /\ r \in Received /\ tempQ' \in Seq(Received) /\ OfRecord[r] \in TempSet
      /\ TempSet' = TempSet \ {OfRecord[r]} /\ Once(tempQ', OfRecord)
  BY <1>1, QueueTail DEF TempSet, BufferInv, TypesInv, QueueTypes, OnceInv
<1> HIDE DEF r
<1>3. PICK x \in ImgBufs : x = OfRecord[r] /\ r.buf = x
  BY <1>2, DataFacts
<1>4. /\ Outside(FreeSet, DataSet, TempSet, MgrSet, InfSet, owner)
      /\ Inside(QueueSet, PageSet, CmdSet, ShownSet, owner)
  BY PlaceSplit DEF BufferInv
<1>5. /\ owner' \in [ImgBufs -> ImgPlaces] /\ owner'[x] = "mgr"
      /\ \A b \in ImgBufs \ {x} : owner'[b] = owner[b]
  BY <1>1, <1>3, AtMoves DEF BufferInv, TypesInv, QueueTypes, ImgPlaces
<1>6. MgrTypes'
  BY <1>1, <1>3 DEF MgrTypes, BufferInv, TypesInv
<1>7. owner[x] = "temp" /\ MgrSet = {} /\ MgrSet' = {x}
  <2>1. owner[x] = "temp"
    BY <1>2, <1>3, <1>4 DEF Outside
  <2>2. MgrSet = {}
    BY <1>1, MgrFacts DEF BufferInv, TypesInv
  <2>3. stored'[0] = x
    BY <1>1, <1>3 DEF BufferInv, TypesInv, MgrTypes
  <2>4. 0 .. numReceived' - 1 = {0}
    BY <1>1
  <2>5. MgrSet' = {x}
    BY <2>3, <2>4 DEF MgrSet
  <2> QED BY <2>1, <2>2, <2>5
<1>8. PlaceInv'
  <2>1. Outside(FreeSet \ {x}, DataSet \ {x}, TempSet \ {x}, MgrSet \cup {x}, InfSet \ {x}, owner')
    BY <1>4, <1>5, OutsideTo
  <2>2. FreeSet \ {x} = FreeSet /\ DataSet \ {x} = DataSet /\ InfSet \ {x} = InfSet
    BY <1>4, <1>7 DEF Outside
  <2>3. Inside(QueueSet, PageSet, CmdSet, ShownSet, owner')
    BY <1>4, <1>5, <1>7, InsideStays
  <2>4. /\ FreeSet' = FreeSet /\ DataSet' = DataSet /\ InfSet' = InfSet /\ QueueSet' = QueueSet
        /\ PageSet' = PageSet /\ CmdSet' = CmdSet /\ ShownSet' = ShownSet
    BY <1>1, SetsKept
  <2> QED BY <1>2, <1>3, <1>7, <2>1, <2>2, <2>3, <2>4, PlaceSplitNext
<1>9. OnceInv'
  BY <1>1, <1>2, SetsKept DEF OnceInv, BufferInv
<1>10. QueueTypes' /\ ThreadTypes' /\ CameraTypes' /\ FrameTypes'
  BY <1>1, <1>2, <1>5 DEF BufferInv, TypesInv, QueueTypes, ThreadTypes, CameraTypes, FrameTypes
<1> QED BY <1>6, <1>8, <1>9, <1>10 DEF BufferInv, TypesInv

LEMMA MgrEnqueueFacts ==
  ASSUME BufferInv, MgrEnqueue
  PROVE  /\ mgrPc = "enqueue" /\ stored[0] \in ImgBufs
         /\ imgData' = Append(imgData, <<stored[0]>>) /\ MoveImg({stored[0]}, "data")
         /\ stored' = [i \in {0} |-> NULL] /\ numReceived' = 0 /\ mgrPc' = "get"
         /\ UNCHANGED <<imgFree, tempQ>>
<1>1. mgrPc = "enqueue" /\ stored[0] \in ImgBufs /\ storedNum = 1
  BY MgrFacts DEF MgrEnqueue, BufferInv, TypesInv
<1>2. [k \in 1 .. storedNum |-> stored[k - 1]] = <<stored[0]>>
  BY <1>1
<1>3. BufsOf(<<stored[0]>>) = {stored[0]}
  BY <1>1, DataFacts
<1>4. imgData' = Append(imgData, <<stored[0]>>) /\ MoveImg({stored[0]}, "data")
  BY <1>2, <1>3 DEF MgrEnqueue
<1>5. stored' = [i \in {0} |-> NULL]
  BY Values DEF MgrEnqueue
<1> QED BY <1>1, <1>4, <1>5 DEF MgrEnqueue

LEMMA MgrEnqueueBuffers == ASSUME BufferInv, MgrEnqueue, BufMgr PROVE BufferInv'
<1>1. /\ mgrPc = "enqueue" /\ stored[0] \in ImgBufs
      /\ imgData' = Append(imgData, <<stored[0]>>) /\ MoveImg({stored[0]}, "data")
      /\ stored' = [i \in {0} |-> NULL] /\ numReceived' = 0 /\ mgrPc' = "get"
      /\ UNCHANGED <<imgFree, tempQ, solution, page, filling, frameDone, streaming, imgQueue,
                     cmdPc, cmdCams, cmdBufs, showPc, shown, infPc, obj>>
      /\ UNCHANGED <<frames, content, images, outcomes>>
  BY MgrEnqueueFacts DEF BufMgr, camVars, cmdVars, showVars, infVars, histVars
<1>2. PICK x \in ImgBufs : x = stored[0]
  BY <1>1
<1>3. /\ Outside(FreeSet, DataSet, TempSet, MgrSet, InfSet, owner)
      /\ Inside(QueueSet, PageSet, CmdSet, ShownSet, owner)
  BY PlaceSplit DEF BufferInv
<1>4. /\ owner' \in [ImgBufs -> ImgPlaces] /\ owner'[x] = "data"
      /\ \A b \in ImgBufs \ {x} : owner'[b] = owner[b]
  BY <1>1, <1>2, AtMoves DEF BufferInv, TypesInv, QueueTypes, ImgPlaces
<1>5. owner[x] = "mgr" /\ MgrSet = {x} /\ MgrSet' = {}
  <2>1. MgrSet = {x}
    BY <1>1, <1>2, MgrFacts DEF BufferInv, TypesInv
  <2>2. owner[x] = "mgr"
    BY <1>3, <2>1 DEF Outside
  <2>3. 0 .. numReceived' - 1 = {}
    BY <1>1
  <2> QED BY <2>1, <2>2, <2>3 DEF MgrSet
<1>6. imgData' \in Seq(Singles) /\ DataSet' = DataSet \cup {x} /\ Once(imgData', OfSingle)
  <2>1. x \notin DataSet
    BY <1>3, <1>5 DEF Outside
  <2>2. <<x>> \in Singles /\ OfSingle[<<x>>] = x /\ imgData' = Append(imgData, <<x>>)
    BY <1>1, <1>2, DataFacts
  <2> QED BY <2>1, <2>2, QueueAppend DEF DataSet, BufferInv, TypesInv, QueueTypes, OnceInv
<1>7. PlaceInv'
  <2>1. Outside(FreeSet \ {x}, DataSet \cup {x}, TempSet \ {x}, MgrSet \ {x}, InfSet \ {x}, owner')
    BY <1>3, <1>4, OutsideTo
  <2>2. FreeSet \ {x} = FreeSet /\ TempSet \ {x} = TempSet /\ InfSet \ {x} = InfSet
        /\ MgrSet \ {x} = {}
    BY <1>3, <1>5 DEF Outside
  <2>3. Inside(QueueSet, PageSet, CmdSet, ShownSet, owner')
    BY <1>3, <1>4, <1>5, InsideStays
  <2>4. /\ FreeSet' = FreeSet /\ TempSet' = TempSet /\ InfSet' = InfSet /\ QueueSet' = QueueSet
        /\ PageSet' = PageSet /\ CmdSet' = CmdSet /\ ShownSet' = ShownSet
    BY <1>1, SetsKept
  <2> QED BY <1>5, <1>6, <2>1, <2>2, <2>3, <2>4, PlaceSplitNext
<1>8. OnceInv'
  BY <1>1, <1>6, SetsKept DEF OnceInv, BufferInv
<1>9. MgrTypes'
  BY <1>1 DEF MgrTypes, BufferInv, TypesInv
<1>10. QueueTypes' /\ ThreadTypes' /\ CameraTypes' /\ FrameTypes'
  BY <1>1, <1>4, <1>6 DEF BufferInv, TypesInv, QueueTypes, ThreadTypes, CameraTypes, FrameTypes
<1> QED BY <1>7, <1>8, <1>9, <1>10 DEF BufferInv, TypesInv

LEMMA BufMgrBuffers == ASSUME BufferInv, BufMgr PROVE BufferInv'
<1>1. mgrPc # "putback"
  BY MgrFacts DEF BufferInv, TypesInv
<1>2. MgrGet \/ MgrEnqueue
  BY <1>1 DEF BufMgr, MgrNext, MgrPutBack
<1> QED BY <1>2, MgrGetBuffers, MgrEnqueueBuffers

-----------------------------------------------------------------------------
(* The interrupt.                                                          *)

(* A page gets another buffer.                                             *)
LEMMA PageSwap ==
  ASSUME CameraTypes, PageOnce, NEW c \in Cameras, NEW p \in Pages, NEW x \in ImgBufs,
         page[c][p] \in ImgBufs, x \notin PageSet,
         page' = [page EXCEPT ![c][p] = x]
  PROVE  /\ page' \in [Cameras -> [Pages -> ImgBufs \cup {NULL}]]
         /\ page'[c][p] = x
         /\ \A d \in Cameras, q \in Pages : <<d, q>> # <<c, p>> => page'[d][q] = page[d][q]
         /\ PageSet' = (PageSet \ {page[c][p]}) \cup {x}
         /\ PageOnce'
<1> DEFINE old == page[c][p]
<1>1. page \in [Cameras -> [Pages -> ImgBufs \cup {NULL}]]
  BY DEF CameraTypes
<1>2. page' \in [Cameras -> [Pages -> ImgBufs \cup {NULL}]] /\ page'[c][p] = x
  BY <1>1
<1>3. \A d \in Cameras, q \in Pages : <<d, q>> # <<c, p>> => page'[d][q] = page[d][q]
  BY <1>1
<1>4. \A cp \in Cameras \X Pages : cp # <<c, p>> => page'[cp[1]][cp[2]] = page[cp[1]][cp[2]]
  BY <1>3
<1>5. Taken' = Taken /\ <<c, p>> \in Taken
  <2>1. page[c][p] # NULL /\ x # NULL
    BY Values
  <2>2. \A cp \in Cameras \X Pages : page'[cp[1]][cp[2]] # NULL <=> page[cp[1]][cp[2]] # NULL
    <3> SUFFICES ASSUME NEW cp \in Cameras \X Pages
                 PROVE  page'[cp[1]][cp[2]] # NULL <=> page[cp[1]][cp[2]] # NULL
      OBVIOUS
    <3>1. CASE cp = <<c, p>>
      BY <1>2, <2>1, <3>1
    <3> QED BY <1>4, <3>1
  <2> QED BY <2>1, <2>2 DEF Taken
<1>6. \A cp \in Taken : cp # <<c, p>> => page[cp[1]][cp[2]] # old
  <2>1. <<c, p>>[1] = c /\ <<c, p>>[2] = p
    OBVIOUS
  <2> QED BY <1>5, <2>1 DEF PageOnce
<1>7. \A cp \in Taken : page[cp[1]][cp[2]] \in PageSet
  BY DEF PageSet
<1>8. \A cp \in Taken : cp \in Cameras \X Pages
  BY DEF Taken
<1> HIDE DEF old
<1>9. PageSet' = (PageSet \ {old}) \cup {x}
  <2>1. ASSUME NEW b \in PageSet' PROVE b \in (PageSet \ {old}) \cup {x}
    <3>1. PICK cp \in Taken : b = page'[cp[1]][cp[2]]
      BY <1>5 DEF PageSet
    <3>2. CASE cp = <<c, p>>
      BY <1>2, <3>1, <3>2
    <3>3. CASE cp # <<c, p>>
      BY <1>4, <1>6, <1>7, <1>8, <3>1, <3>3
    <3> QED BY <3>2, <3>3
  <2>2. ASSUME NEW b \in PageSet \ {old} PROVE b \in PageSet'
    <3>1. PICK cp \in Taken : b = page[cp[1]][cp[2]]
      BY DEF PageSet
    <3>2. cp # <<c, p>>
      BY <3>1 DEF old
    <3>3. b = page'[cp[1]][cp[2]] /\ cp \in Taken'
      BY <1>4, <1>5, <1>8, <3>1, <3>2
    <3> QED BY <3>3 DEF PageSet
  <2>3. x \in PageSet'
    <3>1. <<c, p>>[1] = c /\ <<c, p>>[2] = p
      OBVIOUS
    <3>2. <<c, p>> \in Taken' /\ page'[<<c, p>>[1]][<<c, p>>[2]] = x
      BY <1>2, <1>5, <3>1
    <3> QED BY <3>2 DEF PageSet
  <2> QED BY <2>1, <2>2, <2>3
<1>10. PageOnce'
  <2> SUFFICES ASSUME NEW y \in Taken, NEW z \in Taken,
                      page'[y[1]][y[2]] = page'[z[1]][z[2]]
               PROVE  y = z
    BY <1>5 DEF PageOnce
  <2>1. CASE y = <<c, p>> /\ z # <<c, p>>
    BY <1>2, <1>4, <1>7, <1>8, <2>1
  <2>2. CASE z = <<c, p>> /\ y # <<c, p>>
    BY <1>2, <1>4, <1>7, <1>8, <2>2
  <2>3. CASE z # <<c, p>> /\ y # <<c, p>>
    BY <1>4, <1>8, <2>3 DEF PageOnce
  <2> QED BY <2>1, <2>2, <2>3
<1> QED BY <1>2, <1>3, <1>9, <1>10 DEF old

(* What the interrupt works on.                                            *)
LEMMA IsrFacts ==
  ASSUME BufferInv, NEW c \in Cameras, kdrv_dpi2ahb_irqhandler(c)
  PROVE  /\ UNCHANGED <<stored, storedNum, numReceived, mgrPc, solution, filling, streaming, cmdPc,
                        cmdCams, cmdBufs, showPc, shown, infPc, obj>>
         /\ UNCHANGED <<frames, content, images, outcomes, restarted>>
         /\ frameDone' = [frameDone EXCEPT ![c] = NoPage]
         /\ \/ UNCHANGED <<imgFree, imgData, imgQueue, page, owner, tempQ>>
            \/ /\ frameDone[c] \in Pages /\ Done(c) \in ImgBufs /\ Done(c) \in PageSet
               /\ Coming(c, Done(c))
<1>1. /\ UNCHANGED <<stored, storedNum, numReceived, mgrPc, solution, filling, streaming, cmdPc,
                     cmdCams, cmdBufs, showPc, shown, infPc, obj>>
      /\ UNCHANGED <<frames, content, images, outcomes, restarted>>
      /\ frameDone' = [frameDone EXCEPT ![c] = NoPage]
  BY DEF kdrv_dpi2ahb_irqhandler, mgrVars, cmdVars, showVars, infVars, histVars
<1>2. \/ UNCHANGED <<imgFree, imgData, imgQueue, page, owner, tempQ>>
      \/ frameDone[c] # NoPage /\ streaming[c] /\ Coming(c, Done(c))
  BY DEF kdrv_dpi2ahb_irqhandler, StatusPage, Done
<1>3. ASSUME frameDone[c] # NoPage, streaming[c]
      PROVE  frameDone[c] \in Pages /\ Done(c) \in ImgBufs /\ Done(c) \in PageSet
  <2>1. frameDone[c] \in Pages
    BY <1>3 DEF BufferInv, TypesInv, CameraTypes
  <2>2. Done(c) \in ImgBufs
    BY <1>3, <2>1 DEF BufferInv, TypesInv, CameraTypes, Done
  <2>3. Done(c) \in PageSet
    BY <2>1, <2>2, PageFacts, Values DEF BufferInv, TypesInv, Done
  <2> QED BY <2>1, <2>2, <2>3
<1> QED BY <1>1, <1>2, <1>3

(* A queue has a buffer for the interrupt: it is taken, and the complete   *)
(* image is queued to be shown (queue) or goes to buf_mgr.                 *)
Takes(c, x) ==
  /\ TakeFree(TRUE, <<x>>)
  /\ page' = [page EXCEPT ![c][frameDone[c]] = x]

(* The ways of an image, depending on the solution and the queues.         *)
LEMMA ComingCases ==
  ASSUME BufferInv, NEW c \in Cameras, Done(c) \in ImgBufs, Coming(c, Done(c))
  PROVE  \/ UNCHANGED <<imgFree, imgData, imgQueue, page, owner, tempQ>>
         \/ \E x : /\ solution = "mipi" /\ Takes(c, x) /\ MoveImg({x}, "img")
                   /\ imgQueue' = Append(imgQueue, [cam |-> c, buf |-> Done(c)])
                   /\ UNCHANGED tempQ
         \/ /\ solution = "mipi" /\ imgQueue # <<>>
            /\ imgQueue' = Append(Tail(imgQueue), [cam |-> c, buf |-> Done(c)])
            /\ page' = [page EXCEPT ![c][frameDone[c]] = Head(imgQueue).buf]
            /\ UNCHANGED <<imgFree, imgData, tempQ, owner>>
         \/ \E x : /\ solution = "tof" /\ Takes(c, x)
                   /\ \/ tempQ' = Append(tempQ, [total |-> 1, index |-> 0, buf |-> Done(c)])
                         /\ owner' = [owner EXCEPT ![x] = "img", ![Done(c)] = "temp"]
                      \/ tempQ' = tempQ /\ owner' = [owner EXCEPT ![x] = "img", ![Done(c)] = "lost"]
                   /\ UNCHANGED imgQueue
<1>1. CASE solution = "mipi"
  BY <1>1 DEF Coming, ComingMipi, Takes, StatusPage
<1>2. CASE solution # "mipi"
  <2>1. solution = "tof"
    BY <1>2 DEF BufferInv, TypesInv, CameraTypes
  <2>2. CASE imgFree # <<>> \/ imgData # <<>>
    <3>1. /\ TakeFree(TRUE, <<Grabbed>>)
          /\ page' = [page EXCEPT ![c][frameDone[c]] = Grabbed]
          /\ tempQ' = IF Len(tempQ) < ImgCap
                      THEN Append(tempQ, [total |-> 1, index |-> 0, buf |-> Done(c)]) ELSE tempQ
          /\ owner' = [owner EXCEPT ![Grabbed] = "img",
                                    ![Done(c)] = IF Len(tempQ) < ImgCap THEN "temp" ELSE "lost"]
          /\ UNCHANGED imgQueue
      BY <1>2, <2>2 DEF Coming, ComingTof, StatusPage
    <3>2. CASE Len(tempQ) < ImgCap
      BY <2>1, <3>1, <3>2 DEF Takes
    <3>3. CASE ~(Len(tempQ) < ImgCap)
      BY <2>1, <3>1, <3>3 DEF Takes
    <3> QED BY <3>2, <3>3
  <2>3. CASE ~(imgFree # <<>> \/ imgData # <<>>)
    BY <1>2, <2>3 DEF Coming, ComingTof
  <2> QED BY <2>2, <2>3
<1> QED BY <1>1, <1>2

(* What the interrupt leaves of the types, with a page that has another    *)
(* buffer x, and the buffers of the queues in place.                       *)
LEMMA IsrKeeps ==
  ASSUME BufferInv, NEW c \in Cameras, kdrv_dpi2ahb_irqhandler(c),
         frameDone[c] \in Pages, Done(c) \in ImgBufs,
         NEW x \in ImgBufs, x \notin PageSet, page' = [page EXCEPT ![c][frameDone[c]] = x],
         QueueTypes', PlaceInv',
         Once(imgFree', OfSingle), Once(imgData', OfSingle), Once(tempQ', OfRecord),
         Once(imgQueue', OfRecord)
  PROVE  BufferInv'
<1> DEFINE p == frameDone[c]
<1>1. /\ UNCHANGED <<stored, storedNum, numReceived, mgrPc, solution, filling, streaming, cmdPc,
                     cmdCams, cmdBufs, showPc, shown, infPc, obj>>
      /\ UNCHANGED <<frames, content, images, outcomes>>
      /\ frameDone' = [frameDone EXCEPT ![c] = NoPage]
  BY IsrFacts
<1>2. /\ page' \in [Cameras -> [Pages -> ImgBufs \cup {NULL}]]
      /\ page'[c][p] = x
      /\ \A d \in Cameras, q \in Pages : <<d, q>> # <<c, p>> => page'[d][q] = page[d][q]
      /\ PageOnce'
  <2>1. CameraTypes /\ PageOnce /\ page[c][p] \in ImgBufs /\ p \in Pages
    BY DEF BufferInv, TypesInv, OnceInv, Done
  <2>2. page' = [page EXCEPT ![c][p] = x]
    OBVIOUS
  <2> HIDE DEF p
  <2>3. page' \in [Cameras -> [Pages -> ImgBufs \cup {NULL}]] /\ page'[c][p] = x
    BY <2>1, <2>2 DEF CameraTypes
  <2>4. \A d \in Cameras, q \in Pages : <<d, q>> # <<c, p>> => page'[d][q] = page[d][q]
    BY <2>1, <2>2, PageSwap
  <2>5. PageOnce'
    BY <2>1, <2>2, PageSwap
  <2> QED BY <2>3, <2>4, <2>5
<1>3. CameraTypes'
  <2>1. \A d \in Cameras : streaming[d] => \A q \in Pages : page'[d][q] \in ImgBufs
    <3> SUFFICES ASSUME NEW d \in Cameras, streaming[d], NEW q \in Pages PROVE page'[d][q] \in ImgBufs
      OBVIOUS
    <3>1. page[d][q] \in ImgBufs
      BY DEF BufferInv, TypesInv, CameraTypes
    <3>2. CASE <<d, q>> = <<c, p>>
      BY <1>2, <3>2
    <3>3. CASE <<d, q>> # <<c, p>>
      BY <1>2, <3>1, <3>3
    <3> QED BY <3>2, <3>3
  <2>2. /\ frameDone' \in [Cameras -> Pages \cup {NoPage}]
        /\ \A d \in Cameras : frameDone'[d] # NoPage => streaming[d]
    BY <1>1 DEF BufferInv, TypesInv, CameraTypes
  <2> QED BY <1>1, <1>2, <2>1, <2>2 DEF BufferInv, TypesInv, CameraTypes
<1>4. MgrTypes' /\ ThreadTypes' /\ FrameTypes'
  BY <1>1 DEF BufferInv, TypesInv, MgrTypes, ThreadTypes, FrameTypes
<1>5. Once(cmdBufs', OfBuffer)
  BY <1>1 DEF BufferInv, OnceInv
<1> QED BY <1>2, <1>3, <1>4, <1>5 DEF BufferInv, TypesInv, OnceInv

LEMMA IsrPages ==
  ASSUME BufferInv, NEW c \in Cameras, frameDone[c] \in Pages, Done(c) \in ImgBufs,
         NEW x \in ImgBufs, x \notin PageSet, page' = [page EXCEPT ![c][frameDone[c]] = x]
  PROVE  PageSet' = (PageSet \ {Done(c)}) \cup {x}
<1> DEFINE p == frameDone[c]
<1>1. CameraTypes /\ PageOnce /\ page[c][p] \in ImgBufs /\ p \in Pages /\ Done(c) = page[c][p]
  BY DEF BufferInv, TypesInv, OnceInv, Done
<1>2. page' = [page EXCEPT ![c][p] = x]
  OBVIOUS
<1> HIDE DEF p
<1>3. PageSet' = (PageSet \ {page[c][p]}) \cup {x}
  BY <1>1, <1>2, PageSwap
<1> QED BY <1>1, <1>3

(* An image leaves its page to wait to be shown.                           *)
LEMMA InsideQueues ==
  ASSUME NEW Q, NEW P, NEW C, NEW S, NEW own, NEW y, Inside(Q, P, C, S, own), y \in P
  PROVE  y \notin Q /\ Inside(Q \cup {y}, P \ {y}, C, S, own)
<1>1. (Q \cup {y}) \cup (P \ {y}) \cup C \cup S = Q \cup P \cup C \cup S
  OBVIOUS
<1> QED BY <1>1 DEF Inside

LEMMA TakesToShow ==
  ASSUME BufferInv, NEW c \in Cameras, kdrv_dpi2ahb_irqhandler(c),
         frameDone[c] \in Pages, Done(c) \in ImgBufs, Done(c) \in PageSet,
         NEW x, Takes(c, x), MoveImg({x}, "img"),
         imgQueue' = Append(imgQueue, [cam |-> c, buf |-> Done(c)]), UNCHANGED tempQ
  PROVE  BufferInv'
<1>1. /\ x \in ImgBufs /\ owner[x] \in {"free", "data"}
      /\ imgFree' \in Seq(Singles) /\ imgData' \in Seq(Singles)
      /\ Once(imgFree', OfSingle) /\ Once(imgData', OfSingle)
      /\ FreeSet' = FreeSet \ {x} /\ DataSet' = DataSet \ {x}
      /\ TempSet \ {x} = TempSet /\ MgrSet \ {x} = MgrSet /\ InfSet \ {x} = InfSet
  BY TakesFacts DEF Takes
<1>2. PICK y \in ImgBufs : y = Done(c)
  OBVIOUS
<1>3. /\ Outside(FreeSet, DataSet, TempSet, MgrSet, InfSet, owner)
      /\ Inside(QueueSet, PageSet, CmdSet, ShownSet, owner)
  BY PlaceSplit DEF BufferInv
<1>4. /\ owner' \in [ImgBufs -> ImgPlaces] /\ owner'[x] = "img"
      /\ \A b \in ImgBufs \ {x} : owner'[b] = owner[b]
  BY <1>1, AtMoves DEF BufferInv, TypesInv, QueueTypes, ImgPlaces
<1>5. x \notin PageSet /\ owner[x] # "img"
  BY <1>1, <1>3 DEF Inside
<1>6. PageSet' = (PageSet \ {y}) \cup {x}
  BY <1>1, <1>2, <1>5, IsrPages DEF Takes
<1>7. y \notin QueueSet /\ Inside(QueueSet \cup {y}, PageSet \ {y}, CmdSet, ShownSet, owner)
  BY <1>2, <1>3, InsideQueues
<1>8. Inside(QueueSet \cup {y}, (PageSet \ {y}) \cup {x}, CmdSet, ShownSet, owner')
  <2> DEFINE Q == QueueSet \cup {y}
             P == PageSet \ {y}
  <2>1. Inside(Q, P, CmdSet, ShownSet, owner)
    BY <1>7
  <2> HIDE DEF Q, P
  <2>2. /\ x \in ImgBufs /\ owner[x] # "img" /\ owner'[x] = "img"
        /\ \A b \in ImgBufs \ {x} : owner'[b] = owner[b]
    BY <1>1, <1>4, <1>5
  <2>3. Inside(Q, P \cup {x}, CmdSet, ShownSet, owner')
    BY <2>1, <2>2, InsideFills
  <2> QED BY <2>3 DEF Q, P
<1>9. imgQueue' \in Seq(Images) /\ QueueSet' = QueueSet \cup {y} /\ Once(imgQueue', OfRecord)
  <2>1. /\ imgQueue \in Seq(Images) /\ Once(imgQueue, OfRecord)
        /\ imgQueue' = Append(imgQueue, [cam |-> c, buf |-> y])
    BY <1>2 DEF BufferInv, TypesInv, QueueTypes, OnceInv
  <2>2. [cam |-> c, buf |-> y] \in Images /\ OfRecord[[cam |-> c, buf |-> y]] = y
    BY DataFacts
  <2> QED BY <1>7, <2>1, <2>2, QueueAppend DEF QueueSet
<1>10. PlaceInv'
  <2>1. Outside(FreeSet \ {x}, DataSet \ {x}, TempSet \ {x}, MgrSet \ {x}, InfSet \ {x}, owner')
    BY <1>1, <1>3, <1>4, OutsideTo
  <2>2. /\ TempSet' = TempSet /\ MgrSet' = MgrSet /\ InfSet' = InfSet /\ CmdSet' = CmdSet
        /\ ShownSet' = ShownSet
    BY IsrFacts, SetsKept
  <2> QED BY <1>1, <1>6, <1>8, <1>9, <2>1, <2>2, PlaceSplitNext
<1>11. QueueTypes'
  BY <1>1, <1>4, <1>9 DEF BufferInv, TypesInv, QueueTypes
<1>12. Once(tempQ', OfRecord) /\ page' = [page EXCEPT ![c][frameDone[c]] = x]
  BY DEF BufferInv, OnceInv, Takes
<1> QED BY <1>1, <1>5, <1>9, <1>10, <1>11, <1>12, IsrKeeps

LEMMA SwapsToShow ==
  ASSUME BufferInv, NEW c \in Cameras, kdrv_dpi2ahb_irqhandler(c),
         frameDone[c] \in Pages, Done(c) \in ImgBufs, Done(c) \in PageSet,
         imgQueue # <<>>, imgQueue' = Append(Tail(imgQueue), [cam |-> c, buf |-> Done(c)]),
         page' = [page EXCEPT ![c][frameDone[c]] = Head(imgQueue).buf],
         UNCHANGED <<imgFree, imgData, tempQ, owner>>
  PROVE  BufferInv'
<1> DEFINE h == Head(imgQueue)
           t == Tail(imgQueue)
<1>1. /\ h \in Images /\ t \in Seq(Images) /\ OfRecord[h] \in QueueSet
      /\ Bufs(t, OfRecord) = QueueSet \ {OfRecord[h]} /\ Once(t, OfRecord)
  BY QueueTail DEF QueueSet, BufferInv, TypesInv, QueueTypes, OnceInv
<1>2. /\ imgQueue' = Append(t, [cam |-> c, buf |-> Done(c)])
      /\ page' = [page EXCEPT ![c][frameDone[c]] = h.buf]
  OBVIOUS
<1> HIDE DEF h, t
<1>3. PICK x \in ImgBufs : x = OfRecord[h] /\ h.buf = x
  BY <1>1, DataFacts
<1>4. PICK y \in ImgBufs : y = Done(c)
  OBVIOUS
<1>5. /\ Outside(FreeSet, DataSet, TempSet, MgrSet, InfSet, owner)
      /\ Inside(QueueSet, PageSet, CmdSet, ShownSet, owner)
  BY PlaceSplit DEF BufferInv
<1>6. x \in QueueSet /\ x \notin PageSet /\ y \in PageSet /\ y \notin QueueSet /\ x # y
  BY <1>1, <1>3, <1>4, <1>5 DEF Inside
<1>7. PageSet' = (PageSet \ {y}) \cup {x}
  BY <1>2, <1>3, <1>4, <1>6, IsrPages
<1>8. imgQueue' \in Seq(Images) /\ QueueSet' = (QueueSet \ {x}) \cup {y} /\ Once(imgQueue', OfRecord)
  <2>1. imgQueue' = Append(t, [cam |-> c, buf |-> y])
    BY <1>2, <1>4
  <2>2. PICK r \in Images : r = [cam |-> c, buf |-> y] /\ OfRecord[r] = y
    BY DataFacts
  <2>3. y \notin Bufs(t, OfRecord) /\ Bufs(t, OfRecord) = QueueSet \ {x}
    BY <1>1, <1>3, <1>6
  <2>4. /\ Append(t, r) \in Seq(Images) /\ Bufs(Append(t, r), OfRecord) = Bufs(t, OfRecord) \cup {y}
        /\ Once(Append(t, r), OfRecord)
    BY <1>1, <2>2, <2>3, QueueAppend
  <2> QED BY <2>1, <2>2, <2>3, <2>4 DEF QueueSet
<1>9. Inside((QueueSet \ {x}) \cup {y}, (PageSet \ {y}) \cup {x}, CmdSet, ShownSet, owner)
  <2>1. ((QueueSet \ {x}) \cup {y}) \cup ((PageSet \ {y}) \cup {x}) \cup CmdSet \cup ShownSet
          = QueueSet \cup PageSet \cup CmdSet \cup ShownSet
    BY <1>6
  <2> QED BY <1>5, <1>6, <2>1 DEF Inside
<1>10. PlaceInv'
  <2>1. /\ FreeSet' = FreeSet /\ DataSet' = DataSet /\ TempSet' = TempSet /\ MgrSet' = MgrSet
        /\ InfSet' = InfSet /\ CmdSet' = CmdSet /\ ShownSet' = ShownSet
    BY IsrFacts, SetsKept
  <2> QED BY <1>5, <1>7, <1>8, <1>9, <2>1, PlaceSplitNext
<1>11. QueueTypes'
  BY <1>8 DEF BufferInv, TypesInv, QueueTypes
<1>12. /\ Once(imgFree', OfSingle) /\ Once(imgData', OfSingle) /\ Once(tempQ', OfRecord)
       /\ page' = [page EXCEPT ![c][frameDone[c]] = x]
  BY <1>2, <1>3 DEF BufferInv, OnceInv
<1> QED BY <1>6, <1>8, <1>10, <1>11, <1>12, IsrKeeps

LEMMA TakesToInfer ==
  ASSUME BufferInv, NEW c \in Cameras, kdrv_dpi2ahb_irqhandler(c),
         frameDone[c] \in Pages, Done(c) \in ImgBufs, Done(c) \in PageSet,
         NEW x, Takes(c, x), NEW p \in {"temp", "lost"},
         owner' = [owner EXCEPT ![x] = "img", ![Done(c)] = p],
         tempQ' = IF p = "temp" THEN Append(tempQ, [total |-> 1, index |-> 0, buf |-> Done(c)])
                                ELSE tempQ,
         UNCHANGED imgQueue
  PROVE  BufferInv'
<1>1. /\ x \in ImgBufs /\ owner[x] \in {"free", "data"}
      /\ imgFree' \in Seq(Singles) /\ imgData' \in Seq(Singles)
      /\ Once(imgFree', OfSingle) /\ Once(imgData', OfSingle)
      /\ FreeSet' = FreeSet \ {x} /\ DataSet' = DataSet \ {x}
      /\ TempSet \ {x} = TempSet /\ MgrSet \ {x} = MgrSet /\ InfSet \ {x} = InfSet
  BY TakesFacts DEF Takes
<1>2. PICK y \in ImgBufs : y = Done(c)
  OBVIOUS
<1>3. /\ Outside(FreeSet, DataSet, TempSet, MgrSet, InfSet, owner)
      /\ Inside(QueueSet, PageSet, CmdSet, ShownSet, owner)
  BY PlaceSplit DEF BufferInv
<1>4. x \notin PageSet /\ owner[x] # "img" /\ owner[y] = "img" /\ x # y
  BY <1>1, <1>2, <1>3 DEF Inside
<1>5. PageSet' = (PageSet \ {y}) \cup {x}
  BY <1>1, <1>2, <1>4, IsrPages DEF Takes
<1>6. owner \in [ImgBufs -> ImgPlaces]
  BY DEF BufferInv, TypesInv, QueueTypes
<1>7. PICK own \in [ImgBufs -> ImgPlaces] : own = [owner EXCEPT ![x] = "img"]
  BY <1>6 DEF ImgPlaces
<1>8. own[x] = "img" /\ own[y] = "img" /\ \A b \in ImgBufs \ {x} : own[b] = owner[b]
  BY <1>1, <1>4, <1>6, <1>7
<1>9. /\ owner' \in [ImgBufs -> ImgPlaces] /\ owner'[y] = p
      /\ \A b \in ImgBufs \ {y} : owner'[b] = own[b]
  BY <1>1, <1>2, <1>4, <1>6, <1>7 DEF ImgPlaces
<1>10. Outside(FreeSet', DataSet', TempSet, MgrSet, InfSet, own)
  <2>1. Outside(FreeSet \ {x}, DataSet \ {x}, TempSet \ {x}, MgrSet \ {x}, InfSet \ {x}, own)
    BY <1>1, <1>3, <1>8, OutsideTo
  <2> QED BY <1>1, <2>1
<1>11. Inside(QueueSet, PageSet \cup {x}, CmdSet, ShownSet, own)
  <2>1. x \in ImgBufs
    BY <1>1
  <2> QED BY <1>3, <1>4, <1>8, <2>1, InsideFills
<1>12. Inside(QueueSet, (PageSet \ {y}) \cup {x}, CmdSet, ShownSet, owner')
  <2> DEFINE P == PageSet \cup {x}
  <2>1. Inside(QueueSet, P, CmdSet, ShownSet, own) /\ y \in P
    BY <1>2, <1>11
  <2> HIDE DEF P
  <2>2. owner'[y] # "img"
    BY <1>9
  <2>3. Inside(QueueSet \ {y}, P \ {y}, CmdSet \ {y}, ShownSet \ {y}, owner')
    BY <1>9, <2>1, <2>2, InsideLeaves
  <2>4. QueueSet \ {y} = QueueSet /\ CmdSet \ {y} = CmdSet /\ ShownSet \ {y} = ShownSet
    BY <2>1 DEF Inside
  <2>5. P \ {y} = (PageSet \ {y}) \cup {x}
    BY <1>4 DEF P
  <2> QED BY <2>3, <2>4, <2>5
<1>13. /\ FreeSet' \ {y} = FreeSet' /\ DataSet' \ {y} = DataSet' /\ MgrSet \ {y} = MgrSet
       /\ InfSet \ {y} = InfSet /\ TempSet \ {y} = TempSet /\ y \notin TempSet
  BY <1>8, <1>10 DEF Outside
<1>14. /\ MgrSet' = MgrSet /\ InfSet' = InfSet /\ CmdSet' = CmdSet
       /\ ShownSet' = ShownSet /\ QueueSet' = QueueSet
  BY IsrFacts, SetsKept
<1>15. /\ Outside(FreeSet', DataSet', TempSet', MgrSet', InfSet', owner')
       /\ tempQ' \in Seq(Received) /\ Once(tempQ', OfRecord)
  <2>1. tempQ \in Seq(Received) /\ Once(tempQ, OfRecord)
    BY DEF BufferInv, TypesInv, QueueTypes, OnceInv
  <2> DEFINE F == FreeSet'
             D == DataSet'
  <2>2. Outside(F, D, TempSet, MgrSet, InfSet, own)
    BY <1>10
  <2>3. F \ {y} = F /\ D \ {y} = D
    BY <1>13
  <2> HIDE DEF F, D
  <2>4. CASE p = "temp"
    <3>1. PICK r \in Received : r = [total |-> 1, index |-> 0, buf |-> y] /\ OfRecord[r] = y
      BY DataFacts
    <3>2. tempQ' = Append(tempQ, r)
      BY <1>2, <2>4, <3>1
    <3>3. tempQ' \in Seq(Received) /\ TempSet' = TempSet \cup {y} /\ Once(tempQ', OfRecord)
      BY <1>13, <2>1, <3>1, <3>2, QueueAppend DEF TempSet
    <3>4. owner'[y] = "temp"
      BY <1>9, <2>4
    <3>5. Outside(F \ {y}, D \ {y}, TempSet \cup {y}, MgrSet \ {y}, InfSet \ {y}, owner')
      BY <1>9, <2>2, <3>4, OutsideTo
    <3> QED BY <1>13, <1>14, <2>3, <3>3, <3>5 DEF F, D
  <2>5. CASE p = "lost"
    <3>1. tempQ' = tempQ /\ TempSet' = TempSet
      BY <2>5, SetsKept
    <3>2. owner'[y] = "lost"
      BY <1>9, <2>5
    <3>3. Outside(F \ {y}, D \ {y}, TempSet \ {y}, MgrSet \ {y}, InfSet \ {y}, owner')
      BY <1>9, <2>2, <3>2, OutsideTo
    <3> QED BY <1>13, <1>14, <2>1, <2>3, <3>1, <3>3 DEF F, D
  <2> QED BY <2>4, <2>5
<1>16. PlaceInv'
  BY <1>5, <1>12, <1>14, <1>15, PlaceSplitNext
<1>17. QueueTypes'
  BY <1>1, <1>9, <1>15 DEF BufferInv, TypesInv, QueueTypes
<1>18. Once(imgQueue', OfRecord) /\ page' = [page EXCEPT ![c][frameDone[c]] = x]
  BY DEF BufferInv, OnceInv, Takes
<1> QED BY <1>1, <1>4, <1>15, <1>16, <1>17, <1>18, IsrKeeps

LEMMA IsrBuffers == ASSUME BufferInv, NEW c \in Cameras, kdrv_dpi2ahb_irqhandler(c) PROVE BufferInv'
<1>1. ASSUME UNCHANGED <<imgFree, imgData, imgQueue, page, owner, tempQ>> PROVE BufferInv'
  <2>1. /\ UNCHANGED <<placeVars, solution, filling, streaming, cmdPc, cmdCams, showPc, infPc>>
        /\ UNCHANGED <<frames, content, images, outcomes>>
        /\ frameDone' = [frameDone EXCEPT ![c] = NoPage]
    BY <1>1, IsrFacts DEF placeVars
  <2>2. CameraTypes'
    BY <2>1 DEF placeVars, BufferInv, TypesInv, CameraTypes
  <2>3. QueueTypes' /\ MgrTypes' /\ ThreadTypes' /\ FrameTypes'
    BY <2>1 DEF placeVars, BufferInv, TypesInv, QueueTypes, MgrTypes, ThreadTypes, FrameTypes
  <2> QED BY <2>1, <2>2, <2>3, StillPlaced DEF BufferInv, TypesInv
<1>2. ASSUME frameDone[c] \in Pages, Done(c) \in ImgBufs, Done(c) \in PageSet, Coming(c, Done(c))
      PROVE  BufferInv'
  <2>1. ASSUME NEW x, Takes(c, x), MoveImg({x}, "img"), UNCHANGED tempQ,
               imgQueue' = Append(imgQueue, [cam |-> c, buf |-> Done(c)])
        PROVE  BufferInv'
    BY <1>2, <2>1, TakesToShow
  <2>2. ASSUME imgQueue # <<>>, imgQueue' = Append(Tail(imgQueue), [cam |-> c, buf |-> Done(c)]),
               page' = [page EXCEPT ![c][frameDone[c]] = Head(imgQueue).buf],
               UNCHANGED <<imgFree, imgData, tempQ, owner>>
        PROVE  BufferInv'
    BY <1>2, <2>2, SwapsToShow
  <2>3. ASSUME NEW x, Takes(c, x), UNCHANGED imgQueue,
               tempQ' = Append(tempQ, [total |-> 1, index |-> 0, buf |-> Done(c)]),
               owner' = [owner EXCEPT ![x] = "img", ![Done(c)] = "temp"]
        PROVE  BufferInv'
    BY <1>2, <2>3, TakesToInfer
  <2>4. ASSUME NEW x, Takes(c, x), UNCHANGED imgQueue, tempQ' = tempQ,
               owner' = [owner EXCEPT ![x] = "img", ![Done(c)] = "lost"]
        PROVE  BufferInv'
    BY <1>2, <2>4, TakesToInfer
  <2> QED BY <1>1, <1>2, <2>1, <2>2, <2>3, <2>4, ComingCases
<1> QED BY <1>1, <1>2, IsrFacts

-----------------------------------------------------------------------------
LEMMA StepCases ==
  ASSUME [HicoNext]_hicoVars
  PROVE  \/ \E c \in Cameras : FrameEnds(c)
         \/ Quiet \/ CameraTakes \/ CameraStarts \/ ShowGet \/ ShowReturns \/ ShowReleases
         \/ InfGet \/ InfPut \/ BufMgr \/ \E c \in Cameras : kdrv_dpi2ahb_irqhandler(c)
BY DEF HicoNext, HicoWork, CamIsr, CmdThread, ShowThread, InfThread, Quiet

LEMMA BufferStep == ASSUME BufferInv, [HicoNext]_hicoVars PROVE BufferInv'
BY StepCases, FrameEndsBuffers, QuietBuffers, CameraTakesBuffers, CameraStartsBuffers,
   ShowGetBuffers, ShowReturnsBuffers, ShowReleasesBuffers, InfGetBuffers, InfPutBuffers,
   BufMgrBuffers, IsrBuffers

LEMMA BuffersAlways == HicoSpec => []BufferInv
BY BeginBuffers, BufferStep, PTL DEF HicoSpec

-----------------------------------------------------------------------------
(* Each buffer once: the places together have as many buffers as there are *)
(* in all of them.                                                         *)
Counts(S, n) == IsFiniteSet(S) /\ Cardinality(S) = n /\ n \in Nat

LEMMA CountsApart ==
  ASSUME NEW S, NEW T, NEW m, NEW n, Counts(S, m), Counts(T, n), S \cap T = {}
  PROVE  Counts(S \cup T, m + n)
<1>1. Cardinality(S \cap T) = 0
  BY FS_EmptySet
<1>2. IsFiniteSet(S) /\ IsFiniteSet(T) /\ Cardinality(S) = m /\ Cardinality(T) = n
      /\ m \in Nat /\ n \in Nat
  BY DEF Counts
<1>3. IsFiniteSet(S \cup T) /\ Cardinality(S \cup T) = Cardinality(S) + Cardinality(T) - Cardinality(S \cap T)
  BY <1>2, FS_Union
<1> QED BY <1>1, <1>2, <1>3 DEF Counts

LEMMA CountsQueue ==
  ASSUME NEW S, NEW q \in Seq(S), NEW of, Once(q, of)
  PROVE  Counts(Bufs(q, of), Len(q))
BY QueueCount DEF Counts

LEMMA CountsFew == Counts({}, 0) /\ \A x : Counts({x}, 1)
BY FS_EmptySet, FS_Singleton DEF Counts

LEMMA CountsPages ==
  ASSUME CameraTypes, PageOnce
  PROVE  Counts(PageSet, Cardinality(Taken))
<1> DEFINE of(cp) == page[cp[1]][cp[2]]
           f == [b \in PageSet |-> CHOOSE cp \in Taken : of(cp) = b]
<1>1. IsFiniteSet(PageSet)
  <2>1. IsFiniteSet(ImgBufs)
    BY Values, FS_Interval DEF ImgBufs
  <2>2. PageSet \in SUBSET ImgBufs
    BY PageFacts
  <2> QED BY <2>1, <2>2, FS_Subset
<1>2. \A b \in PageSet : f[b] \in Taken /\ of(f[b]) = b
  <2> SUFFICES ASSUME NEW b \in PageSet PROVE f[b] \in Taken /\ of(f[b]) = b
    OBVIOUS
  <2>1. \E cp \in Taken : of(cp) = b
    BY DEF PageSet
  <2>2. f[b] = CHOOSE cp \in Taken : of(cp) = b
    OBVIOUS
  <2> HIDE DEF f, of
  <2> QED BY <2>1, <2>2
<1>3. \A x, y \in Taken : of(x) = of(y) => x = y
  BY DEF PageOnce
<1>4. \A cp \in Taken : of(cp) \in PageSet
  BY DEF PageSet
<1>5. f \in [PageSet -> Taken]
  <2>1. f = [b \in PageSet |-> f[b]]
    OBVIOUS
  <2> HIDE DEF f
  <2> QED BY <1>2, <2>1
<1> HIDE DEF f, of
<1>6. f \in Bijection(PageSet, Taken)
  <2>1. \A a, b \in PageSet : f[a] = f[b] => a = b
    BY <1>2
  <2>2. \A cp \in Taken : \E b \in PageSet : f[b] = cp
    <3> SUFFICES ASSUME NEW cp \in Taken PROVE f[of(cp)] = cp
      BY <1>4
    <3> QED BY <1>2, <1>3, <1>4
  <2> QED BY <1>5, <2>1, <2>2 DEF Bijection, Injection, Surjection, IsInjective
<1>7. ExistsBijection(PageSet, Taken)
  BY <1>6 DEF ExistsBijection
<1>8. Cardinality(Taken) = Cardinality(PageSet)
  BY <1>1, <1>7, FS_Bijection
<1>9. Cardinality(PageSet) \in Nat
  BY <1>1, FS_CardinalityType
<1> QED BY <1>1, <1>8, <1>9 DEF Counts

(* The sets of the places are those the property speaks of.                *)
LEMMA HeldIs ==
  ASSUME BufferInv
  PROVE  Held = FreeSet \cup DataSet \cup TempSet \cup MgrSet \cup QueueSet \cup PageSet \cup CmdSet
                \cup InfSet \cup ShownSet
<1> USE DEF BufferInv, TypesInv
<1>1. First(imgFree) = FreeSet
  <2>1. \A k \in DOMAIN imgFree : imgFree[k][1] = OfSingle[imgFree[k]]
    BY DataFacts DEF QueueTypes
  <2> QED BY <2>1 DEF First, FreeSet, Bufs
<1>2. First(imgData) = DataSet
  <2>1. \A k \in DOMAIN imgData : imgData[k][1] = OfSingle[imgData[k]]
    BY DataFacts DEF QueueTypes
  <2> QED BY <2>1 DEF First, DataSet, Bufs
<1>3. {tempQ[k].buf : k \in DOMAIN tempQ} = TempSet
  <2>1. \A k \in DOMAIN tempQ : tempQ[k].buf = OfRecord[tempQ[k]]
    BY DataFacts DEF QueueTypes
  <2> QED BY <2>1 DEF TempSet, Bufs
<1>4. {imgQueue[k].buf : k \in DOMAIN imgQueue} = QueueSet
  <2>1. \A k \in DOMAIN imgQueue : imgQueue[k].buf = OfRecord[imgQueue[k]]
    BY DataFacts DEF QueueTypes
  <2> QED BY <2>1 DEF QueueSet, Bufs
<1>5. BufsOf(cmdBufs) = CmdSet
  <2>0. \A k \in DOMAIN cmdBufs : cmdBufs[k] \in ImgBufs
    BY DEF ThreadTypes
  <2>1. \A k \in DOMAIN cmdBufs : cmdBufs[k] = OfBuffer[cmdBufs[k]]
    BY <2>0, DataFacts
  <2> QED BY <2>1 DEF CmdSet, Bufs, BufsOf
<1>6. BufsOf(obj) = InfSet
  <2>0. \A k \in DOMAIN obj : obj[k] \in ImgBufs
    BY DEF ThreadTypes
  <2>1. \A k \in DOMAIN obj : obj[k] = OfBuffer[obj[k]]
    BY <2>0, DataFacts
  <2> QED BY <2>1 DEF InfSet, Bufs, BufsOf
<1> QED BY <1>1, <1>2, <1>3, <1>4, <1>5, <1>6 DEF Held, MgrSet, PageSet, ShownSet

LEMMA BuffersApart == BufferInv => CameraBuffersApart
<1> SUFFICES ASSUME BufferInv PROVE CameraBuffersApart
  OBVIOUS
<1>1. Held = FreeSet \cup DataSet \cup TempSet \cup MgrSet \cup QueueSet \cup PageSet \cup CmdSet
             \cup InfSet \cup ShownSet
  BY HeldIs
<1>2. /\ Outside(FreeSet, DataSet, TempSet, MgrSet, InfSet, owner)
      /\ Inside(QueueSet, PageSet, CmdSet, ShownSet, owner)
  BY PlaceSplit DEF BufferInv
<1>3. Held = {b \in ImgBufs : owner[b] # "lost"}
  <2>1. \A b \in ImgBufs : owner[b] # "lost" <=>
          owner[b] \in {"free", "data", "temp", "mgr", "inf", "img"}
    BY <1>2 DEF Outside
  <2> QED BY <1>1, <1>2, <2>1 DEF Outside, Inside
<1>4. /\ Counts(FreeSet, Len(imgFree)) /\ Counts(DataSet, Len(imgData))
      /\ Counts(TempSet, Len(tempQ)) /\ Counts(QueueSet, Len(imgQueue))
      /\ Counts(CmdSet, Len(cmdBufs))
  BY CountsQueue DEF BufferInv, TypesInv, QueueTypes, ThreadTypes, OnceInv, FreeSet, DataSet,
                     TempSet, QueueSet, CmdSet
<1>5. Counts(MgrSet, numReceived)
  <2>1. MgrTypes
    BY DEF BufferInv, TypesInv
  <2>2. CASE mgrPc = "get"
    BY <2>1, <2>2, MgrFacts, CountsFew
  <2>3. CASE mgrPc = "enqueue"
    <3>1. numReceived = 1
      BY <2>1, <2>3 DEF MgrTypes
    <3> QED BY <2>1, <2>3, <3>1, MgrFacts, CountsFew
  <2> QED BY <2>1, <2>2, <2>3, MgrFacts
<1>6. Counts(PageSet, Cardinality(Taken))
  BY CountsPages DEF BufferInv, TypesInv, OnceInv
<1>7. Counts(InfSet, Len(obj))
  <2>1. TypesInv
    BY DEF BufferInv
  <2>2. CASE infPc = "get"
    <3>1. obj = <<>> /\ InfSet = {}
      BY <2>1, <2>2, ObjectFacts
    <3>2. Len(obj) = 0
      BY <3>1
    <3> QED BY <3>1, <3>2, CountsFew
  <2>3. CASE infPc # "get"
    <3>1. InfSet = {obj[1]}
      BY <2>1, <2>3, ObjectFacts
    <3>2. Len(obj) = 1
      BY <2>1, <2>3 DEF TypesInv, ThreadTypes
    <3> QED BY <3>1, <3>2, CountsFew
  <2> QED BY <2>2, <2>3
<1> DEFINE n == IF shown = NoImage THEN 0 ELSE 1
<1>8. Counts(ShownSet, n)
  <2>1. TypesInv
    BY DEF BufferInv
  <2>2. CASE showPc \in {"get", "gone"}
    BY <2>1, <2>2, ShownFacts, CountsFew
  <2>3. CASE showPc \notin {"get", "gone"}
    <3>1. shown.buf \in ImgBufs /\ ShownSet = {shown.buf}
      BY <2>1, <2>3, ShownFacts
    <3>2. shown # NoImage
      BY <3>1, Values
    <3> QED BY <3>1, <3>2, CountsFew
  <2> QED BY <2>2, <2>3
<1> HIDE DEF n
<1> DEFINE S1 == FreeSet \cup DataSet
           S2 == S1 \cup TempSet
           S3 == S2 \cup MgrSet
           S4 == S3 \cup QueueSet
           S5 == S4 \cup PageSet
           S6 == S5 \cup CmdSet
           S7 == S6 \cup InfSet
           S8 == S7 \cup ShownSet
           n1 == Len(imgFree) + Len(imgData)
           n2 == n1 + Len(tempQ)
           n3 == n2 + numReceived
           n4 == n3 + Len(imgQueue)
           n5 == n4 + Cardinality(Taken)
           n6 == n5 + Len(cmdBufs)
           n7 == n6 + Len(obj)
<1>9. /\ FreeSet \cap DataSet = {} /\ S1 \cap TempSet = {} /\ S2 \cap MgrSet = {}
      /\ (S3 \cup QueueSet \cup PageSet \cup CmdSet) \cap InfSet = {}
      /\ S3 \cap (QueueSet \cup PageSet \cup CmdSet \cup ShownSet) = {}
      /\ InfSet \cap ShownSet = {}
  BY <1>2 DEF Outside, Inside
<1>10. S4 \cap PageSet = {} /\ S5 \cap CmdSet = {} /\ S7 \cap ShownSet = {} /\ S3 \cap QueueSet = {}
  BY <1>2, <1>9 DEF Inside
<1>11. S6 \cap InfSet = {}
  BY <1>9
<1>12. Counts(S1, n1)
  BY <1>4, <1>9, CountsApart
<1>13. Counts(S2, n2)
  <2> HIDE DEF S1, n1
  <2> QED BY <1>4, <1>9, <1>12, CountsApart
<1>14. Counts(S3, n3)
  <2> HIDE DEF S2, n2
  <2> QED BY <1>5, <1>9, <1>13, CountsApart
<1>15. Counts(S4, n4)
  <2> HIDE DEF S3, n3
  <2> QED BY <1>4, <1>10, <1>14, CountsApart
<1>16. Counts(S5, n5)
  <2> HIDE DEF S4, n4
  <2> QED BY <1>6, <1>10, <1>15, CountsApart
<1>17. Counts(S6, n6)
  <2> HIDE DEF S5, n5
  <2> QED BY <1>4, <1>10, <1>16, CountsApart
<1>18. Counts(S7, n7)
  <2> HIDE DEF S6, n6
  <2> QED BY <1>7, <1>11, <1>17, CountsApart
<1>19. Counts(S8, n7 + n)
  <2> HIDE DEF S7, n7
  <2> QED BY <1>8, <1>10, <1>18, CountsApart
<1>20. NumPlaces = n7 + n
  BY DEF NumPlaces, n
<1>21. Held = S8
  BY <1>1
<1>22. NumPlaces = Cardinality(Held)
  <2> HIDE DEF S8, n7
  <2> QED BY <1>19, <1>20, <1>21 DEF Counts
<1> QED BY <1>3, <1>22 DEF CameraBuffersApart

(* Every image buffer is in exactly one place, whatever the interrupt      *)
(* grabs from the queues while the threads pass buffers on: no camera      *)
(* writes to an image that waits, is shown or is inferred.                 *)
THEOREM EveryBufferInOnePlace == HicoSpec => []CameraBuffersApart
BY BuffersAlways, BuffersApart, PTL

-----------------------------------------------------------------------------
(* The order of the frames.                                                *)

LEMMA LineTail ==
  ASSUME NEW S, NEW q \in Seq(S), NEW of, NEW con, q # <<>>, InLine(con, q, of)
  PROVE  InLine(con, Tail(q), of) /\ AllBefore(con, {of[Head(q)]}, Bufs(Tail(q), of))
<1> DEFINE t == Tail(q)
           h == Head(q)
<1>1. /\ h = q[1] /\ Len(q) \in Nat /\ Len(q) >= 1
      /\ DOMAIN q = 1 .. Len(q) /\ DOMAIN t = 1 .. Len(q) - 1
      /\ \A k \in 1 .. Len(q) - 1 : t[k] = q[k + 1]
  OBVIOUS
<1> HIDE DEF t, h
<1>2. 1 \in DOMAIN q /\ \A k \in DOMAIN t : k + 1 \in DOMAIN q /\ 1 < k + 1
  BY <1>1
<1>3. InLine(con, t, of)
  <2> SUFFICES ASSUME NEW i \in DOMAIN t, NEW k \in DOMAIN t, i < k
               PROVE  Before(con[of[t[i]]], con[of[t[k]]])
    BY DEF InLine
  <2>1. i + 1 \in DOMAIN q /\ k + 1 \in DOMAIN q /\ i + 1 < k + 1 /\ t[i] = q[i + 1] /\ t[k] = q[k + 1]
    BY <1>1, <1>2
  <2> QED BY <2>1 DEF InLine
<1>4. ASSUME NEW d \in Bufs(t, of) PROVE Before(con[of[h]], con[d])
  <2>1. PICK k \in DOMAIN t : d = of[t[k]]
    BY DEF Bufs
  <2>2. d = of[q[k + 1]] /\ k + 1 \in DOMAIN q /\ 1 < k + 1
    BY <1>1, <1>2, <2>1
  <2> QED BY <1>1, <1>2, <2>2 DEF InLine
<1> QED BY <1>3, <1>4 DEF AllBefore, t, h

LEMMA LineAppend ==
  ASSUME NEW S, NEW q \in Seq(S), NEW of, NEW con, NEW x \in S, InLine(con, q, of),
         AllBefore(con, Bufs(q, of), {of[x]})
  PROVE  InLine(con, Append(q, x), of)
<1> DEFINE a == Append(q, x)
<1>1. /\ Len(q) \in Nat
      /\ DOMAIN q = 1 .. Len(q) /\ DOMAIN a = 1 .. Len(q) + 1
      /\ \A k \in 1 .. Len(q) : a[k] = q[k]
      /\ a[Len(q) + 1] = x
  OBVIOUS
<1> HIDE DEF a
<1> SUFFICES ASSUME NEW i \in DOMAIN a, NEW k \in DOMAIN a, i < k
             PROVE  Before(con[of[a[i]]], con[of[a[k]]])
  BY DEF InLine, a
<1>2. i \in DOMAIN q /\ a[i] = q[i]
  BY <1>1
<1>3. CASE k \in DOMAIN q
  BY <1>1, <1>2, <1>3 DEF InLine
<1>4. CASE k = Len(q) + 1
  <2>1. of[q[i]] \in Bufs(q, of)
    BY <1>2 DEF Bufs
  <2> QED BY <1>1, <1>2, <1>4, <2>1 DEF AllBefore
<1> QED BY <1>1, <1>3, <1>4

LEMMA OrderAppend ==
  ASSUME NEW s \in Seq(Frames), NEW con, NEW b, NEW T, con[b] \in Frames,
         InOrder(s), Past(con, s, {b} \cup T), AllBefore(con, {b}, T)
  PROVE  InOrder(Append(s, con[b])) /\ Past(con, Append(s, con[b]), T)
<1> DEFINE a == Append(s, con[b])
<1>1. /\ Len(s) \in Nat
      /\ DOMAIN s = 1 .. Len(s) /\ DOMAIN a = 1 .. Len(s) + 1
      /\ \A k \in 1 .. Len(s) : a[k] = s[k]
      /\ a[Len(s) + 1] = con[b]
  OBVIOUS
<1> HIDE DEF a
<1>2. InOrder(a)
  <2> SUFFICES ASSUME NEW i \in DOMAIN a, NEW k \in DOMAIN a, i < k PROVE Before(a[i], a[k])
    BY DEF InOrder
  <2>1. i \in DOMAIN s /\ a[i] = s[i]
    BY <1>1
  <2>2. CASE k \in DOMAIN s
    BY <1>1, <2>1, <2>2 DEF InOrder
  <2>3. CASE k = Len(s) + 1
    BY <1>1, <2>1, <2>3 DEF Past
  <2> QED BY <1>1, <2>2, <2>3
<1>3. Past(con, a, T)
  <2> SUFFICES ASSUME NEW i \in DOMAIN a, NEW d \in T PROVE Before(a[i], con[d])
    BY DEF Past
  <2>1. CASE i \in DOMAIN s
    BY <1>1, <2>1 DEF Past
  <2>2. CASE i = Len(s) + 1
    BY <1>1, <2>2 DEF AllBefore
  <2> QED BY <1>1, <2>1, <2>2
<1> QED BY <1>2, <1>3 DEF a

LEMMA PastAppend ==
  ASSUME NEW s \in Seq(Frames), NEW con, NEW f \in Frames, NEW T, Past(con, s, T),
         \A d \in T : Before(f, con[d])
  PROVE  Past(con, Append(s, f), T)
<1> DEFINE a == Append(s, f)
<1>1. /\ Len(s) \in Nat
      /\ DOMAIN s = 1 .. Len(s) /\ DOMAIN a = 1 .. Len(s) + 1
      /\ \A k \in 1 .. Len(s) : a[k] = s[k]
      /\ a[Len(s) + 1] = f
  OBVIOUS
<1> HIDE DEF a
<1> SUFFICES ASSUME NEW i \in DOMAIN a, NEW d \in T PROVE Before(a[i], con[d])
  BY DEF Past, a
<1>2. CASE i \in DOMAIN s
  BY <1>1, <1>2 DEF Past
<1>3. CASE i = Len(s) + 1
  BY <1>1, <1>3
<1> QED BY <1>1, <1>2, <1>3

(* What only looks at some buffers stays when these keep their frames.     *)
LEMMA SameFrames ==
  ASSUME NEW U, NEW con, NEW con2, \A b \in U : con2[b] = con[b]
  PROVE  /\ \A S \in SUBSET U, T \in SUBSET U : AllBefore(con, S, T) => AllBefore(con2, S, T)
         /\ \A s : \A T \in SUBSET U : Past(con, s, T) => Past(con2, s, T)
         /\ \A q, of : Bufs(q, of) \subseteq U => (InLine(con, q, of) => InLine(con2, q, of))
<1>1. ASSUME NEW S \in SUBSET U, NEW T \in SUBSET U, AllBefore(con, S, T) PROVE AllBefore(con2, S, T)
  BY <1>1 DEF AllBefore
<1>2. ASSUME NEW s, NEW T \in SUBSET U, Past(con, s, T) PROVE Past(con2, s, T)
  BY <1>2 DEF Past
<1>3. ASSUME NEW q, NEW of, Bufs(q, of) \subseteq U, InLine(con, q, of) PROVE InLine(con2, q, of)
  <2>1. \A k \in DOMAIN q : con2[of[q[k]]] = con[of[q[k]]]
    BY <1>3 DEF Bufs
  <2> QED BY <1>3, <2>1 DEF InLine
<1> QED BY <1>1, <1>2, <1>3

LEMMA LineSplit ==
  LineInv <=> /\ InLine(content, imgQueue, OfRecord) /\ InLine(content, tempQ, OfRecord)
              /\ InLine(content, imgData, OfSingle)
              /\ Lined(content, InfSet, DataSet, MgrSet, TempSet, ShownSet, QueueSet)
              /\ solution = "tof" => imgQueue = <<>> /\ ShownSet = {}
BY DEF LineInv

LEMMA LineSplitNext ==
  LineInv' <=> /\ InLine(content', imgQueue', OfRecord) /\ InLine(content', tempQ', OfRecord)
               /\ InLine(content', imgData', OfSingle)
               /\ Lined(content', InfSet', DataSet', MgrSet', TempSet', ShownSet', QueueSet')
               /\ solution' = "tof" => imgQueue' = <<>> /\ ShownSet' = {}
BY DEF LineInv

(* A line that loses buffers is one.                                       *)
LEMMA LinedLess ==
  ASSUME NEW con, NEW I, NEW D, NEW M, NEW T, NEW S, NEW Q, Lined(con, I, D, M, T, S, Q),
         NEW I2 \in SUBSET I, NEW D2 \in SUBSET D, NEW M2 \in SUBSET M, NEW T2 \in SUBSET T,
         NEW S2 \in SUBSET S, NEW Q2 \in SUBSET Q
  PROVE  Lined(con, I2, D2, M2, T2, S2, Q2)
BY DEF Lined, AllBefore

(* What the steps that change neither the frames nor what was sent leave.  *)
LEMMA LatestKept ==
  ASSUME LatestInv, UNCHANGED <<content, images, outcomes>>,
         \A c \in Cameras : frameDone'[c] # NoPage =>
           frameDone'[c] = frameDone[c] /\ page'[c][frameDone[c]] = page[c][frameDone[c]]
  PROVE  LatestInv'
<1> SUFFICES ASSUME NEW c \in Cameras, frameDone'[c] # NoPage
             PROVE  /\ content'[Done(c)'].cam = c
                    /\ \A b \in ImgBufs \ {Done(c)'} : Before(content'[b], content'[Done(c)'])
                    /\ Past(content', images', {Done(c)'}) /\ Past(content', outcomes', {Done(c)'})
  BY DEF LatestInv
<1>1. Done(c)' = Done(c) /\ frameDone[c] # NoPage
  BY DEF Done
<1> QED BY <1>1 DEF LatestInv

LEMMA SentKept ==
  ASSUME SentInv, UNCHANGED <<content, images, outcomes>>, NEW U, NEW V,
         Past(content, images, U), Past(content, outcomes, V),
         ToShow' \subseteq ToShow \cup U, ToInfer' \subseteq ToInfer \cup V
  PROVE  SentInv'
BY DEF SentInv, Past

LEMMA NumberKept ==
  ASSUME NumberInv, UNCHANGED <<frames, content, images, outcomes>>
  PROVE  NumberInv'
BY DEF NumberInv

(* An image that moves on along the line.                                  *)
LEMMA LinedMoves ==
  ASSUME NEW con, NEW I, NEW D, NEW M, NEW T, NEW S, NEW Q, NEW x
  PROVE  /\ Lined(con, I, D, M, T, {}, Q) /\ x \in Q /\ AllBefore(con, {x}, Q \ {x})
              => Lined(con, I, D, M, T, {x}, Q \ {x})
         /\ Lined(con, I, D, M, T, {x}, Q) => Lined(con, I, D, M, T \cup {x}, {}, Q)
         /\ Lined(con, I, D, {}, T, S, Q) /\ x \in T /\ AllBefore(con, {x}, T \ {x})
              => Lined(con, I, D, {x}, T \ {x}, S, Q)
         /\ Lined(con, I, D, {x}, T, S, Q) => Lined(con, I, D \cup {x}, {}, T, S, Q)
         /\ Lined(con, {}, D, M, T, S, Q) /\ x \in D /\ AllBefore(con, {x}, D \ {x})
              => Lined(con, {x}, D \ {x}, M, T, S, Q)
<1>1. ASSUME Lined(con, I, D, M, T, {}, Q), x \in Q, AllBefore(con, {x}, Q \ {x})
      PROVE  Lined(con, I, D, M, T, {x}, Q \ {x})
  <2>1. {x} \cup (Q \ {x}) = {} \cup Q
    BY <1>1
  <2>2. \A A : A \cup {x} \cup (Q \ {x}) = A \cup {} \cup Q
    BY <1>1
  <2> QED BY <1>1, <2>1, <2>2 DEF Lined
<1>2. ASSUME Lined(con, I, D, M, T, {x}, Q) PROVE Lined(con, I, D, M, T \cup {x}, {}, Q)
  BY <1>2 DEF Lined, AllBefore
<1>3. ASSUME Lined(con, I, D, {}, T, S, Q), x \in T, AllBefore(con, {x}, T \ {x})
      PROVE  Lined(con, I, D, {x}, T \ {x}, S, Q)
  BY <1>3 DEF Lined, AllBefore
<1>4. ASSUME Lined(con, I, D, {x}, T, S, Q) PROVE Lined(con, I, D \cup {x}, {}, T, S, Q)
  BY <1>4 DEF Lined, AllBefore
<1>5. ASSUME Lined(con, {}, D, M, T, S, Q), x \in D, AllBefore(con, {x}, D \ {x})
      PROVE  Lined(con, {x}, D \ {x}, M, T, S, Q)
  BY <1>5 DEF Lined, AllBefore
<1> QED BY <1>1, <1>2, <1>3, <1>4, <1>5

(* The latest image enters the line, to be shown or to be inferred.        *)
LEMMA LinedEnters ==
  ASSUME NEW con, NEW I, NEW D, NEW M, NEW T, NEW S, NEW Q, NEW y, Lined(con, I, D, M, T, S, Q),
         AllBefore(con, I \cup D \cup M \cup T \cup S \cup Q, {y})
  PROVE  /\ Lined(con, I, D, M, T, S, Q \cup {y})
         /\ S = {} /\ Q = {} => Lined(con, I, D, M, T \cup {y}, S, Q)
<1>1. Lined(con, I, D, M, T, S, Q \cup {y})
  BY DEF Lined, AllBefore
<1>2. S = {} /\ Q = {} => Lined(con, I, D, M, T \cup {y}, S, Q)
  BY DEF Lined, AllBefore
<1> QED BY <1>1, <1>2

Ordered == LatestInv /\ LineInv /\ SentInv /\ StartInv

LEMMA CalmKept ==
  ASSUME Ordered,
         UNCHANGED <<content, images, outcomes, frameDone, page, streaming, cmdPc, cmdCams>>
  PROVE  LatestInv' /\ StartInv'
<1>1. LatestInv'
  BY LatestKept DEF Ordered
<1>2. StartInv'
  BY DEF Ordered, StartInv
<1> QED BY <1>1, <1>2

LEMMA SentLess ==
  ASSUME Ordered, UNCHANGED <<content, images, outcomes>>, ToShow' \subseteq ToShow,
         ToInfer' \subseteq ToInfer
  PROVE  SentInv'
<1>1. Past(content, images, {}) /\ Past(content, outcomes, {})
  BY DEF Past
<1> QED BY <1>1, SentKept DEF Ordered

LEMMA ShowGetOrder == ASSUME BufferInv, Ordered, ShowGet PROVE Ordered'
<1> DEFINE r == Head(imgQueue)
<1>1. /\ showPc = "get" /\ imgQueue # <<>> /\ shown' = r /\ imgQueue' = Tail(imgQueue)
      /\ showPc' = "got"
      /\ UNCHANGED <<imgFree, imgData, tempQ, stored, numReceived, solution, page, frameDone,
                     streaming, cmdPc, cmdCams, infPc, obj>>
      /\ UNCHANGED <<frames, content, images, outcomes>>
  BY DEF ShowGet, queueVars, restOfShow, camVars, cmdVars, infVars, histVars
<1>2. /\ r \in Images /\ OfRecord[r] \in QueueSet /\ QueueSet' = QueueSet \ {OfRecord[r]}
  BY <1>1, QueueTail DEF QueueSet, BufferInv, TypesInv, QueueTypes, OnceInv
<1>3. InLine(content, imgQueue', OfRecord) /\ AllBefore(content, {OfRecord[r]}, QueueSet')
  BY <1>1, LineTail DEF QueueSet, BufferInv, TypesInv, QueueTypes, Ordered, LineInv
<1> HIDE DEF r
<1>4. PICK x \in ImgBufs : x = OfRecord[r] /\ r.buf = x /\ x # NULL
  BY <1>2, DataFacts, Values
<1>5. ShownSet = {} /\ ShownSet' = {x}
  BY <1>1, <1>4, ShownFacts DEF ShownSet, BufferInv
<1>6. /\ DataSet' = DataSet /\ TempSet' = TempSet /\ MgrSet' = MgrSet /\ InfSet' = InfSet
  BY <1>1, SetsKept
<1>7. Lined(content, InfSet, DataSet, MgrSet, TempSet, {x}, QueueSet \ {x})
  <2>1. Lined(content, InfSet, DataSet, MgrSet, TempSet, {}, QueueSet)
    BY <1>5, LineSplit DEF Ordered
  <2> QED BY <1>2, <1>3, <1>4, <2>1, LinedMoves
<1>8. LineInv'
  <2>1. solution' # "tof"
    BY <1>1, LineSplit DEF Ordered
  <2>2. Lined(content', InfSet', DataSet', MgrSet', TempSet', ShownSet', QueueSet')
    BY <1>1, <1>2, <1>4, <1>5, <1>6, <1>7
  <2> QED BY <1>1, <1>3, <2>1, <2>2, LineSplit, LineSplitNext DEF Ordered
<1>9. SentInv'
  <2>1. QueueSet' \cup ShownSet' \subseteq QueueSet
    BY <1>2, <1>4, <1>5
  <2> QED BY <1>1, <1>6, <2>1, SentLess DEF ToShow, ToInfer
<1> QED BY <1>1, <1>8, <1>9, CalmKept DEF Ordered

LEMMA ShowReturnsOrder == ASSUME BufferInv, Ordered, ShowReturns PROVE Ordered'
<1>1. /\ showPc = "cut" /\ shown' = NoImage /\ showPc' = "gone"
      /\ UNCHANGED <<imgFree, imgData, tempQ, stored, numReceived, solution, page, frameDone,
                     streaming, imgQueue, cmdPc, cmdCams, infPc, obj>>
      /\ UNCHANGED <<frames, content, images, outcomes>>
  BY DEF ShowReturns, imgQueues, mgrVars, restOfShow, camVars, cmdVars, infVars, histVars
<1>2. ShownSet' = {}
  BY <1>1, Values DEF ShownSet
<1>3. /\ DataSet' = DataSet /\ TempSet' = TempSet /\ MgrSet' = MgrSet /\ InfSet' = InfSet
      /\ QueueSet' = QueueSet
  BY <1>1, SetsKept
<1>4. Lined(content, InfSet, DataSet, MgrSet, TempSet, {}, QueueSet)
  BY LinedLess, LineSplit DEF Ordered
<1>5. LineInv'
  BY <1>1, <1>2, <1>3, <1>4, LineSplit, LineSplitNext DEF Ordered
<1>6. SentInv'
  BY <1>1, <1>2, <1>3, SentLess DEF ToShow, ToInfer
<1> QED BY <1>1, <1>5, <1>6, CalmKept DEF Ordered

LEMMA ShowReleasesOrder == ASSUME BufferInv, Ordered, ShowReleases PROVE Ordered'
<1>1. /\ showPc = "sent" /\ shown' = NoImage /\ showPc' = "get"
      /\ \/ UNCHANGED tempQ
         \/ tempQ' = Append(tempQ, [total |-> 1, index |-> 0, buf |-> shown.buf])
      /\ UNCHANGED <<imgData, stored, numReceived, solution, page, frameDone,
                     streaming, imgQueue, cmdPc, cmdCams, infPc, obj>>
      /\ UNCHANGED <<frames, content, images, outcomes>>
  BY DEF ShowReleases, image_enqueue, mgrVars, restOfShow, camVars, cmdVars, infVars, histVars
<1>2. PICK x \in ImgBufs : x = shown.buf /\ ShownSet = {x}
  BY <1>1, ShownFacts DEF BufferInv
<1>3. ShownSet' = {}
  BY <1>1, Values DEF ShownSet
<1>4. DataSet' = DataSet /\ MgrSet' = MgrSet /\ InfSet' = InfSet /\ QueueSet' = QueueSet
  BY <1>1, SetsKept
<1>5. solution # "tof"
  BY <1>2, LineSplit DEF Ordered
<1>6. Lined(content, InfSet, DataSet, MgrSet, TempSet, {x}, QueueSet)
  BY <1>2, LineSplit DEF Ordered
<1>7. CASE UNCHANGED tempQ
  <2>1. TempSet' = TempSet
    BY <1>7, SetsKept
  <2>2. Lined(content, InfSet, DataSet, MgrSet, TempSet, {}, QueueSet)
    BY <1>6, LinedLess
  <2>3. LineInv'
    BY <1>1, <1>3, <1>4, <1>5, <1>7, <2>1, <2>2, LineSplit, LineSplitNext DEF Ordered
  <2>4. SentInv'
    BY <1>1, <1>3, <1>4, <2>1, SentLess DEF ToShow, ToInfer
  <2> QED BY <1>1, <2>3, <2>4, CalmKept DEF Ordered
<1>8. CASE tempQ' = Append(tempQ, [total |-> 1, index |-> 0, buf |-> shown.buf])
  <2>1. PICK r \in Received : r = [total |-> 1, index |-> 0, buf |-> x] /\ OfRecord[r] = x
    BY DataFacts
  <2>2. tempQ' = Append(tempQ, r)
    BY <1>2, <1>8, <2>1
  <2>3. /\ tempQ \in Seq(Received) /\ Once(tempQ, OfRecord) /\ x \notin TempSet
        /\ InLine(content, tempQ, OfRecord)
    <3>1. owner[x] = "img"
      BY <1>2, NowhereElse DEF BufferInv
    <3>2. x \notin TempSet
      BY <3>1, NowhereElse DEF BufferInv
    <3> QED BY <3>2, LineSplit DEF BufferInv, TypesInv, QueueTypes, OnceInv, Ordered
  <2>4. TempSet' = TempSet \cup {x}
    BY <2>1, <2>2, <2>3, QueueAppend DEF TempSet
  <2>5. InLine(content, tempQ', OfRecord)
    <3>1. AllBefore(content, Bufs(tempQ, OfRecord), {OfRecord[r]})
      BY <1>6, <2>1 DEF Lined, AllBefore, TempSet
    <3> QED BY <2>2, <2>3, <3>1, LineAppend
  <2>6. Lined(content, InfSet, DataSet, MgrSet, TempSet \cup {x}, {}, QueueSet)
    BY <1>6, LinedMoves
  <2>7. LineInv'
    BY <1>1, <1>3, <1>4, <1>5, <2>4, <2>5, <2>6, LineSplit, LineSplitNext DEF Ordered
  <2>8. SentInv'
    BY <1>1, <1>2, <1>3, <1>4, <2>4, SentLess DEF ToShow, ToInfer
  <2> QED BY <1>1, <2>7, <2>8, CalmKept DEF Ordered
<1> QED BY <1>1, <1>7, <1>8

LEMMA InfGetOrder == ASSUME BufferInv, Ordered, InfGet PROVE Ordered'
<1> DEFINE o == Head(imgData)
<1>1. /\ infPc = "get" /\ infPc' = "result" /\ obj' = o
      /\ imgData # <<>> /\ imgData' = Tail(imgData)
      /\ UNCHANGED <<tempQ, stored, numReceived, solution, page, frameDone, streaming, imgQueue,
                     cmdPc, cmdCams, showPc, shown>>
      /\ UNCHANGED <<frames, content, images, outcomes>>
  BY DEF InfGet, image_dequeue, mgrVars, restOfInf, camVars, cmdVars, showVars, histVars
<1>2. o \in Singles /\ OfSingle[o] \in DataSet /\ DataSet' = DataSet \ {OfSingle[o]}
  BY <1>1, QueueTail DEF DataSet, BufferInv, TypesInv, QueueTypes, OnceInv
<1>3. InLine(content, imgData', OfSingle) /\ AllBefore(content, {OfSingle[o]}, DataSet')
  BY <1>1, LineTail DEF DataSet, BufferInv, TypesInv, QueueTypes, Ordered, LineInv
<1> HIDE DEF o
<1>4. PICK x \in ImgBufs : x = OfSingle[o] /\ o = <<x>>
  BY <1>2, DataFacts
<1>5. InfSet = {} /\ InfSet' = {x}
  <2>1. InfSet = {}
    BY <1>1, ObjectFacts DEF BufferInv
  <2> QED BY <1>1, <1>4, <2>1, SingleQueue DEF InfSet
<1>6. TempSet' = TempSet /\ MgrSet' = MgrSet /\ QueueSet' = QueueSet /\ ShownSet' = ShownSet
  BY <1>1, SetsKept
<1>7. Lined(content, {x}, DataSet \ {x}, MgrSet, TempSet, ShownSet, QueueSet)
  <2>1. Lined(content, {}, DataSet, MgrSet, TempSet, ShownSet, QueueSet)
    BY <1>5, LineSplit DEF Ordered
  <2> QED BY <1>2, <1>3, <1>4, <2>1, LinedMoves
<1>8. LineInv'
  <2>1. Lined(content', InfSet', DataSet', MgrSet', TempSet', ShownSet', QueueSet')
    BY <1>1, <1>2, <1>4, <1>5, <1>6, <1>7
  <2> QED BY <1>1, <1>3, <1>6, <2>1, LineSplit, LineSplitNext DEF Ordered
<1>9. SentInv'
  <2>1. DataSet' \cup InfSet' \subseteq DataSet
    BY <1>2, <1>4, <1>5
  <2> QED BY <1>1, <1>6, <2>1, SentLess DEF ToShow, ToInfer
<1> QED BY <1>1, <1>8, <1>9, CalmKept DEF Ordered

LEMMA InfPutOrder == ASSUME BufferInv, Ordered, InfPut PROVE Ordered'
<1>1. /\ infPc = "put" /\ infPc' = "get" /\ obj' = <<>>
      /\ UNCHANGED <<imgData, tempQ, stored, numReceived, solution, page, frameDone, streaming,
                     imgQueue, cmdPc, cmdCams, showPc, shown>>
      /\ UNCHANGED <<frames, content, images, outcomes>>
  BY DEF InfPut, mgrVars, restOfInf, camVars, cmdVars, showVars, histVars
<1>2. InfSet' = {}
  BY <1>1, EmptyQueue DEF InfSet
<1>3. /\ DataSet' = DataSet /\ TempSet' = TempSet /\ MgrSet' = MgrSet /\ QueueSet' = QueueSet
      /\ ShownSet' = ShownSet
  BY <1>1, SetsKept
<1>4. Lined(content, {}, DataSet, MgrSet, TempSet, ShownSet, QueueSet)
  BY LinedLess, LineSplit DEF Ordered
<1>5. LineInv'
  BY <1>1, <1>2, <1>3, <1>4, LineSplit, LineSplitNext DEF Ordered
<1>6. SentInv'
  BY <1>1, <1>2, <1>3, SentLess DEF ToShow, ToInfer
<1> QED BY <1>1, <1>5, <1>6, CalmKept DEF Ordered

LEMMA MgrGetOrder == ASSUME BufferInv, Ordered, MgrGet, BufMgr PROVE Ordered'
<1> DEFINE r == Head(tempQ)
<1>1. /\ mgrPc = "get" /\ tempQ # <<>> /\ tempQ' = Tail(tempQ)
      /\ stored' = [stored EXCEPT ![0] = r.buf] /\ numReceived' = 1
      /\ UNCHANGED <<imgData, solution, page, frameDone, streaming, imgQueue, cmdPc, cmdCams,
                     showPc, shown, infPc, obj>>
      /\ UNCHANGED <<frames, content, images, outcomes>>
  BY MgrGetFacts DEF BufMgr, camVars, cmdVars, showVars, infVars, histVars
<1>2. r \in Received /\ OfRecord[r] \in TempSet /\ TempSet' = TempSet \ {OfRecord[r]}
  BY <1>1, QueueTail DEF TempSet, BufferInv, TypesInv, QueueTypes, OnceInv
<1>3. InLine(content, tempQ', OfRecord) /\ AllBefore(content, {OfRecord[r]}, TempSet')
  BY <1>1, LineTail DEF TempSet, BufferInv, TypesInv, QueueTypes, Ordered, LineInv
<1> HIDE DEF r
<1>4. PICK x \in ImgBufs : x = OfRecord[r] /\ r.buf = x
  BY <1>2, DataFacts
<1>5. MgrSet = {} /\ MgrSet' = {x}
  <2>1. MgrSet = {}
    BY <1>1, MgrFacts DEF BufferInv, TypesInv
  <2>2. stored'[0] = x
    BY <1>1, <1>4 DEF BufferInv, TypesInv, MgrTypes
  <2>3. 0 .. numReceived' - 1 = {0}
    BY <1>1
  <2> QED BY <2>1, <2>2, <2>3 DEF MgrSet
<1>6. DataSet' = DataSet /\ InfSet' = InfSet /\ QueueSet' = QueueSet /\ ShownSet' = ShownSet
  BY <1>1, SetsKept
<1>7. Lined(content, InfSet, DataSet, {x}, TempSet \ {x}, ShownSet, QueueSet)
  <2>1. Lined(content, InfSet, DataSet, {}, TempSet, ShownSet, QueueSet)
    BY <1>5, LineSplit DEF Ordered
  <2> QED BY <1>2, <1>3, <1>4, <2>1, LinedMoves
<1>8. LineInv'
  <2>1. Lined(content', InfSet', DataSet', MgrSet', TempSet', ShownSet', QueueSet')
    BY <1>1, <1>2, <1>4, <1>5, <1>6, <1>7
  <2> QED BY <1>1, <1>3, <1>6, <2>1, LineSplit, LineSplitNext DEF Ordered
<1>9. SentInv'
  <2>1. MgrSet' \cup TempSet' \subseteq TempSet
    BY <1>2, <1>4, <1>5
  <2> QED BY <1>1, <1>6, <2>1, SentLess DEF ToShow, ToInfer
<1> QED BY <1>1, <1>8, <1>9, CalmKept DEF Ordered

LEMMA MgrEnqueueOrder == ASSUME BufferInv, Ordered, MgrEnqueue, BufMgr PROVE Ordered'
<1>1. /\ mgrPc = "enqueue" /\ stored[0] \in ImgBufs
      /\ imgData' = Append(imgData, <<stored[0]>>) /\ numReceived' = 0
      /\ UNCHANGED <<tempQ, solution, page, frameDone, streaming, imgQueue, cmdPc, cmdCams,
                     showPc, shown, infPc, obj>>
      /\ UNCHANGED <<frames, content, images, outcomes>>
  BY MgrEnqueueFacts DEF BufMgr, camVars, cmdVars, showVars, infVars, histVars
<1>2. PICK x \in ImgBufs : x = stored[0] /\ MgrSet = {x}
  BY <1>1, MgrFacts DEF BufferInv, TypesInv
<1>3. MgrSet' = {}
  <2>1. 0 .. numReceived' - 1 = {}
    BY <1>1
  <2> QED BY <2>1 DEF MgrSet
<1>4. TempSet' = TempSet /\ InfSet' = InfSet /\ QueueSet' = QueueSet /\ ShownSet' = ShownSet
  BY <1>1, SetsKept
<1>5. Lined(content, InfSet, DataSet, {x}, TempSet, ShownSet, QueueSet)
  BY <1>2, LineSplit DEF Ordered
<1>6. PICK o \in Singles : o = <<x>> /\ OfSingle[o] = x
  BY DataFacts
<1>7. /\ imgData' = Append(imgData, o) /\ imgData \in Seq(Singles) /\ Once(imgData, OfSingle)
      /\ InLine(content, imgData, OfSingle)
  BY <1>1, <1>2, <1>6, LineSplit DEF BufferInv, TypesInv, QueueTypes, OnceInv, Ordered
<1>8. DataSet' = DataSet \cup {x}
  <2>1. owner[x] = "mgr"
    BY <1>2, NowhereElse DEF BufferInv
  <2>2. x \notin DataSet
    BY <2>1, NowhereElse DEF BufferInv
  <2> QED BY <1>6, <1>7, <2>2, QueueAppend DEF DataSet
<1>9. InLine(content, imgData', OfSingle)
  <2>1. AllBefore(content, Bufs(imgData, OfSingle), {OfSingle[o]})
    BY <1>5, <1>6 DEF Lined, AllBefore, DataSet
  <2> QED BY <1>7, <2>1, LineAppend
<1>10. Lined(content, InfSet, DataSet \cup {x}, {}, TempSet, ShownSet, QueueSet)
  BY <1>5, LinedMoves
<1>11. LineInv'
  <2>1. Lined(content', InfSet', DataSet', MgrSet', TempSet', ShownSet', QueueSet')
    BY <1>1, <1>3, <1>4, <1>8, <1>10
  <2> QED BY <1>1, <1>4, <1>9, <2>1, LineSplit, LineSplitNext DEF Ordered
<1>12. SentInv'
  BY <1>1, <1>2, <1>3, <1>4, <1>8, SentLess DEF ToShow, ToInfer
<1> QED BY <1>1, <1>11, <1>12, CalmKept DEF Ordered

(* A buffer that is taken from a queue leaves the order of the others.     *)
LEMMA TakesOrder ==
  ASSUME BufferInv, Ordered, NEW force, NEW x, TakeFree(force, <<x>>), UNCHANGED content
  PROVE  DataSet' \subseteq DataSet /\ InLine(content', imgData', OfSingle)
<1>1. imgData' = imgData \/ (imgData # <<>> /\ imgData' = Tail(imgData))
  BY DEF TakeFree, take_free, take_data
<1>2. DataSet' \subseteq DataSet
  BY TakesFacts
<1>3. imgData \in Seq(Singles) /\ InLine(content, imgData, OfSingle)
  BY LineSplit DEF BufferInv, TypesInv, QueueTypes, Ordered
<1>4. imgData # <<>> => InLine(content, Tail(imgData), OfSingle)
  BY <1>3, LineTail
<1> QED BY <1>1, <1>2, <1>3, <1>4

LEMMA CameraTakesOrder == ASSUME BufferInv, Ordered, CameraTakes PROVE Ordered'
<1>1. PICK x \in ImgBufs : TakeFree(FALSE, <<x>>)
  BY DEF CameraTakes
<1>2. /\ UNCHANGED <<tempQ, stored, numReceived, solution, page, frameDone, streaming, imgQueue,
                     cmdPc, cmdCams, showPc, shown, infPc, obj>>
      /\ UNCHANGED <<frames, content, images, outcomes>>
  BY DEF CameraTakes, mgrVars, camVars, cmdVars, showVars, infVars, histVars
<1>3. DataSet' \subseteq DataSet /\ InLine(content', imgData', OfSingle)
  BY <1>1, <1>2, TakesOrder
<1>4. /\ TempSet' = TempSet /\ MgrSet' = MgrSet /\ InfSet' = InfSet /\ QueueSet' = QueueSet
      /\ ShownSet' = ShownSet
  BY <1>2, SetsKept
<1>5. Lined(content, InfSet, DataSet', MgrSet, TempSet, ShownSet, QueueSet)
  <2> DEFINE D == DataSet'
  <2>1. D \in SUBSET DataSet
    BY <1>3
  <2> HIDE DEF D
  <2>2. Lined(content, InfSet, D, MgrSet, TempSet, ShownSet, QueueSet)
    BY <2>1, LinedLess, LineSplit DEF Ordered
  <2> QED BY <2>2 DEF D
<1>6. LineInv'
  <2>1. Lined(content', InfSet', DataSet', MgrSet', TempSet', ShownSet', QueueSet')
    BY <1>2, <1>4, <1>5
  <2> QED BY <1>2, <1>3, <1>4, <2>1, LineSplit, LineSplitNext DEF Ordered
<1>7. SentInv'
  BY <1>2, <1>3, <1>4, SentLess DEF ToShow, ToInfer
<1> QED BY <1>2, <1>6, <1>7, CalmKept DEF Ordered

(* The camera that is started has nothing to report, or it was running.    *)
LEMMA CameraStartsOrder == ASSUME BufferInv, Ordered, CameraStarts PROVE Ordered'
<1> DEFINE c == FirstOf(cmdCams)
<1>1. /\ cmdPc = "buffers" /\ cmdPc' = "camera"
      /\ page' = [page EXCEPT ![c] = [p \in Pages |-> cmdBufs[p + 1]]]
      /\ UNCHANGED <<imgFree, imgData, tempQ, stored, numReceived, solution, frameDone, imgQueue,
                     showPc, shown, infPc, obj>>
      /\ UNCHANGED <<frames, content, images, outcomes>>
  BY DEF CameraStarts, imgQueues, mgrVars, showVars, infVars, histVars
<1>2. ~streaming[c] /\ c \in Cameras
  <2>1. c \in Cameras
    BY <1>1, FirstIsThere DEF BufferInv, TypesInv, ThreadTypes
  <2> QED BY <1>1, <2>1 DEF Ordered, StartInv
<1> HIDE DEF c
<1>3. frameDone[c] = NoPage
  BY <1>2 DEF BufferInv, TypesInv, CameraTypes
<1>4. LatestInv'
  <2>1. \A d \in Cameras : d # c => page'[d] = page[d]
    BY <1>1, <1>2 DEF BufferInv, TypesInv, CameraTypes
  <2> QED BY <1>1, <1>3, <2>1, LatestKept DEF Ordered
<1>5. /\ DataSet' = DataSet /\ TempSet' = TempSet /\ MgrSet' = MgrSet /\ InfSet' = InfSet
      /\ QueueSet' = QueueSet /\ ShownSet' = ShownSet
  BY <1>1, SetsKept
<1>6. LineInv'
  BY <1>1, <1>5, LineSplit, LineSplitNext DEF Ordered
<1>7. SentInv'
  BY <1>1, <1>5, SentLess DEF ToShow, ToInfer
<1>8. StartInv'
  BY <1>1 DEF StartInv
<1> QED BY <1>4, <1>6, <1>7, <1>8 DEF Ordered

(* Where the buffers of the line are: not in the pages.                    *)
LEMMA LineBuffers ==
  ASSUME BufferInv
  PROVE  \A b \in InfSet \cup DataSet \cup MgrSet \cup TempSet \cup ShownSet \cup QueueSet :
           b \in ImgBufs /\ b \notin PageSet
<1>1. /\ Outside(FreeSet, DataSet, TempSet, MgrSet, InfSet, owner)
      /\ Inside(QueueSet, PageSet, CmdSet, ShownSet, owner)
  BY PlaceSplit DEF BufferInv
<1>2. \A b \in InfSet \cup DataSet \cup MgrSet \cup TempSet : b \in ImgBufs /\ owner[b] # "img"
  BY <1>1 DEF Outside
<1>3. \A b \in ShownSet \cup QueueSet : b \in ImgBufs /\ b \notin PageSet
  BY <1>1 DEF Inside
<1>4. \A b \in PageSet : owner[b] = "img"
  BY <1>1 DEF Inside
<1> QED BY <1>2, <1>3, <1>4

(* A frame is written to a page: it is the latest of its camera, and       *)
(* nothing in the line changes.                                            *)
LEMMA FrameEndsLatest ==
  ASSUME BufferInv, NumberInv, LatestInv, NEW c \in Cameras, FrameEnds(c)
  PROVE  LatestInv'
<1> DEFINE z == page[c][filling[c]]
<1>1. /\ z \in ImgBufs /\ filling[c] \in Pages
      /\ frameDone' = [frameDone EXCEPT ![c] = filling[c]]
      /\ content' = [content EXCEPT ![z] = [cam |-> c, number |-> frames + 1]]
      /\ UNCHANGED <<page, images, outcomes>>
  BY DEF FrameEnds, BufferInv, TypesInv, CameraTypes
<1>2. /\ frameDone \in [Cameras -> Pages \cup {NoPage}] /\ content \in [ImgBufs -> Frames]
      /\ images \in Seq(Frames) /\ outcomes \in Seq(Frames) /\ frames \in Nat
  BY DEF BufferInv, TypesInv, CameraTypes, FrameTypes
<1> SUFFICES ASSUME NEW d \in Cameras, frameDone'[d] # NoPage
             PROVE  /\ content'[Done(d)'].cam = d
                    /\ \A b \in ImgBufs \ {Done(d)'} : Before(content'[b], content'[Done(d)'])
                    /\ Past(content', images', {Done(d)'}) /\ Past(content', outcomes', {Done(d)'})
  BY DEF LatestInv
<1>3. CASE d = c
  <2>1. Done(d)' = z
    BY <1>1, <1>2, <1>3 DEF Done
  <2> HIDE DEF z
  <2>2. content'[z] = [cam |-> c, number |-> frames + 1] /\ \A b \in ImgBufs \ {z} : content'[b] = content[b]
    BY <1>1, <1>2
  <2>3. ASSUME NEW f \in Frames, f.number <= frames PROVE Before(f, content'[z])
    BY <1>2, <2>2, <2>3 DEF Before, Frames
  <2>4. \A b \in ImgBufs \ {z} : Before(content'[b], content'[z])
    BY <1>2, <2>2, <2>3 DEF NumberInv
  <2>5. Past(content', images, {z})
    BY <1>2, <2>3 DEF NumberInv, Past
  <2>6. Past(content', outcomes, {z})
    BY <1>2, <2>3 DEF NumberInv, Past
  <2> QED BY <1>1, <1>3, <2>1, <2>2, <2>4, <2>5, <2>6
<1>4. CASE d # c
  <2>1. frameDone'[d] = frameDone[d] /\ Done(d)' = Done(d)
    BY <1>1, <1>2, <1>4 DEF Done
  <2>2. Done(d) # z /\ Done(d) \in ImgBufs
    <3>1. frameDone[d] \in Pages /\ streaming[d]
      BY <1>2, <2>1 DEF BufferInv, TypesInv, CameraTypes
    <3>2. Done(d) \in ImgBufs
      BY <3>1 DEF Done, BufferInv, TypesInv, CameraTypes
    <3>3. <<d, frameDone[d]>> \in Taken /\ <<c, filling[c]>> \in Taken
      BY <1>1, <3>1, <3>2, Values DEF Taken, Done
    <3>4. ASSUME Done(d) = z PROVE <<d, frameDone[d]>> = <<c, filling[c]>>
      BY <3>3, <3>4 DEF BufferInv, OnceInv, PageOnce, Done
    <3> QED BY <1>4, <3>2, <3>4
  <2> HIDE DEF z
  <2>3. content'[z].cam = c /\ \A b \in ImgBufs \ {z} : content'[b] = content[b]
    BY <1>1, <1>2
  <2>4. /\ content[Done(d)].cam = d
        /\ \A b \in ImgBufs \ {Done(d)} : Before(content[b], content[Done(d)])
        /\ Past(content, images, {Done(d)}) /\ Past(content, outcomes, {Done(d)})
    BY <2>1 DEF LatestInv
  <2>5. Before(content'[z], content'[Done(d)])
    BY <1>4, <2>2, <2>3, <2>4 DEF Before
  <2>6. \A b \in ImgBufs \ {Done(d)} : Before(content'[b], content'[Done(d)])
    BY <2>2, <2>3, <2>4, <2>5
  <2>7. Past(content', images, {Done(d)}) /\ Past(content', outcomes, {Done(d)})
    BY <2>2, <2>3, <2>4 DEF Past
  <2> QED BY <1>1, <2>1, <2>2, <2>3, <2>4, <2>6, <2>7
<1> QED BY <1>3, <1>4

LEMMA FrameEndsOrder ==
  ASSUME BufferInv, NumberInv, Ordered, NEW c \in Cameras, FrameEnds(c)
  PROVE  Ordered'
<1> DEFINE z == page[c][filling[c]]
           U == ImgBufs \ {z}
<1>1. /\ z \in ImgBufs /\ filling[c] \in Pages
      /\ content' = [content EXCEPT ![z] = [cam |-> c, number |-> frames']]
      /\ UNCHANGED <<placeVars, solution, streaming, showPc, infPc, cmdPc, cmdCams, images, outcomes>>
  BY DEF FrameEnds, BufferInv, TypesInv, CameraTypes, queueVars, modeVars, cmdVars, showVars,
         infVars, placeVars
<1>2. z \in PageSet
  BY <1>1, PageFacts, Values DEF BufferInv, TypesInv
<1> HIDE DEF z
<1>3. content \in [ImgBufs -> Frames]
  BY DEF BufferInv, TypesInv, FrameTypes
<1>4. \A b \in U : content'[b] = content[b]
  BY <1>1, <1>3
<1>5. InfSet \cup DataSet \cup MgrSet \cup TempSet \cup ShownSet \cup QueueSet \subseteq U
  BY <1>2, LineBuffers
<1> HIDE DEF U
<1>6. /\ \A S \in SUBSET U, T \in SUBSET U : AllBefore(content, S, T) => AllBefore(content', S, T)
      /\ \A s : \A T \in SUBSET U : Past(content, s, T) => Past(content', s, T)
      /\ \A q, of : Bufs(q, of) \subseteq U => (InLine(content, q, of) => InLine(content', q, of))
  <2> DEFINE con2 == content'
  <2>1. \A b \in U : con2[b] = content[b]
    BY <1>4
  <2> HIDE DEF con2
  <2>2. /\ \A S \in SUBSET U, T \in SUBSET U : AllBefore(content, S, T) => AllBefore(con2, S, T)
        /\ \A s : \A T \in SUBSET U : Past(content, s, T) => Past(con2, s, T)
        /\ \A q, of : Bufs(q, of) \subseteq U => (InLine(content, q, of) => InLine(con2, q, of))
    BY <2>1, SameFrames
  <2> QED BY <2>2 DEF con2
<1>7. /\ DataSet' = DataSet /\ TempSet' = TempSet /\ MgrSet' = MgrSet /\ InfSet' = InfSet
      /\ QueueSet' = QueueSet /\ ShownSet' = ShownSet
  BY <1>1, SetsKept DEF placeVars
<1>8. Lined(content', InfSet, DataSet, MgrSet, TempSet, ShownSet, QueueSet)
  BY <1>5, <1>6, LineSplit DEF Lined, Ordered
<1>9. /\ InLine(content', imgQueue, OfRecord) /\ InLine(content', tempQ, OfRecord)
      /\ InLine(content', imgData, OfSingle)
  BY <1>5, <1>6, LineSplit DEF Ordered, QueueSet, TempSet, DataSet
<1>10. LineInv'
  BY <1>1, <1>7, <1>8, <1>9, LineSplit, LineSplitNext DEF Ordered, placeVars
<1>11. SentInv'
  <2>1. ToShow' = ToShow /\ ToInfer' = ToInfer
    BY <1>1, <1>7 DEF ToShow, ToInfer
  <2>2. ToShow \in SUBSET U /\ ToInfer \in SUBSET U
    BY <1>5 DEF ToShow, ToInfer
  <2>3. Past(content', images, ToShow) /\ Past(content', outcomes, ToInfer)
    BY <1>6, <2>2 DEF Ordered, SentInv
  <2> QED BY <1>1, <2>1, <2>3 DEF Ordered, SentInv
<1>12. StartInv'
  BY <1>1 DEF StartInv, Ordered
<1> QED BY <1>10, <1>11, <1>12, FrameEndsLatest DEF Ordered

(* The steps that move no buffer: an image or an outcome may be sent.      *)
LEMMA QuietCases ==
  ASSUME BufferInv, Quiet
  PROVE  /\ \/ ShowSent \/ InfAnswers
            \/ /\ UNCHANGED <<images, outcomes>>
               /\ showPc = "sent" => showPc' = "sent"
               /\ infPc = "put" => infPc' = "put"
         /\ \/ UNCHANGED <<streaming, cmdPc, cmdCams, restarted>>
            \/ cmdPc' # "buffers" /\ UNCHANGED restarted
            \/ /\ restarted' = (restarted \/ streaming[FirstOf(cmdCams)])
               /\ UNCHANGED <<streaming, cmdCams>>
<1> DEFINE Sends == \/ ShowSent \/ InfAnswers
                    \/ /\ UNCHANGED <<images, outcomes>>
                       /\ showPc = "sent" => showPc' = "sent"
                       /\ infPc = "put" => infPc' = "put"
           Starts == \/ UNCHANGED <<streaming, cmdPc, cmdCams, restarted>>
                     \/ cmdPc' # "buffers" /\ UNCHANGED restarted
                     \/ /\ restarted' = (restarted \/ streaming[FirstOf(cmdCams)])
                        /\ UNCHANGED <<streaming, cmdCams>>
<1> USE DEF queueVars, imgQueues, mgrVars, camVars, modeVars, cmdVars, showVars, infVars, sendVars,
            histVars, restOfShow, restOfInf, restOfRes
<1>1. ASSUME NEW c \in Cameras, Overflows(c) PROVE Sends /\ Starts
  BY <1>1 DEF Overflows
<1>2. CASE LinkConfigured
  <2>1. cmdPc' = cmdPc \/ cmdPc' = "receive"
    BY <1>2 DEF LinkConfigured
  <2> QED BY <1>2, <2>1 DEF LinkConfigured
<1>3. CASE Unplug
  BY <1>3 DEF Unplug
<1>4. CASE Start
  BY <1>4 DEF Start
<1>5. CASE CameraOpens
  <2>1. Sends
    BY <1>5 DEF CameraOpens
  <2>2. Starts
    <3>1. CASE restarted' = (restarted \/ streaming[FirstOf(cmdCams)]) /\ UNCHANGED cmdCams
      BY <1>5, <3>1 DEF CameraOpens
    <3>2. CASE UNCHANGED <<cmdPc, restarted>>
      <4>1. cmdPc' # "buffers"
        BY <1>5, <3>2 DEF CameraOpens
      <4> QED BY <3>2, <4>1
    <3> QED BY <1>5, <3>1, <3>2 DEF CameraOpens
  <2> QED BY <2>1, <2>2
<1>6. CASE Respond
  BY <1>6 DEF Respond
<1>7. CASE ShowBegin
  BY <1>7 DEF ShowBegin
<1>8. CASE ShowSent
  BY <1>8 DEF ShowSent
<1>9. CASE InfResult
  BY <1>9 DEF InfResult
<1>10. CASE InfAnswers
  BY <1>10 DEF InfAnswers
<1>11. CASE InfFails
  BY <1>11 DEF InfFails
<1>12. CASE ResThread
  BY <1>12 DEF ResThread, ResGet, ResBegin, ResSent, ResPut
<1>13. CASE UNCHANGED hicoVars
  BY <1>13 DEF hicoVars
<1> QED BY <1>1, <1>2, <1>3, <1>4, <1>5, <1>6, <1>7, <1>8, <1>9, <1>10, <1>11, <1>12, <1>13 DEF Quiet

(* The latest image is not in the line: it comes after all that are.       *)
LEMMA LatestEnters ==
  ASSUME BufferInv, LatestInv, NEW c \in Cameras, frameDone[c] # NoPage
  PROVE  /\ Done(c) \in ImgBufs /\ Done(c) \in PageSet
         /\ AllBefore(content, InfSet \cup DataSet \cup MgrSet \cup TempSet \cup ShownSet \cup QueueSet,
                      {Done(c)})
         /\ Past(content, images, {Done(c)}) /\ Past(content, outcomes, {Done(c)})
<1>1. frameDone[c] \in Pages /\ streaming[c]
  BY DEF BufferInv, TypesInv, CameraTypes
<1>2. Done(c) \in ImgBufs
  BY <1>1 DEF BufferInv, TypesInv, CameraTypes, Done
<1>3. Done(c) \in PageSet
  BY <1>1, <1>2, PageFacts, Values DEF BufferInv, TypesInv, Done
<1>4. AllBefore(content, InfSet \cup DataSet \cup MgrSet \cup TempSet \cup ShownSet \cup QueueSet, {Done(c)})
  BY <1>3, LineBuffers DEF LatestInv, AllBefore
<1> QED BY <1>2, <1>3, <1>4 DEF LatestInv

LEMMA QuietLine ==
  ASSUME BufferInv, Ordered, Quiet
  PROVE  /\ DataSet' = DataSet /\ TempSet' = TempSet /\ MgrSet' = MgrSet /\ InfSet' = InfSet
         /\ QueueSet' = QueueSet /\ ShownSet' = ShownSet
         /\ LineInv' /\ UNCHANGED <<content, frameDone, page>>
<1>1. UNCHANGED <<placeVars, solution, content, frameDone>>
  BY QuietFacts DEF quietVars
<1>2. /\ DataSet' = DataSet /\ TempSet' = TempSet /\ MgrSet' = MgrSet /\ InfSet' = InfSet
      /\ QueueSet' = QueueSet /\ ShownSet' = ShownSet
  BY <1>1, SetsKept DEF placeVars
<1>3. LineInv'
  BY <1>1, <1>2, LineSplit, LineSplitNext DEF Ordered, placeVars
<1> QED BY <1>1, <1>2, <1>3 DEF placeVars

(* An image x of the line is sent, all that remain come after it.          *)
LEMMA SendsImage ==
  ASSUME BufferInv, Ordered, Quiet, ShowSent
  PROVE  LatestInv' /\ SentInv'
<1>1. /\ showPc = "sending" /\ showPc' = "sent" /\ images' = Append(images, content[shown.buf])
      /\ UNCHANGED <<infPc, outcomes>>
  BY DEF ShowSent, restOfShow, infVars
<1>2. /\ DataSet' = DataSet /\ TempSet' = TempSet /\ MgrSet' = MgrSet /\ InfSet' = InfSet
      /\ QueueSet' = QueueSet /\ ShownSet' = ShownSet
      /\ UNCHANGED <<content, frameDone, page>>
  BY QuietLine
<1>3. PICK x \in ImgBufs : x = shown.buf /\ ShownSet = {x}
  BY <1>1, ShownFacts DEF BufferInv
<1>4. images \in Seq(Frames) /\ content[x] \in Frames
  BY DEF BufferInv, TypesInv, FrameTypes
<1>5. InOrder(images) /\ Past(content, images, {x} \cup QueueSet)
  BY <1>1, <1>3 DEF Ordered, SentInv, ToShow
<1>6. AllBefore(content, {x}, QueueSet)
  BY <1>3, LineSplit DEF Ordered, Lined
<1>7. InOrder(images') /\ Past(content, images', QueueSet)
  BY <1>1, <1>3, <1>4, <1>5, <1>6, OrderAppend
<1>8. SentInv'
  <2>1. ToShow' = QueueSet /\ ToInfer' = ToInfer
    BY <1>1, <1>2 DEF ToShow, ToInfer
  <2> QED BY <1>1, <1>2, <1>7, <2>1 DEF Ordered, SentInv
<1>9. LatestInv'
  <2> SUFFICES ASSUME NEW c \in Cameras, frameDone[c] # NoPage
               PROVE  Past(content, images', {Done(c)})
    BY <1>1, <1>2 DEF Ordered, LatestInv, Done
  <2>1. AllBefore(content, ShownSet, {Done(c)}) /\ Past(content, images, {Done(c)})
    BY LatestEnters DEF Ordered, AllBefore
  <2>2. \A d \in {Done(c)} : Before(content[x], content[d])
    BY <1>3, <2>1 DEF AllBefore
  <2> DEFINE T == {Done(c)}
             f == content[x]
  <2>3. f \in Frames /\ Past(content, images, T) /\ \A d \in T : Before(f, content[d])
    BY <1>4, <2>1, <2>2
  <2>4. images' = Append(images, f)
    BY <1>1, <1>3
  <2> HIDE DEF T, f
  <2>5. Past(content, images', T)
    BY <1>4, <2>3, <2>4, PastAppend
  <2> QED BY <2>5 DEF T
<1> QED BY <1>8, <1>9

LEMMA SendsOutcome ==
  ASSUME BufferInv, Ordered, Quiet, InfAnswers
  PROVE  LatestInv' /\ SentInv'
<1>1. /\ infPc \in {"run", "report"} /\ infPc' = "put" /\ outcomes' = Append(outcomes, content[obj[1]])
      /\ UNCHANGED <<showPc, images>>
  BY DEF InfAnswers, restOfInf, showVars
<1>2. /\ DataSet' = DataSet /\ TempSet' = TempSet /\ MgrSet' = MgrSet /\ InfSet' = InfSet
      /\ QueueSet' = QueueSet /\ ShownSet' = ShownSet
      /\ UNCHANGED <<content, frameDone, page>>
  BY QuietLine
<1> DEFINE Rest == DataSet \cup MgrSet \cup TempSet \cup ShownSet \cup QueueSet
<1>3. PICK x \in ImgBufs : x = obj[1] /\ InfSet = {x}
  BY <1>1, ObjectFacts DEF BufferInv
<1>4. outcomes \in Seq(Frames) /\ content[x] \in Frames
  BY DEF BufferInv, TypesInv, FrameTypes
<1>5. InOrder(outcomes) /\ Past(content, outcomes, {x} \cup Rest)
  <2>1. ToInfer = {x} \cup Rest
    BY <1>1, <1>3 DEF ToInfer
  <2> QED BY <2>1 DEF Ordered, SentInv
<1>6. AllBefore(content, {x}, Rest)
  BY <1>3, LineSplit DEF Ordered, Lined
<1>7. ToShow' = ToShow /\ ToInfer' = Rest
  BY <1>1, <1>2 DEF ToShow, ToInfer
<1> HIDE DEF Rest
<1>8. InOrder(outcomes') /\ Past(content, outcomes', Rest)
  BY <1>1, <1>3, <1>4, <1>5, <1>6, OrderAppend
<1>9. SentInv'
  BY <1>1, <1>2, <1>7, <1>8 DEF Ordered, SentInv
<1>10. LatestInv'
  <2> SUFFICES ASSUME NEW c \in Cameras, frameDone[c] # NoPage
               PROVE  Past(content, outcomes', {Done(c)})
    BY <1>1, <1>2 DEF Ordered, LatestInv, Done
  <2>1. AllBefore(content, InfSet, {Done(c)}) /\ Past(content, outcomes, {Done(c)})
    BY LatestEnters DEF Ordered, AllBefore
  <2>2. \A d \in {Done(c)} : Before(content[x], content[d])
    BY <1>3, <2>1 DEF AllBefore
  <2> DEFINE T == {Done(c)}
             f == content[x]
  <2>3. f \in Frames /\ Past(content, outcomes, T) /\ \A d \in T : Before(f, content[d])
    BY <1>4, <2>1, <2>2
  <2>4. outcomes' = Append(outcomes, f)
    BY <1>1, <1>3
  <2> HIDE DEF T, f
  <2>5. Past(content, outcomes', T)
    BY <1>4, <2>3, <2>4, PastAppend
  <2> QED BY <2>5 DEF T
<1> QED BY <1>9, <1>10

LEMMA QuietOrder == ASSUME BufferInv, Ordered, Quiet, ~restarted' PROVE Ordered'
<1>1. /\ DataSet' = DataSet /\ TempSet' = TempSet /\ MgrSet' = MgrSet /\ InfSet' = InfSet
      /\ QueueSet' = QueueSet /\ ShownSet' = ShownSet
      /\ LineInv' /\ UNCHANGED <<content, frameDone, page>>
  BY QuietLine
<1>2. LatestInv' /\ SentInv'
  <2>1. CASE /\ UNCHANGED <<images, outcomes>>
             /\ showPc = "sent" => showPc' = "sent"
             /\ infPc = "put" => infPc' = "put"
    <3>1. LatestInv'
      BY <1>1, <2>1, LatestKept DEF Ordered
    <3>2. ToShow' \subseteq ToShow /\ ToInfer' \subseteq ToInfer
      BY <1>1, <2>1 DEF ToShow, ToInfer
    <3> QED BY <1>1, <2>1, <3>1, <3>2, SentLess
  <2> QED BY <2>1, QuietCases, SendsImage, SendsOutcome
<1>3. StartInv'
  BY QuietCases DEF Ordered, StartInv
<1> QED BY <1>1, <1>2, <1>3 DEF Ordered

(* The interrupt hands the latest image on.                                *)
LEMMA IsrLatest ==
  ASSUME BufferInv, Ordered, NEW c \in Cameras, kdrv_dpi2ahb_irqhandler(c),
         \/ UNCHANGED page
         \/ \E x : page' = [page EXCEPT ![c][frameDone[c]] = x]
  PROVE  LatestInv' /\ StartInv'
<1>1. /\ UNCHANGED <<streaming, cmdPc, cmdCams, content, images, outcomes>>
      /\ frameDone' = [frameDone EXCEPT ![c] = NoPage]
  BY IsrFacts
<1>2. \A d \in Cameras : d # c => page'[d] = page[d] /\ frameDone'[d] = frameDone[d]
  BY <1>1 DEF BufferInv, TypesInv, CameraTypes
<1>3. frameDone'[c] = NoPage
  BY <1>1 DEF BufferInv, TypesInv, CameraTypes
<1>4. LatestInv'
  BY <1>1, <1>2, <1>3, LatestKept DEF Ordered
<1>5. StartInv'
  BY <1>1 DEF Ordered, StartInv
<1> QED BY <1>4, <1>5

LEMMA IsrSets ==
  ASSUME BufferInv, NEW c \in Cameras, kdrv_dpi2ahb_irqhandler(c)
  PROVE  /\ MgrSet' = MgrSet /\ InfSet' = InfSet /\ ShownSet' = ShownSet
         /\ UNCHANGED <<solution, showPc, infPc, content, images, outcomes>>
  BY IsrFacts, SetsKept

(* The image y that entered the line comes after all that was sent.        *)
LEMMA EntersSent ==
  ASSUME Ordered, NEW y, UNCHANGED <<showPc, infPc, content, images, outcomes>>,
         Past(content, images, {y}), Past(content, outcomes, {y}),
         DataSet' \subseteq DataSet, MgrSet' = MgrSet, InfSet' = InfSet, ShownSet' = ShownSet,
         TempSet' \subseteq TempSet \cup {y}, QueueSet' \subseteq QueueSet \cup {y}
  PROVE  SentInv'
<1>1. ToShow' \subseteq ToShow \cup {y} /\ ToInfer' \subseteq ToInfer \cup {y}
  BY DEF ToShow, ToInfer
<1> QED BY <1>1, SentKept DEF Ordered

LEMMA ToShowOrder ==
  ASSUME BufferInv, Ordered, NEW c \in Cameras, kdrv_dpi2ahb_irqhandler(c), frameDone[c] # NoPage,
         solution = "mipi", NEW x, Takes(c, x), UNCHANGED tempQ,
         imgQueue' = Append(imgQueue, [cam |-> c, buf |-> Done(c)])
  PROVE  Ordered'
<1>1. PICK y \in ImgBufs :
        /\ y = Done(c) /\ y \in PageSet
        /\ AllBefore(content, InfSet \cup DataSet \cup MgrSet \cup TempSet \cup ShownSet \cup QueueSet, {y})
        /\ Past(content, images, {y}) /\ Past(content, outcomes, {y})
  BY LatestEnters DEF Ordered
<1>2. /\ MgrSet' = MgrSet /\ InfSet' = InfSet /\ ShownSet' = ShownSet
      /\ UNCHANGED <<solution, showPc, infPc, content, images, outcomes>>
  BY IsrSets
<1>3. TempSet' = TempSet
  BY SetsKept
<1>4. DataSet' \subseteq DataSet /\ InLine(content', imgData', OfSingle)
  BY <1>2, TakesOrder DEF Takes
<1>5. PICK r \in Images : r = [cam |-> c, buf |-> y] /\ OfRecord[r] = y
  BY DataFacts
<1>6. /\ imgQueue' = Append(imgQueue, r) /\ imgQueue \in Seq(Images) /\ Once(imgQueue, OfRecord)
      /\ y \notin QueueSet /\ InLine(content, imgQueue, OfRecord)
  BY <1>1, <1>5, LineBuffers, LineSplit DEF BufferInv, TypesInv, QueueTypes, OnceInv, Ordered
<1>7. QueueSet' = QueueSet \cup {y}
  BY <1>5, <1>6, QueueAppend DEF QueueSet
<1>8. InLine(content, imgQueue', OfRecord)
  <2>1. AllBefore(content, Bufs(imgQueue, OfRecord), {OfRecord[r]})
    BY <1>1, <1>5 DEF AllBefore, QueueSet
  <2> QED BY <1>6, <2>1, LineAppend
<1>9. Lined(content, InfSet, DataSet', MgrSet, TempSet, ShownSet, QueueSet \cup {y})
  <2> DEFINE D == DataSet'
             Q == QueueSet \cup {y}
  <2>1. Lined(content, InfSet, DataSet, MgrSet, TempSet, ShownSet, Q)
    BY <1>1, LinedEnters, LineSplit DEF Ordered
  <2>2. D \in SUBSET DataSet
    BY <1>4
  <2> HIDE DEF D, Q
  <2>3. Lined(content, InfSet, D, MgrSet, TempSet, ShownSet, Q)
    BY <2>1, <2>2, LinedLess
  <2> QED BY <2>3 DEF D, Q
<1>10. LineInv'
  <2>1. Lined(content', InfSet', DataSet', MgrSet', TempSet', ShownSet', QueueSet')
    BY <1>2, <1>3, <1>7, <1>9
  <2>2. solution' # "tof"
    BY <1>2
  <2> QED BY <1>2, <1>4, <1>8, <2>1, <2>2, LineSplit, LineSplitNext DEF Ordered
<1>11. SentInv'
  BY <1>1, <1>2, <1>3, <1>4, <1>7, EntersSent
<1> QED BY <1>10, <1>11, IsrLatest DEF Ordered, Takes

LEMMA SwapsOrder ==
  ASSUME BufferInv, Ordered, NEW c \in Cameras, kdrv_dpi2ahb_irqhandler(c), frameDone[c] # NoPage,
         solution = "mipi", imgQueue # <<>>,
         imgQueue' = Append(Tail(imgQueue), [cam |-> c, buf |-> Done(c)]),
         page' = [page EXCEPT ![c][frameDone[c]] = Head(imgQueue).buf],
         UNCHANGED <<imgFree, imgData, tempQ>>
  PROVE  Ordered'
<1>1. PICK y \in ImgBufs :
        /\ y = Done(c) /\ y \in PageSet
        /\ AllBefore(content, InfSet \cup DataSet \cup MgrSet \cup TempSet \cup ShownSet \cup QueueSet, {y})
        /\ Past(content, images, {y}) /\ Past(content, outcomes, {y})
  BY LatestEnters DEF Ordered
<1>2. /\ MgrSet' = MgrSet /\ InfSet' = InfSet /\ ShownSet' = ShownSet
      /\ UNCHANGED <<solution, showPc, infPc, content, images, outcomes>>
  BY IsrSets
<1>3. TempSet' = TempSet /\ DataSet' = DataSet
  BY SetsKept
<1>4. PICK r \in Images : r = [cam |-> c, buf |-> y] /\ OfRecord[r] = y
  BY DataFacts
<1> DEFINE t == Tail(imgQueue)
           h == Head(imgQueue)
<1>5. /\ t \in Seq(Images) /\ Bufs(t, OfRecord) = QueueSet \ {OfRecord[h]} /\ Once(t, OfRecord)
      /\ InLine(content, t, OfRecord)
  <2>1. imgQueue \in Seq(Images) /\ Once(imgQueue, OfRecord) /\ InLine(content, imgQueue, OfRecord)
    BY LineSplit DEF BufferInv, TypesInv, QueueTypes, OnceInv, Ordered
  <2>2. t \in Seq(Images) /\ Bufs(t, OfRecord) = QueueSet \ {OfRecord[h]} /\ Once(t, OfRecord)
    BY <2>1, QueueTail DEF QueueSet
  <2>3. InLine(content, t, OfRecord)
    BY <2>1, LineTail
  <2> QED BY <2>2, <2>3
<1>6. imgQueue' = Append(t, r)
  BY <1>1, <1>4
<1> HIDE DEF t, h
<1>7. Bufs(t, OfRecord) \subseteq QueueSet /\ y \notin Bufs(t, OfRecord)
  BY <1>1, <1>5, LineBuffers
<1>8. QueueSet' \subseteq QueueSet \cup {y}
  <2>1. Bufs(Append(t, r), OfRecord) = Bufs(t, OfRecord) \cup {OfRecord[r]}
    BY <1>4, <1>5, <1>7, QueueAppend
  <2> QED BY <1>4, <1>6, <1>7, <2>1 DEF QueueSet
<1>9. InLine(content, imgQueue', OfRecord)
  <2>1. AllBefore(content, Bufs(t, OfRecord), {OfRecord[r]})
    BY <1>1, <1>4, <1>7 DEF AllBefore
  <2> QED BY <1>5, <1>6, <2>1, LineAppend
<1>10. Lined(content, InfSet, DataSet, MgrSet, TempSet, ShownSet, QueueSet')
  <2> DEFINE P == QueueSet'
             Q == QueueSet \cup {y}
  <2>1. Lined(content, InfSet, DataSet, MgrSet, TempSet, ShownSet, Q)
    BY <1>1, LinedEnters, LineSplit DEF Ordered
  <2>2. P \in SUBSET Q
    BY <1>8
  <2> HIDE DEF P, Q
  <2>3. Lined(content, InfSet, DataSet, MgrSet, TempSet, ShownSet, P)
    BY <2>1, <2>2, LinedLess
  <2> QED BY <2>3 DEF P
<1>11. LineInv'
  <2>1. Lined(content', InfSet', DataSet', MgrSet', TempSet', ShownSet', QueueSet')
    BY <1>2, <1>3, <1>10
  <2>2. solution' # "tof"
    BY <1>2
  <2> QED BY <1>2, <1>9, <2>1, <2>2, LineSplit, LineSplitNext DEF Ordered
<1>12. SentInv'
  BY <1>1, <1>2, <1>3, <1>8, EntersSent
<1> QED BY <1>11, <1>12, IsrLatest DEF Ordered

LEMMA ToInferOrder ==
  ASSUME BufferInv, Ordered, NEW c \in Cameras, kdrv_dpi2ahb_irqhandler(c), frameDone[c] # NoPage,
         solution = "tof", NEW x, Takes(c, x), UNCHANGED imgQueue,
         \/ tempQ' = tempQ
         \/ tempQ' = Append(tempQ, [total |-> 1, index |-> 0, buf |-> Done(c)])
  PROVE  Ordered'
<1>1. PICK y \in ImgBufs :
        /\ y = Done(c) /\ y \in PageSet
        /\ AllBefore(content, InfSet \cup DataSet \cup MgrSet \cup TempSet \cup ShownSet \cup QueueSet, {y})
        /\ Past(content, images, {y}) /\ Past(content, outcomes, {y})
  BY LatestEnters DEF Ordered
<1>2. /\ MgrSet' = MgrSet /\ InfSet' = InfSet /\ ShownSet' = ShownSet
      /\ UNCHANGED <<solution, showPc, infPc, content, images, outcomes>>
  BY IsrSets
<1>3. QueueSet' = QueueSet
  BY SetsKept
<1>4. DataSet' \subseteq DataSet /\ InLine(content', imgData', OfSingle)
  BY <1>2, TakesOrder DEF Takes
<1>5. imgQueue = <<>> /\ ShownSet = {} /\ QueueSet = {}
  BY EmptyQueue, LineSplit DEF Ordered, QueueSet
<1>6. TempSet' \subseteq TempSet \cup {y} /\ InLine(content, tempQ', OfRecord)
  <2>1. tempQ \in Seq(Received) /\ Once(tempQ, OfRecord) /\ InLine(content, tempQ, OfRecord)
    BY LineSplit DEF BufferInv, TypesInv, QueueTypes, OnceInv, Ordered
  <2>2. CASE tempQ' = tempQ
    BY <2>1, <2>2, SetsKept
  <2>3. CASE tempQ' = Append(tempQ, [total |-> 1, index |-> 0, buf |-> Done(c)])
    <3>1. PICK r \in Received : r = [total |-> 1, index |-> 0, buf |-> y] /\ OfRecord[r] = y
      BY DataFacts
    <3>2. tempQ' = Append(tempQ, r) /\ y \notin TempSet
      BY <1>1, <2>3, <3>1, LineBuffers
    <3>3. AllBefore(content, Bufs(tempQ, OfRecord), {OfRecord[r]})
      BY <1>1, <3>1 DEF AllBefore, TempSet
    <3>4. InLine(content, tempQ', OfRecord)
      BY <2>1, <3>2, <3>3, LineAppend
    <3>5. TempSet' = TempSet \cup {y}
      BY <2>1, <3>1, <3>2, QueueAppend DEF TempSet
    <3> QED BY <3>4, <3>5
  <2> QED BY <2>2, <2>3
<1>7. Lined(content, InfSet, DataSet', MgrSet, TempSet', ShownSet, QueueSet)
  <2> DEFINE D == DataSet'
             T == TempSet \cup {y}
             T2 == TempSet'
  <2>1. Lined(content, InfSet, DataSet, MgrSet, T, ShownSet, QueueSet)
    BY <1>1, <1>5, LinedEnters, LineSplit DEF Ordered
  <2>2. D \in SUBSET DataSet /\ T2 \in SUBSET T
    BY <1>4, <1>6
  <2> HIDE DEF D, T, T2
  <2>3. Lined(content, InfSet, D, MgrSet, T2, ShownSet, QueueSet)
    BY <2>1, <2>2, LinedLess
  <2> QED BY <2>3 DEF D, T2
<1>8. LineInv'
  <2>1. Lined(content', InfSet', DataSet', MgrSet', TempSet', ShownSet', QueueSet')
    BY <1>2, <1>3, <1>7
  <2>2. imgQueue' = <<>> /\ ShownSet' = {}
    BY <1>2, <1>5
  <2> QED BY <1>2, <1>4, <1>6, <2>1, <2>2, LineSplit, LineSplitNext DEF Ordered
<1>9. SentInv'
  BY <1>1, <1>2, <1>3, <1>4, <1>6, EntersSent
<1> QED BY <1>8, <1>9, IsrLatest DEF Ordered, Takes

LEMMA IsrOrder ==
  ASSUME BufferInv, Ordered, NEW c \in Cameras, kdrv_dpi2ahb_irqhandler(c)
  PROVE  Ordered'
<1>1. ASSUME UNCHANGED <<imgFree, imgData, imgQueue, page, owner, tempQ>> PROVE Ordered'
  <2>1. /\ DataSet' = DataSet /\ TempSet' = TempSet /\ QueueSet' = QueueSet
        /\ MgrSet' = MgrSet /\ InfSet' = InfSet /\ ShownSet' = ShownSet
        /\ UNCHANGED <<solution, showPc, infPc, content, images, outcomes>>
    BY <1>1, IsrSets, SetsKept
  <2>2. LineInv'
    BY <1>1, <2>1, LineSplit, LineSplitNext DEF Ordered
  <2>3. SentInv'
    BY <2>1, SentLess DEF ToShow, ToInfer
  <2> QED BY <1>1, <2>2, <2>3, IsrLatest DEF Ordered
<1>2. ASSUME frameDone[c] \in Pages, Done(c) \in ImgBufs, Coming(c, Done(c)) PROVE Ordered'
  <2>0. frameDone[c] # NoPage
    BY <1>2, Values
  <2>1. ASSUME solution = "mipi", NEW x, Takes(c, x), UNCHANGED tempQ,
               imgQueue' = Append(imgQueue, [cam |-> c, buf |-> Done(c)])
        PROVE  Ordered'
    BY <2>0, <2>1, ToShowOrder
  <2>2. ASSUME solution = "mipi", imgQueue # <<>>,
               imgQueue' = Append(Tail(imgQueue), [cam |-> c, buf |-> Done(c)]),
               page' = [page EXCEPT ![c][frameDone[c]] = Head(imgQueue).buf],
               UNCHANGED <<imgFree, imgData, tempQ>>
        PROVE  Ordered'
    BY <2>0, <2>2, SwapsOrder
  <2>3. ASSUME solution = "tof", NEW x, Takes(c, x), UNCHANGED imgQueue,
               \/ tempQ' = tempQ
               \/ tempQ' = Append(tempQ, [total |-> 1, index |-> 0, buf |-> Done(c)])
        PROVE  Ordered'
    BY <2>0, <2>3, ToInferOrder
  <2> QED BY <1>1, <1>2, <2>1, <2>2, <2>3, ComingCases
<1> QED BY <1>1, <1>2, IsrFacts

-----------------------------------------------------------------------------
LEMMA NumberStep == ASSUME BufferInv, NumberInv, [HicoNext]_hicoVars PROVE NumberInv'
<1>1. ASSUME NEW c \in Cameras, FrameEnds(c) PROVE NumberInv'
  <2>1. /\ frames' = frames + 1 /\ UNCHANGED <<images, outcomes>>
        /\ content' = [content EXCEPT ![page[c][filling[c]]] = [cam |-> c, number |-> frames']]
    BY <1>1 DEF FrameEnds
  <2>2. /\ frames \in Nat /\ content \in [ImgBufs -> Frames] /\ images \in Seq(Frames)
        /\ outcomes \in Seq(Frames)
    BY DEF BufferInv, TypesInv, FrameTypes
  <2>3. \A f \in Frames : f.number \in Nat
    BY DEF Frames
  <2>4. \A b \in ImgBufs : content'[b].number <= frames'
    <3> SUFFICES ASSUME NEW b \in ImgBufs PROVE content'[b].number <= frames'
      OBVIOUS
    <3>1. CASE b = page[c][filling[c]]
      BY <2>1, <2>2, <3>1
    <3>2. CASE b # page[c][filling[c]]
      BY <2>1, <2>2, <2>3, <3>2 DEF NumberInv
    <3> QED BY <3>1, <3>2
  <2>5. \A i \in DOMAIN images : images[i].number <= frames'
    BY <2>1, <2>2, <2>3 DEF NumberInv
  <2>6. \A i \in DOMAIN outcomes : outcomes[i].number <= frames'
    BY <2>1, <2>2, <2>3 DEF NumberInv
  <2> QED BY <2>1, <2>4, <2>5, <2>6 DEF NumberInv
<1>2. ASSUME NEW s \in Seq(Frames), NEW f \in Frames, f.number <= frames,
             \A i \in DOMAIN s : s[i].number <= frames
      PROVE  \A i \in DOMAIN Append(s, f) : Append(s, f)[i].number <= frames
  <2> DEFINE a == Append(s, f)
  <2>1. /\ Len(s) \in Nat
        /\ DOMAIN s = 1 .. Len(s) /\ DOMAIN a = 1 .. Len(s) + 1
        /\ \A k \in 1 .. Len(s) : a[k] = s[k]
        /\ a[Len(s) + 1] = f
    OBVIOUS
  <2> HIDE DEF a
  <2>2. \A i \in DOMAIN a : a[i].number <= frames
    BY <1>2, <2>1
  <2> QED BY <2>2 DEF a
<1>3. CASE Quiet
  <2>1. /\ frames \in Nat /\ content \in [ImgBufs -> Frames] /\ images \in Seq(Frames)
        /\ outcomes \in Seq(Frames) /\ UNCHANGED <<frames, content>>
    BY <1>3, QuietFacts DEF BufferInv, TypesInv, FrameTypes, quietVars
  <2>2. CASE ShowSent
    <3>1. /\ showPc = "sending" /\ images' = Append(images, content[shown.buf])
          /\ UNCHANGED outcomes
      BY <2>2 DEF ShowSent
    <3>2. shown.buf \in ImgBufs
      BY <3>1, ShownFacts DEF BufferInv
    <3>3. content[shown.buf] \in Frames /\ content[shown.buf].number <= frames
      BY <2>1, <3>2 DEF NumberInv
    <3>4. \A i \in DOMAIN images : images[i].number <= frames
      BY DEF NumberInv
    <3>5. \A i \in DOMAIN images' : images'[i].number <= frames
      BY <1>2, <2>1, <3>1, <3>3, <3>4
    <3> QED BY <2>1, <3>1, <3>5 DEF NumberInv
  <2>3. CASE InfAnswers
    <3>1. /\ infPc # "get" /\ outcomes' = Append(outcomes, content[obj[1]])
          /\ UNCHANGED images
      BY <2>3 DEF InfAnswers
    <3>2. obj[1] \in ImgBufs
      BY <3>1, ObjectFacts DEF BufferInv
    <3>3. content[obj[1]] \in Frames /\ content[obj[1]].number <= frames
      BY <2>1, <3>2 DEF NumberInv
    <3>4. \A i \in DOMAIN outcomes : outcomes[i].number <= frames
      BY DEF NumberInv
    <3>5. \A i \in DOMAIN outcomes' : outcomes'[i].number <= frames
      BY <1>2, <2>1, <3>1, <3>3, <3>4
    <3> QED BY <2>1, <3>1, <3>5 DEF NumberInv
  <2>4. CASE UNCHANGED <<images, outcomes>>
    BY <2>1, <2>4, NumberKept
  <2> QED BY <1>3, <2>2, <2>3, <2>4, QuietCases
<1>4. ASSUME \/ CameraTakes \/ CameraStarts \/ ShowGet \/ ShowReturns \/ ShowReleases
             \/ InfGet \/ InfPut \/ BufMgr \/ \E c \in Cameras : kdrv_dpi2ahb_irqhandler(c)
      PROVE  NumberInv'
  <2>1. UNCHANGED <<frames, content, images, outcomes>>
    BY <1>4 DEF CameraTakes, CameraStarts, ShowGet, ShowReturns, ShowReleases, InfGet, InfPut, BufMgr,
                kdrv_dpi2ahb_irqhandler, histVars
  <2> QED BY <2>1, NumberKept
<1> QED BY <1>1, <1>3, <1>4, StepCases

LEMMA OrderStep == ASSUME BufferInv, OrderInv, [HicoNext]_hicoVars PROVE OrderInv'
<1>1. NumberInv'
  BY NumberStep DEF OrderInv
<1>2. restarted => restarted'
  <2>1. CASE Quiet
    <3>1. UNCHANGED restarted \/ restarted' = (restarted \/ streaming[FirstOf(cmdCams)])
      BY <2>1, QuietCases
    <3> QED BY <3>1
  <2>2. CASE ~Quiet
    BY <2>2, StepCases
       DEF FrameEnds, CameraTakes, CameraStarts, ShowGet, ShowReturns, ShowReleases, InfGet, InfPut,
           BufMgr, kdrv_dpi2ahb_irqhandler, histVars
  <2> QED BY <2>1, <2>2
<1>3. ASSUME ~restarted' PROVE Ordered'
  <2>1. Ordered /\ NumberInv
    BY <1>2, <1>3 DEF OrderInv, Ordered
  <2>2. CASE BufMgr
    <3>1. MgrGet \/ MgrEnqueue
      <4>1. mgrPc # "putback"
        BY MgrFacts DEF BufferInv, TypesInv
      <4> QED BY <2>2, <4>1 DEF BufMgr, MgrNext, MgrPutBack
    <3> QED BY <2>1, <2>2, <3>1, MgrGetOrder, MgrEnqueueOrder
  <2> QED BY <1>3, <2>1, <2>2, StepCases, FrameEndsOrder, QuietOrder, CameraTakesOrder,
             CameraStartsOrder, ShowGetOrder, ShowReturnsOrder, ShowReleasesOrder, InfGetOrder,
             InfPutOrder, IsrOrder
<1> QED BY <1>1, <1>3 DEF OrderInv, Ordered

LEMMA BeginOrder == HicoInit => OrderInv
<1> SUFFICES ASSUME HicoInit PROVE OrderInv
  OBVIOUS
<1> USE DEF HicoInit
<1>1. frames \in Nat
  BY HicoAssumption
<1>2. NumberInv
  <2>1. \A b \in ImgBufs : content[b].number = 0
    BY DEF NoFrame
  <2>2. DOMAIN images = {} /\ DOMAIN outcomes = {}
    OBVIOUS
  <2> HIDE DEF HicoInit
  <2> QED BY <1>1, <2>1, <2>2 DEF NumberInv
<1>3. LatestInv
  BY DEF LatestInv
<1>4. /\ DataSet = {} /\ TempSet = {} /\ InfSet = {} /\ QueueSet = {}
  BY EmptyQueue DEF DataSet, TempSet, InfSet, QueueSet
<1>5. MgrSet = {} /\ ShownSet = {}
  BY Values DEF MgrSet, ShownSet
<1>6. LineInv
  <2>1. /\ InLine(content, imgQueue, OfRecord) /\ InLine(content, tempQ, OfRecord)
        /\ InLine(content, imgData, OfSingle)
    BY DEF InLine
  <2>2. Lined(content, {}, {}, {}, {}, {}, {})
    BY DEF Lined, AllBefore
  <2>3. imgQueue = <<>>
    OBVIOUS
  <2> HIDE DEF HicoInit
  <2> QED BY <1>4, <1>5, <2>1, <2>2, <2>3 DEF LineInv
<1>7. SentInv
  BY DEF SentInv, InOrder, Past
<1>8. StartInv
  BY DEF StartInv
<1> HIDE DEF HicoInit
<1> QED BY <1>2, <1>3, <1>6, <1>7, <1>8 DEF OrderInv

LEMMA OrderAlways == HicoSpec => []OrderInv
<1>1. BufferInv /\ OrderInv /\ [HicoNext]_hicoVars => OrderInv'
  BY OrderStep
<1> QED BY <1>1, BeginOrder, BuffersAlways, PTL DEF HicoSpec

(* The host gets the images of a camera, and their results, in the order   *)
(* of its frames and each at most once, whatever is dropped in between,    *)
(* unless a running camera was started again.                              *)
THEOREM FramesComeInOrder == HicoSpec => []FramesInOrder
<1>1. OrderInv /\ BufferInv => FramesInOrder
  <2> SUFFICES ASSUME OrderInv, BufferInv, ~restarted PROVE Rising(images) /\ Rising(outcomes)
    BY DEF FramesInOrder
  <2>1. InOrder(images) /\ InOrder(outcomes)
    BY DEF OrderInv, SentInv
  <2> QED BY <2>1 DEF InOrder, Before, Rising
<1> QED BY <1>1, OrderAlways, BuffersAlways, PTL

-----------------------------------------------------------------------------
(* Where the result buffers are: each is free, waits for the result        *)
(* thread, is with the dispatcher or the result thread, or is lost.        *)
OfResult == [r \in ResBufs |-> r]
RunSet   == {resBuf} \ {NULL}
SendSet  == {resSend} \ {NULL}
ResAt(p) == {r \in ResBufs : resOwner[r] = p}
InfPlaces == {"get", "result", "status", "run", "report", "put"}
ResultTypes ==
  /\ resFree \in Seq(ResBufs) /\ resData \in Seq(ResBufs)
  /\ resOwner \in [ResBufs -> {"free", "data", "inf", "send", "lost"}]
  /\ infPc \in InfPlaces
  /\ IF infPc \in {"run", "report"} THEN resBuf \in ResBufs ELSE resBuf = NULL
  /\ resPc \in {"get", "got", "sending", "put"}
  /\ IF resPc = "get" THEN resSend = NULL ELSE resSend \in ResBufs
ResultPlaces ==
  /\ Bufs(resFree, OfResult) = ResAt("free") /\ Bufs(resData, OfResult) = ResAt("data")
  /\ RunSet = ResAt("inf") /\ SendSet = ResAt("send")
  /\ Once(resFree, OfResult) /\ Once(resData, OfResult)
ResultInv == ResultTypes /\ ResultPlaces

(* Where the threads stand, and what that says of the buffers: the thread  *)
(* that returned took its buffer along, and a camera that was not started  *)
(* has no page.                                                            *)
StandInv ==
  /\ cmdPc \in {"link", "receive", "camera", "buffers"} /\ Len(cmdBufs) <= 2
  /\ showPc \in {"get", "got", "sending", "sent", "cut", "gone"}
  /\ showPc = "gone" => \E b \in ImgBufs : owner[b] = "lost"
  /\ \A c \in Cameras : ~streaming[c] => \A p \in Pages : page[c][p] = NULL

LEMMA ResultValues ==
  /\ NULL \notin ResBufs /\ ResBufs = 1 .. NumRes /\ NumRes \in Nat
  /\ \A r \in ResBufs : OfResult[r] = r
BY SizesAssumption DEF ResBufs, NULL, OfResult

LEMMA TwoPages == Cardinality(Pages) = 2 /\ IsFiniteSet(Pages)
<1>1. IsFiniteSet({0}) /\ Cardinality({0}) = 1
  BY FS_Singleton
<1>2. /\ IsFiniteSet({0} \cup {1})
      /\ Cardinality({0} \cup {1}) = IF 1 \in {0} THEN Cardinality({0}) ELSE Cardinality({0}) + 1
  BY <1>1, FS_AddElement
<1>3. Pages = {0} \cup {1}
  BY Values
<1> QED BY <1>1, <1>2, <1>3

(* A queue without one of the buffers has a free slot.                     *)
LEMMA RoomLeft ==
  ASSUME NEW S, NEW q \in Seq(S), NEW of, Once(q, of), NEW n \in Nat, NEW x \in 1 .. n,
         Bufs(q, of) \subseteq (1 .. n) \ {x}
  PROVE  Len(q) < n
<1> DEFINE T == (1 .. n) \ {x}
<1>1. IsFiniteSet(Bufs(q, of)) /\ Cardinality(Bufs(q, of)) = Len(q)
  BY QueueCount
<1>2. IsFiniteSet(1 .. n) /\ Cardinality(1 .. n) = n
  BY FS_Interval
<1>3. IsFiniteSet(T) /\ Cardinality(T) = n - 1
  BY <1>2, FS_RemoveElement
<1> HIDE DEF T
<1>4. Bufs(q, of) \in SUBSET T
  BY DEF T
<1>5. Cardinality(Bufs(q, of)) <= Cardinality(T)
  BY <1>3, <1>4, FS_Subset
<1> QED BY <1>1, <1>3, <1>5

LEMMA ResMoves ==
  ASSUME ResultTypes, NEW x \in ResBufs, NEW p \in {"free", "data", "inf", "send", "lost"},
         MoveRes(x, p)
  PROVE  /\ resOwner' \in [ResBufs -> {"free", "data", "inf", "send", "lost"}]
         /\ ResAt(p)' = ResAt(p) \cup {x}
         /\ \A r : r # p => ResAt(r)' = ResAt(r) \ {x}
<1>1. resOwner' = [r \in ResBufs |-> IF r = x THEN p ELSE resOwner[r]]
  BY DEF MoveRes
<1>2. resOwner' \in [ResBufs -> {"free", "data", "inf", "send", "lost"}]
  BY <1>1 DEF ResultTypes
<1>3. resOwner'[x] = p /\ \A r \in ResBufs \ {x} : resOwner'[r] = resOwner[r]
  BY <1>1
<1>4. ResAt(p)' = ResAt(p) \cup {x}
  BY <1>3 DEF ResAt
<1>5. \A r : r # p => ResAt(r)' = ResAt(r) \ {x}
  BY <1>3 DEF ResAt
<1> QED BY <1>2, <1>4, <1>5

(* The buffer of a queue or of a thread is there and nowhere else.         *)
LEMMA ResultsApart ==
  ASSUME ResultInv
  PROVE  \A x \in ResBufs :
           /\ x \in Bufs(resFree, OfResult) => resOwner[x] = "free"
           /\ x \in Bufs(resData, OfResult) => resOwner[x] = "data"
           /\ x \in RunSet => resOwner[x] = "inf"
           /\ x \in SendSet => resOwner[x] = "send"
BY DEF ResultInv, ResultPlaces, ResAt

-----------------------------------------------------------------------------
(* The steps of the result buffers.                                        *)

LEMMA BeginResults == HicoInit => ResultInv
<1> SUFFICES ASSUME HicoInit PROVE ResultInv
  OBVIOUS
<1> USE DEF HicoInit
<1>1. /\ resFree \in Seq(ResBufs) /\ DOMAIN resFree = ResBufs
      /\ \A k \in ResBufs : OfResult[resFree[k]] = k
  <2>1. resFree = [i \in ResBufs |-> i]
    BY DEF ResBufs
  <2>2. resFree \in [1 .. NumRes -> ResBufs] /\ NumRes \in Nat
    BY <2>1, ResultValues
  <2>3. resFree \in Seq(ResBufs) /\ DOMAIN resFree = ResBufs
    BY <2>2, ResultValues
  <2>4. \A k \in ResBufs : OfResult[resFree[k]] = k
    BY <2>1, ResultValues
  <2> HIDE DEF HicoInit
  <2> QED BY <2>3, <2>4
<1>2. ResultTypes
  BY <1>1 DEF ResultTypes, InfPlaces
<1>3. ResAt("free") = ResBufs /\ \A p : p # "free" => ResAt(p) = {}
  BY DEF ResAt
<1>4. RunSet = {} /\ SendSet = {}
  BY DEF RunSet, SendSet
<1>5. Bufs(resData, OfResult) = {} /\ Once(resData, OfResult)
  BY EmptyQueue
<1> HIDE DEF HicoInit
<1>6. Bufs(resFree, OfResult) = ResBufs /\ Once(resFree, OfResult)
  <2>1. \A b \in ResBufs : \E k \in DOMAIN resFree : b = OfResult[resFree[k]]
    BY <1>1
  <2>2. \A k \in DOMAIN resFree : OfResult[resFree[k]] \in ResBufs
    BY <1>1
  <2>3. Bufs(resFree, OfResult) = ResBufs
    BY <2>1, <2>2 DEF Bufs
  <2>4. Once(resFree, OfResult)
    BY <1>1 DEF Once
  <2> QED BY <2>3, <2>4
<1>7. ResultPlaces
  BY <1>3, <1>4, <1>5, <1>6 DEF ResultPlaces
<1> QED BY <1>2, <1>7 DEF ResultInv

(* A step that moves no result buffer.                                     *)
LEMMA ResultsKept ==
  ASSUME ResultInv, UNCHANGED <<resFree, resData, resOwner, resBuf, resSend>>,
         infPc' \in InfPlaces, infPc \in {"run", "report"} <=> infPc' \in {"run", "report"},
         resPc' \in {"get", "got", "sending", "put"}, resPc = "get" <=> resPc' = "get"
  PROVE  ResultInv'
<1>1. ResultTypes'
  <2>1. resBuf' = resBuf /\ resSend' = resSend /\ resFree' = resFree /\ resData' = resData
        /\ resOwner' = resOwner
    OBVIOUS
  <2>2. IF infPc' \in {"run", "report"} THEN resBuf \in ResBufs ELSE resBuf = NULL
    BY DEF ResultInv, ResultTypes
  <2>3. IF resPc' = "get" THEN resSend = NULL ELSE resSend \in ResBufs
    BY DEF ResultInv, ResultTypes
  <2> QED BY <2>1, <2>2, <2>3 DEF ResultInv, ResultTypes
<1>2. ResultPlaces'
  BY DEF ResultInv, ResultPlaces, RunSet, SendSet, ResAt
<1> QED BY <1>1, <1>2 DEF ResultInv

(* A step that moves the result buffer x from one place to another.        *)
LEMMA ResultsGo ==
  ASSUME ResultInv, ResultTypes', NEW x \in ResBufs,
         NEW p \in {"free", "data", "inf", "send", "lost"}, MoveRes(x, p),
         Bufs(resFree', OfResult) = IF p = "free" THEN Bufs(resFree, OfResult) \cup {x}
                                    ELSE Bufs(resFree, OfResult) \ {x},
         Bufs(resData', OfResult) = IF p = "data" THEN Bufs(resData, OfResult) \cup {x}
                                    ELSE Bufs(resData, OfResult) \ {x},
         RunSet' = IF p = "inf" THEN RunSet \cup {x} ELSE RunSet \ {x},
         SendSet' = IF p = "send" THEN SendSet \cup {x} ELSE SendSet \ {x},
         Once(resFree', OfResult), Once(resData', OfResult)
  PROVE  ResultInv'
<1>1. /\ ResAt(p)' = ResAt(p) \cup {x}
      /\ \A r : r # p => ResAt(r)' = ResAt(r) \ {x}
  BY ResMoves DEF ResultInv
<1>2. Bufs(resFree', OfResult) = ResAt("free")'
  BY <1>1 DEF ResultInv, ResultPlaces
<1>3. Bufs(resData', OfResult) = ResAt("data")'
  BY <1>1 DEF ResultInv, ResultPlaces
<1>4. RunSet' = ResAt("inf")'
  BY <1>1 DEF ResultInv, ResultPlaces
<1>5. SendSet' = ResAt("send")'
  BY <1>1 DEF ResultInv, ResultPlaces
<1> QED BY <1>2, <1>3, <1>4, <1>5 DEF ResultInv, ResultPlaces

LEMMA InfResultResults == ASSUME ResultInv, InfResult PROVE ResultInv'
<1> DEFINE x == Head(resFree)
<1>1. /\ infPc \in {"result", "status"} /\ resFree # <<>> /\ resFree' = Tail(resFree)
      /\ MoveRes(x, "inf") /\ resBuf' = x /\ infPc' \in {"run", "report"}
      /\ UNCHANGED <<resData, resPc, resSend>>
  BY DEF InfResult, result_get_free_buffer, restOfInf, sendVars
<1>2. ResultTypes /\ Once(resFree, OfResult) /\ Once(resData, OfResult)
  BY DEF ResultInv, ResultPlaces
<1>3. /\ resFree' \in Seq(ResBufs) /\ x \in ResBufs /\ OfResult[x] \in Bufs(resFree, OfResult)
      /\ Bufs(resFree', OfResult) = Bufs(resFree, OfResult) \ {OfResult[x]}
      /\ Once(resFree', OfResult)
  BY <1>1, <1>2, QueueTail DEF ResultTypes
<1> HIDE DEF x
<1>4. OfResult[x] = x /\ resOwner[x] = "free"
  BY <1>3, ResultValues, ResultsApart
<1>5. resBuf = NULL /\ RunSet = {} /\ RunSet' = {x}
  BY <1>1, <1>2, <1>3, ResultValues DEF ResultTypes, RunSet
<1>6. x \notin Bufs(resData, OfResult) /\ x \notin SendSet
  BY <1>3, <1>4, ResultsApart
<1>7. SendSet' = SendSet /\ Bufs(resData', OfResult) = Bufs(resData, OfResult)
  BY <1>1 DEF SendSet
<1>8. ResultTypes'
  <2>1. resOwner' \in [ResBufs -> {"free", "data", "inf", "send", "lost"}]
    BY <1>1, <1>2, <1>3, ResMoves
  <2>2. infPc' \in InfPlaces
    BY <1>1 DEF InfPlaces
  <2> QED BY <1>1, <1>2, <1>3, <2>1, <2>2 DEF ResultTypes
<1>9. Once(resData', OfResult)
  BY <1>1, <1>2
<1> QED BY <1>1, <1>3, <1>4, <1>5, <1>6, <1>7, <1>8, <1>9, ResultsGo

LEMMA InfAnswersResults == ASSUME ResultInv, InfAnswers PROVE ResultInv'
<1>1. /\ infPc \in {"run", "report"} /\ result_enqueue(resBuf) /\ resBuf' = NULL /\ infPc' = "put"
      /\ UNCHANGED <<resFree, resPc, resSend>>
  BY DEF InfAnswers, restOfInf, sendVars
<1>2. ResultTypes /\ Once(resFree, OfResult) /\ Once(resData, OfResult)
  BY DEF ResultInv, ResultPlaces
<1>3. PICK x \in ResBufs : x = resBuf
  BY <1>1, <1>2 DEF ResultTypes
<1>4. RunSet = {x} /\ RunSet' = {} /\ OfResult[x] = x
  BY <1>1, <1>3, ResultValues DEF RunSet
<1>5. resOwner[x] = "inf"
  BY <1>4, ResultsApart
<1>6. /\ x \notin Bufs(resData, OfResult) /\ x \notin Bufs(resFree, OfResult)
      /\ x \notin SendSet
  BY <1>5, ResultsApart
<1>7. Len(resData) < ResCap
  <2>1. Bufs(resData, OfResult) \subseteq (1 .. NumRes) \ {x}
    BY <1>6, ResultValues DEF ResultInv, ResultPlaces, ResAt
  <2>2. Len(resData) < NumRes
    BY <1>2, <2>1, RoomLeft, ResultValues DEF ResultTypes
  <2>3. Len(resData) \in Nat
    BY <1>2 DEF ResultTypes
  <2> QED BY <2>2, <2>3, SizesAssumption
<1>8. resData' = Append(resData, x) /\ MoveRes(x, "data")
  BY <1>1, <1>3, <1>7 DEF result_enqueue
<1>9. /\ resData' \in Seq(ResBufs) /\ Once(resData', OfResult)
      /\ Bufs(resData', OfResult) = Bufs(resData, OfResult) \cup {x}
  BY <1>2, <1>4, <1>6, <1>8, QueueAppend DEF ResultTypes
<1>10. SendSet' = SendSet /\ Bufs(resFree', OfResult) = Bufs(resFree, OfResult)
  BY <1>1 DEF SendSet
<1>11. ResultTypes'
  <2>1. resOwner' \in [ResBufs -> {"free", "data", "inf", "send", "lost"}]
    BY <1>2, <1>8, ResMoves
  <2>2. infPc' \in InfPlaces /\ infPc' \notin {"run", "report"}
    BY <1>1 DEF InfPlaces
  <2> QED BY <1>1, <1>2, <1>9, <2>1, <2>2 DEF ResultTypes
<1>12. Once(resFree', OfResult)
  BY <1>1, <1>2
<1>13. /\ Bufs(resFree', OfResult) = Bufs(resFree, OfResult) \ {x}
       /\ RunSet' = RunSet \ {x} /\ SendSet' = SendSet \ {x}
  BY <1>4, <1>6, <1>10
<1> QED BY <1>13, <1>6, <1>8, <1>9, <1>10, <1>11, <1>12, ResultsGo

LEMMA InfFailsResults == ASSUME ResultInv, InfFails PROVE ResultInv'
<1>1. /\ infPc = "run" /\ MoveRes(resBuf, "lost") /\ resBuf' = NULL /\ infPc' \in {"status", "put"}
      /\ UNCHANGED <<resFree, resData, resPc, resSend>>
  BY DEF InfFails, restOfInf, sendVars, resQueues
<1>2. ResultTypes /\ Once(resFree, OfResult) /\ Once(resData, OfResult)
  BY DEF ResultInv, ResultPlaces
<1>3. PICK x \in ResBufs : x = resBuf
  BY <1>1, <1>2 DEF ResultTypes
<1>4. RunSet = {x} /\ RunSet' = {}
  BY <1>1, <1>3, ResultValues DEF RunSet
<1>5. resOwner[x] = "inf"
  BY <1>4, ResultsApart
<1>6. /\ x \notin Bufs(resData, OfResult) /\ x \notin Bufs(resFree, OfResult)
      /\ x \notin SendSet
  BY <1>5, ResultsApart
<1>7. /\ SendSet' = SendSet /\ Bufs(resFree', OfResult) = Bufs(resFree, OfResult)
      /\ Bufs(resData', OfResult) = Bufs(resData, OfResult)
  BY <1>1 DEF SendSet
<1>8. ResultTypes'
  <2>1. resOwner' \in [ResBufs -> {"free", "data", "inf", "send", "lost"}]
    BY <1>1, <1>2, <1>3, ResMoves
  <2>2. infPc' \in InfPlaces /\ infPc' \notin {"run", "report"}
    BY <1>1 DEF InfPlaces
  <2> QED BY <1>1, <1>2, <2>1, <2>2 DEF ResultTypes
<1>9. Once(resFree', OfResult) /\ Once(resData', OfResult) /\ MoveRes(x, "lost")
  BY <1>1, <1>2, <1>3
<1> QED BY <1>4, <1>6, <1>7, <1>8, <1>9, ResultsGo

LEMMA ResGetResults == ASSUME ResultInv, ResGet PROVE ResultInv'
<1> DEFINE x == Head(resData)
<1>1. /\ resPc = "get" /\ resData # <<>> /\ resData' = Tail(resData)
      /\ MoveRes(x, "send") /\ resSend' = x /\ resPc' = "got"
      /\ UNCHANGED <<resFree, infPc, resBuf>>
  BY DEF ResGet, result_dequeue, restOfRes, infVars
<1>2. ResultTypes /\ Once(resFree, OfResult) /\ Once(resData, OfResult)
  BY DEF ResultInv, ResultPlaces
<1>3. /\ resData' \in Seq(ResBufs) /\ x \in ResBufs /\ OfResult[x] \in Bufs(resData, OfResult)
      /\ Bufs(resData', OfResult) = Bufs(resData, OfResult) \ {OfResult[x]}
      /\ Once(resData', OfResult)
  BY <1>1, <1>2, QueueTail DEF ResultTypes
<1> HIDE DEF x
<1>4. OfResult[x] = x /\ resOwner[x] = "data"
  BY <1>3, ResultValues, ResultsApart
<1>5. resSend = NULL /\ SendSet = {} /\ SendSet' = {x}
  BY <1>1, <1>2, <1>3, ResultValues DEF ResultTypes, SendSet
<1>6. x \notin Bufs(resFree, OfResult) /\ x \notin RunSet
  BY <1>3, <1>4, ResultsApart
<1>7. RunSet' = RunSet /\ Bufs(resFree', OfResult) = Bufs(resFree, OfResult)
  BY <1>1 DEF RunSet
<1>8. ResultTypes'
  <2>1. resOwner' \in [ResBufs -> {"free", "data", "inf", "send", "lost"}]
    BY <1>1, <1>2, <1>3, ResMoves
  <2> QED BY <1>1, <1>2, <1>3, <2>1 DEF ResultTypes
<1>9. Once(resFree', OfResult)
  BY <1>1, <1>2
<1>10. /\ Bufs(resFree', OfResult) = Bufs(resFree, OfResult) \ {x}
       /\ Bufs(resData', OfResult) = Bufs(resData, OfResult) \ {x}
       /\ RunSet' = RunSet \ {x} /\ SendSet' = SendSet \cup {x}
  BY <1>3, <1>4, <1>5, <1>6, <1>7
<1> QED BY <1>10, <1>1, <1>3, <1>4, <1>5, <1>6, <1>7, <1>8, <1>9, ResultsGo

LEMMA ResPutResults == ASSUME ResultInv, ResPut PROVE ResultInv'
<1>1. /\ resPc = "put" /\ result_put_free_buffer(resSend) /\ resSend' = NULL /\ resPc' = "get"
      /\ UNCHANGED <<resData, infPc, resBuf>>
  BY DEF ResPut, restOfRes, infVars
<1>2. ResultTypes /\ Once(resFree, OfResult) /\ Once(resData, OfResult)
  BY DEF ResultInv, ResultPlaces
<1>3. PICK x \in ResBufs : x = resSend
  BY <1>1, <1>2 DEF ResultTypes
<1>4. SendSet = {x} /\ SendSet' = {} /\ OfResult[x] = x
  BY <1>1, <1>3, ResultValues DEF SendSet
<1>5. resOwner[x] = "send"
  BY <1>4, ResultsApart
<1>6. /\ x \notin Bufs(resData, OfResult) /\ x \notin Bufs(resFree, OfResult)
      /\ x \notin RunSet
  BY <1>5, ResultsApart
<1>7. resFree' = Append(resFree, x) /\ MoveRes(x, "free")
  BY <1>1, <1>3 DEF result_put_free_buffer
<1>8. /\ resFree' \in Seq(ResBufs) /\ Once(resFree', OfResult)
      /\ Bufs(resFree', OfResult) = Bufs(resFree, OfResult) \cup {x}
  BY <1>2, <1>4, <1>6, <1>7, QueueAppend DEF ResultTypes
<1>9. RunSet' = RunSet /\ Bufs(resData', OfResult) = Bufs(resData, OfResult)
  BY <1>1 DEF RunSet
<1>10. ResultTypes'
  <2>1. resOwner' \in [ResBufs -> {"free", "data", "inf", "send", "lost"}]
    BY <1>2, <1>7, ResMoves
  <2> QED BY <1>1, <1>2, <1>8, <2>1 DEF ResultTypes
<1>11. Once(resData', OfResult)
  BY <1>1, <1>2
<1>12. /\ Bufs(resData', OfResult) = Bufs(resData, OfResult) \ {x}
       /\ RunSet' = RunSet \ {x} /\ SendSet' = SendSet \ {x}
  BY <1>4, <1>6, <1>9
<1> QED BY <1>12, <1>6, <1>7, <1>8, <1>9, <1>10, <1>11, ResultsGo

(* The other steps leave the result buffers where they are.                *)
LEMMA ResultStep == ASSUME ResultInv, [HicoNext]_hicoVars PROVE ResultInv'
<1> USE DEF queueVars, imgQueues, resQueues, infVars, sendVars, restOfShow, restOfInf, restOfRes
<1> DEFINE Still == UNCHANGED <<resFree, resData, resOwner, resBuf, resSend>>
           Stays == Still /\ UNCHANGED <<infPc, resPc>>
<1>0. ResultTypes
  BY DEF ResultInv
<1>1. ASSUME Stays PROVE ResultInv'
  BY <1>0, <1>1, ResultsKept DEF ResultTypes
<1>2. ASSUME NEW c \in Cameras, FrameEnds(c) \/ Overflows(c) \/ kdrv_dpi2ahb_irqhandler(c) PROVE Stays
  BY <1>2 DEF FrameEnds, Overflows, kdrv_dpi2ahb_irqhandler
<1>3. CASE LinkConfigured \/ Start \/ CmdThread
  BY <1>1, <1>3 DEF LinkConfigured, Start, CmdThread, CameraOpens, CameraTakes, CameraStarts, Respond
<1>4. CASE Unplug
  <2>1. Still /\ UNCHANGED infPc /\ resPc' = IF resPc = "sending" THEN "put" ELSE resPc
    BY <1>4 DEF Unplug
  <2> QED BY <1>0, <2>1, ResultsKept DEF ResultTypes
<1>5. CASE ShowThread
  BY <1>1, <1>5 DEF ShowThread, ShowGet, ShowBegin, ShowSent, ShowReturns, ShowReleases
<1>6. CASE BufMgr
  BY <1>1, <1>6 DEF BufMgr, MgrNext, MgrGet, MgrPutBack, MgrEnqueue
<1>7. CASE InfGet
  <2>1. Still /\ UNCHANGED resPc /\ infPc = "get" /\ infPc' = "result"
    BY <1>7 DEF InfGet
  <2> QED BY <1>0, <2>1, ResultsKept DEF ResultTypes, InfPlaces
<1>8. CASE InfPut
  <2>1. Still /\ UNCHANGED resPc /\ infPc = "put" /\ infPc' = "get"
    BY <1>8 DEF InfPut
  <2> QED BY <1>0, <2>1, ResultsKept DEF ResultTypes, InfPlaces
<1>9. CASE ResBegin
  <2>1. Still /\ UNCHANGED infPc /\ resPc = "got" /\ resPc' \in {"sending", "put"}
    BY <1>9 DEF ResBegin
  <2> QED BY <1>0, <2>1, ResultsKept DEF ResultTypes
<1>10. CASE ResSent
  <2>1. Still /\ UNCHANGED infPc /\ resPc = "sending" /\ resPc' = "put"
    BY <1>10 DEF ResSent
  <2> QED BY <1>0, <2>1, ResultsKept DEF ResultTypes
<1>11. CASE UNCHANGED hicoVars
  BY <1>1, <1>11 DEF hicoVars
<1>12. CASE InfResult \/ InfAnswers \/ InfFails \/ ResGet \/ ResPut
  BY <1>12, InfResultResults, InfAnswersResults, InfFailsResults, ResGetResults, ResPutResults
<1> QED BY <1>1, <1>2, <1>3, <1>4, <1>5, <1>6, <1>7, <1>8, <1>9, <1>10, <1>11, <1>12
        DEF HicoNext, HicoWork, CamIsr, InfThread, ResThread

LEMMA ResultsAlways == HicoSpec => []ResultInv
BY BeginResults, ResultStep, PTL DEF HicoSpec

-----------------------------------------------------------------------------
(* The steps of the threads.                                               *)

LEMMA BeginStand == HicoInit => StandInv
BY DEF HicoInit, StandInv

(* A step that changes none of what StandInv speaks of but a counter of    *)
(* the command thread or of the thread that shows.                         *)
LEMMA StandKept ==
  ASSUME StandInv, UNCHANGED <<streaming, page>>,
         cmdPc' \in {"link", "receive", "camera", "buffers"}, Len(cmdBufs') <= 2,
         showPc' \in {"get", "got", "sending", "sent", "cut", "gone"},
         showPc' = "gone" => \E b \in ImgBufs : owner'[b] = "lost"
  PROVE  StandInv'
BY DEF StandInv

(* A lost buffer is never moved: the steps only move one they hold.        *)
LostStays == \A b \in ImgBufs : owner[b] = "lost" => owner'[b] = "lost"

LEMMA MovesHeld ==
  ASSUME BufferInv, NEW x \in ImgBufs, owner[x] # "lost", NEW p, MoveImg({x}, p)
  PROVE  LostStays
BY DEF MoveImg, LostStays

LEMMA MovesLost == ASSUME NEW S, MoveImg(S, "lost") PROVE LostStays
BY DEF MoveImg, LostStays

LEMMA IsrLost ==
  ASSUME BufferInv, NEW c \in Cameras, kdrv_dpi2ahb_irqhandler(c)
  PROVE  LostStays
<1>1. CASE UNCHANGED owner
  BY <1>1 DEF LostStays
<1>2. ASSUME Done(c) \in ImgBufs, Done(c) \in PageSet, Coming(c, Done(c)) PROVE LostStays
  <2>1. ASSUME NEW x, Takes(c, x), MoveImg({x}, "img") PROVE LostStays
    <3>1. x \in ImgBufs /\ owner[x] \in {"free", "data"}
      BY <2>1, TakesFacts DEF Takes
    <3> QED BY <2>1, <3>1, MovesHeld
  <2>2. ASSUME NEW x, Takes(c, x), NEW p,
               owner' = [owner EXCEPT ![x] = "img", ![Done(c)] = p]
        PROVE  LostStays
    <3>1. x \in ImgBufs /\ owner[x] \in {"free", "data"}
      BY <2>2, TakesFacts DEF Takes
    <3>2. owner[Done(c)] = "img"
      BY <1>2, NowhereElse DEF BufferInv
    <3>3. \A b \in ImgBufs : b # x /\ b # Done(c) => owner'[b] = owner[b]
      BY <2>2 DEF BufferInv, TypesInv, QueueTypes
    <3> QED BY <3>1, <3>2, <3>3 DEF LostStays
  <2> QED BY <1>1, <1>2, <2>1, <2>2, ComingCases
<1> QED BY <1>1, <1>2, IsrFacts

(* The camera that the interrupt serves is started.                        *)
LEMMA IsrStand ==
  ASSUME BufferInv, StandInv, NEW c \in Cameras, kdrv_dpi2ahb_irqhandler(c)
  PROVE  StandInv'
<1>1. streaming[c] /\ UNCHANGED <<streaming, cmdPc, cmdBufs, showPc>>
  BY DEF kdrv_dpi2ahb_irqhandler, cmdVars, showVars
<1>2. \A d \in Cameras \ {c} : page'[d] = page[d]
  <2>1. page \in [Cameras -> [Pages -> ImgBufs \cup {NULL}]]
    BY DEF BufferInv, TypesInv, CameraTypes
  <2>2. CASE UNCHANGED page
    BY <2>2
  <2>3. ASSUME NEW x, page' = [page EXCEPT ![c][frameDone[c]] = x]
        PROVE  \A d \in Cameras \ {c} : page'[d] = page[d]
    BY <2>1, <2>3
  <2>4. ASSUME Done(c) \in ImgBufs, Coming(c, Done(c))
        PROVE  \A d \in Cameras \ {c} : page'[d] = page[d]
    <3>1. \/ UNCHANGED page
          \/ \E x : Takes(c, x)
          \/ page' = [page EXCEPT ![c][frameDone[c]] = Head(imgQueue).buf]
      BY <2>4, ComingCases
    <3>2. ASSUME NEW x, Takes(c, x) PROVE \A d \in Cameras \ {c} : page'[d] = page[d]
      BY <2>3, <3>2 DEF Takes
    <3> QED BY <2>2, <2>3, <3>1, <3>2
  <2> QED BY <2>2, <2>4, IsrFacts
<1>3. \A d \in Cameras : ~streaming'[d] => \A p \in Pages : page'[d][p] = NULL
  BY <1>1, <1>2 DEF StandInv
<1>4. showPc' = "gone" => \E b \in ImgBufs : owner'[b] = "lost"
  BY <1>1, IsrLost DEF StandInv, LostStays
<1> QED BY <1>1, <1>3, <1>4 DEF StandInv

LEMMA CameraTakesStand == ASSUME BufferInv, StandInv, CameraTakes PROVE StandInv'
<1>1. PICK x \in ImgBufs :
        TakeFree(FALSE, <<x>>) /\ cmdBufs' = Append(cmdBufs, x) /\ MoveImg({x}, "img")
  BY DEF CameraTakes
<1>2. x \in ImgBufs /\ owner[x] \in {"free", "data"}
  BY <1>1, TakesFacts
<1>3. LostStays
  BY <1>1, <1>2, MovesHeld
<1>4. Len(cmdBufs') <= 2
  <2>1. cmdBufs \in Seq(ImgBufs) /\ Len(cmdBufs) < 2
    BY TwoPages DEF CameraTakes, BufferInv, TypesInv, ThreadTypes
  <2> QED BY <1>1, <2>1
<1>5. UNCHANGED <<streaming, page, cmdPc, showPc>>
  BY DEF CameraTakes, camVars, showVars
<1> QED BY <1>3, <1>4, <1>5, StandKept DEF StandInv, LostStays

LEMMA CameraStartsStand == ASSUME BufferInv, StandInv, CameraStarts PROVE StandInv'
<1> DEFINE c == FirstOf(cmdCams)
<1>1. /\ cmdPc' = "camera" /\ cmdBufs' = <<>> /\ UNCHANGED showPc
      /\ page' = [page EXCEPT ![c] = [p \in Pages |-> cmdBufs[p + 1]]]
      /\ streaming' = [streaming EXCEPT ![c] = TRUE]
      /\ MoveImg({page[c][p] : p \in Pages}, "lost")
  BY DEF CameraStarts, showVars
<1> HIDE DEF c
<1>2. page \in [Cameras -> [Pages -> ImgBufs \cup {NULL}]] /\ streaming \in [Cameras -> BOOLEAN]
  BY DEF BufferInv, TypesInv, CameraTypes
<1>3. \A d \in Cameras : ~streaming'[d] => \A p \in Pages : page'[d][p] = NULL
  <2> SUFFICES ASSUME NEW d \in Cameras, ~streaming'[d] PROVE \A p \in Pages : page'[d][p] = NULL
    OBVIOUS
  <2>1. d # c /\ ~streaming[d]
    BY <1>1, <1>2
  <2>2. page'[d] = page[d]
    BY <1>1, <1>2, <2>1
  <2> QED BY <2>1, <2>2 DEF StandInv
<1>4. showPc' = "gone" => \E b \in ImgBufs : owner'[b] = "lost"
  BY <1>1, MovesLost DEF StandInv, LostStays
<1>5. Len(cmdBufs') <= 2
  BY <1>1
<1> QED BY <1>1, <1>3, <1>4, <1>5 DEF StandInv

LEMMA ShowStand == ASSUME BufferInv, StandInv, ShowThread PROVE StandInv'
<1>1. UNCHANGED <<streaming, page, cmdPc, cmdBufs>>
  BY DEF ShowThread, ShowGet, ShowBegin, ShowSent, ShowReturns, ShowReleases, restOfShow, camVars,
         cmdVars
<1>2. CASE ShowGet \/ ShowBegin \/ ShowSent \/ ShowReleases
  <2>1. showPc' \in {"get", "got", "sending", "sent", "cut"}
    BY <1>2 DEF ShowGet, ShowBegin, ShowSent, ShowReleases
  <2> QED BY <1>1, <2>1, StandKept DEF StandInv
<1>3. CASE ShowReturns
  <2>1. showPc = "cut" /\ showPc' = "gone" /\ MoveImg({shown.buf}, "lost")
    BY <1>3 DEF ShowReturns
  <2>2. shown.buf \in ImgBufs
    BY <2>1, ShownFacts DEF BufferInv
  <2>3. owner'[shown.buf] = "lost"
    BY <2>1, <2>2 DEF MoveImg
  <2> QED BY <1>1, <2>1, <2>2, <2>3, StandKept DEF StandInv
<1> QED BY <1>2, <1>3 DEF ShowThread

LEMMA InfLost == ASSUME BufferInv, InfGet \/ InfPut PROVE LostStays
<1>1. CASE InfGet
  <2> DEFINE o == Head(imgData)
  <2>1. imgData # <<>> /\ MoveImg(BufsOf(o), "inf")
    BY <1>1 DEF InfGet, image_dequeue
  <2>2. o \in Singles /\ OfSingle[o] \in DataSet
    BY <2>1, QueueTail DEF DataSet, BufferInv, TypesInv, QueueTypes, OnceInv
  <2> HIDE DEF o
  <2>3. OfSingle[o] \in ImgBufs /\ BufsOf(o) = {OfSingle[o]}
    BY <2>2, DataFacts
  <2>4. owner[OfSingle[o]] = "data"
    BY <2>2, <2>3, NowhereElse DEF BufferInv
  <2> QED BY <2>1, <2>3, <2>4, MovesHeld
<1>2. CASE InfPut
  <2>1. infPc # "get" /\ MoveImg({obj[1]}, "free")
    BY <1>2 DEF InfPut, image_put_free_buffer
  <2>2. obj[1] \in ImgBufs /\ obj[1] \in InfSet
    BY <2>1, ObjectFacts DEF BufferInv
  <2>3. owner[obj[1]] = "inf"
    BY <2>2, NowhereElse DEF BufferInv
  <2> QED BY <2>1, <2>2, <2>3, MovesHeld
<1> QED BY <1>1, <1>2

LEMMA MgrLost == ASSUME BufferInv, BufMgr PROVE LostStays
<1>1. CASE MgrGet
  <2> DEFINE r == Head(tempQ)
  <2>1. tempQ # <<>> /\ MoveImg({r.buf}, "mgr")
    BY <1>1, MgrGetFacts
  <2>2. tempQ \in Seq(Received) /\ Once(tempQ, OfRecord)
    BY DEF BufferInv, TypesInv, QueueTypes, OnceInv
  <2>3. r \in Received /\ OfRecord[r] \in TempSet
    BY <2>1, <2>2, QueueTail DEF TempSet
  <2> HIDE DEF r
  <2>4. OfRecord[r] = r.buf /\ r.buf \in ImgBufs
    BY <2>3, DataFacts
  <2>5. owner[r.buf] = "temp"
    BY <2>3, <2>4, NowhereElse DEF BufferInv
  <2> QED BY <2>1, <2>4, <2>5, MovesHeld
<1>2. CASE MgrEnqueue
  <2>1. mgrPc = "enqueue" /\ stored[0] \in ImgBufs /\ MoveImg({stored[0]}, "data")
    BY <1>2, MgrEnqueueFacts
  <2>2. stored[0] \in MgrSet
    BY <2>1, MgrFacts DEF BufferInv, TypesInv
  <2>3. owner[stored[0]] = "mgr"
    BY <2>1, <2>2, NowhereElse DEF BufferInv
  <2> QED BY <2>1, <2>3, MovesHeld
<1>3. ~MgrPutBack
  BY MgrFacts DEF BufferInv, TypesInv, MgrPutBack
<1> QED BY <1>1, <1>2, <1>3 DEF BufMgr, MgrNext

LEMMA StandStep == ASSUME BufferInv, StandInv, [HicoNext]_hicoVars PROVE StandInv'
<1> USE DEF queueVars, camVars, cmdVars, showVars, restOfInf, restOfRes
<1> DEFINE Rest == UNCHANGED <<streaming, page, cmdBufs>>
           Still == Rest /\ UNCHANGED owner
<1>1. ASSUME Rest, UNCHANGED <<cmdPc, showPc>>, LostStays PROVE StandInv'
  BY <1>1, StandKept DEF StandInv, LostStays
<1>2. ASSUME Still, cmdPc' \in {"link", "receive", "camera", "buffers"}, UNCHANGED showPc
      PROVE  StandInv'
  BY <1>2, StandKept DEF StandInv
<1>3. ASSUME Still, UNCHANGED cmdPc, UNCHANGED showPc PROVE StandInv'
  BY <1>2, <1>3 DEF StandInv
<1>4. ASSUME NEW c \in Cameras, FrameEnds(c) \/ Overflows(c) PROVE StandInv'
  BY <1>3, <1>4 DEF FrameEnds, Overflows
<1>5. CASE LinkConfigured \/ Start \/ CameraOpens \/ Respond
  <2>1. Still /\ UNCHANGED showPc
    BY <1>5 DEF LinkConfigured, Start, CameraOpens, Respond
  <2>2. cmdPc' \in {"link", "receive", "camera", "buffers"}
    BY <1>5 DEF LinkConfigured, Start, CameraOpens, Respond, StandInv
  <2> QED BY <1>2, <2>1, <2>2
<1>6. CASE Unplug
  <2>1. Still /\ UNCHANGED cmdPc /\ showPc' = IF showPc = "sending" THEN "cut" ELSE showPc
    BY <1>6 DEF Unplug
  <2> QED BY <2>1, StandKept DEF StandInv
<1>7. CASE BufMgr
  <2>1. Rest /\ UNCHANGED <<cmdPc, showPc>>
    BY <1>7 DEF BufMgr
  <2> QED BY <1>1, <1>7, <2>1, MgrLost
<1>8. CASE InfGet \/ InfPut
  <2>1. Rest /\ UNCHANGED <<cmdPc, showPc>>
    BY <1>8 DEF InfGet, InfPut
  <2> QED BY <1>1, <1>8, <2>1, InfLost
<1>9. CASE InfResult \/ InfAnswers \/ InfFails \/ ResThread
  BY <1>3, <1>9 DEF InfResult, InfAnswers, InfFails, ResThread, ResGet, ResBegin, ResSent, ResPut,
                    imgQueues
<1>10. CASE UNCHANGED hicoVars
  BY <1>3, <1>10 DEF hicoVars
<1>11. CASE CameraTakes \/ CameraStarts \/ ShowThread
  BY <1>11, CameraTakesStand, CameraStartsStand, ShowStand
<1>12. ASSUME NEW c \in Cameras, kdrv_dpi2ahb_irqhandler(c) PROVE StandInv'
  BY <1>12, IsrStand
<1> QED BY <1>4, <1>5, <1>6, <1>7, <1>8, <1>9, <1>10, <1>11, <1>12
        DEF HicoNext, HicoWork, CamIsr, CmdThread, InfThread

LEMMA StandAlways == HicoSpec => []StandInv
<1>1. BufferInv /\ StandInv /\ [HicoNext]_hicoVars => StandInv'
  BY StandStep
<1> QED BY <1>1, BeginStand, BuffersAlways, PTL DEF HicoSpec

-----------------------------------------------------------------------------
(* When nothing moves.                                                     *)

(* A thread that holds an image buffer finds a slot for it.                *)
LEMMA RoomForImage ==
  ASSUME BufferInv, NEW x \in ImgBufs
  PROVE  /\ owner[x] # "free" => Len(imgFree) < ImgCap
         /\ owner[x] # "data" => Len(imgData) < ImgCap
         /\ owner[x] # "temp" => Len(tempQ) < ImgCap
<1>1. /\ imgFree \in Seq(Singles) /\ imgData \in Seq(Singles) /\ tempQ \in Seq(Received)
      /\ Once(imgFree, OfSingle) /\ Once(imgData, OfSingle) /\ Once(tempQ, OfRecord)
  BY DEF BufferInv, TypesInv, QueueTypes, OnceInv
<1>2. Len(imgFree) \in Nat /\ Len(imgData) \in Nat /\ Len(tempQ) \in Nat
  BY <1>1
<1>3. /\ FreeSet \subseteq ImgBufs /\ DataSet \subseteq ImgBufs /\ TempSet \subseteq ImgBufs
  BY DEF BufferInv, PlaceInv, At
<1>4. ImgBufs = 1 .. NumImg /\ NumImg \in Nat /\ NumImg <= ImgCap /\ ImgCap \in Nat
  BY SizesAssumption DEF ImgBufs
<1>5. ASSUME owner[x] # "free" PROVE Len(imgFree) < NumImg
  <2>1. FreeSet \subseteq (1 .. NumImg) \ {x}
    BY <1>3, <1>4, <1>5, NowhereElse DEF BufferInv
  <2> QED BY <1>1, <1>4, <2>1, RoomLeft DEF FreeSet
<1>6. ASSUME owner[x] # "data" PROVE Len(imgData) < NumImg
  <2>1. DataSet \subseteq (1 .. NumImg) \ {x}
    BY <1>3, <1>4, <1>6, NowhereElse DEF BufferInv
  <2> QED BY <1>1, <1>4, <2>1, RoomLeft DEF DataSet
<1>7. ASSUME owner[x] # "temp" PROVE Len(tempQ) < NumImg
  <2>1. TempSet \subseteq (1 .. NumImg) \ {x}
    BY <1>3, <1>4, <1>7, NowhereElse DEF BufferInv
  <2> QED BY <1>1, <1>4, <2>1, RoomLeft DEF TempSet
<1> QED BY <1>2, <1>4, <1>5, <1>6, <1>7

(* The result thread is where it can go on or waits for a result.          *)
LEMMA ResultThreadIdle ==
  ASSUME ResultInv, ~CanWork
  PROVE  resPc = "get" /\ resData = <<>> /\ NobodySends
<1>1. showPc # "sending" /\ resPc # "sending" /\ NobodySends
  BY DEF CanWork, NobodySends
<1>2. resPc # "got"
  BY <1>1 DEF CanWork
<1>3. resPc # "put"
  <2> SUFFICES ASSUME resPc = "put" PROVE FALSE
    OBVIOUS
  <2>1. resSend \in ResBufs /\ resFree \in Seq(ResBufs) /\ Once(resFree, OfResult)
    BY DEF ResultInv, ResultTypes, ResultPlaces
  <2>2. resSend \in SendSet
    BY <2>1, ResultValues DEF SendSet
  <2>3. resSend \notin Bufs(resFree, OfResult)
    BY <2>1, <2>2, ResultsApart
  <2>4. Bufs(resFree, OfResult) \subseteq (1 .. NumRes) \ {resSend} /\ resSend \in 1 .. NumRes
    BY <2>1, <2>3, ResultValues DEF ResultInv, ResultPlaces, ResAt
  <2>5. Len(resFree) < NumRes
    BY <2>1, <2>4, RoomLeft, ResultValues
  <2>6. Len(resFree) \in Nat
    BY <2>1
  <2>7. Len(resFree) < ResCap
    BY <2>5, <2>6, SizesAssumption
  <2> QED BY <2>7 DEF CanWork
<1>4. resPc = "get"
  BY <1>1, <1>2, <1>3 DEF ResultInv, ResultTypes
<1> QED BY <1>1, <1>4 DEF CanWork

(* The dispatcher waits for an image, unless every result buffer is lost.  *)
LEMMA DispatcherIdle ==
  ASSUME BufferInv, ResultInv, ~CanWork, ~Starved
  PROVE  infPc = "get" /\ imgData = <<>>
<1>1. infPc \notin {"run", "report"}
  BY DEF CanWork
<1>2. infPc # "put"
  <2> SUFFICES ASSUME infPc = "put" PROVE FALSE
    OBVIOUS
  <2>1. obj[1] \in ImgBufs /\ obj[1] \in InfSet
    BY ObjectFacts DEF BufferInv
  <2>2. owner[obj[1]] = "inf"
    BY <2>1, NowhereElse DEF BufferInv
  <2>3. Len(imgFree) < ImgCap
    BY <2>1, <2>2, RoomForImage
  <2> QED BY <2>3 DEF CanWork
<1>3. infPc \notin {"result", "status"}
  <2> SUFFICES ASSUME infPc \in {"result", "status"} PROVE FALSE
    OBVIOUS
  <2>1. resFree = <<>>
    BY DEF CanWork
  <2>2. resPc = "get" /\ resData = <<>>
    BY ResultThreadIdle
  <2>3. resBuf = NULL /\ resSend = NULL
    BY <2>2 DEF ResultInv, ResultTypes
  <2>4. Bufs(resFree, OfResult) = {} /\ Bufs(resData, OfResult) = {}
    BY <2>1, <2>2, EmptyQueue
  <2>5. RunSet = {} /\ SendSet = {}
    BY <2>3 DEF RunSet, SendSet
  <2>6. ResAt("free") = {} /\ ResAt("data") = {} /\ ResAt("inf") = {} /\ ResAt("send") = {}
    BY <2>4, <2>5 DEF ResultInv, ResultPlaces
  <2>7. \A r \in ResBufs : resOwner[r] = "lost"
    BY <2>6 DEF ResAt, ResultInv, ResultTypes
  <2> QED BY <2>7 DEF Starved
<1>4. infPc = "get"
  BY <1>1, <1>2, <1>3 DEF ResultInv, ResultTypes, InfPlaces
<1> QED BY <1>4 DEF CanWork

(* So do the thread that shows and buf_mgr.                                *)
LEMMA OthersIdle ==
  ASSUME BufferInv, ResultInv, StandInv, ~CanWork, ~Starved
  PROVE  /\ showPc = "get" /\ imgQueue = <<>>
         /\ mgrPc = "get" /\ tempQ = <<>>
<1>1. NobodySends
  BY ResultThreadIdle
<1>2. showPc \notin {"got", "sending", "cut"}
  BY <1>1 DEF CanWork
<1>3. showPc # "gone"
  BY DEF StandInv, Starved
<1>4. showPc # "sent"
  <2> SUFFICES ASSUME showPc = "sent" PROVE FALSE
    OBVIOUS
  <2>1. shown.buf \in ImgBufs /\ shown.buf \in ShownSet
    BY ShownFacts DEF BufferInv
  <2>2. owner[shown.buf] = "img"
    BY <2>1, NowhereElse DEF BufferInv
  <2>3. Len(imgFree) < ImgCap /\ Len(tempQ) < ImgCap
    BY <2>1, <2>2, RoomForImage
  <2> QED BY <2>3 DEF CanWork
<1>5. showPc = "get"
  BY <1>2, <1>3, <1>4 DEF StandInv
<1>6. mgrPc # "enqueue"
  <2> SUFFICES ASSUME mgrPc = "enqueue" PROVE FALSE
    OBVIOUS
  <2>1. stored[0] \in ImgBufs /\ stored[0] \in MgrSet
    BY MgrFacts DEF BufferInv, TypesInv
  <2>2. owner[stored[0]] = "mgr"
    BY <2>1, NowhereElse DEF BufferInv
  <2>3. Len(imgData) < ImgCap
    BY <2>1, <2>2, RoomForImage
  <2> QED BY <2>3 DEF CanWork
<1>7. mgrPc = "get"
  BY <1>6, MgrFacts DEF BufferInv, TypesInv
<1> QED BY <1>5, <1>7 DEF CanWork

(* The command thread waits for a command: while it sets a camera up, that *)
(* camera has no page, so a buffer is left for it.                         *)
LEMMA CommandIdle ==
  ASSUME BufferInv, OrderInv, ResultInv, StandInv, ~CanWork, ~Starved,
         IsFiniteSet(Cameras), 2 * Cardinality(Cameras) <= NumImg,
         ImgBufs = PageSet \cup CmdSet
  PROVE  cmdBufs = <<>>
<1>1. cmdPc # "camera"
  BY ResultThreadIdle DEF CanWork
<1>2. CASE cmdPc # "buffers"
  BY <1>2 DEF BufferInv, TypesInv, ThreadTypes
<1>3. CASE cmdPc = "buffers"
  <2> DEFINE c == FirstOf(cmdCams)
             n == Cardinality(Cameras)
  <2>1. c \in Cameras
    BY <1>3, FirstIsThere DEF BufferInv, TypesInv, ThreadTypes
  <2>2. ~restarted
    BY DEF Starved
  <2>3. ~streaming[c]
    BY <1>3, <2>2 DEF OrderInv, StartInv
  <2>4. \A p \in Pages : page[c][p] = NULL
    BY <2>1, <2>3 DEF StandInv
  <2>5. Len(cmdBufs) \in Nat /\ Len(cmdBufs) < 2
    <3>1. Len(cmdBufs) \in Nat /\ Len(cmdBufs) <= 2
      BY DEF StandInv, BufferInv, TypesInv, ThreadTypes
    <3>2. Len(cmdBufs) # Cardinality(Pages)
      BY <1>3 DEF CanWork
    <3>3. Len(cmdBufs) # 2
      BY <3>2, TwoPages
    <3>4. PICK k \in Nat : k = Len(cmdBufs)
      BY <3>1
    <3>5. k <= 2 /\ k # 2
      BY <3>1, <3>3, <3>4
    <3>6. k < 2
      BY <3>5
    <3> QED BY <3>4, <3>6
  <2> HIDE DEF c
  <2>6. IsFiniteSet(Cameras \ {c}) /\ Cardinality(Cameras \ {c}) = n - 1 /\ n \in Nat
    BY <2>1, FS_RemoveElement, FS_CardinalityType
  <2>7. /\ IsFiniteSet((Cameras \ {c}) \X Pages)
        /\ Cardinality((Cameras \ {c}) \X Pages) = (n - 1) * 2
    <3> DEFINE S == Cameras \ {c}
    <3>1. IsFiniteSet(S) /\ Cardinality(S) = n - 1
      BY <2>6
    <3> HIDE DEF S
    <3>2. IsFiniteSet(S \X Pages) /\ Cardinality(S \X Pages) = Cardinality(S) * Cardinality(Pages)
      BY <3>1, TwoPages, FS_Product
    <3>3. Cardinality(S \X Pages) = (n - 1) * 2
      BY <3>1, <3>2, TwoPages
    <3> QED BY <3>2, <3>3 DEF S
  <2>8. Taken \in SUBSET ((Cameras \ {c}) \X Pages)
    BY <2>4 DEF Taken
  <2>9. Cardinality(Taken) <= (n - 1) * 2
    BY <2>7, <2>8, FS_Subset
  <2>10. /\ Counts(PageSet, Cardinality(Taken)) /\ Counts(CmdSet, Len(cmdBufs))
         /\ PageSet \cap CmdSet = {}
    BY CountsPages, CountsQueue
       DEF BufferInv, TypesInv, OnceInv, ThreadTypes, CmdSet, PlaceInv
  <2>11. Counts(ImgBufs, Cardinality(Taken) + Len(cmdBufs))
    BY <2>10, CountsApart
  <2>12. Cardinality(ImgBufs) = NumImg /\ NumImg \in Nat
    BY Values, FS_Interval, SizesAssumption DEF ImgBufs
  <2>13. NumImg = Cardinality(Taken) + Len(cmdBufs) /\ Cardinality(Taken) \in Nat
    BY <2>10, <2>11, <2>12 DEF Counts
  <2> HIDE DEF n
  <2>14. 2 * n <= NumImg
    BY DEF n
  <2>15. FALSE
    BY <2>5, <2>6, <2>9, <2>13, <2>14
  <2> QED BY <2>15
<1> QED BY <1>2, <1>3

LEMMA NothingMoves ==
  ASSUME BufferInv, OrderInv, ResultInv, StandInv,
         IsFiniteSet(Cameras), 2 * Cardinality(Cameras) <= NumImg
  PROVE  BuffersReturn
<1> SUFFICES ASSUME ~CanWork, ~Starved, NEW b \in ImgBufs PROVE Settled(b)
  BY DEF BuffersReturn
<1>1. /\ infPc = "get" /\ imgData = <<>> /\ showPc = "get" /\ imgQueue = <<>>
      /\ mgrPc = "get" /\ tempQ = <<>>
  BY DispatcherIdle, OthersIdle
<1>2. /\ DataSet = {} /\ TempSet = {} /\ QueueSet = {} /\ InfSet = {} /\ MgrSet = {}
      /\ ShownSet = {}
  BY <1>1, EmptyQueue, ObjectFacts, MgrFacts, ShownFacts
     DEF BufferInv, TypesInv, DataSet, TempSet, QueueSet
<1>3. \A x \in ImgBufs : owner[x] = "free" \/ x \in PageSet \cup CmdSet
  <2> SUFFICES ASSUME NEW x \in ImgBufs PROVE owner[x] = "free" \/ x \in PageSet \cup CmdSet
    OBVIOUS
  <2>1. owner[x] \in {"free", "data", "temp", "mgr", "inf", "img"}
    BY DEF Starved, BufferInv, PlaceInv
  <2>2. owner[x] \in {"free", "img"}
    BY <1>2, <2>1, NowhereElse DEF BufferInv
  <2> QED BY <1>2, <2>2, NowhereElse DEF BufferInv
<1>4. CmdSet = {}
  <2>1. CASE cmdPc # "buffers"
    <3>1. cmdBufs = <<>>
      BY <2>1 DEF BufferInv, TypesInv, ThreadTypes
    <3> QED BY <3>1, EmptyQueue DEF CmdSet
  <2>2. CASE cmdPc = "buffers"
    <3>1. imgFree = <<>>
      BY <2>2 DEF CanWork
    <3>2. FreeSet = {}
      BY <3>1, EmptyQueue DEF FreeSet
    <3>3. \A x \in ImgBufs : x \in PageSet \cup CmdSet
      BY <1>3, <3>2, NowhereElse DEF BufferInv
    <3>4. PageSet \cup CmdSet \subseteq ImgBufs
      BY DEF BufferInv, PlaceInv, At
    <3>5. cmdBufs = <<>>
      BY <3>3, <3>4, CommandIdle
    <3> QED BY <3>5, EmptyQueue DEF CmdSet
  <2> QED BY <2>1, <2>2
<1>5. owner[b] = "free" \/ b \in PageSet
  BY <1>3, <1>4
<1> QED BY <1>5 DEF Settled, PageSet

(* With two buffers for each camera, no thread waits for ever for what     *)
(* another one holds: when no step is possible, every buffer is back in    *)
(* the free queue or in a page, or one of the losses Starved names came    *)
(* about.                                                                  *)
THEOREM NoThreadWaitsForAnother ==
  ASSUME IsFiniteSet(Cameras), 2 * Cardinality(Cameras) <= NumImg
  PROVE  HicoSpec => []BuffersReturn
<1>1. BufferInv /\ OrderInv /\ ResultInv /\ StandInv => BuffersReturn
  BY NothingMoves
<1> QED BY <1>1, BuffersAlways, OrderAlways, ResultsAlways, StandAlways, PTL

=============================================================================
