---------------------------- MODULE FifoqManager ----------------------------
(***************************************************************************)
(* The FIFO-queue manager of the KL720 middleware                          *)
(* (mdw/inference/kmdw_fifoq_manager.c on top of dual_fifo2.c).            *)
(*                                                                         *)
(* Two dual FIFOs (image and result), each a queue of free buffer objects  *)
(* and a queue of data objects, one temporary queue of received images,    *)
(* and the buf_mgr thread that assembles the images of one inference into  *)
(* a single object.  The operators here describe one queue operation each; *)
(* UsbCompanion composes them into the steps of the calling threads.       *)
(*                                                                         *)
(* A buffer is its index in the reserved DDR region (base + i * size).  An *)
(* image object is the sequence of its buffers: num_of_buffer is its       *)
(* length.  Buffer lengths are not modelled: every buffer of a queue has   *)
(* the same length.                                                        *)
(***************************************************************************)
EXTENDS Integers, Sequences

CONSTANTS
  NumImg,     (* image_count, the image buffers the host configures (1..8)  *)
  NumRes,     (* result_count, the result buffers the host configures       *)
  ImgCap,     (* slots of each image message queue (MAX_IMAGE_COUNT = 10)   *)
  ResCap,     (* slots of each result message queue (MAX_RESULT_COUNT = 10) *)
  MaxInput    (* most images one inference may have                         *)

ASSUME SizesAssumption ==
  /\ NumImg \in Nat \ {0}
  /\ NumRes \in Nat \ {0}
  /\ ImgCap \in Nat /\ NumImg <= ImgCap
  /\ ResCap \in Nat /\ NumRes <= ResCap
  /\ MaxInput \in Nat \ {0}

NULL    == -1               \* stored_bobj.buffer_addr[i] before image i came
Temp    == 0                \* temp_cmd_buffer, the system reserve buffer
ImgBufs == 1 .. NumImg
AnyBuf  == ImgBufs \cup {Temp}
Slots   == AnyBuf \cup {NULL}
ResBufs == 1 .. NumRes
Indices == 0 .. MaxInput - 1

(* special_buffer_object_t: one received image on its way to buf_mgr.      *)
SpecialObjects == [total : 1 .. MaxInput, index : Indices, buf : Slots]

VARIABLES
  imgFree,     \* _image_fifioq free_msgq: sequence of objects
  imgData,     \* _image_fifioq data_msgq: sequence of objects
  tempQ,       \* _temp_image_queue: sequence of special objects
  resFree,     \* _result_fifoq free_msgq: sequence of buffers
  resData,     \* _result_fifoq data_msgq: sequence of buffers
  allocated,   \* _fifoq_mem_allocated
  mgrPc,       \* where buf_mgr stands in its loop
  received,    \* received_bobj
  stored,      \* stored_bobj.buffer_addr
  storedNum,   \* stored_bobj.num_of_buffer
  numReceived, \* num_received_img
  owner,       \* history: who holds each image buffer
  resOwner     \* history: who holds each result buffer

mgrVars    == <<mgrPc, received, stored, storedNum, numReceived>>
imgQueues  == <<imgFree, imgData, tempQ>>
resQueues  == <<resFree, resData>>
queueVars  == <<imgFree, imgData, tempQ, resFree, resData, allocated, mgrPc,
                received, stored, storedNum, numReceived, owner, resOwner>>

(* The places an image buffer or a result buffer can be in.  Only the      *)
(* properties read owner and resOwner, no guard does.                      *)
ImgPlaces == {"unallocated", "free", "data", "temp", "mgr", "img", "inf", "lost"}
ResPlaces == {"unallocated", "free", "data", "inf", "send"}

NoObject == [total |-> 1, index |-> 0, buf |-> Temp]

QueueInit ==
  /\ imgFree = <<>> /\ imgData = <<>> /\ tempQ = <<>>
  /\ resFree = <<>> /\ resData = <<>>
  /\ allocated = FALSE
  /\ mgrPc = "get"
  /\ received = NoObject
  /\ stored = [i \in Indices |-> NULL]
  /\ storedNum = 0
  /\ numReceived = 0
  /\ owner = [b \in ImgBufs |-> "unallocated"]
  /\ resOwner = [b \in ResBufs |-> "unallocated"]

(* The image buffers of a sequence of buffers.                             *)
BufsOf(obj) == {obj[k] : k \in DOMAIN obj}

(* Every image buffer of the set S is now at the place p.                  *)
MoveImg(S, p) == owner' = [b \in ImgBufs |-> IF b \in S THEN p ELSE owner[b]]
MoveRes(b, p) == resOwner' = [r \in ResBufs |-> IF r = b THEN p ELSE resOwner[r]]

-----------------------------------------------------------------------------
(* Queue operations.                                                       *)

(* kmdw_fifoq_manager_image_put_free_buffer, waiting forever for a slot.   *)
image_put_free_buffer(b) ==
  /\ Len(imgFree) < ImgCap
  /\ imgFree' = Append(imgFree, <<b>>)
  /\ MoveImg({b}, "free")

(* kmdw_fifoq_manager_result_put_free_buffer, waiting forever for a slot.  *)
result_put_free_buffer(b) ==
  /\ Len(resFree) < ResCap
  /\ resFree' = Append(resFree, b)
  /\ MoveRes(b, "free")

(* What get_free_buffer takes: the head of the free queue, or, when that   *)
(* is empty and force_grab is set, at a second look the oldest object that *)
(* waits for inference.  Both queues empty is osErrorResource (force_grab) *)
(* or a wait.                                                              *)
take_free(obj) ==
  /\ imgFree # <<>>
  /\ obj = Head(imgFree)
  /\ imgFree' = Tail(imgFree)
  /\ UNCHANGED imgData

take_data_peek(obj) ==  \* mutant: grabs without dequeueing
  /\ imgData # <<>>
  /\ obj = Head(imgData)
  /\ UNCHANGED <<imgFree, imgData>>

take_data(obj) ==
  /\ imgData # <<>>
  /\ obj = Head(imgData)
  /\ imgData' = Tail(imgData)
  /\ UNCHANGED imgFree

(* Both looks at once, for a caller nothing comes between.                 *)
TakeFree(force_grab, obj) ==
  \/ take_free(obj)
  \/ force_grab /\ imgFree = <<>> /\ take_data(obj)

(* kmdw_fifoq_manager_image_enqueue, waiting forever.  The index of the    *)
(* only image of an inference is forced to 0; an inference without images  *)
(* is refused, and the caller, which ignores that, lets its buffer go.     *)
image_enqueue_one_based(total, index, b) ==  \* mutant: indices count from 1
  /\ Len(tempQ) < ImgCap
  /\ tempQ' = Append(tempQ, [total |-> total, index |-> index + 1, buf |-> b])
  /\ MoveImg({b}, "temp")

image_enqueue(total, index, b) ==
  IF total = 0
  THEN UNCHANGED tempQ /\ MoveImg({b}, "lost")
  ELSE /\ Len(tempQ) < ImgCap
       /\ tempQ' = Append(tempQ, [total |-> total,
                                  index |-> IF total = 1 THEN 0 ELSE index,
                                  buf   |-> b])
       /\ MoveImg({b}, "temp")

(* kmdw_fifoq_manager_image_dequeue: the caller receives Head(imgData).    *)
image_dequeue ==
  /\ imgData # <<>>
  /\ imgData' = Tail(imgData)
  /\ MoveImg(BufsOf(Head(imgData)), "inf")

(* kmdw_fifoq_manager_result_get_free_buffer: the caller takes Head(resFree)*)
result_get_free_buffer ==
  /\ resFree # <<>>
  /\ resFree' = Tail(resFree)
  /\ MoveRes(Head(resFree), "inf")

(* kmdw_fifoq_manager_result_enqueue with timeout 0: a full queue drops    *)
(* the buffer, and no caller looks at the status.                          *)
result_enqueue_short(b) ==  \* mutant: gives up one slot too early
  IF Len(resData) + 1 < ResCap
  THEN /\ resData' = Append(resData, b)
       /\ MoveRes(b, "data")
  ELSE UNCHANGED <<resData, resOwner>>

result_enqueue(b) ==
  IF Len(resData) < ResCap
  THEN /\ resData' = Append(resData, b)
       /\ MoveRes(b, "data")
  ELSE UNCHANGED <<resData, resOwner>>

(* kmdw_fifoq_manager_result_dequeue: the caller receives Head(resData).   *)
result_dequeue_peek ==  \* mutant: the buffer stays in the queue
  /\ resData # <<>>
  /\ UNCHANGED resData
  /\ MoveRes(Head(resData), "send")

result_dequeue ==
  /\ resData # <<>>
  /\ resData' = Tail(resData)
  /\ MoveRes(Head(resData), "send")

(* One iteration of the first loop of kmdw_fifoq_manager_clean_queues: an  *)
(* object goes from the data queue to the free queue as it is, with all    *)
(* its buffers; a full free queue (timeout 0) would lose it.               *)
clean_image_object ==
  /\ imgData # <<>>
  /\ imgData' = Tail(imgData)
  /\ IF Len(imgFree) < ImgCap
     THEN /\ imgFree' = Append(imgFree, Head(imgData))
          /\ MoveImg(BufsOf(Head(imgData)), "free")
     ELSE /\ UNCHANGED imgFree
          /\ MoveImg(BufsOf(Head(imgData)), "lost")

(* One iteration of its second loop.                                       *)
clean_result_object_twice ==  \* mutant: frees the buffer without dequeueing it
  /\ resData # <<>>
  /\ UNCHANGED resData
  /\ IF Len(resFree) < ResCap
     THEN /\ resFree' = Append(resFree, Head(resData))
          /\ MoveRes(Head(resData), "free")
     ELSE UNCHANGED <<resFree, resOwner>>

clean_result_object ==
  /\ resData # <<>>
  /\ resData' = Tail(resData)
  /\ IF Len(resFree) < ResCap
     THEN /\ resFree' = Append(resFree, Head(resData))
          /\ MoveRes(Head(resData), "free")
     ELSE UNCHANGED <<resFree, resOwner>>

(* _allocate_memory_for_inference_queue once kmdw_ddr_reserve succeeded:   *)
(* every buffer is put on its free queue, in address order.                *)
fill_free_queues ==
  /\ ~allocated
  /\ allocated' = TRUE
  /\ imgFree' = [i \in 1 .. NumImg |-> <<i>>]
  /\ resFree' = [i \in 1 .. NumRes |-> i]
  /\ owner' = [b \in ImgBufs |-> "free"]
  /\ resOwner' = [b \in ResBufs |-> "free"]

-----------------------------------------------------------------------------
(* The buf_mgr thread: kdp2_fifoq_manager_enqueue_image_thread.            *)

(* The loop body after the old buffer of the index, if any, went back:     *)
(* store the new one and look whether the object is complete.  num is the  *)
(* value of num_received_img at that point.                                *)
Store_early(r, num) ==  \* mutant: complete one image too early
  /\ stored' = [stored EXCEPT ![r.index] = r.buf]
  /\ numReceived' = num
  /\ mgrPc' = IF num + 1 >= r.total THEN "enqueue" ELSE "get"

Store(r, num) ==
  /\ stored' = [stored EXCEPT ![r.index] = r.buf]
  /\ numReceived' = num
  /\ mgrPc' = IF num = r.total THEN "enqueue" ELSE "get"

(* Takes a received image.  An index seen for the first time is stored and *)
(* counted; an index already stored first gives its old buffer back.       *)
MgrGet ==
  /\ mgrPc = "get"
  /\ tempQ # <<>>
  /\ tempQ' = Tail(tempQ)
  /\ received' = Head(tempQ)
  /\ storedNum' = Head(tempQ).total
  /\ MoveImg({Head(tempQ).buf}, "mgr")
  /\ IF stored[Head(tempQ).index] # NULL
     THEN /\ mgrPc' = "putback"
          /\ UNCHANGED <<stored, numReceived>>
     ELSE Store(Head(tempQ), numReceived + 1)
  /\ UNCHANGED <<imgFree, imgData, resQueues, allocated, resOwner>>

(* The image replaced by a new one with the same index goes back to the    *)
(* free queue, num_received_img stays.                                     *)
MgrPutBack_counts ==  \* mutant: counts the image it replaces
  /\ mgrPc = "putback"
  /\ image_put_free_buffer(stored[received.index])
  /\ Store(received, numReceived + 1)
  /\ UNCHANGED <<imgData, tempQ, resQueues, allocated, received, storedNum, resOwner>>

MgrPutBack ==
  /\ mgrPc = "putback"
  /\ image_put_free_buffer(stored[received.index])
  /\ Store(received, numReceived)
  /\ UNCHANGED <<imgData, tempQ, resQueues, allocated, received, storedNum, resOwner>>

(* dual_fifo2_enqueue_data, waiting forever, then the memset.              *)
MgrEnqueue ==
  /\ mgrPc = "enqueue"
  /\ Len(imgData) < ImgCap
  /\ LET obj == [k \in 1 .. storedNum |-> stored[k - 1]]
     IN  /\ imgData' = Append(imgData, obj)
         /\ MoveImg(BufsOf(obj), "data")
  /\ stored' = [i \in Indices |-> NULL]
  /\ storedNum' = 0
  /\ numReceived' = 0
  /\ mgrPc' = "get"
  /\ UNCHANGED <<imgFree, tempQ, resQueues, allocated, received, resOwner>>

MgrNext == MgrGet \/ MgrPutBack \/ MgrEnqueue

-----------------------------------------------------------------------------
(* Types of the variables of this module.                                  *)
ImgQueueTypeOK ==
  /\ imgFree \in Seq(Seq(Slots) \ {<<>>})
  /\ imgData \in Seq(Seq(Slots) \ {<<>>})
  /\ tempQ \in Seq(SpecialObjects)
  /\ owner \in [ImgBufs -> ImgPlaces]
ResQueueTypeOK ==
  /\ resFree \in Seq(ResBufs)
  /\ resData \in Seq(ResBufs)
  /\ resOwner \in [ResBufs -> ResPlaces]
MgrTypeOK ==
  /\ mgrPc \in {"get", "putback", "enqueue"}
  /\ received \in SpecialObjects
  /\ stored \in [Indices -> Slots]
  /\ storedNum \in 0 .. MaxInput
  /\ numReceived \in Nat
  /\ allocated \in BOOLEAN
QueueTypeOK == ImgQueueTypeOK /\ ResQueueTypeOK /\ MgrTypeOK

=============================================================================
