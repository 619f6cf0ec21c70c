# KL720 companion firmware: TLA+ models, checks and proofs

This directory models the firmware that makes a KL720 chip a USB inference
accelerator: `src/firmware/mdw` (middleware) on top of
`src/firmware/platform/kl720` (drivers, RTOS), as the solutions
`build/solution_kdp2_user_ex`, `..._hico_mipi` and `..._hico_tof` put them
together. In the first a host sends images and commands over the bulk endpoint
DATA_OUT, the firmware runs neural networks on the images with the NPU and sends
results and command answers over DATA_IN; in the others the images come from
cameras.

Paths below are relative to `src/firmware/`.

## 1. Inventory

### Components that are modelled

| Component | State | Operations | What makes it correct |
|---|---|---|---|
| FIFO-queue manager `mdw/inference/kmdw_fifoq_manager.c`, `dual_fifo2.c` | free and data queue for image objects, the same for result buffers, a temporary queue of received images; `stored_bobj`, `num_received_img` of the buf_mgr thread; `_fifoq_mem_allocated` | get/put/enqueue/dequeue of both FIFOs, `clean_queues`, the buf_mgr loop that makes one object of the images of an inference | a buffer is in one place only and none disappears; an object holds all images of one inference, in order; puts that wait for ever never have to |
| USB companion `mdw/usb_companion/kdp2_usb_companion.c` | image thread and result thread with their locals (`buf_addr`, `recv_type`, lengths); `_do_reset_queue`, `_enable_inf_droppable`, `FLAG_WAIT_USB_CONNECTION` | receive loop, header parsing, buffer swap, commands, disconnect and reset clean-up; link and control callbacks in interrupt context | no DMA into a buffer somebody else uses; a reset happens and leaves nothing behind; a command runs once; results leave in order |
| USB device driver `platform/kl720/scpu/drv/kdrv_usbd3.c`, HAL `mdw/usb_companion/usbd_hal_720.c` | `ep_ctrl[].status`, `usbd_ctrl.link_status`, `usbd_ctrl.evtFlag`, `send_bulk_mutex`, the DMA and FIFO of an endpoint | bulk send (DMA wait, then FIFO wait) and receive, reset and terminate of endpoints, set_configuration, re-initialisation | a thread that waits for a transfer is woken by its end; a transfer reported as ok was moved; the DMA is armed for the call that goes on only; the endpoint stays usable |
| Inference dispatcher `mdw/inference/kmdw_inference_720.c`, generic raw job `kdp2_inf_generic_raw.c` | the object it works on, the crop box, the result buffer; `g_result_ctx` and the callback thread of parallel runs | dequeue, one result per crop box, return of the buffers one by one | every inference is answered, with one result per crop box |
| Run of a model `mdw/model/kmdw_model.c` (second half), `mdw/ipc/kmdw_ipc.c`, NCPU `platform/kl720/ncpu` | image contexts and flags in shared memory, `bDSPBusy`, trigger register, event flags | settings and run, trigger, interrupt with its second look, waits with timeouts, parallel results by context | a result belongs to the run that waits for it, also after a timeout; every run is answered; contexts in use are left alone |
| Model manager `mdw/model/kmdw_model.c` (first half), load and update commands of `kdp2_cmd_handler_720.c` | model table, loaded marks, memory layout behind the models, slots of the shared memory | load from the host or the flash, layout, configuration of a run | a run uses the model the host loaded; the table describes what is in memory |
| DDR heap `mdw/memory/kmdw_memory.c` | tail and boundary | reserve, move the boundary | blocks are disjoint, aligned and apart from the models |
| Firmware update `mdw/dfu/kmdw_dfu.c`, boot `mdw/system/kmdw_system.c` | two image partitions per processor, two configuration sectors in the flash, their copy in RAM | update of each processor, creation, confirmation and switch of the configuration, choice at boot | power loss at any step leaves a bootable, consistent choice, and the image in use is never written |
| Frequency selection `mdw/dfs/kmdw_dfs.c`, `platform/kl720/scpu/drv/kdrv_tdc.c` | thresholds, measured temperature, lower and current NPU frequency, which of the two interrupts is enabled | threshold interrupts, monitor thread, setting of the frequency at a run | it slows down when hot and recovers; a slow NPU is watched |
| Log queue `mdw/console/kmdw_console.c` | ring of log entries shared with the NCPU, flags and turn, mutex, event flags | log from a thread, from the NCPU, print | two writers never write the same entry; entries are printed once, in order, and all of them |
| Camera solutions `build/solution_kdp2_hico_mipi`, `..._hico_tof`, camera interface `kdrv_dpi2ahb.c`, jobs `app/kdp2_inf_app_yolo.c`, `..._tof.c` | two page registers per camera, `_img_queue`, `skip_next_count`, mode flags, the threads' buffers | frame interrupt (which may take an image away from the threads), START command, sending images back, inference, results | a camera never writes into an image somebody uses; frames stay in order; buffers come back |
| Errand service `mdw/errand/kmdw_errandserv.c` | message queue | the driver re-initialisation that a disconnect asks for | it is carried out, while threads use the driver |
| Command handler `mdw/usb_companion/kdp2_cmd_handler_720.c` | none of its own | one command, one answer; load model and update firmware with extra transfers | one answer per command |

On the companion path they interact by queues (RTOS message queues that own
nothing: a buffer is an address), by event and thread flags, by one mutex
(`send_bulk_mutex`, shared by the two senders) and by three variables written in
interrupt context and read by the image thread without a lock. The dispatcher
calls the model manager, which talks to the NCPU by flags in shared memory and
one interrupt in each direction. Commands run in the image thread, so model
loading and firmware updates go on while the dispatcher runs inferences. Heap
reservations come from the dispatcher, from commands and from control transfers
in interrupt context.

### Not modelled

| Component | Why |
|---|---|
| Power manager `mdw/power` | nothing calls `kmdw_power_manager_init`, so its thread never starts; the hooks other components register are never run. Only shutdown is reached, which switches off |
| USB host stack, UVC and COM devices `mdw/usbh2`, `mdw/usbd_uvc`, `mdw/usbd_com` | used by other solutions than these; vendor stack with its own class drivers. |
| JPEG, SSP, SPI com, LED, CRC | one call into a driver or a computation each, no state of their own |
| Peripheral drivers (I2C, UART, SDC, GDMA, timers, pin mux, CSI, DPI, ISP, sensors) | register programming; what they do to the outside is not in the repository. A GDMA channel has one user at a time in these builds |
| Demo applications other than YOLO and ToF | they follow the generic raw job call by call |
| WiFi (`platform/dev/wifi`), examples, utilities, host-side tools | not linked into the solutions above |
| RTOS, CMSIS and Xtensa libraries and headers | vendored; the RTOS appears through the semantics of its queues, flags and mutexes. Headers of register definitions are most of the implementation's lines |

### What is hard here

* Four threads, the errand thread and interrupt callbacks share buffers and
  endpoint status; nearly every hazard is an order of two of their steps.
* Resets, disconnects and the droppable mode arrive in interrupt context at any
  moment and act through flags a thread looks at later, in some states only.
* A buffer can be in a queue, an object, a thread, a page register or the DMA
  engine. No code knows which; the models keep this as a history.
* Sends and receives can be terminated, time out, or be overtaken by a
  re-initialisation of the driver.
* Two processors share memory without a lock: an answer, a log request and a
  ready report may meet in one interrupt, and an answer may come after its
  waiter gave up.
* The flash is written sector by sector, and power fails between any two.

`PROJECT.json` lists the hazards with their lines and the properties that cover
them.

## 2. Modules

| Module | Models |
|---|---|
| `FifoqManager` | the queues, each queue operation as an operator, and the buf_mgr thread (`MgrGet`, `MgrPutBack`, `MgrEnqueue`) |
| `UsbCompanion` | EXTENDS it with endpoints, interrupts, host, image thread, dispatcher, result thread: the whole companion path |
| `InferenceService` | abstract: a queue of inferences; every crop box of each is answered, in order, once |
| `MCUsbCompanion` | instances of `UsbCompanion` |
| `UsbEndpoint` | one bulk endpoint of the driver, statement by statement |
| `NcpuIpc` | settings and run of a model, dispatcher and callback thread, interrupt and NCPU |
| `RunService` | abstract: every run is answered at most once, with its own complete output, parallel ones in order |
| `MCNcpu` | instance of `NcpuIpc` |
| `DdrHeap` | the heap |
| `ModelStore` | EXTENDS it with the model manager, its commands and the control transfers that move the boundary |
| `Dfu` | firmware update, configuration sectors and boot |
| `FirmwareUpdate` | abstract: the image in use changes only at boot and only to one that was installed completely |
| `Maintenance` | EXTENDS `ModelStore` and `Dfu`: commands, inferences, updates and power failures together |
| `HicoPipeline` | EXTENDS `FifoqManager` with the camera solutions |
| `MCMaintenance` | instances of `Maintenance` and `HicoPipeline`, one or the other from the start |
| `LogQueue`, `Dfs` | the log queue; the frequency selection |
| `MCBoard` | instances of `Dfu`, `LogQueue`, `Dfs` and `UsbEndpoint`, one of them from the start |
| `UsbCompanionProofs` | the companion path: types; exclusivity of buffers and DMA targets; the line of the images; room in the queues; where each buffer is |
| `UsbOrderProofs` | EXTENDS it: the order of the results; whole inferences; the path implements `InferenceService` |
| `MaintenanceProofs` | models and heap under commands, runs and reboots |
| `NcpuProofs` | the run of a model on both processors, its images and its refinement |
| `BoardProofs` | the log queue and the frequency selection |
| `HicoProofs` | the camera solutions: where the buffers are, the order of the frames, that no thread waits for another |
| `UsbEndpointProofs`, `DfuProofs` | these components |

`MCMaintenance` and `MCBoard` put parts that share no state into one state
space: after the first state only one of them moves, so each is checked as if
alone.

### The companion path: state and code

* A **buffer** is its number; `Temp` (0) is the system reserve buffer
  `temp_cmd_buffer`, `NULL` (-1) an empty `buffer_addr[i]`. An image object is a
  non-empty sequence of buffers (`num_of_buffer` is its length).
* `imgFree`, `imgData`, `tempQ`, `resFree`, `resData` are the five message
  queues. `stored`, `storedNum`, `numReceived`, `received` are the statics of
  the buf_mgr thread.
* A **thread** is a `Pc` variable and its locals: `imgPc, imgRet, buf, extra,
  recvLen, wantLen, recvType, hdr` for the image thread, `infPc, obj, crop,
  resBuf` for the dispatcher, `sendPc, sendBuf` for the result thread. Threads
  interleave between any two queue or driver calls. One call of an RTOS queue is
  one step; `image_get_free_buffer`, which in the droppable mode looks at the two
  queues one after the other and puts the other buffers of a grabbed object back
  one by one, and `clean_queues`, which moves object by object, are several.
  `image_enqueue` drops a buffer whose header announces no image at all.
* **Endpoints**: `ep` is `ep_ctrl[].status` (`na`, `idle`, `xfer`, `done`,
  `term`), `evt` the bit in `evtFlag`, `fifo` whether DATA_IN still has data the
  host has not read. Receives and sends are tested, marked, armed and waited for
  in steps of their own (`ImgReceive`, `ImgMark`, `ImgArm`; `SendStart`, then
  `send_begins` twice): nothing in the driver keeps an interrupt from resetting
  the endpoint in between. A DMA that is armed for a transfer no longer marked
  sets the history variable `late`. A send waits in two rounds (`round`): for
  the DMA, and once more for the FIFO when that is not empty, or when it was
  woken and found its transfer neither done nor terminated. `sendMutex` is
  `send_bulk_mutex`.
* `armed` is `H_hw_own` of DATA_OUT's PRD and `dma` what that PRD holds: where the
  next transfer is written, whether or not a thread still waits for it. `tx` is
  the PRD of DATA_IN and `sent` the result in its FIFO, which a reset does not
  change. `content` is
  what a buffer holds, head and rest separately, because only the first transfer
  carries the header the firmware reads: a later one that comes first into a buffer
  is no image to it (kind `part`). A buffer keeps its old content until something
  is written to it.
* **Interrupts** (`Configured`, `Disconnected`, `ControlReset`, ...) happen
  anywhere. `ErrandResetDevice` is `kdrv_usbd3_reset_device` in the errand
  thread: link down, new event flag object, waiting threads released, endpoint
  status untouched.
* `ImgRetry` follows the retry loop of `kdp2_usb_companion.c:291`: the mode is
  read again after the call, and when it was switched off in between, the thread
  goes on with whatever `buf_addr` held (the model: its last value, which is what
  the stack slot still has). `raced` remembers that this happened.
* History variables `owner`, `resOwner`, `raced`, `torn`, `late`, `asked`,
  `delivered`, `executed` are read by properties only. `torn` remembers that a
  later transfer of an image came first into a buffer: the device counts the
  transfers of the images otherwise than the host.
* `LinkLost` is the link callback of a disconnection, `VbusOff` the driver's own
  handling, which resets every endpoint twice.

### The host

The host is external and modelled by what the protocol allows: it configures the
queues once, with at least as many image buffers as an inference has images (the
code does not check this; with fewer, buf_mgr and the image thread wait for each
other, see the hazard list); it begins an inference, sends its images in order,
each in `ImgChunks` transfers, sends commands between inferences, and may reset,
enable or disable dropping and be unplugged at any moment, giving up what it was
sending. `Oversize` lets it send images bigger than the buffers, `SlowHost` lets
it leave answers unread past the timeouts of the driver.

### The companion path: abstractions

Buffer sizes and addresses, header fields without influence on control, log
output and the NPU run itself (one step that may or may not have succeeded) are
left out. Thread priorities are left out: the model has every schedule the RTOS
has and more; the counterexamples of section 5 were read against the priorities
of `task_handler.h` (image and result thread have the same one). The reboot
request is the power loss of `Dfu`, the DDR boundary request is in `ModelStore`.
Left out of the USB companion: the shutdown request, the reboot after five
minutes without a link, the checkpoint debugging data. The 4 MB chunks of the PRD
are one transfer.

### The run of a model: state and code

`NcpuIpc` has `imgs` for `s_img_data`, `raws` for the `raw_images` of the shared
memory, `busy` for `bDSPBusy`, `comm` for the flags the NCPU writes (`ready`,
its result and the kind of it, a request for its log) and `command` for the one
the SCPU writes. The interrupt handler is two steps, because it looks at the
result flag a second time and clears the interrupt in between: what the NCPU
posts there is the hard case. While the handler runs no thread does (one core),
the NCPU goes on. The dispatcher is in `configured`, `trigger`, `wait` (and the
same for a standalone function, ToF decoding); the callback thread awaits one
context after the other and returns after two timeouts. `upsets` counts waits
that end too early, refused runs, log requests and busy times. There are
`Buffers` result buffers and `Contexts` contexts, and the code compares these
numbers nowhere (6 contexts; the MIPI solution has 10 result buffers, in the
companion the host chooses): `Begin` takes the next context whoever has it, and
`reused` remembers that its run was not answered.

### Models, heap and firmware: state and code

`ModelStore` takes the statements of `_load_model_info`, `load_model` and
`kmdw_model_run` together where no other thread looks in between, and splits
commands where data is received (`cmd`) and runs where the heap is read and
written (`disp`: `read3`, `take3`, ...). A set of models is a name with the types
of its models, its end in DDR and the length of its outputs; `ddr[i]` is the set
whose data is at place i, or `Junk`. `DdrHeap` has a reservation in one step, and
in two for those of the dispatcher and of the checkpoint command
(`SetCheckpoint`, `ReserveDebug`), which control transfers interrupt.

`Dfu` has the two configuration sectors (`cfg`), their copies (`ram`), the images
and `pc`, which stands at every erasing and every programming of a sector. Power
may fail at each. An image is its version, `Torn` while it is written. `cut`
remembers that power or the flash failed at a moment which the two sectors do not
cover: the configuration itself half written, or an image erased that the
configuration already names for the next boot. `Maintenance` puts both together:
one thread, one command at a time.

### Log, frequency, endpoint, cameras: state and code

* `LogQueue`: the mutex, the two `willing` flags and `turn` are single steps; so
  are the two stores of `x = (++x) % LOG_QUEUE_NUM` on a volatile index, which C
  leaves undefined (the build may store once or twice).
* `Dfs`: interrupt and monitor thread may come between the tests, the setting and
  the clearing of `update` at a run (`BeginRun`, `SetFrequency`, `ClearUpdate`):
  an update offered just before the clearing is lost.
* `UsbEndpoint`: a call is at `test`, `mark`, `arm`, `wait`, `woken`, `remark`,
  `enable`, `halt`, `settle` or `finish`; `stuck` is the endless loop of line
  2218. `odd` remembers in which of these gaps somebody else wrote the status.
  `UsbCompanion` has the test, the marking, the arming and one end of a call; here
  are the steps of that end as well.
* `HicoPipeline`: `page` are the page registers of each camera, `filling` the one
  that is written, `frameDone` the interrupt with the page of its status.
  `frames` and `content` number the frames and say which one a buffer holds. The
  frame interrupt is one step (it has the highest priority), a queue call of a
  thread one step.

## 3. Checks

Deadlock checking is off in every run: when the bounds are used up the system
comes to rest.

| Run | Bounds | Shows |
|---|---|---|
| `queue` | 3 inferences and commands together (at most 1 command), inferences of 1 or 2 images in 2 transfers, 2 crop boxes, 2 image and 2 result buffers | `OneInference`; the path implements `InferenceService` including its fairness: every result comes |
| `reset` | 2 inferences of 3 images in 2 transfers, 3 image buffers, 1 reset, 1 change of the droppable mode | `Exclusive`, `NoMissingImage` |
| `link` | 2 inferences and commands together (at most 1 command), 2 image buffers, 1 result buffer, 1 disconnect (of both kinds), oversize images, a slow host | `TypeOK`, `ResultExclusive`, `Conserved`, `DmaExclusive`, `PutsNeverWait`, `ResultsInOrder` |
| `ncpu` | 2 contexts, 3 result buffers, 3 runs, 2 upsets | `ImageKept`, `EveryRunAnswered`; the run implements `RunService` |
| `maintenance` | 3 sets of models, one with all `MaxModels` = 2 models; two model commands, or one with an update and a reboot, or a switch of partitions; in the camera part two cameras with 3 frames and a START or 2 frames and a disturbance more, or one ToF sensor with 4, or 3 and a disturbance more | `RunsRequestedModel`, `LoadedIsThere`, `ModelsApartFromHeap`, `HeapSound`; `CameraBuffersApart`, `FramesInOrder`, `BuffersReturn` |
| `board` | firmware: `MAX_BOOT_SEQ` 2, 3 updates, 1 switch, 3 boots, 1 failing flash operation; log: 2 threads and the NCPU, 3 slots, 3 logs; frequencies 200, 600, 650, 700 under any temperature; endpoint: 2 calls, 1 disconnection, 1 reset | 17 properties of the four parts, among them `UpdateKept` (the update implements `FirmwareUpdate`) and four liveness properties |
| `reset_mixes`, `drop_race`, `reset_lost`, `send_stuck`, `command_twice`, `result_lost` | as small as the counterexample allows | section 5 |

Why these bounds are enough to mean something:

* Companion path: the number of buffers makes the threads compete (with two image
  buffers one waits for inference while the other is received into; the image
  queues have as many slots as buffers, so a lost or a doubled buffer makes a put
  wait), three images per inference give buf_mgr a partial object that a reset
  can meet in each of its states, two transfers per image give `ParseRest` its
  cases, and one disconnect or reset already meets every pc of every thread.
* Runs: three runs reuse the first of two contexts while the second is still
  post-processed, and with three result buffers also while the first one is not
  answered; two upsets let a late answer meet a log request.
* Firmware: with `MAX_BOOT_SEQ` 2 the third update restarts the sequence numbers,
  while the other partition keeps an item with an old one; three boots let a
  confirmation be interrupted and repeated.
* Models: a set that fills the table is the boundary case of `_load_model_info`;
  two commands let a failed load follow a complete one.
* Log: three slots are full with two logs, so every index wraps.
* Cameras: with five buffers (the number of the ToF solution) two cameras use
  four for their pages, so the interrupt takes images away from the threads at
  once; three frames fill both pages and one of them again.
* Endpoint: with three calls, two disconnections and a reset (345 000 states) the
  same properties hold.

The passing runs together take every action.

### The properties

Companion path:

* `Exclusive` - no image buffer in two places: two queues, two objects, two
  threads, or a queue and a thread. `Conserved` is the converse: every buffer is
  where its history says. It allows the buffers that are let go with an oversize
  image or at a disconnect; the latter is a leak of the code
  (`kdp2_usb_companion.c:321` jumps to `WAIT_FOR_CONNECTION` with `buf_addr` in
  hand, and nothing returns that buffer), not a freedom the model takes. It says
  nothing once an image was `torn` or a DMA armed `late`.
* `ResultExclusive` - the same for result buffers, with the holders.
* `DmaExclusive` - an armed DMA on an image buffer is the one the image thread took
  and waits for, whatever the endpoint's status says, until a DMA was armed
  `late`: a reset or disconnection between marking and arming leaves one armed on a
  buffer that the thread then gives back (section 5).
* `PutsNeverWait` - no `osWaitForever` put waits and no put with timeout 0 drops,
  unless an image was `torn` (an address 0 may then be put into a free queue) or a
  DMA armed `late`.
* `NoMissingImage` - the dispatcher never sees an object with an empty index,
  whatever is reset or dropped, as long as no image was `torn` and no DMA armed
  `late`. Without the first condition it is false (section 5).
  `OneInference` - the images of an object belong together; this one needs the
  absence of resets and disconnections.
* `ResultsInOrder` - results arrive in order and once even if the link drops, until
  a DMA was armed `late`: a buffer then keeps its old content while a receive into
  it seems to have ended, and the old inference is made again.
* `ServiceSpec` - refinement of `InferenceService`: what the host reads next is
  always the result that is due (order, one result per crop box).
  `ServiceFairSpec` - with liveness: every result that is due comes.

Endpoint: `DmaInCall` (the DMA is armed only for the call that goes on),
`OkIsMoved` (a call that returns ok has moved its data), `Usable` (between two
calls the endpoint is idle), `WokenByDrop` (a call that waits while the link is
down will be woken). Each holds except after an interference in one of the gaps
it names; these gaps are real and listed in section 5.

Runs: `RunsServed` is the refinement of `RunService`: no answer comes twice, too
early or out of order, until a run is answered with an error, a wait ends early or
a run takes the context of one that is not answered (`reused`). `ImageKept`: what
the NPU and the NCPU work on is not overwritten, also when contexts are reused.
`EveryRunAnswered`: every run is answered, unless one failed, a context was
reused, an event was dropped or a ready report was overlooked.

Models: `RunsRequestedModel`: a run uses the model of the set the host loaded
last, with its data, and writes its parallel output behind the models, whatever
was loaded, half loaded or updated before. `LoadedIsThere`: what is marked as
loaded is in memory. `HeapSound`, `ModelsApartFromHeap`: reserved blocks are
disjoint, and apart from the models once the host has moved the boundary.

Firmware: `OneConfirmed`, `ImageWriteSparesBoot`, `BootsComplete` say that the
choice of the next boot is consistent, never being written, and complete;
`UpdateKept` that sectors, partitions and flags together are an atomic update;
`EveryUpdateEnds` that boot and update end whatever the flash does.

Log and frequency: `WritersApart` (two writers of one or both processors never
overlap), `PrintsInOrder`, `EveryLogPrinted`; `SlowIsWatched` (a slow NPU has the
algorithm running), `SpeedComesBack`, `HeatSlowsDown`.

Cameras: `CameraBuffersApart` (every buffer in one place, so no camera writes to
an image that waits, is shown or inferred), `FramesInOrder` (each camera's images
and results come in the order of its frames, at most once), `BuffersReturn` (when
no thread or interrupt can do anything, which is what `CanWork` says, every buffer
is free or in a page: none waits for what another one holds).

### Fairness

* Companion path: weak fairness of each thread: the RTOS runs equal priorities
  round robin and the threads of higher priority block on queues. Strong fairness
  for taking `send_bulk_mutex` (an RTX mutex hands over in order of priority and
  arrival) and of the host: it configures the device, reads what is offered
  (weak), and finishes the images it has begun whenever the device lets it
  (strong, because a receive in between may be taken by a command). Disconnects,
  resets and new inferences are never forced to happen.
* Runs: weak fairness of the dispatcher, the callback thread and the interrupt
  handler, and of the NCPU, which ends what it works on and becomes ready again.
  It is not assumed that waits time out or that the NCPU is ever busy.
* Firmware: weak fairness of the boot and of an update that has begun: they are
  one sequential program. Nothing is assumed of power, of faults and of requests.
* Log: weak fairness of the logger and of a writer inside its call; the mutex is
  free again and again but `EveryLogPrinted` only needs that the holder goes on.
* Frequency: weak fairness of the interrupt, the monitor thread (it polls once a
  second) and of runs: without runs the frequency is never set at all.

## 4. Proofs

`tlapm` checks the theorems below for all values of the constants under the
assumptions named in the modules.

### The companion path (`SizesAssumption`, `HostAssumption`)

At least one buffer of each kind and queues with a slot for each buffer:
`MAX_IMAGE_COUNT`/`MAX_RESULT_COUNT` bound what the host may configure.

* `TypeCorrect`: `Spec => []TypeOK`. The types alone are not inductive: the
  sender must hold a result buffer, objects must not be empty, and buf_mgr must
  have a count when it enqueues. `Shapes` adds this; `Types == TypeOK /\ Shapes`
  is preserved group by group (interrupts, host, image thread, buf_mgr,
  dispatcher, result thread).
* `ImagesExclusive`: `Spec => []Exclusive`. The inductive invariant is `IInv`:
  the types; `Exclusive`; before the configuration no image buffer is owned by
  anyone (so filling the free queues cannot duplicate one); and a clean-up goes
  on to `wait` or `put`, never back into a receive (so a buffer that was let go
  is not taken up again). `AllInPlace` says that what stands in a structure is,
  by `owner`, at that structure's place, and once. A step moves the buffers of a
  set from one place to another (`MoveKeeps`), leaves the structures of all other
  places alone (`Others`), and only the two places need an argument: a queue that
  shrinks (`ObjectsTail`, `FlatTail`, `TempTail`) or grows (`ObjectsAppend`,
  `TempAppend`, `FreeOne`), or an index of `stored` that is replaced
  (`StorePlaced`).
* `ExclusiveWithoutDropping`: with `MaxDrop = 0` the race of `ImgRetry` cannot
  happen, so `AllInPlace` holds without condition: the race is the only way to
  break exclusivity, and the droppable mode the only way to the race.
* `ResultsExclusive`: `Spec => []ResultExclusive`, without any condition.
* `ReceivesExclusive`: with `MaxDrop = 0`, `Spec => []DmaExclusive`. Beyond
  `AllInPlace` it needs `Receiving`: unless a DMA was armed `late`, a DMA is armed
  only while the image thread waits with its endpoint marked, and then on that
  thread's buffer; every reset and every end of a transfer disarms it before the
  thread can be woken. The marking and the arming are steps of their own, so that
  the theorem says exactly which interleaving breaks it.
* `NoImageIsMissing`: `Spec => []NoMissingImage`, and
  `NoImageOfOneTransferIsMissing`: with `ImgChunks = 1` nothing is ever torn, so
  `Spec => [](~late => ObjectsComplete)`. The images between the host and the
  dispatcher stand in a line: the one buf_mgr took last (`received`), those in
  `tempQ`, the one whose header the image thread has (`HasHeader`, also while
  its first transfer has landed and nobody has looked yet), and the one the host
  sends. `LineInv`: each `Follows` the one before, that is, it is the first of
  an inference or the next of the same. Resets keep this because the line does
  not pass through the queues they empty; a failed transfer ends the inference
  on the host's side (`Fresh`), so what follows is a first image; and
  `ReceiveInv` and `LengthInv` say how many transfers of the current image the
  thread, its endpoint and the host agree on, so that a header is only read
  where one was sent. Hence buf_mgr stores the indices of an inference without a
  gap (`StoredInv`), and no complete object has an empty index (`NoNull`).
* `NoPutWaits`: `Spec => []PutsNeverWait`. While the race did not happen, no
  image was torn and no DMA armed late, the reserve buffer, which is not one of
  the queues', gets into none of them (`RealInv`: an image thread that uses it
  swaps it for another before it hands anything on). With `Exclusive` the first
  buffers of the objects of a queue are different configured ones (`Fewer`,
  `ObjectsFewer`: a pigeonhole over `FiniteSetTheorems`), and a thread that has
  one more in its hand leaves at least one slot (`RoomForImages`).
* `BuffersConserved`: `Spec => []Conserved`. `AllFound`: each buffer is found
  where its `owner` says. A step either moves one set of buffers to a place where
  they are then found, or leaves everything found where it was; a buffer is let
  go only by a thread that ends with an oversize image, or when the link went
  down (`NeverDown`). `PutsNeverWait` is needed here: a put with timeout 0 that
  found its queue full would lose its item.
* `ResultsComeInOrder`: `Spec => [](~raced /\ ~torn => ResultsInOrder)`. Ids
  grow with the time at which the host sends, and every header comes from it
  (`AllDated`). The headers in the buffers of each place are in the host's order
  (`TempOrder`, `MgrOrder`, `FrontOrder` for the image thread's own), and those
  of one place come after those of the next (`After`, `Covers`): the last
  stations are the object whose run is being prepared and the results that wait
  or were sent (`ObjectOrder`, `ResultOrder`). An object made of the images of
  two inferences, which drops can bring about, is the reason that its first
  image and its result are followed separately (`CompleteOrder`, `Precedes`).
  What makes it inductive is that nobody writes to a buffer that waits
  (`ContentStays`, from `Exclusive`, `RealInv` and `Receiving`, so until
  `late`). With no drops and images of one transfer neither condition is needed
  (`ResultsComeInOrderUndropped`).
* `InferencesAreWhole`: with `MaxReset = 0` and `MaxLink = 0`,
  `Spec => [](~raced => OneInference)`; `InferencesAreWholeUndropped`: with
  `MaxDrop = 0` as well, `Spec => []OneInference`. Both constants are needed:
  section 5 has the reset that mixes two inferences, and a disconnection between
  the two transfers of an image, configured again before the image thread looks,
  does the same (TLC finds it with `MaxLink = 1` and two inferences of two images
  in two transfers). `Steady` is what a host that does neither gets: no receive
  fails, and the host is in the middle of an image exactly when the image thread
  is. Then every image on the way is not merely later than the one before it, as
  above, but the very next one (`Just`), from the host to the thread
  (`FrontStrict`), through the temporary queue (`TempStrict`) and up to what
  buf_mgr has stored (`MgrStrict`), until a thread that ends with an oversize
  image cuts the line (`Goes`). A step of the front replaces what comes next by
  the same image or by another one in the same place (`Alike`, for the first image
  of an inference that the host has not yet begun).
* `ServiceImplemented`: with `MaxReset = 0`, `MaxDrop = 0` and `MaxLink = 0`,
  `Spec => ServiceSpec`: the four threads and their queues are one queue. Where
  `ResultsComeInOrder` shows that nothing overtakes, this shows that nothing is
  skipped either. `InferencesAreWhole` is carried on to the results: the objects
  that wait for the dispatcher are the inferences after the one it works on, one
  after the other (`ObjectChain`, `WorkChain`); every header on the way has the
  number of crop boxes the host asked for (`CropsRight`); and what the host has
  read, what the result thread holds and what waits for it form one chain from
  `<<1, 1>>`, in which each result is followed by the next crop box or the next
  inference, up to what the dispatcher makes next (`ResultChain`). No result is
  lost on its way, because the link never drops and so DATA_IN never stops
  (`SendSteady`), and no put fails (`PutsNeverWait`). Step by step, the beginning
  of an inference is `Ask`, the host's read of a result is `Answer`, and all else
  stutters.

### Models and heap

* `HeapIsSound`, `ModelsAreApart` and `ModelTypes` (`MaintenanceProofs`): for
  every alignment, heap, family of model sets and number of models, and every
  sequence of commands, runs, control transfers and reboots. `HeapInv` says that
  the tail is aligned and at or below every block; a block taken below the tail
  is disjoint from all others. `StoreInv` adds what the other variables owe it:
  a model table's end is a number, the tail the dispatcher has read is the tail
  unless `raced`, and after the host has moved the boundary it is not below the
  end of the models, so that what is reserved above the boundary is above them.
* `LoadedModelsAreThere` and `RunsTheRequested`: for the same. `LoadInv` ties the
  three stores of a set of models together. `TableInv`: a table with a source is
  complete for its set, and a mirror that counts as made selects its model with
  that model's buffer (while the table is not full: there the mirrors begin past
  its end, section 5). `LoadedInv`: what counts as loaded came from the flash
  that is still there, unless an update replaced it. `ReadyInv`: the set the host
  may use is the one in the table and in the DDR, and no load is half done.
  `RunInv`: the slot of a run on its way selects what was asked for; a run that
  begins establishes it from `TableInv` and `ReadyInv`, and no command comes in
  between.

### The run of a model

For every number of contexts above one (the code has 6), and every number of
result buffers, runs and upsets: `NcpuAssumption` does not relate them.

* `NcpuTypesHold`: `NcpuSpec => []NcpuTypeOK`. `TypesInv` adds that a run on its
  way exists in some context, and that a context that can be asked for was used.
* `NcpuServesRuns`: `NcpuSpec => RunsServed`, the refinement of `RunService`. The
  inductive invariant is `NcpuInv`: the types always; as long as no run failed and
  no wait ended early `MoveInv`, which follows a run through the NPU and the NCPU;
  and `OrderInv`, which follows the answers, as long as besides no context was
  reused. The centre of the latter is a window: the runs in
  parallel that are not answered are in the `live` contexts from
  `callback.index` up to `infIndex`, modulo `Contexts`, in the order they were
  handed in (`CountInv`, `WindowInv`). `DispInv` says which of the two settings
  and which context the dispatcher's run has, `StageInv` where this run is
  (triggered, in the NPU, behind it or reported), `FlightInv` that a run in
  post-processing or reported keeps its raw image, its context and the settings
  that name it, because the dispatcher only changes the other settings, and
  `DoneInv` that what is reported is complete. A step that moves no run keeps all
  of it (`QuietKeeps`). The beginning of a run maps to `HandIn`, the end of its
  post-processing to `Complete`, the return of a run that is not parallel and the
  result in the callback thread to `Answer`, a failed run and a wait that ends
  early to `Fail`, and every other step to a stutter. An event that was dropped
  gives no wrong answer, only none.
* `NcpuKeepsImages`: `NcpuSpec => []ImageKept`, from `FlightInv` and `StageInv`, so
  also after a context was reused: the dispatcher waits for the run in the NPU, and
  the one behind it has another context, there being more than one.

### Firmware (`DfuAssumption`)

`DfuTypes`, `DfuOneConfirmed`, `DfuSparesBoot`, `DfuBootsComplete`: for every
`MAX_BOOT_SEQ`, any number of updates, switches, faults and reboots. None of them
is inductive: while sectors are rewritten the flash is not sound. `DfuInv` says,
unless `cut`: outside the rewriting the configuration in the flash is sound (one
item confirmed, the other not) or blank; during it the copy in RAM is sound and
agrees with what is written already (`Rewritten`); and from the choice of a
partition to the end of the update the other partition stays confirmed
(`Target`). `ImageInv` says that what a configuration names holds a complete
image, step by step through the update.

`DfuImplements`: `DfuSpec => UpdateKept`, the refinement of `FirmwareUpdate` for
the NCPU. The configuration that counts is the one in the flash, or the one in
the RAM while sectors are rewritten (`Effective`); the image it names is the
current one, an image marked for its first boot the pending one. Two more
invariants are needed. `BootInv`: what the boot has established at each step
before the NCPU is started, above all that nothing is pending any more when it
is started and that `erase0` writes exactly the confirmed configuration.
`VersionInv`: an image being installed is newer than every other one. With them
`DfuRefines` maps every step: `erase0` to `Confirm` (the confirmation counts from
the moment it is begun; if it is cut off, the promise is withdrawn), the start of
the NCPU to `Start`, the end of the image's writing over a pending one, or else
the start of its configuration's writing, to `Install`, the start over a pending
image to `Withdraw`, a power loss to `PowerDown`, and every other step to a
stutter.

### Log, frequency, endpoint

* `LogWritersApart`: for every number of threads and slots. `ApartInv` is the
  argument of Peterson's algorithm with the mutex in front: who is inside holds
  the mutex or the turn.
* `LogTypes`, `LogPrintsInOrder`: for every number of threads, slots and logs. The
  logs between the two indices are in their slots, and the write index is that
  many slots behind the read index (`QueueInv`); an index past the end stands for
  the first slot, and only the one who advances it sees it there (`IndexInv`,
  with `ApartInv` for the writers).
* `DfsSlowIsWatched`: for every table of frequencies and every algorithm.
  `SlowInv` adds that a setting under way has the algorithm active.
* `EndpointTypes`, `EndpointUsable`, `EndpointDmaInCall`: for any number of
  calls, resets and disconnections. `EpInv` consists of the types; what the
  status says at each place of a call (`ResetInv`); when the event may be set
  (`EventInv`: only for a call that waits or has just been woken); and which call
  the DMA is armed for (`DmaInv`).
* `EndpointOkIsMoved`, `EndpointWokenByDrop`: for the same. `OrderInv`: the data
  of a call goes from the DMA to the FIFO to the host, once. `MovedInv`: unless
  somebody came into one of the gaps, a status `done` means that the data was
  moved, or for a send in its first round that it is in the FIFO. `DropInv`: a
  call nobody interfered with waits on a link that is up, or its errand is still
  to come.

### Cameras (`SizesAssumption`, `HicoAssumption`)

For every number of buffers and cameras, both builds, any number of frames,
START commands, disconnections and overflows, and every beginning of the two
counters.

* `EveryBufferInOnePlace`: `HicoSpec => []CameraBuffersApart`. `BufferInv` is
  inductive: the types (`TypesInv`, which has what an object of one buffer makes
  of buf_mgr, and that the pages of a running camera have buffers); `PlaceInv`,
  by which the sets of the places outside the camera side are what the history
  says, and those on the camera side (queue of images, pages, the command
  thread's two buffers, the image that is shown) share no buffer and together are
  what the history says; and `OnceInv`, that no queue and no two pages have a
  buffer twice. A step moves one buffer (`OutsideTo`, `InsideEnters`, `InsideFills`,
  `InsideLeaves`, `InsideStays`, `InsideQueues`); the interrupt moves two at once
  (`TakesToShow`, `SwapsToShow`, `TakesToInfer`), a START up to four. The count
  of the property follows from the places being disjoint (`CountsApart`).
* `FramesComeInOrder`: `HicoSpec => []FramesInOrder`. Until a running camera is
  started again, `OrderInv` says that the frame an interrupt reports is the latest
  of its camera (`LatestInv`); that the images on the way to the host and to the
  dispatcher stand in the order of their frames, within each queue and from one
  place to the next (`LineInv`), and come after everything that was sent
  (`SentInv`); and that the camera a START is about to set up has nothing to
  report (`StartInv`). Two facts carry it: a frame is only ever written to a page,
  which by `BufferInv` is no place of the line (`FrameEndsOrder`), and the image
  the interrupt hands on is later than all others of its camera, so that it may
  enter the line at any queue that nothing of its camera has passed. That is why
  the ToF build, whose interrupt puts images straight into buf_mgr's queue, needs
  its queue of images to be empty.
* `NoThreadWaitsForAnother`: with two image buffers for each camera (the solutions
  have 10 for two cameras and 5 for one sensor), `HicoSpec => []BuffersReturn`.
  `CanWork` lists the guards of the threads and interrupts (in the instance of
  `maintenance` TLC finds it true exactly where `ENABLED HicoWork` is, which the
  prover cannot express).
  A thread that holds an image buffer finds a slot for it (`RoomForImage`, a
  pigeonhole over `BufferInv`), so none of them waits to put one. `ResultInv` says
  where each result buffer is (and that no full queue drops one): a dispatcher
  without a result buffer waits for the result thread, which always goes on, or
  for buffers the ToF job lost. `StandInv` says that the thread that returned
  took a buffer along, and that a camera that was never started has no page. So
  the command thread, which waits for two free buffers while it holds at most
  one, would have to wait although the other cameras have too few pages for all
  the rest (`CommandIdle`).

### Only model-checked

All liveness, `ServiceFairSpec` among it: fairness and ENABLED are out of reach of
the prover, and so is induction over data.

## 5. What the checks found

Each of these is a `violation` run whose trace TLC prints; the quoted promises
are in `PROJECT.json`.

1. `reset_mixes` - `clean_queues` does not reach the images in `_temp_image_queue`
   and in `stored_bobj`/`num_received_img`. After a FIFOQ_RESET they become part of
   the next inference of several images.
2. `drop_race` - the retry loop of the droppable mode reads `_enable_inf_droppable`
   again after the call. Switched off in between (by the host's request, or by
   FIFOQ_RESET), the thread receives into its previous buffer, which is by then
   queued for inference.
3. `reset_lost` - a FIFOQ_RESET while the image thread is not inside a receive only
   sets a flag that is looked at after a failed receive; no receive fails, so the
   queues are not cleaned.
4. `send_stuck` - the clean-up of a reset terminates DATA_IN. When the interrupt
   has just marked the transfer done and the result thread has not run yet,
   `reset_endpoint` turns `DONE` into `READY_IDLE`; the result thread, woken,
   matches no case of its loop, waits a second time for an event nobody sets, and
   keeps `send_bulk_mutex`.
5. `command_twice` - a receive that failed because the link dropped, followed by a
   new configuration before the thread reads the link status, falls through to the
   parser; the command still in the buffer runs again.
6. `result_lost` - two results of parallel runs are there when the callback thread
   looks: `osEventFlagsWait` returns both flags and clears the awaited one, the
   comparison with that one fails, and the first result is dropped in the branch
   commented "should not be here" (`kmdw_inference_720.c:182`).

Seen while modelling; the models contain these cases, and the properties above
name them as exceptions or history variables where they would break them.

Companion path and driver:

* The buffer leak at a disconnect (section 3).
* A host that leaves a result unread for three seconds stops the result thread for
  good (`kdrv_usbd3.c:2214`-`2218`, compiled in by the define in line 3), while
  the caller asks for a "blocking wait" (`kdp2_usb_companion.c:461`): `SendHangs`.
* Both sides of the `or` in `kdp2_usb_companion.c:382` compare with the command
  magic, so the header of a new image in the middle of another goes unnoticed.
  A reset between two transfers of an image makes that happen: the host gives the
  image up, the device, which only looks at `_do_reset_queue` after a failed
  receive, goes on and takes the first transfer of the next image for the rest of
  the old one. What follows are later transfers without a header (`torn`), which
  are discarded one by one. One such reset loses images; after two an object with
  its first image missing waits for the dispatcher, which reads its address 0 (TLC
  finds it without any DMA armed late, in 100 states and a minute, when `reset`
  has `MaxReset = 2`, `MaxReq = 3`, `MaxSent = 3`, `MaxDrop = 0`, `Totals = {2, 3}`
  and 6 image buffers and the search is limited to states in which the dispatcher
  waits). This is why the properties of the companion path say `~torn`.
* A reset or a disconnection between the marking of the status and the arming of
  the DMA (`kdrv_usbd3.c:2064`-`2075`, without a lock) leaves the DMA armed on a
  buffer that is returned: `late` in `UsbCompanion`, window `arming` in
  `UsbEndpoint`. What the host sends next lands in that buffer, wherever it is by
  then, and its interrupt wakes a receive into another one. An interrupt between a
  timeout and the halting leaves an event that ends the next call at once, with an
  error, and the endpoint busy (`woken`). A reset between the end of a send's
  DMA and its second wait makes the call return ok though the data was thrown
  away (`ending`). The errand between wake-up and second wait leaves a send
  waiting.
* An image whose header announces no images at all is refused by
  `kmdw_fifoq_manager_image_enqueue` (`kmdw_fifoq_manager.c:113`); the image thread
  ignores that (`kdp2_usb_companion.c:408`) and its buffer is lost. The model's host
  announces at least one.
* `GET_STATUS` answers through `cx_data` and writes its 0 where the previous
  control transfer pointed it (`kdrv_usbd3.c:1176`; control transfers are not
  modelled).

Runs:

* Nothing keeps `g_inf_index` from coming round to a context that is not answered
  (`kmdw_inference_720.c:385`-`387`) when there are more result buffers than the
  six contexts: the end of the older run is then handed on as the newer one's, and
  the older one is never answered (`reused`).
* A parallel run that is refused or times out is answered twice, by the caller
  with the error and by the callback thread (`kmdw_inference_720.c:383`).
* A ready report that comes with a log request, or before the handler clears the
  interrupt, is overlooked: `bDSPBusy` stays set and every later run waits
  (`ReadyOverlooked`). A ToF answer posted in the same gap is found only when the
  wait times out.

Models and heap:

* With exactly `KMDW_MODEL_MAX_MODEL_COUNT` models the outputs of parallel runs
  are not set (`kmdw_model.c:235`).
* A refresh never reloads what is marked as loaded: after a model update without a
  reboot `load_model(-1)` skips models whose data the update has overwritten.
* The model table is replaced before the data arrives; a failed transfer leaves a
  table for data that is not there.
* `kmdw_ddr_reserve` reads, compares and writes the tail without a lock, from
  threads and from interrupt context.

Firmware:

* A second update without a reboot, followed by a power loss while the image is
  written, boots a torn image: the item says FIRST_BOOT already (`Exposed`).
* The NCPU's image is confirmed before the NCPU has run.
* Creating a configuration because one processor's is missing rewrites both
  processors' items.
* `kmdw_dfu_update_scpu` returns success unless `memcmp` returns -1; the success
  paths never re-enable the UART and NPU interrupts (`kmdw_dfu.c:288`); an erased
  sector reads as confirmed (`kmdw_dfu.h:88`).

Log and frequency: the test for a full queue stands outside the mutex, so that
two threads overrun the last slot, and the index may be seen one too far
(`broken`); the interrupt between the tests and the setting of a run leaves the
NPU slow (`raced`).

Cameras:

* A START for a running camera overwrites its page registers: two buffers are lost
  per camera, and the frame in progress is handed on in a buffer it is not in;
  after a few STARTs the command thread waits for ever for a free buffer.
* The MIPI thread that sends images back returns for good after the first failed
  send, with its buffer (`kdp2_hico_mipi.c:412`).
* A ToF image that cannot be decoded (`kdp2_inf_app_tof.c:523`) or whose run fails
  (`:275`) keeps its result buffer; after five the dispatcher waits for ever.
* An overflow that is signalled together with the end of its frame delivers the
  spoiled frame: the end is handled first (`kdrv_dpi2ahb.c:307`, `:339`).
* The command thread spins while the link is down; `kdrv_dpi2ahb_start` enables
  the interrupt before it sets the callback; FIFOQ_RESET does nothing in these
  solutions ("FIXME").

Read, not modelled: `kdrv_gdma_memcpy` with a callback releases its channel while
the transfer runs; the UVC frame list is filled without a lock against its
interrupt; a synchronous UART read enables the receive interrupt that competes
with its own polling.

## 6. What is left

* `UsbEndpoint` as an implementation of the endpoint steps of `UsbCompanion`,
  outside its three windows; control transfers with `cx_data`.
* The camera interrupt with a thread inside `kmdw_fifoq_manager_image_enqueue`
  for objects of several images (these solutions only have one).
* The GDMA channel allocation and the UVC frame list, if a solution of this
  repository comes to use them from several threads.
