------------------------------- MODULE NcpuIpc ------------------------------
(***************************************************************************)
(* Running a model on the second processor (NCPU) and its accelerator      *)
(* (NPU): the image settings and the run of mdw/model/kmdw_model.c, the    *)
(* interrupt of mdw/ipc/kmdw_ipc.c, and the dispatcher and result callback *)
(* threads of mdw/inference/kmdw_inference_720.c.                          *)
(*                                                                         *)
(* A run in parallel returns to the dispatcher when the NPU is done; the   *)
(* NCPU post-processes its output while the NPU works on the next run, and *)
(* the callback thread sends the result.  Any other run returns with its   *)
(* result.  Both processors communicate by flags in shared memory and one  *)
(* interrupt.                                                              *)
(*                                                                         *)
(* Simplifications: run r is the r-th one; a result buffer is free again   *)
(* once its result is sent; a standalone function of the NCPU is ToF       *)
(* decoding.  The SCPU has one core: no thread runs while its interrupt    *)
(* handler does; the NCPU goes on.                                         *)
(***************************************************************************)
EXTENDS Integers, Sequences

CONSTANTS
  Contexts,   (* MAX_OUTPUT_CONTEXT_NUM, 6: with one context the images    *)
              (* of two runs in a row would share it                       *)
  Buffers,    (* result buffers                                            *)
  MaxRuns,    (* bound: runs                                               *)
  MaxUpsets   (* bound, all together: waits that end before the NCPU       *)
              (* answers, log requests and busy times of the NCPU,         *)
              (* standalone functions, runs that kmdw_model_run refuses    *)

ASSUME NcpuAssumption ==
  /\ Contexts \in Nat /\ Contexts > 1 /\ Buffers \in Nat \ {0}
  /\ {MaxRuns, MaxUpsets} \subseteq Nat

Ctx    == 0 .. Contexts - 1
None   == -1
Events == {"NPU", "NCPU"}      \* FLAG_KMDW_MODEL_FROM_NPU, ..._FROM_NCPU
Idles  == [raw |-> 0, run |-> 0]
Work   == [raw : Ctx, run : 1 .. MaxRuns]

VARIABLES
  imgs,       \* s_img_data: result flag, caller_e, evt_caller
  curIdx,     \* s_current_ipc_idx
  nxtIdx,     \* s_next_ipc_idx
  raws,       \* raw_images of the shared memory: ref_idx, parallel, run
  busy,       \* bDSPBusy
  comm,       \* the NCPU's part of the shared memory
  command,    \* out_comm_p->cmd, until the NCPU takes it
  irq,        \* the NCPU's interrupt is pending
  handler,    \* the interrupt handler: "off", or it is about to "look" or to "leave"
  ncpu,       \* external: what the NPU and the NCPU work on

  context,    \* g_result_ctx: the run whose result buffer it holds
  infIndex,   \* g_inf_index
  numInf,     \* g_num_parallel_inf
  numRes,     \* g_num_parallel_result
  resultEvt,  \* g_result_event
  aloneEvt,   \* tof_dec_evt_id
  dispatcher, \* the dispatcher: where it stands, its run and what it waits for
  callback    \* the callback thread: next context, timeouts, alive

VARIABLES
  runs,       \* history: the runs, in parallel or not
  done,       \* history: the runs whose output is complete
  answers,    \* history: the result buffers sent, in order
  failed,     \* history: the runs the application was told of an error
  late,       \* history: a wait ended before the NCPU answered
  reused,     \* history: a run took the context of one that is not answered
  lost,       \* history: a result event was cleared and not handled
  upsets      \* how many of the bounded things happened

scpuVars   == <<imgs, curIdx, nxtIdx, raws, context, infIndex, numInf>>
threadVars == <<dispatcher, callback, numRes>>
ncpuMem    == <<comm, irq, ncpu>>
intVars    == <<handler, busy>>
runHistory == <<runs, done, answers, failed, late, reused, lost>>
ncpuVars   == <<scpuVars, threadVars, ncpuMem, intVars, command, resultEvt, aloneEvt,
                runHistory, upsets>>

Idle == [at |-> "idle", run |-> 0, parallel |-> FALSE]

NcpuInit ==
  /\ imgs = [i \in {0, 1} |-> [result |-> None, caller |-> "NCPU", evt |-> {}]]
  /\ curIdx = 0 /\ nxtIdx = 0
  /\ raws = [c \in Ctx |-> [ref |-> 0, parallel |-> FALSE, run |-> 0]]
  /\ busy = FALSE
  /\ comm = [ready |-> TRUE, result |-> Idles, type |-> "postproc", pending |-> FALSE,
             req |-> FALSE, log |-> FALSE]
  /\ command = "none"
  /\ irq = FALSE /\ handler = "off"
  /\ ncpu = [npu |-> Idles, post |-> Idles, alone |-> FALSE, raw |-> 0]
  /\ context = [c \in Ctx |-> 0]
  /\ infIndex = 0 /\ numInf = 0 /\ numRes = 0
  /\ resultEvt = {} /\ aloneEvt = FALSE
  /\ dispatcher = Idle
  /\ callback = [index |-> 0, timeouts |-> 0, alive |-> TRUE]
  /\ runs = <<>> /\ done = {} /\ answers = <<>> /\ failed = {}
  /\ late = FALSE /\ reused = FALSE /\ lost = FALSE
  /\ upsets = 0

-----------------------------------------------------------------------------
(* The dispatcher.                                                         *)

Outstanding == {r \in DOMAIN runs : \A i \in DOMAIN answers : answers[i] # r}

(* One of the bounded things happens.                                      *)
Upset == upsets < MaxUpsets /\ upsets' = upsets + 1

(* The application sends the result buffer of run r.                       *)
Send(r) == answers' = Append(answers, r)

(* kmdw_inference_app_execute, with kmdw_model_config_img: the raw image   *)
(* refers to the settings the NPU or the NCPU does not use.                *)
Begin(par) ==
  LET r == Len(runs) + 1
  IN /\ dispatcher.at = "idle"
     /\ r <= MaxRuns
     /\ Len(runs) - Len(answers) < Buffers
     /\ runs' = Append(runs, par)
     /\ dispatcher' = [at |-> "configured", run |-> r, parallel |-> par]
     /\ curIdx' = nxtIdx
     /\ nxtIdx' = IF par THEN 1 - nxtIdx ELSE nxtIdx
     /\ raws' = [raws EXCEPT ![infIndex] = [ref |-> nxtIdx, parallel |-> par, run |-> r]]
     /\ UNCHANGED <<imgs, context, infIndex, numInf, callback, numRes, ncpuMem, intVars, command,
                    resultEvt, aloneEvt, done, answers, failed, late, reused, lost, upsets>>

NextIndex_unwrapped == infIndex + 1  \* mutant: the index does not wrap

NextIndex_same == infIndex  \* mutant: every parallel run uses the first context

NextIndex == (infIndex + 1) % Contexts

Result_kept(par) ==  \* mutant: the result event of an earlier parallel run stays
  IF par THEN infIndex ELSE imgs[curIdx].result

(* kmdw_model_config_result: the result event, or none.                    *)
Result(par) == IF par THEN infIndex ELSE None

(* The rest of it, and kmdw_model_run up to the trigger.  The model is     *)
(* there, or (changed meanwhile, no memory) it is not and the application  *)
(* sends the error.                                                        *)
Configure ==
  LET r == dispatcher.run
      par == dispatcher.parallel
      set == [imgs EXCEPT ![curIdx].result = Result(par)]
  IN /\ dispatcher.at = "configured"
     /\ IF par THEN /\ context' = [context EXCEPT ![infIndex] = r]
                    /\ reused' = (reused \/ context[infIndex] \in Outstanding)
                    /\ numInf' = numInf + 1
                    /\ infIndex' = NextIndex
               ELSE UNCHANGED <<context, reused, numInf, infIndex>>
     /\ \/ /\ dispatcher' = [dispatcher EXCEPT !.at = "trigger"]
           /\ imgs' = [set EXCEPT ![curIdx].caller = IF par THEN "NPU" ELSE "NCPU"]
           /\ UNCHANGED <<answers, failed, upsets>>
        \/ /\ Upset
           /\ imgs' = set
           /\ Send(r) /\ failed' = failed \cup {r}
           /\ dispatcher' = Idle
     /\ UNCHANGED <<curIdx, nxtIdx, raws, callback, numRes, ncpuMem, intVars, command, resultEvt,
                    aloneEvt, runs, done, late, lost>>

(* kmdw_ipc_trigger_int, which waits while the NCPU is busy.               *)
Trigger ==
  /\ dispatcher.at = "trigger" /\ ~busy
  /\ dispatcher' = [dispatcher EXCEPT !.at = "wait"]
  /\ command' = "run"
  /\ ncpu' = [ncpu EXCEPT !.raw = (CHOOSE c \in Ctx : raws[c].run = dispatcher.run)]
  /\ UNCHANGED <<scpuVars, callback, numRes, comm, irq, intVars, resultEvt, aloneEvt,
                 runHistory, upsets>>

Awaited == IF dispatcher.parallel THEN "NPU" ELSE "NCPU"

(* The awaited event: the other answers come from the callback thread.     *)
RunReturns ==
  /\ dispatcher.at = "wait"
  /\ Awaited \in imgs[curIdx].evt
  /\ imgs' = [imgs EXCEPT ![curIdx].evt = @ \ {Awaited}]
  /\ IF dispatcher.parallel THEN UNCHANGED answers ELSE Send(dispatcher.run)
  /\ dispatcher' = Idle
  /\ UNCHANGED <<curIdx, nxtIdx, raws, context, infIndex, numInf, callback, numRes, ncpuMem,
                 intVars, command, resultEvt, aloneEvt, runs, done, failed, late, reused, lost, upsets>>

(* Two seconds pass (bounded): the application sends the error itself.     *)
RunTimeout ==
  /\ dispatcher.at = "wait"
  /\ Awaited \notin imgs[curIdx].evt
  /\ Upset
  /\ Send(dispatcher.run) /\ failed' = failed \cup {dispatcher.run}
  /\ late' = TRUE
  /\ dispatcher' = Idle
  /\ UNCHANGED <<scpuVars, callback, numRes, ncpuMem, intVars, command, resultEvt, aloneEvt,
                 runs, done, reused, lost>>

(* kmdw_tof_decode, in the dispatcher; it waits for 30 seconds.            *)
BeginAlone ==
  /\ dispatcher.at = "idle"
  /\ Upset
  /\ dispatcher' = [Idle EXCEPT !.at = "triggerAlone"]
  /\ UNCHANGED <<scpuVars, callback, numRes, ncpuMem, intVars, command, resultEvt, aloneEvt,
                 runHistory>>

TriggerAlone ==
  /\ dispatcher.at = "triggerAlone" /\ ~busy
  /\ dispatcher' = [dispatcher EXCEPT !.at = "waitAlone"]
  /\ comm' = [comm EXCEPT !.req = FALSE]
  /\ command' = "alone"
  /\ UNCHANGED <<scpuVars, callback, numRes, irq, ncpu, intVars, resultEvt, aloneEvt,
                 runHistory, upsets>>

(* The event, or 30 seconds: more than the NCPU needs, unless its answer   *)
(* was overlooked.                                                         *)
AloneOverlooked == comm.pending /\ comm.type = "alone" /\ ~irq

AloneReturns ==
  /\ dispatcher.at = "waitAlone"
  /\ aloneEvt \/ AloneOverlooked
  /\ late' = (late \/ ~aloneEvt)
  /\ aloneEvt' = FALSE
  /\ dispatcher' = Idle
  /\ UNCHANGED <<scpuVars, callback, numRes, ncpuMem, intVars, command, resultEvt, runs, done,
                 answers, failed, reused, lost, upsets>>

-----------------------------------------------------------------------------
(* NCPU_IRQHandler with _ipc_handler.                                      *)

(* A result first, then the request for the next image.                    *)
AfterResult ==
  LET i == raws[comm.result.raw].ref
  IN IF ~comm.pending THEN [imgs |-> imgs, result |-> resultEvt, alone |-> aloneEvt]
     ELSE IF comm.type = "alone" THEN [imgs |-> imgs, result |-> resultEvt, alone |-> TRUE]
     ELSE IF imgs[i].result # None
     THEN [imgs |-> imgs, result |-> resultEvt \cup {imgs[i].result}, alone |-> aloneEvt]
     ELSE [imgs |-> [imgs EXCEPT ![i].evt = @ \cup {imgs[i].caller}], result |-> resultEvt,
           alone |-> aloneEvt]

HandleFlags ==
  LET s == AfterResult
  IN /\ imgs' = IF comm.req THEN [s.imgs EXCEPT ![curIdx].evt = @ \cup {s.imgs[curIdx].caller}]
                ELSE s.imgs
     /\ resultEvt' = s.result
     /\ aloneEvt' = s.alone
     /\ comm' = [comm EXCEPT !.pending = FALSE, !.req = FALSE]

(* A request to print the log, or a state other than READY, ends the       *)
(* interrupt; then only results of models are looked at again.             *)
Enter ==
  /\ handler = "off" /\ irq
  /\ busy' = IF comm.log THEN busy ELSE ~comm.ready
  /\ handler' = IF comm.log \/ ~comm.ready THEN "leave" ELSE "look"
  /\ comm' = [comm EXCEPT !.log = FALSE]
  /\ UNCHANGED <<irq, imgs, resultEvt, aloneEvt>>

Look ==
  /\ handler = "look"
  /\ HandleFlags
  /\ handler' = "leave"
  /\ UNCHANGED <<irq, busy>>

LookAgain_never == FALSE  \* mutant: the handler ends without looking again

LookAgain == (comm.pending \/ comm.req) /\ comm.type = "postproc"

Leave ==
  /\ handler = "leave"
  /\ irq' = FALSE
  /\ handler' = IF LookAgain THEN "look" ELSE "off"
  /\ UNCHANGED <<busy, comm, imgs, resultEvt, aloneEvt>>

NCPU_IRQHandler ==
  /\ Enter \/ Look \/ Leave
  /\ UNCHANGED <<curIdx, nxtIdx, raws, context, infIndex, numInf, threadVars, ncpu, command,
                 runHistory, upsets>>

-----------------------------------------------------------------------------
(* kmdw_inference_result_handler_callback_thread.                          *)

CallbackResult ==
  /\ callback.alive
  /\ resultEvt = {callback.index}
  /\ resultEvt' = {}
  /\ Send(context[callback.index])
  /\ numRes' = numRes + 1
  /\ callback' = [callback EXCEPT !.index = (@ + 1) % Contexts, !.timeouts = 0]
  /\ UNCHANGED <<scpuVars, dispatcher, ncpuMem, intVars, command, aloneEvt, runs, done, failed,
                 late, reused, lost, upsets>>

(* osEventFlagsWait returns all flags that are set but clears only the     *)
(* awaited one: with another result there too, the comparison fails.       *)
CallbackOverlooks ==
  /\ callback.alive
  /\ callback.index \in resultEvt /\ resultEvt # {callback.index}
  /\ resultEvt' = resultEvt \ {callback.index}
  /\ lost' = TRUE
  /\ UNCHANGED <<scpuVars, threadVars, ncpuMem, intVars, command, aloneEvt, runs, done, answers,
                 failed, late, reused, upsets>>

(* No result for two seconds: the first time this may be counted shortly   *)
(* after a run began; the second time the NCPU is slow or has nothing to   *)
(* do.  Then the thread ends.                                              *)
Silent == ncpu.npu = Idles /\ ncpu.post = Idles /\ command # "run" /\ ~comm.pending /\ ~irq
            /\ dispatcher.at = "idle"

CallbackTimeout ==
  /\ callback.alive
  /\ callback.index \notin resultEvt
  /\ numInf > numRes
  /\ \/ callback.timeouts = 0 /\ UNCHANGED <<upsets, late>>
     \/ callback.timeouts = 1 /\ Silent /\ UNCHANGED <<upsets, late>>
     \/ callback.timeouts = 1 /\ Upset /\ late' = TRUE
  /\ IF callback.timeouts = 0
     THEN callback' = [callback EXCEPT !.timeouts = 1] /\ UNCHANGED <<answers, failed>>
     ELSE /\ callback' = [callback EXCEPT !.alive = FALSE]
          /\ Send(context[callback.index])
          /\ failed' = failed \cup {context[callback.index]}
  /\ UNCHANGED <<scpuVars, dispatcher, numRes, ncpuMem, intVars, command, resultEvt, aloneEvt,
                 runs, done, reused, lost>>

-----------------------------------------------------------------------------
(* External: the NCPU's firmware, of which the repository has the binary.  *)
(* It post-processes one run at a time, raises the interrupt when the NPU  *)
(* is free again (in parallel) and when a result is there, and does not    *)
(* overwrite a result that is not handled.                                 *)

NcpuTakes ==
  \/ /\ command = "run" /\ ncpu.npu = Idles /\ ~ncpu.alone
     /\ command' = "none"
     /\ ncpu' = [ncpu EXCEPT !.npu = [raw |-> ncpu.raw, run |-> raws[ncpu.raw].run]]
  \/ /\ command = "alone" /\ ncpu.npu = Idles /\ ncpu.post = Idles
     /\ command' = "none"
     /\ ncpu' = [ncpu EXCEPT !.alone = TRUE]

NpuDone ==
  /\ ncpu.npu # Idles /\ ncpu.post = Idles
  /\ ncpu' = [ncpu EXCEPT !.npu = Idles, !.post = ncpu.npu]
  /\ IF raws[ncpu.npu.raw].parallel
     THEN comm' = [comm EXCEPT !.req = TRUE] /\ irq' = TRUE
     ELSE UNCHANGED <<comm, irq>>
  /\ UNCHANGED <<command, done>>

PostDone ==
  /\ ncpu.post # Idles /\ ~comm.pending
  /\ comm' = [comm EXCEPT !.result = ncpu.post, !.type = "postproc", !.pending = TRUE]
  /\ done' = done \cup {ncpu.post.run}
  /\ ncpu' = [ncpu EXCEPT !.post = Idles]
  /\ irq' = TRUE
  /\ UNCHANGED command

AloneDone ==
  /\ ncpu.alone /\ ~comm.pending
  /\ comm' = [comm EXCEPT !.type = "alone", !.pending = TRUE]
  /\ ncpu' = [ncpu EXCEPT !.alone = FALSE]
  /\ irq' = TRUE
  /\ UNCHANGED <<command, done>>

NcpuWork ==
  /\ \/ NcpuTakes /\ UNCHANGED <<comm, irq, done>>
     \/ NpuDone \/ PostDone \/ AloneDone
  /\ UNCHANGED <<scpuVars, threadVars, intVars, resultEvt, aloneEvt, runs, answers, failed,
                 late, reused, lost, upsets>>

(* The NCPU asks to print its log, or becomes busy, or ready again.        *)
NcpuReady ==
  /\ ~comm.ready /\ comm' = [comm EXCEPT !.ready = TRUE] /\ irq' = TRUE
  /\ UNCHANGED <<scpuVars, threadVars, ncpu, intVars, command, resultEvt, aloneEvt, runHistory,
                 upsets>>

NcpuNoise ==
  /\ Upset
  /\ comm' \in {[comm EXCEPT !.log = TRUE], [comm EXCEPT !.ready = FALSE]}
  /\ irq' = TRUE
  /\ UNCHANGED <<scpuVars, threadVars, ncpu, intVars, command, resultEvt, aloneEvt, runHistory>>

-----------------------------------------------------------------------------
(* The threads' steps: none while the interrupt handler runs.              *)
Dispatch ==
  handler = "off" /\ (Configure \/ Trigger \/ RunReturns \/ TriggerAlone \/ AloneReturns)

Receive == handler = "off" /\ (CallbackResult \/ CallbackOverlooks)

NcpuNext ==
  \/ Dispatch \/ Receive \/ NCPU_IRQHandler
  \/ /\ handler = "off"
     /\ (\E par \in BOOLEAN : Begin(par)) \/ BeginAlone \/ RunTimeout \/ CallbackTimeout
  \/ NcpuWork \/ NcpuReady \/ NcpuNoise

NcpuSpec == NcpuInit /\ [][NcpuNext]_ncpuVars

(* The scheduler gives every ready thread its turn, an interrupt is taken, *)
(* and the NCPU answers.                                                   *)
NcpuFairSpec ==
  /\ NcpuSpec
  /\ WF_ncpuVars(Dispatch) /\ WF_ncpuVars(NCPU_IRQHandler) /\ WF_ncpuVars(Receive)
  /\ WF_ncpuVars(NcpuWork) /\ WF_ncpuVars(NcpuReady)

-----------------------------------------------------------------------------
(* Properties.                                                             *)

NcpuTypeOK ==
  /\ imgs \in [{0, 1} -> [result : Ctx \cup {None}, caller : Events, evt : SUBSET Events]]
  /\ curIdx \in {0, 1} /\ nxtIdx \in {0, 1}
  /\ raws \in [Ctx -> [ref : {0, 1}, parallel : BOOLEAN, run : 0 .. MaxRuns]]
  /\ comm \in [ready : BOOLEAN, result : Work \cup {Idles}, type : {"postproc", "alone"},
               pending : BOOLEAN, req : BOOLEAN, log : BOOLEAN]
  /\ command \in {"none", "run", "alone"}
  /\ ncpu \in [npu : Work \cup {Idles}, post : Work \cup {Idles}, alone : BOOLEAN, raw : Ctx]
  /\ context \in [Ctx -> 0 .. MaxRuns]
  /\ infIndex \in Ctx /\ numInf \in 0 .. MaxRuns /\ numRes \in Nat
  /\ resultEvt \subseteq Ctx
  /\ handler \in {"off", "look", "leave"}
  /\ {busy, irq, aloneEvt, late, reused, lost} \subseteq BOOLEAN
  /\ dispatcher \in [at : {"idle", "configured", "trigger", "wait", "triggerAlone", "waitAlone"},
                     run : 0 .. MaxRuns, parallel : BOOLEAN]
  /\ callback \in [index : Ctx, timeouts : {0, 1}, alive : BOOLEAN]
  /\ upsets \in 0 .. MaxUpsets
  /\ runs \in Seq(BOOLEAN) /\ answers \in Seq(1 .. MaxRuns)
  /\ done \cup failed \subseteq 1 .. MaxRuns

(* RunService: one answer to each run, not before its output is complete,  *)
(* and in order, until a run is answered with an error, a wait ends early  *)
(* or g_inf_index comes round to the context of a run that is not answered *)
(* (more result buffers than contexts, and a callback thread that is       *)
(* behind); a result event that is lost gives no early or wrong answer.    *)
(* The interrupt may report a result and the NPU's end at once, in the     *)
(* middle of the dispatcher's settings for the next run.                   *)
Service == INSTANCE RunService WITH
             runs <- runs, done <- done, answers <- answers,
             trusted <- failed = {} /\ ~late /\ ~reused

RunsServed == Service!Init /\ [][Service!Next]_(Service!serviceVars)

(* The NPU and the NCPU work on different runs, and the dispatcher waits   *)
(* for the run in the NPU: no image is overwritten while it is worked on,  *)
(* also when a run takes the context of one that is not answered.          *)
ImageKept ==
  ~late /\ failed = {} => \A w \in {ncpu.npu, ncpu.post} : w # Idles => raws[w.raw].run = w.run

(* The interrupt that says the NCPU is ready again can be overlooked: with *)
(* a request for the log, or when it comes before the handler clears it.   *)
ReadyOverlooked == busy /\ comm.ready /\ ~irq /\ handler = "off"

(* Every run is answered: the waits of the dispatcher, for the NCPU to be  *)
(* ready and for its answer, all end, and so does the callback thread's,   *)
(* unless a run failed, its event was lost, a context was taken before its *)
(* run was answered or the NCPU's readiness was overlooked.                *)
EveryRunAnswered ==
  \A r \in 1 .. MaxRuns :
    Len(runs) >= r ~> (r \notin Outstanding \/ failed # {} \/ late \/ reused \/ lost
                        \/ ReadyOverlooked)

(* kmdw_inference_720.c:182, "should not be here": the callback thread is   *)
(* never woken with another flag than the one it waits for.  It is: a      *)
(* result that arrives together with the next one is dropped.              *)
NoStrayFlags == ~lost

=============================================================================
