----------------------------- MODULE NcpuProofs -----------------------------
(***************************************************************************)
(* Proofs about NcpuIpc, for every number of buffers and runs and every    *)
(* number of contexts above one:                                           *)
(* its types, that no raw image is overwritten while it is worked on, and  *)
(* that the two processors implement RunService.                           *)
(*                                                                         *)
(* TypesInv holds in every state.  MoveInv, which follows a run through    *)
(* the NPU and the NCPU, holds while no run failed and no wait ended       *)
(* early: an answer that comes after its wait finds the settings of        *)
(* another run.  OrderInv, which follows the answers of the callback       *)
(* thread, holds as long as besides no run takes the context of one that   *)
(* is not answered.                                                        *)
(***************************************************************************)
EXTENDS NcpuIpc, SequenceTheorems, TLAPS

(* The dispatcher has a run.                                               *)
Active == dispatcher.at \in {"configured", "trigger", "wait"}

ImgTypes ==
  /\ imgs \in [{0, 1} -> [result : Ctx \cup {None}, caller : Events, evt : SUBSET Events]]
  /\ curIdx \in {0, 1} /\ nxtIdx \in {0, 1}
RawTypes ==
  /\ raws \in [Ctx -> [ref : {0, 1}, parallel : BOOLEAN, run : 0 .. MaxRuns]]
  /\ context \in [Ctx -> 0 .. MaxRuns]
  /\ infIndex \in Ctx /\ numInf \in 0 .. MaxRuns /\ numRes \in Nat
CommTypes ==
  /\ comm \in [ready : BOOLEAN, result : Work \cup {Idles}, type : {"postproc", "alone"},
               pending : BOOLEAN, req : BOOLEAN, log : BOOLEAN]
  /\ command \in {"none", "run", "alone"}
  /\ ncpu \in [npu : Work \cup {Idles}, post : Work \cup {Idles}, alone : BOOLEAN, raw : Ctx]
  /\ resultEvt \subseteq Ctx
  /\ handler \in {"off", "look", "leave"}
FlagTypes == {busy, irq, aloneEvt, late, reused, lost} \subseteq BOOLEAN
ThreadTypes ==
  /\ dispatcher \in [at : {"idle", "configured", "trigger", "wait", "triggerAlone", "waitAlone"},
                     run : 0 .. MaxRuns, parallel : BOOLEAN]
  /\ callback \in [index : Ctx, timeouts : {0, 1}, alive : BOOLEAN]
HistoryTypes ==
  /\ upsets \in 0 .. MaxUpsets
  /\ runs \in Seq(BOOLEAN) /\ answers \in Seq(1 .. MaxRuns)
  /\ done \subseteq 1 .. MaxRuns /\ failed \subseteq 1 .. MaxRuns

(* The run of the dispatcher is the last one, and every run is bounded.    *)
RunTypes ==
  /\ Len(runs) <= MaxRuns
  /\ numInf <= Len(runs)
  /\ dispatcher.at = "configured" => numInf < Len(runs)
  /\ Active => dispatcher.run = Len(runs) /\ dispatcher.run >= 1
  /\ dispatcher.at \in {"configured", "trigger"} => \E c \in Ctx : raws[c].run = dispatcher.run
  /\ command = "run" => raws[ncpu.raw].run >= 1

(* A context that was used holds a run.                                    *)
ContextTypes ==
  /\ infIndex = numInf \/ numInf >= Contexts
  /\ callback.index <= numRes
  /\ \A c \in Ctx : c < numInf => context[c] # 0
  /\ \A i \in {0, 1} : imgs[i].result # None => context[imgs[i].result] # 0
  /\ \A c \in resultEvt : context[c] # 0

TypesInv ==
  /\ ImgTypes /\ RawTypes /\ CommTypes /\ FlagTypes /\ ThreadTypes /\ HistoryTypes
  /\ RunTypes /\ ContextTypes

LEMMA TypesGive == TypesInv => NcpuTypeOK
BY DEF TypesInv, ImgTypes, RawTypes, CommTypes, FlagTypes, ThreadTypes, HistoryTypes, NcpuTypeOK

LEMMA Bounds ==
  /\ Contexts \in Nat /\ Contexts > 1 /\ Buffers \in Nat /\ Buffers > 0
  /\ MaxRuns \in Nat /\ MaxUpsets \in Nat
  /\ 0 \in Ctx /\ None \notin Ctx
  /\ \A c \in Ctx : c \in Int /\ 0 <= c /\ c < Contexts
BY NcpuAssumption DEF Ctx, None

LEMMA Wraps ==
  ASSUME NEW c \in Ctx
  PROVE  (c + 1) % Contexts = (IF c + 1 = Contexts THEN 0 ELSE c + 1) /\ (c + 1) % Contexts \in Ctx
<1>1. c \in Nat /\ c < Contexts /\ Contexts \in Nat /\ Contexts > 0
  BY Bounds DEF Ctx
<1> QED BY <1>1, SMT DEF Ctx

LEMMA SendType ==
  ASSUME HistoryTypes, NEW r \in 1 .. MaxRuns, Send(r)
  PROVE  answers' \in Seq(1 .. MaxRuns) /\ Len(answers') = Len(answers) + 1
BY DEF HistoryTypes, Send

-----------------------------------------------------------------------------
(* Types: the dispatcher.                                                  *)

LEMMA TypesBegin == NcpuInit => TypesInv
<1> SUFFICES ASSUME NcpuInit PROVE TypesInv
  OBVIOUS
<1>1. ImgTypes
  BY Bounds DEF NcpuInit, ImgTypes, Events
<1>2. RawTypes
  BY Bounds DEF NcpuInit, RawTypes
<1>3. CommTypes
  BY Bounds DEF NcpuInit, CommTypes, Idles
<1>4. FlagTypes
  BY DEF NcpuInit, FlagTypes
<1>5. ThreadTypes
  BY Bounds DEF NcpuInit, ThreadTypes, Idle
<1>6. HistoryTypes
  BY Bounds DEF NcpuInit, HistoryTypes
<1>7. RunTypes
  BY Bounds DEF NcpuInit, RunTypes, Active, Idle
<1>8. ContextTypes
  BY Bounds DEF NcpuInit, ContextTypes
<1> QED BY <1>1, <1>2, <1>3, <1>4, <1>5, <1>6, <1>7, <1>8 DEF TypesInv

LEMMA BeginTypes ==
  ASSUME TypesInv, NEW par \in BOOLEAN, Begin(par)
  PROVE  TypesInv'
<1> DEFINE r == Len(runs) + 1
           new == [ref |-> nxtIdx, parallel |-> par, run |-> r]
<1>1. /\ dispatcher.at = "idle" /\ r <= MaxRuns
      /\ runs' = Append(runs, par)
      /\ dispatcher' = [at |-> "configured", run |-> r, parallel |-> par]
      /\ curIdx' = nxtIdx /\ nxtIdx' = IF par THEN 1 - nxtIdx ELSE nxtIdx
      /\ raws' = [raws EXCEPT ![infIndex] = new]
      /\ UNCHANGED <<imgs, context, infIndex, numInf, callback, numRes, ncpuMem, intVars, command,
                    resultEvt, aloneEvt, done, answers, failed, late, reused, lost, upsets>>
  BY DEF Begin
<1>2. r \in 1 .. MaxRuns /\ Len(runs) \in Nat /\ Len(runs') = r /\ runs' \in Seq(BOOLEAN)
  BY <1>1, Bounds DEF TypesInv, HistoryTypes
<1>3. ImgTypes'
  BY <1>1 DEF TypesInv, ImgTypes
<1>4. RawTypes'
  <2>1. new \in [ref : {0, 1}, parallel : BOOLEAN, run : 0 .. MaxRuns]
    BY <1>2, Bounds DEF TypesInv, ImgTypes
  <2> HIDE DEF new
  <2> QED BY <1>1, <2>1 DEF TypesInv, RawTypes
<1>5. CommTypes' /\ FlagTypes' /\ ContextTypes'
  BY <1>1 DEF TypesInv, CommTypes, FlagTypes, ContextTypes, ncpuMem, intVars
<1>6. ThreadTypes'
  BY <1>1, <1>2, Bounds DEF TypesInv, ThreadTypes
<1>7. HistoryTypes'
  BY <1>1, <1>2 DEF TypesInv, HistoryTypes
<1>8. RunTypes'
  <2>1. \A c \in Ctx : raws'[c].run = IF c = infIndex THEN r ELSE raws[c].run
    BY <1>1 DEF TypesInv, RawTypes
  <2>2. infIndex \in Ctx /\ numInf \in Nat /\ numInf <= Len(runs) /\ ncpu.raw \in Ctx
    BY DEF TypesInv, RawTypes, RunTypes, CommTypes
  <2>3. /\ dispatcher'.at = "configured" /\ dispatcher'.run = r /\ r >= 1
        /\ UNCHANGED <<numInf, command, ncpu>>
    BY <1>1, <1>2 DEF ncpuMem
  <2>4. command = "run" => raws'[ncpu.raw].run >= 1
    BY <1>2, <2>1, <2>2 DEF TypesInv, RunTypes
  <2>5. \E c \in Ctx : raws'[c].run = dispatcher'.run
    BY <2>1, <2>2, <2>3
  <2> HIDE DEF r
  <2> QED BY <1>1, <1>2, <2>2, <2>3, <2>4, <2>5 DEF RunTypes, Active
<1> QED BY <1>3, <1>4, <1>5, <1>6, <1>7, <1>8 DEF TypesInv

LEMMA NextIndexFacts ==
  ASSUME infIndex \in Ctx
  PROVE  NextIndex = (IF infIndex + 1 = Contexts THEN 0 ELSE infIndex + 1) /\ NextIndex \in Ctx
BY Wraps DEF NextIndex

LEMMA ConfigureTypes ==
  ASSUME TypesInv, Configure
  PROVE  TypesInv'
<1> DEFINE r == dispatcher.run
           par == dispatcher.parallel
           set == [imgs EXCEPT ![curIdx].result = Result(par)]
<1>1. /\ dispatcher.at = "configured"
      /\ IF par THEN /\ context' = [context EXCEPT ![infIndex] = r]
                     /\ reused' = (reused \/ context[infIndex] \in Outstanding)
                     /\ numInf' = numInf + 1
                     /\ infIndex' = NextIndex
                ELSE UNCHANGED <<context, reused, numInf, infIndex>>
      /\ \/ /\ dispatcher' = [dispatcher EXCEPT !.at = "trigger"]
            /\ imgs' = [set EXCEPT ![curIdx].caller = IF par THEN "NPU" ELSE "NCPU"]
            /\ UNCHANGED <<answers, failed, upsets>>
         \/ /\ Upset
            /\ imgs' = set
            /\ Send(r) /\ failed' = failed \cup {r}
            /\ dispatcher' = Idle
      /\ UNCHANGED <<curIdx, nxtIdx, raws, callback, numRes, ncpuMem, intVars, command, resultEvt,
                    aloneEvt, runs, done, late, lost>>
  BY DEF Configure
<1>2. /\ r \in 1 .. MaxRuns /\ r = Len(runs) /\ numInf \in Nat /\ numInf < Len(runs)
      /\ Len(runs) <= MaxRuns /\ Len(runs) \in Nat /\ par \in BOOLEAN
      /\ infIndex \in Ctx /\ curIdx \in {0, 1} /\ infIndex \in Nat
      /\ \E c \in Ctx : raws[c].run = r
  BY <1>1, Bounds DEF TypesInv, ThreadTypes, HistoryTypes, RunTypes, RawTypes, ImgTypes, Active, Ctx
<1>3. NextIndex = (IF infIndex + 1 = Contexts THEN 0 ELSE infIndex + 1) /\ NextIndex \in Ctx
  BY <1>2, NextIndexFacts
<1>4. Result(par) \in Ctx \cup {None} /\ (Result(par) # None => par /\ Result(par) = infIndex)
  BY <1>2 DEF Result
<1>5. /\ set \in [{0, 1} -> [result : Ctx \cup {None}, caller : Events, evt : SUBSET Events]]
      /\ \A i \in {0, 1} : set[i].result = IF i = curIdx THEN Result(par) ELSE imgs[i].result
  BY <1>2, <1>4 DEF TypesInv, ImgTypes
<1>6. /\ imgs' \in [{0, 1} -> [result : Ctx \cup {None}, caller : Events, evt : SUBSET Events]]
      /\ \A i \in {0, 1} : imgs'[i].result = IF i = curIdx THEN Result(par) ELSE imgs[i].result
  <2>1. CASE imgs' = set
    BY <1>5, <2>1
  <2>2. CASE imgs' = [set EXCEPT ![curIdx].caller = IF par THEN "NPU" ELSE "NCPU"]
    <3> HIDE DEF set, par
    <3>1. (IF par THEN "NPU" ELSE "NCPU") \in Events
      BY DEF Events
    <3> QED BY <1>2, <1>5, <2>2, <3>1
  <2> QED BY <1>1, <2>1, <2>2
<1>7. ImgTypes'
  BY <1>1, <1>6 DEF TypesInv, ImgTypes
<1>8. /\ context' \in [Ctx -> 0 .. MaxRuns] /\ infIndex' \in Ctx
      /\ numInf' \in 0 .. MaxRuns /\ numInf' <= Len(runs)
      /\ numInf' = numInf + 1 \/ UNCHANGED <<numInf, infIndex, context>>
  <2>1. CASE par
    <3>1. context' = [context EXCEPT ![infIndex] = r] /\ numInf' = numInf + 1 /\ infIndex' = NextIndex
      BY <1>1, <2>1
    <3>2. r \in 0 .. MaxRuns
      BY <1>2, Bounds
    <3>3. context' \in [Ctx -> 0 .. MaxRuns]
      <4> HIDE DEF r
      <4> QED BY <3>1, <3>2 DEF TypesInv, RawTypes
    <3> QED BY <1>2, <1>3, <3>1, <3>3, Bounds
  <2>2. CASE ~par
    BY <1>1, <1>2, <2>2 DEF TypesInv, RawTypes
  <2> QED BY <2>1, <2>2
<1>9. RawTypes'
  BY <1>1, <1>8 DEF TypesInv, RawTypes
<1>10. CommTypes' /\ FlagTypes'
  <2>1. CommTypes'
    BY <1>1 DEF TypesInv, CommTypes, ncpuMem, intVars
  <2>2. reused' \in BOOLEAN
    <3>1. CASE par
      <4> DEFINE x == context[infIndex] \in Outstanding
      <4>1. reused' = (reused \/ x)
        BY <1>1, <3>1
      <4> HIDE DEF x
      <4> QED BY <4>1
    <3>2. CASE ~par
      BY <1>1, <3>2 DEF TypesInv, FlagTypes
    <3> QED BY <3>1, <3>2
  <2> QED BY <1>1, <2>1, <2>2 DEF TypesInv, FlagTypes, ncpuMem, intVars
<1>11. /\ dispatcher' \in [at : {"idle", "configured", "trigger", "wait", "triggerAlone", "waitAlone"},
                          run : 0 .. MaxRuns, parallel : BOOLEAN]
       /\ dispatcher'.at = "idle" \/ (dispatcher'.at = "trigger" /\ dispatcher'.run = r)
  <2>1. CASE dispatcher' = Idle
    BY <2>1, Bounds DEF Idle
  <2>2. CASE dispatcher' = [dispatcher EXCEPT !.at = "trigger"]
    BY <2>2 DEF TypesInv, ThreadTypes
  <2> QED BY <1>1, <2>1, <2>2
<1>12. ThreadTypes'
  BY <1>1, <1>11 DEF TypesInv, ThreadTypes
<1>13. HistoryTypes'
  <2>1. answers' \in Seq(1 .. MaxRuns) /\ failed' \subseteq 1 .. MaxRuns
    BY <1>1, <1>2, SendType DEF TypesInv, HistoryTypes
  <2>2. upsets' \in 0 .. MaxUpsets
    BY <1>1, Bounds DEF TypesInv, HistoryTypes, Upset
  <2> QED BY <1>1, <2>1, <2>2 DEF TypesInv, HistoryTypes
<1>14. RunTypes'
  BY <1>1, <1>2, <1>8, <1>11 DEF TypesInv, RunTypes, Active, ncpuMem
<1>15. ContextTypes'
  <2>1. \A c \in Ctx : context'[c] # context[c] => c = infIndex /\ context'[c] = r /\ par
    BY <1>1, <1>2 DEF TypesInv, RawTypes
  <2>9. r # 0
    <3> HIDE DEF r
    <3> QED BY <1>2
  <2>2. \A c \in Ctx : context[c] # 0 => context'[c] # 0
    <3> HIDE DEF r
    <3> QED BY <2>1, <2>9
  <2>3. par => context'[infIndex] # 0
    BY <1>1, <1>2 DEF TypesInv, RawTypes
  <2>4. infIndex' = numInf' \/ numInf' >= Contexts
    <3>1. CASE par
      BY <1>1, <1>2, <1>3, <3>1, Bounds DEF TypesInv, ContextTypes
    <3>2. CASE ~par
      BY <1>1, <3>2 DEF TypesInv, ContextTypes
    <3> QED BY <3>1, <3>2
  <2>5. ASSUME NEW c \in Ctx, c < numInf' PROVE context'[c] # 0
    <3>1. CASE c < numInf
      BY <2>2, <3>1 DEF TypesInv, ContextTypes
    <3>2. CASE ~(c < numInf)
      <4>1. par /\ c = numInf
        BY <1>1, <1>2, <2>5, <3>2, Bounds
      <4>2. c = infIndex
        BY <1>2, <4>1, Bounds DEF TypesInv, ContextTypes
      <4> QED BY <2>3, <4>1, <4>2
    <3> QED BY <3>1, <3>2
  <2>6. ASSUME NEW i \in {0, 1}, imgs'[i].result # None PROVE context'[imgs'[i].result] # 0
    <3>1. CASE i = curIdx
      BY <1>4, <1>6, <2>3, <2>6, <3>1
    <3>2. CASE i # curIdx
      <4>1. imgs'[i].result = imgs[i].result /\ imgs[i].result \in Ctx
        BY <1>6, <2>6, <3>2
      <4> QED BY <2>2, <2>6, <4>1 DEF TypesInv, ContextTypes
    <3> QED BY <3>1, <3>2
  <2>7. \A c \in resultEvt' : context'[c] # 0
    BY <1>1, <2>2 DEF TypesInv, ContextTypes, CommTypes
  <2>8. callback' = callback /\ numRes' = numRes
    BY <1>1
  <2> QED BY <2>4, <2>5, <2>6, <2>7, <2>8 DEF TypesInv, ContextTypes
<1> QED BY <1>7, <1>9, <1>10, <1>12, <1>13, <1>14, <1>15 DEF TypesInv

LEMMA TriggerTypes ==
  ASSUME TypesInv, Trigger
  PROVE  TypesInv'
<1> DEFINE c == CHOOSE c \in Ctx : raws[c].run = dispatcher.run
<1>1. /\ dispatcher.at = "trigger"
      /\ dispatcher' = [dispatcher EXCEPT !.at = "wait"]
      /\ command' = "run" /\ ncpu' = [ncpu EXCEPT !.raw = c]
      /\ UNCHANGED <<scpuVars, callback, numRes, comm, irq, intVars, resultEvt, aloneEvt, runHistory,
                     upsets>>
  BY DEF Trigger
<1>2. c \in Ctx /\ raws[c].run = dispatcher.run /\ dispatcher.run >= 1
  BY <1>1 DEF TypesInv, RunTypes, Active
<1> HIDE DEF c
<1>3. ImgTypes' /\ RawTypes' /\ FlagTypes' /\ HistoryTypes' /\ ContextTypes'
  BY <1>1 DEF TypesInv, ImgTypes, RawTypes, FlagTypes, HistoryTypes, ContextTypes, scpuVars, intVars,
              runHistory
<1>4. CommTypes' /\ ncpu'.raw = c
  BY <1>1, <1>2 DEF TypesInv, CommTypes, intVars
<1>5. ThreadTypes' /\ dispatcher'.at = "wait" /\ dispatcher'.run = dispatcher.run
  BY <1>1 DEF TypesInv, ThreadTypes
<1>6. RunTypes'
  BY <1>1, <1>2, <1>4, <1>5 DEF TypesInv, RunTypes, Active, scpuVars, runHistory
<1> QED BY <1>3, <1>4, <1>5, <1>6 DEF TypesInv

(* A wait of the dispatcher that ends, with an answer or an error.         *)
LEMMA ReturnTypes ==
  ASSUME TypesInv, RunReturns \/ RunTimeout
  PROVE  TypesInv'
<1>1. /\ dispatcher.at = "wait" /\ dispatcher' = Idle
      /\ \/ imgs' = [imgs EXCEPT ![curIdx].evt = @ \ {Awaited}]
         \/ UNCHANGED imgs
      /\ UNCHANGED answers \/ Send(dispatcher.run)
      /\ failed' \in {failed, failed \cup {dispatcher.run}}
      /\ UNCHANGED late \/ late' = TRUE
      /\ UNCHANGED upsets \/ Upset
      /\ UNCHANGED <<curIdx, nxtIdx, raws, context, infIndex, numInf, callback, numRes, ncpuMem, intVars,
                     command, resultEvt, aloneEvt, runs, done, reused, lost>>
  BY DEF RunReturns, RunTimeout, scpuVars
<1>2. dispatcher.run \in 1 .. MaxRuns
  BY <1>1 DEF TypesInv, ThreadTypes, RunTypes, Active
<1>3. ImgTypes' /\ \A i \in {0, 1} : imgs'[i].result = imgs[i].result
  BY <1>1 DEF TypesInv, ImgTypes
<1>4. RawTypes' /\ CommTypes' /\ FlagTypes'
  <2>1. RawTypes' /\ CommTypes'
    BY <1>1 DEF TypesInv, RawTypes, CommTypes, ncpuMem, intVars
  <2>2. late' \in BOOLEAN
    BY <1>1 DEF TypesInv, FlagTypes
  <2>3. FlagTypes'
    BY <1>1, <2>2 DEF TypesInv, FlagTypes, ncpuMem, intVars
  <2> QED BY <2>1, <2>3
<1>5. ThreadTypes' /\ dispatcher'.at = "idle"
  BY <1>1, Bounds DEF TypesInv, ThreadTypes, Idle
<1>6. HistoryTypes'
  <2>1. answers' \in Seq(1 .. MaxRuns) /\ failed' \subseteq 1 .. MaxRuns /\ upsets' \in 0 .. MaxUpsets
    BY <1>1, <1>2, SendType, Bounds DEF TypesInv, HistoryTypes, Upset
  <2> QED BY <1>1, <2>1 DEF TypesInv, HistoryTypes
<1>7. RunTypes'
  BY <1>1, <1>5 DEF TypesInv, RunTypes, Active, ncpuMem
<1>8. ContextTypes'
  BY <1>1, <1>3 DEF TypesInv, ContextTypes
<1> QED BY <1>3, <1>4, <1>5, <1>6, <1>7, <1>8 DEF TypesInv

(* Standalone functions.                                                   *)
LEMMA AloneTypes ==
  ASSUME TypesInv, BeginAlone \/ TriggerAlone \/ AloneReturns
  PROVE  TypesInv'
<1>1. /\ dispatcher.at \in {"idle", "triggerAlone", "waitAlone"}
      /\ UNCHANGED <<scpuVars, callback, numRes, irq, ncpu, intVars, resultEvt, runs, done, answers,
                     failed, reused, lost>>
      /\ UNCHANGED upsets \/ Upset
      /\ UNCHANGED comm \/ comm' = [comm EXCEPT !.req = FALSE]
      /\ UNCHANGED command \/ command' = "alone"
      /\ late' \in BOOLEAN /\ aloneEvt' \in BOOLEAN
  BY DEF BeginAlone, TriggerAlone, AloneReturns, ncpuMem, runHistory, TypesInv, FlagTypes
<1>2. ThreadTypes' /\ dispatcher'.at \in {"triggerAlone", "waitAlone", "idle"}
  <2>1. CASE dispatcher' = Idle
    BY <1>1, <2>1, Bounds DEF TypesInv, ThreadTypes, Idle
  <2>3. CASE dispatcher' = [Idle EXCEPT !.at = "triggerAlone"]
    <3>1. dispatcher' = [at |-> "triggerAlone", run |-> 0, parallel |-> FALSE]
      BY <2>3 DEF Idle
    <3> QED BY <1>1, <3>1, Bounds DEF TypesInv, ThreadTypes
  <2>2. CASE dispatcher' = [dispatcher EXCEPT !.at = "waitAlone"]
    BY <1>1, <2>2 DEF TypesInv, ThreadTypes
  <2> QED BY <2>1, <2>2, <2>3 DEF BeginAlone, TriggerAlone, AloneReturns
<1>3. ImgTypes' /\ RawTypes' /\ FlagTypes' /\ ContextTypes'
  BY <1>1 DEF TypesInv, ImgTypes, RawTypes, FlagTypes, ContextTypes, scpuVars, intVars
<1>4. CommTypes'
  BY <1>1 DEF TypesInv, CommTypes, intVars
<1>5. HistoryTypes'
  BY <1>1, Bounds DEF TypesInv, HistoryTypes, Upset
<1>6. RunTypes'
  BY <1>1, <1>2 DEF TypesInv, RunTypes, Active, scpuVars
<1> QED BY <1>2, <1>3, <1>4, <1>5, <1>6 DEF TypesInv

-----------------------------------------------------------------------------
(* Types: the interrupt, the callback thread and the NCPU.                 *)

LEMMA EnterLeaveTypes ==
  ASSUME TypesInv, NCPU_IRQHandler, Enter \/ Leave
  PROVE  TypesInv'
<1>1. /\ UNCHANGED <<imgs, resultEvt, aloneEvt, curIdx, nxtIdx, raws, context, infIndex, numInf,
                     threadVars, ncpu, command, runHistory, upsets>>
      /\ UNCHANGED comm \/ comm' = [comm EXCEPT !.log = FALSE]
      /\ handler' \in {"off", "look", "leave"}
      /\ irq' \in BOOLEAN
  BY DEF NCPU_IRQHandler, Enter, Leave, TypesInv, FlagTypes
<1>2. busy' \in BOOLEAN
  <2>1. comm.ready \in BOOLEAN /\ busy \in BOOLEAN
    BY DEF TypesInv, CommTypes, FlagTypes
  <2> QED BY <2>1 DEF Enter, Leave
<1>3. ImgTypes' /\ RawTypes' /\ ThreadTypes' /\ HistoryTypes' /\ RunTypes' /\ ContextTypes'
  BY <1>1 DEF TypesInv, ImgTypes, RawTypes, ThreadTypes, HistoryTypes, RunTypes, ContextTypes,
              threadVars, runHistory, Active
<1>4. CommTypes'
  BY <1>1 DEF TypesInv, CommTypes
<1>5. FlagTypes'
  BY <1>1, <1>2 DEF TypesInv, FlagTypes, runHistory
<1> QED BY <1>3, <1>4, <1>5 DEF TypesInv

LEMMA AfterResultFacts ==
  ASSUME TypesInv
  PROVE  /\ AfterResult.imgs \in
              [{0, 1} -> [result : Ctx \cup {None}, caller : Events, evt : SUBSET Events]]
         /\ AfterResult.result \subseteq Ctx /\ AfterResult.alone \in BOOLEAN
         /\ \A i \in {0, 1} : AfterResult.imgs[i].result = imgs[i].result
         /\ \A c \in AfterResult.result : context[c] # 0
<1> DEFINE i == raws[comm.result.raw].ref
<1>1. comm.result.raw \in Ctx
  BY Bounds DEF TypesInv, CommTypes, Work, Idles
<1>2. i \in {0, 1}
  BY <1>1 DEF TypesInv, RawTypes
<1>3. /\ imgs \in [{0, 1} -> [result : Ctx \cup {None}, caller : Events, evt : SUBSET Events]]
      /\ resultEvt \subseteq Ctx /\ aloneEvt \in BOOLEAN
      /\ \A c \in resultEvt : context[c] # 0
      /\ \A k \in {0, 1} : imgs[k].result # None => context[imgs[k].result] # 0
  BY DEF TypesInv, ImgTypes, CommTypes, FlagTypes, ContextTypes
<1>4. AfterResult =
        IF ~comm.pending THEN [imgs |-> imgs, result |-> resultEvt, alone |-> aloneEvt]
        ELSE IF comm.type = "alone" THEN [imgs |-> imgs, result |-> resultEvt, alone |-> TRUE]
        ELSE IF imgs[i].result # None
        THEN [imgs |-> imgs, result |-> resultEvt \cup {imgs[i].result}, alone |-> aloneEvt]
        ELSE [imgs |-> [imgs EXCEPT ![i].evt = @ \cup {imgs[i].caller}], result |-> resultEvt,
              alone |-> aloneEvt]
  BY DEF AfterResult
<1> HIDE DEF i
<1>5. CASE ~comm.pending \/ comm.type = "alone"
  BY <1>3, <1>4, <1>5
<1>6. CASE comm.pending /\ comm.type # "alone" /\ imgs[i].result # None
  <2>1. AfterResult = [imgs |-> imgs, result |-> resultEvt \cup {imgs[i].result}, alone |-> aloneEvt]
    BY <1>4, <1>6
  <2>2. imgs[i].result \in Ctx /\ context[imgs[i].result] # 0
    BY <1>2, <1>3, <1>6
  <2> QED BY <1>3, <2>1, <2>2
<1>7. CASE comm.pending /\ comm.type # "alone" /\ imgs[i].result = None
  <2> DEFINE new == [imgs EXCEPT ![i].evt = @ \cup {imgs[i].caller}]
  <2>1. AfterResult = [imgs |-> new, result |-> resultEvt, alone |-> aloneEvt]
    BY <1>4, <1>7
  <2>2. /\ new \in [{0, 1} -> [result : Ctx \cup {None}, caller : Events, evt : SUBSET Events]]
        /\ \A k \in {0, 1} : new[k].result = imgs[k].result
    BY <1>2, <1>3
  <2> HIDE DEF new
  <2> QED BY <1>3, <2>1, <2>2
<1> QED BY <1>5, <1>6, <1>7

LEMMA LookTypes ==
  ASSUME TypesInv, NCPU_IRQHandler, Look
  PROVE  TypesInv'
<1> DEFINE s == AfterResult
<1>1. /\ imgs' = IF comm.req THEN [s.imgs EXCEPT ![curIdx].evt = @ \cup {s.imgs[curIdx].caller}]
                 ELSE s.imgs
      /\ resultEvt' = s.result /\ aloneEvt' = s.alone
      /\ comm' = [comm EXCEPT !.pending = FALSE, !.req = FALSE]
      /\ handler' = "leave"
      /\ UNCHANGED <<irq, busy, curIdx, nxtIdx, raws, context, infIndex, numInf, threadVars, ncpu,
                     command, runHistory, upsets>>
  BY DEF NCPU_IRQHandler, Look, HandleFlags
<1>2. /\ s.imgs \in [{0, 1} -> [result : Ctx \cup {None}, caller : Events, evt : SUBSET Events]]
      /\ s.result \subseteq Ctx /\ s.alone \in BOOLEAN
      /\ \A i \in {0, 1} : s.imgs[i].result = imgs[i].result
      /\ \A c \in s.result : context[c] # 0
  BY AfterResultFacts
<1> HIDE DEF s
<1>3. /\ imgs' \in [{0, 1} -> [result : Ctx \cup {None}, caller : Events, evt : SUBSET Events]]
      /\ \A i \in {0, 1} : imgs'[i].result = imgs[i].result
  <2>1. curIdx \in {0, 1}
    BY DEF TypesInv, ImgTypes
  <2> QED BY <1>1, <1>2, <2>1
<1>4. comm' \in [ready : BOOLEAN, result : Work \cup {Idles}, type : {"postproc", "alone"},
                 pending : BOOLEAN, req : BOOLEAN, log : BOOLEAN]
  BY <1>1 DEF TypesInv, CommTypes
<1>5. ImgTypes' /\ RawTypes' /\ ThreadTypes' /\ HistoryTypes' /\ RunTypes'
  BY <1>1, <1>3 DEF TypesInv, ImgTypes, RawTypes, ThreadTypes, HistoryTypes, RunTypes,
              threadVars, runHistory, Active
<1>6. ContextTypes'
  BY <1>1, <1>2, <1>3 DEF TypesInv, ContextTypes, threadVars
<1>7. CommTypes'
  BY <1>1, <1>2, <1>4 DEF TypesInv, CommTypes
<1>8. FlagTypes'
  BY <1>1, <1>2 DEF TypesInv, FlagTypes, runHistory
<1> QED BY <1>5, <1>6, <1>7, <1>8 DEF TypesInv

LEMMA CallbackResultTypes ==
  ASSUME TypesInv, CallbackResult
  PROVE  TypesInv'
<1>1. /\ resultEvt = {callback.index} /\ resultEvt' = {}
      /\ Send(context[callback.index])
      /\ numRes' = numRes + 1
      /\ callback' = [callback EXCEPT !.index = (@ + 1) % Contexts, !.timeouts = 0]
      /\ UNCHANGED <<scpuVars, dispatcher, ncpuMem, intVars, command, aloneEvt, runs, done, failed, late,
                     reused, lost, upsets>>
  BY DEF CallbackResult
<1>2. /\ callback.index \in Ctx /\ context[callback.index] \in 1 .. MaxRuns
      /\ callback.index <= numRes /\ numRes \in Nat
  BY <1>1, Bounds DEF TypesInv, ThreadTypes, RawTypes, ContextTypes
<1>3. answers' \in Seq(1 .. MaxRuns)
  BY <1>1, <1>2, SendType DEF TypesInv
<1> DEFINE next == (callback.index + 1) % Contexts
<1>4. next \in Ctx /\ next <= numRes + 1
  BY <1>2, Wraps, Bounds
<1>5. callback' \in [index : Ctx, timeouts : {0, 1}, alive : BOOLEAN] /\ callback'.index = next
  <2>1. callback' = [callback EXCEPT !.index = next, !.timeouts = 0]
    BY <1>1 DEF TypesInv, ThreadTypes
  <2> HIDE DEF next
  <2> QED BY <1>4, <2>1 DEF TypesInv, ThreadTypes
<1> HIDE DEF next
<1>6. ImgTypes' /\ RawTypes' /\ FlagTypes'
  BY <1>1, <1>2 DEF TypesInv, ImgTypes, RawTypes, FlagTypes, scpuVars, ncpuMem, intVars
<1>7. CommTypes'
  BY <1>1 DEF TypesInv, CommTypes, ncpuMem, intVars
<1>8. ThreadTypes' /\ HistoryTypes' /\ RunTypes'
  BY <1>1, <1>3, <1>5 DEF TypesInv, ThreadTypes, HistoryTypes, RunTypes, scpuVars, ncpuMem, Active
<1>9. ContextTypes'
  BY <1>1, <1>4, <1>5 DEF TypesInv, ContextTypes, scpuVars
<1> QED BY <1>6, <1>7, <1>8, <1>9 DEF TypesInv

LEMMA CallbackOtherTypes ==
  ASSUME TypesInv, CallbackOverlooks \/ CallbackTimeout
  PROVE  TypesInv'
<1>1. /\ resultEvt' \subseteq resultEvt
      /\ UNCHANGED callback \/ callback' = [callback EXCEPT !.timeouts = 1]
           \/ callback' = [callback EXCEPT !.alive = FALSE]
      /\ UNCHANGED upsets \/ Upset
      /\ UNCHANGED late \/ late' = TRUE
      /\ UNCHANGED lost \/ lost' = TRUE
      /\ UNCHANGED <<scpuVars, dispatcher, numRes, ncpuMem, intVars, command, aloneEvt, runs, done,
                     reused>>
  BY DEF CallbackOverlooks, CallbackTimeout, threadVars
<1>2. answers' \in Seq(1 .. MaxRuns) /\ failed' \subseteq 1 .. MaxRuns
  <2>1. CASE UNCHANGED <<answers, failed>>
    BY <2>1 DEF TypesInv, HistoryTypes
  <2>2. CASE numInf > numRes /\ Send(context[callback.index])
               /\ failed' = failed \cup {context[callback.index]}
    <3>1. /\ callback.index \in Ctx /\ callback.index <= numRes /\ numRes \in Nat /\ numInf \in Nat
          /\ context[callback.index] \in 0 .. MaxRuns
      BY Bounds DEF TypesInv, ThreadTypes, ContextTypes, RawTypes
    <3>2. callback.index < numInf
      BY <2>2, <3>1, Bounds
    <3>3. context[callback.index] \in 1 .. MaxRuns
      BY <3>1, <3>2, Bounds DEF TypesInv, ContextTypes
    <3> QED BY <2>2, <3>3, SendType DEF TypesInv, HistoryTypes
  <2> QED BY <2>1, <2>2 DEF CallbackOverlooks, CallbackTimeout
<1>3. ImgTypes' /\ RawTypes'
  BY <1>1 DEF TypesInv, ImgTypes, RawTypes, scpuVars
<1>4. CommTypes'
  BY <1>1 DEF TypesInv, CommTypes, ncpuMem, intVars
<1>5. FlagTypes'
  <2>1. late' \in BOOLEAN /\ lost' \in BOOLEAN
    BY <1>1 DEF TypesInv, FlagTypes
  <2> QED BY <1>1, <2>1 DEF TypesInv, FlagTypes, ncpuMem, intVars
<1>6. callback' \in [index : Ctx, timeouts : {0, 1}, alive : BOOLEAN] /\ callback'.index = callback.index
  BY <1>1 DEF TypesInv, ThreadTypes
<1>7. ThreadTypes' /\ RunTypes'
  BY <1>1, <1>6 DEF TypesInv, ThreadTypes, RunTypes, scpuVars, ncpuMem, Active
<1>8. HistoryTypes'
  BY <1>1, <1>2, Bounds DEF TypesInv, HistoryTypes, Upset
<1>9. ContextTypes'
  BY <1>1, <1>6 DEF TypesInv, ContextTypes, scpuVars
<1> QED BY <1>3, <1>4, <1>5, <1>7, <1>8, <1>9 DEF TypesInv

LEMMA NcpuTypes ==
  ASSUME TypesInv, NcpuWork \/ NcpuReady \/ NcpuNoise
  PROVE  TypesInv'
<1>1. /\ UNCHANGED <<scpuVars, threadVars, intVars, resultEvt, aloneEvt, runs, answers, failed, late,
                     reused, lost>>
      /\ UNCHANGED upsets \/ Upset
  BY DEF NcpuWork, NcpuReady, NcpuNoise, runHistory
<1>2. /\ comm \in [ready : BOOLEAN, result : Work \cup {Idles}, type : {"postproc", "alone"},
                   pending : BOOLEAN, req : BOOLEAN, log : BOOLEAN]
      /\ ncpu \in [npu : Work \cup {Idles}, post : Work \cup {Idles}, alone : BOOLEAN, raw : Ctx]
      /\ Idles \in Work \cup {Idles} /\ irq \in BOOLEAN
  BY DEF TypesInv, CommTypes, FlagTypes
<1>3. ASSUME NcpuTakes, UNCHANGED <<comm, irq, done>>
      PROVE  /\ comm' = comm /\ irq' = irq /\ done' = done
             /\ ncpu' \in [npu : Work \cup {Idles}, post : Work \cup {Idles}, alone : BOOLEAN, raw : Ctx]
             /\ command' = "none"
  <2>1. CASE command = "run" /\ ncpu' = [ncpu EXCEPT !.npu = [raw |-> ncpu.raw, run |-> raws[ncpu.raw].run]]
    <3>1. ncpu.raw \in Ctx /\ raws[ncpu.raw].run \in 1 .. MaxRuns
      BY <1>2, <2>1, Bounds DEF TypesInv, RunTypes, RawTypes
    <3>2. [raw |-> ncpu.raw, run |-> raws[ncpu.raw].run] \in Work
      BY <3>1 DEF Work
    <3> QED BY <1>2, <1>3, <2>1, <3>2 DEF NcpuTakes
  <2>2. CASE ncpu' = [ncpu EXCEPT !.alone = TRUE]
    BY <1>2, <1>3, <2>2 DEF NcpuTakes
  <2> QED BY <1>3, <2>1, <2>2 DEF NcpuTakes
<1>4. /\ comm' \in [ready : BOOLEAN, result : Work \cup {Idles}, type : {"postproc", "alone"},
                    pending : BOOLEAN, req : BOOLEAN, log : BOOLEAN]
      /\ ncpu' \in [npu : Work \cup {Idles}, post : Work \cup {Idles}, alone : BOOLEAN, raw : Ctx]
      /\ irq' \in BOOLEAN
      /\ command' = "none" \/ (UNCHANGED command /\ ncpu'.raw = ncpu.raw)
      /\ done' \subseteq 1 .. MaxRuns
  <2>1. done \subseteq 1 .. MaxRuns
    BY DEF TypesInv, HistoryTypes
  <2>2. CASE NcpuTakes /\ UNCHANGED <<comm, irq, done>>
    BY <1>2, <1>3, <2>1, <2>2
  <2>3. CASE NpuDone
    <3>1. UNCHANGED comm \/ comm' = [comm EXCEPT !.req = TRUE]
      BY <2>3 DEF NpuDone
    <3>2. ncpu' \in [npu : Work \cup {Idles}, post : Work \cup {Idles}, alone : BOOLEAN, raw : Ctx]
          /\ ncpu'.raw = ncpu.raw
      <4> DEFINE u == [ncpu EXCEPT !.npu = Idles]
      <4>1. u \in [npu : Work \cup {Idles}, post : Work \cup {Idles}, alone : BOOLEAN, raw : Ctx]
            /\ u.raw = ncpu.raw
        BY <1>2
      <4>2. ncpu' = [u EXCEPT !.post = ncpu.npu] /\ ncpu.npu \in Work \cup {Idles}
        BY <1>2, <2>3 DEF NpuDone
      <4> HIDE DEF u
      <4> QED BY <4>1, <4>2
    <3> QED BY <1>2, <2>1, <2>3, <3>1, <3>2 DEF NpuDone
  <2>4. CASE PostDone
    <3>1. ncpu.post \in Work /\ ncpu.post.run \in 1 .. MaxRuns
      BY <1>2, <2>4 DEF PostDone, Work
    <3>2. comm' \in [ready : BOOLEAN, result : Work \cup {Idles}, type : {"postproc", "alone"},
                     pending : BOOLEAN, req : BOOLEAN, log : BOOLEAN]
      <4> DEFINE u == [comm EXCEPT !.result = ncpu.post]
                 v == [u EXCEPT !.type = "postproc"]
      <4>1. u \in [ready : BOOLEAN, result : Work \cup {Idles}, type : {"postproc", "alone"},
                   pending : BOOLEAN, req : BOOLEAN, log : BOOLEAN]
        BY <1>2, <3>1
      <4>2. v \in [ready : BOOLEAN, result : Work \cup {Idles}, type : {"postproc", "alone"},
                   pending : BOOLEAN, req : BOOLEAN, log : BOOLEAN]
        <5> HIDE DEF u
        <5> QED BY <4>1
      <4>3. comm' = [v EXCEPT !.pending = TRUE]
        BY <2>4 DEF PostDone
      <4> HIDE DEF v
      <4> QED BY <4>2, <4>3
    <3> QED BY <1>2, <2>1, <2>4, <3>1, <3>2 DEF PostDone
  <2>5. CASE AloneDone
    <3> DEFINE u == [comm EXCEPT !.type = "alone"]
    <3>1. u \in [ready : BOOLEAN, result : Work \cup {Idles}, type : {"postproc", "alone"},
                 pending : BOOLEAN, req : BOOLEAN, log : BOOLEAN]
      BY <1>2
    <3>2. comm' = [u EXCEPT !.pending = TRUE]
      BY <2>5 DEF AloneDone
    <3>3. comm' \in [ready : BOOLEAN, result : Work \cup {Idles}, type : {"postproc", "alone"},
                     pending : BOOLEAN, req : BOOLEAN, log : BOOLEAN]
      <4> HIDE DEF u
      <4> QED BY <3>1, <3>2
    <3> QED BY <1>2, <2>1, <2>5, <3>3 DEF AloneDone
  <2>6. CASE NcpuReady \/ NcpuNoise
    BY <1>2, <2>1, <2>6 DEF NcpuReady, NcpuNoise, runHistory
  <2> QED BY <2>2, <2>3, <2>4, <2>5, <2>6 DEF NcpuWork
<1>5. ImgTypes' /\ RawTypes' /\ ThreadTypes' /\ ContextTypes'
  BY <1>1 DEF TypesInv, ImgTypes, RawTypes, ThreadTypes, ContextTypes, scpuVars, threadVars
<1>6. CommTypes'
  BY <1>1, <1>4 DEF TypesInv, CommTypes, intVars
<1>7. FlagTypes'
  BY <1>1, <1>4 DEF TypesInv, FlagTypes, intVars
<1>8. HistoryTypes'
  BY <1>1, <1>4, Bounds DEF TypesInv, HistoryTypes, Upset
<1>9. RunTypes'
  BY <1>1, <1>4 DEF TypesInv, RunTypes, scpuVars, threadVars, Active
<1> QED BY <1>5, <1>6, <1>7, <1>8, <1>9 DEF TypesInv

LEMMA TypesStep == TypesInv /\ [NcpuNext]_ncpuVars => TypesInv'
<1> SUFFICES ASSUME TypesInv, [NcpuNext]_ncpuVars PROVE TypesInv'
  OBVIOUS
<1>1. CASE UNCHANGED ncpuVars
  <2> USE <1>1 DEF ncpuVars, scpuVars, threadVars, ncpuMem, intVars, runHistory, TypesInv
  <2>1. ImgTypes' /\ RawTypes' /\ ThreadTypes'
    BY DEF ImgTypes, RawTypes, ThreadTypes
  <2>2. CommTypes' /\ FlagTypes' /\ HistoryTypes'
    BY DEF CommTypes, FlagTypes, HistoryTypes
  <2>3. RunTypes'
    BY DEF RunTypes, Active
  <2>4. ContextTypes'
    BY DEF ContextTypes
  <2> QED BY <2>1, <2>2, <2>3, <2>4
<1>2. CASE Dispatch
  BY <1>2, ConfigureTypes, TriggerTypes, ReturnTypes, AloneTypes DEF Dispatch
<1>3. CASE Receive
  BY <1>3, CallbackResultTypes, CallbackOtherTypes DEF Receive
<1>4. CASE NCPU_IRQHandler
  BY <1>4, EnterLeaveTypes, LookTypes DEF NCPU_IRQHandler
<1>5. CASE (\E par \in BOOLEAN : Begin(par)) \/ BeginAlone \/ RunTimeout \/ CallbackTimeout
  BY <1>5, BeginTypes, AloneTypes, ReturnTypes, CallbackOtherTypes
<1>6. CASE NcpuWork \/ NcpuReady \/ NcpuNoise
  BY <1>6, NcpuTypes
<1> QED BY <1>1, <1>2, <1>3, <1>4, <1>5, <1>6 DEF NcpuNext

LEMMA TypesAlways == NcpuSpec => []TypesInv
BY TypesBegin, TypesStep, PTL DEF NcpuSpec

(* Indices, contexts, events and histories keep their types: no context    *)
(* and no image setting out of its array, no result sent that is no run's. *)
THEOREM NcpuTypesHold == NcpuSpec => []NcpuTypeOK
BY TypesAlways, TypesGive, PTL

-----------------------------------------------------------------------------
(* The window of contexts.  While every unanswered run in parallel has its *)
(* context, these contexts are the `live' ones from callback.index up to   *)
(* infIndex, modulo Contexts.                                              *)

Clean   == ~late /\ failed = {}
Ordered == Clean /\ ~reused
live   == numInf - numRes
Off(c) == IF callback.index <= c THEN c - callback.index ELSE c - callback.index + Contexts
Prev(c) == IF c = 0 THEN Contexts - 1 ELSE c - 1

(* The context whose raw image the dispatcher's run has.                   *)
Cur == IF dispatcher.at = "configured" \/ ~dispatcher.parallel THEN infIndex ELSE Prev(infIndex)

(* The dispatcher's run, while it is not among the live contexts.          *)
Uncounted ==
  IF \/ dispatcher.at = "configured"
     \/ dispatcher.at \in {"trigger", "wait"} /\ ~dispatcher.parallel THEN 1 ELSE 0

CountInv ==
  /\ live \in 0 .. Contexts
  /\ Len(runs) - Len(answers) = live + Uncounted
  /\ infIndex = IF callback.index + live < Contexts THEN callback.index + live
                ELSE callback.index + live - Contexts
  /\ \A c \in resultEvt : Off(c) < live

(* What the dispatcher has set for its run.                                *)
DispInv ==
  /\ \A c \in Ctx : raws[c].run <= Len(runs)
  /\ Active =>
       /\ runs[dispatcher.run] = dispatcher.parallel
       /\ \A c \in Ctx : raws[c].run = dispatcher.run <=> c = Cur
       /\ raws[Cur].ref = curIdx /\ raws[Cur].parallel = dispatcher.parallel
       /\ nxtIdx = IF dispatcher.parallel THEN 1 - curIdx ELSE curIdx
  /\ dispatcher.at \in {"trigger", "wait"} =>
       /\ imgs[curIdx].caller = Awaited
       /\ imgs[curIdx].result = IF dispatcher.parallel THEN Cur ELSE None
       /\ dispatcher.parallel => context[Cur] = dispatcher.run

(* The runs whose output the NPU has written and whose result the          *)
(* interrupt has not reported: in post-processing, or pending.             *)
Pending == comm.pending /\ comm.type = "postproc"
Flights == (IF Pending THEN {comm.result} ELSE {}) \cup ({ncpu.post} \ {Idles})
Mine(w) == Active /\ w.run = dispatcher.run
NotYet  == command = "run" \/ ncpu.npu # Idles     \* the NPU has still to do the run

(* Where the dispatcher's run is: triggered, in the NPU, behind the NPU or *)
(* reported to the dispatcher.                                             *)
StageInv ==
  /\ command = "run" => dispatcher.at = "wait" /\ ncpu.raw = Cur /\ ncpu.npu = Idles
  /\ ncpu.npu # Idles => dispatcher.at = "wait" /\ ncpu.npu = [raw |-> Cur, run |-> dispatcher.run]
  /\ comm.req => /\ dispatcher.at = "wait" /\ dispatcher.parallel /\ ~NotYet
                 /\ ncpu.post # Idles => Mine(ncpu.post)
  /\ \A i \in {0, 1} : imgs[i].evt # {} =>
       /\ i = curIdx /\ dispatcher.at = "wait" /\ imgs[i].evt = {Awaited} /\ ~NotYet /\ ~comm.req
       /\ \A w \in Flights : dispatcher.parallel /\ Mine(w)
  /\ Pending => comm.result # Idles

(* A run behind the NPU keeps its raw image, and one in parallel its       *)
(* context and the settings that name the context; it is the dispatcher's  *)
(* run, or the settings are the ones the dispatcher does not use and the   *)
(* context is the last one before the dispatcher's.  Two runs are behind   *)
(* the NPU only when one of them is the dispatcher's.                      *)
Kept == IF Active THEN curIdx ELSE nxtIdx
Last == Prev(IF Active THEN Cur ELSE infIndex)

Flying(w) ==
  /\ raws[w.raw].run = w.run
  /\ Mine(w) => dispatcher.at = "wait" /\ ~NotYet
  /\ ~raws[w.raw].parallel => Mine(w)
  /\ raws[w.raw].parallel =>
       /\ imgs[raws[w.raw].ref].result = w.raw /\ context[w.raw] = w.run
       /\ Mine(w) \/ (raws[w.raw].ref # Kept /\ w.raw = Last)

FlightInv ==
  /\ Pending /\ ncpu.post # Idles => Mine(ncpu.post) /\ ~Mine(comm.result)
  /\ \A w \in Flights : Flying(w)

(* A run in parallel that is not reported has a live context: the          *)
(* dispatcher's the last one.                                              *)
LiveInv ==
  /\ (dispatcher.at = "trigger" \/ NotYet) /\ dispatcher.parallel =>
       Cur \notin resultEvt /\ Off(Cur) = live - 1
  /\ \A w \in Flights : raws[w.raw].parallel => Off(w.raw) < live /\ w.raw \notin resultEvt

IsAnswered(q) == \E i \in DOMAIN answers : answers[i] = q

(* The live contexts hold the runs in parallel that are not answered, in   *)
(* the order they were handed in.                                          *)
WindowInv ==
  /\ \A c \in Ctx : Off(c) < live =>
       /\ context[c] \in DOMAIN runs /\ runs[context[c]] /\ ~IsAnswered(context[c])
       /\ \A b \in Ctx : Off(b) < Off(c) => context[b] < context[c]
  /\ \A q \in DOMAIN runs : runs[q] =>
       \/ IsAnswered(q)
       \/ \E c \in Ctx : Off(c) < live /\ context[c] = q
       \/ dispatcher.at = "configured" /\ q = dispatcher.run
  /\ Uncounted = 1 => /\ ~IsAnswered(dispatcher.run)
                      /\ \A c \in Ctx : Off(c) < live => context[c] # dispatcher.run
  /\ \A i \in DOMAIN answers : answers[i] \in DOMAIN runs

(* The output of a run that is reported is complete, and that of a run on  *)
(* its way is not.                                                         *)
DoneInv ==
  /\ done \subseteq DOMAIN runs
  /\ \A c \in resultEvt : context[c] \in done
  /\ Pending => comm.result.run \in done
  /\ ncpu.post # Idles => ncpu.post.run \notin done
  /\ dispatcher.at \in {"configured", "trigger"} \/ NotYet => dispatcher.run \notin done
  /\ \A i \in {0, 1} : imgs[i].evt # {} /\ ~dispatcher.parallel => dispatcher.run \in done

MoveInv  == DispInv /\ StageInv /\ FlightInv
OrderInv == CountInv /\ LiveInv /\ WindowInv /\ DoneInv
CleanInv == MoveInv /\ (~reused => OrderInv)
NcpuInv  == TypesInv /\ (Clean => CleanInv)

LEMMA OffFacts ==
  ASSUME TypesInv
  PROVE  /\ \A c \in Ctx : Off(c) \in 0 .. Contexts - 1
         /\ \A b, c \in Ctx : Off(b) = Off(c) => b = c
         /\ callback.index \in Ctx /\ Off(callback.index) = 0
<1>1. callback.index \in Ctx
  BY DEF TypesInv, ThreadTypes
<1> QED BY <1>1, Bounds DEF Off, Ctx

LEMMA OffMoves ==
  ASSUME TypesInv, callback'.index = (callback.index + 1) % Contexts
  PROVE  \A c \in Ctx : Off(c)' = IF c = callback.index THEN Contexts - 1 ELSE Off(c) - 1
<1>1. callback.index \in Ctx
  BY DEF TypesInv, ThreadTypes
<1>2. callback'.index = IF callback.index + 1 = Contexts THEN 0 ELSE callback.index + 1
  BY <1>1, Wraps
<1> DEFINE x == callback.index
           y == callback'.index
<1>3. x \in Int /\ 0 <= x /\ x < Contexts /\ Contexts \in Int
      /\ y = IF x + 1 = Contexts THEN 0 ELSE x + 1
  BY <1>1, <1>2, Bounds
<1>4. ASSUME NEW c \in Ctx
      PROVE  (IF y <= c THEN c - y ELSE c - y + Contexts) =
               IF c = x THEN Contexts - 1
               ELSE (IF x <= c THEN c - x ELSE c - x + Contexts) - 1
  <2>1. c \in Int /\ 0 <= c /\ c < Contexts
    BY Bounds
  <2> HIDE DEF x, y
  <2> QED BY <1>3, <2>1
<1> QED BY <1>4 DEF Off

LEMMA PrevFacts == \A c \in Ctx : Prev(c) \in Ctx /\ Prev(c) # c
BY Bounds DEF Prev, Ctx

LEMMA CurFacts ==
  ASSUME TypesInv
  PROVE  /\ live \in Int /\ infIndex \in Ctx /\ Cur \in Ctx
<1>1. infIndex \in Ctx /\ numInf \in Int /\ numRes \in Int
  BY DEF TypesInv, RawTypes
<1>2. Prev(infIndex) \in Ctx
  BY <1>1, PrevFacts
<1>3. live \in Int
  BY <1>1 DEF live
<1> QED BY <1>1, <1>2, <1>3 DEF Cur

LEMMA WindowFacts ==
  ASSUME TypesInv, CountInv
  PROVE  /\ live < Contexts => Off(infIndex) = live
         /\ live = Contexts => Off(infIndex) = 0
<1>1. /\ callback.index \in Ctx /\ infIndex \in Ctx /\ numInf \in Int /\ numRes \in Int
  BY DEF TypesInv, ThreadTypes, RawTypes
<1>2. /\ live \in 0 .. Contexts /\ live \in Int
      /\ infIndex = IF callback.index + live < Contexts THEN callback.index + live
                    ELSE callback.index + live - Contexts
  BY <1>1 DEF CountInv, live
<1> HIDE DEF live
<1>3. live < Contexts => Off(infIndex) = live
  BY <1>1, <1>2, Bounds DEF Off, Ctx
<1>4. live = Contexts => Off(infIndex) = 0
  BY <1>1, <1>2, Bounds DEF Off, Ctx
<1> QED BY <1>3, <1>4

LEMMA WindowGrows ==
  ASSUME NEW x \in Nat, NEW n \in Nat, NEW size \in Nat, x < size, n < size, NEW i,
         i = IF x + n < size THEN x + n ELSE x + n - size
  PROVE  (IF i + 1 = size THEN 0 ELSE i + 1) =
           IF x + (n + 1) < size THEN x + (n + 1) ELSE x + (n + 1) - size
OBVIOUS

LEMMA PrevOfNext == ASSUME infIndex \in Ctx PROVE Prev(NextIndex) = infIndex
BY NextIndexFacts, Bounds DEF Prev, Ctx

LEMMA FlightFacts ==
  ASSUME TypesInv, NEW w \in Flights
  PROVE  w \in Work \cup {Idles} /\ w.raw \in Ctx
BY Bounds DEF TypesInv, CommTypes, Flights, Work, Idles

LEMMA AnsweredNext ==
  ASSUME HistoryTypes, NEW r, Send(r)
  PROVE  \A q : IsAnswered(q)' <=> q = r \/ IsAnswered(q)
<1>1. answers \in Seq(1 .. MaxRuns) /\ answers' = Append(answers, r)
  BY DEF HistoryTypes, Send
<1>2. /\ Len(answers) \in Nat /\ DOMAIN answers = 1 .. Len(answers)
      /\ DOMAIN answers' = 1 .. Len(answers) + 1
      /\ answers'[Len(answers) + 1] = r
      /\ \A i \in 1 .. Len(answers) : answers'[i] = answers[i]
  BY <1>1
<1>3. \A i \in DOMAIN answers' : i \in DOMAIN answers \/ i = Len(answers) + 1
  BY <1>2
<1> QED BY <1>2, <1>3 DEF IsAnswered

-----------------------------------------------------------------------------
(* Steps that move no run.                                                 *)

Quiet ==
  /\ UNCHANGED <<imgs, curIdx, nxtIdx, raws, context, infIndex, numInf, numRes, runs, answers, done,
                 reused>>
  /\ callback'.index = callback.index
  /\ resultEvt' \subseteq resultEvt
  /\ UNCHANGED dispatcher \/ (~Active /\ ~Active')
  /\ Pending' => Pending /\ comm'.result = comm.result
  /\ comm'.req => comm.req
  /\ command' = "run" => command = "run"
  /\ ncpu'.npu = ncpu.npu /\ ncpu'.post = ncpu.post /\ ncpu'.raw = ncpu.raw

LEMMA QuietKeeps ==
  ASSUME TypesInv, CleanInv, Quiet
  PROVE  CleanInv'
<1>1. /\ UNCHANGED <<imgs, curIdx, nxtIdx, raws, context, infIndex, numInf, numRes, runs, answers, done,
                     reused>>
      /\ resultEvt' \subseteq resultEvt
      /\ live' = live /\ Kept' = Kept
      /\ Active' = Active
      /\ \A c : Off(c)' = Off(c) /\ IsAnswered(c)' = IsAnswered(c)
  BY DEF Quiet, live, Kept, Off, IsAnswered, Active
<1>2. UNCHANGED dispatcher \/ (~Active /\ ~Active')
  BY DEF Quiet
<1>3. /\ Pending' => Pending /\ comm'.result = comm.result
      /\ comm'.req => comm.req
      /\ command' = "run" => command = "run"
      /\ ncpu'.npu = ncpu.npu /\ ncpu'.post = ncpu.post /\ ncpu'.raw = ncpu.raw
      /\ NotYet' => NotYet
      /\ Flights' \subseteq Flights
  BY DEF Quiet, NotYet, Flights
<1>4. /\ Active => UNCHANGED dispatcher /\ Cur' = Cur /\ Awaited' = Awaited
      /\ Uncounted' = Uncounted
      /\ \A w : Mine(w)' = Mine(w)
      /\ Last' = Last
  <2>1. Active => UNCHANGED dispatcher /\ Cur' = Cur /\ Awaited' = Awaited
    BY <1>1, <1>2 DEF Cur, Prev, Awaited, Active
  <2>2. Last' = Last
    BY <1>1, <2>1 DEF Last, Prev
  <2> QED BY <1>1, <1>2, <2>1, <2>2 DEF Uncounted, Mine, Active
<1>5. ASSUME OrderInv PROVE CountInv'
  BY <1>1, <1>4, <1>5 DEF OrderInv, CountInv, Quiet
<1>6. DispInv'
  BY <1>1, <1>2, <1>4 DEF CleanInv, MoveInv, DispInv, Active
<1>7. StageInv'
  BY <1>1, <1>2, <1>3, <1>4 DEF CleanInv, MoveInv, StageInv, Active, NotYet
<1>8. FlightInv'
  <2>1. ASSUME NEW w \in Flights' PROVE Flying(w)'
    <3>1. Flying(w)
      BY <1>3, <2>1 DEF CleanInv, MoveInv, FlightInv
    <3>2. Mine(w) => Active
      BY DEF Mine
    <3> QED BY <1>1, <1>3, <1>4, <3>1, <3>2 DEF Flying
  <2>2. Pending' /\ ncpu'.post # Idles => Mine(ncpu.post) /\ ~Mine(comm.result)
    BY <1>3 DEF CleanInv, MoveInv, FlightInv
  <2>3. Pending' /\ ncpu'.post # Idles => Mine(ncpu.post)' /\ ~Mine(comm.result)'
    BY <1>1, <1>2, <1>3, <2>2 DEF Mine
  <2> QED BY <2>1, <2>3 DEF FlightInv
<1>9. NotYet \/ dispatcher.at = "trigger" \/ (\E i \in {0, 1} : imgs[i].evt # {}) => Active
  BY DEF CleanInv, MoveInv, StageInv, NotYet, Active
<1>10. dispatcher'.at = "trigger" => Active
  BY <1>1 DEF Active
<1>11. ASSUME OrderInv PROVE LiveInv'
  <2>1. ASSUME dispatcher'.at = "trigger" \/ NotYet', dispatcher'.parallel
        PROVE  Cur' \notin resultEvt' /\ Off(Cur)' = live' - 1
    <3>1. Active
      BY <1>3, <1>9, <1>10, <2>1
    <3>2. dispatcher' = dispatcher /\ Cur' = Cur
      BY <1>4, <3>1
    <3>3. Cur \notin resultEvt /\ Off(Cur) = live - 1
      BY <1>3, <1>11, <2>1, <3>2 DEF OrderInv, LiveInv
    <3>4. Off(Cur)' = Off(Cur)
      BY <3>2 DEF Off, Quiet
    <3> QED BY <1>1, <3>2, <3>3, <3>4
  <2>2. \A w \in Flights' : raws'[w.raw].parallel => Off(w.raw)' < live' /\ w.raw \notin resultEvt'
    BY <1>1, <1>3, <1>11 DEF OrderInv, LiveInv
  <2> QED BY <2>1, <2>2 DEF LiveInv
<1>12. ASSUME OrderInv PROVE WindowInv'
  BY <1>1, <1>2, <1>4, <1>12 DEF OrderInv, WindowInv, Active, Uncounted
<1>13. ASSUME OrderInv PROVE DoneInv'
  BY <1>1, <1>2, <1>3, <1>4, <1>9, <1>13 DEF OrderInv, DoneInv, Active
<1> QED BY <1>1, <1>5, <1>6, <1>7, <1>8, <1>11, <1>12, <1>13 DEF CleanInv, MoveInv, OrderInv

-----------------------------------------------------------------------------
(* The dispatcher's steps.                                                 *)

(* While the dispatcher has no run, the NPU has none, nothing is reported  *)
(* to the dispatcher and at most one run is behind the NPU.                *)
LEMMA NoRunFacts ==
  ASSUME CleanInv, ~Active
  PROVE  /\ ~NotYet /\ ~comm.req /\ \A i \in {0, 1} : imgs[i].evt = {}
         /\ ~(Pending /\ ncpu.post # Idles)
         /\ \A w \in Flights : Flying(w) /\ raws[w.raw].parallel
BY DEF CleanInv, MoveInv, StageInv, FlightInv, Flying, Active, NotYet, Mine

LEMMA BeginKeeps ==
  ASSUME TypesInv, CleanInv, NEW par \in BOOLEAN, Begin(par)
  PROVE  CleanInv'
<1> DEFINE r == Len(runs) + 1
           new == [ref |-> nxtIdx, parallel |-> par, run |-> r]
<1>1. /\ dispatcher.at = "idle"
      /\ runs' = Append(runs, par)
      /\ dispatcher' = [at |-> "configured", run |-> r, parallel |-> par]
      /\ curIdx' = nxtIdx /\ nxtIdx' = IF par THEN 1 - nxtIdx ELSE nxtIdx
      /\ raws' = [raws EXCEPT ![infIndex] = new]
      /\ UNCHANGED <<imgs, context, infIndex, numInf, callback, numRes, comm, command, ncpu,
                    resultEvt, done, answers, reused>>
  BY DEF Begin, ncpuMem
<1>2. /\ runs \in Seq(BOOLEAN) /\ Len(runs) \in Nat /\ r \in Nat /\ Len(runs') = r
      /\ DOMAIN runs = 1 .. Len(runs) /\ DOMAIN runs' = 1 .. r
      /\ runs'[r] = par /\ \A q \in 1 .. Len(runs) : runs'[q] = runs[q]
  BY <1>1 DEF TypesInv, HistoryTypes
<1>3. ~Active /\ Uncounted = 0
  BY <1>1 DEF Active, Uncounted
<1>4. live' = live /\ Uncounted' = 1 /\ Active' /\ Kept' = Kept /\ Cur' = infIndex /\ Last' = Last
      /\ dispatcher'.at = "configured" /\ dispatcher'.run = r /\ dispatcher'.parallel = par
      /\ NotYet' = NotYet /\ Pending' = Pending /\ Flights' = Flights
      /\ \A c : Off(c)' = Off(c) /\ IsAnswered(c)' = IsAnswered(c)
  BY <1>1, <1>3 DEF live, Uncounted, Active, Kept, Cur, Off, IsAnswered, NotYet, Pending, Flights,
     Last, Prev
<1>5. live \in Int /\ infIndex \in Ctx /\ Prev(infIndex) # infIndex
  BY CurFacts, PrevFacts
<1>6. Last = Prev(infIndex)
  BY <1>3 DEF Last
<1>7. Len(answers) \in Nat
  BY DEF TypesInv, HistoryTypes
<1>8. ASSUME OrderInv PROVE CountInv'
  <2>1. /\ live \in 0 .. Contexts /\ Len(runs) - Len(answers) = live
        /\ infIndex = IF callback.index + live < Contexts THEN callback.index + live
                      ELSE callback.index + live - Contexts
        /\ \A c \in resultEvt : Off(c) < live
    BY <1>3, <1>5, <1>8 DEF OrderInv, CountInv
  <2>2. Len(runs') - Len(answers') = live' + Uncounted'
    <3> HIDE DEF live
    <3> QED BY <1>1, <1>2, <1>4, <1>5, <1>7, <2>1
  <2> QED BY <1>1, <1>4, <2>1, <2>2 DEF CountInv
<1>9. /\ raws'[infIndex] = new
      /\ \A c \in Ctx : c # infIndex => raws'[c] = raws[c]
      /\ \A c \in Ctx : raws[c].run <= Len(runs) /\ raws[c].run \in Nat
  BY <1>1, <1>5, Bounds DEF TypesInv, RawTypes, CleanInv, MoveInv, DispInv
<1>10. DispInv'
  <2>1. \A c \in Ctx : raws'[c].run <= Len(runs')
    BY <1>2, <1>9
  <2>2. \A c \in Ctx : raws'[c].run = r <=> c = infIndex
    BY <1>2, <1>5, <1>9
  <2>3. /\ raws'[infIndex].ref = curIdx' /\ raws'[infIndex].parallel = par
        /\ nxtIdx' = IF par THEN 1 - curIdx' ELSE curIdx'
    BY <1>1, <1>9
  <2> HIDE DEF r
  <2> QED BY <1>2, <1>4, <2>1, <2>2, <2>3 DEF DispInv
<1>11. /\ ~NotYet /\ ~comm.req /\ \A i \in {0, 1} : imgs[i].evt = {}
       /\ ~(Pending /\ ncpu.post # Idles)
       /\ \A w \in Flights : Flying(w) /\ raws[w.raw].parallel
  BY <1>3, NoRunFacts
<1>12. StageInv'
  <2>1. Pending => comm.result # Idles
    BY DEF CleanInv, MoveInv, StageInv
  <2>2. ~NotYet' /\ ~comm'.req /\ \A i \in {0, 1} : imgs'[i].evt = {}
    BY <1>1, <1>4, <1>11
  <2> QED BY <1>1, <1>4, <2>1, <2>2 DEF StageInv, NotYet
<1>13. FlightInv'
  <2>1. ASSUME NEW w \in Flights PROVE Flying(w)'
    <3>1. /\ w.raw \in Ctx /\ raws[w.raw].run = w.run /\ raws[w.raw].parallel
          /\ imgs[raws[w.raw].ref].result = w.raw /\ context[w.raw] = w.run
          /\ raws[w.raw].ref # Kept /\ w.raw = Last
      BY <1>3, <1>11, FlightFacts DEF Flying, Mine
    <3>2. w.raw # infIndex
      BY <1>5, <1>6, <3>1
    <3>3. raws'[w.raw] = raws[w.raw] /\ w.run # r
      BY <1>2, <1>9, <3>1, <3>2
    <3>4. ~Mine(w)'
      BY <1>4, <3>3 DEF Mine
    <3> QED BY <1>1, <1>4, <3>1, <3>3, <3>4 DEF Flying
  <2> QED BY <1>1, <1>4, <1>11, <2>1 DEF FlightInv
<1>16. ASSUME OrderInv PROVE LiveInv'
  <2>1. ASSUME NEW w \in Flights
        PROVE  raws'[w.raw].parallel /\ Off(w.raw) < live /\ w.raw \notin resultEvt
    <3>1. /\ w.raw \in Ctx /\ raws[w.raw].parallel /\ w.raw = Last
      BY <1>3, <1>11, FlightFacts DEF Flying, Mine
    <3>2. raws'[w.raw] = raws[w.raw]
      BY <1>5, <1>6, <1>9, <3>1
    <3> QED BY <1>16, <3>1, <3>2 DEF OrderInv, LiveInv
  <2> QED BY <1>1, <1>4, <1>11, <2>1 DEF LiveInv
<1>14. ASSUME OrderInv PROVE WindowInv'
  <2>1. ASSUME NEW c \in Ctx, Off(c) < live
        PROVE  /\ context[c] \in DOMAIN runs' /\ runs'[context[c]] /\ ~IsAnswered(context[c])
               /\ \A b \in Ctx : Off(b) < Off(c) => context[b] < context[c]
    BY <1>2, <1>14, <2>1 DEF OrderInv, WindowInv
  <2>2. ASSUME NEW q \in DOMAIN runs', runs'[q]
        PROVE  \/ IsAnswered(q)
               \/ \E c \in Ctx : Off(c) < live /\ context[c] = q
               \/ q = r
    <3>1. CASE q = r
      BY <3>1
    <3>2. CASE q # r
      <4>1. q \in DOMAIN runs /\ runs[q]
        BY <1>2, <2>2, <3>2
      <4> QED BY <1>1, <1>14, <4>1 DEF OrderInv, WindowInv
    <3> QED BY <3>1, <3>2
  <2>3. \A i \in DOMAIN answers : answers[i] \in 1 .. Len(runs)
    BY <1>2, <1>14 DEF OrderInv, WindowInv
  <2>4. ~IsAnswered(r)
    BY <1>2, <2>3 DEF IsAnswered
  <2>5. \A i \in DOMAIN answers' : answers'[i] \in DOMAIN runs'
    BY <1>1, <1>2, <2>3
  <2>6. \A c \in Ctx : Off(c)' < live' =>
          /\ context'[c] \in DOMAIN runs' /\ runs'[context'[c]] /\ ~IsAnswered(context[c])'
          /\ \A b \in Ctx : Off(b)' < Off(c)' => context'[b] < context'[c]
    BY <1>1, <1>4, <2>1
  <2>7. \A q \in DOMAIN runs' : runs'[q] =>
          \/ IsAnswered(q)'
          \/ \E c \in Ctx : Off(c)' < live' /\ context'[c] = q
          \/ dispatcher'.at = "configured" /\ q = dispatcher'.run
    BY <1>1, <1>4, <2>2
  <2>8. ~IsAnswered(dispatcher.run)'
    BY <1>1, <1>4, <2>4 DEF IsAnswered
  <2>9. \A c : IsAnswered(context[c])' <=> \E i \in DOMAIN answers' : answers'[i] = context'[c]
    BY DEF IsAnswered
  <2>10. \A c \in Ctx : Off(c)' < live' => context'[c] # dispatcher'.run
    BY <1>1, <1>2, <1>4, <1>14, <2>1 DEF OrderInv, WindowInv
  <2> QED BY <2>5, <2>6, <2>7, <2>8, <2>9, <2>10 DEF WindowInv, IsAnswered
<1>15. ASSUME OrderInv PROVE DoneInv'
  <2>1. done' \subseteq DOMAIN runs' /\ r \notin done
    BY <1>1, <1>2, <1>15 DEF OrderInv, DoneInv
  <2>2. \A i \in {0, 1} : imgs'[i].evt = {}
    BY <1>1, <1>11
  <2> QED BY <1>1, <1>4, <1>15, <2>1, <2>2 DEF OrderInv, DoneInv
<1> QED BY <1>1, <1>8, <1>10, <1>12, <1>13, <1>14, <1>15, <1>16 DEF CleanInv, MoveInv, OrderInv

(* The settings of the run: a run in parallel takes the next context.      *)
LEMMA ConfigureKeeps ==
  ASSUME TypesInv, CleanInv, Configure, failed' = {}
  PROVE  CleanInv'
<1> DEFINE r == dispatcher.run
           par == dispatcher.parallel
           set == [imgs EXCEPT ![curIdx].result = Result(par)]
<1>1. /\ dispatcher.at = "configured"
      /\ IF par THEN /\ context' = [context EXCEPT ![infIndex] = r]
                     /\ reused' = (reused \/ context[infIndex] \in Outstanding)
                     /\ numInf' = numInf + 1
                     /\ infIndex' = NextIndex
                ELSE UNCHANGED <<context, reused, numInf, infIndex>>
      /\ UNCHANGED <<curIdx, nxtIdx, raws, callback, numRes, comm, ncpu, command, resultEvt, runs, done>>
  BY DEF Configure, ncpuMem
<1>2. Active /\ Uncounted = 1 /\ Cur = infIndex /\ r \in Nat /\ r >= 1 /\ r = Len(runs)
      /\ par \in BOOLEAN
  BY <1>1 DEF Active, Uncounted, Cur, TypesInv, RunTypes, ThreadTypes, HistoryTypes
<1>3. /\ dispatcher' = [dispatcher EXCEPT !.at = "trigger"]
      /\ imgs' = [set EXCEPT ![curIdx].caller = IF par THEN "NPU" ELSE "NCPU"]
      /\ UNCHANGED answers
  BY DEF Configure
<1>4. /\ dispatcher'.at = "trigger" /\ dispatcher'.run = r /\ dispatcher'.parallel = par
      /\ Active' /\ Kept' = Kept
  BY <1>1, <1>2, <1>3 DEF TypesInv, ThreadTypes, Active, Kept
<1>5. /\ live \in Int /\ infIndex \in Ctx /\ Prev(infIndex) # infIndex
      /\ infIndex \in Int /\ callback.index \in Ctx /\ callback.index \in Int
      /\ curIdx \in {0, 1} /\ numInf \in Int /\ numRes \in Int
  BY CurFacts, PrevFacts, Bounds DEF TypesInv, ImgTypes, RawTypes, ThreadTypes
<1>6. Last = Prev(infIndex) /\ Len(answers) \in Nat /\ Len(runs) \in Nat
  BY <1>2 DEF Last, TypesInv, HistoryTypes
<1>7. ASSUME OrderInv, ~reused', par PROVE live < Contexts /\ live >= 0 /\ Off(infIndex) = live
  <2>1. context[infIndex] \notin Outstanding
    BY <1>1, <1>7
  <2>2. live \in 0 .. Contexts /\ CountInv
    BY <1>7 DEF OrderInv, CountInv
  <2>3. ASSUME live = Contexts PROVE FALSE
    <3>1. Off(infIndex) < live
      BY <2>2, <2>3, WindowFacts, Bounds
    <3>2. context[infIndex] \in DOMAIN runs /\ ~IsAnswered(context[infIndex])
      BY <1>5, <1>7, <3>1 DEF OrderInv, WindowInv
    <3> QED BY <2>1, <3>2 DEF Outstanding, IsAnswered
  <2>4. live < Contexts /\ live >= 0
    <3> HIDE DEF live
    <3> QED BY <1>5, <2>2, <2>3, Bounds
  <2> QED BY <2>2, <2>4, WindowFacts
<1>8. /\ live' = (IF par THEN live + 1 ELSE live) /\ Uncounted' = (IF par THEN 0 ELSE 1)
      /\ Cur' = infIndex /\ (par => infIndex' = NextIndex)
      /\ Last' = Last
  <2>1. CASE par
    <3>1. numInf' = numInf + 1 /\ infIndex' = NextIndex /\ numRes' = numRes
      BY <1>1, <2>1
    <3>2. live' = live + 1
      BY <1>5, <3>1 DEF live
    <3>3. Prev(infIndex)' = infIndex
      BY <1>5, <3>1, PrevOfNext DEF Prev
    <3>4. Cur' = infIndex
      BY <1>4, <2>1, <3>3 DEF Cur
    <3>5. Last' = Last
      BY <1>2, <1>4, <3>4 DEF Last, Prev
    <3> QED BY <1>4, <2>1, <3>1, <3>2, <3>4, <3>5 DEF Uncounted
  <2>2. CASE ~par
    <3>1. Cur' = infIndex
      BY <1>1, <1>4, <2>2 DEF Cur
    <3>2. Last' = Last
      BY <1>2, <1>4, <3>1 DEF Last, Prev
    <3> QED BY <1>1, <1>4, <2>2, <3>1, <3>2 DEF live, Uncounted
  <2> QED BY <2>1, <2>2
<1>9. /\ NotYet' = NotYet /\ Pending' = Pending /\ Flights' = Flights
      /\ \A c : Off(c)' = Off(c) /\ IsAnswered(c)' = IsAnswered(c)
      /\ \A w : Mine(w)' = Mine(w)
  BY <1>1, <1>2, <1>3, <1>4 DEF Off, IsAnswered, NotYet, Pending, Flights, Mine
<1>10. ASSUME OrderInv, ~reused' PROVE CountInv'
  <2>1. infIndex' = IF callback.index + live' < Contexts THEN callback.index + live'
                    ELSE callback.index + live' - Contexts
    <3>1. CASE par
      <4>1. NextIndex = IF infIndex + 1 = Contexts THEN 0 ELSE infIndex + 1
        BY <1>5, NextIndexFacts
      <4>2. infIndex = IF callback.index + live < Contexts THEN callback.index + live
                       ELSE callback.index + live - Contexts
        BY <1>10 DEF OrderInv, CountInv
      <4>3. live' = live + 1 /\ infIndex' = NextIndex
        BY <1>8, <3>1
      <4>4. 0 <= callback.index /\ callback.index < Contexts
        BY <1>5, Bounds
      <4>5. callback.index \in Nat /\ live \in Nat /\ live < Contexts /\ Contexts \in Nat
        BY <1>5, <1>7, <1>10, <3>1, <4>4, Bounds
      <4>6. NextIndex = IF callback.index + (live + 1) < Contexts THEN callback.index + (live + 1)
                        ELSE callback.index + (live + 1) - Contexts
        BY <4>1, <4>2, <4>4, <4>5, WindowGrows
      <4> QED BY <4>3, <4>6
    <3>2. CASE ~par
      BY <1>1, <1>8, <1>10, <3>2 DEF OrderInv, CountInv
    <3> QED BY <3>1, <3>2
  <2>2. \A c \in resultEvt' : Off(c)' < live'
    <3>1. \A c \in resultEvt : Off(c) < live /\ Off(c) \in Int
      BY <1>10, OffFacts, Bounds DEF OrderInv, CountInv, TypesInv, CommTypes
    <3> QED BY <1>1, <1>5, <1>8, <1>9, <3>1
  <2>3. live' \in 0 .. Contexts /\ Len(runs) - Len(answers) = live' + Uncounted'
    <3>1. live \in 0 .. Contexts /\ Len(runs) - Len(answers) = live + 1
      BY <1>2, <1>10 DEF OrderInv, CountInv
    <3>2. par => live < Contexts
      BY <1>7, <1>10
    <3> HIDE DEF live, par
    <3> QED BY <1>5, <1>6, <1>8, <3>1, <3>2, Bounds
  <2> QED BY <1>1, <1>3, <2>1, <2>2, <2>3 DEF CountInv
<1>11. /\ imgs'[curIdx].result = (IF par THEN infIndex ELSE None)
       /\ imgs'[curIdx].caller = (IF par THEN "NPU" ELSE "NCPU")
       /\ \A i \in {0, 1} : /\ imgs'[i].evt = imgs[i].evt
                            /\ i # curIdx => imgs'[i] = imgs[i]
  <2>1. /\ set \in [{0, 1} -> [result : Ctx \cup {None}, caller : Events, evt : SUBSET Events]]
        /\ set[curIdx].result = Result(par)
        /\ \A i \in {0, 1} : set[i].evt = imgs[i].evt /\ (i # curIdx => set[i] = imgs[i])
    BY <1>5 DEF TypesInv, ImgTypes, Result
  <2> HIDE DEF set, par
  <2> QED BY <1>3, <1>5, <2>1 DEF Result
<1>12. DispInv'
  <2>1. /\ runs[r] = par /\ \A c \in Ctx : raws[c].run = r <=> c = infIndex
        /\ raws[infIndex].ref = curIdx /\ raws[infIndex].parallel = par
        /\ nxtIdx = IF par THEN 1 - curIdx ELSE curIdx
        /\ \A c \in Ctx : raws[c].run <= Len(runs)
    BY <1>2 DEF CleanInv, MoveInv, DispInv
  <2>2. par => context'[infIndex] = r
    BY <1>1, <1>5 DEF TypesInv, RawTypes
  <2>3. Awaited' = IF par THEN "NPU" ELSE "NCPU"
    BY <1>4 DEF Awaited
  <2> HIDE DEF par, r
  <2> QED BY <1>1, <1>4, <1>8, <1>11, <2>1, <2>2, <2>3 DEF DispInv
<1>13. ~NotYet /\ ~comm.req /\ (\A i \in {0, 1} : imgs[i].evt = {}) /\ (Pending => comm.result # Idles)
  BY <1>1 DEF CleanInv, MoveInv, StageInv, NotYet
<1>14. StageInv'
  <2>4. ~NotYet' /\ ~comm'.req /\ (\A i \in {0, 1} : imgs'[i].evt = {})
        /\ (Pending' => comm'.result # Idles)
    BY <1>1, <1>9, <1>11, <1>13
  <2> QED BY <2>4 DEF StageInv, NotYet
<1>20. ASSUME OrderInv, ~reused' PROVE LiveInv'
  <2>1. par => infIndex \notin resultEvt
    BY <1>5, <1>7, <1>20 DEF OrderInv, CountInv
  <2>2. par => Off(infIndex) = live' - 1
    <3>1. par => Off(infIndex) = live
      BY <1>7, <1>20
    <3> HIDE DEF live, par
    <3> QED BY <1>5, <1>8, <3>1
  <2>3. par => Off(Cur)' = live' - 1
    <3>2. Off(Cur)' = (IF callback'.index <= Cur' THEN Cur' - callback'.index
                       ELSE Cur' - callback'.index + Contexts)
      BY DEF Off
    <3>3. Off(infIndex) = (IF callback.index <= infIndex THEN infIndex - callback.index
                           ELSE infIndex - callback.index + Contexts)
      BY DEF Off
    <3> QED BY <1>1, <1>8, <2>2, <3>2, <3>3
  <2>5. (dispatcher'.at = "trigger" \/ NotYet') /\ dispatcher'.parallel =>
          Cur' \notin resultEvt' /\ Off(Cur)' = live' - 1
    BY <1>1, <1>4, <1>8, <1>9, <1>13, <2>1, <2>3
  <2>6. ASSUME NEW w \in Flights PROVE raws[w.raw].parallel => Off(w.raw) < live' /\ w.raw \notin resultEvt
    <3>1. raws[w.raw].parallel => Off(w.raw) < live /\ w.raw \notin resultEvt
      BY <1>20 DEF OrderInv, LiveInv
    <3>2. Off(w.raw) \in Int
      BY FlightFacts, OffFacts, Bounds
    <3> HIDE DEF live
    <3> QED BY <1>5, <1>8, <3>1, <3>2
  <2> QED BY <1>1, <1>9, <2>5, <2>6 DEF LiveInv
<1>15. ASSUME NEW w \in Flights PROVE Flying(w)'
  <2>1. Flying(w) /\ ~Mine(w) /\ w.raw \in Ctx
    BY <1>1, FlightFacts DEF CleanInv, MoveInv, FlightInv, Flying
  <2>2. /\ raws[w.raw].run = w.run /\ raws[w.raw].parallel
        /\ imgs[raws[w.raw].ref].result = w.raw /\ context[w.raw] = w.run
        /\ raws[w.raw].ref # curIdx /\ raws[w.raw].ref \in {0, 1} /\ w.raw = Last
    <3>1. raws[w.raw].ref \in {0, 1}
      BY <2>1 DEF TypesInv, RawTypes
    <3>3. Kept = curIdx
      BY <1>2 DEF Kept
    <3> QED BY <2>1, <3>1, <3>3 DEF Flying
  <2>3. w.raw # infIndex
    BY <1>5, <1>6, <2>2
  <2>4. context'[w.raw] = context[w.raw] /\ imgs'[raws[w.raw].ref] = imgs[raws[w.raw].ref]
    <3>1. context'[w.raw] = context[w.raw]
      <4>1. CASE par
        <5>1. context' = [context EXCEPT ![infIndex] = r]
          BY <1>1, <4>1
        <5> QED BY <2>1, <2>3, <5>1 DEF TypesInv, RawTypes
      <4>2. CASE ~par
        BY <1>1, <4>2
      <4> QED BY <4>1, <4>2
    <3> QED BY <1>11, <2>2, <3>1
  <2>6. ~Mine(w)' /\ Kept' = curIdx
    BY <1>2, <1>4, <1>9, <2>1 DEF Kept
  <2> QED BY <1>1, <1>8, <2>2, <2>4, <2>6 DEF Flying
<1>16. FlightInv'
  <2>1. ~(Pending /\ ncpu.post # Idles)
    BY <1>1 DEF CleanInv, MoveInv, FlightInv, Flights, Flying
  <2> QED BY <1>1, <1>9, <1>15, <2>1 DEF FlightInv
<1>17. ASSUME OrderInv
       PROVE
       /\ \A c \in Ctx : Off(c) < live =>
            /\ context[c] \in DOMAIN runs /\ runs[context[c]] /\ ~IsAnswered(context[c])
            /\ context[c] # r
            /\ \A b \in Ctx : Off(b) < Off(c) => context[b] < context[c]
       /\ \A q \in DOMAIN runs : runs[q] =>
            IsAnswered(q) \/ (\E c \in Ctx : Off(c) < live /\ context[c] = q) \/ q = r
       /\ ~IsAnswered(r) /\ \A i \in DOMAIN answers : answers[i] \in DOMAIN runs
       /\ runs[r] = par /\ DOMAIN runs = 1 .. Len(runs)
  BY <1>1, <1>2, <1>17 DEF CleanInv, MoveInv, OrderInv, WindowInv, DispInv, TypesInv, HistoryTypes
<1>18. ASSUME OrderInv, ~reused' PROVE WindowInv'
  <2>1. CASE par
    <3>0. live < Contexts /\ Off(infIndex) = live
      BY <1>7, <1>18, <2>1
    <3>1. \A c \in Ctx : context'[c] = IF c = infIndex THEN r ELSE context[c]
      BY <1>1, <2>1 DEF TypesInv, RawTypes
    <3>2. \A c \in Ctx : Off(c) \in Int /\ (Off(c) < live' <=> Off(c) < live \/ c = infIndex)
      <4>1. \A c \in Ctx : Off(c) \in Int /\ (Off(c) = live <=> c = infIndex)
        BY <1>5, <3>0, OffFacts, Bounds
      <4>2. live' = live + 1
        BY <1>8, <2>1
      <4> HIDE DEF live
      <4> QED BY <1>5, <4>1, <4>2
    <3>3. ASSUME NEW c \in Ctx, Off(c) < live'
          PROVE  /\ context'[c] \in DOMAIN runs /\ runs[context'[c]] /\ ~IsAnswered(context'[c])
                 /\ \A b \in Ctx : Off(b) < Off(c) => context'[b] < context'[c]
      <4>1. CASE c = infIndex
        <5>1. ASSUME NEW b \in Ctx, Off(b) < Off(c) PROVE context'[b] < r
          <6>1. Off(b) < live /\ b # infIndex
            BY <3>0, <4>1, <5>1, <3>2
          <6>2. context[b] \in 1 .. Len(runs) /\ context[b] # r
            BY <1>17, <1>18, <6>1
          <6> HIDE DEF r
          <6> QED BY <1>2, <3>1, <6>1, <6>2
        <5>2. context'[c] = r /\ r \in DOMAIN runs /\ runs[r]
          BY <1>2, <1>17, <1>18, <2>1, <3>1, <4>1
        <5> QED BY <1>17, <1>18, <5>1, <5>2
      <4>2. CASE c # infIndex
        <5>1. Off(c) < live /\ context'[c] = context[c]
          BY <3>1, <3>2, <3>3, <4>2
        <5>2. ASSUME NEW b \in Ctx, Off(b) < Off(c) PROVE context'[b] < context'[c]
          <6>1. b # infIndex
            <7>1. Off(b) \in Int /\ Off(c) \in Int /\ Off(c) < live /\ Off(b) < Off(c)
              BY <3>2, <5>1, <5>2
            <7>2. Off(b) # live
              <8> HIDE DEF live
              <8> QED BY <1>5, <7>1
            <7> QED BY <3>0, <7>2
          <6> QED BY <1>17, <1>18, <3>1, <5>1, <5>2, <6>1
        <5> QED BY <1>17, <1>18, <5>1, <5>2
      <4> QED BY <4>1, <4>2
    <3>4. ASSUME NEW q \in DOMAIN runs, runs[q]
          PROVE  IsAnswered(q) \/ (\E c \in Ctx : Off(c) < live' /\ context'[c] = q)
      <4>1. CASE q = r
        BY <1>5, <3>1, <3>2, <4>1
      <4>2. CASE \E c \in Ctx : Off(c) < live /\ context[c] = q
        <5>1. PICK c \in Ctx : Off(c) < live /\ context[c] = q
          BY <4>2
        <5>2. c # infIndex /\ Off(c) < live'
          BY <3>0, <3>2, <5>1
        <5> QED BY <3>1, <5>1, <5>2
      <4> QED BY <1>17, <1>18, <3>4, <4>1, <4>2
    <3>5. \A c \in Ctx : IsAnswered(context[c])' <=> IsAnswered(context'[c])
      BY <1>3 DEF IsAnswered
    <3>6. \A c \in Ctx : Off(c)' < live' =>
            /\ context'[c] \in DOMAIN runs' /\ runs'[context'[c]] /\ ~IsAnswered(context[c])'
            /\ \A b \in Ctx : Off(b)' < Off(c)' => context'[b] < context'[c]
      BY <1>1, <1>9, <3>3, <3>5
    <3>7. \A q \in DOMAIN runs' : runs'[q] =>
            IsAnswered(q)' \/ (\E c \in Ctx : Off(c)' < live' /\ context'[c] = q)
      BY <1>1, <1>9, <3>4
    <3>8. Uncounted' # 1
      BY <1>8, <2>1
    <3> QED BY <1>1, <1>3, <1>17, <1>18, <3>6, <3>7, <3>8 DEF WindowInv
  <2>2. CASE ~par
    <3>1. UNCHANGED <<context, runs, answers>> /\ live' = live
      BY <1>1, <1>3, <1>8, <2>2
    <3>2. ~IsAnswered(dispatcher.run)' /\ \A c : IsAnswered(context[c])' = IsAnswered(context[c])
      BY <1>4, <1>17, <1>18, <3>1 DEF IsAnswered
    <3>3. \A q \in DOMAIN runs : runs[q] => q # r
      BY <1>17, <1>18, <2>2
    <3> QED BY <1>4, <1>9, <1>17, <1>18, <3>1, <3>2, <3>3 DEF WindowInv
  <2> QED BY <2>1, <2>2
<1>19. ASSUME OrderInv, ~reused' PROVE DoneInv'
  <2>1. \A c \in resultEvt : context'[c] = context[c]
    <3>1. CASE par
      <4>1. \A c \in resultEvt : c \in Ctx /\ c # infIndex
        BY <1>5, <1>7, <1>19, <3>1 DEF OrderInv, CountInv, TypesInv, CommTypes
      <4> QED BY <1>1, <3>1, <4>1 DEF TypesInv, RawTypes
    <3>2. CASE ~par
      BY <1>1, <3>2
    <3> QED BY <3>1, <3>2
  <2>2. \A i \in {0, 1} : imgs'[i].evt = {}
    BY <1>11, <1>13
  <2>3. dispatcher'.run \notin done
    BY <1>1, <1>4, <1>19 DEF OrderInv, DoneInv
  <2>4. /\ done' \subseteq DOMAIN runs' /\ \A c \in resultEvt' : context'[c] \in done'
        /\ Pending' => comm'.result.run \in done'
        /\ ncpu'.post # Idles => ncpu'.post.run \notin done'
    BY <1>1, <1>9, <1>19, <2>1 DEF OrderInv, DoneInv
  <2> QED BY <1>1, <2>2, <2>3, <2>4 DEF DoneInv
<1>21. ASSUME ~reused' PROVE ~reused
  <2>1. CASE par
    BY <1>1, <1>21, <2>1
  <2>2. CASE ~par
    BY <1>1, <1>21, <2>2
  <2> QED BY <2>1, <2>2
<1> QED BY <1>10, <1>12, <1>14, <1>16, <1>18, <1>19, <1>20, <1>21 DEF CleanInv, MoveInv, OrderInv

LEMMA TriggerKeeps ==
  ASSUME TypesInv, CleanInv, Trigger
  PROVE  CleanInv'
<1> DEFINE r == dispatcher.run
<1>1. /\ dispatcher.at = "trigger" /\ command' = "run"
      /\ dispatcher' = [dispatcher EXCEPT !.at = "wait"]
      /\ ncpu' = [ncpu EXCEPT !.raw = (CHOOSE c \in Ctx : raws[c].run = r)]
      /\ UNCHANGED <<imgs, curIdx, nxtIdx, raws, context, infIndex, numInf, callback, numRes, comm,
                     resultEvt, runs, done, answers, reused>>
  BY DEF Trigger, scpuVars, runHistory
<1>2. Active /\ Cur \in Ctx /\ \A c \in Ctx : raws[c].run = r <=> c = Cur
  BY <1>1, CurFacts DEF Active, CleanInv, MoveInv, DispInv
<1>3. (CHOOSE c \in Ctx : raws[c].run = r) = Cur
  BY <1>2
<1>4. /\ dispatcher'.at = "wait" /\ dispatcher'.run = r /\ dispatcher'.parallel = dispatcher.parallel
      /\ ncpu'.raw = Cur /\ ncpu'.npu = ncpu.npu /\ ncpu'.post = ncpu.post
  BY <1>1, <1>3 DEF TypesInv, ThreadTypes, CommTypes
<1>5. /\ live' = live /\ Kept' = Kept /\ Active' /\ Cur' = Cur /\ Awaited' = Awaited
      /\ Uncounted' = Uncounted /\ Pending' = Pending /\ Flights' = Flights /\ NotYet'
      /\ \A c : Off(c)' = Off(c) /\ IsAnswered(c)' = IsAnswered(c)
      /\ \A w : Mine(w)' = Mine(w)
      /\ Last' = Last
  BY <1>1, <1>2, <1>4 DEF live, Kept, Active, Cur, Awaited, Uncounted, Pending, Flights, NotYet, Off,
     IsAnswered, Mine, Last, Prev
<1>6. ~NotYet /\ ~comm.req /\ (\A i \in {0, 1} : imgs[i].evt = {}) /\ (Pending => comm.result # Idles)
  BY <1>1 DEF CleanInv, MoveInv, StageInv, NotYet
<1>7. ASSUME OrderInv PROVE CountInv'
  BY <1>1, <1>5, <1>7 DEF OrderInv, CountInv
<1>8. DispInv'
  BY <1>1, <1>2, <1>4, <1>5 DEF CleanInv, MoveInv, DispInv
<1>14. ASSUME OrderInv PROVE LiveInv'
  <2>1. dispatcher.parallel => Cur \notin resultEvt /\ Off(Cur) = live - 1
    BY <1>1, <1>14 DEF OrderInv, LiveInv
  <2>2. dispatcher.parallel => Off(Cur)' = live' - 1
    <3>1. Off(Cur)' = Off(Cur)
      BY <1>1, <1>5 DEF Off
    <3> QED BY <1>5, <2>1, <3>1
  <2>3. \A w \in Flights' : raws'[w.raw].parallel => Off(w.raw)' < live' /\ w.raw \notin resultEvt'
    BY <1>1, <1>5, <1>14 DEF OrderInv, LiveInv
  <2> QED BY <1>1, <1>4, <1>5, <2>1, <2>2, <2>3 DEF LiveInv
<1>9. StageInv'
  <2>3. ncpu'.npu = Idles /\ ~comm'.req /\ (\A i \in {0, 1} : imgs'[i].evt = {})
        /\ (Pending' => comm'.result # Idles)
    BY <1>1, <1>4, <1>5, <1>6 DEF NotYet
  <2> QED BY <1>1, <1>4, <1>5, <2>3 DEF StageInv
<1>10. ASSUME NEW w \in Flights PROVE Flying(w)' /\ ~Mine(w)
  <2>1. Flying(w) /\ ~Mine(w)
    BY <1>1 DEF CleanInv, MoveInv, FlightInv, Flying
  <2> QED BY <1>1, <1>5, <2>1 DEF Flying
<1>11. FlightInv'
  <2>1. ~(Pending /\ ncpu.post # Idles)
    BY <1>10 DEF CleanInv, MoveInv, FlightInv, Flights
  <2> QED BY <1>1, <1>4, <1>5, <1>10, <2>1 DEF FlightInv
<1>12. ASSUME OrderInv PROVE WindowInv'
  <2>1. IsAnswered(dispatcher.run)' = IsAnswered(dispatcher.run)
        /\ \A c : IsAnswered(context[c])' = IsAnswered(context[c])
    BY <1>1, <1>4 DEF IsAnswered
  <2> QED BY <1>1, <1>4, <1>5, <1>12, <2>1 DEF OrderInv, WindowInv
<1>13. ASSUME OrderInv PROVE DoneInv'
  BY <1>1, <1>4, <1>5, <1>6, <1>13 DEF OrderInv, DoneInv
<1> QED BY <1>1, <1>7, <1>8, <1>9, <1>11, <1>12, <1>13, <1>14 DEF CleanInv, MoveInv, OrderInv

(* The dispatcher's run is done: the NPU is behind it.                     *)
LEMMA RunReturnsFacts ==
  ASSUME TypesInv, CleanInv, RunReturns
  PROVE  /\ dispatcher.at = "wait" /\ Active /\ dispatcher.run = Len(runs)
         /\ ~NotYet /\ ~comm.req /\ (\A i \in {0, 1} : imgs'[i].evt = {})
         /\ \A i \in {0, 1} : imgs'[i].result = imgs[i].result
         /\ ~(Pending /\ ncpu.post # Idles)
         /\ \A w \in Flights : dispatcher.parallel /\ Flying(w) /\ Mine(w) /\ w.raw = Cur
                               /\ raws[w.raw].ref = curIdx
         /\ OrderInv /\ ~dispatcher.parallel => dispatcher.run \in done
<1>1. /\ dispatcher.at = "wait" /\ Awaited \in imgs[curIdx].evt /\ curIdx \in {0, 1}
      /\ imgs' = [imgs EXCEPT ![curIdx].evt = @ \ {Awaited}]
  BY DEF RunReturns, TypesInv, ImgTypes
<1>2. Active /\ dispatcher.run = Len(runs)
  BY <1>1 DEF Active, TypesInv, RunTypes
<1>3. imgs[curIdx].evt # {}
  BY <1>1
<1>4. /\ ~NotYet /\ ~comm.req /\ imgs[curIdx].evt = {Awaited}
      /\ \A i \in {0, 1} : imgs[i].evt # {} => i = curIdx
      /\ \A w \in Flights : dispatcher.parallel /\ Mine(w)
  BY <1>1, <1>3 DEF CleanInv, MoveInv, StageInv
<1>5. \A i \in {0, 1} : imgs'[i].evt = {} /\ imgs'[i].result = imgs[i].result
  BY <1>1, <1>4 DEF TypesInv, ImgTypes
<1>6. ~(Pending /\ ncpu.post # Idles)
  BY <1>4 DEF CleanInv, MoveInv, FlightInv, Flights
<1>7. \A w \in Flights : Flying(w) /\ w.raw \in Ctx
  BY FlightFacts DEF CleanInv, MoveInv, FlightInv
<1>8. \A w \in Flights : w.raw = Cur /\ raws[w.raw].ref = curIdx
  BY <1>2, <1>4, <1>7 DEF Flying, Mine, CleanInv, MoveInv, DispInv
<1>9. OrderInv /\ ~dispatcher.parallel => dispatcher.run \in done
  BY <1>1, <1>3 DEF OrderInv, DoneInv
<1> QED BY <1>1, <1>2, <1>4, <1>5, <1>6, <1>7, <1>8, <1>9

LEMMA RunReturnsKeeps ==
  ASSUME TypesInv, CleanInv, RunReturns
  PROVE  CleanInv'
<1> DEFINE r == dispatcher.run
           par == dispatcher.parallel
<1>1. /\ dispatcher' = Idle
      /\ IF par THEN UNCHANGED answers ELSE Send(r)
      /\ UNCHANGED <<curIdx, nxtIdx, raws, context, infIndex, numInf, callback, numRes, comm, ncpu,
                     command, resultEvt, runs, done, reused>>
  BY DEF RunReturns, ncpuMem
<1>2. /\ dispatcher.at = "wait" /\ Active /\ r = Len(runs)
      /\ ~NotYet /\ ~comm.req /\ (\A i \in {0, 1} : imgs'[i].evt = {})
      /\ \A i \in {0, 1} : imgs'[i].result = imgs[i].result
      /\ ~(Pending /\ ncpu.post # Idles)
      /\ \A w \in Flights : par /\ Flying(w) /\ Mine(w) /\ w.raw = Cur /\ raws[w.raw].ref = curIdx
      /\ OrderInv /\ ~par => r \in done
  BY RunReturnsFacts
<1>3. /\ dispatcher'.at = "idle" /\ dispatcher'.parallel = FALSE /\ ~Active'
      /\ live' = live /\ Kept' = nxtIdx /\ Uncounted' = 0
      /\ Pending' = Pending /\ Flights' = Flights /\ ~NotYet'
      /\ \A c : Off(c)' = Off(c)
      /\ Last' = Prev(infIndex)
      /\ \A w : ~Mine(w)'
  BY <1>1, <1>2 DEF Idle, Active, live, Kept, Uncounted, Pending, Flights, NotYet, Off, Mine,
     Last, Prev
<1>4. par \in BOOLEAN /\ Uncounted = (IF par THEN 0 ELSE 1)
  BY <1>2 DEF TypesInv, ThreadTypes, Uncounted
<1>5. Len(answers') = Len(answers) + (IF par THEN 0 ELSE 1) /\ Len(answers) \in Nat
      /\ Len(runs) \in Nat
  <2>1. r \in 1 .. MaxRuns
    BY <1>2 DEF TypesInv, RunTypes, HistoryTypes
  <2>2. CASE par
    BY <1>1, <2>2 DEF TypesInv, HistoryTypes
  <2>3. CASE ~par
    BY <1>1, <2>1, <2>3, SendType DEF TypesInv, HistoryTypes
  <2> QED BY <2>2, <2>3
<1>6. ASSUME OrderInv PROVE CountInv'
  <2>1. live \in Int
    BY CurFacts
  <2>2. live \in 0 .. Contexts /\ Len(runs) - Len(answers) = live + Uncounted
    BY <1>6 DEF OrderInv, CountInv
  <2>3. Len(runs) - Len(answers') = live + 0
    <3> HIDE DEF live
    <3> QED BY <1>4, <1>5, <2>1, <2>2, Bounds
  <2> QED BY <1>1, <1>3, <1>6, <2>3 DEF OrderInv, CountInv
<1>7. DispInv'
  BY <1>1, <1>3 DEF CleanInv, MoveInv, DispInv
<1>8. StageInv'
  <2>1. Pending => comm.result # Idles
    BY DEF CleanInv, MoveInv, StageInv
  <2> QED BY <1>1, <1>2, <1>3, <2>1 DEF StageInv, NotYet
<1>9. ASSUME NEW w \in Flights PROVE Flying(w)'
  <2>1. Flying(w) /\ par /\ raws[w.raw].ref = curIdx /\ w.raw = Cur /\ Mine(w)
    BY <1>2
  <2>2. raws[Cur].parallel = par /\ nxtIdx = 1 - curIdx
    BY <1>2, <2>1 DEF CleanInv, MoveInv, DispInv
  <2>3. raws[w.raw].parallel /\ curIdx \in {0, 1} /\ raws[w.raw].ref # nxtIdx
    BY <2>1, <2>2 DEF TypesInv, ImgTypes
  <2>4. /\ raws[w.raw].run = w.run
        /\ imgs[raws[w.raw].ref].result = w.raw /\ context[w.raw] = w.run
        /\ w.raw = Prev(infIndex)
    BY <1>2, <2>1, <2>3 DEF Flying, Cur
  <2> QED BY <1>1, <1>2, <1>3, <2>1, <2>3, <2>4 DEF Flying
<1>10. FlightInv'
  BY <1>1, <1>2, <1>3, <1>9 DEF FlightInv
<1>13. ASSUME OrderInv PROVE LiveInv'
  BY <1>1, <1>3, <1>13 DEF OrderInv, LiveInv, Idle
<1>11. ASSUME OrderInv PROVE WindowInv'
  <2>1. /\ \A c \in Ctx : Off(c) < live =>
             /\ context[c] \in DOMAIN runs /\ runs[context[c]] /\ ~IsAnswered(context[c])
             /\ \A b \in Ctx : Off(b) < Off(c) => context[b] < context[c]
        /\ \A q \in DOMAIN runs : runs[q] =>
             IsAnswered(q) \/ (\E c \in Ctx : Off(c) < live /\ context[c] = q)
        /\ \A i \in DOMAIN answers : answers[i] \in DOMAIN runs
        /\ ~par => \A c \in Ctx : Off(c) < live => context[c] # r
    BY <1>2, <1>4, <1>11 DEF OrderInv, WindowInv
  <2>2. CASE par
    <3>1. \A c : IsAnswered(c)' = IsAnswered(c)
      BY <1>1, <2>2 DEF IsAnswered
    <3>2. \A c : IsAnswered(context[c])' = IsAnswered(context[c])
      BY <1>1, <2>2 DEF IsAnswered
    <3> QED BY <1>1, <1>3, <2>1, <2>2, <3>1, <3>2 DEF WindowInv
  <2>3. CASE ~par
    <3>1. Send(r)
      BY <1>1, <2>3
    <3>2. \A c : IsAnswered(c)' <=> c = r \/ IsAnswered(c)
      BY <3>1, AnsweredNext DEF TypesInv
    <3>3. \A c : IsAnswered(context[c])' <=> context[c] = r \/ IsAnswered(context[c])
      <4>1. ASSUME NEW c PROVE IsAnswered(context[c])' <=> context[c] = r \/ IsAnswered(context[c])
        <5> DEFINE q == context[c]
        <5>1. IsAnswered(q)' <=> q = r \/ IsAnswered(q)
          BY <1>1, <3>2 DEF IsAnswered
        <5> QED BY <5>1
      <4> QED BY <4>1
    <3>4. \A i \in DOMAIN answers' : answers'[i] \in DOMAIN runs
      <4>1. r \in DOMAIN runs
        BY <1>2 DEF TypesInv, RunTypes, HistoryTypes
      <4>2. answers \in Seq(1 .. MaxRuns) /\ answers' = Append(answers, r)
        BY <3>1 DEF Send, TypesInv, HistoryTypes
      <4> QED BY <2>1, <4>1, <4>2
    <3> QED BY <1>1, <1>3, <2>1, <2>3, <3>2, <3>3, <3>4 DEF WindowInv
  <2> QED BY <2>2, <2>3
<1>12. ASSUME OrderInv PROVE DoneInv'
  BY <1>1, <1>2, <1>3, <1>12 DEF OrderInv, DoneInv
<1> QED BY <1>1, <1>6, <1>7, <1>8, <1>10, <1>11, <1>12, <1>13 DEF CleanInv, MoveInv, OrderInv

-----------------------------------------------------------------------------
(* The interrupt's reports.                                                *)

(* The dispatcher is told: the NPU is done, or the run that is not in      *)
(* parallel is.                                                            *)
Told == comm.req \/ (Pending /\ ~raws[comm.result.raw].parallel)

LEMMA ToldFacts ==
  ASSUME TypesInv, CleanInv, Told
  PROVE  /\ dispatcher.at = "wait" /\ Active /\ ~NotYet /\ curIdx \in {0, 1}
         /\ imgs[curIdx].caller = Awaited /\ imgs[curIdx].evt \subseteq {Awaited}
         /\ \A w \in Flights \ {comm.result} : dispatcher.parallel /\ Mine(w)
         /\ OrderInv /\ ~dispatcher.parallel => dispatcher.run \in done
         /\ comm.req => dispatcher.parallel
         /\ Pending /\ ~raws[comm.result.raw].parallel =>
              ncpu.post = Idles /\ ~dispatcher.parallel /\ raws[comm.result.raw].ref = curIdx
<1> DEFINE w == comm.result
<1>1. curIdx \in {0, 1}
  BY DEF TypesInv, ImgTypes
<1>2. ASSUME comm.req
      PROVE  /\ dispatcher.at = "wait" /\ dispatcher.parallel /\ ~NotYet
             /\ ncpu.post # Idles => Mine(ncpu.post)
  BY <1>2 DEF CleanInv, MoveInv, StageInv
<1>3. ASSUME Pending, ~raws[w.raw].parallel
      PROVE  /\ Mine(w) /\ dispatcher.at = "wait" /\ ~NotYet /\ ncpu.post = Idles
             /\ ~dispatcher.parallel /\ raws[w.raw].ref = curIdx /\ (OrderInv => dispatcher.run \in done)
  <2>1. w \in Flights
    BY <1>3 DEF Flights
  <2>2. Flying(w) /\ w.raw \in Ctx
    BY <2>1, FlightFacts DEF CleanInv, MoveInv, FlightInv
  <2>3. Mine(w) /\ raws[w.raw].run = w.run
    BY <1>3, <2>2 DEF Flying
  <2>4. dispatcher.at = "wait" /\ ~NotYet /\ ncpu.post = Idles
    BY <1>3, <2>2, <2>3 DEF Flying, CleanInv, MoveInv, FlightInv
  <2>5. Active /\ w.raw = Cur
    BY <2>2, <2>3 DEF Mine, CleanInv, MoveInv, DispInv
  <2>6. raws[Cur].ref = curIdx /\ raws[Cur].parallel = dispatcher.parallel
    BY <2>5 DEF CleanInv, MoveInv, DispInv
  <2>7. OrderInv => dispatcher.run \in done
    BY <1>3, <2>3 DEF Mine, OrderInv, DoneInv
  <2> QED BY <1>3, <2>3, <2>4, <2>5, <2>6, <2>7
<1>4. dispatcher.at = "wait" /\ ~NotYet
  BY <1>2, <1>3 DEF Told
<1>5. imgs[curIdx].caller = Awaited
  BY <1>4 DEF CleanInv, MoveInv, DispInv
<1>6. imgs[curIdx].evt \subseteq {Awaited}
  BY <1>1 DEF CleanInv, MoveInv, StageInv
<1>7. \A v \in Flights \ {w} : dispatcher.parallel /\ Mine(v)
  <2>1. \A v \in Flights \ {w} : v = ncpu.post /\ ncpu.post # Idles
    BY DEF Flights
  <2> QED BY <1>2, <1>3, <2>1 DEF Told
<1>8. OrderInv /\ ~dispatcher.parallel => dispatcher.run \in done
  BY <1>2, <1>3 DEF Told
<1>9. comm.req => dispatcher.parallel
  BY <1>2
<1>10. Pending /\ ~raws[w.raw].parallel =>
         ncpu.post = Idles /\ ~dispatcher.parallel /\ raws[w.raw].ref = curIdx
  BY <1>3
<1> QED BY <1>1, <1>4, <1>5, <1>6, <1>7, <1>8, <1>9, <1>10 DEF Active

LEMMA LookFacts ==
  ASSUME TypesInv, CleanInv, HandleFlags
  PROVE  /\ \A i \in {0, 1} :
              /\ imgs'[i].result = imgs[i].result /\ imgs'[i].caller = imgs[i].caller
              /\ imgs'[i].evt = IF i = curIdx /\ Told THEN {Awaited} ELSE imgs[i].evt
         /\ resultEvt' = IF Pending /\ raws[comm.result.raw].parallel
                         THEN resultEvt \cup {comm.result.raw} ELSE resultEvt
<1> DEFINE s == AfterResult
           w == comm.result
           i == raws[w.raw].ref
           p == Pending /\ ~raws[w.raw].parallel
<1>1. /\ imgs' = IF comm.req THEN [s.imgs EXCEPT ![curIdx].evt = @ \cup {s.imgs[curIdx].caller}]
                 ELSE s.imgs
      /\ resultEvt' = s.result
  BY DEF HandleFlags
<1>2. s = IF ~comm.pending THEN [imgs |-> imgs, result |-> resultEvt, alone |-> aloneEvt]
          ELSE IF comm.type = "alone" THEN [imgs |-> imgs, result |-> resultEvt, alone |-> TRUE]
          ELSE IF imgs[i].result # None
          THEN [imgs |-> imgs, result |-> resultEvt \cup {imgs[i].result}, alone |-> aloneEvt]
          ELSE [imgs |-> [imgs EXCEPT ![i].evt = @ \cup {imgs[i].caller}], result |-> resultEvt,
                alone |-> aloneEvt]
  BY DEF AfterResult
<1>3. /\ imgs \in [{0, 1} -> [result : Ctx \cup {None}, caller : Events, evt : SUBSET Events]]
      /\ curIdx \in {0, 1} /\ comm.type \in {"postproc", "alone"}
      /\ Pending <=> comm.pending /\ comm.type # "alone"
  BY DEF TypesInv, ImgTypes, CommTypes, Pending
<1>4. Pending /\ raws[w.raw].parallel => imgs[i].result = w.raw /\ w.raw \in Ctx
  <2>1. Pending => w \in Flights
    BY DEF Flights
  <2>2. Pending => Flying(w) /\ w.raw \in Ctx
    BY <2>1, FlightFacts DEF CleanInv, MoveInv, FlightInv
  <2> QED BY <2>2 DEF Flying
<1>5. p => /\ i = curIdx /\ imgs[curIdx].caller = Awaited /\ imgs[curIdx].evt \subseteq {Awaited}
           /\ imgs[curIdx].result = None /\ ~comm.req
  <2>1. ASSUME p PROVE imgs[curIdx].result = None
    <3>1. dispatcher.at = "wait" /\ ~dispatcher.parallel
      BY <2>1, ToldFacts DEF Told
    <3> QED BY <3>1 DEF CleanInv, MoveInv, DispInv
  <2> QED BY <2>1, ToldFacts DEF Told
<1>6. /\ \A k \in {0, 1} : /\ s.imgs[k].result = imgs[k].result /\ s.imgs[k].caller = imgs[k].caller
                           /\ s.imgs[k].evt = IF k = curIdx /\ p THEN {Awaited} ELSE imgs[k].evt
      /\ s.result = IF Pending /\ raws[w.raw].parallel THEN resultEvt \cup {w.raw} ELSE resultEvt
      /\ s.imgs \in [{0, 1} -> [result : Ctx \cup {None}, caller : Events, evt : SUBSET Events]]
  <2> HIDE DEF s, i
  <2>1. CASE ~Pending
    <3>1. s.imgs = imgs /\ s.result = resultEvt /\ ~p
      BY <1>2, <1>3, <2>1
    <3> QED BY <1>3, <2>1, <3>1
  <2>2. CASE Pending /\ raws[w.raw].parallel
    <3>1. imgs[i].result = w.raw /\ w.raw # None
      BY <1>4, <2>2, Bounds
    <3>2. s.imgs = imgs /\ s.result = resultEvt \cup {w.raw} /\ ~p
      BY <1>2, <1>3, <2>2, <3>1
    <3> QED BY <1>3, <2>2, <3>2
  <2>3. CASE p
    <3> DEFINE new == [imgs EXCEPT ![curIdx].evt = @ \cup {imgs[curIdx].caller}]
    <3>1. s.imgs = new /\ s.result = resultEvt
      BY <1>2, <1>3, <1>5, <2>3
    <3>2. /\ new \in [{0, 1} -> [result : Ctx \cup {None}, caller : Events, evt : SUBSET Events]]
          /\ \A k \in {0, 1} : /\ new[k].result = imgs[k].result /\ new[k].caller = imgs[k].caller
                               /\ new[k].evt = IF k = curIdx THEN imgs[k].evt \cup {imgs[k].caller}
                                               ELSE imgs[k].evt
      BY <1>3
    <3>3. imgs[curIdx].evt \cup {imgs[curIdx].caller} = {Awaited}
      BY <1>5, <2>3
    <3> HIDE DEF new
    <3> QED BY <1>3, <2>3, <3>1, <3>2, <3>3
  <2> QED BY <2>1, <2>2, <2>3
<1> HIDE DEF s
<1>7. CASE ~comm.req
  <2>1. Told <=> p
    BY <1>7 DEF Told
  <2> QED BY <1>1, <1>6, <1>7, <2>1
<1>8. CASE comm.req
  <2>1. ~p /\ Told
    BY <1>5, <1>8 DEF Told
  <2>2. imgs[curIdx].caller = Awaited /\ imgs[curIdx].evt \subseteq {Awaited}
    BY <2>1, ToldFacts
  <2> DEFINE new == [s.imgs EXCEPT ![curIdx].evt = @ \cup {s.imgs[curIdx].caller}]
  <2>3. \A k \in {0, 1} : /\ new[k].result = s.imgs[k].result /\ new[k].caller = s.imgs[k].caller
                          /\ new[k].evt = IF k = curIdx THEN s.imgs[k].evt \cup {s.imgs[k].caller}
                                          ELSE s.imgs[k].evt
    BY <1>3, <1>6
  <2>4. imgs' = new
    BY <1>1, <1>8
  <2>5. s.imgs[curIdx].evt \cup {s.imgs[curIdx].caller} = {Awaited}
    BY <1>3, <1>6, <2>1, <2>2
  <2>6. \A k \in {0, 1} : /\ new[k].result = imgs[k].result /\ new[k].caller = imgs[k].caller
                          /\ new[k].evt = IF k = curIdx THEN {Awaited} ELSE imgs[k].evt
    <3> HIDE DEF new
    <3> QED BY <1>6, <2>1, <2>3, <2>5
  <2> HIDE DEF new
  <2> QED BY <1>1, <1>6, <2>1, <2>4, <2>6
<1> QED BY <1>7, <1>8

LEMMA LookKeeps ==
  ASSUME TypesInv, CleanInv, NCPU_IRQHandler, Look
  PROVE  CleanInv'
<1> DEFINE w == comm.result
           par == Pending /\ raws[w.raw].parallel
<1>1. /\ HandleFlags
      /\ comm' = [comm EXCEPT !.pending = FALSE, !.req = FALSE]
      /\ UNCHANGED <<curIdx, nxtIdx, raws, context, infIndex, numInf, dispatcher, callback, numRes,
                     ncpu, command, runs, done, answers, reused>>
  BY DEF NCPU_IRQHandler, Look, HandleFlags, threadVars, runHistory
<1>2. /\ \A i \in {0, 1} :
            /\ imgs'[i].result = imgs[i].result /\ imgs'[i].caller = imgs[i].caller
            /\ imgs'[i].evt = IF i = curIdx /\ Told THEN {Awaited} ELSE imgs[i].evt
      /\ resultEvt' = IF par THEN resultEvt \cup {w.raw} ELSE resultEvt
  BY <1>1, LookFacts
<1>3. ~comm'.pending /\ ~comm'.req /\ comm'.result = comm.result
  BY <1>1 DEF TypesInv, CommTypes
<1>4. /\ live' = live /\ Kept' = Kept /\ Active' = Active /\ Cur' = Cur /\ Awaited' = Awaited
      /\ Uncounted' = Uncounted /\ ~Pending' /\ NotYet' = NotYet
      /\ \A c : Off(c)' = Off(c) /\ IsAnswered(c)' = IsAnswered(c)
      /\ Last' = Last
      /\ \A v : Mine(v)' = Mine(v)
      /\ Flights' \subseteq {ncpu.post} /\ Flights' \subseteq Flights
      /\ \A v \in Flights' : ncpu.post # Idles
  BY <1>1, <1>3 DEF live, Kept, Active, Cur, Awaited, Uncounted, Pending, Flights, NotYet, Off,
     IsAnswered, Mine, Last, Prev
<1>5. par => /\ w \in Flights /\ Flying(w) /\ w.raw \in Ctx
             /\ context[w.raw] = w.run /\ raws[w.raw].run = w.run
             /\ OrderInv => w.run \in done /\ Off(w.raw) < live
  <2>1. par => w \in Flights
    BY DEF Flights
  <2>2. par => Flying(w) /\ w.raw \in Ctx
    BY <2>1, FlightFacts DEF CleanInv, MoveInv, FlightInv
  <2>3. par /\ OrderInv => w.run \in done /\ Off(w.raw) < live
    BY <2>1 DEF OrderInv, DoneInv, LiveInv
  <2> QED BY <2>1, <2>2, <2>3 DEF Flying
<1>6. ASSUME OrderInv PROVE CountInv'
  <2>1. \A c \in resultEvt' : Off(c)' < live'
    BY <1>2, <1>4, <1>5, <1>6 DEF OrderInv, CountInv
  <2> QED BY <1>1, <1>4, <1>6, <2>1 DEF OrderInv, CountInv
<1>7. DispInv'
  <2>1. curIdx \in {0, 1}
    BY DEF TypesInv, ImgTypes
  <2> QED BY <1>1, <1>2, <1>4, <2>1 DEF CleanInv, MoveInv, DispInv
<1>8. StageInv'
  <2>1. ASSUME NEW i \in {0, 1}, imgs'[i].evt # {}
        PROVE  /\ i = curIdx /\ dispatcher.at = "wait" /\ imgs'[i].evt = {Awaited} /\ ~NotYet
               /\ \A v \in Flights' : dispatcher.parallel /\ Mine(v)
    <3>1. CASE i = curIdx /\ Told
      <4>1. dispatcher.at = "wait" /\ ~NotYet /\ \A v \in Flights \ {w} : dispatcher.parallel /\ Mine(v)
        BY <3>1, ToldFacts
      <4>2. ASSUME NEW v \in Flights' PROVE dispatcher.parallel /\ Mine(v)
        <5>1. v = ncpu.post /\ ncpu.post # Idles /\ v \in Flights
          BY <1>4
        <5>2. CASE comm.req
          BY <5>1, <5>2, ToldFacts DEF Told, CleanInv, MoveInv, StageInv
        <5>3. CASE ~comm.req
          BY <5>1, <5>3, <3>1, ToldFacts DEF Told
        <5> QED BY <5>2, <5>3
      <4> QED BY <1>2, <3>1, <4>1, <4>2
    <3>2. CASE ~(i = curIdx /\ Told)
      <4>1. imgs'[i].evt = imgs[i].evt
        BY <1>2, <3>2
      <4> QED BY <1>4, <2>1, <4>1 DEF CleanInv, MoveInv, StageInv
    <3> QED BY <3>1, <3>2
  <2>4. /\ command = "run" => dispatcher.at = "wait" /\ ncpu.raw = Cur /\ ncpu.npu = Idles
        /\ ncpu.npu # Idles => dispatcher.at = "wait" /\ ncpu.npu = [raw |-> Cur, run |-> dispatcher.run]
    BY DEF CleanInv, MoveInv, StageInv
  <2> QED BY <1>1, <1>3, <1>4, <2>1, <2>4 DEF StageInv
<1>12. ASSUME OrderInv PROVE LiveInv'
  <2>2. ASSUME dispatcher.at = "trigger" \/ NotYet, dispatcher.parallel
        PROVE  Cur \notin resultEvt' /\ Off(Cur) = live - 1
    <3>1. Cur \notin resultEvt /\ Off(Cur) = live - 1
      BY <1>12, <2>2 DEF OrderInv, LiveInv
    <3>2. Active
      BY <2>2 DEF CleanInv, MoveInv, StageInv, Active, NotYet
    <3>3. ASSUME par PROVE w.raw # Cur
      <4>1. SUFFICES ASSUME w.raw = Cur PROVE FALSE
        OBVIOUS
      <4>2. w.run = dispatcher.run
        BY <1>5, <3>2, <3>3, <4>1 DEF CleanInv, MoveInv, DispInv
      <4>3. Mine(w)
        BY <3>2, <4>2 DEF Mine
      <4> QED BY <1>5, <2>2, <3>3, <4>3 DEF Flying
    <3> QED BY <1>2, <3>1, <3>3
  <2>3. Off(Cur)' = Off(Cur)
    BY <1>1, <1>4 DEF Off
  <2>4. ASSUME NEW v \in Flights', raws[v.raw].parallel
        PROVE  Off(v.raw) < live /\ v.raw \notin resultEvt'
    <3>1. v = ncpu.post /\ ncpu.post # Idles /\ v \in Flights
      BY <1>4
    <3>2. Flying(v) /\ Off(v.raw) < live /\ v.raw \notin resultEvt
      BY <1>12, <2>4, <3>1 DEF CleanInv, MoveInv, FlightInv, OrderInv, LiveInv
    <3>3. ASSUME par PROVE v.raw # w.raw
      <4>1. Mine(v) /\ ~Mine(w)
        BY <3>1, <3>3 DEF CleanInv, MoveInv, FlightInv
      <4>2. v.run # w.run
        BY <4>1 DEF Mine
      <4> QED BY <1>5, <3>2, <3>3, <4>2 DEF Flying
    <3> QED BY <1>2, <3>2, <3>3
  <2> QED BY <1>1, <1>4, <2>2, <2>3, <2>4 DEF LiveInv
<1>9. FlightInv'
  <2>1. ASSUME NEW v \in Flights' PROVE Flying(v)'
    <3>1. v = ncpu.post /\ ncpu.post # Idles /\ v \in Flights
      BY <1>4
    <3>2. Flying(v) /\ v.raw \in Ctx
      BY <3>1, FlightFacts DEF CleanInv, MoveInv, FlightInv
    <3>5. raws[v.raw].ref \in {0, 1}
      BY <3>2 DEF TypesInv, RawTypes
    <3>6. imgs'[raws[v.raw].ref].result = imgs[raws[v.raw].ref].result
      BY <1>2, <3>5
    <3> QED BY <1>1, <1>4, <3>2, <3>6 DEF Flying
  <2> QED BY <1>4, <2>1 DEF FlightInv
<1>10. ASSUME OrderInv PROVE WindowInv'
  <2>1. IsAnswered(dispatcher.run)' = IsAnswered(dispatcher.run)
        /\ \A c : IsAnswered(context[c])' = IsAnswered(context[c])
    BY <1>1 DEF IsAnswered
  <2> QED BY <1>1, <1>4, <1>10, <2>1 DEF OrderInv, WindowInv
<1>11. ASSUME OrderInv PROVE DoneInv'
  <2>1. \A c \in resultEvt' : context[c] \in done
    BY <1>2, <1>5, <1>11 DEF OrderInv, DoneInv
  <2>2. ASSUME NEW i \in {0, 1}, imgs'[i].evt # {}, ~dispatcher.parallel PROVE dispatcher.run \in done
    <3>1. CASE i = curIdx /\ Told
      BY <1>11, <2>2, <3>1, ToldFacts
    <3>2. CASE ~(i = curIdx /\ Told)
      <4>1. imgs'[i].evt = imgs[i].evt
        BY <1>2, <3>2
      <4> QED BY <1>11, <2>2, <4>1 DEF OrderInv, DoneInv
    <3> QED BY <3>1, <3>2
  <2>3. /\ done \subseteq DOMAIN runs
        /\ ncpu.post # Idles => ncpu.post.run \notin done
        /\ dispatcher.at \in {"configured", "trigger"} \/ NotYet => dispatcher.run \notin done
    BY <1>11 DEF OrderInv, DoneInv
  <2> QED BY <1>1, <1>4, <2>1, <2>2, <2>3 DEF DoneInv
<1> QED BY <1>1, <1>6, <1>7, <1>8, <1>9, <1>10, <1>11, <1>12 DEF CleanInv, MoveInv, OrderInv

-----------------------------------------------------------------------------
(* The callback thread's answer: the first context leaves the window.      *)

LEMMA WindowShrinks ==
  ASSUME NEW size \in Nat, NEW x \in 0 .. size - 1, NEW n \in 1 .. size, NEW y,
         y = IF x + 1 = size THEN 0 ELSE x + 1
  PROVE  (IF x + n < size THEN x + n ELSE x + n - size) =
           IF y + (n - 1) < size THEN y + (n - 1) ELSE y + (n - 1) - size
OBVIOUS

LEMMA CallbackResultFacts ==
  ASSUME TypesInv, OrderInv, CallbackResult
  PROVE  LET x == callback.index IN
         /\ x \in Ctx /\ Off(x) = 0 /\ live \in 1 .. Contexts /\ live' = live - 1
         /\ \A c \in Ctx : Off(c) \in 0 .. Contexts - 1 /\ (Off(c) = 0 <=> c = x)
         /\ \A c \in Ctx : Off(c)' = IF c = x THEN Contexts - 1 ELSE Off(c) - 1
         /\ \A c \in Ctx : Off(c)' < live' <=> c # x /\ Off(c) < live
         /\ \A b, c \in Ctx : Off(c)' < live' /\ Off(b)' < Off(c)' =>
              b # x /\ Off(b) < Off(c) /\ Off(x) < Off(c)
         /\ context[x] \in DOMAIN runs /\ runs[context[x]] /\ ~IsAnswered(context[x])
         /\ context[x] \in done
         /\ \A c \in Ctx : c # x /\ Off(c) < live => context[c] # context[x]
<1> DEFINE x == callback.index
<1>1. /\ resultEvt = {x} /\ numRes' = numRes + 1 /\ UNCHANGED <<numInf, context>>
      /\ callback' = [callback EXCEPT !.index = (x + 1) % Contexts, !.timeouts = 0]
  BY DEF CallbackResult, scpuVars, TypesInv, ThreadTypes
<1>2. /\ x \in Ctx /\ Off(x) = 0
      /\ \A c \in Ctx : Off(c) \in 0 .. Contexts - 1 /\ (Off(c) = 0 <=> c = x)
  BY OffFacts
<1>3. callback'.index = (x + 1) % Contexts
  <2> DEFINE n == (x + 1) % Contexts
  <2>1. callback' = [callback EXCEPT !.index = n, !.timeouts = 0]
    BY <1>1
  <2> HIDE DEF n
  <2>2. callback'.index = n
    BY <2>1 DEF TypesInv, ThreadTypes
  <2> QED BY <2>2 DEF n
<1>4. \A c \in Ctx : Off(c)' = IF c = x THEN Contexts - 1 ELSE Off(c) - 1
  BY <1>3, OffMoves
<1>5. live \in 0 .. Contexts /\ live \in Int /\ Off(x) < live
  BY <1>1, CurFacts DEF OrderInv, CountInv
<1>6. live \in 1 .. Contexts
  BY <1>2, <1>5, Bounds
<1>7. live' = live - 1
  BY <1>1 DEF live, TypesInv, RawTypes
<1> HIDE DEF x
<1>8. \A c \in Ctx : Off(c)' < live' <=> c # x /\ Off(c) < live
  <2>1. ASSUME NEW c \in Ctx PROVE Off(c)' < live' <=> c # x /\ Off(c) < live
    <3>1. Off(c) \in Int /\ Off(c)' = IF c = x THEN Contexts - 1 ELSE Off(c) - 1
      BY <1>2, <1>4, Bounds
    <3>2. live' = live - 1 /\ live <= Contexts /\ live \in Int /\ Contexts \in Int
      BY <1>5, <1>6, <1>7, Bounds
    <3> QED BY <3>1, <3>2
  <2> QED BY <2>1
<1>9. \A b, c \in Ctx : Off(c)' < live' /\ Off(b)' < Off(c)' =>
        b # x /\ Off(b) < Off(c) /\ Off(x) < Off(c)
  <2>1. ASSUME NEW b \in Ctx, NEW c \in Ctx, Off(c)' < live', Off(b)' < Off(c)'
        PROVE  b # x /\ Off(b) < Off(c) /\ Off(x) < Off(c)
    <3>1. /\ Off(b) \in 0 .. Contexts - 1 /\ Off(b)' = IF b = x THEN Contexts - 1 ELSE Off(b) - 1
          /\ Off(c) \in 0 .. Contexts - 1 /\ Off(c)' = IF c = x THEN Contexts - 1 ELSE Off(c) - 1
          /\ Off(c) = 0 <=> c = x
      BY <1>2, <1>4
    <3>2. c # x /\ Contexts \in Int /\ Off(x) = 0
      BY <1>2, <1>8, <2>1, Bounds
    <3> QED BY <2>1, <3>1, <3>2
  <2> QED BY <2>1
<1>10. context[x] \in DOMAIN runs /\ runs[context[x]] /\ ~IsAnswered(context[x])
  BY <1>2, <1>5 DEF OrderInv, WindowInv
<1>11. context[x] \in done
  BY <1>1 DEF OrderInv, DoneInv
<1>12. ASSUME NEW c \in Ctx, c # x, Off(c) < live PROVE context[c] # context[x]
  <2>1. Off(x) < Off(c)
    <3>1. Off(c) \in 0 .. Contexts - 1 /\ Off(c) # 0 /\ Off(x) = 0
      BY <1>2, <1>12
    <3> QED BY <3>1, Bounds
  <2>2. context[x] < context[c] /\ context[x] \in Nat /\ context[c] \in Nat
    BY <1>2, <1>12, <2>1, Bounds DEF OrderInv, WindowInv, TypesInv, RawTypes
  <2> QED BY <2>2
<1> QED BY <1>2, <1>4, <1>6, <1>7, <1>8, <1>9, <1>10, <1>11, <1>12 DEF x

LEMMA CallbackResultKeeps ==
  ASSUME TypesInv, CleanInv, CallbackResult
  PROVE  CleanInv'
<1> DEFINE x == callback.index
           q == context[x]
<1>1. /\ resultEvt = {x} /\ resultEvt' = {} /\ Send(q)
      /\ callback' = [callback EXCEPT !.index = (x + 1) % Contexts, !.timeouts = 0]
      /\ UNCHANGED <<imgs, curIdx, nxtIdx, raws, context, infIndex, numInf, dispatcher, comm, ncpu,
                     command, runs, done, reused>>
  BY DEF CallbackResult, scpuVars, ncpuMem, TypesInv, ThreadTypes
<1>2. ASSUME OrderInv
      PROVE
      /\ x \in Ctx /\ Off(x) = 0 /\ live \in 1 .. Contexts /\ live' = live - 1
      /\ \A c \in Ctx : Off(c) \in 0 .. Contexts - 1 /\ (Off(c) = 0 <=> c = x)
      /\ \A c \in Ctx : Off(c)' = IF c = x THEN Contexts - 1 ELSE Off(c) - 1
      /\ \A c \in Ctx : Off(c)' < live' <=> c # x /\ Off(c) < live
      /\ \A b, c \in Ctx : Off(c)' < live' /\ Off(b)' < Off(c)' =>
           b # x /\ Off(b) < Off(c) /\ Off(x) < Off(c)
      /\ q \in DOMAIN runs /\ runs[q] /\ ~IsAnswered(q) /\ q \in done
      /\ \A c \in Ctx : c # x /\ Off(c) < live => context[c] # q
  BY <1>2, CallbackResultFacts
<1>3. /\ Kept' = Kept /\ Active' = Active /\ Cur' = Cur /\ Awaited' = Awaited
      /\ Uncounted' = Uncounted /\ Pending' = Pending /\ NotYet' = NotYet /\ Flights' = Flights
      /\ Last' = Last
      /\ \A v : Mine(v)' = Mine(v)
  BY <1>1 DEF Kept, Active, Cur, Awaited, Uncounted, Pending, Flights, NotYet, Mine, Last, Prev
<1>4. \A p : IsAnswered(p)' <=> p = q \/ IsAnswered(p)
  BY <1>1, AnsweredNext DEF TypesInv
<1>5. ASSUME OrderInv PROVE CountInv'
  <2>1. Len(answers') = Len(answers) + 1 /\ Len(answers) \in Nat /\ Len(runs) \in Nat
    BY <1>1 DEF Send, TypesInv, HistoryTypes
  <2>2. Uncounted \in {0, 1} /\ Len(runs) - Len(answers) = live + Uncounted
    BY <1>5 DEF Uncounted, OrderInv, CountInv
  <2>3. callback'.index = IF x + 1 = Contexts THEN 0 ELSE x + 1
    <3> DEFINE n == (x + 1) % Contexts
    <3>1. callback' = [callback EXCEPT !.index = n, !.timeouts = 0]
      BY <1>1
    <3>2. n = IF x + 1 = Contexts THEN 0 ELSE x + 1
      BY <1>2, <1>5, Wraps
    <3> HIDE DEF n
    <3> QED BY <3>1, <3>2 DEF TypesInv, ThreadTypes
  <2>4. infIndex = IF x + live < Contexts THEN x + live ELSE x + live - Contexts
    BY <1>5 DEF OrderInv, CountInv
  <2>5. x \in 0 .. Contexts - 1 /\ Contexts \in Nat
    BY <1>2, <1>5, Bounds DEF Ctx
  <2> HIDE DEF x
  <2>6. infIndex = IF callback'.index + live' < Contexts THEN callback'.index + live'
                   ELSE callback'.index + live' - Contexts
    BY <1>2, <1>5, <2>3, <2>4, <2>5, WindowShrinks
  <2>7. live' \in 0 .. Contexts /\ Len(runs) - Len(answers') = live' + Uncounted
    <3>1. live \in 1 .. Contexts /\ live' = live - 1
      BY <1>2, <1>5
    <3> HIDE DEF live
    <3> QED BY <2>1, <2>2, <3>1, Bounds
  <2> QED BY <1>1, <1>3, <2>6, <2>7 DEF CountInv
<1>6. DispInv'
  BY <1>1, <1>3 DEF CleanInv, MoveInv, DispInv
<1>7. StageInv'
  BY <1>1, <1>3 DEF CleanInv, MoveInv, StageInv
<1>8. FlightInv'
  <2>1. ASSUME NEW w \in Flights PROVE Flying(w)'
    <3>1. Flying(w)
      BY <2>1 DEF CleanInv, MoveInv, FlightInv
    <3> QED BY <1>1, <1>3, <3>1 DEF Flying
  <2> QED BY <1>1, <1>3, <2>1 DEF CleanInv, MoveInv, FlightInv
<1>11. ASSUME OrderInv PROVE LiveInv'
  <2>1. ASSUME dispatcher.at = "trigger" \/ NotYet, dispatcher.parallel PROVE Off(Cur)' = live' - 1
    <3>1. Cur \notin resultEvt /\ Off(Cur) = live - 1 /\ Cur \in Ctx
      BY <1>11, <2>1, CurFacts DEF OrderInv, LiveInv
    <3>2. ASSUME NEW c \in Ctx, c # x, Off(c) = live - 1 PROVE Off(c)' = live' - 1
      BY <1>2, <1>11, <3>2
    <3>3. Off(Cur)' = (IF callback'.index <= Cur' THEN Cur' - callback'.index
                       ELSE Cur' - callback'.index + Contexts)
      BY DEF Off
    <3> DEFINE c == Cur
    <3>4. c \in Ctx /\ c # x /\ Off(c) = live - 1 /\ Cur' = Cur
      BY <1>1, <1>3, <3>1
    <3>5. ASSUME NEW d \in Ctx, Cur' = d PROVE Off(Cur)' = Off(d)'
      BY <3>5 DEF Off
    <3>6. ASSUME NEW d \in Ctx, Cur = d PROVE Off(Cur)' = live' - 1
      <4>1. d # x /\ Off(d) = live - 1 /\ Cur' = d
        BY <3>4, <3>6
      <4> QED BY <3>2, <3>5, <4>1
    <3> QED BY <3>1, <3>6
  <2>2. ASSUME NEW w \in Flights, raws[w.raw].parallel PROVE Off(w.raw)' < live'
    <3>1. w.raw \in Ctx /\ w.raw \notin resultEvt /\ Off(w.raw) < live
      BY <1>11, <2>2, FlightFacts DEF OrderInv, LiveInv
    <3> QED BY <1>1, <1>2, <1>11, <3>1
  <2> QED BY <1>1, <1>3, <2>1, <2>2 DEF LiveInv
<1>9. ASSUME OrderInv PROVE WindowInv'
  <2>1. /\ \A c \in Ctx : Off(c) < live =>
             /\ context[c] \in DOMAIN runs /\ runs[context[c]] /\ ~IsAnswered(context[c])
             /\ \A b \in Ctx : Off(b) < Off(c) => context[b] < context[c]
        /\ \A p \in DOMAIN runs : runs[p] =>
             \/ IsAnswered(p)
             \/ \E c \in Ctx : Off(c) < live /\ context[c] = p
             \/ dispatcher.at = "configured" /\ p = dispatcher.run
        /\ Uncounted = 1 => /\ ~IsAnswered(dispatcher.run)
                            /\ \A c \in Ctx : Off(c) < live => context[c] # dispatcher.run
        /\ \A i \in DOMAIN answers : answers[i] \in DOMAIN runs
    BY <1>9 DEF OrderInv, WindowInv
  <2>2. \A p : IsAnswered(p)' = (\E i \in DOMAIN answers' : answers'[i] = p)
    BY DEF IsAnswered
  <2>3. ASSUME NEW c \in Ctx, Off(c)' < live'
        PROVE  /\ context[c] \in DOMAIN runs /\ runs[context[c]] /\ ~IsAnswered(context[c])'
               /\ \A b \in Ctx : Off(b)' < Off(c)' => context[b] < context[c]
    <3>1. c # x /\ Off(c) < live /\ context[c] # q
      BY <1>2, <1>9, <2>3
    <3>2. ~IsAnswered(context[c])'
      <4> DEFINE p == context[c]
      <4>1. ~IsAnswered(p) /\ p # q
        BY <2>1, <3>1
      <4>2. \A i \in DOMAIN answers' : answers'[i] # p
        <5> HIDE DEF p
        <5> QED BY <1>4, <2>2, <4>1
      <4> QED BY <1>1, <4>2 DEF IsAnswered
    <3>3. \A b \in Ctx : Off(b)' < Off(c)' => context[b] < context[c]
      BY <1>2, <1>9, <2>1, <2>3, <3>1
    <3> QED BY <2>1, <3>1, <3>2, <3>3
  <2>4. ASSUME NEW p \in DOMAIN runs, runs[p]
        PROVE  \/ IsAnswered(p)'
               \/ \E c \in Ctx : Off(c)' < live' /\ context[c] = p
               \/ dispatcher.at = "configured" /\ p = dispatcher.run
    BY <1>2, <1>4, <1>9, <2>1, <2>4
  <2>5. Uncounted = 1 => /\ ~IsAnswered(dispatcher.run)'
                         /\ \A c \in Ctx : Off(c)' < live' => context[c] # dispatcher.run
    <3>1. SUFFICES ASSUME Uncounted = 1
                   PROVE  /\ ~IsAnswered(dispatcher.run)'
                          /\ \A c \in Ctx : Off(c)' < live' => context[c] # dispatcher.run
      OBVIOUS
    <3>2. Off(x) < live
      BY <1>2, <1>9
    <3>3. ~IsAnswered(dispatcher.run) /\ q # dispatcher.run
      BY <1>2, <1>9, <2>1, <3>1, <3>2
    <3> DEFINE p == dispatcher.run
    <3>4. \A i \in DOMAIN answers' : answers'[i] # p
      <4> HIDE DEF p
      <4> QED BY <1>4, <2>2, <3>3 DEF p
    <3>5. ~IsAnswered(dispatcher.run)'
      BY <1>1, <3>4 DEF IsAnswered
    <3> QED BY <1>2, <1>9, <2>1, <3>1, <3>5
  <2>6. \A i \in DOMAIN answers' : answers'[i] \in DOMAIN runs
    <3>1. answers \in Seq(1 .. MaxRuns) /\ answers' = Append(answers, q)
      BY <1>1 DEF Send, TypesInv, HistoryTypes
    <3> HIDE DEF q
    <3> QED BY <1>2, <1>9, <2>1, <3>1
  <2> QED BY <1>1, <1>3, <2>3, <2>4, <2>5, <2>6 DEF WindowInv
<1>10. ASSUME OrderInv PROVE DoneInv'
  BY <1>1, <1>3, <1>10 DEF OrderInv, DoneInv
<1> QED BY <1>1, <1>5, <1>6, <1>7, <1>8, <1>9, <1>10, <1>11 DEF CleanInv, MoveInv, OrderInv

-----------------------------------------------------------------------------
(* The NCPU's steps.                                                       *)

LEMMA NpuTakesKeeps ==
  ASSUME TypesInv, CleanInv, command = "run", command' = "none",
         ncpu' = [ncpu EXCEPT !.npu = [raw |-> ncpu.raw, run |-> raws[ncpu.raw].run]],
         UNCHANGED <<scpuVars, threadVars, comm, resultEvt, runs, done, answers, reused>>
  PROVE  CleanInv'
<1>1. UNCHANGED <<imgs, curIdx, nxtIdx, raws, context, infIndex, numInf, dispatcher, callback,
                  numRes, comm, resultEvt, runs, done, answers, reused>>
  BY DEF scpuVars, threadVars
<1>2. dispatcher.at = "wait" /\ ncpu.raw = Cur /\ Active /\ Cur \in Ctx
  BY CurFacts DEF CleanInv, MoveInv, StageInv, Active
<1>3. raws[ncpu.raw].run = dispatcher.run /\ dispatcher.run >= 1
  BY <1>2 DEF CleanInv, MoveInv, DispInv, TypesInv, RunTypes
<1>4. /\ ncpu'.npu = [raw |-> Cur, run |-> dispatcher.run]
      /\ ncpu'.post = ncpu.post /\ ncpu'.raw = ncpu.raw
  BY <1>2, <1>3 DEF TypesInv, CommTypes
<1>5. ncpu'.npu # Idles
  <2>1. ncpu'.npu.run = dispatcher.run
    BY <1>4
  <2> QED BY <1>3, <2>1 DEF Idles
<1>6. /\ live' = live /\ Kept' = Kept /\ Active' = Active /\ Cur' = Cur /\ Awaited' = Awaited
      /\ Uncounted' = Uncounted /\ Pending' = Pending /\ NotYet' /\ NotYet /\ Flights' = Flights
      /\ \A c : Off(c)' = Off(c) /\ IsAnswered(c)' = IsAnswered(c)
      /\ Last' = Last
      /\ \A v : Mine(v)' = Mine(v)
  BY <1>1, <1>4, <1>5 DEF live, Kept, Active, Cur, Awaited, Uncounted, Pending, NotYet, Flights,
     Off, IsAnswered, Mine, Last, Prev
<1>7. Off(Cur)' = Off(Cur) /\ IsAnswered(dispatcher.run)' = IsAnswered(dispatcher.run)
      /\ \A c : IsAnswered(context[c])' = IsAnswered(context[c])
  BY <1>1, <1>6 DEF Off, IsAnswered
<1>13. DispInv'
  BY <1>1, <1>6 DEF CleanInv, MoveInv, DispInv
<1>8. ASSUME OrderInv PROVE CountInv' /\ LiveInv'
  BY <1>1, <1>6, <1>7, <1>8 DEF OrderInv, CountInv, LiveInv
<1>9. StageInv'
  BY <1>1, <1>2, <1>4, <1>6, <1>7 DEF CleanInv, MoveInv, StageInv
<1>10. FlightInv'
  <2>1. \A w \in Flights : Flying(w) => Flying(w)'
    BY <1>1, <1>6 DEF Flying
  <2> QED BY <1>1, <1>4, <1>6, <2>1 DEF CleanInv, MoveInv, FlightInv
<1>11. ASSUME OrderInv PROVE WindowInv'
  BY <1>1, <1>6, <1>7, <1>11 DEF OrderInv, WindowInv
<1>12. ASSUME OrderInv PROVE DoneInv'
  BY <1>1, <1>4, <1>6, <1>12 DEF OrderInv, DoneInv
<1> QED BY <1>1, <1>8, <1>9, <1>10, <1>11, <1>12, <1>13 DEF CleanInv, MoveInv, OrderInv

LEMMA NpuDoneKeeps ==
  ASSUME TypesInv, CleanInv, NcpuWork, NpuDone
  PROVE  CleanInv'
<1> DEFINE r == dispatcher.run
           par == dispatcher.parallel
<1>1. /\ ncpu.npu # Idles /\ ncpu.post = Idles
      /\ ncpu' = [ncpu EXCEPT !.npu = Idles, !.post = ncpu.npu]
      /\ IF raws[ncpu.npu.raw].parallel THEN comm' = [comm EXCEPT !.req = TRUE] ELSE UNCHANGED comm
      /\ UNCHANGED <<imgs, curIdx, nxtIdx, raws, context, infIndex, numInf, dispatcher, callback,
                     numRes, command, resultEvt, runs, done, answers, reused>>
  BY DEF NcpuWork, NpuDone, scpuVars, threadVars
<1>2. NotYet
  BY <1>1 DEF NotYet
<1>3. /\ dispatcher.at = "wait" /\ Active /\ ncpu.npu = [raw |-> Cur, run |-> r]
      /\ command # "run" /\ ~comm.req /\ (\A i \in {0, 1} : imgs[i].evt = {})
      /\ Pending => comm.result # Idles
  BY <1>1, <1>2 DEF CleanInv, MoveInv, StageInv, Active
<1>4. /\ Cur \in Ctx /\ raws[Cur].run = r /\ raws[Cur].ref = curIdx /\ raws[Cur].parallel = par
      /\ imgs[curIdx].result = IF par THEN Cur ELSE None
      /\ par => context[Cur] = r
  BY <1>3, CurFacts DEF CleanInv, MoveInv, DispInv
<1>5. OrderInv => r \notin done /\ (par => Cur \notin resultEvt /\ Off(Cur) = live - 1)
  BY <1>2 DEF OrderInv, DoneInv, LiveInv
<1>6. ncpu'.npu = Idles /\ ncpu'.post = ncpu.npu /\ ncpu'.raw = ncpu.raw
  BY <1>1 DEF TypesInv, CommTypes
<1>7. /\ comm'.req = par
      /\ comm'.pending = comm.pending /\ comm'.type = comm.type /\ comm'.result = comm.result
  <2>1. ncpu.npu.raw = Cur /\ par \in BOOLEAN
    BY <1>3 DEF TypesInv, ThreadTypes
  <2>2. IF par THEN comm' = [comm EXCEPT !.req = TRUE] ELSE comm' = comm
    BY <1>1, <1>4, <2>1
  <2>3. CASE par
    BY <2>2, <2>3 DEF TypesInv, CommTypes
  <2>4. CASE ~par
    BY <1>3, <2>1, <2>2, <2>4 DEF TypesInv, CommTypes
  <2> QED BY <2>3, <2>4
<1>8. /\ live' = live /\ Kept' = Kept /\ Active' = Active /\ Cur' = Cur /\ Awaited' = Awaited
      /\ Uncounted' = Uncounted /\ Pending' = Pending /\ ~NotYet'
      /\ Flights' \subseteq Flights \cup {ncpu.npu}
      /\ \A c : Off(c)' = Off(c) /\ IsAnswered(c)' = IsAnswered(c)
      /\ Last' = Last
      /\ \A v : Mine(v)' = Mine(v)
  BY <1>1, <1>3, <1>6, <1>7 DEF live, Kept, Active, Cur, Awaited, Uncounted, Pending, NotYet, Flights,
     Off, IsAnswered, Mine, Last, Prev
<1>9. Off(Cur)' = Off(Cur) /\ IsAnswered(dispatcher.run)' = IsAnswered(dispatcher.run)
      /\ \A c : IsAnswered(context[c])' = IsAnswered(context[c])
  BY <1>1, <1>8 DEF Off, IsAnswered
<1>10. Mine(ncpu.npu)
  BY <1>3 DEF Mine
<1>11. DispInv'
  BY <1>1, <1>8 DEF CleanInv, MoveInv, DispInv
<1>16. ASSUME OrderInv PROVE CountInv'
  BY <1>1, <1>8, <1>16 DEF OrderInv, CountInv
<1>17. ASSUME OrderInv PROVE LiveInv'
  <2>1. par => Off(Cur) < live
    <3>1. live \in Int /\ (par => Off(Cur) = live - 1)
      BY <1>5, <1>17, CurFacts
    <3> HIDE DEF live
    <3> QED BY <3>1
  <2>2. ASSUME NEW w \in Flights', raws[w.raw].parallel PROVE Off(w.raw) < live /\ w.raw \notin resultEvt
    <3>1. CASE w \in Flights
      BY <1>17, <2>2, <3>1 DEF OrderInv, LiveInv
    <3>2. CASE w = ncpu.npu
      BY <1>3, <1>4, <1>5, <1>17, <2>1, <2>2, <3>2
    <3> QED BY <1>8, <2>2, <3>1, <3>2
  <2> QED BY <1>1, <1>3, <1>8, <2>2 DEF LiveInv
<1>12. StageInv'
  <2>1. /\ ~NotYet' /\ (\A i \in {0, 1} : imgs'[i].evt = {}) /\ (Pending' => comm'.result # Idles)
    BY <1>1, <1>3, <1>7, <1>8
  <2>2. comm'.req => dispatcher'.at = "wait" /\ dispatcher'.parallel /\ Mine(ncpu.post)'
    <3>1. Mine(ncpu.post)' <=> Active' /\ ncpu'.post.run = dispatcher'.run
      BY DEF Mine
    <3> QED BY <1>1, <1>3, <1>6, <1>7, <1>8, <3>1
  <2> QED BY <1>1, <1>3, <2>1, <2>2 DEF StageInv, NotYet
<1>13. FlightInv'
  <2>1. ASSUME NEW w \in Flights PROVE Flying(w)' /\ ~Mine(w)
    <3>1. Flying(w) /\ ~Mine(w)
      BY <1>2, <2>1 DEF CleanInv, MoveInv, FlightInv, Flying
    <3> QED BY <1>1, <1>8, <3>1 DEF Flying
  <2>2. ASSUME NEW w, w = ncpu.npu PROVE Flying(w)'
    <3>2. w.raw = Cur /\ w.run = r /\ Mine(w)
      BY <1>3, <2>2 DEF Mine
    <3> QED BY <1>1, <1>3, <1>4, <1>8, <3>2 DEF Flying
  <2>3. ASSUME NEW w \in Flights' PROVE Flying(w)'
    <3>1. w \in Flights \/ w = ncpu.npu
      BY <1>8, <2>3
    <3> QED BY <2>1, <2>2, <3>1
  <2>4. ASSUME Pending' PROVE ~Mine(comm.result)' /\ Mine(ncpu.post)'
    <3>1. comm.result \in Flights
      BY <1>8, <2>4 DEF Flights
    <3>2. ~Mine(comm.result)
      BY <2>1, <3>1
    <3> QED BY <1>1, <1>6, <1>7, <1>8, <1>10, <3>2 DEF Mine
  <2> QED BY <2>3, <2>4 DEF FlightInv
<1>14. ASSUME OrderInv PROVE WindowInv'
  BY <1>1, <1>8, <1>9, <1>14 DEF OrderInv, WindowInv
<1>15. ASSUME OrderInv PROVE DoneInv'
  <2>1. ncpu'.post.run = r
    BY <1>3, <1>6
  <2>2. Pending' => comm'.result.run \in done
    BY <1>7, <1>8, <1>15 DEF OrderInv, DoneInv
  <2> QED BY <1>1, <1>3, <1>5, <1>8, <1>15, <2>1, <2>2 DEF OrderInv, DoneInv
<1> QED BY <1>1, <1>11, <1>12, <1>13, <1>14, <1>15, <1>16, <1>17 DEF CleanInv, MoveInv, OrderInv

LEMMA PostDoneKeeps ==
  ASSUME TypesInv, CleanInv, NcpuWork, PostDone
  PROVE  CleanInv' /\ (OrderInv => ncpu.post.run \in DOMAIN runs \ done)
<1> DEFINE w == ncpu.post
<1>1. /\ w # Idles /\ ~comm.pending
      /\ comm' = [comm EXCEPT !.result = w, !.type = "postproc", !.pending = TRUE]
      /\ done' = done \cup {w.run}
      /\ ncpu' = [ncpu EXCEPT !.post = Idles]
      /\ UNCHANGED <<imgs, curIdx, nxtIdx, raws, context, infIndex, numInf, dispatcher, callback,
                     numRes, command, resultEvt, runs, answers, reused>>
  BY DEF NcpuWork, PostDone, scpuVars, threadVars
<1>2. /\ ncpu'.npu = ncpu.npu /\ ncpu'.post = Idles /\ ncpu'.raw = ncpu.raw
      /\ comm'.result = w /\ comm'.pending /\ comm'.type = "postproc" /\ comm'.req = comm.req
  BY <1>1 DEF TypesInv, CommTypes
<1>3. Flights = {w} /\ ~Pending
  BY <1>1 DEF Flights, Pending
<1>4. /\ live' = live /\ Kept' = Kept /\ Active' = Active /\ Cur' = Cur /\ Awaited' = Awaited
      /\ Uncounted' = Uncounted /\ Pending' /\ NotYet' = NotYet /\ Flights' = Flights
      /\ \A c : Off(c)' = Off(c) /\ IsAnswered(c)' = IsAnswered(c)
      /\ Last' = Last
      /\ \A v : Mine(v)' = Mine(v)
  BY <1>1, <1>2, <1>3 DEF live, Kept, Active, Cur, Awaited, Uncounted, Pending, NotYet, Flights,
     Off, IsAnswered, Mine, Last, Prev
<1>5. Off(Cur)' = Off(Cur) /\ IsAnswered(dispatcher.run)' = IsAnswered(dispatcher.run)
      /\ \A c : IsAnswered(context[c])' = IsAnswered(context[c])
  BY <1>1, <1>4 DEF Off, IsAnswered
<1>6. Flying(w) /\ w \in Work /\ w.raw \in Ctx
  BY <1>1, <1>3, FlightFacts DEF CleanInv, MoveInv, FlightInv
<1>7. w.run \in DOMAIN runs /\ (OrderInv => w.run \notin done)
  <2>1. w.run <= Len(runs) /\ w.run \in Nat /\ w.run >= 1
    BY <1>6, Bounds DEF Flying, CleanInv, MoveInv, DispInv, Work
  <2>2. Len(runs) \in Nat /\ DOMAIN runs = 1 .. Len(runs)
    BY DEF TypesInv, HistoryTypes
  <2>3. OrderInv => w.run \notin done
    BY <1>1 DEF OrderInv, DoneInv
  <2> QED BY <2>1, <2>2, <2>3
<1>8. dispatcher.at \in {"configured", "trigger"} \/ NotYet => dispatcher.run # w.run
  <2>1. NotYet => Active
    BY DEF CleanInv, MoveInv, StageInv, NotYet, Active
  <2>2. dispatcher.at \in {"configured", "trigger"} => Active
    BY DEF Active
  <2>3. Mine(w) => dispatcher.at = "wait" /\ ~NotYet
    BY <1>6 DEF Flying
  <2> QED BY <2>1, <2>2, <2>3 DEF Mine
<1>9. DispInv'
  BY <1>1, <1>4 DEF CleanInv, MoveInv, DispInv
<1>14. ASSUME OrderInv PROVE CountInv' /\ LiveInv'
  BY <1>1, <1>4, <1>5, <1>14 DEF OrderInv, CountInv, LiveInv
<1>10. StageInv'
  <2>1. /\ command = "run" => dispatcher.at = "wait" /\ ncpu.raw = Cur /\ ncpu.npu = Idles
        /\ ncpu.npu # Idles =>
             dispatcher.at = "wait" /\ ncpu.npu = [raw |-> Cur, run |-> dispatcher.run]
        /\ comm.req => dispatcher.at = "wait" /\ dispatcher.parallel /\ ~NotYet
        /\ \A i \in {0, 1} : imgs[i].evt # {} =>
             /\ i = curIdx /\ dispatcher.at = "wait" /\ imgs[i].evt = {Awaited} /\ ~NotYet /\ ~comm.req
             /\ \A v \in Flights : dispatcher.parallel /\ Mine(v)
    BY DEF CleanInv, MoveInv, StageInv
  <2> QED BY <1>1, <1>2, <1>4, <1>5, <2>1 DEF StageInv
<1>11. FlightInv'
  <2>1. \A v \in Flights : Flying(v) => Flying(v)'
    BY <1>1, <1>4 DEF Flying
  <2>2. \A v \in Flights' : Flying(v)'
    BY <1>3, <1>4, <1>6, <2>1
  <2> QED BY <1>2, <2>2 DEF FlightInv
<1>12. ASSUME OrderInv PROVE WindowInv'
  BY <1>1, <1>4, <1>5, <1>12 DEF OrderInv, WindowInv
<1>13. ASSUME OrderInv PROVE DoneInv'
  <2>1. \A c \in resultEvt : context[c] \in done'
    BY <1>1, <1>13 DEF OrderInv, DoneInv
  <2>2. dispatcher.at \in {"configured", "trigger"} \/ NotYet => dispatcher.run \notin done'
    BY <1>1, <1>8, <1>13 DEF OrderInv, DoneInv
  <2>3. \A i \in {0, 1} : imgs[i].evt # {} /\ ~dispatcher.parallel => dispatcher.run \in done'
    BY <1>1, <1>13 DEF OrderInv, DoneInv
  <2>4. done' \subseteq DOMAIN runs /\ comm'.result.run \in done'
    BY <1>1, <1>2, <1>7, <1>13 DEF OrderInv, DoneInv
  <2> QED BY <1>1, <1>2, <1>4, <2>1, <2>2, <2>3, <2>4 DEF DoneInv
<1> QED BY <1>1, <1>7, <1>9, <1>10, <1>11, <1>12, <1>13, <1>14 DEF CleanInv, MoveInv, OrderInv

-----------------------------------------------------------------------------
(* The steps that move no run, and every step.                             *)

LEMMA AloneKeeps ==
  ASSUME TypesInv, CleanInv, BeginAlone \/ TriggerAlone \/ AloneReturns
  PROVE  CleanInv'
<1>1. /\ UNCHANGED <<imgs, curIdx, nxtIdx, raws, context, infIndex, numInf, numRes, callback, ncpu,
                     runs, answers, done, resultEvt, reused>>
      /\ ~Active /\ ~Active'
      /\ command' = "run" => command = "run"
  BY DEF BeginAlone, TriggerAlone, AloneReturns, scpuVars, ncpuMem, runHistory, Active, Idle,
     TypesInv, ThreadTypes
<1>2. /\ comm'.pending = comm.pending /\ comm'.type = comm.type /\ comm'.result = comm.result
      /\ comm'.req => comm.req
  BY DEF BeginAlone, TriggerAlone, AloneReturns, ncpuMem, TypesInv, CommTypes
<1> QED BY <1>1, <1>2, QuietKeeps DEF Quiet, Pending

LEMMA OtherKeeps ==
  ASSUME TypesInv, CleanInv, failed' = {},
         \/ CallbackOverlooks \/ CallbackTimeout
         \/ NCPU_IRQHandler /\ (Enter \/ Leave)
         \/ NcpuReady \/ NcpuNoise
         \/ NcpuWork /\ AloneDone
         \/ NcpuWork /\ command = "alone" /\ NcpuTakes /\ UNCHANGED <<comm, irq, done>>
         \/ UNCHANGED ncpuVars
  PROVE  CleanInv'
<1>1. CASE CallbackOverlooks
  BY <1>1, QuietKeeps DEF CallbackOverlooks, scpuVars, threadVars, ncpuMem, Quiet, Pending
<1>2. CASE CallbackTimeout
  <2>1. callback.timeouts = 0 /\ callback' = [callback EXCEPT !.timeouts = 1] /\ UNCHANGED answers
    BY <1>2 DEF CallbackTimeout
  <2>2. callback'.index = callback.index
    BY <2>1 DEF TypesInv, ThreadTypes
  <2> QED BY <1>2, <2>1, <2>2, QuietKeeps DEF CallbackTimeout, scpuVars, ncpuMem, Quiet, Pending
<1>3. CASE NCPU_IRQHandler /\ (Enter \/ Leave)
  <2>1. UNCHANGED <<imgs, resultEvt, curIdx, nxtIdx, raws, context, infIndex, numInf, dispatcher, callback,
                    numRes, ncpu, command, runs, done, answers, reused>>
    BY <1>3 DEF NCPU_IRQHandler, Enter, Leave, threadVars, runHistory
  <2>2. /\ comm'.pending = comm.pending /\ comm'.type = comm.type /\ comm'.result = comm.result
        /\ comm'.req = comm.req
    BY <1>3 DEF NCPU_IRQHandler, Enter, Leave, TypesInv, CommTypes
  <2> QED BY <2>1, <2>2, QuietKeeps DEF Quiet, Pending
<1>4. CASE NcpuReady \/ NcpuNoise
  <2>1. UNCHANGED <<imgs, resultEvt, curIdx, nxtIdx, raws, context, infIndex, numInf, dispatcher, callback,
                    numRes, ncpu, command, runs, done, answers, reused>>
    BY <1>4 DEF NcpuReady, NcpuNoise, scpuVars, threadVars, runHistory
  <2>2. /\ comm'.pending = comm.pending /\ comm'.type = comm.type /\ comm'.result = comm.result
        /\ comm'.req = comm.req
    BY <1>4 DEF NcpuReady, NcpuNoise, TypesInv, CommTypes
  <2> QED BY <2>1, <2>2, QuietKeeps DEF Quiet, Pending
<1>5. CASE NcpuWork /\ AloneDone
  <2>1. UNCHANGED <<imgs, resultEvt, curIdx, nxtIdx, raws, context, infIndex, numInf, dispatcher, callback,
                    numRes, command, runs, done, answers, reused>>
    BY <1>5 DEF NcpuWork, AloneDone, scpuVars, threadVars
  <2>2. comm'.type = "alone" /\ comm'.req = comm.req
        /\ ncpu'.npu = ncpu.npu /\ ncpu'.post = ncpu.post /\ ncpu'.raw = ncpu.raw
    BY <1>5 DEF AloneDone, TypesInv, CommTypes
  <2> QED BY <2>1, <2>2, QuietKeeps DEF Quiet, Pending
<1>6. CASE NcpuWork /\ command = "alone" /\ NcpuTakes /\ UNCHANGED <<comm, irq, done>>
  <2>1. UNCHANGED <<imgs, resultEvt, curIdx, nxtIdx, raws, context, infIndex, numInf, dispatcher, callback,
                    numRes, runs, done, answers, comm, reused>>
    BY <1>6 DEF NcpuWork, scpuVars, threadVars
  <2>2. command' = "none" /\ ncpu' = [ncpu EXCEPT !.alone = TRUE]
    BY <1>6 DEF NcpuTakes
  <2>3. ncpu'.npu = ncpu.npu /\ ncpu'.post = ncpu.post /\ ncpu'.raw = ncpu.raw
    BY <2>2 DEF TypesInv, CommTypes
  <2> QED BY <2>1, <2>2, <2>3, QuietKeeps DEF Quiet, Pending
<1>7. CASE UNCHANGED ncpuVars
  BY <1>7, QuietKeeps DEF ncpuVars, scpuVars, threadVars, ncpuMem, runHistory, Quiet, Pending
<1> QED BY <1>1, <1>2, <1>3, <1>4, <1>5, <1>6, <1>7

LEMMA CleanBegin == NcpuInit => CleanInv
<1> SUFFICES ASSUME NcpuInit PROVE CleanInv
  OBVIOUS
<1>1. /\ dispatcher = Idle /\ runs = <<>> /\ answers = <<>> /\ done = {}
      /\ numInf = 0 /\ numRes = 0 /\ infIndex = 0 /\ callback.index = 0
      /\ raws = [c \in Ctx |-> [ref |-> 0, parallel |-> FALSE, run |-> 0]]
      /\ imgs = [i \in {0, 1} |-> [result |-> None, caller |-> "NCPU", evt |-> {}]]
      /\ ~comm.pending /\ ~comm.req /\ command = "none" /\ ncpu.npu = Idles /\ ncpu.post = Idles
      /\ resultEvt = {}
  BY DEF NcpuInit
<1>2. ~Active /\ Uncounted = 0 /\ live = 0 /\ ~NotYet /\ ~Pending /\ Flights = {}
      /\ dispatcher.at = "idle"
  BY <1>1 DEF Active, Uncounted, live, NotYet, Pending, Flights, Idle
<1>3. \A c \in Ctx : Off(c) = c /\ c \in Int /\ 0 <= c
  BY <1>1, Bounds DEF Off
<1>4. CountInv
  BY <1>1, <1>2, Bounds DEF CountInv
<1>10. LiveInv
  BY <1>1, <1>2 DEF LiveInv
<1>5. DispInv
  <2>1. \A c \in Ctx : raws[c].run = 0
    BY <1>1
  <2>2. Len(runs) = 0
    BY <1>1
  <2> QED BY <1>2, <2>1, <2>2 DEF DispInv
<1>6. StageInv
  BY <1>1, <1>2 DEF StageInv, NotYet
<1>7. FlightInv
  BY <1>1, <1>2 DEF FlightInv
<1>8. WindowInv
  BY <1>1, <1>2, <1>3 DEF WindowInv, IsAnswered
<1>9. DoneInv
  BY <1>1, <1>2 DEF DoneInv
<1> QED BY <1>4, <1>5, <1>6, <1>7, <1>8, <1>9, <1>10 DEF CleanInv, MoveInv, OrderInv

LEMMA CleanBack ==
  ASSUME TypesInv, [NcpuNext]_ncpuVars, Clean'
  PROVE  Clean
<1>1. late \in BOOLEAN
  BY DEF TypesInv, FlagTypes
<1>2. CASE UNCHANGED ncpuVars
  BY <1>2 DEF ncpuVars, runHistory, Clean
<1>3. CASE Dispatch
  <2>1. failed \subseteq failed' /\ (late => late')
    BY <1>1, <1>3 DEF Dispatch, Configure, Trigger, RunReturns, TriggerAlone, AloneReturns, runHistory
  <2> QED BY <2>1 DEF Clean
<1>4. CASE Receive \/ NCPU_IRQHandler \/ NcpuWork \/ NcpuReady \/ NcpuNoise
  BY <1>4 DEF Receive, CallbackResult, CallbackOverlooks, NCPU_IRQHandler, NcpuWork, NcpuReady,
     NcpuNoise, runHistory, Clean
<1>5. CASE (\E par \in BOOLEAN : Begin(par)) \/ BeginAlone \/ RunTimeout \/ CallbackTimeout
  <2>1. failed \subseteq failed' /\ (late => late')
    BY <1>1, <1>5 DEF Begin, BeginAlone, RunTimeout, CallbackTimeout, runHistory
  <2> QED BY <2>1 DEF Clean
<1> QED BY <1>2, <1>3, <1>4, <1>5 DEF NcpuNext

LEMMA OrderBack ==
  ASSUME TypesInv, [NcpuNext]_ncpuVars, ~reused'
  PROVE  ~reused
<1>1. CASE UNCHANGED ncpuVars
  BY <1>1 DEF ncpuVars, runHistory
<1>2. CASE Configure
  <2>1. CASE dispatcher.parallel
    <3> DEFINE x == context[infIndex] \in Outstanding
    <3>1. reused' = (reused \/ x)
      BY <1>2, <2>1 DEF Configure
    <3> HIDE DEF x
    <3> QED BY <3>1
  <2>2. CASE ~dispatcher.parallel
    <3>1. reused' = reused
      BY <1>2, <2>2 DEF Configure
    <3> QED BY <3>1
  <2> QED BY <2>1, <2>2
<1>3. CASE Trigger \/ RunReturns \/ TriggerAlone \/ AloneReturns
  BY <1>3 DEF Trigger, RunReturns, TriggerAlone, AloneReturns, runHistory
<1>4. CASE Receive \/ NCPU_IRQHandler \/ NcpuWork \/ NcpuReady \/ NcpuNoise
  BY <1>4 DEF Receive, CallbackResult, CallbackOverlooks, NCPU_IRQHandler, NcpuWork, NcpuReady,
     NcpuNoise, runHistory
<1>5. CASE (\E par \in BOOLEAN : Begin(par)) \/ BeginAlone \/ RunTimeout \/ CallbackTimeout
  BY <1>5 DEF Begin, BeginAlone, RunTimeout, CallbackTimeout, runHistory
<1> QED BY <1>1, <1>2, <1>3, <1>4, <1>5 DEF NcpuNext, Dispatch

(* The steps of RunService.                                                *)
LEMMA ServiceStutters ==
  ASSUME Ordered, Ordered', UNCHANGED <<runs, done, answers>>
  PROVE  UNCHANGED Service!serviceVars
<1>1. (failed = {} /\ ~late /\ ~reused) = TRUE /\ (failed = {} /\ ~late /\ ~reused)' = TRUE
  BY DEF Ordered, Clean
<1> QED BY <1>1 DEF Service!serviceVars

LEMMA ServiceFails ==
  ASSUME ~Ordered'
  PROVE  Service!Next
<1>1. (failed = {} /\ ~late /\ ~reused)' = FALSE
  BY DEF Ordered, Clean
<1> QED BY <1>1 DEF Service!Next, Service!Fail

LEMMA BeginHandsIn ==
  ASSUME Ordered, Ordered', NEW par \in BOOLEAN, Begin(par)
  PROVE  Service!Next
<1>1. (failed = {} /\ ~late /\ ~reused) = TRUE /\ (failed = {} /\ ~late /\ ~reused)' = TRUE
  BY DEF Ordered, Clean
<1>2. runs' = Append(runs, par) /\ UNCHANGED <<done, answers>>
  BY DEF Begin
<1> QED BY <1>1, <1>2 DEF Service!Next, Service!HandIn

LEMMA AnswersOnce ==
  ASSUME Ordered, Ordered', NEW r \in done, ~IsAnswered(r), Send(r), UNCHANGED <<runs, done>>,
         runs[r] => \A q \in 1 .. r - 1 : runs[q] => IsAnswered(q)
  PROVE  Service!Next
<1>1. (failed = {} /\ ~late /\ ~reused) = TRUE /\ (failed = {} /\ ~late /\ ~reused)' = TRUE
  BY DEF Ordered, Clean
<1>2. \A q : q \in Service!Answered <=> IsAnswered(q)
  BY DEF Service!Answered, IsAnswered
<1>3. Service!Answer
  BY <1>1, <1>2 DEF Service!Answer, Send
<1> QED BY <1>1, <1>3 DEF Service!Next

LEMMA RunReturnsServes ==
  ASSUME TypesInv, CleanInv, Ordered, Ordered', RunReturns
  PROVE  [Service!Next]_(Service!serviceVars)
<1> DEFINE r == dispatcher.run
<1>1. UNCHANGED <<runs, done>> /\ IF dispatcher.parallel THEN UNCHANGED answers ELSE Send(r)
  BY DEF RunReturns
<1>2. CASE dispatcher.parallel
  BY <1>1, <1>2, ServiceStutters
<1>3. CASE ~dispatcher.parallel
  <2>0. OrderInv
    BY DEF CleanInv, Ordered
  <2>1. dispatcher.at = "wait" /\ Active /\ r \in done
    BY <1>3, <2>0, RunReturnsFacts
  <2>2. ~IsAnswered(r) /\ ~runs[r]
    BY <1>3, <2>0, <2>1 DEF CleanInv, MoveInv, OrderInv, WindowInv, Uncounted, DispInv
  <2> QED BY <1>1, <1>3, <2>1, <2>2, AnswersOnce
<1> QED BY <1>2, <1>3

LEMMA CallbackResultServes ==
  ASSUME TypesInv, CleanInv, Ordered, Ordered', CallbackResult
  PROVE  Service!Next
<1> DEFINE x == callback.index
           q == context[x]
<1>1. UNCHANGED <<runs, done>> /\ Send(q)
  BY DEF CallbackResult
<1>5. OrderInv
  BY DEF CleanInv, Ordered
<1>2. /\ x \in Ctx /\ q \in done /\ ~IsAnswered(q) /\ q \in DOMAIN runs
      /\ Off(x) = 0 /\ live \in 1 .. Contexts
      /\ \A c \in Ctx : Off(c) \in 0 .. Contexts - 1 /\ (Off(c) = 0 <=> c = x)
  BY <1>5, CallbackResultFacts
<1>3. DOMAIN runs = 1 .. Len(runs) /\ Len(runs) \in Nat
  BY DEF TypesInv, HistoryTypes
<1>4. ASSUME NEW p \in 1 .. q - 1, runs[p] PROVE IsAnswered(p)
  <2>1. p \in DOMAIN runs /\ p < q /\ p # Len(runs) /\ p \in Int
    <3>1. q \in 1 .. Len(runs)
      BY <1>2, <1>3
    <3>2. \A k \in 1 .. Len(runs) : \A m \in 1 .. k - 1 : m \in 1 .. Len(runs) /\ m < k /\ m # Len(runs) /\ m \in Int
      BY <1>3
    <3> QED BY <1>3, <1>4, <3>1, <3>2
  <2>2. ~(dispatcher.at = "configured" /\ p = dispatcher.run)
    BY <2>1 DEF TypesInv, RunTypes, Active
  <2>3. ASSUME NEW c \in Ctx, Off(c) < live, context[c] = p PROVE FALSE
    <3>1. c # x
      BY <2>1, <2>3, <1>2, <1>3
    <3>2. Off(x) < Off(c)
      BY <1>2, <3>1, Bounds
    <3>3. q < p
      BY <1>2, <1>5, <2>3, <3>2 DEF OrderInv, WindowInv
    <3> QED BY <1>2, <1>3, <2>1, <3>3
  <2> QED BY <1>4, <1>5, <2>1, <2>2, <2>3 DEF OrderInv, WindowInv
<1> QED BY <1>1, <1>2, <1>4, AnswersOnce

LEMMA PostDoneServes ==
  ASSUME TypesInv, CleanInv, Ordered, Ordered', NcpuWork, PostDone
  PROVE  Service!Next
<1>1. (failed = {} /\ ~late /\ ~reused) = TRUE /\ (failed = {} /\ ~late /\ ~reused)' = TRUE
  BY DEF Ordered, Clean
<1>2. ncpu.post.run \in DOMAIN runs \ done
  BY PostDoneKeeps DEF CleanInv, Ordered
<1>3. done' = done \cup {ncpu.post.run} /\ UNCHANGED <<runs, answers>>
  BY DEF NcpuWork, PostDone
<1> QED BY <1>1, <1>2, <1>3 DEF Service!Next, Service!Complete

(* A step after which no run failed and no wait ended early.               *)
LEMMA CleanStep ==
  ASSUME TypesInv, CleanInv, Clean, Clean', [NcpuNext]_ncpuVars
  PROVE  CleanInv' /\ (Ordered /\ Ordered' => [Service!Next]_(Service!serviceVars))
<1>1. failed' = {} /\ ~late'
  BY DEF Clean
<1>2. CASE UNCHANGED ncpuVars
  <2>1. UNCHANGED <<runs, done, answers>>
    BY <1>2 DEF ncpuVars, runHistory
  <2> QED BY <1>1, <1>2, <2>1, OtherKeeps, ServiceStutters
<1>3. CASE Configure
  <2>1. UNCHANGED <<runs, done, answers>>
    BY <1>1, <1>3 DEF Configure
  <2> QED BY <1>1, <1>3, <2>1, ConfigureKeeps, ServiceStutters
<1>4. CASE Trigger
  <2>1. UNCHANGED <<runs, done, answers>>
    BY <1>4 DEF Trigger, runHistory
  <2> QED BY <1>4, <2>1, TriggerKeeps, ServiceStutters
<1>5. CASE RunReturns
  BY <1>5, RunReturnsKeeps, RunReturnsServes
<1>6. CASE BeginAlone \/ TriggerAlone \/ AloneReturns
  <2>1. UNCHANGED <<runs, done, answers>>
    BY <1>6 DEF BeginAlone, TriggerAlone, AloneReturns, runHistory
  <2> QED BY <1>6, <2>1, AloneKeeps, ServiceStutters
<1>7. CASE CallbackResult
  BY <1>7, CallbackResultKeeps, CallbackResultServes
<1>8. CASE CallbackOverlooks
  <2>1. UNCHANGED <<runs, done, answers>>
    BY <1>8 DEF CallbackOverlooks
  <2> QED BY <1>1, <1>8, <2>1, OtherKeeps, ServiceStutters
<1>9. CASE CallbackTimeout
  <2>1. UNCHANGED <<runs, done, answers>>
    BY <1>1, <1>9 DEF CallbackTimeout
  <2> QED BY <1>1, <1>9, <2>1, OtherKeeps, ServiceStutters
<1>10. CASE NCPU_IRQHandler
  <2>1. UNCHANGED <<runs, done, answers>>
    BY <1>10 DEF NCPU_IRQHandler, runHistory
  <2>2. CleanInv'
    BY <1>1, <1>10, OtherKeeps, LookKeeps DEF NCPU_IRQHandler
  <2> QED BY <2>1, <2>2, ServiceStutters
<1>11. CASE \E par \in BOOLEAN : Begin(par)
  BY <1>11, BeginKeeps, BeginHandsIn
<1>12. CASE RunTimeout
  BY <1>1, <1>12 DEF RunTimeout
<1>13. CASE NcpuWork
  <2>1. CASE PostDone
    BY <1>13, <2>1, PostDoneKeeps, PostDoneServes
  <2>2. CASE NpuDone
    <3>1. UNCHANGED <<runs, done, answers>>
      BY <1>13, <2>2 DEF NcpuWork, NpuDone
    <3> QED BY <1>13, <2>2, <3>1, NpuDoneKeeps, ServiceStutters
  <2>3. CASE AloneDone
    <3>1. UNCHANGED <<runs, done, answers>>
      BY <1>13, <2>3 DEF NcpuWork, AloneDone
    <3> QED BY <1>1, <1>13, <2>3, <3>1, OtherKeeps, ServiceStutters
  <2>4. CASE NcpuTakes /\ UNCHANGED <<comm, irq, done>>
    <3>1. UNCHANGED <<runs, done, answers>>
      BY <1>13, <2>4 DEF NcpuWork
    <3>2. CASE command = "alone"
      BY <1>1, <1>13, <2>4, <3>1, <3>2, OtherKeeps, ServiceStutters
    <3>3. CASE command # "alone"
      <4>1. /\ command = "run" /\ command' = "none"
            /\ ncpu' = [ncpu EXCEPT !.npu = [raw |-> ncpu.raw, run |-> raws[ncpu.raw].run]]
            /\ UNCHANGED <<scpuVars, threadVars, comm, resultEvt, runs, done, answers, reused>>
        BY <1>13, <2>4, <3>3 DEF NcpuTakes, NcpuWork
      <4> QED BY <3>1, <4>1, NpuTakesKeeps, ServiceStutters
    <3> QED BY <3>2, <3>3
  <2> QED BY <1>13, <2>1, <2>2, <2>3, <2>4 DEF NcpuWork
<1>14. CASE NcpuReady \/ NcpuNoise
  <2>1. UNCHANGED <<runs, done, answers>>
    BY <1>14 DEF NcpuReady, NcpuNoise, runHistory
  <2>2. CleanInv'
    BY <1>1, <1>14, OtherKeeps
  <2> QED BY <2>1, <2>2, ServiceStutters
<1> QED BY <1>2, <1>3, <1>4, <1>5, <1>6, <1>7, <1>8, <1>9, <1>10, <1>11, <1>12, <1>13, <1>14
        DEF NcpuNext, Dispatch, Receive

LEMMA NcpuInvStep ==
  ASSUME NcpuInv, [NcpuNext]_ncpuVars
  PROVE  NcpuInv' /\ [Service!Next]_(Service!serviceVars)
<1>1. TypesInv /\ TypesInv' /\ (Clean => CleanInv)
  BY TypesStep DEF NcpuInv
<1>2. Clean' => Clean /\ CleanInv' /\ (Ordered /\ Ordered' => [Service!Next]_(Service!serviceVars))
  BY <1>1, CleanBack, CleanStep
<1>3. Ordered' => Ordered
  BY <1>1, <1>2, OrderBack DEF Ordered
<1>4. Ordered' => [Service!Next]_(Service!serviceVars)
  BY <1>2, <1>3 DEF Ordered
<1>5. ~Ordered' => [Service!Next]_(Service!serviceVars)
  BY ServiceFails
<1> QED BY <1>1, <1>2, <1>4, <1>5 DEF NcpuInv

LEMMA NcpuInvAlways == NcpuSpec => []NcpuInv
<1>1. NcpuInit => NcpuInv
  BY TypesBegin, CleanBegin DEF NcpuInv
<1>2. NcpuInv /\ [NcpuNext]_ncpuVars => NcpuInv'
  BY NcpuInvStep
<1> QED BY <1>1, <1>2, PTL DEF NcpuSpec

(* No raw image is overwritten while the NPU or the NCPU works on it: the  *)
(* dispatcher waits for the run in the NPU, and the next run takes another *)
(* context than the run behind it.  This holds however many runs wait for  *)
(* their answers, also when their contexts are used again.                 *)
THEOREM NcpuKeepsImages == NcpuSpec => []ImageKept
<1>1. ASSUME NcpuInv PROVE ImageKept
  <2>1. SUFFICES ASSUME ~late /\ failed = {}, NEW w \in {ncpu.npu, ncpu.post}, w # Idles
                 PROVE  raws[w.raw].run = w.run
    BY DEF ImageKept
  <2>2. TypesInv /\ CleanInv
    BY <1>1, <2>1 DEF NcpuInv, Clean
  <2>3. CASE w = ncpu.post
    <3>1. w \in Flights
      BY <2>1, <2>3 DEF Flights
    <3> QED BY <2>2, <3>1 DEF CleanInv, MoveInv, FlightInv, Flying
  <2>4. CASE w = ncpu.npu
    <3>1. dispatcher.at = "wait" /\ w = [raw |-> Cur, run |-> dispatcher.run]
      BY <2>1, <2>2, <2>4 DEF CleanInv, MoveInv, StageInv
    <3>2. Active /\ Cur \in Ctx
      BY <2>2, <3>1, CurFacts DEF Active
    <3>3. raws[Cur].run = dispatcher.run
      BY <2>2, <3>2 DEF CleanInv, MoveInv, DispInv
    <3> QED BY <3>1, <3>3
  <2> QED BY <2>1, <2>3, <2>4
<1> QED BY <1>1, NcpuInvAlways, PTL

(* The threads, the interrupt and the NCPU implement RunService: one       *)
(* answer to each run, when its output is complete, the runs in parallel   *)
(* in the order they were handed in, until a run fails, a wait ends early  *)
(* or a run takes the context of one that is not answered.                 *)
THEOREM NcpuServesRuns == NcpuSpec => RunsServed
<1>1. NcpuInit => Service!Init
  <2>1. NcpuInit => (failed = {} /\ ~late /\ ~reused) = TRUE
    BY DEF NcpuInit
  <2> QED BY <2>1 DEF NcpuInit, Service!Init
<1>2. NcpuInv /\ [NcpuNext]_ncpuVars => [Service!Next]_(Service!serviceVars)
  BY NcpuInvStep
<1> QED BY <1>1, <1>2, NcpuInvAlways, PTL DEF NcpuSpec, RunsServed

=============================================================================
