----------------------------- MODULE BoardProofs ----------------------------
(***************************************************************************)
(* Proofs about LogQueue, for any number of threads, slots and logs, and   *)
(* about Dfs, for any frequencies and any algorithm.                       *)
(*                                                                         *)
(* The writers of the log queue exclude each other (ApartInv): the threads *)
(* by their mutex, the two processors by the turn.  So one index at a time *)
(* is on its way, and the logs between the two indices are the ones that   *)
(* were written and not printed, in order, until the queue is broken       *)
(* (QueueInv).  The NPU is not left slow without the algorithm (SlowInv).  *)
(***************************************************************************)
EXTENDS LogQueue, Dfs, TLAPS

-----------------------------------------------------------------------------
(* The log queue: the variables that keep the writers apart.               *)
Everybody == Writers \cup {"ncpu"}

GuardTypes ==
  /\ writer \in [Everybody -> WriterPcs]
  /\ willing \in [Cores -> BOOLEAN]
  /\ turn \in Cores

(* From Enter to Leave a writer is willing, and a thread holds the mutex.  *)
Waiting   == Writing \cup {"spin"}
Inside(w) == writer[w] \in Waiting \cup {"turn"}
Declared  == \A w \in Everybody : Inside(w) => willing[Core(w)]
Holding   == \A w \in Writers : Inside(w) => logMutex = w

(* Who writes while a writer of the other processor waits has the turn.    *)
TurnDecides ==
  \A v, w \in Everybody :
    Core(v) # Core(w) /\ writer[v] \in Writing /\ writer[w] \in Waiting => turn = Core(v)

ApartInv == GuardTypes /\ Declared /\ Holding /\ TurnDecides

LEMMA ApartInit == ASSUME LogInit PROVE ApartInv
BY DEF LogInit, ApartInv, GuardTypes, Declared, Holding, TurnDecides, Inside, Waiting, Writing,
       Everybody, WriterPcs, Cores, Core

(* Two threads of the SCPU are not inside together; a thread and the NCPU  *)
(* do not write together, for one of them would not have the turn.         *)
LEMMA InvApart == ASSUME ApartInv PROVE WritersApart
<1> SUFFICES ASSUME NEW v \in Everybody, NEW w \in Everybody,
                    writer[v] \in Writing, writer[w] \in Writing
             PROVE  v = w
  BY DEF WritersApart, Everybody
<1> USE DEF ApartInv, Holding, TurnDecides, Inside, Waiting, Everybody, Core
<1>1. CASE Core(v) = Core(w)
  BY <1>1, LogAssumption DEF LogAssumption
<1>2. CASE Core(v) # Core(w)
  BY <1>2
<1> QED  BY <1>1, <1>2

-----------------------------------------------------------------------------
(* Steps that leave the flags, the turn and the mutex alone, and do not    *)
(* bring a writer inside or past the test.                                 *)
LEMMA Harmless ==
  ASSUME ApartInv, UNCHANGED <<willing, turn, logMutex>>,
         NEW w \in Everybody, NEW from \in WriterPcs, NEW to \in WriterPcs, Goto(w, from, to),
         \/ to \notin Waiting \cup {"turn"}
         \/ from \in Writing /\ to \in Writing
  PROVE  ApartInv'
<1> USE DEF ApartInv, GuardTypes, Goto, Everybody
<1>1. GuardTypes'
  OBVIOUS
<1>2. \A v \in Everybody : Inside(v)' => Inside(v)
  BY DEF Inside, Waiting
<1>3. \A v \in Everybody : (writer[v] \in Writing)' => writer[v] \in Writing
  BY DEF Waiting
<1>4. \A v \in Everybody : (writer[v] \in Waiting)' => writer[v] \in Waiting
  BY DEF Waiting
<1>5. Declared' /\ Holding'
  BY <1>2 DEF Declared, Holding, Core
<1>6. TurnDecides'
  BY <1>3, <1>4 DEF TurnDecides, Core
<1> QED  BY <1>1, <1>5, <1>6

LEMMA EnterKeeps ==
  ASSUME ApartInv, NEW w \in Everybody, Enter(w)
  PROVE  ApartInv'
<1> USE DEF ApartInv, GuardTypes, Enter, Goto, Everybody
<1>1. GuardTypes'
  BY DEF WriterPcs, Cores, Core
<1>2. Declared'
  BY DEF Declared, Inside, Waiting, Writing, Core, Cores
<1>3. Holding'
  BY LogAssumption DEF Holding, Inside, Waiting, Writing, LogAssumption, Nobody
<1>4. TurnDecides'
  BY DEF TurnDecides, Waiting, Writing, Core
<1> QED  BY <1>1, <1>2, <1>3, <1>4

LEMMA GiveTurnKeeps ==
  ASSUME ApartInv, NEW w \in Everybody, GiveTurn(w)
  PROVE  ApartInv'
<1> USE DEF ApartInv, GuardTypes, GiveTurn, Goto, Everybody
<1>1. GuardTypes'
  BY DEF WriterPcs, Cores, Core, Other
<1>2. Declared' /\ Holding'
  BY DEF Declared, Holding, Inside, Waiting, Writing, Core
<1>3. TurnDecides'
  <2> SUFFICES ASSUME NEW u \in Everybody, NEW v \in Everybody, Core(u) # Core(v),
                      writer'[u] \in Writing, writer'[v] \in Waiting
               PROVE  turn' = Core(u)
    BY DEF TurnDecides, Core
  <2>1. u # w /\ writer[u] \in Writing
    BY DEF Writing
  <2>2. Core(u) # Core(w)
    BY <2>1, LogAssumption DEF Holding, Inside, Waiting, Core, LogAssumption
  <2> QED  BY <2>2 DEF Core, Other
<1> QED  BY <1>1, <1>2, <1>3

LEMMA SpinKeeps ==
  ASSUME ApartInv, NEW w \in Everybody, Spin(w)
  PROVE  ApartInv'
<1> USE DEF ApartInv, GuardTypes, Spin, Goto, Everybody
<1>1. GuardTypes'
  BY DEF WriterPcs
<1>2. Declared' /\ Holding'
  BY DEF Declared, Holding, Inside, Waiting, Writing, Core
<1>3. TurnDecides'
  <2> SUFFICES ASSUME NEW u \in Everybody, NEW v \in Everybody, Core(u) # Core(v),
                      writer'[u] \in Writing, writer'[v] \in Waiting
               PROVE  turn' = Core(u)
    BY DEF TurnDecides, Core
  <2>1. writer[v] \in Waiting
    BY DEF Waiting
  <2>2. CASE u = w
    <3>1. willing[Core(v)]
      BY <2>1 DEF Declared, Inside
    <3>2. Core(v) = Other(Core(w)) /\ Core(w) \in Cores
      BY <2>2 DEF Core, Other, Cores
    <3> QED  BY <2>2, <3>1, <3>2 DEF Other, Cores
  <2>3. CASE u # w
    BY <2>1, <2>3 DEF TurnDecides, Core
  <2> QED  BY <2>2, <2>3
<1> QED  BY <1>1, <1>2, <1>3

LEMMA LeaveKeeps ==
  ASSUME ApartInv, NEW w \in Everybody, Leave(w)
  PROVE  ApartInv'
<1> USE DEF ApartInv, GuardTypes, Leave, Goto, Everybody
<1>1. GuardTypes'
  BY DEF WriterPcs, Cores, Core
<1>2. \A v \in Everybody \ {w} : Inside(v)' => Inside(v) /\ Core(v) # Core(w)
  BY LogAssumption DEF Holding, Inside, Waiting, Writing, Core, LogAssumption
<1>3. ~Inside(w)'
  BY DEF Inside, Waiting, Writing
<1>4. Declared'
  BY <1>2, <1>3 DEF Declared, Core, Cores
<1>5. Holding'
  BY <1>2, <1>3, LogAssumption DEF Holding, Core, LogAssumption
<1>6. TurnDecides'
  BY DEF TurnDecides, Waiting, Writing, Core
<1> QED  BY <1>1, <1>4, <1>5, <1>6

LEMMA ApartStep == ASSUME ApartInv, [LogNext]_logVars PROVE ApartInv'
<1> USE DEF Everybody
<1>1. ASSUME UNCHANGED <<willing, turn, logMutex, writer>> PROVE ApartInv'
  BY <1>1 DEF ApartInv, GuardTypes, Declared, Holding, TurnDecides, Inside, Core
<1>2. CASE Logger \/ UNCHANGED logVars
  BY <1>1, <1>2 DEF Logger, LoggerWakes, LoggerClears, LoggerLooks, LoggerPrints, LoggerAdvances,
                    LoggerWraps, logVars
<1>3. ASSUME NEW w \in Everybody, BeginLog(w) \/ WriterStep(w) PROVE ApartInv'
  <2>1. CASE BeginLog(w)
    <3>1. PICK to \in {"acquire", "check"} : Goto(w, "idle", to)
      BY <2>1 DEF BeginLog
    <3> QED  BY <2>1, <3>1, Harmless DEF BeginLog, WriterPcs, Waiting, Writing
  <2>2. CASE CheckFull(w)
    <3>1. CASE Goto(w, "check", "acquire")
      BY <2>2, <3>1, Harmless DEF CheckFull, WriterPcs, Waiting, Writing
    <3>2. CASE UNCHANGED writer
      BY <1>1, <2>2, <3>2 DEF CheckFull
    <3> QED  BY <2>2, <3>1, <3>2 DEF CheckFull
  <2>3. CASE WriteText(w)
    BY <2>3, Harmless DEF WriteText, WriterPcs, Writing
  <2>4. CASE AdvanceWrite(w)
    BY <2>4, Harmless DEF AdvanceWrite, WriterPcs, Writing
  <2>5. CASE WrapWrite(w)
    BY <2>5, Harmless DEF WrapWrite, WriterPcs, Writing
  <2>6. CASE Signal(w)
    BY <2>6, Harmless DEF Signal, WriterPcs, Waiting, Writing
  <2> QED
    BY <1>3, <2>1, <2>2, <2>3, <2>4, <2>5, <2>6, EnterKeeps, GiveTurnKeeps, SpinKeeps, LeaveKeeps
    DEF WriterStep
<1> QED  BY <1>2, <1>3 DEF LogNext

(* Whatever the number of threads and slots, no two writers are between    *)
(* the tests and the end of a log.                                         *)
THEOREM LogWritersApart == LogSpec => []WritersApart
<1>1. LogInit => ApartInv
  BY ApartInit
<1>2. ApartInv /\ [LogNext]_logVars => ApartInv'
  BY ApartStep
<1>3. ApartInv => WritersApart
  BY InvApart
<1> QED  BY <1>1, <1>2, <1>3, PTL DEF LogSpec

-----------------------------------------------------------------------------
(* The order of the logs.                                                  *)

Advancing == \E w \in Everybody : writer[w] = "advance"
Wrapping  == \E w \in Everybody : writer[w] = "wrap"

(* An index past the end stands for the first slot.                        *)
Wrapped(x) == IF x = Slots THEN 0 ELSE x

(* The logs the write index, and the read index, have passed.              *)
Published == IF Advancing THEN written - 1 ELSE written
Consumed  == IF logger.at = "advance" THEN printed - 1 ELSE printed

(* The slot i places behind the read index.                                *)
Behind(x, i) == IF x + i < Slots THEN x + i ELSE x + i - Slots
Slot(i) == Behind(Wrapped(rIdx), i)

IndexInv ==
  /\ wIdx = Slots => Wrapping
  /\ rIdx = Slots => logger.at = "wrap"

QueueInv ==
  ~broken =>
    /\ Consumed <= Published /\ Published - Consumed < Slots
    /\ Wrapped(wIdx) = Slot(Published - Consumed)
    /\ \A i \in 0 .. (written - Consumed - 1) : msgs[Slot(i)] = Consumed + i + 1
    /\ logger.at \in {"print", "advance"} => Consumed < Published

LogInv == LogTypeOK /\ ApartInv /\ IndexInv /\ QueueInv

LEMMA WrapIndex == ASSUME NEW x \in 0 .. Slots PROVE x % Slots = Wrapped(x)
BY LogAssumption DEF LogAssumption, Wrapped

(* Who writes is alone with the index.                                     *)
LEMMA WriterAlone ==
  ASSUME ApartInv, NEW w \in Everybody, NEW from \in Writing, NEW to \in WriterPcs,
         Goto(w, from, to)
  PROVE  /\ Advancing <=> from = "advance"
         /\ Wrapping <=> from = "wrap"
         /\ Advancing' <=> to = "advance"
         /\ Wrapping' <=> to = "wrap"
<1>1. WritersApart
  BY InvApart
<1>2. \A v \in Everybody : writer[v] \in Writing => v = w
  BY <1>1 DEF WritersApart, Everybody, Goto
<1>3. writer[w] = from /\ writer' = [writer EXCEPT ![w] = to] /\ w \in DOMAIN writer
  BY DEF Goto, ApartInv, GuardTypes
<1> QED BY <1>2, <1>3 DEF Advancing, Wrapping, Writing

LEMMA WriterElsewhere ==
  ASSUME ApartInv, NEW w \in Everybody, NEW from \in WriterPcs, NEW to \in WriterPcs,
         Goto(w, from, to), from \notin {"advance", "wrap"}, to \notin {"advance", "wrap"}
  PROVE  (Advancing' <=> Advancing) /\ (Wrapping' <=> Wrapping)
<1>1. writer[w] = from /\ writer' = [writer EXCEPT ![w] = to] /\ w \in DOMAIN writer
  BY DEF Goto, ApartInv, GuardTypes
<1> QED BY <1>1 DEF Advancing, Wrapping

LEMMA LogStarts == LogInit => LogInv
<1> SUFFICES ASSUME LogInit PROVE LogInv
  OBVIOUS
<1>1. LogTypeOK
  <2>1. /\ msgs \in [Index -> Nat] /\ wIdx \in 0 .. Slots /\ rIdx \in 0 .. Slots
        /\ {begun, written, printed} \subseteq Nat /\ broken \in BOOLEAN
    <3>1. Slots \in Nat
      BY LogAssumption DEF LogAssumption
    <3>2. msgs \in [Index -> Nat]
      BY DEF LogInit
    <3>3. wIdx \in 0 .. Slots /\ rIdx \in 0 .. Slots
      BY <3>1 DEF LogInit
    <3>4. {begun, written, printed} \subseteq Nat
      BY DEF LogInit
    <3>5. broken \in BOOLEAN
      BY DEF LogInit
    <3> QED BY <3>2, <3>3, <3>4, <3>5
  <2>2. /\ willing \in [Cores -> BOOLEAN] /\ turn \in Cores
        /\ logMutex \in Writers \cup {Nobody} /\ flags \subseteq Cores
    BY DEF LogInit, Cores
  <2>3. /\ writer \in [Writers \cup {"ncpu"} -> WriterPcs]
        /\ logger \in [at : LoggerPcs, got : SUBSET Cores]
    BY DEF LogInit, WriterPcs, LoggerPcs
  <2> QED BY <2>1, <2>2, <2>3 DEF LogTypeOK
<1>2. ~Advancing
  BY DEF LogInit, Advancing, Everybody
<1>3. IndexInv /\ QueueInv
  BY <1>2, LogAssumption DEF LogInit, LogAssumption, IndexInv, QueueInv, Published, Consumed, Slot,
     Behind, Wrapped
<1> QED BY <1>1, <1>3, ApartInit DEF LogInv

(* The queue does not see a step that leaves its indices, its slots and    *)
(* the histories alone.                                                    *)
LEMMA QueueKept ==
  ASSUME IndexInv, QueueInv, UNCHANGED <<msgs, wIdx, rIdx, logger, written, printed, broken>>,
         Advancing' <=> Advancing, Wrapping' <=> Wrapping
  PROVE  IndexInv' /\ QueueInv'
BY DEF IndexInv, QueueInv, Published, Consumed, Slot

(* What a writer's step does to the types.                                 *)
LEMMA PlaceTypes ==
  ASSUME LogTypeOK, NEW w \in Everybody, NEW from, NEW to \in WriterPcs, Goto(w, from, to)
  PROVE  writer' \in [Writers \cup {"ncpu"} -> WriterPcs]
BY DEF LogTypeOK, Goto, Everybody

(* The writers.                                                            *)
LEMMA WriterQuiet ==
  ASSUME LogInv, NEW w \in Everybody,
         BeginLog(w) \/ CheckFull(w) \/ Enter(w) \/ GiveTurn(w) \/ Spin(w) \/ Leave(w) \/ Signal(w)
  PROVE  LogTypeOK' /\ IndexInv' /\ QueueInv'
<1> USE DEF LogInv
<1>1. \/ UNCHANGED writer
      \/ \E from, to \in WriterPcs \ {"advance", "wrap"} : Goto(w, from, to)
  BY DEF BeginLog, CheckFull, Enter, GiveTurn, Spin, Leave, Signal, WriterPcs
<1>2. (Advancing' <=> Advancing) /\ (Wrapping' <=> Wrapping)
  BY <1>1, WriterElsewhere DEF Advancing, Wrapping
<1>3. UNCHANGED <<msgs, wIdx, rIdx, logger, written, printed, broken>>
  BY DEF BeginLog, CheckFull, Enter, GiveTurn, Spin, Leave, Signal, logHistory
<1>4. IndexInv' /\ QueueInv'
  BY <1>2, <1>3, QueueKept
<1>5. writer' \in [Writers \cup {"ncpu"} -> WriterPcs]
  BY <1>1, PlaceTypes DEF LogTypeOK
<1>6. /\ willing' \in [Cores -> BOOLEAN] /\ turn' \in Cores
      /\ logMutex' \in Writers \cup {Nobody} /\ flags' \subseteq Cores /\ begun' \in Nat
  <2> USE DEF LogTypeOK, Core, Other, Cores, Everybody, logHistory
  <2>1. willing' \in [Cores -> BOOLEAN] /\ turn' \in Cores
    BY DEF BeginLog, CheckFull, Enter, GiveTurn, Spin, Leave, Signal
  <2>2. logMutex' \in Writers \cup {Nobody}
    BY DEF BeginLog, CheckFull, Enter, GiveTurn, Spin, Leave, Signal
  <2>3. begun' \in Nat
    BY DEF BeginLog, CheckFull, Enter, GiveTurn, Spin, Leave, Signal
  <2>4. \/ UNCHANGED flags
        \/ flags' = flags \cup {"scpu"}
        \/ flags' = flags \cup {Core(w)}
    BY DEF BeginLog, CheckFull, Enter, GiveTurn, Spin, Leave, Signal
  <2>5. flags' \subseteq Cores
    BY <2>4
  <2> QED BY <2>1, <2>2, <2>3, <2>5
<1> QED BY <1>3, <1>4, <1>5, <1>6 DEF LogTypeOK

LEMMA WriterWrites ==
  ASSUME LogInv, NEW w \in Everybody, WriteText(w)
  PROVE  LogTypeOK' /\ IndexInv' /\ QueueInv'
<1> USE DEF LogInv
<1>1. /\ Goto(w, "write", "advance") /\ written' = written + 1
      /\ msgs' = [msgs EXCEPT ![wIdx] = written + 1]
      /\ UNCHANGED <<wIdx, rIdx, willing, turn, logMutex, flags, logger, begun, printed, broken>>
  BY DEF WriteText
<1>2. ~Advancing /\ ~Wrapping /\ Advancing' /\ ~Wrapping'
  BY <1>1, WriterAlone DEF Writing, WriterPcs
<1>3. wIdx \in Index /\ rIdx \in 0 .. Slots
  BY <1>2, LogAssumption DEF IndexInv, LogTypeOK, LogAssumption, Index
<1>4. LogTypeOK'
  BY <1>1, <1>3, PlaceTypes DEF LogTypeOK, WriterPcs
<1>5. IndexInv'
  BY <1>1, <1>2, <1>3 DEF IndexInv
<1>6. /\ Published = written /\ Published' = written /\ Consumed' = Consumed
      /\ written \in Nat /\ Consumed \in Int
  BY <1>1, <1>2 DEF Published, Consumed, LogTypeOK
<1>7. ASSUME ~broken PROVE QueueInv'
  <2>1. /\ Consumed <= written /\ written - Consumed < Slots
        /\ wIdx = Slot(written - Consumed)
        /\ \A i \in 0 .. (written - Consumed - 1) : msgs[Slot(i)] = Consumed + i + 1
        /\ logger.at \in {"print", "advance"} => Consumed < written
    BY <1>3, <1>6, <1>7 DEF QueueInv, Wrapped, Index
  <2>2. ASSUME NEW i \in 0 .. (written - Consumed - 1)
        PROVE  Slot(i) \in Index /\ Slot(i) # wIdx
    BY <1>3, <1>6, <2>1, LogAssumption DEF Slot, Behind, Wrapped, Index, LogAssumption
  <2>3. msgs \in [Index -> Nat]
    BY DEF LogTypeOK
  <2>4. ASSUME NEW i \in 0 .. (written' - Consumed' - 1)
        PROVE  msgs'[Slot(i)] = Consumed + i + 1
    <3>1. CASE i = written - Consumed
      BY <1>1, <1>3, <1>6, <2>1, <2>3, <3>1
    <3>2. CASE i # written - Consumed
      <4>1. i \in 0 .. (written - Consumed - 1)
        BY <1>1, <1>6, <3>2
      <4> QED BY <1>1, <2>1, <2>2, <2>3, <4>1
    <3> QED BY <3>1, <3>2
  <2>5. \A i : Slot(i)' = Slot(i)
    BY <1>1 DEF Slot
  <2> QED BY <1>1, <1>3, <1>6, <2>1, <2>4, <2>5 DEF QueueInv, Wrapped, Index
<1>8. ASSUME broken PROVE QueueInv'
  BY <1>1, <1>8 DEF QueueInv
<1> QED BY <1>4, <1>5, <1>7, <1>8

LEMMA WriterAdvances ==
  ASSUME LogInv, NEW w \in Everybody, AdvanceWrite(w)
  PROVE  LogTypeOK' /\ IndexInv' /\ QueueInv'
<1> USE DEF LogInv
<1>1. /\ Goto(w, "advance", "wrap") /\ wIdx' = wIdx + 1
      /\ broken' = (broken \/ (wIdx + 1) % Slots = rIdx % Slots)
      /\ UNCHANGED <<msgs, rIdx, willing, turn, logMutex, flags, logger, begun, written, printed>>
  BY DEF AdvanceWrite
<1>2. Advancing /\ ~Wrapping /\ ~Advancing' /\ Wrapping'
  BY <1>1, WriterAlone DEF Writing, WriterPcs
<1>3. wIdx \in Index /\ rIdx \in 0 .. Slots /\ wIdx + 1 \in 0 .. Slots
  BY <1>2, LogAssumption DEF IndexInv, LogTypeOK, LogAssumption, Index
<1>4. LogTypeOK'
  BY <1>1, <1>3, PlaceTypes DEF LogTypeOK, WriterPcs
<1>5. IndexInv'
  BY <1>1, <1>2 DEF IndexInv
<1>6. /\ Published = written - 1 /\ Published' = written /\ Consumed' = Consumed
      /\ written \in Nat /\ Consumed \in Int
  BY <1>1, <1>2 DEF Published, Consumed, LogTypeOK
<1>7. ASSUME ~broken' PROVE QueueInv'
  <2>1. ~broken /\ Wrapped(wIdx + 1) # Wrapped(rIdx)
    BY <1>1, <1>3, <1>7, WrapIndex DEF LogTypeOK
  <2>2. /\ Consumed <= written - 1 /\ written - 1 - Consumed < Slots
        /\ wIdx = Slot(written - 1 - Consumed)
        /\ \A i \in 0 .. (written - Consumed - 1) : msgs[Slot(i)] = Consumed + i + 1
        /\ logger.at \in {"print", "advance"} => Consumed < written - 1
    BY <1>3, <1>6, <2>1 DEF QueueInv, Wrapped, Index
  <2>3. written - Consumed < Slots /\ Wrapped(wIdx + 1) = Slot(written - Consumed)
    BY <1>3, <1>6, <2>1, <2>2, LogAssumption DEF Slot, Behind, Wrapped, Index, LogAssumption
  <2>4. \A i : Slot(i)' = Slot(i)
    BY <1>1 DEF Slot
  <2> QED BY <1>1, <1>6, <2>2, <2>3, <2>4 DEF QueueInv, Wrapped
<1>8. ASSUME broken' PROVE QueueInv'
  BY <1>8 DEF QueueInv
<1> QED BY <1>4, <1>5, <1>7, <1>8

LEMMA WriterWraps ==
  ASSUME LogInv, NEW w \in Everybody, WrapWrite(w)
  PROVE  LogTypeOK' /\ IndexInv' /\ QueueInv'
<1> USE DEF LogInv
<1>1. /\ Goto(w, "wrap", "leave") /\ wIdx' = wIdx % Slots
      /\ UNCHANGED <<msgs, rIdx, willing, turn, logMutex, flags, logger, begun, written,
                     printed, broken>>
  BY DEF WrapWrite, logHistory
<1>2. ~Advancing /\ ~Advancing'
  BY <1>1, WriterAlone DEF Writing, WriterPcs
<1>3. wIdx' = Wrapped(wIdx) /\ wIdx' \in Index /\ Wrapped(wIdx') = Wrapped(wIdx)
  <2>1. wIdx' = Wrapped(wIdx) /\ wIdx \in 0 .. Slots
    BY <1>1, WrapIndex DEF LogTypeOK
  <2> QED BY <2>1, LogAssumption DEF Wrapped, Index, LogAssumption
<1>4. LogTypeOK'
  BY <1>1, <1>3, PlaceTypes, LogAssumption DEF LogTypeOK, WriterPcs, Index, LogAssumption
<1>5. IndexInv'
  BY <1>1, <1>3, LogAssumption DEF IndexInv, Index, LogAssumption
<1>6. QueueInv'
  BY <1>1, <1>2, <1>3 DEF QueueInv, Published, Consumed, Slot, Wrapped
<1> QED BY <1>4, <1>5, <1>6

(* The logger.                                                             *)
LEMMA LoggerQuiet ==
  ASSUME LogInv, LoggerWakes \/ LoggerClears
  PROVE  LogTypeOK' /\ IndexInv' /\ QueueInv'
<1> USE DEF LogInv
<1>1. /\ UNCHANGED <<msgs, wIdx, rIdx, willing, turn, logMutex, writer, begun, written,
                     printed, broken>>
      /\ flags' \subseteq Cores
      /\ logger.at \in {"wait", "clear"} /\ logger'.at \in {"clear", "look"}
      /\ logger' \in [at : LoggerPcs, got : SUBSET Cores]
  BY DEF LoggerWakes, LoggerClears, LoggerGoto, logHistory, LogTypeOK, LoggerPcs
<1>2. (Advancing' <=> Advancing) /\ (Wrapping' <=> Wrapping)
  BY <1>1 DEF Advancing, Wrapping
<1>3. LogTypeOK'
  BY <1>1 DEF LogTypeOK
<1>4. IndexInv' /\ QueueInv'
  BY <1>1, <1>2 DEF IndexInv, QueueInv, Published, Consumed, Slot
<1> QED BY <1>3, <1>4

LEMMA LoggerLooksKeeps ==
  ASSUME LogInv, LoggerLooks
  PROVE  LogTypeOK' /\ IndexInv' /\ QueueInv'
<1> USE DEF LogInv
<1>1. /\ UNCHANGED <<msgs, wIdx, rIdx, willing, turn, logMutex, flags, writer, begun,
                     written, printed>>
      /\ logger.at = "look" /\ logger' \in [at : LoggerPcs, got : SUBSET Cores]
      /\ logger'.at \in {"wait", "print"} /\ (logger'.at = "print" => rIdx # wIdx)
      /\ broken' = (broken \/ (rIdx # wIdx /\ rIdx = wIdx % Slots))
  BY DEF LoggerLooks, LoggerGoto, LogTypeOK, LoggerPcs
<1>2. (Advancing' <=> Advancing) /\ (Wrapping' <=> Wrapping)
  BY <1>1 DEF Advancing, Wrapping
<1>3. LogTypeOK'
  BY <1>1 DEF LogTypeOK
<1>4. rIdx \in Index /\ wIdx \in 0 .. Slots
  BY <1>1, LogAssumption DEF LogTypeOK, IndexInv, Index, LogAssumption
<1>5. IndexInv'
  BY <1>1, <1>2, <1>4 DEF IndexInv, Index
<1>6. ASSUME ~broken' PROVE QueueInv'
  <2>1. ~broken /\ (logger'.at = "print" => rIdx # Wrapped(wIdx))
    BY <1>1, <1>4, <1>6, WrapIndex
  <2>2. Consumed' = Consumed /\ Published' = Published /\ \A i : Slot(i)' = Slot(i)
    BY <1>1, <1>2 DEF Consumed, Published, Slot
  <2>3. Consumed \in Int /\ Published \in Int
    BY <1>1 DEF Consumed, Published, LogTypeOK
  <2>4. Slot(0) = rIdx
    BY <1>4, LogAssumption DEF Slot, Behind, Wrapped, Index, LogAssumption
  <2>5. logger'.at = "print" => Consumed # Published
    <3> SUFFICES ASSUME Consumed = Published PROVE rIdx = Wrapped(wIdx)
      BY <2>1
    <3>1. Wrapped(wIdx) = Slot(Published - Consumed) /\ Published - Consumed = 0
      BY <2>1, <2>3 DEF QueueInv
    <3> QED BY <3>1, <2>4
  <2> QED BY <1>1, <2>1, <2>2, <2>3, <2>5 DEF QueueInv, Wrapped
<1>7. ASSUME broken' PROVE QueueInv'
  BY <1>7 DEF QueueInv
<1> QED BY <1>3, <1>5, <1>6, <1>7

(* The log under the read index is the next one.                           *)
LEMMA NextLog ==
  ASSUME LogInv, logger.at = "print", ~broken
  PROVE  msgs[rIdx] = printed + 1
<1>1. rIdx \in Index /\ Consumed = printed /\ printed \in Nat /\ written \in Nat
  BY LogAssumption DEF LogInv, LogTypeOK, IndexInv, Index, LogAssumption, Consumed
<1>2. Consumed < written
  BY <1>1 DEF LogInv, QueueInv, Published
<1>3. Slot(0) = rIdx
  BY <1>1, LogAssumption DEF Slot, Behind, Wrapped, Index, LogAssumption
<1>4. 0 \in 0 .. (written - Consumed - 1)
  BY <1>1, <1>2
<1>5. msgs[Slot(0)] = Consumed + 0 + 1
  BY <1>4 DEF LogInv, QueueInv
<1> QED BY <1>1, <1>3, <1>5

LEMMA LoggerPrintsKeeps ==
  ASSUME LogInv, LoggerPrints
  PROVE  LogTypeOK' /\ IndexInv' /\ QueueInv'
<1>1. /\ UNCHANGED <<msgs, wIdx, rIdx, willing, turn, logMutex, flags, writer, begun,
                     written, broken>>
      /\ logger.at = "print" /\ logger' = [logger EXCEPT !.at = "advance"] /\ printed' = msgs[rIdx]
  BY DEF LoggerPrints, LoggerGoto
<1>2. logger' \in [at : LoggerPcs, got : SUBSET Cores] /\ logger'.at = "advance"
  BY <1>1 DEF LogInv, LogTypeOK, LoggerPcs
<1>3. rIdx \in Index
  BY <1>1, LogAssumption DEF LogInv, LogTypeOK, IndexInv, Index, LogAssumption
<1>4. LogTypeOK'
  BY <1>1, <1>2, <1>3 DEF LogInv, LogTypeOK
<1>5. (Advancing' <=> Advancing) /\ (Wrapping' <=> Wrapping)
  BY <1>1 DEF Advancing, Wrapping
<1>6. IndexInv'
  BY <1>1, <1>3, <1>5 DEF LogInv, IndexInv, Index
<1>7. ASSUME ~broken PROVE QueueInv'
  <2>1. Consumed' = Consumed
    BY <1>1, <1>2, <1>7, NextLog DEF Consumed, LogInv, LogTypeOK
  <2>2. Published' = Published /\ \A i : Slot(i)' = Slot(i)
    BY <1>1, <1>5 DEF Published, Slot
  <2> QED BY <1>1, <1>2, <1>7, <2>1, <2>2 DEF LogInv, QueueInv, Wrapped
<1>8. ASSUME broken PROVE QueueInv'
  BY <1>1, <1>8 DEF QueueInv
<1> QED BY <1>4, <1>6, <1>7, <1>8

LEMMA LoggerAdvancesKeeps ==
  ASSUME LogInv, LoggerAdvances
  PROVE  LogTypeOK' /\ IndexInv' /\ QueueInv'
<1>1. /\ UNCHANGED <<msgs, wIdx, willing, turn, logMutex, flags, writer, begun, written,
                     printed, broken>>
      /\ logger.at = "advance" /\ logger' = [logger EXCEPT !.at = "wrap"] /\ rIdx' = rIdx + 1
  BY DEF LoggerAdvances, LoggerGoto, logHistory
<1>2. logger' \in [at : LoggerPcs, got : SUBSET Cores] /\ logger'.at = "wrap"
  BY <1>1 DEF LogInv, LogTypeOK, LoggerPcs
<1>3. rIdx \in Index /\ rIdx' \in 0 .. Slots
  BY <1>1, LogAssumption DEF LogInv, LogTypeOK, IndexInv, Index, LogAssumption
<1>4. LogTypeOK'
  BY <1>1, <1>2, <1>3 DEF LogInv, LogTypeOK
<1>5. (Advancing' <=> Advancing) /\ (Wrapping' <=> Wrapping)
  BY <1>1 DEF Advancing, Wrapping
<1>6. IndexInv'
  BY <1>1, <1>2, <1>5 DEF LogInv, IndexInv
<1>7. ASSUME ~broken PROVE QueueInv'
  <2>1. Consumed = printed - 1 /\ Consumed' = Consumed + 1 /\ Consumed \in Int
    BY <1>1, <1>2 DEF Consumed, LogInv, LogTypeOK
  <2>2. Published' = Published /\ Published \in Int /\ Published <= written /\ written \in Nat
    BY <1>1, <1>5 DEF Published, LogInv, LogTypeOK
  <2>3. /\ Consumed < Published /\ Published - Consumed < Slots
        /\ Wrapped(wIdx) = Slot(Published - Consumed)
        /\ \A i \in 0 .. (written - Consumed - 1) : msgs[Slot(i)] = Consumed + i + 1
    BY <1>1, <1>7 DEF LogInv, QueueInv
  <2> DEFINE Next(i) == Behind(Wrapped(rIdx'), i)
  <2>4. ASSUME NEW i \in Int, 0 <= i, i + 1 <= Slots PROVE Next(i) = Slot(i + 1)
    BY <1>1, <1>3, <2>4, LogAssumption DEF Slot, Behind, Wrapped, Index, LogAssumption
  <2>5. Wrapped(wIdx') = Next(Published' - Consumed')
    <3>1. Published' - Consumed' \in Int /\ 0 <= Published' - Consumed'
          /\ Published' - Consumed' + 1 = Published - Consumed
      BY <2>1, <2>2, <2>3
    <3>2. Next(Published' - Consumed') = Slot(Published - Consumed)
      BY <2>3, <2>4, <3>1, LogAssumption DEF LogAssumption
    <3> QED BY <1>1, <2>3, <3>2
  <2>6. ASSUME NEW i \in 0 .. (written' - Consumed' - 1)
        PROVE  msgs'[Next(i)] = Consumed' + i + 1
    <3>1. written - Consumed <= Slots
      BY <2>1, <2>2, <2>3, LogAssumption DEF Published, LogAssumption
    <3>2. i + 1 \in 0 .. (written - Consumed - 1) /\ i + 1 <= Slots /\ i \in Int /\ 0 <= i
      BY <1>1, <2>1, <2>2, <3>1, LogAssumption DEF LogAssumption
    <3>3. msgs[Slot(i + 1)] = Consumed + (i + 1) + 1
      BY <2>3, <3>2
    <3> QED BY <1>1, <2>1, <2>4, <3>2, <3>3
  <2>7. Consumed' <= Published' /\ Published' - Consumed' < Slots /\ logger'.at = "wrap"
    BY <1>2, <2>1, <2>2, <2>3, LogAssumption DEF LogAssumption
  <2> QED BY <2>5, <2>6, <2>7 DEF QueueInv, Slot
<1>8. ASSUME broken PROVE QueueInv'
  BY <1>1, <1>8 DEF QueueInv
<1> QED BY <1>4, <1>6, <1>7, <1>8

LEMMA LoggerWrapsKeeps ==
  ASSUME LogInv, LoggerWraps
  PROVE  LogTypeOK' /\ IndexInv' /\ QueueInv'
<1>1. /\ UNCHANGED <<msgs, wIdx, willing, turn, logMutex, flags, writer, begun, written,
                     printed, broken>>
      /\ logger.at = "wrap" /\ logger' = [logger EXCEPT !.at = "look"] /\ rIdx' = rIdx % Slots
  BY DEF LoggerWraps, LoggerGoto, logHistory
<1>2. logger' \in [at : LoggerPcs, got : SUBSET Cores] /\ logger'.at = "look"
  BY <1>1 DEF LogInv, LogTypeOK, LoggerPcs
<1>3. rIdx' = Wrapped(rIdx) /\ rIdx' \in Index /\ Wrapped(rIdx') = Wrapped(rIdx)
  <2>1. rIdx' = Wrapped(rIdx) /\ rIdx \in 0 .. Slots
    BY <1>1, WrapIndex DEF LogInv, LogTypeOK
  <2> QED BY <2>1, LogAssumption DEF Wrapped, Index, LogAssumption
<1>4. LogTypeOK'
  <2>1. rIdx' \in 0 .. Slots
    BY <1>3, LogAssumption DEF Index, LogAssumption
  <2> QED BY <1>1, <1>2, <2>1 DEF LogInv, LogTypeOK
<1>5. (Advancing' <=> Advancing) /\ (Wrapping' <=> Wrapping)
  BY <1>1 DEF Advancing, Wrapping
<1>6. IndexInv'
  BY <1>1, <1>3, <1>5, LogAssumption DEF LogInv, IndexInv, Index, LogAssumption
<1>7. \A i : Slot(i)' = Slot(i)
  BY <1>3 DEF Slot, Wrapped
<1>8. Consumed' = Consumed /\ Published' = Published
  BY <1>1, <1>2, <1>5 DEF Consumed, Published
<1>9. QueueInv'
  BY <1>1, <1>2, <1>7, <1>8 DEF LogInv, QueueInv, Wrapped
<1> QED BY <1>4, <1>6, <1>9

LEMMA LogSteps == LogInv /\ [LogNext]_logVars => LogInv'
<1> SUFFICES ASSUME LogInv, [LogNext]_logVars PROVE LogInv'
  OBVIOUS
<1>1. ApartInv'
  BY ApartStep DEF LogInv
<1>2. ASSUME NEW w \in Everybody, BeginLog(w) \/ WriterStep(w)
      PROVE  LogTypeOK' /\ IndexInv' /\ QueueInv'
  BY <1>2, WriterQuiet, WriterWrites, WriterAdvances, WriterWraps DEF WriterStep
<1>3. ASSUME Logger PROVE LogTypeOK' /\ IndexInv' /\ QueueInv'
  BY <1>3, LoggerQuiet, LoggerLooksKeeps, LoggerPrintsKeeps, LoggerAdvancesKeeps,
     LoggerWrapsKeeps DEF Logger
<1>4. ASSUME UNCHANGED logVars PROVE LogTypeOK' /\ IndexInv' /\ QueueInv'
  <2>1. (Advancing' <=> Advancing) /\ (Wrapping' <=> Wrapping)
    BY <1>4 DEF logVars, Advancing, Wrapping
  <2> QED BY <1>4, <2>1, QueueKept DEF logVars, LogInv, LogTypeOK
<1>5. LogTypeOK' /\ IndexInv' /\ QueueInv'
  BY <1>2, <1>3, <1>4 DEF LogNext, Everybody
<1> QED BY <1>1, <1>5 DEF LogInv

LEMMA LogAlways == LogSpec => []LogInv
BY LogStarts, LogSteps, PTL DEF LogSpec

(* The variables of the log queue keep their types, and no index stays     *)
(* past the end: for any number of threads, slots and logs.                *)
THEOREM LogTypes == LogSpec => []LogTypeOK
<1>1. LogInv => LogTypeOK
  BY DEF LogInv
<1> QED BY <1>1, LogAlways, PTL

(* Whatever the threads, the NCPU and the logger interleave, and however   *)
(* many slots there are, the logger of kmdw_console.c prints the logs in   *)
(* the order they were written, each once and none that is not complete,   *)
(* until the queue is overrun or its index is read past the end.           *)
THEOREM LogPrintsInOrder == LogSpec => []PrintsInOrder
<1>1. LogInv => PrintsInOrder
  BY NextLog DEF PrintsInOrder
<1> QED BY <1>1, LogAlways, PTL

-----------------------------------------------------------------------------
(* Frequency scaling.                                                      *)

(* A run that passed the tests finds the algorithm still active, or the    *)
(* race is recorded.                                                       *)
SetterSafe == ~raced => (setter = "set" => active)
SlowInv    == {active, raced} \subseteq BOOLEAN /\ SlowIsWatched /\ SetterSafe

LEMMA SlowInit == ASSUME DfsInit PROVE SlowInv
BY DEF DfsInit, SlowInv, SlowIsWatched, SetterSafe

LEMMA SlowStep == ASSUME SlowInv, [DfsNext]_dfsVars PROVE SlowInv'
<1> USE DEF SlowInv, SlowIsWatched, SetterSafe
<1>1. CASE TempChanges \/ Poll \/ Compute \/ Offer \/ UNCHANGED dfsVars
  BY <1>1 DEF TempChanges, Poll, Compute, Offer, dfsVars
<1>2. ASSUME NEW conversion \in BOOLEAN, kdrv_tdc_isr(conversion) PROVE SlowInv'
  <2>1. UNCHANGED <<freq, setter>>
    BY <1>2 DEF kdrv_tdc_isr
  <2>2. CASE "over" \in Status
    BY <1>2, <2>1, <2>2 DEF kdrv_tdc_isr, kmdw_dfs_tdc_callback
  <2>3. CASE "over" \notin Status
    BY <1>2, <2>1, <2>3 DEF kdrv_tdc_isr, kmdw_dfs_tdc_callback
  <2> QED  BY <2>2, <2>3
<1>3. CASE BeginRun
  BY <1>3 DEF BeginRun
<1>4. CASE SetFrequency \/ ClearUpdate
  BY <1>4 DEF SetFrequency, ClearUpdate
<1> QED  BY <1>1, <1>2, <1>3, <1>4 DEF DfsNext, DfsWork, DfsIsr

(* Whatever the frequencies and the algorithm.                             *)
THEOREM DfsSlowIsWatched == DfsSpec => []SlowIsWatched
<1>1. DfsInit => SlowInv
  BY SlowInit
<1>2. SlowInv /\ [DfsNext]_dfsVars => SlowInv'
  BY SlowStep
<1>3. SlowInv => SlowIsWatched
  BY DEF SlowInv
<1> QED  BY <1>1, <1>2, <1>3, PTL DEF DfsSpec

=============================================================================
