------------------------------ MODULE LogQueue ------------------------------
(***************************************************************************)
(* The log queue of mdw/console/kmdw_console.c: kmdw_level_printf, which   *)
(* the threads of the SCPU call, and logger_thread, which prints.  The     *)
(* NCPU writes to the same queue and reports it by the interrupt of        *)
(* mdw/ipc/kmdw_ipc.c.                                                     *)
(*                                                                         *)
(* The threads of the SCPU exclude each other by a mutex, the two          *)
(* processors by two "willing" flags and a "turn".  The test for a full    *)
(* queue stands before both.  x = (++x) % LOG_QUEUE_NUM on a volatile      *)
(* index is undefined; the build may store it twice, the first time one    *)
(* too far.                                                                *)
(*                                                                         *)
(* Simplifications: a log is its number, in the order of writing; the time *)
(* before init_done, when logs go to the UART at once, is left out.  The   *)
(* NCPU's side is not in the repository: it is the mirror of the SCPU's,   *)
(* except that it looks for room when it has its turn.                     *)
(***************************************************************************)
EXTENDS Integers

CONSTANTS
  Writers,   (* threads of the SCPU that log                               *)
  Slots,     (* LOG_QUEUE_NUM                                              *)
  MaxLogs    (* bound: logs                                                *)

ASSUME LogAssumption ==
  /\ "ncpu" \notin Writers
  /\ Slots \in Nat \ {0, 1} /\ MaxLogs \in Nat

Nobody == "ncpu"                    \* not a thread of the SCPU
Cores  == {"scpu", "ncpu"}
Index  == 0 .. Slots - 1

VARIABLES
  msgs,      \* the slots of p_msg
  wIdx,      \* logger_mgt.w_idx
  rIdx,      \* logger_mgt.r_idx
  willing,   \* logger_mgt.willing of the two processors
  turn,      \* logger_mgt.turn
  logMutex,  \* the holder of logger_mutex_id
  flags,     \* the logger's thread flags FLAG_LOGGER_SCPU_IN, ..._NCPU_IN
  writer,    \* where each thread and the NCPU stand
  logger     \* where the logger stands, and the flags it woke up with

VARIABLES
  begun,     \* history: logs begun
  written,   \* history: logs written
  printed,   \* history: the log printed last
  broken     \* history: a log was put into a full queue, or the logger took
             \* the index past the end for a log

logVars == <<msgs, wIdx, rIdx, willing, turn, logMutex, flags, writer, logger,
             begun, written, printed, broken>>

logHistory == <<begun, written, printed, broken>>

WriterPcs == {"idle", "check", "acquire", "turn", "spin", "write", "advance", "wrap", "leave",
              "signal"}
LoggerPcs == {"wait", "clear", "look", "print", "advance", "wrap"}

LogInit ==
  /\ msgs = [i \in Index |-> 0]
  /\ wIdx = 0 /\ rIdx = 0
  /\ willing = [c \in Cores |-> FALSE] /\ turn = "scpu"
  /\ logMutex = Nobody
  /\ flags = {}
  /\ writer = [w \in Writers \cup {"ncpu"} |-> "idle"]
  /\ logger = [at |-> "wait", got |-> {}]
  /\ begun = 0 /\ written = 0 /\ printed = 0 /\ broken = FALSE

-----------------------------------------------------------------------------
(* Writing a log.                                                          *)

Core(w)  == IF w = "ncpu" THEN "ncpu" ELSE "scpu"
Other(c) == IF c = "scpu" THEN "ncpu" ELSE "scpu"

Goto(w, from, to) == writer[w] = from /\ writer' = [writer EXCEPT ![w] = to]

Full == (wIdx + 1) % Slots = rIdx

BeginLog(w) ==
  /\ begun < MaxLogs /\ begun' = begun + 1
  /\ Goto(w, "idle", IF w = "ncpu" THEN "acquire" ELSE "check")
  /\ UNCHANGED <<msgs, wIdx, rIdx, willing, turn, logMutex, flags, logger, written, printed, broken>>

(* while ((w_idx + 1) % LOG_QUEUE_NUM == r_idx) wake the logger.           *)
CheckFull(w) ==
  /\ \/ ~Full /\ Goto(w, "check", "acquire") /\ UNCHANGED flags
     \/ Full /\ writer[w] = "check" /\ flags' = flags \cup {"scpu"} /\ UNCHANGED writer
  /\ UNCHANGED <<msgs, wIdx, rIdx, willing, turn, logMutex, logger, logHistory>>

\* mutant: the flags are trusted to keep the threads apart as well.
EnterWithoutMutex(w) ==
  /\ Goto(w, "acquire", "turn")
  /\ willing' = [willing EXCEPT ![Core(w)] = TRUE]
  /\ UNCHANGED <<msgs, wIdx, rIdx, turn, logMutex, flags, logger, logHistory>>

(* osMutexAcquire, of the threads of the SCPU, and willing = true.         *)
Enter(w) ==
  /\ Goto(w, "acquire", "turn")
  /\ IF w = "ncpu" THEN UNCHANGED logMutex ELSE logMutex = Nobody /\ logMutex' = w
  /\ willing' = [willing EXCEPT ![Core(w)] = TRUE]
  /\ UNCHANGED <<msgs, wIdx, rIdx, turn, flags, logger, logHistory>>

\* mutant: the writer gives itself the turn.
GiveTurnToItself(w) ==
  /\ Goto(w, "turn", "spin")
  /\ turn' = Core(w)
  /\ UNCHANGED <<msgs, wIdx, rIdx, willing, logMutex, flags, logger, logHistory>>

GiveTurn(w) ==
  /\ Goto(w, "turn", "spin")
  /\ turn' = Other(Core(w))
  /\ UNCHANGED <<msgs, wIdx, rIdx, willing, logMutex, flags, logger, logHistory>>

(* while (willing[other] && turn == other).  The NCPU drops its log when   *)
(* the queue is full.                                                      *)
Spin(w) ==
  /\ ~(willing[Other(Core(w))] /\ turn = Other(Core(w)))
  /\ Goto(w, "spin", IF w = "ncpu" /\ Full THEN "leave" ELSE "write")
  /\ UNCHANGED <<msgs, wIdx, rIdx, willing, turn, logMutex, flags, logger, logHistory>>

WriteText(w) ==
  /\ Goto(w, "write", "advance")
  /\ msgs' = [msgs EXCEPT ![wIdx] = written + 1]
  /\ written' = written + 1
  /\ UNCHANGED <<wIdx, rIdx, willing, turn, logMutex, flags, logger, begun, printed, broken>>

(* The two stores of w_idx = (++w_idx) % LOG_QUEUE_NUM.                    *)
AdvanceWrite(w) ==
  /\ Goto(w, "advance", "wrap")
  /\ wIdx' = wIdx + 1
  /\ broken' = (broken \/ (wIdx + 1) % Slots = rIdx % Slots)
  /\ UNCHANGED <<msgs, rIdx, willing, turn, logMutex, flags, logger, begun, written, printed>>

WrapWrite(w) ==
  /\ Goto(w, "wrap", "leave")
  /\ wIdx' = wIdx % Slots
  /\ UNCHANGED <<msgs, rIdx, willing, turn, logMutex, flags, logger, logHistory>>

(* willing = false and osMutexRelease.                                     *)
Leave(w) ==
  /\ Goto(w, "leave", "signal")
  /\ willing' = [willing EXCEPT ![Core(w)] = FALSE]
  /\ logMutex' = IF w = "ncpu" THEN logMutex ELSE Nobody
  /\ UNCHANGED <<msgs, wIdx, rIdx, turn, flags, logger, logHistory>>

(* osThreadFlagsSet, for the NCPU in its interrupt handler (print_log).    *)
Signal(w) ==
  /\ Goto(w, "signal", "idle")
  /\ flags' = flags \cup {Core(w)}
  /\ UNCHANGED <<msgs, wIdx, rIdx, willing, turn, logMutex, logger, logHistory>>

-----------------------------------------------------------------------------
(* The logger.                                                             *)

LoggerGoto(from, to) == logger.at = from /\ logger' = [logger EXCEPT !.at = to]

(* osThreadFlagsWait clears what it returns.                               *)
LoggerWakes ==
  /\ logger.at = "wait" /\ flags # {}
  /\ logger' = [at |-> "clear", got |-> flags]
  /\ flags' = {}
  /\ UNCHANGED <<msgs, wIdx, rIdx, willing, turn, logMutex, writer, logHistory>>

(* osThreadFlagsClear(flags), once more.                                   *)
LoggerClears ==
  /\ LoggerGoto("clear", "look")
  /\ flags' = flags \ logger.got
  /\ UNCHANGED <<msgs, wIdx, rIdx, willing, turn, logMutex, writer, logHistory>>

(* while (r_idx != w_idx)                                                  *)
LoggerLooks ==
  /\ LoggerGoto("look", IF rIdx = wIdx THEN "wait" ELSE "print")
  /\ broken' = (broken \/ (rIdx # wIdx /\ rIdx = wIdx % Slots))
  /\ UNCHANGED <<msgs, wIdx, rIdx, willing, turn, logMutex, flags, writer, begun, written, printed>>

LoggerPrints ==
  /\ LoggerGoto("print", "advance")
  /\ printed' = msgs[rIdx]
  /\ UNCHANGED <<msgs, wIdx, rIdx, willing, turn, logMutex, flags, writer, begun, written, broken>>

LoggerAdvances ==
  /\ LoggerGoto("advance", "wrap")
  /\ rIdx' = rIdx + 1
  /\ UNCHANGED <<msgs, wIdx, willing, turn, logMutex, flags, writer, logHistory>>

\* mutant: one log for each time the logger is woken.
PrintOnlyOne ==
  /\ LoggerGoto("wrap", "wait")
  /\ rIdx' = rIdx % Slots
  /\ UNCHANGED <<msgs, wIdx, willing, turn, logMutex, flags, writer, logHistory>>

LoggerWraps ==
  /\ LoggerGoto("wrap", "look")
  /\ rIdx' = rIdx % Slots
  /\ UNCHANGED <<msgs, wIdx, willing, turn, logMutex, flags, writer, logHistory>>

-----------------------------------------------------------------------------
WriterStep(w) ==
  \/ CheckFull(w) \/ Enter(w) \/ GiveTurn(w) \/ Spin(w) \/ WriteText(w)
  \/ AdvanceWrite(w) \/ WrapWrite(w) \/ Leave(w) \/ Signal(w)

Logger ==
  \/ LoggerWakes \/ LoggerClears \/ LoggerLooks
  \/ LoggerPrints \/ LoggerAdvances \/ LoggerWraps

LogNext == Logger \/ \E w \in Writers \cup {"ncpu"} : BeginLog(w) \/ WriterStep(w)

LogSpec == LogInit /\ [][LogNext]_logVars

(* The logger has a high priority; the threads and the NCPU go on.         *)
LogFairness ==
  /\ WF_logVars(Logger)
  /\ \A w \in Writers \cup {"ncpu"} : WF_logVars(WriterStep(w))

-----------------------------------------------------------------------------
(* Properties.                                                             *)

LogTypeOK ==
  /\ msgs \in [Index -> Nat]
  /\ wIdx \in 0 .. Slots /\ rIdx \in 0 .. Slots
  /\ willing \in [Cores -> BOOLEAN] /\ turn \in Cores
  /\ logMutex \in Writers \cup {Nobody}
  /\ flags \subseteq Cores
  /\ writer \in [Writers \cup {"ncpu"} -> WriterPcs]
  /\ logger \in [at : LoggerPcs, got : SUBSET Cores]
  /\ {begun, written, printed} \subseteq Nat /\ broken \in BOOLEAN

(* "it must be atomic process": no two writers, of the same processor or   *)
(* of both, are between the test of the flags and the new write index.     *)
Writing == {"write", "advance", "wrap", "leave"}
WritersApart ==
  \A v, w \in Writers \cup {"ncpu"} :
    writer[v] \in Writing /\ writer[w] \in Writing => v = w

(* Logs are printed in the order they were written, each once and none     *)
(* before its text is complete, whatever the writers and the logger        *)
(* interleave.  A full queue that is written to (the test for room is made *)
(* before the mutex) or an index seen past the end breaks the queue; until *)
(* then:                                                                   *)
PrintsInOrder ==
  logger.at = "print" /\ ~broken => msgs[rIdx] = printed + 1

(* No log stays in the queue: the logger clears its flags a second time,   *)
(* and a flag set in between is lost, but not the log it tells of.         *)
EveryLogPrinted == printed # written ~> printed = written \/ broken

=============================================================================
