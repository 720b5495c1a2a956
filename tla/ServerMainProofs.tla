--------------------------- MODULE ServerMainProofs ---------------------------
(***************************************************************************)
(* Theorems about the life of the server program (ServerMain): for any     *)
(* intervals, any number of log files and any values given to the options. *)
(***************************************************************************)
EXTENDS ServerMain, TLAPS

-----------------------------------------------------------------------------
\* Type correctness is inductive as it stands.
LEMMA InitType == Init => TypeOK
<1> SUFFICES ASSUME Init PROVE TypeOK
  OBVIOUS
<1>1. 0 \in 0 .. Check - 1 /\ 0 \in 0 .. MaxFiles /\ -1 \in -1 .. MaxFiles
  BY MainAssumption
<1>2. params \in [Option -> Nat]
  BY DEF Init, Option
<1>3. mac \in {"none"} /\ worker \in [Worker -> {"none"}] /\ writing \in [Worker -> {-1}]
  BY DEF Init
<1> QED
  BY <1>1, <1>2, <1>3, MainAssumption DEF Init, TypeOK

\* The number of a new log file stays within the bound.
LEMMA OpenKeepsType ==
    ASSUME TypeOK, NEW ok \in BOOLEAN, open_log(ok)
    PROVE  log_file' \in 0 .. MaxFiles /\ opened' \in 0 .. MaxFiles
BY MainAssumption DEF TypeOK, open_log

\* The steps of main
LEMMA MainKeepsType == TypeOK /\ Main => TypeOK'
<1> SUFFICES ASSUME TypeOK, Main PROVE TypeOK'
  OBVIOUS
<1> USE MainAssumption
<1>1. CASE \E o \in Option : \E v \in Choices[o] : ParseOption(o, v)
  <2>1. PICK o \in Option : \E v \in Choices[o] : ParseOption(o, v)
    BY <1>1
  <2>2. PICK v \in Choices[o] : ParseOption(o, v)
    BY <2>1
  <2>3. v \in Nat
    BY <2>1, <2>2
  <2>4. params' \in [Option -> Nat]
    BY <2>2, <2>3 DEF ParseOption, TypeOK
  <2> QED
    BY <2>2, <2>4 DEF ParseOption, TypeOK, logVars, clock
<1>2. CASE \E ok \in BOOLEAN : OpenFirst(ok)
  <2>1. PICK ok \in BOOLEAN : OpenFirst(ok)
    BY <1>2
  <2>2. log_file' \in 0 .. MaxFiles /\ opened' \in 0 .. MaxFiles
    BY <2>1, OpenKeepsType DEF OpenFirst
  <2> QED
    BY <2>1, <2>2 DEF OpenFirst, TypeOK, clock
<1>3. CASE \E ok \in BOOLEAN : Round(ok)
  <2>1. PICK ok \in BOOLEAN : Round(ok)
    BY <1>3
  <2>2. time_check' \in 0 .. Check - 1
    <3>1. time_check \in 0 .. Check - 1 /\ Check \in Nat \ {0}
      BY DEF TypeOK
    <3>2. CASE time_check + 1 >= Check
      BY <2>1, <3>1, <3>2 DEF Round
    <3>3. CASE ~ (time_check + 1 >= Check)
      <4>1. time_check' = time_check + 1
        BY <2>1, <3>3 DEF Round
      <4> QED
        BY <3>1, <3>3, <4>1
    <3> QED
      BY <3>2, <3>3
  <2>3. since' \in Nat /\ age' \in Nat
    BY <2>1 DEF Round, TypeOK, Passes, SinceAfter
  <2>4. CASE UNCHANGED logVars
    BY <2>1, <2>2, <2>3, <2>4 DEF Round, TypeOK, logVars
  <2>5. CASE open_log(ok) /\ closed' = closed \cup Closes
    <3>1. log_file' \in 0 .. MaxFiles /\ opened' \in 0 .. MaxFiles
      BY <2>5, OpenKeepsType
    <3>2. closed' \subseteq 0 .. MaxFiles
      BY <2>5 DEF Closes, TypeOK
    <3> QED
      BY <2>1, <2>2, <2>3, <3>1, <3>2 DEF Round, TypeOK
  <2> QED
    BY <2>1, <2>4, <2>5 DEF Round
<1>4. CASE Start
  BY <1>4 DEF Start, TypeOK, logVars, clock
<1>5. CASE Stop
  BY <1>5 DEF Stop, TypeOK, logVars, clock
<1>6. CASE CloseLog
  BY <1>6 DEF CloseLog, TypeOK, clock
<1>7. CASE Return
  BY <1>7 DEF Return, TypeOK, logVars, clock
<1> QED
  BY <1>1, <1>2, <1>3, <1>4, <1>5, <1>6, <1>7 DEF Main

\* The steps of the other threads
LEMMA OthersKeepType ==
    ASSUME TypeOK, sig_handler \/ terminal_input_handle \/ Mac \/ Workers
    PROVE  TypeOK'
<1>1. CASE sig_handler
  BY <1>1 DEF sig_handler, TypeOK, logVars, clock
<1>2. CASE terminal_input_handle
  BY <1>2 DEF terminal_input_handle, TypeOK, logVars, clock
<1>3. CASE MacStart
  BY <1>3 DEF MacStart, TypeOK, logVars, clock
<1>4. CASE MacStop
  BY <1>4 DEF MacStop, MacStops, TypeOK, logVars, clock
<1>5. ASSUME NEW w \in Worker, TakeLog(w) PROVE TypeOK'
  <2>1. writing' \in [Worker -> -1 .. MaxFiles]
    BY <1>5, MainAssumption DEF TakeLog, TypeOK
  <2> QED
    BY <1>5, <2>1 DEF TakeLog, TypeOK, logVars, clock
<1>6. ASSUME NEW w \in Worker, Write(w) PROVE TypeOK'
  <2>1. writing' \in [Worker -> -1 .. MaxFiles]
    BY <1>6, MainAssumption DEF Write, TypeOK
  <2> QED
    BY <1>6, <2>1 DEF Write, TypeOK, logVars, clock
<1>7. ASSUME NEW w \in Worker, WorkerEnds(w) PROVE TypeOK'
  BY <1>7 DEF WorkerEnds, TypeOK, logVars, clock
<1> QED
  BY <1>1, <1>2, <1>3, <1>4, <1>5, <1>6, <1>7 DEF Mac, Workers

\* One case for main, one for the other threads.
LEMMA NextKeepsType == TypeOK /\ [Next]_vars => TypeOK'
<1>1. TypeOK /\ UNCHANGED vars => TypeOK'
  BY DEF vars, logVars, clock, TypeOK
<1> QED
  BY <1>1, MainKeepsType, OthersKeepType DEF Next

\* The state of the server program is well typed in every reachable state; a
\* round never counts to a full check period.
THEOREM TypeCorrect == Spec => []TypeOK
BY InitType, NextKeepsType, PTL DEF Spec

-----------------------------------------------------------------------------
(* The log file.                                                            *)

\* Until the options are read there is no file; main's own reckoning of the
\* log's age is right; rounds since the last look are the only way an old log
\* gets older.
LogInv ==
    /\ pc = "options" => opened = 0 /\ age = 0
    /\ OneFileOpen
    /\ since = age
    /\ age <= Rotate + time_check

\* The program starts without a log.
LEMMA InitLog == Init => LogInv
BY MainAssumption DEF Init, LogInv, OneFileOpen

\* A look at the log that is due
LEMMA RotationKeepsLog ==
    ASSUME TypeOK, LogInv, NEW ok \in BOOLEAN, open_log(ok), closed' = closed \cup Closes
    PROVE  OneFileOpen'
<1> SUFFICES ASSUME NEW f \in 1 .. opened', f \notin closed' PROVE f = log_file'
  BY DEF OneFileOpen
<1>1. CASE f \in 1 .. opened
  BY <1>1 DEF OneFileOpen, LogInv, Closes
<1>2. CASE f \notin 1 .. opened
  BY <1>2, MainAssumption DEF open_log, TypeOK
<1> QED
  BY <1>1, <1>2

\* A round replaces the log or lets it get older by one.
LEMMA RoundKeepsLog == ASSUME TypeOK, LogInv, NEW ok \in BOOLEAN, Round(ok) PROVE LogInv'
<1> USE MainAssumption
<1>1. pc' = "loop"
  BY DEF Round
<1>2. CASE time_check + 1 >= Check /\ Due
  <2>1. open_log(ok) /\ closed' = closed \cup Closes /\ Passes(TRUE) /\ time_check' = 0
    BY <1>2 DEF Round
  <2>2. since' = 0 /\ age' = 0
    BY <2>1 DEF Passes, SinceAfter
  <2> QED
    BY <1>1, <2>1, <2>2, RotationKeepsLog DEF LogInv
<1>3. CASE ~ (time_check + 1 >= Check /\ Due)
  <2>1. UNCHANGED logVars /\ Passes(FALSE)
    BY <1>3 DEF Round
  <2>2. since' = since + 1 /\ age' = age + 1
    BY <2>1 DEF Passes, SinceAfter
  <2>3. OneFileOpen'
    BY <2>1 DEF logVars, LogInv, OneFileOpen
  <2>4. age' <= Rotate + time_check'
    <3>1. CASE time_check + 1 >= Check
      BY <1>3, <2>2, <3>1 DEF Round, Due, LogInv, TypeOK
    <3>2. CASE ~ (time_check + 1 >= Check)
      BY <2>2, <3>2 DEF Round, LogInv, TypeOK
    <3> QED
      BY <3>1, <3>2
  <2> QED
    BY <1>1, <2>2, <2>3, <2>4 DEF LogInv
<1> QED
  BY <1>2, <1>3

\* The first log is the only one.
LEMMA OpenFirstKeepsLog ==
    ASSUME TypeOK, LogInv, NEW ok \in BOOLEAN, OpenFirst(ok)
    PROVE  LogInv'
<1>1. pc' # "options" /\ UNCHANGED clock
  BY DEF OpenFirst
<1>2. OneFileOpen'
  BY MainAssumption DEF OpenFirst, open_log, LogInv, OneFileOpen, TypeOK
<1> QED
  BY <1>1, <1>2 DEF LogInv, clock

\* Only main's rounds and its start touch the log.
LEMMA NextKeepsLog == TypeOK /\ LogInv /\ [Next]_vars => LogInv'
<1> SUFFICES ASSUME TypeOK, LogInv, [Next]_vars PROVE LogInv'
  OBVIOUS
<1>1. CASE \E ok \in BOOLEAN : Round(ok)
  BY <1>1, RoundKeepsLog
<1>2. CASE \E ok \in BOOLEAN : OpenFirst(ok)
  BY <1>2, OpenFirstKeepsLog
<1>3. CASE /\ UNCHANGED <<log_file, opened, clock>> /\ closed \subseteq closed'
           /\ pc' = "options" => pc = "options"
  <2>1. OneFileOpen'
    BY <1>3 DEF LogInv, OneFileOpen
  <2> QED
    BY <1>3, <2>1 DEF LogInv, clock
<1>4. CASE \E o \in Option : \E v \in Choices[o] : ParseOption(o, v)
  BY <1>3, <1>4 DEF ParseOption, logVars
<1>5. CASE Start \/ Stop \/ CloseLog \/ Return \/ sig_handler \/ terminal_input_handle
  BY <1>3, <1>5 DEF Start, Stop, CloseLog, Return, sig_handler, terminal_input_handle, logVars
<1>6. CASE Mac \/ Workers
  BY <1>3, <1>6 DEF Mac, MacStart, MacStop, Workers, TakeLog, Write, WorkerEnds, logVars
<1>7. CASE UNCHANGED vars
  BY <1>3, <1>7 DEF vars, logVars
<1> QED
  BY <1>1, <1>2, <1>4, <1>5, <1>6, <1>7 DEF Next, Main

\* Of all log files ever opened at most the current one is open: the rotation
\* of main's loop leaks no file, also when a new one cannot be opened.
THEOREM NoFileLeaks == Spec => []OneFileOpen
<1>1. LogInv => OneFileOpen
  BY DEF LogInv
<1> QED
  BY <1>1, InitType, NextKeepsType, InitLog, NextKeepsLog, PTL DEF Spec

\* No log gets older than the interval and one check period, whatever the two
\* are.
THEOREM OldLogsReplaced == Spec => []LogBounded
<1>1. TypeOK /\ LogInv => LogBounded
  BY MainAssumption DEF TypeOK, LogInv, LogBounded
<1> QED
  BY <1>1, InitType, NextKeepsType, InitLog, NextKeepsLog, PTL DEF Spec

-----------------------------------------------------------------------------
(* The end of the program.                                                  *)

\* A MAC thread that has ended left neither of its threads running.
EndInv == MacEndsFirst /\ (mac = "ended" => \A w \in MacWorker : worker[w] # "running")

\* Once the MAC thread has ended it is not started again.
LEMMA NextKeepsEnd == TypeOK /\ EndInv /\ [Next]_vars => EndInv'
<1> SUFFICES ASSUME TypeOK, EndInv, [Next]_vars PROVE EndInv'
  OBVIOUS
<1> DEFINE Past == {"closing", "return", "end"}
<1>1. CASE Stop
  BY <1>1 DEF Stop, Joined, EndInv, MacEndsFirst, Worker, MacWorker, MainWorker
<1>2. CASE MacStop
  BY <1>2 DEF MacStop, MacStops, EndInv, MacEndsFirst, Worker, MacWorker, TypeOK
<1>3. CASE MacStart
  BY <1>3 DEF MacStart, EndInv, MacEndsFirst
<1>4. CASE Start
  BY <1>4 DEF Start, EndInv, MacEndsFirst
<1>5. ASSUME NEW w \in Worker, WorkerEnds(w) PROVE EndInv'
  BY <1>5 DEF WorkerEnds, EndInv, MacEndsFirst, TypeOK, Worker
<1>6. CASE UNCHANGED <<mac, worker>> /\ (pc' \in Past => pc \in Past)
  BY <1>6 DEF EndInv, MacEndsFirst
<1>7. CASE \E o \in Option : \E v \in Choices[o] : ParseOption(o, v)
  BY <1>6, <1>7 DEF ParseOption
<1>8. CASE \E ok \in BOOLEAN : OpenFirst(ok) \/ Round(ok)
  BY <1>6, <1>8 DEF OpenFirst, Round
<1>9. CASE CloseLog \/ Return \/ sig_handler \/ terminal_input_handle
  BY <1>6, <1>9 DEF CloseLog, Return, sig_handler, terminal_input_handle
<1>10. CASE \E w \in Worker : TakeLog(w) \/ Write(w)
  BY <1>6, <1>10 DEF TakeLog, Write
<1>11. CASE UNCHANGED vars
  BY <1>6, <1>11 DEF vars
<1> QED
  BY <1>1, <1>2, <1>3, <1>4, <1>5, <1>7, <1>8, <1>9, <1>10, <1>11 DEF Next, Main, Mac, Workers

\* The log is closed only after the MAC thread has ended and its two threads
\* were asked to stop.
THEOREM MacBeforeLog == Spec => []MacEndsFirst
<1>1. Init => EndInv
  BY DEF Init, EndInv, MacEndsFirst
<1>2. EndInv => MacEndsFirst
  BY DEF EndInv
<1> QED
  BY <1>1, <1>2, InitType, NextKeepsType, NextKeepsEnd, PTL DEF Spec
=============================================================================
