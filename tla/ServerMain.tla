------------------------------ MODULE ServerMain ------------------------------
(***************************************************************************)
(* The life of the server program (lora_network_server.c main, rtlora_mac.c*)
(* macMainThread, trade.c): the command line options, the start of the     *)
(* threads, the log file that main rotates while every thread writes to    *)
(* it, and the end after a signal or an 'x' at the terminal.               *)
(*                                                                         *)
(* The threads other than main and the MAC thread are abstracted to their  *)
(* log writes: a write takes the value of log_file and uses it later,      *)
(* without mutexLogFile, which only main takes.  A file that was closed is *)
(* known by its number.  Time is counted in rounds of main's loop.         *)
(***************************************************************************)
EXTENDS Integers, FiniteSets

CONSTANTS
    Choices,    (* the values that may be given to each option             *)
    Check,      (* rounds between two looks at the log's age: 60            *)
    Rotate,     (* log_rotate_interval in rounds: 7200                      *)
    Hour,       (* an hour in rounds                                        *)
    MaxFiles    (* bound: log files that are opened                         *)

Option == {"n", "u", "d", "c"}

ASSUME MainAssumption ==
    /\ Choices \in [Option -> SUBSET Nat]
    /\ {Check, Rotate, Hour, MaxFiles} \subseteq Nat \ {0}

\* The threads beside main and the MAC thread: started by the MAC thread, and
\* by main
MacWorker == {"phase", "inputMsg"}
MainWorker == {"input", "downstream"}
Worker == MacWorker \cup MainWorker

VARIABLES
    params,         (* the parameters of the MAC                            *)
    pc,             (* where main is                                        *)
    mac,            (* where the MAC thread is                              *)
    worker,         (* of each worker: not started, running, asked to stop,  *)
                    (* ended                                                *)
    exit_sig,       (* a signal asked the program to stop                   *)
    log_file,       (* the number of the current file, 0 for NULL           *)
    opened,         (* files that were opened                               *)
    closed,         (* files that were closed                               *)
    writing,        (* the file each worker is about to write to, -1: none  *)
    misused,        (* a write went to a closed file or to NULL             *)
    time_check,     (* rounds since the last look                           *)
    since,          (* log_time - log_start_time, as main computes it       *)
    age             (* the age of the log                                   *)

logVars == <<log_file, opened, closed>>
clock == <<time_check, since, age>>
vars == <<params, pc, mac, worker, exit_sig, logVars, writing, misused, clock>>

Init ==
    /\ params = [n |-> 6, u |-> 100, d |-> 200, c |-> 1]
    /\ pc = "options" /\ mac = "none" /\ worker = [w \in Worker |-> "none"]
    /\ exit_sig = FALSE /\ log_file = 0 /\ opened = 0 /\ closed = {}
    /\ writing = [w \in Worker |-> -1] /\ misused = FALSE
    /\ time_check = 0 /\ since = 0 /\ age = 0

\* exit() and the end of main end all threads
Ended == pc \in {"exit", "end"}

-----------------------------------------------------------------------------
\* mutant: the largest slot is 320 ms
Accepted_Wide(o, v) ==
    IF o \in {"n", "c"} THEN v \in 1 .. 7 ELSE v \in 30 .. 320 /\ v % 10 = 0

Accepted(o, v) ==
    IF o \in {"n", "c"} THEN v \in 1 .. 7 ELSE v \in 30 .. 310 /\ v % 10 = 0

\* One option; a value that is refused ends the program
ParseOption(o, v) ==
    /\ pc = "options"
    /\ params' = [params EXCEPT ![o] = v]
    /\ pc' = IF Accepted(o, v) THEN pc ELSE "exit"
    /\ UNCHANGED <<mac, worker, exit_sig, logVars, writing, misused, clock>>

\* The four parameters as they are announced: 3, 5, 5 and 3 bits
Announced == [n |-> params.n % 8, u |-> (params.u \div 10) % 32,
              d |-> (params.d \div 10) % 32, c |-> params.c % 8]

-----------------------------------------------------------------------------
\* open_log: a file of its own name, or failing, NULL
open_log(ok) ==
    /\ opened < MaxFiles
    /\ log_file' = IF ok THEN opened + 1 ELSE 0
    /\ opened' = IF ok THEN opened + 1 ELSE opened

\* Without a log the program does not start
OpenFirst(ok) ==
    /\ pc = "options" /\ open_log(ok) /\ closed' = closed
    /\ pc' = IF ok THEN "start" ELSE "exit"
    /\ UNCHANGED <<params, mac, worker, exit_sig, writing, misused, clock>>

\* twohopLoRaMacInit, the lists, and the threads of main
Start ==
    /\ pc = "start" /\ pc' = "loop" /\ mac' = "asleep"
    /\ worker' = [w \in Worker |-> IF w \in MainWorker THEN "running" ELSE worker[w]]
    /\ UNCHANGED <<params, exit_sig, logVars, writing, misused, clock>>

sig_handler ==
    /\ ~exit_sig /\ exit_sig' = TRUE
    /\ UNCHANGED <<params, pc, mac, worker, logVars, writing, misused, clock>>

-----------------------------------------------------------------------------
\* mutant: the start of the new log is not noted
SinceAfter_Kept(rotated) == since + 1
SinceAfter(rotated) == IF rotated THEN 0 ELSE since + 1

\* mutant: the old file stays open
Closes_Not == {}
Closes == {log_file}

\* mutant: the age is compared with the limit of the next look
Due_Late == since + 1 > Rotate + Check
Due == since + 1 > Rotate

Passes(rotated) ==
    /\ since' = SinceAfter(rotated)
    /\ age' = IF rotated THEN 0 ELSE age + 1

\* mutant: the count of rounds is not set back
Round_NoReset(ok) ==
    /\ pc = "loop" /\ ~exit_sig /\ time_check' = time_check + 1
    /\ IF time_check + 1 >= Check /\ Due
       THEN open_log(ok) /\ closed' = closed \cup Closes /\ Passes(TRUE)
       ELSE UNCHANGED logVars /\ Passes(FALSE)
    /\ UNCHANGED <<params, pc, mac, worker, exit_sig, writing, misused>>

\* A round of main's loop: at each Check-th one an old log is replaced; what
\* open_log returns is not looked at
Round(ok) ==
    /\ pc = "loop" /\ ~exit_sig
    /\ IF time_check + 1 >= Check
       THEN /\ time_check' = 0
            /\ IF Due THEN open_log(ok) /\ closed' = closed \cup Closes /\ Passes(TRUE)
               ELSE UNCHANGED logVars /\ Passes(FALSE)
       ELSE time_check' = time_check + 1 /\ UNCHANGED logVars /\ Passes(FALSE)
    /\ UNCHANGED <<params, pc, mac, worker, exit_sig, writing, misused>>

-----------------------------------------------------------------------------
\* mutant: the end of the MAC thread is not waited for
Joined_Not == TRUE
Joined == mac = "ended"

\* The end: the MAC thread is waited for (twohopLoRaMacDeInit), the threads of
\* main are asked to stop ...
Stop ==
    /\ pc = "loop" /\ exit_sig /\ Joined
    /\ pc' = "closing"
    /\ worker' = [w \in Worker |-> IF w \in MainWorker /\ worker[w] = "running" THEN "asked" ELSE worker[w]]
    /\ UNCHANGED <<params, mac, exit_sig, logVars, writing, misused, clock>>

\* ... a last line is written and the log closed
CloseLog ==
    /\ pc = "closing" /\ pc' = "return"
    /\ misused' = (misused \/ log_file = 0)
    /\ closed' = closed \cup {log_file}
    /\ UNCHANGED <<params, mac, worker, exit_sig, log_file, opened, writing, clock>>

Return ==
    /\ pc = "return" /\ pc' = "end"
    /\ UNCHANGED <<params, mac, worker, exit_sig, logVars, writing, misused, clock>>

\* 'x' at the terminal: the lists are freed and the program exits
terminal_input_handle ==
    /\ pc \in {"loop", "closing", "return"} /\ worker["input"] \in {"running", "asked"}
    /\ pc' = "exit"
    /\ UNCHANGED <<params, mac, worker, exit_sig, logVars, writing, misused, clock>>

-----------------------------------------------------------------------------
\* macMainThread: five seconds after its start it starts its two threads
MacStart ==
    /\ mac = "asleep" /\ mac' = "running"
    /\ misused' = (misused \/ log_file = 0)
    /\ worker' = [w \in Worker |-> IF w \in MacWorker THEN "running" ELSE worker[w]]
    /\ UNCHANGED <<params, pc, exit_sig, logVars, writing, clock>>

\* mutant: its threads go on
MacStops_Not(w) == w
MacStops(w) == IF w = "running" THEN "asked" ELSE w

\* mutant: it sees only one of the two signals
MacStop_Quit ==
    /\ mac = "running" /\ FALSE /\ mac' = "ended"
    /\ UNCHANGED <<params, pc, worker, misused, exit_sig, logVars, writing, clock>>

\* It looks every ten seconds and asks them to stop
MacStop ==
    /\ mac = "running" /\ exit_sig /\ mac' = "ended"
    /\ misused' = (misused \/ log_file \in closed \cup {0})
    /\ worker' = [w \in Worker |-> IF w \in MacWorker THEN MacStops(worker[w]) ELSE worker[w]]
    /\ UNCHANGED <<params, pc, exit_sig, logVars, writing, clock>>

\* A worker takes log_file ...
TakeLog(w) ==
    /\ worker[w] \in {"running", "asked"} /\ writing[w] = -1
    /\ writing' = [writing EXCEPT ![w] = log_file]
    /\ UNCHANGED <<params, pc, mac, worker, exit_sig, logVars, misused, clock>>

\* ... and writes to it
Write(w) ==
    /\ writing[w] # -1
    /\ misused' = (misused \/ writing[w] \in closed \cup {0})
    /\ writing' = [writing EXCEPT ![w] = -1]
    /\ UNCHANGED <<params, pc, mac, worker, exit_sig, logVars, clock>>

\* A thread that was asked to stop ends at its next cancellation point, main's
\* threads also when they see the signal
WorkerEnds(w) ==
    /\ writing[w] = -1
    /\ worker[w] = "asked" \/ (worker[w] = "running" /\ w \in MainWorker /\ exit_sig)
    /\ worker' = [worker EXCEPT ![w] = "ended"]
    /\ UNCHANGED <<params, pc, mac, exit_sig, logVars, writing, misused, clock>>

-----------------------------------------------------------------------------
Main ==
    \/ \E o \in Option : \E v \in Choices[o] : ParseOption(o, v)
    \/ \E ok \in BOOLEAN : OpenFirst(ok) \/ Round(ok)
    \/ Start \/ Stop \/ CloseLog \/ Return

Mac == MacStart \/ MacStop

Workers == \E w \in Worker : TakeLog(w) \/ Write(w) \/ WorkerEnds(w)

Next ==
    \/ Main \/ sig_handler
    \/ ~Ended /\ (terminal_input_handle \/ Mac \/ Workers)

Spec == Init /\ [][Next]_vars

\* The threads of main and the MAC run; main is done with its options in the end
FairSpec ==
    /\ Spec
    /\ WF_vars(\E ok \in BOOLEAN : OpenFirst(ok))
    /\ WF_vars(Start \/ Stop \/ CloseLog \/ Return)
    /\ WF_vars(~Ended /\ Mac)

-----------------------------------------------------------------------------
TypeOK ==
    /\ params \in [Option -> Nat]
    /\ pc \in {"options", "start", "loop", "closing", "return", "end", "exit"}
    /\ mac \in {"none", "asleep", "running", "ended"}
    /\ worker \in [Worker -> {"none", "running", "asked", "ended"}]
    /\ exit_sig \in BOOLEAN /\ misused \in BOOLEAN
    /\ log_file \in 0 .. MaxFiles /\ opened \in 0 .. MaxFiles /\ closed \subseteq 0 .. MaxFiles
    /\ writing \in [Worker -> -1 .. MaxFiles]
    /\ time_check \in 0 .. Check - 1 /\ since \in Nat /\ age \in Nat

\* Whatever sequence of options a program runs with, what it announces to the
\* nodes is what it uses itself: no value was cut to its bits.
AnnouncedIsUsed ==
    pc \notin {"options", "exit"} =>
        /\ Announced.n = params.n /\ Announced.c = params.c
        /\ 10 * Announced.u = params.u /\ 10 * Announced.d = params.d

\* All files but the current one are closed, so that a server that runs for
\* long does not run out of files.
OneFileOpen == \A f \in 1 .. opened : f \notin closed => f = log_file

\* A log is replaced when it is older than the interval and within a check
\* period of that.
LogBounded == age <= Rotate + Check

\* A log is not replaced before it is older than the interval.
NotEarly == [][opened' > opened /\ opened > 0 => age >= Rotate]_vars

\* Main closes the log only when the MAC thread has ended, and its two threads
\* were asked to stop.
MacEndsFirst ==
    pc \in {"closing", "return", "end"} =>
        mac = "ended" /\ \A w \in MacWorker : worker[w] # "running"

\* After a signal the program ends.
EndsOnSignal == exit_sig ~> Ended

\* lora_network_server.c:291 "wait for upstream thread to finish (1 fetch cycle
\* max)": when the log is closed the input thread has ended.
UpstreamFinished == pc \in {"return", "end"} => worker["input"] = "ended"

\* lora_network_server.c:123 "by default, rotation every hour".
RotatedEveryHour == age <= Hour + Check

\* lora_network_server.c:279 "check time and rotate log file if necessary":
\* while the program runs, lines go to an open file, also across a rotation.
LinesAreLogged == pc = "loop" => ~misused
=============================================================================
