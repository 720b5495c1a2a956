-------------------------------- MODULE GwMain --------------------------------
(***************************************************************************)
(* The life of the gateway program (main of rtlora_gw.c) after its         *)
(* configuration, which GwConfig models: connect to the server, start the  *)
(* concentrator, start three threads, install the signal handlers, sleep,  *)
(* and stop what was started.  The threads call the concentrator library   *)
(* now and then, and the downlink thread notices when the server is gone.  *)
(* Signals come at any time.                                               *)
(***************************************************************************)
EXTENDS Integers

CONSTANTS
    MaxAttempts,    (* connect_attempts beyond which main gives up: 200      *)
    Stat,           (* stat_interval, in ticks                               *)
    Cycle,          (* what main sleeps: 1000 * stat_interval seconds        *)
    BadCancel       (* pthread_cancel of a thread that was never created may *)
                    (* crash the program                                     *)

MainAssumption ==
    /\ {MaxAttempts, Stat, Cycle} \subseteq Nat /\ Cycle > 0
    /\ BadCancel \in BOOLEAN

Threads == {"up", "down", "jit"}

VARIABLES
    pc,         (* the step of main; ended, killed and crashed are final      *)
    attempts,   (* connect_attempts                                           *)
    server,     (* the server listens                                         *)
    sock,       (* sock_down: none, open, connected, shut                     *)
    hal,        (* the concentrator: stopped, running                         *)
    thread,     (* each thread: none, idle, call (in the library), gone       *)
    cancelled,  (* the threads that were asked to end                         *)
    exitSig, quitSig,
    left,       (* ticks main still sleeps                                    *)
    gone,       (* ticks since the downlink thread found the server gone      *)
    sig         (* an exit signal came while the concentrator ran             *)

signals == <<exitSig, quitSig, sig>>
vars == <<pc, attempts, server, sock, hal, thread, cancelled, exitSig, quitSig, left, gone, sig>>

Final == {"ended", "killed", "crashed"}

Init ==
    /\ pc = "socket" /\ attempts = 0 /\ server \in BOOLEAN
    /\ sock = "none" /\ hal = "stopped"
    /\ thread = [t \in Threads |-> "none"] /\ cancelled = {}
    /\ exitSig = FALSE /\ quitSig = FALSE /\ sig = FALSE
    /\ left = 0 /\ gone = 0

-----------------------------------------------------------------------------
(* main                                                                     *)

\* exit(): all threads of the program are gone with it
Exit ==
    /\ pc' = "ended" /\ thread' = [t \in Threads |-> "gone"]

Socket ==
    /\ pc = "socket"
    /\ \/ /\ sock' = "open" /\ pc' = "connect" /\ UNCHANGED thread
       \/ /\ Exit /\ UNCHANGED sock       \* socket or setsockopt fails
    /\ UNCHANGED <<attempts, server, hal, cancelled, signals, left, gone>>

\* mutant: no attempt is counted
GiveUp_Never == FALSE

GiveUp == attempts > MaxAttempts

Connect ==
    /\ pc = "connect"
    /\ \/ /\ server /\ sock' = "connected" /\ pc' = "start"
          /\ UNCHANGED <<attempts, thread>>
       \/ /\ ~server /\ GiveUp /\ Exit
          /\ UNCHANGED <<attempts, sock>>
       \/ /\ ~server /\ ~GiveUp
          /\ attempts' = IF attempts <= MaxAttempts THEN attempts + 1 ELSE attempts
          /\ UNCHANGED <<pc, sock, thread>>
    /\ UNCHANGED <<server, hal, cancelled, signals, left, gone>>

\* A start that fails is the end; the concentrator may be half set up
Start ==
    /\ pc = "start"
    /\ \/ /\ hal' = "running" /\ pc' = "create" /\ UNCHANGED thread
       \/ /\ hal' = hal /\ Exit
    /\ UNCHANGED <<attempts, server, sock, cancelled, signals, left, gone>>

\* The threads in their order; one that cannot be created ends the program
NextThread ==
    IF thread["up"] = "none" THEN "up" ELSE IF thread["down"] = "none" THEN "down" ELSE "jit"

Create ==
    /\ pc = "create"
    /\ \/ /\ thread' = [thread EXCEPT ![NextThread] = "idle"]
          /\ pc' = IF NextThread = "jit" THEN "signals" ELSE "create"
       \/ Exit
    /\ UNCHANGED <<attempts, server, sock, hal, cancelled, signals, left, gone>>

\* mutant: the handlers are installed before anything else
Handlers_First == pc \notin Final

Handlers == pc \in {"loop", "cancel", "stop"}

Signals ==
    /\ pc = "signals" /\ pc' = "loop"
    /\ UNCHANGED <<attempts, server, sock, hal, thread, cancelled, signals, left, gone>>

\* mutant: the mark of the end is looked at once, before the first sleep
Loop_Asleep ==
    /\ pc = "loop" /\ left = 0
    /\ IF (exitSig \/ quitSig) /\ gone = 0 /\ \A t \in Threads : thread[t] = "idle"
          THEN pc' = "cancel" /\ left' = left ELSE pc' = pc /\ left' = Cycle
    /\ UNCHANGED <<attempts, server, sock, hal, thread, cancelled, signals, gone>>

\* The loop: sleep again, or leave it
Loop ==
    /\ pc = "loop" /\ left = 0
    /\ IF exitSig \/ quitSig THEN pc' = "cancel" /\ left' = left
                             ELSE pc' = pc /\ left' = Cycle
    /\ UNCHANGED <<attempts, server, sock, hal, thread, cancelled, signals, gone>>

\* pthread_cancel asks a thread to end and does not wait for it.  The fourth
\* thread was never created.
Cancel ==
    /\ pc = "cancel"
    /\ cancelled' = Threads
    /\ pc' \in {"stop"} \cup (IF BadCancel THEN {"crashed"} ELSE {})
    /\ UNCHANGED <<attempts, server, sock, hal, thread, signals, left, gone>>

\* mutant: only a quit signal stops the hardware
Clean_Swapped == quitSig

\* if an exit signal was received, try to quit properly
Clean == exitSig

Stop ==
    /\ pc = "stop"
    /\ IF Clean THEN sock' = "shut" /\ hal' = "stopped" ELSE UNCHANGED <<sock, hal>>
    /\ Exit
    /\ UNCHANGED <<attempts, server, cancelled, signals, left, gone>>

-----------------------------------------------------------------------------
(* The threads                                                              *)

Call(t) ==
    /\ thread[t] = "idle" /\ t \notin cancelled
    /\ thread' = [thread EXCEPT ![t] = "call"]
    /\ UNCHANGED <<pc, attempts, server, sock, hal, cancelled, signals, left, gone>>

\* The library has no cancellation point: a thread leaves a call first
Return(t) ==
    /\ thread[t] = "call"
    /\ thread' = [thread EXCEPT ![t] = "idle"]
    /\ UNCHANGED <<pc, attempts, server, sock, hal, cancelled, signals, left, gone>>

Die(t) ==
    /\ thread[t] = "idle" /\ t \in cancelled
    /\ thread' = [thread EXCEPT ![t] = "gone"]
    /\ UNCHANGED <<pc, attempts, server, sock, hal, cancelled, signals, left, gone>>

\* thread_down reads 0 bytes: it sets exit_sig and ends, and main sleeps on
ServerGone ==
    /\ thread["down"] = "idle" /\ "down" \notin cancelled /\ ~server
    /\ exitSig' = TRUE
    /\ thread' = [thread EXCEPT !["down"] = "gone"]
    /\ UNCHANGED <<pc, attempts, server, sock, hal, cancelled, quitSig, sig, left, gone>>

-----------------------------------------------------------------------------
(* What happens to the program                                              *)

\* sig_handler: one mark for SIGQUIT, the other for SIGINT and SIGTERM
sig_handler(quit) ==
    /\ quitSig' = (quitSig \/ quit)
    /\ exitSig' = (exitSig \/ ~quit)

\* A signal wakes main from its sleep; without a handler it kills
Signal ==
    /\ pc \notin Final
    /\ \E quit \in BOOLEAN :
          /\ sig' = (sig \/ (~quit /\ hal = "running"))
          /\ IF Handlers
                THEN sig_handler(quit) /\ left' = 0 /\ UNCHANGED <<pc, thread>>
                ELSE /\ pc' = "killed" /\ thread' = [t \in Threads |-> "gone"]
                     /\ UNCHANGED <<exitSig, quitSig, left>>
    /\ UNCHANGED <<attempts, server, sock, hal, cancelled, gone>>

ServerChange ==
    /\ pc \notin Final
    /\ server' = ~server
    /\ UNCHANGED <<pc, attempts, sock, hal, thread, cancelled, signals, left, gone>>

Tick ==
    /\ pc = "loop" /\ left > 0
    /\ left' = left - 1
    /\ gone' = IF exitSig /\ gone < Cycle THEN gone + 1 ELSE gone
    /\ UNCHANGED <<pc, attempts, server, sock, hal, thread, cancelled, signals>>

Main == Socket \/ Connect \/ Start \/ Create \/ Signals \/ Loop \/ Cancel \/ Stop

Next ==
    \/ Main
    \/ \E t \in Threads : Call(t) \/ Return(t) \/ Die(t)
    \/ ServerGone
    \/ Signal \/ ServerChange
    \/ Tick

Spec == Init /\ [][Next]_vars

\* The threads return from the library, and time goes on
FairSpec ==
    Spec /\ WF_vars(Main) /\ WF_vars(Tick) /\ \A t \in Threads : WF_vars(Return(t))

-----------------------------------------------------------------------------
TypeOK ==
    /\ pc \in {"socket", "connect", "start", "create", "signals", "loop", "cancel", "stop"} \cup Final
    /\ attempts \in 0 .. (MaxAttempts + 1)
    /\ sock \in {"none", "open", "connected", "shut"} /\ hal \in {"stopped", "running"}
    /\ thread \in [Threads -> {"none", "idle", "call", "gone"}] /\ cancelled \subseteq Threads
    /\ {server, exitSig, quitSig, sig} \subseteq BOOLEAN
    /\ left \in 0 .. Cycle /\ gone \in 0 .. Cycle
    /\ quitSig => pc \in {"loop", "cancel", "stop"} \cup Final

\* A program that ends by itself with exit_sig set, whoever set it, leaves
\* the concentrator stopped and the connection shut; with quit_sig alone it
\* leaves both as they are (rtlora_gw.c:142-143, 883-894).
EndsAsAsked ==
    pc = "ended" /\ thread["jit"] = "gone" /\ cancelled = Threads =>
        IF exitSig THEN hal = "stopped" /\ sock = "shut"
                   ELSE hal = "running" /\ sock = "connected"

\* Whether the server is there, comes, goes or never listens, main comes to
\* its loop or to an end.
Settles == <>(pc \in {"loop"} \cup Final)

\* A signal that the handler takes ends the program, also while threads are
\* in the library and main sleeps.
SignalEnds == (exitSig \/ quitSig) ~> (pc \in Final)

\* rtlora_gw.c:876: main is to "wait for upstream thread to finish", so that
\* no thread is in the library when the concentrator is stopped.
StopsAlone ==
    [][(pc = "stop" /\ hal' = "stopped") => \A t \in Threads : thread[t] # "call"]_vars

\* rtlora_gw.c:153: stat_interval is a "time interval (in sec)" of the loop;
\* when the server is gone and the log says "Stop program!" main notices
\* within it.
StopsWithinInterval == gone <= Stat

\* rtlora_gw.c:142: exit_sig, which SIGINT and SIGTERM stand for, means that
\* the "application terminates cleanly (shut down hardware, ...)".
SignalStopsHardware == pc \in Final /\ sig => hal = "stopped"

\* The same of a signal that the handler took.
CleanAfterHandler == pc \in Final /\ exitSig /\ cancelled # {} => hal = "stopped"
=============================================================================
