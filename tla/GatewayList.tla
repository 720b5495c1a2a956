----------------------------- MODULE GatewayList -----------------------------
(***************************************************************************)
(* The gateways of the server: the linked list GW_HEAD (device_management.c*)
(* 54-163), the sockets that the input thread selects on and accepts, and  *)
(* the downstream thread, which writes every message to each gateway       *)
(* (lora_network_server.c 334-353, 601-706, 956-963).  Nothing protects    *)
(* the list: the downstream thread walks it while the input thread links   *)
(* and frees its nodes, so each step of the walk is an action.             *)
(*                                                                         *)
(* A node of the list lives and dies with its connection, whose name it    *)
(* has here.  Reading a freed node is undefined: the thread finds the old  *)
(* contents, or the program ends.                                          *)
(***************************************************************************)
EXTENDS Integers, Sequences, FiniteSets, FiniteSetsExt

CONSTANTS Conns,          (* the connections gateways make                    *)
          NULL,
          server_socket,  (* its descriptor                                   *)
          FdLimit,        (* bound: the largest descriptor                    *)
          MaxMsgs         (* bound: messages sent                             *)

GatewayAssumption ==
    /\ IsFiniteSet(Conns) /\ NULL \notin Conns
    /\ server_socket \in Nat /\ FdLimit \in Nat /\ FdLimit > server_socket
    /\ MaxMsgs \in Nat

VARIABLES
    conn,          (* the state of each connection                           *)
    fd,            (* its descriptor at the server                           *)
    head, next,    (* GW_HEAD.next and the links of the nodes                *)
    freed,         (* the nodes that were freed                              *)
    reads, fdmax,  (* what the input thread selects on                       *)
    inPc, cur,     (* the input thread and the connection it handles         *)
    msg,           (* number of the message that is sent                     *)
    dnPc, j, at,   (* the downstream thread: its loop, its place in the list *)
    got,           (* history: the messages each gateway got                 *)
    steady,        (* history: connections in place ever since msg was taken *)
    ended          (* how the program ended, "no" while it runs              *)

connVars == <<conn, fd>>
listVars == <<head, next, freed>>
inVars == <<reads, fdmax, inPc, cur>>
downVars == <<msg, dnPc, j, at, got>>
vars == <<conn, fd, head, next, freed, reads, fdmax, inPc, cur,
          msg, dnPc, j, at, got, steady, ended>>

Running == ended = "no"

Open == {c \in Conns : conn[c] \in {"open", "peerClosed", "reset"}}

FreeFds == (server_socket + 1 .. FdLimit) \ {fd[c] : c \in Open}

OnFd(f) == {c \in Open : fd[c] = f}

\* The nodes that the links lead to from x: those of every set that has x and
\* that no link leaves.
ReachedFrom(x) ==
    {c \in Conns : \A S \in SUBSET Conns :
        (x \in S \cup {NULL} /\ \A d \in S : next[d] \in S \cup {NULL}) => c \in S}

\* The connections whose nodes can be reached from GW_HEAD.
Listed == ReachedFrom(head)

Init ==
    /\ conn = [c \in Conns |-> "none"] /\ fd = [c \in Conns |-> 0]
    /\ head = NULL /\ next = [c \in Conns |-> NULL] /\ freed = {}
    /\ reads = {0, server_socket} /\ fdmax = server_socket
    /\ inPc = "select" /\ cur = NULL
    /\ msg = 0 /\ dnPc = "wait" /\ j = 0 /\ at = NULL
    /\ got = [c \in Conns |-> << >>]
    /\ steady = {}
    /\ ended = "no"
-----------------------------------------------------------------------------
(* The gateways.                                                            *)

Connect ==
    /\ \E c \in Conns : conn[c] = "none" /\ conn' = [conn EXCEPT ![c] = "backlog"]
    /\ UNCHANGED <<fd, listVars, inVars, downVars, steady, ended>>

Disconnect ==
    /\ \E c \in Conns : /\ conn[c] = "open"
                        /\ conn' = [conn EXCEPT ![c] = "peerClosed"]
                        /\ steady' = steady \ {c}
    /\ UNCHANGED <<fd, listVars, inVars, downVars, ended>>
-----------------------------------------------------------------------------
(* The input thread.                                                        *)

\* new_gw_connection_handle: accept, with the least free descriptor.
Accept ==
    /\ Running /\ inPc = "select" /\ FreeFds # {}
    /\ \E c \in Conns :
         /\ conn[c] = "backlog"
         /\ conn' = [conn EXCEPT ![c] = "open"]
         /\ fd' = [fd EXCEPT ![c] = Min(FreeFds)]
         /\ cur' = c
    /\ inPc' = "add"
    /\ UNCHANGED <<listVars, reads, fdmax, downVars, steady, ended>>

\* AddGateWay: a node whose socket is listed already is reused (its comment
\* says that never happens), else a new one is put in front.
AddGateWay ==
    /\ Running /\ inPc = "add"
    /\ IF \E c \in Listed : fd[c] = fd[cur]
       THEN UNCHANGED <<head, next>>
       ELSE next' = [next EXCEPT ![cur] = head] /\ head' = cur
    /\ inPc' = "watch"
    /\ UNCHANGED <<connVars, freed, reads, fdmax, cur, downVars, steady, ended>>

\* A thread that does not forget the connection it is done with.
Watch_KeepsCur ==
    /\ Running /\ inPc = "watch"
    /\ reads' = reads \cup {fd[cur]}
    /\ fdmax' = Max({fdmax, fd[cur]})
    /\ inPc' = "select"
    /\ UNCHANGED <<cur, connVars, listVars, downVars, steady, ended>>

\* FD_SET and the largest descriptor.
Watch ==
    /\ Running /\ inPc = "watch"
    /\ reads' = reads \cup {fd[cur]}
    /\ fdmax' = Max({fdmax, fd[cur]})
    /\ inPc' = "select" /\ cur' = NULL
    /\ UNCHANGED <<connVars, listVars, downVars, steady, ended>>

\* read() returned 0 on a gateway's socket; on one that was reset it returns
\* -1 first, which changes nothing.
ReadEnd ==
    /\ Running /\ inPc = "select"
    /\ \E c \in Listed : /\ fd[c] \in reads
                         /\ conn[c] \in {"peerClosed", "reset"}
                         /\ cur' = c
    /\ inPc' = "remove"
    /\ UNCHANGED <<connVars, listVars, reads, fdmax, downVars, steady, ended>>

\* A removal that unlinks everything in front of the node as well.
RemoveGateWay_FromHead ==
    /\ Running /\ inPc = "remove"
    /\ head' = next[cur]
    /\ freed' = freed \cup {cur}
    /\ inPc' = "close"
    /\ UNCHANGED <<connVars, next, reads, fdmax, cur, downVars, steady, ended>>

\* RemoveGateWay: unlinked from its predecessor, and freed.  (The devices of
\* the old protocol, which it goes through, too, do not exist any more.)
RemoveGateWay ==
    /\ Running /\ inPc = "remove"
    /\ head' = IF head = cur THEN next[cur] ELSE head
    /\ next' = [c \in Conns |-> IF c \in Listed /\ next[c] = cur THEN next[cur] ELSE next[c]]
    /\ freed' = freed \cup {cur}
    /\ inPc' = "close"
    /\ UNCHANGED <<connVars, reads, fdmax, cur, downVars, steady, ended>>

\* A thread that does not take the socket out of its set.
Close_KeepsWatching ==
    /\ Running /\ inPc = "close"
    /\ conn' = [conn EXCEPT ![cur] = "closed"]
    /\ inPc' = "select" /\ cur' = NULL
    /\ UNCHANGED <<fd, listVars, reads, fdmax, downVars, steady, ended>>

\* FD_CLR and close; fdmax stays.
Close ==
    /\ Running /\ inPc = "close"
    /\ reads' = reads \ {fd[cur]}
    /\ conn' = [conn EXCEPT ![cur] = "closed"]
    /\ inPc' = "select" /\ cur' = NULL
    /\ UNCHANGED <<fd, listVars, fdmax, downVars, steady, ended>>
-----------------------------------------------------------------------------
(* The downstream thread: for (j = 0; j < fdmax + 1; j++).                  *)

\* A message is taken from the queue and written down.
TakeMsg ==
    /\ Running /\ dnPc = "wait" /\ msg < MaxMsgs
    /\ msg' = msg + 1 /\ j' = 0 /\ dnPc' = "loop"
    /\ steady' = {c \in Listed : conn[c] = "open" /\ fd[c] <= fdmax}
    /\ UNCHANGED <<connVars, listVars, inVars, at, got, ended>>

\* The test of the loop, and FindGateWay(j) entered.
Loop ==
    /\ Running /\ dnPc = "loop"
    /\ IF j <= fdmax
       THEN dnPc' = "find" /\ at' = head
       ELSE dnPc' = "wait" /\ UNCHANGED at
    /\ UNCHANGED <<connVars, listVars, inVars, msg, j, got, steady, ended>>

\* A search that looks at the first node only.
Find_FirstOnly ==
    /\ Running /\ dnPc = "find" /\ at \notin freed
    /\ IF at = NULL \/ fd[at] # j THEN j' = j + 1 /\ dnPc' = "loop"
       ELSE dnPc' = "write" /\ UNCHANGED j
    /\ UNCHANGED <<connVars, listVars, inVars, msg, at, got, steady, ended>>

\* One step of FindGateWay's walk.
Find ==
    /\ Running /\ dnPc = "find"
    /\ CASE at = NULL                  -> j' = j + 1 /\ dnPc' = "loop" /\ UNCHANGED at
         [] at # NULL /\ fd[at] = j    -> dnPc' = "write" /\ UNCHANGED <<j, at>>
         [] at # NULL /\ fd[at] # j    -> at' = next[at] /\ UNCHANGED <<dnPc, j>>
    /\ UNCHANGED <<connVars, listVars, inVars, msg, got, steady, ended>>

\* ... on a node that was freed under it.
FindFreed ==
    /\ Running /\ dnPc = "find" /\ at \in freed
    /\ ended' = "freedNode"
    /\ UNCHANGED <<connVars, listVars, inVars, downVars, steady>>

\* A broadcast that starts again when a gateway was met.
Write_StartsAgain ==
    /\ Running /\ dnPc = "write"
    /\ got' = [c \in Conns |-> IF c \in OnFd(j) THEN Append(got[c], msg) ELSE got[c]]
    /\ j' = IF \E c \in OnFd(j) : Len(got[c]) < msg THEN 0 ELSE j + 1
    /\ dnPc' = "loop"
    /\ UNCHANGED <<connVars, listVars, inVars, msg, at, steady, ended>>

\* write(j): the descriptor may have been closed, or closed and given to
\* another connection, since the search.  The first write to a gateway that
\* has gone makes its host reset the connection.
Write ==
    /\ Running /\ dnPc = "write"
    /\ \A c \in OnFd(j) : conn[c] # "reset"
    /\ got' = [c \in Conns |-> IF c \in OnFd(j) /\ conn[c] = "open"
                               THEN Append(got[c], msg) ELSE got[c]]
    /\ conn' = [c \in Conns |-> IF c \in OnFd(j) /\ conn[c] = "peerClosed"
                                THEN "reset" ELSE conn[c]]
    /\ j' = j + 1 /\ dnPc' = "loop"
    /\ UNCHANGED <<fd, listVars, inVars, msg, at, steady, ended>>

\* Writing to a connection that was reset raises SIGPIPE.  set_signal installs
\* no handler for it: the process ends.
WriteReset ==
    /\ Running /\ dnPc = "write"
    /\ \E c \in OnFd(j) : conn[c] = "reset"
    /\ ended' = "sigpipe"
    /\ UNCHANGED <<connVars, listVars, inVars, downVars, steady>>

\* 'x' at the terminal: DeinitGateWayInfo closes and frees all, then exit.
Quit ==
    /\ Running /\ inPc = "select"
    /\ ended' = "exit"
    /\ head' = NULL /\ freed' = freed \cup Listed
    /\ conn' = [c \in Conns |-> IF c \in Listed THEN "closed" ELSE conn[c]]
    /\ UNCHANGED <<fd, next, inVars, downVars, steady>>

Next ==
    \/ Quit \/ Connect \/ Disconnect
    \/ Accept \/ AddGateWay \/ Watch \/ ReadEnd \/ RemoveGateWay \/ Close
    \/ TakeMsg \/ Loop \/ Find \/ FindFreed \/ Write \/ WriteReset

Spec == Init /\ [][Next]_vars
-----------------------------------------------------------------------------
(* Properties.                                                              *)

\* The variables have their types.
TypeOK ==
    /\ conn \in [Conns -> {"none", "backlog", "open", "peerClosed", "reset", "closed"}]
    /\ fd \in [Conns -> 0 .. FdLimit]
    /\ head \in Conns \cup {NULL} /\ next \in [Conns -> Conns \cup {NULL}]
    /\ freed \subseteq Conns
    /\ reads \subseteq 0 .. FdLimit /\ fdmax \in 0 .. FdLimit
    /\ inPc \in {"select", "add", "watch", "remove", "close"}
    /\ (inPc = "select") = (cur = NULL)
    /\ msg \in 0 .. MaxMsgs /\ j \in 0 .. FdLimit + 1
    /\ dnPc \in {"wait", "loop", "find", "write"} /\ at \in Conns \cup {NULL}
    /\ ended \in {"no", "exit", "sigpipe", "freedNode"}

\* Between two sockets handled by the input thread, the gateways of the list
\* are exactly the connections that are watched, each with a socket of its own
\* below fdmax, and no node of the list was freed: so AddGateWay never meets a
\* listed socket ("Never enter here.." at device_management.c:104).
ListMatchesSockets ==
    Running /\ inPc = "select" =>
        /\ Listed = Open
        /\ reads = {0, server_socket} \cup {fd[c] : c \in Listed}
        /\ \A c, d \in Listed : fd[c] = fd[d] => c = d
        /\ \A c \in Listed : fd[c] <= fdmax
        /\ Listed \cap freed = {}

\* No gateway gets a message twice, or an older one after a newer one, even
\* when its descriptor was another's during the same broadcast.
AtMostOnce == \A c \in Conns : \A m, n \in 1 .. Len(got[c]) : m < n => got[c][m] < got[c][n]

\* A gateway that was there when the message was taken, and is still there when
\* the broadcast ends, got it, however other gateways came and went meanwhile.
SteadyGetAll ==
    Running /\ dnPc = "wait" /\ msg > 0
        => \A c \in steady : got[c] # << >> /\ got[c][Len(got[c])] = msg

\* "Handling SIGPIPE" (lora_network_server.c:130): the server outlives a
\* gateway that goes away.
SurvivesLostGateway == ended # "sigpipe"
=============================================================================
