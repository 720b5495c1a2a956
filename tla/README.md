# Formal models of the two-hop RT-LoRa server and gateway

This directory holds TLA+ models of the network server in
`src/twohop_rtlora_sv`, of the gateway's packet forwarder in
`src/twohop_rtlora_gw` and of the concentrator library below it in
`src/lora_gateway`, the TLC configurations that check them on small instances,
and TLAPS proofs of theorems that hold for every instance.
`PROJECT.json` maps every definition to the lines it models.

## 1. The system

A **server** schedules the uplink slots of a two-hop LoRa network. End nodes
within reach of a gateway are *one-hop* nodes; a one-hop node may be a *relay*
for up to two *two-hop* nodes (its children). **Gateways** are packet
forwarders: they pass uplink messages to the server over TCP and transmit the
server's downlink messages at a given time. Time is divided into *frames* of
`2^mac_frame_factor` uplink slots on each channel; a channel has one
*scheduling group* of nodes.

### Components, their state and how they interact

| component | source | state | operations |
|---|---|---|---|
| slot scheduler | `schedule_mngt.c`, `schedule()`, `prepareDownlinkMsgPayload()` of `rtlora_mac.c` | `SCHEDULES[]`: for each group the nodes in slot order, `nboAsgSlots`, `nboDistReq` | assign slots, insert, remove, clear, announce in a schedule message (SM) or in the update part (USI) of a command message (CM) |
| node lists | `device_mngt.c` | `RNL` (registrations not yet taken over), `NODES` (sorted by demand), each node's role, parent, children, marks, DATA statistics | register, update in place, take out and put back, add a child, mark; count DATA |
| MAC phases and threads | `rtlora_mac.c` | `phase`, `phaseTransRequest`, the frame countdown | phase handler thread: data collection frames and schedule distribution phases; input handler thread: registration requests (RR) and DATA |
| packet queues | `packet_queue.c`, both ends in `rtlora_mac.c` and `lora_network_server.c` | two bounded linked lists, `flagTxMsg`/`flagRxMsg` with condition variables | enqueue and notify, wait and dequeue |
| network server | `lora_network_server.c` | sockets, `fd_set`, terminal | accept, read datagrams, parse JSON, answer TIMESYNC, broadcast downlink datagrams |
| gateway list | `device_management.c` | linked list of connections | add, find, remove |
| application | `application.c`, `weather_device.c` | sensor values per node | take in by the input thread, parse by the phase thread |
| just-in-time queue | `jitqueue.c` (gateway) | up to 32 packets with a time of transmission | enqueue with collision test, peek, purge, dequeue, sort |
| end devices | `device_management.c`, `lora_mac.c` | the list of LoRaWAN devices of the earlier one-hop server, each with its two best gateways; a receive buffer; a frame counter | enter, update, drop a gateway; cut the stream into frames; send a data frame, answer a join. Only the start, the end and the removal of gateways still call into it |
| conversions, log | `base64.c`, `trade.c`, `application.c` | one log file that all threads write to | encode, decode, open, rotate, close |
| packet forwarder | `rtlora_gw.c`, `timersync.c` (gateway) | configuration, TCP connection, TIMESYNC state, JIT queue, `exit_sig`/`quit_sig` | `main`; up, down, JIT and (disabled) time synchronisation threads |
| concentrator library | `libloragw` | SPI link and register page, configuration, started flag; in the chip: FIFO, gains, trigger | connect, read and write registers; configure, start, stop; receive, send; listen before talk; radio setup; GPS time |
| utilities | `util_pkt_logger`, `util_tx_test` | log file; packet counter | programs over the library, run instead of the packet forwarder |

Calls and shared state on the server:

    gateways --TCP--> thread_inputstream --inbound queue--> inputMsgHandlerThread
                                                                 |  RNL (mutexRNL)
                                                                 v
    terminal "PT" --phaseTransRequest--> phaseHandlerThread -- NODES, SCHEDULES
                                                                 |
    gateways <--TCP-- thread_downstream <--outbound queue--------+

Only the phase handler thread touches `SCHEDULES` and the structure of `NODES`;
`RNL`, the statistics in `NODES`, the request flag and the queues are shared.

### Hard behaviours, and what makes each component correct

* **Slot scheduler.** Slots are handed out and taken back for as long as the
  server runs, holes are reused, and nodes keep the slots they were told. It is
  correct if no two nodes of a group ever share a slot, no node is scheduled
  twice, nobody's slots move silently, the counters by which groups are chosen
  and messages sized agree with the lists, and every schedule is announced as
  often as promised although messages have room for few nodes.
* **Node lists.** Nodes register again in other roles, with other classes and
  through other relays. Correct if a node is one entry, every listed child
  exists (its reference is followed unchecked), and a relay's demand covers
  itself and its children.
* **MAC.** Registrations arrive while the phases run. Correct if what is
  announced is always current, a node marked as scheduled has slots, and a
  requested phase change happens.
* **Queues.** Tests and updates are separate critical sections; a flag is
  cleared by the thread that waits for it. Correct if the list is a bounded
  FIFO, no freed cell is followed, and what was queued is taken.
* **MAC in time.** Each frame starts at the end of the one before; the user's
  request and new nodes come at any moment. Correct if messages leave at every
  period, a transition is counted down to the nodes and ends where it was
  announced, and every registration is taken over once, also one that arrives
  between two nodes of a take-over.
* **DATA statistics.** A frame may come directly, through the relay, both ways,
  twice or never; numbers wrap and nodes restart, and one thread counts without
  the lock of the other. Correct if what was sent and received is what is shown.
* **Connections.** TCP joins and cuts datagrams; gateways come and go while the
  other thread walks their list, and descriptors are used again. Correct if a
  message reaches each gateway that stays, and nothing is doubled, reordered or
  read in part.
* **JIT queue.** Packets for times out of order, a queue that is sorted and purged
  between a look and the removal, a radio that is busy. Correct if reservations
  never overlap and each packet is sent in its time or accounted for.
* **Start and end of both programs.** Signals come at any time; threads are asked
  to stop while they are in a library call or write to the log.
* **Concentrator library.** Configuration calls that are refused half way, starts
  that fail at any of some twenty steps, failed transactions under a cached page,
  32-bit time that wraps. Correct if the chip runs with what the library
  believes, and times computed from it are right.
* **End devices, weather data, GPS, utilities**: see the tables below. The hazards
  are in `PROJECT.json` at their lines.

## 2. Modules

| module | models | checked with |
|---|---|---|
| `ScheduleMngt` | one schedule list and the functions of `schedule_mngt.c`, as operators from a list to a list | through `SlotScheduler` |
| `SlotScheduler` | the table `SCHEDULES` and everything `rtlora_mac.c` does to it; which nodes ask for what is left open | itself |
| `DeviceMngt` | a node list and the functions of `device_mngt.c`, and `addNodeToNodeList` | through `RtLoraMac` |
| `RtLoraMac` | the two MAC threads, `RNL`, `NODES`, the phase change request; composes `DeviceMngt` with an instance of `SlotScheduler`, whose steps it takes together with its own | `MCRtLoraMac` |
| `FifoChannel`, `PktHandoff` | abstract: a bounded FIFO channel; the linked list, its critical sections, the flag and the condition variable, for both directions, which implements it | itself (outbound), `MCServer` (inbound) |
| `MacPhases` | the phase handler thread in time: the three phases, countdown, message numbers, what is left of an interval; the take-over of registrations node by node, and the second part of schedule distribution | `MCServer` |
| `DataStats` | the DATA statistics of nodes and links, and the check that runs without the lock | `MCServer` |
| `ServerMain` | the server's options, start, log rotation and end | `MCServer` |
| `WeatherData` | payloads between the input thread and the phase thread, their age, the message for the database | `MCServer` |
| `JitQueue`, `GwDownlink` | the gateway's queue, as operators that are one critical section each; `thread_down` and `thread_jit` on it, with time and the busy concentrator | `MCGateway` |
| `UplinkPath` | a packet's way from the concentrator's FIFO through `thread_up` and TCP into the server | `MCGateway` |
| `DownlinkPath` | a message's way from `thread_downstream` through TCP and `thread_down` to the JIT queue, field by field | `MCGateway` |
| `GwTimeSync` | the exchange of TIMESYNC between the gateway's thread, the server and `thread_down` | `MCGateway` |
| `GwConfig`, `GwMain` | the gateway's configuration files; its life from connecting to the end | `MCGateway` |
| `LgwReg` | SPI link and its transactions, register access, the cached page, bursts to the concentrator and its FPGA | `MCConcentrator` |
| `LgwHal` | configuration, start, calibration, firmware, gains, stop | `MCConcentrator` |
| `LgwSend`, `LgwLbt` | `lgw_send`, `lgw_status`, trigger and time on air; `lbt_*` | `MCConcentrator` |
| `LgwSx125x`, `LgwSx127x` | setup of the radios: PLL, offset calibration, probing | `MCConcentrator` |
| `LgwGps` | opening the GPS module, its two times, the reference and stamps with it, positions | `MCConcentrator` |
| `LgwReceive` | `lgw_receive`: the FIFO of the chip and the times of packets | `MCTools` |
| `PktLogger`, `TxTest` | the two utility programs | `MCTools` |
| `GatewayList` | connections, descriptors, `GW_HEAD`, and the downstream thread's walk | `MCLoraWan` |
| `EndDeviceList`, `LoraStream`, `LoraDownlink` | the earlier LoRaWAN part: devices and their gateways, frames out of a byte stream, downlink frames with `crypto.c` and `aes_cmac.c` | `MCLoraWan` |
| `Codings` | base64, hexadecimal addresses, the floating point number of a weather message, checksums and fields of GPS sentences and frames | `MCLoraWan` |
| `SlotSchedulerProofs`, `RtLoraMacProofs`, `PktHandoffProofs`, `LgwReceiveProofs`, `ServerMainProofs` | theorems about the module they are named for | `tlapm` |
| `GatewayProofs`, `ConcentratorProofs`, `LoraWanProofs` | theorems about the parts of a bench, which they extend: `GwDownlink`, `GwTimeSync` (`Sync`) and `GwConfig` (`Conf`); `LgwReg`, `LgwLbt` (`Lbt`), `LgwHal` (`Hal`) and `LgwGps` (`Gps`, `GpsPos`); `LoraDownlink`, `GatewayList` (`Gateways`) and `EndDeviceList` (`Devices`). The constants of these parts are constants of the bench, with values in the `.cfg` files | `tlapm` |

`MCServer`, `MCGateway`, `MCConcentrator`, `MCLoraWan` and `MCTools` put the
components of one program side by side. A *part* is an instance of a module over
variables of its own (the first one is the module the bench extends). The
variable `part` is chosen at the start and names the part that moves; the others
stand in an initial state. The parts share no variable, so every behaviour of
the bench is a behaviour of one part, and a property of a part is checked as
`part = "..." => ...`. What components do to each other is not lost by this: an
interaction that matters is inside one module, with both ends of it
(`RtLoraMac`, `PktHandoff`, `UplinkPath`, `DownlinkPath`, `GwDownlink`,
`GwTimeSync`, `GatewayList`). `TLC` checks no deadlock on a bench, because parts
stop at their bounds or where the program they model ends.

Operators and variables keep the names of the C functions and variables.
Definitions whose name ends in `_Something` (`smAssignLsiToNode_GapOffByOne`)
are deliberately wrong variants. No specification uses them; each shows that a
property would notice such a mistake.

### How code becomes actions

* An action is one critical section, one round of a loop whose lock is held
  throughout, or, for state of one thread only, one call. `SCHEDULES` belongs
  to the phase handler thread, so `ScheduleNode` is one round of the loop in
  `schedule()` (removal from all groups, choice of the group, assignment,
  insertion), and `SendSm`/`SendCm` build one message with all its effects on
  `nboSchDist` and `nboDistReq`.
* The walks over linked lists become sets of positions and their minimum: the
  first hole (`GapsAfter`), the first later node (`InsertPosition`), the
  positions a message covers (`SmWalk`, `UsiWalk`). `AssignIsFirstFit` compares
  the assignment with its definition on the frame's slots.
* `SmWalk` takes, as the code does, a run of consecutive nodes as long as the
  counter, whether they are pending or not; `SmWalkMeetsPendingNodes` shows why
  this is right in the phase in which it is used.
* `owed` is a history variable: what a node was promised minus what was sent.
* `unsigned` arithmetic is kept where it matters: `GapsAfter` models the
  wrap-around of `nboTotSlots - lastLsi`, `slotDmn` is taken modulo 256.
* `AddTwohopNode` includes the parent's removal and reinsertion, and
  `CollectNode` the loss of slots that precedes it, also when the node is then
  refused.
* In `PktHandoff` a waiting thread with its flag set stands for a thread that
  was signalled. `pthread_cond_wait` is in a loop on the flag, so spurious
  wakeups change nothing.

### Notes on single modules

* `SlotScheduler`: the class of a node in the schedule is copied into messages
  only and left out, as are fields that are written and never read (`nboNode`,
  `nboRmnSlots`, `nboSchReq`) and a `malloc` that fails.
* `RtLoraMac` starts in data collection, as the program does: the network
  initialisation phase is in the source and nothing enters it. `MacPhases`
  starts in both, to check that code as well.
* `MacPhases`: a step is one section under `mutexRNL`, `mutexNODES` or
  `mutexPhaseTrans`. Between the removal from `RNL` and the insertion into `NODES`
  a node is only in the hands of the phase handler (`held`), and the other thread
  may register it again; a registration is the node and its number among those of
  the node, so that an older one that comes out last would be seen. `sch2Sslot` is
  a byte that each relay in a schedule message advances; the thread sleeps for
  what it has counted before it collects data.
* `DataStats` keeps sequence numbers modulo `Wrap`. A frame that is still on its
  way when its node sends the next one is lost: no frame comes after a newer one.
* `WeatherData`: a payload is its first byte, its device number and the update it
  came with. The function that builds the message for the database has no caller.
* `ServerMain`: an `x` at the terminal calls `exit` while the threads run.
* `GwDownlink`: the constant `Pace` says how late `thread_jit` may be. `"timely"`:
  it is back at the head of its loop with every tick of the clock, so that claims
  about times of transmission are about the code and not about the load of the
  host; `"bursty"`: it may be kept from its loop for long and takes no time once
  it runs; `"free"`: it may stop anywhere.
* `UplinkPath`, `DownlinkPath`: with `Paced = FALSE` the connection cuts and joins
  what was written in any way; with `TRUE` a datagram is read before the next is
  written, which is what the code relies on. `DownlinkPath` takes a datagram for
  the fields that are in it and their types, not for its text.
* `GwTimeSync`: the thread is in the source and not started by this version. With
  `Prompt` an answer is taken after the request was recorded.
* `GwConfig`: parsing a section includes what the library does with it: it fills in
  what is undefined, refuses, and stores a refused gain table up to the entry it
  refuses. The program's own gain table is cleared for each file. The data rates of
  a channel for several spreading factors are never set by the parser, so that the
  refusal at `loragw_hal.c:597` is not met.
* `LgwReg`: `written` is what a register was last given, `doubt` the registers that a
  failed call or an access to a wrong page may have changed since.
* `LgwLbt`: the time between two packets is below one wrap of the 23-bit counter,
  which the library cannot see.
* `LgwGps` has the sentences as what they say; `Codings` has their checksums,
  labels and fields. How the serial stream is cut into them is not modelled. The
  module sends one native time for a pulse at most, as it was told to. Clocks are
  exact: 10 ppm of a difference are less than a count.
* `EndDeviceList`: most of its functions have no caller in this version; what they
  do to the list is modelled as if they were called.
* `LoraStream`: the overhead of a frame is 3 units instead of 41 bytes.
  `lora_network_server.c:363-438` is a copy of the loop that nothing calls.
* `LoraDownlink`: one counter serves all devices and wraps, in the code after 65536
  frames, in the run after two of four. `turns` counts the frames without a wrap.
  The cipher (`AES`, `InvAES`) and the exclusive or of bytes (`XorByte`) are
  constants; of them `XorAssumption` asks that a byte comes back when the same
  one is combined with it twice. The run uses a small cipher and two keys for
  which both subkeys of the integrity code are made with and without reduction,
  and payloads that end inside a block, at its end and behind it. Two things of
  the code are outside the model: `AES128_CMAC` takes the size in one byte, so
  that for 240 bytes and more the code covers the size modulo 256, and
  `SendFrame` includes two reserved bytes of the buffer it has not written.
* `PktLogger`: what is read from a file is a set of sections; a packet is its
  number. `interference_test` is a copy of this program.
* `Codings`: buffers of up to five bytes of five values each, a floating point
  format with fewer bits than the code's 32, and sentences and frames around
  such buffers.

## 3. Runs

| run | module | instance |
|---|---|---|
| `slot_scheduler` | `SlotScheduler` | 4 interchangeable nodes, 2 groups of 4 slots, demands 1 to 3, SMs of 1 node, USIs of 2, 2 SCH1 slots |
| `rtlora_mac` | `MCRtLoraMac` | 2 relays with 1 child each, 1 node both hear, 7 kinds of RR, 3 RRs in a run |
| `rtlora_mac_live` | `MCRtLoraMac` | as above, 2 RRs, countdown of 2 frames |
| `pkt_outbound` | `PktHandoff` | queue of 2, 3 cells, 3 messages |
| `server` | `MCServer` | log age up to 6 with a check every 2 and rotation after 4, 2 files; inbound queue of 2; phases with 3 nodes of which one registers twice, messages for 2 nodes or 2 relays, work of 1 or 3 units in intervals of 3, 1 and 2, a countdown of 2, any number of requests; one two-hop node with 3 DATA messages and a restart; 3 weather payloads |
| `gateway` | `MCGateway` | JIT queue of 3, 4 interchangeable packets at 4 times and of 2 lengths in 26 ticks; 4 or 5 received packets, 2 or 3 in a datagram; 7 messages and 17 foreign datagrams; clocks apart by up to 5 ticks; three configuration files of some 20 kinds |
| `gateway_live` | `MCGateway` | JIT queue of 2, 2 packets; the program's life with 3 attempts to connect |
| `concentrator` | `MCConcentrator` | 6 registers on 2 pages and a port of the FPGA, bytes of 3 bits, one failing transaction, the write of the page included; 3 radio and 5 channel requests, 2 gain tables; listen before talk on a counter modulo 32; 3 packets of 5 kinds sent, and one of every size, bandwidth and spreading factor; both radio types with one failing access; 9 GPS pulses, 5 kinds of bursts read up to a pulse late, on a counter that wraps after 3 2/3 seconds |
| `lorawan` | `MCLoraWan` | 2 devices and 3 gateways, 2 strengths; 3 connections on 2 descriptors, 2 messages; 4 frames with a counter of 2 values; all buffers of up to 5 bytes of 5 values |
| `tools` | `MCTools` | packets of every modem and size class; 11 sets of configuration files, 3 packets, 3 log files; 6 options, 3 packets |

| run | properties |
|---|---|
| `slot_scheduler` | `SlotsDisjoint`, `ScheduledOnce`; `SchedulesSound` (types, `SlotsInFrame`, `CountersExact`, `AssignIsFirstFit`, `SmWalkMeetsPendingNodes`, `DistributionOwed`); `SlotsKept` |
| `rtlora_mac` | `ChildrenKnown`, `DemandCoversChildren`; `NodesSound` (types, `NodesUnique`, `SchedulesCurrent`, `FlaggedNodesScheduledInSd`) |
| `rtlora_mac_live` | `PhasesProceed` (`PhaseRequestHonoured`, `EveryScheduleIsAnnounced`) |
| `pkt_outbound` | `ImplementsFifo`, `EveryMsgTaken` |
| `server` | `LogBounded`, `MacEndsFirst`, `ServerEnds`, `QueueIsFifo`, `PhasesKept`, `StatisticsTrue`, `WeatherShown` |
| `gateway` | `NoOverlap`, `OffsetAccurate`, `ConfigLayers`, `ServedOnTime`, `DatagramsArrive` |
| `gateway_live` | `EveryPktLeaves`, `MainSettles` |
| `concentrator` | `PageInStep`, `RegistersSound`, `RunsAsConfigured`, `TalksWhenFree`, `EmitsWhatWasSent`, `RadiosSetUp`, `GpsTimeSound` |
| `lorawan` | `CounterOnce`, `GatewaysServed`, `DecodedIsCoded`, `DevicesRouted` |
| `tools` | `FetchedOnceInOrder`, `FetchedWithTime`, `LoggerSound`, `TxTestSound` |

A property of a bench is the conjunction of what its parts promise; the parts'
own modules define and comment the conjuncts.

Two runs find the code at odds with what its comments say:

| run | what happens |
|---|---|
| `rtlora_mac_flag` | A scheduled one-hop node is reported as a child of a relay that is unknown or full: it loses its slots, is not accepted as a child, stays marked as scheduled, and gets no slots before the next schedule distribution phase (`FlaggedNodesScheduled`). |
| `gateway_early` | The purge in `jit_peek` empties the queue and index 0 is reported all the same. A packet queued before `thread_jit` dequeues is then sent at once, far before its time (`NotSentEarly`). |

### Disagreements met while modelling

The modules state what the comments, headers and protocol documents promise,
also where the code does otherwise. The following definitions are not among the
runs; each is false of the model of its module, at the line given. TLC finds the
counterexample when the definition is checked in place of the properties of the
run of that module, and with the constant or the input named, where one is.

| definition | line | what the code does |
|---|---|---|
| `SlotScheduler!SlotsInFrame` with a demand above `nboTotSlots` | `schedule_mngt.c:193` | an empty group gives slot 1 whatever the demand; behind such a node an unsigned difference wraps and every demand fits |
| `RtLoraMac!ServedChildrenConnected` | `rtlora_mac.c:1218` | a relay that still lists a child which moved away marks it as disconnected when it registers again |
| `RtLoraMac!ChildrenTakenIntoAccount` with classes 5 to 7 | `device_mngt.c:444` | 128 slots and twice 64 for a child wrap to a demand of 0 |
| `PktHandoff!NoSleepOnQueuedMsg` | `lora_network_server.c:738`, `rtlora_mac.c:1059` | the flag is cleared at the wrong place: a queued message waits for the next one |
| `MacPhases!EveryPeriod` | `rtlora_mac.c:614` | work longer than a frame makes the thread sleep for up to 2^32 us |
| `DataStats!CopyDoesNothing` with two `Gateways` | `device_mngt.c:311` | a copy of a message is recognised and counted for the links all the same |
| `DataStats!SilenceOnlyRaises` | `device_mngt.c:346` | a dangling else sets the count of missed data to 0 at its limit |
| `DataStats!MissedAtMost` | `rtlora_mac.c:623` | the check without the lock undoes the reset by data that just came |
| `DataStats!TotalCounted` with more messages than `Wrap` | `device_mngt.c:301` | a sequence number that wraps is taken for a restart |
| `ServerMain!UpstreamFinished` | `lora_network_server.c:294` | the join of the input thread is commented out |
| `ServerMain!RotatedEveryHour` | `lora_network_server.c:123` | the interval is two hours |
| `ServerMain!LinesAreLogged` | `lora_network_server.c:285` | the log is rotated under a lock no other thread takes, and a failed open is ignored |
| `WeatherData!StaleIsOutdated` | `weather_device.c:432` | a payload that is skipped freezes what is shown at its age |
| `WeatherData!PositionFromTable` with the device number `Index` + 1 | `weather_device.c:461` | two device numbers read beyond the table of positions |
| `GatewayList!SurvivesLostGateway` | `lora_network_server.c:1008` | SIGPIPE has no handler: a second write to a lost gateway ends the server |
| `UplinkPath!AllArrive`, not paced | `lora_network_server.c:684` | one read is taken for one datagram |
| `GwDownlink!NonePurged` | `jitqueue.c:121` | microseconds are compared with seconds; of two packets in one second the earlier may be purged |
| `GwDownlink!NoneMeetsBusyRadio` | `jitqueue.c:309` | the packet on the air is not part of the collision test |
| `GwDownlink!MissedNotSent`, `Pace` free | `jitqueue.c:206` | after a purge the new first packet is not tested |
| `GwTimeSync!OffsetAccurate`, not `Prompt` | `rtlora_gw.c:1709` | the answer may be taken before the request is recorded |
| `GwConfig!OnlyWhatIsDefined` | `rtlora_gw.c:314` | a local file without a value resets it, the program's gain table included |
| `GwConfig!GainsAnywhere` | `rtlora_gw.c:344` | gains are counted, and stored at their own index: a table with a gap is refused though each gain is valid, and the program ends |
| `GwConfig!DisabledRadioRuns` | `rtlora_gw.c:445` | a disabled radio has no type and is refused |
| `GwConfig!LocalRefusedStops` | `rtlora_gw.c:741` | with a local file only, a refusal is not noticed |
| `GwMain!StopsAlone` | `rtlora_gw.c:877` | main stops the concentrator while threads may use it |
| `GwMain!StopsWithinInterval` | `rtlora_gw.c:869` | `sleep` is given milliseconds |
| `GwMain!SignalStopsHardware` | `rtlora_gw.c:857` | the signal handlers are installed last |
| `GwMain!CleanAfterHandler` with `BadCancel` | `rtlora_gw.c:880` | a thread that was never created is cancelled |
| `LgwReg!PageKept` | `loragw_reg.c:403` | the cached page is set before the write, whose result is dropped |
| `LgwReg!FieldsKept` | `loragw_reg.c:434` | a field's neighbours are written with what was read, also when the read failed |
| `LgwReg!PointerMeansOpen` with `OpenFaults` | `loragw_reg.c:512` | the pointer to a closed link stays set |
| `LgwHal!GainsValid` with an invalid gain in `LutConfs` | `loragw_hal.c:659` | the size of a gain table is stored before its entries are checked |
| `LgwHal!GainsAsLoaded` with `GainAtRun` | `loragw_hal.c:650` | gains can be changed while the concentrator runs |
| `LgwHal!StartedMeansRuns` with `Restart` | `loragw_hal.c:711` | a start that fails leaves the mark of the one before |
| `LgwHal!FirmwareIntact` with `FwFaults` | `loragw_hal.c:979` | the result of the read-back check is ignored |
| `LgwHal!ChannelInBand` with a channel near the edge and no bandwidth in `IfConfs` | `loragw_hal.c:554` | the default bandwidth is filled in after the check |
| `LgwReceive!ShortTimestampRight` with packets below 3 bytes | `loragw_hal.c:1261` | an unsigned difference is compared with 0 |
| `LgwLbt!WithinMaxTime` | `loragw_lbt.c:348` | times are cut before they are subtracted |
| `LgwLbt!BothChannelsFree` | `loragw_lbt.c:315` | wrapped stamps are compared as numbers |
| `LgwLbt!FreeIsGranted` | `loragw_lbt.c:348` | the stamp 0 stands for "never free", too |
| `LgwSx125x!SuccessMeansLocked` | `loragw_radio.c:207` | a read that fails returns a value that was never set |
| `LgwSx127x!UnsupportedIsRefused` | `loragw_radio.c:513` | the probe runs over bytes instead of entries, past its table |
| `LgwGps!EarlyStampRight` | `loragw_gps.c:747` | a packet older than the reference gets a time 71 minutes late |
| `LgwGps!FirstSyncSucceeds` | `loragw_gps.c:681` | a zeroed reference refuses two points before it takes one |
| `LgwGps!ClosedIsSuccess` | `loragw_gps.c:383` | success of `close` is taken for an error |
| `LgwGps!EnabledIsConfigured` | `loragw_gps.c:354` | a configuration that could not be written is reported as success |
| `LgwGps!NativeIsValid` | `loragw_gps.c:443` | either of two validity bits is enough |
| `LgwGps!UtcWasTold` | `loragw_gps.c:460` | one mark stands for the validity of two times |
| `EndDeviceList!SortedByAddress` | `device_management.c:401` | a heard device is put in front of a sorted list |
| `EndDeviceList!PrimaryIsBetter` | `device_management.c:276` | a known gateway is updated without comparing |
| `EndDeviceList!HeardHasRoute` | `device_management.c:522` | an empty first place is stronger than any gateway |
| `EndDeviceList!NoneLost` under `ExpSpec`, with a third device in `Preset` | `device_management.c:1416` | an insertion in the middle drops the rest of the list |
| `LoraStream!FramesOut`, not paced | `lora_mac.c:134` | what follows a frame in the buffer is moved from the wrong place |
| `LoraDownlink!SentIsWhole` with an `AppSize` of 240 | `lora_mac.c:476` | an eight-bit size wraps for payloads from 240 bytes |
| `PktLogger!RotationOff` with the interval -1 | `util_pkt_logger.c:601` | the interval -1 rotates always instead of never |
| `PktLogger!GlobalKept` | `util_pkt_logger.c:124` | a local file without a value resets it |
| `TxTest!AnnouncedRanges` with a size of 256 | `util_tx_test.c:339` | sizes and numbers of channels out of range are accepted |
| `TxTest!Repeated` with more repetitions than `Wrap` | `util_tx_test.c:609` | a 16-bit counter never reaches the number |
| `TxTest!QuitKeepsHardware` | `util_tx_test.c:655` | SIGQUIT stops the concentrator, too |

### Bounds and why they suffice

* Scheduler: four nodes and four slots give holes at the front, in the middle
  and at the end, holes of the wrong size and full groups; two groups give ties
  and different loads. Messages of one or two nodes leave nodes pending across
  messages, groups and phases, as the limits of 31 and 15 do for larger
  networks. The number of operations is not bounded.
* MAC: three registration requests suffice for a node to be one-hop, become a
  child, change relay and return, with the phase thread anywhere in between;
  `MaxRrs` is the only bound on behaviours. One child per relay (the code's
  limit is 2) reaches the full relay with three nodes; a child that registers
  again and one that is added take different branches with one place, too.
* Queues: two messages fill them, and every cell is reused. A message is told from
  others only while it is queued, so three names are enough.
* Time: clocks are counted in ticks, a second is a few of them, and counters that
  wrap in the code wrap after 8 to 4096 ticks, so that a run crosses a wrap. The
  horizon (`Horizon`, `MaxTime`, `MaxPulses`, `MaxAge`) ends behaviours.
* JIT queue: four packets overfill three places; the four times lie within one
  second, in two seconds and further apart than the look-ahead; a packet is
  either short or reaches into the next one's time.
* Connections: two units per datagram are enough for a cut in the middle, three
  in a read for two joined ones.
* Library: one fault per run separates "a step failed" from all the others;
  configurations are at, beyond and inside each limit that is tested.
* `Max...` constants bound messages, packets, restarts, requests and faults; each
  is named in its module with what it bounds.

### Fairness

Fairness is assumed of threads that only wait for mutexes held for a bounded
time, for their own timers or for each other's next step, of clocks, and of the
chip that ends what it has begun. Nothing is assumed of users, nodes, gateways
and networks.

| specification | weakly fair |
|---|---|
| `RtLoraMac!FairSpec` | the phase handler thread; the input thread finishing a request it has begun |
| `PktHandoff!FairSpec` | what a thread has begun; *strong* fairness for the consumer's two steps that need the flag's mutex, because on the inbound side the producer takes and releases it again and again. That another message comes is the premise of `EveryMsgTaken` |
| `MCServer!BenchSpec` | main's steps and the MAC thread's end (`ServerMain`), the phase handler (`MacPhases`), the check of missed data and the node's registration after it was told to (`DataStats`), the parsing of each frame (`WeatherData`) |
| `MCGateway!BenchFairSpec` | the clock, `thread_jit`, and `thread_down` with a packet in hand; main and the return of calls that threads are in |
| `MCConcentrator!BenchSpec` | the driver's calls in the program that waits for `TX_FREE`, the clock, the pulse of the GPS and the end of a transmission (`LgwSend`); the steps of a setup (radios) |
| `MCTools!BenchSpec` | the next fetch (`LgwReceive`), the loop of the logger; of the transmission test its loop, the clock, and the start and end of an emission |

`EveryScheduleIsAnnounced` is about runs in which scheduling stops: each new
schedule of a node starts its count again.

## 4. Proofs

Each theorem holds for all values of the constants that satisfy the named
assumptions of the module.

| module | theorem | statement |
|---|---|---|
| `SlotSchedulerProofs` | `TypeCorrect` | `Spec => []TypeOK`; every assigned slot is at least 1 |
| | `NoCollision` | `Spec => []SlotsDisjoint` |
| | `NoSlotBeyondFrame` | `DemandsFit => (Spec => []SlotsInFrame)` |
| | `OneScheduleEach` | `Spec => []ScheduledOnce` |
| | `TableSound` | `DemandsFit => (Spec => []SchedulesSound)` |
| | `SlotsStay` | `Spec => SlotsKept`, the action property |
| `RtLoraMacProofs` | `TypeCorrect`, `OneEntryEach`, `ChildrenFound` | `Spec => []TypeOK`, `[]NodesUnique`, `[]ChildrenKnown` |
| | `DemandIsThatOfChildren` | `Spec => []DemandCoversChildren` |
| | `NodesAndSchedulesFit` | `Spec => []NodesSound` |
| `PktHandoffProofs` | `PointersStaySound` | `Spec => []PointersSound` |
| | `HandoffIsFifo` | `Spec => ImplementsFifo` |
| `GatewayProofs` | `TypeCorrect`, `ReservationsApart`, `NeverOverfull`, `NoneLostNorDoubled` | `Spec => []TypeOK`, `[]NoOverlap`, `[]QueueBounded`, `[]QueuedOnce` |
| | `SyncTypeCorrect`, `ClocksMeasured`, `DoneMeansAnswered` | `Sound => (Sync!Spec => []Sync!TypeOK)`, `[]Sync!OffsetAccurate`, `[]Sync!DoneIsThisRequest` |
| | `OffsetIsAccurate` | `(Prompt /\ TokensLast) => (BenchSpec => []OffsetAccurate)`: the three above, as the run checks them |
| | `AllServedOnTime` | `Timely => (BenchSpec => ServedOnTime)`, states and steps |
| | `ConfigIsLayered` | `BenchSpec => []ConfigLayers` |
| `ConcentratorProofs` | `PageStaysInStep` | `Spec => []PageInStep` |
| | `LinkSound` | `~ OpenFaults => (Spec => []TargetOpen)` |
| | `TalksOnlyWhenFree` | `BelowPeriod => (BenchSpec => []TalksWhenFree)` |
| | `StartedAsConfigured` | `FollowsTheRules => (BenchSpec => []RunsAsConfigured)` |
| | `GpsTimeIsSound` | `BenchSpec => GpsTimeSound`, states and steps |
| `LgwReceiveProofs` | `NothingLost` | `Spec => []FetchedOnceInOrder` |
| `LoraWanProofs` | `CounterReusedAfterRound` | `Spec => []CounterOnce` |
| | `PayloadComesBack` | `PayloadReturns` for payloads of any length, any address, counter, port and keys |
| | `ListIsOpenGateways`, `NoMessageTwice`, `SteadyGatewaysGetAll` | `Gateways!GatewayAssumption => (Gateways!Spec => []Gateways!ListMatchesSockets)`, `[]Gateways!AtMostOnce`, `[]Gateways!SteadyGetAll` |
| | `GatewaysAreServed` | `BenchSpec => []GatewaysServed`: the three above, as the run checks them |
| | `DevicesAreRouted` | `BenchSpec => DevicesRouted`, states and steps |
| `ServerMainProofs` | `TypeCorrect`, `NoFileLeaks`, `OldLogsReplaced`, `MacBeforeLog` | `Spec => []TypeOK`, `[]OneFileOpen`, `[]LogBounded`, `[]MacEndsFirst` |

Hypotheses. `DemandsFit` (no demand exceeds a frame) excludes the overload in the
table above. `OpenFaults` lets a second opening of the device fail; without the
hypothesis the theorem is false, again as above.
`Sound` is `Prompt` (t0 is recorded before the answer is taken; without it the
offset is wrong, as above), the assumption on the constants, and `TokensLast`: no
more rounds fit in the time considered than there are tokens, a round lasting at
least `Wait + Short`. The code draws 16 random bits, so that two rounds may have
the same token, with an answer to the one taken for the other; the model has the
tokens in turn, and the theorems are about behaviours in which none comes again.
`Timely` is the pace `"timely"`, a deviation threshold (`TX_DEVIATION_THRESHOLD`)
of at least one tick and at most `TX_MARGIN_DELAY + TX_JIT_DELAY`, and a sleep
of `thread_jit` below that delay; in the code these are 500, 11000 and 10000 us.
`BelowPeriod` is the bound of the model of listen before talk on the time between
two packets, for all packets: the library cannot see a wrap of the counter.
`FollowsTheRules` excludes a second start after a failed stop (`Restart`) and a
gain table loaded into a running concentrator (`GainAtRun`), with which the
theorem is false, again as above. `ConfigAssumption` says that values in a file are
of the JSON type their name calls for, and gain entries within the table.
`PayloadComesBack` asks of the cipher only that it gives a block of bytes.
`NodesAndSchedulesFit` and `DemandIsThatOfChildren` have no hypothesis: demands
may wrap to 0.

### The arguments

* **Scheduler.** `IInv` is `TypeOK` with `ListOK` for every group: the list is
  ascending without overlap (`Ascending`) and every node owns at least one slot
  (`Sized`). `SlotsDisjoint` alone is not inductive over the operators: that a
  hole lies between two nodes follows only when each node ends behind its start,
  which is what `Sized` adds. `MinOfNats`, `RemoveAtProperties` and
  `InsertAtProperties` say what the library's operators return; `AssignFits`
  that the slots `smAssignLsiToNode` returns fit behind some position,
  `InsertPositionOfFit` that the insertion finds exactly that position: two
  separate walks over the list agree. From these order, frame and addresses are
  kept by a list, by the table, by each action and by `[Next]_vars`. For the frame
  `TableInFrame` is carried along, and for `ScheduledOnce` `OnceIn`.
* **Table.** `SoundInv` adds that the counters are the sizes of two finite sets,
  the slots owned and the pending positions (`TableCounted`), that the history
  holds of every entry (`OwedIs`), and `SdInv`. The counters are sums that the code
  keeps up step by step; taken as sizes of sets they need no induction over the
  list: an entry that comes or goes is a bijection with all others
  (`PendingOneMore`, `OwnedOneMore`). `SmWalkMeetsPendingNodes` alone is not
  inductive: that a schedule message takes as many *consecutive* nodes as are
  pending is right because in schedule distribution the lists are announced from
  the front (`Rising`, `PendingAreLast`), and this starts from a table in which
  all nodes are owed the same (`AllOwed`, as long as no message was sent). First
  fit: a free run lies behind some hole of the list (`FreeRunLiesBehindGap`), and
  what is assigned is the first hole wide enough.
* **Slots kept.** An entry that is in the list after a removal or an insertion was
  in it before, at the same slots (`RemovalAddsNone`, `SchedulingEntries`); an
  announcement changes `nboSchDist` only.
* **MAC.** `IInv` is `TypeOK`, `RNL` and the nodes of a request without children
  (`AllFresh`), and `Closed(NODES)`: addresses are unique and children are in the
  list. Taking the parent out and putting it back breaks `ChildrenKnown` between
  the two; the lemmas on `popNodeByAddress` and `pushNode` say which addresses
  and children a list has afterwards, so that the composition is again closed.
* **Demands.** `CoverInv` asks it of the nodes in `NODES`, in `RNL` and in the
  request that is being handled. The children's slots are counted as a finite set
  of pairs, so that a child that registers again with another class replaces its
  own pairs and no others (`OthersKeepSlots`), and the difference the code adds
  to its byte is the difference of the sizes, modulo 256 (`DemandInByte`).
* **Nodes and schedules.** `NodesSound` speaks of the points where messages are
  sent. Between them `FitInv` says what is underway: every schedule is that of a
  node of `NODES` with the demand it was given (`SchedulesFit`); a scheduled node
  without a mark is still ahead of the scheduling loop, so it will be scheduled
  anew before anything is sent (`UnmarkedToCome`); and in schedule distribution,
  where no registration is taken over, marked nodes have schedules (`MarkedInSd`).
* **Packet queue.** `IInv` says that some sequence of cells is the list (`QueueIs`):
  linked from head to tail, without repetition, made of exactly the allocated
  cells; and what each thread knows between its two critical sections
  (`ThreadsKnow`): the place found free is still free, as only the producer
  inserts, and the packet found is still there, as only the consumer removes.
  There is only one such sequence (`ChainUnique`, by the least position at which
  two would differ), so it is the one that `Contents`, the refinement mapping,
  reads off the pointers. Inserting appends to it and removing takes its first
  cell; every other step leaves buffer and output alone.
* **JIT queue.** `IInv` adds to the types that the loops of `jit_peek` stay in the
  queue (`Scanning`), that any two reservations are apart (`Spread`) and the
  queued packets are single (`Single`), that the queue holds exactly the packets
  whose fate is "queued", that `thread_jit` has a packet in hand where it uses it
  (`InHand`), and that the place found free is still free (`PlaceFree`):
  `thread_down` is the only one that inserts. `Spread` is over sets of nodes,
  so that sorting and filling a hole with the last node cannot break it.
* **Time synchronisation.** Neither property is inductive: that a token fits says
  nothing of when its answer was stamped. `SyncInv` adds that tokens last (`Rounds`,
  each round took its time), that what is under way is ordered by them from the
  last answered one through answers and requests (`InOrder`), that none of it is
  newer than the thread's token and the token of a request to be sent is not
  under way (`NoneNewer`), and that the stamps of the answer to this request lie
  between the clock read for it and now (`Stamped`). Then `OffsetBound` is about
  four numbers, with the borrow of the timevals (`Difference`) and the quotient
  towards zero (`HalfIs`).
* **Served on time.** `TimeInv`: what is let in is further off than `thread_jit` ever
  sleeps, so the head of the queue is seen before its time comes (`HeadAhead`). An
  outdated packet may nevertheless lie in the queue, as the sort compares
  seconds only; it then stands behind a later packet of the same second. The
  packet that is taken is due, those beside it were let in clear of its
  reservation and come after its end (`AirClear`). All of it is said of
  differences modulo the counter, which are exact below half a period.
* **Configuration.** What is left to parse is a rest of the parser's order of
  sections (`FromPlace`). Up to that place the library holds what the file says, from
  there on what lay under it (`Made`), and everything before was accepted
  (`AcceptedUpTo`). A local file counts as a layer only if it was accepted as a
  whole; `Under` and `Layered` carry what one file left to the next. A gain table
  that is refused leaves entries behind, but then either the program ends or the
  file was a local one, after which none comes. One that is accepted has no gaps,
  as a gap has a mixer gain of 0 (`LutComplete`), so that the entries the library
  has are those the file names.
* **Gateway list.** The list is a chain of nodes with falling ranks (the order in
  which they were put in front), which excludes cycles without recursion: `Listed` is
  restated as "reachable from the head". A gateway that is connected throughout
  stays reachable from the place of the walk, as a removal unlinks one node only
  and an addition changes the head only; one the walk has passed has its message.
* **Devices.** The invariant is about one device at a time: what each operation makes
  of a device keeps its gateways in order (`Routed`). `CarriedOver` relates the lists before
  and after a step: every device of the list is still in it, and one that had two
  gateways has a first one that is connected. The devices of the start enter by a recursive function, which equals the
  list of presets (by the least place at which the two would differ).
* **GPS time.** `run.of` records the pulse at which the reference was adopted; a true
  reference is one whose UTC is of that pulse. Against it, as long as the counter has not
  wrapped, a point is in range if and only if it is right (`InRangeIsRight`): the UTC of
  the parser is never ahead of the pulse, and the native time of one pulse comes once
  (`LineInOrder`), so that a right point is newer than the reference. `MarksAreTold` says
  what the two marks tell of the last two points: a right one without a mark made the
  reference true, and marks against a true one are of wrong points. Stamps are quotients
  and remainders of one time (`DifferenceIs`, `CarryIs`).
* **Listen before talk.** Stamps are remainders of one clock. A channel's stamp is
  the last time it was found free, cut to grains of 256 us; both the duration and
  the difference are cut, too, and lose less than one grain each, which is where the
  three grains of `DelayBounded` come from.
* **Start of the concentrator.** `StartedSoFar` says before each step of the start
  what the chip has got up to there. Setters refuse while the concentrator runs, so
  the configuration it was started with is the one it has when it is done; the gain
  table, whose setter does not, is what `GainAtRun` excludes.
* **Registers.** `PageInv` is `PageInStep` for a cached page that is known (not
  -1), open link or not; every access goes through `page_switch`, and `stale` is
  set by the two places that drop the status of a page write and reset by the
  next one that goes through. `LinkInv` adds
  to `TargetOpen` that the open descriptors are counted by a natural number.
* **Reception.** `OrderInv`: the packets fetched, followed by those in the FIFO,
  are those that arrived.
* **Downlink.** `CounterInv`: the counter of a frame is its turn modulo `Counter`, and turns
  rise. Equal counters are then of turns that differ by a multiple of `Counter`, so a
  whole round lies between them. A block is
  told from others by its direction, address, counter and number (`BlockTells`),
  and a payload has fewer blocks than the byte of the number can count
  (`FewParts`); so blocks differ as turns do within a round. That payloads come back is byte
  by byte `XorAssumption`, as both sides make the same blocks.
* **Server.** `LogInv`: no file is open before the options are read, all files but
  the current one are closed, and the age of the log is the time main has counted,
  at most `Rotate + time_check`. `EndInv`: a MAC that has ended has asked its own
  threads to stop.

### Model-checked only

* All liveness: fairness and `ENABLED` are out of the prover's reach. With it the
  properties that have a liveness part: `ServerEnds`, `PhasesKept`, `EmitsWhatWasSent`,
  `RadiosSetUp`, `LoggerSound`, `TxTestSound`, `EveryPktLeaves` and others.
* What walks over data compute for every input: `DecodedIsCoded`, the datagrams of
  `DatagramsArrive` (induction over data, and recursive operators).
* `RegistersSound`: the fields of a register are cut out with powers of two and put
  together by folds. Its part `TargetOpen` is `LinkSound`.
* Times of received packets: `FetchedWithTime`.
* `QueueIsFifo`, the inbound queue of the bench: `HandoffIsFifo` is the theorem about
  the module it is an instance of.

## 5. Not modelled

* **AES** (`aes.c`) and **parson**: vendored; a function of bits that TLC cannot
  enumerate, taken as a constant, and text, which is abstracted to fields.
* **The GPS receiver's line**: how the serial stream is cut into sentences.
* **The other programs of `src/lora_gateway`**: spectral scan, the LBT test,
  continuous transmission, the SPI stress test, the library's own tests. They are
  straight-line programs over the calls modelled here. `interference_test` is a
  copy of the packet logger.
* **Displays and dialogues**: what the terminal prints, and the interactive
  configuration of nodes; the connection to the database, which has no caller.
* **Memory**: a `malloc` that fails, except where the code tests for it.

## 6. What could follow

1. Proofs: the safety parts of `EmitsWhatWasSent` and `RadiosSetUp`.
2. A composition of `RtLoraMac` with `PktHandoff` and `DownlinkPath`, in which a
   command message that is dropped because the queue is full leaves nodes without
   the schedule they are owed.
3. The gateway's clock correction applied to the times of the JIT queue, should
   the synchronisation thread be started.
