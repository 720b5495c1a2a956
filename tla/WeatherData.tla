----------------------------- MODULE WeatherData ------------------------------
(***************************************************************************)
(* The weather station data of the server (weather_device.c): the input    *)
(* thread stores the payload a node reported (ws_update_raw_data), and the *)
(* data collection phase parses a copy of all payloads once per frame      *)
(* (ws_parse_data) into the table that is displayed and sent to the        *)
(* database.  Two locks protect the two tables; the copy is parsed without *)
(* the first.  A payload is abstracted to its first byte, the device       *)
(* number in its second byte and the update it came with.  The database    *)
(* message, whose function nothing calls today, is built from the second   *)
(* table; the measurements are one value, the update.                      *)
(***************************************************************************)
EXTENDS Integers, SequencesExt

CONSTANTS
    Index,      (* WS_NUMBER_OF_DEVICE: 65                                  *)
    Reporter,   (* addresses of nodes that report data                      *)
    DeviceId,   (* device numbers in the payloads                           *)
    Virtual,    (* "virtual weather data": 255                              *)
    Limit,      (* WS_DATA_OBSOLETE_LEVEL_MAX: 10                           *)
    MaxUpdates  (* bound: payloads that are reported                        *)

WeatherAssumption ==
    /\ Reporter \cup DeviceId \subseteq Nat /\ Virtual > Index + 1
    /\ {Index, Limit, MaxUpdates} \subseteq Nat \ {0}

Slot == 0 .. Index - 1

VARIABLES
    raw,        (* ws_data_buf                                              *)
    meta,       (* ws_meta_data                                             *)
    copy,       (* temp_ws_data_buf of the parser                           *)
    i,          (* the parser's index, Index when it is not running         *)
    sent,       (* the database message of this frame                       *)
    updates,    (* payloads reported so far                                 *)
    age         (* for each entry the parses since its last update          *)

vars == <<raw, meta, copy, i, sent, updates, age>>

Empty == [node |-> 0, good |-> FALSE, wd |-> 0, update |-> 0, level |-> 0]
NoMeta == [node |-> 0, wd |-> 0, update |-> 0, level |-> 0, valid |-> FALSE]

\* ws_app_init
Init ==
    /\ raw = [n \in Slot |-> Empty] /\ copy = [n \in Slot |-> Empty]
    /\ meta = [n \in Slot |-> NoMeta]
    /\ i = Index /\ sent = << >> /\ updates = 0 /\ age = [n \in Slot |-> 0]

-----------------------------------------------------------------------------
\* ws_update_raw_data: an address beyond the table is refused
ws_update_raw_data(addr, good, wd) ==
    /\ updates < MaxUpdates /\ updates' = updates + 1
    /\ IF addr >= Index THEN UNCHANGED <<raw, age>>
       ELSE /\ raw' = [raw EXCEPT ![addr] =
                 [node |-> addr, good |-> good, wd |-> wd, update |-> updates + 1, level |-> 0]]
            /\ age' = [age EXCEPT ![addr] = 0]
    /\ UNCHANGED <<meta, copy, i, sent>>

-----------------------------------------------------------------------------
\* ws_parse_data

\* An entry was reported and its first byte is 0x24
Parsable(e) == e.node # 0 /\ e.good

\* mutant: the level of an entry that was not updated does not grow
Aged_Not(e) == e

\* mutant: a fresh entry stays fresh
Aged_Stays(e) == IF e.level > 0 /\ e.level < Limit THEN [e EXCEPT !.level = @ + 1] ELSE e

\* mutant: the level is not bounded
Aged_Unbounded(e) == [e EXCEPT !.level = @ + 1]

Aged(e) == IF e.level < Limit THEN [e EXCEPT !.level = @ + 1] ELSE e

\* The whole table is copied under its lock; an entry's level grows after it
\* was copied
Copy ==
    /\ i = Index
    /\ copy' = [n \in Slot |-> IF Parsable(raw[n]) THEN raw[n] ELSE Empty]
    /\ raw' = [n \in Slot |-> IF Parsable(raw[n]) THEN Aged(raw[n]) ELSE raw[n]]
    /\ age' = [n \in Slot |-> IF age[n] > Limit THEN age[n] ELSE age[n] + 1]
    /\ i' = 0 /\ sent' = << >>
    /\ UNCHANGED <<meta, updates>>

\* mutant: what the node shows is not marked invalid
Shown_Keep(e, m) ==
    IF ~Parsable(e) \/ e.wd = Virtual \/ e.wd > Index + 1 THEN m
    ELSE [node |-> e.node, wd |-> e.wd, update |-> e.update, level |-> e.level, valid |-> TRUE]

\* mutant: an entry that is skipped is cleared
Shown_Old(e, m) ==
    IF ~Parsable(e) \/ e.wd > Index + 1 THEN [m EXCEPT !.update = e.update]
    ELSE [node |-> e.node, wd |-> e.wd, update |-> e.update, level |-> e.level, valid |-> e.wd # Virtual]

\* What an entry of the table becomes
Shown(e, m) ==
    CASE ~Parsable(e) -> m
      [] e.wd = Virtual -> [m EXCEPT !.valid = FALSE]
      [] e.wd > Index + 1 /\ e.wd # Virtual -> m
      [] OTHER -> [node |-> e.node, wd |-> e.wd, update |-> e.update, level |-> e.level, valid |-> TRUE]

\* One entry is parsed and stored under the lock of the second table
Parse ==
    /\ i < Index
    /\ meta' = [meta EXCEPT ![i] = Shown(copy[i], @)]
    /\ i' = i + 1
    /\ UNCHANGED <<raw, copy, sent, updates, age>>

-----------------------------------------------------------------------------
\* ws_push_data_to_server, after the parse

Sendable(m) == m.node # 0 /\ m.wd # Virtual /\ m.valid /\ m.level < Limit

\* The characters between the packets, and a packet by its node
Comma == -1
Open == -2
Close == -3

\* mutant: a packet that could not be written counts
Pack_Counted(fail) ==
    FoldLeft(LAMBDA b, n :
        LET sep == IF b.count = 0 THEN <<>> ELSE << Comma >>
        IN  IF ~Sendable(meta[n]) THEN b
            ELSE [count |-> b.count + 1,
                  text |-> IF n \in fail THEN b.text ELSE b.text \o sep \o << n >>],
        [count |-> 0, text |-> << Open >>], [k \in 1 .. Index |-> k - 1])

\* The packets of the nodes that can be sent, with separators between them; one
\* whose text cannot be written is taken back with its separator
Pack(fail) ==
    FoldLeft(LAMBDA b, n :
        LET sep == IF b.count = 0 THEN <<>> ELSE << Comma >>
        IN  IF ~Sendable(meta[n]) \/ n \in fail THEN b
            ELSE [count |-> b.count + 1, text |-> b.text \o sep \o << n >>],
        [count |-> 0, text |-> << Open >>], [k \in 1 .. Index |-> k - 1])

ws_push_data_to_server(fail) ==
    /\ i = Index /\ sent = << >>
    /\ LET b == Pack(fail)
       IN  /\ b.count > 0
           /\ sent' = Append(b.text, Close)
    /\ UNCHANGED <<raw, meta, copy, i, updates, age>>

-----------------------------------------------------------------------------
AppParseData == Copy \/ Parse

Next ==
    \/ \E addr \in Reporter, good \in BOOLEAN, wd \in DeviceId : ws_update_raw_data(addr, good, wd)
    \/ AppParseData
    \/ \E fail \in SUBSET Slot : ws_push_data_to_server(fail)

Spec == Init /\ [][Next]_vars
\* The data collection phase parses every frame
FairSpec == Spec /\ WF_vars(AppParseData)

-----------------------------------------------------------------------------
Entry == [node : Slot, good : BOOLEAN, wd : DeviceId \cup {0}, update : 0 .. MaxUpdates, level : 0 .. Limit]
Clip(n) == IF n < Limit THEN n ELSE Limit
Used(e) == Parsable(e) /\ e.wd <= Index + 1

TypeOK ==
    /\ raw \in [Slot -> Entry] /\ copy \in [Slot -> Entry]
    /\ meta \in [Slot -> [node : Slot, wd : DeviceId \cup {0}, update : 0 .. MaxUpdates,
                          level : 0 .. Limit, valid : BOOLEAN]]
    /\ i \in 0 .. Index /\ updates \in 0 .. MaxUpdates /\ age \in [Slot -> 0 .. Limit + 1]

\* When the table shows the newest payload of a node, the level beside it is
\* the number of parses that have found no newer one, up to the maximum; this
\* although the level lives in the other table and its own lock.
LevelIsAge ==
    i = Index => \A n \in Slot :
        meta[n].valid /\ meta[n].update = raw[n].update => meta[n].level = Clip(age[n] - 1)

\* After a parse a payload that could be used is shown unless a newer one came
\* while it ran, and a "virtual" one has withdrawn what was shown.
NewestShown ==
    i = Index => \A n \in Slot : age[n] > 0 =>
        /\ Used(raw[n]) => meta[n].valid /\ meta[n].update = raw[n].update
        /\ Parsable(raw[n]) /\ raw[n].wd = Virtual => ~meta[n].valid

\* The table never goes back to an older payload, although the parser works on
\* a copy while newer ones arrive.
NeverBack == [][\A n \in Slot : meta'[n].update >= meta[n].update]_vars

\* The message holds each node with fresh valid data at most once, separated
\* by single commas, and no other.
MessageWellFormed ==
    sent # << >> =>
        LET body == SubSeq(sent, 2, Len(sent) - 1)
        IN  /\ \A k \in DOMAIN body : (k % 2 = 0) <=> body[k] = Comma
            /\ Len(body) % 2 = 1
            /\ \A k \in DOMAIN body : k % 2 = 1 =>
                   meta[body[k]].valid /\ Clip(meta[body[k]].level) < Limit

\* A node that no longer reports and whose last payload was usable is shown as
\* outdated in the end.
OutdatedInTheEnd ==
    \A n \in Slot : <>[](Used(raw[n]) => meta[n].valid /\ meta[n].level = Limit)

\* weather_device.c:40 "data_obsolete_level": "x means data has not been
\* updated for x parsing interval"; :57 "indicate how much the data is
\* obsoleted".  Valid data that no parse has updated for more than the maximum
\* is shown as outdated.
StaleIsOutdated ==
    i = Index => \A n \in Slot : meta[n].valid /\ age[n] > Limit => meta[n].level = Limit

\* weather_device.c:112 "0 is latitude, 1 is longitude": a valid entry has its
\* position from an entry of that table.
PositionFromTable == \A n \in Slot : meta[n].valid => meta[n].wd \in Slot
=============================================================================
