------------------------------ MODULE LoraStream ------------------------------
(***************************************************************************)
(* Frames out of a byte stream: ReceiveFrameFromLoRaGW of lora_mac.c and   *)
(* its copy in lora_network_server.c, which collect what a gateway sends   *)
(* over TCP in rxBuffer and hand each complete frame on.  A frame is       *)
(* START_OF_FRAME, the size of its payload, the payload, END_OF_FRAME      *)
(* (the header of the tunnel is left out of the overhead).  TCP cuts and   *)
(* joins what was sent as it likes; noise may stand between frames.        *)
(***************************************************************************)
EXTENDS Integers, Sequences

CONSTANTS
    Payload,    (* payloads, sequences of bytes                              *)
    Noise,      (* what may stand in front of a frame                        *)
    Frames,     (* number of frames a gateway sends                          *)
    Size,       (* TCP_STREAM_BUFFER_SIZE                                    *)
    Paced       (* no read holds the end of a frame and bytes behind it      *)

START_OF_FRAME == 222
END_OF_FRAME == 202
RX_TUNNELING_OVERHEAD == 3
Byte == 0 .. 255

StreamAssumption ==
    /\ Payload \subseteq Seq(Byte) /\ Noise \subseteq Seq(Byte)
    /\ Frames \in Nat /\ Size \in Nat /\ Paced \in BOOLEAN

VARIABLES
    frames,     (* the payloads the gateway sends                            *)
    noise,      (* what it sends in front of each frame                      *)
    pos,        (* bytes of the stream that were read                        *)
    rxBuffer, currentRxBufferSize,
    received    (* the payloads handed on                                    *)

vars == <<frames, noise, pos, rxBuffer, currentRxBufferSize, received>>

\* The stream up to the end of the frame
Stream[k \in 0 .. Frames] ==
    IF k = 0 THEN << >>
    ELSE Stream[k - 1] \o noise[k] \o <<START_OF_FRAME, Len(frames[k])>>
             \o frames[k] \o <<END_OF_FRAME>>

Ends == {Len(Stream[k]) : k \in 1 .. Frames}

Init ==
    /\ frames \in [1 .. Frames -> Payload] /\ noise \in [1 .. Frames -> Noise]
    /\ pos = 0
    /\ rxBuffer = [i \in 0 .. Size - 1 |-> 0] /\ currentRxBufferSize = 0
    /\ received = << >>

-----------------------------------------------------------------------------
(* The loop.  A state of it: buffer, bytes in it, frames handed on, and     *)
(* whether it ended.                                                        *)

\* memmove: n bytes from the place to the start; bytes behind the end of the
\* buffer read as 0
Moved(b, from, n) ==
    [i \in 0 .. Size - 1 |->
        IF i >= n THEN b[i] ELSE IF from + i < Size THEN b[from + i] ELSE 0]

\* mutant: the search for the start begins with the byte after the next
Starts_Late(l) == {i \in 2 .. l.size - 1 : l.buf[i] = START_OF_FRAME}

Starts(l) == {i \in 1 .. l.size - 1 : l.buf[i] = START_OF_FRAME}

\* Ignored rx data until meeting SOF
Resync(l) ==
    IF Starts(l) = {} THEN [l EXCEPT !.size = 0]
    ELSE LET first == CHOOSE i \in Starts(l) : \A k \in Starts(l) : i <= k
         IN  [l EXCEPT !.buf = Moved(l.buf, first, l.size - first), !.size = l.size - first]

\* The frame is handed on; what is behind it is moved to the start, but from
\* the end of the data instead of from the end of the frame
HandOn(l, n) ==
    [l EXCEPT !.got = Append(l.got, [i \in 1 .. l.buf[1] |-> l.buf[i + 1]]),
              !.buf = Moved(l.buf, l.size, l.size - n),
              !.size = l.size - n]

\* mutant: the frame is looked at before its last byte is there
Iteration_Early(l) ==
    LET n == l.buf[1] + RX_TUNNELING_OVERHEAD
    IN  IF l.end \/ l.size <= 2 THEN [l EXCEPT !.end = TRUE]
        ELSE IF l.buf[0] # START_OF_FRAME THEN Resync(l)
        ELSE IF n > l.size + 1 THEN [l EXCEPT !.end = TRUE]
        ELSE IF l.buf[n - 1] = END_OF_FRAME THEN HandOn(l, n)
        ELSE [l EXCEPT !.buf[0] = 0]

Iteration(l) ==
    LET n == l.buf[1] + RX_TUNNELING_OVERHEAD
    IN  IF l.end \/ l.size <= 2 THEN [l EXCEPT !.end = TRUE]
        ELSE IF l.buf[0] # START_OF_FRAME THEN Resync(l)
        ELSE IF n > l.size THEN [l EXCEPT !.end = TRUE]
        ELSE IF l.buf[n - 1] = END_OF_FRAME THEN HandOn(l, n)
        ELSE [l EXCEPT !.buf[0] = 0]

\* Old data is given up when the new does not fit behind it
Concatenated(data) ==
    LET old == IF currentRxBufferSize + Len(data) > Size THEN 0 ELSE currentRxBufferSize
    IN  [buf |-> [i \in 0 .. Size - 1 |->
                    IF i \in old .. old + Len(data) - 1 THEN data[i - old + 1] ELSE rxBuffer[i]],
         size |-> old + Len(data), got |-> received, end |-> FALSE]

\* Each iteration takes a byte at least or is followed by one that does
Looped(data) ==
    LET run[n \in 0 .. 2 * Size + 2] ==
            IF n = 0 THEN Concatenated(data) ELSE Iteration(run[n - 1])
    IN  run[2 * Size + 2]

ReceiveFrameFromLoRaGW(k) ==
    LET l == Looped(SubSeq(Stream[Frames], pos + 1, pos + k))
    IN  /\ pos' = pos + k
        /\ rxBuffer' = l.buf /\ currentRxBufferSize' = l.size /\ received' = l.got
        /\ UNCHANGED <<frames, noise>>

\* One read of the socket
Next ==
    \E k \in 1 .. Len(Stream[Frames]) - pos :
        /\ k <= Size
        /\ Paced => \A e \in Ends : ~(pos < e /\ e < pos + k)
        /\ ReceiveFrameFromLoRaGW(k)

Spec == Init /\ [][Next]_vars

-----------------------------------------------------------------------------
Complete == Len(SelectSeq([k \in 1 .. Frames |-> Len(Stream[k])], LAMBDA e : e <= pos))

TypeOK ==
    /\ pos \in 0 .. Len(Stream[Frames])
    /\ rxBuffer \in [0 .. Size - 1 -> Byte] /\ currentRxBufferSize \in 0 .. Size
    /\ Len(received) <= Complete

\* However the stream is cut into reads, whatever bytes the payloads hold
\* and whatever noise without a start byte stands in front of frames, each
\* frame is handed on once, unchanged and in order, as soon as its last byte
\* was read.  (lora_mac.c:132 "Remaining Part..": what is behind a frame is
\* kept for the next one.)
FramesOut == received = SubSeq(frames, 1, Complete)
=============================================================================
