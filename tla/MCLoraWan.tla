----------------------------- MODULE MCLoraWan -----------------------------
(***************************************************************************)
(* The server's parts for LoRaWAN end devices and for gateways, side by    *)
(* side: the downlink frames, the list of end devices, the list of         *)
(* gateways, frames out of a byte stream, and the codings of payloads.     *)
(* They share no variable: `part' is the part that moves, and the others   *)
(* stand where they started.                                               *)
(***************************************************************************)
EXTENDS LoraDownlink, TLC

CONSTANTS Parts,  \* the parts to be checked
          Conns, None,
          server_socket, FdLimit, MaxMsgs,
          Address, GwSocket, Rssi, Fixed, Preset, MaxDev

VARIABLES
    part,  \* the part a behaviour is of
    edList, edUp,
    glConn, glFd, glHead, glNext, glFreed, glReads, glFdmax, glInPc, glCur,
    glMsg, glDnPc, glJ, glAt, glGot, glSteady, glEnded,
    lsFrames, lsNoise, lsPos, lsRxBuffer, lsCurrentRxBufferSize, lsReceived,
    coIn

edVars == <<edList, edUp>>
glVars == <<glConn, glFd, glHead, glNext, glFreed, glReads, glFdmax, glInPc,
            glCur, glMsg, glDnPc, glJ, glAt, glGot, glSteady, glEnded>>
lsVars == <<lsFrames, lsNoise, lsPos, lsRxBuffer, lsCurrentRxBufferSize,
            lsReceived>>
coVars == <<coIn>>
-----------------------------------------------------------------------------
\* Connections are interchangeable.
Symmetry == Permutations(Conns)

\* Devices and strengths.
TwoDevices == <<1, 2>>
Strengths == {-90, -80}

\* Payloads that are empty or hold the marks themselves: 222 starts a frame,
\* 202 ends it.
Payloads == {<< >>, <<222>>, <<202, 2>>, <<202, 222, 202>>}
Noises == {<< >>, <<7>>, <<202, 7, 7>>}

\* A cipher for the checks, in which every byte of the result depends on the
\* key and on all later bytes of the block; and exclusive or.  Under the two keys
\* the subkeys are reduced and not, with every carry.
ToyAES(key, b) ==
    FoldRight(LAMBDA i, out : <<(b[i] + key + 5 * i + (IF out = << >> THEN 0 ELSE 3 * out[1])) % 256>> \o out,
              [i \in 1 .. 16 |-> i], << >>)
ToyInvAES(key, b) ==
    [i \in 1 .. 16 |-> (b[i] - key - 5 * i - (IF i < 16 THEN 3 * b[i + 1] ELSE 0)) % 256]
XorNibble == [a \in 0 .. 15, b \in 0 .. 15 |->
    ((a + b) % 2) + 2 * (((a \div 2) + (b \div 2)) % 2) + 4 * (((a \div 4) + (b \div 4)) % 2)
      + 8 * (((a \div 8) + (b \div 8)) % 2)]
Xor(a, b) == 16 * XorNibble[a \div 16, b \div 16] + XorNibble[a % 16, b % 16]

\* Messages made of a buffer: around one block and two,
\* all the parts of a join accept, and the longest that fit.
Stretched(s, n) == [i \in 1 .. n |-> s[1 + ((i - 1) % Len(s))]]
Messages(s) == {s} \cup {Stretched(s, n) : n \in {13, 15, 16, 17, 32, 33} \cup
                            (IF Len(s) = 1 THEN {239, 255} ELSE {})}

\* The devices: with the values of the configuration, two devices, three
\* gateways and two signal strengths.
Devices == INSTANCE EndDeviceList WITH
    Socket <- GwSocket, list <- edList, up <- edUp

\* The gateways: with the values of the configuration, three connections on two
\* descriptors.
Gateways == INSTANCE GatewayList WITH
    Conns <- Conns, NULL <- None, server_socket <- server_socket,
    FdLimit <- FdLimit, MaxMsgs <- MaxMsgs, conn <- glConn, fd <- glFd, head <- glHead, next <- glNext,
    freed <- glFreed, reads <- glReads, fdmax <- glFdmax, inPc <- glInPc,
    cur <- glCur, msg <- glMsg, dnPc <- glDnPc, j <- glJ, at <- glAt,
    got <- glGot, steady <- glSteady, ended <- glEnded

\* Three frames with and without noise, cut into any reads that end with a
\* frame at the latest.
Stream == INSTANCE LoraStream WITH
    Payload <- Payloads, Noise <- Noises, Frames <- 3, Size <- 14,
    Paced <- TRUE, frames <- lsFrames, noise <- lsNoise, pos <- lsPos,
    rxBuffer <- lsRxBuffer, currentRxBufferSize <- lsCurrentRxBufferSize,
    received <- lsReceived

\* Every buffer of up to five bytes of five values.
Coded == INSTANCE Codings WITH
    Bytes <- {0, 1, 62, 160, 247}, MaxSize <- 5, MaxPayload <- 255,
    TextRoom <- 341, ExpBits <- 5, ManBits <- 10, in <- coIn

-----------------------------------------------------------------------------
ASSUME PartsAssumption ==
    /\ Devices!DeviceAssumption
    /\ Gateways!GatewayAssumption
    /\ Stream!StreamAssumption
    /\ Coded!CodingsAssumption

\* All parts start; the one of the behaviour may start in any way, the
\* others in one.
BenchInit ==
    /\ part \in Parts
    /\ Init
    /\ Devices!Init
    /\ Gateways!Init
    /\ Stream!Init /\ (part # "stream" => lsFrames = [k \in 1 .. 3 |-> << >>] /\ lsNoise = [k \in 1 .. 3 |-> << >>])
    /\ Coded!Init

BenchNext ==
    /\ UNCHANGED part
    /\ \/ part = "frames" /\ Next
       \/ part = "devices" /\ Devices!Next
       \/ part = "gateways" /\ Gateways!Next
       \/ part = "stream" /\ Stream!Next
       \/ part = "codings" /\ Coded!Next
    /\ part # "frames" => UNCHANGED vars
    /\ part # "devices" => UNCHANGED edVars
    /\ part # "gateways" => UNCHANGED glVars
    /\ part # "stream" => UNCHANGED lsVars
    /\ part # "codings" => UNCHANGED coVars

BenchSpec == BenchInit /\ [][BenchNext]_<<part, vars, edVars, glVars, lsVars, coVars>>
-----------------------------------------------------------------------------
(* Downlink frames: one that fits is written whole, and a device is answered *)
(* over the gateway its request came from.  The routes: whatever gateways    *)
(* come and go, a device refers to connected gateways only, is reached when  *)
(* one of its two goes, has the stronger one first after data, and is not    *)
(* lost from the list.                                                       *)
DevicesRouted ==
    /\ [](part = "frames" => TypeOK /\ WrittenWhole)
    /\ AnsweredThere
    /\ [](part = "devices" => Devices!TypeOK /\ Devices!NoStaleGateway)
    /\ Devices!Failover /\ Devices!PrimaryAfterData /\ Devices!NoneLost

(* The list of gateways holds the connected ones, with the descriptors that  *)
(* are selected on; a message reaches each gateway at most once, and each    *)
(* that stays connected while it is sent.                                    *)
GatewaysServed ==
    part = "gateways" =>
        /\ Gateways!TypeOK /\ Gateways!ListMatchesSockets
        /\ Gateways!AtMostOnce /\ Gateways!SteadyGetAll

(* However the stream is cut into reads, each frame is handed on once,       *)
(* unchanged and in order.  What is encoded in Base64, hexadecimal digits    *)
(* and floating point is decoded to the same, and a buffer that is too short *)
(* is refused.  What is encrypted is decrypted to the same, and integrity    *)
(* codes are those of the standard.                                          *)
DecodedIsCoded ==
    /\ part = "stream" => Stream!TypeOK /\ Stream!FramesOut
    /\ part = "codings" =>
           /\ Coded!TypeOK /\ Coded!PayloadKept /\ Coded!IsBase64
           /\ Coded!RoomIsChecked /\ Coded!HexKept /\ Coded!FloatKept
           /\ Coded!SentenceChecked /\ Coded!FieldsKept /\ Coded!FrameChecked
           /\ Len(coIn) \in 1 .. 2 =>
                \A m \in Messages(coIn), key \in {60, 119} :
                    /\ PayloadReturns(m, 258, 513, key % 2, key, 77)
                    /\ CodeIsCmac(m, 258, 513, key)
=============================================================================
