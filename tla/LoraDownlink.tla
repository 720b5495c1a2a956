----------------------------- MODULE LoraDownlink -----------------------------
(***************************************************************************)
(* The downlink frames of the LoRaWAN part of the server (lora_mac.c):     *)
(* SendFrame builds a data frame in a buffer of 256 bytes with an index of *)
(* one byte and writes it to the device's primary gateway;                 *)
(* SendJoinAcceptFrame answers a join request on the gateway it came from. *)
(* Devices and their gateways (EndDeviceList) are a map here.  The bytes   *)
(* of a frame are abstracted to the length of each part and where it ends  *)
(* up; how payloads are encrypted and integrity codes computed (crypto.c,  *)
(* aes_cmac.c) are operators on sequences of bytes, for any block cipher.  *)
(***************************************************************************)
EXTENDS Integers, FiniteSets, Sequences, SequencesExt

CONSTANTS
    Device,     (* addresses                                                *)
    Socket,     (* gateways                                                 *)
    AppSize,    (* sizes of application payloads that are sent              *)
    Index,      (* values of the uint8_t index of the buffer: 256           *)
    Counter,    (* values of the uint16_t frame counter: 65536              *)
    MaxSent,    (* bound: frames sent                                       *)
    XorByte(_, _),             (* exclusive or of two bytes                 *)
    AES(_, _), InvAES(_, _)    (* the cipher of aes.c under a key, on blocks *)

Byte == 0 .. 255

ASSUME DownlinkAssumption ==
    /\ Device \subseteq Nat /\ AppSize \subseteq 0 .. 255 /\ -1 \notin Socket
    /\ {Counter, MaxSent} \subseteq Nat \ {0} /\ Index \in Nat /\ Index > 255
    /\ Counter <= 65536

ASSUME XorAssumption ==
    \A a, b \in Byte : XorByte(a, b) \in Byte /\ XorByte(XorByte(a, b), b) = a

VARIABLES
    route,      (* the primary gateway of each known device, -1 for none     *)
    known,      (* the devices in the list                                   *)
    FCntDown,
    Joined, ACKRequested, FPending, ADR,    (* MacStatus                     *)
    written,    (* the frames that were written to a gateway                 *)
    tries,      (* frames and answers that were to be sent                   *)
    turns       (* the frames among them                                     *)

status == <<Joined, ACKRequested, FPending, ADR>>
vars == <<route, known, FCntDown, status, written, tries, turns>>

\* LoRaMAC_Init and the globals it does not set
Init ==
    /\ route = [d \in Device |-> -1] /\ known = {}
    /\ FCntDown = 0
    /\ Joined = 0 /\ ACKRequested = 0 /\ FPending = 0 /\ ADR = 0
    /\ written = {} /\ tries = 0 /\ turns = 0

-----------------------------------------------------------------------------
(* Cryptography.                                                            *)

BlockSize == 16
Block == [1 .. BlockSize -> Byte]
Zero == [i \in 1 .. BlockSize |-> 0]
XorBlock(a, b) == [i \in 1 .. BlockSize |-> XorByte(a[i], b[i])]

Low(n) == n % 256
High(n) == (n \div 256) % 256

\* The block that starts an integrity code (0x49, the last byte the size of the
\* message), or is enciphered for a part of a payload (0x01, its number)
FrameBlock(tag, direction, address, count, last) ==
    <<tag, 0, 0, 0, 0, direction,
      Low(address), High(address), Low(address \div 65536), High(address \div 65536),
      Low(count), High(count), 0, 0, 0, last>>

\* The number of a part has one byte
PartBlock(direction, address, count, k) == FrameBlock(1, direction, address, count, k % 256)

\* The parts of a payload, the last one possibly shorter
Parted(size) == (size + BlockSize - 1) \div BlockSize

\* MAC commands (port 0) have the network's key, all else the application's
EncryptPayload(src, direction, address, count, port, nwkSKey, appSKey) ==
    LET key == IF port = 0 THEN nwkSKey ELSE appSKey
        part(k) == AES(key, PartBlock(direction, address, count, k))
    IN  [n \in 1 .. Len(src) |->
            XorByte(src[n], part(1 + (n - 1) \div BlockSize)[1 + ((n - 1) % BlockSize)])]

DecryptPayload(src, direction, address, count, port, nwkSKey, appSKey) ==
    EncryptPayload(src, direction, address, count, port, nwkSKey, appSKey)

\* The server deciphers one block, for the device to encipher it
EncryptJoinAccept(src, key) == InvAES(key, src)
DecryptJoinAccept(src, key) == AES(key, src)

\* A block shifted to the left by one bit, and reduced when a bit falls out
Shifted(b) ==
    [i \in 1 .. BlockSize |-> ((2 * b[i]) % 256) + (IF i < BlockSize /\ b[i + 1] >= 128 THEN 1 ELSE 0)]
const_Rb == [Zero EXCEPT ![BlockSize] = 135]
Doubled(b) == IF b[1] < 128 THEN Shifted(b) ELSE XorBlock(Shifted(b), const_Rb)

SubkeyGeneration(key) ==
    LET keyOne == Doubled(AES(key, Zero)) IN <<keyOne, Doubled(keyOne)>>

BlockOf(msg, k) == SubSeq(msg, BlockSize * (k - 1) + 1, BlockSize * k)

Complete(size) == size > 0 /\ size % BlockSize = 0

\* The size is handed over in one byte
AES128_CMAC(key, msg) ==
    LET size == Len(msg) % 256
        nBlock == IF size = 0 THEN 1 ELSE Parted(size)
        from == BlockSize * (nBlock - 1)
        keys == SubkeyGeneration(key)
        mLast == IF Complete(size)
                 THEN XorBlock(BlockOf(msg, nBlock), keys[1])
                 ELSE XorBlock([i \in 1 .. BlockSize |->
                                   CASE from + i <= size    -> msg[from + i]
                                     [] from + i = size + 1 -> 128
                                     [] from + i > size + 1 -> 0], keys[2])
        X[k \in 0 .. nBlock - 1] ==
            IF k = 0 THEN Zero ELSE AES(key, XorBlock(BlockOf(msg, k), X[k - 1]))
    IN  SubSeq(AES(key, XorBlock(mLast, X[nBlock - 1])), 1, 4)

GenerateMIC(msg, direction, address, count, key) ==
    AES128_CMAC(key, FrameBlock(73, direction, address, count, Len(msg) % 256) \o msg)

GenerateMICforJoinResponse(msg, key) == AES128_CMAC(key, SubSeq(msg, 1, 13))

-----------------------------------------------------------------------------
\* Two bytes for the start and the size, type, address (4), control,
\* counter (2), port; payload; integrity code (4); end
Header == 2 + 1 + 4 + 1 + 2 + 1
Code == 4
Full(size) == Header + size + Code + 1

\* mutant: the integrity code is not counted
Stored_NoCode(size) == (Header + size + 1) % Index

\* The index of the buffer after the last byte: it has one byte
Stored(size) == Full(size) % Index

\* The frame-pending bit is written where the acknowledgement bit stands
AckBit == IF FPending = 1 THEN 1 ELSE 0

\* mutant: the counter is only advanced when the frame is written
Advanced_Written(s) == IF s = -1 THEN (FCntDown + 1) % Counter ELSE FCntDown

\* The counter is taken and advanced, whether the frame is written or not
Advanced(s) == (FCntDown + 1) % Counter

SendFrame(d, size, confirmed) ==
    LET s == IF d \in known THEN route[d] ELSE -1
    IN  /\ tries < MaxSent /\ tries' = tries + 1
        /\ FCntDown' = Advanced(s) /\ turns' = turns + 1
        /\ written' = IF s = -1 THEN written ELSE written \cup
              {[type |-> IF confirmed THEN "Confirm_Data_Down" ELSE "Unconfirm_Data_Down",
                to |-> s, device |-> d, count |-> FCntDown, turn |-> turns, ack |-> AckBit,
                size |-> size, need |-> Full(size), sent |-> Stored(size)]}
        /\ UNCHANGED <<route, known, status>>

\* The type, nonce (3), network (3), address (4), settings and delay, code
JoinSize == 1 + 3 + 3 + 4 + 1 + 1 + Code
TX_TUNNELING_OVERHEAD == 12

\* mutant: answered through the gateway the device is known by
AnswerTo_Primary(d, s) == route[d]

AnswerTo(d, s) == s

\* A join request is answered after its device was entered in the list, with
\* the settings the list has for it; the tunnel's header is 11 bytes long
SendJoinAcceptFrame(d, s) ==
    /\ tries < MaxSent /\ tries' = tries + 1
    /\ written' = written \cup
          {[type |-> "Join_Accept", to |-> AnswerTo(d, s), device |-> d, count |-> -1, turn |-> -1,
            ack |-> 0, size |-> 0, need |-> 11 + JoinSize + 1,
            sent |-> JoinSize + TX_TUNNELING_OVERHEAD]}
    /\ UNCHANGED <<FCntDown, status, turns>>

\* A join request: the device is entered or found again, and answered
Join(d, s) ==
    /\ known' = known \cup {d}
    /\ route' = [route EXCEPT ![d] = IF d \in known THEN @ ELSE s]
    /\ SendJoinAcceptFrame(d, s)

\* The primary gateway changes or is lost
Reroute(d, s) ==
    /\ d \in known /\ route[d] # s /\ route' = [route EXCEPT ![d] = s]
    /\ UNCHANGED <<known, FCntDown, status, written, tries, turns>>

Next ==
    \E d \in Device :
        \/ \E size \in AppSize, confirmed \in BOOLEAN : SendFrame(d, size, confirmed)
        \/ \E s \in Socket : Join(d, s)
        \/ \E s \in Socket \cup {-1} : Reroute(d, s)

Spec == Init /\ [][Next]_vars

-----------------------------------------------------------------------------
Data == {f \in written : f.type # "Join_Accept"}

TypeOK ==
    /\ route \in [Device -> Socket \cup {-1}] /\ known \subseteq Device
    /\ FCntDown \in 0 .. Counter - 1 /\ tries \in 0 .. MaxSent /\ turns \in 0 .. tries
    /\ <<Joined, ACKRequested, FPending, ADR>> \in {0, 1} \X {0, 1} \X {0, 1} \X {0, 1}
    /\ \A f \in written : f.to \in Socket

\* The blocks that are enciphered for the parts of a frame's payload, and the
\* one its integrity code starts with
Enciphered(f, k) == PartBlock(1, f.device, f.count, k)
CodeBlock(f) == FrameBlock(73, 1, f.device, f.count, (Header + f.size) % 256)

\* Two frames with as many others between them as the counter has values
Apart(f, g) == f.turn + Counter <= g.turn \/ g.turn + Counter <= f.turn

\* Two frames carry the same counter value only when the counter went all the
\* way round between them, also when frames in between found no route and when
\* they are for different devices: all devices share the counter.  So no block
\* is enciphered for two parts of a payload or, within a round, for two
\* payloads, nor ever for a payload and an integrity code: that would give the
\* exclusive or of the two away.
CounterOnce ==
    /\ \A f, g \in Data : f.count = g.count => f = g \/ Apart(f, g)
    /\ \A f, g \in Data : \A k \in 1 .. Parted(f.size) :
         /\ \A l \in 1 .. Parted(g.size) :
                Enciphered(f, k) = Enciphered(g, l) => k = l /\ (f = g \/ Apart(f, g))
         /\ Enciphered(f, k) # CodeBlock(g)

\* A device is answered over the gateway its request came from also when it
\* joins again elsewhere: some answer was written to each such gateway.
AnsweredThere ==
    [][\A d \in Device, s \in Socket :
          (Join(d, s)) => \E f \in written' : f.type = "Join_Accept" /\ f.to = s /\ f.device = d]_vars

\* A frame with at most 239 bytes of payload is written whole, and so is
\* every join accept.
WrittenWhole == \A f \in written : f.need <= 255 => f.sent = f.need

\* A device that has the counter and the key gets the payload back.
PayloadReturns(payload, address, count, port, nwkSKey, appSKey) ==
    LET sent == EncryptPayload(payload, 1, address, count, port, nwkSKey, appSKey)
    IN  DecryptPayload(sent, 1, address, count, port, nwkSKey, appSKey) = payload

\* RFC 4493 with blocks as bits, and the message cut after it was padded.
BitsOf(b) == [i \in 1 .. 8 * BlockSize |-> (b[1 + (i - 1) \div 8] \div 2 ^ (7 - ((i - 1) % 8))) % 2]
TimesTwo(bits) ==
    LET shifted == Append(Tail(bits), 0)
    IN  [i \in DOMAIN bits |-> (shifted[i] + (IF bits[1] = 1 THEN BitsOf(const_Rb)[i] ELSE 0)) % 2]

Cmac(key, msg) ==
    LET whole == msg # << >> /\ Len(msg) % BlockSize = 0
        padded == IF whole THEN msg
                  ELSE msg \o [i \in 1 .. BlockSize - (Len(msg) % BlockSize) |-> IF i = 1 THEN 128 ELSE 0]
        blocks == Len(padded) \div BlockSize
        subkey == SubkeyGeneration(key)[IF whole THEN 1 ELSE 2]
        Input(k) == IF k = blocks THEN XorBlock(BlockOf(padded, k), subkey) ELSE BlockOf(padded, k)
    IN  FoldLeft(LAMBDA x, k : AES(key, XorBlock(x, Input(k))), Zero, [k \in 1 .. blocks |-> k])

\* The integrity code of a frame of less than 240 bytes is that of the
\* standard over the whole frame, the one of a join accept over all of its
\* fields, and what is encrypted of a join accept is one block.
CodeIsCmac(msg, address, count, key) ==
    LET keys == SubkeyGeneration(key)
        first == FrameBlock(73, 1, address, count, Len(msg))
    IN  /\ BitsOf(keys[1]) = TimesTwo(BitsOf(AES(key, Zero)))
        /\ BitsOf(keys[2]) = TimesTwo(BitsOf(keys[1]))
        /\ Len(msg) < 240 =>
              GenerateMIC(msg, 1, address, count, key) = SubSeq(Cmac(key, first \o msg), 1, 4)
        /\ Len(msg) = JoinSize - Code =>
              GenerateMICforJoinResponse(msg, key) = SubSeq(Cmac(key, msg), 1, 4)
        /\ Len(msg) = JoinSize - 1 => DecryptJoinAccept(EncryptJoinAccept(msg, key), key) = msg

\* lora_mac.c:373 "Transmitted Data Byte": a frame that is sent is sent whole.
SentIsWhole == \A f \in written : f.sent = f.need
=============================================================================
