-------------------------------- MODULE Codings --------------------------------
(***************************************************************************)
(* The conversions between bytes and text that payloads go through         *)
(* (base64.c, the same file in the server and in the gateway), addresses   *)
(* in hexadecimal (application.c), the floating point number of a weather  *)
(* message (weather_device.c), and the sentences and frames of the GPS     *)
(* module with their checksums (loragw_gps.c).                             *)
(*                                                                         *)
(* A character is its ASCII code; a conversion returns the text or bytes,  *)
(* or the record Failed for the result -1, or Exits where the code ends    *)
(* the program.  The buffer `in` grows byte by byte, and every property is *)
(* about all buffers.                                                      *)
(***************************************************************************)
EXTENDS Integers, Sequences, FiniteSets, SequencesExt

CONSTANTS
    XorByte(_, _),  (* exclusive or of two bytes                           *)
    Bytes,          (* the bytes that occur                                *)
    MaxSize,        (* bound: bytes in the buffer                          *)
    MaxPayload,     (* the longest payload: 255 bytes                      *)
    TextRoom,       (* the room for its text: 341                          *)
    ExpBits,        (* bits of a floating point number's exponent: 8       *)
    ManBits         (* and of its mantissa: 23; here a number has two bytes *)

CodingsAssumption ==
    /\ Bytes \subseteq 0 .. 255 /\ {MaxSize, MaxPayload, TextRoom} \subseteq Nat
    /\ {ExpBits, ManBits} \subseteq Nat \ {0}
    /\ 1 + ExpBits + ManBits = 16

VARIABLE in

Init == in = << >>
Add(b) == Len(in) < MaxSize /\ in' = Append(in, b)
Next == \E b \in Bytes : Add(b)
Spec == Init /\ [][Next]_in

\* The results -1 and exit()
Failed == <<-1>>
Exits == <<-2>>

-----------------------------------------------------------------------------
\* mutant: the digits start one code too late
code_to_char_Late(x) ==
    CASE x \in 0 .. 25  -> 65 + x
      [] x \in 26 .. 51 -> 97 + (x - 26)
      [] x \in 52 .. 61 -> 48 + (x - 51)
      [] x = 62         -> 43
      [] OTHER          -> 47

code_to_char(x) ==
    CASE x \in 0 .. 25  -> 65 + x               \* A to Z
      [] x \in 26 .. 51 -> 97 + (x - 26)        \* a to z
      [] x \in 52 .. 61 -> 48 + (x - 52)        \* 0 to 9
      [] x = 62         -> 43                   \* +
      [] OTHER          -> 47                   \* /

\* -1: the character has no code, and the program ends
char_to_code(c) ==
    CASE c \in 65 .. 90  -> c - 65
      [] c \in 97 .. 122 -> c - 97 + 26
      [] c \in 48 .. 57  -> c - 48 + 52
      [] c = 43          -> 62
      [] c = 47          -> 63
      [] OTHER           -> -1

Pad == 61
Over(n, s) == n \div (2 ^ s)
ByteAt(s, i) == IF i <= Len(s) THEN s[i] ELSE 0

\* The characters of n bytes without padding: four for three bytes, two for
\* one byte more and three for two
\* mutant: the characters of the last bytes are counted as those of a block
TextLength_Full(n) == 4 * ((n + 2) \div 3)
TextLength(n) ==
    4 * (n \div 3) + (IF n % 3 = 0 THEN 0 ELSE (n % 3) + 1)

\* One block of three bytes as a number, the bytes that are missing being zero
Block(s, k) == ByteAt(s, 3 * k + 1) * 65536 + ByteAt(s, 3 * k + 2) * 256
                  + ByteAt(s, 3 * k + 3)

\* mutant: the buffer needs no room for the end of the string
TooSmall_Exact(room, n) == room < TextLength(n)
TooSmall(room, n) == room < TextLength(n) + 1

bin_to_b64_nopad(s, room) ==
    IF s = << >> THEN << >>
    ELSE IF TooSmall(room, Len(s)) THEN Failed
    ELSE [j \in 1 .. TextLength(Len(s)) |->
            code_to_char(Over(Block(s, (j - 1) \div 4), 18 - (6 * ((j - 1) % 4))) % 64)]

\* mutant: one padding character too few after a single byte
Padding_One(n) == IF n % 4 = 0 THEN 0 ELSE 1
Padding(n) == (4 - (n % 4)) % 4

bin_to_b64(s, room) ==
    LET text == bin_to_b64_nopad(s, room)
        pad == Padding(Len(text))
    IN  IF text = Failed \/ (pad > 0 /\ room < Len(text) + pad + 1) THEN Failed
        ELSE text \o [i \in 1 .. pad |-> Pad]

CodeAt(t, i) == IF i <= Len(t) THEN char_to_code(t[i]) ELSE 0
BlockOfText(t, k) == CodeAt(t, 4 * k + 1) * 262144 + CodeAt(t, 4 * k + 2) * 4096
                        + CodeAt(t, 4 * k + 3) * 64 + CodeAt(t, 4 * k + 4)

\* mutant: the bytes of the last characters are rounded up
BytesOf_Up(n) == (3 * n + 3) \div 4
BytesOf(n) == 3 * (n \div 4) + (IF n % 4 = 0 THEN 0 ELSE (n % 4) - 1)

b64_to_bin_nopad(t, room) ==
    IF t = << >> THEN << >>
    ELSE IF Len(t) % 4 = 1 \/ room < BytesOf(Len(t)) THEN Failed
    ELSE IF \E i \in 1 .. Len(t) : char_to_code(t[i]) = -1 THEN Exits
    ELSE [j \in 1 .. BytesOf(Len(t)) |->
            Over(BlockOfText(t, (j - 1) \div 3), 16 - (8 * ((j - 1) % 3))) % 256]

\* Padding is recognised only where it can be
b64_to_bin(t, room) ==
    LET n == Len(t) IN
    IF n % 4 = 0 /\ n >= 4 /\ t[n - 1] = Pad
    THEN b64_to_bin_nopad(SubSeq(t, 1, n - 2), room)
    ELSE IF n % 4 = 0 /\ n >= 4 /\ t[n] = Pad
    THEN b64_to_bin_nopad(SubSeq(t, 1, n - 1), room)
    ELSE b64_to_bin_nopad(t, room)

-----------------------------------------------------------------------------
\* The two digits of a byte, in capitals; char is taken as unsigned, as it is
\* on the ARM boards
\* mutant: letters are used from 11 on
HexDigit_Late(n) == IF n > 10 THEN n + 55 ELSE n + 48
HexDigit(n) == IF n > 9 THEN n + 55 ELSE n + 48

char_to_hex(src) ==
    [i \in 1 .. 2 * Len(src) |->
        LET b == src[(i + 1) \div 2] IN HexDigit(IF i % 2 = 1 THEN b \div 16 ELSE b % 16)]

DigitValue(c) == (IF c > 57 THEN c - 55 ELSE c - 48) % 16

hex_to_char(src) ==
    [i \in 1 .. Len(src) \div 2 |-> DigitValue(src[2 * i - 1]) * 16 + DigitValue(src[2 * i])]

-----------------------------------------------------------------------------
\* A number is sent with its least significant byte first: two bytes here
\* where the message has four, which the numbers of the model checker do not
\* reach
Composed(s) == s[1] + (s[2] * 256)

\* The bits of a number, the most significant first
FloatBits == 1 + ExpBits + ManBits
BitsOf(value) == [i \in 0 .. FloatBits - 1 |-> (value \div (2 ^ (FloatBits - 1 - i))) % 2]

\* mutant: the weights are those of the reversed bits
convertToInt_Reversed(arr, low, high) ==
    FoldLeft(LAMBDA f, i : f + (arr[i] * (2 ^ (i - low))), 0, [j \in 1 .. high - low + 1 |-> low + j - 1])
convertToInt(arr, low, high) ==
    FoldLeft(LAMBDA f, i : f + (arr[i] * (2 ^ (high - i))), 0, [j \in 1 .. high - low + 1 |-> low + j - 1])

convertToFloatingPoint(value) ==
    LET ieee == BitsOf(value)
    IN [mantissa |-> convertToInt(ieee, 1 + ExpBits, FloatBits - 1),
        exponent |-> convertToInt(ieee, 1, ExpBits),
        sign     |-> ieee[0]]

-----------------------------------------------------------------------------
\* NMEA sentences: $, fields separated by commas, *, two digits, CR and LF
Dollar == 36
Star == 42

nibble_to_hexchar(a) ==
    CASE a < 10 -> 48 + a
      [] a \in 10 .. 15 -> 65 + (a - 10)
      [] OTHER -> 63

\* The digits over the characters between $ and *, and the place behind *
nmea_checksum(s) ==
    LET first == IF s # << >> /\ s[1] = Dollar THEN 2 ELSE 1
        stars == {i \in first .. Len(s) : s[i] = Star}
        star  == CHOOSE i \in stars : \A j \in stars : i <= j
        num   == FoldLeft(LAMBDA x, c : XorByte(x, c), 0, SubSeq(s, first, star - 1))
    IN  IF Len(s) <= 1 \/ stars = {} THEN Failed
        ELSE <<star + 1, nibble_to_hexchar(num \div 16), nibble_to_hexchar(num % 16)>>

\* Two digits and something behind them are wanted: the sentence is complete
validate_nmea_checksum(s) ==
    LET sum == nmea_checksum(s) IN
    sum # Failed /\ sum[1] + 1 < Len(s) /\ SubSeq(s, sum[1], sum[1] + 1) = Tail(sum)

match_label(s, label, wildcard) ==
    \A i \in DOMAIN label : label[i] \in {wildcard, s[i]}

\* The strings of a text up to its end, the last character being made one;
\* what is behind the last string that has room is dropped
str_chop(s, separator, room) ==
    LET ends  == {i \in DOMAIN s : s[i] = 0} \cup {Len(s)}
        end   == CHOOSE i \in ends : \A j \in ends : i <= j
        strings == FoldLeft(LAMBDA t, c : IF c = separator THEN Append(t, << >>)
                                          ELSE [t EXCEPT ![Len(t)] = Append(@, c)],
                            << << >> >>, SubSeq(s, 1, end - 1))
    IN  IF s = << >> \/ room = 0 THEN << >>
        ELSE SubSeq(strings, 1, IF Len(strings) < room THEN Len(strings) ELSE room)

\* Text in single characters, of which these are needed
Rmc == <<36, 71, 63, 82, 77, 67>>               \* "$G?RMC"
Gga == <<36, 71, 63, 71, 71, 65>>               \* "$G?GGA"

\* What a sentence is taken for: one that is whole and has all its fields.
\* What these say is in the part LgwGps.
lgw_parse_nmea(s) ==
    LET fields == Len(str_chop(s, 44, 30)) IN
    CASE Len(s) > 255 -> "INVALID"
      [] Len(s) < 8 -> "UNKNOWN"
      [] ~ validate_nmea_checksum(s) -> "INVALID"
      [] match_label(s, Rmc, 63) -> IF fields = 13 THEN "NMEA_RMC" ELSE "IGNORED"
      [] match_label(s, Gga, 63) -> IF fields = 15 THEN "NMEA_GGA" ELSE "IGNORED"
      [] OTHER -> "IGNORED"

\* UBX frames: two characters, class and message, size, payload, checksum.
\* The two sums are bytes; the second one is over the first.
Fletcher(s) ==
    FoldLeft(LAMBDA ck, b : <<(ck[1] + b) % 256, (ck[2] + ck[1] + b) % 256>>, <<0, 0>>, s)

\* What the frame is taken for and how long it is; the time in it is that of
\* the part LgwGps
lgw_parse_ubx(s) ==
    LET size == 8 + s[5] + (256 * s[6]) IN
    CASE Len(s) < 8 \/ SubSeq(s, 1, 2) # <<181, 98>> -> <<"IGNORED", 0>>
      [] size > Len(s) -> <<"INCOMPLETE", size>>
      [] Fletcher(SubSeq(s, 3, size - 2)) # SubSeq(s, size - 1, size) -> <<"INVALID", size>>
      [] SubSeq(s, 3, 4) = <<1, 32>> -> <<"UBX_NAV_TIMEGPS", size>>
      [] OTHER -> <<"IGNORED", size>>

-----------------------------------------------------------------------------
\* A text consists of characters that have a code, and of padding at the end.
TypeOK ==
    /\ in \in Seq(Bytes) /\ Len(in) <= MaxSize
    /\ LET text == bin_to_b64_nopad(in, TextRoom)
       IN \A i \in 1 .. Len(text) : char_to_code(text[i]) \in 0 .. 63

\* What the gateway encodes the server decodes to the same bytes and the same
\* size, and the other way round, with padding and without: the size is
\* compared with the one announced (lora_network_server.c:568).
PayloadKept ==
    /\ b64_to_bin(bin_to_b64(in, TextRoom), MaxPayload) = in
    /\ b64_to_bin_nopad(bin_to_b64_nopad(in, TextRoom), MaxPayload) = in

\* The text is the one of the standard: its characters are the sextets of the
\* bits of the buffer, and it is padded to a multiple of four.
IsBase64 ==
    LET text == bin_to_b64(in, TextRoom)
        Bit(n, i) == (n \div (2 ^ i)) % 2
        ofBytes(i) == Bit(ByteAt(in, (i \div 8) + 1), 7 - (i % 8))
        ofText(i) == Bit(char_to_code(text[(i \div 6) + 1]), 5 - (i % 6))
        sextets == (8 * Len(in) + 5) \div 6
    IN  /\ Len(text) = 4 * ((Len(in) + 2) \div 3)
        /\ \A i \in 0 .. (6 * sextets) - 1 : ofText(i) = ofBytes(i)
        /\ \A i \in sextets + 1 .. Len(text) : text[i] = Pad

\* With the room that the callers give, every payload has a text, and a buffer
\* that is smaller than the text and its end is refused and not overrun
\* ("255 bytes = 340 chars in b64 + null char", lora_network_server.c:933).
RoomIsChecked ==
    /\ LET longest == [i \in 1 .. MaxPayload |-> 255]
       IN Len(bin_to_b64(longest, TextRoom)) = TextRoom - 1
    /\ \A room \in 1 .. 2 * MaxSize :
         LET text == bin_to_b64(in, room)
             back == b64_to_bin(bin_to_b64(in, TextRoom), room)
         IN  /\ text = Failed \/ Len(text) + 1 <= room
             /\ text = Failed => room < Len(bin_to_b64(in, TextRoom)) + 1
             /\ back = Failed \/ Len(back) <= room

\* An address in hexadecimal is read back as the same bytes.
HexKept == hex_to_char(char_to_hex(in)) = in

\* The parts of the floating point number are the bits of the number that was
\* received.
FloatKept ==
    Len(in) >= 2 =>
      LET value == Composed(in)
          f == convertToFloatingPoint(value)
      IN value = f.sign * (2 ^ (ExpBits + ManBits)) + f.exponent * (2 ^ ManBits) + f.mantissa

\* What the module sends for a body
Sentence(body) ==
    <<Dollar>> \o body \o <<Star>> \o Tail(nmea_checksum(<<Dollar>> \o body \o <<Star>>))
        \o <<13, 10>>

\* A sentence of the GPS module is accepted as it was sent; one that lost its
\* end or has one wrong character is not.  One with a time is recognised by
\* its label and the number of its fields.
SentenceChecked ==
    LET sent == Sentence(in)
        Timed(commas) == Sentence(<<71, 80, 82, 77, 67>> \o in \o [k \in 1 .. commas |-> 44])
    IN  /\ validate_nmea_checksum(sent)
        /\ \A n \in 0 .. Len(sent) - 3 : ~ validate_nmea_checksum(SubSeq(sent, 1, n))
        /\ \A i \in 2 .. Len(in) + 1 : \A c \in Bytes \ {sent[i]} :
              ~ validate_nmea_checksum([sent EXCEPT ![i] = c])
        /\ 0 \notin Range(in) =>
              \A n \in 11 .. 13 :
                 lgw_parse_nmea(Timed(n)) = IF n = 12 THEN "NMEA_RMC" ELSE "IGNORED"

\* The fields of a sentence, put together again, are the sentence, and each
\* is free of separators; with less room the first ones are the same.
FieldsKept ==
    0 \notin Range(in) =>
      LET fields == str_chop(Append(in, 10), 62, 30)
          joined == FoldLeft(LAMBDA t, f : t \o <<62>> \o f, << >>, fields)
      IN  /\ Tail(joined) = in
          /\ \A k \in DOMAIN fields : 62 \notin Range(fields[k])
          /\ \A room \in 0 .. 3 :
                str_chop(Append(in, 10), 62, room) = SubSeq(fields, 1, IF room < Len(fields) THEN room ELSE Len(fields))

\* A frame is recognised with its size, whatever follows it in the buffer; it
\* is waited for until it is whole, and refused with a wrong byte.
FrameChecked ==
    LET body == <<1, 32, Len(in), 0>> \o in
        sent == <<181, 98>> \o body \o Fletcher(body)
    IN  /\ lgw_parse_ubx(sent \o in) = <<"UBX_NAV_TIMEGPS", Len(sent)>>
        /\ \A n \in 8 .. Len(sent) - 1 :
              lgw_parse_ubx(SubSeq(sent, 1, n)) = <<"INCOMPLETE", Len(sent)>>
        /\ \A i \in 7 .. Len(in) + 6 : \A b \in Bytes \ {sent[i]} :
              lgw_parse_ubx([sent EXCEPT ![i] = b]) = <<"INVALID", Len(sent)>>
=============================================================================
