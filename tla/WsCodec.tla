-------------------------------- MODULE WsCodec --------------------------------
(***************************************************************************)
(* src/server/websocket.cc, parse_frame() and send_frame(), on bytes, for a *)
(* little-endian machine: in the first byte of a frame fin, rsv and opcode, *)
(* in the second the mask bit and seven bits of length.                     *)
(***************************************************************************)
EXTENDS Integers, SequencesExt, Functions

CONT == 0
TEXT == 1
BIN == 2
CLOSE == 8
PING == 9
PONG == 10

Bytes == 0..255
Opcodes == 0..15
NoFrame == -1   \* in place of an opcode: parse_frame() throws

(* The exclusive or of two bytes, bit by bit. *)
Bit(a, d) == (a \div d) % 2
XorBit(a, b, d) == IF Bit(a, d) = Bit(b, d) THEN 0 ELSE d
Xor(a, b) ==
  XorBit(a, b, 1) + XorBit(a, b, 2) + XorBit(a, b, 4) + XorBit(a, b, 8)
    + XorBit(a, b, 16) + XorBit(a, b, 32) + XorBit(a, b, 64) + XorBit(a, b, 128)

Huge == 4194304   \* stands for every length of at least that, above any buffer

(* The number in two bytes, and in eight, the highest one first. *)
Short(s) == 256 * s[1] + s[2]
Long(s) == IF s[6] >= 64 \/ \E i \in 1..5 : s[i] # 0 THEN Huge
           ELSE 65536 * s[6] + 256 * s[7] + s[8]

(* A slip to compare with: the bytes of a long length are not swapped.      *)
LengthUnswapped(b) ==
  CASE b[2] % 128 = 126 -> [n |-> Short(Reverse(SubSeq(b, 3, 4))), at |-> 5]
    [] b[2] % 128 = 127 -> [n |-> Long(Reverse(SubSeq(b, 3, 10))), at |-> 11]
    [] OTHER            -> [n |-> b[2] % 128, at |-> 3]

(* head.len, or the two or eight bytes in network order behind the head;    *)
(* and the position after it.                                               *)
Length(b) ==
  CASE b[2] % 128 = 126 -> [n |-> Short(SubSeq(b, 3, 4)), at |-> 5]
    [] b[2] % 128 = 127 -> [n |-> Long(SubSeq(b, 3, 10)), at |-> 11]
    [] OTHER            -> [n |-> b[2] % 128, at |-> 3]

(* Either no byte or every byte of the mask is set. *)
BadMask(mask) == \A i \in 1..4 : mask[i] = 0 \/ \A j \in 1..4 : mask[j] = 255

(* A payload with the mask over it, four bytes at a time. *)
Masked(s, mask) == [i \in 1..Len(s) |-> Xor(s[i], mask[((i - 1) % 4) + 1])]

(* parse_frame(b): what is returned, and the buffer whose payload it has    *)
(* unmasked in place; `overrun' when that ran past the buffer's end.  How   *)
(* much of b was read into it is not known here, and an empty payload has   *)
(* its mask left unread.                                                    *)
ParseFrame(b) ==
  LET l  == Length(b)
      at == l.at + 4
      mask == SubSeq(b, l.at, l.at + 3)
      plain == Masked(SubSeq(b, at, at + l.n - 1), mask)
  IN  IF \/ b[1] \div 128 = 0              \* fin==0
         \/ (b[1] \div 16) % 8 # 0         \* rsv!=0
         \/ l.n > Len(b)
         \/ l.n > 0 /\ b[2] \div 128 = 0   \* client sent no mask
         \/ l.n > 0 /\ BadMask(mask)
      THEN [opcode |-> NoFrame, payload |-> <<>>, buffer |-> b, overrun |-> FALSE]
      ELSE IF l.n > 0 /\ at + l.n - 1 > Len(b)
      THEN [opcode |-> NoFrame, payload |-> <<>>, buffer |-> b, overrun |-> TRUE]
      ELSE IF l.n = 0
      THEN [opcode |-> b[1] % 16, payload |-> <<>>, buffer |-> b, overrun |-> FALSE]
      ELSE [opcode |-> b[1] % 16, payload |-> plain,
            buffer |-> SubSeq(b, 1, at - 1) \o plain \o SubSeq(b, at + l.n, Len(b)),
            overrun |-> FALSE]

(* The header that send_frame() builds: a long length is copied as it lies  *)
(* in memory, its lowest byte first.                                        *)
HeaderOf(opcode, n) ==
  IF n < 126 THEN <<128 + opcode, n>>
  ELSE IF n < 65536 THEN <<128 + opcode, 126, n % 256, n \div 256>>
  ELSE <<128 + opcode, 127, n % 256, (n \div 256) % 256, n \div 65536, 0, 0, 0, 0, 0>>

(* send_frame(): the bytes written to the socket, and the buffer, where the *)
(* message stands at offset 10 with its header before it.                   *)
SendFrame(b, message, opcode) ==
  LET h == HeaderOf(opcode, Len(message))
  IN  IF Len(message) + 10 > Len(b) THEN [bytes |-> <<>>, buffer |-> b]   \* ERROR
      ELSE [bytes  |-> h \o message,
            buffer |-> SubSeq(b, 1, 10 - Len(h)) \o h \o message
                       \o SubSeq(b, 11 + Len(message), Len(b))]
------------------------------------------------------------------------------
(* Reference: frames as a peer writes and reads them (RFC 6455).            *)
Masks == {m \in Seq(Bytes) : Len(m) = 4}

(* The forms in which a peer may give a length: 7, 16 or 64 bits. *)
Forms(n) == {f \in {7, 16, 64} : (f = 7 => n < 126) /\ (f = 16 => n < 65536)}

(* The head of a frame with its length, and the frame. *)
ClientHead(opcode, n, form) ==
  CASE form = 7  -> <<128 + opcode, 128 + n>>
    [] form = 16 -> <<128 + opcode, 254, n \div 256, n % 256>>
    [] form = 64 -> <<128 + opcode, 255, 0, 0, 0, 0, 0,
                      n \div 65536, (n \div 256) % 256, n % 256>>
ClientFrame(opcode, payload, mask, form) ==
  ClientHead(opcode, Len(payload), form) \o mask \o Masked(payload, mask)

(* What a peer takes for the payload of the unmasked frame at the start of  *)
(* some bytes: as much of it as has come.                                   *)
PeerReads(bytes) ==
  LET l == Length(bytes)
  IN  [opcode |-> bytes[1] % 16, complete |-> l.n = Len(bytes) - l.at + 1,
       payload |-> SubSeq(bytes, l.at, Min({l.at + l.n - 1, Len(bytes)}))]

(* A peer's frame that fits the buffer is understood in whichever form its  *)
(* length comes, whatever lies behind it, and the unmasking changes nothing *)
(* but its payload; only a mask of all zeros or all ones makes it refused.  *)
FrameUnderstood(opcode, payload, mask, form, behind) ==
  LET b == ClientFrame(opcode, payload, mask, form)
      f == ParseFrame(b \o behind)
  IN  IF payload # <<>> /\ BadMask(mask) THEN f.opcode = NoFrame
      ELSE /\ f.opcode = opcode /\ f.payload = payload
           /\ f.buffer = SubSeq(b, 1, Len(b) - Len(payload)) \o payload \o behind

(* A peer understands what send_frame() writes if it has less than 126      *)
(* bytes, which is all that the server sends; a length of two bytes reads   *)
(* right only if they are the same.                                         *)
ReplyUnderstood(opcode, message, size) ==
  LET s == SendFrame([i \in 1..size |-> 0], message, opcode)
      r == PeerReads(s.bytes)
  IN  /\ s.bytes = <<>> <=> Len(message) + 10 > size
      /\ s.bytes # <<>> =>
           /\ r.opcode = opcode
           /\ (r.complete /\ r.payload = message) <=>
                (Len(message) < 126 \/ Len(message) % 257 = 0)
           /\ Len(s.buffer) = size
==============================================================================
