---------------------------- MODULE ProcessData ----------------------------
(***************************************************************************)
(* Where a pin of LinuxCNC lies, and how its value is carried: the typed   *)
(* access to the process image (hal/process_data.rs), the same access to a *)
(* frame on the host (serialize_out, deserialize_in of the component), and *)
(* the copies between the two (HostBridge, EcDomain::apply_reply).         *)
(*                                                                         *)
(* The arithmetic is the code's with bytes of ByteBits bits and words of   *)
(* WordBytes bytes; outputs come first in the image, then inputs.          *)
(***************************************************************************)
EXTENDS Integers

CONSTANTS
  ByteBits,   \* 8
  WordBytes,  \* 4: u32, and the raw value of the component; an i64 has twice that
  OutBytes,   \* OUT_BYTES
  InBytes,    \* IN_BYTES
  MosiHdr,    \* MOSI_HDR
  MisoHdr     \* MISO_HDR

ASSUME LayoutAssumption ==
  /\ ByteBits \in Nat \ {0} /\ WordBytes \in Nat \ {0}
  /\ OutBytes \in Nat /\ InBytes \in Nat /\ MosiHdr \in Nat /\ MisoHdr \in Nat

WordBits  == ByteBits * WordBytes
ImageSize == OutBytes + InBytes
Image     == [0 .. ImageSize - 1 -> 0 .. 2^ByteBits - 1]

\* Single bits at any position, signed and unsigned numbers in whole bytes
\* ("v1 assumes byte-aligned multi-bit fields", process_data.rs:8).
Pins ==
  [type : {"b"}, off : 0 .. ImageSize - 1, pos : 0 .. ByteBits - 1, len : {1}]
    \cup { pin \in [type : {"u", "s"}, off : 0 .. ImageSize - 1, pos : {0},
                    len : {n * ByteBits : n \in 1 .. WordBytes}] :
             \E half \in {0 .. OutBytes - 1, OutBytes .. ImageSize - 1} :
               pin.off .. pin.off + pin.len \div ByteBits - 1 \subseteq half }

Outputs == {pin \in Pins : pin.off < OutBytes}
Inputs  == Pins \ Outputs

Bits(pin) == LET first == pin.off * ByteBits + pin.pos IN first .. first + pin.len - 1

Values(pin) ==
  IF pin.type = "s" THEN {v - 2^(pin.len - 1) : v \in 0 .. 2^pin.len - 1}
                    ELSE 0 .. 2^pin.len - 1

-----------------------------------------------------------------------------
(* Both sides, byte by byte *)

NBytes(pin) == (pin.len + ByteBits - 1) \div ByteBits

LittleEndian(buf, off, nbytes) ==
  LET byte(i)  == IF off + i \in DOMAIN buf THEN buf[off + i] * 2^(ByteBits * i) ELSE 0
      sum[n \in 0 .. nbytes] == IF n = 0 THEN 0 ELSE sum[n - 1] + byte(n - 1)
  IN sum[nbytes]

PutLittleEndian(buf, off, v, nbytes) ==
  [i \in DOMAIN buf |->
     IF i \in off .. off + nbytes - 1
     THEN (v \div 2^(ByteBits * (i - off))) % 2^ByteBits ELSE buf[i]]

BitAt(buf, off, pos) == (buf[off] \div 2^pos) % 2

PutBit(buf, off, pos, v) ==
  [buf EXCEPT ![off] = @ + ((IF v # 0 THEN 1 ELSE 0) - BitAt(buf, off, pos)) * 2^pos]

\* The signed number in the low bits of raw.
Signed(raw, bits) ==
  LET low == raw % 2^bits IN IF 2 * low >= 2^bits THEN low - 2^bits ELSE low

-----------------------------------------------------------------------------
(* The board: read_value and write_value *)

ReadValue(image, pin) ==
  LET raw == LittleEndian(image, pin.off, NBytes(pin))
  IN CASE pin.type = "b" -> IF pin.off \in DOMAIN image
                            THEN BitAt(image, pin.off, pin.pos) ELSE 0
       [] pin.type = "s" -> Signed(raw, IF pin.len \in 1 .. 2 * WordBits - 1
                                        THEN pin.len ELSE 2 * WordBits)
       [] OTHER -> raw

WriteValue(image, pin, v) ==
  CASE pin.type # "b" -> PutLittleEndian(image, pin.off, v, NBytes(pin))
    [] pin.type = "b" /\ pin.off \in DOMAIN image -> PutBit(image, pin.off, pin.pos, v)
    [] OTHER -> image

-----------------------------------------------------------------------------
(* The host: serialize_out and deserialize_in *)

FrameOff(pin) ==
  IF pin.off < OutBytes THEN MosiHdr + pin.off ELSE MisoHdr + pin.off - OutBytes

SerializeOut(frame, pin, v) ==
  IF pin.type = "b" THEN PutBit(frame, FrameOff(pin), pin.pos, v)
  ELSE PutLittleEndian(frame, FrameOff(pin), v, NBytes(pin))

\* Mutant: a number narrower than the word is not sign-extended.
DeserializeInUnsigned(frame, pin) ==
  LET raw == LittleEndian(frame, FrameOff(pin), NBytes(pin))
  IN CASE pin.type = "b" -> BitAt(frame, FrameOff(pin), pin.pos)
       [] pin.type = "s" -> Signed(raw, WordBits)
       [] OTHER -> raw

DeserializeIn(frame, pin) ==
  LET raw   == LittleEndian(frame, FrameOff(pin), NBytes(pin))
      above == WordBits - pin.len
  IN CASE pin.type = "b" -> BitAt(frame, FrameOff(pin), pin.pos)
       [] pin.type = "s" -> IF above > 0 /\ above < WordBits
                            THEN Signed(raw, pin.len) ELSE Signed(raw, WordBits)
       [] OTHER -> raw

-----------------------------------------------------------------------------
(* From frame to image and back *)

\* apply_outputs, of a valid frame and without a motion sample.
ApplyOutputs(image, mosi) ==
  [i \in DOMAIN image |-> IF i < OutBytes THEN mosi[MosiHdr + i] ELSE image[i]]

\* The range of the TxPDO of every slave, input FMMU by input FMMU.
InputRanges == {OutBytes .. ImageSize - 1}

\* A range is copied whole or, from a reply too short for it, not at all.
ApplyReply(image, data) ==
  [i \in DOMAIN image |->
     IF \E range \in InputRanges : i \in range /\ range \subseteq DOMAIN data
     THEN data[i] ELSE image[i]]

BuildReply(image) ==
  [i \in 0 .. MisoHdr + InBytes - 1 |->
     IF i < MisoHdr THEN 0 ELSE image[OutBytes + i - MisoHdr]]

-----------------------------------------------------------------------------
(* What the copies and the conversions come to *)

Same(v) == [i \in 0 .. ImageSize - 1 |-> v]
Blanks  == {Same(0), Same(2^ByteBits - 1)}
NoFrame == [i \in 0 .. MosiHdr + OutBytes - 1 |-> 0]

\* What the host writes to an output pin, next to another one, is what a slave
\* reads; what "pd" writes is what it reads, and no other pin changes.
OutputsArrive ==
  \A p \in Outputs, q \in Outputs : Bits(p) \cap Bits(q) = {} =>
    \A v \in Values(p), w \in Values(q), image \in Blanks :
      LET mosi    == SerializeOut(SerializeOut(NoFrame, p, v), q, w)
          sent    == ApplyOutputs(image, mosi)
          written == WriteValue(image, p, v)
      IN /\ ReadValue(sent, p) = v /\ ReadValue(sent, q) = w
         /\ ReadValue(written, p) = v /\ ReadValue(written, q) = ReadValue(image, q)

\* What a slave writes to an input pin is what the host shows; a reply touches
\* no output, and one that is too short touches nothing.
InputsArrive ==
  \A data \in Image, image \in Blanks :
    LET next == ApplyReply(image, data)
        cut  == ApplyReply(image, [i \in 0 .. ImageSize - 2 |-> data[i]])
    IN /\ \A p \in Inputs : DeserializeIn(BuildReply(next), p) = ReadValue(data, p)
       /\ \A p \in Outputs : ReadValue(next, p) = ReadValue(image, p)
       /\ cut = image
=============================================================================
