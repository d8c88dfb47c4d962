----------------------------- MODULE LsbCodec ------------------------------
(***************************************************************************)
(* How lsb-stego-demo hides a message in the low bits of an image, and how *)
(* it lays an image out in a BMP file (src/tools/lsb-stego-demo/src/       *)
(* main.rs), as operators on sequences of bytes.                           *)
(*                                                                         *)
(* Data abstraction.  The fields of the two BMP headers that are read are  *)
(* a record, the bytes after them a sequence.  Images are of a size whose  *)
(* file has a header, so the errors for larger ones are left out.          *)
(***************************************************************************)
EXTENDS Integers, Sequences

Byte == 0..255

-----------------------------------------------------------------------------
(* Bits and bytes, the lowest bit first.                                   *)

Weight == <<1, 2, 4, 8, 16, 32, 64, 128>>

\* The bit of a byte at 1..8.
BitAt(byte, k) == (byte \div Weight[k]) % 2

PutBit(byte, bit) == 2 * (byte \div 2) + bit

\* Mutant: the highest bit first.
BytesToBitsHighFirst(bytes) ==
  [i \in 1..(8 * Len(bytes)) |-> BitAt(bytes[1 + (i - 1) \div 8], 8 - ((i - 1) % 8))]

BytesToBits(bytes) ==
  [i \in 1..(8 * Len(bytes)) |-> BitAt(bytes[1 + (i - 1) \div 8], 1 + ((i - 1) % 8))]

\* Both callers pass a multiple of eight bits.
BitsToBytes(bits) ==
  [j \in 1..(Len(bits) \div 8) |->
     LET bit(k) == bits[8 * (j - 1) + k]
     IN  bit(1) + 2 * bit(2) + 4 * bit(3) + 8 * bit(4)
         + 16 * bit(5) + 32 * bit(6) + 64 * bit(7) + 128 * bit(8)]

\* u32::to_le_bytes and u32::from_le_bytes.
ToLeBytes(n) ==
  <<n % 256, (n \div 256) % 256, (n \div 65536) % 256, (n \div 16777216) % 256>>

FromLeBytes(b) == b[1] + 256 * b[2] + 65536 * b[3] + 16777216 * b[4]

-----------------------------------------------------------------------------
(* The message in the low bits of an image's bytes.                        *)

LowBits(rgb, first, count) == [i \in 1..count |-> rgb[first + i - 1] % 2]

PayloadCapacityBytes(rgb) ==
  IF Len(rgb) \div 8 < 4 THEN 0 ELSE Len(rgb) \div 8 - 4

Payload(message) == ToLeBytes(Len(message)) \o message

\* Mutant: the room the length takes is not counted.
FitsWithoutLength(rgb, message) == 8 * Len(message) <= Len(rgb)

Fits(rgb, message) == 8 * Len(Payload(message)) <= Len(rgb)

\* When the message fits.
EncodeMessage(rgb, message) ==
  LET bits == BytesToBits(Payload(message))
  IN  [i \in 1..Len(rgb) |->
         IF i <= Len(bits) THEN PutBit(rgb[i], bits[i]) ELSE rgb[i]]

HiddenLength(rgb) == FromLeBytes(BitsToBytes(LowBits(rgb, 1, 32)))

HoldsMessage(rgb) ==
  Len(rgb) >= 32 /\ 4 + HiddenLength(rgb) <= Len(rgb) \div 8

\* When the image holds one.
DecodeMessage(rgb) == BitsToBytes(LowBits(rgb, 33, 8 * HiddenLength(rgb)))

-----------------------------------------------------------------------------
(* BMP files: rows of pixels, blue first, padded to four bytes, the lowest  *)
(* row first unless the height is negative.                                 *)

Image ==
  {img \in [width : Nat, height : Nat, rgb : Seq(Byte)] :
     Len(img.rgb) = (3 * img.width) * img.height}

File ==
  [magic : BOOLEAN, offset : Nat, dib : Nat, width : Int, height : Int,
   planes : Nat, bpp : Nat, compression : Nat, body : Seq(Byte)]

PaddedStride(width) == 4 * ((3 * width + 3) \div 4)

WriteBmp(img) ==
  LET stride == PaddedStride(img.width)
  IN  [magic |-> TRUE, offset |-> 54, dib |-> 40,
       width |-> img.width, height |-> img.height,
       planes |-> 1, bpp |-> 24, compression |-> 0,
       body |-> [i \in 1..(img.height * stride) |->
                   LET y == img.height - 1 - (i - 1) \div stride
                       x == ((i - 1) % stride) \div 3
                       c == 2 - (((i - 1) % stride) % 3)
                   IN  IF x < img.width
                       THEN img.rgb[1 + y * (3 * img.width) + (3 * x + c)]
                       ELSE 0]]

AbsHeight(file) == IF file.height < 0 THEN -file.height ELSE file.height

PixelBytes(file) == AbsHeight(file) * PaddedStride(file.width)

Readable(file) ==
  /\ file.magic
  /\ file.dib >= 40
  /\ file.planes = 1 /\ file.bpp = 24 /\ file.compression = 0
  /\ file.width > 0 /\ file.height # 0
  /\ file.offset + PixelBytes(file) <= 54 + Len(file.body)

\* Mutant: every file is taken to be bottom-up.
RowBottomUp(file, y) == AbsHeight(file) - 1 - y

\* The row of the file that holds the y-th of the image.
RowOf(file, y) == IF file.height > 0 THEN AbsHeight(file) - 1 - y ELSE y

\* The bytes of the pixels, counted from 0.
PixelData(file, k) == file.body[file.offset - 53 + k]

\* A byte of the image, counted from 1.
ChannelAt(file, i) ==
  LET w == file.width
      y == (i - 1) \div (3 * w)
      x == ((i - 1) % (3 * w)) \div 3
      c == ((i - 1) % (3 * w)) % 3
  IN  PixelData(file, RowOf(file, y) * PaddedStride(w) + (3 * x + (2 - c)))

\* Mutant: the bytes of the image are made as many as those of the padded rows.
ReadBmpPadded(file) ==
  LET size == (3 * file.width) * AbsHeight(file)
  IN  [width |-> file.width, height |-> AbsHeight(file),
       rgb |-> [i \in 1..PixelBytes(file) |-> IF i <= size THEN ChannelAt(file, i) ELSE 0]]

\* When the file is readable.
ReadBmp(file) ==
  [width |-> file.width, height |-> AbsHeight(file),
   rgb |-> [i \in 1..((3 * file.width) * AbsHeight(file)) |-> ChannelAt(file, i)]]
=============================================================================
