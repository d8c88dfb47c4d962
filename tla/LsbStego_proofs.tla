-------------------------- MODULE LsbStego_proofs --------------------------
(* Theorems about the codec of lsb-stego-demo, for every message and every  *)
(* image, and about the files its commands leave behind.                    *)
EXTENDS LsbStego, SequenceTheorems, TLAPS

\* One more than the largest length a u32 holds.
U32Size == 4294967296

-----------------------------------------------------------------------------
(* Bits and bytes.                                                          *)

\* A byte is the sum of its bits.
LEMMA ByteIsItsBits ==
  ASSUME NEW b \in Byte
  PROVE  b = ((b \div 1) % 2) + 2 * ((b \div 2) % 2) + 4 * ((b \div 4) % 2)
             + 8 * ((b \div 8) % 2) + 16 * ((b \div 16) % 2)
             + 32 * ((b \div 32) % 2) + 64 * ((b \div 64) % 2)
             + 128 * ((b \div 128) % 2)
  BY SMT DEF Byte

\* A bit is 0 or 1.
LEMMA BitRange ==
  ASSUME NEW b \in Byte, NEW k \in 1..8
  PROVE  BitAt(b, k) \in 0..1
<1>1. Weight[k] \in {1, 2, 4, 8, 16, 32, 64, 128}
  BY DEF Weight
<1>2. \A d \in {1, 2, 4, 8, 16, 32, 64, 128} : (b \div d) % 2 \in 0..1
  BY SMT DEF Byte
<1> QED BY <1>1, <1>2 DEF BitAt

\* What put_bit (main.rs:176) changes: the low bit, and nothing else.
LEMMA PutBitSets ==
  ASSUME NEW b \in Byte, NEW bit \in 0..1
  PROVE  /\ PutBit(b, bit) \in Byte
         /\ PutBit(b, bit) % 2 = bit
         /\ PutBit(b, bit) \div 2 = b \div 2
  BY SMT DEF PutBit, Byte

\* The bits of a sequence of bytes: eight for each.
LEMMA BitsOfBytes ==
  ASSUME NEW bytes \in Seq(Byte)
  PROVE  /\ BytesToBits(bytes) \in Seq(0..1)
         /\ Len(BytesToBits(bytes)) = 8 * Len(bytes)
         /\ \A j \in 1..Len(bytes), k \in 1..8 :
              BytesToBits(bytes)[8 * (j - 1) + k] = BitAt(bytes[j], k)
<1> DEFINE n == Len(bytes)
           B == BytesToBits(bytes)
<1>1. n \in Nat
  OBVIOUS
<1>2. \A i \in 1..(8 * n) : 1 + (i - 1) \div 8 \in 1..n /\ 1 + ((i - 1) % 8) \in 1..8
  BY <1>1, SMT
<1>3. \A i \in 1..(8 * n) : B[i] = BitAt(bytes[1 + (i - 1) \div 8], 1 + ((i - 1) % 8))
  BY DEF BytesToBits
<1>4. \A i \in 1..(8 * n) : B[i] \in 0..1
  <2> TAKE i \in 1..(8 * n)
  <2>1. bytes[1 + (i - 1) \div 8] \in Byte
    BY <1>2
  <2> QED BY <2>1, <1>2, <1>3, BitRange
<1>5. B \in [1..(8 * n) -> 0..1]
  BY <1>4 DEF BytesToBits
<1>6. B \in Seq(0..1) /\ Len(B) = 8 * n
  BY <1>1, <1>5, SMT
<1>7. ASSUME NEW j \in 1..n, NEW k \in 1..8
      PROVE  B[8 * (j - 1) + k] = BitAt(bytes[j], k)
  <2>1. /\ 8 * (j - 1) + k \in 1..(8 * n)
        /\ 1 + (8 * (j - 1) + k - 1) \div 8 = j
        /\ 1 + ((8 * (j - 1) + k - 1) % 8) = k
    BY <1>1, SMT
  <2> QED BY <2>1, <1>3
<1> HIDE DEF B
<1> QED BY <1>6, <1>7 DEF B

\* bits_to_bytes (main.rs:185) undoes bytes_to_bits on any run of whole bytes.
LEMMA BytesOfBits ==
  ASSUME NEW bytes \in Seq(Byte), NEW s \in Nat, NEW n \in Nat, s + n <= Len(bytes),
         NEW bits \in Seq(0..1), Len(bits) = 8 * n,
         \A i \in 1..(8 * n) : bits[i] = BytesToBits(bytes)[8 * s + i]
  PROVE  /\ BitsToBytes(bits) \in Seq(Byte) /\ Len(BitsToBytes(bits)) = n
         /\ \A j \in 1..n : BitsToBytes(bits)[j] = bytes[s + j]
<1>1. Len(bits) \div 8 = n
  BY SMT
<1>2. ASSUME NEW j \in 1..n
      PROVE  bits[8 * (j - 1) + 1] + 2 * bits[8 * (j - 1) + 2]
             + 4 * bits[8 * (j - 1) + 3] + 8 * bits[8 * (j - 1) + 4]
             + 16 * bits[8 * (j - 1) + 5] + 32 * bits[8 * (j - 1) + 6]
             + 64 * bits[8 * (j - 1) + 7] + 128 * bits[8 * (j - 1) + 8] = bytes[s + j]
  <2>1. s + j \in 1..Len(bytes) /\ bytes[s + j] \in Byte
    BY SMT
  <2>2. ASSUME NEW k \in 1..8
        PROVE  bits[8 * (j - 1) + k] = BitAt(bytes[s + j], k)
    <3>1. /\ 8 * (j - 1) + k \in 1..(8 * n)
          /\ 8 * s + (8 * (j - 1) + k) = 8 * ((s + j) - 1) + k
      BY SMT
    <3> QED BY <3>1, <2>1, BitsOfBytes, ZenonT(30)
  <2>3. /\ bits[8 * (j - 1) + 1] = (bytes[s + j] \div 1) % 2
        /\ bits[8 * (j - 1) + 2] = (bytes[s + j] \div 2) % 2
        /\ bits[8 * (j - 1) + 3] = (bytes[s + j] \div 4) % 2
        /\ bits[8 * (j - 1) + 4] = (bytes[s + j] \div 8) % 2
        /\ bits[8 * (j - 1) + 5] = (bytes[s + j] \div 16) % 2
        /\ bits[8 * (j - 1) + 6] = (bytes[s + j] \div 32) % 2
        /\ bits[8 * (j - 1) + 7] = (bytes[s + j] \div 64) % 2
        /\ bits[8 * (j - 1) + 8] = (bytes[s + j] \div 128) % 2
    BY <2>2 DEF BitAt, Weight
  <2> HIDE <2>2
  <2>4. bytes[s + j] = ((bytes[s + j] \div 1) % 2) + 2 * ((bytes[s + j] \div 2) % 2)
             + 4 * ((bytes[s + j] \div 4) % 2)
             + 8 * ((bytes[s + j] \div 8) % 2) + 16 * ((bytes[s + j] \div 16) % 2)
             + 32 * ((bytes[s + j] \div 32) % 2) + 64 * ((bytes[s + j] \div 64) % 2)
             + 128 * ((bytes[s + j] \div 128) % 2)
    BY <2>1, ByteIsItsBits, SMTT(30)
  <2> QED BY <2>3, <2>4
<1>3. BitsToBytes(bits) =
        [j \in 1..n |-> bits[8 * (j - 1) + 1] + 2 * bits[8 * (j - 1) + 2]
             + 4 * bits[8 * (j - 1) + 3] + 8 * bits[8 * (j - 1) + 4]
             + 16 * bits[8 * (j - 1) + 5] + 32 * bits[8 * (j - 1) + 6]
             + 64 * bits[8 * (j - 1) + 7] + 128 * bits[8 * (j - 1) + 8]]
  BY <1>1, Zenon DEF BitsToBytes
<1>4. \A j \in 1..n : BitsToBytes(bits)[j] = bytes[s + j] /\ bytes[s + j] \in Byte
  <2> TAKE j \in 1..n
  <2>1. bytes[s + j] \in Byte
    BY SMT
  <2> QED BY <2>1, <1>2, <1>3, SMTT(30)
<1>5. BitsToBytes(bits) \in [1..n -> Byte]
  BY <1>3, <1>4, Zenon
<1> HIDE <1>3
<1> QED BY <1>4, <1>5

\* The length prefix says the length.
LEMMA LengthPrefix ==
  ASSUME NEW n \in Nat, n < U32Size
  PROVE  /\ ToLeBytes(n) \in Seq(Byte) /\ Len(ToLeBytes(n)) = 4
         /\ FromLeBytes(ToLeBytes(n)) = n
<1>1. /\ n % 256 \in Byte /\ (n \div 256) % 256 \in Byte
      /\ (n \div 65536) % 256 \in Byte /\ (n \div 16777216) % 256 \in Byte
  BY SMT DEF Byte
<1>2. (n % 256) + 256 * ((n \div 256) % 256) + 65536 * ((n \div 65536) % 256)
      + 16777216 * ((n \div 16777216) % 256) = n
  BY SMT DEF U32Size
<1> QED BY <1>1, <1>2, SMT DEF ToLeBytes, FromLeBytes

\* The payload: four bytes of length and the message.
LEMMA PayloadShape ==
  ASSUME NEW message \in Seq(Byte), Len(message) < U32Size
  PROVE  /\ Payload(message) \in Seq(Byte) /\ Len(Payload(message)) = 4 + Len(message)
         /\ \A j \in 1..4 : Payload(message)[j] = ToLeBytes(Len(message))[j]
         /\ \A j \in 1..Len(message) : Payload(message)[4 + j] = message[j]
<1>1. Len(message) \in Nat
  OBVIOUS
<1>2. ToLeBytes(Len(message)) \in Seq(Byte) /\ Len(ToLeBytes(Len(message))) = 4
  BY <1>1, LengthPrefix
<1> HIDE DEF U32Size
<1>3. /\ Payload(message) \in Seq(Byte) /\ Len(Payload(message)) = 4 + Len(message)
      /\ \A i \in 1..(4 + Len(message)) :
           Payload(message)[i] = IF i <= 4 THEN ToLeBytes(Len(message))[i]
                                 ELSE message[i - 4]
  <2> DEFINE prefix == ToLeBytes(Len(message))
  <2>1. prefix \in Seq(Byte) /\ Len(prefix) = 4
    BY <1>2
  <2> HIDE DEF prefix
  <2>2. /\ prefix \o message \in Seq(Byte)
        /\ Len(prefix \o message) = Len(prefix) + Len(message)
        /\ \A i \in 1 .. Len(prefix) + Len(message) :
             (prefix \o message)[i] = IF i <= Len(prefix) THEN prefix[i]
                                      ELSE message[i - Len(prefix)]
    BY <2>1, ConcatProperties, Zenon
  <2>3. Payload(message) = prefix \o message
    BY DEF Payload, prefix
  <2> HIDE <2>3
  <2>4. \A i \in 1..(4 + Len(message)) :
          (prefix \o message)[i] = IF i <= 4 THEN prefix[i] ELSE message[i - 4]
    BY <2>1, <2>2
  <2> QED BY <2>1, <2>2, <2>3, <2>4 DEF prefix
<1> QED BY <1>1, <1>3

\* The low bits of an encoded image are the bits of the payload, and the rest
\* of its bytes is as it was.
LEMMA Encoded ==
  ASSUME NEW rgb \in Seq(Byte), NEW message \in Seq(Byte),
         Len(message) < U32Size, Fits(rgb, message)
  PROVE  LET new == EncodeMessage(rgb, message)
         IN  /\ new \in Seq(Byte) /\ Len(new) = Len(rgb)
             /\ \A i \in 1..(8 * Len(Payload(message))) :
                  /\ new[i] % 2 = BytesToBits(Payload(message))[i]
                  /\ new[i] \div 2 = rgb[i] \div 2
             /\ \A i \in 1..Len(rgb) :
                  i > 8 * Len(Payload(message)) => new[i] = rgb[i]
<1> DEFINE new == EncodeMessage(rgb, message)
           bits == BytesToBits(Payload(message))
           room == 8 * Len(Payload(message))
<1>1. Payload(message) \in Seq(Byte) /\ Len(Payload(message)) \in Nat
  BY PayloadShape
<1>2. bits \in Seq(0..1) /\ Len(bits) = room
  BY <1>1, BitsOfBytes
<1>3. room \in Nat /\ room <= Len(rgb)
  BY <1>1 DEF Fits
<1>4. new = [i \in 1..Len(rgb) |-> IF i <= room THEN PutBit(rgb[i], bits[i]) ELSE rgb[i]]
  BY <1>2 DEF EncodeMessage
<1>5. \A i \in 1..Len(rgb) :
        IF i <= room
        THEN new[i] \in Byte /\ new[i] % 2 = bits[i] /\ new[i] \div 2 = rgb[i] \div 2
        ELSE new[i] = rgb[i]
  <2> TAKE i \in 1..Len(rgb)
  <2>1. rgb[i] \in Byte
    OBVIOUS
  <2>2. CASE i <= room
    <3>1. bits[i] \in 0..1
      BY <2>2, <1>2, <1>3
    <3>2. new[i] = PutBit(rgb[i], bits[i])
      BY <2>2, <1>4
    <3> QED BY <2>1, <2>2, <3>1, <3>2, PutBitSets
  <2>3. CASE ~(i <= room)
    BY <2>3, <1>4
  <2> QED BY <2>2, <2>3
<1>6. new \in [1..Len(rgb) -> Byte]
  BY <1>4, <1>5
<1>7. new \in Seq(Byte) /\ Len(new) = Len(rgb)
  BY <1>6
<1> HIDE DEF new, bits, room
<1>8. QED
  BY <1>3, <1>5, <1>7 DEF new, bits, room

\* Whole bytes of the payload are read back from the low bits.
LEMMA ReadBack ==
  ASSUME NEW rgb \in Seq(Byte), NEW message \in Seq(Byte),
         Len(message) < U32Size, Fits(rgb, message),
         NEW s \in Nat, NEW n \in Nat, s + n <= Len(Payload(message))
  PROVE  LET read == BitsToBytes(LowBits(EncodeMessage(rgb, message), 8 * s + 1, 8 * n))
         IN  /\ read \in Seq(Byte) /\ Len(read) = n
             /\ \A j \in 1..n : read[j] = Payload(message)[s + j]
<1> DEFINE new == EncodeMessage(rgb, message)
           bits == LowBits(new, 8 * s + 1, 8 * n)
<1>1. Payload(message) \in Seq(Byte) /\ Len(Payload(message)) \in Nat
  BY PayloadShape
<1>2. /\ BytesToBits(Payload(message)) \in Seq(0..1)
      /\ Len(BytesToBits(Payload(message))) = 8 * Len(Payload(message))
  BY <1>1, BitsOfBytes
<1>3. \A i \in 1..(8 * n) :
        /\ 8 * s + i \in 1..(8 * Len(Payload(message)))
        /\ 8 * s + 1 + i - 1 = 8 * s + i
  BY <1>1, SMT
<1>4. \A i \in 1..(8 * n) : bits[i] = BytesToBits(Payload(message))[8 * s + i]
  <2> TAKE i \in 1..(8 * n)
  <2>1. bits[i] = new[8 * s + i] % 2
    BY <1>3 DEF LowBits
  <2> QED BY <2>1, <1>3, Encoded
<1>5. \A i \in 1..(8 * n) : bits[i] \in 0..1
  <2> DEFINE all == BytesToBits(Payload(message))
             k(i) == 8 * s + i
  <2> TAKE i \in 1..(8 * n)
  <2>1. bits[i] = all[k(i)] /\ k(i) \in 1..(8 * Len(Payload(message)))
    BY <1>3, <1>4
  <2>2. all \in Seq(0..1) /\ k(i) \in 1..Len(all)
    BY <1>2, <2>1
  <2> HIDE DEF all, k, bits
  <2>3. all[k(i)] \in 0..1
    BY <2>2
  <2> QED BY <2>1, <2>3
<1>6. bits \in Seq(0..1) /\ Len(bits) = 8 * n
  <2>1. bits \in [1..(8 * n) -> 0..1]
    BY <1>5 DEF LowBits
  <2> QED BY <2>1
<1> HIDE DEF bits
<1>7. /\ BitsToBytes(bits) \in Seq(Byte) /\ Len(BitsToBytes(bits)) = n
      /\ \A j \in 1..n : BitsToBytes(bits)[j] = Payload(message)[s + j]
  BY <1>1, <1>4, <1>6, BytesOfBits, ZenonT(30)
<1> QED BY <1>7 DEF bits

\* encode_message (main.rs:120) followed by decode_message (main.rs:146) is the
\* message, for every image it fits in.
THEOREM DecodeEncode ==
  ASSUME NEW rgb \in Seq(Byte), NEW message \in Seq(Byte),
         Len(message) < U32Size, Fits(rgb, message)
  PROVE  /\ HoldsMessage(EncodeMessage(rgb, message))
         /\ DecodeMessage(EncodeMessage(rgb, message)) = message
<1> DEFINE new == EncodeMessage(rgb, message)
           payload == Payload(message)
<1>1. /\ Len(message) \in Nat /\ Len(rgb) \in Nat
      /\ Len(payload) = 4 + Len(message) /\ 8 * Len(payload) <= Len(rgb)
      /\ Len(new) = Len(rgb)
  BY PayloadShape, Encoded DEF Fits
<1> DEFINE read(k, n) == BitsToBytes(LowBits(new, 8 * k + 1, 8 * n))
           Reads(k, n) == /\ read(k, n) \in Seq(Byte) /\ Len(read(k, n)) = n
                          /\ \A j \in 1..n : read(k, n)[j] = payload[k + j]
<1>5. \A k, n \in Nat : k + n <= Len(payload) => Reads(k, n)
  BY ReadBack
<1>6. Reads(0, 4) /\ Reads(4, Len(message))
  <2> HIDE DEF Reads
  <2> QED BY <1>1, <1>5
<1>7. 8 * 0 + 1 = 1 /\ 8 * 4 = 32 /\ 8 * 4 + 1 = 33
  OBVIOUS
<1>2. HiddenLength(new) = Len(message)
  <2>1. \A j \in 1..4 : BitsToBytes(LowBits(new, 1, 32))[j] = ToLeBytes(Len(message))[j]
    BY <1>6, <1>7, PayloadShape, SMTT(30)
  <2>2. FromLeBytes(BitsToBytes(LowBits(new, 1, 32))) = FromLeBytes(ToLeBytes(Len(message)))
    BY <2>1, SMT DEF FromLeBytes
  <2> QED BY <2>2, <1>1, LengthPrefix DEF HiddenLength
<1>3. HoldsMessage(new)
  <2>1. Len(rgb) >= 32 /\ 4 + Len(message) <= Len(rgb) \div 8
    BY <1>1, SMT
  <2> QED BY <2>1, <1>1, <1>2 DEF HoldsMessage
<1>4. DecodeMessage(new) = message
  <2>1. DecodeMessage(new) = read(4, Len(message))
    BY <1>2, <1>7 DEF DecodeMessage
  <2>2. \A j \in 1..Len(message) : read(4, Len(message))[j] = message[j]
    BY <1>6, PayloadShape, SMTT(30)
  <2>3. read(4, Len(message)) \in Seq(Byte) /\ Len(read(4, Len(message))) = Len(message)
    BY <1>6
  <2> HIDE DEF read, new
  <2>4. read(4, Len(message)) = message
    BY <2>2, <2>3, SeqEqual
  <2> QED BY <2>1, <2>4
<1> HIDE DEF new
<1> QED BY <1>3, <1>4 DEF new

-----------------------------------------------------------------------------
(* Files.                                                                   *)

\* Quotient and remainder.
LEMMA Split ==
  ASSUME NEW n \in Nat, NEW d \in Nat \ {0}
  PROVE  n \div d \in Nat /\ n % d \in 0..(d - 1) /\ n = (n \div d) * d + (n % d)
  BY SMT

\* They are unique.
LEMMA DivMod ==
  ASSUME NEW d \in Nat \ {0}, NEW q \in Nat, NEW r \in Nat, r < d
  PROVE  (q * d + r) \div d = q /\ (q * d + r) % d = r
<1> DEFINE n == q * d + r
           p == n \div d
           m == n % d
<1>1. n \in Nat
  BY SMT
<1>2. p \in Nat /\ m \in 0..(d - 1) /\ n = p * d + m
  BY <1>1, Split
<1> HIDE DEF p, m
<1>3. ~(p > q)
  <2> SUFFICES ASSUME p > q PROVE FALSE
    OBVIOUS
  <2>1. p * d >= (q + 1) * d
    BY <1>2, SMT
  <2> QED BY <2>1, <1>2, SMT
<1>4. ~(p < q)
  <2> SUFFICES ASSUME p < q PROVE FALSE
    OBVIOUS
  <2>1. q * d >= (p + 1) * d
    BY <1>2, SMT
  <2> QED BY <2>1, <1>2, SMT
<1>5. p = q
  BY <1>2, <1>3, <1>4, SMT
<1>6. m = r
  BY <1>2, <1>5, SMT
<1> QED BY <1>5, <1>6 DEF p, m

\* A place in one of h rows of d bytes.
LEMMA Inside ==
  ASSUME NEW d \in Nat \ {0}, NEW h \in Nat, NEW q \in Nat, q < h, NEW r \in Nat, r < d
  PROVE  q * d + r < h * d
<1>1. (q + 1) * d <= h * d
  BY SMT
<1> QED BY <1>1, SMT

\* The row of a place is one of the h.
LEMMA RowOfByte ==
  ASSUME NEW d \in Nat \ {0}, NEW h \in Nat, NEW n \in Nat, n < h * d
  PROVE  n \div d < h
<1>1. n \div d \in Nat /\ n % d \in 0..(d - 1) /\ n = (n \div d) * d + (n % d)
  BY Split
<1> SUFFICES ASSUME ~(n \div d < h) PROVE FALSE
  OBVIOUS
<1>2. (n \div d) * d >= h * d
  BY <1>1, SMT
<1> QED BY <1>1, <1>2, SMT

\* A row of pixels fits in a row of the file.
LEMMA StrideFits ==
  ASSUME NEW w \in Nat \ {0}
  PROVE  PaddedStride(w) \in Nat \ {0} /\ 3 * w <= PaddedStride(w)
  BY SMT DEF PaddedStride

\* Byte r of a row: turning the colours round twice leads back to it.
LEMMA InRow ==
  ASSUME NEW w \in Nat \ {0}, NEW r \in 0..(3 * w - 1)
  PROVE  LET x == r \div 3
             c == r % 3
             k == 3 * x + (2 - c)
         IN  /\ x \in Nat /\ x < w /\ c \in 0..2 /\ 3 * x + c = r
             /\ k \in Nat /\ k < 3 * w /\ k \div 3 = x /\ 2 - (k % 3) = c
  BY SMT

\* What write_bmp (main.rs:204) writes of an image with pixels, read_bmp
\* (main.rs:274) reads as the same image.
THEOREM WriteRead ==
  ASSUME NEW img \in Image, img.width > 0, img.height > 0
  PROVE  Readable(WriteBmp(img)) /\ ReadBmp(WriteBmp(img)) = img
<1> DEFINE w == img.width
           h == img.height
           n == 3 * w
           S == PaddedStride(w)
           f == WriteBmp(img)
<1>1. /\ w \in Nat \ {0} /\ h \in Nat \ {0} /\ img.rgb \in Seq(Byte)
      /\ Len(img.rgb) = n * h
      /\ img = [width |-> w, height |-> h, rgb |-> img.rgb]
  BY DEF Image
<1>2. /\ n \in Nat \ {0} /\ S \in Nat \ {0} /\ n <= S
      /\ h * S \in Nat /\ n * h \in Nat /\ n * h = h * n
  <2>1. n \in Nat \ {0} /\ S \in Nat \ {0} /\ n <= S
    BY <1>1, StrideFits
  <2> HIDE DEF S, n
  <2> QED BY <1>1, <2>1, SMT
<1>3. /\ f.magic /\ f.offset = 54 /\ f.dib = 40 /\ f.width = w /\ f.height = h
      /\ f.planes = 1 /\ f.bpp = 24 /\ f.compression = 0
      /\ f.body = [i \in 1..(h * S) |->
                     LET y == h - 1 - (i - 1) \div S
                         x == ((i - 1) % S) \div 3
                         c == 2 - (((i - 1) % S) % 3)
                     IN  IF x < w THEN img.rgb[1 + y * n + (3 * x + c)] ELSE 0]
  BY Zenon DEF WriteBmp
<1>4. Len(f.body) = h * S
  BY <1>2, <1>3
<1>5. AbsHeight(f) = h
  BY <1>1, <1>3 DEF AbsHeight
<1>6. Readable(f)
  <2>1. PixelBytes(f) = h * S
    BY <1>3, <1>5 DEF PixelBytes
  <2> HIDE DEF f, S
  <2> QED BY <1>1, <1>2, <1>3, <1>4, <2>1 DEF Readable
<1>7. ASSUME NEW i \in 1..(n * h)
      PROVE  LET y == (i - 1) \div n
                 x == ((i - 1) % n) \div 3
                 c == ((i - 1) % n) % 3
             IN  PixelData(f, RowOf(f, y) * S + (3 * x + (2 - c))) = img.rgb[i]
  <2> DEFINE y == (i - 1) \div n
             r == (i - 1) % n
             x == r \div 3
             c == r % 3
             k == 3 * x + (2 - c)
             q == h - 1 - y
  <2> HIDE DEF n, S, f
  <2>1. i - 1 \in Nat /\ i - 1 < h * n
    BY <1>2
  <2>2. y \in Nat /\ r \in 0..(n - 1) /\ i - 1 = y * n + r /\ y < h
    BY <1>1, <1>2, <2>1, Split, RowOfByte
  <2> HIDE DEF y, r
  <2>3. /\ x \in Nat /\ x < w /\ c \in 0..2 /\ 3 * x + c = r
        /\ k \in Nat /\ k < n /\ k \div 3 = x /\ 2 - (k % 3) = c
    BY <1>1, <2>2, InRow DEF n
  <2> HIDE DEF x, c, k
  <2>4. q \in Nat /\ q < h /\ k < S /\ h - 1 - q = y
    <3>1. q \in Nat /\ q < h /\ h - 1 - q = y
      BY <1>1, <2>2, SMT
    <3>2. k < S
      BY <1>2, <2>3, SMT
    <3> QED BY <3>1, <3>2
  <2> HIDE DEF q
  <2>5. q * S + k < h * S
    BY <1>1, <1>2, <2>3, <2>4, Inside
  <2>6. (q * S + k) \div S = q /\ (q * S + k) % S = k
    BY <1>2, <2>3, <2>4, DivMod
  <2>7. q * S + k \in Nat
    BY <1>2, <2>3, <2>4, SMT
  <2> DEFINE j == 1 + (q * S + k)
  <2>8. j \in 1..(h * S) /\ j - 1 = q * S + k
    BY <1>2, <2>5, <2>7
  <2> HIDE DEF j
  <2>9. f.body[j] = img.rgb[1 + y * n + (3 * x + c)]
    <3>1. f.body[j] = IF ((j - 1) % S) \div 3 < w
                      THEN img.rgb[1 + (h - 1 - (j - 1) \div S) * n
                                   + (3 * (((j - 1) % S) \div 3) + (2 - (((j - 1) % S) % 3)))]
                      ELSE 0
      BY <1>3, <2>8
    <3>2. (j - 1) \div S = q /\ (j - 1) % S = k
      BY <2>6, <2>8
    <3> QED BY <3>1, <3>2, <2>3, <2>4, Zenon
  <2>10. 1 + y * n + (3 * x + c) = i
    BY <1>2, <2>2, <2>3, SMT
  <2>11. RowOf(f, y) = q
    BY <1>1, <1>3, <1>5 DEF RowOf, q
  <2>12. PixelData(f, RowOf(f, y) * S + k) = f.body[j]
    <3>1. f.offset - 53 + (q * S + k) = j
      BY <1>3, <2>7 DEF j
    <3> QED BY <3>1, <2>11, Zenon DEF PixelData
  <2>13. PixelData(f, RowOf(f, y) * S + k) = img.rgb[i]
    BY <2>9, <2>10, <2>12
  <2> QED BY <2>13 DEF y, r, x, c, k
<1>8. ReadBmp(f) = img
  <2>1. ReadBmp(f) =
          [width |-> w, height |-> h,
           rgb |-> [i \in 1..(n * h) |->
                      LET y == (i - 1) \div n
                          x == ((i - 1) % n) \div 3
                          c == ((i - 1) % n) % 3
                      IN  PixelData(f, RowOf(f, y) * S + (3 * x + (2 - c)))]]
    BY <1>3, <1>5, Zenon DEF ReadBmp, ChannelAt
  <2>2. [i \in 1..(n * h) |->
           LET y == (i - 1) \div n
               x == ((i - 1) % n) \div 3
               c == ((i - 1) % n) % 3
           IN  PixelData(f, RowOf(f, y) * S + (3 * x + (2 - c)))]
        = [i \in 1..(n * h) |-> img.rgb[i]]
    BY <1>7, Zenon
  <2>3. [i \in 1..(n * h) |-> img.rgb[i]] = img.rgb
    <3> HIDE DEF n
    <3> QED BY <1>1, <1>2
  <2> QED BY <1>1, <2>1, <2>2, <2>3, Zenon
<1> QED BY <1>6, <1>8

\* read_bmp only makes images of bytes, and of at least one pixel.
LEMMA ReadTyped ==
  ASSUME NEW file \in File, file.offset >= 54, Readable(file)
  PROVE  ReadBmp(file) \in Image /\ ReadBmp(file).width > 0 /\ ReadBmp(file).height > 0
<1> DEFINE w == file.width
           h == AbsHeight(file)
           n == 3 * w
           S == PaddedStride(w)
<1>1. /\ w \in Nat \ {0} /\ h \in Nat \ {0}
      /\ file.offset \in Nat /\ file.body \in Seq(Byte)
      /\ file.offset + h * S <= 54 + Len(file.body)
  BY DEF File, Readable, AbsHeight, PixelBytes
<1>2. /\ n \in Nat \ {0} /\ S \in Nat \ {0} /\ n <= S
      /\ h * S \in Nat /\ n * h \in Nat /\ n * h = h * n
  <2>1. n \in Nat \ {0} /\ S \in Nat \ {0} /\ n <= S
    <3>1. w \in Nat \ {0}
      BY <1>1
    <3> HIDE DEF w
    <3> QED BY <3>1, StrideFits
  <2>2. h \in Nat \ {0}
    BY <1>1
  <2> HIDE DEF S, n, h
  <2> QED BY <2>1, <2>2, SMT
<1>3. ASSUME NEW i \in 1..(n * h)
      PROVE  LET y == (i - 1) \div n
                 x == ((i - 1) % n) \div 3
                 c == ((i - 1) % n) % 3
             IN  PixelData(file, RowOf(file, y) * S + (3 * x + (2 - c))) \in Byte
  <2> DEFINE y == (i - 1) \div n
             r == (i - 1) % n
             x == r \div 3
             c == r % 3
             k == 3 * x + (2 - c)
             q == RowOf(file, y)
  <2> HIDE DEF n, S, h
  <2>1. i - 1 \in Nat /\ i - 1 < h * n
    BY <1>1, <1>2
  <2>2. y \in Nat /\ r \in 0..(n - 1) /\ y < h
    BY <1>1, <1>2, <2>1, Split, RowOfByte
  <2> HIDE DEF y, r
  <2>3. k \in Nat /\ k < S
    <3>1. k \in Nat /\ k < n
      BY <1>1, <2>2, InRow DEF n
    <3> HIDE DEF k
    <3> QED BY <1>2, <3>1, SMT
  <2>4. q \in Nat /\ q < h
    <3>1. q = h - 1 - y \/ q = y
      BY DEF RowOf, h
    <3> HIDE DEF q
    <3> QED BY <1>1, <2>2, <3>1, SMT
  <2> HIDE DEF q, k
  <2>5. q * S + k < h * S /\ q * S + k \in Nat
    <3>1. q * S + k < h * S
      BY <1>1, <1>2, <2>3, <2>4, Inside
    <3>2. q * S + k \in Nat
      BY <1>2, <2>3, <2>4, SMT
    <3> QED BY <3>1, <3>2
  <2>6. file.offset - 53 + (q * S + k) \in 1..Len(file.body)
    <3> DEFINE a == q * S + k
               b == h * S
    <3>1. a \in Nat /\ b \in Nat /\ a < b /\ file.offset + b <= 54 + Len(file.body)
      BY <1>1, <1>2, <2>5
    <3> HIDE DEF a, b
    <3>2. file.offset - 53 + a \in 1..Len(file.body)
      BY <1>1, <3>1, SMTT(30)
    <3> QED BY <3>2 DEF a
  <2>7. file.body[file.offset - 53 + (q * S + k)] \in Byte
    BY <1>1, <2>6
  <2> QED BY <2>7, Zenon DEF PixelData, q, k, c, x, r, y
<1> DEFINE rgb == [i \in 1..(n * h) |->
                     LET y == (i - 1) \div n
                         x == ((i - 1) % n) \div 3
                         c == ((i - 1) % n) % 3
                     IN  PixelData(file, RowOf(file, y) * S + (3 * x + (2 - c)))]
<1>4. ReadBmp(file) = [width |-> w, height |-> h, rgb |-> rgb]
  BY Zenon DEF ReadBmp, ChannelAt
<1>5. rgb \in [1..(n * h) -> Byte]
  BY <1>3, Zenon
<1> HIDE DEF rgb
<1>6. rgb \in Seq(Byte) /\ Len(rgb) = n * h
  <2> HIDE DEF n, h
  <2> QED BY <1>2, <1>5
<1> QED BY <1>1, <1>4, <1>6 DEF Image

\* A written file that can be read is that of an image with pixels.
LEMMA WrittenRead ==
  ASSUME NEW img \in Image, Readable(WriteBmp(img))
  PROVE  img.width > 0 /\ img.height > 0 /\ ReadBmp(WriteBmp(img)) = img
<1>1. WriteBmp(img).width = img.width /\ WriteBmp(img).height = img.height
  BY DEF WriteBmp
<1>2. img.width > 0 /\ img.height > 0
  BY <1>1 DEF Readable, Image
<1> QED BY <1>2, WriteRead

-----------------------------------------------------------------------------
(* Images that are made.                                                    *)

\* Hiding a message keeps the size, and the rest is encode_message's.
LEMMA Hidden ==
  ASSUME NEW img \in Image, NEW m \in Message, Fits(img.rgb, m)
  PROVE  /\ Hide(img, m) \in Image
         /\ Hide(img, m).width = img.width /\ Hide(img, m).height = img.height
         /\ Hide(img, m).rgb = EncodeMessage(img.rgb, m)
         /\ m \in Seq(Byte) /\ Len(m) < U32Size
<1>1. m \in Seq(Byte) /\ Len(m) \in Nat /\ Len(m) \div 65536 < 65536
  BY LsbStegoAssumption
<1>2. Len(m) < U32Size
  BY <1>1, SMT DEF U32Size
<1>3. /\ EncodeMessage(img.rgb, m) \in Seq(Byte)
      /\ Len(EncodeMessage(img.rgb, m)) = Len(img.rgb)
  BY <1>1, <1>2, Encoded DEF Image
<1>4. Hide(img, m) =
        [width |-> img.width, height |-> img.height, rgb |-> EncodeMessage(img.rgb, m)]
  BY DEF Hide, Image
<1> QED BY <1>1, <1>2, <1>3, <1>4 DEF Image

\* What demo_image (main.rs:107) makes are bytes, although the exclusive or of
\* two coordinates may exceed both ranges and the product may wrap.
LEMMA Generated ==
  ASSUME NEW size \in Size \cup {DemoSize}
  PROVE  DemoImage(size[1], size[2]) \in Image
<1> DEFINE w == size[1]
           h == size[2]
           n == 3 * w
<1>1. w \in Nat /\ h \in Nat
  BY LsbStegoAssumption
<1>2. ASSUME NEW m \in Nat, NEW range \in Nat
      PROVE  Shade(m, range) \in Byte
  <2>1. Larger(range, 1) \in Nat \ {0}
    BY DEF Larger
  <2>2. (m * 255) % Wrap \in Nat
    BY LsbStegoAssumption, SMTT(30)
  <2>3. ((m * 255) % Wrap) \div Larger(range, 1) \in Nat
    BY <2>1, <2>2, Split
  <2>4. \A z \in Nat : z % 256 \in Byte
    BY SMT DEF Byte
  <2> QED BY <2>3, <2>4 DEF Shade
<1>3. n \in Nat /\ n * h \in Nat /\ n * h = h * n
  <2>1. n \in Nat
    BY <1>1
  <2> HIDE DEF n
  <2> QED BY <1>1, <2>1, SMT
<1> DEFINE shade(i) ==
             LET y == (i - 1) \div n
                 x == ((i - 1) % n) \div 3
                 c == ((i - 1) % n) % 3
             IN  IF c = 0 THEN Shade(x, w)
                 ELSE IF c = 1 THEN Shade(y, h)
                 ELSE Shade(BitXor(x, y), Larger(w, h))
<1>4. ASSUME NEW i \in 1..(n * h)
      PROVE  shade(i) \in Byte
  <2> DEFINE y == (i - 1) \div n
             r == (i - 1) % n
             x == r \div 3
  <2>1. w \in Nat \ {0}
    <3>1. w # 0
      <4> SUFFICES ASSUME w = 0 PROVE FALSE
        OBVIOUS
      <4>1. n * h = 0
        BY <1>1, SMT
      <4> HIDE DEF n
      <4> QED BY <4>1
    <3> QED BY <1>1, <3>1
  <2>2. y \in Nat /\ y < h /\ r \in 0..(n - 1)
    <3>1. n \in Nat \ {0}
      BY <2>1
    <3> HIDE DEF n
    <3>2. i - 1 \in Nat /\ i - 1 < h * n
      BY <1>3
    <3> QED BY <1>1, <3>1, <3>2, Split, RowOfByte
  <2>3. x \in Nat /\ x < w
    BY <2>1, <2>2, InRow
  <2> HIDE DEF x, y
  <2>4. BitXor(x, y) \in Nat
    <3>1. x \in 0..size[1] /\ y \in 0..size[2]
      BY <1>1, <2>2, <2>3
    <3> QED BY <3>1, LsbStegoAssumption
  <2>5. Larger(w, h) \in Nat
    BY <1>1 DEF Larger
  <2>6. Shade(x, w) \in Byte /\ Shade(y, h) \in Byte /\ Shade(BitXor(x, y), Larger(w, h)) \in Byte
    BY <1>1, <1>2, <2>2, <2>3, <2>4, <2>5
  <2> QED BY <2>6, Zenon DEF x, y
<1> DEFINE rgb == [i \in 1..(n * h) |-> shade(i)]
<1>5. DemoImage(w, h) = [width |-> w, height |-> h, rgb |-> rgb]
  BY Zenon DEF DemoImage
<1>6. rgb \in [1..(n * h) -> Byte]
  <2> HIDE DEF shade
  <2> QED BY <1>4
<1> HIDE DEF rgb
<1>7. rgb \in Seq(Byte) /\ Len(rgb) = n * h
  <2> HIDE DEF n
  <2> QED BY <1>3, <1>6
<1> QED BY <1>1, <1>5, <1>7 DEF Image

-----------------------------------------------------------------------------
(* The commands.                                                            *)

\* Every file is another program's or one that write_bmp wrote.
FilesKnown ==
  \A p \in DOMAIN files :
    \/ \E g \in Foreign : files[p] = g.file
    \/ \E img \in Image : files[p] = WriteBmp(img)

\* What can be read is an image with pixels.
LEMMA KnownRead ==
  ASSUME FilesKnown, NEW p \in DOMAIN files, Readable(files[p])
  PROVE  /\ ReadBmp(files[p]) \in Image
         /\ ReadBmp(files[p]).width > 0 /\ ReadBmp(files[p]).height > 0
<1>1. CASE \E g \in Foreign : files[p] = g.file
  BY <1>1, ReadTyped, LsbStegoAssumption
<1>2. CASE \E img \in Image : files[p] = WriteBmp(img)
  BY <1>2, WrittenRead
<1> QED BY <1>1, <1>2 DEF FilesKnown

\* The demo's message fits in its image.
LEMMA DemoFits ==
  LET img == DemoImage(DemoSize[1], DemoSize[2])
  IN  /\ img \in Image /\ img.width > 0 /\ img.height > 0
      /\ DemoMessage \in Message /\ Fits(img.rgb, DemoMessage)
<1> DEFINE w == DemoSize[1]
           h == DemoSize[2]
           img == DemoImage(w, h)
<1>1. /\ w \in Nat /\ h \in Nat /\ DemoMessage \in Message /\ DemoMessage \in Seq(Byte)
      /\ 3 * w * h >= 8 * (4 + Len(DemoMessage)) /\ Len(DemoMessage) \in Nat
  BY LsbStegoAssumption
<1>2. img \in Image /\ img.width = w /\ img.height = h
  BY Generated DEF DemoImage
<1>3. Len(img.rgb) = (3 * w) * h
  BY <1>2 DEF Image
<1> HIDE DEF img
<1>4. w > 0 /\ h > 0
  <2> HIDE DEF w, h
  <2>1. w # 0 /\ h # 0
    BY <1>1, SMT
  <2> QED BY <1>1, <2>1
<1>5. Len(Payload(DemoMessage)) = 4 + Len(DemoMessage)
  <2>1. Len(DemoMessage) \div 65536 < 65536
    BY LsbStegoAssumption
  <2>2. Len(DemoMessage) < U32Size
    BY <1>1, <2>1, SMT DEF U32Size
  <2> QED BY <1>1, <2>2, PayloadShape
<1>6. Fits(img.rgb, DemoMessage)
  BY <1>1, <1>3, <1>5, SMT DEF Fits
<1> QED BY <1>1, <1>2, <1>4, <1>6 DEF img

\* What an encode writes, in terms of the image it read.
LEMMA EncodeStep ==
  ASSUME FilesKnown, NEW in, NEW out, NEW m \in Message, Encode(in, out, m)
  PROVE  LET img == ReadBmp(files[in])
             new == Hide(img, m)
         IN  /\ in \in DOMAIN files /\ Readable(files[in])
             /\ img \in Image /\ Fits(img.rgb, m)
             /\ new \in Image /\ new.width > 0 /\ new.height > 0
             /\ files' = Put(files, out, WriteBmp(new))
             /\ Readable(WriteBmp(new)) /\ ReadBmp(WriteBmp(new)) = new
<1> DEFINE img == ReadBmp(files[in])
           new == Hide(img, m)
<1>1. /\ in \in DOMAIN files /\ Readable(files[in]) /\ Fits(img.rgb, m)
      /\ files' = Put(files, out, WriteBmp(new))
  BY DEF Encode
<1>2. img \in Image /\ img.width > 0 /\ img.height > 0
  BY <1>1, KnownRead
<1> HIDE DEF img
<1>3. new \in Image /\ new.width > 0 /\ new.height > 0
  BY <1>1, <1>2, Hidden
<1> HIDE DEF new
<1>4. Readable(WriteBmp(new)) /\ ReadBmp(WriteBmp(new)) = new
  BY <1>3, WriteRead
<1> QED BY <1>1, <1>2, <1>3, <1>4 DEF new, img

\* The files stay known.
LEMMA FilesStayKnown == Spec => []FilesKnown
<1>1. Init => FilesKnown
  BY DEF Init, FilesKnown
<1>2. FilesKnown /\ [Next]_vars => FilesKnown'
  <2> SUFFICES ASSUME FilesKnown, [Next]_vars PROVE FilesKnown'
    OBVIOUS
  <2>0. ASSUME NEW out, NEW img \in Image, files' = Put(files, out, WriteBmp(img))
        PROVE  FilesKnown'
    <3> SUFFICES ASSUME NEW p \in DOMAIN files'
                 PROVE  \/ \E g \in Foreign : files'[p] = g.file
                        \/ \E i \in Image : files'[p] = WriteBmp(i)
      BY DEF FilesKnown
    <3>1. CASE p = out
      BY <2>0, <3>1 DEF Put
    <3>2. CASE p # out
      <4>1. p \in DOMAIN files /\ files'[p] = files[p]
        BY <2>0, <3>2 DEF Put
      <4> QED BY <4>1 DEF FilesKnown
    <3> QED BY <3>1, <3>2
  <2>1. CASE Demo
    <3> DEFINE img == DemoImage(DemoSize[1], DemoSize[2])
               stego == Hide(img, DemoMessage)
    <3>1. img \in Image /\ stego \in Image
      BY DemoFits, Hidden
    <3> HIDE DEF img, stego
    <3>2. files' = Put(Put(files, CarrierPath, WriteBmp(img)), StegoPath, WriteBmp(stego))
      BY <2>1 DEF Demo, img, stego
    <3> SUFFICES ASSUME NEW p \in DOMAIN files'
                 PROVE  \/ \E g \in Foreign : files'[p] = g.file
                        \/ \E i \in Image : files'[p] = WriteBmp(i)
      BY DEF FilesKnown
    <3>3. CASE p = StegoPath
      BY <3>1, <3>2, <3>3 DEF Put
    <3>4. CASE p # StegoPath /\ p = CarrierPath
      BY <3>1, <3>2, <3>4 DEF Put
    <3>5. CASE p # StegoPath /\ p # CarrierPath
      <4>1. p \in DOMAIN files /\ files'[p] = files[p]
        BY <3>2, <3>5 DEF Put
      <4> QED BY <4>1 DEF FilesKnown
    <3> QED BY <3>3, <3>4, <3>5
  <2>2. CASE \E p \in Path : Decode(p)
    BY <2>2 DEF Decode, FilesKnown
  <2>3. ASSUME NEW p \in Path, NEW size \in Size, Gen(p, size) PROVE FilesKnown'
    BY <2>0, <2>3, Generated DEF Gen
  <2>4. ASSUME NEW p \in Path, NEW q \in Path, NEW m \in Message, Encode(p, q, m)
        PROVE  FilesKnown'
    BY <2>0, <2>4, EncodeStep
  <2>5. CASE UNCHANGED vars
    BY <2>5 DEF vars, FilesKnown
  <2> QED BY <2>1, <2>2, <2>3, <2>4, <2>5 DEF Next
<1> QED BY <1>1, <1>2, PTL DEF Spec

\* Eight bits make a byte.
LEMMA BytesTyped ==
  ASSUME NEW n \in Nat, NEW bits \in Seq(0..1), Len(bits) = 8 * n
  PROVE  BitsToBytes(bits) \in Seq(Byte) /\ Len(BitsToBytes(bits)) = n
<1> DEFINE bit(j, k) == bits[8 * (j - 1) + k]
           byte(j) == bit(j, 1) + 2 * bit(j, 2) + 4 * bit(j, 3) + 8 * bit(j, 4)
                      + 16 * bit(j, 5) + 32 * bit(j, 6) + 64 * bit(j, 7) + 128 * bit(j, 8)
<1>1. Len(bits) \div 8 = n
  BY SMT
<1>2. ASSUME NEW j \in 1..n
      PROVE  byte(j) \in Byte
  <2>1. \A k \in 1..8 : 8 * (j - 1) + k \in 1..Len(bits)
    BY SMT
  <2>2. \A k \in 1..8 : bit(j, k) \in 0..1
    BY <2>1
  <2> HIDE DEF bit
  <2>3. PICK b1 \in 0..1, b2 \in 0..1, b3 \in 0..1, b4 \in 0..1,
             b5 \in 0..1, b6 \in 0..1, b7 \in 0..1, b8 \in 0..1 :
          /\ bit(j, 1) = b1 /\ bit(j, 2) = b2 /\ bit(j, 3) = b3 /\ bit(j, 4) = b4
          /\ bit(j, 5) = b5 /\ bit(j, 6) = b6 /\ bit(j, 7) = b7 /\ bit(j, 8) = b8
    BY <2>2
  <2>4. byte(j) = b1 + 2 * b2 + 4 * b3 + 8 * b4 + 16 * b5 + 32 * b6 + 64 * b7 + 128 * b8
    BY <2>3, Zenon
  <2> HIDE DEF byte
  <2>5. b1 + 2 * b2 + 4 * b3 + 8 * b4 + 16 * b5 + 32 * b6 + 64 * b7 + 128 * b8 \in Byte
    BY SMT DEF Byte
  <2> QED BY <2>4, <2>5
<1>3. BitsToBytes(bits) = [j \in 1..n |-> byte(j)]
  BY <1>1, Zenon DEF BitsToBytes
<1> HIDE DEF byte
<1>4. BitsToBytes(bits) \in [1..n -> Byte]
  BY <1>2, <1>3
<1> HIDE <1>3
<1> QED BY <1>4

\* What decode_message (main.rs:146) makes of any image is bytes.
LEMMA DecodeTyped ==
  ASSUME NEW rgb \in Seq(Byte), HoldsMessage(rgb)
  PROVE  DecodeMessage(rgb) \in Seq(Byte)
<1> DEFINE bytes(first, n) == BitsToBytes(LowBits(rgb, first, 8 * n))
           Typed(first, n) == bytes(first, n) \in Seq(Byte) /\ Len(bytes(first, n)) = n
<1>1. ASSUME NEW first \in Nat \ {0}, NEW n \in Nat, first + 8 * n - 1 <= Len(rgb)
      PROVE  Typed(first, n)
  <2> DEFINE bits == LowBits(rgb, first, 8 * n)
  <2>1. ASSUME NEW i \in 1..(8 * n) PROVE rgb[first + i - 1] % 2 \in 0..1
    <3>1. first + i - 1 \in 1..Len(rgb)
      BY <1>1
    <3>2. rgb[first + i - 1] \in Byte
      BY <3>1
    <3>3. \A b \in Byte : b % 2 \in 0..1
      BY SMT DEF Byte
    <3> QED BY <3>2, <3>3
  <2>2. bits \in [1..(8 * n) -> 0..1]
    BY <2>1 DEF LowBits
  <2> HIDE DEF bits
  <2>3. bits \in Seq(0..1) /\ Len(bits) = 8 * n
    BY <2>2
  <2> QED BY <2>3, BytesTyped DEF bits
<1> HIDE DEF Typed
<1>2. Typed(1, 4)
  BY <1>1 DEF HoldsMessage
<1> DEFINE prefix == bytes(1, 4)
<1>3. HiddenLength(rgb) \in Nat
  <2>1. prefix \in Seq(Byte) /\ Len(prefix) = 4
    BY <1>2 DEF Typed
  <2> HIDE DEF prefix
  <2>2. prefix[1] \in Byte /\ prefix[2] \in Byte /\ prefix[3] \in Byte /\ prefix[4] \in Byte
    BY <2>1
  <2>3. PICK a \in Byte, b \in Byte, c \in Byte, d \in Byte :
          prefix[1] = a /\ prefix[2] = b /\ prefix[3] = c /\ prefix[4] = d
    BY <2>2
  <2>4. FromLeBytes(prefix) \in Nat
    <3>1. FromLeBytes(prefix) = a + 256 * b + 65536 * c + 16777216 * d
      BY <2>3, SMT DEF FromLeBytes
    <3> HIDE <2>2, <2>3
    <3>2. a + 256 * b + 65536 * c + 16777216 * d \in Nat
      BY SMT DEF Byte
    <3> QED BY <3>1, <3>2, SMT
  <2>5. 8 * 4 = 32
    OBVIOUS
  <2> QED BY <2>4, <2>5 DEF HiddenLength, prefix
<1>4. 33 + 8 * HiddenLength(rgb) - 1 <= Len(rgb)
  BY <1>3, SMT DEF HoldsMessage
<1>5. Typed(33, HiddenLength(rgb))
  BY <1>1, <1>3, <1>4
<1> QED BY <1>5 DEF DecodeMessage, Typed

\* Types of the histories and of what is printed.
TypeInv ==
  /\ DOMAIN hidden \subseteq DOMAIN files /\ DOMAIN carrier = DOMAIN files
  /\ DOMAIN files \subseteq Path
  /\ \A p \in DOMAIN carrier : carrier[p] \in [img : Image, used : Nat]
  /\ \A p \in DOMAIN hidden : hidden[p] \in Message
  /\ printed \in Seq(Byte)

\* TypeOK for every set of messages, sizes and foreign files: what demo_image and
\* read_bmp make are images of bytes, and so is what decode prints.
THEOREM TypeCorrect == Spec => []TypeOK
<1>1. Init => TypeInv
  BY LsbStegoAssumption DEF Init, TypeInv
<1>2. TypeInv /\ FilesKnown /\ [Next]_vars => TypeInv'
  <2> SUFFICES ASSUME TypeInv, FilesKnown, [Next]_vars PROVE TypeInv'
    OBVIOUS
  <2>1. CASE Demo
    <3> DEFINE img == DemoImage(DemoSize[1], DemoSize[2])
               stego == Hide(img, DemoMessage)
               room == 8 * Len(Payload(DemoMessage))
    <3>1. img \in Image /\ stego \in Image /\ DemoMessage \in Message /\ room \in Nat
      <4>1. img \in Image /\ DemoMessage \in Message /\ Fits(img.rgb, DemoMessage)
        BY DemoFits
      <4>2. DemoMessage \in Seq(Byte) /\ Len(DemoMessage) < U32Size
        BY <4>1, Hidden
      <4>3. Len(Payload(DemoMessage)) \in Nat
        BY <4>2, PayloadShape
      <4> QED BY <4>1, <4>3, Hidden
    <3>2. HoldsMessage(stego.rgb) => DecodeMessage(stego.rgb) \in Seq(Byte)
      BY <3>1, DecodeTyped DEF Image
    <3> HIDE DEF img, stego, room
    <3>3. /\ DOMAIN files' = DOMAIN files \cup {CarrierPath, StegoPath}
          /\ printed' = IF HoldsMessage(stego.rgb) THEN DecodeMessage(stego.rgb) ELSE printed
          /\ hidden' = Put(Without(hidden, CarrierPath), StegoPath, DemoMessage)
          /\ carrier' = Put(Put(carrier, CarrierPath, [img |-> img, used |-> 0]),
                            StegoPath, [img |-> img, used |-> room])
      BY <2>1 DEF Demo, Put, img, stego, room
    <3>4. printed' \in Seq(Byte)
      BY <3>2, <3>3 DEF TypeInv
    <3>5. /\ DOMAIN hidden' \subseteq DOMAIN files' /\ DOMAIN carrier' = DOMAIN files'
          /\ DOMAIN files' \subseteq Path
      BY <3>3, LsbStegoAssumption DEF TypeInv, Put, Without
    <3>6. \A p \in DOMAIN carrier' : carrier'[p] \in [img : Image, used : Nat]
      BY <3>1, <3>3 DEF TypeInv, Put
    <3>7. \A p \in DOMAIN hidden' : hidden'[p] \in Message
      BY <3>1, <3>3 DEF TypeInv, Put, Without
    <3> QED BY <3>4, <3>5, <3>6, <3>7 DEF TypeInv
  <2>2. ASSUME NEW p \in Path, Decode(p) PROVE TypeInv'
    <3>1. ReadBmp(files[p]) \in Image /\ HoldsMessage(ReadBmp(files[p]).rgb)
      BY <2>2, KnownRead DEF Decode
    <3>2. printed' \in Seq(Byte)
      BY <2>2, <3>1, DecodeTyped DEF Decode, Image
    <3> QED BY <2>2, <3>2 DEF Decode, TypeInv
  <2>3. ASSUME NEW p \in Path, NEW size \in Size, Gen(p, size) PROVE TypeInv'
    <3> DEFINE img == DemoImage(size[1], size[2])
    <3>1. img \in Image
      BY Generated
    <3> HIDE DEF img
    <3>2. /\ DOMAIN files' = DOMAIN files \cup {p} /\ printed' = printed
          /\ hidden' = Without(hidden, p)
          /\ carrier' = Put(carrier, p, [img |-> img, used |-> 0])
      BY <2>3 DEF Gen, Put, img
    <3> QED BY <3>1, <3>2 DEF TypeInv, Put, Without
  <2>4. ASSUME NEW p \in Path, NEW q \in Path, NEW m \in Message, Encode(p, q, m)
        PROVE  TypeInv'
    <3> DEFINE room == 8 * Len(Payload(m))
               descent == [carrier[p] EXCEPT !.used = Larger(@, room)]
    <3>1. room \in Nat
      <4>1. m \in Seq(Byte) /\ Len(m) < U32Size
        BY <2>4, EncodeStep, Hidden
      <4> QED BY <4>1, PayloadShape
    <3> HIDE DEF room
    <3>2. p \in DOMAIN carrier /\ carrier[p] \in [img : Image, used : Nat]
      BY <2>4 DEF Encode, TypeInv
    <3>3. descent \in [img : Image, used : Nat]
      BY <3>1, <3>2 DEF Larger
    <3> HIDE DEF descent
    <3>4. /\ DOMAIN files' = DOMAIN files \cup {q} /\ printed' = printed
          /\ hidden' = Put(hidden, q, m)
          /\ carrier' = Put(carrier, q, descent)
      BY <2>4 DEF Encode, Put, descent, room
    <3> QED BY <3>3, <3>4 DEF TypeInv, Put
  <2>5. CASE UNCHANGED vars
    BY <2>5 DEF vars, TypeInv
  <2> QED BY <2>1, <2>2, <2>3, <2>4, <2>5 DEF Next
<1>3. TypeInv /\ FilesKnown => TypeOK
  BY KnownRead DEF TypeInv, TypeOK
<1> QED BY <1>1, <1>2, <1>3, FilesStayKnown, PTL DEF Spec

\* RoundTrip for every message and image: what an encode hid stays readable until
\* the file is written again, through any commands on the other files.
THEOREM HiddenIsFound == Spec => []RoundTrip
<1>1. Init => RoundTrip
  BY DEF Init, RoundTrip
<1>2. RoundTrip /\ FilesKnown /\ TypeOK /\ [Next]_vars => RoundTrip'
  <2> SUFFICES ASSUME RoundTrip, FilesKnown, TypeOK, [Next]_vars,
                      NEW p \in DOMAIN hidden'
               PROVE  /\ Readable(files'[p])
                      /\ HoldsMessage(ReadBmp(files'[p]).rgb)
                      /\ DecodeMessage(ReadBmp(files'[p]).rgb) = hidden'[p]
    BY DEF RoundTrip
  <2>0. ASSUME p \in DOMAIN hidden, files'[p] = files[p], hidden'[p] = hidden[p]
        PROVE  /\ Readable(files'[p])
               /\ HoldsMessage(ReadBmp(files'[p]).rgb)
               /\ DecodeMessage(ReadBmp(files'[p]).rgb) = hidden'[p]
    BY <2>0 DEF RoundTrip
  <2>6. ASSUME NEW img \in Image, NEW m \in Message, Fits(img.rgb, m),
               img.width > 0, img.height > 0,
               files'[p] = WriteBmp(Hide(img, m)), hidden'[p] = m
        PROVE  /\ Readable(files'[p])
               /\ HoldsMessage(ReadBmp(files'[p]).rgb)
               /\ DecodeMessage(ReadBmp(files'[p]).rgb) = hidden'[p]
    <3>1. /\ Hide(img, m) \in Image
          /\ Hide(img, m).width > 0 /\ Hide(img, m).height > 0
          /\ Hide(img, m).rgb = EncodeMessage(img.rgb, m)
          /\ m \in Seq(Byte) /\ Len(m) < U32Size /\ img.rgb \in Seq(Byte)
      BY <2>6, Hidden DEF Image
    <3>2. Readable(files'[p]) /\ ReadBmp(files'[p]) = Hide(img, m)
      BY <2>6, <3>1, WriteRead
    <3> QED BY <2>6, <3>1, <3>2, DecodeEncode
  <2>1. CASE Demo
    <3>1. CASE p = StegoPath
      <4>1. /\ files'[p] = WriteBmp(Hide(DemoImage(DemoSize[1], DemoSize[2]), DemoMessage))
            /\ hidden'[p] = DemoMessage
        BY <2>1, <3>1 DEF Demo, Put
      <4> QED BY <4>1, <2>6, DemoFits
    <3>2. CASE p # StegoPath
      <4>1. p \in DOMAIN hidden /\ p # CarrierPath /\ hidden'[p] = hidden[p]
        BY <2>1, <3>2 DEF Demo, Put, Without
      <4>2. files'[p] = files[p]
        BY <2>1, <3>2, <4>1 DEF Demo, Put, TypeOK
      <4> QED BY <4>1, <4>2, <2>0
    <3> QED BY <3>1, <3>2
  <2>2. ASSUME NEW q \in Path, Decode(q)
        PROVE  p \in DOMAIN hidden /\ files'[p] = files[p] /\ hidden'[p] = hidden[p]
    BY <2>2 DEF Decode
  <2>3. ASSUME NEW q \in Path, NEW size \in Size, Gen(q, size)
        PROVE  p \in DOMAIN hidden /\ files'[p] = files[p] /\ hidden'[p] = hidden[p]
    <3>1. p \in DOMAIN hidden /\ p # q /\ hidden'[p] = hidden[p]
      BY <2>3 DEF Gen, Without
    <3>2. files'[p] = files[p]
      BY <2>3, <3>1 DEF Gen, Put, TypeOK
    <3> QED BY <3>1, <3>2
  <2>4. ASSUME NEW in \in Path, NEW out \in Path, NEW m \in Message, Encode(in, out, m)
        PROVE  /\ Readable(files'[p])
               /\ HoldsMessage(ReadBmp(files'[p]).rgb)
               /\ DecodeMessage(ReadBmp(files'[p]).rgb) = hidden'[p]
    <3> DEFINE img == ReadBmp(files[in])
    <3>1. /\ img \in Image /\ img.width > 0 /\ img.height > 0 /\ Fits(img.rgb, m)
          /\ files' = Put(files, out, WriteBmp(Hide(img, m)))
          /\ hidden' = Put(hidden, out, m)
      BY <2>4, KnownRead DEF Encode
    <3> HIDE DEF img
    <3>2. CASE p = out
      <4>1. files'[p] = WriteBmp(Hide(img, m)) /\ hidden'[p] = m
        BY <3>1, <3>2 DEF Put
      <4> QED BY <4>1, <3>1, <2>6
    <3>3. CASE p # out
      <4>1. p \in DOMAIN hidden /\ hidden'[p] = hidden[p]
        BY <3>1, <3>3 DEF Put
      <4>2. files'[p] = files[p]
        BY <3>1, <3>3, <4>1 DEF Put, TypeOK
      <4> QED BY <4>1, <4>2, <2>0
    <3> QED BY <3>2, <3>3
  <2>5. CASE UNCHANGED vars
    BY <2>0, <2>5 DEF vars
  <2> QED BY <2>0, <2>1, <2>2, <2>3, <2>4, <2>5 DEF Next
<1> QED BY <1>1, <1>2, FilesStayKnown, TypeCorrect, PTL DEF Spec

\* The number payload_capacity_bytes (main.rs:102) returns is what encode_message
\* accepts, for every image that can be read.
THEOREM CapacityTrue == Spec => []CapacityExact
<1>1. FilesKnown => CapacityExact
  <2> SUFFICES ASSUME FilesKnown, NEW p \in DOMAIN files, Readable(files[p]),
                      NEW m \in Message
               PROVE  LET rgb == ReadBmp(files[p]).rgb
                      IN  Fits(rgb, m) <=>
                            Len(rgb) >= 32 /\ Len(m) <= PayloadCapacityBytes(rgb)
    BY DEF CapacityExact
  <2> DEFINE rgb == ReadBmp(files[p]).rgb
  <2>1. Len(rgb) \in Nat
    BY KnownRead DEF Image
  <2>2. m \in Seq(Byte) /\ Len(m) \in Nat /\ Len(m) \div 65536 < 65536
    BY LsbStegoAssumption
  <2>3. Len(m) < U32Size
    BY <2>2, SMT DEF U32Size
  <2>4. Len(Payload(m)) = 4 + Len(m)
    BY <2>2, <2>3, PayloadShape
  <2> HIDE DEF rgb
  <2>5. Fits(rgb, m) <=> Len(rgb) >= 32 /\ Len(m) <= PayloadCapacityBytes(rgb)
    BY <2>1, <2>2, <2>4, SMT DEF Fits, PayloadCapacityBytes
  <2> QED BY <2>5 DEF rgb
<1> QED BY <1>1, FilesStayKnown, PTL

\* How far an image may be from the one it descends from.
Kept(new, old, used) ==
  /\ new.width = old.width /\ new.height = old.height
  /\ Len(new.rgb) = Len(old.rgb)
  /\ \A i \in 1..Len(new.rgb) :
       IF i <= used THEN new.rgb[i] \div 2 = old.rgb[i] \div 2 ELSE new.rgb[i] = old.rgb[i]

\* Another encode keeps the same things, up to the longer of the payloads.
LEMMA KeptByHide ==
  ASSUME NEW img \in Image, NEW old \in Image, NEW used \in Nat, Kept(img, old, used),
         NEW m \in Message, Fits(img.rgb, m)
  PROVE  Kept(Hide(img, m), old, Larger(used, 8 * Len(Payload(m))))
<1> DEFINE new == Hide(img, m)
           room == 8 * Len(Payload(m))
           upto == Larger(used, room)
<1>1. /\ new \in Image /\ new.width = img.width /\ new.height = img.height
      /\ new.rgb = EncodeMessage(img.rgb, m)
      /\ m \in Seq(Byte) /\ Len(m) < U32Size /\ img.rgb \in Seq(Byte)
  BY Hidden DEF Image
<1>2. room \in Nat
  BY <1>1, PayloadShape
<1>3. /\ Len(new.rgb) = Len(img.rgb)
      /\ \A i \in 1..room : new.rgb[i] \div 2 = img.rgb[i] \div 2
      /\ \A i \in 1..Len(img.rgb) : i > room => new.rgb[i] = img.rgb[i]
  BY <1>1, Encoded
<1> HIDE DEF new, room
<1>4. upto \in Nat /\ used <= upto /\ room <= upto
  BY <1>2 DEF Larger
<1> HIDE DEF upto
<1>5. ASSUME NEW i \in 1..Len(new.rgb)
      PROVE  IF i <= upto THEN new.rgb[i] \div 2 = old.rgb[i] \div 2
             ELSE new.rgb[i] = old.rgb[i]
  <2>1. /\ i \in 1..Len(img.rgb)
        /\ IF i <= used THEN img.rgb[i] \div 2 = old.rgb[i] \div 2 ELSE img.rgb[i] = old.rgb[i]
    BY <1>3 DEF Kept
  <2>2. CASE i <= room
    <3>1. new.rgb[i] \div 2 = img.rgb[i] \div 2
      BY <1>2, <1>3, <2>2
    <3>2. img.rgb[i] \div 2 = old.rgb[i] \div 2
      BY <2>1
    <3> QED BY <1>2, <1>4, <2>2, <3>1, <3>2
  <2>3. CASE ~(i <= room)
    <3>1. new.rgb[i] = img.rgb[i]
      BY <1>2, <1>3, <2>1, <2>3
    <3> QED BY <1>4, <2>1, <3>1
  <2> QED BY <2>2, <2>3
<1> QED BY <1>1, <1>3, <1>5 DEF Kept, new, room, upto

\* CarrierKept, when read_bmp shows the foreign files as the images they are: no
\* sequence of encodes changes more than low bits, or anything behind the longest
\* payload.
THEOREM CarriersStay ==
  ASSUME \A g \in Foreign : Readable(g.file) => ReadBmp(g.file) = g.img
  PROVE  Spec => []CarrierKept
<1> DEFINE Near(f, c) == Readable(f) => Kept(ReadBmp(f), c.img, c.used)
           Inv == \A p \in DOMAIN files : Near(files[p], carrier[p])
<1>0. ASSUME NEW img \in Image, NEW k \in Nat
      PROVE  Kept(img, img, k)
  BY DEF Kept
<1>1. ASSUME Init PROVE Inv
  <2> SUFFICES ASSUME NEW p \in DOMAIN files, Readable(files[p])
               PROVE  Kept(ReadBmp(files[p]), carrier[p].img, carrier[p].used)
    OBVIOUS
  <2>1. PICK g \in Foreign : files[p] = g.file /\ carrier[p] = [img |-> g.img, used |-> 0]
    BY <1>1 DEF Init
  <2>2. ReadBmp(files[p]) = g.img /\ g.img \in Image
    BY <2>1, LsbStegoAssumption
  <2> QED BY <1>0, <2>1, <2>2
<1>2. Inv /\ FilesKnown /\ TypeOK /\ [Next]_vars => Inv'
  <2> SUFFICES ASSUME Inv, FilesKnown, TypeOK, [Next]_vars
               PROVE  Inv'
    OBVIOUS
  <2>6. ASSUME NEW img \in Image PROVE Near(WriteBmp(img), [img |-> img, used |-> 0])
    BY <1>0, WrittenRead
  <2>7. ASSUME NEW img \in Image, NEW m \in Message, Fits(img.rgb, m),
               img.width > 0, img.height > 0,
               NEW old \in Image, NEW used \in Nat, Kept(img, old, used)
        PROVE  Near(WriteBmp(Hide(img, m)),
                    [img |-> old, used |-> Larger(used, 8 * Len(Payload(m)))])
    <3>1. Kept(Hide(img, m), old, Larger(used, 8 * Len(Payload(m))))
      BY <2>7, KeptByHide
    <3>2. Hide(img, m) \in Image
      BY <2>7, Hidden
    <3> QED BY <3>1, <3>2, WrittenRead
  <2> HIDE DEF Near
  <2>0. ASSUME NEW out, NEW f, NEW c, files' = Put(files, out, f), carrier' = Put(carrier, out, c),
               Near(f, c)
        PROVE  Inv'
    <3> SUFFICES ASSUME NEW p \in DOMAIN files' PROVE Near(files'[p], carrier'[p])
      BY DEF Near
    <3>1. CASE p = out
      BY <2>0, <3>1 DEF Put
    <3>2. CASE p # out
      <4>1. p \in DOMAIN files /\ files'[p] = files[p] /\ carrier'[p] = carrier[p]
        BY <2>0, <3>2 DEF Put, TypeOK
      <4> QED BY <4>1
    <3> QED BY <3>1, <3>2
  <2>1. CASE Demo
    <3> DEFINE img == DemoImage(DemoSize[1], DemoSize[2])
               room == 8 * Len(Payload(DemoMessage))
               f1 == WriteBmp(img)
               c1 == [img |-> img, used |-> 0]
               f2 == WriteBmp(Hide(img, DemoMessage))
               c2 == [img |-> img, used |-> room]
    <3>1. Near(f1, c1)
      BY <2>6, DemoFits
    <3>2. Near(f2, c2)
      <4>1. room \in Nat
        BY DemoFits, Hidden, PayloadShape
      <4>2. Larger(0, room) = room
        BY <4>1 DEF Larger
      <4>3. Kept(img, img, 0)
        BY <1>0, DemoFits
      <4>4. Near(WriteBmp(Hide(img, DemoMessage)), [img |-> img, used |-> Larger(0, room)])
        BY <2>7, <4>3, DemoFits
      <4> QED BY <4>2, <4>4
    <3>3. /\ files' = Put(Put(files, CarrierPath, f1), StegoPath, f2)
          /\ carrier' = Put(Put(carrier, CarrierPath, c1), StegoPath, c2)
      BY <2>1 DEF Demo
    <3> HIDE DEF f1, f2, c1, c2
    <3> SUFFICES ASSUME NEW p \in DOMAIN files' PROVE Near(files'[p], carrier'[p])
      BY DEF Near
    <3>4. CASE p = StegoPath
      BY <3>2, <3>3, <3>4 DEF Put
    <3>5. CASE p # StegoPath /\ p = CarrierPath
      BY <3>1, <3>3, <3>5 DEF Put, TypeOK
    <3>6. CASE p # StegoPath /\ p # CarrierPath
      <4>1. p \in DOMAIN files /\ files'[p] = files[p] /\ carrier'[p] = carrier[p]
        BY <3>3, <3>6 DEF Put, TypeOK
      <4> QED BY <4>1
    <3> QED BY <3>4, <3>5, <3>6
  <2>2. ASSUME NEW p \in Path, Decode(p) PROVE Inv'
    <3>1. files' = files /\ carrier' = carrier
      BY <2>2 DEF Decode
    <3> QED BY <3>1 DEF Near
  <2>3. ASSUME NEW p \in Path, NEW size \in Size, Gen(p, size) PROVE Inv'
    <3> DEFINE img == DemoImage(size[1], size[2])
    <3>1. Near(WriteBmp(img), [img |-> img, used |-> 0])
      BY <2>6, Generated
    <3>2. /\ files' = Put(files, p, WriteBmp(img))
          /\ carrier' = Put(carrier, p, [img |-> img, used |-> 0])
      BY <2>3 DEF Gen
    <3> QED BY <2>0, <3>1, <3>2
  <2>4. ASSUME NEW p \in Path, NEW q \in Path, NEW m \in Message, Encode(p, q, m) PROVE Inv'
    <3> DEFINE img == ReadBmp(files[p])
               c == [img |-> carrier[p].img,
                     used |-> Larger(carrier[p].used, 8 * Len(Payload(m)))]
    <3>1. /\ p \in DOMAIN files /\ Readable(files[p])
          /\ img \in Image /\ img.width > 0 /\ img.height > 0 /\ Fits(img.rgb, m)
          /\ files' = Put(files, q, WriteBmp(Hide(img, m)))
      BY <2>4, KnownRead DEF Encode
    <3>2. carrier[p] \in [img : Image, used : Nat]
      BY <3>1 DEF TypeOK
    <3>3. carrier' = Put(carrier, q, c)
      <4>1. [carrier[p] EXCEPT !.used = Larger(@, 8 * Len(Payload(m)))] = c
        BY <3>2
      <4> QED BY <4>1, <2>4 DEF Encode
    <3>4. Kept(img, carrier[p].img, carrier[p].used)
      BY <3>1 DEF Near
    <3>5. Near(WriteBmp(Hide(img, m)), c)
      BY <2>7, <3>1, <3>2, <3>4
    <3> QED BY <2>0, <3>1, <3>3, <3>5
  <2>5. CASE UNCHANGED vars
    BY <2>5 DEF vars, Near
  <2> QED BY <2>1, <2>2, <2>3, <2>4, <2>5 DEF Next
<1>3. Inv => CarrierKept
  BY DEF CarrierKept, Kept
<1> QED BY <1>1, <1>2, <1>3, FilesStayKnown, TypeCorrect, PTL DEF Spec
=============================================================================
