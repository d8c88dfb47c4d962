----------------------------- MODULE LsbStego ------------------------------
(***************************************************************************)
(* The commands of lsb-stego-demo over the files they read and write.      *)
(* A command that fails changes nothing, so it has no action.              *)
(*                                                                         *)
(* Two variables are history: what the last encode into a file hid there,  *)
(* and the image the file descends from by encodes.                        *)
(***************************************************************************)
EXTENDS LsbCodec

CONSTANTS
  Path,          \* names of files
  CarrierPath,   \* /tmp/lsb-carrier.bmp
  StegoPath,     \* /tmp/lsb-stego.bmp
  Message,       \* messages, sequences of bytes
  DemoMessage,   \* the one of the demo command
  Size,          \* widths and heights given to gen
  DemoSize,      \* the ones of the demo command
  Foreign,       \* files of other programs, each with the image it shows; the
                 \* pixels come after the headers
  Wrap,          \* the number of values of a u32
  BitXor(_, _)      \* u32 ^ u32

ASSUME LsbStegoAssumption ==
  /\ {CarrierPath, StegoPath} \subseteq Path /\ CarrierPath # StegoPath
  /\ Message \subseteq Seq(Byte) /\ DemoMessage \in Message
  /\ \A m \in Message : Len(m) \div 65536 < 65536
  /\ Size \subseteq Nat \X Nat /\ DemoSize \in Nat \X Nat
  /\ 3 * DemoSize[1] * DemoSize[2] >= 8 * (4 + Len(DemoMessage))
  /\ \A f \in Foreign : f.file \in File /\ f.file.offset >= 54 /\ f.img \in Image
  /\ Wrap \in Nat \ {0}
  /\ \A size \in Size \cup {DemoSize} :
       \A x \in 0..size[1], y \in 0..size[2] : BitXor(x, y) \in Nat

VARIABLES
  files,     \* the files there are
  printed,   \* what the last decode printed
  hidden,    \* history: the message last encoded into a file
  carrier    \* history: [img, used], the image a file descends from and how
             \* many of its bytes have been written to since

vars == <<files, printed, hidden, carrier>>

Put(f, x, v) == [y \in DOMAIN f \cup {x} |-> IF y = x THEN v ELSE f[y]]
Without(f, x) == [y \in DOMAIN f \ {x} |-> f[y]]

Init ==
  \E start \in UNION {[P -> Foreign] : P \in SUBSET Path} :
    /\ files = [p \in DOMAIN start |-> start[p].file]
    /\ carrier = [p \in DOMAIN start |-> [img |-> start[p].img, used |-> 0]]
    /\ hidden = [p \in {} |-> <<>>]
    /\ printed = <<>>

-----------------------------------------------------------------------------
Larger(m, n) == IF m > n THEN m ELSE n

\* The product is a u32, which wraps in a release build; the quotient is cut to
\* a byte.
Shade(n, range) == (((n * 255) % Wrap) \div Larger(range, 1)) % 256

DemoImage(width, height) ==
  [width |-> width, height |-> height,
   rgb |-> [i \in 1..((3 * width) * height) |->
              LET y == (i - 1) \div (3 * width)
                  x == ((i - 1) % (3 * width)) \div 3
                  c == ((i - 1) % (3 * width)) % 3
              IN  IF c = 0 THEN Shade(x, width)
                  ELSE IF c = 1 THEN Shade(y, height)
                  ELSE Shade(BitXor(x, y), Larger(width, height))]]

Hide(img, message) == [img EXCEPT !.rgb = EncodeMessage(@, message)]

Gen(out, size) ==
  LET img == DemoImage(size[1], size[2])
  IN  /\ files' = Put(files, out, WriteBmp(img))
      /\ carrier' = Put(carrier, out, [img |-> img, used |-> 0])
      /\ hidden' = Without(hidden, out)
      /\ UNCHANGED printed

\* The file is read whole before the other, or the same one, is written.
Encode(in, out, message) ==
  /\ in \in DOMAIN files /\ Readable(files[in])
  /\ LET img  == ReadBmp(files[in])
         room == 8 * Len(Payload(message))
     IN  /\ Fits(img.rgb, message)
         /\ files' = Put(files, out, WriteBmp(Hide(img, message)))
         /\ carrier' = Put(carrier, out,
                           [carrier[in] EXCEPT !.used = Larger(@, room)])
  /\ hidden' = Put(hidden, out, message)
  /\ UNCHANGED printed

Decode(in) ==
  /\ in \in DOMAIN files /\ Readable(files[in])
  /\ HoldsMessage(ReadBmp(files[in]).rgb)
  /\ printed' = DecodeMessage(ReadBmp(files[in]).rgb)
  /\ UNCHANGED <<files, hidden, carrier>>

Demo ==
  LET img   == DemoImage(DemoSize[1], DemoSize[2])
      stego == Hide(img, DemoMessage)
  IN  /\ files' = Put(Put(files, CarrierPath, WriteBmp(img)),
                      StegoPath, WriteBmp(stego))
      /\ printed' = IF HoldsMessage(stego.rgb) THEN DecodeMessage(stego.rgb) ELSE printed
      /\ hidden' = Put(Without(hidden, CarrierPath), StegoPath, DemoMessage)
      /\ carrier' = Put(Put(carrier, CarrierPath, [img |-> img, used |-> 0]),
                        StegoPath,
                        [img |-> img, used |-> 8 * Len(Payload(DemoMessage))])

Next ==
  \/ Demo
  \/ \E p \in Path : Decode(p)
  \/ \E p \in Path, size \in Size : Gen(p, size)
  \/ \E p, q \in Path, m \in Message : Encode(p, q, m)

Spec == Init /\ [][Next]_vars

-----------------------------------------------------------------------------
(* Type invariant.  An image the tool made or read has as many bytes as its *)
(* width and height say, whatever the padding and the direction of its rows.*)
TypeOK ==
  /\ DOMAIN hidden \subseteq DOMAIN files /\ DOMAIN carrier = DOMAIN files
  /\ DOMAIN files \subseteq Path
  /\ \A p \in DOMAIN files :
       /\ Readable(files[p]) => ReadBmp(files[p]) \in Image
       /\ carrier[p] \in [img : Image, used : Nat]
  /\ \A p \in DOMAIN hidden : hidden[p] \in Message
  /\ printed \in Seq(Byte)

(* What an encode hid is what a decode of the file prints, whatever the     *)
(* image carried before, through writing and reading it as a BMP file.      *)
RoundTrip ==
  \A p \in DOMAIN hidden :
    /\ Readable(files[p])
    /\ HoldsMessage(ReadBmp(files[p]).rgb)
    /\ DecodeMessage(ReadBmp(files[p]).rgb) = hidden[p]

(* The image survives any number of encodes: same size, only low bits       *)
(* differ, and none behind the longest message; top-down files and padded   *)
(* rows are read as the image they show.                                    *)
CarrierKept ==
  \A p \in DOMAIN files :
    Readable(files[p]) =>
      LET img == ReadBmp(files[p])
          old == carrier[p].img
      IN  /\ img.width = old.width /\ img.height = old.height
          /\ Len(img.rgb) = Len(old.rgb)
          /\ \A i \in 1..Len(img.rgb) :
               IF i <= carrier[p].used
               THEN img.rgb[i] \div 2 = old.rgb[i] \div 2
               ELSE img.rgb[i] = old.rgb[i]

(* The capacity that gen and encode print (main.rs:102) is the length of    *)
(* the longest message encode accepts; an image too small for a length      *)
(* takes none.                                                              *)
CapacityExact ==
  \A p \in DOMAIN files :
    Readable(files[p]) =>
      LET rgb == ReadBmp(files[p]).rgb
      IN  \A m \in Message :
            Fits(rgb, m) <=> Len(rgb) >= 32 /\ Len(m) <= PayloadCapacityBytes(rgb)
=============================================================================
