----------------------------- MODULE MCLsbStego ----------------------------
(* Small values for LsbStego: images of 33 to 66 bytes with and without     *)
(* padding, one too small for a length, one without pixels, and files of    *)
(* other programs.                                                          *)
EXTENDS LsbStego, Bitwise, SequencesExt

CONSTANTS p, q       \* files

MCBitXor(x, y) == x ^^ y
MCMessage == {<<>>, <<200>>, <<77, 130>>}
MCDemoMessage == <<77, 130>>
MCDemoSize == <<11, 2>>
MCSize == {<<0, 1>>, <<3, 3>>, <<5, 3>>, <<11, 2>>}

\* An image, as rows of pixels of red, green and blue.
Picture(width, height) ==
  [y \in 1..height |-> [x \in 1..width |-> <<9 * x, 100 + 8 * y, 255 - x - y>>]]

ImageOf(width, height, picture) ==
  [width |-> width, height |-> height,
   rgb |-> FlattenSeq([y \in 1..height |-> FlattenSeq(picture[y])])]

\* The rows of a file: each pixel from blue to red, and what pads the row.
RowBytes(row, padding) ==
  FlattenSeq([x \in DOMAIN row |-> Reverse(row[x])]) \o padding

Drawn(height, offset, bpp, body) ==
  [magic |-> TRUE, offset |-> offset, dib |-> 40, width |-> 5, height |-> height,
   planes |-> 1, bpp |-> bpp, compression |-> 0, body |-> body]

TopDown ==
  LET picture == Picture(5, 3)
  IN  [file |-> Drawn(-3, 58, 24, <<1, 2, 3, 4>> \o
                  FlattenSeq([y \in 1..3 |-> RowBytes(picture[y], <<7>>)])),
       img  |-> ImageOf(5, 3, picture)]

BottomUp ==
  LET picture == Picture(5, 4)
  IN  [file |-> Drawn(4, 54, 24,
                  FlattenSeq([y \in 1..4 |-> RowBytes(picture[5 - y], <<0>>)])),
       img  |-> ImageOf(5, 4, picture)]

Short == [TopDown EXCEPT !.file.body = SubSeq(@, 1, Len(@) - 1)]
Deep == [TopDown EXCEPT !.file.bpp = 32]

MCForeign == {TopDown, BottomUp, Short, Deep}
=============================================================================
