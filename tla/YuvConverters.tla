---------------------------- MODULE YuvConverters ----------------------------
(***************************************************************************)
(* linux/yuvconverters.cpp: the three loops that turn a frame of the       *)
(* driver into RGB.  YUYV2RGB runs through the bytes it is given and does  *)
(* not know the size; NV122RGB and YU122RGB run over rows and columns and  *)
(* compute where the samples of a pixel lie.  What a byte of a frame is,   *)
(* is the driver's affair (Sample); an output pixel remembers which bytes  *)
(* it was made of, and its colour.  All pixels of a frame have one colour  *)
(* here.                                                                   *)
(***************************************************************************)
EXTENDS Integers

CONSTANTS
  Widths, Heights,  \* even, as drivers grant for formats that share chroma
  Levels            \* the sample values

(* What a configuration has to satisfy. *)
ConvertersAssumption ==
  /\ \A n \in Widths \cup Heights : n \in Nat \ {0} /\ n % 2 = 0
  /\ Levels \subseteq 0..255

VARIABLES
  format,         \* "YUYV", "NV12", "YU12"
  width, height,
  y, u, v,        \* the colour of the frame
  bytes,          \* YUYV2RGB: what is left of the frame
  row, col,       \* the others: the next pixel
  rgb             \* pixels written: the bytes each was made of, its colour

frame == <<format, width, height, y, u, v>>
vars == <<frame, bytes, row, col, rgb>>

Init ==
  /\ format \in {"YUYV", "NV12", "YU12"}
  /\ width \in Widths /\ height \in Heights
  /\ y \in Levels /\ u \in Levels /\ v \in Levels
  /\ bytes = 2 * width * height
  /\ row = 0 /\ col = 0
  /\ rgb = <<>>
-----------------------------------------------------------------------------
(* Arithmetic. *)

Int16(n) == ((n + 2^15) % 2^16) - 2^15

Clamp(n) == IF n > 255 THEN 255 ELSE IF n < 0 THEN 0 ELSE n

Luma == Int16(19 * (y - 16))

Channel(n) == Clamp(Int16(n \div 16))

(* By their place in a YUYV frame the first chroma byte is u and the second *)
(* v; the code calls them cr and cb.                                        *)
YuyvColour == <<Channel(Luma + 32 * (v - 128)),
                Channel(Luma - 13 * (u - 128) - 6 * (v - 128)),
                Channel(Luma + 26 * (u - 128))>>

PlanarColour == <<Channel(Luma + 26 * (v - 128)),
                  Channel(Luma - 13 * (v - 128) - 6 * (u - 128)),
                  Channel(Luma + 32 * (u - 128))>>
-----------------------------------------------------------------------------
(* The loops. *)

(* The picture with one more pixel. *)
With(picture, p, pixel) ==
  [q \in DOMAIN picture \cup {p} |-> IF q = p THEN pixel ELSE picture[q]]

(* Two pixels of four bytes: both with the same chroma. *)
YUYV2RGB ==
  /\ format = "YUYV" /\ bytes > 3
  /\ LET in    == 2 * width * height - bytes
         out   == in \div 2
         Made(luma) == [from |-> <<luma, in + 1, in + 3>>, colour |-> YuyvColour]
     IN  rgb' = With(With(rgb, out, Made(in)), out + 1, Made(in + 2))
  /\ bytes' = bytes - 4
  /\ UNCHANGED <<frame, row, col>>

Pixel(from) ==
  /\ row < height
  /\ rgb' = With(rgb, row * width + col, [from |-> from, colour |-> PlanarColour])
  /\ IF col + 1 < width THEN col' = col + 1 /\ row' = row
                        ELSE col' = 0 /\ row' = row + 1
  /\ UNCHANGED <<frame, bytes>>

NV122RGB ==
  /\ format = "NV12"
  /\ LET uv == width * height + (row \div 2) * width + (col \div 2) * 2
     IN  Pixel(<<row * width + col, uv, uv + 1>>)

(* Mutant: a row of a chroma plane as long as one of the picture. *)
YU122RGBLongRows ==
  /\ format = "YU12"
  /\ LET uv == (row \div 2) * width + col \div 2
         u_plane == width * height
         v_plane == u_plane + (width * height) \div 4
     IN  Pixel(<<row * width + col, u_plane + uv, v_plane + uv>>)

YU122RGB ==
  /\ format = "YU12"
  /\ LET uv == (row \div 2) * (width \div 2) + col \div 2
         u_plane == width * height
         v_plane == u_plane + (width * height) \div 4
     IN  Pixel(<<row * width + col, u_plane + uv, v_plane + uv>>)

Converted == IF format = "YUYV" THEN bytes <= 3 ELSE row = height

Over == Converted /\ UNCHANGED vars

Next == YUYV2RGB \/ NV122RGB \/ YU122RGB \/ Over

Spec == Init /\ [][Next]_vars
-----------------------------------------------------------------------------
(* External: what the driver puts into byte i of a frame, as V4L2 defines   *)
(* the three formats: a sample of a plane, with its row and column there.   *)
Chroma(i, start, name) ==
  LET j == i - start IN <<name, j \div (width \div 2), j % (width \div 2)>>

Sample(i) ==
  LET size == width * height
      r    == i \div (2 * width)
      k    == i % (2 * width)
  IN  CASE format = "YUYV" /\ i % 2 = 0     -> <<"Y", r, k \div 2>>
        [] format = "YUYV" /\ i % 4 = 1     -> <<"U", r, k \div 4>>
        [] format = "YUYV" /\ i % 4 = 3     -> <<"V", r, k \div 4>>
        [] format # "YUYV" /\ i < size      -> <<"Y", i \div width, i % width>>
        [] format = "NV12" /\ i >= size     ->
             LET j == i - size
             IN  <<IF j % 2 = 0 THEN "U" ELSE "V", j \div width, (j % width) \div 2>>
        [] format = "YU12" /\ i >= size /\ i < size + size \div 4 ->
             Chroma(i, size, "U")
        [] format = "YU12" /\ i >= size + size \div 4 ->
             Chroma(i, size + size \div 4, "V")

FrameBytes == IF format = "YUYV" THEN 2 * width * height
                                 ELSE width * height + (width * height) \div 2

(* The samples pixel p has to be made of: in the planar formats two rows    *)
(* share their chroma.                                                      *)
Due(p) ==
  LET r == p \div width
      c == p % width
      s == IF format = "YUYV" THEN r ELSE r \div 2
  IN  <<<<"Y", r, c>>, <<"U", s, c \div 2>>, <<"V", s, c \div 2>>>>

(* The comment's "perfect" colour, in thousandths, cut to what a byte holds. *)
Perfect ==
  LET Cut(n) == IF n > 255000 THEN 255000 ELSE IF n < 0 THEN 0 ELSE n
      luma == 1164 * (y - 16)
  IN  <<Cut(luma + 1596 * (v - 128)),
        Cut(luma - 813 * (v - 128) - 391 * (u - 128)),
        Cut(luma + 2018 * (u - 128))>>

Near(a, b) == a - b <= 8000 /\ b - a <= 8000

(* Every pixel is made of its own luma and the chroma of its block, reads   *)
(* nothing beyond the frame, and in the planar formats has the colour the   *)
(* comment calls perfect, up to 8 of 255; no pixel is written beyond the    *)
(* frame buffer, and none is left out.                                      *)
ConvertsEveryPixel ==
  /\ \A p \in DOMAIN rgb :
       /\ p \in 0..width * height - 1
       /\ \A k \in 1..3 : /\ rgb[p].from[k] < FrameBytes
                          /\ Sample(rgb[p].from[k]) = Due(p)[k]
       /\ format # "YUYV" =>
            \A k \in 1..3 : Near(1000 * rgb[p].colour[k], Perfect[k])
  /\ Converted => DOMAIN rgb = 0..width * height - 1

(* The comments at NV122RGB and YU122RGB: "using the same coefficients as   *)
(* YUYV".  Does not hold: 26 and 32, and 13 and 6, have changed places.     *)
SameCoefficients == YuyvColour = PlanarColour
=============================================================================
