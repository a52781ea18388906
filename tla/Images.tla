------------------------------- MODULE Images -------------------------------
(***************************************************************************)
(* The image kernels of the programs: the grey value of a pixel, in C      *)
(* (camera.c) and in the custom instruction (rgb565GrayscaleIse.v), error  *)
(* diffusion (floyd_steinberg.c), one step per pixel, and edge detection   *)
(* (sobel.c).                                                              *)
(***************************************************************************)
EXTENDS Integers

CONSTANTS
    Width, Height,  \* of the pictures that are dithered
    EdWidth, EdHeight,  \* of those whose edges are detected
    Greys,          \* the grey values of the pixels
    Colours,        \* the values of a component of a pixel
    Limit,          \* the threshold of the edge detection
    MaxFrames       \* bound: pictures that are dithered with the same array

ASSUME ImagesAssumption ==
    /\ Width \in Nat \ {0} /\ Height \in Nat \ {0} /\ MaxFrames \in Nat
    /\ EdWidth \in Nat \ {0} /\ EdHeight \in Nat \ {0}
    /\ Greys \subseteq 0 .. 255 /\ Limit \in Nat

VARIABLES
    dtFrame, dtX, dtY,      \* the picture and its next pixel
    dtErrors,               \* error_array
    dtSum,                  \* the last value of error in threshold()
    dtOwner,                \* history: the pixel whose error an entry holds
    dtGiven,                \* history: the sixteenths of each pixel's error that were passed on
    edPicture, edEdges,     \* sobel: the picture and the result
    gyPixel, gyGrey         \* a pixel, and its grey values in C and in hardware

dtVars == <<dtFrame, dtX, dtY, dtErrors, dtSum, dtOwner, dtGiven>>
edVars == <<edPicture, edEdges>>
gyVars == <<gyPixel, gyGrey>>

Columns == 0 .. Width - 1
Lines == 0 .. Height - 1
Nobody == <<-1, -1>>

-----------------------------------------------------------------------------
(* Error diffusion.                                                        *)

\* Two lines of errors, with a cell more at both ends of each.
Cells == 0 .. 2 * (Width + 2) - 1

\* The cell of a column, counted from -1, for a line.
Cell(column, line) == column + 1 + (line % 2) * (Width + 2)

\* Floyd_Array: the cells that are read, above and to the left, with their weights.
UpLeft  == Cell(dtX - 1, dtY)
Up      == Cell(dtX, dtY)
UpRight == Cell(dtX + 1, dtY)
Left    == Cell(dtX - 1, dtY + 1)
OwnCell == Cell(dtX, dtY + 1)

\* Mutant: the error is not taken off a white pixel.
ErrorOfWhite(error) == error \div 16

\* The error that threshold() leaves, an int16_t that is shifted right.
ErrorOf(error) == (IF error > 128 * 16 THEN error - 255 * 16 ELSE error) \div 16

ErrorSum(grey) ==
    16 * grey + dtErrors[UpLeft] + 5 * dtErrors[Up] + 3 * dtErrors[UpRight] + 7 * dtErrors[Left]

\* The static array starts with zeros and is never cleared.
DtInit ==
    /\ dtFrame = 1 /\ dtX = 0 /\ dtY = 0 /\ dtSum = 0
    /\ dtErrors = [c \in Cells |-> 0]
    /\ dtOwner = [c \in Cells |-> Nobody]
    /\ dtGiven = [p \in Columns \X Lines |-> 0]

Share(cell, pixel, weight) == IF dtOwner[cell] = pixel THEN weight ELSE 0

\* threshold() for one pixel of floyd_steinberg().
threshold(grey) ==
    /\ dtFrame <= MaxFrames
    /\ dtSum' = ErrorSum(grey)
    /\ dtErrors' = [dtErrors EXCEPT ![OwnCell] = ErrorOf(ErrorSum(grey))]
    /\ dtOwner' = [dtOwner EXCEPT ![OwnCell] = <<dtX, dtY>>]
    /\ dtGiven' = [p \in Columns \X Lines |->
                    IF p = <<dtX, dtY>> THEN 0
                    ELSE dtGiven[p] + Share(UpLeft, p, 1) + Share(Up, p, 5)
                            + Share(UpRight, p, 3) + Share(Left, p, 7)]

\* The next pixel of the loops of floyd_steinberg().
Advance ==
    /\ dtX' = (dtX + 1) % Width
    /\ dtY' = IF dtX + 1 = Width THEN (dtY + 1) % Height ELSE dtY
    /\ dtFrame' = IF dtX + 1 = Width /\ dtY + 1 = Height THEN dtFrame + 1 ELSE dtFrame

DtPixel(grey) == threshold(grey) /\ Advance

DtNext == \E grey \in Greys : DtPixel(grey)
DtSpec == DtInit /\ [][DtNext]_dtVars

\* Every error stays between -127 and 128, and every sum fits into an int16_t,
\* whatever the pictures are: errors neither grow from line to line nor from
\* picture to picture.
ErrorsBounded ==
    /\ \A c \in Cells : dtErrors[c] \in -127 .. 128
    /\ dtSum \in -32768 .. 32767

\* The pixels that were computed after this one was computed last.
Index(x, y) == y * Width + x
ComputedSince(x, y) == (Index(dtX, dtY) - Index(x, y) - 1) % (Width * Height)
Computed(x, y) == dtFrame > 1 \/ Index(x, y) < Index(dtX, dtY)

\* In pictures with an even number of lines no error is passed on twice, and that
\* of a pixel that is not on the left or right border is passed on whole, sixteen
\* sixteenths: from the last line to the first of the next picture, whose array
\* nobody clears. (With an odd number the error of the first line is taken again.)
ErrorPassedOn ==
    Height % 2 = 0 =>
        /\ \A p \in Columns \X Lines : dtGiven[p] <= 16
        /\ \A x \in 1 .. Width - 2, y \in Lines :
            Computed(x, y) /\ ComputedSince(x, y) > Width => dtGiven[<<x, y>>] = 16

-----------------------------------------------------------------------------
(* Edge detection.                                                         *)

EdPlaces == (0 .. EdWidth - 1) \X (0 .. EdHeight - 1)

Absolute(n) == IF n < 0 THEN -n ELSE n

\* gx_array and gy_array, for the neighbour at dx, dy.
\* Mutant: one weight of the second matrix has lost its sign.
KernelsSign(dx, dy) ==
    << dx * (2 - Absolute(dy)), IF dx = 1 THEN 1 ELSE -dy * (2 - Absolute(dx)) >>

Kernels(dx, dy) == << dx * (2 - Absolute(dy)), -dy * (2 - Absolute(dx)) >>

Steps == {-1, 0, 1}
Around(picture, x, y, k) ==
    LET term(dx, dy) == picture[<<x + dx, y + dy>>] * Kernels(dx, dy)[k]
    IN  term(-1, -1) + term(0, -1) + term(1, -1) + term(-1, 0) + term(0, 0) + term(1, 0)
          + term(-1, 1) + term(0, 1) + term(1, 1)

\* The pixels on the border keep what was there.
edgeDetection(picture, result) ==
    [p \in EdPlaces |->
        IF p[1] \in 1 .. EdWidth - 2 /\ p[2] \in 1 .. EdHeight - 2
        THEN IF Absolute(Around(picture, p[1], p[2], 1)) + Absolute(Around(picture, p[1], p[2], 2))
                    > Limit THEN 255 ELSE 0
        ELSE result[p]]

NoEdges == [p \in EdPlaces |-> 0]

EdInit == edPicture = NoEdges /\ edEdges = NoEdges
EdDetect(picture) ==
    edPicture = NoEdges /\ edPicture' = picture /\ edEdges' = edgeDetection(picture, NoEdges)
EdNext == \E picture \in [EdPlaces -> Greys] : EdDetect(picture)

\* The edges of the picture mirrored, turned or inverted are the edges of the
\* picture mirrored, turned or inverted.
EdgesSymmetric ==
    edPicture # NoEdges => \A p \in EdPlaces :
        LET mirrored == [q \in EdPlaces |-> edPicture[<<EdWidth - 1 - q[1], q[2]>>]]
            inverted == [q \in EdPlaces |-> 255 - edPicture[q]]
            turned   == [q \in EdPlaces |-> edPicture[<<q[2], q[1]>>]]
        IN  /\ edgeDetection(mirrored, NoEdges)[p] = edEdges[<<EdWidth - 1 - p[1], p[2]>>]
            /\ edgeDetection(inverted, NoEdges)[p] = edEdges[p]
            /\ EdWidth = EdHeight => edgeDetection(turned, NoEdges)[p] = edEdges[<<p[2], p[1]>>]

-----------------------------------------------------------------------------
(* Grey values.                                                            *)

\* Of the halfword of a pixel: five bits of red, six of green, five of blue.
Rgb565(colour) == colour.red * 2 ^ 11 + colour.green * 2 ^ 5 + colour.blue

\* The loops in camera.c.
grey(rgb) ==
    LET red1   == ((rgb \div 2 ^ 11) % 2 ^ 5) * 2 ^ 3
        green1 == ((rgb \div 2 ^ 5) % 2 ^ 6) * 2 ^ 2
        blue1  == (rgb % 2 ^ 5) * 2 ^ 3
    IN  ((red1 * 54 + green1 * 183 + blue1 * 19) \div 2 ^ 8) % 2 ^ 8

\* The custom instruction: fields by bit selection, widened by zeros below.
rgb565GrayscaleIse(valueA) ==
    LET s_red   == (valueA \div 2 ^ 11) * 2 ^ 3 % 2 ^ 8
        s_green == (valueA \div 2 ^ 5) * 2 ^ 2 % 2 ^ 8
        s_blue  == valueA * 2 ^ 3 % 2 ^ 8
    IN  ((54 * s_red + 183 * s_green + 19 * s_blue) \div 2 ^ 8) % 2 ^ 8

GyInit == gyPixel = [red |-> 0, green |-> 0, blue |-> 0] /\ gyGrey = <<0, 0>>
GyPixel(colour) ==
    /\ gyPixel' = colour
    /\ gyGrey' = <<grey(Rgb565(colour)), rgb565GrayscaleIse(Rgb565(colour))>>
GyNext ==
    \E r, g, b \in Colours :
        g < 64 /\ r < 32 /\ b < 32 /\ GyPixel([red |-> r, green |-> g, blue |-> b])

\* The instruction computes what the loop computed that it replaces.
GreySame == gyGrey[1] = gyGrey[2]
=============================================================================
