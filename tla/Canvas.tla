--------------------------------- MODULE Canvas ---------------------------------
(***************************************************************************)
(* The two pictures that are drawn into the streams, in RK_FMT_2BPP: four    *)
(* pixels to a byte, the first in the highest bits. The boxes of the         *)
(* detected objects (video.cpp: rectangle, refresh_detection_overlay) and    *)
(* the frame rate (fps_text.hpp: draw). A buffer is a function from          *)
(* addresses to bytes; some addresses on both sides are not the canvas's.    *)
(***************************************************************************)
EXTENDS Integers, Sequences, FiniteSetsExt

CONSTANTS
    Width, Height,   \* of the canvas, in pixels
    Objects,         \* what RockIVA reports, in 1/10000 of the picture
    MaxObjects,      \* bound on the boxes drawn in one round
    Ink,             \* character -> the dots <<x, y>> of its glyph
    Writings         \* sequences of characters

ASSUME CanvasAssumption ==
    /\ Width \in Nat \ {0} /\ Width % 4 = 0 /\ Height \in Nat \ {0}
    /\ MaxObjects \in Nat
    /\ \A o \in Objects : {o.left, o.top, o.right, o.bottom} \subseteq Int
    /\ \A c \in DOMAIN Ink : Ink[c] \subseteq (0..4) \X (0..6)
    /\ \A t \in Writings : DOMAIN t \subseteq Nat \ {0}

VARIABLES
    boxes,   \* canvas of the boxes
    drawn,   \* objects drawn in this round
    label,   \* canvas of the frame rate
    writing  \* what it was drawn from

canvasVars == <<boxes, drawn, label, writing>>

BytesPerRow == Width \div 4
Size == BytesPerRow * Height
Guard == 2 * BytesPerRow   \* addresses watched on either side
Addresses == -Guard..Size + Guard - 1
InCanvas(a) == a \in 0..Size - 1

Foreign == <<9, "foreign">>  \* a byte that belongs to somebody else
Cleared(buffer) == [a \in Addresses |-> IF InCanvas(a) THEN {} ELSE buffer[a]]

-----------------------------------------------------------------------------
(* The boxes. A byte is the set of its four pixels that are coloured, with   *)
(* their colour; a box only ever writes whole bytes.                        *)

Whole(color) == {<<pixel, color>> : pixel \in 0..3}

AlignDown(x) == x - (x % 4)
AlignUp(x) == AlignDown(x + 3)

WidthFrom(x, width) == Min({AlignUp(width), Width - x})
HeightFrom(y, height) == Min({height, Height - y})

Rectangle(buffer, x0, y0, width, height, color) ==
    LET x == Max({0, AlignDown(x0)})
        y == Max({0, y0})
        w == WidthFrom(x, width)
        h == HeightFrom(y, height)
        left == x \div 4
        right == (x + w) \div 4 - 1
        Line(row) == {(y + row) * BytesPerRow + col :
                        col \in IF row < 4 \/ row >= h - 4 THEN left..right ELSE {left, right}}
    IN  IF w < 8 \/ h < 8 THEN buffer
        ELSE LET written == UNION {Line(row) : row \in 0..h - 1}
             IN  [a \in Addresses |-> IF a \in written THEN Whole(color) ELSE buffer[a]]

Scaled(extent, share) == (extent * share) \div 10000

Draw(o) ==
    /\ Len(drawn) < MaxObjects
    /\ drawn' = Append(drawn, o)
    /\ boxes' = Rectangle(boxes, Scaled(Width, o.left), Scaled(Height, o.top),
                          Scaled(Width, o.right - o.left), Scaled(Height, o.bottom - o.top), o.color)
    /\ UNCHANGED <<label, writing>>

\* Mutant: the boxes of the last round stay.
NextRoundUncleared ==
    /\ drawn # <<>>
    /\ drawn' = <<>>
    /\ UNCHANGED <<boxes, label, writing>>

\* A new round begins with an empty canvas.
NextRound ==
    /\ drawn # <<>>
    /\ drawn' = <<>>
    /\ boxes' = Cleared(boxes)
    /\ UNCHANGED <<label, writing>>

-----------------------------------------------------------------------------
(* The frame rate: a dot of a glyph is two by two pixels. *)

Visible(row, col) == row < Height /\ col + 1 < Width

\* The pixels that the loops of draw() write, as <<address, pixel in the byte>>.
\* 0x0f << (4 - (col % 4) * 2) colours the pixel at col and the one after it.
Pixels(row, col) ==
    {<<row * BytesPerRow + col \div 4, (col % 4) + i>> : i \in 0..1}

\* A dot d of the glyph in row dy of its two: p = <<d, dy>>.
GlyphRow(p) == 4 + p[1][2] * 2 + p[2]
GlyphCol(place, p) == 4 + place * 12 + p[1][1] * 2

Glyph(place, c) ==
    UNION {Pixels(GlyphRow(p), GlyphCol(place, p)) :
            p \in {q \in Ink[c] \X (0..1) : Visible(GlyphRow(q), GlyphCol(place, q))}}

\* What draw() writes for a text into an empty canvas.
Lettering ==
    [t \in Writings |->
        LET ink == UNION {Glyph(k - 1, t[k]) :
                            k \in {i \in DOMAIN t : i - 1 < Width \div 12 /\ t[i] \in DOMAIN Ink}}
        IN  [a \in Addresses |-> {<<p[2], "white">> : p \in {q \in ink : q[1] = a}}]]

DrawText(t) ==
    /\ writing' = t
    /\ LET empty == Cleared(label)
       IN  label' = [a \in Addresses |-> empty[a] \cup Lettering[t][a]]
    /\ UNCHANGED <<boxes, drawn>>

-----------------------------------------------------------------------------

CanvasInit ==
    /\ boxes = [a \in Addresses |-> IF InCanvas(a) THEN {} ELSE {Foreign}]
    /\ label = boxes
    /\ drawn = <<>> /\ writing = <<>>

CanvasNext ==
    \/ \E o \in Objects : Draw(o)
    \/ NextRound
    \/ \E t \in Writings : DrawText(t)

CanvasSpec == CanvasInit /\ [][CanvasNext]_canvasVars

-----------------------------------------------------------------------------
(* Properties *)

\* Boxes at the edge of the picture and texts longer than the canvas never
\* write outside of it: rectangle() and draw() clip before they write, in
\* pixels, and write bytes.
StaysInCanvas ==
    \A a \in Addresses : ~InCanvas(a) => boxes[a] = {Foreign} /\ label[a] = {Foreign}

\* The pixels of a canvas that have a colour.
Coloured(buffer, c) ==
    UNION {{<<4 * (a % BytesPerRow) + p[1], a \div BytesPerRow>> : p \in {q \in buffer[a] : q[2] = c}} :
            a \in {b \in 0..Size - 1 : buffer[b] # {}}}

\* What a box is: the pixels within four of the border of the rectangle, cut
\* off at the picture's edge and widened to whole bytes.
Frame(o) ==
    LET x == AlignDown(Scaled(Width, o.left))
        y == Scaled(Height, o.top)
        Across == {px \in 0..Width - 1 : px >= x /\ px < x + AlignUp(Scaled(Width, o.right - o.left))}
        Down == {py \in 0..Height - 1 : py >= y /\ py < y + Scaled(Height, o.bottom - o.top)}
        Inner(range) == {k \in range : k - 4 \in range /\ k + 4 \in range}
    IN  IF Cardinality(Across) < 8 \/ Cardinality(Down) < 8 THEN {}
        ELSE (Across \X Down) \ (Inner(Across) \X Inner(Down))

\* Every pixel shows the last object whose box covers it, and nothing else:
\* the rows are drawn byte by byte, and neither wrap around nor leave gaps.
ShowsTheBoxes ==
    LET Shown(i) == Frame(drawn[i]) \ UNION {Frame(drawn[j]) : j \in i + 1..Len(drawn)}
    IN  \A c \in {o.color : o \in Objects} :
            Coloured(boxes, c) = UNION {Shown(i) : i \in {j \in DOMAIN drawn : drawn[j].color = c}}

\* The pixels that a text should colour: a dot is two by two, a character
\* twelve wide, and what lies outside of the picture is cut off.
Inked(t) ==
    LET shown == {k \in DOMAIN t : k <= Width \div 12 /\ t[k] \in DOMAIN Ink}
    IN  {p \in (0..Width - 1) \X (0..Height - 1) :
            \E k \in shown : /\ p[1] >= 4 + 12 * (k - 1) /\ p[2] >= 4
                             /\ <<(p[1] - 4 - 12 * (k - 1)) \div 2, (p[2] - 4) \div 2>> \in Ink[t[k]]}

\* Every pixel of the label is white exactly where a glyph has ink, whatever
\* was drawn before: characters are twelve pixels apart, which is a whole
\* number of bytes, and half a byte is written at a time.
ShowsTheText == Coloured(label, "white") = Inked(writing)

\* The pictures are the boxes and the text that were asked for, and no byte
\* beside them is touched.
DrawsWhatIsAsked == StaysInCanvas /\ ShowsTheBoxes /\ ShowsTheText
=============================================================================
