------------------------------ MODULE Media_proofs ------------------------------
(***************************************************************************)
(* Proofs about what happens to the media data, for any of them: the          *)
(* pictures drawn into the streams (Canvas: no byte beside a canvas is        *)
(* written, the pixels show what was asked for), and the scan of the          *)
(* encoder's frames for parameter sets (AnnexB).                             *)
(***************************************************************************)
EXTENDS Canvas, AnnexB, FiniteSetTheorems, SequenceTheorems, TLAPS

-----------------------------------------------------------------------------
(* Numbers: extremes, rows and columns.                                     *)

LEMMA MinOfTwo ==
    ASSUME NEW a \in Int, NEW b \in Int
    PROVE  Min({a, b}) = IF a <= b THEN a ELSE b
<1>1. \E m \in {a, b} : \A x \in {a, b} : m <= x
  <2>1. CASE a <= b
    BY <2>1
  <2>2. CASE ~(a <= b)
    BY <2>2
  <2> QED BY <2>1, <2>2
<1>2. Min({a, b}) \in {a, b} /\ \A x \in {a, b} : Min({a, b}) <= x
  BY <1>1 DEF Min
<1> QED BY <1>2

LEMMA MaxOfTwo ==
    ASSUME NEW a \in Int, NEW b \in Int
    PROVE  Max({a, b}) = IF a >= b THEN a ELSE b
<1>1. \E m \in {a, b} : \A x \in {a, b} : m >= x
  <2>1. CASE a >= b
    BY <2>1
  <2>2. CASE ~(a >= b)
    BY <2>2
  <2> QED BY <2>1, <2>2
<1>2. Max({a, b}) \in {a, b} /\ \A x \in {a, b} : Max({a, b}) >= x
  BY <1>1 DEF Max
<1> QED BY <1>2

\* Multiplication keeps the order.
LEMMA TimesMonotone ==
    ASSUME NEW b \in Nat, NEW m \in Int, NEW k \in Int, m <= k
    PROVE  m * b <= k * b
<1>1. (k - m) * b >= 0
  OBVIOUS
<1>2. (k - m) * b = k * b - m * b
  OBVIOUS
<1>3. m * b \in Int /\ k * b \in Int
  OBVIOUS
<1> QED BY <1>1, <1>2, <1>3

\* The address of a column c in a row r of b bytes, within h rows.
LEMMA RowAndColumn ==
    ASSUME NEW b \in Nat \ {0}, NEW h \in Nat, NEW r \in 0..h - 1, NEW c \in 0..b - 1
    PROVE  /\ r * b + c \in 0..b * h - 1
           /\ (r * b + c) \div b = r /\ (r * b + c) % b = c
<1> PICK a : a = r * b + c
  OBVIOUS
<1>1. r * b \in Nat /\ a \in Nat
  BY TimesMonotone
<1>2. a < b * h
  <2>1. (r + 1) * b <= h * b
    BY TimesMonotone
  <2>2. (r + 1) * b = r * b + b /\ h * b = b * h
    OBVIOUS
  <2> QED BY <1>1, <2>1, <2>2
<1> PICK q, m : q = a \div b /\ m = a % b
  OBVIOUS
<1>3. q \in Int /\ m \in 0..b - 1 /\ a = q * b + m
  BY <1>1
<1>4. q = r
  <2>1. q * b \in Int
    BY <1>3
  <2>2. CASE q < r
    <3>1. (q + 1) * b <= r * b
      BY <1>3, <2>2, TimesMonotone
    <3>2. (q + 1) * b = q * b + b
      BY <1>3
    <3> QED BY <1>1, <1>3, <2>1, <3>1, <3>2
  <2>3. CASE r < q
    <3>1. (r + 1) * b <= q * b
      BY <1>3, <2>3, TimesMonotone
    <3>2. (r + 1) * b = r * b + b
      OBVIOUS
    <3> QED BY <1>1, <1>3, <2>1, <3>1, <3>2
  <2> QED BY <1>3, <2>2, <2>3
<1> QED BY <1>1, <1>2, <1>3, <1>4

\* Every address is that of one column in one row.
LEMMA AddressOf ==
    ASSUME NEW b \in Nat \ {0}, NEW h \in Nat, NEW a \in 0..b * h - 1
    PROVE  a \div b \in 0..h - 1 /\ a % b \in 0..b - 1 /\ a = (a \div b) * b + (a % b)
<1> PICK q, m : q = a \div b /\ m = a % b
  OBVIOUS
<1>1. q \in Int /\ m \in 0..b - 1 /\ a = q * b + m
  OBVIOUS
<1>2. q * b \in Int /\ b * h = h * b
  BY <1>1
<1>3. q >= 0
  <2> SUFFICES ASSUME q < 0 PROVE FALSE
    BY <1>1
  <2>1. q * b <= (-1) * b
    BY <1>1, TimesMonotone
  <2> QED BY <1>1, <1>2, <2>1
<1>4. q < h
  <2> SUFFICES ASSUME h <= q PROVE FALSE
    BY <1>1
  <2>1. h * b <= q * b
    BY <1>1, TimesMonotone
  <2> QED BY <1>1, <1>2, <2>1
<1> QED BY <1>1, <1>3, <1>4

-----------------------------------------------------------------------------
(* Pixels and bytes.                                                        *)

Picture == (0..Width - 1) \X (0..Height - 1)

\* The byte of a pixel.
ByteOf(p) == p[2] * BytesPerRow + p[1] \div 4

LEMMA RowsAreWhole ==
    /\ Width \in Nat \ {0} /\ Height \in Nat \ {0} /\ BytesPerRow \in Nat \ {0}
    /\ Width = 4 * BytesPerRow /\ Size \in Nat
<1>1. Width \in Nat \ {0} /\ Height \in Nat \ {0} /\ Width % 4 = 0
  BY CanvasAssumption
<1>2. BytesPerRow \in Nat \ {0} /\ Width = 4 * BytesPerRow
  BY <1>1 DEF BytesPerRow
<1> QED BY <1>1, <1>2 DEF Size

LEMMA ByteOfPixel ==
    ASSUME NEW p \in Picture
    PROVE  /\ p[1] \in 0..Width - 1 /\ p[2] \in 0..Height - 1
           /\ p[1] \div 4 \in 0..BytesPerRow - 1 /\ p[1] % 4 \in 0..3
           /\ p[1] = 4 * (p[1] \div 4) + (p[1] % 4)
           /\ ByteOf(p) \in 0..Size - 1
           /\ ByteOf(p) \div BytesPerRow = p[2] /\ ByteOf(p) % BytesPerRow = p[1] \div 4
<1>1. p[1] \in 0..Width - 1 /\ p[2] \in 0..Height - 1
  BY DEF Picture
<1>2. /\ p[1] \div 4 \in 0..BytesPerRow - 1 /\ p[1] % 4 \in 0..3
      /\ p[1] = 4 * (p[1] \div 4) + (p[1] % 4)
  BY <1>1, RowsAreWhole
<1>3. PICK r, c : r = p[2] /\ c = p[1] \div 4
  OBVIOUS
<1>4. /\ r * BytesPerRow + c \in 0..BytesPerRow * Height - 1
      /\ (r * BytesPerRow + c) \div BytesPerRow = r /\ (r * BytesPerRow + c) % BytesPerRow = c
  <2>1. /\ BytesPerRow \in Nat \ {0} /\ Height \in Nat
        /\ r \in 0..Height - 1 /\ c \in 0..BytesPerRow - 1
    BY <1>1, <1>2, <1>3, RowsAreWhole
  <2> QED BY <2>1, RowAndColumn
<1> QED BY <1>1, <1>2, <1>3, <1>4 DEF ByteOf, Size

\* The pixels with a colour, seen from the pixel instead of the byte, when every
\* byte of the canvas holds pixels of its own.
LEMMA ColouredPixels ==
    ASSUME NEW buffer, NEW c,
           \A a \in 0..Size - 1 : \A q \in buffer[a] :
              q[2] = c => q[1] \in 0..3 /\ q = <<q[1], c>>
    PROVE  Coloured(buffer, c) = {p \in Picture : <<p[1] % 4, c>> \in buffer[ByteOf(p)]}
<1>1. ASSUME NEW a \in 0..Size - 1, NEW q \in buffer[a], q[2] = c
      PROVE  LET p == <<4 * (a % BytesPerRow) + q[1], a \div BytesPerRow>>
             IN  p \in Picture /\ ByteOf(p) = a /\ p[1] % 4 = q[1] /\ <<q[1], c>> \in buffer[a]
  <2> PICK r, m, i : r = a \div BytesPerRow /\ m = a % BytesPerRow /\ i = q[1]
    OBVIOUS
  <2>1. /\ r \in 0..Height - 1 /\ m \in 0..BytesPerRow - 1
        /\ a = r * BytesPerRow + m
    BY RowsAreWhole, AddressOf DEF Size
  <2>2. i \in 0..3 /\ <<i, c>> \in buffer[a]
    BY <1>1
  <2>3. /\ 4 * m + i \in 0..Width - 1 /\ (4 * m + i) \div 4 = m /\ (4 * m + i) % 4 = i
    <3>1. m \in Nat /\ m <= BytesPerRow - 1 /\ Width = 4 * BytesPerRow /\ BytesPerRow \in Nat
      BY <2>1, RowsAreWhole
    <3>2. \A k \in Nat, j \in 0..3 : (4 * k + j) \div 4 = k /\ (4 * k + j) % 4 = j
      OBVIOUS
    <3> QED BY <2>2, <3>1, <3>2
  <2> QED BY <2>1, <2>2, <2>3 DEF Picture, ByteOf
<1>2. ASSUME NEW x \in Coloured(buffer, c)
      PROVE  x \in Picture /\ <<x[1] % 4, c>> \in buffer[ByteOf(x)]
  <2>1. PICK a \in 0..Size - 1 : \E q \in buffer[a] :
              q[2] = c /\ x = <<4 * (a % BytesPerRow) + q[1], a \div BytesPerRow>>
    BY DEF Coloured
  <2>2. PICK q \in buffer[a] :
              q[2] = c /\ x = <<4 * (a % BytesPerRow) + q[1], a \div BytesPerRow>>
    BY <2>1
  <2> QED BY <1>1, <2>2
<1>3. ASSUME NEW x \in Picture, <<x[1] % 4, c>> \in buffer[ByteOf(x)]
      PROVE  x \in Coloured(buffer, c)
  <2> PICK a, i : a = ByteOf(x) /\ i = x[1] % 4
    OBVIOUS
  <2>1. /\ a \in 0..Size - 1 /\ a \div BytesPerRow = x[2]
        /\ x[1] = 4 * (a % BytesPerRow) + i
    BY ByteOfPixel
  <2>2. x = <<4 * (a % BytesPerRow) + i, a \div BytesPerRow>>
    <3>1. x = <<x[1], x[2]>>
      BY DEF Picture
    <3> QED BY <2>1, <3>1, Zenon
  <2>3. <<i, c>> \in {q \in buffer[a] : q[2] = c} /\ <<i, c>>[1] = i
    BY <1>3
  <2>4. x \in {<<4 * (a % BytesPerRow) + q[1], a \div BytesPerRow>> :
                 q \in {q \in buffer[a] : q[2] = c}}
    BY <2>2, <2>3
  <2>5. a \in {b \in 0..Size - 1 : buffer[b] # {}}
    BY <2>1, <2>3
  <2> QED BY <2>4, <2>5 DEF Coloured
<1> QED BY <1>2, <1>3

-----------------------------------------------------------------------------
(* The boxes.                                                               *)

\* Where rectangle() draws an object, after clipping.
BoxX(o) == Max({0, AlignDown(Scaled(Width, o.left))})
BoxY(o) == Max({0, Scaled(Height, o.top)})
BoxW(o) == WidthFrom(BoxX(o), Scaled(Width, o.right - o.left))
BoxH(o) == HeightFrom(BoxY(o), Scaled(Height, o.bottom - o.top))

\* The byte in column c of row r is one that the box of o writes.
Written(o, r, c) ==
    /\ BoxW(o) >= 8 /\ BoxH(o) >= 8
    /\ r \in BoxY(o)..BoxY(o) + BoxH(o) - 1
    /\ c \in BoxX(o) \div 4..(BoxX(o) + BoxW(o)) \div 4 - 1
    /\ \/ r < BoxY(o) + 4 \/ r >= BoxY(o) + BoxH(o) - 4
       \/ c = BoxX(o) \div 4 \/ c = (BoxX(o) + BoxW(o)) \div 4 - 1

Covers(o) == {p[1] * BytesPerRow + p[2] : p \in {q \in Int \X Int : Written(o, q[1], q[2])}}

\* A box lies in the picture, whatever coordinates an object has, and begins
\* with a whole byte.
LEMMA BoxInPicture ==
    ASSUME NEW o \in Objects
    PROVE  /\ BoxX(o) \in Nat /\ BoxX(o) % 4 = 0 /\ BoxY(o) \in Nat
           /\ BoxW(o) \in Int /\ BoxW(o) % 4 = 0 /\ BoxH(o) \in Int
           /\ BoxX(o) + BoxW(o) <= Width /\ BoxY(o) + BoxH(o) <= Height
<1> PICK x0, y0, w0, h0 :
      /\ x0 = Scaled(Width, o.left) /\ w0 = Scaled(Width, o.right - o.left)
      /\ y0 = Scaled(Height, o.top) /\ h0 = Scaled(Height, o.bottom - o.top)
  OBVIOUS
<1>1. x0 \in Int /\ y0 \in Int /\ w0 \in Int /\ h0 \in Int
  <2>1. o.left \in Int /\ o.right \in Int /\ o.top \in Int /\ o.bottom \in Int
    BY CanvasAssumption
  <2>2. \A e \in Nat, m \in Int : Scaled(e, m) \in Int
    BY DEF Scaled
  <2> QED BY <2>1, <2>2, RowsAreWhole
<1>2. \A m \in Int : AlignDown(m) \in Int /\ AlignDown(m) % 4 = 0
  BY DEF AlignDown
<1>3. AlignDown(x0) \in Int /\ AlignUp(w0) \in Int /\ AlignUp(w0) % 4 = 0
  BY <1>1, <1>2 DEF AlignUp
<1>4. BoxX(o) \in Nat /\ BoxX(o) % 4 = 0 /\ BoxY(o) \in Nat
  <2>1. BoxX(o) = IF 0 >= AlignDown(x0) THEN 0 ELSE AlignDown(x0)
    BY <1>3, MaxOfTwo DEF BoxX
  <2>2. BoxY(o) = IF 0 >= y0 THEN 0 ELSE y0
    BY <1>1, MaxOfTwo DEF BoxY
  <2> QED BY <1>1, <1>2, <2>1, <2>2
<1>5. /\ BoxW(o) = IF AlignUp(w0) <= Width - BoxX(o) THEN AlignUp(w0) ELSE Width - BoxX(o)
      /\ BoxH(o) = IF h0 <= Height - BoxY(o) THEN h0 ELSE Height - BoxY(o)
  BY <1>1, <1>3, <1>4, RowsAreWhole, MinOfTwo DEF BoxW, BoxH, WidthFrom, HeightFrom
<1>6. (Width - BoxX(o)) % 4 = 0
  BY <1>4, RowsAreWhole
<1> QED BY <1>1, <1>3, <1>4, <1>5, <1>6, RowsAreWhole

\* What is written lies in the picture.
LEMMA WrittenInside ==
    ASSUME NEW o \in Objects, NEW r \in Int, NEW c \in Int, Written(o, r, c)
    PROVE  r \in 0..Height - 1 /\ c \in 0..BytesPerRow - 1
<1> PICK x, y, w, h : x = BoxX(o) /\ y = BoxY(o) /\ w = BoxW(o) /\ h = BoxH(o)
  OBVIOUS
<1>1. /\ x \in Nat /\ y \in Nat /\ w \in Int /\ h \in Int /\ w >= 8 /\ h >= 8
      /\ x + w <= Width /\ y + h <= Height
  BY BoxInPicture DEF Written
<1>2. r \in y..y + h - 1 /\ c \in x \div 4..(x + w) \div 4 - 1
  BY DEF Written
<1> QED BY <1>1, <1>2, RowsAreWhole

LEMMA CoversInside == \A o \in Objects : Covers(o) \subseteq 0..Size - 1
<1> SUFFICES ASSUME NEW o \in Objects, NEW p \in Int \X Int, Written(o, p[1], p[2])
             PROVE  p[1] * BytesPerRow + p[2] \in 0..Size - 1
  BY DEF Covers
<1>1. p[1] \in 0..Height - 1 /\ p[2] \in 0..BytesPerRow - 1
  BY WrittenInside
<1>2. p[1] * BytesPerRow + p[2] \in 0..BytesPerRow * Height - 1
  BY <1>1, RowsAreWhole, RowAndColumn
<1> QED BY <1>2 DEF Size

\* rectangle() colours the bytes of its box and leaves the others.
LEMMA RectangleWrites ==
    ASSUME NEW buffer, NEW o \in Objects, NEW a \in Addresses
    PROVE  Rectangle(buffer, Scaled(Width, o.left), Scaled(Height, o.top),
                     Scaled(Width, o.right - o.left), Scaled(Height, o.bottom - o.top),
                     o.color)[a]
             = IF a \in Covers(o) THEN Whole(o.color) ELSE buffer[a]
<1> DEFINE x == BoxX(o)
           y == BoxY(o)
           w == BoxW(o)
           h == BoxH(o)
           left == x \div 4
           right == (x + w) \div 4 - 1
           Line(row) == {(y + row) * BytesPerRow + col :
                           col \in IF row < 4 \/ row >= h - 4 THEN left..right ELSE {left, right}}
           written == UNION {Line(row) : row \in 0..h - 1}
           drawing == Rectangle(buffer, Scaled(Width, o.left), Scaled(Height, o.top),
                                Scaled(Width, o.right - o.left),
                                Scaled(Height, o.bottom - o.top), o.color)
<1>1. drawing = IF w < 8 \/ h < 8 THEN buffer
                ELSE [b \in Addresses |-> IF b \in written THEN Whole(o.color) ELSE buffer[b]]
  BY DEF Rectangle, BoxX, BoxY, BoxW, BoxH
<1> HIDE DEF drawing
<1>0. x = BoxX(o) /\ y = BoxY(o) /\ w = BoxW(o) /\ h = BoxH(o)
  OBVIOUS
<1> HIDE DEF x, y, w, h
<1>2. x \in Nat /\ y \in Nat /\ w \in Int /\ h \in Int
  BY <1>0, BoxInPicture
<1>3. CASE w < 8 \/ h < 8
  <2>1. Covers(o) = {}
    BY <1>0, <1>2, <1>3 DEF Covers, Written
  <2> QED BY <1>1, <1>3, <2>1 DEF drawing
<1>4. CASE ~(w < 8 \/ h < 8)
  <2>1. left \in Int /\ right \in Int /\ left <= right
    BY <1>2, <1>4
  <2>2. ASSUME NEW b \in written PROVE b \in Covers(o)
    <3>1. PICK row \in 0..h - 1 : b \in Line(row)
      OBVIOUS
    <3>2. PICK col \in IF row < 4 \/ row >= h - 4 THEN left..right ELSE {left, right} :
                b = (y + row) * BytesPerRow + col
      BY <3>1
    <3>3. Written(o, y + row, col) /\ <<y + row, col>> \in Int \X Int
      BY <1>0, <1>2, <1>4, <2>1, <3>2 DEF Written
    <3> PICK p : p = <<y + row, col>>
      OBVIOUS
    <3>4. p \in {q \in Int \X Int : Written(o, q[1], q[2])} /\ b = p[1] * BytesPerRow + p[2]
      BY <3>2, <3>3
    <3> QED BY <3>4 DEF Covers
  <2>3. ASSUME NEW b \in Covers(o) PROVE b \in written
    <3>1. PICK p \in Int \X Int : Written(o, p[1], p[2]) /\ b = p[1] * BytesPerRow + p[2]
      BY DEF Covers
    <3> PICK row, col : row = p[1] - y /\ col = p[2]
      OBVIOUS
    <3>2. row \in 0..h - 1 /\ p[1] = y + row /\ col \in Int
      BY <1>0, <1>2, <3>1 DEF Written
    <3>3. col \in IF row < 4 \/ row >= h - 4 THEN left..right ELSE {left, right}
      BY <1>0, <1>2, <2>1, <3>1, <3>2 DEF Written
    <3>4. b \in Line(row)
      BY <3>1, <3>2, <3>3
    <3> QED BY <3>2, <3>4
  <2> HIDE DEF written
  <2>4. drawing[a] = IF a \in written THEN Whole(o.color) ELSE buffer[a]
    BY <1>1, <1>4
  <2>5. a \in written <=> a \in Covers(o)
    BY <2>2, <2>3
  <2> QED BY <2>4, <2>5 DEF drawing
<1> QED BY <1>3, <1>4

\* A pixel is in the frame of an object exactly if its byte is in the box.
LEMMA CoversPixel ==
    ASSUME NEW o \in Objects, NEW p \in Picture
    PROVE  ByteOf(p) \in Covers(o) <=> Written(o, p[2], p[1] \div 4)
<1>1. p[2] \in 0..Height - 1 /\ p[1] \div 4 \in 0..BytesPerRow - 1
  BY ByteOfPixel
<1>2. ASSUME Written(o, p[2], p[1] \div 4) PROVE ByteOf(p) \in Covers(o)
  <2> PICK q : q = <<p[2], p[1] \div 4>>
    OBVIOUS
  <2>1. q \in {s \in Int \X Int : Written(o, s[1], s[2])}
    BY <1>1, <1>2
  <2>2. ByteOf(p) = q[1] * BytesPerRow + q[2]
    BY DEF ByteOf
  <2> QED BY <2>1, <2>2 DEF Covers
<1>3. ASSUME ByteOf(p) \in Covers(o) PROVE Written(o, p[2], p[1] \div 4)
  <2>1. PICK q \in Int \X Int : Written(o, q[1], q[2]) /\ ByteOf(p) = q[1] * BytesPerRow + q[2]
    BY <1>3 DEF Covers
  <2>2. q[1] \in 0..Height - 1 /\ q[2] \in 0..BytesPerRow - 1
    BY <2>1, WrittenInside
  <2>3. \A r \in 0..Height - 1, c \in 0..BytesPerRow - 1 :
           /\ (r * BytesPerRow + c) \div BytesPerRow = r
           /\ (r * BytesPerRow + c) % BytesPerRow = c
    <3>1. BytesPerRow \in Nat \ {0} /\ Height \in Nat
      BY RowsAreWhole
    <3> QED BY <3>1, RowAndColumn
  <2>4. ByteOf(p) \div BytesPerRow = p[2] /\ ByteOf(p) % BytesPerRow = p[1] \div 4
    BY ByteOfPixel
  <2>5. p[2] = q[1] /\ p[1] \div 4 = q[2]
    BY <2>1, <2>2, <2>3, <2>4, Zenon
  <2> QED BY <2>1, <2>5
<1> QED BY <1>2, <1>3

\* The part of a stretch that lies in the picture.
LEMMA Stretch ==
    ASSUME NEW extent \in Nat, NEW lo \in Nat, NEW len \in Int, NEW S,
           \A n : n \in S <=> n \in 0..extent - 1 /\ n >= lo /\ n < lo + len,
           NEW cut, cut = Min({len, extent - lo})
    PROVE  S = lo..lo + cut - 1 /\ (Cardinality(S) < 8 <=> cut < 8)
<1>1. cut = IF len <= extent - lo THEN len ELSE extent - lo
  BY MinOfTwo
<1>2. cut \in Int /\ S = lo..lo + cut - 1
  <2>1. cut \in Int
    BY <1>1
  <2>2. \A n : n \in S <=> n \in lo..lo + cut - 1
    BY <1>1, <2>1
  <2> QED BY <2>1, <2>2
<1>3. \A hi \in Int : Cardinality(lo..hi) = IF lo > hi THEN 0 ELSE hi - lo + 1
  BY FS_Interval
<1>4. Cardinality(S) = IF lo > lo + cut - 1 THEN 0 ELSE lo + cut - 1 - lo + 1
  BY <1>2, <1>3
<1> QED BY <1>2, <1>4

\* The bytes of a box hold the pixels of the frame and no others.
LEMMA WrittenIsFrame ==
    ASSUME NEW o \in Objects, o.left >= 0, o.top >= 0, NEW p \in Picture
    PROVE  Written(o, p[2], p[1] \div 4) <=> p \in Frame(o)
<1> DEFINE x == AlignDown(Scaled(Width, o.left))
           y == Scaled(Height, o.top)
           wide == AlignUp(Scaled(Width, o.right - o.left))
           high == Scaled(Height, o.bottom - o.top)
           Across == {px \in 0..Width - 1 : px >= x /\ px < x + wide}
           Down == {py \in 0..Height - 1 : py >= y /\ py < y + high}
           Inner(range) == {n \in range : n - 4 \in range /\ n + 4 \in range}
<1>1. Frame(o) = IF Cardinality(Across) < 8 \/ Cardinality(Down) < 8 THEN {}
                 ELSE (Across \X Down) \ (Inner(Across) \X Inner(Down))
  BY DEF Frame
<1>2. x \in Nat /\ y \in Nat /\ wide \in Int /\ high \in Int
  <2>1. o.left \in Nat /\ o.right \in Int /\ o.top \in Nat /\ o.bottom \in Int
    BY CanvasAssumption
  <2>2. \A e \in Nat, m \in Int : Scaled(e, m) \in Int
    BY DEF Scaled
  <2>3. \A e \in Nat, m \in Nat : Scaled(e, m) \in Nat
    <3> SUFFICES ASSUME NEW e \in Nat, NEW m \in Nat PROVE (e * m) \div 10000 \in Nat
      BY DEF Scaled
    <3>1. e * m \in Nat
      OBVIOUS
    <3> QED BY <3>1
  <2>4. \A m \in Int : AlignDown(m) \in Int
    BY DEF AlignDown
  <2>5. \A m \in Nat : AlignDown(m) \in Nat
    BY DEF AlignDown
  <2>6. \A m \in Int : AlignUp(m) \in Int
    BY <2>4 DEF AlignUp
  <2>7. Scaled(Width, o.left) \in Nat /\ Scaled(Width, o.right - o.left) \in Int
    <3>1. Width \in Nat /\ o.right - o.left \in Int
      BY <2>1, RowsAreWhole
    <3> QED BY <2>1, <2>2, <2>3, <3>1
  <2>8. Scaled(Height, o.top) \in Nat /\ Scaled(Height, o.bottom - o.top) \in Int
    <3>1. Height \in Nat /\ o.bottom - o.top \in Int
      BY <2>1, RowsAreWhole
    <3> QED BY <2>1, <2>2, <2>3, <3>1
  <2> QED BY <2>5, <2>6, <2>7, <2>8
<1>3. BoxX(o) = x /\ BoxY(o) = y
  <2>1. \A m \in Nat : Max({0, m}) = m
    BY MaxOfTwo
  <2> QED BY <1>2, <2>1 DEF BoxX, BoxY
<1>4. BoxW(o) = Min({wide, Width - x}) /\ BoxH(o) = Min({high, Height - y})
  BY <1>3 DEF BoxW, BoxH, WidthFrom, HeightFrom
<1> HIDE DEF x, y, wide, high
<1> PICK w, h : w = BoxW(o) /\ h = BoxH(o)
  OBVIOUS
<1>5. /\ w \in Int /\ h \in Int /\ x % 4 = 0 /\ w % 4 = 0
  BY <1>3, BoxInPicture
<1>6. Across = x..x + w - 1 /\ (Cardinality(Across) < 8 <=> w < 8)
  <2>1. Width \in Nat /\ w = Min({wide, Width - x})
    BY <1>4, RowsAreWhole
  <2>2. \A n : n \in Across <=> n \in 0..Width - 1 /\ n >= x /\ n < x + wide
    OBVIOUS
  <2> HIDE DEF Across
  <2> QED BY <1>2, <2>1, <2>2, Stretch
<1>7. Down = y..y + h - 1 /\ (Cardinality(Down) < 8 <=> h < 8)
  <2>1. Height \in Nat /\ h = Min({high, Height - y})
    BY <1>4, RowsAreWhole
  <2>2. \A n : n \in Down <=> n \in 0..Height - 1 /\ n >= y /\ n < y + high
    OBVIOUS
  <2> HIDE DEF Down
  <2> QED BY <1>2, <2>1, <2>2, Stretch
<1>8. PICK X \in Int, Y \in Int, c \in Int : p = <<X, Y>> /\ c = p[1] \div 4
  BY ByteOfPixel, RowsAreWhole DEF Picture
<1>9. X \in 0..Width - 1 /\ Y \in 0..Height - 1 /\ 4 * c <= X /\ X < 4 * c + 4
  BY <1>8, ByteOfPixel, RowsAreWhole
<1> HIDE DEF Across, Down, Inner
<1> SUFFICES Written(o, Y, c) <=> <<X, Y>> \in Frame(o)
  BY <1>8
<1>10. CASE w < 8 \/ h < 8
  <2>1. Frame(o) = {}
    BY <1>1, <1>6, <1>7, <1>10
  <2>2. ~Written(o, Y, c)
    BY <1>5, <1>10 DEF Written
  <2> QED BY <2>1, <2>2
<1>11. CASE w >= 8 /\ h >= 8
  <2>1. <<X, Y>> \in Frame(o) <=> /\ X \in Across /\ Y \in Down
                                  /\ ~(X \in Inner(Across) /\ Y \in Inner(Down))
    BY <1>1, <1>5, <1>6, <1>7, <1>11
  <2>2. PICK k, m \in Int : x = 4 * k /\ w = 4 * m
    <3>1. x \div 4 \in Int /\ w \div 4 \in Int /\ x = 4 * (x \div 4) /\ w = 4 * (w \div 4)
      BY <1>2, <1>5
    <3> QED BY <3>1
  <2>3. x \div 4 = k /\ (x + w) \div 4 - 1 = k + m - 1
    BY <2>2
  <2>4. /\ \A n \in Int : n \in Across <=> x <= n /\ n <= x + w - 1
        /\ \A n \in Int : n \in Down <=> y <= n /\ n <= y + h - 1
    BY <1>2, <1>5, <1>6, <1>7
  <2>5. /\ X \in Inner(Across) <=> X \in Across /\ X - 4 \in Across /\ X + 4 \in Across
        /\ Y \in Inner(Down) <=> Y \in Down /\ Y - 4 \in Down /\ Y + 4 \in Down
    BY DEF Inner
  <2>6. X - 4 \in Int /\ X + 4 \in Int /\ Y - 4 \in Int /\ Y + 4 \in Int
    OBVIOUS
  <2>7. X \in Across <=> k <= c /\ c <= k + m - 1
    BY <1>9, <2>2, <2>4
  <2>8. X \in Inner(Across) <=> k + 1 <= c /\ c <= k + m - 2
    <3>1. X \in Inner(Across) <=> x <= X - 4 /\ X + 4 <= x + w - 1
      BY <1>2, <1>5, <2>4, <2>5, <2>6
    <3> QED BY <1>9, <2>2, <3>1
  <2>9. Y \in Inner(Down) <=> y <= Y - 4 /\ Y + 4 <= y + h - 1
    BY <1>2, <1>5, <2>4, <2>5, <2>6
  <2>10. Written(o, Y, c) <=> /\ y <= Y /\ Y <= y + h - 1 /\ k <= c /\ c <= k + m - 1
                              /\ \/ Y < y + 4 \/ Y >= y + h - 4
                                 \/ c = k \/ c = k + m - 1
    <3>1. /\ BoxX(o) \div 4 = k /\ (BoxX(o) + BoxW(o)) \div 4 - 1 = k + m - 1
          /\ BoxY(o) = y /\ BoxH(o) = h /\ BoxW(o) = w
      BY <1>3, <2>3
    <3>2. k + m - 1 \in Int /\ y + h - 1 \in Int
      BY <1>2, <1>5
    <3>3. Written(o, Y, c) <=> /\ Y \in y..y + h - 1 /\ c \in k..k + m - 1
                               /\ \/ Y < y + 4 \/ Y >= y + h - 4
                                  \/ c = k \/ c = k + m - 1
      BY <1>11, <3>1, Zenon DEF Written
    <3> QED BY <1>2, <1>5, <3>2, <3>3
  <2>11. Y \in Down <=> y <= Y /\ Y <= y + h - 1
    BY <2>4
  <2> QED BY <1>2, <1>5, <2>1, <2>7, <2>8, <2>9, <2>10, <2>11
<1> QED BY <1>5, <1>10, <1>11

\* The frame of an object lies in the picture.
LEMMA FrameInPicture == \A o : Frame(o) \subseteq Picture
BY DEF Frame, Picture

-----------------------------------------------------------------------------
(* The frame rate.                                                          *)

\* What the loops of draw() write for a text.
InkOf(t) ==
    UNION {Glyph(n - 1, t[n]) :
             n \in {i \in DOMAIN t : i - 1 < Width \div 12 /\ t[i] \in DOMAIN Ink}}

\* Half a byte holds both pixels of a dot, as its first column is even.
LEMMA Halves ==
    ASSUME NEW e \in Int, NEW i \in 0..1
    PROVE  (2 * e + i) \div 4 = (2 * e) \div 4 /\ (2 * e + i) % 4 = ((2 * e) % 4) + i
OBVIOUS

\* Whatever is written belongs to a pixel that the text inks.
LEMMA InkIsAsked ==
    ASSUME NEW t \in Writings, NEW q \in InkOf(t)
    PROVE  \E p \in Inked(t) : q = <<ByteOf(p), p[1] % 4>>
<1>1. PICK n \in DOMAIN t : n - 1 < Width \div 12 /\ t[n] \in DOMAIN Ink /\ q \in Glyph(n - 1, t[n])
  BY DEF InkOf
<1>2. n \in Nat \ {0} /\ n <= Width \div 12
  BY <1>1, CanvasAssumption, RowsAreWhole
<1>3. PICK g \in Ink[t[n]] \X (0..1) :
        /\ Visible(GlyphRow(g), GlyphCol(n - 1, g))
        /\ q \in Pixels(GlyphRow(g), GlyphCol(n - 1, g))
  BY <1>1 DEF Glyph
<1>4. PICK i \in 0..1 :
        q = <<GlyphRow(g) * BytesPerRow + GlyphCol(n - 1, g) \div 4, (GlyphCol(n - 1, g) % 4) + i>>
  BY <1>3 DEF Pixels
<1>5. PICK dx \in 0..4, dy \in 0..6, k \in 0..1 : g = <<<<dx, dy>>, k>> /\ <<dx, dy>> \in Ink[t[n]]
  <2>1. Ink[t[n]] \subseteq (0..4) \X (0..6)
    BY <1>1, CanvasAssumption
  <2>2. PICK d \in Ink[t[n]], k \in 0..1 : g = <<d, k>>
    OBVIOUS
  <2>3. PICK dx \in 0..4, dy \in 0..6 : d = <<dx, dy>>
    BY <2>1
  <2> QED BY <2>2, <2>3
<1>6. PICK row \in Int, e \in Int :
        /\ row = GlyphRow(g) /\ 2 * e = GlyphCol(n - 1, g)
        /\ row = 4 + 2 * dy + k /\ e = 2 + 6 * (n - 1) + dx
  <2>1. GlyphRow(g) = 4 + 2 * dy + k /\ GlyphCol(n - 1, g) = 4 + (n - 1) * 12 + dx * 2
    BY <1>5 DEF GlyphRow, GlyphCol
  <2>2. 4 + 2 * dy + k \in Int /\ 2 + 6 * (n - 1) + dx \in Int
        /\ 2 * (2 + 6 * (n - 1) + dx) = 4 + (n - 1) * 12 + dx * 2
    BY <1>2
  <2> QED BY <2>1, <2>2
<1>7. row \in 0..Height - 1 /\ 2 * e + i \in 0..Width - 1
  BY <1>2, <1>3, <1>6, RowsAreWhole DEF Visible
<1>8. q = <<row * BytesPerRow + (2 * e + i) \div 4, (2 * e + i) % 4>>
  BY <1>4, <1>6, Halves
<1> PICK p : p = <<2 * e + i, row>>
  OBVIOUS
<1>9. p \in Picture /\ q = <<ByteOf(p), p[1] % 4>>
  BY <1>7, <1>8 DEF Picture, ByteOf
<1>10. /\ 2 * e + i >= 4 + 12 * (n - 1) /\ row >= 4
       /\ (2 * e + i - 4 - 12 * (n - 1)) \div 2 = dx /\ (row - 4) \div 2 = dy
  <2>1. e = 2 + 6 * (n - 1) + dx /\ row = 4 + 2 * dy + k
    BY <1>6
  <2>2. n \in Int /\ dx \in Nat /\ dy \in Nat
    BY <1>2
  <2>3. 2 * e + i - 4 - 12 * (n - 1) = 2 * dx + i /\ row - 4 = 2 * dy + k
    BY <2>1, <2>2
  <2>4. (2 * dx + i) \div 2 = dx /\ (2 * dy + k) \div 2 = dy
    OBVIOUS
  <2>5. 2 * e + i >= 4 + 12 * (n - 1) /\ row >= 4
    BY <2>1, <2>2
  <2> QED BY <2>3, <2>4, <2>5, Zenon
<1>11. p \in Inked(t)
  BY <1>1, <1>2, <1>5, <1>9, <1>10 DEF Inked, Picture
<1> QED BY <1>9, <1>11

\* Every pixel that the text inks is written.
LEMMA AskedIsInk ==
    ASSUME NEW t \in Writings, NEW p \in Inked(t)
    PROVE  <<ByteOf(p), p[1] % 4>> \in InkOf(t)
<1>1. p \in Picture
  BY DEF Inked, Picture
<1>2. PICK n \in DOMAIN t :
        /\ n <= Width \div 12 /\ t[n] \in DOMAIN Ink
        /\ p[1] >= 4 + 12 * (n - 1) /\ p[2] >= 4
        /\ <<(p[1] - 4 - 12 * (n - 1)) \div 2, (p[2] - 4) \div 2>> \in Ink[t[n]]
  BY DEF Inked
<1>3. n \in Nat \ {0} /\ n - 1 < Width \div 12
  BY <1>2, CanvasAssumption, RowsAreWhole
<1>4. PICK x \in Int, y \in Int : p[1] = x /\ p[2] = y /\ p = <<x, y>>
  BY <1>1, RowsAreWhole DEF Picture
<1>5. PICK dx \in Int, dy \in Int, i \in 0..1, k \in 0..1 :
        /\ x = 4 + 12 * (n - 1) + 2 * dx + i /\ y = 4 + 2 * dy + k
        /\ <<dx, dy>> \in Ink[t[n]]
  <2> DEFINE u == x - 4 - 12 * (n - 1)
             v == y - 4
  <2>1. <<u \div 2, v \div 2>> \in Ink[t[n]]
    BY <1>2, <1>4, Zenon
  <2>2. u \in Int /\ v \in Int /\ x = 4 + 12 * (n - 1) + u /\ y = 4 + v
    BY <1>3
  <2> HIDE DEF u, v
  <2>3. /\ u = 2 * (u \div 2) + (u % 2) /\ v = 2 * (v \div 2) + (v % 2)
        /\ u \div 2 \in Int /\ v \div 2 \in Int /\ u % 2 \in 0..1 /\ v % 2 \in 0..1
    <3>1. \A m \in Int : /\ m = 2 * (m \div 2) + (m % 2)
                          /\ m \div 2 \in Int /\ m % 2 \in 0..1
      OBVIOUS
    <3> QED BY <2>2, <3>1
  <2>4. PICK dx \in Int, dy \in Int, i \in 0..1, k \in 0..1 :
          dx = u \div 2 /\ dy = v \div 2 /\ i = u % 2 /\ k = v % 2
    BY <2>3
  <2>5. <<dx, dy>> \in Ink[t[n]]
    BY <2>1, <2>4, Zenon
  <2>6. u = 2 * dx + i /\ v = 2 * dy + k
    BY <2>3, <2>4, Zenon
  <2>7. x = 4 + 12 * (n - 1) + 2 * dx + i /\ y = 4 + 2 * dy + k
    BY <1>3, <2>2, <2>6
  <2> QED BY <2>5, <2>7
<1> PICK g, e : g = <<<<dx, dy>>, k>> /\ e = 2 + 6 * (n - 1) + dx
  OBVIOUS
<1>6. e \in Int /\ x = 2 * e + i
  BY <1>3, <1>5
<1>7. GlyphRow(g) = y /\ GlyphCol(n - 1, g) = 2 * e
  BY <1>3, <1>5 DEF GlyphRow, GlyphCol
<1>8. Visible(y, 2 * e)
  <2>1. x \in 0..Width - 1 /\ y \in 0..Height - 1
    BY <1>1, <1>4 DEF Picture
  <2> QED BY <1>6, <2>1, RowsAreWhole DEF Visible
<1>9. <<ByteOf(p), p[1] % 4>> = <<y * BytesPerRow + (2 * e) \div 4, ((2 * e) % 4) + i>>
  <2>1. ByteOf(p) = y * BytesPerRow + x \div 4 /\ p[1] % 4 = x % 4
    BY <1>4 DEF ByteOf
  <2>2. x \div 4 = (2 * e) \div 4 /\ x % 4 = ((2 * e) % 4) + i
    BY <1>6, Halves
  <2> QED BY <2>1, <2>2, Zenon
<1>10. <<ByteOf(p), p[1] % 4>> \in Pixels(y, 2 * e)
  BY <1>9 DEF Pixels
<1>11. g \in Ink[t[n]] \X (0..1)
  BY <1>5
<1>12. <<ByteOf(p), p[1] % 4>> \in Glyph(n - 1, t[n])
  BY <1>7, <1>8, <1>10, <1>11 DEF Glyph
<1> QED BY <1>2, <1>3, <1>12 DEF InkOf

-----------------------------------------------------------------------------
(* The invariant.                                                           *)

\* The byte shows the last object whose box covers it, if there is one.
Topmost(a) ==
    \/ boxes[a] = {} /\ \A i \in DOMAIN drawn : a \notin Covers(drawn[i])
    \/ \E i \in DOMAIN drawn :
          /\ a \in Covers(drawn[i]) /\ boxes[a] = Whole(drawn[i].color)
          /\ \A j \in i + 1..Len(drawn) : a \notin Covers(drawn[j])

\* The byte shows the ink of the text, if one was drawn.
Lettered(a) ==
    \/ label[a] = {} /\ writing = <<>>
    \/ writing \in Writings /\ label[a] = {<<q[2], "white">> : q \in {q \in InkOf(writing) : q[1] = a}}

\* Every byte of a canvas is accounted for, and those beside it are untouched.
CanvasInv ==
    /\ drawn \in Seq(Objects)
    /\ StaysInCanvas
    /\ \A a \in 0..Size - 1 : Topmost(a) /\ Lettered(a)

LEMMA CanvasInAddresses == \A a \in 0..Size - 1 : a \in Addresses /\ InCanvas(a)
<1>1. Guard \in Nat /\ Size \in Nat
  BY RowsAreWhole DEF Guard
<1> QED BY <1>1 DEF Addresses, InCanvas

LEMMA CanvasStarts == CanvasInit => CanvasInv
<1> SUFFICES ASSUME CanvasInit PROVE CanvasInv
  OBVIOUS
<1>1. drawn \in Seq(Objects) /\ drawn = <<>> /\ writing = <<>> /\ label = boxes
  BY DEF CanvasInit
<1>2. \A a \in Addresses : boxes[a] = IF InCanvas(a) THEN {} ELSE {Foreign}
  BY DEF CanvasInit
<1>3. StaysInCanvas
  BY <1>1, <1>2 DEF StaysInCanvas
<1>4. ASSUME NEW a \in 0..Size - 1 PROVE Topmost(a) /\ Lettered(a)
  <2>1. boxes[a] = {} /\ label[a] = {}
    BY <1>1, <1>2, CanvasInAddresses
  <2>2. DOMAIN drawn = {}
    BY <1>1
  <2> QED BY <1>1, <2>1, <2>2 DEF Topmost, Lettered
<1> QED BY <1>1, <1>3, <1>4 DEF CanvasInv

\* A box over those that were drawn before.
LEMMA DrawStep ==
    ASSUME CanvasInv, NEW o \in Objects, Draw(o)
    PROVE  CanvasInv'
<1>1. drawn' = Append(drawn, o) /\ UNCHANGED <<label, writing>>
  BY DEF Draw
<1>2. \A a \in Addresses : boxes'[a] = IF a \in Covers(o) THEN Whole(o.color) ELSE boxes[a]
  BY RectangleWrites DEF Draw
<1> PICK m : m = Len(drawn)
  OBVIOUS
<1>3. /\ drawn' \in Seq(Objects) /\ m \in Nat
      /\ DOMAIN drawn = 1..m /\ DOMAIN drawn' = 1..m + 1 /\ Len(drawn') = m + 1
      /\ drawn'[m + 1] = o /\ \A i \in 1..m : drawn'[i] = drawn[i]
  BY <1>1 DEF CanvasInv
<1>4. StaysInCanvas'
  <2>1. \A a \in Covers(o) : InCanvas(a)
    BY CoversInside DEF InCanvas
  <2>2. StaysInCanvas
    BY DEF CanvasInv
  <2> QED BY <1>1, <1>2, <2>1, <2>2 DEF StaysInCanvas, InCanvas
<1>5. ASSUME NEW a \in 0..Size - 1 PROVE Topmost(a)'
  <2>1. Topmost(a) /\ a \in Addresses
    BY CanvasInAddresses DEF CanvasInv
  <2>2. CASE a \in Covers(o)
    <3>1. boxes'[a] = Whole(drawn'[m + 1].color) /\ a \in Covers(drawn'[m + 1])
      BY <1>2, <1>3, <2>1, <2>2
    <3>2. (m + 1) + 1..Len(drawn') = {} /\ m + 1 \in DOMAIN drawn'
      BY <1>3
    <3> QED BY <3>1, <3>2 DEF Topmost
  <2>3. CASE a \notin Covers(o) /\ \E i \in DOMAIN drawn :
               /\ a \in Covers(drawn[i]) /\ boxes[a] = Whole(drawn[i].color)
               /\ \A j \in i + 1..Len(drawn) : a \notin Covers(drawn[j])
    <3>1. PICK i \in 1..m :
               /\ a \in Covers(drawn[i]) /\ boxes[a] = Whole(drawn[i].color)
               /\ \A j \in i + 1..m : a \notin Covers(drawn[j])
      BY <1>3, <2>3
    <3>2. i \in DOMAIN drawn' /\ a \in Covers(drawn'[i]) /\ boxes'[a] = Whole(drawn'[i].color)
      BY <1>2, <1>3, <2>1, <2>3, <3>1
    <3>3. \A j \in i + 1..Len(drawn') : a \notin Covers(drawn'[j])
      <4> SUFFICES ASSUME NEW j \in i + 1..m + 1 PROVE a \notin Covers(drawn'[j])
        BY <1>3
      <4>1. CASE j = m + 1
        BY <1>3, <2>3, <4>1
      <4>2. CASE j \in i + 1..m
        BY <1>3, <3>1, <4>2
      <4> QED BY <1>3, <4>1, <4>2
    <3> QED BY <3>2, <3>3 DEF Topmost
  <2>4. CASE a \notin Covers(o) /\ boxes[a] = {} /\ \A i \in DOMAIN drawn : a \notin Covers(drawn[i])
    <3>1. boxes'[a] = {}
      BY <1>2, <2>1, <2>4
    <3>2. ASSUME NEW i \in DOMAIN drawn' PROVE a \notin Covers(drawn'[i])
      BY <1>3, <2>4
    <3> QED BY <3>1, <3>2 DEF Topmost
  <2> QED BY <2>1, <2>2, <2>3, <2>4 DEF Topmost
<1>6. \A a \in 0..Size - 1 : Lettered(a)'
  BY <1>1 DEF CanvasInv, Lettered
<1> QED BY <1>3, <1>4, <1>5, <1>6 DEF CanvasInv, Size, BytesPerRow

\* A new round.
LEMMA RoundStep ==
    ASSUME CanvasInv, NextRound
    PROVE  CanvasInv'
<1>1. drawn' = <<>> /\ UNCHANGED <<label, writing>>
  BY DEF NextRound
<1>2. \A a \in Addresses : boxes'[a] = IF InCanvas(a) THEN {} ELSE boxes[a]
  BY DEF NextRound, Cleared
<1>3. StaysInCanvas'
  BY <1>1, <1>2 DEF CanvasInv, StaysInCanvas, InCanvas
<1>4. ASSUME NEW a \in 0..Size - 1 PROVE Topmost(a)' /\ Lettered(a)'
  <2>1. boxes'[a] = {} /\ DOMAIN drawn' = {}
    BY <1>1, <1>2, CanvasInAddresses
  <2>2. Lettered(a)
    BY DEF CanvasInv
  <2> QED BY <1>1, <2>1, <2>2 DEF Topmost, Lettered
<1> QED BY <1>1, <1>3, <1>4 DEF CanvasInv, Size, BytesPerRow

\* A new text; what it writes lies in the canvas.
LEMMA TextStep ==
    ASSUME CanvasInv, NEW t \in Writings, DrawText(t)
    PROVE  CanvasInv'
<1>1. writing' = t /\ UNCHANGED <<boxes, drawn>>
  BY DEF DrawText
<1>2. \A a \in Addresses :
         Lettering[t][a] = {<<q[2], "white">> : q \in {q \in InkOf(t) : q[1] = a}}
  BY DEF Lettering, InkOf
<1>3. \A a \in Addresses : label'[a] = (IF InCanvas(a) THEN {} ELSE label[a]) \cup Lettering[t][a]
  BY DEF DrawText, Cleared
<1>4. \A q \in InkOf(t) : InCanvas(q[1])
  <2> SUFFICES ASSUME NEW q \in InkOf(t) PROVE q[1] \in 0..Size - 1
    BY DEF InCanvas
  <2>1. PICK p \in Inked(t) : q = <<ByteOf(p), p[1] % 4>>
    BY InkIsAsked
  <2>2. p \in Picture
    BY DEF Inked, Picture
  <2> QED BY <2>1, <2>2, ByteOfPixel
<1>5. StaysInCanvas'
  <2> SUFFICES ASSUME NEW a \in Addresses, ~InCanvas(a)
               PROVE  boxes'[a] = {Foreign} /\ label'[a] = {Foreign}
    BY DEF StaysInCanvas, Addresses, Guard, Size, BytesPerRow, InCanvas
  <2>1. boxes[a] = {Foreign} /\ label[a] = {Foreign}
    BY DEF CanvasInv, StaysInCanvas
  <2>2. Lettering[t][a] = {}
    BY <1>2, <1>4
  <2> QED BY <1>1, <1>3, <2>1, <2>2
<1>6. ASSUME NEW a \in 0..Size - 1 PROVE Topmost(a)' /\ Lettered(a)'
  <2>1. label'[a] = {<<q[2], "white">> : q \in {q \in InkOf(t) : q[1] = a}}
    BY <1>2, <1>3, CanvasInAddresses
  <2>2. Lettered(a)'
    BY <1>1, <2>1 DEF Lettered
  <2>3. Topmost(a)
    BY DEF CanvasInv
  <2> QED BY <1>1, <2>2, <2>3 DEF Topmost
<1> QED BY <1>1, <1>5, <1>6 DEF CanvasInv, Size, BytesPerRow

\* For any size of the picture, any coordinates of the objects and any texts,
\* every byte of the canvases is what was drawn last over it.
THEOREM CanvasInvHolds == CanvasSpec => []CanvasInv
<1>1. CanvasInv /\ UNCHANGED canvasVars => CanvasInv'
  BY DEF canvasVars, CanvasInv, StaysInCanvas, Topmost, Lettered
<1>2. CanvasInv /\ CanvasNext => CanvasInv'
  BY DrawStep, RoundStep, TextStep DEF CanvasNext
<1> QED BY <1>1, <1>2, CanvasStarts, PTL DEF CanvasSpec

\* rectangle() and draw() never write outside of their canvas: they clip before
\* they write, also for objects that lie partly or wholly beside the picture.
THEOREM NeverLeavesCanvas == CanvasSpec => []StaysInCanvas
<1>1. CanvasInv => StaysInCanvas
  BY DEF CanvasInv
<1> QED BY <1>1, CanvasInvHolds, PTL

-----------------------------------------------------------------------------
(* The pictures.                                                            *)

\* Bytes that show the topmost object are pixels that show it.
LEMMA PictureOfBoxes ==
    ASSUME CanvasInv, \A o \in Objects : o.left >= 0 /\ o.top >= 0
    PROVE  ShowsTheBoxes
<1> DEFINE Shown(i) == Frame(drawn[i]) \ UNION {Frame(drawn[j]) : j \in i + 1..Len(drawn)}
           With(c) == {j \in DOMAIN drawn : drawn[j].color = c}
<1> SUFFICES ASSUME NEW c PROVE Coloured(boxes, c) = UNION {Shown(i) : i \in With(c)}
  BY DEF ShowsTheBoxes
<1>1. /\ Len(drawn) \in Nat /\ DOMAIN drawn = 1..Len(drawn)
      /\ \A i \in DOMAIN drawn : drawn[i] \in Objects
  BY DEF CanvasInv
<1>2. ASSUME NEW a \in 0..Size - 1, NEW q \in boxes[a]
      PROVE  q[1] \in 0..3 /\ q = <<q[1], q[2]>>
  <2>1. PICK i \in DOMAIN drawn : boxes[a] = Whole(drawn[i].color)
    BY DEF CanvasInv, Topmost
  <2> QED BY <2>1 DEF Whole
<1>3. Coloured(boxes, c) = {p \in Picture : <<p[1] % 4, c>> \in boxes[ByteOf(p)]}
  <2>1. \A a \in 0..Size - 1 : \A q \in boxes[a] : q[2] = c => q[1] \in 0..3 /\ q = <<q[1], c>>
    BY <1>2
  <2> QED BY <2>1, ColouredPixels
<1>4. \A p \in Picture : \A i \in DOMAIN drawn : ByteOf(p) \in Covers(drawn[i]) <=> p \in Frame(drawn[i])
  <2> SUFFICES ASSUME NEW p \in Picture, NEW o \in Objects
               PROVE  ByteOf(p) \in Covers(o) <=> p \in Frame(o)
    BY <1>1
  <2> QED BY CoversPixel, WrittenIsFrame
<1>5. ASSUME NEW p \in Picture, <<p[1] % 4, c>> \in boxes[ByteOf(p)]
      PROVE  \E i \in With(c) : p \in Shown(i)
  <2> PICK a : a = ByteOf(p)
    OBVIOUS
  <2>1. a \in 0..Size - 1
    BY ByteOfPixel
  <2>2. PICK i \in DOMAIN drawn :
          /\ a \in Covers(drawn[i]) /\ boxes[a] = Whole(drawn[i].color)
          /\ \A j \in i + 1..Len(drawn) : a \notin Covers(drawn[j])
    BY <1>5, <2>1 DEF CanvasInv, Topmost
  <2>3. drawn[i].color = c
    BY <1>5, <2>2 DEF Whole
  <2>4. p \in Frame(drawn[i])
    BY <1>4, <2>2
  <2>5. ASSUME NEW j \in i + 1..Len(drawn) PROVE p \notin Frame(drawn[j])
    <3>1. j \in DOMAIN drawn
      BY <1>1
    <3> QED BY <1>4, <2>2, <3>1
  <2> QED BY <2>3, <2>4, <2>5
<1>6. ASSUME NEW i \in With(c), NEW p \in Shown(i)
      PROVE  p \in Picture /\ <<p[1] % 4, c>> \in boxes[ByteOf(p)]
  <2>1. p \in Picture /\ p \in Frame(drawn[i]) /\ i \in DOMAIN drawn /\ drawn[i].color = c
    BY FrameInPicture
  <2> PICK a : a = ByteOf(p)
    OBVIOUS
  <2>2. a \in 0..Size - 1 /\ p[1] % 4 \in 0..3
    BY <2>1, ByteOfPixel
  <2>3. a \in Covers(drawn[i])
    BY <1>4, <2>1
  <2>4. ASSUME NEW j \in i + 1..Len(drawn) PROVE a \notin Covers(drawn[j])
    <3>1. j \in DOMAIN drawn
      BY <1>1, <2>1
    <3>2. p \notin Frame(drawn[j])
      OBVIOUS
    <3> QED BY <1>4, <2>1, <3>1, <3>2
  <2>5. PICK k \in DOMAIN drawn :
          /\ a \in Covers(drawn[k]) /\ boxes[a] = Whole(drawn[k].color)
          /\ \A j \in k + 1..Len(drawn) : a \notin Covers(drawn[j])
    BY <2>1, <2>2, <2>3 DEF CanvasInv, Topmost
  <2>6. k = i
    BY <1>1, <2>1, <2>3, <2>4, <2>5
  <2>7. <<p[1] % 4, c>> \in Whole(c)
    BY <2>2 DEF Whole
  <2> QED BY <2>1, <2>5, <2>6, <2>7
<1> HIDE DEF Shown, With
<1> QED BY <1>3, <1>5, <1>6

\* The label shows the ink of the text and nothing else.
LEMMA PictureOfText == CanvasInv => ShowsTheText
<1> SUFFICES ASSUME CanvasInv PROVE Coloured(label, "white") = Inked(writing)
  BY DEF ShowsTheText
<1>1. ASSUME NEW a \in 0..Size - 1, NEW q \in label[a]
      PROVE  q[1] \in 0..3 /\ q = <<q[1], "white">>
  <2>1. PICK s \in InkOf(writing) : writing \in Writings /\ q = <<s[2], "white">>
    BY DEF CanvasInv, Lettered
  <2>2. PICK p \in Inked(writing) : s = <<ByteOf(p), p[1] % 4>>
    BY <2>1, InkIsAsked
  <2>3. p \in Picture
    BY DEF Inked, Picture
  <2> QED BY <2>1, <2>2, <2>3, ByteOfPixel
<1>2. Coloured(label, "white") = {p \in Picture : <<p[1] % 4, "white">> \in label[ByteOf(p)]}
  BY <1>1, ColouredPixels
<1>3. Inked(writing) \subseteq Picture
  BY DEF Inked, Picture
<1>4. ASSUME NEW p \in Picture, <<p[1] % 4, "white">> \in label[ByteOf(p)]
      PROVE  p \in Inked(writing)
  <2> PICK a, i : a = ByteOf(p) /\ i = p[1] % 4
    OBVIOUS
  <2>1. a \in 0..Size - 1
    BY ByteOfPixel
  <2>2. PICK s \in InkOf(writing) : writing \in Writings /\ s[1] = a /\ s[2] = i
    BY <1>4, <2>1 DEF CanvasInv, Lettered
  <2>3. PICK r \in Inked(writing) : s = <<ByteOf(r), r[1] % 4>>
    BY <2>2, InkIsAsked
  <2>4. r \in Picture /\ ByteOf(r) = ByteOf(p) /\ r[1] % 4 = p[1] % 4
    BY <1>3, <2>2, <2>3
  <2>5. /\ r[2] = p[2] /\ r[1] \div 4 = p[1] \div 4
    BY <2>4, ByteOfPixel
  <2>6. r[1] = p[1]
    BY <2>4, <2>5, ByteOfPixel
  <2>7. r = p
    BY <2>4, <2>5, <2>6 DEF Picture
  <2> QED BY <2>7
<1>5. ASSUME NEW p \in Inked(writing)
      PROVE  <<p[1] % 4, "white">> \in label[ByteOf(p)]
  <2> PICK a, i : a = ByteOf(p) /\ i = p[1] % 4
    OBVIOUS
  <2>1. p \in Picture /\ a \in 0..Size - 1
    BY <1>3, ByteOfPixel
  <2>2. writing # <<>>
    <3>1. DOMAIN writing # {}
      BY DEF Inked
    <3> QED BY <3>1
  <2>3. writing \in Writings /\ label[a] = {<<q[2], "white">> : q \in {q \in InkOf(writing) : q[1] = a}}
    BY <2>1, <2>2 DEF CanvasInv, Lettered
  <2>4. <<a, i>> \in {q \in InkOf(writing) : q[1] = a}
    BY <2>3, AskedIsInk
  <2> QED BY <2>3, <2>4
<1> QED BY <1>2, <1>3, <1>4, <1>5

\* Objects whose coordinates do not lie before the picture's origin, as RockIVA
\* reports them, and every text appear as asked for, pixel by pixel, whatever
\* was drawn before, and no byte beside the canvases changes.
THEOREM DrawsAsAsked ==
    ASSUME \A o \in Objects : o.left >= 0 /\ o.top >= 0
    PROVE  CanvasSpec => []DrawsWhatIsAsked
<1>1. CanvasInv => DrawsWhatIsAsked
  BY PictureOfBoxes, PictureOfText DEF DrawsWhatIsAsked, CanvasInv
<1> QED BY <1>1, CanvasInvHolds, PTL

-----------------------------------------------------------------------------
(* AnnexB.                                                                  *)

\* Induction: a set that has 0 and with each number the next one has them all.
\* Otherwise the numbers up to one that is missing, without those in the set,
\* could all move down by one and lose their largest (the pigeonhole principle).
LEMMA InductionOverSet ==
    ASSUME NEW S, 0 \in S, \A n \in Nat : n \in S => n + 1 \in S
    PROVE  Nat \subseteq S
<1> SUFFICES ASSUME NEW m \in Nat, m \notin S PROVE FALSE
  OBVIOUS
<1> DEFINE B == {k \in 0..m : k \notin S}
           down == [k \in B |-> k - 1]
<1>1. IsFiniteSet(B) /\ m \in B
  <2>1. B \in SUBSET (0..m) /\ 0 \in Int /\ m \in Int
    OBVIOUS
  <2> HIDE DEF B
  <2>0. IsFiniteSet(0..m)
    BY <2>1, FS_Interval
  <2>2. IsFiniteSet(B)
    BY <2>0, <2>1, FS_Subset
  <2> QED BY <2>2 DEF B
<1>2. \A k \in B : k - 1 \in B \ {m}
  <2> TAKE k \in B
  <2>1. k # 0 /\ k \in Nat
    OBVIOUS
  <2>2. k - 1 \in Nat /\ k - 1 \notin S /\ k - 1 < m
    BY <2>1
  <2> QED BY <2>2
<1>3. \A j, k \in B : j - 1 = k - 1 => j = k
  OBVIOUS
<1>4. down \in [B -> B \ {m}]
  BY <1>2
<1>5. \A j, k \in B : down[j] = down[k] => j = k
  BY <1>3
<1> HIDE DEF B, down
<1>6. IsFiniteSet(B \ {m}) /\ Cardinality(B \ {m}) < Cardinality(B)
  <2>1. IsFiniteSet(B \ {m}) /\ Cardinality(B \ {m}) = Cardinality(B) - 1
    BY <1>1, FS_RemoveElement
  <2>2. Cardinality(B) \in Nat
    BY <1>1, FS_CardinalityType
  <2> QED BY <2>1, <2>2
<1>7. \E x, y \in B : x # y /\ down[x] = down[y]
  BY <1>1, <1>4, <1>6, FS_PigeonHole
<1> QED BY <1>5, <1>7

\* whole is left followed by right.
Follows(whole, left, right) ==
    /\ Len(left) \in Nat /\ Len(right) \in Nat /\ Len(whole) = Len(left) + Len(right)
    /\ \A i \in 1..Len(left) : whole[i] = left[i]
    /\ \A i \in 1..Len(right) : whole[Len(left) + i] = right[i]

LEMMA WhereItIs ==
    ASSUME NEW whole, NEW left, NEW right, Follows(whole, left, right)
    PROVE  /\ Len(left) <= Len(whole)
           /\ \A i \in 1..Len(left) : whole[i] = left[i]
           /\ \A i \in 1..Len(right) :
                whole[Len(left) + i] = right[i] /\ Len(left) + i \in 1..Len(whole)
<1> DEFINE a == Len(left)
           b == Len(right)
           c == Len(whole)
<1>1. a \in Nat /\ b \in Nat /\ c = a + b
  BY DEF Follows
<1> HIDE DEF a, b, c
<1>2. a <= c /\ \A i \in 1..b : a + i \in 1..c
  BY <1>1
<1> QED BY <1>2 DEF Follows, a, b, c

LEMMA Concatenation ==
    ASSUME NEW S, NEW s \in Seq(S), NEW t \in Seq(S)
    PROVE  s \o t \in Seq(S) /\ Follows(s \o t, s, t)
  BY DEF Follows

\* The units of a frame.
Units(is265) == [prefix : StartCodes, header : Headers(is265), payload : Payloads]

\* The bytes of a unit: the start code, a header that is not zero, and a payload
\* in which, as the encoder escapes it, no start code begins, not even one that
\* the next unit would complete.
LEMMA BytesOfUnit ==
    ASSUME NEW is265 \in BOOLEAN, NEW u \in Units(is265)
    PROVE  LET b == Bytes(u)
               n == Len(u.prefix)
           IN  /\ b \in Seq(Nat)
               /\ n \in {3, 4} /\ Len(b) > n + 1
               /\ b[1] = 0 /\ b[2] = 0
               /\ IF n = 3 THEN b[3] = 1 ELSE b[3] = 0 /\ b[4] = 1
               /\ b[n + 1] = u.header /\ b[Len(b)] # 0
               /\ \A i \in n + 1..Len(b) - 2 : ~(b[i] = 0 /\ b[i + 1] = 0 /\ b[i + 2] \in {0, 1})
<1> DEFINE b == Bytes(u)
           n == Len(u.prefix)
           p == u.payload
           front == u.prefix \o <<u.header>>
<1>1. /\ u.prefix \in Seq(Nat) /\ n \in {3, 4} /\ u.prefix[1] = 0 /\ u.prefix[2] = 0
      /\ IF n = 3 THEN u.prefix[3] = 1 ELSE u.prefix[3] = 0 /\ u.prefix[4] = 1
  <2>1. u.prefix \in StartCodes
    BY DEF Units
  <2>2. CASE u.prefix = <<0, 0, 1>>
    BY <2>2
  <2>3. CASE u.prefix = <<0, 0, 0, 1>>
    BY <2>3
  <2> QED BY <2>1, <2>2, <2>3 DEF StartCodes
<1>2. u.header \in Nat /\ u.header # 0
  BY DEF Units, Headers
<1>3. /\ p \in Seq(Nat) /\ p # <<>> /\ p[Len(p)] # 0
      /\ \A i \in 1..Len(p) - 2 : ~(p[i] = 0 /\ p[i + 1] = 0 /\ p[i + 2] \in {0, 1})
  BY AnnexBAssumption DEF Units
<1>4. /\ front \in Seq(Nat) /\ Len(front) = n + 1 /\ front[n + 1] = u.header
      /\ \A i \in 1..n : front[i] = u.prefix[i]
  BY <1>1, <1>2
<1>5. b = front \o p
  BY DEF Bytes
<1> HIDE DEF b, front, p, n
<1>6. /\ b \in Seq(Nat) /\ Len(b) = n + 1 + Len(p)
      /\ \A i \in 1..n + 1 : b[i] = front[i]
      /\ \A i \in 1..Len(p) : b[n + 1 + i] = p[i]
  <2>1. front \in Seq(Nat) /\ p \in Seq(Nat)
    BY <1>3, <1>4
  <2>2. b \in Seq(Nat) /\ Follows(b, front, p)
    BY <1>5, <2>1, Concatenation
  <2> QED BY <1>4, <2>2 DEF Follows
<1>7. Len(p) \in Nat /\ Len(p) > 0
  BY <1>3
<1>8. b[n + 1] = u.header /\ b[Len(b)] # 0 /\ Len(b) > n + 1
  <2>1. n + 1 \in 1..n + 1 /\ Len(p) \in 1..Len(p) /\ Len(b) > n + 1
    <3>1. n \in Nat /\ Len(p) \in Nat /\ Len(p) > 0 /\ Len(b) = n + 1 + Len(p)
      BY <1>1, <1>6, <1>7
    <3> QED BY <3>1
  <2>2. b[n + 1] = front[n + 1] /\ b[n + 1 + Len(p)] = p[Len(p)]
    BY <1>6, <2>1
  <2> QED BY <1>3, <1>4, <1>6, <2>1, <2>2
<1>9. \A i \in n + 1..Len(b) - 2 : ~(b[i] = 0 /\ b[i + 1] = 0 /\ b[i + 2] \in {0, 1})
  <2> SUFFICES ASSUME NEW i \in n + 1..Len(b) - 2
               PROVE  ~(b[i] = 0 /\ b[i + 1] = 0 /\ b[i + 2] \in {0, 1})
    OBVIOUS
  <2>1. CASE i = n + 1
    BY <1>2, <1>8, <2>1
  <2>2. CASE i # n + 1
    <3> DEFINE k == i - n - 1
    <3>1. k \in 1..Len(p) - 2 /\ i = n + 1 + k /\ i + 1 = n + 1 + (k + 1) /\ i + 2 = n + 1 + (k + 2)
      BY <1>1, <1>6, <1>7, <2>2
    <3>2. k \in 1..Len(p) /\ k + 1 \in 1..Len(p) /\ k + 2 \in 1..Len(p)
      BY <1>7, <3>1
    <3> HIDE DEF k
    <3>3. b[n + 1 + k] = p[k] /\ b[n + 1 + (k + 1)] = p[k + 1] /\ b[n + 1 + (k + 2)] = p[k + 2]
      BY <1>6, <3>2
    <3>4. b[i] = p[k] /\ b[i + 1] = p[k + 1] /\ b[i + 2] = p[k + 2]
      BY <3>1, <3>3
    <3> QED BY <1>3, <3>1, <3>4
  <2> QED BY <2>1, <2>2
<1>10. /\ b[1] = 0 /\ b[2] = 0
       /\ IF n = 3 THEN b[3] = 1 ELSE b[3] = 0 /\ b[4] = 1
  <2>1. \A i \in 1..n : b[i] = u.prefix[i]
    <3>1. \A i \in 1..n : i \in 1..n + 1
      BY <1>1
    <3> QED BY <1>4, <1>6, <3>1
  <2>2. {1, 2, 3} \subseteq 1..n /\ (n # 3 => 4 \in 1..n)
    BY <1>1
  <2> QED BY <1>1, <2>1, <2>2
<1> QED BY <1>1, <1>6, <1>8, <1>9, <1>10 DEF b, n

\* f is the bytes of the kept units, up to each unit.
Builds(f, us, keep) ==
    f = [i \in 0..Len(us) |->
            IF i = 0 THEN <<>> ELSE f[i - 1] \o (IF i \in keep THEN Bytes(us[i]) ELSE <<>>)]

\* Such a sequence of bytes exists for any units.
LEMMA PiecesExist ==
    ASSUME NEW us, Len(us) \in Nat, NEW keep
    PROVE  \E f : Builds(f, us, keep)
<1> DEFINE Piece(i) == IF i \in keep THEN Bytes(us[i]) ELSE <<>>
           Upto(f, n) == /\ f = [i \in 0..n |-> f[i]] /\ f[0] = <<>>
                         /\ \A i \in 1..n : f[i] = f[i - 1] \o Piece(i)
           S == {n \in Nat : \E f : Upto(f, n)}
<1>1. 0 \in S
  <2>1. Upto([i \in 0..0 |-> <<>>], 0)
    OBVIOUS
  <2> QED BY <2>1
<1>2. ASSUME NEW n \in Nat, n \in S PROVE n + 1 \in S
  <2>1. PICK f : Upto(f, n)
    BY <1>2
  <2> DEFINE g == [i \in 0..n + 1 |-> IF i = n + 1 THEN f[n] \o Piece(n + 1) ELSE f[i]]
  <2> HIDE DEF Piece
  <2>2. Upto(g, n + 1)
    BY <2>1
  <2> HIDE DEF g, Upto
  <2> QED BY <2>2
<1> HIDE DEF S
<1>3. Len(us) \in S
  BY <1>1, <1>2, InductionOverSet
<1>4. PICK f : Upto(f, Len(us))
  BY <1>3 DEF S
<1>5. \A i \in 0..Len(us) :
        f[i] = IF i = 0 THEN <<>> ELSE f[i - 1] \o (IF i \in keep THEN Bytes(us[i]) ELSE <<>>)
  BY <1>4
<1>6. Builds(f, us, keep)
  BY <1>4, <1>5, Zenon DEF Builds
<1> QED BY <1>6

\* The same, step by step.
Grows(f, us, keep) ==
    /\ f[0] = <<>>
    /\ \A i \in 1..Len(us) : f[i] = f[i - 1] \o (IF i \in keep THEN Bytes(us[i]) ELSE <<>>)

LEMMA PiecesGrow ==
    ASSUME NEW us, Len(us) \in Nat, NEW keep
    PROVE  Grows(Pieces(us, keep), us, keep)
<1>1. Pieces(us, keep) = CHOOSE f : Builds(f, us, keep)
  BY DEF Pieces, Builds
<1>2. Builds(Pieces(us, keep), us, keep)
  BY <1>1, PiecesExist
<1>3. ASSUME NEW f, Builds(f, us, keep) PROVE Grows(f, us, keep)
  BY <1>3 DEF Builds, Grows
<1> QED BY <1>2, <1>3

LEMMA PiecesAreBytes ==
    ASSUME NEW is265 \in BOOLEAN, NEW us \in Seq(Units(is265)), NEW keep
    PROVE  \A i \in 0..Len(us) : Pieces(us, keep)[i] \in Seq(Nat)
<1> DEFINE f == Pieces(us, keep)
           S == {i \in Nat : i <= Len(us) => f[i] \in Seq(Nat)}
<1>1. Len(us) \in Nat
  OBVIOUS
<1>2. Grows(f, us, keep)
  BY <1>1, PiecesGrow
<1> HIDE DEF f
<1>3. 0 \in S
  <2>1. <<>> \in Seq(Nat)
    OBVIOUS
  <2> QED BY <1>2, <2>1 DEF Grows
<1>4. ASSUME NEW i \in Nat, i \in S PROVE i + 1 \in S
  <2> SUFFICES ASSUME i + 1 <= Len(us) PROVE f[i + 1] \in Seq(Nat)
    OBVIOUS
  <2>1. i + 1 \in 1..Len(us) /\ (i + 1) - 1 = i /\ us[i + 1] \in Units(is265) /\ f[i] \in Seq(Nat)
    BY <1>1, <1>4
  <2>2. Bytes(us[i + 1]) \in Seq(Nat) /\ <<>> \in Seq(Nat)
    BY <2>1, BytesOfUnit
  <2>3. f[i + 1] = f[i] \o (IF i + 1 \in keep THEN Bytes(us[i + 1]) ELSE <<>>)
    BY <1>2, <2>1 DEF Grows
  <2> QED BY <2>1, <2>2, <2>3, Concatenation
<1> HIDE DEF S
<1>5. Nat \subseteq S
  BY <1>3, <1>4, InductionOverSet
<1> QED BY <1>1, <1>5 DEF S, f

\* Where the units of a frame are in its bytes: each begins where the one before
\* it ends, and nothing changes behind it.
LEMMA UnitsInFrame ==
    ASSUME NEW is265 \in BOOLEAN, NEW us \in Seq(Units(is265))
    PROVE  LET f == Pieces(us, 1..Len(us))
               frame == f[Len(us)]
           IN  /\ f[0] = <<>>
               /\ \A r \in 0..Len(us) : f[r] \in Seq(Nat) /\ Len(f[r]) <= Len(frame)
               /\ \A r \in 1..Len(us) :
                    /\ Len(f[r]) = Len(f[r - 1]) + Len(Bytes(us[r]))
                    /\ \A j \in 1..Len(Bytes(us[r])) : frame[Len(f[r - 1]) + j] = Bytes(us[r])[j]
<1> DEFINE n == Len(us)
           f == Pieces(us, 1..Len(us))
<1>1. n \in Nat
  OBVIOUS
<1>2. \A i \in 0..n : f[i] \in Seq(Nat) /\ Len(f[i]) \in Nat
  BY PiecesAreBytes
<1>3. f[0] = <<>> /\ \A r \in 1..n : f[r] = f[r - 1] \o Bytes(us[r])
  <2>1. Grows(f, us, 1..n)
    BY <1>1, PiecesGrow
  <2> HIDE DEF f
  <2> QED BY <2>1 DEF Grows
<1> HIDE DEF f
<1>4. \A r \in 1..n : us[r] \in Units(is265)
  OBVIOUS
<1> HIDE DEF n
<1>5. ASSUME NEW r \in 1..n PROVE Follows(f[r], f[r - 1], Bytes(us[r]))
  <2>1. f[r - 1] \in Seq(Nat)
    BY <1>1, <1>2
  <2>2. Bytes(us[r]) \in Seq(Nat)
    BY <1>4, BytesOfUnit
  <2>3. Follows(f[r - 1] \o Bytes(us[r]), f[r - 1], Bytes(us[r]))
    BY <2>1, <2>2, Concatenation
  <2>4. f[r] = f[r - 1] \o Bytes(us[r])
    BY <1>3
  <2> QED BY <2>3, <2>4, Zenon
<1>6. ASSUME NEW r \in 0..n
      PROVE  Len(f[r]) <= Len(f[n]) /\ \A j \in 1..Len(f[r]) : f[n][j] = f[r][j]
  <2> DEFINE Same(m) == Len(f[r]) <= Len(f[m]) /\ \A j \in 1..Len(f[r]) : f[m][j] = f[r][j]
             S == {k \in Nat : r + k <= n => Same(r + k)}
  <2>1. 0 \in S
    BY <1>1, <1>2
  <2>2. ASSUME NEW k \in Nat, k \in S PROVE k + 1 \in S
    <3> SUFFICES ASSUME r + (k + 1) <= n PROVE Same(r + (k + 1))
      OBVIOUS
    <3> DEFINE m == r + k + 1
    <3>1. m \in 1..n /\ m - 1 = r + k /\ r + k \in 0..n /\ r + (k + 1) = m
      BY <1>1
    <3>2. Same(m - 1)
      BY <2>2, <3>1
    <3> HIDE DEF m
    <3>3. Follows(f[m], f[m - 1], Bytes(us[m]))
      BY <1>5, <3>1
    <3>4. Len(f[m - 1]) \in Nat /\ Len(f[r]) \in Nat /\ m \in Nat
      BY <1>1, <1>2, <3>1
    <3>5. Len(f[m - 1]) <= Len(f[m]) /\ \A j \in 1..Len(f[m - 1]) : f[m][j] = f[m - 1][j]
      BY <3>3, WhereItIs
    <3>6. Len(f[m]) \in Nat
      BY <1>2, <3>1
    <3>7. Len(f[r]) <= Len(f[m])
      BY <3>2, <3>4, <3>5, <3>6
    <3>8. \A j \in 1..Len(f[r]) : j \in 1..Len(f[m - 1])
      BY <3>2, <3>4
    <3>9. Same(m)
      BY <3>2, <3>5, <3>7, <3>8
    <3> QED BY <3>1, <3>9
  <2> HIDE DEF S
  <2>3. Nat \subseteq S
    BY <2>1, <2>2, InductionOverSet
  <2>4. n - r \in S /\ r + (n - r) = n
    BY <1>1, <2>3
  <2> QED BY <1>1, <2>4 DEF S
<1>7. ASSUME NEW r \in 1..n, NEW j \in 1..Len(Bytes(us[r]))
      PROVE  f[n][Len(f[r - 1]) + j] = Bytes(us[r])[j]
  <2>1. Follows(f[r], f[r - 1], Bytes(us[r]))
    BY <1>5
  <2>2. r \in 0..n
    BY <1>1
  <2>3. f[r][Len(f[r - 1]) + j] = Bytes(us[r])[j] /\ Len(f[r - 1]) + j \in 1..Len(f[r])
    BY <2>1, WhereItIs
  <2> QED BY <1>6, <2>2, <2>3
<1>8. \A r \in 1..n : Len(f[r]) = Len(f[r - 1]) + Len(Bytes(us[r]))
  BY <1>5 DEF Follows
<1> QED BY <1>2, <1>3, <1>6, <1>7, <1>8 DEF f, n

LEMMA FirstOf ==
    ASSUME NEW s \in SUBSET Int, NEW m \in s, \A j \in s : m <= j
    PROVE  Least(s) = m
<1>1. Least(s) \in s /\ \A j \in s : Least(s) <= j
  BY DEF Least
<1>2. Least(s) \in Int /\ m \in Int /\ Least(s) <= m /\ m <= Least(s)
  BY <1>1
<1> HIDE DEF Least
<1> QED BY <1>2

\* The unit u is in the frame, from p to e.
Within(u, p, e) ==
    /\ e = p + Len(Bytes(u)) /\ e <= StreamSize
    /\ \A j \in 1..Len(Bytes(u)) : stream[p + j] = Bytes(u)[j]

\* What the search for the end of a unit stops at.
Code(i) == Zeros(i, 2) /\ (At(i + 2) = 1 \/ (At(i + 2) = 0 /\ At(i + 3) = 1))

\* The bytes of a unit as the scan reads them.
LEMMA ReadsUnit ==
    ASSUME stream \in Seq(Nat), NEW is265 \in BOOLEAN, NEW u \in Units(is265),
           NEW p \in Nat, NEW e, Within(u, p, e)
    PROVE  LET n == Len(u.prefix)
           IN  /\ n \in {3, 4} /\ e \in Nat /\ StreamSize \in Nat
               /\ p + n + 1 < e /\ e <= StreamSize
               /\ At(p) = 0 /\ At(p + 1) = 0
               /\ IF n = 3 THEN At(p + 2) = 1 ELSE At(p + 2) = 0 /\ At(p + 3) = 1
               /\ At(p + n) = u.header /\ At(e - 1) # 0
               /\ \A i \in p + n..e - 3 : ~(At(i) = 0 /\ At(i + 1) = 0 /\ At(i + 2) \in {0, 1})
<1> DEFINE n == Len(u.prefix)
           b == Bytes(u)
           m == Len(b)
<1>1. /\ b \in Seq(Nat)
      /\ n \in {3, 4} /\ m > n + 1
      /\ b[1] = 0 /\ b[2] = 0
      /\ IF n = 3 THEN b[3] = 1 ELSE b[3] = 0 /\ b[4] = 1
      /\ b[n + 1] = u.header /\ b[m] # 0
      /\ \A i \in n + 1..m - 2 : ~(b[i] = 0 /\ b[i + 1] = 0 /\ b[i + 2] \in {0, 1})
  BY BytesOfUnit
<1>2. m \in Nat /\ StreamSize \in Nat
  BY <1>1 DEF StreamSize
<1>3. e = p + m /\ e <= StreamSize /\ \A j \in 1..m : stream[p + j] = b[j]
  BY DEF Within
<1> HIDE DEF n, b, m
<1>4. \A i \in p..e - 1 : At(i) = b[i - p + 1]
  <2> SUFFICES ASSUME NEW i \in p..e - 1 PROVE At(i) = b[i - p + 1]
    OBVIOUS
  <2>1. i - p + 1 \in 1..m /\ p + (i - p + 1) = i + 1
    BY <1>2, <1>3
  <2> QED BY <1>3, <2>1 DEF At
<1>5. e \in Nat /\ p + n + 1 < e
  BY <1>1, <1>2, <1>3
<1>6. At(p) = 0 /\ At(p + 1) = 0
  <2>1. p \in p..e - 1 /\ p + 1 \in p..e - 1 /\ p - p + 1 = 1 /\ p + 1 - p + 1 = 2
    BY <1>1, <1>5
  <2>2. At(p) = b[p - p + 1] /\ At(p + 1) = b[p + 1 - p + 1]
    BY <1>4, <2>1
  <2> QED BY <1>1, <2>1, <2>2
<1>7. IF n = 3 THEN At(p + 2) = 1 ELSE At(p + 2) = 0 /\ At(p + 3) = 1
  <2>1. p + 2 \in p..e - 1 /\ p + 3 \in p..e - 1 /\ p + 2 - p + 1 = 3 /\ p + 3 - p + 1 = 4
    BY <1>1, <1>5
  <2>2. At(p + 2) = b[p + 2 - p + 1] /\ At(p + 3) = b[p + 3 - p + 1]
    BY <1>4, <2>1
  <2> QED BY <1>1, <2>1, <2>2
<1>8. At(p + n) = u.header /\ At(e - 1) # 0
  <2>1. p + n \in p..e - 1 /\ e - 1 \in p..e - 1 /\ e - 1 - p + 1 = m
    <3> HIDE DEF At
    <3> QED BY <1>1, <1>2, <1>3, <1>5
  <2>2. At(p + n) = b[n + 1]
    <3> DEFINE i == p + n
    <3>1. i \in p..e - 1 /\ i - p + 1 = n + 1
      BY <1>1, <1>5
    <3> HIDE DEF i
    <3>2. At(i) = b[n + 1]
      BY <1>4, <3>1
    <3> QED BY <3>2 DEF i
  <2>3. At(e - 1) = b[m]
    BY <1>4, <2>1
  <2> QED BY <1>1, <2>2, <2>3
<1>9. \A i \in p + n..e - 3 : ~(At(i) = 0 /\ At(i + 1) = 0 /\ At(i + 2) \in {0, 1})
  <2> SUFFICES ASSUME NEW i \in p + n..e - 3
               PROVE  ~(At(i) = 0 /\ At(i + 1) = 0 /\ At(i + 2) \in {0, 1})
    OBVIOUS
  <2> DEFINE k == i - p + 1
  <2>1. /\ i \in p..e - 1 /\ i + 1 \in p..e - 1 /\ i + 2 \in p..e - 1
        /\ k \in n + 1..m - 2 /\ i + 1 - p + 1 = k + 1 /\ i + 2 - p + 1 = k + 2
    BY <1>1, <1>2, <1>3, <1>5
  <2>2. At(i) = b[k] /\ At(i + 1) = b[i + 1 - p + 1] /\ At(i + 2) = b[i + 2 - p + 1]
    BY <1>4, <2>1
  <2> HIDE DEF k
  <2> QED BY <1>1, <2>1, <2>2
<1> QED BY <1>1, <1>2, <1>3, <1>5, <1>6, <1>7, <1>8, <1>9 DEF n

\* A round of the scan finds the unit that begins at pos, its header, and its end:
\* the end of the frame or the start code of the next unit.
LEMMA RoundFindsUnit ==
    ASSUME stream \in Seq(Nat), NEW is265 \in BOOLEAN, NEW u \in Units(is265),
           pos \in Nat, NEW e, Within(u, pos, e),
           e = StreamSize \/ \E w \in Units(is265) : \E f : Within(w, e, f)
    PROVE  /\ pos + 4 < StreamSize /\ Begins # {} /\ Least(Begins) = pos
           /\ At(Header(pos)) = u.header /\ End(Header(pos)) = e /\ e > pos
<1> DEFINE n == Len(u.prefix)
           h == pos + n
<1>1. /\ n \in {3, 4} /\ e \in Nat /\ StreamSize \in Nat
      /\ pos + n + 1 < e /\ e <= StreamSize
      /\ At(pos) = 0 /\ At(pos + 1) = 0
      /\ IF n = 3 THEN At(pos + 2) = 1 ELSE At(pos + 2) = 0 /\ At(pos + 3) = 1
      /\ At(pos + n) = u.header /\ At(e - 1) # 0
      /\ \A i \in pos + n..e - 3 : ~(At(i) = 0 /\ At(i + 1) = 0 /\ At(i + 2) \in {0, 1})
  BY ReadsUnit
<1> HIDE DEF n
<1>2. pos + 4 < StreamSize /\ e > pos
  BY <1>1
<1>3. IF n = 3 THEN Short(pos) ELSE ~Short(pos) /\ Long(pos)
  <2>1. CASE n = 3
    <3>1. Zeros(pos, 2)
      BY <1>1 DEF Zeros
    <3> QED BY <1>1, <1>2, <2>1, <3>1 DEF Short
  <2>2. CASE n = 4
    <3>1. Zeros(pos, 3)
      <4>1. \A j \in pos..pos + 3 - 1 : j = pos \/ j = pos + 1 \/ j = pos + 2
        OBVIOUS
      <4> QED BY <1>1, <2>2, <4>1 DEF Zeros
    <3> QED BY <1>1, <1>2, <2>2, <3>1 DEF Short, Long
  <2> QED BY <1>1, <2>1, <2>2
<1>4. Begins # {} /\ Least(Begins) = pos
  <2>1. pos \in Begins
    BY <1>1, <1>2, <1>3 DEF Begins
  <2>2. Begins \in SUBSET Int /\ \A j \in Begins : pos <= j
    BY <1>1 DEF Begins
  <2> QED BY <2>1, <2>2, FirstOf
<1>5. Header(pos) = h
  BY <1>1, <1>3 DEF Header
<1> DEFINE codes == {i \in h..StreamSize - 4 : Code(i)}
<1>6. \A i \in codes : i >= e
  <2> SUFFICES ASSUME NEW i \in h..StreamSize - 4, i < e PROVE ~Code(i)
    BY <1>1
  <2>1. i \in Nat /\ pos + n <= i
    BY <1>1
  <2>2. CASE i <= e - 3
    <3>1. i \in pos + n..e - 3
      BY <1>1, <2>1, <2>2
    <3>2. Zeros(i, 2) => At(i) = 0 /\ At(i + 1) = 0
      BY <2>1 DEF Zeros
    <3> QED BY <1>1, <3>1, <3>2 DEF Code
  <2>3. CASE i > e - 3
    <3>1. e - 1 \in i..i + 2 - 1
      BY <1>1, <2>1, <2>3
    <3> QED BY <1>1, <3>1 DEF Code, Zeros
  <2> QED BY <1>1, <2>1, <2>2, <2>3
<1>7. e \in codes \cup {StreamSize}
  <2>1. CASE e = StreamSize
    BY <2>1
  <2>2. ASSUME NEW w \in Units(is265), NEW f, Within(w, e, f) PROVE e \in codes
    <3>1. /\ Len(w.prefix) \in {3, 4} /\ f \in Nat /\ e + Len(w.prefix) + 1 < f /\ f <= StreamSize
          /\ At(e) = 0 /\ At(e + 1) = 0
          /\ IF Len(w.prefix) = 3 THEN At(e + 2) = 1 ELSE At(e + 2) = 0 /\ At(e + 3) = 1
      BY <1>1, <2>2, ReadsUnit
    <3> DEFINE l == Len(w.prefix)
    <3>2. l \in {3, 4} /\ e + l + 1 < f /\ f <= StreamSize
      BY <3>1
    <3> HIDE DEF l
    <3>3. e \in h..StreamSize - 4
      BY <1>1, <3>1, <3>2
    <3>4. Zeros(e, 2)
      <4>1. \A j \in e..e + 2 - 1 : j = e \/ j = e + 1
        BY <1>1
      <4> QED BY <3>1, <4>1 DEF Zeros
    <3> QED BY <3>1, <3>3, <3>4 DEF Code
  <2> QED BY <2>1, <2>2
<1>8. End(h) = Least(codes \cup {StreamSize})
  BY DEF End, Code
<1>9. codes \cup {StreamSize} \in SUBSET Int
  BY <1>1
<1> HIDE DEF codes, h
<1>10. \A j \in codes \cup {StreamSize} : e <= j
  BY <1>1, <1>6
<1>11. End(h) = e
  BY <1>7, <1>8, <1>9, <1>10, FirstOf
<1> QED BY <1>1, <1>2, <1>4, <1>5, <1>11 DEF h

\* The bytes of the frame and of the parameter sets, up to each unit, and the kinds
\* of set among the first units.
Framed == Pieces(units, 1..Len(units))
Chosen == Pieces(units, {i \in 1..Len(units) : FirstOfKind(i)})
KindsIn(r) == {k \in DOMAIN Kinds : \E j \in 1..r : units[j].header \in Kinds[k]}

\* The scan stands where a unit ends, and has what it should from those before.
Scanned(r) == pos = Len(Framed[r]) /\ data = Chosen[r] /\ found = KindsIn(r)

ScanInv ==
    /\ h265 \in BOOLEAN /\ done \in BOOLEAN
    /\ units \in Seq(Units(h265)) /\ stream = Framed[Len(units)]
    /\ \E r \in 0..Len(units) : Scanned(r) /\ (done => r = Len(units))

LEMMA ScanStarts == AnnexBInit => ScanInv
<1> SUFFICES ASSUME NEW is265 \in BOOLEAN, NEW n \in 0..MaxUnits,
                    NEW us \in [1..n -> [prefix : StartCodes, header : Headers(is265),
                                         payload : Payloads]],
                    AnnexBInitWith(is265, us)
             PROVE  ScanInv
  BY DEF AnnexBInit
<1>1. us \in Seq(Units(is265)) /\ Len(us) = n /\ n \in Nat
  <2>1. us \in [1..n -> Units(is265)] /\ n \in Nat
    BY AnnexBAssumption DEF Units
  <2> QED BY <2>1
<1>2. /\ h265 = is265 /\ units = us /\ stream = Stream(us, 1..Len(us))
      /\ pos = 0 /\ data = <<>> /\ found = {} /\ done = FALSE
  BY DEF AnnexBInitWith
<1>3. stream = Framed[Len(units)]
  BY <1>2, Zenon DEF Stream, Framed
<1>4. Framed[0] = <<>> /\ Chosen[0] = <<>>
  <2>1. Len(units) \in Nat
    BY <1>1, <1>2
  <2>2. /\ Grows(Framed, units, 1..Len(units))
        /\ Grows(Chosen, units, {i \in 1..Len(units) : FirstOfKind(i)})
    BY <2>1, PiecesGrow DEF Framed, Chosen
  <2> QED BY <2>2 DEF Grows
<1>5. Scanned(0)
  BY <1>2, <1>4 DEF Scanned, KindsIn
<1>6. 0 \in 0..Len(units)
  BY <1>1, <1>2
<1> QED BY <1>1, <1>2, <1>3, <1>5, <1>6 DEF ScanInv

\* A part of the frame, cut out.
LEMMA CutOut ==
    ASSUME NEW S, NEW s \in Seq(S), NEW p \in Nat, NEW m \in Nat, p + m <= Len(s)
    PROVE  LET cut == SubSeq(s, p + 1, p + m)
           IN  cut \in Seq(S) /\ Len(cut) = m /\ \A j \in 1..m : cut[j] = s[p + j]
<1> DEFINE a == p + 1
           z == p + m
<1>1. /\ a \in Nat /\ z \in Nat /\ Len(s) \in Nat /\ 1 <= a /\ z <= Len(s)
      /\ 1 + z - a = m /\ \A i \in a..z : i \in 1..Len(s)
      /\ \A j \in 1..m : j + a - 1 = p + j
  OBVIOUS
<1> HIDE DEF a, z
<1>2. /\ SubSeq(s, a, z) \in Seq(S)
      /\ Len(SubSeq(s, a, z)) = IF a <= z THEN 1 + z - a ELSE 0
      /\ \A j \in 1..z - a + 1 : SubSeq(s, a, z)[j] = s[a + j - 1]
  BY <1>1, SubSeqProperties
<1>3. z - a + 1 = m /\ \A j \in 1..m : a + j - 1 = p + j
  BY DEF a, z
<1> QED BY <1>1, <1>2, <1>3 DEF a, z

\* What the next round finds: the next unit, from start code to end.
LEMMA NextUnit ==
    ASSUME ScanInv, NEW r \in 0..Len(units), r # Len(units), pos = Len(Framed[r])
    PROVE  LET u == units[r + 1]
               e == Len(Framed[r + 1])
           IN  /\ pos + 4 < StreamSize /\ Begins # {} /\ Least(Begins) = pos
               /\ At(Header(pos)) = u.header /\ End(Header(pos)) = e /\ e > pos
               /\ SubSeq(stream, pos + 1, e) = Bytes(u)
<1> DEFINE u == units[r + 1]
           e == Len(Framed[r + 1])
           N == Len(units)
<1>1. h265 \in BOOLEAN /\ units \in Seq(Units(h265)) /\ stream = Framed[N] /\ N \in Nat
  BY DEF ScanInv
<1>2. /\ \A k \in 0..N : Framed[k] \in Seq(Nat) /\ Len(Framed[k]) <= Len(stream)
      /\ \A k \in 1..N :
           /\ Len(Framed[k]) = Len(Framed[k - 1]) + Len(Bytes(units[k]))
           /\ \A j \in 1..Len(Bytes(units[k])) :
                stream[Len(Framed[k - 1]) + j] = Bytes(units[k])[j]
  BY <1>1, UnitsInFrame DEF Framed
<1>3. \A k \in 1..N : units[k] \in Units(h265)
  BY <1>1
<1> HIDE DEF N
<1>4. ASSUME NEW k \in 1..N
      PROVE  Within(units[k], Len(Framed[k - 1]), Len(Framed[k]))
  <2>1. k \in 0..N
    BY <1>1
  <2> QED BY <1>2, <2>1 DEF Within, StreamSize
<1>5. r + 1 \in 1..N /\ (r + 1) - 1 = r
  BY <1>1 DEF N
<1>6. stream \in Seq(Nat) /\ pos \in Nat /\ Within(u, pos, e)
  <2>1. N \in 0..N
    BY <1>1
  <2>2. Framed[r] \in Seq(Nat)
    BY <1>2 DEF N
  <2> QED BY <1>1, <1>2, <1>4, <1>5, <2>1, <2>2
<1>7. e = StreamSize \/ \E w \in Units(h265) : \E f : Within(w, e, f)
  <2>1. CASE r + 1 = N
    BY <1>1, <2>1 DEF StreamSize
  <2>2. CASE r + 1 # N
    <3>1. r + 2 \in 1..N /\ (r + 2) - 1 = r + 1
      BY <1>1, <1>5, <2>2
    <3>2. units[r + 2] \in Units(h265) /\ Within(units[r + 2], e, Len(Framed[r + 2]))
      BY <1>3, <1>4, <3>1
    <3> QED BY <3>2
  <2> QED BY <2>1, <2>2
<1>8. /\ pos + 4 < StreamSize /\ Begins # {} /\ Least(Begins) = pos
      /\ At(Header(pos)) = u.header /\ End(Header(pos)) = e /\ e > pos
  BY <1>1, <1>3, <1>5, <1>6, <1>7, RoundFindsUnit
<1>9. SubSeq(stream, pos + 1, e) = Bytes(u)
  <2> DEFINE b == Bytes(u)
             m == Len(b)
  <2>1. b \in Seq(Nat) /\ m \in Nat
    BY <1>1, <1>3, <1>5, BytesOfUnit
  <2>2. e = pos + m /\ e <= Len(stream) /\ \A j \in 1..m : stream[pos + j] = b[j]
    BY <1>6 DEF Within, StreamSize
  <2>3. Len(b) = m
    OBVIOUS
  <2> HIDE DEF b, m, e
  <2> DEFINE s == SubSeq(stream, pos + 1, e)
  <2>4. s \in Seq(Nat) /\ Len(s) = m /\ \A j \in 1..m : s[j] = stream[pos + j]
    <3>1. pos + m <= Len(stream)
      BY <2>2
    <3>2. /\ SubSeq(stream, pos + 1, pos + m) \in Seq(Nat)
          /\ Len(SubSeq(stream, pos + 1, pos + m)) = m
          /\ \A j \in 1..m : SubSeq(stream, pos + 1, pos + m)[j] = stream[pos + j]
      BY <1>6, <2>1, <3>1, CutOut
    <3> QED BY <2>2, <3>2, Zenon
  <2> HIDE DEF s
  <2>5. \A j \in 1..m : s[j] = b[j]
    BY <2>2, <2>4
  <2>6. s = [j \in 1..m |-> s[j]] /\ b = [j \in 1..m |-> b[j]]
    BY <2>1, <2>3, <2>4
  <2>7. s = b
    BY <2>5, <2>6, Zenon
  <2> QED BY <2>7 DEF s, b
<1> QED BY <1>8, <1>9

\* The flags of a header are the kinds it belongs to, one at most.
LEMMA FlagIsKind ==
    ASSUME h265 \in BOOLEAN, NEW h \in Headers(h265)
    PROVE  /\ SetFlag(h) = {k \in DOMAIN Kinds : h \in Kinds[k]}
           /\ \A k, l \in SetFlag(h) : k = l
           /\ DOMAIN SetTypes = DOMAIN Kinds
<1>1. CASE h265
  BY <1>1 DEF Headers, SetFlag, SetTypes, Type, Kinds
<1>2. CASE ~h265
  BY <1>2 DEF Headers, SetFlag, SetTypes, Type, Kinds
<1> QED BY <1>1, <1>2

LEMMA ScanStep ==
    ScanInv /\ [AnnexBNext]_annexBVars => ScanInv' /\ (pos' > pos \/ done' \/ UNCHANGED annexBVars)
<1> SUFFICES ASSUME ScanInv, [AnnexBNext]_annexBVars
             PROVE  ScanInv' /\ (pos' > pos \/ done' \/ UNCHANGED annexBVars)
  OBVIOUS
<1> DEFINE N == Len(units)
<1>1. h265 \in BOOLEAN /\ units \in Seq(Units(h265)) /\ stream = Framed[N] /\ N \in Nat
  BY DEF ScanInv
<1>2. PICK r \in 0..N : Scanned(r) /\ (done => r = N)
  BY DEF ScanInv
<1>3. UNCHANGED <<h265, units, stream>>
  BY DEF AnnexBNext, Scan, ScanEnds, annexBVars
<1>4. /\ Framed' = Framed /\ Chosen' = Chosen
      /\ \A k : KindsIn(k)' = KindsIn(k)
  BY <1>3 DEF Framed, Chosen, FirstOfKind, KindsIn, Kinds
<1>5. ASSUME NEW k \in 0..N, done' \in BOOLEAN, done' => k = N,
             pos' = Len(Framed[k]), data' = Chosen[k], found' = KindsIn(k)
      PROVE  ScanInv'
  <2>1. Scanned(k)'
    BY <1>4, <1>5 DEF Scanned
  <2> QED BY <1>1, <1>3, <1>4, <1>5, <2>1 DEF ScanInv
<1>6. CASE Scan
  <2>1. ~done /\ done' = done /\ pos + 4 < StreamSize
    BY <1>6 DEF Scan
  <2>2. r # N /\ pos = Len(Framed[r])
    BY <1>1, <1>2, <2>1 DEF Scanned, StreamSize
  <2> DEFINE u == units[r + 1]
             e == Len(Framed[r + 1])
             flag == SetFlag(u.header)
  <2>3. /\ Least(Begins) = pos /\ At(Header(pos)) = u.header /\ End(Header(pos)) = e /\ e > pos
        /\ SubSeq(stream, pos + 1, e) = Bytes(u)
    BY <2>2, NextUnit
  <2>4. pos' = e /\ Kept(pos, e, flag)
    BY <1>6, <2>3 DEF Scan
  <2>5. r + 1 \in 1..N /\ r \in Nat /\ u.header \in Headers(h265) /\ (r + 1) - 1 = r
    <3>1. r \in Nat /\ r + 1 \in 1..N /\ (r + 1) - 1 = r
      BY <1>1, <2>2
    <3>2. u \in Units(h265)
      BY <1>1, <3>1
    <3> QED BY <3>1, <3>2 DEF Units
  <2>6. /\ flag = {k \in DOMAIN Kinds : u.header \in Kinds[k]}
        /\ \A k, l \in flag : k = l
    BY <1>1, <2>5, FlagIsKind
  <2>7. found = KindsIn(r) /\ data = Chosen[r]
    BY <1>2 DEF Scanned
  <2>8. FirstOfKind(r + 1) <=> flag # {} /\ flag \cap found = {}
    <3> HIDE DEF u, flag
    <3>1. FirstOfKind(r + 1) <=>
            \E k \in DOMAIN Kinds : u.header \in Kinds[k] /\ \A j \in 1..r : units[j].header \notin Kinds[k]
      BY <2>5 DEF FirstOfKind, u
    <3>2. FirstOfKind(r + 1) <=> \E k \in flag : k \notin found
      BY <2>6, <2>7, <3>1 DEF KindsIn
    <3> QED BY <2>6, <3>2
  <2>9. KindsIn(r + 1) = KindsIn(r) \cup flag
    <3>1. \A j : j \in 1..r + 1 <=> j \in 1..r \/ j = r + 1
      BY <2>5
    <3> QED BY <2>6, <3>1 DEF KindsIn
  <2>10. Chosen[r + 1] = Chosen[r] \o (IF FirstOfKind(r + 1) THEN Bytes(u) ELSE <<>>)
    <3>1. Grows(Chosen, units, {i \in 1..Len(units) : FirstOfKind(i)})
      BY <1>1, PiecesGrow DEF Chosen
    <3> QED BY <2>5, <3>1 DEF Grows
  <2>11. Chosen[r] \o <<>> = Chosen[r]
    <3>1. Chosen[r] \in Seq(Nat)
      BY <1>1, PiecesAreBytes DEF Chosen
    <3> QED BY <3>1
  <2> HIDE DEF u, e, flag
  <2>12. data' = Chosen[r + 1] /\ found' = KindsIn(r + 1)
    <3>1. CASE flag # {} /\ flag \cap found = {}
      BY <2>3, <2>4, <2>7, <2>8, <2>9, <2>10, <3>1 DEF Kept
    <3>2. CASE ~(flag # {} /\ flag \cap found = {})
      <4>1. UNCHANGED <<data, found>> /\ ~FirstOfKind(r + 1)
        BY <2>4, <2>8, <3>2 DEF Kept
      <4>2. flag \subseteq found
        BY <2>6, <3>2
      <4>3. found' = KindsIn(r + 1)
        BY <2>7, <2>9, <4>1, <4>2
      <4>4. Chosen[r + 1] = Chosen[r]
        BY <2>10, <2>11, <4>1
      <4> QED BY <2>7, <4>1, <4>3, <4>4
    <3> QED BY <3>1, <3>2
  <2>13. r + 1 \in 0..N /\ pos' = Len(Framed[r + 1])
    BY <1>1, <2>4, <2>5 DEF e
  <2>14. ScanInv'
    <3>1. done' \in BOOLEAN /\ ~done'
      BY <2>1 DEF ScanInv
    <3> HIDE DEF N
    <3> QED BY <1>5, <2>12, <2>13, <3>1
  <2> QED BY <2>3, <2>4, <2>14
<1>7. CASE ScanEnds
  <2>1. /\ pos + 4 >= StreamSize \/ Begins = {}
        /\ done' = TRUE /\ UNCHANGED <<pos, data, found>>
    BY <1>7 DEF ScanEnds
  <2>2. pos = Len(Framed[r]) /\ data = Chosen[r] /\ found = KindsIn(r)
    BY <1>2 DEF Scanned
  <2>3. r = N
    <3> SUFFICES ASSUME r # N PROVE FALSE
      OBVIOUS
    <3>1. pos + 4 < StreamSize /\ Begins # {}
      BY <2>2, NextUnit
    <3>2. pos \in Int /\ StreamSize \in Int
      <4>1. Framed[r] \in Seq(Nat) /\ Framed[N] \in Seq(Nat)
        BY <1>1, PiecesAreBytes DEF Framed
      <4> QED BY <1>1, <2>2, <4>1 DEF StreamSize
    <3> QED BY <2>1, <3>1, <3>2
  <2>4. ScanInv'
    BY <1>2, <1>5, <2>1, <2>2, <2>3
  <2> QED BY <2>1, <2>4
<1>8. CASE UNCHANGED annexBVars
  <2>1. /\ UNCHANGED <<pos, data, found, done>> /\ done \in BOOLEAN
        /\ pos = Len(Framed[r]) /\ data = Chosen[r] /\ found = KindsIn(r)
    BY <1>2, <1>8 DEF annexBVars, Scanned, ScanInv
  <2>2. ScanInv'
    BY <1>2, <1>5, <2>1
  <2> QED BY <1>8, <2>2
<1> QED BY <1>6, <1>7, <1>8 DEF AnnexBNext

\* What the callers of parameter_sets() rely on, from the invariant.
LEMMA ScanMeans == ScanInv => ExtractsFirstSets /\ CompleteIffAllKinds
<1> SUFFICES ASSUME ScanInv, done PROVE ExtractsFirstSets /\ CompleteIffAllKinds
  BY DEF ExtractsFirstSets, CompleteIffAllKinds
<1>1. data = Chosen[Len(units)] /\ found = KindsIn(Len(units))
  BY DEF ScanInv, Scanned
<1>2. data = Wanted
  BY <1>1, Zenon DEF Chosen, Wanted, Stream
<1>3. DOMAIN SetTypes = DOMAIN Kinds
  BY DEF ScanInv, SetTypes, Kinds
<1>4. Complete <=> \A k \in DOMAIN Kinds : \E i \in 1..Len(units) : units[i].header \in Kinds[k]
  BY <1>1, <1>3 DEF Complete, KindsIn
<1> QED BY <1>2, <1>4 DEF ExtractsFirstSets, CompleteIffAllKinds

\* For frames of any number of units with any escaped payloads: the scan takes the
\* first parameter set of each kind, whole and byte for byte, knows when it has
\* all of them, and goes forward in every round.
THEOREM ParameterSetsAreFound == AnnexBSpec => FindsTheSets
<1>1. ScanInv /\ [AnnexBNext]_annexBVars => ScanInv' /\ [pos' > pos \/ done']_annexBVars
  BY ScanStep
<1> QED BY <1>1, ScanStarts, ScanMeans, PTL DEF AnnexBSpec, FindsTheSets, Advances
=============================================================================
