------------------------------- MODULE Images -------------------------------
(* image::Image (Image/Image/Image.cpp) and image::CreateBitmap (Bitmap.cpp):*)
(* images over blocks of memory that they own (mpOwnedData) or look at       *)
(* (mpData), copied, moved, assigned, set, drawn on and destroyed in any     *)
(* order by one thread.  The heap is modelled so that a block that is freed, *)
(* shared or run past is seen.                                               *)
(*                                                                           *)
(* A SetPixel on an image of fewer than three channels reads past the colour *)
(* and may write past the block: nothing is known of the program after that, *)
(* and the model ends there (spoilt).  Colour spaces are left out: nothing   *)
(* here depends on them.  Lines are parallel to an axis; others go through   *)
(* rounding of doubles that is not modelled.                                 *)
EXTENDS Integers, Sequences, SequencesExt, FiniteSetsExt

CONSTANTS
  Names,    \* the variables of the program that may hold an image
  None,     \* what such a variable holds before construction
  Shapes,   \* <<width, height, channels>> that images are made with
  Blocks,   \* addresses, one for each block; 0 is the null pointer
  Coords,   \* coordinates that drawing calls are given, negative ones too
  Radii,    \* the radii of circles
  Widths,   \* the Thickness of lines
  Colour    \* the colour, of which each image takes as many bytes as it has channels

ASSUME BlocksAssumption == Blocks \subseteq Nat \ {0}
ASSUME ShapesAssumption == Shapes \subseteq (Nat \ {0}) \X (Nat \ {0}) \X (Nat \ {0})
ASSUME ColourAssumption ==
  Colour \in Seq(0..255) /\ \A shape \in Shapes : shape[1] * shape[2] * shape[3] <= Len(Colour)
ASSUME CoordsAssumption == Coords \subseteq Int /\ Widths \subseteq Nat
ASSUME NoneAssumption ==
  /\ None \notin [w : Nat, h : Nat, ch : Nat, own : Nat, data : Nat]
  /\ None \notin [w : Nat, h : Nat, ch : Nat, view : BOOLEAN, bytes : Seq(0..255)]

Free == <<-1>>
Past == -2      \* a byte that was read behind the end of a block

VARIABLES
  image,   \* None, or mWidth, mHeight, mNumberOfChannels, mpOwnedData, mpData
  heap,    \* of each block: Free, or its bytes
  lent,    \* the blocks that belong to the user
  spoilt   \* 0, or the channels of the image that was drawn past its colour or its block
vars == <<image, heap, lent, spoilt>>

Made(w, h, ch, own, data) == [w |-> w, h |-> h, ch |-> ch, own |-> own, data |-> data]
Over(shape, own, data) == Made(shape[1], shape[2], shape[3], own, data)
SizeOf(shape) == shape[1] * shape[2] * shape[3]
GetByteCount(m) == m.ch * m.w * m.h
Is(i) == image[i] # None
Bytes(m) == IF GetByteCount(m) = 0 THEN <<>> ELSE SubSeq(heap[m.data], 1, GetByteCount(m))

Unused == {b \in Blocks : heap[b] = Free}
Fresh == CHOOSE b \in Unused : TRUE
Zeros(n) == [k \in 1..n |-> 0]
Filled(n) == [k \in 1..n |-> Colour[k]]

(* What the memory is after the image m has dropped what it owns.            *)
Dropped(memory, m) ==
  [b \in Blocks |-> IF m # None /\ b = m.own THEN Free ELSE memory[b]]
With(memory, b, bytes) == [memory EXCEPT ![b] = bytes]

Init ==
  /\ image = [i \in Names |-> None] /\ heap = [b \in Blocks |-> Free]
  /\ lent = {} /\ spoilt = 0

-----------------------------------------------------------------------------
(* The constructors.  A sized image is zeroed; adopted and looked-at bytes   *)
(* are as the user left them.                                                *)
Construct(i) ==
  /\ ~Is(i) /\ image' = [image EXCEPT ![i] = Made(0, 0, 0, 0, 0)]
  /\ UNCHANGED <<heap, lent, spoilt>>

ConstructSized(i) ==
  /\ ~Is(i) /\ Unused # {}
  /\ \E shape \in Shapes :
       /\ image' = [image EXCEPT ![i] = Over(shape, Fresh, Fresh)]
       /\ heap' = With(heap, Fresh, Zeros(SizeOf(shape)))
  /\ UNCHANGED <<lent, spoilt>>

ConstructAdopting(i) ==
  /\ ~Is(i) /\ Unused # {}
  /\ \E shape \in Shapes :
       /\ image' = [image EXCEPT ![i] = Over(shape, Fresh, Fresh)]
       /\ heap' = With(heap, Fresh, Filled(SizeOf(shape)))
  /\ UNCHANGED <<lent, spoilt>>

ConstructObserving(i) ==
  /\ ~Is(i)
  /\ \E shape \in Shapes, b \in lent :
       /\ Len(heap[b]) >= SizeOf(shape)
       /\ image' = [image EXCEPT ![i] = Over(shape, 0, b)]
  /\ UNCHANGED <<heap, lent, spoilt>>

(* Mutant of Copied: the copy looks at the bytes of its source.              *)
CopiedShallow(i, j) ==
  LET m == image[j] IN
    /\ heap' = Dropped(heap, image[i])
    /\ image' = [image EXCEPT ![i] = Made(m.w, m.h, m.ch, 0, m.data)]

(* The copy constructor, or the copy assignment to an image there is, which  *)
(* frees its old block after it has made the new one and before it reads     *)
(* from rhs: rhs.mpData is the new block if rhs is the image itself.         *)
Copied(i, j) ==
  LET m == image[j]
      dropped == Dropped(With(heap, Fresh, Zeros(GetByteCount(m))), image[i])
      source == IF i = j THEN dropped[Fresh] ELSE Bytes(m)
  IN /\ heap' = With(dropped, Fresh, source)
     /\ image' = [image EXCEPT ![i] = Made(m.w, m.h, m.ch, Fresh, Fresh)]
Copy(i, j) == Is(j) /\ Unused # {} /\ Copied(i, j) /\ UNCHANGED <<lent, spoilt>>

(* Mutant of Moved: the source keeps the block too.                          *)
MovedSharing(i, j) ==
  LET m == image[j] IN
    /\ heap' = IF i = j THEN heap ELSE Dropped(heap, image[i])
    /\ image' = [image EXCEPT ![i] = m, ![j] = Made(0, 0, 0, m.own, m.data)]

(* The move constructor or assignment.  The source keeps its pointer mpData  *)
(* to bytes that are not its own any more, with measures of zero.            *)
Moved(i, j) ==
  LET m == image[j] IN
    IF i = j
      THEN /\ image' = [image EXCEPT ![i] = Made(0, 0, 0, m.own, m.data)]
           /\ UNCHANGED heap
      ELSE /\ image' = [image EXCEPT ![i] = m, ![j] = Made(0, 0, 0, 0, m.data)]
           /\ heap' = Dropped(heap, image[i])
Move(i, j) == Is(j) /\ Moved(i, j) /\ UNCHANGED <<lent, spoilt>>

(* Set: the block of the user's is there before the old one is freed.        *)
Set(i) ==
  /\ Is(i) /\ Unused # {}
  /\ \E shape \in Shapes :
       /\ image' = [image EXCEPT ![i] = Over(shape, Fresh, Fresh)]
       /\ heap' = Dropped(With(heap, Fresh, Filled(SizeOf(shape))), image[i])
  /\ UNCHANGED <<lent, spoilt>>

Destroy(i) ==
  /\ Is(i)
  /\ image' = [image EXCEPT ![i] = None] /\ heap' = Dropped(heap, image[i])
  /\ UNCHANGED <<lent, spoilt>>

-----------------------------------------------------------------------------
(* Mutant of Inside: the column behind the last one passes.                  *)
InsideByOne(shape, p) == p[1] \in 0..shape[1] /\ p[2] \in 0..(shape[2] - 1)

(* Arguments of SetPixel are size_t: a negative int is huge (DrawCircle).    *)
Inside(shape, p) == p[1] \in 0..(shape[1] - 1) /\ p[2] \in 0..(shape[2] - 1)
Offset(m, p) == (m.w * p[2] + p[1]) * m.ch

(* SetPixel, for all pixels of a drawing: three bytes each, whatever the     *)
(* channels.  The colour has as many bytes as the image has channels (any    *)
(* other is refused with an exception, before anything is drawn).            *)
SetPixels(m, pixels) ==
  LET hit == {Offset(m, p) : p \in pixels}
      block == heap[m.data]
  IN IF \E at \in hit : at + 3 > Len(block) \/ m.ch < 3
       THEN spoilt' = m.ch /\ UNCHANGED heap
       ELSE /\ heap' = [heap EXCEPT ![m.data] =
                 [k \in 1..Len(block) |->
                    IF \E c \in 1..3 : k - c \in hit
                      THEN Colour[CHOOSE c \in 1..3 : k - c \in hit] ELSE block[k]]]
            /\ UNCHANGED spoilt

Circle(x, y, radius) ==
  {p \in ((x - radius)..(x + radius - 1)) \X ((y - radius)..(y + radius - 1)) :
     (p[1] - x) * (p[1] - x) + (p[2] - y) * (p[2] - y) <= radius * radius}

Sign(n) == IF n > 0 THEN 1 ELSE IF n < 0 THEN -1 ELSE 0
Size(n) == n * Sign(n)
Parallel(a, b) == a[1] = b[1] \/ a[2] = b[2]

(* Mutant of Line: i < LineDistance.                                         *)
LineShort(a, b) ==
  LET distance == Size(b[1] - a[1]) + Size(b[2] - a[2]) IN
    {<<a[1] + n * Sign(b[1] - a[1]), a[2] + n * Sign(b[2] - a[2])>> : n \in 0..(distance - 1)}

(* The steps of DrawLine from a to b, of which one is reached first.         *)
Line(a, b) ==
  LET distance == Size(b[1] - a[1]) + Size(b[2] - a[2]) IN
    {<<a[1] + n * Sign(b[1] - a[1]), a[2] + n * Sign(b[2] - a[2])>> : n \in 0..distance}

(* DrawLine with a Thickness: Run and Rise point backwards, and only the     *)
(* smaller one is dropped, so that a line drawn leftwards or upwards is      *)
(* drawn over and over at the same place.                                    *)
ThickLine(a, b, thickness) ==
  LET run == Sign(a[1] - b[1])
      rise == Sign(a[2] - b[2])
      dx == IF rise > run THEN 0 ELSE rise
      dy == IF rise > run THEN run ELSE 0
  IN UNION {Line(<<a[1] + n * dx, a[2] + n * dy>>, <<b[1] + n * dx, b[2] + n * dy>>) :
              n \in (1 - thickness \div 2)..(thickness \div 2 - 1)}

(* Lines go through doubles: what a negative one is as a size_t is not       *)
(* defined; this build makes it huge, or zero when it is known beforehand.   *)
AsSize(points, negative) ==
  {<<IF p[1] < 0 THEN negative ELSE p[1], IF p[2] < 0 THEN negative ELSE p[2]>> : p \in points}

Ends == {e \in (Coords \X Coords) \X (Coords \X Coords) : Parallel(e[1], e[2])}
Drawings ==
  {{p} : p \in Coords \X Coords}
  \cup {Circle(x, y, radius) : x \in Coords, y \in Coords, radius \in Radii}
  \cup {AsSize(Line(e[1], e[2]), negative) : e \in Ends, negative \in {0, -1}}
  \cup {AsSize(ThickLine(e[1], e[2], thickness), negative) :
          e \in {e \in Ends : e[1] # e[2]}, thickness \in Widths, negative \in {0, -1}}
Hits == [shape \in Shapes |-> {{p \in points : Inside(shape, p)} : points \in Drawings}]

(* A call of SetPixel, DrawCircle or DrawLine.                               *)
Draw(i) ==
  /\ Is(i) /\ GetByteCount(image[i]) > 0
  /\ \E pixels \in Hits[<<image[i].w, image[i].h, image[i].ch>>] : SetPixels(image[i], pixels)
  /\ UNCHANGED <<image, lent>>

-----------------------------------------------------------------------------
(* The user has one buffer of his own to make images over; he ends it when   *)
(* no image that shows something looks at it.                                *)
Lend ==
  /\ lent = {} /\ Unused # {} /\ lent' = {Fresh}
  /\ \E shape \in Shapes : heap' = With(heap, Fresh, Filled(SizeOf(shape)))
  /\ UNCHANGED <<image, spoilt>>

WriteLent ==
  /\ \E b \in lent : heap' = With(heap, b, Zeros(Len(heap[b])))
  /\ UNCHANGED <<image, lent, spoilt>>

EndLent ==
  /\ \E b \in lent :
       /\ \A i \in Names : Is(i) /\ image[i].data = b => GetByteCount(image[i]) = 0
       /\ heap' = With(heap, b, Free)
  /\ lent' = {} /\ UNCHANGED <<image, spoilt>>

Next ==
  /\ spoilt = 0
  /\ \/ \E i \in Names :
          \/ Construct(i) \/ ConstructSized(i) \/ ConstructAdopting(i) \/ ConstructObserving(i)
          \/ Set(i) \/ Draw(i) \/ Destroy(i)
     \/ \E i, j \in Names : Copy(i, j) \/ Move(i, j)
     \/ Lend \/ WriteLent \/ EndLent
Spec == Init /\ [][Next]_vars

-----------------------------------------------------------------------------
(* GetPixel of Bitmap.cpp, for the row it is asked for.                      *)
ByteAt(m, k) == IF k < Len(heap[m.data]) THEN heap[m.data][k + 1] ELSE Past
PixelRow(m, y) ==
  [k \in 1..(3 * m.w) |-> ByteAt(m, Offset(m, <<(k - 1) \div 3, y>>) + 2 - ((k - 1) % 3))]
Padding(n) == Zeros((4 - (n % 4)) % 4)

(* Mutant of PixelData: the padding follows the last row only.               *)
PixelDataPaddedOnce(m) ==
  LET data == FlattenSeq([r \in 1..m.h |-> PixelRow(m, m.h + 1 - r)]) IN
    data \o Padding(Len(data))

(* GeneratePixelData: three bytes a pixel, last channel first, from the last *)
(* row up; y runs from the height to 1 and is not made an index, so that row *)
(* y is taken from below the one that it stands for.                         *)
PixelData(m) ==
  FlattenSeq([r \in 1..m.h |-> PixelRow(m, m.h + 1 - r) \o Padding(3 * m.w)])

(* CreateBitmap: the fields of its header that depend on the image.          *)
CreateBitmap(m) ==
  LET data == PixelData(m) IN
    [fileSize |-> 54 + Len(data), width |-> m.w, height |-> m.h, bits |-> 8 * m.ch,
     dataSize |-> Len(data), data |-> data]

-----------------------------------------------------------------------------
(* An image that has bytes has them in a block that is there and holds them  *)
(* all, its own or one of the user's; drawing never leaves it unless the     *)
(* image has fewer than the three channels that SetPixel writes              *)
(* (Image.cpp:18-165, 211-227).                                              *)
PixelsAreThere ==
  /\ spoilt < 3
  /\ \A i \in Names : Is(i) /\ GetByteCount(image[i]) > 0 =>
       LET m == image[i] IN
       /\ m.data \in Blocks /\ heap[m.data] # Free /\ Len(heap[m.data]) >= GetByteCount(m)
       /\ m.own = m.data \/ (m.own = 0 /\ m.data \in lent)

(* Each block that is there belongs to one image or to the user: none is     *)
(* freed twice and none is lost, whatever is copied, moved, set or assigned, *)
(* to itself too.                                                            *)
EveryBlockHasOneOwner ==
  \A b \in Blocks :
    LET owners == {i \in Names : Is(i) /\ image[i].own = b} IN
      IF heap[b] = Free \/ b \in lent THEN owners = {} ELSE Cardinality(owners) = 1

(* What an image is to the program: not where its bytes are, unless it is a  *)
(* view.                                                                     *)
Holding(m) ==
  LET view == m.own = 0 /\ GetByteCount(m) > 0 IN
    [w |-> m.w, h |-> m.h, ch |-> m.ch, view |-> view,
     bytes |-> IF view THEN <<>> ELSE Bytes(m)]
Values == INSTANCE ImageValues WITH
  Images <- Names, NoImage <- None, Paint <- Colour,
  value <- [i \in Names |-> IF Is(i) THEN Holding(image[i]) ELSE None],
  buffer <- IF lent = {} THEN <<>> ELSE heap[CHOOSE b \in lent : TRUE]

(* Images are values, and views of the user's buffer where they are made     *)
(* such: what one shows is changed by calls on it alone, or through the      *)
(* buffer it shows.                                                          *)
ImagesAreValues == Values!Spec

(* DrawLine from a to b: the pixels between its ends; those at most `width`  *)
(* beside them; and those of the first column or row that a point off the    *)
(* image may have become on its way through double and size_t.               *)
Between(a, b) == Min({a, b})..Max({a, b})
Covers(a, b, p) == p[1] \in Between(a[1], b[1]) /\ p[2] \in Between(a[2], b[2])
Reaches(a, b, width, p) ==
  \E n \in (-width)..width :
    Covers(a, b, IF a[1] = b[1] THEN <<p[1] + n, p[2]>> ELSE <<p[1], p[2] + n>>)
Astray(a, b, width, p) == \E c \in 1..2 : p[c] = 0 /\ (a[c] < width \/ b[c] < width)

Fills(shape, a, b, width, painted) ==
  \A p \in (0..(shape[1] - 1)) \X (0..(shape[2] - 1)) : Reaches(a, b, width, p) => p \in painted
Stays(shape, a, b, width, painted, negative) ==
  \A p \in painted :
    Inside(shape, p) => Reaches(a, b, width, p) \/ (negative = 0 /\ Astray(a, b, width, p))

BandsOn[shape \in Shapes] ==
  \A e \in Ends, negative \in {0, -1} :
    LET a == e[1]
        b == e[2]
        line == AsSize(Line(a, b), negative)
    IN /\ Fills(shape, a, b, 0, line) /\ Stays(shape, a, b, 0, line, negative)
       /\ a # b => \A thickness \in Widths :
            LET width == thickness \div 2 - 1
                thick == AsSize(ThickLine(a, b, thickness), negative)
            IN /\ Stays(shape, a, b, width, thick, negative)
               /\ b[1] > a[1] \/ b[2] > a[2] => Fills(shape, a, b, width, thick)

(* What a line parallel to an axis paints of an image that there is: every   *)
(* pixel between its ends, whichever it is drawn from, and none beside it; a *)
(* thick one none farther off than its thickness makes it reach, on either   *)
(* side, and all of those if it is drawn to the right or down.  That one     *)
(* drawn to the left or up is as wide is not claimed, for it is not; nor     *)
(* that one of thickness 1 is drawn.  Where a line leaves the image to the   *)
(* left or above, what is cut off may come out in the first column or row    *)
(* (Image.cpp:218, 256-316).                                                 *)
LinesAreBands ==
  \A i \in Names : Is(i) /\ GetByteCount(image[i]) > 0 =>
    BandsOn[<<image[i].w, image[i].h, image[i].ch>>]

(* A reader that takes the rows of a bitmap from the bottom up, each at a    *)
(* multiple of four bytes after the header, finds every row of a             *)
(* three-channel image but the first, one line too high (Bitmap.cpp:12-44,   *)
(* 75-120).  Nothing is claimed of the lowest line, which stands for no row. *)
BitmapHoldsRows ==
  \A i \in Names : Is(i) /\ image[i].ch = 3 =>
    LET m == image[i]
        bitmap == CreateBitmap(m)
        stride == 4 * ((bitmap.width * bitmap.bits + 31) \div 32)
        At(x, line) == SubSeq(bitmap.data, stride * line + 3 * x + 1, stride * line + 3 * x + 3)
    IN /\ bitmap.dataSize = stride * bitmap.height /\ bitmap.fileSize = 54 + bitmap.dataSize
       /\ \A x \in 0..(m.w - 1), y \in 1..(m.h - 1), c \in 1..3 :
            At(x, m.h - y)[4 - c] = Bytes(m)[Offset(m, <<x, y>>) + c]
=============================================================================
