---------------------------- MODULE ImagesProofs ----------------------------
(***************************************************************************)
(* What images are to their users, for any number of variables, blocks and   *)
(* shapes.                                                                   *)
(* - EveryBlockHasOneOwner counts owners; what is inductive says it          *)
(*   pointwise, along with where pixels are: an image that owns a block      *)
(*   shows it, no two own the same, and none owns one of the user's          *)
(*   (Ownership).  That drawing stays in the block needs that what has bytes *)
(*   has a shape that an image can be made with.                             *)
(* - With that, every operation on blocks is one of ImageValues.             *)
(* - Rows of equal length, one behind the other, are where a reader of the   *)
(*   bitmap looks for them: by induction over what FlattenSeq defines.       *)
(* - A line that goes the same way at each step is all between its ends.     *)
(***************************************************************************)
EXTENDS Images, SequenceTheorems, FiniteSetTheorems, TLAPS

Byte == 0..255
Record == [w : Nat, h : Nat, ch : Nat, own : Blocks \cup {0}, data : Blocks \cup {0}]

ImageTypes ==
  /\ image \in [Names -> Record \cup {None}]
  /\ heap \in [Blocks -> Seq(Byte) \cup {Free}]
  /\ lent \subseteq Blocks /\ \A a, b \in lent : a = b
  /\ spoilt \in 0..2

(* What an image owns is there, is not the user's and is what it shows; and  *)
(* nobody else owns it.                                                      *)
OwnsIts(i) ==
  Is(i) /\ image[i].own # 0 =>
    /\ heap[image[i].own] # Free /\ image[i].own \notin lent
    /\ image[i].data = image[i].own
OwnsAlone(i, j) == Is(i) /\ Is(j) /\ image[i].own = image[j].own /\ image[i].own # 0 => i = j

(* What is there is owned, or the user's.                                    *)
Owned(b) == heap[b] # Free /\ b \notin lent => \E i \in Names : Is(i) /\ image[i].own = b

(* What has bytes shows a block that holds them all, and is of some shape.   *)
Shows(i) ==
  Is(i) /\ GetByteCount(image[i]) > 0 =>
    /\ <<image[i].w, image[i].h, image[i].ch>> \in Shapes
    /\ image[i].data \in Blocks /\ heap[image[i].data] # Free
    /\ Len(heap[image[i].data]) >= GetByteCount(image[i])
    /\ image[i].own = image[i].data \/ (image[i].own = 0 /\ image[i].data \in lent)

Ownership ==
  /\ \A i \in Names : OwnsIts(i) /\ Shows(i)
  /\ \A i, j \in Names : OwnsAlone(i, j)
  /\ \A b \in Blocks : Owned(b)
  /\ \A b \in lent : heap[b] # Free

IInv == ImageTypes /\ Ownership

-----------------------------------------------------------------------------
(* Bytes, blocks and shapes.                                                 *)
LEMMA BytesAreNotFree == \A s \in Seq(Byte) : s # Free /\ Len(s) \in Nat
<1>1. SUFFICES ASSUME NEW s \in Seq(Byte), s = Free PROVE FALSE
  BY LenProperties
<1>2. Len(Free) = 1 /\ Free[1] = -1
  BY DEF Free
<1>3. s[1] \in Byte
  BY <1>1, <1>2, ElementOfSeq
<1>4. QED
  BY <1>1, <1>2, <1>3 DEF Byte

LEMMA RecordIsNotNone == \A m \in Record : m # None
<1>1. Blocks \cup {0} \subseteq Nat
  BY BlocksAssumption
<1>2. \A m \in Record : m \in [w : Nat, h : Nat, ch : Nat, own : Nat, data : Nat]
  BY <1>1 DEF Record
<1>3. QED
  BY <1>2, NoneAssumption

LEMMA FreshIsUnused == Unused # {} => Fresh \in Blocks /\ heap[Fresh] = Free /\ Fresh # 0
  BY BlocksAssumption DEF Unused, Fresh

LEMMA ShapeIsNat ==
  ASSUME NEW shape \in Shapes
  PROVE  /\ shape[1] \in Nat \ {0} /\ shape[2] \in Nat \ {0} /\ shape[3] \in Nat \ {0}
         /\ <<shape[1], shape[2], shape[3]>> = shape
         /\ SizeOf(shape) \in Nat /\ SizeOf(shape) <= Len(Colour)
         /\ shape[3] * shape[1] * shape[2] = SizeOf(shape)
<1>1. /\ shape[1] \in Nat \ {0} /\ shape[2] \in Nat \ {0} /\ shape[3] \in Nat \ {0}
      /\ <<shape[1], shape[2], shape[3]>> = shape
  BY ShapesAssumption
<1>2. \A x, y \in Nat : x * y \in Nat
  OBVIOUS
<1>3. SizeOf(shape) \in Nat /\ shape[3] * shape[1] * shape[2] = SizeOf(shape)
  BY <1>1, <1>2 DEF SizeOf
<1>4. QED
  BY <1>1, <1>3, ColourAssumption DEF SizeOf

LEMMA NewBytes ==
  /\ \A n \in Nat : Zeros(n) \in Seq(Byte) /\ Len(Zeros(n)) = n
  /\ \A shape \in Shapes : /\ Filled(SizeOf(shape)) \in Seq(Byte)
                           /\ Len(Filled(SizeOf(shape))) = SizeOf(shape)
<1>1. ASSUME NEW n \in Nat PROVE Zeros(n) \in Seq(Byte) /\ Len(Zeros(n)) = n
  BY DEF Zeros, Byte
<1>2. ASSUME NEW shape \in Shapes
      PROVE  Filled(SizeOf(shape)) \in Seq(Byte) /\ Len(Filled(SizeOf(shape))) = SizeOf(shape)
  <2>1. SizeOf(shape) \in Nat /\ SizeOf(shape) <= Len(Colour)
    BY ShapeIsNat
  <2>2. Colour \in Seq(Byte) /\ Len(Colour) \in Nat
    BY ColourAssumption, LenProperties DEF Byte
  <2>3. \A k \in 1..SizeOf(shape) : Colour[k] \in Byte
    BY <2>1, <2>2, ElementOfSeq
  <2>4. QED
    BY <2>1, <2>3 DEF Filled
<1>3. QED
  BY <1>1, <1>2

LEMMA BytesOfImage ==
  ASSUME ImageTypes, Ownership, NEW i \in Names, Is(i)
  PROVE  /\ image[i] \in Record /\ GetByteCount(image[i]) \in Nat
         /\ Bytes(image[i]) \in Seq(Byte) /\ Len(Bytes(image[i])) = GetByteCount(image[i])
<1> DEFINE m == image[i]
           n == GetByteCount(m)
<1>1. m \in Record
  BY DEF ImageTypes, Is
<1>2. n \in Nat
  <2>1. m.w \in Nat /\ m.h \in Nat /\ m.ch \in Nat
    BY <1>1 DEF Record
  <2>2. \A x, y \in Nat : x * y \in Nat
    OBVIOUS
  <2>3. QED
    BY <2>1, <2>2 DEF GetByteCount
<1> HIDE DEF n
<1>3. CASE n = 0
  <2>1. Bytes(m) = <<>>
    BY <1>3 DEF Bytes, n
  <2>2. QED
    BY <1>1, <1>2, <1>3, <2>1, EmptySeq DEF n
<1>4. CASE n > 0
  <2>1. heap[m.data] \in Seq(Byte) /\ Len(heap[m.data]) >= n
    BY <1>4 DEF Ownership, Shows, ImageTypes, n
  <2>2. Bytes(m) = SubSeq(heap[m.data], 1, n)
    <3>1. GetByteCount(m) # 0
      BY <1>2, <1>4 DEF n
    <3>2. QED
      BY <3>1 DEF Bytes, n
  <2>3. SubSeq(heap[m.data], 1, n) \in Seq(Byte) /\ Len(SubSeq(heap[m.data], 1, n)) = n
    <3> DEFINE block == heap[m.data]
    <3>1. \A k \in 1..n : k \in 1..Len(block)
      BY <1>2, <2>1, LenProperties
    <3>2. \A k \in 1..n : block[k] \in Byte
      BY <2>1, <3>1, ElementOfSeq
    <3> HIDE DEF block
    <3>3. SubSeq(block, 1, n) \in Seq(Byte) /\ Len(SubSeq(block, 1, n)) = IF 1 <= n THEN n - 1 + 1 ELSE 0
      BY <1>2, <3>2, SubSeqProperties
    <3>4. QED
      BY <1>2, <1>4, <3>3 DEF block
  <2>4. QED
    BY <1>1, <1>2, <2>2, <2>3 DEF n
<1>5. QED
  BY <1>2, <1>3, <1>4

-----------------------------------------------------------------------------
(* The kinds of step.  An image gets a block of its own, and its old one, if *)
(* it had one, is freed.                                                     *)
LEMMA FreshBlock ==
  ASSUME ImageTypes, Ownership, Unused # {}, NEW i \in Names, NEW m \in Record, NEW bytes \in Seq(Byte),
         m.own = Fresh, m.data = Fresh,
         GetByteCount(m) > 0 => <<m.w, m.h, m.ch>> \in Shapes /\ Len(bytes) >= GetByteCount(m),
         image' = [image EXCEPT ![i] = m],
         heap' = [b \in Blocks |-> IF b = Fresh THEN bytes
                                   ELSE IF Is(i) /\ b = image[i].own THEN Free ELSE heap[b]],
         UNCHANGED <<lent, spoilt>>
  PROVE  IInv'
<1>1. Fresh \in Blocks /\ heap[Fresh] = Free /\ Fresh # 0 /\ bytes # Free /\ m # None
  BY FreshIsUnused, BytesAreNotFree, RecordIsNotNone
<1>2. /\ image'[i] = m /\ \A k \in Names : k # i => image'[k] = image[k]
      /\ heap'[Fresh] = bytes
      /\ \A b \in Blocks : b # Fresh => heap'[b] = IF Is(i) /\ b = image[i].own THEN Free ELSE heap[b]
  BY <1>1 DEF ImageTypes
<1>3. ImageTypes'
  BY <1>1, RecordIsNotNone DEF ImageTypes
<1>4. \A k \in Names : Is(k) => image[k].own # Fresh
  BY <1>1 DEF Ownership, OwnsIts
<1>5. Fresh \notin lent
  BY <1>1 DEF Ownership
<1>6. \A k \in Names : Is(k) => image[k] \in Record
  BY DEF ImageTypes, Is
<1>7. ASSUME NEW k \in Names PROVE OwnsIts(k)'
  <2>1. CASE k = i
    BY <1>1, <1>2, <1>5, <2>1 DEF OwnsIts
  <2>2. CASE k # i
    <3>1. SUFFICES ASSUME Is(k), image[k].own # 0
                   PROVE  /\ heap'[image[k].own] # Free /\ image[k].own \notin lent
                          /\ image[k].data = image[k].own
      BY <1>2, <2>2 DEF OwnsIts, Is
    <3>2. heap[image[k].own] # Free /\ image[k].own \in Blocks /\ image[k].own # Fresh
      BY <1>1, <1>4, <1>6, <3>1 DEF Ownership, OwnsIts, Record
    <3>3. ~(Is(i) /\ image[k].own = image[i].own)
      BY <2>2, <3>1 DEF Ownership, OwnsAlone
    <3>4. QED
      BY <1>2, <3>1, <3>2, <3>3 DEF Ownership, OwnsIts
  <2>3. QED
    BY <2>1, <2>2
<1>8. ASSUME NEW k \in Names, NEW l \in Names PROVE OwnsAlone(k, l)'
  BY <1>2, <1>4 DEF Ownership, OwnsAlone, Is
<1>9. ASSUME NEW b \in Blocks PROVE Owned(b)'
  <2>1. CASE b = Fresh
    BY <1>1, <1>2, <2>1 DEF Owned, Is
  <2>2. CASE b # Fresh
    <3>1. SUFFICES ASSUME heap[b] # Free, b \notin lent, ~(Is(i) /\ b = image[i].own)
                   PROVE  \E k \in Names : Is(k)' /\ image'[k].own = b
      BY <1>2, <2>2 DEF Owned
    <3>2. PICK k \in Names : Is(k) /\ image[k].own = b
      BY <3>1 DEF Ownership, Owned
    <3>3. k # i
      BY <3>1, <3>2
    <3>4. QED
      BY <1>2, <3>2, <3>3 DEF Is
  <2>3. QED
    BY <2>1, <2>2
<1>10. ASSUME NEW k \in Names PROVE Shows(k)'
  <2>1. CASE k = i
    BY <1>1, <1>2, <2>1 DEF Shows, GetByteCount
  <2>2. CASE k # i
    <3>1. SUFFICES ASSUME Is(k), GetByteCount(image[k]) > 0
                   PROVE  /\ <<image[k].w, image[k].h, image[k].ch>> \in Shapes
                          /\ image[k].data \in Blocks /\ heap'[image[k].data] # Free
                          /\ Len(heap'[image[k].data]) >= GetByteCount(image[k])
                          /\ image[k].own = image[k].data \/ (image[k].own = 0 /\ image[k].data \in lent)
      BY <1>2, <2>2 DEF Shows, Is, GetByteCount
    <3>2. /\ <<image[k].w, image[k].h, image[k].ch>> \in Shapes
          /\ image[k].data \in Blocks /\ heap[image[k].data] # Free
          /\ Len(heap[image[k].data]) >= GetByteCount(image[k])
          /\ image[k].own = image[k].data \/ (image[k].own = 0 /\ image[k].data \in lent)
      BY <3>1 DEF Ownership, Shows
    <3>3. image[k].data # Fresh /\ image[k].data # 0
      BY <1>1, <3>2, BlocksAssumption
    <3>4. ~(Is(i) /\ image[k].data = image[i].own)
      <4>1. SUFFICES ASSUME Is(i), image[k].data = image[i].own PROVE FALSE
        OBVIOUS
      <4>2. image[i].own \notin lent
        BY <3>3, <4>1 DEF Ownership, OwnsIts
      <4>3. image[k].own = image[i].own /\ image[k].own # 0
        BY <3>2, <3>3, <4>1, <4>2
      <4>4. QED
        BY <2>2, <3>1, <4>1, <4>3 DEF Ownership, OwnsAlone
    <3>5. heap'[image[k].data] = heap[image[k].data]
      BY <1>2, <3>2, <3>3, <3>4
    <3>6. QED
      BY <3>2, <3>5
  <2>3. QED
    BY <2>1, <2>2
<1>11. \A b \in lent' : heap'[b] # Free
  <2>1. SUFFICES ASSUME NEW b \in lent PROVE heap'[b] # Free
    OBVIOUS
  <2>2. b \in Blocks /\ b # 0 /\ b # Fresh /\ heap[b] # Free
    BY <1>5, BlocksAssumption DEF ImageTypes, Ownership
  <2>3. ~(Is(i) /\ b = image[i].own)
    BY <2>2 DEF Ownership, OwnsIts
  <2>4. QED
    BY <1>2, <2>2, <2>3
<1>12. QED
  BY <1>3, <1>7, <1>8, <1>9, <1>10, <1>11 DEF IInv, Ownership

(* A new image owns no block; it may look at the user's.                     *)
LEMMA NoBlock ==
  ASSUME ImageTypes, Ownership, NEW i \in Names, ~Is(i), NEW m \in Record, m.own = 0,
         GetByteCount(m) > 0 =>
           /\ <<m.w, m.h, m.ch>> \in Shapes /\ m.data \in lent /\ Len(heap[m.data]) >= GetByteCount(m),
         image' = [image EXCEPT ![i] = m], UNCHANGED <<heap, lent, spoilt>>
  PROVE  IInv'
<1>1. m # None /\ image'[i] = m /\ \A k \in Names : k # i => image'[k] = image[k]
  BY RecordIsNotNone DEF ImageTypes
<1>2. ImageTypes'
  BY DEF ImageTypes
<1>3. \A k \in Names : OwnsIts(k)' /\ Shows(k)'
  <2>1. OwnsIts(i)' /\ Shows(i)'
    BY <1>1 DEF OwnsIts, Shows, ImageTypes, Ownership, GetByteCount
  <2>2. ASSUME NEW k \in Names, k # i PROVE OwnsIts(k)' /\ Shows(k)'
    BY <1>1, <2>2 DEF OwnsIts, Shows, Ownership, Is, GetByteCount
  <2>3. QED
    BY <2>1, <2>2
<1>4. \A k, l \in Names : OwnsAlone(k, l)'
  BY <1>1 DEF OwnsAlone, Ownership, Is
<1>5. \A b \in Blocks : Owned(b)'
  BY <1>1 DEF Owned, Ownership, Is
<1>6. QED
  BY <1>2, <1>3, <1>4, <1>5 DEF IInv, Ownership

(* Bytes change and nothing else.                                            *)
LEMMA SameBlocks ==
  ASSUME ImageTypes, Ownership, heap' \in [Blocks -> Seq(Byte) \cup {Free}],
         \A b \in Blocks : (heap'[b] = Free <=> heap[b] = Free) /\ Len(heap'[b]) = Len(heap[b]),
         UNCHANGED <<image, lent, spoilt>>
  PROVE  IInv'
<1>1. ImageTypes'
  BY DEF ImageTypes
<1>2. ASSUME NEW k \in Names PROVE OwnsIts(k)' /\ Shows(k)'
  <2>1. Is(k) => image[k] \in Record
    BY DEF ImageTypes, Is
  <2>2. OwnsIts(k)'
    BY <2>1 DEF OwnsIts, Ownership, Is, Record
  <2>3. Shows(k)'
    BY <2>1 DEF Shows, Ownership, Is, GetByteCount
  <2>4. QED
    BY <2>2, <2>3
<1>3. \A k, l \in Names : OwnsAlone(k, l)'
  BY DEF OwnsAlone, Ownership, Is
<1>4. \A b \in Blocks : Owned(b)'
  BY DEF Owned, Ownership, Is
<1>5. \A b \in lent' : heap'[b] # Free
  BY DEF Ownership, ImageTypes
<1>6. QED
  BY <1>1, <1>2, <1>3, <1>4, <1>5 DEF IInv, Ownership

-----------------------------------------------------------------------------
(* Each operation.                                                           *)
LEMMA OverShape ==
  ASSUME NEW shape \in Shapes, NEW own \in Blocks \cup {0}, NEW data \in Blocks \cup {0}
  PROVE  LET m == Over(shape, own, data) IN
         /\ m \in Record /\ m.own = own /\ m.data = data
         /\ GetByteCount(m) = SizeOf(shape) /\ <<m.w, m.h, m.ch>> = shape
<1>1. /\ shape[1] \in Nat \ {0} /\ shape[2] \in Nat \ {0} /\ shape[3] \in Nat \ {0}
      /\ <<shape[1], shape[2], shape[3]>> = shape
      /\ shape[3] * shape[1] * shape[2] = SizeOf(shape)
  BY ShapeIsNat
<1>2. QED
  BY <1>1 DEF Over, Made, Record, GetByteCount

LEMMA EmptyImage ==
  ASSUME NEW own \in Blocks \cup {0}, NEW data \in Blocks \cup {0}
  PROVE  LET m == Made(0, 0, 0, own, data) IN
         m \in Record /\ m.own = own /\ m.data = data /\ GetByteCount(m) = 0
BY DEF Made, Record, GetByteCount

LEMMA ConstructOwns ==
  ASSUME IInv, NEW i \in Names, Construct(i) \/ ConstructObserving(i)
  PROVE  IInv'
<1>1. ImageTypes /\ Ownership
  BY DEF IInv
<1>2. CASE Construct(i)
  <2>1. PICK m : m = Made(0, 0, 0, 0, 0)
    OBVIOUS
  <2>2. m \in Record /\ m.own = 0 /\ m.data = 0 /\ GetByteCount(m) = 0
    BY <2>1, EmptyImage
  <2>3. ~Is(i) /\ image' = [image EXCEPT ![i] = m] /\ UNCHANGED <<heap, lent, spoilt>>
    BY <1>2, <2>1 DEF Construct
  <2>4. ~(GetByteCount(m) > 0)
    BY <2>2
  <2>5. QED
    BY <1>1, <2>2, <2>3, <2>4, NoBlock, Zenon
<1>3. CASE ConstructObserving(i)
  <2>1. PICK shape \in Shapes, b \in lent :
          /\ Len(heap[b]) >= SizeOf(shape)
          /\ image' = [image EXCEPT ![i] = Over(shape, 0, b)]
    BY <1>3 DEF ConstructObserving
  <2>2. PICK m : m = Over(shape, 0, b)
    OBVIOUS
  <2>3. m \in Record /\ m.own = 0 /\ m.data = b /\ GetByteCount(m) = SizeOf(shape) /\ <<m.w, m.h, m.ch>> = shape
    <3>1. b \in Blocks \cup {0} /\ 0 \in Blocks \cup {0}
      BY <1>1 DEF ImageTypes
    <3>2. QED
      BY <2>2, <3>1, OverShape
  <2>4. ~Is(i) /\ image' = [image EXCEPT ![i] = m] /\ UNCHANGED <<heap, lent, spoilt>>
    BY <1>3, <2>1, <2>2 DEF ConstructObserving
  <2>5. <<m.w, m.h, m.ch>> \in Shapes /\ m.data \in lent /\ Len(heap[m.data]) >= GetByteCount(m)
    BY <2>1, <2>3
  <2>6. QED
    BY <1>1, <2>3, <2>4, <2>5, NoBlock, Zenon
<1>4. QED
  BY <1>2, <1>3

(* A new block's bytes, in the image that gets it: a constructor or Set.     *)
LEMMA NewBlockDoes ==
  ASSUME IInv, NEW i \in Names, ConstructSized(i) \/ ConstructAdopting(i) \/ Set(i)
  PROVE  /\ Unused # {} /\ UNCHANGED <<lent, spoilt>>
         /\ \E shape \in Shapes, bytes \in Seq(Byte) :
              /\ bytes = Zeros(SizeOf(shape)) \/ bytes = Filled(SizeOf(shape))
              /\ Len(bytes) = SizeOf(shape)
              /\ image' = [image EXCEPT ![i] = Over(shape, Fresh, Fresh)]
              /\ heap' = [b \in Blocks |->
                           IF b = Fresh THEN bytes
                           ELSE IF Is(i) /\ b = image[i].own THEN Free ELSE heap[b]]
<1>1. ImageTypes /\ Ownership /\ Unused # {} /\ UNCHANGED <<lent, spoilt>>
  BY DEF IInv, ConstructSized, ConstructAdopting, Set
<1>2. PICK shape \in Shapes, bytes \in Seq(Byte) :
        /\ bytes = Zeros(SizeOf(shape)) \/ bytes = Filled(SizeOf(shape))
        /\ Len(bytes) = SizeOf(shape)
        /\ image' = [image EXCEPT ![i] = Over(shape, Fresh, Fresh)]
        /\ \/ ~Is(i) /\ heap' = With(heap, Fresh, bytes)
           \/ heap' = Dropped(With(heap, Fresh, bytes), image[i])
  BY NewBytes, ShapeIsNat DEF ConstructSized, ConstructAdopting, Set
<1>3. Fresh \in Blocks /\ heap[Fresh] = Free /\ Fresh # 0
  BY <1>1, FreshIsUnused
<1>4. Is(i) => image[i].own # Fresh
  BY <1>1, <1>3 DEF Ownership, OwnsIts
<1>5. heap' = [b \in Blocks |-> IF b = Fresh THEN bytes
                                ELSE IF Is(i) /\ b = image[i].own THEN Free ELSE heap[b]]
  BY <1>1, <1>2, <1>3, <1>4 DEF With, Dropped, ImageTypes, Is
<1>6. QED
  BY <1>1, <1>2, <1>5

LEMMA NewBlockOwns ==
  ASSUME IInv, NEW i \in Names, ConstructSized(i) \/ ConstructAdopting(i) \/ Set(i)
  PROVE  IInv'
<1>1. ImageTypes /\ Ownership /\ Unused # {} /\ UNCHANGED <<lent, spoilt>>
  BY NewBlockDoes DEF IInv
<1>2. PICK shape \in Shapes, bytes \in Seq(Byte) :
        /\ Len(bytes) = SizeOf(shape)
        /\ image' = [image EXCEPT ![i] = Over(shape, Fresh, Fresh)]
        /\ heap' = [b \in Blocks |-> IF b = Fresh THEN bytes
                                     ELSE IF Is(i) /\ b = image[i].own THEN Free ELSE heap[b]]
  BY NewBlockDoes
<1>3. PICK m : m = Over(shape, Fresh, Fresh)
  OBVIOUS
<1>4. Fresh \in Blocks
  BY <1>1, FreshIsUnused
<1>5. /\ m \in Record /\ m.own = Fresh /\ m.data = Fresh
      /\ GetByteCount(m) = SizeOf(shape) /\ <<m.w, m.h, m.ch>> = shape /\ SizeOf(shape) \in Nat
  BY <1>3, <1>4, OverShape, ShapeIsNat
<1>6. image' = [image EXCEPT ![i] = m]
  BY <1>2, <1>3
<1>7. <<m.w, m.h, m.ch>> \in Shapes /\ Len(bytes) >= GetByteCount(m)
  BY <1>2, <1>5, SMTT(30)
<1>8. QED
  BY <1>1, <1>2, <1>5, <1>6, <1>7, FreshBlock, Zenon

(* A copy's bytes: those of its source, or zeros if that is itself.          *)
LEMMA CopyDoes ==
  ASSUME IInv, NEW i \in Names, NEW j \in Names, Copy(i, j)
  PROVE  LET n == GetByteCount(image[j])
             m == Made(image[j].w, image[j].h, image[j].ch, Fresh, Fresh)
             bytes == IF i = j THEN Zeros(n) ELSE Bytes(image[j]) IN
         /\ Unused # {} /\ Is(j) /\ UNCHANGED <<lent, spoilt>>
         /\ n \in Nat /\ bytes \in Seq(Byte) /\ Len(bytes) = n
         /\ m \in Record /\ m.own = Fresh /\ m.data = Fresh /\ GetByteCount(m) = n
         /\ m.w = image[j].w /\ m.h = image[j].h /\ m.ch = image[j].ch
         /\ image' = [image EXCEPT ![i] = m]
         /\ heap' = [b \in Blocks |-> IF b = Fresh THEN bytes
                                      ELSE IF Is(i) /\ b = image[i].own THEN Free ELSE heap[b]]
<1>1. ImageTypes /\ Ownership /\ Unused # {} /\ UNCHANGED <<lent, spoilt>> /\ Is(j) /\ Copied(i, j)
  BY DEF IInv, Copy
<1> DEFINE n == GetByteCount(image[j])
           m == Made(image[j].w, image[j].h, image[j].ch, Fresh, Fresh)
           bytes == IF i = j THEN Zeros(n) ELSE Bytes(image[j])
<1>2. /\ image[j] \in Record /\ n \in Nat
      /\ Bytes(image[j]) \in Seq(Byte) /\ Len(Bytes(image[j])) = n
      /\ Zeros(n) \in Seq(Byte) /\ Len(Zeros(n)) = n
  BY <1>1, BytesOfImage, NewBytes
<1>3. Fresh \in Blocks /\ heap[Fresh] = Free /\ Fresh # 0
  BY <1>1, FreshIsUnused
<1>4. Is(i) => image[i].own # Fresh
  BY <1>1, <1>3 DEF Ownership, OwnsIts
<1>5. /\ m \in Record /\ m.own = Fresh /\ m.data = Fresh /\ GetByteCount(m) = n
      /\ m.w = image[j].w /\ m.h = image[j].h /\ m.ch = image[j].ch
  BY <1>2, <1>3 DEF Made, Record, GetByteCount
<1>6. heap' = [b \in Blocks |-> IF b = Fresh THEN bytes
                                ELSE IF Is(i) /\ b = image[i].own THEN Free ELSE heap[b]]
  <2> DEFINE dropped == Dropped(With(heap, Fresh, Zeros(n)), image[i])
             source == IF i = j THEN dropped[Fresh] ELSE Bytes(image[j])
  <2>1. dropped = [b \in Blocks |-> IF b = Fresh THEN Zeros(n)
                                    ELSE IF Is(i) /\ b = image[i].own THEN Free ELSE heap[b]]
    BY <1>1, <1>3, <1>4 DEF With, Dropped, ImageTypes, Is
  <2>2. heap' = With(dropped, Fresh, source)
    BY <1>1 DEF Copied
  <2> HIDE DEF dropped, n
  <2>3. source = bytes
    BY <1>3, <2>1
  <2> HIDE DEF bytes, source
  <2>4. QED
    BY <1>3, <2>1, <2>2, <2>3 DEF With
<1>7. image' = [image EXCEPT ![i] = m]
  BY <1>1 DEF Copied
<1>8. bytes \in Seq(Byte) /\ Len(bytes) = n
  <2> HIDE DEF n
  <2>1. QED
    BY <1>2
<1> HIDE DEF n, m, bytes
<1>9. QED
  BY <1>1, <1>2, <1>5, <1>6, <1>7, <1>8 DEF n, m, bytes

LEMMA CopyOwns ==
  ASSUME IInv, NEW i \in Names, NEW j \in Names, Copy(i, j)
  PROVE  IInv'
<1> DEFINE n == GetByteCount(image[j])
           m == Made(image[j].w, image[j].h, image[j].ch, Fresh, Fresh)
           bytes == IF i = j THEN Zeros(n) ELSE Bytes(image[j])
<1>1. ImageTypes /\ Ownership
  BY DEF IInv
<1>2. /\ Unused # {} /\ Is(j) /\ UNCHANGED <<lent, spoilt>>
      /\ n \in Nat /\ bytes \in Seq(Byte) /\ Len(bytes) = n
      /\ m \in Record /\ m.own = Fresh /\ m.data = Fresh /\ GetByteCount(m) = n
      /\ m.w = image[j].w /\ m.h = image[j].h /\ m.ch = image[j].ch
      /\ image' = [image EXCEPT ![i] = m]
      /\ heap' = [b \in Blocks |-> IF b = Fresh THEN bytes
                                   ELSE IF Is(i) /\ b = image[i].own THEN Free ELSE heap[b]]
  BY CopyDoes
<1> HIDE DEF m, bytes
<1>3. GetByteCount(m) > 0 => <<m.w, m.h, m.ch>> \in Shapes
  BY <1>1, <1>2 DEF Ownership, Shows
<1> HIDE DEF n
<1>4. Len(bytes) >= GetByteCount(m)
  BY <1>2
<1>5. QED
  BY <1>1, <1>2, <1>3, <1>4, FreshBlock, Zenon

(* An image drops its block; the others keep theirs.  It is then None, empty,*)
(* or has what another had, which that one gives up.                         *)
LEMMA DroppedOwns ==
  ASSUME ImageTypes, Ownership, NEW i \in Names, NEW j \in Names, NEW new \in Record \cup {None},
         \/ j = i /\ new = None
         \/ j # i /\ Is(j) /\ new = image[j],
         image' = [image EXCEPT ![i] = new, ![j] = IF j = i THEN None ELSE Made(0, 0, 0, 0, image[j].data)],
         heap' = Dropped(heap, image[i]), UNCHANGED <<lent, spoilt>>
  PROVE  IInv'
<1> DEFINE e == Made(0, 0, 0, 0, image[j].data)
<1>1. /\ j # i => /\ image'[i] = image[j] /\ image[j] # None /\ image'[j] = e
                  /\ e \in Record /\ e # None /\ e.own = 0 /\ GetByteCount(e) = 0
      /\ j = i => image'[i] = None
      /\ \A k \in Names : k # i /\ k # j => image'[k] = image[k]
      /\ \A k \in Names : Is(k) => image[k] \in Record
  <2>1. \A k \in Names : Is(k) => image[k] \in Record
    BY DEF ImageTypes, Is
  <2>2. j # i => e \in Record /\ e # None /\ e.own = 0 /\ GetByteCount(e) = 0
    <3>1. SUFFICES ASSUME j # i PROVE e \in Record /\ e.own = 0 /\ GetByteCount(e) = 0
      BY RecordIsNotNone
    <3>2. image[j].data \in Blocks \cup {0} /\ 0 \in Blocks \cup {0}
      BY <2>1, <3>1 DEF Record
    <3>3. QED
      BY <3>2, EmptyImage
  <2> HIDE DEF e
  <2>3. image' = [image EXCEPT ![i] = new, ![j] = IF j = i THEN None ELSE e]
    BY DEF e
  <2>4. image \in [Names -> Record \cup {None}]
    BY DEF ImageTypes
  <2>5. QED
    BY <2>1, <2>2, <2>3, <2>4 DEF Is
<1>2. \A b \in Blocks : heap'[b] = IF Is(i) /\ b = image[i].own THEN Free ELSE heap[b]
  BY DEF Dropped, Is
<1>3. ImageTypes'
  <2>1. heap' \in [Blocks -> Seq(Byte) \cup {Free}]
    BY DEF Dropped, ImageTypes
  <2>2. image' \in [Names -> Record \cup {None}]
    <3>1. j # i => e \in Record
      BY <1>1
    <3> HIDE DEF e
    <3>2. image' = [image EXCEPT ![i] = new, ![j] = IF j = i THEN None ELSE e]
      BY DEF e
    <3>3. QED
      BY <3>1, <3>2 DEF ImageTypes
  <2>3. QED
    BY <2>1, <2>2 DEF ImageTypes
<1> HIDE DEF e
(* What an image owns or shows after the step, one other than i owned or     *)
(* showed before it.                                                         *)
<1>4. ASSUME NEW k \in Names
      PROVE  \/ image'[k] = None \/ (image'[k] = e /\ k = j /\ j # i)
             \/ \E l \in Names : l # i /\ Is(l) /\ image'[k] = image[l] /\ (l = k \/ (k = i /\ l = j /\ j # i))
  BY <1>1 DEF Is
<1>5. ASSUME NEW l \in Names, l # i, Is(l), image[l].own # 0
      PROVE  image[l].own \in Blocks /\ heap'[image[l].own] = heap[image[l].own]
  BY <1>1, <1>2, <1>5 DEF Ownership, OwnsAlone, Record
<1>6. ASSUME NEW k \in Names PROVE OwnsIts(k)'
  <2>1. SUFFICES ASSUME image'[k] # None, image'[k].own # 0
                 PROVE  /\ heap'[image'[k].own] # Free /\ image'[k].own \notin lent
                        /\ image'[k].data = image'[k].own
    BY DEF OwnsIts, Is
  <2>2. PICK l \in Names : l # i /\ Is(l) /\ image'[k] = image[l]
    BY <1>1, <1>4, <2>1
  <2>3. QED
    BY <1>5, <2>1, <2>2 DEF Ownership, OwnsIts
<1>7. ASSUME NEW k \in Names, NEW l \in Names PROVE OwnsAlone(k, l)'
  <2>1. SUFFICES ASSUME image'[k] # None, image'[l] # None, image'[k].own = image'[l].own, image'[k].own # 0
                 PROVE  k = l
    BY DEF OwnsAlone, Is
  <2>2. PICK x \in Names : x # i /\ Is(x) /\ image'[k] = image[x] /\ (x = k \/ (k = i /\ x = j /\ j # i))
    BY <1>1, <1>4, <2>1
  <2>3. PICK y \in Names : y # i /\ Is(y) /\ image'[l] = image[y] /\ (y = l \/ (l = i /\ y = j /\ j # i))
    BY <1>1, <1>4, <2>1
  <2>4. x = y
    BY <2>1, <2>2, <2>3 DEF Ownership, OwnsAlone
  <2>5. j # i => image'[j].own = 0
    BY <1>1
  <2>6. QED
    BY <2>1, <2>2, <2>3, <2>4, <2>5
<1>8. ASSUME NEW b \in Blocks PROVE Owned(b)'
  <2>1. SUFFICES ASSUME heap[b] # Free, b \notin lent, ~(Is(i) /\ b = image[i].own)
                 PROVE  \E k \in Names : image'[k] # None /\ image'[k].own = b
    BY <1>2 DEF Owned, Is
  <2>2. PICK l \in Names : Is(l) /\ image[l].own = b
    BY <2>1 DEF Ownership, Owned
  <2>3. l # i
    BY <2>1, <2>2
  <2>4. CASE l = j
    BY <1>1, <2>2, <2>3, <2>4
  <2>5. CASE l # j
    BY <1>1, <2>2, <2>3, <2>5 DEF Is
  <2>6. QED
    BY <2>4, <2>5
<1>9. ASSUME NEW k \in Names PROVE Shows(k)'
  <2>1. SUFFICES ASSUME image'[k] # None, GetByteCount(image'[k]) > 0
                 PROVE  /\ <<image'[k].w, image'[k].h, image'[k].ch>> \in Shapes
                        /\ image'[k].data \in Blocks /\ heap'[image'[k].data] # Free
                        /\ Len(heap'[image'[k].data]) >= GetByteCount(image'[k])
                        /\ image'[k].own = image'[k].data \/ (image'[k].own = 0 /\ image'[k].data \in lent)
    BY DEF Shows, Is, GetByteCount
  <2>2. image'[k] # e \/ ~(j # i)
    <3>1. ~(0 > 0)
      OBVIOUS
    <3>2. QED
      BY <1>1, <2>1, <3>1
  <2>3. PICK l \in Names : l # i /\ Is(l) /\ image'[k] = image[l]
    BY <1>4, <2>1, <2>2
  <2>4. /\ <<image[l].w, image[l].h, image[l].ch>> \in Shapes
        /\ image[l].data \in Blocks /\ heap[image[l].data] # Free
        /\ Len(heap[image[l].data]) >= GetByteCount(image[l])
        /\ image[l].own = image[l].data \/ (image[l].own = 0 /\ image[l].data \in lent)
    BY <2>1, <2>3 DEF Ownership, Shows
  <2>5. heap'[image[l].data] = heap[image[l].data]
    <3>1. image[l].data # 0
      BY <2>4, BlocksAssumption
    <3>2. CASE image[l].own = image[l].data
      BY <1>5, <2>3, <3>1, <3>2
    <3>3. CASE image[l].data \in lent
      <4>1. ~(Is(i) /\ image[l].data = image[i].own)
        BY <3>1, <3>3 DEF Ownership, OwnsIts
      <4>2. QED
        BY <1>2, <2>4, <4>1
    <3>4. QED
      BY <2>4, <3>2, <3>3
  <2>6. QED
    BY <2>3, <2>4, <2>5
<1>10. \A b \in lent' : heap'[b] # Free
  <2>1. SUFFICES ASSUME NEW b \in lent PROVE heap'[b] # Free
    OBVIOUS
  <2>2. b \in Blocks /\ b # 0 /\ heap[b] # Free
    BY BlocksAssumption DEF ImageTypes, Ownership
  <2>3. ~(Is(i) /\ b = image[i].own)
    BY <2>2 DEF Ownership, OwnsIts
  <2>4. QED
    BY <1>2, <2>2, <2>3
<1>11. QED
  BY <1>3, <1>6, <1>7, <1>8, <1>9, <1>10 DEF IInv, Ownership

LEMMA DestroyOwns ==
  ASSUME IInv, NEW i \in Names, Destroy(i)
  PROVE  IInv'
<1>1. ImageTypes /\ Ownership /\ heap' = Dropped(heap, image[i]) /\ UNCHANGED <<lent, spoilt>>
  BY DEF IInv, Destroy
<1>2. PICK j : j = i
  OBVIOUS
<1>3. image' = [image EXCEPT ![i] = None, ![j] = IF j = i THEN None ELSE Made(0, 0, 0, 0, image[j].data)]
  BY <1>1, <1>2 DEF Destroy, ImageTypes
<1>4. QED
  BY <1>1, <1>2, <1>3, DroppedOwns

LEMMA MoveOwns ==
  ASSUME IInv, NEW i \in Names, NEW j \in Names, Move(i, j)
  PROVE  IInv'
<1>1. ImageTypes /\ Ownership /\ Is(j) /\ Moved(i, j) /\ UNCHANGED <<lent, spoilt>>
  BY DEF IInv, Move
<1>2. CASE i # j
  <2>1. PICK new \in Record \cup {None} : new = image[j]
    BY <1>1 DEF ImageTypes
  <2>2. /\ image' = [image EXCEPT ![i] = new, ![j] = IF j = i THEN None ELSE Made(0, 0, 0, 0, image[j].data)]
        /\ heap' = Dropped(heap, image[i])
    BY <1>1, <1>2, <2>1 DEF Moved
  <2>3. QED
    BY <1>1, <1>2, <2>1, <2>2, DroppedOwns
<1>3. CASE i = j
  <2>1. PICK m : m = Made(0, 0, 0, image[i].own, image[i].data)
    OBVIOUS
  <2>2. image[i] \in Record /\ image' = [image EXCEPT ![i] = m] /\ UNCHANGED <<heap, lent, spoilt>>
    BY <1>1, <1>3, <2>1 DEF Moved, ImageTypes, Is
  <2>3. m \in Record /\ m.own = image[i].own /\ m.data = image[i].data /\ ~(GetByteCount(m) > 0) /\ m # None
    <3>1. m \in Record /\ m.own = image[i].own /\ m.data = image[i].data /\ GetByteCount(m) = 0
      BY <2>1, <2>2, EmptyImage DEF Record
    <3>2. QED
      BY <3>1, RecordIsNotNone
  <2>4. image'[i] = m /\ \A k \in Names : k # i => image'[k] = image[k]
    BY <1>1, <2>2 DEF ImageTypes
  <2>5. \A k \in Names : (Is(k)' <=> Is(k)) /\ (Is(k) => image'[k].own = image[k].own /\ image'[k].data = image[k].data)
    BY <1>1, <1>3, <2>3, <2>4 DEF Is
  <2>6. ImageTypes'
    BY <1>1, <2>2, <2>3 DEF ImageTypes
  <2>7. ASSUME NEW k \in Names PROVE OwnsIts(k)' /\ Shows(k)'
    <3>1. OwnsIts(k)'
      BY <1>1, <2>2, <2>5 DEF OwnsIts, Ownership
    <3>2. CASE k = i
      BY <2>3, <2>4, <3>1, <3>2 DEF Shows, GetByteCount
    <3>3. CASE k # i
      BY <1>1, <2>2, <2>4, <3>1, <3>3 DEF Shows, Ownership, Is, GetByteCount
    <3>4. QED
      BY <3>1, <3>2, <3>3
  <2>8. \A k, l \in Names : OwnsAlone(k, l)'
    BY <1>1, <2>5 DEF OwnsAlone, Ownership
  <2>9. \A b \in Blocks : Owned(b)'
    BY <1>1, <2>2, <2>5 DEF Owned, Ownership
  <2>10. QED
    BY <1>1, <2>2, <2>6, <2>7, <2>8, <2>9 DEF IInv, Ownership
<1>4. QED
  BY <1>2, <1>3

-----------------------------------------------------------------------------
(* Drawing.  The pixel of an image at column x of row y, counted in whole    *)
(* pixels, ends in its block.                                                *)
LEMMA PixelInBlock ==
  ASSUME NEW w \in Nat \ {0}, NEW h \in Nat \ {0}, NEW ch \in Nat \ {0},
         NEW x \in 0..(w - 1), NEW y \in 0..(h - 1)
  PROVE  (w * y + x) * ch \in Nat /\ (w * y + x) * ch + ch <= ch * w * h
<1>0. \A a, b \in Nat : a * b \in Nat
  OBVIOUS
<1>1. PICK u \in Nat : h = (y + 1) + u
  <2>1. h - (y + 1) \in Nat
    OBVIOUS
  <2>2. QED
    BY <2>1
<1>2. PICK v \in Nat : w = (x + 1) + v
  <2>1. w - (x + 1) \in Nat
    OBVIOUS
  <2>2. QED
    BY <2>1
<1>3. w * u \in Nat /\ w * y \in Nat /\ x \in Nat
  BY <1>0
<1>4. w * h = w * y + w + w * u
  BY <1>1
<1> DEFINE before == w * y + x
           behind == w * u + v
<1>5. before \in Nat /\ behind \in Nat /\ w * h = before + 1 + behind
  <2> DEFINE a == w * y
             b == w * u
             c == w * h
  <2>1. a \in Nat /\ b \in Nat /\ c = a + w + b
    BY <1>3, <1>4
  <2> HIDE DEF a, b, c
  <2>2. a + x \in Nat /\ b + v \in Nat /\ c = (a + x) + 1 + (b + v)
    BY <1>2, <1>3, <2>1
  <2>3. QED
    BY <2>2 DEF a, b, c
<1> HIDE DEF before, behind
<1>6. ch * (before + 1 + behind) = before * ch + ch + ch * behind
  BY <1>5
<1>7. ch * behind \in Nat /\ before * ch \in Nat
  BY <1>0, <1>5
<1>8. ch * w * h = ch * (w * h)
  BY <1>0
<1> DEFINE a == before * ch
           b == ch * behind
           c == ch * (w * h)
<1>9. c = a + ch + b /\ a \in Nat /\ b \in Nat
  BY <1>5, <1>6, <1>7
<1> HIDE DEF a, b, c
<1>10. a + ch <= c
  BY <1>9
<1>11. QED
  BY <1>7, <1>8, <1>10 DEF a, c, before

(* A byte that is the c-th of a drawn pixel, counted from either end: where  *)
(* the pixel starts, or which pixel it is and which of its channels.         *)
LEMMA PixelOfByte ==
  ASSUME NEW ch \in Nat \ {0}, ch >= 3, NEW points \in SUBSET Nat, NEW k \in Nat \ {0}
  PROVE  LET hit == {q * ch : q \in points} IN
         /\ \A c \in 1..3 : k - c \in hit =>
              (k - 1) \div ch \in points /\ (k - 1) % ch < 3 /\ c = ((k - 1) % ch) + 1
         /\ (k - 1) \div ch \in points /\ (k - 1) % ch < 3 =>
              ((k - 1) % ch) + 1 \in 1..3 /\ k - (((k - 1) % ch) + 1) \in hit
<1> DEFINE hit == {q * ch : q \in points}
<1>1. ASSUME NEW c \in 1..3, k - c \in hit
      PROVE  (k - 1) \div ch \in points /\ (k - 1) % ch < 3 /\ c = ((k - 1) % ch) + 1
  <2>1. PICK q \in points : k - c = q * ch
    BY <1>1
  <2>2. q \in Nat /\ c - 1 \in Nat /\ c - 1 < ch /\ q * ch \in Nat
    BY <2>1
  <2>3. k - 1 = q * ch + (c - 1)
    BY <2>1, <2>2
  <2>4. (q * ch + (c - 1)) \div ch = q /\ (q * ch + (c - 1)) % ch = c - 1
    BY <2>2
  <2>5. (k - 1) \div ch = q /\ (k - 1) % ch = c - 1
    BY <2>3, <2>4
  <2>6. QED
    BY <2>1, <2>5
<1>2. ASSUME (k - 1) \div ch \in points, (k - 1) % ch < 3
      PROVE  ((k - 1) % ch) + 1 \in 1..3 /\ k - (((k - 1) % ch) + 1) \in hit
  <2>1. k - 1 \in Nat
    OBVIOUS
  <2>2. PICK q, r : q = (k - 1) \div ch /\ r = (k - 1) % ch
    OBVIOUS
  <2>3. q \in Nat /\ r \in Nat /\ k - 1 = ch * q + r
    BY <2>1, <2>2
  <2>4. ch * q \in Nat /\ ch * q = q * ch
    BY <2>3
  <2>5. k - (r + 1) = q * ch
    BY <2>3, <2>4
  <2>6. QED
    BY <1>2, <2>2, <2>3, <2>5
<1>3. QED
  BY <1>1, <1>2

(* What Draw draws: pixels inside the image.                                 *)
LEMMA DrawDoes ==
  ASSUME IInv, NEW i \in Names, Draw(i)
  PROVE  LET m == image[i]
             shape == <<m.w, m.h, m.ch>> IN
         /\ Is(i) /\ GetByteCount(m) > 0 /\ UNCHANGED <<image, lent>>
         /\ m \in Record /\ shape \in Shapes /\ m.data \in Blocks
         /\ heap[m.data] \in Seq(Byte) /\ Len(heap[m.data]) \in Nat
         /\ Len(heap[m.data]) >= GetByteCount(m) /\ heap[m.data] # Free
         /\ m.w \in Nat \ {0} /\ m.h \in Nat \ {0} /\ m.ch \in Nat \ {0}
         /\ GetByteCount(m) = m.ch * m.w * m.h /\ GetByteCount(m) \in Nat
         /\ GetByteCount(m) <= Len(Colour)
         /\ \E pixels \in Hits[shape] :
              /\ SetPixels(m, pixels)
              /\ \A p \in pixels : /\ p[1] \in 0..(m.w - 1) /\ p[2] \in 0..(m.h - 1)
                                   /\ Offset(m, p) \in Nat
                                   /\ Offset(m, p) + m.ch <= GetByteCount(m)
<1> DEFINE m == image[i]
           shape == <<m.w, m.h, m.ch>>
           block == heap[m.data]
<1>1. ImageTypes /\ Ownership /\ Is(i) /\ GetByteCount(m) > 0 /\ UNCHANGED <<image, lent>>
  BY DEF IInv, Draw
<1>2. PICK pixels \in Hits[shape] : SetPixels(m, pixels)
  BY DEF Draw
<1>3. /\ m \in Record /\ shape \in Shapes /\ m.data \in Blocks /\ block \in Seq(Byte) /\ Len(block) \in Nat
      /\ Len(block) >= GetByteCount(m) /\ block # Free
  <2>1. m \in Record /\ shape \in Shapes /\ m.data \in Blocks /\ block # Free /\ Len(block) >= GetByteCount(m)
    BY <1>1, BytesOfImage DEF Ownership, Shows
  <2>2. block \in Seq(Byte)
    BY <1>1, <2>1 DEF ImageTypes
  <2>3. QED
    BY <2>1, <2>2, LenProperties
<1>4. /\ m.w \in Nat \ {0} /\ m.h \in Nat \ {0} /\ m.ch \in Nat \ {0}
      /\ GetByteCount(m) = m.ch * m.w * m.h /\ GetByteCount(m) \in Nat /\ GetByteCount(m) <= Len(Colour)
  <2>1. shape[1] = m.w /\ shape[2] = m.h /\ shape[3] = m.ch
    OBVIOUS
  <2>2. QED
    BY <1>3, <2>1, ShapeIsNat DEF GetByteCount
<1>5. ASSUME NEW p \in pixels
      PROVE  /\ p[1] \in 0..(m.w - 1) /\ p[2] \in 0..(m.h - 1)
             /\ Offset(m, p) \in Nat /\ Offset(m, p) + m.ch <= GetByteCount(m)
  <2>1. Inside(shape, p)
    BY <1>2, <1>3 DEF Hits
  <2>2. p[1] \in 0..(m.w - 1) /\ p[2] \in 0..(m.h - 1)
    BY <2>1 DEF Inside
  <2>3. (m.w * p[2] + p[1]) * m.ch \in Nat /\ (m.w * p[2] + p[1]) * m.ch + m.ch <= m.ch * m.w * m.h
    BY <1>4, <2>2, PixelInBlock
  <2>4. QED
    BY <1>4, <2>2, <2>3 DEF Offset
<1>6. QED
  BY <1>1, <1>2, <1>3, <1>4, <1>5

LEMMA DrawOwns ==
  ASSUME IInv, NEW i \in Names, Draw(i)
  PROVE  IInv'
<1> DEFINE m == image[i]
           shape == <<m.w, m.h, m.ch>>
           block == heap[m.data]
<1>1. ImageTypes /\ Ownership /\ Is(i) /\ GetByteCount(m) > 0 /\ UNCHANGED <<image, lent>>
  BY DrawDoes DEF IInv
<1>2. PICK pixels \in Hits[shape] :
        /\ SetPixels(m, pixels)
        /\ \A p \in pixels : Offset(m, p) \in Nat /\ Offset(m, p) + m.ch <= GetByteCount(m)
  BY DrawDoes
<1>3. /\ m \in Record /\ shape \in Shapes /\ m.data \in Blocks /\ block \in Seq(Byte) /\ Len(block) \in Nat
      /\ Len(block) >= GetByteCount(m) /\ block # Free
  BY DrawDoes
<1>4. /\ m.w \in Nat \ {0} /\ m.h \in Nat \ {0} /\ m.ch \in Nat \ {0}
      /\ GetByteCount(m) = m.ch * m.w * m.h /\ GetByteCount(m) \in Nat /\ GetByteCount(m) <= Len(Colour)
  BY DrawDoes
<1> DEFINE hit == {Offset(m, p) : p \in pixels}
<1>5. \A at \in hit : at \in Nat /\ at + m.ch <= GetByteCount(m)
  BY <1>2
<1> HIDE DEF hit, block, m
<1>6. CASE spoilt' = m.ch /\ UNCHANGED heap /\ \E at \in hit : at + 3 > Len(block) \/ m.ch < 3
  <2>1. spoilt' \in 0..2
    BY <1>3, <1>4, <1>5, <1>6, SMTT(30)
  <2>2. ImageTypes'
    BY <1>1, <1>6, <2>1 DEF ImageTypes
  <2>3. Ownership'
    BY <1>1, <1>6 DEF Ownership, OwnsIts, OwnsAlone, Owned, Shows, Is, GetByteCount
  <2>4. QED
    BY <2>2, <2>3 DEF IInv
<1>7. CASE /\ ~\E at \in hit : at + 3 > Len(block) \/ m.ch < 3
           /\ heap' = [heap EXCEPT ![m.data] =
                [k \in 1..Len(block) |->
                   IF \E c \in 1..3 : k - c \in hit
                     THEN Colour[CHOOSE c \in 1..3 : k - c \in hit] ELSE block[k]]]
           /\ UNCHANGED spoilt
  <2> DEFINE drawn == [k \in 1..Len(block) |->
                         IF \E c \in 1..3 : k - c \in hit
                           THEN Colour[CHOOSE c \in 1..3 : k - c \in hit] ELSE block[k]]
  <2>1. ASSUME NEW k \in 1..Len(block), \E c \in 1..3 : k - c \in hit
        PROVE  Colour[CHOOSE c \in 1..3 : k - c \in hit] \in Byte
    <3>1. PICK c \in 1..3 : c = CHOOSE d \in 1..3 : k - d \in hit
      BY <2>1
    <3>2. m.ch >= 3 /\ \E at \in hit : at \in Nat /\ at + m.ch <= Len(Colour)
      BY <1>4, <1>5, <1>7, <2>1
    <3>3. Len(Colour) \in Nat /\ Len(Colour) >= 3 /\ Colour \in Seq(Byte)
      BY <1>4, <3>2, ColourAssumption, LenProperties DEF Byte
    <3>4. Colour[c] \in Byte
      BY <3>3, ElementOfSeq
    <3>5. QED
      BY <3>1, <3>4
  <2>2. \A k \in 1..Len(block) : block[k] \in Byte
    BY <1>3, ElementOfSeq
  <2>3. drawn \in Seq(Byte) /\ Len(drawn) = Len(block)
    <3>1. \A k \in 1..Len(block) : drawn[k] \in Byte
      BY <2>1, <2>2
    <3>2. drawn = [k \in 1..Len(block) |-> drawn[k]]
      OBVIOUS
    <3> HIDE DEF drawn
    <3>3. QED
      BY <1>3, <3>1, <3>2
  <2> HIDE DEF drawn
  <2>4. heap' = [heap EXCEPT ![m.data] = drawn]
    BY <1>7 DEF drawn
  <2>5. drawn # Free
    BY <2>3, BytesAreNotFree
  <2>6. heap \in [Blocks -> Seq(Byte) \cup {Free}]
    BY <1>1 DEF ImageTypes
  <2>7. /\ heap' \in [Blocks -> Seq(Byte) \cup {Free}]
        /\ \A b \in Blocks : (heap'[b] = Free <=> heap[b] = Free) /\ Len(heap'[b]) = Len(heap[b])
    BY <1>3, <2>3, <2>4, <2>5, <2>6 DEF block
  <2>8. QED
    BY <1>1, <1>7, <2>7, SameBlocks
<1>8. QED
  BY <1>2, <1>6, <1>7 DEF SetPixels, hit, block

-----------------------------------------------------------------------------
(* The user's own buffer.                                                    *)
LEMMA LendOwns ==
  ASSUME IInv, Lend
  PROVE  IInv'
<1>1. ImageTypes /\ Ownership /\ lent = {} /\ Unused # {} /\ lent' = {Fresh} /\ UNCHANGED <<image, spoilt>>
  BY DEF IInv, Lend
<1>2. Fresh \in Blocks /\ heap[Fresh] = Free /\ Fresh # 0
  BY <1>1, FreshIsUnused
<1>3. PICK bytes \in Seq(Byte) : heap' = With(heap, Fresh, bytes)
  BY NewBytes DEF Lend
<1>4. /\ heap'[Fresh] = bytes /\ bytes # Free
      /\ \A b \in Blocks : b # Fresh => heap'[b] = heap[b]
  BY <1>1, <1>2, <1>3, BytesAreNotFree DEF With, ImageTypes
<1>5. ImageTypes'
  BY <1>1, <1>2, <1>3 DEF ImageTypes, With
<1>6. \A k \in Names : Is(k) => image[k] \in Record
  BY <1>1 DEF ImageTypes, Is
<1>7. ASSUME NEW k \in Names PROVE OwnsIts(k)' /\ Shows(k)'
  <2>1. OwnsIts(k)'
    BY <1>1, <1>2, <1>4, <1>6 DEF OwnsIts, Ownership, Is, Record
  <2>2. Shows(k)'
    BY <1>1, <1>2, <1>4 DEF Shows, Ownership, Is, GetByteCount
  <2>3. QED
    BY <2>1, <2>2
<1>8. \A k, l \in Names : OwnsAlone(k, l)'
  BY <1>1 DEF OwnsAlone, Ownership, Is
<1>9. \A b \in Blocks : Owned(b)'
  BY <1>1, <1>4 DEF Owned, Ownership, Is
<1>10. QED
  BY <1>1, <1>4, <1>5, <1>7, <1>8, <1>9 DEF IInv, Ownership

LEMMA WriteLentOwns ==
  ASSUME IInv, WriteLent
  PROVE  IInv'
<1>1. ImageTypes /\ Ownership /\ UNCHANGED <<image, lent, spoilt>>
  BY DEF IInv, WriteLent
<1>2. PICK b \in lent : heap' = With(heap, b, Zeros(Len(heap[b])))
  BY DEF WriteLent
<1>3. b \in Blocks /\ heap[b] \in Seq(Byte) /\ heap[b] # Free
  BY <1>1 DEF ImageTypes, Ownership
<1>4. Zeros(Len(heap[b])) \in Seq(Byte) /\ Len(Zeros(Len(heap[b]))) = Len(heap[b])
  BY <1>3, NewBytes, LenProperties
<1>5. PICK bytes \in Seq(Byte) : bytes = Zeros(Len(heap[b])) /\ bytes # Free
  BY <1>4, BytesAreNotFree
<1>6. /\ heap' \in [Blocks -> Seq(Byte) \cup {Free}]
      /\ \A c \in Blocks : (heap'[c] = Free <=> heap[c] = Free) /\ Len(heap'[c]) = Len(heap[c])
  BY <1>1, <1>2, <1>3, <1>4, <1>5 DEF With, ImageTypes
<1>7. QED
  BY <1>1, <1>6, SameBlocks

LEMMA EndLentOwns ==
  ASSUME IInv, EndLent
  PROVE  IInv'
<1>1. ImageTypes /\ Ownership /\ lent' = {} /\ UNCHANGED <<image, spoilt>>
  BY DEF IInv, EndLent
<1>2. PICK b \in lent :
        /\ \A i \in Names : Is(i) /\ image[i].data = b => GetByteCount(image[i]) = 0
        /\ heap' = With(heap, b, Free)
  BY DEF EndLent
<1>3. b \in Blocks /\ lent = {b} /\ heap[b] # Free /\ b # 0
  BY <1>1, BlocksAssumption DEF ImageTypes, Ownership
<1>4. heap'[b] = Free /\ \A c \in Blocks : c # b => heap'[c] = heap[c]
  BY <1>1, <1>2, <1>3 DEF With, ImageTypes
<1>5. ImageTypes'
  BY <1>1, <1>2 DEF ImageTypes, With
<1>6. \A k \in Names : Is(k) => image[k] \in Record
  BY <1>1 DEF ImageTypes, Is
<1>7. ASSUME NEW k \in Names PROVE OwnsIts(k)' /\ Shows(k)'
  <2>1. OwnsIts(k)'
    BY <1>1, <1>3, <1>4, <1>6 DEF OwnsIts, Ownership, Is, Record
  <2>2. ASSUME Is(k), GetByteCount(image[k]) > 0 PROVE image[k].data # b
    <3>1. ~(0 > 0)
      OBVIOUS
    <3>2. QED
      BY <1>2, <2>2, <3>1
  <2>3. Shows(k)'
    BY <1>1, <1>3, <1>4, <2>2 DEF Shows, Ownership, Is, GetByteCount
  <2>4. QED
    BY <2>1, <2>3
<1>8. \A k, l \in Names : OwnsAlone(k, l)'
  BY <1>1 DEF OwnsAlone, Ownership, Is
<1>9. \A c \in Blocks : Owned(c)'
  BY <1>1, <1>3, <1>4 DEF Owned, Ownership, Is
<1>10. QED
  BY <1>1, <1>5, <1>7, <1>8, <1>9 DEF IInv, Ownership

-----------------------------------------------------------------------------
LEMMA InitIInv == Init => IInv
BY DEF Init, IInv, ImageTypes, Ownership, OwnsIts, OwnsAlone, Owned, Shows, Is

LEMMA IInvStep == IInv /\ [Next]_vars => IInv'
<1> SUFFICES ASSUME IInv, [Next]_vars PROVE IInv'
  OBVIOUS
<1>1. CASE UNCHANGED vars
  BY <1>1 DEF vars, IInv, ImageTypes, Ownership, OwnsIts, OwnsAlone, Owned, Shows, Is, GetByteCount
<1>2. CASE Next
  BY <1>2, ConstructOwns, NewBlockOwns, CopyOwns, MoveOwns, DestroyOwns, DrawOwns, LendOwns,
     WriteLentOwns, EndLentOwns DEF Next
<1>3. QED
  BY <1>1, <1>2

LEMMA OwnersAreCounted == IInv => EveryBlockHasOneOwner
<1> SUFFICES ASSUME IInv, NEW b \in Blocks
             PROVE  LET owners == {i \in Names : Is(i) /\ image[i].own = b} IN
                      IF heap[b] = Free \/ b \in lent THEN owners = {} ELSE Cardinality(owners) = 1
  BY DEF EveryBlockHasOneOwner
<1> DEFINE owners == {i \in Names : Is(i) /\ image[i].own = b}
<1>1. Ownership /\ b # 0
  BY BlocksAssumption DEF IInv
<1>2. CASE heap[b] = Free \/ b \in lent
  <2>1. owners = {}
    BY <1>1, <1>2 DEF Ownership, OwnsIts
  <2>2. QED
    BY <1>2, <2>1
<1>3. CASE heap[b] # Free /\ b \notin lent
  <2>1. PICK i \in owners : TRUE
    BY <1>1, <1>3 DEF Ownership, Owned
  <2>2. owners = {i}
    BY <1>1, <2>1 DEF Ownership, OwnsAlone
  <2>3. Cardinality({i}) = 1
    BY FS_Singleton
  <2>4. QED
    BY <1>3, <2>2, <2>3
<1>4. QED
  BY <1>2, <1>3

(* No block of an image is freed twice, shared or lost, whatever is copied,  *)
(* moved, set, drawn on, lent or destroyed and in what order (Image.cpp:     *)
(* 18-165).                                                                  *)
THEOREM OneOwnerHolds == Spec => []EveryBlockHasOneOwner
BY InitIInv, IInvStep, OwnersAreCounted, PTL DEF Spec

(* An image that has bytes has all of them in a block that is there, and     *)
(* drawing on an image with at least three channels never leaves its block.  *)
THEOREM PixelsStayThere == Spec => []PixelsAreThere
<1>1. IInv => PixelsAreThere
  <2>1. SUFFICES ASSUME IInv PROVE PixelsAreThere
    OBVIOUS
  <2>2. spoilt < 3
    BY <2>1 DEF IInv, ImageTypes
  <2>3. ASSUME NEW i \in Names, Is(i), GetByteCount(image[i]) > 0
        PROVE  /\ image[i].data \in Blocks /\ heap[image[i].data] # Free
               /\ Len(heap[image[i].data]) >= GetByteCount(image[i])
               /\ image[i].own = image[i].data \/ (image[i].own = 0 /\ image[i].data \in lent)
    BY <2>1, <2>3 DEF IInv, Ownership, Shows
  <2>4. QED
    BY <2>2, <2>3 DEF PixelsAreThere
<1>2. QED
  BY InitIInv, IInvStep, <1>1, PTL DEF Spec

-----------------------------------------------------------------------------
(* The refinement: what the variables hold and the bytes of the user's       *)
(* buffer, as ImageValues sees them.                                         *)
Value == [w : Nat, h : Nat, ch : Nat, view : BOOLEAN, bytes : Seq(Byte)]
Held == [i \in Names |-> IF Is(i) THEN Holding(image[i]) ELSE None]
LentBytes == IF lent = {} THEN <<>> ELSE heap[CHOOSE b \in lent : TRUE]

LEMMA ValueIsNotNone == \A v \in Value : v # None
BY NoneAssumption DEF Value, Byte

LEMMA HoldingIsValue ==
  ASSUME ImageTypes, Ownership, NEW i \in Names, Is(i)
  PROVE  /\ Held[i] = Holding(image[i]) /\ Held[i] \in Value /\ Held[i] # None
         /\ Held[i].w = image[i].w /\ Held[i].h = image[i].h /\ Held[i].ch = image[i].ch
         /\ Held[i].view <=> image[i].own = 0 /\ GetByteCount(image[i]) > 0
         /\ Held[i].bytes = IF image[i].own = 0 /\ GetByteCount(image[i]) > 0 THEN <<>>
                         ELSE Bytes(image[i])
<1> DEFINE m == image[i]
           view == m.own = 0 /\ GetByteCount(m) > 0
           bytes == IF view THEN <<>> ELSE Bytes(m)
<1>1. m \in Record /\ GetByteCount(m) \in Nat /\ Bytes(m) \in Seq(Byte)
  BY BytesOfImage
<1>2. Held[i] = Holding(m)
  BY DEF Held
<1>3. Holding(m) = [w |-> m.w, h |-> m.h, ch |-> m.ch, view |-> view, bytes |-> bytes]
  BY DEF Holding
<1>4. m.w \in Nat /\ m.h \in Nat /\ m.ch \in Nat /\ bytes \in Seq(Byte) /\ view \in BOOLEAN
  BY <1>1 DEF Record
<1> HIDE DEF view, bytes
<1>5. Holding(m) \in Value
  BY <1>3, <1>4 DEF Value
<1>6. /\ Holding(m).w = m.w /\ Holding(m).h = m.h /\ Holding(m).ch = m.ch
      /\ Holding(m).view = view /\ Holding(m).bytes = bytes
  BY <1>3
<1>7. QED
  BY <1>2, <1>5, <1>6, ValueIsNotNone DEF view, bytes

LEMMA ValuesTyped ==
  ASSUME ImageTypes, Ownership
  PROVE  Held \in [Names -> Value \cup {None}] /\ \A i \in Names : Held[i] # None <=> Is(i)
<1>1. \A i \in Names : Held[i] \in Value \cup {None} /\ (Held[i] # None <=> Is(i))
  <2>1. SUFFICES ASSUME NEW i \in Names PROVE Held[i] \in Value \cup {None} /\ (Held[i] # None <=> Is(i))
    OBVIOUS
  <2>2. CASE Is(i)
    BY <2>2, HoldingIsValue
  <2>3. CASE ~Is(i)
    BY <2>3 DEF Held
  <2>4. QED
    BY <2>2, <2>3
<1>2. Held = [i \in Names |-> Held[i]]
  BY DEF Held
<1>3. QED
  BY <1>1, <1>2

(* A view shows the user's buffer.                                           *)
LEMMA TheBuffer ==
  ASSUME ImageTypes, NEW b \in lent
  PROVE  LentBytes = heap[b]
<1>1. lent # {} /\ (CHOOSE c \in lent : TRUE) = b
  BY DEF ImageTypes
<1>2. QED
  BY <1>1 DEF LentBytes

LEMMA BytesAgree ==
  ASSUME ImageTypes, Ownership, NEW i \in Names, Is(i)
  PROVE  Bytes(image[i]) =
           IF Held[i].view THEN SubSeq(LentBytes, 1, Held[i].w * Held[i].h * Held[i].ch) ELSE Held[i].bytes
<1> DEFINE m == image[i]
<1>1. m \in Record /\ GetByteCount(m) \in Nat
  BY BytesOfImage
<1>2. CASE m.own = 0 /\ GetByteCount(m) > 0
  <2>1. m.data \in lent
    BY <1>2, BlocksAssumption DEF Ownership, Shows
  <2>2. LentBytes = heap[m.data]
    BY <2>1, TheBuffer
  <2>3. m.w * m.h * m.ch = GetByteCount(m)
    <3>1. m.w \in Nat /\ m.h \in Nat /\ m.ch \in Nat
      BY <1>1 DEF Record
    <3>2. QED
      BY <3>1 DEF GetByteCount
  <2>4. Bytes(m) = SubSeq(heap[m.data], 1, GetByteCount(m))
    BY <1>1, <1>2 DEF Bytes
  <2>5. QED
    BY <1>2, <2>2, <2>3, <2>4, HoldingIsValue
<1>3. CASE ~(m.own = 0 /\ GetByteCount(m) > 0)
  BY <1>3, HoldingIsValue
<1>4. QED
  BY <1>2, <1>3

-----------------------------------------------------------------------------
(* What a step leaves alone: a variable that has what some variable had      *)
(* before holds what that one held, if the block it owns is as it was.       *)
LEMMA SameHolding ==
  ASSUME ImageTypes, Ownership, NEW k \in Names, NEW l \in Names, image'[k] = image[l],
         Is(l) /\ image[l].own # 0 => heap'[image[l].own] = heap[image[l].own]
  PROVE  Held'[k] = Held[l]
<1> DEFINE m == image[l]
<1>1. CASE ~Is(l)
  BY <1>1 DEF Held, Is
<1>2. CASE Is(l)
  <2>1. Held[l] = Holding(m) /\ GetByteCount(m) \in Nat
    BY <1>2, HoldingIsValue, BytesOfImage
  <2>2. Held'[k] = [w |-> m.w, h |-> m.h, ch |-> m.ch, view |-> m.own = 0 /\ GetByteCount(m) > 0,
                 bytes |-> IF m.own = 0 /\ GetByteCount(m) > 0 THEN <<>>
                           ELSE IF GetByteCount(m) = 0 THEN <<>>
                           ELSE SubSeq(heap'[m.data], 1, GetByteCount(m))]
    BY <1>2 DEF Held, Is, Holding, Bytes, GetByteCount
  <2>3. m.own # 0 => heap'[m.data] = heap[m.data]
    BY <1>2 DEF Ownership, OwnsIts
  <2>4. CASE m.own # 0
    BY <2>1, <2>2, <2>3, <2>4 DEF Holding, Bytes
  <2>5. CASE m.own = 0 /\ GetByteCount(m) > 0
    BY <2>1, <2>2, <2>5 DEF Holding
  <2>6. CASE GetByteCount(m) = 0
    BY <2>1, <2>2, <2>6 DEF Holding, Bytes
  <2>7. QED
    BY <2>1, <2>4, <2>5, <2>6
<1>3. QED
  BY <1>1, <1>2

LEMMA SameBuffer ==
  ASSUME ImageTypes, UNCHANGED lent, \A b \in lent : heap'[b] = heap[b]
  PROVE  LentBytes' = LentBytes
<1>1. CASE lent = {}
  BY <1>1 DEF LentBytes
<1>2. CASE lent # {}
  <2>1. (CHOOSE b \in lent : TRUE) \in lent
    BY <1>2
  <2>2. QED
    BY <1>2, <2>1 DEF LentBytes
<1>3. QED
  BY <1>1, <1>2

(* One variable gets a new value.                                            *)
LEMMA OneNew ==
  ASSUME NEW i \in Names, NEW v, Held'[i] = v, \A k \in Names : k # i => Held'[k] = Held[k]
  PROVE  Held' = [Held EXCEPT ![i] = v]
<1>1. Held = [k \in Names |-> Held[k]] /\ Held' = [k \in Names |-> Held'[k]]
  BY DEF Held
<1>2. Held' = [k \in Names |-> IF k = i THEN v ELSE Held[k]]
  BY <1>1
<1>3. QED
  BY <1>1, <1>2

(* An image that gets a block of its own holds what is written there; the    *)
(* others, whose blocks are neither that one nor its old one, hold what they *)
(* held.                                                                     *)
LEMMA FreshShows ==
  ASSUME ImageTypes, Ownership, Unused # {}, NEW i \in Names, NEW m \in Record, NEW bytes \in Seq(Byte),
         m.own = Fresh, m.data = Fresh, Len(bytes) = GetByteCount(m),
         image' = [image EXCEPT ![i] = m],
         heap' = [b \in Blocks |-> IF b = Fresh THEN bytes
                                   ELSE IF Is(i) /\ b = image[i].own THEN Free ELSE heap[b]],
         UNCHANGED lent
  PROVE  /\ LentBytes' = LentBytes
         /\ Held' = [Held EXCEPT ![i] = [w |-> m.w, h |-> m.h, ch |-> m.ch, view |-> FALSE, bytes |-> bytes]]
<1>1. Fresh \in Blocks /\ heap[Fresh] = Free /\ Fresh # 0 /\ m # None
  BY FreshIsUnused, RecordIsNotNone
<1>2. /\ image'[i] = m /\ \A k \in Names : k # i => image'[k] = image[k]
      /\ heap'[Fresh] = bytes
      /\ \A b \in Blocks : b # Fresh => heap'[b] = IF Is(i) /\ b = image[i].own THEN Free ELSE heap[b]
  BY <1>1 DEF ImageTypes
<1>3. \A k \in Names : Is(k) => image[k].own # Fresh /\ image[k] \in Record
  BY <1>1 DEF Ownership, OwnsIts, ImageTypes, Is
<1>4. LentBytes' = LentBytes
  <2>1. \A b \in lent : b # Fresh /\ b \in Blocks /\ ~(Is(i) /\ b = image[i].own)
    BY <1>1, BlocksAssumption DEF Ownership, OwnsIts, ImageTypes
  <2>2. \A b \in lent : heap'[b] = heap[b]
    BY <1>2, <2>1
  <2>3. QED
    BY <2>2, SameBuffer
<1>5. ASSUME NEW k \in Names, k # i PROVE Held'[k] = Held[k]
  <2>1. ASSUME Is(k), image[k].own # 0 PROVE heap'[image[k].own] = heap[image[k].own]
    <3>1. image[k].own \in Blocks /\ image[k].own # Fresh
      BY <1>3, <2>1 DEF Record
    <3>2. ~(Is(i) /\ image[k].own = image[i].own)
      BY <1>5, <2>1 DEF Ownership, OwnsAlone
    <3>3. QED
      BY <1>2, <3>1, <3>2
  <2>2. image'[k] = image[k]
    BY <1>2, <1>5
  <2>3. QED
    BY <2>1, <2>2, SameHolding
<1>6. Held'[i] = [w |-> m.w, h |-> m.h, ch |-> m.ch, view |-> FALSE, bytes |-> bytes]
  <2> DEFINE n == GetByteCount(m)
  <2>1. Held'[i] = [w |-> m.w, h |-> m.h, ch |-> m.ch, view |-> m.own = 0 /\ n > 0,
                 bytes |-> IF m.own = 0 /\ n > 0 THEN <<>>
                           ELSE IF n = 0 THEN <<>> ELSE SubSeq(heap'[m.data], 1, n)]
    <3>1. PICK x : x = image'[i]
      OBVIOUS
    <3>2. Held'[i] = IF x # None
                    THEN [w |-> x.w, h |-> x.h, ch |-> x.ch, view |-> x.own = 0 /\ GetByteCount(x) > 0,
                          bytes |-> IF x.own = 0 /\ GetByteCount(x) > 0 THEN <<>>
                                    ELSE IF GetByteCount(x) = 0 THEN <<>>
                                    ELSE SubSeq(heap'[x.data], 1, GetByteCount(x))]
                    ELSE None
      BY <3>1 DEF Held, Is, Holding, Bytes, GetByteCount
    <3>3. x = m /\ m # None
      BY <1>1, <1>2, <3>1
    <3>4. QED
      BY <3>2, <3>3
  <2>2. (m.own = 0 /\ n > 0) = FALSE
    BY <1>1
  <2>3. bytes = IF n = 0 THEN <<>> ELSE SubSeq(heap'[m.data], 1, n)
    <3>1. n \in Nat
      BY LenProperties
    <3> HIDE DEF n
    <3>2. CASE n = 0
      BY <3>2, EmptySeq DEF n
    <3>3. CASE n # 0
      <4>1. heap'[m.data] = bytes /\ Len(bytes) = n
        BY <1>2 DEF n
      <4>2. SubSeq(bytes, 1, Len(bytes)) = bytes
        OBVIOUS
      <4>3. QED
        BY <3>3, <4>1, <4>2
    <3>4. QED
      BY <3>2, <3>3
  <2> HIDE DEF n
  <2>4. QED
    BY <2>1, <2>2, <2>3
<1>7. QED
  BY <1>4, <1>5, <1>6, OneNew

(* Every operation that makes a new block is a New or a Copy of values.      *)
LEMMA NewBlockShows ==
  ASSUME IInv, NEW i \in Names, ConstructSized(i) \/ ConstructAdopting(i) \/ Set(i)
  PROVE  Values!New(i)
<1>1. ImageTypes /\ Ownership /\ Unused # {} /\ UNCHANGED <<lent, spoilt>>
  BY NewBlockDoes DEF IInv
<1>2. PICK shape \in Shapes, bytes \in Seq(Byte) :
        /\ bytes = Zeros(SizeOf(shape)) \/ bytes = Filled(SizeOf(shape))
        /\ Len(bytes) = SizeOf(shape)
        /\ image' = [image EXCEPT ![i] = Over(shape, Fresh, Fresh)]
        /\ heap' = [b \in Blocks |-> IF b = Fresh THEN bytes
                                     ELSE IF Is(i) /\ b = image[i].own THEN Free ELSE heap[b]]
  BY NewBlockDoes
<1>3. PICK m : m = Over(shape, Fresh, Fresh)
  OBVIOUS
<1>4. Fresh \in Blocks
  BY <1>1, FreshIsUnused
<1>5. /\ m \in Record /\ m.own = Fresh /\ m.data = Fresh /\ GetByteCount(m) = SizeOf(shape)
      /\ m.w = shape[1] /\ m.h = shape[2] /\ m.ch = shape[3]
  BY <1>3, <1>4, OverShape DEF Over, Made
<1>6. image' = [image EXCEPT ![i] = m]
  BY <1>2, <1>3
<1>7. /\ LentBytes' = LentBytes
      /\ Held' = [Held EXCEPT ![i] = [w |-> m.w, h |-> m.h, ch |-> m.ch, view |-> FALSE, bytes |-> bytes]]
  <2>1. Len(bytes) = GetByteCount(m) /\ UNCHANGED lent
    BY <1>1, <1>2, <1>5
  <2>2. heap' = [b \in Blocks |-> IF b = Fresh THEN bytes
                                 ELSE IF Is(i) /\ b = image[i].own THEN Free ELSE heap[b]]
    BY <1>2
  <2>3. m \in Record /\ m.own = Fresh /\ m.data = Fresh
    BY <1>5
  <2>4. QED
    BY <1>1, <1>6, <2>1, <2>2, <2>3, FreshShows
<1>8. PICK filled \in BOOLEAN :
        bytes = [k \in 1..SizeOf(shape) |-> IF filled THEN Colour[k] ELSE 0]
  BY <1>2 DEF Zeros, Filled
<1>9. Held' = [Held EXCEPT ![i] = Values!Holding(shape, FALSE,
              [k \in 1..Values!Size(shape) |-> IF filled THEN Colour[k] ELSE 0])]
  BY <1>5, <1>7, <1>8 DEF Values!Holding, Values!Size, SizeOf
<1>10. QED
  BY <1>2, <1>7, <1>8, <1>9, ZenonT(40) DEF Values!New, Held, LentBytes

LEMMA CopyShows ==
  ASSUME IInv, NEW i \in Names, NEW j \in Names, Copy(i, j)
  PROVE  Values!Copy(i, j)
<1> DEFINE n == GetByteCount(image[j])
           m == Made(image[j].w, image[j].h, image[j].ch, Fresh, Fresh)
           bytes == IF i = j THEN Zeros(n) ELSE Bytes(image[j])
           abstract == Values!Bytes(Held[j])
<1>1. ImageTypes /\ Ownership
  BY DEF IInv
<1>2. /\ Unused # {} /\ Is(j) /\ UNCHANGED <<lent, spoilt>>
      /\ n \in Nat /\ bytes \in Seq(Byte) /\ Len(bytes) = n
      /\ m \in Record /\ m.own = Fresh /\ m.data = Fresh /\ GetByteCount(m) = n
      /\ m.w = image[j].w /\ m.h = image[j].h /\ m.ch = image[j].ch
      /\ image' = [image EXCEPT ![i] = m]
      /\ heap' = [b \in Blocks |-> IF b = Fresh THEN bytes
                                   ELSE IF Is(i) /\ b = image[i].own THEN Free ELSE heap[b]]
  BY CopyDoes
<1>3. Bytes(image[j]) = abstract /\ Len(abstract) = n
  <2>1. Bytes(image[j]) = abstract
    BY <1>1, <1>2, BytesAgree DEF Values!Bytes, LentBytes
  <2>2. QED
    BY <1>1, <1>2, <2>1, BytesOfImage
<1>4. bytes = IF i = j THEN Values!Zeros(Len(abstract)) ELSE abstract
  BY <1>3 DEF Zeros, Values!Zeros
<1> HIDE DEF n, m, bytes
<1>5. /\ LentBytes' = LentBytes
      /\ Held' = [Held EXCEPT ![i] = [w |-> m.w, h |-> m.h, ch |-> m.ch, view |-> FALSE, bytes |-> bytes]]
  <2>1. Len(bytes) = GetByteCount(m)
    BY <1>2
  <2>2. QED
    BY <1>1, <1>2, <2>1, FreshShows, Zenon
<1>6. [w |-> m.w, h |-> m.h, ch |-> m.ch, view |-> FALSE, bytes |-> bytes]
        = Values!Owned(Held[j], bytes)
  <2>1. Held[j] \in Value /\ Held[j].w = m.w /\ Held[j].h = m.h /\ Held[j].ch = m.ch
    BY <1>1, <1>2, HoldingIsValue
  <2>2. PICK v : v = Held[j]
    OBVIOUS
  <2>3. PICK w, h, ch, view, old : v = [w |-> w, h |-> h, ch |-> ch, view |-> view, bytes |-> old]
    BY <2>1, <2>2 DEF Value
  <2>4. PICK no, x, owned : no = FALSE /\ x = bytes /\ owned = [v EXCEPT !.view = no, !.bytes = x]
    OBVIOUS
  <2>5. owned = [v EXCEPT !.view = no, !.bytes = x]
    BY <2>4
  <2>6. owned \in [w : {w}, h : {h}, ch : {ch}, view : {no}, bytes : {x}]
    BY <2>3, <2>5
  <2>7. owned = [w |-> w, h |-> h, ch |-> ch, view |-> no, bytes |-> x]
    BY <2>6
  <2>8. w = m.w /\ h = m.h /\ ch = m.ch
    BY <2>1, <2>2, <2>3
  <2>9. owned = Values!Owned(Held[j], bytes)
    BY <2>2, <2>4 DEF Values!Owned
  <2>10. QED
    BY <2>4, <2>7, <2>8, <2>9
<1>7. Held' = [Held EXCEPT ![i] = Values!Owned(Held[j], IF i = j THEN Values!Zeros(Len(abstract)) ELSE abstract)]
  BY <1>4, <1>5, <1>6
<1>8. Held[j] # None
  BY <1>1, <1>2, HoldingIsValue
<1>9. QED
  BY <1>5, <1>7, <1>8 DEF Values!Copy, Values!Is, Held, LentBytes

LEMMA EmptyShows ==
  ASSUME NEW i \in Names, NEW own \in Blocks \cup {0}, NEW data \in Blocks \cup {0},
         image'[i] = Made(0, 0, 0, own, data)
  PROVE  Held'[i] = Values!Empty
<1>1. PICK m : m = Made(0, 0, 0, own, data)
  OBVIOUS
<1>2. /\ m \in Record /\ m # None /\ GetByteCount(m) = 0
      /\ m.w = 0 /\ m.h = 0 /\ m.ch = 0
  <2>1. m \in Record /\ GetByteCount(m) = 0
    BY <1>1, EmptyImage
  <2>2. QED
    BY <1>1, <2>1, RecordIsNotNone DEF Made
<1>3. PICK x : x = image'[i]
  OBVIOUS
<1>4. Held'[i] = IF x # None
                THEN [w |-> x.w, h |-> x.h, ch |-> x.ch, view |-> x.own = 0 /\ GetByteCount(x) > 0,
                      bytes |-> IF x.own = 0 /\ GetByteCount(x) > 0 THEN <<>>
                                ELSE IF GetByteCount(x) = 0 THEN <<>>
                                ELSE SubSeq(heap'[x.data], 1, GetByteCount(x))]
                ELSE None
  BY <1>3 DEF Held, Is, Holding, Bytes, GetByteCount
<1>5. x = m
  BY <1>1, <1>3
<1>6. (GetByteCount(m) > 0) = FALSE /\ (m.own = 0 /\ GetByteCount(m) > 0) = FALSE
  BY <1>2
<1>7. QED
  BY <1>2, <1>4, <1>5, <1>6 DEF Values!Empty

LEMMA ConstructShows ==
  ASSUME IInv, NEW i \in Names, Construct(i) \/ ConstructObserving(i)
  PROVE  Values!New(i)
<1>1. ImageTypes /\ Ownership /\ UNCHANGED <<heap, lent>>
  BY DEF IInv, Construct, ConstructObserving
<1>2. LentBytes' = LentBytes
  BY <1>1, SameBuffer
<1>3. ASSUME NEW k \in Names, k # i PROVE Held'[k] = Held[k]
  <2>1. image'[k] = image[k]
    BY <1>1, <1>3 DEF ImageTypes, Construct, ConstructObserving
  <2>2. QED
    BY <1>1, <2>1, SameHolding
<1>4. CASE Construct(i)
  <2>1. image'[i] = Made(0, 0, 0, 0, 0)
    BY <1>1, <1>4 DEF Construct, ImageTypes
  <2>2. Held'[i] = Values!Empty
    BY <2>1, EmptyShows
  <2>3. Held' = [Held EXCEPT ![i] = Values!Empty]
    BY <1>3, <2>2, OneNew
  <2>4. QED
    BY <1>2, <2>3 DEF Values!New, Held, LentBytes
<1>5. CASE ConstructObserving(i)
  <2>1. PICK shape \in Shapes, b \in lent :
          /\ Len(heap[b]) >= SizeOf(shape)
          /\ image' = [image EXCEPT ![i] = Over(shape, 0, b)]
    BY <1>5 DEF ConstructObserving
  <2>2. PICK m : m = Over(shape, 0, b)
    OBVIOUS
  <2>3. /\ m \in Record /\ m # None /\ m.own = 0 /\ GetByteCount(m) = SizeOf(shape) /\ SizeOf(shape) > 0
        /\ m.w = shape[1] /\ m.h = shape[2] /\ m.ch = shape[3]
    <3>1. b \in Blocks \cup {0} /\ 0 \in Blocks \cup {0}
      BY <1>1 DEF ImageTypes
    <3>2. m \in Record /\ m.own = 0 /\ GetByteCount(m) = SizeOf(shape)
      BY <2>2, <3>1, OverShape
    <3>3. shape[1] \in Nat \ {0} /\ shape[2] \in Nat \ {0} /\ shape[3] \in Nat \ {0}
      BY ShapeIsNat
    <3>4. \A x, y \in Nat \ {0} : x * y \in Nat \ {0}
      OBVIOUS
    <3>5. SizeOf(shape) > 0
      BY <3>3, <3>4 DEF SizeOf
    <3>6. QED
      BY <2>2, <3>2, <3>5, RecordIsNotNone DEF Over, Made
  <2>4. PICK x : x = image'[i]
    OBVIOUS
  <2>5. Held'[i] = IF x # None
                  THEN [w |-> x.w, h |-> x.h, ch |-> x.ch, view |-> x.own = 0 /\ GetByteCount(x) > 0,
                        bytes |-> IF x.own = 0 /\ GetByteCount(x) > 0 THEN <<>>
                                  ELSE IF GetByteCount(x) = 0 THEN <<>>
                                  ELSE SubSeq(heap'[x.data], 1, GetByteCount(x))]
                  ELSE None
    BY <2>4 DEF Held, Is, Holding, Bytes, GetByteCount
  <2>6. x = m
    BY <1>1, <2>1, <2>2, <2>4 DEF ImageTypes
  <2>7. (m.own = 0 /\ GetByteCount(m) > 0) = TRUE
    BY <2>3
  <2>8. Held'[i] = Values!Holding(shape, TRUE, <<>>)
    BY <2>3, <2>5, <2>6, <2>7 DEF Values!Holding
  <2>9. Held' = [Held EXCEPT ![i] = Values!Holding(shape, TRUE, <<>>)]
    BY <1>3, <2>8, OneNew
  <2>10. Len(LentBytes) >= Values!Size(shape)
    BY <1>1, <2>1, TheBuffer DEF Values!Size, SizeOf
  <2>11. QED
    BY <1>2, <2>9, <2>10 DEF Values!New, Held, LentBytes
<1>6. QED
  BY <1>4, <1>5

(* What an image drops is neither the user's buffer nor another's block.     *)
LEMMA DroppedShows ==
  ASSUME ImageTypes, Ownership, NEW i \in Names, heap' = Dropped(heap, image[i]), UNCHANGED lent
  PROVE  /\ LentBytes' = LentBytes
         /\ \A k \in Names : k # i /\ Is(k) /\ image[k].own # 0 => heap'[image[k].own] = heap[image[k].own]
<1>1. \A b \in Blocks : heap'[b] = IF Is(i) /\ b = image[i].own THEN Free ELSE heap[b]
  BY DEF Dropped, Is
<1>2. \A b \in lent : heap'[b] = heap[b]
  BY <1>1, BlocksAssumption DEF ImageTypes, Ownership, OwnsIts
<1>3. ASSUME NEW k \in Names, k # i, Is(k), image[k].own # 0
      PROVE  heap'[image[k].own] = heap[image[k].own]
  <2>1. image[k].own \in Blocks
    BY <1>3 DEF ImageTypes, Is, Record
  <2>2. ~(Is(i) /\ image[k].own = image[i].own)
    BY <1>3 DEF Ownership, OwnsAlone
  <2>3. QED
    BY <1>1, <2>1, <2>2
<1>4. QED
  BY <1>2, <1>3, SameBuffer

LEMMA DestroyShows ==
  ASSUME IInv, NEW i \in Names, Destroy(i)
  PROVE  Values!Destroy(i)
<1>1. ImageTypes /\ Ownership /\ Is(i) /\ heap' = Dropped(heap, image[i]) /\ UNCHANGED lent
  BY DEF IInv, Destroy
<1>2. image'[i] = None /\ \A k \in Names : k # i => image'[k] = image[k]
  BY <1>1 DEF Destroy, ImageTypes
<1>3. Held'[i] = None
  BY <1>2 DEF Held, Is
<1>4. ASSUME NEW k \in Names, k # i PROVE Held'[k] = Held[k]
  BY <1>1, <1>2, <1>4, DroppedShows, SameHolding
<1>5. Held' = [Held EXCEPT ![i] = None]
  BY <1>3, <1>4, OneNew
<1>6. LentBytes' = LentBytes /\ Held[i] # None
  BY <1>1, DroppedShows, HoldingIsValue
<1>7. QED
  BY <1>5, <1>6 DEF Values!Destroy, Values!Is, Held, LentBytes

LEMMA MoveShows ==
  ASSUME IInv, NEW i \in Names, NEW j \in Names, Move(i, j)
  PROVE  Values!Move(i, j)
<1>1. ImageTypes /\ Ownership /\ Is(j) /\ Moved(i, j) /\ UNCHANGED lent
  BY DEF IInv, Move
<1>2. image[j] \in Record /\ image[j].own \in Blocks \cup {0} /\ image[j].data \in Blocks \cup {0}
  BY <1>1 DEF ImageTypes, Is, Record
<1>3. LentBytes' = LentBytes /\ Held'[j] = Values!Empty /\ (i # j => Held'[i] = Held[j])
      /\ \A k \in Names : k # i /\ k # j => Held'[k] = Held[k]
  <2>1. CASE i = j
    <3>1. /\ image'[i] = Made(0, 0, 0, image[j].own, image[j].data) /\ UNCHANGED heap
          /\ \A k \in Names : k # i => image'[k] = image[k]
      BY <1>1, <2>1 DEF Moved, ImageTypes
    <3>2. Held'[j] = Values!Empty
      BY <1>2, <2>1, <3>1, EmptyShows
    <3>3. \A k \in Names : k # i => Held'[k] = Held[k]
      BY <1>1, <3>1, SameHolding
    <3>4. QED
      BY <1>1, <2>1, <3>1, <3>2, <3>3, SameBuffer
  <2>2. CASE i # j
    <3>1. /\ image'[j] = Made(0, 0, 0, 0, image[j].data) /\ image'[i] = image[j]
          /\ heap' = Dropped(heap, image[i])
          /\ \A k \in Names : k # i /\ k # j => image'[k] = image[k]
      BY <1>1, <2>2 DEF Moved, ImageTypes
    <3>2. Held'[j] = Values!Empty
      BY <1>2, <3>1, EmptyShows
    <3>3. Held'[i] = Held[j]
      BY <1>1, <2>2, <3>1, DroppedShows, SameHolding
    <3>4. \A k \in Names : k # i /\ k # j => Held'[k] = Held[k]
      BY <1>1, <3>1, DroppedShows, SameHolding
    <3>5. QED
      BY <1>1, <3>1, <3>2, <3>3, <3>4, DroppedShows
  <2>3. QED
    BY <2>1, <2>2
<1>4. Held' = [Held EXCEPT ![i] = Held[j], ![j] = Values!Empty]
  <2>1. Held = [k \in Names |-> Held[k]] /\ Held' = [k \in Names |-> Held'[k]]
    BY DEF Held
  <2>2. Held' = [k \in Names |-> IF k = j THEN Values!Empty ELSE IF k = i THEN Held[j] ELSE Held[k]]
    BY <1>3, <2>1
  <2>3. QED
    BY <2>1, <2>2
<1>5. Held[j] # None
  BY <1>1, HoldingIsValue
<1>6. QED
  BY <1>3, <1>4, <1>5 DEF Values!Move, Values!Is, Held, LentBytes

(* Drawing on bytes is drawing on those that an image shows.                  *)
LEMMA DrawnFrom ==
  ASSUME NEW ch, NEW points, NEW block \in Seq(Byte), NEW n \in Nat, n <= Len(block)
  PROVE  SubSeq(Values!Drawn(block, ch, points), 1, n) = Values!Drawn(SubSeq(block, 1, n), ch, points)
<1>1. Len(SubSeq(block, 1, n)) = n /\ \A k \in 1..n : SubSeq(block, 1, n)[k] = block[k] /\ k \in 1..Len(block)
  BY LenProperties
<1>2. PICK drawn : drawn = Values!Drawn(block, ch, points)
  OBVIOUS
<1>3. /\ DOMAIN drawn = 1..Len(block)
      /\ \A k \in 1..Len(block) :
           drawn[k] = IF (k - 1) \div ch \in points /\ (k - 1) % ch < 3
                        THEN Colour[((k - 1) % ch) + 1] ELSE block[k]
  BY <1>2 DEF Values!Drawn
<1>4. SubSeq(drawn, 1, n) = [k \in 1..n |-> drawn[k]]
  OBVIOUS
<1>5. QED
  BY <1>1, <1>2, <1>3, <1>4 DEF Values!Drawn

LEMMA DrawShows ==
  ASSUME IInv, NEW i \in Names, Draw(i)
  PROVE  Values!Draw(i) \/ (Held' = Held /\ LentBytes' = LentBytes)
<1> DEFINE m == image[i]
           shape == <<m.w, m.h, m.ch>>
           block == heap[m.data]
           n == GetByteCount(m)
<1>1. ImageTypes /\ Ownership /\ Is(i) /\ n > 0 /\ UNCHANGED <<image, lent>>
  BY DrawDoes DEF IInv
<1>2. PICK pixels \in Hits[shape] :
        /\ SetPixels(m, pixels)
        /\ \A p \in pixels : /\ p[1] \in 0..(m.w - 1) /\ p[2] \in 0..(m.h - 1)
                             /\ Offset(m, p) \in Nat /\ Offset(m, p) + m.ch <= n
  BY DrawDoes
<1>3. /\ m \in Record /\ shape \in Shapes /\ m.data \in Blocks /\ block \in Seq(Byte) /\ Len(block) \in Nat
      /\ Len(block) >= n /\ block # Free
  BY DrawDoes
<1>4. /\ m.w \in Nat \ {0} /\ m.h \in Nat \ {0} /\ m.ch \in Nat \ {0} /\ n = m.ch * m.w * m.h /\ n \in Nat
  BY DrawDoes
<1> DEFINE points == {m.w * p[2] + p[1] : p \in pixels}
           hit == {Offset(m, p) : p \in pixels}
           drawn == [k \in 1..Len(block) |->
                       IF \E c \in 1..3 : k - c \in hit
                         THEN Colour[CHOOSE c \in 1..3 : k - c \in hit] ELSE block[k]]
<1>5. hit = {q * m.ch : q \in points}
  BY DEF Offset
<1>6. points \in SUBSET (0..(m.w * m.h - 1))
  <2>1. SUFFICES ASSUME NEW p \in pixels PROVE m.w * p[2] + p[1] \in 0..(m.w * m.h - 1)
    OBVIOUS
  <2>2. p[1] \in 0..(m.w - 1) /\ p[2] \in 0..(m.h - 1) /\ 1 \in Nat \ {0}
    BY <1>2
  <2>3. PICK w, h, x, y : w = m.w /\ h = m.h /\ x = p[1] /\ y = p[2]
    OBVIOUS
  <2>4. w \in Nat \ {0} /\ h \in Nat \ {0} /\ x \in 0..(w - 1) /\ y \in 0..(h - 1)
    BY <1>4, <2>2, <2>3
  <2>5. (w * y + x) * 1 \in Nat /\ (w * y + x) * 1 + 1 <= 1 * w * h
    BY <2>2, <2>4, PixelInBlock
  <2>6. w * y + x \in 0..(w * h - 1)
    <3>1. w * y \in Nat /\ w * h \in Nat
      BY <2>4
    <3>2. PICK a, b : a = w * y /\ b = w * h
      OBVIOUS
    <3>3. a \in Nat /\ b \in Nat /\ x \in Nat /\ a + x + 1 <= b
      BY <2>4, <2>5, <3>1, <3>2
    <3>4. a + x \in 0..(b - 1)
      BY <3>3
    <3>5. QED
      BY <3>2, <3>4
  <2>7. QED
    BY <2>3, <2>6
<1>7. \/ UNCHANGED heap
      \/ /\ ~\E at \in hit : at + 3 > Len(block) \/ m.ch < 3
         /\ heap' = [heap EXCEPT ![m.data] = drawn]
  BY <1>2 DEF SetPixels
<1> HIDE DEF drawn, hit, points, block, n, shape
<1>8. CASE UNCHANGED heap
  <2>1. Held' = Held
    BY <1>1, <1>8 DEF Held, Is, Holding, Bytes, GetByteCount
  <2>2. LentBytes' = LentBytes
    BY <1>1, <1>8 DEF LentBytes
  <2>3. QED
    BY <2>1, <2>2
<1>9. CASE m.ch >= 3 /\ heap' = [heap EXCEPT ![m.data] = drawn]
  <2>1. drawn = Values!Drawn(block, m.ch, points) /\ points \in SUBSET Nat
    <3>1. points \in SUBSET Nat
      BY <1>6
    <3>2. PICK b, ch, ps, at : b = block /\ ch = m.ch /\ ps = points /\ at = hit
      OBVIOUS
    <3>3. b \in Seq(Byte) /\ ch \in Nat \ {0} /\ ch >= 3 /\ ps \in SUBSET Nat /\ at = {q * ch : q \in ps}
      BY <1>3, <1>4, <1>5, <1>9, <3>1, <3>2
    <3>4. [k \in 1..Len(b) |->
             IF \E c \in 1..3 : k - c \in at
               THEN Colour[CHOOSE c \in 1..3 : k - c \in at] ELSE b[k]]
          = [k \in 1..Len(b) |-> IF (k - 1) \div ch \in ps /\ (k - 1) % ch < 3
                                   THEN Colour[((k - 1) % ch) + 1] ELSE b[k]]
      <4>1. ASSUME NEW k \in 1..Len(b)
            PROVE  (IF \E c \in 1..3 : k - c \in at
                      THEN Colour[CHOOSE c \in 1..3 : k - c \in at] ELSE b[k])
                   = IF (k - 1) \div ch \in ps /\ (k - 1) % ch < 3
                       THEN Colour[((k - 1) % ch) + 1] ELSE b[k]
        <5>1. k \in Nat \ {0}
          BY <3>3, LenProperties
        <5>2. /\ \A c \in 1..3 : k - c \in at =>
                   (k - 1) \div ch \in ps /\ (k - 1) % ch < 3 /\ c = ((k - 1) % ch) + 1
              /\ (k - 1) \div ch \in ps /\ (k - 1) % ch < 3 =>
                   ((k - 1) % ch) + 1 \in 1..3 /\ k - (((k - 1) % ch) + 1) \in at
          BY <3>3, <5>1, PixelOfByte
        <5>3. PICK d : d = ((k - 1) % ch) + 1
          OBVIOUS
        <5>4. CASE (k - 1) \div ch \in ps /\ (k - 1) % ch < 3
          <6>1. d \in 1..3 /\ k - d \in at /\ \A c \in 1..3 : k - c \in at => c = d
            BY <5>2, <5>3, <5>4
          <6>2. (CHOOSE c \in 1..3 : k - c \in at) = d
            BY <6>1
          <6>3. QED
            BY <5>3, <5>4, <6>1, <6>2
        <5>5. CASE ~((k - 1) \div ch \in ps /\ (k - 1) % ch < 3)
          <6>1. ~ \E c \in 1..3 : k - c \in at
            BY <5>2, <5>5
          <6>2. QED
            BY <5>5, <6>1
        <5>6. QED
          BY <5>4, <5>5
      <4>2. QED
        BY <4>1
    <3>5. drawn = [k \in 1..Len(block) |-> IF (k - 1) \div m.ch \in points /\ (k - 1) % m.ch < 3
                                   THEN Colour[((k - 1) % m.ch) + 1] ELSE block[k]]
      BY <3>2, <3>4 DEF drawn
    <3>6. QED
      BY <3>1, <3>5 DEF Values!Drawn
  <2>2. /\ heap'[m.data] = drawn
        /\ \A b \in Blocks : b # m.data => heap'[b] = heap[b]
    BY <1>1, <1>3, <1>9 DEF ImageTypes
  <2>3. \A k \in Names : image'[k] = image[k]
    BY <1>1
  <2>4. Held[i].w = m.w /\ Held[i].h = m.h /\ Held[i].ch = m.ch /\ Held[i] # None /\ Held[i] \in Value
    BY <1>1, HoldingIsValue
  <2>5. CASE m.own = 0
    <3>1. m.data \in lent /\ LentBytes = block /\ Held[i].view
      BY <1>1, <1>3, <2>5, BlocksAssumption, TheBuffer, HoldingIsValue DEF Ownership, Shows, n, block
    <3>2. LentBytes' = drawn
      <4>1. (CHOOSE b \in lent : TRUE) = m.data
        BY <1>1, <3>1 DEF ImageTypes
      <4>2. QED
        BY <1>1, <2>2, <3>1, <4>1 DEF LentBytes
    <3>3. Held' = Held
      <4>1. ASSUME NEW k \in Names PROVE Held'[k] = Held[k]
        <5>1. Is(k) /\ image[k].own # 0 => image[k].own \in Blocks /\ image[k].own # m.data
          BY <1>1, <3>1 DEF ImageTypes, Ownership, OwnsIts, Is, Record
        <5>2. QED
          BY <1>1, <2>2, <2>3, <5>1, SameHolding
      <4>2. Held = [k \in Names |-> Held[k]] /\ Held' = [k \in Names |-> Held'[k]]
        BY DEF Held
      <4>3. QED
        BY <4>1, <4>2
    <3>4. LentBytes' = Values!Drawn(LentBytes, Held[i].ch, points)
      BY <2>1, <2>4, <3>1, <3>2
    <3>5. points \in SUBSET (0..(Held[i].w * Held[i].h - 1)) /\ Held[i].ch >= 3
      BY <1>6, <1>9, <2>4
    <3>6. QED
      BY <2>4, <3>1, <3>3, <3>4, <3>5 DEF Values!Draw, Values!Is, Held, LentBytes
  <2>6. CASE m.own # 0
    <3>1. m.own = m.data /\ m.data \notin lent /\ ~Held[i].view /\ m.own \in Blocks
      BY <1>1, <1>3, <2>6, HoldingIsValue DEF Ownership, OwnsIts
    <3>2. LentBytes' = LentBytes
      BY <1>1, <2>2, <3>1, SameBuffer DEF ImageTypes
    <3>3. ASSUME NEW k \in Names, k # i PROVE Held'[k] = Held[k]
      <4>1. Is(k) /\ image[k].own # 0 => image[k].own \in Blocks /\ image[k].own # m.data
        BY <1>1, <2>6, <3>1, <3>3 DEF ImageTypes, Ownership, OwnsAlone, Is, Record
      <4>2. QED
        BY <1>1, <2>2, <2>3, <4>1, SameHolding
    <3>4. Held[i].bytes = SubSeq(block, 1, n)
      <4>1. n # 0
        BY <1>1, <1>4
      <4>2. QED
        BY <1>1, <2>6, <4>1, HoldingIsValue DEF Bytes, n, block
    <3>5. Held'[i] = [Held[i] EXCEPT !.bytes = SubSeq(drawn, 1, n)]
      <4>1. Held'[i] = [w |-> m.w, h |-> m.h, ch |-> m.ch, view |-> m.own = 0 /\ n > 0,
                     bytes |-> IF m.own = 0 /\ n > 0 THEN <<>>
                               ELSE IF n = 0 THEN <<>> ELSE SubSeq(heap'[m.data], 1, n)]
        BY <1>1, <2>3 DEF Held, Is, Holding, Bytes, GetByteCount, n
      <4>2. Held[i] = [w |-> m.w, h |-> m.h, ch |-> m.ch, view |-> m.own = 0 /\ n > 0,
                    bytes |-> IF m.own = 0 /\ n > 0 THEN <<>>
                              ELSE IF n = 0 THEN <<>> ELSE SubSeq(heap[m.data], 1, n)]
        BY <1>1 DEF Held, Holding, Bytes, n
      <4>3. PICK w, h, ch, view : /\ w = m.w /\ h = m.h /\ ch = m.ch
                                  /\ view = (m.own = 0 /\ n > 0)
        OBVIOUS
      <4>4. n # 0 /\ ~(m.own = 0 /\ n > 0)
        BY <1>1, <1>4, <2>6
      <4>5. PICK v, old, new : v = Held[i] /\ old = SubSeq(heap[m.data], 1, n) /\ new = SubSeq(drawn, 1, n)
        OBVIOUS
      <4>6. v = [w |-> w, h |-> h, ch |-> ch, view |-> view, bytes |-> old]
        BY <4>2, <4>3, <4>4, <4>5
      <4>7. Held'[i] = [w |-> w, h |-> h, ch |-> ch, view |-> view, bytes |-> new]
        BY <2>2, <4>1, <4>3, <4>4, <4>5
      <4>8. PICK drew : drew = [v EXCEPT !.bytes = new]
        OBVIOUS
      <4>9. drew \in [w : {w}, h : {h}, ch : {ch}, view : {view}, bytes : {new}]
        BY <4>6, <4>8
      <4>10. drew = [w |-> w, h |-> h, ch |-> ch, view |-> view, bytes |-> new]
        BY <4>9
      <4>11. QED
        BY <4>5, <4>7, <4>8, <4>10
    <3>6. SubSeq(drawn, 1, n) = Values!Drawn(Held[i].bytes, Held[i].ch, points)
      BY <1>3, <1>4, <2>1, <2>4, <3>4, DrawnFrom
    <3>7. Held' = [Held EXCEPT ![i] = [Held[i] EXCEPT !.bytes = Values!Drawn(Held[i].bytes, Held[i].ch, points)]]
      BY <3>3, <3>5, <3>6, OneNew
    <3>8. points \in SUBSET (0..(Held[i].w * Held[i].h - 1)) /\ Held[i].ch >= 3
      BY <1>6, <1>9, <2>4
    <3>9. QED
      BY <2>4, <3>1, <3>2, <3>7, <3>8 DEF Values!Draw, Values!Is, Held, LentBytes
  <2>7. QED
    BY <2>5, <2>6
<1>10. CASE m.ch < 3 /\ hit = {} /\ heap' = [heap EXCEPT ![m.data] = drawn]
  <2>1. drawn = block
    BY <1>3, <1>10 DEF drawn
  <2>2. UNCHANGED heap
    BY <1>1, <1>3, <1>10, <2>1 DEF block, ImageTypes
  <2>3. QED
    BY <1>8, <2>2
<1>11. QED
  BY <1>4, <1>7, <1>8, <1>9, <1>10

(* What an image shows changes with the user's buffer only if it is a view.  *)
LEMMA ImagesKept ==
  ASSUME ImageTypes, Ownership, UNCHANGED image,
         \A b \in Blocks : heap[b] # Free /\ b \notin lent => heap'[b] = heap[b]
  PROVE  Held' = Held
<1>1. ASSUME NEW k \in Names PROVE Held'[k] = Held[k]
  <2>1. Is(k) /\ image[k].own # 0 => heap'[image[k].own] = heap[image[k].own]
    BY DEF Ownership, OwnsIts, ImageTypes, Is, Record
  <2>2. image'[k] = image[k]
    OBVIOUS
  <2>3. QED
    BY <2>1, <2>2, SameHolding
<1>2. Held = [k \in Names |-> Held[k]] /\ Held' = [k \in Names |-> Held'[k]]
  BY DEF Held
<1>3. QED
  BY <1>1, <1>2

LEMMA BufferShows ==
  ASSUME IInv, Lend \/ WriteLent \/ EndLent
  PROVE  Values!Buffer
<1>1. ImageTypes /\ Ownership /\ UNCHANGED image
  BY DEF IInv, Lend, WriteLent, EndLent
<1>2. CASE Lend
  <2>1. PICK shape \in Shapes, f \in {Fresh} :
          f = Fresh /\ lent' = {f} /\ heap' = With(heap, f, Filled(SizeOf(shape)))
    BY <1>2 DEF Lend
  <2>2. f \in Blocks /\ heap[f] = Free
    BY <1>2, <2>1, FreshIsUnused DEF Lend
  <2>3. heap'[f] = Filled(SizeOf(shape)) /\ \A b \in Blocks : b # f => heap'[b] = heap[b]
    BY <1>1, <2>1, <2>2 DEF With, ImageTypes
  <2>4. Held' = Held
    BY <1>1, <2>2, <2>3, ImagesKept
  <2>5. LentBytes' = [k \in 1..Values!Size(shape) |-> Colour[k]]
    BY <2>1, <2>3 DEF LentBytes, Filled, SizeOf, Values!Size
  <2>6. QED
    BY <2>4, <2>5 DEF Values!Buffer, Held, LentBytes
<1>3. CASE WriteLent
  <2>1. PICK b \in lent : heap' = With(heap, b, Zeros(Len(heap[b])))
    BY <1>3 DEF WriteLent
  <2>2. UNCHANGED lent /\ b \in Blocks /\ lent = {b}
    BY <1>1, <1>3 DEF WriteLent, ImageTypes
  <2>3. heap'[b] = Zeros(Len(heap[b])) /\ \A c \in Blocks : c # b => heap'[c] = heap[c]
    BY <1>1, <2>1, <2>2 DEF With, ImageTypes
  <2>4. Held' = Held
    BY <1>1, <2>2, <2>3, ImagesKept
  <2>5. LentBytes = heap[b]
    BY <1>1, TheBuffer
  <2>6. LentBytes' = heap'[b]
    BY <2>2 DEF LentBytes
  <2>7. LentBytes' = Values!Zeros(Len(LentBytes))
    BY <2>3, <2>5, <2>6 DEF Zeros, Values!Zeros
  <2>8. QED
    BY <2>4, <2>7 DEF Values!Buffer, Held, LentBytes
<1>4. CASE EndLent
  <2>1. PICK b \in lent : heap' = With(heap, b, Free)
    BY <1>4 DEF EndLent
  <2>2. lent' = {} /\ b \in Blocks
    BY <1>1, <1>4 DEF EndLent, ImageTypes
  <2>3. \A c \in Blocks : c # b => heap'[c] = heap[c]
    BY <1>1, <2>1, <2>2 DEF With, ImageTypes
  <2>4. Held' = Held
    BY <1>1, <2>3, ImagesKept
  <2>5. LentBytes' = <<>>
    BY <2>2 DEF LentBytes
  <2>6. QED
    BY <2>4, <2>5 DEF Values!Buffer, Held, LentBytes
<1>5. QED
  BY <1>2, <1>3, <1>4

LEMMA InitShows == Init => Values!Init
<1> SUFFICES ASSUME Init PROVE Values!Init
  OBVIOUS
<1>1. image = [i \in Names |-> None] /\ lent = {}
  BY DEF Init
<1>2. [i \in Names |-> IF Is(i) THEN Holding(image[i]) ELSE None] = [i \in Names |-> None]
  BY <1>1 DEF Is
<1>3. QED
  BY <1>1, <1>2 DEF Values!Init

LEMMA StepShows == IInv /\ [Next]_vars => [Values!Next]_(Values!vars)
<1> SUFFICES ASSUME IInv, [Next]_vars PROVE Values!Next \/ (Held' = Held /\ LentBytes' = LentBytes)
  BY DEF Values!vars, Held, LentBytes
<1>1. CASE UNCHANGED vars
  BY <1>1 DEF vars, Held, LentBytes, Is, Holding, Bytes, GetByteCount
<1>2. ASSUME NEW i \in Names, Construct(i) \/ ConstructObserving(i) PROVE Values!Next
  BY <1>2, ConstructShows DEF Values!Next
<1>3. ASSUME NEW i \in Names, ConstructSized(i) \/ ConstructAdopting(i) \/ Set(i) PROVE Values!Next
  BY <1>3, NewBlockShows DEF Values!Next
<1>4. ASSUME NEW i \in Names, Draw(i) PROVE Values!Next \/ (Held' = Held /\ LentBytes' = LentBytes)
  BY <1>4, DrawShows DEF Values!Next
<1>5. ASSUME NEW i \in Names, Destroy(i) PROVE Values!Next
  BY <1>5, DestroyShows DEF Values!Next
<1>6. ASSUME NEW i \in Names, NEW j \in Names, Copy(i, j) PROVE Values!Next
  BY <1>6, CopyShows DEF Values!Next
<1>7. ASSUME NEW i \in Names, NEW j \in Names, Move(i, j) PROVE Values!Next
  BY <1>7, MoveShows DEF Values!Next
<1>8. ASSUME Lend \/ WriteLent \/ EndLent PROVE Values!Next
  BY <1>8, BufferShows DEF Values!Next
<1>9. QED
  BY <1>1, <1>2, <1>3, <1>4, <1>5, <1>6, <1>7, <1>8 DEF Next

(* Whatever is done with blocks, images are to the program the values of     *)
(* ImageValues: a call on one shows in no other, but through the buffer of   *)
(* the user's that both are views of (Image.cpp:18-165, 211-316).            *)
THEOREM ImagesImplementValues == Spec => ImagesAreValues
BY InitIInv, IInvStep, InitShows, StepShows, PTL DEF Spec, ImagesAreValues, Values!Spec

-----------------------------------------------------------------------------
(* Induction over the naturals, as a fact about a set of them: their order is *)
(* well founded, so that those left out would have a least one.              *)
LEMMA NatSetInduction ==
  ASSUME NEW S \in SUBSET Nat, 0 \in S, \A n \in S : n + 1 \in S
  PROVE  \A n \in Nat : n \in S
<1> DEFINE R == OpToRel(<, Nat)
<1>1. SUFFICES ASSUME Nat \ S # {} PROVE FALSE
  OBVIOUS
<1>2. \A x, y \in Nat : x < y => <<x, y>> \in R
  BY DEF OpToRel
<1>3. IsWellFoundedOn(R, Nat)
  BY NatLessThanWellFounded
<1> HIDE DEF R
<1>4. PICK x \in Nat \ S : \A y \in Nat \ S : ~(<<y, x>> \in R)
  <2>1. Nat \ S \subseteq Nat
    OBVIOUS
  <2>2. QED
    BY <1>1, <1>3, <2>1, WFMin, Zenon
<1>5. x - 1 \in Nat /\ x - 1 < x
  OBVIOUS
<1>6. x - 1 \in S
  BY <1>2, <1>4, <1>5
<1>7. QED
  BY <1>4, <1>5, <1>6

(* Position k of row m, and back.                                            *)
LEMMA RowOf ==
  ASSUME NEW len \in Nat \ {0}
  PROVE  /\ \A m \in Nat : \A k \in 0..(len - 1) : (m * len + k) \div len = m /\ (m * len + k) % len = k
         /\ \A a \in Nat : /\ a \div len \in Nat /\ a % len \in 0..(len - 1)
                           /\ a = (a \div len) * len + (a % len)
<1>1. \A m \in Nat : \A k \in 0..(len - 1) : (m * len + k) \div len = m
  OBVIOUS
<1>2. \A m \in Nat : \A k \in 0..(len - 1) : (m * len + k) % len = k
  OBVIOUS
<1>3. \A a \in Nat : a \div len \in Nat /\ a % len \in 0..(len - 1)
  OBVIOUS
<1>4. \A a \in Nat : a = (a \div len) * len + (a % len)
  OBVIOUS
<1>5. QED
  BY <1>1, <1>2, <1>3, <1>4

LEMMA RowsInOrder ==
  /\ \A m, len \in Nat : m * len \in Nat /\ (m + 1) * len = m * len + len
  /\ \A a, b, len \in Nat : a <= b => a * len <= b * len
<1>1. \A m, len \in Nat : m * len \in Nat /\ (m + 1) * len = m * len + len
  OBVIOUS
<1>2. \A a, b, len \in Nat : a <= b => a * len <= b * len
  OBVIOUS
<1>3. QED
  BY <1>1, <1>2

(* The library's FlattenSeq of n rows that are equally long: a recursive      *)
(* function of which each value is the rows so far, one behind the other.    *)
AreRowsOf(data, T, n, len, rows) ==
  /\ data \in Seq(T) /\ Len(data) = n * len
  /\ \A r \in 1..n, k \in 1..len :
       (r - 1) * len + k \in 1..(n * len) /\ data[(r - 1) * len + k] = rows[r][k]

LEMMA Flattened ==
  ASSUME NEW T, NEW n \in Nat \ {0}, NEW len \in Nat, NEW rows \in [1..n -> Seq(T)],
         \A r \in 1..n : Len(rows[r]) = len
  PROVE  AreRowsOf(FlattenSeq(rows), T, n, len, rows)
<1> DEFINE Upto(m) == [p \in 1..(m * len) |-> rows[((p - 1) \div len) + 1][((p - 1) % len) + 1]]
           Eq(f) == f = [i \in 1..n |-> IF i = 1 THEN rows[i] ELSE f[i - 1] \o rows[i]]
<1>1. \A m \in Nat : m * len \in Nat /\ (m + 1) * len = m * len + len
  BY RowsInOrder
<1>2. ASSUME NEW m \in Nat, NEW k \in 1..len
      PROVE  /\ m * len + k \in Nat \ {0}
             /\ (m * len + k - 1) \div len = m /\ (m * len + k - 1) % len = k - 1
  <2>1. len \in Nat \ {0} /\ k - 1 \in 0..(len - 1)
    OBVIOUS
  <2>2. (m * len + (k - 1)) \div len = m /\ (m * len + (k - 1)) % len = k - 1
    BY <2>1, RowOf
  <2>3. PICK at : at = m * len /\ at \in Nat
    BY <1>1
  <2>4. at + k \in Nat \ {0} /\ at + k - 1 = at + (k - 1)
    <3>1. at \in Nat /\ k \in Nat \ {0}
      BY <2>3
    <3>2. QED
      BY <3>1
  <2>5. QED
    BY <2>2, <2>3, <2>4
<1>3. ASSUME NEW m \in 1..n, NEW p \in 1..(m * len)
      PROVE  ((p - 1) \div len) + 1 \in 1..m /\ ((p - 1) % len) + 1 \in 1..len
  <2>1. len \in Nat \ {0}
    BY <1>1
  <2>2. PICK q, r : q = (p - 1) \div len /\ r = (p - 1) % len
    OBVIOUS
  <2>3. p - 1 \in Nat
    BY <1>1
  <2>4. q \in Nat /\ r \in 0..(len - 1) /\ p - 1 = q * len + r
    BY <2>1, <2>2, <2>3, RowOf
  <2>5. q < m
    <3>1. SUFFICES ASSUME m <= q PROVE FALSE
      BY <2>4
    <3>2. m * len <= q * len /\ q * len \in Nat /\ m * len \in Nat
      BY <2>4, <3>1, RowsInOrder
    <3>3. PICK a, b : a = m * len /\ b = q * len
      OBVIOUS
    <3>4. a \in Nat /\ b \in Nat /\ a <= b /\ p - 1 = b + r /\ p \in 1..a
      BY <2>4, <3>2, <3>3
    <3>5. QED
      BY <2>4, <3>4
  <2>6. QED
    BY <2>2, <2>4, <2>5
<1>4. ASSUME NEW m \in 1..n PROVE Upto(m) \in Seq(T) /\ Len(Upto(m)) = m * len
  <2>1. ASSUME NEW p \in 1..(m * len) PROVE rows[((p - 1) \div len) + 1][((p - 1) % len) + 1] \in T
    <3>1. PICK r, k : r = ((p - 1) \div len) + 1 /\ k = ((p - 1) % len) + 1
      OBVIOUS
    <3>2. r \in 1..m /\ k \in 1..len
      BY <1>3, <3>1
    <3>3. r \in 1..n
      BY <3>2
    <3>4. rows[r] \in Seq(T) /\ k \in 1..Len(rows[r])
      BY <3>2, <3>3
    <3>5. QED
      BY <3>1, <3>4, ElementOfSeq
  <2>2. m * len \in Nat
    BY <1>1
  <2>3. QED
    BY <2>1, <2>2
<1>5. ASSUME NEW m \in 1..n, NEW r \in 1..m, NEW k \in 1..len
      PROVE  (r - 1) * len + k \in 1..(m * len) /\ Upto(m)[(r - 1) * len + k] = rows[r][k]
  <2>1. r - 1 \in Nat /\ r \in Nat /\ m \in Nat /\ r <= m /\ (r - 1) + 1 = r
    OBVIOUS
  <2>2. (r - 1) * len \in Nat /\ ((r - 1) + 1) * len = (r - 1) * len + len /\ m * len \in Nat
    BY <1>1, <2>1
  <2>3. PICK at, end : at = (r - 1) * len /\ end = m * len
    OBVIOUS
  <2>4. at \in Nat /\ end \in Nat /\ at + len <= end
    <3>1. r * len <= m * len
      BY <2>1, RowsInOrder
    <3>2. QED
      BY <2>1, <2>2, <2>3, <3>1
  <2>5. at + k \in 1..end
    BY <2>4
  <2>6. (at + k - 1) \div len = r - 1 /\ (at + k - 1) % len = k - 1
    BY <1>2, <2>1, <2>3
  <2>7. Upto(m)[at + k] = rows[(r - 1) + 1][(k - 1) + 1]
    BY <2>3, <2>5, <2>6
  <2>8. (k - 1) + 1 = k
    OBVIOUS
  <2>9. QED
    BY <2>1, <2>3, <2>5, <2>7, <2>8

<1>6. ASSUME NEW m \in 1..n, m # 1 PROVE Upto(m) = Upto(m - 1) \o rows[m]
  <2>1. m - 1 \in 1..n /\ m - 1 \in Nat /\ m * len = (m - 1) * len + len /\ (m - 1) * len \in Nat
    BY <1>1, <1>6
  <2>2. PICK a, b, c : a = Upto(m - 1) /\ b = rows[m] /\ c = Upto(m)
    OBVIOUS
  <2>3. /\ a \in Seq(T) /\ b \in Seq(T) /\ c \in Seq(T)
        /\ Len(a) = (m - 1) * len /\ Len(b) = len /\ Len(c) = (m - 1) * len + len
    BY <1>4, <2>1, <2>2
  <2>4. \A p \in 1..((m - 1) * len) : c[p] = a[p]
    BY <2>1, <2>2
  <2>5. \A k \in 1..len : c[(m - 1) * len + k] = b[k]
    <3> HIDE DEF Upto
    <3>1. m \in 1..m
      OBVIOUS
    <3>2. QED
      BY <1>5, <2>2, <3>1
  <2>6. PICK at : at = (m - 1) * len
    OBVIOUS
  <2>7. at \in Nat /\ Len(a) = at /\ Len(c) = at + len
        /\ (\A p \in 1..at : c[p] = a[p]) /\ \A k \in 1..len : c[at + k] = b[k]
    BY <2>1, <2>3, <2>4, <2>5, <2>6
  <2> HIDE DEF Upto
  <2>8. a \o b \in Seq(T) /\ Len(a \o b) = at + len
        /\ \A p \in 1..(at + len) : (a \o b)[p] = IF p <= at THEN a[p] ELSE b[p - at]
    <3>1. a \in Seq(T) /\ b \in Seq(T) /\ Len(b) = len
      BY <2>3
    <3>2. a \o b \in Seq(T) /\ Len(a \o b) = Len(a) + Len(b)
          /\ \A p \in 1..(Len(a) + Len(b)) : (a \o b)[p] = IF p <= Len(a) THEN a[p] ELSE b[p - Len(a)]
      BY <3>1, ConcatProperties, Zenon
    <3>3. QED
      BY <2>7, <3>1, <3>2, Zenon
  <2>9. \A p \in 1..(at + len) : c[p] = (a \o b)[p]
    <3>1. SUFFICES ASSUME NEW p \in 1..(at + len) PROVE c[p] = (a \o b)[p]
      OBVIOUS
    <3>2. CASE p <= at
      BY <2>7, <2>8, <3>2
    <3>3. CASE p > at
      <4>1. p - at \in 1..len /\ at + (p - at) = p
        BY <2>7, <3>3
      <4>2. QED
        BY <2>7, <2>8, <3>3, <4>1
    <3>4. p <= at \/ p > at
      <4>1. at \in Nat /\ p \in Int
        BY <2>7
      <4>2. QED
        BY <4>1
    <3>5. QED
      BY <3>2, <3>3, <3>4
  <2>10. c = a \o b
    BY <2>3, <2>7, <2>8, <2>9, SeqEqual
  <2>11. QED
    BY <2>2, <2>10
<1>7. Upto(1) = rows[1]
  <2>1. 1 \in 1..n /\ 1 * len = len /\ (1 - 1) * len = 0
    OBVIOUS
  <2>2. Upto(1) \in Seq(T) /\ Len(Upto(1)) = len /\ rows[1] \in Seq(T) /\ Len(rows[1]) = len
    BY <1>4, <2>1
  <2>3. ASSUME NEW k \in 1..len PROVE Upto(1)[k] = rows[1][k]
    <3> HIDE DEF Upto
    <3>1. Upto(1)[(1 - 1) * len + k] = rows[1][k]
      <4>1. 1 \in 1..1
        OBVIOUS
      <4>2. QED
        BY <1>5, <2>1, <4>1
    <3>2. (1 - 1) * len + k = k
      BY <2>1
    <3>3. QED
      BY <3>1, <3>2
  <2> HIDE DEF Upto
  <2>4. QED
    BY <2>2, <2>3, SeqEqual
<1> DEFINE f == CHOOSE f : Eq(f)
<1>8. Eq(f)
  <2>1. PICK g : g = [i \in 1..n |-> Upto(i)]
    OBVIOUS
  <2> HIDE DEF Upto
  <2>2. ASSUME NEW i \in 1..n PROVE g[i] = IF i = 1 THEN rows[i] ELSE g[i - 1] \o rows[i]
    <3>1. i # 1 => i - 1 \in 1..n
      OBVIOUS
    <3>2. QED
      BY <1>6, <1>7, <2>1, <3>1
  <2>3. Eq(g)
    BY <2>1, <2>2
  <2> HIDE DEF Eq
  <2>4. QED
    BY <2>3
<1>9. FlattenSeq(rows) = f[n]
  <2>1. Len(rows) = n /\ n # 0
    OBVIOUS
  <2>2. FlattenSeq(rows) =
          (CHOOSE g : g = [i \in 1..Len(rows) |-> IF i = 1 THEN rows[i] ELSE g[i - 1] \o rows[i]])[Len(rows)]
    BY <2>1 DEF FlattenSeq
  <2>3. QED
    BY <2>1, <2>2
<1>10. f[n] = Upto(n)
  <2> HIDE DEF Upto, f
  <2> DEFINE S == {m \in Nat : m + 1 \in 1..n => f[m + 1] = Upto(m + 1)}
  <2>1. 0 \in S
    BY <1>7, <1>8
  <2>2. ASSUME NEW m \in S PROVE m + 1 \in S
    <3>1. SUFFICES ASSUME m + 1 + 1 \in 1..n PROVE f[m + 1 + 1] = Upto(m + 1 + 1)
      OBVIOUS
    <3>2. m + 1 \in 1..n /\ m + 1 + 1 # 1 /\ (m + 1 + 1) - 1 = m + 1 /\ f[m + 1] = Upto(m + 1)
      BY <3>1
    <3>3. f[m + 1 + 1] = f[m + 1] \o rows[m + 1 + 1]
      BY <1>8, <3>1, <3>2
    <3>4. Upto(m + 1 + 1) = Upto((m + 1 + 1) - 1) \o rows[m + 1 + 1]
      BY <1>6, <3>1, <3>2
    <3>5. QED
      BY <3>2, <3>3, <3>4
  <2>3. S \in SUBSET Nat
    OBVIOUS
  <2> HIDE DEF S
  <2>4. \A m \in Nat : m \in S
    BY <2>1, <2>2, <2>3, NatSetInduction
  <2>5. n - 1 \in S
    BY <2>4
  <2>6. QED
    BY <2>5 DEF S
<1>11. n \in 1..n
  OBVIOUS
<1>12. QED
  <2> HIDE DEF Upto, f
  <2>1. PICK flat : flat = FlattenSeq(rows) /\ flat = Upto(n)
    BY <1>9, <1>10
  <2>2. flat \in Seq(T) /\ Len(flat) = n * len
    BY <1>4, <1>11, <2>1
  <2>3. \A r \in 1..n, k \in 1..len :
          (r - 1) * len + k \in 1..(n * len) /\ flat[(r - 1) * len + k] = rows[r][k]
    BY <1>5, <1>11, <2>1
  <2>4. QED
    BY <2>1, <2>2, <2>3 DEF AreRowsOf

-----------------------------------------------------------------------------
(* Bitmaps.  A row and its padding are a multiple of four bytes.             *)
Stride(w) == 4 * ((w * 24 + 31) \div 32)

LEMMA StrideIsRow ==
  ASSUME NEW w \in Nat
  PROVE  /\ Stride(w) \in Nat /\ 3 * w \in Nat /\ 3 * w <= Stride(w)
         /\ (4 - ((3 * w) % 4)) % 4 \in Nat
         /\ Stride(w) = 3 * w + ((4 - ((3 * w) % 4)) % 4)
BY DEF Stride

LEMMA RowIsPadded ==
  ASSUME NEW m \in Record, NEW y \in Int
  PROVE  LET T == {ByteAt(m, k) : k \in Int} \cup {0}
             row == PixelRow(m, y) \o Padding(3 * m.w)
         IN /\ row \in Seq(T) /\ Len(row) = Stride(m.w)
            /\ \A k \in 1..(3 * m.w) : row[k] = PixelRow(m, y)[k]
<1> DEFINE T == {ByteAt(m, k) : k \in Int} \cup {0}
           at(k) == Offset(m, <<(k - 1) \div 3, y>>) + 2 - ((k - 1) % 3)
           w == m.w
<1>1. w \in Nat /\ m.ch \in Nat
  BY DEF Record
<1>2. ASSUME NEW k \in 1..(3 * w) PROVE at(k) \in Int
  <2>1. k - 1 \in Nat /\ (k - 1) \div 3 \in Int /\ (k - 1) % 3 \in Int
    BY <1>1
  <2>2. \A a, b \in Int : a * b \in Int
    OBVIOUS
  <2>3. m.w * y + ((k - 1) \div 3) \in Int
    BY <1>1, <2>1, <2>2
  <2>4. Offset(m, <<(k - 1) \div 3, y>>) \in Int
    BY <1>1, <2>2, <2>3 DEF Offset
  <2>5. QED
    BY <2>1, <2>4
<1>3. PixelRow(m, y) = [k \in 1..(3 * w) |-> ByteAt(m, at(k))]
  BY DEF PixelRow
<1>4. PixelRow(m, y) \in Seq(T) /\ Len(PixelRow(m, y)) = 3 * w
  <2>1. 3 * w \in Nat
    BY <1>1
  <2>2. \A k \in 1..(3 * w) : ByteAt(m, at(k)) \in T
    BY <1>2
  <2> HIDE DEF T, at
  <2>3. QED
    BY <1>3, <2>1, <2>2
<1>5. Padding(3 * w) \in Seq(T) /\ Len(Padding(3 * w)) = (4 - ((3 * w) % 4)) % 4
  <2>1. (4 - ((3 * w) % 4)) % 4 \in Nat /\ 0 \in T
    BY <1>1, StrideIsRow
  <2> HIDE DEF T
  <2>2. QED
    BY <2>1 DEF Padding, Zeros
<1> HIDE DEF T
<1>6. PICK row, pad : row = PixelRow(m, y) /\ pad = Padding(3 * w)
  OBVIOUS
<1>7. /\ row \o pad \in Seq(T) /\ Len(row \o pad) = Len(row) + Len(pad)
      /\ \A k \in 1..(Len(row) + Len(pad)) : (row \o pad)[k] = IF k <= Len(row) THEN row[k] ELSE pad[k - Len(row)]
  BY <1>4, <1>5, <1>6, ConcatProperties
<1>8. Len(row) = 3 * w /\ Len(pad) \in Nat /\ Len(row) + Len(pad) = Stride(w) /\ 3 * w \in Nat
  BY <1>1, <1>4, <1>5, <1>6, StrideIsRow
<1>9. \A k \in 1..(3 * w) : (row \o pad)[k] = row[k]
  <2>1. \A k \in 1..(3 * w) : k \in 1..(Len(row) + Len(pad)) /\ k <= Len(row)
    BY <1>8
  <2>2. QED
    BY <1>7, <2>1
<1>10. QED
  BY <1>6, <1>7, <1>8, <1>9 DEF T

(* The data of a bitmap are its lines, each a stride long.                   *)
LEMMA DataAreLines ==
  ASSUME NEW m \in Record
  PROVE  /\ Len(PixelData(m)) = Stride(m.w) * m.h /\ \E T : PixelData(m) \in Seq(T)
         /\ \A y \in 1..m.h, k \in 1..(3 * m.w) :
              /\ Stride(m.w) * (m.h - y) + k \in 1..Len(PixelData(m))
              /\ PixelData(m)[Stride(m.w) * (m.h - y) + k] = PixelRow(m, y)[k]
<1> DEFINE T == {ByteAt(m, k) : k \in Int} \cup {0}
           rows == [r \in 1..m.h |-> PixelRow(m, m.h + 1 - r) \o Padding(3 * m.w)]
<1>1. m.w \in Nat /\ m.h \in Nat /\ Stride(m.w) \in Nat
  BY StrideIsRow DEF Record
<1>2. PixelData(m) = FlattenSeq(rows)
  BY DEF PixelData
<1>3. ASSUME NEW r \in 1..m.h
      PROVE  /\ rows[r] \in Seq(T) /\ Len(rows[r]) = Stride(m.w)
             /\ \A k \in 1..(3 * m.w) : rows[r][k] = PixelRow(m, m.h + 1 - r)[k]
  <2>1. m.h + 1 - r \in Int
    BY <1>1
  <2>2. rows[r] = PixelRow(m, m.h + 1 - r) \o Padding(3 * m.w)
    OBVIOUS
  <2>3. QED
    BY <2>1, <2>2, RowIsPadded
<1>4. rows \in [1..m.h -> Seq(T)] /\ DOMAIN rows = 1..m.h /\ Len(rows) = m.h
  <2>1. DOMAIN rows = 1..m.h /\ rows = [r \in 1..m.h |-> rows[r]]
    OBVIOUS
  <2> HIDE DEF rows, T
  <2>2. rows \in [1..m.h -> Seq(T)]
    BY <1>3, <2>1
  <2>3. QED
    BY <1>1, <2>1, <2>2
<1> HIDE DEF rows, T
<1>5. CASE m.h = 0
  <2>1. FlattenSeq(rows) = rows
    BY <1>4, <1>5 DEF FlattenSeq
  <2>2. rows \in Seq(T) /\ Len(rows) = 0 /\ Stride(m.w) * m.h = 0
    BY <1>1, <1>4, <1>5
  <2>3. QED
    BY <1>2, <1>5, <2>1, <2>2
<1>6. CASE m.h # 0
  <2>1. PICK h, s, data : h = m.h /\ s = Stride(m.w) /\ data = PixelData(m)
    OBVIOUS
  <2>2. h \in Nat \ {0} /\ s \in Nat /\ rows \in [1..h -> Seq(T)] /\ \A r \in 1..h : Len(rows[r]) = s
    BY <1>1, <1>3, <1>4, <1>6, <2>1
  <2>3. /\ data \in Seq(T) /\ Len(data) = h * s
        /\ \A r \in 1..h, k \in 1..s : (r - 1) * s + k \in 1..(h * s) /\ data[(r - 1) * s + k] = rows[r][k]
    <3>1. PICK U, R : U = T /\ R = rows
      OBVIOUS
    <3>2. R \in [1..h -> Seq(U)] /\ (\A r \in 1..h : Len(R[r]) = s) /\ data = FlattenSeq(R)
      BY <1>2, <2>1, <2>2, <3>1
    <3>3. AreRowsOf(FlattenSeq(R), U, h, s, R)
      BY <2>2, <3>2, Flattened
    <3>4. QED
      BY <3>1, <3>2, <3>3 DEF AreRowsOf
  <2>4. ASSUME NEW y \in 1..h, NEW k \in 1..(3 * m.w)
        PROVE  s * (h - y) + k \in 1..Len(data) /\ data[s * (h - y) + k] = PixelRow(m, y)[k]
    <3>1. PICK r \in 1..h : r = h + 1 - y /\ r - 1 = h - y /\ h + 1 - r = y
      BY <2>2
    <3>2. k \in 1..s
      BY <1>1, <2>1, StrideIsRow
    <3>3. rows[r][k] = PixelRow(m, h + 1 - r)[k]
      BY <1>3, <2>1
    <3>4. (r - 1) * s = s * (h - y)
      BY <2>2, <3>1
    <3>5. QED
      BY <2>3, <3>1, <3>2, <3>3, <3>4
  <2>5. h * s = s * h
    BY <2>2
  <2>6. QED
    BY <2>1, <2>3, <2>4, <2>5
<1>7. QED
  BY <1>5, <1>6

(* Byte c of the pixel at column x of row y, which the row that is saved for *)
(* y has as the byte 4 - c of its pixel x.                                   *)
LEMMA RowHoldsPixel ==
  ASSUME ImageTypes, Ownership, NEW i \in Names, Is(i), image[i].ch = 3,
         NEW x \in 0..(image[i].w - 1), NEW y \in 0..(image[i].h - 1), NEW c \in 1..3
  PROVE  /\ 3 * x + (4 - c) \in 1..(3 * image[i].w)
         /\ PixelRow(image[i], y)[3 * x + (4 - c)] = Bytes(image[i])[Offset(image[i], <<x, y>>) + c]
<1> DEFINE m == image[i]
           n == GetByteCount(m)
           at == Offset(m, <<x, y>>)
           block == heap[m.data]
           k == 3 * x + (4 - c)
<1>1. m \in Record /\ n \in Nat /\ Len(Bytes(m)) = n
  BY BytesOfImage
<1>2. m.w \in Nat \ {0} /\ m.h \in Nat \ {0} /\ m.ch = 3 /\ 3 \in Nat \ {0}
  BY <1>1 DEF Record
<1>3. at \in Nat /\ at + 3 <= n
  <2>1. PICK w, h, ch : w = m.w /\ h = m.h /\ ch = m.ch
    OBVIOUS
  <2>2. w \in Nat \ {0} /\ h \in Nat \ {0} /\ ch \in Nat \ {0} /\ x \in 0..(w - 1) /\ y \in 0..(h - 1)
    BY <1>2, <2>1
  <2>3. (w * y + x) * ch \in Nat /\ (w * y + x) * ch + ch <= ch * w * h
    BY <2>2, PixelInBlock
  <2>4. at = (w * y + x) * ch /\ n = ch * w * h /\ ch = 3
    BY <1>2, <2>1 DEF Offset, GetByteCount
  <2>5. QED
    BY <2>3, <2>4
<1>4. Len(block) \in Nat /\ Len(block) >= n /\ n > 0 /\ block \in Seq(Byte)
  <2>1. n > 0
    BY <1>1, <1>3
  <2>2. block \in Seq(Byte) /\ Len(block) >= n
    BY <2>1 DEF Ownership, Shows, ImageTypes
  <2>3. QED
    BY <2>1, <2>2, LenProperties
<1>5. Bytes(m)[at + c] = block[at + c]
  <2>1. Bytes(m) = SubSeq(block, 1, n)
    BY <1>1, <1>4 DEF Bytes
  <2>2. at + c \in 1..n
    <3> HIDE DEF at, n
    <3>1. QED
      BY <1>1, <1>3
  <2> HIDE DEF at, n, block
  <2>3. \A p \in 1..n : SubSeq(block, 1, n)[p] = block[p]
    BY <1>1, <1>4
  <2>4. QED
    BY <2>1, <2>2, <2>3
<1>6. k \in 1..(3 * m.w) /\ (k - 1) \div 3 = x /\ (k - 1) % 3 = 3 - c
  <2>1. PICK w : w = m.w
    OBVIOUS
  <2>2. w \in Nat \ {0} /\ x \in 0..(w - 1)
    BY <1>2, <2>1
  <2>3. k \in 1..(3 * w) /\ (k - 1) \div 3 = x /\ (k - 1) % 3 = 3 - c
    BY <2>2
  <2>4. QED
    BY <2>1, <2>3
<1>7. PixelRow(m, y)[k] = ByteAt(m, at + 2 - (3 - c))
  <2> HIDE DEF k
  <2>1. QED
    BY <1>6 DEF PixelRow
<1>8. ByteAt(m, at + 2 - (3 - c)) = block[at + c]
  <2> HIDE DEF at, n
  <2>1. PICK p : p = at + 2 - (3 - c)
    OBVIOUS
  <2>2. p + 1 = at + c /\ p < Len(block)
    <3> HIDE DEF block
    <3>1. QED
      BY <1>1, <1>3, <1>4, <2>1
  <2>3. ByteAt(m, p) = block[p + 1]
    BY <2>2 DEF ByteAt
  <2>4. QED
    BY <2>1, <2>2, <2>3
<1>9. QED
  BY <1>5, <1>6, <1>7, <1>8

(* Every row of a three-channel image but the first is in the bitmap, one    *)
(* line too high, and its sizes are those that its header promises, for      *)
(* images of all measures (Bitmap.cpp:12-44, 75-120).                        *)
THEOREM BitmapsHoldRows == Spec => []BitmapHoldsRows
<1>1. IInv => BitmapHoldsRows
  <2> DEFINE m(i) == image[i]
             Data(i) == PixelData(image[i])
             S(i) == Stride(image[i].w)
  <2>1. SUFFICES ASSUME ImageTypes, Ownership PROVE BitmapHoldsRows
    BY DEF IInv
  <2>2. ASSUME NEW i \in Names, Is(i), m(i).ch = 3
        PROVE  /\ 4 * ((m(i).w * (8 * m(i).ch) + 31) \div 32) = S(i)
               /\ Len(Data(i)) = S(i) * m(i).h
               /\ \A x \in 0..(m(i).w - 1), y \in 1..(m(i).h - 1), c \in 1..3 :
                    SubSeq(Data(i), S(i) * (m(i).h - y) + 3 * x + 1, S(i) * (m(i).h - y) + 3 * x + 3)[4 - c]
                      = Bytes(m(i))[Offset(m(i), <<x, y>>) + c]
    <3>1. image[i] \in Record /\ image[i].w \in Nat /\ image[i].h \in Nat
      BY <2>1, <2>2, BytesOfImage DEF Record
    <3>2. 8 * m(i).ch = 24
      BY <2>2
    <3>3. 4 * ((m(i).w * (8 * m(i).ch) + 31) \div 32) = S(i)
      BY <3>2 DEF Stride
    <3>4. PICK data, s, h, w : /\ data = Data(i) /\ s = S(i) /\ h = image[i].h /\ w = image[i].w
                               /\ \E T : data \in Seq(T)
      BY <3>1, DataAreLines
    <3>5. /\ Len(data) = s * h /\ s \in Nat /\ h \in Nat /\ w \in Nat /\ Len(data) \in Nat
          /\ \A y \in 1..h, k \in 1..(3 * w) :
               s * (h - y) + k \in 1..Len(data) /\ data[s * (h - y) + k] = PixelRow(image[i], y)[k]
      <4>1. s \in Nat
        BY <3>1, <3>4, StrideIsRow
      <4>2. Len(data) \in Nat
        BY <3>4, LenProperties
      <4>3. QED
        BY <3>1, <3>4, <4>1, <4>2, DataAreLines
    <3>6. ASSUME NEW x \in 0..(w - 1), NEW y \in 1..(h - 1), NEW c \in 1..3
          PROVE  SubSeq(data, s * (h - y) + 3 * x + 1, s * (h - y) + 3 * x + 3)[4 - c]
                   = Bytes(m(i))[Offset(m(i), <<x, y>>) + c]
      <4>1. y \in 0..(h - 1) /\ y \in 1..h
        BY <3>5
      <4>2. /\ 3 * x + (4 - c) \in 1..(3 * w)
            /\ PixelRow(image[i], y)[3 * x + (4 - c)] = Bytes(image[i])[Offset(image[i], <<x, y>>) + c]
        BY <2>1, <2>2, <3>4, <4>1, RowHoldsPixel
      <4>3. data[s * (h - y) + (3 * x + (4 - c))] = PixelRow(image[i], y)[3 * x + (4 - c)]
        BY <3>5, <4>1, <4>2
      <4>4. \A d \in 1..3 : 3 * x + d \in 1..(3 * w)
        BY <3>5
      <4>5. PICK at : at = s * (h - y)
        OBVIOUS
      <4>6. at \in Int
        <5>1. \A a, b \in Int : a * b \in Int
          OBVIOUS
        <5>2. QED
          BY <3>5, <4>1, <4>5, <5>1
      <4>7. \A d \in 1..3 : at + (3 * x + d) \in 1..Len(data)
        BY <3>5, <4>1, <4>4, <4>5
      <4>8. PICK from : from = at + 3 * x + 1 /\ from \in 1..Len(data) /\ from + 2 \in 1..Len(data)
        BY <3>5, <4>6, <4>7
      <4>9. SubSeq(data, from, from + 2)[4 - c] = data[from + (4 - c) - 1]
        <5>1. PICK T : data \in Seq(T)
          BY <3>4
        <5>2. \A p \in from..(from + 2) : data[p] \in T
          <6>1. \A p \in from..(from + 2) : p \in 1..Len(data)
            BY <3>5, <4>8
          <6>2. QED
            BY <5>1, <6>1, ElementOfSeq
        <5>3. \A p \in 1..((from + 2) - from + 1) : SubSeq(data, from, from + 2)[p] = data[from + p - 1]
          <6>1. from \in Int /\ from + 2 \in Int
            BY <4>8
          <6>2. QED
            BY <5>2, <6>1, SubSeqProperties
        <5>4. 4 - c \in 1..((from + 2) - from + 1)
          BY <4>8
        <5>5. QED
          BY <5>3, <5>4
      <4>10. at + 3 * x + 3 = from + 2 /\ from + (4 - c) - 1 = at + (3 * x + (4 - c))
        BY <4>6, <4>8
      <4>11. QED
        BY <4>2, <4>3, <4>5, <4>8, <4>9, <4>10
    <3>7. QED
      BY <3>3, <3>4, <3>5, <3>6
  <2>3. ASSUME NEW i \in Names, Is(i), m(i).ch = 3
        PROVE  LET bitmap == CreateBitmap(m(i)) IN
               /\ bitmap.width = m(i).w /\ bitmap.height = m(i).h /\ bitmap.bits = 8 * m(i).ch
               /\ bitmap.data = Data(i) /\ bitmap.dataSize = Len(Data(i))
               /\ bitmap.fileSize = 54 + Len(Data(i))
    BY DEF CreateBitmap
  <2> DEFINE Rows(mm, bitmap) ==
        LET stride == 4 * ((bitmap.width * bitmap.bits + 31) \div 32)
            At(x, line) == SubSeq(bitmap.data, stride * line + 3 * x + 1, stride * line + 3 * x + 3)
        IN /\ bitmap.dataSize = stride * bitmap.height /\ bitmap.fileSize = 54 + bitmap.dataSize
           /\ \A x \in 0..(mm.w - 1), y \in 1..(mm.h - 1), c \in 1..3 :
                At(x, mm.h - y)[4 - c] = Bytes(mm)[Offset(mm, <<x, y>>) + c]
  <2>4. ASSUME NEW i \in Names, Is(i), m(i).ch = 3 PROVE Rows(m(i), CreateBitmap(m(i)))
    <3> HIDE DEF S, Data
    <3>1. PICK b : b = CreateBitmap(m(i))
      OBVIOUS
    <3>2. /\ b.width = m(i).w /\ b.height = m(i).h /\ b.bits = 8 * m(i).ch
          /\ b.data = Data(i) /\ b.dataSize = Len(Data(i)) /\ b.fileSize = 54 + Len(Data(i))
      BY <2>3, <2>4, <3>1
    <3>3. 4 * ((b.width * b.bits + 31) \div 32) = S(i)
      BY <2>2, <2>4, <3>2
    <3>4. b.dataSize = S(i) * b.height /\ b.fileSize = 54 + b.dataSize
      BY <2>2, <2>4, <3>2
    <3>5. ASSUME NEW x \in 0..(m(i).w - 1), NEW y \in 1..(m(i).h - 1), NEW c \in 1..3
          PROVE  SubSeq(b.data, S(i) * (m(i).h - y) + 3 * x + 1, S(i) * (m(i).h - y) + 3 * x + 3)[4 - c]
                   = Bytes(m(i))[Offset(m(i), <<x, y>>) + c]
      BY <2>2, <2>4, <3>2, Zenon
    <3>6. Rows(m(i), b)
      BY <3>3, <3>4, <3>5
    <3>7. QED
      BY <3>1, <3>6
  <2>5. QED
    BY <2>4 DEF BitmapHoldsRows
<1>2. QED
  BY InitIInv, IInvStep, <1>1, PTL DEF Spec

-----------------------------------------------------------------------------
(* Lines.  The numbers between two, and as many steps from one to the other. *)
LEMMA BetweenIs ==
  ASSUME NEW a \in Int, NEW b \in Int
  PROVE  Between(a, b) = IF a <= b THEN a..b ELSE b..a
<1>1. CASE a <= b
  <2>1. Min({a, b}) = a
    <3>1. a \in {a, b} /\ (\A y \in {a, b} : a <= y) /\ \A x \in {a, b} : (\A y \in {a, b} : x <= y) => x = a
      BY <1>1
    <3>2. QED
      BY <3>1 DEF Min
  <2>2. Max({a, b}) = b
    <3>1. b \in {a, b} /\ (\A y \in {a, b} : b >= y) /\ \A x \in {a, b} : (\A y \in {a, b} : x >= y) => x = b
      BY <1>1
    <3>2. QED
      BY <3>1 DEF Max
  <2>3. QED
    BY <1>1, <2>1, <2>2 DEF Between
<1>2. CASE ~(a <= b)
  <2>1. Min({a, b}) = b
    <3>1. b \in {a, b} /\ (\A y \in {a, b} : b <= y) /\ \A x \in {a, b} : (\A y \in {a, b} : x <= y) => x = b
      BY <1>2
    <3>2. QED
      BY <3>1 DEF Min
  <2>2. Max({a, b}) = a
    <3>1. a \in {a, b} /\ (\A y \in {a, b} : a >= y) /\ \A x \in {a, b} : (\A y \in {a, b} : x >= y) => x = a
      BY <1>2
    <3>2. QED
      BY <3>1 DEF Max
  <2>3. QED
    BY <1>2, <2>1, <2>2 DEF Between
<1>3. QED
  BY <1>1, <1>2

AreSteps(a, b, size, sign) ==
  /\ size \in Nat /\ sign \in {-1, 0, 1} /\ (sign = 0 <=> a = b) /\ (size = 0 <=> a = b)
  /\ \A x \in Int : x \in Between(a, b) <=> \E n \in 0..size : x = a + n * sign

LEMMA StepsBetween ==
  ASSUME NEW a \in Int, NEW b \in Int
  PROVE  AreSteps(a, b, Size(b - a), Sign(b - a))
<1>1. CASE a = b
  <2>1. b - a = 0 /\ Sign(b - a) = 0 /\ Size(b - a) = 0
    BY <1>1 DEF Sign, Size
  <2>2. Between(a, b) = a..a
    BY <1>1, BetweenIs
  <2>3. ASSUME NEW x \in Int PROVE x \in a..a <=> \E n \in 0..0 : x = a + n * 0
    OBVIOUS
  <2>4. AreSteps(a, b, 0, 0)
    BY <1>1, <2>2, <2>3 DEF AreSteps
  <2>5. QED
    BY <2>1, <2>4
<1>2. CASE a < b
  <2>1. b - a \in Nat /\ Sign(b - a) = 1 /\ Size(b - a) = b - a
    BY <1>2 DEF Sign, Size
  <2>2. Between(a, b) = a..b
    BY <1>2, BetweenIs
  <2>3. ASSUME NEW x \in Int PROVE x \in a..b <=> \E n \in 0..(b - a) : x = a + n * 1
    <3>1. ASSUME x \in a..b PROVE \E n \in 0..(b - a) : x = a + n * 1
      <4>1. x - a \in 0..(b - a) /\ x = a + (x - a) * 1
        BY <3>1
      <4>2. QED
        BY <4>1
    <3>2. QED
      BY <3>1
  <2>4. AreSteps(a, b, b - a, 1)
    <3>1. b - a \in Nat /\ 1 \in {-1, 0, 1} /\ (1 = 0 <=> a = b) /\ (b - a = 0 <=> a = b)
      BY <1>2
    <3>2. QED
      BY <2>2, <2>3, <3>1 DEF AreSteps
  <2>5. QED
    BY <2>1, <2>4
<1>3. CASE b < a
  <2>1. a - b \in Nat /\ Sign(b - a) = -1 /\ Size(b - a) = a - b
    BY <1>3 DEF Sign, Size
  <2>2. Between(a, b) = b..a
    BY <1>3, BetweenIs
  <2>3. ASSUME NEW x \in Int PROVE x \in b..a <=> \E n \in 0..(a - b) : x = a + n * (-1)
    <3>1. ASSUME x \in b..a PROVE \E n \in 0..(a - b) : x = a + n * (-1)
      <4>1. a - x \in 0..(a - b) /\ x = a + (a - x) * (-1)
        BY <3>1
      <4>2. QED
        BY <4>1
    <3>2. QED
      BY <3>1
  <2>4. AreSteps(a, b, a - b, -1)
    <3>1. a - b \in Nat /\ -1 \in {-1, 0, 1} /\ (-1 = 0 <=> a = b) /\ (a - b = 0 <=> a = b)
      BY <1>3
    <3>2. QED
      BY <2>2, <2>3, <3>1 DEF AreSteps
  <2>5. QED
    BY <2>1, <2>4
<1>4. QED
  BY <1>1, <1>2, <1>3

(* A line parallel to an axis is the points between its ends.                *)
LEMMA LineIsBetween ==
  ASSUME NEW a \in Int \X Int, NEW b \in Int \X Int, Parallel(a, b), NEW p \in Int \X Int
  PROVE  p \in Line(a, b) <=> p[1] \in Between(a[1], b[1]) /\ p[2] \in Between(a[2], b[2])
<1> DEFINE dx == Sign(b[1] - a[1])
           dy == Sign(b[2] - a[2])
           nx == Size(b[1] - a[1])
           ny == Size(b[2] - a[2])
<1>0. a[1] \in Int /\ a[2] \in Int /\ b[1] \in Int /\ b[2] \in Int /\ p[1] \in Int /\ p[2] \in Int
      /\ p = <<p[1], p[2]>>
  OBVIOUS
<1>1. /\ nx \in Nat /\ dx \in Int /\ (dx = 0 <=> a[1] = b[1]) /\ (nx = 0 <=> a[1] = b[1])
      /\ p[1] \in Between(a[1], b[1]) <=> \E n \in 0..nx : p[1] = a[1] + n * dx
  <2>1. AreSteps(a[1], b[1], nx, dx)
    BY <1>0, StepsBetween
  <2> HIDE DEF nx, dx
  <2>2. p[1] \in Between(a[1], b[1]) <=> \E n \in 0..nx : p[1] = a[1] + n * dx
    BY <1>0, <2>1, Zenon DEF AreSteps
  <2>3. nx \in Nat /\ dx \in Int /\ (dx = 0 <=> a[1] = b[1]) /\ (nx = 0 <=> a[1] = b[1])
    BY <2>1 DEF AreSteps
  <2>4. QED
    BY <2>2, <2>3
<1>2. /\ ny \in Nat /\ dy \in Int /\ (dy = 0 <=> a[2] = b[2]) /\ (ny = 0 <=> a[2] = b[2])
      /\ p[2] \in Between(a[2], b[2]) <=> \E n \in 0..ny : p[2] = a[2] + n * dy
  <2>1. AreSteps(a[2], b[2], ny, dy)
    BY <1>0, StepsBetween
  <2> HIDE DEF ny, dy
  <2>2. p[2] \in Between(a[2], b[2]) <=> \E n \in 0..ny : p[2] = a[2] + n * dy
    BY <1>0, <2>1, Zenon DEF AreSteps
  <2>3. ny \in Nat /\ dy \in Int /\ (dy = 0 <=> a[2] = b[2]) /\ (ny = 0 <=> a[2] = b[2])
    BY <2>1 DEF AreSteps
  <2>4. QED
    BY <2>2, <2>3
<1>3. Line(a, b) = {<<a[1] + n * dx, a[2] + n * dy>> : n \in 0..(nx + ny)}
  BY DEF Line
<1> HIDE DEF dx, dy, nx, ny
<1>4. p \in Line(a, b) <=> \E n \in 0..(nx + ny) : p[1] = a[1] + n * dx /\ p[2] = a[2] + n * dy
  BY <1>0, <1>3
<1>5. CASE a[1] = b[1]
  <2>1. dx = 0 /\ nx = 0 /\ nx + ny = ny /\ \A n \in 0..ny : a[1] + n * dx = a[1]
    BY <1>0, <1>1, <1>2, <1>5
  <2>2. p[1] \in Between(a[1], b[1]) <=> p[1] = a[1]
    BY <1>0, <1>5, BetweenIs
  <2>3. p \in Line(a, b) <=> \E n \in 0..ny : p[1] = a[1] /\ p[2] = a[2] + n * dy
    BY <1>4, <2>1
  <2>4. QED
    BY <1>2, <2>2, <2>3
<1>6. CASE a[2] = b[2]
  <2>1. dy = 0 /\ ny = 0 /\ nx + ny = nx /\ \A n \in 0..nx : a[2] + n * dy = a[2]
    BY <1>0, <1>1, <1>2, <1>6
  <2>2. p[2] \in Between(a[2], b[2]) <=> p[2] = a[2]
    BY <1>0, <1>6, BetweenIs
  <2>3. p \in Line(a, b) <=> \E n \in 0..nx : p[1] = a[1] + n * dx /\ p[2] = a[2]
    BY <1>4, <2>1
  <2>4. QED
    BY <1>1, <2>2, <2>3
<1>7. QED
  BY <1>5, <1>6 DEF Parallel

LEMMA LineIsMoved ==
  ASSUME NEW a \in Int \X Int, NEW b \in Int \X Int, Parallel(a, b), NEW p \in Int \X Int,
         NEW u \in Int, NEW v \in Int
  PROVE  p \in Line(<<a[1] + u, a[2] + v>>, <<b[1] + u, b[2] + v>>)
           <=> p[1] - u \in Between(a[1], b[1]) /\ p[2] - v \in Between(a[2], b[2])
<1> DEFINE c == <<a[1] + u, a[2] + v>>
           d == <<b[1] + u, b[2] + v>>
<1>0. a[1] \in Int /\ a[2] \in Int /\ b[1] \in Int /\ b[2] \in Int /\ p[1] \in Int /\ p[2] \in Int
  OBVIOUS
<1>1. c \in Int \X Int /\ d \in Int \X Int /\ Parallel(c, d)
      /\ c[1] = a[1] + u /\ c[2] = a[2] + v /\ d[1] = b[1] + u /\ d[2] = b[2] + v
  BY <1>0 DEF Parallel
<1> HIDE DEF c, d
<1>2. p \in Line(c, d) <=> p[1] \in Between(c[1], d[1]) /\ p[2] \in Between(c[2], d[2])
  BY <1>1, LineIsBetween
<1>3. \A x, f, g, w \in Int : x \in Between(f + w, g + w) <=> x - w \in Between(f, g)
  <2>1. SUFFICES ASSUME NEW x \in Int, NEW f \in Int, NEW g \in Int, NEW w \in Int
                 PROVE  x \in Between(f + w, g + w) <=> x - w \in Between(f, g)
    OBVIOUS
  <2>2. /\ Between(f, g) = IF f <= g THEN f..g ELSE g..f
        /\ Between(f + w, g + w) = IF f + w <= g + w THEN (f + w)..(g + w) ELSE (g + w)..(f + w)
    BY BetweenIs
  <2>3. QED
    BY <2>2
<1>4. QED
  BY <1>0, <1>1, <1>2, <1>3 DEF c, d

(* A thick line is drawn again at both sides of it, where it is.             *)
Across(a, b) == IF Sign(a[2] - b[2]) > Sign(a[1] - b[1]) THEN 0 ELSE Sign(a[2] - b[2])
Down(a, b) == IF Sign(a[2] - b[2]) > Sign(a[1] - b[1]) THEN Sign(a[1] - b[1]) ELSE 0

LEMMA WhereItIsWidened ==
  ASSUME NEW a \in Int \X Int, NEW b \in Int \X Int, Parallel(a, b), a # b
  PROVE  /\ b[1] > a[1] => Across(a, b) = 0 /\ Down(a, b) = -1
         /\ ~(b[1] > a[1]) /\ b[2] > a[2] => Across(a, b) = -1 /\ Down(a, b) = 0
         /\ ~(b[1] > a[1]) /\ ~(b[2] > a[2]) => Across(a, b) = 0 /\ Down(a, b) = 0
<1>1. PICK c, d, f, g \in Int : a = <<c, d>> /\ b = <<f, g>>
  OBVIOUS
<1>2. (c = f \/ d = g) /\ ~(c = f /\ d = g)
  BY <1>1 DEF Parallel
<1>3. Across(a, b) = (IF Sign(d - g) > Sign(c - f) THEN 0 ELSE Sign(d - g))
      /\ Down(a, b) = (IF Sign(d - g) > Sign(c - f) THEN Sign(c - f) ELSE 0)
  BY <1>1 DEF Across, Down
<1>4. /\ f > c => Sign(c - f) = -1 /\ Sign(d - g) = 0
      /\ f < c => Sign(c - f) = 1 /\ Sign(d - g) = 0
      /\ g > d => Sign(c - f) = 0 /\ Sign(d - g) = -1
      /\ g < d => Sign(c - f) = 0 /\ Sign(d - g) = 1
  BY <1>2 DEF Sign
<1>5. (f > c \/ f < c \/ g > d \/ g < d) /\ (f > c => d = g) /\ (g > d => c = f) /\ (g < d => c = f)
  BY <1>2
<1>6. /\ f > c => Across(a, b) = 0 /\ Down(a, b) = -1
      /\ f < c => Across(a, b) = 0 /\ Down(a, b) = 0
      /\ g > d => Across(a, b) = -1 /\ Down(a, b) = 0
      /\ g < d => Across(a, b) = 0 /\ Down(a, b) = 0
  BY <1>3, <1>4
<1>7. QED
  BY <1>1, <1>5, <1>6

LEMMA ThickLineIs ==
  ASSUME NEW a \in Int \X Int, NEW b \in Int \X Int, Parallel(a, b), NEW t \in Nat, NEW p \in Int \X Int
  PROVE  p \in ThickLine(a, b, t) <=>
           \E n \in (1 - (t \div 2))..((t \div 2) - 1) :
             p[1] - n * Across(a, b) \in Between(a[1], b[1]) /\ p[2] - n * Down(a, b) \in Between(a[2], b[2])
<1> DEFINE dx == Across(a, b)
           dy == Down(a, b)
           N == (1 - (t \div 2))..((t \div 2) - 1)
           Shifted(n) == Line(<<a[1] + n * dx, a[2] + n * dy>>, <<b[1] + n * dx, b[2] + n * dy>>)
<1>1. ThickLine(a, b, t) = UNION {Shifted(n) : n \in N}
  BY DEF ThickLine, Across, Down
<1>2. dx \in Int /\ dy \in Int
  <2>1. \A k \in Int : Sign(k) \in Int
    BY DEF Sign
  <2>2. a[1] - b[1] \in Int /\ a[2] - b[2] \in Int
    OBVIOUS
  <2>3. QED
    BY <2>1, <2>2 DEF Across, Down
<1> HIDE DEF dx, dy
<1>3. ASSUME NEW n \in N
      PROVE  p \in Shifted(n) <=>
               p[1] - n * dx \in Between(a[1], b[1]) /\ p[2] - n * dy \in Between(a[2], b[2])
  <2>1. PICK u, v \in Int : u = n * dx /\ v = n * dy
    <3>1. \A k, l \in Int : k * l \in Int
      OBVIOUS
    <3>2. n \in Int
      OBVIOUS
    <3>3. QED
      BY <1>2, <3>1, <3>2
  <2>2. Shifted(n) = Line(<<a[1] + u, a[2] + v>>, <<b[1] + u, b[2] + v>>)
    BY <2>1
  <2>3. QED
    BY <2>1, <2>2, LineIsMoved
<1>4. p \in UNION {Shifted(n) : n \in N} <=> \E n \in N : p \in Shifted(n)
  <2> HIDE DEF Shifted, N
  <2>1. QED
    OBVIOUS
<1>5. QED
  <2> HIDE DEF Shifted
  <2>1. p \in ThickLine(a, b, t) <=>
          \E n \in N : p[1] - n * dx \in Between(a[1], b[1]) /\ p[2] - n * dy \in Between(a[2], b[2])
    BY <1>1, <1>3, <1>4
  <2>2. QED
    BY <2>1 DEF dx, dy

(* Points have integer coordinates.                                          *)
LEMMA LinePoints ==
  ASSUME NEW a \in Int \X Int, NEW b \in Int \X Int, NEW p \in Line(a, b)
  PROVE  p \in Int \X Int
<1> DEFINE dx == Sign(b[1] - a[1])
           dy == Sign(b[2] - a[2])
           distance == Size(b[1] - a[1]) + Size(b[2] - a[2])
<1>1. \A k \in Int : Sign(k) \in Int /\ Size(k) \in Int
  <2>1. ASSUME NEW k \in Int PROVE Sign(k) \in {-1, 0, 1}
    BY DEF Sign
  <2>2. QED
    BY <2>1 DEF Size
<1>2. a[1] \in Int /\ a[2] \in Int /\ b[1] - a[1] \in Int /\ b[2] - a[2] \in Int
  OBVIOUS
<1>3. dx \in Int /\ dy \in Int /\ distance \in Int
  BY <1>1, <1>2
<1>4. Line(a, b) = {<<a[1] + n * dx, a[2] + n * dy>> : n \in 0..distance}
  BY DEF Line
<1> HIDE DEF dx, dy, distance
<1>5. PICK n \in 0..distance : p = <<a[1] + n * dx, a[2] + n * dy>>
  BY <1>4
<1>6. n \in Int
  BY <1>3
<1>7. \A k, l \in Int : k * l \in Int
  OBVIOUS
<1>8. n * dx \in Int /\ n * dy \in Int
  BY <1>3, <1>6, <1>7
<1>9. QED
  BY <1>2, <1>5, <1>8

LEMMA ThickLinePoints ==
  ASSUME NEW a \in Int \X Int, NEW b \in Int \X Int, NEW t \in Nat, NEW p \in ThickLine(a, b, t)
  PROVE  p \in Int \X Int
<1> DEFINE dx == Across(a, b)
           dy == Down(a, b)
           N == (1 - (t \div 2))..((t \div 2) - 1)
<1>1. ThickLine(a, b, t) =
        UNION {Line(<<a[1] + n * dx, a[2] + n * dy>>, <<b[1] + n * dx, b[2] + n * dy>>) : n \in N}
  BY DEF ThickLine, Across, Down
<1>2. dx \in Int /\ dy \in Int
  <2>1. \A k \in Int : Sign(k) \in Int
    BY DEF Sign
  <2>2. a[1] - b[1] \in Int /\ a[2] - b[2] \in Int
    OBVIOUS
  <2>3. QED
    BY <2>1, <2>2 DEF Across, Down
<1> HIDE DEF dx, dy
<1>3. PICK n \in N : p \in Line(<<a[1] + n * dx, a[2] + n * dy>>, <<b[1] + n * dx, b[2] + n * dy>>)
  BY <1>1
<1>4. PICK u, v \in Int : u = n * dx /\ v = n * dy
  <2>1. \A k, l \in Int : k * l \in Int
    OBVIOUS
  <2>2. n \in Int
    OBVIOUS
  <2>3. QED
    BY <1>2, <2>1, <2>2
<1>5. <<a[1] + u, a[2] + v>> \in Int \X Int /\ <<b[1] + u, b[2] + v>> \in Int \X Int
  OBVIOUS
<1>6. QED
  BY <1>3, <1>4, <1>5, LinePoints

(* What AsSize makes of points: those of the image stay where they are, and  *)
(* one of the image that is none of them has become of one off it.           *)
LEMMA SizesKeepPoints ==
  ASSUME NEW points \in SUBSET (Int \X Int), NEW negative, NEW p \in points, p[1] >= 0, p[2] >= 0
  PROVE  p \in AsSize(points, negative)
<1>1. PICK x, y \in Int : p = <<x, y>>
  OBVIOUS
<1>2. p = <<IF p[1] < 0 THEN negative ELSE p[1], IF p[2] < 0 THEN negative ELSE p[2]>>
  BY <1>1
<1>3. QED
  BY <1>2 DEF AsSize

LEMMA SizesComeFromPoints ==
  ASSUME NEW points \in SUBSET (Int \X Int), NEW negative \in {0, -1}, NEW p \in AsSize(points, negative),
         p[1] >= 0, p[2] >= 0
  PROVE  \/ p \in points
         \/ negative = 0 /\ \E q \in points : \E c \in 1..2 : q[c] < 0 /\ p[c] = 0
<1>1. PICK q \in points :
        p = <<IF q[1] < 0 THEN negative ELSE q[1], IF q[2] < 0 THEN negative ELSE q[2]>>
  BY DEF AsSize
<1>2. PICK x, y \in Int : q = <<x, y>>
  OBVIOUS
<1>3. p = <<IF x < 0 THEN negative ELSE x, IF y < 0 THEN negative ELSE y>> /\ q[1] = x /\ q[2] = y
  BY <1>1, <1>2
<1>4. CASE x >= 0 /\ y >= 0
  <2>1. p = <<x, y>>
    BY <1>3, <1>4
  <2>2. QED
    BY <1>2, <2>1
<1>5. CASE x < 0
  <2>1. p[1] = negative
    BY <1>3, <1>5
  <2>2. negative = 0 /\ q[1] < 0 /\ p[1] = 0 /\ 1 \in 1..2
    BY <1>3, <1>5, <2>1
  <2>3. QED
    BY <2>2
<1>6. CASE y < 0
  <2>1. p[2] = negative
    BY <1>3, <1>6
  <2>2. negative = 0 /\ q[2] < 0 /\ p[2] = 0 /\ 2 \in 1..2
    BY <1>3, <1>6, <2>1
  <2>3. QED
    BY <2>2
<1>7. QED
  BY <1>4, <1>5, <1>6

(* A point that a line reaches and that is off the image has an end near it. *)
LEMMA ReachedHasEnd ==
  ASSUME NEW a \in Int \X Int, NEW b \in Int \X Int, NEW width \in Int, NEW q \in Int \X Int,
         Reaches(a, b, width, q), NEW c \in 1..2, q[c] < 0
  PROVE  a[c] < width \/ b[c] < width
<1>1. PICK n \in (-width)..width :
        Covers(a, b, IF a[1] = b[1] THEN <<q[1] + n, q[2]>> ELSE <<q[1], q[2] + n>>)
  BY DEF Reaches
<1>2. PICK m \in Int : m <= width /\ -m <= width /\ q[c] + m \in Between(a[c], b[c])
  <2>1. \A k \in {0, n} : k \in Int /\ k <= width /\ -k <= width
    OBVIOUS
  <2>2. /\ q[1] + n \in Between(a[1], b[1]) \/ q[1] + 0 \in Between(a[1], b[1])
        /\ q[2] + n \in Between(a[2], b[2]) \/ q[2] + 0 \in Between(a[2], b[2])
    <3>1. q[1] + 0 = q[1] /\ q[2] + 0 = q[2]
      OBVIOUS
    <3>2. QED
      BY <1>1, <3>1 DEF Covers
  <2>3. c = 1 \/ c = 2
    OBVIOUS
  <2>4. QED
    BY <2>1, <2>2, <2>3
<1>3. PICK x, f, g \in Int : x = q[c] /\ f = a[c] /\ g = b[c]
  OBVIOUS
<1>4. x + m \in IF f <= g THEN f..g ELSE g..f
  BY <1>2, <1>3, BetweenIs
<1>5. x < 0 /\ m <= width
  BY <1>2, <1>3
<1>6. f < width \/ g < width
  <2>1. CASE f <= g
    <3>1. x + m \in f..g
      BY <1>4, <2>1
    <3>2. QED
      BY <1>5, <3>1
  <2>2. CASE ~(f <= g)
    <3>1. x + m \in g..f
      BY <1>4, <2>2
    <3>2. QED
      BY <1>5, <3>1
  <2>3. QED
    BY <2>1, <2>2
<1>7. QED
  BY <1>3, <1>6

(* What is painted of points that are reached stays there, and fills it if   *)
(* all that are reached are among them.                                      *)
LEMMA PaintedIsReached ==
  ASSUME NEW shape \in Shapes, NEW a \in Int \X Int, NEW b \in Int \X Int, NEW width \in Int,
         NEW negative \in {0, -1}, NEW points \in SUBSET (Int \X Int),
         \A p \in points : Reaches(a, b, width, p)
  PROVE  Stays(shape, a, b, width, AsSize(points, negative), negative)
<1> SUFFICES ASSUME NEW p \in AsSize(points, negative), Inside(shape, p)
             PROVE  Reaches(a, b, width, p) \/ (negative = 0 /\ Astray(a, b, width, p))
  BY DEF Stays
<1>1. p[1] >= 0 /\ p[2] >= 0
  <2>1. shape[1] \in Nat \ {0} /\ shape[2] \in Nat \ {0}
    BY ShapeIsNat
  <2>2. QED
    BY <2>1 DEF Inside
<1>2. CASE p \in points
  BY <1>2
<1>3. CASE negative = 0 /\ \E q \in points : \E c \in 1..2 : q[c] < 0 /\ p[c] = 0
  <2>1. PICK q \in points, c \in 1..2 : q[c] < 0 /\ p[c] = 0
    BY <1>3
  <2>2. a[c] < width \/ b[c] < width
    BY <2>1, ReachedHasEnd
  <2>3. QED
    BY <1>3, <2>1, <2>2 DEF Astray
<1>4. QED
  BY <1>1, <1>2, <1>3, SizesComeFromPoints

LEMMA ReachedIsPainted ==
  ASSUME NEW shape \in Shapes, NEW a \in Int \X Int, NEW b \in Int \X Int, NEW width \in Int,
         NEW negative \in {0, -1}, NEW points \in SUBSET (Int \X Int),
         \A p \in Int \X Int : Reaches(a, b, width, p) => p \in points
  PROVE  Fills(shape, a, b, width, AsSize(points, negative))
<1> SUFFICES ASSUME NEW p \in (0..(shape[1] - 1)) \X (0..(shape[2] - 1)), Reaches(a, b, width, p)
             PROVE  p \in AsSize(points, negative)
  BY DEF Fills
<1>1. p \in Int \X Int /\ p[1] >= 0 /\ p[2] >= 0
  <2>1. shape[1] \in Nat \ {0} /\ shape[2] \in Nat \ {0}
    BY ShapeIsNat
  <2>2. QED
    BY <2>1
<1>2. QED
  BY <1>1, SizesKeepPoints

(* A line is what it reaches without being widened.                          *)
LEMMA LineReaches ==
  ASSUME NEW a \in Int \X Int, NEW b \in Int \X Int, Parallel(a, b), NEW p \in Int \X Int
  PROVE  p \in Line(a, b) <=> Reaches(a, b, 0, p)
<1>1. p = <<p[1] + 0, p[2]>> /\ p = <<p[1], p[2] + 0>>
  <2>1. PICK x, y \in Int : p = <<x, y>>
    OBVIOUS
  <2>2. QED
    BY <2>1
<1>2. (-0)..0 = {0}
  OBVIOUS
<1>3. Reaches(a, b, 0, p) <=> Covers(a, b, p)
  BY <1>1, <1>2 DEF Reaches
<1>4. QED
  BY <1>3, LineIsBetween DEF Covers

(* A thick line does not reach farther than it should, and as far if it is   *)
(* drawn to the right or down.                                               *)
LEMMA ThickLineReaches ==
  ASSUME NEW a \in Int \X Int, NEW b \in Int \X Int, Parallel(a, b), a # b, NEW t \in Nat,
         NEW p \in Int \X Int
  PROVE  /\ p \in ThickLine(a, b, t) => Reaches(a, b, (t \div 2) - 1, p)
         /\ b[1] > a[1] \/ b[2] > a[2] => (Reaches(a, b, (t \div 2) - 1, p) => p \in ThickLine(a, b, t))
<1> DEFINE width == (t \div 2) - 1
           N == (1 - (t \div 2))..((t \div 2) - 1)
<1>0. PICK x, y, c, d, f, g \in Int : p = <<x, y>> /\ a = <<c, d>> /\ b = <<f, g>>
  OBVIOUS
<1>1. width \in Int /\ N = (-width)..width /\ \A n \in N : n \in Int
  OBVIOUS
<1>2. p \in ThickLine(a, b, t) <=>
        \E n \in N : Covers(a, b, <<p[1] - n * Across(a, b), p[2] - n * Down(a, b)>>)
  BY ThickLineIs DEF Covers
<1>3. Reaches(a, b, width, p) <=>
        \E n \in N : Covers(a, b, IF a[1] = b[1] THEN <<p[1] + n, p[2]>> ELSE <<p[1], p[2] + n>>)
  BY <1>1 DEF Reaches
<1> HIDE DEF width, N
<1>4. \A n \in N : /\ p[1] - n * 0 = p[1] /\ p[2] - n * 0 = p[2]
                   /\ p[1] - n * (-1) = p[1] + n /\ p[2] - n * (-1) = p[2] + n
  BY <1>0, <1>1
<1>5. CASE b[1] > a[1]
  <2>1. Across(a, b) = 0 /\ Down(a, b) = -1 /\ a[1] # b[1]
    BY <1>0, <1>5, WhereItIsWidened
  <2>2. p \in ThickLine(a, b, t) <=> Reaches(a, b, width, p)
    <3>1. \A n \in N : <<p[1] - n * Across(a, b), p[2] - n * Down(a, b)>> = <<p[1], p[2] + n>>
      BY <1>4, <2>1
    <3>2. QED
      BY <1>2, <1>3, <2>1, <3>1
  <2>3. QED
    BY <2>2 DEF width
<1>6. CASE ~(b[1] > a[1]) /\ b[2] > a[2]
  <2>1. Across(a, b) = -1 /\ Down(a, b) = 0 /\ a[1] = b[1]
    <3>1. Across(a, b) = -1 /\ Down(a, b) = 0
      BY <1>6, WhereItIsWidened
    <3>2. a[1] = b[1]
      BY <1>0, <1>6 DEF Parallel
    <3>3. QED
      BY <3>1, <3>2
  <2>2. p \in ThickLine(a, b, t) <=> Reaches(a, b, width, p)
    <3>1. \A n \in N : <<p[1] - n * Across(a, b), p[2] - n * Down(a, b)>> = <<p[1] + n, p[2]>>
      BY <1>4, <2>1
    <3>2. QED
      BY <1>2, <1>3, <2>1, <3>1
  <2>3. QED
    BY <2>2 DEF width
<1>7. CASE ~(b[1] > a[1]) /\ ~(b[2] > a[2])
  <2>1. Across(a, b) = 0 /\ Down(a, b) = 0
    BY <1>7, WhereItIsWidened
  <2>2. ASSUME p \in ThickLine(a, b, t) PROVE Reaches(a, b, width, p)
    <3>1. PICK n \in N : Covers(a, b, <<p[1], p[2]>>)
      BY <1>2, <1>4, <2>1, <2>2
    <3>2. 0 \in N /\ p[1] + 0 = p[1] /\ p[2] + 0 = p[2]
      BY <1>0, <1>1, <3>1
    <3>3. QED
      BY <1>3, <3>1, <3>2
  <2>3. QED
    BY <1>7, <2>2 DEF width
<1>8. QED
  BY <1>5, <1>6, <1>7

(* What DrawLine paints (Image.cpp:256-316), for all images, ends parallel   *)
(* to an axis and widths, and both of what a negative size_t comes out as:   *)
(* every pixel between the ends, nothing beyond the reach of the thickness   *)
(* but what the edge of the image catches, and all of that reach when drawn  *)
(* to the right or down.                                                     *)
THEOREM LinesCoverBands == Spec => []LinesAreBands
<1>1. ASSUME NEW shape \in Shapes PROVE BandsOn[shape]
  <2> DEFINE IsBand(a, b, negative) ==
        LET line == AsSize(Line(a, b), negative)
        IN /\ Fills(shape, a, b, 0, line) /\ Stays(shape, a, b, 0, line, negative)
           /\ a # b => \A thickness \in Widths :
                LET width == thickness \div 2 - 1
                    thick == AsSize(ThickLine(a, b, thickness), negative)
                IN /\ Stays(shape, a, b, width, thick, negative)
                   /\ b[1] > a[1] \/ b[2] > a[2] => Fills(shape, a, b, width, thick)
  <2>1. ASSUME NEW e \in Ends, NEW negative \in {0, -1} PROVE IsBand(e[1], e[2], negative)
    <3>1. PICK a, b \in Int \X Int : a = e[1] /\ b = e[2] /\ Parallel(a, b)
      BY CoordsAssumption DEF Ends
    <3>2. Line(a, b) \in SUBSET (Int \X Int)
      BY LinePoints
    <3>3. \A p \in Int \X Int : p \in Line(a, b) <=> Reaches(a, b, 0, p)
      BY <3>1, LineReaches
    <3>4. Fills(shape, a, b, 0, AsSize(Line(a, b), negative))
      BY <3>2, <3>3, ReachedIsPainted
    <3>5. Stays(shape, a, b, 0, AsSize(Line(a, b), negative), negative)
      BY <3>2, <3>3, PaintedIsReached
    <3>6. ASSUME a # b, NEW t \in Widths
          PROVE  /\ Stays(shape, a, b, t \div 2 - 1, AsSize(ThickLine(a, b, t), negative), negative)
                 /\ b[1] > a[1] \/ b[2] > a[2] =>
                      Fills(shape, a, b, t \div 2 - 1, AsSize(ThickLine(a, b, t), negative))
      <4>1. t \in Nat /\ t \div 2 - 1 \in Int
        BY CoordsAssumption
      <4>2. PICK width \in Int : width = t \div 2 - 1
        BY <4>1
      <4>3. ThickLine(a, b, t) \in SUBSET (Int \X Int)
        BY <4>1, ThickLinePoints
      <4>4. \A p \in Int \X Int :
              /\ p \in ThickLine(a, b, t) => Reaches(a, b, width, p)
              /\ b[1] > a[1] \/ b[2] > a[2] => (Reaches(a, b, width, p) => p \in ThickLine(a, b, t))
        BY <3>1, <3>6, <4>1, <4>2, ThickLineReaches
      <4>5. Stays(shape, a, b, width, AsSize(ThickLine(a, b, t), negative), negative)
        BY <4>3, <4>4, PaintedIsReached
      <4>6. ASSUME b[1] > a[1] \/ b[2] > a[2]
            PROVE  Fills(shape, a, b, width, AsSize(ThickLine(a, b, t), negative))
        BY <4>3, <4>4, <4>6, ReachedIsPainted
      <4>7. QED
        BY <4>2, <4>5, <4>6
    <3>7. QED
      BY <3>1, <3>4, <3>5, <3>6
  <2>2. BandsOn[shape] = \A e \in Ends, negative \in {0, -1} : IsBand(e[1], e[2], negative)
    BY DEF BandsOn
  <2>3. QED
    BY <2>1, <2>2
<1>2. IInv => LinesAreBands
  BY <1>1 DEF IInv, Ownership, Shows, LinesAreBands
<1>3. QED
  BY InitIInv, IInvStep, <1>2, PTL DEF Spec
=============================================================================
