---------------------------- MODULE ImageValues ----------------------------
(* What image::Image promises to the program that uses it: an image is a     *)
(* value with its width, its height, its number of channels and its bytes.   *)
(* Nothing that is done with one image shows in another, except that an      *)
(* image made over a buffer of the user (the observer_ptr constructor) is a  *)
(* view: it shows what that buffer holds, and drawing on it draws there.     *)
EXTENDS Naturals, Sequences

CONSTANTS Images, NoImage, Shapes, Paint

VARIABLES
  value,   \* of each variable of the program: NoImage, or what it holds
  buffer   \* the bytes of the buffer of the user's; <<>> when there is none
vars == <<value, buffer>>

Empty == [w |-> 0, h |-> 0, ch |-> 0, view |-> FALSE, bytes |-> <<>>]
Holding(shape, view, bytes) ==
  [w |-> shape[1], h |-> shape[2], ch |-> shape[3], view |-> view, bytes |-> bytes]
Zeros(n) == [k \in 1..n |-> 0]
Size(shape) == shape[1] * shape[2] * shape[3]
Is(i) == value[i] # NoImage
Bytes(v) == IF v.view THEN SubSeq(buffer, 1, v.w * v.h * v.ch) ELSE v.bytes
Owned(v, bytes) == [v EXCEPT !.view = FALSE, !.bytes = bytes]

Init == value = [i \in Images |-> NoImage] /\ buffer = <<>>

(* A constructor, or Set on an image there is.                               *)
New(i) ==
  /\ \/ value' = [value EXCEPT ![i] = Empty]
     \/ \E shape \in Shapes, filled \in BOOLEAN :
          value' = [value EXCEPT ![i] =
            Holding(shape, FALSE, [k \in 1..Size(shape) |-> IF filled THEN Paint[k] ELSE 0])]
     \/ \E shape \in Shapes :
          /\ Len(buffer) >= Size(shape)
          /\ value' = [value EXCEPT ![i] = Holding(shape, TRUE, <<>>)]
  /\ UNCHANGED buffer

(* A copy owns its bytes, that of a view too.  An image assigned to itself   *)
(* keeps its measures and loses what it shows.                               *)
Copy(i, j) ==
  /\ Is(j)
  /\ value' = [value EXCEPT ![i] =
       Owned(value[j], IF i = j THEN Zeros(Len(Bytes(value[j]))) ELSE Bytes(value[j]))]
  /\ UNCHANGED buffer

(* The source of a move is empty, and so is an image moved to itself.        *)
Move(i, j) ==
  /\ Is(j)
  /\ value' = [value EXCEPT ![i] = value[j], ![j] = Empty]
  /\ UNCHANGED buffer

Destroy(i) == Is(i) /\ value' = [value EXCEPT ![i] = NoImage] /\ UNCHANGED buffer

(* Drawing changes the bytes of whole pixels, the first three channels, to   *)
(* those of the colour: of one image, or of the buffer that it shows.        *)
Drawn(bytes, ch, points) ==
  [k \in 1..Len(bytes) |->
     IF (k - 1) \div ch \in points /\ (k - 1) % ch < 3 THEN Paint[((k - 1) % ch) + 1] ELSE bytes[k]]
Draw(i) ==
  LET v == value[i] IN
  /\ Is(i) /\ v.ch >= 3
  /\ \E points \in SUBSET (0..(v.w * v.h - 1)) :
       IF ~v.view
         THEN /\ value' = [value EXCEPT ![i].bytes = Drawn(@, v.ch, points)]
              /\ UNCHANGED buffer
         ELSE /\ buffer' = Drawn(buffer, v.ch, points)
              /\ UNCHANGED value

(* The user makes, writes or ends a buffer of his own.                       *)
Buffer ==
  /\ buffer' \in {[k \in 1..Size(shape) |-> Paint[k]] : shape \in Shapes}
                  \cup {Zeros(Len(buffer)), <<>>}
  /\ UNCHANGED value

Next == \/ \E i \in Images : New(i) \/ Draw(i) \/ Destroy(i)
        \/ \E i, j \in Images : Copy(i, j) \/ Move(i, j)
        \/ Buffer
Spec == Init /\ [][Next]_vars
=============================================================================
