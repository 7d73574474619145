--------------------------------- MODULE Ring ---------------------------------
(***************************************************************************)
(* The circular byte buffer that pipe.c and ppipe.c keep in one page:      *)
(* `front' and `rear' are the indices of the first and the last byte held  *)
(* and are both -1 when nothing is held, so all Size bytes can be used.    *)
(* The byte-by-byte loops of the system calls are given here in closed     *)
(* form (Push and Pop); RingLoops runs the loops themselves.               *)
(***************************************************************************)
EXTENDS Integers, Sequences

CONSTANTS Size,      \* MAX_PIPE_SIZE, MAX_PPIPE_SIZE
          Byte       \* the values of a byte of user data

ASSUME RingAssumption == Size \in Nat \ {0}

Index   == 0 .. (Size - 1)
NoIndex == -1

RingType == [front : Index \cup {NoIndex}, rear : Index \cup {NoIndex}, buf : [Index -> Byte]]

IsEmpty(r) == r.front = NoIndex /\ r.rear = NoIndex
\* Mutant: a ring that does not wrap around.
IsFullWithoutWrap(r) == r.front = 0 /\ r.rear = Size - 1
IsFull(r)  == r.front = (r.rear + 1) % Size

\* The two indices leave the value -1, and take it again, together.
WellFormed(r) == r.front = NoIndex <=> r.rear = NoIndex
Rings == {r \in RingType : WellFormed(r)}

\* How many positions lie between two indices, both ends included.
Span(first, last) == ((last - first + Size) % Size) + 1

Length(r) == IF IsEmpty(r) THEN 0 ELSE Span(r.front, r.rear)
Bytes(r)  == [k \in 1 .. Length(r) |-> r.buf[(r.front + k - 1) % Size]]

Smaller(a, b) == IF a <= b THEN a ELSE b
Prefix(s, n)  == SubSeq(s, 1, Smaller(n, Len(s)))

\* How many of `count' bytes a write stores and a read delivers.
Accepted(r, count)  == Smaller(count, Size - Length(r))
Delivered(r, count) == Smaller(count, Length(r))

(***************************************************************************)
(* The ring after the write loop, given the bytes of the user's buffer:    *)
(* the position that lies d places after the front receives the byte that  *)
(* is number d + 1 of the ring from then on.                               *)
(***************************************************************************)
Push(r, data) ==
  LET n    == Accepted(r, Len(data))
      from == IF IsEmpty(r) THEN 0 ELSE r.front
      new(i) == Span(from, i) - Length(r)    \* which new byte lands at i
  IN  IF n = 0 THEN r
      ELSE [front |-> from,
            rear  |-> (r.rear + n) % Size,
            buf   |-> [i \in Index |-> IF new(i) \in 1 .. n THEN data[new(i)] ELSE r.buf[i]]]

\* Mutant: the rear is not reset with the front.
PopKeepsRear(r, count) ==
  LET n == Delivered(r, count)
  IN  IF n = 0 THEN r ELSE [r EXCEPT !.front = (r.front + n) % Size]

(***************************************************************************)
(* The ring after the read loop: a read that takes the last byte resets    *)
(* both indices, any other moves the front.                                *)
(***************************************************************************)
Pop(r, count) ==
  LET n == Delivered(r, count)
  IN  IF n = 0 THEN r
      ELSE IF n = Length(r) THEN [r EXCEPT !.front = NoIndex, !.rear = NoIndex]
      ELSE [r EXCEPT !.front = (r.front + n) % Size]
===============================================================================
