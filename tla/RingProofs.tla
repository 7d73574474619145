------------------------------ MODULE RingProofs ------------------------------
(***************************************************************************)
(* What the operators of Ring do to the sequence of bytes held, for every  *)
(* size of the ring.                                                       *)
(***************************************************************************)
EXTENDS Ring, SequenceTheorems, TLAPS

\* Indices are computed modulo Size from numbers below 2 * Size.
LEMMA ModWrap ==
  ASSUME NEW x \in Int, 0 <= x, x < 2 * Size
  PROVE  x % Size = IF x < Size THEN x ELSE x - Size
BY RingAssumption

\* An index taken modulo the size lies in the page.
LEMMA ModIndex ==
  ASSUME NEW x \in Int
  PROVE  x % Size \in Index
BY RingAssumption DEF Index

\* How far apart two indices are, without the remainder.
LEMMA SpanValue ==
  ASSUME NEW first \in Index, NEW last \in Index
  PROVE  /\ Span(first, last) = IF last >= first THEN last - first + 1
                                                 ELSE last - first + Size + 1
         /\ Span(first, last) \in 1 .. Size
<1>1. last - first + Size \in Int /\ 0 <= last - first + Size /\ last - first + Size < 2 * Size
  BY RingAssumption DEF Index
<1>2. (last - first + Size) % Size = IF last - first + Size < Size
                                      THEN last - first + Size ELSE last - first
  BY <1>1, ModWrap, RingAssumption DEF Index
<1> QED BY <1>2, RingAssumption DEF Span, Index

\* The fields of a well-formed ring.
LEMMA RingFields ==
  ASSUME NEW r \in Rings
  PROVE  /\ r = [front |-> r.front, rear |-> r.rear, buf |-> r.buf]
         /\ r.buf \in [Index -> Byte]
         /\ IsEmpty(r) => r.front = -1 /\ r.rear = -1
         /\ ~ IsEmpty(r) => r.front \in Index /\ r.rear \in Index
BY DEF Rings, RingType, WellFormed, IsEmpty, NoIndex, Index

\* A ring holds between 0 and Size bytes, none exactly when it is marked empty.
LEMMA LengthType ==
  ASSUME NEW r \in Rings
  PROVE  /\ Length(r) \in 0 .. Size
         /\ Length(r) = 0 <=> IsEmpty(r)
<1>1. CASE IsEmpty(r)
  BY <1>1, RingAssumption DEF Length
<1>2. CASE ~ IsEmpty(r)
  <2>1. Span(r.front, r.rear) \in 1 .. Size
    BY <1>2, RingFields, SpanValue
  <2> QED BY <1>2, <2>1, RingAssumption DEF Length
<1> QED BY <1>1, <1>2

\* The test of pipe_write for a full ring is right.
LEMMA FullLength ==
  ASSUME NEW r \in Rings
  PROVE  IsFull(r) <=> Length(r) = Size
<1>1. CASE IsEmpty(r)
  <2>1. Length(r) = 0 /\ r.front = -1
    BY <1>1, RingFields, LengthType
  <2>2. (r.rear + 1) % Size \in Index
    BY <1>1, RingFields, ModIndex
  <2> QED BY <2>1, <2>2, RingAssumption DEF IsFull, Index
<1>2. CASE ~ IsEmpty(r)
  <2>1. r.front \in Index /\ r.rear \in Index
    BY <1>2, RingFields
  <2>2. (r.rear + 1) % Size = IF r.rear + 1 < Size THEN r.rear + 1 ELSE r.rear + 1 - Size
    BY <2>1, ModWrap, RingAssumption DEF Index
  <2>3. Length(r) = IF r.rear >= r.front THEN r.rear - r.front + 1
                                         ELSE r.rear - r.front + Size + 1
    BY <1>2, <2>1, SpanValue DEF Length
  <2> QED BY <2>1, <2>2, <2>3, RingAssumption DEF IsFull, Index
<1> QED BY <1>1, <1>2

\* The bytes of a ring are a sequence of its length.
LEMMA BytesType ==
  ASSUME NEW r \in Rings
  PROVE  /\ Bytes(r) \in Seq(Byte)
         /\ Len(Bytes(r)) = Length(r)
         /\ \A k \in 1 .. Length(r) : Bytes(r)[k] = r.buf[(r.front + k - 1) % Size]
<1>1. Length(r) \in Nat
  BY LengthType, RingAssumption
<1>2. ASSUME NEW k \in 1 .. Length(r) PROVE r.buf[(r.front + k - 1) % Size] \in Byte
  <2>1. ~ IsEmpty(r)
    BY LengthType, <1>2
  <2>2. r.front + k - 1 \in Int
    BY <2>1, RingFields, <1>1 DEF Index
  <2> QED BY <2>2, ModIndex, RingFields
<1>3. Bytes(r) \in [1 .. Length(r) -> Byte]
  BY <1>2 DEF Bytes
<1> QED BY <1>1, <1>3 DEF Bytes

\* A write takes no more than there is room for, a read no more than there is.
LEMMA AcceptedType ==
  ASSUME NEW r \in Rings, NEW count \in Nat
  PROVE  /\ Accepted(r, count) \in 0 .. (Size - Length(r))
         /\ Accepted(r, count) <= count
         /\ Delivered(r, count) \in 0 .. Length(r)
         /\ Delivered(r, count) <= count
BY LengthType, RingAssumption DEF Accepted, Delivered, Smaller

\* The byte k places from an index lies at a position whose span is k.
LEMMA SpanOfPlace ==
  ASSUME NEW from \in Index, NEW k \in 1 .. Size
  PROVE  Span(from, (from + k - 1) % Size) = k
<1> DEFINE x == from + k - 1
           i == x % Size
<1>1. x \in Int /\ 0 <= x /\ x < 2 * Size
  BY RingAssumption DEF Index
<1>2. i = IF x < Size THEN x ELSE x - Size
  <2> HIDE DEF x
  <2> QED BY <1>1, ModWrap
<1>3. i \in Index
  BY <1>1, ModIndex
<1> HIDE DEF i
<1>4. Span(from, i) = IF i >= from THEN i - from + 1 ELSE i - from + Size + 1
  BY <1>3, SpanValue
<1>5. Span(from, i) = k
  BY <1>2, <1>3, <1>4, RingAssumption DEF Index
<1> QED BY <1>5 DEF i

\* A write that stores nothing leaves the ring as it is.
LEMMA PushNothing ==
  ASSUME NEW r \in Rings, NEW data \in Seq(Byte), Accepted(r, Len(data)) = 0
  PROVE  Push(r, data) = r
BY DEF Push

\* The two indices after a write.
LEMMA PushIndices ==
  ASSUME NEW r \in Rings, NEW data \in Seq(Byte), Accepted(r, Len(data)) # 0
  PROVE  LET n == Accepted(r, Len(data))
             s == Push(r, data)
         IN  /\ s \in Rings
             /\ s.front = (IF IsEmpty(r) THEN 0 ELSE r.front)
             /\ s.front \in Index /\ s.rear \in Index
             /\ ~ IsEmpty(s)
             /\ Length(s) = Length(r) + n
<1> DEFINE n == Accepted(r, Len(data))
           from == IF IsEmpty(r) THEN 0 ELSE r.front
           new(i) == Span(from, i) - Length(r)
           buf == [i \in Index |-> IF new(i) \in 1 .. n THEN data[new(i)] ELSE r.buf[i]]
           s == [front |-> from, rear |-> (r.rear + n) % Size, buf |-> buf]
<1>1. Push(r, data) = s
  BY DEF Push
<1>2. n \in 1 .. (Size - Length(r)) /\ n <= Len(data) /\ Length(r) \in 0 .. Size
  BY AcceptedType, LengthType, RingAssumption
<1>3. from \in Index
  BY RingFields, RingAssumption DEF Index
<1>4. r.rear + n \in Int
  BY <1>2, RingFields DEF Index
<1>5. s.rear \in Index
  BY <1>4, ModIndex
<1>6. buf \in [Index -> Byte]
  <2>1. ASSUME NEW i \in Index, new(i) \in 1 .. n PROVE data[new(i)] \in Byte
    BY <1>2, <2>1
  <2>2. ASSUME NEW i \in Index PROVE r.buf[i] \in Byte
    BY RingFields
  <2> HIDE DEF new
  <2> QED BY <2>1, <2>2
<1>7. s \in Rings
  <2> HIDE DEF from, buf
  <2> QED BY <1>3, <1>5, <1>6, RingAssumption DEF Rings, RingType, WellFormed, NoIndex, Index
<1>8. Length(s) = Span(from, (r.rear + n) % Size) /\ ~ IsEmpty(s)
  <2> HIDE DEF from, buf
  <2> QED BY <1>3, RingAssumption DEF Length, IsEmpty, NoIndex, Index
<1>9. Span(from, (r.rear + n) % Size) = Length(r) + n
  <2>1. CASE IsEmpty(r)
    <3>1. r.rear + n = from + n - 1 /\ n \in 1 .. Size /\ Length(r) = 0
      BY <2>1, <1>2, RingFields, LengthType, RingAssumption
    <3> QED BY <3>1, <1>3, SpanOfPlace
  <2>2. CASE ~ IsEmpty(r)
    <3> DEFINE x == r.rear + n
               j == x % Size
    <3>1. r.front \in Index /\ r.rear \in Index /\ from = r.front
      BY <2>2, RingFields
    <3>2. Length(r) = IF r.rear >= r.front THEN r.rear - r.front + 1
                                           ELSE r.rear - r.front + Size + 1
      BY <2>2, <3>1, SpanValue DEF Length
    <3>3. x \in Int /\ 0 <= x /\ x < 2 * Size
      <4> HIDE DEF n
      <4> QED BY <3>1, <1>2, RingAssumption DEF Index
    <3>4. j = IF x < Size THEN x ELSE x - Size
      <4> HIDE DEF x
      <4> QED BY <3>3, ModWrap
    <3>5. Span(from, j) = IF j >= from THEN j - from + 1 ELSE j - from + Size + 1
      BY <1>3, <1>5, SpanValue
    <3>6. Span(from, j) = Length(r) + n
      <4> HIDE DEF n, from, j
      <4>1. /\ r.rear \in Int /\ r.front \in Int /\ n \in Int /\ Length(r) \in Int
            /\ Size \in Int /\ 1 <= n /\ n <= Size - Length(r)
            /\ 0 <= r.rear /\ r.rear < Size /\ 0 <= r.front /\ r.front < Size
        BY <3>1, <1>2, RingAssumption DEF Index
      <4>2. CASE r.rear >= r.front
        <5>1. Length(r) = r.rear - r.front + 1
          BY <3>2, <4>2
        <5>2. x <= r.front + Size - 1 /\ x >= r.front
          BY <4>1, <4>2, <5>1
        <5>3. CASE x < Size
          <6>1. j = x /\ j >= from
            BY <3>1, <3>4, <5>2, <5>3
          <6> QED BY <3>1, <3>5, <4>1, <5>1, <6>1
        <5>4. CASE ~ (x < Size)
          <6>1. j = x - Size /\ ~ (j >= from)
            BY <3>1, <3>4, <4>1, <5>2, <5>4
          <6>2. Span(from, j) = x - Size - r.front + Size + 1
            BY <3>1, <3>5, <6>1
          <6> QED BY <4>1, <5>1, <6>2
        <5> QED BY <5>3, <5>4
      <4>3. CASE ~ (r.rear >= r.front)
        <5>1. Length(r) = r.rear - r.front + Size + 1
          BY <3>2, <4>3
        <5>2. x < r.front /\ x < Size
          BY <4>1, <5>1
        <5>3. j = x /\ ~ (j >= from)
          BY <3>1, <3>4, <4>1, <5>2
        <5> QED BY <3>1, <3>5, <4>1, <5>1, <5>3
      <4> QED BY <4>2, <4>3
    <3> QED BY <3>6
  <2> QED BY <2>1, <2>2
<1> QED BY <1>1, <1>3, <1>5, <1>7, <1>8, <1>9

(***************************************************************************)
(* A write keeps the ring well formed and appends the bytes that fit.      *)
(***************************************************************************)
THEOREM PushAppends ==
  ASSUME NEW r \in Rings, NEW data \in Seq(Byte)
  PROVE  /\ Push(r, data) \in Rings
         /\ Bytes(Push(r, data)) = Bytes(r) \o Prefix(data, Accepted(r, Len(data)))
<1> DEFINE n == Accepted(r, Len(data))
           s == Push(r, data)
<1>0. n \in 0 .. (Size - Length(r)) /\ n <= Len(data) /\ Length(r) \in 0 .. Size
  BY AcceptedType, LengthType
<1>1. CASE n = 0
  <2>1. Prefix(data, n) = <<>>
    BY <1>1, <1>0 DEF Prefix, Smaller
  <2> QED BY <1>1, <2>1, PushNothing, BytesType
<1>2. CASE n # 0
  <2> DEFINE from == IF IsEmpty(r) THEN 0 ELSE r.front
  <2>1. /\ s \in Rings /\ s.front = from /\ from \in Index
        /\ Length(s) = Length(r) + n
    BY <1>2, PushIndices
  <2> DEFINE t == Prefix(data, n)
  <2>2. /\ t \in Seq(Byte) /\ Len(t) = n
        /\ \A k \in 1 .. n : t[k] = data[k]
    <3> HIDE DEF n
    <3>1. t = SubSeq(data, 1, n)
      BY <1>0 DEF Prefix, Smaller
    <3> QED BY <3>1, <1>0
  <2>3. /\ Bytes(r) \in Seq(Byte) /\ Len(Bytes(r)) = Length(r)
        /\ Bytes(s) \in Seq(Byte) /\ Len(Bytes(s)) = Length(r) + n
    BY <2>1, BytesType
  <2>4. ASSUME NEW k \in 1 .. (Length(r) + n)
        PROVE  Bytes(s)[k] = (Bytes(r) \o t)[k]
    <3> DEFINE i == (from + k - 1) % Size
    <3>0. k \in 1 .. Size
      BY <1>0, RingAssumption
    <3>1. Bytes(s)[k] = s.buf[i]
      BY <2>1, BytesType
    <3>2. i \in Index
      <4>1. from + k - 1 \in Int
        BY <2>1, <3>0 DEF Index
      <4> QED BY <4>1, ModIndex
    <3>3. Span(from, i) = k
      BY <2>1, <3>0, SpanOfPlace
    <3>4. s.buf[i] = IF k - Length(r) \in 1 .. n THEN data[k - Length(r)] ELSE r.buf[i]
      BY <1>2, <3>2, <3>3 DEF Push
    <3>5. CASE k > Length(r)
      <4>1. s.buf[i] = data[k - Length(r)]
        BY <3>4, <3>5, <1>0
      <4> HIDE DEF n, t, s, i
      <4>2. (Bytes(r) \o t)[k] = t[k - Length(r)]
        BY <3>5, <2>2, <2>3, <1>0
      <4>3. t[k - Length(r)] = data[k - Length(r)]
        BY <2>2, <3>5, <1>0
      <4> QED BY <3>1, <4>1, <4>2, <4>3
    <3>6. CASE k <= Length(r)
      <4>1. s.buf[i] = r.buf[i]
        BY <3>4, <3>6, <1>0
      <4>2. ~ IsEmpty(r) /\ from = r.front /\ k \in 1 .. Length(r)
        BY <3>6, LengthType, <3>0
      <4>3. Bytes(r)[k] = r.buf[i]
        BY <4>2, BytesType
      <4> HIDE DEF n, t, s, i
      <4>4. (Bytes(r) \o t)[k] = Bytes(r)[k]
        BY <4>2, <2>2, <2>3, <1>0
      <4> QED BY <3>1, <4>1, <4>3, <4>4
    <3>7. k > Length(r) \/ k <= Length(r)
      BY <1>0
    <3> QED BY <3>5, <3>6, <3>7
  <2>5. Bytes(s) = Bytes(r) \o t
    <3> HIDE DEF s, n, t
    <3>1. Bytes(r) \o t \in Seq(Byte) /\ Len(Bytes(r) \o t) = Length(r) + n
      BY <2>2, <2>3, ConcatProperties
    <3> QED BY <2>3, <2>4, <3>1, SeqEqual
  <2> QED BY <2>1, <2>5
<1> QED BY <1>1, <1>2

\* The ring after a read that leaves bytes behind.
LEMMA PopSome ==
  ASSUME NEW r \in Rings, NEW count \in Nat, 0 < count, count < Length(r)
  PROVE  LET s == [r EXCEPT !.front = (r.front + count) % Size]
         IN  /\ s \in Rings
             /\ Length(s) = Length(r) - count
             /\ \A k \in 1 .. (Length(r) - count) : Bytes(s)[k] = Bytes(r)[count + k]
<1> DEFINE x == r.front + count
           j == x % Size
           s == [r EXCEPT !.front = j]
<1>1. /\ r.front \in Index /\ r.rear \in Index /\ ~ IsEmpty(r)
      /\ Length(r) \in 0 .. Size
  BY LengthType, RingFields
<1>2. /\ Size \in Int /\ r.front \in Int /\ r.rear \in Int /\ Length(r) \in Int
      /\ 0 <= r.rear /\ r.rear < Size /\ 0 <= r.front /\ r.front < Size /\ Length(r) <= Size
  BY <1>1, RingAssumption DEF Index
<1>3. x \in Int /\ 0 <= x /\ x < 2 * Size
  BY <1>2
<1>4. j = IF x < Size THEN x ELSE x - Size
  <2> HIDE DEF x
  <2> QED BY <1>3, ModWrap
<1>5. j \in Index
  BY <1>3, ModIndex
<1>6. s.front = j /\ s.rear = r.rear /\ s.buf = r.buf
  BY RingFields
<1>7. s \in Rings /\ ~ IsEmpty(s)
  <2> HIDE DEF j
  <2>1. s = [front |-> j, rear |-> r.rear, buf |-> r.buf]
    BY RingFields
  <2> HIDE DEF s
  <2> QED BY <1>1, <1>5, <2>1, RingFields, RingAssumption
          DEF Rings, RingType, WellFormed, IsEmpty, NoIndex, Index
<1>8. Length(s) = Length(r) - count
  <2>1. Length(r) = IF r.rear >= r.front THEN r.rear - r.front + 1
                                         ELSE r.rear - r.front + Size + 1
    BY <1>1, SpanValue DEF Length
  <2>2. Length(s) = IF r.rear >= j THEN r.rear - j + 1 ELSE r.rear - j + Size + 1
    <3> HIDE DEF j
    <3>1. Length(s) = Span(j, r.rear)
      BY <1>6, <1>7 DEF Length
    <3> QED BY <3>1, <1>1, <1>5, SpanValue
  <2>3. CASE r.rear >= r.front
    <3>1. j = x /\ r.rear >= j
      BY <1>2, <1>4, <2>1, <2>3
    <3> QED BY <2>1, <2>2, <2>3, <3>1, <1>2
  <2>4. CASE ~ (r.rear >= r.front)
    <3>1. Length(r) = r.rear - r.front + Size + 1
      BY <2>1, <2>4
    <3>2. CASE x < Size
      <4>1. j = x /\ ~ (r.rear >= j)
        BY <1>2, <1>4, <2>4, <3>2
      <4> QED BY <2>2, <3>1, <4>1, <1>2
    <3>3. CASE ~ (x < Size)
      <4>1. j = x - Size
        BY <1>4, <3>3
      <4>2. r.rear >= j
        BY <4>1, <3>1, <1>2
      <4> QED BY <2>2, <3>1, <4>1, <4>2, <1>2
    <3> QED BY <3>2, <3>3
  <2> QED BY <2>3, <2>4
<1>9. ASSUME NEW k \in 1 .. (Length(r) - count)
      PROVE  Bytes(s)[k] = Bytes(r)[count + k]
  <2> DEFINE y == j + k - 1
             z == r.front + (count + k) - 1
  <2>1. /\ k \in Int /\ 1 <= k /\ k <= Length(r) - count
        /\ j \in Int /\ 0 <= j /\ j < Size
    BY <1>2, <1>5, <1>9 DEF Index
  <2>2. y \in Int /\ 0 <= y /\ y < 2 * Size /\ z \in Int /\ 0 <= z /\ z < 2 * Size
    <3> HIDE DEF j
    <3> QED BY <2>1, <1>2
  <2>3. y % Size = (IF y < Size THEN y ELSE y - Size) /\ z % Size = (IF z < Size THEN z ELSE z - Size)
    <3> HIDE DEF y, z
    <3> QED BY <2>2, ModWrap
  <2>4. y = z \/ y = z - Size
    BY <1>4, <1>2, <2>1
  <2>5. y = z - Size => y < Size
    BY <2>2, <1>2
  <2>6. y % Size = z % Size
    <3> HIDE DEF y, z
    <3> QED BY <2>2, <2>3, <2>4, <2>5, <1>2
  <2>7. Bytes(s)[k] = r.buf[y % Size]
    <3>1. k \in 1 .. Length(s)
      BY <1>8
    <3> QED BY <1>6, <1>7, <3>1, BytesType
  <2>8. Bytes(r)[count + k] = r.buf[z % Size]
    <3>1. count + k \in 1 .. Length(r)
      BY <2>1, <1>2
    <3> QED BY <3>1, BytesType
  <2> QED BY <2>6, <2>7, <2>8
<1> QED BY <1>7, <1>8, <1>9

(***************************************************************************)
(* A read keeps the ring well formed and takes away exactly the bytes it   *)
(* delivers, which are the oldest ones.                                    *)
(***************************************************************************)
THEOREM PopRemoves ==
  ASSUME NEW r \in Rings, NEW count \in Nat
  PROVE  /\ Pop(r, count) \in Rings
         /\ Bytes(Pop(r, count)) = SubSeq(Bytes(r), Delivered(r, count) + 1, Length(r))
<1> DEFINE d == Delivered(r, count)
           s == Pop(r, count)
<1>0. /\ d = (IF count <= Length(r) THEN count ELSE Length(r))
      /\ Length(r) \in Nat /\ Bytes(r) \in Seq(Byte) /\ Len(Bytes(r)) = Length(r)
  BY LengthType, BytesType, RingAssumption DEF Delivered, Smaller
<1>1. CASE d = 0
  <2>1. s = r
    BY <1>1 DEF Pop
  <2>2. SubSeq(Bytes(r), 1, Length(r)) = Bytes(r)
    BY <1>0, SubSeqFull
  <2> QED BY <1>1, <2>1, <2>2
<1>2. CASE d # 0 /\ count >= Length(r)
  <2>1. s = [r EXCEPT !.front = NoIndex, !.rear = NoIndex]
    BY <1>0, <1>2 DEF Pop
  <2>2. s = [front |-> NoIndex, rear |-> NoIndex, buf |-> r.buf]
    BY <2>1, RingFields
  <2>3. s \in Rings /\ IsEmpty(s)
    <3> HIDE DEF s
    <3> QED BY <2>2, RingFields, RingAssumption DEF Rings, RingType, WellFormed, IsEmpty, NoIndex, Index
  <2>4. Bytes(s) = <<>>
    <3>1. Length(s) = 0
      BY <2>3, LengthType
    <3> QED BY <2>3, <3>1, BytesType
  <2>5. SubSeq(Bytes(r), d + 1, Length(r)) = <<>>
    <3>1. d + 1 > Length(r)
      BY <1>0, <1>2
    <3> QED BY <3>1, <1>0, SubSeqEmpty
  <2> QED BY <2>3, <2>4, <2>5
<1>3. CASE d # 0 /\ count < Length(r)
  <2>1. 0 < count /\ d = count
    BY <1>0, <1>3
  <2>2. s = [r EXCEPT !.front = (r.front + count) % Size]
    BY <1>3, <1>0, <2>1 DEF Pop
  <2>3. /\ s \in Rings
        /\ Length(s) = Length(r) - count
        /\ \A k \in 1 .. (Length(r) - count) : Bytes(s)[k] = Bytes(r)[count + k]
    BY <1>3, <2>1, <2>2, PopSome
  <2> DEFINE t == SubSeq(Bytes(r), count + 1, Length(r))
  <2>4. /\ t \in Seq(Byte) /\ Len(t) = Length(r) - count
        /\ \A k \in 1 .. (Length(r) - count) : t[k] = Bytes(r)[count + k]
    BY <1>0, <1>3, <2>1
  <2>5. Bytes(s) \in Seq(Byte) /\ Len(Bytes(s)) = Length(r) - count
    BY <2>3, BytesType
  <2>6. Bytes(s) = t
    <3> HIDE DEF s, t
    <3> QED BY <2>3, <2>4, <2>5, SeqEqual
  <2> QED BY <2>1, <2>3, <2>6
<1> QED BY <1>0, <1>1, <1>2, <1>3

\* A prefix of user data is user data.
LEMMA PrefixType ==
  ASSUME NEW s \in Seq(Byte), NEW n \in Nat
  PROVE  Prefix(s, n) \in Seq(Byte)
<1>1. Smaller(n, Len(s)) \in 0 .. Len(s)
  BY DEF Smaller
<1> QED BY <1>1 DEF Prefix
===============================================================================
