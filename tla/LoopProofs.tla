------------------------------ MODULE LoopProofs ------------------------------
(***************************************************************************)
(* The byte loops of pipe_write and pipe_read compute Push and Pop, for    *)
(* every size of the page, every count and all data.                       *)
(***************************************************************************)
EXTENDS RingLoops, RingProofs

Start(r)  == IF IsEmpty(r) THEN 0 ELSE r.front
New(r, i) == Span(Start(r), i) - Length(r)
Room(r)   == Size - Length(r)

\* The ring r with k bytes of data stored.
After(r, data, k) ==
  IF k = 0 THEN r
  ELSE [front |-> Start(r),
        rear  |-> (r.rear + k) % Size,
        buf   |-> [i \in Index |-> IF New(r, i) \in 1 .. k THEN data[New(r, i)] ELSE r.buf[i]]]

(***************************************************************************)
(* The inductive invariant.  In the loop of a write the local copies are   *)
(* the indices of the ring with n bytes stored, but the ring itself still  *)
(* has its old rear; in the loop of a read the ring is untouched, or has   *)
(* lost its rear alone after the last byte.                                *)
(***************************************************************************)
Writing ==
  LET a == After(call.from, user, n) IN
  /\ Len(user) = call.count
  /\ call.op = "write" => n < Room(call.from)
  /\ call.op = "write-store" => n = Room(call.from)
  /\ front = a.front /\ rear = a.rear
  /\ ring = [a EXCEPT !.rear = call.from.rear]

Reading ==
  /\ ~ IsEmpty(call.from)
  /\ call.op = "read" => /\ n < Length(call.from)
                         /\ front = (call.from.front + n) % Size /\ rear = call.from.rear
                         /\ ring = call.from
  /\ call.op = "read-store" => /\ n = Length(call.from)
                               /\ front = NoIndex /\ rear = NoIndex
                               /\ ring = [call.from EXCEPT !.rear = NoIndex]

GivenOut == Len(user) = n /\ n <= Length(call.from) /\ \A k \in 1 .. n : user[k] = Bytes(call.from)[k]

LoopInv ==
  /\ call \in Calls /\ call.from \in Rings
  /\ front \in Index \cup {NoIndex} /\ rear \in Index \cup {NoIndex}
  /\ n \in 0 .. call.count /\ user \in Seq(Byte)
  /\ Idle => ring \in Rings
  /\ call.op \in {"write", "write-store"} => Writing
  /\ call.op \in {"read", "read-store"} => Reading
  /\ call.op \in {"read", "read-store", "was-read"} => GivenOut
  /\ call.op = "written" => n = Accepted(call.from, call.count) /\ Len(user) = call.count
  /\ call.op = "was-read" => n = Delivered(call.from, call.count)
  /\ ClosedForms

-------------------------------------------------------------------------------
LEMMA PushIsAfter ==
  ASSUME NEW r \in Rings, NEW data \in Seq(Byte)
  PROVE  Push(r, data) = After(r, data, Accepted(r, Len(data)))
BY DEF Push, After, Start, New

LEMMA SpanInjective ==
  ASSUME NEW from \in Index, NEW i \in Index, NEW j \in Index, Span(from, i) = Span(from, j)
  PROVE  i = j
<1>1. /\ Span(from, i) = IF i >= from THEN i - from + 1 ELSE i - from + Size + 1
      /\ Span(from, j) = IF j >= from THEN j - from + 1 ELSE j - from + Size + 1
  BY SpanValue
<1>2. /\ from \in Int /\ i \in Int /\ j \in Int /\ Size \in Int
      /\ 0 <= from /\ from < Size /\ 0 <= i /\ i < Size /\ 0 <= j /\ j < Size
  BY RingAssumption DEF Index
<1>3. CASE i >= from /\ j >= from
  <2>1. i - from + 1 = j - from + 1
    BY <1>1, <1>3, Span(from, i) = Span(from, j)
  <2> QED BY <1>2, <2>1
<1>4. CASE i >= from /\ ~ (j >= from)
  <2>1. i - from + 1 = j - from + Size + 1
    BY <1>1, <1>4, Span(from, i) = Span(from, j)
  <2> QED BY <1>2, <2>1
<1>5. CASE ~ (i >= from) /\ j >= from
  <2>1. i - from + Size + 1 = j - from + 1
    BY <1>1, <1>5, Span(from, i) = Span(from, j)
  <2> QED BY <1>2, <2>1
<1>6. CASE ~ (i >= from) /\ ~ (j >= from)
  <2>1. i - from + Size + 1 = j - from + Size + 1
    BY <1>1, <1>6, Span(from, i) = Span(from, j)
  <2> QED BY <1>2, <2>1
<1> QED BY <1>3, <1>4, <1>5, <1>6

LEMMA ModNext ==
  ASSUME NEW z \in Int, 0 <= z, z < 2 * Size
  PROVE  z % Size \in Int /\ NextIndex(z % Size) = IF (z % Size) + 1 < Size THEN (z % Size) + 1 ELSE 0
<1>1. z % Size = IF z < Size THEN z ELSE z - Size
  BY ModWrap
<1>2. z % Size \in Int /\ 0 <= z % Size /\ z % Size < Size
  BY <1>1, RingAssumption
<1>3. ASSUME NEW u \in Int, 0 <= u, u < Size PROVE (u + 1) % Size = IF u + 1 < Size THEN u + 1 ELSE 0
  <2>1. (u + 1) % Size = IF u + 1 < Size THEN u + 1 ELSE u + 1 - Size
    BY <1>3, ModWrap, RingAssumption
  <2> QED BY <1>3, <2>1, RingAssumption
<1> QED BY <1>2, <1>3 DEF NextIndex

\* The position where byte k + 1 goes.
LEMMA NextPlace ==
  ASSUME NEW r \in Rings, NEW k \in Nat, k < Room(r)
  PROVE  LET last == (r.rear + k + 1) % Size IN
         /\ last \in Index /\ Start(r) \in Index
         /\ Span(Start(r), last) = Length(r) + k + 1
         /\ last = IF k = 0 /\ IsEmpty(r) THEN 0 ELSE NextIndex((r.rear + k) % Size)
         /\ k = 0 /\ ~ IsEmpty(r) => (r.rear + k) % Size = r.rear
<1> DEFINE last == (r.rear + k + 1) % Size
<1>1. Length(r) \in 0 .. Size /\ Size \in Nat /\ Size > 0 /\ k < Size - Length(r)
  BY LengthType, RingAssumption DEF Room
<1>2. CASE IsEmpty(r)
  <2>1. r.rear = -1 /\ Length(r) = 0 /\ Start(r) = 0
    BY <1>2, RingFields, LengthType DEF Start
  <2>2. k % Size = k /\ last = k
    BY <1>1, <2>1
  <2>3. 0 \in Index /\ k \in Index
    BY <1>1, <2>1 DEF Index
  <2>4. Span(0, k) = k + 1
    BY <2>3, SpanValue, <1>1 DEF Index
  <2>5. CASE k = 0
    BY <1>2, <2>1, <2>2, <2>3, <2>4, <2>5
  <2>6. CASE k # 0
    <3>1. r.rear + k = k - 1 /\ (k - 1) % Size = k - 1 /\ NextIndex(k - 1) = k
      BY <1>1, <2>1, <2>2, <2>6 DEF NextIndex
    <3> QED BY <1>2, <2>1, <2>2, <2>3, <2>4, <2>6, <3>1
  <2> QED BY <2>5, <2>6
<1>3. CASE ~ IsEmpty(r)
  <2>1. r.front \in Index /\ r.rear \in Index /\ Start(r) = r.front /\ Length(r) = Span(r.front, r.rear)
    BY <1>3, RingFields DEF Start, Length
  <2>2. /\ r.front \in Int /\ 0 <= r.front /\ r.front < Size /\ r.rear \in Int /\ 0 <= r.rear /\ r.rear < Size
    BY <2>1, RingAssumption DEF Index
  <2>3. Length(r) = IF r.rear >= r.front THEN r.rear - r.front + 1 ELSE r.rear - r.front + Size + 1
    BY <2>1, SpanValue
  <2> DEFINE x == r.rear + k + 1
             y == r.front + (Length(r) + k + 1) - 1
  <2>4. x \in Int /\ 0 <= x /\ x < 2 * Size /\ y \in Int /\ 0 <= y /\ y < 2 * Size
    BY <1>1, <2>2, <2>3
  <2>5. y = x \/ y = x + Size
    BY <1>1, <2>2, <2>3
  <2>6. x % Size = IF x < Size THEN x ELSE x - Size
    <3> HIDE DEF x
    <3> QED BY <2>4, ModWrap
  <2>7. y % Size = IF y < Size THEN y ELSE y - Size
    <3> HIDE DEF y
    <3> QED BY <2>4, ModWrap
  <2>8. y % Size = x % Size
    BY <1>1, <2>4, <2>5, <2>6, <2>7
  <2>9. Length(r) + k + 1 \in 1 .. Size
    BY <1>1
  <2>10. Span(r.front, y % Size) = Length(r) + k + 1
    BY <2>1, <2>9, SpanOfPlace
  <2>11. last = x % Size /\ last \in Index
    BY <2>4, ModIndex
  <2> DEFINE z == r.rear + k
  <2>12. z \in Int /\ 0 <= z /\ z < 2 * Size /\ x = z + 1
    BY <1>1, <2>2
  <2>13. z % Size = IF z < Size THEN z ELSE z - Size
    <3> HIDE DEF z
    <3> QED BY <2>12, ModWrap
  <2>14. z % Size \in Int /\ NextIndex(z % Size) = IF (z % Size) + 1 < Size THEN (z % Size) + 1 ELSE 0
    <3> HIDE DEF z
    <3> QED BY <2>12, ModNext
  <2>16. NextIndex(z % Size) = x % Size
    BY <1>1, <2>4, <2>6, <2>12, <2>13, <2>14
  <2>17. k = 0 => z % Size = r.rear
    BY <2>2, <2>13
  <2> QED BY <1>3, <2>1, <2>8, <2>10, <2>11, <2>16, <2>17
<1> QED BY <1>2, <1>3

\* One more byte stored.
LEMMA AfterOneMore ==
  ASSUME NEW r \in Rings, NEW data \in Seq(Byte), NEW k \in Nat, k < Room(r), k < Len(data)
  PROVE  LET a     == After(r, data, k)
             b     == After(r, data, k + 1)
             fresh == a.front = NoIndex /\ a.rear = NoIndex
             last  == IF fresh THEN 0 ELSE NextIndex(a.rear)
             first == IF fresh THEN 0 ELSE a.front
         IN  /\ fresh <=> k = 0 /\ IsEmpty(r)
             /\ b.front = first /\ b.rear = last
             /\ last \in Index /\ first \in Index
             /\ a.buf \in [Index -> Byte] /\ b.buf = [a.buf EXCEPT ![last] = data[k + 1]]
             /\ first = NextIndex(last) <=> k + 1 = Room(r)
<1> DEFINE a     == After(r, data, k)
           b     == After(r, data, k + 1)
           fresh == a.front = NoIndex /\ a.rear = NoIndex
           last  == IF fresh THEN 0 ELSE NextIndex(a.rear)
           first == IF fresh THEN 0 ELSE a.front
           place == (r.rear + k + 1) % Size
<1>1. /\ place \in Index /\ Start(r) \in Index
      /\ Span(Start(r), place) = Length(r) + k + 1
      /\ place = IF k = 0 /\ IsEmpty(r) THEN 0 ELSE NextIndex((r.rear + k) % Size)
      /\ k = 0 /\ ~ IsEmpty(r) => (r.rear + k) % Size = r.rear
  BY NextPlace
<1>2. k = 0 => a = r
  BY DEF After
<1>3. k # 0 => a = [front |-> Start(r), rear |-> (r.rear + k) % Size,
                    buf |-> [i \in Index |-> IF New(r, i) \in 1 .. k THEN data[New(r, i)] ELSE r.buf[i]]]
  BY DEF After
<1>4. b = [front |-> Start(r), rear |-> (r.rear + (k + 1)) % Size,
           buf |-> [i \in Index |-> IF New(r, i) \in 1 .. (k + 1) THEN data[New(r, i)] ELSE r.buf[i]]]
  BY DEF After
<1>5. r.rear \in Int /\ Length(r) \in 0 .. Size /\ NoIndex \notin Index
  BY RingFields, LengthType, RingAssumption DEF Index, NoIndex
<1>6. r.rear + (k + 1) = r.rear + k + 1
  BY <1>5
<1>7. fresh <=> k = 0 /\ IsEmpty(r)
  BY <1>1, <1>2, <1>3, <1>5 DEF IsEmpty
<1>8. b.front = first /\ b.rear = last /\ b.front = Start(r) /\ b.rear = place
  <2>1. b.front = Start(r) /\ b.rear = place
    BY <1>4, <1>6
  <2>2. CASE k = 0 /\ IsEmpty(r)
    BY <1>1, <1>7, <2>1, <2>2 DEF Start
  <2>3. CASE ~ (k = 0 /\ IsEmpty(r))
    <3>1. a.front = Start(r) /\ a.rear = (r.rear + k) % Size
      BY <1>1, <1>2, <1>3, <2>3 DEF Start
    <3> QED BY <1>1, <1>7, <2>1, <2>3, <3>1
  <2> QED BY <2>2, <2>3
<1>9. \A i \in Index : New(r, i) \in Int /\ (New(r, i) = k + 1 <=> i = place)
  <2>1. ASSUME NEW i \in Index PROVE New(r, i) \in Int /\ (New(r, i) = k + 1 <=> i = place)
    <3>1. Span(Start(r), i) \in Int
      BY <1>1, SpanValue
    <3>2. New(r, i) = k + 1 <=> Span(Start(r), i) = Length(r) + k + 1
      BY <1>5, <3>1 DEF New
    <3>3. Span(Start(r), i) = Span(Start(r), place) <=> i = place
      BY <1>1, SpanInjective
    <3> QED BY <1>1, <1>5, <3>1, <3>2, <3>3 DEF New
  <2> QED BY <2>1
<1>10. a.buf \in [Index -> Byte] /\ \A i \in Index :
         a.buf[i] = IF New(r, i) \in 1 .. k THEN data[New(r, i)] ELSE r.buf[i]
  <2>1. r.buf \in [Index -> Byte] /\ \A j \in 1 .. k : data[j] \in Byte
    BY RingFields
  <2> QED BY <1>2, <1>3, <1>9, <2>1
<1> HIDE DEF a
<1>11. b.buf = [a.buf EXCEPT ![place] = data[k + 1]]
  <2>1. b.buf = [i \in Index |-> IF New(r, i) \in 1 .. (k + 1) THEN data[New(r, i)] ELSE r.buf[i]]
    BY <1>4
  <2>2. \A i \in Index : b.buf[i] = IF i = place THEN data[k + 1] ELSE a.buf[i]
    <3>1. \A i \in Index : New(r, i) \in 1 .. (k + 1) <=> New(r, i) \in 1 .. k \/ New(r, i) = k + 1
      BY <1>9
    <3>2. k + 1 \notin 1 .. k
      OBVIOUS
    <3> QED BY <1>9, <1>10, <2>1, <3>1, <3>2
  <2> QED BY <1>1, <1>10, <2>1, <2>2
<1>12. first = NextIndex(last) <=> k + 1 = Room(r)
  <2>1. b.buf \in [Index -> Byte]
    BY <1>1, <1>10, <1>11
  <2>2. b = [front |-> Start(r), rear |-> place, buf |-> b.buf]
    BY <1>4, <1>6
  <2> HIDE DEF b
  <2>3. b \in Rings /\ ~ IsEmpty(b)
    BY <1>1, <1>5, <2>1, <2>2 DEF Rings, RingType, WellFormed, IsEmpty
  <2>4. Length(b) = Length(r) + k + 1
    BY <1>1, <1>8, <2>3 DEF Length
  <2>5. IsFull(b) <=> Length(r) + k + 1 = Size
    BY <2>3, <2>4, FullLength
  <2>6. b.front = first /\ b.rear = last
    BY <1>8
  <2> HIDE DEF first, last
  <2>7. IsFull(b) <=> first = NextIndex(last)
    BY <2>6 DEF IsFull, NextIndex
  <2> QED BY <1>5, <2>5, <2>7, RingAssumption DEF Room
<1>13. last \in Index /\ first \in Index /\ last = place
  BY <1>1, <1>8
<1>14. b.buf = [a.buf EXCEPT ![last] = data[k + 1]]
  BY <1>11, <1>13
<1> QED BY <1>7, <1>8, <1>10, <1>12, <1>13, <1>14 DEF a

-------------------------------------------------------------------------------
(***************************************************************************)
(* The steps.                                                              *)
(***************************************************************************)
LEMMA UserDataType ==
  ASSUME NEW data \in UserData
  PROVE  data \in Seq(Byte) /\ Len(data) \in 0 .. MaxCount
<1>1. PICK k \in 0 .. MaxCount : data \in [1 .. k -> Byte]
  BY DEF UserData
<1>2. k \in Nat
  BY LoopsAssumption
<1> QED BY <1>1, <1>2

LEMMA CallParts ==
  ASSUME call \in Calls
  PROVE  /\ call = [op |-> call.op, count |-> call.count, from |-> call.from]
         /\ call.op \in {"write", "write-store", "read", "read-store", "none", "written", "was-read"}
         /\ call.count \in 0 .. MaxCount /\ call.count \in Nat /\ call.from \in RingType
BY LoopsAssumption DEF Calls

LEMMA CallType ==
  ASSUME NEW op \in {"write", "write-store", "read", "read-store", "none", "written", "was-read"},
         NEW count \in 0 .. MaxCount, NEW from \in RingType
  PROVE  [op |-> op, count |-> count, from |-> from] \in Calls
BY DEF Calls

LEMMA LoopInit == Init => LoopInv
<1> SUFFICES ASSUME Init PROVE LoopInv
  OBVIOUS
<1>1. NewRing \in Rings /\ NewRing \in RingType
  BY LoopsAssumption DEF NewRing, Rings, RingType, WellFormed
<1>2. call = [op |-> "none", count |-> 0, from |-> NewRing] /\ ring = NewRing
  BY DEF Init
<1>3. call \in Calls
  <2>1. 0 \in 0 .. MaxCount
    BY LoopsAssumption
  <2> QED BY <1>1, <1>2, <2>1, CallType
<1> HIDE DEF NewRing
<1> QED BY <1>1, <1>2, <1>3 DEF Init, LoopInv, ClosedForms

LEMMA WriteBeginStep ==
  ASSUME LoopInv, NEW data \in UserData, WriteBegin(data)
  PROVE  LoopInv'
<1>1. data \in Seq(Byte) /\ Len(data) \in 0 .. MaxCount /\ Len(data) \in Nat
  BY UserDataType, LoopsAssumption
<1>2. ring \in Rings /\ ring \in RingType /\ ring' = ring
  BY DEF LoopInv, WriteBegin, Rings
<1>3. front' = ring.front /\ rear' = ring.rear /\ n' = 0 /\ user' = data
  BY DEF WriteBegin
<1>4. front' \in Index \cup {NoIndex} /\ rear' \in Index \cup {NoIndex}
  BY <1>2, <1>3 DEF RingType
<1>5. After(ring, data, 0) = ring /\ [ring EXCEPT !.rear = ring.rear] = ring
  BY <1>2, RingFields DEF After
<1>6. Length(ring) \in 0 .. Size /\ (IsFull(ring) <=> Length(ring) = Size)
  BY <1>2, LengthType, FullLength
<1>7. CASE IsFull(ring)
  <2>1. call' = [op |-> "written", count |-> Len(data), from |-> ring]
    BY <1>7 DEF WriteBegin
  <2>2. Accepted(ring, Len(data)) = 0
    BY <1>1, <1>2, <1>6, <1>7, AcceptedType, RingAssumption
  <2>3. Push(ring, data) = ring
    BY <1>1, <1>2, <2>2, PushNothing
  <2>4. call' \in Calls
    BY <1>1, <1>2, <2>1, CallType
  <2> QED BY <1>1, <1>2, <1>3, <1>4, <2>1, <2>2, <2>3, <2>4 DEF LoopInv, ClosedForms
<1>8. CASE ~ IsFull(ring)
  <2>1. call' = [op |-> "write", count |-> Len(data), from |-> ring]
    BY <1>8 DEF WriteBegin
  <2>2. 0 < Room(ring)
    BY <1>6, <1>8, RingAssumption DEF Room
  <2>3. call' \in Calls
    BY <1>1, <1>2, <2>1, CallType
  <2>4. Writing'
    BY <1>2, <1>3, <1>5, <2>1, <2>2 DEF Writing
  <2> QED BY <1>1, <1>2, <1>3, <1>4, <2>1, <2>3, <2>4 DEF LoopInv, ClosedForms, Idle
<1> QED BY <1>7, <1>8

LEMMA WriteByteStep ==
  ASSUME LoopInv, WriteByte
  PROVE  LoopInv'
<1> DEFINE r     == call.from
           a     == After(r, user, n)
           b     == After(r, user, n + 1)
           fresh == front = NoIndex /\ rear = NoIndex
           last  == IF fresh THEN 0 ELSE NextIndex(rear)
           first == IF fresh THEN 0 ELSE front
<1>1. /\ call.op = "write" /\ n < call.count /\ call \in Calls /\ r \in Rings
      /\ Writing /\ user \in Seq(Byte) /\ n \in Nat
  BY DEF LoopInv, WriteByte
<1>2. n < Room(r) /\ n < Len(user) /\ Len(user) = call.count
  BY <1>1 DEF Writing
<1>3. front = a.front /\ rear = a.rear /\ ring = [a EXCEPT !.rear = r.rear]
  BY <1>1 DEF Writing
<1>4. /\ fresh <=> n = 0 /\ IsEmpty(r)
      /\ b.front = first /\ b.rear = last
      /\ last \in Index /\ first \in Index
      /\ a.buf \in [Index -> Byte] /\ b.buf = [a.buf EXCEPT ![last] = user[n + 1]]
      /\ first = NextIndex(last) <=> n + 1 = Room(r)
  BY <1>1, <1>2, <1>3, AfterOneMore
<1>5. a = [front |-> a.front, rear |-> a.rear, buf |-> a.buf]
  BY <1>1, RingFields DEF After
<1>6. b = [front |-> b.front, rear |-> b.rear, buf |-> b.buf]
  BY <1>1 DEF After
<1>7. /\ front' = first /\ rear' = last /\ n' = n + 1 /\ user' = user
      /\ ring' = [(IF fresh THEN FirstByte(ring) ELSE ring) EXCEPT !.buf[last] = user[n + 1]]
      /\ call' = [call EXCEPT !.op = IF first = NextIndex(last) THEN "write-store" ELSE @]
  BY DEF WriteByte
<1>8. call' = [op |-> IF n + 1 = Room(r) THEN "write-store" ELSE "write", count |-> call.count, from |-> r]
  BY <1>1, <1>4, <1>7, CallParts
<1> HIDE DEF a, b
<1>9. ring' = [b EXCEPT !.rear = r.rear]
  <2>1. ring = [front |-> front, rear |-> r.rear, buf |-> a.buf]
    BY <1>3, <1>5
  <2>2. (IF fresh THEN FirstByte(ring) ELSE ring) = [front |-> first, rear |-> r.rear, buf |-> a.buf]
    BY <2>1 DEF FirstByte
  <2>3. ring' = [front |-> first, rear |-> r.rear, buf |-> [a.buf EXCEPT ![last] = user[n + 1]]]
    <3> HIDE DEF first, last, fresh
    <3> QED BY <1>7, <2>2
  <2> HIDE DEF first, last, fresh
  <2> QED BY <1>4, <1>6, <2>3
<1> HIDE DEF first, last, fresh
<1>10. call' \in Calls /\ call'.from = r /\ call'.count = call.count
  BY <1>1, <1>8, CallType, CallParts
<1>11. Writing'
  <2>1. Room(r) \in Int
    BY <1>1, LengthType, RingAssumption DEF Room
  <2>2. call'.op = "write" => n + 1 < Room(r)
    BY <1>1, <1>2, <1>8, <2>1
  <2>3. call'.op = "write-store" => n + 1 = Room(r)
    BY <1>8
  <2>4. After(call'.from, user', n') = b
    BY <1>7, <1>8 DEF b
  <2> QED BY <1>2, <1>4, <1>7, <1>8, <1>9, <2>2, <2>3, <2>4 DEF Writing
<1>12. n' \in 0 .. call'.count
  BY <1>1, <1>7, <1>10, CallParts
<1> QED BY <1>1, <1>4, <1>7, <1>8, <1>10, <1>11, <1>12 DEF LoopInv, ClosedForms, Idle

LEMMA WriteStoreStep ==
  ASSUME LoopInv, WriteStore
  PROVE  LoopInv'
<1> DEFINE r == call.from
           a == After(r, user, n)
<1>1. /\ call.op \in {"write", "write-store"} /\ call \in Calls /\ r \in Rings
      /\ Writing /\ user \in Seq(Byte) /\ n \in Nat /\ n <= call.count /\ call.count \in Nat
  BY CallParts DEF LoopInv, WriteStore
<1>2. call.op = "write" => n = call.count
  BY <1>1 DEF WriteStore
<1>3. n = Accepted(r, call.count) /\ Len(user) = call.count
  <2>1. Room(r) \in Int
    BY <1>1, LengthType, RingAssumption DEF Room
  <2> QED BY <1>1, <1>2, <2>1 DEF Writing, Accepted, Smaller, Room
<1>4. a = Push(r, user)
  BY <1>1, <1>3, PushIsAfter
<1>5. a = [front |-> a.front, rear |-> a.rear, buf |-> a.buf]
  BY <1>1, RingFields DEF After
<1> HIDE DEF a
<1>6. ring' = a
  <2>1. ring = [a EXCEPT !.rear = r.rear] /\ rear = a.rear
    BY <1>1 DEF Writing, a
  <2>2. ring' = [ring EXCEPT !.rear = rear]
    BY DEF WriteStore
  <2> QED BY <1>5, <2>1, <2>2
<1>7. a \in Rings
  BY <1>1, <1>4, PushAppends
<1>8. call' = [op |-> "written", count |-> call.count, from |-> r]
  BY <1>1, CallParts DEF WriteStore
<1>9. call' \in Calls
  BY <1>1, <1>8, CallType, CallParts
<1>10. UNCHANGED front /\ UNCHANGED rear /\ UNCHANGED n /\ UNCHANGED user
  BY DEF WriteStore
<1> QED BY <1>1, <1>3, <1>4, <1>6, <1>7, <1>8, <1>9, <1>10 DEF LoopInv, ClosedForms

LEMMA ReadBeginStep ==
  ASSUME LoopInv, NEW count \in 0 .. MaxCount, ReadBegin(count)
  PROVE  LoopInv'
<1>1. count \in Nat /\ ring \in Rings /\ ring \in RingType /\ ring' = ring
  BY LoopsAssumption DEF LoopInv, ReadBegin, Rings
<1>2. front' = ring.front /\ rear' = ring.rear /\ n' = 0 /\ user' = <<>>
  BY DEF ReadBegin
<1>3. front' \in Index \cup {NoIndex} /\ rear' \in Index \cup {NoIndex}
  BY <1>1, <1>2 DEF RingType
<1>4. Length(ring) \in 0 .. Size /\ (Length(ring) = 0 <=> IsEmpty(ring))
  BY <1>1, LengthType
<1>5. user' \in Seq(Byte) /\ Len(user') = 0
  BY <1>2
<1>6. CASE IsEmpty(ring)
  <2>1. call' = [op |-> "was-read", count |-> count, from |-> ring]
    BY <1>6 DEF ReadBegin
  <2>2. Delivered(ring, count) = 0
    BY <1>1, <1>4, <1>6, AcceptedType
  <2>3. Pop(ring, count) = ring
    BY <2>2 DEF Pop
  <2>4. call' \in Calls
    BY <1>1, <2>1, CallType
  <2>5. GivenOut'
    BY <1>2, <1>4, <1>5, <1>6, <2>1 DEF GivenOut
  <2> QED BY <1>1, <1>2, <1>3, <1>5, <2>1, <2>2, <2>3, <2>4, <2>5 DEF LoopInv, ClosedForms
<1>7. CASE ~ IsEmpty(ring)
  <2>1. call' = [op |-> "read", count |-> count, from |-> ring]
    BY <1>7 DEF ReadBegin
  <2>2. call' \in Calls
    BY <1>1, <2>1, CallType
  <2>3. GivenOut'
    BY <1>2, <1>4, <1>5, <1>7, <2>1, RingAssumption DEF GivenOut
  <2>4. (ring.front + 0) % Size = ring.front
    <3>1. ring.front \in Int /\ 0 <= ring.front /\ ring.front < Size
      BY <1>1, <1>7, RingFields, RingAssumption DEF Index
    <3> QED BY <3>1, RingAssumption
  <2>5. Reading'
    BY <1>1, <1>2, <1>4, <1>7, <2>1, <2>4, RingAssumption DEF Reading
  <2> QED BY <1>1, <1>2, <1>3, <1>5, <2>1, <2>2, <2>3, <2>5 DEF LoopInv, ClosedForms, Idle
<1> QED BY <1>6, <1>7

\* Where a read that has taken k bytes stands, and how it sees the last one.
LEMMA ReadPlace ==
  ASSUME NEW r \in Rings, ~ IsEmpty(r), NEW k \in Nat, k < Length(r)
  PROVE  LET at == (r.front + k) % Size IN
         /\ at \in Index
         /\ Bytes(r)[k + 1] = r.buf[at] /\ r.buf[at] \in Byte
         /\ at = r.rear <=> k + 1 = Length(r)
         /\ NextIndex(at) = (r.front + (k + 1)) % Size
<1> DEFINE x  == r.front + k
           at == x % Size
<1>1. /\ r.front \in Index /\ r.rear \in Index /\ Length(r) = Span(r.front, r.rear)
      /\ Length(r) \in 0 .. Size
  BY RingFields, LengthType DEF Length
<1>2. x \in Int /\ 0 <= x /\ x < 2 * Size /\ x + 1 < 2 * Size /\ Size \in Int
  BY <1>1, RingAssumption DEF Index
<1>3. at \in Index
  BY <1>2, ModIndex
<1>4. r.front + (k + 1) - 1 = x /\ k + 1 \in 1 .. Length(r) /\ k + 1 \in 1 .. Size /\ r.front + (k + 1) = x + 1
  BY <1>1, <1>2, RingAssumption DEF Index
<1>5. Bytes(r)[k + 1] = r.buf[at] /\ r.buf[at] \in Byte
  BY <1>3, <1>4, BytesType, RingFields
<1>6. Span(r.front, at) = k + 1
  BY <1>1, <1>4, SpanOfPlace
<1> HIDE DEF x
<1>7. NextIndex(at) = (x + 1) % Size
  <2>1. NextIndex(at) = IF at + 1 < Size THEN at + 1 ELSE 0
    BY <1>2, ModNext
  <2>2. at = IF x < Size THEN x ELSE x - Size
    BY <1>2, ModWrap
  <2>3. (x + 1) % Size = IF x + 1 < Size THEN x + 1 ELSE x + 1 - Size
    <3>1. ASSUME NEW y \in Int, y = x + 1 PROVE y % Size = IF y < Size THEN y ELSE y - Size
      BY <1>2, <3>1, ModWrap
    <3> QED BY <1>2, <3>1
  <2> HIDE DEF at
  <2> QED BY <1>2, <2>1, <2>2, <2>3
<1> HIDE DEF at
<1>8. at = r.rear <=> k + 1 = Length(r)
  BY <1>1, <1>3, <1>6, SpanInjective
<1> QED BY <1>3, <1>4, <1>5, <1>7, <1>8 DEF x, at

LEMMA ReadByteStep ==
  ASSUME LoopInv, ReadByte
  PROVE  LoopInv'
<1> DEFINE r == call.from
<1>1. /\ call.op = "read" /\ n < call.count /\ call \in Calls /\ r \in Rings
      /\ Reading /\ GivenOut /\ user \in Seq(Byte) /\ n \in Nat
  BY DEF LoopInv, ReadByte
<1>2. /\ ~ IsEmpty(r) /\ n < Length(r) /\ front = (r.front + n) % Size /\ rear = r.rear /\ ring = r
  BY <1>1 DEF Reading
<1>3. /\ front \in Index
      /\ Bytes(r)[n + 1] = ring.buf[front] /\ ring.buf[front] \in Byte
      /\ front = rear <=> n + 1 = Length(r)
      /\ NextIndex(front) = (r.front + (n + 1)) % Size
  BY <1>1, <1>2, ReadPlace
<1>4. user' = Append(user, ring.buf[front]) /\ n' = n + 1
  BY DEF ReadByte
<1>5. Length(r) \in Int
  BY <1>1, LengthType, RingAssumption
<1>6. /\ user' \in Seq(Byte) /\ Len(user') = n + 1
      /\ \A k \in 1 .. (n + 1) : user'[k] = Bytes(r)[k]
  <2>1. Len(user) = n /\ \A k \in 1 .. n : user[k] = Bytes(r)[k]
    BY <1>1 DEF GivenOut
  <2>2. user' \in Seq(Byte) /\ Len(user') = n + 1 /\ user'[n + 1] = ring.buf[front]
    BY <1>1, <1>3, <1>4, <2>1
  <2>3. \A k \in 1 .. n : user'[k] = user[k]
    BY <1>1, <1>3, <1>4, <2>1
  <2>4. \A k \in 1 .. (n + 1) : k \in 1 .. n \/ k = n + 1
    BY <1>1
  <2> QED BY <1>3, <2>1, <2>2, <2>3, <2>4
<1>7. CASE front = rear
  <2>1. /\ front' = NoIndex /\ rear' = NoIndex
        /\ ring' = [ring EXCEPT !.rear = NoIndex]
        /\ call' = [call EXCEPT !.op = "read-store"]
    BY <1>7 DEF ReadByte, LastByte
  <2>2. call' = [op |-> "read-store", count |-> call.count, from |-> r]
    BY <1>1, <2>1, CallParts
  <2>3. call' \in Calls
    BY <1>1, <2>2, CallType, CallParts
  <2>4. GivenOut' /\ Reading'
    BY <1>1, <1>2, <1>3, <1>4, <1>5, <1>6, <1>7, <2>1, <2>2 DEF GivenOut, Reading
  <2>5. n' \in 0 .. call'.count
    BY <1>1, <1>4, <2>2, CallParts
  <2> QED BY <1>1, <1>4, <1>6, <2>1, <2>2, <2>3, <2>4, <2>5 DEF LoopInv, ClosedForms, Idle
<1>8. CASE front # rear
  <2>1. front' = NextIndex(front) /\ rear' = rear /\ ring' = ring /\ call' = call
    BY <1>8 DEF ReadByte, LastByte
  <2>2. n + 1 < Length(r)
    BY <1>1, <1>2, <1>3, <1>5, <1>8
  <2>3. GivenOut' /\ Reading'
    BY <1>1, <1>2, <1>3, <1>4, <1>5, <1>6, <2>1, <2>2 DEF GivenOut, Reading
  <2>4. n' \in 0 .. call'.count
    BY <1>1, <1>4, <2>1, CallParts
  <2>5. front' \in Index \cup {NoIndex}
    <3>1. r.front + (n + 1) \in Int
      BY <1>1, <1>2, RingFields DEF Index
    <3> QED BY <1>3, <2>1, <3>1, ModIndex
  <2> QED BY <1>1, <1>6, <2>1, <2>3, <2>4, <2>5 DEF LoopInv, ClosedForms, Idle
<1> QED BY <1>7, <1>8

LEMMA ReadStoreStep ==
  ASSUME LoopInv, ReadStore
  PROVE  LoopInv'
<1> DEFINE r == call.from
<1>1. /\ call.op \in {"read", "read-store"} /\ call \in Calls /\ r \in Rings
      /\ Reading /\ GivenOut /\ user \in Seq(Byte) /\ n \in Nat /\ n <= call.count
      /\ call.count \in Nat /\ call.count \in 0 .. MaxCount
  BY CallParts DEF LoopInv, ReadStore
<1>2. /\ ~ IsEmpty(r) /\ Length(r) \in 1 .. Size /\ r = [front |-> r.front, rear |-> r.rear, buf |-> r.buf]
      /\ r.front \in Index
  BY <1>1, LengthType, RingFields DEF Reading
<1>3. UNCHANGED front /\ UNCHANGED rear /\ UNCHANGED n /\ UNCHANGED user
  BY DEF ReadStore
<1>4. call' = [op |-> "was-read", count |-> call.count, from |-> r]
  BY <1>1, CallParts DEF ReadStore
<1>5. ring' = [ring EXCEPT !.front = front]
  BY DEF ReadStore
<1>6. n = Delivered(r, call.count) /\ ring' = Pop(r, call.count)
  <2>1. CASE call.op = "read"
    <3>1. n = call.count /\ n < Length(r) /\ front = (r.front + n) % Size /\ ring = r
      BY <1>1, <2>1 DEF ReadStore, Reading
    <3>2. n = Delivered(r, call.count)
      BY <1>1, <1>2, <3>1 DEF Delivered, Smaller
    <3>3. ring' = [r EXCEPT !.front = (r.front + n) % Size]
      BY <1>5, <3>1
    <3>4. CASE n = 0
      <4>1. (r.front + n) % Size = r.front
        BY <1>2, <3>4, RingAssumption DEF Index
      <4>2. ring' = r
        BY <1>2, <3>3, <4>1
      <4> QED BY <3>2, <3>4, <4>2 DEF Pop
    <3>5. CASE n # 0
      BY <1>1, <1>2, <3>1, <3>2, <3>3, <3>5 DEF Pop
    <3> QED BY <3>2, <3>4, <3>5
  <2>2. CASE call.op = "read-store"
    <3>1. n = Length(r) /\ front = NoIndex /\ ring = [r EXCEPT !.rear = NoIndex]
      BY <1>1, <2>2 DEF Reading
    <3>2. n = Delivered(r, call.count)
      BY <1>1, <1>2, <3>1 DEF Delivered, Smaller
    <3>3. ring' = [r EXCEPT !.front = NoIndex, !.rear = NoIndex]
      BY <1>2, <1>5, <3>1
    <3> QED BY <1>2, <3>1, <3>2, <3>3 DEF Pop
  <2> QED BY <1>1, <2>1, <2>2
<1>7. ring' \in Rings
  BY <1>1, <1>6, PopRemoves
<1>8. call' \in Calls
  BY <1>1, <1>4, CallType, CallParts
<1>9. GivenOut'
  BY <1>1, <1>3, <1>4 DEF GivenOut
<1>10. /\ front \in Index \cup {NoIndex} /\ rear \in Index \cup {NoIndex} /\ n \in 0 .. call.count
  BY DEF LoopInv
<1> QED BY <1>1, <1>3, <1>4, <1>6, <1>7, <1>8, <1>9, <1>10 DEF LoopInv, ClosedForms

LEMMA LoopSafe == Spec => []LoopInv
<1>1. ASSUME LoopInv, [Next]_vars PROVE LoopInv'
  <2>1. CASE UNCHANGED vars
    BY <1>1, <2>1 DEF vars, LoopInv, Idle, Writing, Reading, GivenOut, ClosedForms
  <2> QED BY <1>1, <2>1, WriteBeginStep, WriteByteStep, WriteStoreStep,
             ReadBeginStep, ReadByteStep, ReadStoreStep DEF Next
<1> QED BY <1>1, LoopInit, PTL DEF Spec

-------------------------------------------------------------------------------
(***************************************************************************)
(* The variables of the loops keep their types.                            *)
(***************************************************************************)
THEOREM LoopsTyped == Spec => []TypeOK
<1>1. ASSUME LoopInv PROVE TypeOK
  <2>1. ring \in RingType
    <3>1. CASE Idle
      BY <1>1, <3>1 DEF LoopInv, Rings
    <3>2. CASE call.op \in {"write", "write-store"}
      <4> DEFINE r == call.from
                 a == After(r, user, n)
      <4>1. r \in Rings /\ Writing /\ user \in Seq(Byte) /\ n \in Nat /\ Len(user) = call.count /\ n <= call.count
            /\ r.rear \in Index \cup {NoIndex} /\ r.front \in Index \cup {NoIndex} /\ r.buf \in [Index -> Byte]
        BY <1>1, <3>2, CallParts DEF LoopInv, Writing, Rings, RingType
      <4>2. a = [front |-> a.front, rear |-> a.rear, buf |-> a.buf]
        BY <4>1, RingFields DEF After
      <4>3. a.buf \in [Index -> Byte]
        <5>1. \A j \in 1 .. n : user[j] \in Byte
          BY <4>1
        <5> QED BY <4>1, <5>1 DEF After
      <4>4. front = a.front /\ ring = [a EXCEPT !.rear = r.rear]
        BY <4>1 DEF Writing
      <4> HIDE DEF a
      <4>5. ring = [front |-> front, rear |-> r.rear, buf |-> a.buf]
        BY <4>2, <4>4
      <4> QED BY <1>1, <4>1, <4>3, <4>5 DEF LoopInv, RingType
    <3>3. CASE call.op \in {"read", "read-store"}
      BY <1>1, <3>3 DEF LoopInv, Reading, Rings, RingType
    <3> QED BY <1>1, <3>1, <3>2, <3>3, CallParts DEF LoopInv, Idle
  <2>2. n \in 0 .. MaxCount
    BY <1>1, CallParts, LoopsAssumption DEF LoopInv
  <2> QED BY <1>1, <2>1, <2>2 DEF LoopInv, TypeOK
<1> QED BY <1>1, LoopSafe, PTL

(***************************************************************************)
(* The loops compute the closed forms (pipe.c:341-374, 447-490).           *)
(***************************************************************************)
THEOREM LoopsComputeClosedForms == Spec => []ClosedForms
<1>1. LoopInv => ClosedForms
  BY DEF LoopInv
<1> QED BY <1>1, LoopSafe, PTL

(***************************************************************************)
(* pipe_write appends what there is room for (pipe.c:464-490).             *)
(***************************************************************************)
THEOREM WriteLoopAppends == Spec => []WriteAppends
<1>1. ASSUME LoopInv PROVE WriteAppends
  <2>1. SUFFICES ASSUME call.op = "written"
                 PROVE  /\ n = Accepted(call.from, call.count)
                        /\ Bytes(ring) = Bytes(call.from) \o Prefix(user, n)
    BY DEF WriteAppends
  <2> QED BY <1>1, <2>1, PushAppends DEF LoopInv, ClosedForms
<1> QED BY <1>1, LoopSafe, PTL

(***************************************************************************)
(* pipe_read hands out the oldest bytes and keeps the rest                 *)
(* (pipe.c:355-374).                                                       *)
(***************************************************************************)
THEOREM ReadLoopRemoves == Spec => []ReadRemoves
<1>1. ASSUME LoopInv PROVE ReadRemoves
  <2> DEFINE r == call.from
             s == Bytes(r)
             L == Length(r)
  <2>1. SUFFICES ASSUME call.op = "was-read"
                 PROVE  n = Delivered(r, call.count) /\ s = user \o Bytes(ring)
    BY DEF ReadRemoves
  <2>2. /\ r \in Rings /\ call.count \in Nat /\ n = Delivered(r, call.count) /\ n \in Nat
        /\ ring = Pop(r, call.count) /\ user \in Seq(Byte) /\ GivenOut
    BY <1>1, <2>1, CallParts DEF LoopInv, ClosedForms
  <2>3. s \in Seq(Byte) /\ Len(s) = L /\ L \in Nat /\ n <= L /\ Len(user) = n
    BY <2>2, BytesType, LengthType, RingAssumption DEF GivenOut
  <2> DEFINE t == SubSeq(s, n + 1, L)
  <2>4. Bytes(ring) = t
    BY <2>2, PopRemoves
  <2>5. t \in Seq(Byte) /\ Len(t) = L - n /\ \A k \in 1 .. (L - n) : t[k] = s[n + k]
    BY <2>2, <2>3
  <2>6. \A k \in 1 .. n : user[k] = s[k]
    BY <2>2 DEF GivenOut
  <2> HIDE DEF s, t, L
  <2>7. /\ user \o t \in Seq(Byte) /\ Len(user \o t) = Len(user) + Len(t)
        /\ \A k \in 1 .. Len(user) + Len(t) :
             (user \o t)[k] = IF k <= Len(user) THEN user[k] ELSE t[k - Len(user)]
    BY <2>2, <2>5, ConcatProperties
  <2>8. /\ Len(user \o t) = L
        /\ \A k \in 1 .. L : s[k] = (user \o t)[k]
    <3>1. Len(user) + Len(t) = L
      BY <2>2, <2>3, <2>5
    <3>2. ASSUME NEW k \in 1 .. L PROVE s[k] = (user \o t)[k]
      <4>1. CASE k <= n
        BY <2>2, <2>3, <2>6, <2>7, <3>1, <4>1
      <4>2. CASE ~ (k <= n)
        <5>1. k - n \in 1 .. (L - n) /\ n + (k - n) = k
          BY <2>2, <2>3, <4>2
        <5>2. (user \o t)[k] = t[k - n]
          BY <2>3, <2>7, <3>1, <4>2
        <5> QED BY <2>5, <5>1, <5>2
      <4> QED BY <4>1, <4>2
    <3> QED BY <2>7, <3>1, <3>2
  <2>9. s = user \o t
    BY <2>3, <2>7, <2>8, SeqEqual
  <2> QED BY <2>2, <2>4, <2>9
<1> QED BY <1>1, LoopSafe, PTL
===============================================================================
