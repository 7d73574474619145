------------------------------- MODULE RingLoops -------------------------------
(***************************************************************************)
(* The while loops of pipe_write (pipe.c:449-487) and pipe_read            *)
(* (pipe.c:341-371) one iteration at a time, with the local copies of      *)
(* front and rear that the C code keeps and the moments at which it stores *)
(* them back.  ppipe_write has the same loop (ppipe.c:470-513).  A call    *)
(* starts where the checks of the system call have passed.                 *)
(***************************************************************************)
EXTENDS Ring

CONSTANTS MaxCount,     \* bound on the count argument of a call
          Fill          \* what the bytes of a fresh buffer page are

ASSUME LoopsAssumption == MaxCount \in Nat /\ Fill \in Byte

VARIABLES ring,         \* pipe_global, with the buffer it points to
          front, rear,  \* the local copies
          n,            \* bytes_written or bytes_read
          user,         \* the user's buffer: what to write, what was read
          call          \* the call in progress and the ring it started from

vars == <<ring, front, rear, n, user, call>>

UserData == UNION {[1 .. k -> Byte] : k \in 0 .. MaxCount}
Calls == [op : {"write", "write-store"}, count : 0 .. MaxCount, from : RingType]
         \cup [op : {"read", "read-store"}, count : 0 .. MaxCount, from : RingType]
         \cup [op : {"none", "written", "was-read"}, count : 0 .. MaxCount, from : RingType]

TypeOK ==
  /\ ring \in RingType
  /\ front \in Index \cup {NoIndex} /\ rear \in Index \cup {NoIndex}
  /\ n \in 0 .. MaxCount
  /\ user \in Seq(Byte)
  /\ call \in Calls

NewRing == [front |-> NoIndex, rear |-> NoIndex, buf |-> [i \in Index |-> Fill]]

Init ==
  /\ ring = NewRing
  /\ front = NoIndex /\ rear = NoIndex
  /\ n = 0
  /\ user = <<>>
  /\ call = [op |-> "none", count |-> 0, from |-> NewRing]

Idle == call.op \in {"none", "written", "was-read"}

\* The locals are loaded; a full ring ends the write at once.
WriteBegin(data) ==
  /\ Idle
  /\ front' = ring.front /\ rear' = ring.rear
  /\ n' = 0
  /\ user' = data
  /\ call' = [op    |-> IF IsFull(ring) THEN "written" ELSE "write",
              count |-> Len(data), from |-> ring]
  /\ UNCHANGED ring

\* Mutant: the index runs off the page.
UnboundedIndex(i) == i + 1
NextIndex(i) == (i + 1) % Size

\* The first byte of an empty ring sets the front of the pipe; mutant: only the local copy.
LocalFrontOnly(r) == r
FirstByte(r) == [r EXCEPT !.front = 0]

WriteByte ==
  /\ call.op = "write" /\ n < call.count
  /\ LET fresh == front = NoIndex /\ rear = NoIndex
         last  == IF fresh THEN 0 ELSE NextIndex(rear)
         first == IF fresh THEN 0 ELSE front
     IN  /\ front' = first /\ rear' = last
         /\ ring' = [(IF fresh THEN FirstByte(ring) ELSE ring) EXCEPT !.buf[last] = user[n + 1]]
         /\ call' = [call EXCEPT !.op = IF first = NextIndex(last) THEN "write-store" ELSE @]
  /\ n' = n + 1
  /\ UNCHANGED user

WriteStore ==
  /\ call.op = "write-store" \/ (call.op = "write" /\ n >= call.count)
  /\ ring' = [ring EXCEPT !.rear = rear]
  /\ call' = [call EXCEPT !.op = "written"]
  /\ UNCHANGED <<front, rear, n, user>>

\* An empty ring ends the read at once.
ReadBegin(count) ==
  /\ Idle
  /\ front' = ring.front /\ rear' = ring.rear
  /\ n' = 0
  /\ user' = <<>>
  /\ call' = [op    |-> IF IsEmpty(ring) THEN "was-read" ELSE "read",
              count |-> count, from |-> ring]
  /\ UNCHANGED ring

\* Mutant: a read stops one byte early.
OneByteLeft == NextIndex(front) = rear
LastByte == front = rear

ReadByte ==
  /\ call.op = "read" /\ n < call.count
  /\ user' = Append(user, ring.buf[front])
  /\ n' = n + 1
  /\ IF LastByte
       THEN /\ front' = NoIndex /\ rear' = NoIndex
            /\ ring' = [ring EXCEPT !.rear = NoIndex]
            /\ call' = [call EXCEPT !.op = "read-store"]
       ELSE /\ front' = NextIndex(front)
            /\ UNCHANGED <<rear, ring, call>>

ReadStore ==
  /\ call.op = "read-store" \/ (call.op = "read" /\ n >= call.count)
  /\ ring' = [ring EXCEPT !.front = front]
  /\ call' = [call EXCEPT !.op = "was-read"]
  /\ UNCHANGED <<front, rear, n, user>>

Next ==
  \/ \E data \in UserData : WriteBegin(data)
  \/ WriteByte \/ WriteStore
  \/ \E count \in 0 .. MaxCount : ReadBegin(count)
  \/ ReadByte \/ ReadStore

Spec == Init /\ [][Next]_vars

(***************************************************************************)
(* When pipe_write returns, the ring holds what it held, followed by as    *)
(* much of the user's data as there was room for, wherever the two indices *)
(* stood and however the positions wrapped around the page; the value      *)
(* returned is the number of bytes stored (pipe.c:464-490).                *)
(***************************************************************************)
WriteAppends ==
  call.op = "written" =>
    /\ n = Accepted(call.from, call.count)
    /\ Bytes(ring) = Bytes(call.from) \o Prefix(user, n)

(***************************************************************************)
(* When pipe_read returns, the user has the oldest bytes in order and the  *)
(* ring holds the rest (pipe.c:355-374).                                   *)
(***************************************************************************)
ReadRemoves ==
  call.op = "was-read" =>
    /\ n = Delivered(call.from, call.count)
    /\ Bytes(call.from) = user \o Bytes(ring)

\* The closed forms of Ring, which the larger models use, are what the loops compute.
ClosedForms ==
  /\ call.op = "written"  => ring = Push(call.from, user)
  /\ call.op = "was-read" => ring = Pop(call.from, call.count)
===============================================================================
