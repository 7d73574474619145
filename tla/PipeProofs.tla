------------------------------ MODULE PipeProofs ------------------------------
(***************************************************************************)
(* The slot table, the reference counts and the lifetime of a pipe, for    *)
(* any number of processes, pipes, descriptors and bytes, of programs that *)
(* give a pipe end no second descriptor in the same process (PlainSpec);   *)
(* and, from these, that such programs see the pipes of PipeSpec.          *)
(***************************************************************************)
EXTENDS PipeClean, RingProofs, FiniteSetTheorems, WellFoundedInduction

(***************************************************************************)
(* The inductive invariant.  SlotsMatchDescriptors says what the slots of  *)
(* a pipe mean; to preserve it, the searches of the code need unique slots *)
(* (Describes), a close must find the only descriptor of its end        *)
(* (OneDescriptor), and fork must find an empty child and the parent's     *)
(* files unchanged (UnusedHasNoFiles, KernelInv).                          *)
(***************************************************************************)
EndsOf(p, q) == {m \in Mode : Holds(p, End(q, m))}

UnusedHasNoFiles ==
  \A p \in Proc : state[p] = "unused" => \A fd \in Fd : files[p][fd] = NoFile

OneDescriptor ==
  \A p \in Proc : \A fd1, fd2 \in Fd :
    files[p][fd1] # NoFile /\ files[p][fd1] = files[p][fd2] => fd1 = fd2

KernelInv ==
  /\ kernel.ret = 0
  /\ kernel.op = "fork" => /\ kernel.child # kernel.proc
                           /\ state[kernel.child] = "ready" /\ state[kernel.proc] = "ready"
                           /\ files[kernel.child] = files[kernel.proc]
  /\ kernel.op = "exit" => /\ state[kernel.proc] = "ready"
                           /\ \A fd \in Fd : fd < kernel.fd => files[kernel.proc][fd] = NoFile

Ends(q)  == [p \in Proc |-> EndsOf(p, q)]
Valid(t) == {i \in Slot : t[i].valid}

\* The table t of slots describes the ends e[p] that each process p holds.
Describes(t, e) ==
  /\ \A i \in Slot \ Valid(t) : t[i].open = {}
  /\ \A i \in Valid(t) : t[i].pid \in Proc /\ t[i].open = e[t[i].pid] /\ t[i].open # {}
  /\ \A i, j \in Valid(t) : t[i].pid = t[j].pid => i = j
  /\ \A p \in Proc : e[p] # {} => \E i \in Valid(t) : t[i].pid = p

SlotsInv == \A q \in live : Describes(slot[q], Ends(q)) /\ Valid(slot[q]) # {}

FilesOfLivePipes ==
  \A p \in Proc, fd \in Fd : files[p][fd] # NoFile => files[p][fd].pipe \in live

RingsInv == \A q \in Pipe : ring[q] \in Rings

IInv ==
  /\ TypeOK
  /\ RingsInv
  /\ UnusedHasNoFiles
  /\ OneDescriptor
  /\ KernelInv
  /\ SlotsInv
  /\ FilesOfLivePipes
  /\ CountsMatchDescriptors

(***************************************************************************)
(* The searches of the kernel take the least or the greatest element of a  *)
(* nonempty set.                                                           *)
(***************************************************************************)
LEMMA LeastNat ==
  ASSUME NEW S \in SUBSET Nat, S # {}
  PROVE  \E x \in S : \A y \in S : x <= y
<1> DEFINE Less == {ss \in Nat \X Nat : ss[1] < ss[2]}
<1>1. Less = OpToRel(<, Nat)
  BY Zenon DEF OpToRel, Less
<1>2. IsWellFoundedOn(Less, Nat)
  BY <1>1, NatLessThanWellFounded, Zenon
<1>3. ASSUME NEW x \in Nat, NEW y \in Nat, y < x PROVE <<y, x>> \in Less
  <2>1. <<y, x>> \in Nat \X Nat /\ <<y, x>>[1] = y /\ <<y, x>>[2] = x
    OBVIOUS
  <2> QED BY <1>3, <2>1, Zenon DEF Less
<1> HIDE DEF Less
<1>4. PICK x \in S : \A y \in S : ~ (<<y, x>> \in Less)
  BY <1>2, WFMin
<1>5. ASSUME NEW y \in S PROVE x <= y
  <2>1. ~ (y < x)
    BY <1>3, <1>4
  <2> QED BY <2>1
<1> QED BY <1>5

\* Min and Max return an element of the set they search.
LEMMA MinMax ==
  /\ \A S \in SUBSET Nat : S # {} => Min(S) \in S
  /\ \A S \in SUBSET Slot : S # {} => Max(S) \in S
<1>1. ASSUME NEW S \in SUBSET Nat, S # {} PROVE Min(S) \in S
  <2>1. PICK x \in S : \A y \in S : x <= y
    BY <1>1, LeastNat
  <2> QED BY <2>1 DEF Min
<1>2. ASSUME NEW S \in SUBSET Slot, S # {} PROVE Max(S) \in S
  <2> DEFINE T == {MaxPipeProc - x : x \in S}
  <2>1. \A x \in S : x \in Nat /\ MaxPipeProc - x \in Nat /\ MaxPipeProc \in Nat
    BY PipeAssumption DEF Slot
  <2>2. T \in SUBSET Nat /\ T # {}
    BY <1>2, <2>1
  <2>3. PICK t \in T : \A u \in T : t <= u
    BY <2>2, LeastNat
  <2>4. PICK x \in S : t = MaxPipeProc - x
    BY <2>3
  <2>5. ASSUME NEW y \in S PROVE x >= y
    <3>1. MaxPipeProc - y \in T
      OBVIOUS
    <3>2. MaxPipeProc - x <= MaxPipeProc - y
      BY <2>3, <2>4, <3>1
    <3> QED BY <2>1, <3>2
  <2> QED BY <2>5 DEF Max
<1> QED BY <1>1, <1>2

(***************************************************************************)
(* What closing a descriptor does to the descriptors that count.           *)
(***************************************************************************)
LEMMA CloseHolds ==
  ASSUME TypeOK, OneDescriptor,
         NEW p \in Proc, NEW fd \in Fd, files[p][fd] # NoFile,
         kernel.op # "fork", kernel'.op # "fork",
         files' = [files EXCEPT ![p][fd] = NoFile]
  PROVE  /\ files' \in [Proc -> [Fd -> File \cup {NoFile}]]
         /\ OneDescriptor'
         /\ \A x \in Proc, f \in File :
              Holds(x, f)' <=> Holds(x, f) /\ ~ (x = p /\ f = files[p][fd])
         /\ \A x \in Proc, g \in Fd : files'[x][g] # NoFile => files'[x][g] = files[x][g]
<1>1. files \in [Proc -> [Fd -> File \cup {NoFile}]]
  BY DEF TypeOK
<1>2. \A x \in Proc, g \in Fd :
        files'[x][g] = IF x = p /\ g = fd THEN NoFile ELSE files[x][g]
  BY <1>1
<1>3. files' \in [Proc -> [Fd -> File \cup {NoFile}]]
  BY <1>1
<1>4. OneDescriptor'
  BY <1>2 DEF OneDescriptor
<1>5. ASSUME NEW x \in Proc, NEW f \in File
      PROVE  Holds(x, f)' <=> Holds(x, f) /\ ~ (x = p /\ f = files[p][fd])
  <2>1. Holds(x, f) <=> \E g \in Fd : files[x][g] = f
    BY DEF Holds, Counted
  <2>2. Holds(x, f)' <=> \E g \in Fd : files'[x][g] = f
    BY DEF Holds, Counted
  <2>3. f # NoFile
    BY FilesAssumption
  <2> QED BY <1>2, <2>1, <2>2, <2>3 DEF OneDescriptor
<1> QED BY <1>2, <1>3, <1>4, <1>5

\* There are finitely many descriptors, so those of a file can be counted.
LEMMA DescriptorsFinite == IsFiniteSet(Proc \X Fd)
<1>1. IsFiniteSet(Proc)
  BY FilesAssumption
<1>2. 0 \in Int /\ MaxOpenFiles - 1 \in Int
  BY FilesAssumption
<1>3. IsFiniteSet(Fd)
  BY <1>2, FS_Interval DEF Fd
<1> QED BY <1>1, <1>3, FS_Product

\* A slot table has MaxPipeProc slots, and every set of slots is finite.
LEMMA SlotsFinite ==
  /\ IsFiniteSet(Slot) /\ Cardinality(Slot) = MaxPipeProc
  /\ \A S \in SUBSET Slot : IsFiniteSet(S)
<1>1. 0 \in Int /\ MaxPipeProc - 1 \in Int /\ ~ (0 > MaxPipeProc - 1)
  BY PipeAssumption
<1>2. IsFiniteSet(Slot) /\ Cardinality(Slot) = MaxPipeProc - 1 - 0 + 1
  BY <1>1, FS_Interval DEF Slot
<1> QED BY <1>2, FS_Subset, PipeAssumption

\* Closing a descriptor takes one from the count of its file (file.c:104-118).
LEMMA CloseCounts ==
  ASSUME TypeOK, CountsMatchDescriptors,
         NEW p \in Proc, NEW fd \in Fd, files[p][fd] # NoFile,
         kernel.op # "fork", kernel'.op # "fork",
         files' = [files EXCEPT ![p][fd] = NoFile],
         refCount' = [refCount EXCEPT ![files[p][fd]] = @ - 1]
  PROVE  refCount' \in [File -> Nat] /\ CountsMatchDescriptors'
<1> DEFINE h == files[p][fd]
<1>1. files \in [Proc -> [Fd -> File \cup {NoFile}]] /\ refCount \in [File -> Nat] /\ h \in File
  BY DEF TypeOK
<1>2. \A x \in Proc, g \in Fd :
        files'[x][g] = IF x = p /\ g = fd THEN NoFile ELSE files[x][g]
  BY <1>1
<1>3. IsFiniteSet(Proc \X Fd)
  BY DescriptorsFinite
<1>4. ASSUME NEW f \in File
      PROVE  /\ IsFiniteSet(Refs(f))
             /\ Refs(f)' = IF f = h THEN Refs(f) \ {<<p, fd>>} ELSE Refs(f)
             /\ f = h => <<p, fd>> \in Refs(f)
  <2>1. Refs(f) = {pd \in Proc \X Fd : files[pd[1]][pd[2]] = f}
    BY DEF Refs, Counted
  <2>2. Refs(f)' = {pd \in Proc \X Fd : files'[pd[1]][pd[2]] = f}
    BY DEF Refs, Counted
  <2>3. f # NoFile
    BY FilesAssumption
  <2>4. IsFiniteSet(Refs(f))
    BY <1>3, <2>1, FS_Subset
  <2> QED BY <1>2, <2>1, <2>2, <2>3, <2>4
<1>5. ASSUME NEW f \in File
      PROVE  refCount'[f] = Cardinality(Refs(f)') /\ refCount'[f] \in Nat
  <2>1. refCount[f] = Cardinality(Refs(f)) /\ refCount[f] \in Nat
    BY <1>1 DEF CountsMatchDescriptors
  <2>2. CASE f = h
    <3>1. Cardinality(Refs(f)') = Cardinality(Refs(f)) - 1
      BY <1>4, <2>2, FS_RemoveElement
    <3>2. Cardinality(Refs(f)') \in Nat
      BY <1>4, FS_RemoveElement, FS_CardinalityType
    <3>3. refCount'[f] = refCount[f] - 1
      BY <1>1, <2>2
    <3> QED BY <2>1, <3>1, <3>2, <3>3
  <2>3. CASE f # h
    <3>1. refCount'[f] = refCount[f]
      BY <1>1, <2>3
    <3> QED BY <1>4, <2>1, <2>3, <3>1
  <2> QED BY <2>2, <2>3
<1>6. refCount' \in [File -> Nat]
  <2>1. refCount' = [f \in File |-> refCount'[f]]
    BY <1>1
  <2> QED BY <1>5, <2>1
<1> QED BY <1>5, <1>6 DEF CountsMatchDescriptors

\* The file object of an end, and the ends a process holds.
LEMMA EndFacts ==
  /\ \A f \in File : f.pipe \in Pipe /\ f.mode \in Mode /\ f = End(f.pipe, f.mode)
  /\ \A q \in Pipe, m \in Mode : /\ End(q, m) \in File /\ End(q, m) # NoFile
                                 /\ End(q, m).pipe = q /\ End(q, m).mode = m
  /\ \A x \in Proc, q \in Pipe, m \in Mode : m \in EndsOf(x, q) <=> Holds(x, End(q, m))
BY FilesAssumption DEF File, End, EndsOf

(***************************************************************************)
(* One slot of a table changes: the slot of process p, or a free one when  *)
(* p has none.  Create, fork and close all do this.                        *)
(***************************************************************************)
LEMMA DescribesSet ==
  ASSUME NEW t, NEW e, Describes(t, e),
         NEW p \in Proc, NEW i \in Slot, NEW o,
         \/ i \in Valid(t) /\ t[i].pid = p
         \/ i \notin Valid(t) /\ e[p] = {},
         NEW t2, \A j \in Slot : j # i => t2[j] = t[j],
         i \in Valid(t2) <=> o # {}, t2[i].pid = p, t2[i].open = o,
         NEW e2, \A x \in Proc : e2[x] = IF x = p THEN o ELSE e[x]
  PROVE  /\ Describes(t2, e2)
         /\ Valid(t2) = IF o = {} THEN Valid(t) \ {i} ELSE Valid(t) \cup {i}
<1>1. \A j \in Valid(t) : j # i => t[j].pid # p
  BY DEF Describes, Valid
<1>2. \A j \in Slot : j # i => (j \in Valid(t2) <=> j \in Valid(t))
  BY DEF Valid
<1>3. Valid(t2) \subseteq Slot /\ Valid(t) \subseteq Slot
  BY DEF Valid
<1>4. \A j \in Slot \ Valid(t2) : t2[j].open = {}
  BY <1>2 DEF Describes
<1>5. ASSUME NEW j \in Valid(t2)
      PROVE  t2[j].pid \in Proc /\ t2[j].open = e2[t2[j].pid] /\ t2[j].open # {}
  <2>1. CASE j = i
    BY <2>1
  <2>2. CASE j # i
    <3>1. j \in Valid(t) /\ t2[j] = t[j] /\ t[j].pid # p
      BY <1>1, <1>2, <1>3, <2>2
    <3> QED BY <3>1 DEF Describes
  <2> QED BY <2>1, <2>2
<1>6. ASSUME NEW j \in Valid(t2), NEW k \in Valid(t2), t2[j].pid = t2[k].pid
      PROVE  j = k
  <2>1. \A l \in Valid(t2) : l # i => l \in Valid(t) /\ t2[l] = t[l] /\ t[l].pid # p
    BY <1>1, <1>2, <1>3
  <2> QED BY <1>6, <2>1 DEF Describes
<1>7. ASSUME NEW x \in Proc, e2[x] # {} PROVE \E j \in Valid(t2) : t2[j].pid = x
  <2>1. CASE x = p
    BY <1>7, <2>1
  <2>2. CASE x # p
    <3>1. PICK j \in Valid(t) : t[j].pid = x
      BY <1>7, <2>2 DEF Describes
    <3>2. j # i
      BY <1>7, <2>2, <3>1
    <3> QED BY <1>2, <1>3, <3>1, <3>2
  <2> QED BY <2>1, <2>2
<1>8. Valid(t2) = IF o = {} THEN Valid(t) \ {i} ELSE Valid(t) \cup {i}
  BY <1>2, <1>3
<1>9. Describes(t2, e2)
  BY <1>4, <1>5, <1>6, <1>7 DEF Describes
<1> QED BY <1>8, <1>9

\* A step writes slot i of pipe q for process p, which from then on has the ends o.
WritesSlot(q, i, p, o) ==
  slot' = [slot EXCEPT ![q][i] = [valid |-> o # {}, pid |-> p, open |-> o]]
GivesEnds(q, p, o) ==
  \A x \in Proc, y \in Pipe : EndsOf(x, y)' = IF x = p /\ y = q THEN o ELSE EndsOf(x, y)

\* The same for a step that gives process p the ends o of pipe q0.
LEMMA SlotChange ==
  ASSUME TypeOK, SlotsInv,
         NEW q0 \in live, NEW p \in Proc, NEW i \in Slot, NEW o \in SUBSET Mode,
         \/ i \in Valid(slot[q0]) /\ slot[q0][i].pid = p
         \/ i \notin Valid(slot[q0]) /\ EndsOf(p, q0) = {},
         WritesSlot(q0, i, p, o), GivesEnds(q0, p, o)
  PROVE  /\ slot' \in [Pipe -> SlotTable]
         /\ \A q \in live : Describes(slot'[q], Ends(q)')
         /\ \A q \in live : q # q0 => slot'[q] = slot[q]
         /\ Valid(slot'[q0]) = IF o = {} THEN Valid(slot[q0]) \ {i} ELSE Valid(slot[q0]) \cup {i}
<1>1. slot \in [Pipe -> SlotTable] /\ live \in SUBSET Pipe /\ q0 \in Pipe
  BY DEF TypeOK
<1> DEFINE new == [valid |-> o # {}, pid |-> p, open |-> o]
           t  == slot[q0]
           t2 == slot'[q0]
           e  == Ends(q0)
           e2 == Ends(q0)'
<1>2. new \in [valid : BOOLEAN, pid : Nat, open : SUBSET Mode]
  BY FilesAssumption
<1>3. new.valid = (o # {}) /\ new.pid = p /\ new.open = o
  OBVIOUS
<1>4. slot' = [slot EXCEPT ![q0][i] = new]
  BY DEF WritesSlot
<1> HIDE DEF new
<1>5. slot' \in [Pipe -> SlotTable]
  BY <1>1, <1>2, <1>4 DEF SlotTable
<1>6. \A q \in Pipe : q # q0 => slot'[q] = slot[q]
  BY <1>1, <1>4
<1>7. t2[i] = new /\ \A j \in Slot : j # i => t2[j] = t[j]
  BY <1>1, <1>4 DEF SlotTable
<1>8. t2[i].pid = p /\ t2[i].open = o /\ (i \in Valid(t2) <=> o # {})
  BY <1>3, <1>7 DEF Valid
<1>9. \A x \in Proc : e[x] = EndsOf(x, q0) /\ e2[x] = EndsOf(x, q0)'
  BY DEF Ends
<1>10. \A x \in Proc : e2[x] = IF x = p THEN o ELSE e[x]
  BY <1>1, <1>9 DEF GivesEnds
<1>11. Describes(t, e)
  BY DEF SlotsInv
<1>12. (i \in Valid(t) /\ t[i].pid = p) \/ (i \notin Valid(t) /\ e[p] = {})
  BY <1>9
<1> HIDE DEF t, t2, e, e2
<1>13. /\ Describes(t2, e2)
       /\ Valid(t2) = IF o = {} THEN Valid(t) \ {i} ELSE Valid(t) \cup {i}
  BY <1>7, <1>8, <1>10, <1>11, <1>12, DescribesSet
<1>14. \A q \in Pipe : q # q0 => Ends(q)' = Ends(q)
  BY DEF Ends, GivesEnds
<1>15. \A q \in live : Describes(slot'[q], Ends(q)')
  BY <1>1, <1>6, <1>13, <1>14 DEF SlotsInv, t2, e2
<1> QED BY <1>1, <1>5, <1>6, <1>13, <1>15 DEF t, t2

(***************************************************************************)
(* What pipe_close does to the slots: the closing process has exactly one, *)
(* so the search finds it, and the pages are freed with the last one.      *)
(***************************************************************************)
LEMMA CloseSlot ==
  ASSUME TypeOK, SlotsInv, FilesOfLivePipes,
         NEW p \in Proc, NEW f \in File, Holds(p, f), PipeClose(p, f),
         \A x \in Proc, g \in File : Holds(x, g)' <=> Holds(x, g) /\ ~ (x = p /\ g = f)
  PROVE  /\ slot' \in [Pipe -> SlotTable]
         /\ live' \in SUBSET Pipe
         /\ SlotsInv'
         /\ \A x \in Proc, g \in File : Holds(x, g)' => g.pipe \in live'
<1> DEFINE q0 == f.pipe
           m0 == f.mode
<1>1. q0 \in Pipe /\ m0 \in Mode /\ f = End(q0, m0)
  BY EndFacts
<1>2. \A x \in Proc, g \in File : Holds(x, g) => g.pipe \in live
  BY FilesAssumption DEF Holds, FilesOfLivePipes
<1>3. q0 \in live /\ Describes(slot[q0], Ends(q0)) /\ live \in SUBSET Pipe
  BY <1>2 DEF SlotsInv, TypeOK
<1>4. m0 \in EndsOf(p, q0) /\ Ends(q0)[p] = EndsOf(p, q0)
  BY <1>1, EndFacts DEF Ends
<1>5. PICK i0 \in Valid(slot[q0]) : slot[q0][i0].pid = p
  BY <1>3, <1>4 DEF Describes
<1>6. /\ i0 \in Slot /\ i0 \in Int /\ slot[q0][i0].valid
      /\ slot[q0][i0].open = EndsOf(p, q0)
  BY <1>3, <1>4, <1>5, PipeAssumption DEF Valid, Slot, Describes
<1>7. CloseSlots(q0, p) = {i0}
  <2>1. SlotsOf(q0, p) = {i0}
    BY <1>3, <1>5 DEF SlotsOf, ValidSlots, Valid, Describes
  <2>2. Max({i0}) = i0
    BY <1>6 DEF Max
  <2> QED BY <2>1, <2>2 DEF CloseSlots
<1> DEFINE open == EndsOf(p, q0) \ {m0}
           num == Cardinality(Valid(slot[q0])) - (IF open = {} THEN 1 ELSE 0)
<1>8. /\ WritesSlot(q0, i0, p, open)
      /\ live' = IF num = 0 THEN live \ {q0} ELSE live
  BY <1>5, <1>6, <1>7 DEF PipeClose, EndsLeft, ProcessesLeft, ValidSlots, Valid, WritesSlot
<1>9. GivesEnds(q0, p, open)
  <2>1. ASSUME NEW x \in Proc, NEW q \in Pipe, NEW m \in Mode
        PROVE  Holds(x, End(q, m))' <=> Holds(x, End(q, m)) /\ ~ (x = p /\ q = q0 /\ m = m0)
    BY EndFacts, <1>1
  <2>2. \A x \in Proc, q \in Pipe : EndsOf(x, q)' = {m \in Mode : Holds(x, End(q, m))'}
    BY DEF EndsOf
  <2> QED BY <2>1, <2>2 DEF EndsOf, GivesEnds
<1>10. open \in SUBSET Mode
  BY DEF EndsOf
<1>11. /\ slot' \in [Pipe -> SlotTable]
       /\ \A q \in live : Describes(slot'[q], Ends(q)')
       /\ \A q \in live : q # q0 => slot'[q] = slot[q]
       /\ Valid(slot'[q0]) = IF open = {} THEN Valid(slot[q0]) \ {i0} ELSE Valid(slot[q0])
  <2>1. Valid(slot[q0]) \cup {i0} = Valid(slot[q0])
    BY <1>5
  <2> HIDE DEF open, q0
  <2>2. q0 \in live /\ WritesSlot(q0, i0, p, open)
    BY <1>3, <1>8
  <2> QED BY <1>5, <1>6, <1>9, <1>10, <2>1, <2>2, SlotChange
<1>12. num = 0 <=> (open = {} /\ Valid(slot[q0]) = {i0})
  <2> DEFINE V == Valid(slot[q0])
  <2>1. i0 \in V /\ V \in SUBSET Slot /\ IsFiniteSet(V)
    BY <1>5, SlotsFinite DEF Valid
  <2> HIDE DEF V
  <2>2. Cardinality(V) \in Nat /\ Cardinality(V) # 0
    BY <2>1, FS_EmptySet, FS_CardinalityType
  <2>3. Cardinality(V) = 1 <=> V = {i0}
    BY <2>1, FS_Singleton
  <2> HIDE DEF open
  <2> QED BY <2>2, <2>3 DEF V
<1>13. num = 0 <=> Valid(slot'[q0]) = {}
  <2> HIDE DEF open, num
  <2> QED BY <1>5, <1>11, <1>12
<1> HIDE DEF num, open
<1>14. SlotsInv'
  <2>1. ASSUME NEW q \in live' PROVE Describes(slot'[q], Ends(q)') /\ Valid(slot'[q]) # {}
    <3>1. q \in live
      BY <1>8
    <3>2. CASE q # q0
      BY <1>11, <3>1, <3>2 DEF SlotsInv
    <3>3. CASE q = q0
      BY <1>8, <1>11, <1>13, <3>1, <3>3
    <3> QED BY <3>2, <3>3
  <2> QED BY <2>1 DEF SlotsInv
<1>15. ASSUME NEW x \in Proc, NEW g \in File, Holds(x, g)' PROVE g.pipe \in live'
  <2>1. g.pipe \in live
    BY <1>2, <1>15
  <2>2. CASE g.pipe # q0
    BY <1>8, <2>1, <2>2
  <2>3. CASE g.pipe = q0
    <3>1. Ends(q0)'[x] # {}
      BY <1>15, <2>3, EndFacts DEF Ends, EndsOf
    <3>2. Valid(slot'[q0]) # {}
      BY <1>3, <1>11, <3>1 DEF Describes
    <3> QED BY <1>8, <1>13, <2>1, <2>3, <3>2
  <2> QED BY <2>2, <2>3
<1> QED BY <1>3, <1>8, <1>11, <1>14, <1>15

(***************************************************************************)
(* The ends, the reference counts and the slots when a step changes no     *)
(* descriptor that counts.                                                 *)
(***************************************************************************)
LEMMA SlotsFrame ==
  ASSUME TypeOK, SlotsInv, slot' = slot, live' = live,
         \A x \in Proc, f \in File : Holds(x, f)' <=> Holds(x, f)
  PROVE  SlotsInv'
<1>1. \A q \in Pipe : Ends(q)' = Ends(q)
  BY EndFacts DEF Ends, EndsOf
<1> QED BY <1>1 DEF SlotsInv, TypeOK

\* The same for the reference counts.
LEMMA CountsFrame ==
  ASSUME CountsMatchDescriptors, refCount' = refCount,
         \A f \in File : Refs(f)' = Refs(f)
  PROVE  CountsMatchDescriptors'
BY DEF CountsMatchDescriptors

\* Descriptors count alike before and after a step that starts and ends outside fork.
LEMMA NoForkFrame ==
  ASSUME files' = files, kernel.op # "fork", kernel'.op # "fork"
  PROVE  /\ \A x \in Proc, f \in File : Holds(x, f)' <=> Holds(x, f)
         /\ \A f \in File : Refs(f)' = Refs(f)
BY DEF Holds, Refs, Counted

\* The invariant holds at boot: one process, no open file, no pipe.
LEMMA InitInv == Init => IInv
<1> SUFFICES ASSUME Init PROVE IInv
  OBVIOUS
<1> USE DEF Init, FilesInit, UserMode
<1>1. TypeOK
  <2>1. state \in [Proc -> {"unused", "ready"}]
    OBVIOUS
  <2>2. files \in [Proc -> [Fd -> File \cup {NoFile}]]
    OBVIOUS
  <2>3. refCount \in [File -> Nat] /\ live \in SUBSET Pipe
    OBVIOUS
  <2>4. kernel \in KernelLoops
    BY FilesAssumption DEF KernelLoops
  <2>5. ret \in [code : Int, bytes : Seq(Byte)]
    OBVIOUS
  <2>6. slot \in [Pipe -> SlotTable]
    BY DEF SlotTable, NoTable
  <2>7. ring \in [Pipe -> RingType]
    BY PipeAssumption DEF RingType, NewRing
  <2> QED BY <2>1, <2>2, <2>3, <2>4, <2>5, <2>6, <2>7 DEF TypeOK
<1>2. RingsInv
  <2>1. NewRing \in Rings
    BY PipeAssumption DEF Rings, WellFormed, RingType, NewRing
  <2> QED BY <2>1 DEF RingsInv
<1>3. UnusedHasNoFiles /\ OneDescriptor /\ KernelInv /\ SlotsInv /\ FilesOfLivePipes
  BY DEF UnusedHasNoFiles, OneDescriptor, KernelInv, SlotsInv, FilesOfLivePipes
<1>4. CountsMatchDescriptors
  <2>1. \A f \in File : Refs(f) = {}
    BY FilesAssumption DEF Refs
  <2> QED BY <2>1, FS_EmptySet DEF CountsMatchDescriptors
<1> QED BY <1>1, <1>2, <1>3, <1>4 DEF IInv

(***************************************************************************)
(* Read and write change a ring and nothing else.                          *)
(***************************************************************************)
LEMMA RingStep ==
  ASSUME IInv, UNCHANGED <<state, files, refCount, kernel, slot, live>>,
         kernel.op = "user",
         ring' \in [Pipe -> Rings], ret' \in [code : Int, bytes : Seq(Byte)]
  PROVE  IInv'
<1>1. TypeOK'
  <2>1. ring' \in [Pipe -> RingType]
    BY DEF Rings
  <2> QED BY <2>1 DEF IInv, TypeOK
<1>2. RingsInv'
  BY DEF RingsInv
<1>3. UnusedHasNoFiles' /\ OneDescriptor' /\ KernelInv' /\ FilesOfLivePipes'
  BY DEF IInv, UnusedHasNoFiles, OneDescriptor, KernelInv, FilesOfLivePipes
<1>4. SlotsInv' /\ CountsMatchDescriptors'
  BY NoForkFrame, SlotsFrame, CountsFrame DEF IInv
<1> QED BY <1>1, <1>2, <1>3, <1>4 DEF IInv

\* The codes and bytes a system call returns.
LEMMA ReturnsType ==
  ASSUME NEW c \in Int, Returns(c)
  PROVE  ret' \in [code : Int, bytes : Seq(Byte)]
BY DEF Returns

\* Read, with each of its refusals, preserves the invariant (pipe.c:274-375).
LEMMA ReadStep ==
  ASSUME IInv, NEW p \in Proc, NEW fd \in Fd, NEW count \in 0 .. MaxCount, NEW okBuf \in BOOLEAN,
         Read(p, fd, count, okBuf)
  PROVE  IInv'
<1>1. ring \in [Pipe -> Rings] /\ count \in Nat /\ kernel.op = "user"
  BY PipeAssumption DEF IInv, TypeOK, RingsInv, Read, Calls
<1>2. CASE ring' = ring /\ \E c \in {-EINVAL, -EACCES, -EOTHERS, -EBADMEM} : Returns(c)
  BY <1>1, <1>2, RingStep, ReturnsType DEF EINVAL, EACCES, EOTHERS, EBADMEM, Read
<1>3. ASSUME NEW q \in Pipe,
             ret' = [code |-> Delivered(ring[q], count), bytes |-> Prefix(Bytes(ring[q]), count)],
             ring' = [ring EXCEPT ![q] = Pop(@, count)]
      PROVE  IInv'
  <2>1. ring[q] \in Rings /\ Pop(ring[q], count) \in Rings
    BY <1>1, PopRemoves
  <2>2. ring' \in [Pipe -> Rings]
    BY <1>1, <1>3, <2>1
  <2>3. Delivered(ring[q], count) \in Int /\ Bytes(ring[q]) \in Seq(Byte)
    BY <1>1, <2>1, AcceptedType, BytesType, LengthType, RingAssumption
  <2>4. Prefix(Bytes(ring[q]), count) \in Seq(Byte)
    <3> DEFINE s == Bytes(ring[q])
    <3> HIDE DEF s
    <3> QED BY <1>1, <2>3, PrefixType DEF s
  <2> QED BY <1>1, <1>3, <2>2, <2>3, <2>4, RingStep DEF Read
<1>4. \A f \in File : f.pipe \in Pipe
  BY EndFacts
<1>5. files[p][fd] \in File \cup {NoFile}
  BY DEF IInv, TypeOK
<1> QED BY <1>2, <1>3, <1>4, <1>5 DEF Read, PipeRead

\* Write, with each of its refusals, preserves the invariant (pipe.c:378-491).
LEMMA WriteStep ==
  ASSUME IInv, NEW p \in Proc, NEW fd \in Fd, NEW data \in UserData, NEW okBuf \in BOOLEAN,
         Write(p, fd, data, okBuf)
  PROVE  IInv'
<1>1. ring \in [Pipe -> Rings] /\ data \in Seq(Byte) /\ kernel.op = "user"
  <2>1. PICK n \in 0 .. MaxCount : data \in [1 .. n -> Byte]
    BY DEF UserData
  <2>2. n \in Nat
    BY PipeAssumption
  <2>3. data \in Seq(Byte)
    BY <2>1, <2>2
  <2> QED BY <2>3 DEF IInv, TypeOK, RingsInv, Write, Calls
<1>2. CASE ring' = ring /\ \E c \in {-EINVAL, -EACCES, -EOTHERS, -EBADMEM} : Returns(c)
  BY <1>1, <1>2, RingStep, ReturnsType DEF EINVAL, EACCES, EOTHERS, EBADMEM, Write
<1>3. ASSUME NEW q \in Pipe, Returns(Accepted(ring[q], Len(data))),
             ring' = [ring EXCEPT ![q] = Push(@, data)]
      PROVE  IInv'
  <2>1. ring[q] \in Rings /\ Push(ring[q], data) \in Rings
    BY <1>1, PushAppends
  <2>2. ring' \in [Pipe -> Rings]
    BY <1>1, <1>3, <2>1
  <2>3. Accepted(ring[q], Len(data)) \in Int
    BY <1>1, <2>1, AcceptedType, LengthType, RingAssumption
  <2> QED BY <1>1, <1>3, <2>2, <2>3, RingStep, ReturnsType DEF Write
<1>4. \A f \in File : f.pipe \in Pipe
  BY EndFacts
<1>5. files[p][fd] \in File \cup {NoFile}
  BY DEF IInv, TypeOK
<1> QED BY <1>2, <1>3, <1>4, <1>5 DEF Write, PipeWrite

(***************************************************************************)
(* close, and a turn of exit's loop, take a descriptor away.               *)
(***************************************************************************)
LEMMA CloseDescriptor ==
  ASSUME IInv, NEW p \in Proc, NEW fd \in Fd, files[p][fd] # NoFile,
         kernel.op # "fork", kernel'.op # "fork",
         files' = [files EXCEPT ![p][fd] = NoFile],
         refCount' = [refCount EXCEPT ![files[p][fd]] = @ - 1],
         PipeClose(p, files[p][fd]),
         state' = state, ring' = ring,
         kernel' \in KernelLoops, ret' \in [code : Int, bytes : Seq(Byte)]
  PROVE  /\ TypeOK' /\ RingsInv' /\ UnusedHasNoFiles' /\ OneDescriptor'
         /\ SlotsInv' /\ FilesOfLivePipes' /\ CountsMatchDescriptors'
<1>1. TypeOK /\ OneDescriptor /\ SlotsInv /\ FilesOfLivePipes /\ CountsMatchDescriptors
  BY DEF IInv
<1> DEFINE h == files[p][fd]
<1>2. h \in File
  BY <1>1 DEF TypeOK
<1>3. /\ files' \in [Proc -> [Fd -> File \cup {NoFile}]]
      /\ OneDescriptor'
      /\ \A x \in Proc, f \in File : Holds(x, f)' <=> Holds(x, f) /\ ~ (x = p /\ f = h)
      /\ \A x \in Proc, g \in Fd : files'[x][g] # NoFile => files'[x][g] = files[x][g]
  BY <1>1, CloseHolds
<1>4. refCount' \in [File -> Nat] /\ CountsMatchDescriptors'
  BY <1>1, CloseCounts
<1>5. Holds(p, h)
  BY DEF Holds, Counted
<1> HIDE DEF h
<1>6. /\ slot' \in [Pipe -> SlotTable]
      /\ live' \in SUBSET Pipe
      /\ SlotsInv'
      /\ \A x \in Proc, g \in File : Holds(x, g)' => g.pipe \in live'
  <2>1. PipeClose(p, h)
    BY DEF h
  <2> QED BY <1>1, <1>2, <1>3, <1>5, <2>1, CloseSlot
<1>7. TypeOK'
  BY <1>1, <1>3, <1>4, <1>6 DEF TypeOK
<1>8. RingsInv' /\ UnusedHasNoFiles'
  BY <1>3 DEF IInv, RingsInv, UnusedHasNoFiles
<1>9. FilesOfLivePipes'
  <2>1. ASSUME NEW x \in Proc, NEW g \in Fd, NEW f \in File, files'[x][g] = f
        PROVE  f.pipe \in live'
    <3>1. Holds(x, f)'
      BY <2>1 DEF Holds, Counted
    <3> QED BY <1>6, <3>1
  <2>2. \A x \in Proc, g \in Fd : files'[x][g] # NoFile => files'[x][g] \in File
    BY <1>3
  <2> QED BY <2>1, <2>2 DEF FilesOfLivePipes
<1> QED BY <1>3, <1>4, <1>6, <1>7, <1>8, <1>9

\* Close preserves the invariant (entry.c:171-180, file.c:110-118).
LEMMA CloseStep ==
  ASSUME IInv, NEW p \in Proc, NEW fd \in Fd, Close(p, fd)
  PROVE  IInv'
<1>1. kernel.op = "user" /\ kernel' = kernel /\ kernel' \in KernelLoops
  BY DEF IInv, TypeOK, Close, Calls
<1>2. CASE files[p][fd] = NoFile
  <2>1. UNCHANGED <<state, files, refCount, kernel, slot, ring, live>> /\ Returns(-EINVAL)
    BY <1>2 DEF Close
  <2>2. ring' \in [Pipe -> Rings]
    BY <2>1 DEF IInv, RingsInv, TypeOK
  <2> QED BY <1>1, <2>1, <2>2, RingStep, ReturnsType DEF EINVAL
<1>3. CASE files[p][fd] # NoFile
  <2>1. ret' \in [code : Int, bytes : Seq(Byte)]
    BY <1>3, ReturnsType DEF Close
  <2>2. /\ TypeOK' /\ RingsInv' /\ UnusedHasNoFiles' /\ OneDescriptor'
        /\ SlotsInv' /\ FilesOfLivePipes' /\ CountsMatchDescriptors'
    BY <1>1, <1>3, <2>1, CloseDescriptor DEF Close, Released
  <2>3. KernelInv'
    BY <1>1 DEF IInv, KernelInv
  <2> QED BY <2>2, <2>3 DEF IInv
<1> QED BY <1>2, <1>3

\* So does each turn of the loop of exit (file.c:67-84).
LEMMA ExitFileStep == IInv /\ ExitFile => IInv'
<1> SUFFICES ASSUME IInv, ExitFile PROVE IInv'
  OBVIOUS
<1> DEFINE p  == kernel.proc
           fd == kernel.fd
<1>1. kernel \in KernelLoops /\ files \in [Proc -> [Fd -> File \cup {NoFile}]]
  BY DEF IInv, TypeOK
<1>2. /\ p \in Proc /\ fd \in 0 .. MaxOpenFiles /\ kernel.op = "exit" /\ fd < MaxOpenFiles
      /\ kernel' = [kernel EXCEPT !.fd = @ + 1]
  BY <1>1 DEF ExitFile, KernelLoops
<1>3. fd \in Fd /\ fd + 1 \in 0 .. MaxOpenFiles /\ \A g \in Fd : g < fd + 1 => g < fd \/ g = fd
  BY <1>2, FilesAssumption DEF Fd
<1>4. kernel' \in KernelLoops
  BY <1>1, <1>2, <1>3 DEF KernelLoops
<1>5. /\ kernel'.op = "exit" /\ kernel'.proc = p /\ kernel'.fd = fd + 1
      /\ kernel'.ret = kernel.ret
  BY <1>1, <1>2 DEF KernelLoops
<1>6. state' = state /\ ring' = ring /\ ret' = ret
  BY DEF ExitFile
<1>7. CASE files[p][fd] = NoFile
  <2>1. UNCHANGED <<files, refCount, slot, live>>
    BY <1>7 DEF ExitFile
  <2>2. TypeOK'
    BY <1>4, <1>6, <2>1 DEF IInv, TypeOK
  <2>3. KernelInv'
    BY <1>2, <1>3, <1>5, <1>6, <1>7, <2>1 DEF IInv, KernelInv
  <2>4. RingsInv' /\ UnusedHasNoFiles' /\ OneDescriptor' /\ FilesOfLivePipes'
    BY <1>6, <2>1 DEF IInv, RingsInv, UnusedHasNoFiles, OneDescriptor, FilesOfLivePipes
  <2>5. SlotsInv' /\ CountsMatchDescriptors'
    BY <1>2, <1>5, <2>1, NoForkFrame, SlotsFrame, CountsFrame DEF IInv
  <2> QED BY <2>2, <2>3, <2>4, <2>5 DEF IInv
<1>8. CASE files[p][fd] # NoFile
  <2>1. /\ PipeClose(p, files[p][fd])
        /\ refCount' = [refCount EXCEPT ![files[p][fd]] = @ - 1]
        /\ files' = [files EXCEPT ![p][fd] = NoFile]
    BY <1>8 DEF ExitFile, Released
  <2>2. ret' \in [code : Int, bytes : Seq(Byte)]
    BY <1>6 DEF IInv, TypeOK
  <2>3. /\ TypeOK' /\ RingsInv' /\ UnusedHasNoFiles' /\ OneDescriptor'
        /\ SlotsInv' /\ FilesOfLivePipes' /\ CountsMatchDescriptors'
    <3>1. kernel.op # "fork" /\ kernel'.op # "fork"
      BY <1>2, <1>5
    <3> HIDE DEF p, fd
    <3> QED BY <1>2, <1>3, <1>4, <1>6, <1>8, <2>1, <2>2, <3>1, CloseDescriptor
  <2>4. KernelInv'
    <3>1. \A g \in Fd : files'[p][g] = IF g = fd THEN NoFile ELSE files[p][g]
      BY <1>1, <1>2, <2>1
    <3> QED BY <1>2, <1>3, <1>5, <1>6, <3>1 DEF IInv, KernelInv
  <2> QED BY <2>3, <2>4 DEF IInv
<1> QED BY <1>7, <1>8

(***************************************************************************)
(* create_pipe puts two new file objects in two free descriptors.          *)
(***************************************************************************)
LEMMA CreateFails ==
  ASSUME IInv, NEW p \in Proc, Calls(p), Returns(-ENOMEM),
         UNCHANGED <<state, files, refCount, kernel, slot, ring, live>>
  PROVE  IInv'
<1>1. kernel.op = "user" /\ ring' \in [Pipe -> Rings]
  BY DEF Calls, IInv, TypeOK, RingsInv
<1> QED BY <1>1, RingStep, ReturnsType DEF ENOMEM

\* The two lowest free descriptors.
LEMMA TwoFree ==
  ASSUME NEW p \in Proc, Cardinality(FreeFds(p)) >= 2
  PROVE  LET rfd == Min(FreeFds(p))
             wfd == Min(FreeFds(p) \ {rfd})
         IN  /\ rfd \in Fd /\ wfd \in Fd /\ rfd # wfd
             /\ files[p][rfd] = NoFile /\ files[p][wfd] = NoFile
<1> DEFINE S == FreeFds(p)
           rfd == Min(S)
           T == S \ {rfd}
<1>1. S \subseteq Fd /\ Fd \subseteq Nat
  BY FilesAssumption DEF FreeFds, Fd
<1>2. IsFiniteSet(S)
  <2>1. IsFiniteSet(Fd)
    <3>1. 0 \in Int /\ MaxOpenFiles - 1 \in Int
      BY FilesAssumption
    <3> QED BY <3>1, FS_Interval DEF Fd
  <2> QED BY <1>1, <2>1, FS_Subset
<1> HIDE DEF S
<1>3. S # {}
  BY FS_EmptySet DEF S
<1>4. rfd \in S
  BY <1>1, <1>3, MinMax
<1> HIDE DEF rfd
<1>5. Cardinality(T) = Cardinality(S) - 1 /\ Cardinality(S) >= 2
  BY <1>2, <1>4, FS_RemoveElement DEF S
<1>6. T # {}
  <2>1. Cardinality(S) \in Nat
    BY <1>2, FS_CardinalityType
  <2>2. Cardinality(T) # 0
    BY <1>5, <2>1
  <2> QED BY <2>2, FS_EmptySet
<1>7. Min(T) \in T
  BY <1>1, <1>6, MinMax
<1> QED BY <1>1, <1>4, <1>7 DEF S, rfd, FreeFds

\* What create_pipe does when it finds the free descriptors rfd and wfd.
CreateAt(p, q, page, rfd, wfd) ==
  /\ Calls(p) /\ Returns(0) /\ q \notin live
  /\ files' = [files EXCEPT ![p][rfd] = End(q, "read"), ![p][wfd] = End(q, "write")]
  /\ refCount' = [f \in File |-> IF f.pipe = q THEN 1 ELSE refCount[f]]
  /\ slot' = [slot EXCEPT ![q] =
                [page EXCEPT ![0] = [valid |-> TRUE, pid |-> p, open |-> Mode]]]
  /\ ring' = [ring EXCEPT ![q] = NewRing]
  /\ live' = live \cup {q}
  /\ UNCHANGED <<state, kernel>>

\* A pipe made on clean pages has one slot, the caller's, and two counted files.
LEMMA CreateSucceeds ==
  ASSUME IInv, NEW p \in Proc, NEW q \in Pipe, NEW page \in PageContents,
         NEW rfd \in Fd, NEW wfd \in Fd, rfd # wfd,
         files[p][rfd] = NoFile, files[p][wfd] = NoFile,
         CreateAt(p, q, page, rfd, wfd)
  PROVE  IInv'
<1>1. TypeOK /\ kernel.op = "user" /\ kernel'.op = "user" /\ state[p] = "ready"
  BY DEF IInv, Calls, CreateAt
<1>2. files \in [Proc -> [Fd -> File \cup {NoFile}]] /\ live \in SUBSET Pipe
      /\ slot \in [Pipe -> SlotTable] /\ ring \in [Pipe -> RingType]
  BY <1>1 DEF TypeOK
<1> DEFINE new(fd) == IF fd = rfd THEN End(q, "read") ELSE End(q, "write")
<1>3. \A x \in Proc, fd \in Fd :
        files'[x][fd] = IF x = p /\ fd \in {rfd, wfd} THEN new(fd) ELSE files[x][fd]
  BY <1>2 DEF CreateAt
<1>4. files' \in [Proc -> [Fd -> File \cup {NoFile}]]
  BY <1>2, EndFacts DEF Mode, CreateAt
<1>5. \A fd \in Fd : new(fd) \in File /\ new(fd) # NoFile /\ new(fd).pipe = q
  BY EndFacts DEF Mode
<1>6. new(rfd) # new(wfd) /\ new(rfd) = End(q, "read") /\ new(wfd) = End(q, "write")
  BY DEF End
<1> HIDE DEF new
<1>7. \A x \in Proc, fd \in Fd : files[x][fd] # NoFile => files[x][fd].pipe # q
  BY DEF IInv, FilesOfLivePipes, CreateAt
<1>8. ret' \in [code : Int, bytes : Seq(Byte)]
  BY ReturnsType DEF CreateAt
<1>9. slot' \in [Pipe -> SlotTable]
  <2>1. page \in SlotTable /\ 0 \in Slot
    BY PipeAssumption DEF Slot
  <2>2. [valid |-> TRUE, pid |-> p, open |-> Mode] \in [valid : BOOLEAN, pid : Nat, open : SUBSET Mode]
    BY FilesAssumption
  <2> QED BY <1>2, <2>1, <2>2 DEF SlotTable, CreateAt
<1>10. NewRing \in Rings
  BY PipeAssumption DEF Rings, WellFormed, RingType, NewRing
<1>11. refCount' \in [File -> Nat]
  BY DEF IInv, TypeOK, CreateAt
<1>12. TypeOK'
  <2>1. ring' \in [Pipe -> RingType]
    BY <1>2, <1>10 DEF Rings, CreateAt
  <2> QED BY <1>1, <1>2, <1>4, <1>8, <1>9, <1>11, <2>1 DEF TypeOK, CreateAt
<1>13. RingsInv'
  BY <1>2, <1>10 DEF IInv, RingsInv, CreateAt
<1>14. UnusedHasNoFiles'
  <2>1. state' = state
    BY DEF CreateAt
  <2> QED BY <1>1, <1>3, <2>1 DEF IInv, UnusedHasNoFiles
<1>15. OneDescriptor'
  <2>1. ASSUME NEW x \in Proc, NEW a \in Fd, NEW b \in Fd,
               files'[x][a] # NoFile, files'[x][a] = files'[x][b]
        PROVE  a = b
    <3>1. CASE x # p \/ (a \notin {rfd, wfd} /\ b \notin {rfd, wfd})
      BY <1>3, <2>1, <3>1 DEF IInv, OneDescriptor
    <3>2. CASE x = p /\ a \in {rfd, wfd} /\ b \in {rfd, wfd}
      BY <1>3, <1>6, <2>1, <3>2
    <3>3. CASE x = p /\ a \in {rfd, wfd} /\ b \notin {rfd, wfd}
      BY <1>3, <1>5, <1>7, <2>1, <3>3
    <3>4. CASE x = p /\ a \notin {rfd, wfd} /\ b \in {rfd, wfd}
      BY <1>3, <1>5, <1>7, <2>1, <3>4
    <3> QED BY <3>1, <3>2, <3>3, <3>4
  <2> QED BY <2>1 DEF OneDescriptor
<1>16. KernelInv'
  BY <1>1 DEF IInv, KernelInv, CreateAt
<1>17. FilesOfLivePipes'
  <2>1. live' = live \cup {q}
    BY DEF CreateAt
  <2> QED BY <1>3, <1>5, <2>1 DEF IInv, FilesOfLivePipes
<1>18. \A x \in Proc, m \in Mode, y \in Pipe :
         Holds(x, End(y, m))' <=> Holds(x, End(y, m)) \/ (x = p /\ y = q)
  <2>1. ASSUME NEW x \in Proc, NEW m \in Mode, NEW y \in Pipe
        PROVE  Holds(x, End(y, m))' <=> Holds(x, End(y, m)) \/ (x = p /\ y = q)
    <3> DEFINE f == End(y, m)
    <3>1. f # NoFile /\ f.pipe = y
      BY EndFacts
    <3>2. Holds(x, f) <=> \E fd \in Fd : files[x][fd] = f
      BY <1>1 DEF Holds, Counted
    <3>3. Holds(x, f)' <=> \E fd \in Fd : files'[x][fd] = f
      BY <1>1 DEF Holds, Counted
    <3>4. x = p /\ y = q => \E fd \in {rfd, wfd} : new(fd) = f
      BY <1>6 DEF Mode
    <3> HIDE DEF f
    <3>5. CASE x = p /\ y = q
      BY <1>3, <3>3, <3>4, <3>5 DEF f
    <3>6. CASE ~ (x = p /\ y = q)
      BY <1>3, <1>5, <3>1, <3>2, <3>3, <3>6 DEF f
    <3> QED BY <3>5, <3>6
  <2> QED BY <2>1
<1>19. SlotsInv'
  <2>1. \A y \in Pipe : y # q => Ends(y)' = Ends(y)
    BY <1>18 DEF Ends, EndsOf
  <2>2. \A x \in Proc : EndsOf(x, q)' = IF x = p THEN Mode ELSE {}
    <3>1. \A x \in Proc, m \in Mode : ~ Holds(x, End(q, m))
      BY <1>7, EndFacts DEF Holds
    <3> QED BY <1>18, <3>1 DEF EndsOf
  <2> DEFINE e == [x \in Proc |-> {}]
             t2 == slot'[q]
             e2 == Ends(q)'
             i == 0
  <2>3. i \in Slot /\ page \in SlotTable
    BY PipeAssumption DEF Slot
  <2>4. Valid(page) = {}
    BY CleanPages DEF Valid
  <2>5. Describes(page, e)
    BY <2>4, CleanPages DEF Describes
  <2>6. t2[i] = [valid |-> TRUE, pid |-> p, open |-> Mode] /\ \A j \in Slot : j # i => t2[j] = page[j]
    BY <1>2, <2>3 DEF SlotTable, CreateAt
  <2>7. Mode # {} /\ i \in Valid(t2) /\ t2[i].pid = p /\ t2[i].open = Mode
    BY <2>3, <2>6 DEF Valid, Mode
  <2>8. \A x \in Proc : e2[x] = IF x = p THEN Mode ELSE e[x]
    BY <2>2 DEF Ends
  <2>9. e[p] = {} /\ i \notin Valid(page)
    BY <2>4
  <2> HIDE DEF e, t2, e2, i
  <2>10. Describes(t2, e2) /\ Valid(t2) # {}
    BY <2>3, <2>5, <2>6, <2>7, <2>8, <2>9, DescribesSet
  <2> QED BY <1>2, <2>1, <2>10 DEF IInv, SlotsInv, CreateAt, t2, e2
<1>20. CountsMatchDescriptors'
  <2>1. ASSUME NEW f \in File PROVE refCount'[f] = Cardinality(Refs(f)')
    <3>1. Refs(f) = {pd \in Proc \X Fd : files[pd[1]][pd[2]] = f}
      BY <1>1 DEF Refs, Counted
    <3>2. Refs(f)' = {pd \in Proc \X Fd : files'[pd[1]][pd[2]] = f}
      BY <1>1 DEF Refs, Counted
    <3>3. f # NoFile
      BY FilesAssumption
    <3>4. CASE f.pipe # q
      <4>1. Refs(f)' = Refs(f)
        BY <1>3, <1>5, <3>1, <3>2, <3>3, <3>4
      <4> QED BY <3>4, <4>1 DEF IInv, CountsMatchDescriptors, CreateAt
    <3>5. CASE f.pipe = q
      <4>1. PICK fd \in {rfd, wfd} : new(fd) = f /\ \A g \in {rfd, wfd} : new(g) = f => g = fd
        BY <1>6, <3>5, EndFacts DEF Mode
      <4>2. Refs(f)' = {<<p, fd>>}
        BY <1>3, <1>7, <3>2, <3>3, <3>5, <4>1
      <4> QED BY <3>5, <4>2, FS_Singleton DEF CreateAt
    <3> QED BY <3>4, <3>5
  <2> QED BY <2>1 DEF CountsMatchDescriptors
<1> QED BY <1>12, <1>13, <1>14, <1>15, <1>16, <1>17, <1>19, <1>20 DEF IInv

\* create_pipe preserves the invariant (pipe.c:494-567).
LEMMA CreateStep ==
  ASSUME IInv, NEW p \in Proc, NEW q \in Pipe, NEW page \in PageContents, Create(p, q, page)
  PROVE  IInv'
<1>1. CASE UNCHANGED <<files, refCount, slot, ring, live>> /\ Returns(-ENOMEM)
  BY <1>1, CreateFails DEF Create
<1>2. CASE Cardinality(FreeFds(p)) >= 2
  <2> DEFINE rfd == Min(FreeFds(p))
             wfd == Min(FreeFds(p) \ {rfd})
  <2>1. /\ rfd \in Fd /\ wfd \in Fd /\ rfd # wfd
        /\ files[p][rfd] = NoFile /\ files[p][wfd] = NoFile
    BY <1>2, TwoFree
  <2>2. ~ (Cardinality(FreeFds(p)) < 2)
    <3>1. IsFiniteSet(FreeFds(p))
      <4>1. 0 \in Int /\ MaxOpenFiles - 1 \in Int /\ FreeFds(p) \in SUBSET Fd
        BY FilesAssumption DEF FreeFds
      <4>2. IsFiniteSet(Fd)
        BY <4>1, FS_Interval DEF Fd
      <4> QED BY <4>1, <4>2, FS_Subset
    <3>2. Cardinality(FreeFds(p)) \in Nat
      BY <3>1, FS_CardinalityType
    <3> QED BY <1>2, <3>2
  <2>3. CreateAt(p, q, page, rfd, wfd)
    BY <2>2 DEF Create, CreateAt
  <2> HIDE DEF rfd, wfd
  <2> QED BY <2>1, <2>3, CreateSucceeds
<1> QED BY <1>1, <1>2 DEF Create

(***************************************************************************)
(* fork: the child's descriptors count one by one as the loop passes them. *)
(***************************************************************************)
LEMMA ForkBeginStep ==
  ASSUME IInv, NEW p \in Proc, ForkBegin(p)
  PROVE  IInv'
<1> DEFINE unused == {c \in Proc : state[c] = "unused"}
           c == Min(unused)
<1>1. c \in Proc /\ state[c] = "unused"
  <2>1. unused \in SUBSET Nat /\ unused # {}
    BY FilesAssumption DEF ForkBegin, CopyContext
  <2>2. c \in unused
    BY <2>1, MinMax
  <2> QED BY <2>2
<1>2. /\ state' = [state EXCEPT ![c] = "ready"]
      /\ files' = [files EXCEPT ![c] = files[p]]
      /\ kernel' = [op |-> "fork", proc |-> p, child |-> c, fd |-> 0, ret |-> 0]
      /\ UNCHANGED <<refCount, ret, slot, ring, live>>
      /\ kernel.op = "user" /\ state[p] = "ready"
  BY DEF ForkBegin, CopyContext, Calls
<1> HIDE DEF c
<1>3. /\ files \in [Proc -> [Fd -> File \cup {NoFile}]]
      /\ state \in [Proc -> {"unused", "ready"}]
  BY DEF IInv, TypeOK
<1>4. \A x \in Proc : /\ files'[x] = IF x = c THEN files[p] ELSE files[x]
                      /\ state'[x] = IF x = c THEN "ready" ELSE state[x]
  BY <1>2, <1>3
<1>5. /\ files' \in [Proc -> [Fd -> File \cup {NoFile}]]
      /\ state' \in [Proc -> {"unused", "ready"}]
  BY <1>2, <1>3
<1>6. kernel' \in KernelLoops
  BY <1>1, <1>2, FilesAssumption DEF KernelLoops
<1>7. c # p /\ \A fd \in Fd : files[c][fd] = NoFile
  BY <1>1, <1>2 DEF IInv, UnusedHasNoFiles
<1>8. kernel'.op = "fork" /\ kernel'.proc = p /\ kernel'.child = c /\ kernel'.fd = 0 /\ kernel'.ret = 0
  BY <1>2
<1>9. TypeOK'
  BY <1>2, <1>5, <1>6 DEF IInv, TypeOK
<1>10. RingsInv'
  BY <1>2 DEF IInv, RingsInv
<1>11. UnusedHasNoFiles' /\ OneDescriptor' /\ FilesOfLivePipes'
  <2>1. live' = live
    BY <1>2
  <2> QED BY <1>4, <2>1 DEF IInv, UnusedHasNoFiles, OneDescriptor, FilesOfLivePipes
<1>12. KernelInv'
  BY <1>1, <1>2, <1>4, <1>7, <1>8 DEF KernelInv
<1>13. kernel.op # "fork" /\ \A fd \in Fd : fd >= 0
  BY <1>2, FilesAssumption DEF Fd
<1>14. ASSUME NEW x \in Proc, NEW f \in File
       PROVE  Holds(x, f)' <=> Holds(x, f)
  <2>1. Holds(x, f) <=> \E fd \in Fd : files[x][fd] = f
    BY <1>13 DEF Holds, Counted
  <2>2. Holds(x, f)' <=> \E fd \in Fd : files'[x][fd] = f /\ x # c
    BY <1>8, <1>13 DEF Holds, Counted
  <2> QED BY <1>4, <1>7, <2>1, <2>2, FilesAssumption
<1>15. \A f \in File : Refs(f)' = Refs(f)
  <2>1. ASSUME NEW f \in File PROVE Refs(f)' = Refs(f)
    <3>1. Refs(f) = {pd \in Proc \X Fd : files[pd[1]][pd[2]] = f}
      BY <1>13 DEF Refs, Counted
    <3>2. Refs(f)' = {pd \in Proc \X Fd : files'[pd[1]][pd[2]] = f /\ pd[1] # c}
      BY <1>8, <1>13 DEF Refs, Counted
    <3>3. \A x \in Proc, fd \in Fd : files[x][fd] = f <=> files'[x][fd] = f /\ x # c
      BY <1>4, <1>7, FilesAssumption
    <3> QED BY <3>1, <3>2, <3>3
  <2> QED BY <2>1
<1>16. SlotsInv' /\ CountsMatchDescriptors'
  BY <1>2, <1>14, <1>15, SlotsFrame, CountsFrame DEF IInv
<1> QED BY <1>9, <1>10, <1>11, <1>12, <1>16 DEF IInv

\* When the loop of fork is over, every descriptor of the child counts.
LEMMA ForkEndStep == IInv /\ ForkEnd => IInv'
<1> SUFFICES ASSUME IInv, ForkEnd PROVE IInv'
  OBVIOUS
<1>1. /\ kernel.op = "fork" /\ kernel.fd = MaxOpenFiles /\ kernel' = UserMode
      /\ UNCHANGED <<state, files, refCount, slot, ring, live>>
      /\ Returns(IF kernel.ret < 0 THEN kernel.ret ELSE kernel.child)
  BY DEF ForkEnd, LeaveFork
<1>2. kernel' \in KernelLoops /\ kernel'.op = "user" /\ kernel'.ret = 0
  BY <1>1, FilesAssumption DEF KernelLoops, UserMode
<1>3. ret' \in [code : Int, bytes : Seq(Byte)]
  <2>1. kernel.child \in Proc /\ kernel.ret = 0
    BY DEF IInv, KernelInv, TypeOK, KernelLoops
  <2>2. \A x \in Proc : x \in Int
    BY FilesAssumption
  <2>3. Returns(kernel.child)
    BY <1>1, <2>1
  <2> QED BY <2>1, <2>2, <2>3, ReturnsType
<1>4. \A x \in Proc, fd \in Fd : Counted(x, fd) /\ Counted(x, fd)'
  BY <1>1, <1>2, FilesAssumption DEF Counted, Fd
<1>5. /\ \A x \in Proc, f \in File : Holds(x, f)' <=> Holds(x, f)
      /\ \A f \in File : Refs(f)' = Refs(f)
  BY <1>1, <1>4 DEF Holds, Refs
<1>6. SlotsInv' /\ CountsMatchDescriptors'
  BY <1>1, <1>5, SlotsFrame, CountsFrame DEF IInv
<1>7. TypeOK' /\ KernelInv'
  BY <1>1, <1>2, <1>3 DEF IInv, TypeOK, KernelInv
<1>8. RingsInv' /\ UnusedHasNoFiles' /\ OneDescriptor' /\ FilesOfLivePipes'
  BY <1>1 DEF IInv, RingsInv, UnusedHasNoFiles, OneDescriptor, FilesOfLivePipes
<1> QED BY <1>6, <1>7, <1>8 DEF IInv

\* exit starts with all the descriptors of its process.
LEMMA ExitBeginStep ==
  ASSUME IInv, NEW p \in Proc, ExitBegin(p)
  PROVE  IInv'
<1>1. /\ kernel.op = "user" /\ state[p] = "ready"
      /\ kernel' = [op |-> "exit", proc |-> p, child |-> p, fd |-> 0, ret |-> 0]
      /\ UNCHANGED <<state, files, refCount, ret, slot, ring, live>>
  BY DEF ExitBegin, EnterExit, Calls
<1>2. /\ kernel' \in KernelLoops /\ kernel'.op = "exit" /\ kernel'.proc = p
      /\ kernel'.fd = 0 /\ kernel'.ret = 0
  BY <1>1, FilesAssumption DEF KernelLoops
<1>3. TypeOK'
  BY <1>1, <1>2 DEF IInv, TypeOK
<1>4. KernelInv'
  BY <1>1, <1>2, FilesAssumption DEF KernelInv, Fd
<1>5. SlotsInv' /\ CountsMatchDescriptors'
  BY <1>1, <1>2, NoForkFrame, SlotsFrame, CountsFrame DEF IInv
<1>6. RingsInv' /\ UnusedHasNoFiles' /\ OneDescriptor' /\ FilesOfLivePipes'
  BY <1>1 DEF IInv, RingsInv, UnusedHasNoFiles, OneDescriptor, FilesOfLivePipes
<1> QED BY <1>3, <1>4, <1>5, <1>6 DEF IInv

\* The context that exit gives back has no open file.
LEMMA ExitEndStep == IInv /\ ExitEnd => IInv'
<1> SUFFICES ASSUME IInv, ExitEnd PROVE IInv'
  OBVIOUS
<1>1. /\ kernel.op = "exit" /\ kernel.fd = MaxOpenFiles /\ kernel' = UserMode
      /\ state' = [state EXCEPT ![kernel.proc] = "unused"]
      /\ UNCHANGED <<files, refCount, ret, slot, ring, live>>
  BY DEF ExitEnd, FreeContext
<1>2. kernel' \in KernelLoops /\ kernel'.op = "user" /\ kernel'.ret = 0
  BY <1>1, FilesAssumption DEF KernelLoops, UserMode
<1>3. \A fd \in Fd : fd < MaxOpenFiles /\ files[kernel.proc][fd] = NoFile
  BY <1>1, FilesAssumption DEF IInv, KernelInv, Fd
<1>4. /\ state' \in [Proc -> {"unused", "ready"}]
      /\ \A x \in Proc : x # kernel.proc => state'[x] = state[x]
  BY <1>1 DEF IInv, TypeOK
<1>5. TypeOK' /\ KernelInv'
  BY <1>1, <1>2, <1>4 DEF IInv, TypeOK, KernelInv
<1>6. UnusedHasNoFiles'
  BY <1>1, <1>3, <1>4 DEF IInv, UnusedHasNoFiles
<1>7. SlotsInv' /\ CountsMatchDescriptors'
  BY <1>1, <1>2, NoForkFrame, SlotsFrame, CountsFrame DEF IInv
<1>8. RingsInv' /\ OneDescriptor' /\ FilesOfLivePipes'
  BY <1>1 DEF IInv, RingsInv, OneDescriptor, FilesOfLivePipes
<1> QED BY <1>5, <1>6, <1>7, <1>8 DEF IInv

(***************************************************************************)
(* A process that has no slot yet finds a free one: every slot in use is   *)
(* another process's, and there are at least as many slots as processes.   *)
(***************************************************************************)
LEMMA FreeSlotExists ==
  ASSUME TypeOK, NEW q \in Pipe, NEW p \in Proc, Describes(slot[q], Ends(q)), SlotsOf(q, p) = {}
  PROVE  FreeSlots(q) # {}
<1> DEFINE t == slot[q]
<1> HIDE DEF t
<1>1. /\ \A i \in Valid(t) : t[i].pid \in Proc /\ t[i].pid # p
      /\ \A i, j \in Valid(t) : t[i].pid = t[j].pid => i = j
  BY DEF Describes, SlotsOf, ValidSlots, Valid, t
<1> SUFFICES ASSUME FreeSlots(q) = {} PROVE FALSE
  OBVIOUS
<1>2. Valid(t) = Slot
  BY DEF FreeSlots, ValidSlots, Valid, t
<1> DEFINE g == [i \in Slot |-> t[i].pid]
           others == Proc \ {p}
<1>3. IsFiniteSet(others) /\ Cardinality(others) = Cardinality(Proc) - 1
  BY FilesAssumption, FS_RemoveElement
<1>4. IsFiniteSet(Slot) /\ Cardinality(Slot) = MaxPipeProc
  BY SlotsFinite
<1>5. Cardinality(others) < Cardinality(Slot)
  <2>1. Cardinality(Proc) \in Nat
    BY FilesAssumption, FS_CardinalityType
  <2> HIDE DEF others
  <2> QED BY <1>3, <1>4, <2>1, EnoughSlots, PipeAssumption
<1>6. g \in [Slot -> others]
  BY <1>1, <1>2
<1>7. PICK i, j \in Slot : i # j /\ g[i] = g[j]
  <2> HIDE DEF g, others
  <2> QED BY <1>3, <1>4, <1>5, <1>6, FS_PigeonHole
<1> QED BY <1>1, <1>2, <1>7

\* do_pipe_fork gives the child the end in one slot.
LEMMA ForkSlot ==
  ASSUME IInv, kernel.op = "fork", NEW f \in File,
         Holds(kernel.proc, f), PipeFork(kernel.child, kernel.proc, f),
         \A x \in Proc, g \in File : Holds(x, g)' <=> Holds(x, g) \/ (x = kernel.child /\ g = f),
         live' = live
  PROVE  /\ slot' \in [Pipe -> SlotTable]
         /\ SlotsInv'
         /\ kernel' = [kernel EXCEPT !.fd = @ + 1, !.ret = 0]
<1> DEFINE q == f.pipe
           m == f.mode
           child == kernel.child
           parent == kernel.proc
           own == Last(SlotsOf(q, child))
           par == Last(SlotsOf(q, parent))
           free == Last(FreeSlots(q))
           mine == ChildSlot(q, child)
<1>1. q \in Pipe /\ m \in Mode /\ f = End(q, m)
  BY EndFacts
<1>2. child \in Proc /\ parent \in Proc
  BY DEF IInv, TypeOK, KernelLoops
<1>3. q \in live
  BY <1>2, FilesAssumption DEF Holds, IInv, FilesOfLivePipes
<1>4. TypeOK /\ SlotsInv /\ Describes(slot[q], Ends(q))
  BY <1>3 DEF IInv, SlotsInv
<1>5. \A x \in Proc : Ends(q)[x] = EndsOf(x, q)
  BY DEF Ends
<1>6. m \in EndsOf(parent, q)
  BY <1>1, <1>2, EndFacts
<1>7. \A S \in SUBSET Slot : /\ S # {} => Last(S) \in S /\ Last(S) # NoSlot
                             /\ S = {} => Last(S) = NoSlot
  <2>1. ASSUME NEW S \in SUBSET Slot, S # {}
        PROVE  Last(S) \in S /\ Last(S) # NoSlot
    <3>1. Last(S) \in S
      BY <2>1, MinMax DEF Last
    <3> QED BY <3>1 DEF NoSlot, Slot
  <2> QED BY <2>1 DEF Last
<1>8. \A p \in Proc : SlotsOf(q, p) \in SUBSET Slot /\ FreeSlots(q) \in SUBSET Slot
  BY DEF SlotsOf, FreeSlots, ValidSlots
<1>9. \A p \in Proc : /\ \A i \in SlotsOf(q, p) : /\ i \in Valid(slot[q]) /\ slot[q][i].pid = p
                                               /\ slot[q][i].open = EndsOf(p, q)
                      /\ SlotsOf(q, p) = {} => EndsOf(p, q) = {}
  <2>1. ASSUME NEW p \in Proc
        PROVE  SlotsOf(q, p) = {i \in Valid(slot[q]) : slot[q][i].pid = p}
    BY DEF SlotsOf, ValidSlots, Valid
  <2> QED BY <1>4, <1>5, <2>1 DEF Describes
<1>10. par \in SlotsOf(q, parent) /\ par # NoSlot
  <2>1. SlotsOf(q, parent) # {}
    BY <1>2, <1>6, <1>9
  <2> QED BY <1>2, <1>7, <1>8, <2>1
<1>11. \/ mine = own /\ own # NoSlot /\ own \in SlotsOf(q, child)
       \/ mine = free /\ own = NoSlot /\ SlotsOf(q, child) = {} /\ free # NoSlot /\ free \in FreeSlots(q)
  <2>1. CASE SlotsOf(q, child) # {}
    BY <1>2, <1>7, <1>8, <2>1 DEF ChildSlot
  <2>2. CASE SlotsOf(q, child) = {}
    <3>1. FreeSlots(q) # {}
      BY <1>1, <1>2, <1>4, <2>2, FreeSlotExists
    <3>2. FreeSlots(q) \in SUBSET Slot
      BY <1>2, <1>8
    <3> QED BY <1>2, <1>7, <1>8, <2>2, <3>1, <3>2 DEF ChildSlot
  <2> QED BY <2>1, <2>2
<1>12. mine \in Slot /\ slot[q][mine].open = EndsOf(child, q)
  <2>1. CASE mine = own /\ own \in SlotsOf(q, child)
    BY <1>2, <1>8, <1>9, <2>1
  <2>2. CASE mine = free /\ SlotsOf(q, child) = {} /\ free \in FreeSlots(q)
    <3>1. free \in Slot \ Valid(slot[q])
      BY <2>2 DEF FreeSlots, ValidSlots, Valid
    <3>2. slot[q][free].open = {}
      BY <1>4, <3>1 DEF Describes
    <3>3. EndsOf(child, q) = {}
      BY <1>2, <1>9, <2>2
    <3> HIDE DEF mine, free
    <3> QED BY <2>2, <3>1, <3>2, <3>3
  <2> QED BY <1>11, <2>1, <2>2
<1>13. \/ mine \in Valid(slot[q]) /\ slot[q][mine].pid = child
       \/ mine \notin Valid(slot[q]) /\ EndsOf(child, q) = {}
  <2>1. CASE mine = own /\ own \in SlotsOf(q, child)
    BY <1>2, <1>9, <2>1
  <2>2. CASE mine = free /\ SlotsOf(q, child) = {} /\ free \in FreeSlots(q)
    BY <1>2, <1>9, <2>2 DEF FreeSlots, ValidSlots, Valid
  <2> QED BY <1>11, <2>1, <2>2
<1> DEFINE o == EndsOf(child, q) \cup {m}
<1>14. /\ kernel' = [kernel EXCEPT !.fd = @ + 1, !.ret = 0]
       /\ slot' = [slot EXCEPT ![q][mine] =
                     [valid |-> TRUE, pid |-> child,
                      open |-> (@.open \ {m}) \cup (slot[q][par].open \cap {m})]]
  BY <1>10, <1>11 DEF PipeFork
<1>15. slot[q][par].open = EndsOf(parent, q)
  BY <1>2, <1>9, <1>10
<1>16. (slot[q][mine].open \ {m}) \cup (slot[q][par].open \cap {m}) = o
  BY <1>6, <1>12, <1>15
<1>17. (o # {}) = TRUE /\ o \in SUBSET Mode
  BY <1>1 DEF EndsOf
<1>18. slot \in [Pipe -> SlotTable]
  BY <1>4 DEF TypeOK
<1>19. WritesSlot(q, mine, child, o)
  <2> HIDE DEF o, mine, par, child, q, m
  <2> QED BY <1>1, <1>12, <1>14, <1>16, <1>17, <1>18 DEF WritesSlot, SlotTable
<1>20. GivesEnds(q, child, o)
  <2>1. ASSUME NEW x \in Proc, NEW y \in Pipe, NEW n \in Mode
        PROVE  Holds(x, End(y, n))' <=> Holds(x, End(y, n)) \/ (x = child /\ y = q /\ n = m)
    BY <1>1, EndFacts
  <2>2. \A x \in Proc, y \in Pipe : EndsOf(x, y)' = {n \in Mode : Holds(x, End(y, n))'}
    BY DEF EndsOf
  <2> QED BY <1>1, <2>1, <2>2 DEF EndsOf, GivesEnds
<1>21. /\ slot' \in [Pipe -> SlotTable]
       /\ \A y \in live : Describes(slot'[y], Ends(y)')
       /\ \A y \in live : y # q => slot'[y] = slot[y]
       /\ Valid(slot'[q]) # {}
  <2> HIDE DEF o, mine, child, q, m
  <2> QED BY <1>2, <1>3, <1>4, <1>12, <1>13, <1>17, <1>19, <1>20, SlotChange
<1>22. SlotsInv'
  BY <1>4, <1>21 DEF SlotsInv
<1> QED BY <1>14, <1>21, <1>22

\* A turn of the loop of fork: one more descriptor of the child counts (file.c:41-65).
LEMMA ForkFileStep == IInv /\ ForkFile => IInv'
<1> SUFFICES ASSUME IInv, ForkFile PROVE IInv'
  OBVIOUS
<1> DEFINE c  == kernel.child
           p  == kernel.proc
           k  == kernel.fd
           f  == files[c][k]
<1>1. /\ kernel \in KernelLoops /\ files \in [Proc -> [Fd -> File \cup {NoFile}]]
      /\ refCount \in [File -> Nat]
  BY DEF IInv, TypeOK
<1>2. /\ p \in Proc /\ c \in Proc /\ k \in 0 .. MaxOpenFiles /\ k < MaxOpenFiles
      /\ kernel.op = "fork" /\ UNCHANGED <<state, files, ret, ring, live>>
  BY <1>1 DEF ForkFile, KernelLoops
<1>3. /\ k \in Fd /\ k + 1 \in 0 .. MaxOpenFiles /\ Fd \subseteq Int
      /\ \A g \in Fd : g >= k + 1 <=> g >= k /\ g # k
  BY <1>2, FilesAssumption DEF Fd
<1>4. kernel.ret = 0 /\ c # p /\ files[c] = files[p]
  BY <1>2 DEF IInv, KernelInv
<1>5. kernel' = [kernel EXCEPT !.fd = @ + 1, !.ret = 0]
        => /\ kernel' \in KernelLoops /\ KernelInv'
           /\ kernel'.op = "fork" /\ kernel'.child = c /\ kernel'.fd = k + 1
  <2> SUFFICES ASSUME kernel' = [kernel EXCEPT !.fd = @ + 1, !.ret = 0]
               PROVE  /\ kernel' \in KernelLoops /\ KernelInv'
                      /\ kernel'.op = "fork" /\ kernel'.child = c /\ kernel'.fd = k + 1
    OBVIOUS
  <2>1. kernel' \in KernelLoops
    BY <1>1, <1>3 DEF KernelLoops
  <2>2. /\ kernel'.op = kernel.op /\ kernel'.child = c /\ kernel'.fd = k + 1
        /\ kernel'.proc = p /\ kernel'.ret = 0
    BY <1>1 DEF KernelLoops
  <2>3. KernelInv'
    BY <1>2, <2>2 DEF IInv, KernelInv
  <2> QED BY <1>2, <2>1, <2>2, <2>3
<1>6. RingsInv' /\ UnusedHasNoFiles' /\ OneDescriptor' /\ FilesOfLivePipes'
  BY <1>2 DEF IInv, RingsInv, UnusedHasNoFiles, OneDescriptor, FilesOfLivePipes
\* Descriptor k of the child is the one that counts from now on.
<1>7. ASSUME NEW g \in File, kernel'.op = "fork", kernel'.child = c, kernel'.fd = k + 1
      PROVE  /\ \A x \in Proc : Holds(x, g)' <=> Holds(x, g) \/ (x = c /\ g = f)
             /\ Refs(g)' = IF g = f THEN Refs(g) \cup {<<c, k>>} ELSE Refs(g)
             /\ <<c, k>> \notin Refs(g)
  <2>1. \A x \in Proc, fd \in Fd : /\ Counted(x, fd) <=> ~ (x = c /\ fd >= k)
                                   /\ Counted(x, fd)' <=> ~ (x = c /\ fd >= k) \/ (x = c /\ fd = k)
    BY <1>2, <1>3, <1>7 DEF Counted
  <2>2. Refs(g) = {pd \in Proc \X Fd : files[pd[1]][pd[2]] = g /\ ~ (pd[1] = c /\ pd[2] >= k)}
    BY <1>2 DEF Refs, Counted
  <2>3. Refs(g)' = {pd \in Proc \X Fd : files[pd[1]][pd[2]] = g /\ ~ (pd[1] = c /\ pd[2] >= k + 1)}
    BY <1>2, <1>7 DEF Refs, Counted
  <2>4. \A x \in Proc : Holds(x, g)' <=> Holds(x, g) \/ (x = c /\ g = f)
    BY <1>2, <1>3, <2>1 DEF Holds
  <2>5. Refs(g)' = IF g = f THEN Refs(g) \cup {<<c, k>>} ELSE Refs(g)
    <3>1. \A x \in Proc, fd \in Fd :
            files[x][fd] = g /\ ~ (x = c /\ fd >= k + 1)
              <=> (files[x][fd] = g /\ ~ (x = c /\ fd >= k)) \/ (g = f /\ x = c /\ fd = k)
      BY <1>2, <1>3
    <3> DEFINE new == {pd \in Proc \X Fd : g = f /\ pd[1] = c /\ pd[2] = k}
    <3>2. Refs(g)' = Refs(g) \cup new
      BY <2>2, <2>3, <3>1
    <3>3. new = IF g = f THEN {<<c, k>>} ELSE {}
      BY <1>2, <1>3
    <3> HIDE DEF new
    <3> QED BY <3>2, <3>3
  <2>6. <<c, k>> \notin Refs(g)
    <3>1. \A i \in Int : i >= i
      OBVIOUS
    <3>2. k >= k
      BY <1>3, <3>1
    <3> QED BY <2>2, <3>2
  <2> QED BY <2>4, <2>5, <2>6
<1>8. CASE f = NoFile
  <2>1. /\ kernel' = [kernel EXCEPT !.fd = @ + 1] /\ UNCHANGED <<refCount, slot>>
    BY <1>8 DEF ForkFile
  <2>2. kernel' = [kernel EXCEPT !.fd = @ + 1, !.ret = 0]
    BY <1>1, <1>4, <2>1 DEF KernelLoops
  <2>3. \A g \in File : g # f
    BY <1>8, FilesAssumption
  <2>4. /\ \A x \in Proc, g \in File : Holds(x, g)' <=> Holds(x, g)
        /\ \A g \in File : Refs(g)' = Refs(g)
    <3> HIDE DEF f, c, k
    <3> QED BY <1>5, <1>7, <2>2, <2>3
  <2>5. SlotsInv' /\ CountsMatchDescriptors'
    BY <1>2, <2>1, <2>4, SlotsFrame, CountsFrame DEF IInv
  <2>6. TypeOK'
    BY <1>2, <1>5, <2>1, <2>2 DEF IInv, TypeOK
  <2> QED BY <1>5, <1>6, <2>2, <2>5, <2>6 DEF IInv
<1>9. CASE f # NoFile
  <2>1. f \in File
    BY <1>1, <1>2, <1>3, <1>9
  <2>2. refCount' = [refCount EXCEPT ![f] = @ + 1] /\ PipeFork(c, p, f)
    BY <1>9 DEF ForkFile, Raised
  <2>3. Holds(p, f)
    BY <1>3, <1>4 DEF Holds, Counted
  <2>4. kernel'.op = "fork" /\ kernel'.child = c /\ kernel'.fd = k + 1
    BY <1>1, <1>2, <2>2 DEF PipeFork, KernelLoops
  <2>5. \A x \in Proc, g \in File : Holds(x, g)' <=> Holds(x, g) \/ (x = c /\ g = f)
    BY <1>7, <2>4
  <2>6. /\ slot' \in [Pipe -> SlotTable]
        /\ SlotsInv'
        /\ kernel' = [kernel EXCEPT !.fd = @ + 1, !.ret = 0]
    <3> HIDE DEF f
    <3> QED BY <1>2, <2>1, <2>2, <2>3, <2>5, ForkSlot
  <2>7. ASSUME NEW g \in File
        PROVE  refCount'[g] = Cardinality(Refs(g)') /\ refCount'[g] \in Nat
    <3>1. refCount[g] = Cardinality(Refs(g)) /\ refCount[g] \in Nat
      BY <1>1 DEF IInv, CountsMatchDescriptors
    <3>2. IsFiniteSet(Refs(g))
      BY DescriptorsFinite, FS_Subset DEF Refs
    <3>3. /\ Refs(g)' = IF g = f THEN Refs(g) \cup {<<c, k>>} ELSE Refs(g)
          /\ <<c, k>> \notin Refs(g)
      BY <1>7, <2>4
    <3>4. refCount'[g] = IF g = f THEN refCount[g] + 1 ELSE refCount[g]
      BY <1>1, <2>1, <2>2
    <3>5. CASE g = f
      <4>1. Cardinality(Refs(g) \cup {<<c, k>>}) = Cardinality(Refs(g)) + 1
        BY <3>2, <3>3, FS_AddElement
      <4> QED BY <3>1, <3>3, <3>4, <3>5, <4>1
    <3>6. CASE g # f
      BY <3>1, <3>3, <3>4, <3>6
    <3> QED BY <3>5, <3>6
  <2>8. refCount' \in [File -> Nat]
    <3>1. refCount' = [g \in File |-> refCount'[g]]
      BY <1>1, <2>2
    <3> QED BY <2>7, <3>1
  <2>9. CountsMatchDescriptors'
    BY <2>7 DEF CountsMatchDescriptors
  <2>10. TypeOK'
    BY <1>2, <1>5, <2>6, <2>8 DEF IInv, TypeOK
  <2> QED BY <1>5, <1>6, <2>6, <2>9, <2>10 DEF IInv
<1> QED BY <1>8, <1>9

(***************************************************************************)
(* The invariant holds in every state of PlainSpec.                        *)
(***************************************************************************)
LEMMA NextInv == IInv /\ [PlainNext]_vars => IInv'
<1> SUFFICES ASSUME IInv, [PlainNext]_vars PROVE IInv'
  OBVIOUS
<1>1. ASSUME NEW p \in Proc, NEW q \in Pipe, NEW page \in PageContents, Create(p, q, page)
      PROVE  IInv'
  BY <1>1, CreateStep
<1>2. ASSUME NEW p \in Proc, NEW fd \in Fd, NEW count \in 0 .. MaxCount, NEW okBuf \in BOOLEAN,
             Read(p, fd, count, okBuf)
      PROVE  IInv'
  BY <1>2, ReadStep
<1>3. ASSUME NEW p \in Proc, NEW fd \in Fd, NEW data \in UserData, NEW okBuf \in BOOLEAN,
             Write(p, fd, data, okBuf)
      PROVE  IInv'
  BY <1>3, WriteStep
<1>4. ASSUME NEW p \in Proc, NEW fd \in Fd, Close(p, fd) PROVE IInv'
  BY <1>4, CloseStep
<1>5. ASSUME NEW p \in Proc, ForkBegin(p) PROVE IInv'
  BY <1>5, ForkBeginStep
<1>6. ASSUME NEW p \in Proc, ExitBegin(p) PROVE IInv'
  BY <1>6, ExitBeginStep
<1>7. CASE KernelStep
  BY <1>7, ForkFileStep, ForkEndStep, ExitFileStep, ExitEndStep DEF KernelStep
<1>8. CASE UNCHANGED vars
  <2>1. UNCHANGED <<state, files, refCount, kernel, ret, slot, ring, live>>
    BY <1>8 DEF vars
  <2>2. \A x \in Proc, f \in File : Holds(x, f)' <=> Holds(x, f)
    BY <2>1 DEF Holds, Counted
  <2>3. \A f \in File : Refs(f)' = Refs(f)
    BY <2>1 DEF Refs, Counted
  <2>4. SlotsInv' /\ CountsMatchDescriptors'
    BY <2>1, <2>2, <2>3, SlotsFrame, CountsFrame DEF IInv
  <2>5. TypeOK'
    BY <2>1 DEF IInv, TypeOK
  <2>6. RingsInv' /\ UnusedHasNoFiles' /\ OneDescriptor' /\ KernelInv' /\ FilesOfLivePipes'
    BY <2>1 DEF IInv, RingsInv, UnusedHasNoFiles, OneDescriptor, KernelInv, FilesOfLivePipes
  <2> QED BY <2>4, <2>5, <2>6 DEF IInv
<1> QED BY <1>1, <1>2, <1>3, <1>4, <1>5, <1>6, <1>7, <1>8 DEF PlainNext

\* The inductive invariant holds in every state.
LEMMA Invariance == PlainSpec => []IInv
<1>1. Init => IInv
  BY InitInv
<1>2. IInv /\ [PlainNext]_vars => IInv'
  BY NextInv
<1> QED BY <1>1, <1>2, PTL DEF PlainSpec

(***************************************************************************)
(* The variables keep their types: no index of a ring leaves its page, and *)
(* no reference count goes below 0 (pipe.c:341-371 and 449-487,            *)
(* file.c:104-118).                                                        *)
(***************************************************************************)
THEOREM TypeCorrect == PlainSpec => []TypeOK
<1>1. IInv => TypeOK
  BY DEF IInv
<1> QED BY <1>1, Invariance, PTL

(***************************************************************************)
(* A file object is shared by exactly as many descriptors as it counts     *)
(* (file.c:41-84 and 104-118).                                             *)
(***************************************************************************)
THEOREM CountsCorrect == PlainSpec => []CountsMatchDescriptors
<1>1. IInv => CountsMatchDescriptors
  BY DEF IInv
<1> QED BY <1>1, Invariance, PTL

(***************************************************************************)
(* With as many slots as processes, the fork handler of a pipe never fails *)
(* (pipe.c:77-152).                                                        *)
(***************************************************************************)
THEOREM ForkHandlersCorrect == PlainSpec => []ForkHandlersSucceed
<1>1. IInv => ForkHandlersSucceed
  BY DEF IInv, KernelInv, ForkHandlersSucceed
<1> QED BY <1>1, Invariance, PTL

\* Slots and ends correspond one to one.
LEMMA SlotsMatch == IInv => SlotsMatchDescriptors
<1> SUFFICES ASSUME IInv, NEW q \in live
             PROVE  /\ \A i \in ValidSlots(q) :
                         /\ slot[q][i].open = EndsOf(slot[q][i].pid, q)
                         /\ slot[q][i].open # {}
                    /\ \A p \in Proc : (\E m \in Mode : Holds(p, End(q, m)))
                                       => Cardinality(SlotsOf(q, p)) = 1
  BY DEF SlotsMatchDescriptors, EndsOf
<1> DEFINE t == slot[q]
           e == Ends(q)
<1>1. /\ Describes(t, e) /\ ValidSlots(q) = Valid(t)
      /\ \A p \in Proc : /\ e[p] = EndsOf(p, q)
                         /\ SlotsOf(q, p) = {i \in Valid(t) : t[i].pid = p}
  BY DEF IInv, SlotsInv, ValidSlots, Valid, SlotsOf, Ends
<1>2. \A i \in ValidSlots(q) : /\ slot[q][i].open = EndsOf(slot[q][i].pid, q)
                               /\ slot[q][i].open # {}
  BY <1>1 DEF Describes
<1>3. ASSUME NEW p \in Proc, NEW m \in Mode, Holds(p, End(q, m))
      PROVE  Cardinality(SlotsOf(q, p)) = 1
  <2>1. e[p] # {}
    BY <1>1, <1>3 DEF EndsOf
  <2>2. PICK i \in Valid(t) : t[i].pid = p
    BY <1>1, <2>1 DEF Describes
  <2>3. SlotsOf(q, p) = {i}
    BY <1>1, <2>2 DEF Describes
  <2> QED BY <2>3, FS_Singleton
<1> QED BY <1>2, <1>3

(***************************************************************************)
(* The slots of an allocated pipe are those of the processes that have an  *)
(* end of it open, one each, with exactly those ends (pipe.c:77-216).      *)
(***************************************************************************)
THEOREM SlotsCorrect == PlainSpec => []SlotsMatchDescriptors
BY SlotsMatch, Invariance, PTL

\* An allocated pipe has a descriptor, and the pipe of a descriptor is allocated.
LEMMA LiveMatch == IInv => LiveWhileOpen
<1> SUFFICES ASSUME IInv, NEW q \in Pipe
             PROVE  q \in live <=> \E p \in Proc, m \in Mode : Holds(p, End(q, m))
  BY DEF LiveWhileOpen
<1>1. ASSUME q \in live
      PROVE  \E p \in Proc, m \in Mode : Holds(p, End(q, m))
  <2>1. Describes(slot[q], Ends(q)) /\ Valid(slot[q]) # {}
    BY <1>1 DEF IInv, SlotsInv
  <2>2. PICK i \in Valid(slot[q]) : slot[q][i].pid \in Proc /\ Ends(q)[slot[q][i].pid] # {}
    BY <2>1 DEF Describes
  <2> QED BY <2>2 DEF Ends, EndsOf
<1>2. ASSUME NEW p \in Proc, NEW m \in Mode, Holds(p, End(q, m))
      PROVE  q \in live
  BY <1>2, EndFacts DEF IInv, FilesOfLivePipes, Holds
<1> QED BY <1>1, <1>2

(***************************************************************************)
(* The pages of a pipe are allocated as long as a descriptor of any        *)
(* process refers to it, and freed with the last one (pipe.c:200-208).     *)
(***************************************************************************)
THEOREM LifetimeCorrect == PlainSpec => []LiveWhileOpen
BY LiveMatch, Invariance, PTL

-------------------------------------------------------------------------------
(***************************************************************************)
(* The refinement of PipeSpec.  The processes see every table but that of  *)
(* a child whose fork is not over and that of a process that exits; the    *)
(* bytes of a pipe are those of its ring while one of them has it open.    *)
(***************************************************************************)
Hidden == {p \in Proc : \/ kernel.op = "fork" /\ p = kernel.child
                        \/ kernel.op = "exit" /\ p = kernel.proc}
NoFiles == [fd \in Fd |-> NoFile]
Shown(fs, hidden) == [p \in Proc |-> IF p \in hidden THEN NoFiles ELSE fs[p]]
Queues(fs, rings) == [q \in Pipe |-> IF Users!Open(fs, q) THEN Bytes(rings[q]) ELSE <<>>]

LEMMA View ==
  IInv => /\ Visible = {p \in Proc : state[p] = "ready"} \ Hidden
          /\ VisibleFiles = Shown(files, Hidden)
          /\ VisibleQueue = Queues(VisibleFiles, ring)
<1> SUFFICES ASSUME IInv
             PROVE  /\ Visible = {p \in Proc : state[p] = "ready"} \ Hidden
                    /\ VisibleFiles = Shown(files, Hidden)
                    /\ VisibleQueue = Queues(VisibleFiles, ring)
  OBVIOUS
<1>1. Visible = {p \in Proc : state[p] = "ready"} \ Hidden
  BY DEF Visible, Hidden
<1>2. ASSUME NEW p \in Proc PROVE VisibleFiles[p] = Shown(files, Hidden)[p]
  <2>1. CASE state[p] = "ready"
    BY <1>1, <2>1 DEF VisibleFiles, Shown, NoFiles
  <2>2. CASE state[p] # "ready"
    <3>1. state[p] = "unused" /\ files[p] \in [Fd -> File \cup {NoFile}]
      BY <2>2 DEF IInv, TypeOK
    <3>2. files[p] = NoFiles
      BY <3>1 DEF IInv, UnusedHasNoFiles, NoFiles
    <3> QED BY <1>1, <2>2, <3>2 DEF VisibleFiles, Shown, NoFiles
  <2> QED BY <2>1, <2>2
<1>3. VisibleFiles = Shown(files, Hidden)
  BY <1>2 DEF VisibleFiles, Shown
<1>4. ASSUME NEW q \in Pipe
      PROVE  (\E p \in Visible, fd \in Fd, m \in Mode : files[p][fd] = End(q, m)) <=> Users!Open(VisibleFiles, q)
  <2>1. ASSUME NEW p \in Visible, NEW fd \in Fd, NEW m \in Mode, files[p][fd] = End(q, m)
        PROVE  Users!Open(VisibleFiles, q)
    <3>1. p \in Proc /\ VisibleFiles[p][fd] = End(q, m)
      BY <2>1 DEF Visible, VisibleFiles
    <3> QED BY <3>1, EndFacts DEF Users!Open, Users!Fd, Fd
  <2>2. ASSUME NEW p \in Proc, NEW fd \in Fd, VisibleFiles[p][fd] # NoFile, VisibleFiles[p][fd].pipe = q
        PROVE  \E x \in Visible, g \in Fd, m \in Mode : files[x][g] = End(q, m)
    <3>1. p \in Visible /\ VisibleFiles[p][fd] = files[p][fd]
      BY <2>2 DEF VisibleFiles
    <3>2. files[p][fd] \in File
      BY <2>2, <3>1 DEF IInv, TypeOK
    <3> QED BY <2>2, <3>1, <3>2, EndFacts
  <2> QED BY <2>1, <2>2 DEF Users!Open, Users!Fd, Fd
<1>5. VisibleQueue = Queues(VisibleFiles, ring)
  BY <1>4 DEF VisibleQueue, Queues
<1> QED BY <1>1, <1>3, <1>5

LEMMA ViewNext ==
  IInv' => /\ Visible' = {p \in Proc : state'[p] = "ready"} \ Hidden'
           /\ VisibleFiles' = Shown(files', Hidden')
           /\ VisibleQueue' = Queues(VisibleFiles', ring')
<1>1. (IInv => /\ Visible = {p \in Proc : state[p] = "ready"} \ Hidden
               /\ VisibleFiles = Shown(files, Hidden)
               /\ VisibleQueue = Queues(VisibleFiles, ring))'
  BY View, PTL
<1> QED BY <1>1 DEF Shown, Queues, Users!Open, NoFiles

\* In user mode nothing is hidden.
LEMMA UserView ==
  /\ IInv /\ kernel.op = "user" =>
       /\ Visible = {p \in Proc : state[p] = "ready"} /\ VisibleFiles = files
       /\ VisibleQueue = Queues(files, ring)
  /\ IInv' /\ kernel'.op = "user" =>
       /\ Visible' = {p \in Proc : state'[p] = "ready"} /\ VisibleFiles' = files'
       /\ VisibleQueue' = Queues(files', ring')
<1>1. ASSUME IInv, kernel.op = "user" PROVE Hidden = {} /\ Shown(files, Hidden) = files
  <2>1. Hidden = {}
    BY <1>1 DEF Hidden
  <2>2. Shown(files, {}) = files
    BY <1>1 DEF Shown, IInv, TypeOK
  <2> QED BY <2>1, <2>2
<1>2. ASSUME IInv', kernel'.op = "user" PROVE Hidden' = {} /\ Shown(files', Hidden') = files'
  <2>1. Hidden' = {}
    BY <1>2 DEF Hidden
  <2>2. Shown(files', {}) = files'
    BY <1>2 DEF Shown, IInv, TypeOK
  <2> QED BY <2>1, <2>2
<1> QED BY <1>1, <1>2, View, ViewNext

LEMMA UserPipes ==
  /\ Users!Fd = Fd /\ Users!Mode = Mode /\ Users!UserData = UserData
  /\ \A S : Users!Cardinality(S) = Cardinality(S)
<1>1. Users!Fd = Fd /\ Users!Mode = Mode /\ Users!UserData = UserData
  BY DEF Users!Fd, Fd, Users!Mode, Mode, Users!UserData, UserData
<1>2. \A S : Users!Cardinality(S) = Cardinality(S)
  BY Zenon DEF Cardinality, Users!Cardinality
<1> QED BY <1>1, <1>2

(***************************************************************************)
(* Every open descriptor is served: its process has one slot, and the slot *)
(* has the status of its end.                                              *)
(***************************************************************************)
LEMMA Served ==
  ASSUME IInv, kernel.op = "user", NEW p \in Proc, NEW fd \in Fd, files[p][fd] # NoFile
  PROVE  /\ files[p][fd] \in File /\ files[p][fd].pipe \in live
         /\ \E i \in Slot : /\ SlotsOf(files[p][fd].pipe, p) = {i}
                            /\ files[p][fd].mode \in slot[files[p][fd].pipe][i].open
<1> DEFINE f == files[p][fd]
           q == files[p][fd].pipe
<1>1. f \in File /\ q \in live /\ q \in Pipe
  BY DEF IInv, TypeOK, FilesOfLivePipes
<1>2. Holds(p, f) /\ f = End(q, f.mode) /\ f.mode \in Mode
  BY <1>1, EndFacts DEF Holds, Counted
<1>3. f.mode \in EndsOf(p, q)
  BY <1>2 DEF EndsOf
<1>4. Describes(slot[q], Ends(q))
  BY <1>1 DEF IInv, SlotsInv
<1>5. Ends(q)[p] = EndsOf(p, q)
  BY DEF Ends
<1>6. PICK i \in Valid(slot[q]) : slot[q][i].pid = p
  BY <1>3, <1>4, <1>5 DEF Describes
<1>7. slot[q][i].open = EndsOf(p, q)
  BY <1>4, <1>5, <1>6 DEF Describes
<1>8. SlotsOf(q, p) = {i}
  BY <1>4, <1>6 DEF Describes, SlotsOf, ValidSlots, Valid
<1> QED BY <1>1, <1>3, <1>6, <1>7, <1>8 DEF Valid

LEMMA OneSlot ==
  ASSUME NEW q, NEW p, NEW i \in Slot, SlotsOf(q, p) = {i}
  PROVE  ReadSlots(q, p) = {i} /\ First(SlotsOf(q, p)) = i
<1>1. {i} \in SUBSET Nat /\ {i} # {}
  BY PipeAssumption DEF Slot
<1>2. Min({i}) \in {i}
  BY <1>1, MinMax
<1> QED BY <1>2 DEF ReadSlots, First

\* A call that moves bytes of one open pipe only.
LEMMA QueueMoves ==
  ASSUME IInv, IInv', kernel.op = "user", kernel'.op = "user", files' = files,
         NEW q \in Pipe, Users!Open(files, q), NEW r, ring' = [ring EXCEPT ![q] = r]
  PROVE  /\ VisibleQueue[q] = Bytes(ring[q])
         /\ VisibleQueue' = [VisibleQueue EXCEPT ![q] = Bytes(r)]
<1>1. VisibleQueue = Queues(files, ring) /\ VisibleQueue' = Queues(files, ring')
  BY UserView
<1>2. \A x \in Pipe : ring'[x] = IF x = q THEN r ELSE ring[x]
  BY DEF IInv, TypeOK
<1> QED BY <1>1, <1>2 DEF Queues

\* A call that changes no table and no ring.
LEMMA NothingMoves ==
  ASSUME IInv, IInv', kernel.op = "user", kernel'.op = "user",
         UNCHANGED <<state, files, ring>>
  PROVE  UNCHANGED <<Visible, VisibleFiles, VisibleQueue>>
<1>1. UNCHANGED <<Visible, VisibleFiles>>
  BY UserView
<1>2. UNCHANGED VisibleQueue
  BY UserView
<1> QED BY <1>1, <1>2

LEMMA OpenByFile ==
  ASSUME IInv, NEW p \in Proc, NEW fd \in Fd, files[p][fd] # NoFile
  PROVE  Users!Open(files, files[p][fd].pipe)
BY DEF Users!Open, Users!Fd, Fd

LEMMA ReadImplements ==
  ASSUME IInv, IInv', NEW p \in Proc, NEW fd \in Fd, NEW count \in 0 .. MaxCount, NEW okBuf \in BOOLEAN,
         Read(p, fd, count, okBuf)
  PROVE  Users!Refused(p, fd, "read", okBuf) \/ Users!Read(p, fd, count)
<1> DEFINE f == files[p][fd]
           q == files[p][fd].pipe
<1>1. kernel.op = "user" /\ kernel'.op = "user" /\ state[p] = "ready" /\ UNCHANGED <<state, files>>
  BY DEF Read, Calls
<1>2. Visible = {x \in Proc : state[x] = "ready"} /\ VisibleFiles = files /\ p \in Visible
  BY <1>1, UserView
<1>3. UNCHANGED <<Visible, VisibleFiles>>
  BY <1>1, UserView
<1>4. ASSUME UNCHANGED ring PROVE UNCHANGED <<Visible, VisibleFiles, VisibleQueue>>
  BY <1>1, <1>4, NothingMoves
<1>5. CASE f = NoFile /\ Returns(-EINVAL) /\ UNCHANGED ring
  BY <1>2, <1>4, <1>5 DEF Users!Refused, Users!Returns, Returns, Users!EINVAL, EINVAL
<1>6. CASE f # NoFile /\ f.mode # "read" /\ Returns(-EACCES) /\ UNCHANGED ring
  BY <1>2, <1>4, <1>6 DEF Users!Refused, Users!Returns, Returns, Users!EACCES, EACCES
<1>7. CASE f # NoFile /\ f.mode = "read" /\ \E i \in ReadSlots(q, p) : PipeRead(q, i, count, okBuf)
  <2>1. PICK i \in Slot : SlotsOf(q, p) = {i} /\ "read" \in slot[q][i].open
    BY <1>1, <1>7, Served
  <2>2. PipeRead(q, i, count, okBuf) /\ i # NoSlot
    BY <1>7, <2>1, OneSlot, PipeAssumption DEF Slot, NoSlot
  <2>3. q \in Pipe /\ Users!Open(files, q)
    BY <1>1, <1>7, Served, OpenByFile DEF IInv, TypeOK
  <2>4. CASE ~ okBuf
    <3>1. Returns(-EBADMEM) /\ UNCHANGED ring
      BY <2>1, <2>2, <2>4 DEF PipeRead
    <3> QED BY <1>2, <1>4, <1>7, <2>4, <3>1 DEF Users!Refused, Users!Returns, Returns, Users!EBADMEM, EBADMEM
  <2>5. CASE okBuf
    <3>1. /\ ret' = [code |-> Delivered(ring[q], count), bytes |-> Prefix(Bytes(ring[q]), count)]
          /\ ring' = [ring EXCEPT ![q] = Pop(ring[q], count)]
      BY <2>1, <2>2, <2>5 DEF PipeRead
    <3>2. ring[q] \in Rings /\ count \in Nat
      BY <2>3, PipeAssumption DEF IInv, RingsInv
    <3> DEFINE b == Bytes(ring[q])
               n == Users!Least(count, Len(b))
    <3>3. b \in Seq(Byte) /\ Len(b) = Length(ring[q]) /\ n = Delivered(ring[q], count)
          /\ Prefix(b, count) = SubSeq(b, 1, n)
      BY <3>2, BytesType DEF Users!Least, Delivered, Smaller, Prefix
    <3>4. Bytes(Pop(ring[q], count)) = SubSeq(b, n + 1, Len(b))
      BY <3>2, <3>3, PopRemoves
    <3>5. VisibleQueue[q] = b /\ VisibleQueue' = [VisibleQueue EXCEPT ![q] = SubSeq(b, n + 1, Len(b))]
      <4> HIDE DEF b, n
      <4>1. VisibleQueue[q] = Bytes(ring[q])
            /\ VisibleQueue' = [VisibleQueue EXCEPT ![q] = Bytes(Pop(ring[q], count))]
        BY <1>1, <2>3, <3>1, QueueMoves
      <4> QED BY <3>4, <4>1 DEF b
    <3>6. ret' = [code |-> n, bytes |-> SubSeq(b, 1, n)]
      BY <3>1, <3>3
    <3> HIDE DEF b
    <3> QED BY <1>2, <1>3, <1>7, <3>5, <3>6 DEF Users!Read
  <2> QED BY <2>4, <2>5
<1> QED BY <1>5, <1>6, <1>7 DEF Read

LEMMA WriteImplements ==
  ASSUME IInv, IInv', NEW p \in Proc, NEW fd \in Fd, NEW data \in UserData, NEW okBuf \in BOOLEAN,
         Write(p, fd, data, okBuf)
  PROVE  Users!Refused(p, fd, "write", okBuf) \/ Users!Write(p, fd, data)
<1> DEFINE f == files[p][fd]
           q == files[p][fd].pipe
<1>1. kernel.op = "user" /\ kernel'.op = "user" /\ state[p] = "ready" /\ UNCHANGED <<state, files>>
  BY DEF Write, Calls
<1>2. Visible = {x \in Proc : state[x] = "ready"} /\ VisibleFiles = files /\ p \in Visible
  BY <1>1, UserView
<1>3. UNCHANGED <<Visible, VisibleFiles>>
  BY <1>1, UserView
<1>4. ASSUME UNCHANGED ring PROVE UNCHANGED <<Visible, VisibleFiles, VisibleQueue>>
  BY <1>1, <1>4, NothingMoves
<1>5. CASE f = NoFile /\ Returns(-EINVAL) /\ UNCHANGED ring
  BY <1>2, <1>4, <1>5 DEF Users!Refused, Users!Returns, Returns, Users!EINVAL, EINVAL
<1>6. CASE f # NoFile /\ f.mode # "write" /\ Returns(-EACCES) /\ UNCHANGED ring
  BY <1>2, <1>4, <1>6 DEF Users!Refused, Users!Returns, Returns, Users!EACCES, EACCES
<1>7. CASE f # NoFile /\ f.mode = "write" /\ PipeWrite(q, First(SlotsOf(q, p)), data, okBuf)
  <2>1. PICK i \in Slot : SlotsOf(q, p) = {i} /\ "write" \in slot[q][i].open
    BY <1>1, <1>7, Served
  <2>2. PipeWrite(q, i, data, okBuf) /\ i # NoSlot
    <3>1. First(SlotsOf(q, p)) = i
      BY <2>1, OneSlot
    <3>2. PipeWrite(q, i, data, okBuf)
      BY <1>7, <3>1, Zenon
    <3> QED BY <3>2, PipeAssumption DEF Slot, NoSlot
  <2>3. q \in Pipe /\ Users!Open(files, q)
    BY <1>1, <1>7, Served, OpenByFile DEF IInv, TypeOK
  <2>4. CASE ~ okBuf
    <3>1. Returns(-EBADMEM) /\ UNCHANGED ring
      BY <2>1, <2>2, <2>4 DEF PipeWrite
    <3> QED BY <1>2, <1>4, <1>7, <2>4, <3>1 DEF Users!Refused, Users!Returns, Returns, Users!EBADMEM, EBADMEM
  <2>5. CASE okBuf
    <3>1. /\ Returns(Accepted(ring[q], Len(data)))
          /\ ring' = [ring EXCEPT ![q] = Push(ring[q], data)]
      BY <2>1, <2>2, <2>5 DEF PipeWrite
    <3>2. ring[q] \in Rings /\ data \in Seq(Byte) /\ Len(data) \in Nat
      BY <2>3 DEF IInv, RingsInv, UserData
    <3> DEFINE b == Bytes(ring[q])
               n == Users!Least(Len(data), Size - Len(b))
    <3>3. b \in Seq(Byte) /\ Len(b) = Length(ring[q]) /\ n = Accepted(ring[q], Len(data))
      BY <3>2, BytesType DEF Users!Least, Accepted, Smaller
    <3>4. Prefix(data, n) = SubSeq(data, 1, n)
      BY <3>2, <3>3, AcceptedType DEF Prefix, Smaller
    <3>5. Bytes(Push(ring[q], data)) = b \o SubSeq(data, 1, n)
      BY <3>2, <3>3, <3>4, PushAppends
    <3>6. VisibleQueue[q] = b /\ VisibleQueue' = [VisibleQueue EXCEPT ![q] = b \o SubSeq(data, 1, n)]
      <4> HIDE DEF b, n
      <4>1. VisibleQueue[q] = Bytes(ring[q])
            /\ VisibleQueue' = [VisibleQueue EXCEPT ![q] = Bytes(Push(ring[q], data))]
        BY <1>1, <2>3, <3>1, QueueMoves
      <4> QED BY <3>5, <4>1 DEF b
    <3>7. ret' = [code |-> n, bytes |-> <<>>]
      BY <3>1, <3>3 DEF Returns
    <3> HIDE DEF b
    <3> QED BY <1>2, <1>3, <1>7, <3>6, <3>7 DEF Users!Write, Users!Returns
  <2> QED BY <2>4, <2>5
<1> QED BY <1>5, <1>6, <1>7 DEF Write

LEMMA MinLeast == \A S \in SUBSET Nat : \A y \in S : Min(S) <= y
<1>1. SUFFICES ASSUME NEW S \in SUBSET Nat, NEW z \in S PROVE Min(S) <= z
  OBVIOUS
<1>2. PICK x \in S : \A y \in S : x <= y
  BY <1>1, LeastNat
<1> QED BY <1>2 DEF Min

LEMMA NewRingIsEmpty == NewRing \in Rings => Bytes(NewRing) = <<>>
<1>1. IsEmpty(NewRing)
  BY DEF IsEmpty, NewRing
<1>2. SUFFICES ASSUME NewRing \in Rings PROVE Bytes(NewRing) = <<>>
  OBVIOUS
<1>3. Bytes(NewRing) \in Seq(Byte) /\ Len(Bytes(NewRing)) = 0
  BY <1>1, <1>2, BytesType, LengthType
<1> QED BY <1>3, EmptySeq

LEMMA CreateImplements ==
  ASSUME IInv, IInv', NEW p \in Proc, NEW q \in Pipe, NEW page \in PageContents, Create(p, q, page)
  PROVE  Users!CreateFails(p) \/ \E rfd, wfd \in Fd : Users!Create(p, q, rfd, wfd)
<1>1. kernel.op = "user" /\ kernel'.op = "user" /\ state[p] = "ready" /\ UNCHANGED state
  BY DEF Create, Calls
<1>2. /\ Visible = {x \in Proc : state[x] = "ready"} /\ VisibleFiles = files /\ p \in Visible
      /\ VisibleQueue = Queues(files, ring)
  BY <1>1, UserView
<1>3. UNCHANGED Visible /\ VisibleFiles' = files' /\ VisibleQueue' = Queues(files', ring')
  BY <1>1, UserView
<1>4. CASE /\ Cardinality(FreeFds(p)) < 2
           /\ Returns(-ENOMEM)
           /\ UNCHANGED <<files, refCount, slot, ring, live>>
  <2>1. UNCHANGED <<Visible, VisibleFiles, VisibleQueue>>
    BY <1>1, <1>4, NothingMoves
  <2>2. {fd \in Users!Fd : VisibleFiles[p][fd] = NoFile} = FreeFds(p)
    BY <1>2, UserPipes DEF FreeFds
  <2>3. Users!Cardinality({fd \in Users!Fd : VisibleFiles[p][fd] = NoFile}) < 2
    BY <1>4, <2>2, UserPipes
  <2>4. Users!Returns(-Users!ENOMEM)
    BY <1>4 DEF Users!Returns, Returns, Users!ENOMEM, ENOMEM
  <2> QED BY <1>2, <2>1, <2>3, <2>4 DEF Users!CreateFails
<1>5. CASE /\ Cardinality(FreeFds(p)) >= 2
           /\ CreateAt(p, q, page, Min(FreeFds(p)), Min(FreeFds(p) \ {Min(FreeFds(p))}))
  <2> DEFINE S == FreeFds(p)
             rfd == Min(S)
             wfd == Min(S \ {rfd})
  <2>1. /\ rfd \in Fd /\ wfd \in Fd /\ rfd # wfd
        /\ files[p][rfd] = NoFile /\ files[p][wfd] = NoFile
    BY <1>5, TwoFree
  <2>2. rfd < wfd /\ \A fd \in Fd : fd < wfd /\ fd # rfd => files[p][fd] # NoFile
    <3>1. S \in SUBSET Nat /\ S \ {rfd} \in SUBSET Nat /\ Fd \subseteq Nat
      BY FilesAssumption DEF FreeFds, Fd
    <3>2. rfd <= wfd
      BY <2>1, <3>1, MinLeast DEF FreeFds
    <3> HIDE DEF rfd, wfd
    <3>3. rfd < wfd /\ rfd \in Nat /\ wfd \in Nat
      BY <2>1, <3>1, <3>2
    <3>4. ASSUME NEW fd \in Fd, fd < wfd, fd # rfd, files[p][fd] = NoFile PROVE FALSE
      <4>1. fd \in S \ {rfd}
        BY <3>4 DEF FreeFds
      <4>2. wfd <= fd
        BY <3>1, <4>1, MinLeast DEF wfd
      <4> QED BY <3>1, <3>3, <3>4, <4>2
    <3> QED BY <3>3, <3>4
  <2>3. /\ files' = [files EXCEPT ![p][rfd] = End(q, "read"), ![p][wfd] = End(q, "write")]
        /\ q \notin live /\ ring' = [ring EXCEPT ![q] = NewRing] /\ ret' = [code |-> 0, bytes |-> <<>>]
    BY <1>5 DEF CreateAt, Returns
  <2> HIDE DEF rfd, wfd, S
  <2>4. ~ Users!Open(files, q)
    BY <2>3, UserPipes DEF Users!Open, IInv, FilesOfLivePipes
  <2>5. \A x \in Pipe : x # q => (Users!Open(files', x) <=> Users!Open(files, x))
    <3>1. End(q, "read").pipe = q /\ End(q, "write").pipe = q
      BY DEF End
    <3>2. \A x \in Proc, fd \in Fd :
             files'[x][fd] = IF x = p /\ fd = wfd THEN End(q, "write")
                             ELSE IF x = p /\ fd = rfd THEN End(q, "read") ELSE files[x][fd]
      BY <2>1, <2>3 DEF IInv, TypeOK
    <3> QED BY <2>1, <3>1, <3>2, UserPipes DEF Users!Open
  <2>6. \A x \in Pipe : ring'[x] = IF x = q THEN NewRing ELSE ring[x]
    BY <2>3 DEF IInv, TypeOK
  <2>7. Bytes(NewRing) = <<>>
    BY <2>6, NewRingIsEmpty DEF IInv, RingsInv
  <2>8. UNCHANGED VisibleQueue
    BY <1>2, <1>3, <2>4, <2>5, <2>6, <2>7 DEF Queues
  <2>9. Users!Create(p, q, rfd, wfd)
    BY <1>2, <1>3, <2>1, <2>2, <2>3, <2>4, <2>8, UserPipes DEF Users!Create, Users!Returns, End
  <2> QED BY <2>1, <2>9
<1> QED BY <1>4, <1>5 DEF Create, CreateAt

\* A step that only takes descriptors away.
LEMMA QueuesShrink ==
  ASSUME IInv, IInv', ring' = ring,
         \A q \in Pipe : Users!Open(VisibleFiles', q) => Users!Open(VisibleFiles, q)
  PROVE  Users!DropClosed(VisibleFiles')
<1>1. VisibleQueue = Queues(VisibleFiles, ring) /\ VisibleQueue' = Queues(VisibleFiles', ring')
  BY View, ViewNext
<1> QED BY <1>1 DEF Queues, Users!DropClosed

LEMMA CloseImplements ==
  ASSUME IInv, IInv', NEW p \in Proc, NEW fd \in Fd, Close(p, fd)
  PROVE  Users!CloseFails(p, fd) \/ Users!Close(p, fd)
<1>1. /\ kernel.op = "user" /\ kernel'.op = "user" /\ state[p] = "ready"
      /\ UNCHANGED <<state, ring>>
  BY DEF Close, Calls
<1>2. /\ Visible = {x \in Proc : state[x] = "ready"} /\ VisibleFiles = files /\ p \in Visible
      /\ UNCHANGED Visible /\ VisibleFiles' = files'
  BY <1>1, UserView
<1>3. CASE files[p][fd] = NoFile /\ Returns(-EINVAL) /\ UNCHANGED <<files, refCount, slot, live>>
  <2>1. UNCHANGED <<Visible, VisibleFiles, VisibleQueue>>
    BY <1>1, <1>3, NothingMoves
  <2> QED BY <1>2, <1>3, <2>1 DEF Users!CloseFails, Users!Returns, Returns, Users!EINVAL, EINVAL
<1>4. CASE files[p][fd] # NoFile /\ files' = [files EXCEPT ![p][fd] = NoFile] /\ Returns(0)
  <2>1. \A x \in Proc, g \in Fd : files'[x][g] # NoFile => files'[x][g] = files[x][g]
    BY <1>4 DEF IInv, TypeOK
  <2>2. \A q \in Pipe : Users!Open(VisibleFiles', q) => Users!Open(VisibleFiles, q)
    BY <1>2, <2>1, UserPipes DEF Users!Open
  <2>3. Users!DropClosed(VisibleFiles')
    BY <1>1, <2>2, QueuesShrink
  <2> QED BY <1>2, <1>4, <2>3 DEF Users!Close, Users!Returns, Returns
<1> QED BY <1>3, <1>4 DEF Close

\* What the processes see stays, and so does the last result.
LEMMA Unseen ==
  ASSUME IInv, IInv', UNCHANGED <<Visible, VisibleFiles, ring, ret>>
  PROVE  UNCHANGED Users!vars
<1>1. VisibleQueue = Queues(VisibleFiles, ring) /\ VisibleQueue' = Queues(VisibleFiles', ring')
  BY View, ViewNext
<1> QED BY <1>1 DEF Users!vars

LEMMA ForkBeginStutters ==
  ASSUME IInv, IInv', NEW p \in Proc, ForkBegin(p)
  PROVE  UNCHANGED Users!vars
<1> DEFINE unused == {x \in Proc : state[x] = "unused"}
<1>1. PICK c : c = Min(unused)
  OBVIOUS
<1>2. c \in Proc /\ state[c] = "unused"
  <2>1. unused \in SUBSET Nat /\ unused # {}
    BY FilesAssumption DEF ForkBegin, CopyContext
  <2> QED BY <1>1, <2>1, MinMax
<1>3. /\ state' = [state EXCEPT ![c] = "ready"]
      /\ files' = [files EXCEPT ![c] = files[p]]
      /\ kernel' = [op |-> "fork", proc |-> p, child |-> c, fd |-> 0, ret |-> 0]
      /\ kernel.op = "user" /\ UNCHANGED <<ret, ring>>
  BY <1>1 DEF ForkBegin, CopyContext, Calls
<1>4. Hidden' = {c}
  BY <1>2, <1>3 DEF Hidden
<1>5. Visible = {x \in Proc : state[x] = "ready"} /\ VisibleFiles = files
  BY <1>3, UserView
<1>6. Visible' = {x \in Proc : state'[x] = "ready"} \ {c} /\ VisibleFiles' = Shown(files', {c})
  BY <1>4, ViewNext
<1>7. UNCHANGED Visible
  BY <1>2, <1>3, <1>5, <1>6 DEF IInv, TypeOK
<1>8. UNCHANGED VisibleFiles
  <2>1. files[c] = NoFiles
    BY <1>2 DEF IInv, TypeOK, UnusedHasNoFiles, NoFiles
  <2>2. \A x \in Proc : Shown(files', {c})[x] = files[x]
    BY <1>2, <1>3, <2>1 DEF IInv, TypeOK, Shown
  <2>3. Shown(files', {c}) = files
    BY <2>2 DEF IInv, TypeOK, Shown
  <2> QED BY <1>5, <1>6, <2>3
<1> QED BY <1>3, <1>7, <1>8, Unseen

LEMMA ForkFileStutters ==
  ASSUME IInv, IInv', ForkFile
  PROVE  UNCHANGED Users!vars
<1>1. /\ kernel'.op = kernel.op /\ kernel'.child = kernel.child /\ kernel'.proc = kernel.proc
      /\ UNCHANGED <<state, files, ret, ring>>
  <2>1. /\ UNCHANGED <<state, files, ret, ring>>
        /\ \/ kernel' = [kernel EXCEPT !.fd = @ + 1]
           \/ PipeFork(kernel.child, kernel.proc, files[kernel.child][kernel.fd])
    BY DEF ForkFile
  <2>2. kernel \in KernelLoops
    BY DEF IInv, TypeOK
  <2> QED BY <2>1, <2>2 DEF PipeFork, KernelLoops
<1>2. UNCHANGED Hidden
  BY <1>1 DEF Hidden
<1>3. UNCHANGED <<Visible, VisibleFiles>>
  BY <1>1, <1>2, View, ViewNext
<1> QED BY <1>1, <1>3, Unseen

\* The fork happens when its loop over the files is over: the child appears.
LEMMA ForkImplements ==
  ASSUME IInv, IInv', ForkEnd
  PROVE  Users!Fork(kernel.proc, kernel.child) /\ kernel.proc \in Proc /\ kernel.child \in Proc
<1>1. PICK p, c : p = kernel.proc /\ c = kernel.child
  OBVIOUS
<1>2. /\ p \in Proc /\ c \in Proc /\ c # p /\ state[c] = "ready" /\ state[p] = "ready"
      /\ files[c] = files[p] /\ kernel.op = "fork"
  BY <1>1 DEF ForkEnd, LeaveFork, IInv, TypeOK, KernelInv, KernelLoops
<1>3. /\ kernel'.op = "user" /\ UNCHANGED <<state, files, ring>>
      /\ ret' = [code |-> c, bytes |-> <<>>]
  BY <1>1 DEF ForkEnd, LeaveFork, UserMode, Returns, IInv, KernelInv
<1>4. Hidden = {c}
  BY <1>1, <1>2 DEF Hidden
<1>5. Visible = {x \in Proc : state[x] = "ready"} \ {c} /\ VisibleFiles = Shown(files, {c})
  BY <1>4, View
<1>6. Visible' = {x \in Proc : state[x] = "ready"} /\ VisibleFiles' = files
  BY <1>3, UserView
<1>7. p \in Visible /\ c \in Proc \ Visible /\ Visible' = Visible \cup {c}
  BY <1>2, <1>5, <1>6
<1>8. VisibleFiles' = [VisibleFiles EXCEPT ![c] = VisibleFiles[p]]
  BY <1>2, <1>5, <1>6 DEF Shown, IInv, TypeOK
<1>9. UNCHANGED VisibleQueue
  <2>1. \A q \in Pipe : Users!Open(VisibleFiles', q) <=> Users!Open(VisibleFiles, q)
    <3>1. \A x \in Proc : VisibleFiles[x] = IF x = c THEN NoFiles ELSE files[x]
      BY <1>5 DEF Shown
    <3>2. \A fd \in Fd : VisibleFiles[c][fd] = NoFile
      BY <1>2, <3>1 DEF NoFiles
    <3> QED BY <1>2, <1>6, <3>1, <3>2, UserPipes DEF Users!Open
  <2>2. VisibleQueue = Queues(VisibleFiles, ring) /\ VisibleQueue' = Queues(VisibleFiles', ring)
    BY <1>3, View, ViewNext
  <2> QED BY <2>1, <2>2 DEF Queues
<1>10. Users!Fork(p, c)
  BY <1>3, <1>7, <1>8, <1>9 DEF Users!Fork, Users!Returns
<1> QED BY <1>1, <1>2, <1>10

\* The exit happens when its loop begins: the process is gone with its files.
LEMMA ExitImplements ==
  ASSUME IInv, IInv', NEW p \in Proc, ExitBegin(p)
  PROVE  Users!Exit(p)
<1>1. /\ kernel.op = "user" /\ state[p] = "ready" /\ UNCHANGED <<state, files, ret, ring>>
      /\ kernel' = [op |-> "exit", proc |-> p, child |-> p, fd |-> 0, ret |-> 0]
  BY DEF ExitBegin, EnterExit, Calls
<1>2. Visible = {x \in Proc : state[x] = "ready"} /\ VisibleFiles = files
  BY <1>1, UserView
<1>3. Hidden' = {p}
  BY <1>1 DEF Hidden
<1>4. Visible' = Visible \ {p} /\ VisibleFiles' = Shown(files, {p}) /\ p \in Visible
  BY <1>1, <1>2, <1>3, ViewNext
<1>5. VisibleFiles' = [VisibleFiles EXCEPT ![p] = NoFiles]
  BY <1>2, <1>4 DEF Shown, IInv, TypeOK
<1>6. \A q \in Pipe : Users!Open(VisibleFiles', q) => Users!Open(VisibleFiles, q)
  <2>1. \A x \in Proc : VisibleFiles'[x] = IF x = p THEN NoFiles ELSE files[x]
    BY <1>4 DEF Shown
  <2>2. \A fd \in Fd : VisibleFiles'[p][fd] = NoFile
    BY <2>1 DEF NoFiles
  <2> QED BY <1>2, <2>1, <2>2, UserPipes DEF Users!Open
<1>7. Users!DropClosed(VisibleFiles')
  BY <1>1, <1>6, QueuesShrink
<1> QED BY <1>1, <1>4, <1>5, <1>7, UserPipes DEF Users!Exit, NoFiles

LEMMA ExitFileStutters ==
  ASSUME IInv, IInv', ExitFile
  PROVE  UNCHANGED Users!vars
<1>1. PICK p, d : p = kernel.proc /\ d = kernel.fd
  OBVIOUS
<1>2. /\ kernel.op = "exit" /\ kernel'.op = "exit" /\ kernel'.proc = p
      /\ UNCHANGED <<state, ret, ring>>
      /\ files' = files \/ files' = [files EXCEPT ![p][d] = NoFile]
  BY <1>1 DEF ExitFile, IInv, TypeOK, KernelLoops
<1>3. Hidden = {p} /\ Hidden' = {p}
  BY <1>1, <1>2 DEF Hidden, IInv, TypeOK, KernelLoops
<1>4. UNCHANGED Visible
  BY <1>2, <1>3, View, ViewNext
<1>5. UNCHANGED VisibleFiles
  <2>1. Shown(files', {p}) = Shown(files, {p})
    BY <1>2 DEF Shown, IInv, TypeOK
  <2> QED BY <1>3, <2>1, View, ViewNext
<1> QED BY <1>2, <1>4, <1>5, Unseen

LEMMA ExitEndStutters ==
  ASSUME IInv, IInv', ExitEnd
  PROVE  UNCHANGED Users!vars
<1>1. PICK p : p = kernel.proc
  OBVIOUS
<1>2. /\ p \in Proc /\ kernel.op = "exit" /\ kernel.fd = MaxOpenFiles /\ kernel'.op = "user"
      /\ state' = [state EXCEPT ![p] = "unused"] /\ UNCHANGED <<files, ret, ring>>
  BY <1>1 DEF ExitEnd, FreeContext, UserMode, IInv, TypeOK, KernelLoops
<1>3. Hidden = {p}
  BY <1>1, <1>2 DEF Hidden
<1>4. UNCHANGED Visible
  BY <1>2, <1>3, View, UserView DEF IInv, TypeOK
<1>5. UNCHANGED VisibleFiles
  <2>1. files[p] = NoFiles
    <3>1. state'[p] = "unused"
      BY <1>2 DEF IInv, TypeOK
    <3> QED BY <1>2, <3>1 DEF IInv, TypeOK, UnusedHasNoFiles, NoFiles
  <2>2. Shown(files, {p}) = files
    BY <2>1 DEF Shown, IInv, TypeOK
  <2> QED BY <1>2, <1>3, <2>2, View, UserView
<1> QED BY <1>2, <1>4, <1>5, Unseen

LEMMA InitImplements == Init => Users!Init
<1> SUFFICES ASSUME Init PROVE Users!Init
  OBVIOUS
<1>1. IInv /\ kernel.op = "user"
  BY InitInv DEF Init, FilesInit, UserMode
<1>2. /\ Visible = {p \in Proc : state[p] = "ready"} /\ VisibleFiles = files
      /\ VisibleQueue = Queues(files, ring)
  BY <1>1, UserView
<1>3. Visible = {InitProc}
  BY <1>2, FilesAssumption DEF Init, FilesInit
<1>4. VisibleFiles = [p \in Proc |-> [fd \in Users!Fd |-> NoFile]]
  BY <1>2, UserPipes DEF Init, FilesInit
<1>5. VisibleQueue = [q \in Pipe |-> <<>>]
  <2>1. \A q \in Pipe : ~ Users!Open(files, q)
    BY UserPipes DEF Init, FilesInit, Users!Open
  <2> QED BY <1>2, <2>1 DEF Queues
<1> QED BY <1>3, <1>4, <1>5 DEF Users!Init, Init, FilesInit

\* The alternatives of the abstract next-state relation.
LEMMA UserSteps ==
  ASSUME NEW p \in Proc
  PROVE  /\ Users!CreateFails(p) => Users!Next
         /\ \A q \in Pipe, rfd \in Fd, wfd \in Fd : Users!Create(p, q, rfd, wfd) => Users!Next
         /\ \A fd \in Fd, m \in Mode, okBuf \in BOOLEAN : Users!Refused(p, fd, m, okBuf) => Users!Next
         /\ \A fd \in Fd, count \in 0 .. MaxCount : Users!Read(p, fd, count) => Users!Next
         /\ \A fd \in Fd, data \in UserData : Users!Write(p, fd, data) => Users!Next
         /\ \A fd \in Fd : Users!CloseFails(p, fd) \/ Users!Close(p, fd) => Users!Next
         /\ \A child \in Proc : Users!Fork(p, child) => Users!Next
         /\ Users!Exit(p) => Users!Next
BY UserPipes, Zenon DEF Users!Next

LEMMA StepImplements == IInv /\ IInv' /\ [PlainNext]_vars => [Users!Next]_(Users!vars)
<1> SUFFICES ASSUME IInv, IInv', [PlainNext]_vars PROVE Users!Next \/ UNCHANGED Users!vars
  OBVIOUS
<1>1. ASSUME NEW p \in Proc, NEW q \in Pipe, NEW page \in PageContents, Create(p, q, page) PROVE Users!Next
  BY <1>1, CreateImplements, UserSteps
<1>2. ASSUME NEW p \in Proc, NEW fd \in Fd, NEW count \in 0 .. MaxCount, NEW okBuf \in BOOLEAN,
             Read(p, fd, count, okBuf)
      PROVE  Users!Next
  <2>1. "read" \in Mode
    BY DEF Mode
  <2> QED BY <1>2, <2>1, ReadImplements, UserSteps
<1>3. ASSUME NEW p \in Proc, NEW fd \in Fd, NEW data \in UserData, NEW okBuf \in BOOLEAN,
             Write(p, fd, data, okBuf)
      PROVE  Users!Next
  <2>1. "write" \in Mode
    BY DEF Mode
  <2> QED BY <1>3, <2>1, WriteImplements, UserSteps
<1>4. ASSUME NEW p \in Proc, NEW fd \in Fd, Close(p, fd) PROVE Users!Next
  BY <1>4, CloseImplements, UserSteps
<1>5. ASSUME NEW p \in Proc, ForkBegin(p) PROVE UNCHANGED Users!vars
  BY <1>5, ForkBeginStutters
<1>6. ASSUME NEW p \in Proc, ExitBegin(p) PROVE Users!Next
  BY <1>6, ExitImplements, UserSteps
<1>7. CASE KernelStep
  <2>1. ASSUME ForkEnd PROVE Users!Next
    BY <2>1, ForkImplements, UserSteps
  <2> QED BY <1>7, <2>1, ForkFileStutters, ExitFileStutters, ExitEndStutters DEF KernelStep
<1>8. CASE UNCHANGED vars
  <2>1. UNCHANGED <<kernel, state, files, ring, ret>>
    BY <1>8 DEF vars
  <2>2. UNCHANGED Hidden
    BY <2>1 DEF Hidden
  <2>3. UNCHANGED <<Visible, VisibleFiles>>
    BY <2>1, <2>2, View, ViewNext
  <2> QED BY <2>1, <2>3, Unseen
<1> QED BY <1>1, <1>2, <1>3, <1>4, <1>5, <1>6, <1>7, <1>8 DEF PlainNext

(***************************************************************************)
(* The pipes of pipe.c are those that pipe(), read(), write(), close(),    *)
(* fork() and exit() promise, for any number of processes, pipes,          *)
(* descriptors and bytes: every open descriptor is served, bytes arrive    *)
(* once and in order, and a pipe keeps its bytes until its last descriptor *)
(* goes (pipe.c:85-402, file.c:41-118, 298-350).                           *)
(***************************************************************************)
THEOREM PipeImplements == PlainSpec => ImplementsPipeSpec
<1> QED BY InitImplements, StepImplements, Invariance, PTL DEF PlainSpec, ImplementsPipeSpec, Users!Spec
===============================================================================
