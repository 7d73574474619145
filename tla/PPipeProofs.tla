------------------------------ MODULE PPipeProofs ------------------------------
(***************************************************************************)
(* Persistent pipes, for any number of processes, pipes, descriptors and   *)
(* bytes.  Without the cursors, the slots of a persistent pipe are those   *)
(* of a pipe: what PipeProofs shows of descriptors, counts, slots and      *)
(* pages is taken from there, through the instance Plain.  What is left    *)
(* are the fronts of the readers.                                          *)
(***************************************************************************)
EXTENDS PPipeClean, RingProofs, FiniteSetTheorems

\* A slot and a table without the cursors, and rings that never hold anything.
End1(s)   == [valid |-> s.valid, pid |-> s.pid, open |-> s.open]
EndsIn(t) == [i \in Slot |-> End1(t[i])]
SlotEnds  == [q \in Pipe |-> EndsIn(slot[q])]
PageEnds  == {EndsIn(page) : page \in PageContents}
IdleRing  == [q \in Pipe |-> NewRing]

Plain == INSTANCE PipeProofs
           WITH MaxPipeProc <- MaxPPipeProc, PageContents <- PageEnds,
                slot <- SlotEnds, ring <- IdleRing

SlotRecord == [valid : BOOLEAN, pid : Nat, front : Index, empty : BOOLEAN, open : SUBSET Mode]

(***************************************************************************)
(* The definitions that PPipe shares with Pipe mean the same in both.      *)
(***************************************************************************)
LEMMA SameSets ==
  /\ \A S : Plain!Cardinality(S) = Cardinality(S) /\ (Plain!IsFiniteSet(S) <=> IsFiniteSet(S))
  /\ \A S : Plain!Min(S) = Min(S) /\ Plain!Max(S) = Max(S)
  /\ Plain!Slot = Slot /\ Plain!Fd = Fd /\ Plain!Mode = Mode /\ Plain!File = File
  /\ \A q, m : Plain!End(q, m) = End(q, m)
  /\ Plain!KernelLoops = KernelLoops /\ Plain!UserMode = UserMode
  /\ Plain!NewRing = NewRing /\ Plain!RingType = RingType /\ Plain!Rings = Rings
<1>1. \A S : Plain!Cardinality(S) = Cardinality(S) /\ (Plain!IsFiniteSet(S) <=> IsFiniteSet(S))
  BY Zenon DEF Cardinality, Plain!Cardinality, IsFiniteSet, Plain!IsFiniteSet
<1>2. \A S : Plain!Min(S) = Min(S) /\ Plain!Max(S) = Max(S)
  BY Zenon DEF Min, Max, Plain!Min, Plain!Max
<1>3. Plain!Slot = Slot /\ Plain!Fd = Fd /\ Plain!Mode = Mode
  BY DEF Slot, Fd, Mode, Plain!Slot, Plain!Fd, Plain!Mode
<1>4. Plain!File = File /\ \A q, m : Plain!End(q, m) = End(q, m)
  BY <1>3 DEF File, End, Plain!File, Plain!End
<1>5. Plain!KernelLoops = KernelLoops /\ Plain!UserMode = UserMode
  BY DEF KernelLoops, UserMode, EOTHERS, Plain!KernelLoops, Plain!UserMode, Plain!EOTHERS
<1>6. Plain!Index = Index /\ Plain!NoIndex = NoIndex
  BY DEF Index, NoIndex, Plain!Index, Plain!NoIndex
<1>7. Plain!NewRing = NewRing /\ Plain!RingType = RingType
  BY <1>6 DEF NewRing, RingType, Plain!NewRing, Plain!RingType
<1>8. Plain!Rings = Rings
  BY <1>6, <1>7 DEF Rings, WellFormed, Plain!Rings, Plain!WellFormed
<1> QED BY <1>1, <1>2, <1>3, <1>4, <1>5, <1>7, <1>8

\* The assumptions of PipeProofs hold for the instance.
LEMMA PlainAssumptions ==
  /\ Proc \subseteq Nat /\ Plain!IsFiniteSet(Proc)
  /\ InitProc \in Proc
  /\ MaxOpenFiles \in Nat /\ DupBase \in Nat
  /\ NoFile \notin Plain!File
  /\ Size \in Nat \ {0}
  /\ MaxPPipeProc \in Nat \ {0}
  /\ PageEnds \subseteq Plain!SlotTable
  /\ MaxCount \in Nat /\ Fill \in Byte
  /\ Plain!Cardinality(Proc) <= MaxPPipeProc
  /\ \A page \in PageEnds, i \in Plain!Slot : ~ page[i].valid /\ page[i].open = {}
<1>1. \A page \in PageContents : EndsIn(page) \in Plain!SlotTable
  BY SameSets, PPipeAssumption DEF EndsIn, End1, SlotTable, Plain!SlotTable
<1>2. \A page \in PageContents, i \in Slot : ~ EndsIn(page)[i].valid /\ EndsIn(page)[i].open = {}
  BY CleanPages DEF EndsIn, End1
<1> QED BY <1>1, <1>2, SameSets, FilesAssumption, RingAssumption, PPipeAssumption, EnoughSlots
        DEF PageEnds

\* So do the operators on the state.
LEMMA SameState ==
  /\ \A p : Plain!Calls(p) <=> Calls(p)
  /\ \A p : Plain!FreeFds(p) = FreeFds(p)
  /\ \A x, f : /\ Plain!Holds(x, f) <=> Holds(x, f)
               /\ Plain!Holds(x, f)' <=> Holds(x, f)'
  /\ \A f : Plain!Raised(f) = Raised(f) /\ Plain!Released(f) = Released(f)
  /\ \A c : Plain!Returns(c) <=> Returns(c)
  /\ \A q \in Pipe, i \in Slot : SlotEnds[q][i] = End1(slot[q][i])
  /\ \A q \in Pipe : \A p : /\ Plain!ValidSlots(q) = ValidSlots(q)
                            /\ Plain!SlotsOf(q, p) = SlotsOf(q, p)
                            /\ Plain!FreeSlots(q) = Slot \ ValidSlots(q)
                            /\ Plain!CloseSlots(q, p) = CloseSlots(q, p)
<1>1. /\ \A p : Plain!Calls(p) <=> Calls(p)
      /\ \A p : Plain!FreeFds(p) = FreeFds(p)
      /\ \A f : Plain!Raised(f) = Raised(f) /\ Plain!Released(f) = Released(f)
      /\ \A c : Plain!Returns(c) <=> Returns(c)
  BY SameSets DEF Calls, FreeFds, Raised, Released, Returns,
                  Plain!Calls, Plain!FreeFds, Plain!Raised, Plain!Released, Plain!Returns
<1>2. \A x, f : /\ Plain!Holds(x, f) <=> Holds(x, f)
                /\ Plain!Holds(x, f)' <=> Holds(x, f)'
  BY SameSets DEF Holds, Counted, Plain!Holds, Plain!Counted
<1>3. \A q \in Pipe, i \in Slot : SlotEnds[q][i] = End1(slot[q][i])
  BY DEF SlotEnds, EndsIn
<1>4. ASSUME NEW q \in Pipe, NEW p
      PROVE  /\ Plain!ValidSlots(q) = ValidSlots(q)
             /\ Plain!SlotsOf(q, p) = SlotsOf(q, p)
             /\ Plain!FreeSlots(q) = Slot \ ValidSlots(q)
             /\ Plain!CloseSlots(q, p) = CloseSlots(q, p)
  <2>1. \A i \in Slot : SlotEnds[q][i].valid = slot[q][i].valid /\ SlotEnds[q][i].pid = slot[q][i].pid
    <3>1. \A i \in Slot : SlotEnds[q][i] = End1(slot[q][i])
      BY <1>3
    <3>2. \A s : End1(s).valid = s.valid /\ End1(s).pid = s.pid
      BY DEF End1
    <3> QED BY <3>1, <3>2
  <2>2. Plain!ValidSlots(q) = ValidSlots(q)
    BY <2>1, SameSets DEF ValidSlots, Plain!ValidSlots
  <2>3. Plain!SlotsOf(q, p) = SlotsOf(q, p)
    BY <2>1, <2>2 DEF SlotsOf, ValidSlots, Plain!SlotsOf
  <2>4. Plain!FreeSlots(q) = Slot \ ValidSlots(q)
    BY <2>2, SameSets DEF Plain!FreeSlots
  <2>5. Plain!CloseSlots(q, p) = CloseSlots(q, p)
    BY <2>3, SameSets DEF CloseSlots, Plain!CloseSlots
  <2> QED BY <2>2, <2>3, <2>4, <2>5
<1> QED BY <1>1, <1>2, <1>3, <1>4

(***************************************************************************)
(* The invariant of PipeProofs for the instance, and the types it does not *)
(* speak of.                                                               *)
(***************************************************************************)
EndsInv ==
  /\ slot \in [Pipe -> SlotTable]
  /\ ring \in [Pipe -> RingType]
  /\ Plain!IInv

LEMMA PlainTyped ==
  ASSUME Plain!IInv
  PROVE  /\ state \in [Proc -> {"unused", "ready"}]
         /\ files \in [Proc -> [Fd -> File \cup {NoFile}]]
         /\ refCount \in [File -> Nat]
         /\ kernel \in KernelLoops
         /\ ret \in [code : Int, bytes : Seq(Byte)]
         /\ live \in SUBSET Pipe
BY SameSets DEF Plain!IInv, Plain!TypeOK

\* A call that changes cursors and rings, and no slot's ends, is no step of a pipe.
LEMMA CursorStep ==
  ASSUME Plain!IInv, kernel.op = "user",
         UNCHANGED <<state, files, refCount, kernel, live>>, SlotEnds' = SlotEnds,
         ret' \in [code : Int, bytes : Seq(Byte)]
  PROVE  Plain!IInv'
<1>1. UNCHANGED <<state, files, refCount, kernel, SlotEnds, live>>
  OBVIOUS
<1>2. NewRing \in Rings
  BY PPipeAssumption DEF Rings, WellFormed, RingType, NewRing
<1>3. IdleRing' \in [Pipe -> Plain!Rings]
  BY <1>2, SameSets DEF IdleRing
<1> QED BY <1>1, <1>3, Plain!RingStep, PlainAssumptions

\* One slot of a table is written.
LEMMA SlotWrite ==
  ASSUME slot \in [Pipe -> SlotTable], NEW q \in Pipe, NEW i \in Slot, NEW s \in SlotRecord,
         slot' = [slot EXCEPT ![q][i] = s]
  PROVE  /\ slot' \in [Pipe -> SlotTable]
         /\ SlotEnds' = [SlotEnds EXCEPT ![q][i] = End1(s)]
         /\ End1(s) = End1(slot[q][i]) => SlotEnds' = SlotEnds
<1>1. slot' \in [Pipe -> SlotTable]
  BY DEF SlotTable, SlotRecord
<1>2. \A x \in Pipe, j \in Slot : slot'[x][j] = IF x = q /\ j = i THEN s ELSE slot[x][j]
  BY DEF SlotTable
<1>3. SlotEnds' = [x \in Pipe |-> [j \in Slot |-> End1(slot'[x][j])]]
  BY DEF SlotEnds, EndsIn, End1
<1>4. SlotEnds = [x \in Pipe |-> [j \in Slot |-> End1(slot[x][j])]]
  BY DEF SlotEnds, EndsIn
<1>5. [SlotEnds EXCEPT ![q][i] = End1(s)]
        = [x \in Pipe |-> [j \in Slot |-> IF x = q /\ j = i THEN End1(s) ELSE End1(slot[x][j])]]
  BY <1>4
<1>6. \A x \in Pipe, j \in Slot :
         End1(slot'[x][j]) = IF x = q /\ j = i THEN End1(s) ELSE End1(slot[x][j])
  BY <1>2
<1>7. End1(s) = End1(slot[q][i]) => SlotEnds' = SlotEnds
  BY <1>3, <1>4, <1>6
<1> QED BY <1>1, <1>3, <1>5, <1>6, <1>7

\* Returned codes have their type.
LEMMA CodeType ==
  ASSUME NEW c \in Int, Returns(c)
  PROVE  ret' \in [code : Int, bytes : Seq(Byte)]
BY DEF Returns

(***************************************************************************)
(* close and exit: what ppipe_close does to the ends is what pipe_close    *)
(* does.                                                                   *)
(***************************************************************************)
LEMMA CloseEnds ==
  ASSUME slot \in [Pipe -> SlotTable], NEW p \in Proc, NEW f \in File, PPipeClose(p, f)
  PROVE  slot' \in [Pipe -> SlotTable] /\ Plain!PipeClose(p, f)
<1> DEFINE q == f.pipe
<1>1. q \in Pipe /\ f.mode \in Mode
  BY DEF File
<1>2. PICK i \in CloseSlots(q, p) :
        LET open == slot[q][i].open \ {f.mode}
            left == Cardinality(ValidSlots(q)) - (IF open = {} THEN 1 ELSE 0)
        IN  /\ slot' = [slot EXCEPT ![q][i] =
                          [valid |-> @.valid /\ open # {}, pid |-> @.pid, front |-> @.front,
                           empty |-> @.empty \/ f.mode = "read", open |-> open]]
            /\ live' = IF left = 0 THEN live \ {q} ELSE live
  BY DEF PPipeClose
<1> HIDE DEF q
<1>3. i \in Slot
  <2>1. SlotsOf(q, p) \in SUBSET Slot
    BY DEF SlotsOf, ValidSlots
  <2>2. SlotsOf(q, p) # {} => Plain!Max(SlotsOf(q, p)) \in SlotsOf(q, p)
    BY <2>1, SameSets, Plain!MinMax, PlainAssumptions
  <2> QED BY <1>2, <2>1, <2>2, SameSets DEF CloseSlots
<1> DEFINE open == slot[q][i].open \ {f.mode}
           s == [valid |-> slot[q][i].valid /\ open # {}, pid |-> slot[q][i].pid,
                 front |-> slot[q][i].front, empty |-> slot[q][i].empty \/ f.mode = "read",
                 open |-> open]
<1>4. slot[q][i] \in SlotRecord
  BY <1>1, <1>3 DEF SlotTable, SlotRecord, q
<1>5. s \in SlotRecord
  BY <1>4 DEF SlotRecord
<1>6. slot' = [slot EXCEPT ![q][i] = s]
  BY <1>1, <1>2, <1>3 DEF SlotTable, q
<1>7. /\ slot' \in [Pipe -> SlotTable]
      /\ SlotEnds' = [SlotEnds EXCEPT ![q][i] = End1(s)]
  <2> HIDE DEF s
  <2> QED BY <1>1, <1>3, <1>5, <1>6, SlotWrite DEF q
<1>8. SlotEnds[q][i] = End1(slot[q][i])
  BY <1>1, <1>3, SameState DEF q
<1>9. End1(s) = [valid |-> SlotEnds[q][i].valid /\ open # {}, pid |-> SlotEnds[q][i].pid,
                 open |-> open]
  BY <1>8 DEF End1
<1>10. open = Plain!EndsLeft(SlotEnds[q][i], f.mode)
  BY <1>8 DEF End1, Plain!EndsLeft
<1>11. live' = IF Plain!ProcessesLeft(q, open) = 0 THEN live \ {q} ELSE live
  BY <1>1, <1>2, SameSets, SameState DEF Plain!ProcessesLeft, q
<1>12. i \in Plain!CloseSlots(q, p)
  BY <1>1, <1>2, SameState DEF q
<1>13. SlotEnds' = [SlotEnds EXCEPT ![q][i] = [valid |-> @.valid /\ open # {},
                                               pid |-> @.pid, open |-> open]]
  <2> HIDE DEF open, s
  <2>1. SlotEnds' = [SlotEnds EXCEPT ![q][i] =
                       [valid |-> SlotEnds[q][i].valid /\ open # {}, pid |-> SlotEnds[q][i].pid,
                        open |-> open]]
    BY <1>7, <1>9
  <2> QED BY <2>1, <1>1, <1>3 DEF SlotEnds, EndsIn, q
<1> QED BY <1>7, <1>10, <1>11, <1>12, <1>13 DEF Plain!PipeClose, q

LEMMA CloseStep ==
  ASSUME EndsInv, NEW p \in Proc, NEW fd \in Fd, Close(p, fd)
  PROVE  EndsInv'
<1>1. files[p][fd] \in File \cup {NoFile} /\ ring' = ring /\ slot \in [Pipe -> SlotTable]
  BY PlainTyped DEF EndsInv, Close
<1>2. CASE files[p][fd] = NoFile
  <2>1. slot' = slot /\ SlotEnds' = SlotEnds
    BY <1>2 DEF Close, SlotEnds, EndsIn
  <2>2. Plain!Close(p, fd)
    BY <1>2, <2>1, SameSets, SameState DEF Close, IdleRing, Plain!Close, EINVAL, Plain!EINVAL
  <2>3. Plain!IInv'
    BY <2>2, SameSets, Plain!CloseStep, PlainAssumptions DEF EndsInv
  <2> QED BY <1>1, <2>1, <2>3 DEF EndsInv
<1>3. CASE files[p][fd] # NoFile
  <2>1. slot' \in [Pipe -> SlotTable] /\ Plain!PipeClose(p, files[p][fd])
    BY <1>1, <1>3, CloseEnds DEF Close
  <2>2. Plain!Close(p, fd)
    BY <1>3, <2>1, SameSets, SameState DEF Close, IdleRing, Plain!Close
  <2>3. Plain!IInv'
    BY <2>2, SameSets, Plain!CloseStep, PlainAssumptions DEF EndsInv
  <2> QED BY <1>1, <2>1, <2>3 DEF EndsInv
<1> QED BY <1>2, <1>3

LEMMA ExitFileStep ==
  ASSUME EndsInv, ExitFile
  PROVE  EndsInv'
<1> DEFINE f == files[kernel.proc][kernel.fd]
<1>1. /\ kernel.op = "exit" /\ kernel.fd < MaxOpenFiles
      /\ kernel' = [kernel EXCEPT !.fd = @ + 1]
      /\ UNCHANGED <<state, ret, ring>>
  BY DEF ExitFile
<1>2. /\ kernel.proc \in Proc /\ kernel.fd \in Fd
      /\ files \in [Proc -> [Fd -> File \cup {NoFile}]]
  BY <1>1, PlainTyped, FilesAssumption DEF EndsInv, KernelLoops, Fd
<1>3. f \in File \cup {NoFile}
  BY <1>2
<1>4. CASE f = NoFile
  <2>1. UNCHANGED <<files, refCount, slot, live>> /\ SlotEnds' = SlotEnds
    BY <1>4 DEF ExitFile, SlotEnds, EndsIn
  <2>2. Plain!ExitFile
    BY <1>1, <1>4, <2>1 DEF IdleRing, Plain!ExitFile
  <2>3. Plain!IInv'
    BY <2>2, Plain!ExitFileStep, PlainAssumptions DEF EndsInv
  <2> QED BY <1>1, <2>1, <2>3 DEF EndsInv
<1>5. CASE f # NoFile
  <2>1. /\ PPipeClose(kernel.proc, f)
        /\ refCount' = Released(f)
        /\ files' = [files EXCEPT ![kernel.proc][kernel.fd] = NoFile]
    BY <1>5 DEF ExitFile
  <2>2. slot' \in [Pipe -> SlotTable] /\ Plain!PipeClose(kernel.proc, f)
    <3> HIDE DEF f
    <3> QED BY <1>2, <1>3, <1>5, <2>1, CloseEnds DEF EndsInv
  <2>3. Plain!ExitFile
    BY <1>1, <1>5, <2>1, <2>2, SameState DEF IdleRing, Plain!ExitFile
  <2>4. Plain!IInv'
    BY <2>3, Plain!ExitFileStep, PlainAssumptions DEF EndsInv
  <2> QED BY <1>1, <2>2, <2>4 DEF EndsInv
<1> QED BY <1>4, <1>5

\* The steps that touch no slot are those of a pipe.
LEMMA ForkExitSteps ==
  ASSUME EndsInv
  PROVE  /\ \A p \in Proc : ForkBegin(p) => EndsInv'
         /\ \A p \in Proc : ExitBegin(p) => EndsInv'
         /\ ForkEnd => EndsInv'
         /\ ExitEnd => EndsInv'
<1>1. ASSUME UNCHANGED <<slot, ring, live>>
      PROVE  UNCHANGED <<SlotEnds, IdleRing, live>>
  BY <1>1 DEF SlotEnds, EndsIn, IdleRing
<1>2. ASSUME UNCHANGED <<slot, ring, live>>, Plain!IInv'
      PROVE  EndsInv'
  BY <1>2 DEF EndsInv
<1>3. ASSUME NEW p \in Proc, ForkBegin(p)
      PROVE  EndsInv'
  <2>1. Plain!ForkBegin(p)
    BY <1>1, <1>3, SameSets, SameState
       DEF ForkBegin, CopyContext, Plain!ForkBegin, Plain!CopyContext
  <2> QED BY <1>2, <1>3, <2>1, Plain!ForkBeginStep, PlainAssumptions DEF EndsInv, ForkBegin
<1>4. ASSUME NEW p \in Proc, ExitBegin(p)
      PROVE  EndsInv'
  <2>1. Plain!ExitBegin(p)
    BY <1>1, <1>4, SameState DEF ExitBegin, EnterExit, Plain!ExitBegin, Plain!EnterExit
  <2> QED BY <1>2, <1>4, <2>1, Plain!ExitBeginStep, PlainAssumptions DEF EndsInv, ExitBegin
<1>5. ASSUME ForkEnd
      PROVE  EndsInv'
  <2>1. Plain!ForkEnd
    BY <1>1, <1>5, SameSets, SameState DEF ForkEnd, LeaveFork, Plain!ForkEnd, Plain!LeaveFork
  <2> QED BY <1>2, <1>5, <2>1, Plain!ForkEndStep, PlainAssumptions DEF EndsInv, ForkEnd
<1>6. ASSUME ExitEnd
      PROVE  EndsInv'
  <2>1. Plain!ExitEnd
    BY <1>1, <1>6, SameSets DEF ExitEnd, FreeContext, Plain!ExitEnd, Plain!FreeContext
  <2> QED BY <1>2, <1>6, <2>1, Plain!ExitEndStep, PlainAssumptions DEF EndsInv, ExitEnd
<1> QED BY <1>3, <1>4, <1>5, <1>6

\* The last of some slots is one of them.
LEMMA LastSlot ==
  ASSUME NEW S \in SUBSET Slot
  PROVE  /\ Last(S) = Plain!Last(S)
         /\ Last(S) = NoSlot <=> S = {}
         /\ S # {} => Last(S) \in S
<1>1. S # {} => Plain!Max(S) \in S
  BY SameSets, Plain!MinMax, PlainAssumptions
<1>2. Last(S) = Plain!Last(S)
  BY SameSets DEF Last, NoSlot, Plain!Last, Plain!NoSlot
<1>3. S # {} => Max(S) \in S /\ Max(S) # NoSlot
  BY <1>1, SameSets, PPipeAssumption DEF NoSlot, Slot
<1> QED BY <1>2, <1>3 DEF Last

(***************************************************************************)
(* fork: do_ppipe_fork gives the child the ends that do_pipe_fork would.   *)
(***************************************************************************)
LEMMA ForkEnds ==
  ASSUME slot \in [Pipe -> SlotTable], NEW child \in Proc, NEW parent \in Proc, NEW f \in File,
         PPipeFork(child, parent, f)
  PROVE  slot' \in [Pipe -> SlotTable] /\ Plain!PipeFork(child, parent, f)
<1> DEFINE q    == f.pipe
           par  == Last(SlotsOf(q, parent))
           mine == IF SlotsOf(q, child) = {} THEN Last(Slot \ ValidSlots(q))
                                             ELSE Last(SlotsOf(q, child))
<1>1. q \in Pipe /\ f.mode \in Mode
  BY DEF File
<1>2. /\ SlotsOf(q, parent) \in SUBSET Slot /\ SlotsOf(q, child) \in SUBSET Slot
      /\ Slot \ ValidSlots(q) \in SUBSET Slot
  BY DEF SlotsOf, ValidSlots
<1>3. /\ par = Plain!Last(Plain!SlotsOf(q, parent))
      /\ mine = Plain!ChildSlot(q, child)
  <2> HIDE DEF q
  <2> QED BY <1>1, <1>2, LastSlot, SameState DEF Plain!ChildSlot, q
<1>4. CASE mine = NoSlot \/ par = NoSlot
  <2>1. slot' = slot /\ kernel' = [kernel EXCEPT !.fd = @ + 1, !.ret = -EOTHERS]
    BY <1>4 DEF PPipeFork, NoSlot
  <2>2. SlotEnds' = SlotEnds
    BY <2>1 DEF SlotEnds, EndsIn
  <2> QED BY <1>3, <1>4, <2>1, <2>2 DEF Plain!PipeFork, NoSlot, Plain!NoSlot, EOTHERS, Plain!EOTHERS
<1>5. CASE mine # NoSlot /\ par # NoSlot
  <2>1. mine \in Slot /\ par \in SlotsOf(q, parent) /\ par \in Slot
    <3> HIDE DEF q
    <3> QED BY <1>2, <1>5, LastSlot
  <2> DEFINE s == [slot[q][par] EXCEPT !.pid  = child,
                                       !.open = EndsCopied(slot[q][mine], slot[q][par], f.mode)]
  <2>2. /\ kernel' = [kernel EXCEPT !.fd = @ + 1, !.ret = 0]
        /\ slot' = [slot EXCEPT ![q][mine] = s]
    BY <1>4, <1>5, <2>1 DEF PPipeFork
  <2>3. /\ slot[q][par] \in SlotRecord /\ slot[q][mine] \in SlotRecord
        /\ slot[q][par].valid = TRUE
    <3>1. slot[q][par] \in SlotRecord /\ slot[q][mine] \in SlotRecord
      BY <1>1, <2>1 DEF SlotTable, SlotRecord
    <3>2. slot[q][par].valid
      BY <2>1 DEF SlotsOf, ValidSlots
    <3> QED BY <3>1, <3>2 DEF SlotRecord
  <2> HIDE DEF q, par, mine
  <2>4. s \in SlotRecord
    BY <1>1, <2>3, FilesAssumption DEF SlotRecord, EndsCopied
  <2>5. End1(s) = [valid |-> TRUE, pid |-> child,
                   open |-> (SlotEnds[q][mine].open \ {f.mode})
                              \cup (SlotEnds[q][par].open \cap {f.mode})]
    <3>1. SlotEnds[q][mine].open = slot[q][mine].open /\ SlotEnds[q][par].open = slot[q][par].open
      <4>1. SlotEnds[q][mine] = End1(slot[q][mine]) /\ SlotEnds[q][par] = End1(slot[q][par])
        BY <1>1, <2>1, SameState
      <4>2. \A x : End1(x).open = x.open
        BY DEF End1
      <4> QED BY <4>1, <4>2
    <3>2. s.valid = TRUE /\ s.pid = child
          /\ s.open = EndsCopied(slot[q][mine], slot[q][par], f.mode)
      BY <2>3 DEF SlotRecord
    <3> QED BY <3>1, <3>2 DEF End1, EndsCopied
  <2>6. /\ slot' \in [Pipe -> SlotTable]
        /\ SlotEnds' = [SlotEnds EXCEPT ![q][mine] = End1(s)]
    <3> HIDE DEF s
    <3> QED BY <1>1, <2>1, <2>2, <2>4, SlotWrite
  <2>7. SlotEnds' = [SlotEnds EXCEPT ![q][mine] =
                       [valid |-> TRUE, pid |-> child,
                        open |-> (@.open \ {f.mode}) \cup (SlotEnds[q][par].open \cap {f.mode})]]
    <3> HIDE DEF s
    <3>1. SlotEnds' = [SlotEnds EXCEPT ![q][mine] =
                       [valid |-> TRUE, pid |-> child,
                        open |-> (SlotEnds[q][mine].open \ {f.mode})
                                   \cup (SlotEnds[q][par].open \cap {f.mode})]]
      BY <2>5, <2>6
    <3> QED BY <3>1, <1>1, <2>1 DEF SlotEnds, EndsIn
  <2> QED BY <1>3, <1>5, <2>2, <2>6, <2>7 DEF Plain!PipeFork, NoSlot, Plain!NoSlot, q
<1> QED BY <1>4, <1>5

LEMMA ForkFileStep ==
  ASSUME EndsInv, ForkFile
  PROVE  EndsInv'
<1> DEFINE f == files[kernel.child][kernel.fd]
<1>1. /\ kernel.op = "fork" /\ kernel.fd < MaxOpenFiles
      /\ UNCHANGED <<state, files, ret, ring, live>>
  BY DEF ForkFile
<1>2. /\ kernel.proc \in Proc /\ kernel.child \in Proc /\ kernel.fd \in Fd
      /\ files \in [Proc -> [Fd -> File \cup {NoFile}]]
  BY <1>1, PlainTyped, FilesAssumption DEF EndsInv, KernelLoops, Fd
<1>3. f \in File \cup {NoFile}
  BY <1>2
<1>4. CASE f = NoFile
  <2>1. /\ UNCHANGED <<refCount, slot>> /\ SlotEnds' = SlotEnds
        /\ kernel' = [kernel EXCEPT !.fd = @ + 1]
    BY <1>4 DEF ForkFile, SlotEnds, EndsIn
  <2>2. Plain!ForkFile
    BY <1>1, <1>4, <2>1 DEF IdleRing, Plain!ForkFile
  <2>3. Plain!IInv'
    BY <2>2, Plain!ForkFileStep, PlainAssumptions DEF EndsInv
  <2> QED BY <1>1, <2>1, <2>3 DEF EndsInv
<1>5. CASE f # NoFile
  <2>1. refCount' = Raised(f) /\ PPipeFork(kernel.child, kernel.proc, f)
    BY <1>5 DEF ForkFile
  <2>2. slot' \in [Pipe -> SlotTable] /\ Plain!PipeFork(kernel.child, kernel.proc, f)
    <3> HIDE DEF f
    <3> QED BY <1>2, <1>3, <1>5, <2>1, ForkEnds DEF EndsInv
  <2>3. Plain!ForkFile
    BY <1>1, <1>5, <2>1, <2>2, SameState DEF IdleRing, Plain!ForkFile
  <2>4. Plain!IInv'
    BY <2>3, Plain!ForkFileStep, PlainAssumptions DEF EndsInv
  <2> QED BY <1>1, <2>2, <2>4 DEF EndsInv
<1> QED BY <1>4, <1>5

\* create: a page with the caller's slot in it.
LEMMA CreateStep ==
  ASSUME EndsInv, NEW p \in Proc, NEW q \in Pipe, NEW page \in PageContents, Create(p, q, page)
  PROVE  EndsInv'
<1> DEFINE s == [valid |-> TRUE, pid |-> p, front |-> 0, empty |-> TRUE, open |-> Mode]
           t == [page EXCEPT ![0] = s]
<1>1. EndsIn(page) \in PageEnds /\ page \in SlotTable
  BY PPipeAssumption DEF PageEnds
<1>2. CASE UNCHANGED <<files, refCount, slot, ring, live>> /\ Cardinality(FreeFds(p)) < 2
           /\ Returns(-ENOMEM)
  <2>1. SlotEnds' = SlotEnds
    BY <1>2 DEF SlotEnds, EndsIn
  <2>2. Plain!Create(p, q, EndsIn(page))
    BY <1>2, <2>1, SameSets, SameState DEF Create, IdleRing, Plain!Create, ENOMEM, Plain!ENOMEM
  <2>3. Plain!IInv'
    BY <1>1, <2>2, Plain!CreateStep, PlainAssumptions DEF EndsInv
  <2> QED BY <1>2, <2>3 DEF EndsInv
<1>3. CASE /\ Cardinality(FreeFds(p)) >= 2
           /\ q \notin live /\ \A m \in Mode : refCount[End(q, m)] = 0
           /\ LET rfd == Min(FreeFds(p))
                  wfd == Min(FreeFds(p) \ {rfd})
              IN  files' = [files EXCEPT ![p][rfd] = End(q, "read"), ![p][wfd] = End(q, "write")]
           /\ refCount' = [f \in File |-> IF f.pipe = q THEN 1 ELSE refCount[f]]
           /\ slot' = [slot EXCEPT ![q] = t]
           /\ ring' = [ring EXCEPT ![q] = NewRing]
           /\ live' = live \cup {q}
           /\ Returns(0)
  <2>1. 0 \in Slot /\ s \in SlotRecord
    BY PPipeAssumption, FilesAssumption, RingAssumption DEF Slot, SlotRecord, Index
  <2>2. t \in SlotTable /\ \A i \in Slot : t[i] = IF i = 0 THEN s ELSE page[i]
    <3> HIDE DEF s
    <3> QED BY <1>1, <2>1 DEF SlotTable, SlotRecord
  <2>3. End1(s) = [valid |-> TRUE, pid |-> p, open |-> Mode]
    BY DEF End1
  <2>4. EndsIn(t) = [EndsIn(page) EXCEPT ![0] = [valid |-> TRUE, pid |-> p, open |-> Mode]]
    <3> HIDE DEF s, t
    <3>1. \A i \in Slot : End1(t[i]) = IF i = 0 THEN End1(s) ELSE End1(page[i])
      BY <2>2
    <3> QED BY <3>1, <2>1, <2>3 DEF EndsIn
  <2> HIDE DEF s, t
  <2>5. slot' \in [Pipe -> SlotTable]
    BY <1>3, <2>2 DEF EndsInv
  <2>6. SlotEnds' = [SlotEnds EXCEPT ![q] = EndsIn(t)]
    <3>1. \A x \in Pipe : slot'[x] = IF x = q THEN t ELSE slot[x]
      BY <1>3 DEF EndsInv
    <3>2. SlotEnds' = [x \in Pipe |-> EndsIn(slot'[x])]
      BY DEF SlotEnds, EndsIn
    <3> QED BY <3>1, <3>2 DEF SlotEnds
  <2>7. IdleRing' = [IdleRing EXCEPT ![q] = NewRing]
    BY DEF IdleRing
  <2>8. NewRing \in RingType
    BY PPipeAssumption DEF NewRing, RingType
  <2>9. Plain!Create(p, q, EndsIn(page))
    <3>1. SlotEnds' = [SlotEnds EXCEPT ![q] = [EndsIn(page) EXCEPT ![0] =
                                                 [valid |-> TRUE, pid |-> p, open |-> Mode]]]
      BY <2>4, <2>6
    <3>2. Calls(p) /\ UNCHANGED <<state, kernel>>
      BY DEF Create
    <3> QED BY <1>3, <2>7, <3>1, <3>2, SameSets, SameState DEF Plain!Create
  <2>10. Plain!IInv'
    BY <1>1, <2>9, Plain!CreateStep, PlainAssumptions DEF EndsInv
  <2>11. ring' \in [Pipe -> RingType]
    BY <1>3, <2>8 DEF EndsInv
  <2> QED BY <2>5, <2>10, <2>11 DEF EndsInv
<1> QED
  <2> HIDE DEF t
  <2> QED BY <1>2, <1>3 DEF Create, t, s

(***************************************************************************)
(* Places in the ring, seen from a reader's front.                         *)
(***************************************************************************)
LEMMA SpanType ==
  ASSUME NEW first \in Int, NEW last \in Int
  PROVE  Span(first, last) \in 1 .. Size
BY RingAssumption DEF Span

\* A front that moves on by n bytes.
LEMMA FrontMoves ==
  ASSUME NEW front \in Index, NEW rear \in Index, NEW n \in 0 .. Span(front, rear)
  PROVE  /\ (front + n) % Size \in Index
         /\ n < Span(front, rear) => Span((front + n) % Size, rear) = Span(front, rear) - n
         /\ n = Span(front, rear) => (front + n) % Size = (rear + 1) % Size
<1> DEFINE x == front + n
           j == x % Size
<1>1. /\ Span(front, rear) = IF rear >= front THEN rear - front + 1 ELSE rear - front + Size + 1
      /\ Span(front, rear) \in 1 .. Size
  BY SpanValue
<1>2. /\ Size \in Int /\ front \in Int /\ rear \in Int /\ n \in Int
      /\ 0 <= front /\ front < Size /\ 0 <= rear /\ rear < Size /\ 0 <= n /\ n <= Size
  BY <1>1, RingAssumption DEF Index
<1>3. x \in Int /\ 0 <= x /\ x < 2 * Size
  BY <1>2
<1>4. j = IF x < Size THEN x ELSE x - Size
  <2> HIDE DEF x
  <2> QED BY <1>3, ModWrap
<1>5. j \in Index
  BY <1>3, ModIndex
<1>6. (rear + 1) % Size = IF rear + 1 < Size THEN rear + 1 ELSE rear + 1 - Size
  BY <1>2, ModWrap
<1> HIDE DEF j
<1>7. Span(j, rear) = IF rear >= j THEN rear - j + 1 ELSE rear - j + Size + 1
  BY <1>5, SpanValue
<1>8. n < Span(front, rear) => Span(j, rear) = Span(front, rear) - n
  BY <1>1, <1>2, <1>4, <1>7
<1>9. n = Span(front, rear) => j = (rear + 1) % Size
  BY <1>1, <1>2, <1>4, <1>6
<1> QED BY <1>5, <1>8, <1>9 DEF j

\* A rear that moves on by n bytes, for a front that has something to read.
LEMMA RearMoves ==
  ASSUME NEW front \in Index, NEW rear \in Index, NEW n \in Nat, Span(front, rear) + n <= Size
  PROVE  Span(front, (rear + n) % Size) = Span(front, rear) + n
<1> DEFINE x == rear + n
           j == x % Size
<1>1. /\ Span(front, rear) = IF rear >= front THEN rear - front + 1 ELSE rear - front + Size + 1
      /\ Span(front, rear) \in 1 .. Size
  BY SpanValue
<1>2. /\ Size \in Int /\ front \in Int /\ rear \in Int /\ n \in Int
      /\ 0 <= front /\ front < Size /\ 0 <= rear /\ rear < Size /\ 0 <= n /\ n < Size
  BY <1>1, RingAssumption DEF Index
<1>3. x \in Int /\ 0 <= x /\ x < 2 * Size
  BY <1>2
<1>4. j = IF x < Size THEN x ELSE x - Size
  <2> HIDE DEF x
  <2> QED BY <1>3, ModWrap
<1>5. j \in Index
  BY <1>3, ModIndex
<1> HIDE DEF j
<1>6. Span(front, j) = IF j >= front THEN j - front + 1 ELSE j - front + Size + 1
  BY <1>5, SpanValue
<1>7. Span(front, j) = Span(front, rear) + n
  BY <1>1, <1>2, <1>4, <1>6
<1> QED BY <1>7 DEF j

\* The same for a front that has read all there was, or waits for the first byte.
LEMMA FirstUnread ==
  ASSUME NEW rear \in Index \cup {NoIndex}, NEW n \in 1 .. Size
  PROVE  Span((rear + 1) % Size, (rear + n) % Size) = n
<1> DEFINE from == (rear + 1) % Size
           x == from + n - 1
           y == rear + n
<1>1. /\ Size \in Int /\ rear \in Int /\ n \in Int
      /\ -1 <= rear /\ rear < Size /\ 1 <= n /\ n <= Size
  BY RingAssumption DEF Index, NoIndex
<1>2. from = IF rear + 1 < Size THEN rear + 1 ELSE rear + 1 - Size
  BY <1>1, ModWrap
<1>3. from \in Index
  BY <1>1, ModIndex
<1>4. Span(from, (from + n - 1) % Size) = n
  <2> HIDE DEF from
  <2> QED BY <1>3, SpanOfPlace
<1> HIDE DEF from
<1>5. x % Size = IF x < Size THEN x ELSE x - Size
  <2>1. x \in Int /\ 0 <= x /\ x < 2 * Size
    BY <1>1, <1>3 DEF Index
  <2> HIDE DEF x
  <2> QED BY <2>1, ModWrap
<1>6. y % Size = IF y < Size THEN y ELSE y - Size
  <2>1. y \in Int /\ 0 <= y /\ y < 2 * Size
    BY <1>1
  <2> HIDE DEF y
  <2> QED BY <2>1, ModWrap
<1>7. x % Size = y % Size
  BY <1>1, <1>2, <1>3, <1>5, <1>6 DEF Index
<1> QED BY <1>4, <1>7 DEF from

\* How far a reader's front is ahead of the front of the ring.
LEMMA Distance ==
  ASSUME NEW front \in Index, NEW x \in Index, NEW rear \in Index,
         Span(x, rear) <= Span(front, rear)
  PROVE  (x - front + Size) % Size = Span(front, rear) - Span(x, rear)
<1> DEFINE y == x - front + Size
<1>1. /\ Span(front, rear) = IF rear >= front THEN rear - front + 1 ELSE rear - front + Size + 1
      /\ Span(x, rear) = IF rear >= x THEN rear - x + 1 ELSE rear - x + Size + 1
  BY SpanValue
<1>2. /\ Size \in Int /\ front \in Int /\ rear \in Int /\ x \in Int
      /\ 0 <= front /\ front < Size /\ 0 <= rear /\ rear < Size /\ 0 <= x /\ x < Size
  BY RingAssumption DEF Index
<1>3. y \in Int /\ 0 <= y /\ y < 2 * Size
  BY <1>2
<1>4. y % Size = IF y < Size THEN y ELSE y - Size
  <2> HIDE DEF y
  <2> QED BY <1>3, ModWrap
<1> QED BY <1>1, <1>2, <1>4

(***************************************************************************)
(* read: only the caller's cursor moves.                                   *)
(***************************************************************************)
LEMMA ReadEffect ==
  ASSUME EndsInv, NEW p \in Proc, NEW fd \in Fd, NEW count \in 0 .. MaxCount, Read(p, fd, count)
  PROVE  \/ slot' = slot /\ ret' \in [code : Int, bytes : Seq(Byte)]
         \/ \E q \in Pipe, i \in Slot :
              LET s == slot[q][i]
                  n == Smaller(count, Unread(s, ring[q]))
              IN  /\ "read" \in s.open
                  /\ n \in Nat /\ s \in SlotRecord
                  /\ slot' = [slot EXCEPT ![q][i] = [s EXCEPT !.front = (@ + n) % Size,
                                                              !.empty = AtEnd(s, ring[q], n)]]
                  /\ ret' \in [code : Int, bytes : Seq(Byte)]
<1> DEFINE f == files[p][fd]
<1>1. f \in File \cup {NoFile}
  BY PlainTyped DEF EndsInv
<1>2. CASE slot' = slot /\ \E c \in Int : Returns(c)
  BY <1>2, CodeType
<1>3. CASE f = NoFile \/ f.mode # "read"
  <2>1. slot' = slot /\ (Returns(-EINVAL) \/ Returns(-EACCES))
    BY <1>3 DEF Read
  <2>2. -EINVAL \in Int /\ -EACCES \in Int
    BY DEF EINVAL, EACCES
  <2> QED BY <1>2, <2>1, <2>2
<1>4. CASE f # NoFile /\ f.mode = "read"
  <2> DEFINE q == f.pipe
  <2>1. PICK i \in IoSlots(q, p) : PPipeRead(q, i, count)
    BY <1>4 DEF Read
  <2>2. q \in Pipe
    BY <1>1, <1>4 DEF File
  <2> HIDE DEF q
  <2>3. i = NoSlot \/ i \in Slot
    <3>1. SlotsOf(q, p) \in SUBSET Slot
      BY DEF SlotsOf, ValidSlots
    <3>2. SlotsOf(q, p) \in SUBSET Nat
      BY <3>1, PPipeAssumption DEF Slot
    <3>3. SlotsOf(q, p) # {} => Min(SlotsOf(q, p)) \in SlotsOf(q, p)
      BY <3>2, SameSets, Plain!MinMax, PlainAssumptions
    <3> QED BY <2>1, <3>1, <3>3 DEF IoSlots
  <2>4. CASE slot' = slot /\ (Returns(-EOTHERS) \/ Returns(-EINVAL))
    <3>1. -EOTHERS \in Int /\ -EINVAL \in Int
      BY DEF EINVAL, EOTHERS
    <3> QED BY <1>2, <2>4, <3>1
  <2> DEFINE s == slot[q][i]
             n == Smaller(count, Unread(s, ring[q]))
  <2>5. CASE /\ i # NoSlot /\ "read" \in s.open
             /\ ret' = [code  |-> n,
                        bytes |-> [k \in 1 .. n |-> ring[q].buf[(s.front + k - 1) % Size]]]
             /\ slot' = [slot EXCEPT ![q][i] = [s EXCEPT !.front = (@ + n) % Size,
                                                         !.empty = AtEnd(s, ring[q], n)]]
    <3>1. s \in SlotRecord /\ ring[q] \in RingType
      BY <2>2, <2>3, <2>5 DEF EndsInv, SlotTable, SlotRecord
    <3>2. Unread(s, ring[q]) \in Nat
      <4>1. s.front \in Int /\ ring[q].rear \in Int
        BY <3>1, RingAssumption DEF SlotRecord, RingType, Index, NoIndex
      <4>2. Span(s.front, ring[q].rear) \in 1 .. Size
        BY <4>1, SpanType
      <4> QED BY <4>2, RingAssumption DEF Unread
    <3>3. n \in Nat
      <4> HIDE DEF s
      <4> QED BY <3>2, PPipeAssumption DEF Smaller
    <3> HIDE DEF n
    <3>4. ASSUME NEW k \in 1 .. n PROVE ring[q].buf[(s.front + k - 1) % Size] \in Byte
      <4>1. s.front + k - 1 \in Int
        BY <3>1, <3>3 DEF SlotRecord, Index
      <4>2. (s.front + k - 1) % Size \in Index
        BY <4>1, ModIndex
      <4> QED BY <3>1, <4>2 DEF RingType
    <3>5. ret'.bytes \in Seq(Byte) /\ ret'.code \in Int
      BY <2>5, <3>3, <3>4
    <3>6. ret' \in [code : Int, bytes : Seq(Byte)]
      BY <2>5, <3>5
    <3> QED BY <2>2, <2>3, <2>5, <3>1, <3>3, <3>6 DEF n
  <2> QED BY <2>1, <2>4, <2>5 DEF PPipeRead
<1> QED BY <1>3, <1>4

LEMMA ReadStep ==
  ASSUME EndsInv, NEW p \in Proc, NEW fd \in Fd, NEW count \in 0 .. MaxCount, Read(p, fd, count)
  PROVE  EndsInv'
<1>1. UNCHANGED <<state, files, refCount, kernel, live>> /\ ring' = ring /\ kernel.op = "user"
  BY DEF Read, Calls
<1>2. slot' \in [Pipe -> SlotTable] /\ SlotEnds' = SlotEnds
      /\ ret' \in [code : Int, bytes : Seq(Byte)]
  <2>1. CASE slot' = slot /\ ret' \in [code : Int, bytes : Seq(Byte)]
    BY <2>1 DEF EndsInv, SlotEnds, EndsIn
  <2>2. ASSUME NEW q \in Pipe, NEW i \in Slot, NEW n \in Nat, NEW e \in BOOLEAN,
               slot[q][i] \in SlotRecord,
               slot' = [slot EXCEPT ![q][i] = [slot[q][i] EXCEPT !.front = (@ + n) % Size,
                                                                 !.empty = e]]
        PROVE  slot' \in [Pipe -> SlotTable] /\ SlotEnds' = SlotEnds
    <3> DEFINE s == slot[q][i]
               t == [s EXCEPT !.front = (@ + n) % Size, !.empty = e]
    <3>1. s.front + n \in Int
      BY <2>2 DEF SlotRecord, Index
    <3>2. (s.front + n) % Size \in Index
      BY <3>1, ModIndex
    <3>3. t \in SlotRecord /\ End1(t) = End1(s)
      BY <2>2, <3>2 DEF SlotRecord, End1
    <3> HIDE DEF t
    <3> QED BY <2>2, <3>3, SlotWrite DEF EndsInv, t
  <2>3. CASE ~ (slot' = slot /\ ret' \in [code : Int, bytes : Seq(Byte)])
    <3>1. PICK q \in Pipe, i \in Slot :
            LET s == slot[q][i]
                n == Smaller(count, Unread(s, ring[q]))
            IN  /\ n \in Nat /\ s \in SlotRecord
                /\ slot' = [slot EXCEPT ![q][i] = [s EXCEPT !.front = (@ + n) % Size,
                                                            !.empty = AtEnd(s, ring[q], n)]]
                /\ ret' \in [code : Int, bytes : Seq(Byte)]
      BY <2>3, ReadEffect
    <3> DEFINE n == Smaller(count, Unread(slot[q][i], ring[q]))
               e == AtEnd(slot[q][i], ring[q], n)
    <3>2. e \in BOOLEAN
      BY DEF AtEnd
    <3>3. /\ n \in Nat /\ slot[q][i] \in SlotRecord
          /\ slot' = [slot EXCEPT ![q][i] = [slot[q][i] EXCEPT !.front = (@ + n) % Size,
                                                               !.empty = e]]
      BY <3>1
    <3> HIDE DEF n, e
    <3> QED BY <2>2, <3>1, <3>2, <3>3
  <2> QED BY <2>1, <2>3
<1> QED BY <1>1, <1>2, CursorStep DEF EndsInv

\* The greatest of some numbers up to a bound is one of them.
LEMMA MaxOfSome ==
  ASSUME NEW n \in Nat, NEW S \in SUBSET (1 .. n), S # {}
  PROVE  Max(S) \in S
<1> DEFINE T == {n - x : x \in S}
<1>1. \A x \in S : x \in Nat /\ n - x \in Nat
  OBVIOUS
<1>2. T \in SUBSET Nat /\ T # {}
  BY <1>1
<1>3. PICK t \in T : \A u \in T : t <= u
  BY <1>2, Plain!LeastNat, PlainAssumptions
<1>4. PICK x \in S : t = n - x
  BY <1>3
<1>5. ASSUME NEW y \in S PROVE x >= y
  <2>1. n - x <= n - y
    BY <1>3, <1>4
  <2> QED BY <1>1, <2>1
<1> QED BY <1>5 DEF Max

\* The bytes a write stores, and the ring it leaves.
LEMMA StoredType ==
  ASSUME NEW r \in RingType, NEW data \in Seq(Byte)
  PROVE  /\ Stored(r, data) \in Nat
         /\ PastTheTable(Filled(r, data)) \in RingType
<1>1. ASSUME NEW s \in RingType PROVE PastTheTable(s) \in RingType
  BY PPipeAssumption DEF PastTheTable, RingType
<1>2. CASE WellFormed(r)
  <2>1. r \in Rings
    BY <1>2 DEF Rings
  <2>2. Accepted(r, Len(data)) \in Nat
    <3>1. Accepted(r, Len(data)) \in 0 .. (Size - Length(r)) /\ Length(r) \in 0 .. Size
      BY <2>1, AcceptedType, LengthType
    <3> QED BY <3>1, RingAssumption
  <2>3. Push(r, data) \in Rings
    BY <2>1, PushAppends
  <2> QED BY <1>1, <1>2, <2>2, <2>3 DEF Stored, Filled, Rings
<1>3. CASE ~ WellFormed(r)
  <2>1. (r.rear + Len(data)) % Size \in Index
    <3>1. r.rear + Len(data) \in Int
      BY RingAssumption DEF RingType, Index, NoIndex
    <3> QED BY <3>1, ModIndex
  <2> DEFINE hits(i) == {k \in 1 .. Len(data) : (r.rear + k) % Size = i}
  <2>2. ASSUME NEW i \in Index
        PROVE  (IF hits(i) = {} THEN r.buf[i] ELSE data[Max(hits(i))]) \in Byte
    <3>1. CASE hits(i) = {}
      BY <3>1 DEF RingType
    <3>2. CASE hits(i) # {}
      <4>1. hits(i) \in SUBSET (1 .. Len(data))
        OBVIOUS
      <4> DEFINE H == hits(i)
                 n == Len(data)
      <4>2. n \in Nat /\ H \in SUBSET (1 .. n) /\ H # {}
        BY <3>2, <4>1
      <4>3. Max(H) \in 1 .. n
        <5> HIDE DEF H, n
        <5> QED BY <4>2, MaxOfSome
      <4>4. data[Max(hits(i))] \in Byte
        BY <4>3
      <4> QED BY <3>2, <4>4
    <3> QED BY <3>1, <3>2
  <2>3. RunRound(r, data) \in RingType
    <3>1. [i \in Index |-> IF hits(i) = {} THEN r.buf[i] ELSE data[Max(hits(i))]] \in [Index -> Byte]
      BY <2>2
    <3>2. RunRound(r, data) = [r EXCEPT !.rear = (@ + Len(data)) % Size,
            !.buf = [i \in Index |-> IF hits(i) = {} THEN r.buf[i] ELSE data[Max(hits(i))]]]
      BY DEF RunRound
    <3> HIDE DEF hits
    <3> QED BY <2>1, <3>1, <3>2 DEF RingType
  <2> QED BY <1>1, <1>3, <2>3 DEF Stored, Filled
<1> QED BY <1>2, <1>3

(***************************************************************************)
(* write: a ring, and the marks of those who can read it.                  *)
(***************************************************************************)
LEMMA WriteEffect ==
  ASSUME EndsInv, NEW p \in Proc, NEW fd \in Fd, NEW data \in UserData, Write(p, fd, data)
  PROVE  /\ data \in Seq(Byte) /\ ret' \in [code : Int, bytes : Seq(Byte)]
         /\ \/ slot' = slot /\ ring' = ring
            \/ \E q \in Pipe : /\ Stored(ring[q], data) # 0
                               /\ ring' = [ring EXCEPT ![q] = PastTheTable(Filled(@, data))]
                               /\ slot' = [slot EXCEPT ![q] = WakeReaders(@)]
<1> DEFINE f == files[p][fd]
<1>1. f \in File \cup {NoFile}
  BY PlainTyped DEF EndsInv
<1>2. data \in Seq(Byte)
  <2>1. PICK n \in 0 .. MaxCount : data \in [1 .. n -> Byte]
    BY DEF UserData
  <2>2. n \in Nat
    BY PPipeAssumption
  <2> QED BY <2>1, <2>2
<1>3. -EINVAL \in Int /\ -EACCES \in Int /\ -EOTHERS \in Int
  BY DEF EINVAL, EACCES, EOTHERS
<1>4. CASE f = NoFile \/ f.mode # "write"
  <2>1. slot' = slot /\ ring' = ring /\ (Returns(-EINVAL) \/ Returns(-EACCES))
    BY <1>4 DEF Write
  <2> QED BY <1>2, <1>3, <2>1, CodeType
<1>5. CASE f # NoFile /\ f.mode = "write"
  <2> DEFINE q == f.pipe
  <2>1. PICK i \in IoSlots(q, p) : PPipeWrite(q, i, data)
    BY <1>5 DEF Write
  <2>2. q \in Pipe /\ ring[q] \in RingType
    BY <1>1, <1>5 DEF File, EndsInv
  <2>3. CASE slot' = slot /\ ring' = ring /\ (Returns(-EINVAL) \/ Returns(-EOTHERS))
    BY <1>2, <1>3, <2>3, CodeType
  <2>4. CASE /\ Returns(Stored(ring[q], data))
             /\ IF Stored(ring[q], data) = 0
                  THEN UNCHANGED <<slot, ring>>
                  ELSE /\ ring' = [ring EXCEPT ![q] = PastTheTable(Filled(@, data))]
                       /\ slot' = [slot EXCEPT ![q] = WakeReaders(@)]
    <3>1. Stored(ring[q], data) \in Int
      BY <1>2, <2>2, StoredType
    <3> QED BY <1>2, <2>2, <2>4, <3>1, CodeType
  <2> HIDE DEF q
  <2> QED BY <2>1, <2>3, <2>4 DEF PPipeWrite
<1> QED BY <1>4, <1>5

LEMMA WriteStep ==
  ASSUME EndsInv, NEW p \in Proc, NEW fd \in Fd, NEW data \in UserData, Write(p, fd, data)
  PROVE  EndsInv'
<1>1. UNCHANGED <<state, files, refCount, kernel, live>> /\ kernel.op = "user"
  BY DEF Write, Calls
<1>2. CASE slot' = slot /\ ring' = ring
  <2>1. SlotEnds' = SlotEnds
    BY <1>2 DEF SlotEnds, EndsIn
  <2> QED BY <1>1, <1>2, <2>1, WriteEffect, CursorStep DEF EndsInv
<1>3. ASSUME NEW q \in Pipe,
             ring' = [ring EXCEPT ![q] = PastTheTable(Filled(@, data))],
             slot' = [slot EXCEPT ![q] = WakeReaders(@)]
      PROVE  EndsInv'
  <2>1. ring' \in [Pipe -> RingType]
    <3>1. PastTheTable(Filled(ring[q], data)) \in RingType
      BY WriteEffect, StoredType DEF EndsInv
    <3> QED BY <1>3, <3>1 DEF EndsInv
  <2>2. ASSUME NEW t \in SlotTable
        PROVE  WakeReaders(t) \in SlotTable /\ EndsIn(WakeReaders(t)) = EndsIn(t)
    <3>1. ASSUME NEW i \in Slot
          PROVE  /\ WakeReaders(t)[i] \in SlotRecord
                 /\ End1(WakeReaders(t)[i]) = End1(t[i])
      <4> DEFINE e == t[i].empty /\ ~ (t[i].valid /\ "read" \in t[i].open)
      <4>1. WakeReaders(t)[i] = [t[i] EXCEPT !.empty = e]
        BY DEF WakeReaders
      <4>2. t[i] \in SlotRecord
        BY DEF SlotTable, SlotRecord
      <4>3. e \in BOOLEAN
        OBVIOUS
      <4> HIDE DEF e
      <4> QED BY <4>1, <4>2, <4>3 DEF SlotRecord, End1
    <3> QED BY <3>1 DEF WakeReaders, SlotTable, SlotRecord, EndsIn
  <2>3. slot[q] \in SlotTable /\ slot' \in [Pipe -> SlotTable]
    BY <1>3, <2>2 DEF EndsInv
  <2>4. \A x \in Pipe : EndsIn(slot'[x]) = EndsIn(slot[x])
    BY <1>3, <2>2, <2>3 DEF EndsInv
  <2>5. SlotEnds' = SlotEnds
    <3>1. SlotEnds' = [x \in Pipe |-> EndsIn(slot'[x])]
      BY DEF SlotEnds, EndsIn
    <3> QED BY <2>4, <3>1 DEF SlotEnds
  <2> QED BY <1>1, <2>1, <2>3, <2>5, WriteEffect, CursorStep DEF EndsInv
<1> QED BY <1>2, <1>3, WriteEffect

\* What flush may give back is a number of bytes.
LEMMA ReclaimableType ==
  ASSUME EndsInv, NEW q \in Pipe
  PROVE  /\ Reclaimable(q) \in Nat
         /\ Held(ring[q]) \in 1 .. Size
         /\ Passed(q) \in SUBSET Nat
         /\ Reclaimable(q) <= Held(ring[q])
         /\ \A x \in Passed(q) : Reclaimable(q) <= x
<1>1. ring[q].front \in Int /\ ring[q].rear \in Int /\ ring[q].front < Size /\ Size \in Nat
  BY RingAssumption DEF EndsInv, RingType, Index, NoIndex
<1>2. Held(ring[q]) \in 1 .. Size
  BY <1>1, SpanType DEF Held
<1>3. ASSUME NEW i \in Slot PROVE (slot[q][i].front - ring[q].front + Size) % Size \in Nat
  <2>1. slot[q][i].front \in Int
    BY DEF EndsInv, SlotTable, Index
  <2>2. slot[q][i].front - ring[q].front + Size \in Int
    BY <1>1, <2>1
  <2>3. (slot[q][i].front - ring[q].front + Size) % Size \in Index
    BY <2>2, ModIndex
  <2> QED BY <2>3, <1>1 DEF Index
<1>4. Passed(q) \in SUBSET Nat
  BY <1>3 DEF Passed, ValidSlots
<1> DEFINE S == {Held(ring[q])} \cup Passed(q)
<1>5. S \in SUBSET Nat /\ S # {}
  BY <1>1, <1>2, <1>4
<1>6. PICK x \in S : \A y \in S : x <= y
  <2> HIDE DEF S
  <2> QED BY <1>5, Plain!LeastNat, PlainAssumptions
<1>7. Min(S) \in S /\ \A y \in S : Min(S) <= y
  <2> HIDE DEF S
  <2> QED BY <1>6 DEF Min
<1> QED BY <1>2, <1>4, <1>5, <1>7 DEF Reclaimable

(***************************************************************************)
(* flush: only a ring changes.                                             *)
(***************************************************************************)
LEMMA FlushEffect ==
  ASSUME EndsInv, NEW p \in Proc, NEW fd \in Fd, Flush(p, fd)
  PROVE  /\ ret' \in [code : Int, bytes : Seq(Byte)]
         /\ \/ ring' = ring
            \/ LET q == files[p][fd].pipe
               IN  /\ files[p][fd] # NoFile /\ q \in Pipe /\ ~ IsEmpty(ring[q]) /\ HasReader(q)
                   /\ ring' = [ring EXCEPT ![q] =
                        IF FlushesAll(q) THEN FullyFlushed(@)
                        ELSE PartlyFlushed(@, Reclaimable(q))]
<1> DEFINE f == files[p][fd]
           q == f.pipe
<1>1. f \in File \cup {NoFile}
  BY PlainTyped DEF EndsInv
<1>2. CASE ring' = ring /\ (Returns(-1) \/ Returns(0))
  BY <1>2, CodeType
<1>3. CASE /\ f # NoFile /\ ~ IsEmpty(ring[q]) /\ HasReader(q)
           /\ Returns(Reclaimable(q))
           /\ ring' = [ring EXCEPT ![q] =
                IF FlushesAll(q) THEN FullyFlushed(@)
                ELSE PartlyFlushed(@, Reclaimable(q))]
  <2>1. q \in Pipe
    BY <1>1, <1>3 DEF File
  <2>2. Reclaimable(q) \in Int
    <3> HIDE DEF q
    <3> QED BY <2>1, ReclaimableType
  <2> QED BY <1>3, <2>1, <2>2, CodeType
<1> QED BY <1>2, <1>3 DEF Flush

LEMMA FlushStep ==
  ASSUME EndsInv, NEW p \in Proc, NEW fd \in Fd, Flush(p, fd)
  PROVE  EndsInv'
<1>1. UNCHANGED <<state, files, refCount, kernel, live>> /\ slot' = slot /\ kernel.op = "user"
  BY DEF Flush, Calls
<1>2. SlotEnds' = SlotEnds
  BY <1>1 DEF SlotEnds, EndsIn
<1>3. ring' \in [Pipe -> RingType]
  <2>1. CASE ring' = ring
    BY <2>1 DEF EndsInv
  <2>2. CASE ring' # ring
    <3> DEFINE q == files[p][fd].pipe
    <3>1. /\ q \in Pipe
          /\ ring' = [ring EXCEPT ![q] = IF FlushesAll(q) THEN FullyFlushed(@)
                                         ELSE PartlyFlushed(@, Reclaimable(q))]
      BY <2>2, FlushEffect
    <3> HIDE DEF q
    <3>2. ring[q] \in RingType /\ Reclaimable(q) \in Nat
      BY <3>1, ReclaimableType DEF EndsInv
    <3>3. FullyFlushed(ring[q]) \in RingType
      <4>1. 1 \in Index
        BY PPipeAssumption, RingAssumption DEF Index
      <4> QED BY <3>2, <4>1 DEF FullyFlushed, RingType
    <3>4. Moved(ring[q].front, Reclaimable(q)) \in Index \cup {NoIndex}
      <4>1. ring[q].front \in Int /\ -1 <= ring[q].front
        BY <3>2, RingAssumption DEF RingType, Index, NoIndex
      <4>2. (ring[q].front + Reclaimable(q)) % Size \in Index
        BY <3>2, <4>1, ModIndex
      <4> QED BY <3>2, <4>1, <4>2 DEF Moved, NoIndex
    <3>5. PartlyFlushed(ring[q], Reclaimable(q)) \in RingType
      BY <3>2, <3>4 DEF PartlyFlushed, RingType
    <3> DEFINE r == IF FlushesAll(q) THEN FullyFlushed(ring[q])
                    ELSE PartlyFlushed(ring[q], Reclaimable(q))
    <3>6. r \in RingType
      BY <3>3, <3>5
    <3>7. ring' = [ring EXCEPT ![q] = r]
      BY <3>1
    <3> HIDE DEF r
    <3> QED BY <3>1, <3>6, <3>7 DEF EndsInv
  <2> QED BY <2>1, <2>2
<1> QED BY <1>1, <1>2, <1>3, FlushEffect, CursorStep DEF EndsInv

LEMMA EndsInit == Init => EndsInv
<1> SUFFICES ASSUME Init PROVE EndsInv
  OBVIOUS
<1>1. slot \in [Pipe -> SlotTable] /\ ring \in [Pipe -> RingType]
  <2>1. NoTable \in SlotTable
    BY RingAssumption DEF NoTable, SlotTable, Index
  <2>2. NewRing \in RingType
    BY PPipeAssumption DEF NewRing, RingType
  <2> QED BY <2>1, <2>2 DEF Init
<1>2. SlotEnds = [q \in Pipe |-> Plain!NoTable]
  <2>1. EndsIn(NoTable) = Plain!NoTable
    BY SameSets DEF EndsIn, End1, NoTable, Plain!NoTable
  <2> QED BY <2>1 DEF Init, SlotEnds
<1>3. Plain!FilesInit
  BY SameSets DEF Init, FilesInit, Plain!FilesInit
<1>4. Plain!Init
  BY <1>2, <1>3, SameSets DEF Init, IdleRing, Plain!Init
<1> QED BY <1>1, <1>4, Plain!InitInv, PlainAssumptions DEF EndsInv

\* Every step of every program preserves the invariant.
LEMMA EndsNext ==
  EndsInv /\ [PlainNext \/ \E p \in Proc, fd \in Fd : Flush(p, fd)]_vars => EndsInv'
<1> SUFFICES ASSUME EndsInv, [PlainNext \/ \E p \in Proc, fd \in Fd : Flush(p, fd)]_vars
             PROVE  EndsInv'
  OBVIOUS
<1>1. ASSUME NEW p \in Proc, NEW q \in Pipe, NEW page \in PageContents, Create(p, q, page)
      PROVE  EndsInv'
  BY <1>1, CreateStep
<1>2. ASSUME NEW p \in Proc, NEW fd \in Fd, NEW count \in 0 .. MaxCount, Read(p, fd, count)
      PROVE  EndsInv'
  BY <1>2, ReadStep
<1>3. ASSUME NEW p \in Proc, NEW fd \in Fd, NEW data \in UserData, Write(p, fd, data)
      PROVE  EndsInv'
  BY <1>3, WriteStep
<1>4. ASSUME NEW p \in Proc, NEW fd \in Fd, Close(p, fd) PROVE EndsInv'
  BY <1>4, CloseStep
<1>5. ASSUME NEW p \in Proc, ForkBegin(p) \/ ExitBegin(p) PROVE EndsInv'
  BY <1>5, ForkExitSteps
<1>6. CASE ForkFile \/ ForkEnd \/ ExitFile \/ ExitEnd
  BY <1>6, ForkFileStep, ExitFileStep, ForkExitSteps
<1>7. ASSUME NEW p \in Proc, NEW fd \in Fd, Flush(p, fd) PROVE EndsInv'
  BY <1>7, FlushStep
<1>8. CASE UNCHANGED vars
  <2>1. UNCHANGED <<state, files, refCount, kernel, ret, slot, ring, live>>
    BY <1>8 DEF vars
  <2>2. SlotEnds' = SlotEnds /\ IdleRing' = IdleRing
    BY <2>1 DEF SlotEnds, EndsIn, IdleRing
  <2>3. Plain!IInv'
    BY <2>1, <2>2, Plain!NextInv, PlainAssumptions DEF EndsInv, Plain!vars
  <2> QED BY <2>1, <2>3 DEF EndsInv
<1> QED BY <1>1, <1>2, <1>3, <1>4, <1>5, <1>6, <1>7, <1>8 DEF PlainNext

\* The inductive invariant holds in every state.
LEMMA EndsInvariance == Spec => []EndsInv
<1>1. Init => EndsInv
  BY EndsInit
<1>2. EndsInv /\ [PlainNext \/ \E p \in Proc, fd \in Fd : Flush(p, fd)]_vars => EndsInv'
  BY EndsNext
<1> QED BY <1>1, <1>2, PTL DEF Spec

(***************************************************************************)
(* The variables keep their types, whatever is flushed and wherever the    *)
(* memory of the table lies: no index of a ring or of a reader leaves its  *)
(* page (ppipe.c:288-304, 375-403, 487-529).                               *)
(***************************************************************************)
THEOREM PPipeTypeCorrect == Spec => []TypeOK
<1>1. EndsInv => TypeOK
  BY PlainTyped DEF EndsInv, TypeOK
<1> QED BY <1>1, EndsInvariance, PTL

(***************************************************************************)
(* The slots of a persistent pipe say who has which end open, one slot for *)
(* each process (ppipe.c:82-219).                                          *)
(***************************************************************************)
THEOREM PPipeSlotsCorrect == Spec => []SlotsMatchDescriptors
<1>1. EndsInv => SlotsMatchDescriptors
  <2> SUFFICES ASSUME EndsInv PROVE SlotsMatchDescriptors
    OBVIOUS
  <2>1. Plain!SlotsMatchDescriptors
    BY Plain!SlotsMatch, PlainAssumptions DEF EndsInv
  <2>2. live \in SUBSET Pipe
    BY PlainTyped DEF EndsInv
  <2>3. \A q \in live : \A i \in ValidSlots(q) :
          /\ SlotEnds[q][i].open = slot[q][i].open
          /\ SlotEnds[q][i].pid = slot[q][i].pid
    <3>1. \A q \in live : \A i \in ValidSlots(q) : SlotEnds[q][i] = End1(slot[q][i])
      BY <2>2, SameState DEF ValidSlots
    <3>2. \A s : End1(s).open = s.open /\ End1(s).pid = s.pid
      BY DEF End1
    <3> QED BY <3>1, <3>2
  <2>4. \A q \in live : Plain!ValidSlots(q) = ValidSlots(q)
    BY <2>2, SameState
  <2>5. \A q \in live, p \in Proc :
           Plain!Cardinality(Plain!SlotsOf(q, p)) = Cardinality(SlotsOf(q, p))
    BY <2>2, SameSets, SameState
  <2>6. ASSUME NEW q \in live, NEW i \in ValidSlots(q)
        PROVE  /\ slot[q][i].open = {m \in Mode : Holds(slot[q][i].pid, End(q, m))}
               /\ slot[q][i].open # {}
    <3>1. /\ SlotEnds[q][i].open = {m \in Mode : Plain!Holds(SlotEnds[q][i].pid, End(q, m))}
          /\ SlotEnds[q][i].open # {}
      BY <2>1, <2>4, SameSets DEF Plain!SlotsMatchDescriptors
    <3> QED BY <2>3, <3>1, SameState
  <2>7. ASSUME NEW q \in live, NEW p \in Proc, \E m \in Mode : Holds(p, End(q, m))
        PROVE  Cardinality(SlotsOf(q, p)) = 1
    <3>1. \E m \in Plain!Mode : Plain!Holds(p, Plain!End(q, m))
      BY <2>7, SameSets, SameState
    <3> QED BY <2>1, <2>5, <3>1 DEF Plain!SlotsMatchDescriptors
  <2> QED BY <2>6, <2>7 DEF SlotsMatchDescriptors
<1> QED BY <1>1, EndsInvariance, PTL

(***************************************************************************)
(* The reference counts of the two files of a persistent pipe are those of *)
(* its descriptors, its pages last as long as it has one, and no fork      *)
(* handler fails (ppipe.c:82-219, file.c:41-118).                          *)
(***************************************************************************)
THEOREM PPipeFilesCorrect ==
  Spec => [](/\ \A f \in File : refCount[f] = Cardinality(Refs(f))
             /\ \A q \in Pipe : q \in live <=> \E p \in Proc, m \in Mode : Holds(p, End(q, m))
             /\ kernel.ret = 0)
<1> DEFINE Inv == /\ \A f \in File : refCount[f] = Cardinality(Refs(f))
                  /\ \A q \in Pipe : q \in live <=> \E p \in Proc, m \in Mode : Holds(p, End(q, m))
                  /\ kernel.ret = 0
<1>1. EndsInv => Inv
  <2> SUFFICES ASSUME EndsInv PROVE Inv
    OBVIOUS
  <2>1. \A f \in File : refCount[f] = Cardinality(Refs(f))
    <3>1. \A f : Plain!Refs(f) = Refs(f)
      BY SameSets DEF Refs, Counted, Plain!Refs, Plain!Counted
    <3>2. Plain!CountsMatchDescriptors
      BY DEF EndsInv, Plain!IInv
    <3> QED BY <3>1, <3>2, SameSets DEF Plain!CountsMatchDescriptors
  <2>2. ASSUME NEW q \in Pipe
        PROVE  q \in live <=> \E p \in Proc, m \in Mode : Holds(p, End(q, m))
    <3>1. Plain!LiveWhileOpen
      BY Plain!LiveMatch, PlainAssumptions DEF EndsInv
    <3> QED BY <3>1, SameSets, SameState DEF Plain!LiveWhileOpen
  <2>3. kernel.ret = 0
    BY DEF EndsInv, Plain!IInv, Plain!KernelInv
  <2> QED BY <2>1, <2>2, <2>3
<1> HIDE DEF Inv
<1>2. Spec => []Inv
  BY <1>1, EndsInvariance, PTL
<1> QED BY <1>2 DEF Inv

(***************************************************************************)
(* The fronts of the readers.  As long as no flush takes everything, both  *)
(* indices of a ring take the value -1 together, and each reader's front   *)
(* lies where FrontsInRing says.                                           *)
(***************************************************************************)
InRing(s, r) ==
  /\ ~ s.empty => ~ IsEmpty(r) /\ Unread(s, r) <= Length(r)
  /\ s.empty => s.front = (r.rear + 1) % Size

FrontsInv ==
  /\ EndsInv
  /\ \A q \in Pipe : ring[q] \in Rings
  /\ FrontsInRing

\* FrontsInRing, slot by slot.
LEMMA FrontsBySlot ==
  /\ FrontsInRing <=> \A q \in live : \A i \in Slot :
                        slot[q][i].valid /\ "read" \in slot[q][i].open => InRing(slot[q][i], ring[q])
  /\ FrontsInRing' <=> \A q \in live' : \A i \in Slot :
                        slot'[q][i].valid /\ "read" \in slot'[q][i].open => InRing(slot'[q][i], ring'[q])
BY DEF FrontsInRing, ValidSlots, InRing

\* A step after which every reader stands where some reader stood before.
LEMMA FrontsFrame ==
  ASSUME FrontsInRing, live' \subseteq live, ring' = ring,
         \A q \in live' : \A i \in Slot :
           slot'[q][i].valid /\ "read" \in slot'[q][i].open =>
             \E j \in Slot : /\ slot[q][j].valid /\ "read" \in slot[q][j].open
                             /\ slot'[q][i].front = slot[q][j].front
                             /\ slot'[q][i].empty = slot[q][j].empty
  PROVE  FrontsInRing'
<1> SUFFICES ASSUME NEW q \in live', NEW i \in Slot,
                    slot'[q][i].valid /\ "read" \in slot'[q][i].open
             PROVE  InRing(slot'[q][i], ring'[q])
  BY FrontsBySlot
<1>1. PICK j \in Slot : /\ slot[q][j].valid /\ "read" \in slot[q][j].open
                        /\ slot'[q][i].front = slot[q][j].front
                        /\ slot'[q][i].empty = slot[q][j].empty
  OBVIOUS
<1>2. InRing(slot[q][j], ring[q])
  BY <1>1, FrontsBySlot
<1> QED BY <1>1, <1>2 DEF InRing, Unread

\* A reader that reads on stays in the ring.
LEMMA ReadsOn ==
  ASSUME NEW s \in SlotRecord, NEW r \in Rings, InRing(s, r), NEW count \in Nat
  PROVE  LET n == Smaller(count, Unread(s, r))
         IN  InRing([s EXCEPT !.front = (@ + n) % Size, !.empty = AtEnd(s, r, n)], r)
<1> DEFINE n == Smaller(count, Unread(s, r))
           e == AtEnd(s, r, n)
           t == [s EXCEPT !.front = (@ + n) % Size, !.empty = e]
<1> SUFFICES InRing(t, r)
  OBVIOUS
<1>1. t.front = (s.front + n) % Size /\ t.empty = e /\ s.front \in Index
  BY DEF SlotRecord
<1>2. CASE s.empty
  <2>1. Unread(s, r) = 0 /\ n = 0 /\ e = TRUE
    BY <1>2 DEF Unread, Smaller, AtEnd
  <2>2. (s.front + 0) % Size = s.front
    BY <1>1, RingAssumption DEF Index
  <2>3. t.front = s.front /\ t.empty = TRUE
    BY <1>1, <2>1, <2>2
  <2> HIDE DEF t
  <2> QED BY <1>2, <2>3 DEF InRing
<1>3. CASE ~ s.empty
  <2>1. /\ ~ IsEmpty(r) /\ Unread(s, r) = Span(s.front, r.rear) /\ Unread(s, r) <= Length(r)
        /\ r.rear \in Index
    BY <1>3, RingFields DEF InRing, Unread
  <2>2. Span(s.front, r.rear) \in 1 .. Size /\ Length(r) \in 0 .. Size
    BY <1>1, <2>1, SpanValue, LengthType
  <2>3. n \in 0 .. Span(s.front, r.rear)
    <3> HIDE DEF n
    <3> QED BY <2>1, <2>2, RingAssumption DEF Smaller, n
  <2>4. e <=> n = Span(s.front, r.rear)
    BY <1>3, <2>1 DEF AtEnd
  <2> HIDE DEF t, e, n
  <2>5. /\ n < Span(s.front, r.rear) =>
             Span((s.front + n) % Size, r.rear) = Span(s.front, r.rear) - n
        /\ n = Span(s.front, r.rear) => (s.front + n) % Size = (r.rear + 1) % Size
    BY <1>1, <2>1, <2>3, FrontMoves
  <2>6. CASE e
    BY <1>1, <2>4, <2>5, <2>6 DEF InRing
  <2>7. CASE ~ e
    <3>1. n < Span(s.front, r.rear)
      BY <2>2, <2>3, <2>4, <2>7, RingAssumption
    <3>2. Unread(t, r) = Span(s.front, r.rear) - n
      BY <1>1, <2>5, <2>7, <3>1 DEF Unread
    <3>3. Unread(t, r) <= Length(r)
      BY <2>1, <2>2, <2>3, <3>2, RingAssumption
    <3> QED BY <1>1, <2>1, <2>7, <3>3 DEF InRing
  <2> QED BY <2>6, <2>7
<1> QED BY <1>2, <1>3

LEMMA ReadFronts ==
  ASSUME FrontsInv, NEW p \in Proc, NEW fd \in Fd, NEW count \in 0 .. MaxCount, Read(p, fd, count)
  PROVE  FrontsInv'
<1>1. EndsInv /\ EndsInv' /\ ring' = ring /\ live' = live
  BY ReadStep DEF FrontsInv, Read
<1>2. CASE slot' = slot
  BY <1>1, <1>2, FrontsFrame DEF FrontsInv
<1>3. CASE slot' # slot
  <2>1. PICK q \in Pipe, i \in Slot :
          LET s == slot[q][i]
              n == Smaller(count, Unread(s, ring[q]))
          IN  /\ "read" \in s.open
              /\ n \in Nat /\ s \in SlotRecord
              /\ slot' = [slot EXCEPT ![q][i] = [s EXCEPT !.front = (@ + n) % Size,
                                                          !.empty = AtEnd(s, ring[q], n)]]
              /\ ret' \in [code : Int, bytes : Seq(Byte)]
    BY <1>1, <1>3, ReadEffect
  <2> DEFINE s == slot[q][i]
             n == Smaller(count, Unread(s, ring[q]))
             t == [s EXCEPT !.front = (@ + n) % Size, !.empty = AtEnd(s, ring[q], n)]
  <2>2. slot \in [Pipe -> [Slot -> SlotRecord]]
    BY <1>1 DEF EndsInv, SlotTable, SlotRecord
  <2>3. t.valid = s.valid /\ t.open = s.open
    BY <2>1 DEF SlotRecord
  <2>4. InRing(s, ring[q]) => InRing(t, ring[q])
    <3>1. count \in Nat
      BY PPipeAssumption
    <3> QED BY <2>1, <3>1, ReadsOn DEF FrontsInv
  <2> HIDE DEF t
  <2>5. \A x \in Pipe, j \in Slot : slot'[x][j] = IF x = q /\ j = i THEN t ELSE slot[x][j]
    BY <2>1, <2>2 DEF t
  <2>6. live \subseteq Pipe
    BY <1>1, PlainTyped DEF EndsInv
  <2>7. \A x \in live, j \in Slot : slot[x][j].valid /\ "read" \in slot[x][j].open
                                      => InRing(slot[x][j], ring[x])
    BY FrontsBySlot DEF FrontsInv
  <2>8. \A x \in live, j \in Slot : slot'[x][j].valid /\ "read" \in slot'[x][j].open
                                      => InRing(slot'[x][j], ring[x])
    BY <2>3, <2>4, <2>5, <2>6, <2>7
  <2> QED BY <1>1, <2>8, FrontsBySlot DEF FrontsInv
<1> QED BY <1>2, <1>3

\* A reader finds what is written, behind what it had.
LEMMA WriteReaches ==
  ASSUME NEW s \in SlotRecord, NEW r \in Rings, InRing(s, r),
         NEW data \in Seq(Byte), Accepted(r, Len(data)) # 0
  PROVE  InRing([s EXCEPT !.empty = FALSE], PastTheTable(Push(r, data)))
<1> DEFINE n == Accepted(r, Len(data))
           u == Push(r, data)
           v == PastTheTable(u)
           t == [s EXCEPT !.empty = FALSE]
<1>1. /\ u \in Rings /\ u.front \in Index /\ u.rear \in Index /\ ~ IsEmpty(u)
      /\ Length(u) = Length(r) + n
  BY PushIndices
<1>2. u.rear = (r.rear + n) % Size
  BY DEF Push
<1>3. v.front = u.front /\ v.rear = u.rear
  BY <1>1 DEF PastTheTable, Rings, RingType
<1>4. n \in 1 .. (Size - Length(r)) /\ Length(r) \in 0 .. Size
  BY AcceptedType, LengthType, RingAssumption
<1>5. ~ IsEmpty(v) /\ Length(v) = Length(r) + n
  BY <1>1, <1>3 DEF IsEmpty, Length
<1>6. t.empty = FALSE /\ t.front = s.front /\ s.front \in Index
  BY DEF SlotRecord
<1> HIDE DEF n, t, u, v
<1>7. CASE s.empty
  <2>1. s.front = (r.rear + 1) % Size /\ r.rear \in Index \cup {NoIndex} /\ n \in 1 .. Size
    BY <1>4, <1>7, RingAssumption DEF InRing, Rings, RingType
  <2>2. Span(s.front, v.rear) = n
    BY <1>2, <1>3, <2>1, FirstUnread
  <2>3. Unread(t, v) = n
    BY <1>6, <2>2 DEF Unread
  <2>4. Unread(t, v) <= Length(v)
    BY <1>4, <1>5, <2>3, RingAssumption
  <2> QED BY <1>5, <1>6, <2>4 DEF InRing, t, v, u
<1>8. CASE ~ s.empty
  <2>1. ~ IsEmpty(r) /\ Span(s.front, r.rear) <= Length(r) /\ r.rear \in Index
    BY <1>8, RingFields DEF InRing, Unread
  <2>2. Span(s.front, r.rear) \in 1 .. Size
    BY <1>6, <2>1, SpanValue
  <2>3. Span(s.front, r.rear) + n <= Size /\ n \in Nat
    BY <1>4, <2>1, <2>2, RingAssumption
  <2>4. Span(s.front, v.rear) = Span(s.front, r.rear) + n
    BY <1>2, <1>3, <1>6, <2>1, <2>3, RearMoves
  <2>5. Unread(t, v) = Span(s.front, r.rear) + n
    BY <1>6, <2>4 DEF Unread
  <2>6. Unread(t, v) <= Length(v)
    BY <1>4, <1>5, <2>1, <2>2, <2>5, RingAssumption
  <2> QED BY <1>5, <1>6, <2>6 DEF InRing, t, v, u
<1> QED BY <1>7, <1>8 DEF t, v, u

LEMMA WriteFronts ==
  ASSUME FrontsInv, NEW p \in Proc, NEW fd \in Fd, NEW data \in UserData, Write(p, fd, data)
  PROVE  FrontsInv'
<1>1. EndsInv /\ EndsInv' /\ live' = live /\ live \subseteq Pipe /\ data \in Seq(Byte)
  BY WriteStep, WriteEffect, PlainTyped DEF FrontsInv, EndsInv, Write
<1>2. CASE slot' = slot /\ ring' = ring
  BY <1>1, <1>2, FrontsFrame DEF FrontsInv
<1>3. ASSUME NEW q \in Pipe, Stored(ring[q], data) # 0,
             ring' = [ring EXCEPT ![q] = PastTheTable(Filled(@, data))],
             slot' = [slot EXCEPT ![q] = WakeReaders(@)]
      PROVE  FrontsInv'
  <2> DEFINE r == ring[q]
             v == PastTheTable(Push(r, data))
  <2>1. r \in Rings /\ WellFormed(r)
    BY DEF FrontsInv, Rings
  <2>2. Accepted(r, Len(data)) # 0 /\ Filled(r, data) = Push(r, data)
    BY <1>3, <2>1 DEF Stored, Filled
  <2>3. v \in Rings
    <3>1. Push(r, data) \in Rings
      BY <1>1, <2>1, PushAppends
    <3>2. v.front = Push(r, data).front /\ v.rear = Push(r, data).rear
      BY <3>1 DEF PastTheTable, Rings, RingType
    <3>3. v \in RingType
      BY <1>1, <2>1, <2>2, StoredType DEF Rings
    <3> HIDE DEF v
    <3> QED BY <3>1, <3>2, <3>3 DEF Rings, WellFormed
  <2>4. \A x \in Pipe : ring'[x] = IF x = q THEN v ELSE ring[x]
    BY <1>1, <1>3, <2>2 DEF EndsInv
  <2>5. slot \in [Pipe -> [Slot -> SlotRecord]]
    BY <1>1 DEF EndsInv, SlotTable, SlotRecord
  <2>6. \A x \in Pipe, j \in Slot :
          slot'[x][j] = IF x = q THEN WakeReaders(slot[q])[j] ELSE slot[x][j]
    BY <1>3, <2>5
  <2>7. \A x \in live, j \in Slot : slot[x][j].valid /\ "read" \in slot[x][j].open
                                      => InRing(slot[x][j], ring[x])
    BY FrontsBySlot DEF FrontsInv
  <2>8. ASSUME NEW x \in live, NEW j \in Slot, slot'[x][j].valid /\ "read" \in slot'[x][j].open
        PROVE  InRing(slot'[x][j], ring'[x])
    <3>1. CASE x # q
      BY <1>1, <2>4, <2>6, <2>7, <2>8, <3>1
    <3>2. CASE x = q
      <4> DEFINE s == slot[q][j]
                 e == s.empty /\ ~ (s.valid /\ "read" \in s.open)
      <4>1. s \in SlotRecord
        BY <2>5
      <4>2. slot'[x][j] = [s EXCEPT !.empty = e]
        BY <2>6, <3>2 DEF WakeReaders
      <4>3. [s EXCEPT !.empty = e].valid = s.valid /\ [s EXCEPT !.empty = e].open = s.open
        BY <4>1 DEF SlotRecord
      <4>4. s.valid /\ "read" \in s.open
        <5> HIDE DEF s, e
        <5> QED BY <2>8, <4>2, <4>3
      <4>5. e = FALSE
        BY <4>4
      <4>6. InRing(s, r)
        BY <2>7, <3>2, <4>4
      <4>7. InRing([s EXCEPT !.empty = FALSE], v)
        <5> HIDE DEF s, r
        <5>1. r \in Rings /\ Accepted(r, Len(data)) # 0
          BY <2>1, <2>2
        <5> QED BY <1>1, <4>1, <4>6, <5>1, WriteReaches
      <4>8. slot'[x][j] = [s EXCEPT !.empty = FALSE]
        <5> HIDE DEF e
        <5> QED BY <4>2, <4>5
      <4>9. ring'[x] = v
        BY <2>4, <3>2
      <4> QED
        <5> HIDE DEF s, v
        <5> QED BY <4>7, <4>8, <4>9
    <3> QED BY <3>1, <3>2
  <2>9. FrontsInRing'
    BY <1>1, <2>8, FrontsBySlot
  <2>10. \A x \in Pipe : ring'[x] \in Rings
    <3> HIDE DEF v
    <3> QED BY <2>3, <2>4 DEF FrontsInv
  <2> QED BY <1>1, <2>9, <2>10 DEF FrontsInv
<1> QED BY <1>1, <1>2, <1>3, WriteEffect

\* A flush that does not take everything moves the front of the ring up to the slowest reader.
LEMMA PartialFlushFronts ==
  ASSUME FrontsInv, NEW p \in Proc, NEW fd \in Fd, PartialFlush(p, fd)
  PROVE  FrontsInv'
<1>1. EndsInv /\ EndsInv' /\ slot' = slot /\ live' = live /\ live \subseteq Pipe
  BY FlushStep, PlainTyped DEF FrontsInv, EndsInv, PartialFlush, Flush
<1>2. CASE ring' = ring
  BY <1>1, <1>2, FrontsFrame DEF FrontsInv
<1>3. CASE ring' # ring
  <2> DEFINE q == files[p][fd].pipe
             r == ring[q]
             n == Reclaimable(q)
             j == (r.front + n) % Size
             v == [r EXCEPT !.front = j]
  <2>1. /\ files[p][fd] # NoFile /\ q \in Pipe /\ ~ IsEmpty(r) /\ HasReader(q)
        /\ ring' = [ring EXCEPT ![q] = IF FlushesAll(q) THEN FullyFlushed(@)
                                       ELSE PartlyFlushed(@, Reclaimable(q))]
    BY <1>1, <1>3, FlushEffect DEF PartialFlush
  <2>2. ~ FlushesAll(q)
    BY <2>1 DEF PartialFlush
  <2> HIDE DEF q
  <2>3. r \in Rings /\ r.front \in Index /\ r.rear \in Index
    BY <2>1, RingFields DEF FrontsInv
  <2>4. /\ n \in Nat /\ n < Length(r) /\ Length(r) \in 0 .. Size
        /\ \A x \in Passed(q) : n <= x
    <3>1. n \in Nat /\ n <= Held(r) /\ Held(r) \in 1 .. Size /\ \A x \in Passed(q) : n <= x
      BY <1>1, <2>1, ReclaimableType
    <3>2. n # Held(r)
      BY <2>1, <2>2 DEF FlushesAll
    <3>3. Length(r) = Held(r)
      BY <2>1 DEF Length, Held
    <3> QED BY <3>1, <3>2, <3>3, RingAssumption
  <2> HIDE DEF n
  <2>5. v \in Rings /\ ~ IsEmpty(v) /\ Length(v) = Length(r) - n /\ v.rear = r.rear
    <3>1. CASE n = 0
      <4>1. j = r.front
        BY <2>3, <3>1, RingAssumption DEF Index
      <4>2. v = r
        BY <2>3, <4>1, RingFields
      <4>3. Length(r) - n = Length(r)
        BY <2>4, <3>1
      <4> HIDE DEF v
      <4> QED BY <2>1, <2>3, <4>2, <4>3
    <3>2. CASE n > 0
      <4>1. v \in Rings /\ Length(v) = Length(r) - n
        <5> HIDE DEF r
        <5> QED BY <2>3, <2>4, <3>2, PopSome
      <4>2. v.rear = r.rear
        BY <2>3 DEF Rings, RingType
      <4>3. ~ IsEmpty(v)
        BY <2>3, <4>2, RingAssumption DEF IsEmpty, Index, NoIndex
      <4> QED BY <4>1, <4>2, <4>3
    <3> QED BY <2>4, <3>1, <3>2
  <2>6. PartlyFlushed(r, n) = v
    <3>1. ~ (r.front + n < 0)
      BY <2>3, <2>4, RingAssumption DEF Index
    <3> QED BY <3>1 DEF PartlyFlushed, Moved
  <2>7. \A x \in Pipe : ring'[x] = IF x = q THEN v ELSE ring[x]
    <3>1. ring' = [ring EXCEPT ![q] = PartlyFlushed(r, n)]
      BY <2>1, <2>2 DEF n
    <3> HIDE DEF v
    <3> QED BY <1>1, <2>1, <2>6, <3>1 DEF EndsInv
  <2>8. ASSUME NEW x \in live, NEW i \in Slot, slot[x][i].valid /\ "read" \in slot[x][i].open
        PROVE  InRing(slot[x][i], ring'[x])
    <3> DEFINE s == slot[x][i]
    <3>1. InRing(s, ring[x])
      BY <2>8, FrontsBySlot DEF FrontsInv
    <3>2. CASE x # q
      BY <1>1, <2>7, <3>1, <3>2
    <3>3. CASE x = q /\ s.empty
      <4>1. s.front = (r.rear + 1) % Size
        BY <3>1, <3>3 DEF InRing
      <4>2. InRing(s, v)
        <5> HIDE DEF v, s
        <5> QED BY <2>5, <3>3, <4>1 DEF InRing
      <4> QED BY <2>1, <2>7, <3>3, <4>2
    <3>4. CASE x = q /\ ~ s.empty
      <4>1. s.front \in Index
        <5>1. slot[x] \in SlotTable
          BY <1>1 DEF EndsInv
        <5> QED BY <5>1 DEF SlotTable
      <4>2. Span(s.front, r.rear) <= Span(r.front, r.rear) /\ Length(r) = Span(r.front, r.rear)
        BY <2>1, <3>1, <3>4 DEF InRing, Unread, Length
      <4>3. (s.front - r.front + Size) % Size = Span(r.front, r.rear) - Span(s.front, r.rear)
        <5> HIDE DEF s, r
        <5> QED BY <2>3, <4>1, <4>2, Distance
      <4>4. (s.front - r.front + Size) % Size \in Passed(q)
        BY <2>8, <3>4 DEF Passed, ValidSlots
      <4>5. n <= Length(r) - Span(s.front, r.rear)
        BY <2>4, <4>2, <4>3, <4>4
      <4>6. Span(s.front, r.rear) \in 1 .. Size
        <5> HIDE DEF s, r
        <5> QED BY <2>3, <4>1, SpanValue
      <4>7. Unread(s, v) <= Length(v)
        <5>1. Unread(s, v) = Span(s.front, r.rear)
          <6> HIDE DEF v, s
          <6> QED BY <2>5, <3>4 DEF Unread
        <5>2. Span(s.front, r.rear) <= Length(r) - n
          <6> HIDE DEF s, r
          <6> QED BY <2>4, <4>5, <4>6, RingAssumption
        <5> HIDE DEF v, s, r
        <5> QED BY <2>5, <5>1, <5>2
      <4>8. InRing(s, v)
        <5> HIDE DEF v, s
        <5> QED BY <2>5, <3>4, <4>7 DEF InRing
      <4> QED BY <2>1, <2>7, <3>4, <4>8
    <3> QED BY <3>2, <3>3, <3>4
  <2>9. FrontsInRing'
    BY <1>1, <2>8, FrontsBySlot
  <2>10. \A x \in Pipe : ring'[x] \in Rings
    <3> HIDE DEF v
    <3> QED BY <2>5, <2>7 DEF FrontsInv
  <2> QED BY <1>1, <2>9, <2>10 DEF FrontsInv
<1> QED BY <1>2, <1>3

\* A close moves no front.
LEMMA CloseFronts ==
  ASSUME FrontsInv, EndsInv', ring' = ring, NEW p \in Proc, NEW f \in File, PPipeClose(p, f)
  PROVE  FrontsInv'
<1> DEFINE q == f.pipe
<1>1. PICK i \in CloseSlots(q, p) :
        LET open == slot[q][i].open \ {f.mode}
            left == Cardinality(ValidSlots(q)) - (IF open = {} THEN 1 ELSE 0)
        IN  /\ slot' = [slot EXCEPT ![q][i] =
                          [valid |-> @.valid /\ open # {}, pid |-> @.pid, front |-> @.front,
                           empty |-> @.empty \/ f.mode = "read", open |-> open]]
            /\ live' = IF left = 0 THEN live \ {q} ELSE live
  BY DEF PPipeClose
<1> DEFINE open == slot[q][i].open \ {f.mode}
           s == [valid |-> slot[q][i].valid /\ open # {}, pid |-> slot[q][i].pid,
                 front |-> slot[q][i].front, empty |-> slot[q][i].empty \/ f.mode = "read",
                 open |-> open]
<1>2. /\ live' \subseteq live /\ slot \in [Pipe -> SlotTable]
      /\ live \subseteq Pipe
  BY <1>1, PlainTyped DEF FrontsInv, EndsInv
<1>3. slot' = [slot EXCEPT ![q][i] = s]
  BY <1>1
<1>4. /\ s.valid => slot[q][i].valid
      /\ "read" \in s.open => "read" \in slot[q][i].open /\ f.mode # "read"
      /\ s.front = slot[q][i].front /\ s.empty = (slot[q][i].empty \/ f.mode = "read")
  OBVIOUS
<1> HIDE DEF s
<1>5. \A x \in Pipe, j \in Slot : slot'[x][j] = IF x = q /\ j = i THEN s ELSE slot[x][j]
  BY <1>2, <1>3 DEF SlotTable
<1>6. f.mode # "read" => s.empty = slot[q][i].empty
  <2>1. ASSUME f.mode # "read", q \in Pipe, i \in Slot PROVE s.empty = slot[q][i].empty
    <3>1. slot[q][i].empty \in BOOLEAN
      BY <1>2, <2>1 DEF SlotTable
    <3>2. s.empty = (slot[q][i].empty \/ FALSE)
      BY <1>4, <2>1
    <3> QED BY <3>1, <3>2
  <2>2. q \in Pipe
    BY DEF File
  <2>3. i \in Slot
    <3>1. SlotsOf(q, p) \in SUBSET Slot
      BY DEF SlotsOf, ValidSlots
    <3>2. SlotsOf(q, p) # {} => Plain!Max(SlotsOf(q, p)) \in SlotsOf(q, p)
      BY <3>1, SameSets, Plain!MinMax, PlainAssumptions
    <3> QED BY <1>1, <3>1, <3>2, SameSets DEF CloseSlots
  <2> QED BY <2>1, <2>2, <2>3
<1>7. ASSUME NEW x \in live', NEW j \in Slot, slot'[x][j].valid /\ "read" \in slot'[x][j].open
      PROVE  /\ slot[x][j].valid /\ "read" \in slot[x][j].open
             /\ slot'[x][j].front = slot[x][j].front
             /\ slot'[x][j].empty = slot[x][j].empty
  <2>1. x \in Pipe
    BY <1>2
  <2>2. CASE x = q /\ j = i
    <3>1. slot'[x][j] = s
      BY <1>5, <2>1, <2>2
    <3> QED BY <1>4, <1>6, <1>7, <2>2, <3>1
  <2>3. CASE ~ (x = q /\ j = i)
    BY <1>5, <1>7, <2>1, <2>3
  <2> QED BY <2>2, <2>3
<1>8. FrontsInRing'
  BY <1>2, <1>7, FrontsFrame DEF FrontsInv
<1> QED BY <1>8 DEF FrontsInv

\* What a slot of an allocated pipe says.
LEMMA SlotMeaning ==
  ASSUME EndsInv, NEW q \in live, NEW i \in Slot
  PROVE  /\ ~ slot[q][i].valid => slot[q][i].open = {}
         /\ slot[q][i].valid => \A m \in Mode :
                                  m \in slot[q][i].open <=> Holds(slot[q][i].pid, End(q, m))
<1>1. q \in Pipe
  BY PlainTyped DEF EndsInv
<1>2. /\ SlotEnds[q][i].valid = slot[q][i].valid /\ SlotEnds[q][i].pid = slot[q][i].pid
      /\ SlotEnds[q][i].open = slot[q][i].open
  <2>1. SlotEnds[q][i] = End1(slot[q][i])
    BY <1>1, SameState
  <2>2. \A x : End1(x).valid = x.valid /\ End1(x).pid = x.pid /\ End1(x).open = x.open
    BY DEF End1
  <2> QED BY <2>1, <2>2
<1>3. Plain!Describes(SlotEnds[q], Plain!Ends(q))
  BY DEF EndsInv, Plain!IInv, Plain!SlotsInv
<1>4. CASE ~ slot[q][i].valid
  <2>1. i \in Plain!Slot \ Plain!Valid(SlotEnds[q])
    BY <1>2, <1>4, SameSets DEF Plain!Valid
  <2>2. SlotEnds[q][i].open = {}
    BY <1>3, <2>1 DEF Plain!Describes
  <2> QED BY <1>2, <1>4, <2>2
<1>5. CASE slot[q][i].valid
  <2>1. i \in Plain!Valid(SlotEnds[q])
    BY <1>2, <1>5, SameSets DEF Plain!Valid
  <2>2. SlotEnds[q][i].pid \in Proc /\ SlotEnds[q][i].open = Plain!Ends(q)[SlotEnds[q][i].pid]
    BY <1>3, <2>1 DEF Plain!Describes
  <2>3. \A p \in Proc : Plain!Ends(q)[p] = {m \in Mode : Holds(p, End(q, m))}
    BY SameSets, SameState DEF Plain!Ends, Plain!EndsOf
  <2>4. slot[q][i].open = {m \in Mode : Holds(slot[q][i].pid, End(q, m))}
    BY <1>2, <2>2, <2>3
  <2> QED BY <1>5, <2>4
<1> QED BY <1>4, <1>5

(***************************************************************************)
(* A child that gets an end in fork starts where its parent stands, and    *)
(* the copy of the front that comes with the other end changes nothing.    *)
(***************************************************************************)
LEMMA ForkFronts ==
  ASSUME FrontsInv, EndsInv', ring' = ring, live' = live, kernel.op = "fork",
         NEW f \in File, PPipeFork(kernel.child, kernel.proc, f)
  PROVE  FrontsInv'
<1> DEFINE q    == f.pipe
           c    == kernel.child
           p    == kernel.proc
           par  == Last(SlotsOf(q, p))
           mine == IF SlotsOf(q, c) = {} THEN Last(Slot \ ValidSlots(q)) ELSE Last(SlotsOf(q, c))
<1>1. /\ q \in Pipe /\ f.mode \in Mode /\ c \in Proc /\ p \in Proc
      /\ live \subseteq Pipe /\ slot \in [Pipe -> SlotTable] /\ EndsInv
  BY PlainTyped DEF FrontsInv, EndsInv, KernelLoops, File
<1>2. CASE slot' = slot
  BY <1>2, FrontsFrame DEF FrontsInv
<1>3. CASE slot' # slot
  <2>1. mine # NoSlot /\ par # NoSlot
    BY <1>3 DEF PPipeFork
  <2> DEFINE s == [slot[q][par] EXCEPT
                     !.pid = c, !.open = EndsCopied(slot[q][mine], slot[q][par], f.mode)]
  <2>2. slot' = [slot EXCEPT ![q][mine] = s]
    BY <2>1 DEF PPipeFork
  <2>3. /\ par \in Slot /\ slot[q][par].valid /\ slot[q][par].pid = p
        /\ mine \in Slot
        /\ slot[q][mine].valid => slot[q][mine].pid = c
    <3>1. /\ SlotsOf(q, p) \in SUBSET Slot /\ SlotsOf(q, c) \in SUBSET Slot
          /\ Slot \ ValidSlots(q) \in SUBSET Slot
      BY DEF SlotsOf, ValidSlots
    <3>2. /\ par \in SlotsOf(q, p)
          /\ SlotsOf(q, c) = {} => mine \in Slot \ ValidSlots(q)
          /\ SlotsOf(q, c) # {} => mine \in SlotsOf(q, c)
      <4> HIDE DEF q, c, p
      <4> QED BY <2>1, <3>1, LastSlot
    <3> HIDE DEF par, mine
    <3> QED BY <3>1, <3>2 DEF SlotsOf, ValidSlots
  <2> HIDE DEF par, mine
  <2>4. /\ s.valid = slot[q][par].valid /\ s.front = slot[q][par].front
        /\ s.empty = slot[q][par].empty
        /\ s.open = EndsCopied(slot[q][mine], slot[q][par], f.mode)
    <3>1. slot[q][par] \in SlotRecord
      BY <1>1, <2>3 DEF SlotTable, SlotRecord
    <3> QED BY <3>1 DEF SlotRecord
  <2>5. ASSUME q \in live, "read" \in s.open
        PROVE  "read" \in slot[q][par].open
    <3>1. CASE f.mode = "read"
      BY <2>4, <2>5, <3>1 DEF EndsCopied
    <3>2. CASE f.mode # "read"
      <4>1. "read" \in slot[q][mine].open
        BY <2>4, <2>5, <3>2 DEF EndsCopied
      <4>2. slot[q][mine].valid /\ Holds(c, End(q, "read"))
        <5>1. slot[q][mine].valid
          BY <1>1, <2>3, <2>5, <4>1, SlotMeaning
        <5>2. "read" \in Mode
          BY DEF Mode
        <5> QED BY <1>1, <2>3, <2>5, <4>1, <5>1, <5>2, SlotMeaning
      <4>3. Holds(p, End(q, "read"))
        <5>1. files[c] = files[p] /\ c # p
          BY <1>1 DEF EndsInv, Plain!IInv, Plain!KernelInv
        <5> QED BY <4>2, <5>1 DEF Holds, Counted
      <4>4. "read" \in Mode
        BY DEF Mode
      <4> QED BY <1>1, <2>3, <2>5, <4>3, <4>4, SlotMeaning
    <3> QED BY <3>1, <3>2
  <2> HIDE DEF s
  <2>6. \A x \in Pipe, j \in Slot : slot'[x][j] = IF x = q /\ j = mine THEN s ELSE slot[x][j]
    BY <1>1, <2>2, <2>3 DEF SlotTable
  <2>7. ASSUME NEW x \in live', NEW i \in Slot, slot'[x][i].valid /\ "read" \in slot'[x][i].open
        PROVE  \E j \in Slot : /\ slot[x][j].valid /\ "read" \in slot[x][j].open
                               /\ slot'[x][i].front = slot[x][j].front
                               /\ slot'[x][i].empty = slot[x][j].empty
    <3>1. x \in Pipe /\ x \in live
      BY <1>1
    <3>2. CASE x = q /\ i = mine
      <4>1. slot'[x][i] = s
        BY <2>6, <3>1, <3>2
      <4>2. "read" \in slot[q][par].open
        BY <2>5, <2>7, <3>1, <3>2, <4>1
      <4> QED BY <2>3, <2>4, <3>2, <4>1, <4>2
    <3>3. CASE ~ (x = q /\ i = mine)
      BY <2>6, <2>7, <3>1, <3>3
    <3> QED BY <3>2, <3>3
  <2>8. FrontsInRing'
    BY <2>7, FrontsFrame DEF FrontsInv
  <2> QED BY <2>8 DEF FrontsInv
<1> QED BY <1>2, <1>3

\* A new pipe has one reader, at its start, and nothing in it.
LEMMA CreateFronts ==
  ASSUME FrontsInv, NEW p \in Proc, NEW q \in Pipe, NEW page \in PageContents, Create(p, q, page)
  PROVE  FrontsInv'
<1>1. EndsInv' /\ live \subseteq Pipe /\ slot \in [Pipe -> SlotTable]
  BY CreateStep, PlainTyped DEF FrontsInv, EndsInv
<1> DEFINE s == [valid |-> TRUE, pid |-> p, front |-> 0, empty |-> TRUE, open |-> Mode]
           t == [page EXCEPT ![0] = s]
<1>2. CASE UNCHANGED <<slot, ring, live>>
  BY <1>1, <1>2, FrontsFrame DEF FrontsInv
<1>3. CASE /\ slot' = [slot EXCEPT ![q] = t]
           /\ ring' = [ring EXCEPT ![q] = NewRing]
           /\ live' = live \cup {q}
  <2>1. NewRing \in Rings /\ NewRing.rear = -1
    BY PPipeAssumption DEF Rings, WellFormed, RingType, NewRing, NoIndex
  <2>2. \A x \in Pipe : ring'[x] = IF x = q THEN NewRing ELSE ring[x]
    BY <1>3 DEF FrontsInv, EndsInv
  <2>3. \A x \in Pipe : slot'[x] = IF x = q THEN t ELSE slot[x]
    BY <1>1, <1>3
  <2>4. page \in SlotTable /\ \A i \in Slot : ~ page[i].valid
    BY PPipeAssumption, CleanPages
  <2>5. \A i \in Slot : t[i] = IF i = 0 THEN s ELSE page[i]
    <3> HIDE DEF s
    <3> QED BY <2>4 DEF SlotTable
  <2>6. InRing(s, NewRing)
    <3>1. (-1 + 1) % Size = 0
      BY RingAssumption
    <3> QED BY <2>1, <3>1 DEF InRing
  <2> HIDE DEF s, t
  <2>7. ASSUME NEW x \in live', NEW i \in Slot, slot'[x][i].valid /\ "read" \in slot'[x][i].open
        PROVE  InRing(slot'[x][i], ring'[x])
    <3>1. CASE x = q
      <4>1. slot'[x][i] = IF i = 0 THEN s ELSE page[i]
        BY <2>3, <2>5, <3>1
      <4>2. i = 0
        BY <2>4, <2>7, <4>1
      <4> QED BY <2>2, <2>6, <3>1, <4>1, <4>2
    <3>2. CASE x # q
      <4>1. x \in live /\ x \in Pipe
        BY <1>1, <1>3, <3>2
      <4>2. slot'[x] = slot[x] /\ ring'[x] = ring[x]
        BY <2>2, <2>3, <3>2, <4>1
      <4>3. InRing(slot[x][i], ring[x])
        BY <2>7, <4>1, <4>2, FrontsBySlot DEF FrontsInv
      <4> QED BY <4>2, <4>3
    <3> QED BY <3>1, <3>2
  <2>8. FrontsInRing'
    BY <2>7, FrontsBySlot
  <2>9. \A x \in Pipe : ring'[x] \in Rings
    BY <2>1, <2>2 DEF FrontsInv
  <2> QED BY <1>1, <2>8, <2>9 DEF FrontsInv
<1> QED BY <1>2, <1>3 DEF Create

LEMMA FrontsNext ==
  FrontsInv /\ [PlainNext \/ \E p \in Proc, fd \in Fd : PartialFlush(p, fd)]_vars => FrontsInv'
<1> SUFFICES ASSUME FrontsInv, [PlainNext \/ \E p \in Proc, fd \in Fd : PartialFlush(p, fd)]_vars
             PROVE  FrontsInv'
  OBVIOUS
<1>1. EndsInv'
  BY EndsNext DEF FrontsInv, PartialFlush
<1>2. CASE UNCHANGED <<slot, ring, live>>
  BY <1>1, <1>2, FrontsFrame DEF FrontsInv
<1>3. ASSUME NEW p \in Proc, NEW q \in Pipe, NEW page \in PageContents, Create(p, q, page)
      PROVE  FrontsInv'
  BY <1>3, CreateFronts
<1>4. ASSUME NEW p \in Proc, NEW fd \in Fd, NEW count \in 0 .. MaxCount, Read(p, fd, count)
      PROVE  FrontsInv'
  BY <1>4, ReadFronts
<1>5. ASSUME NEW p \in Proc, NEW fd \in Fd, NEW data \in UserData, Write(p, fd, data)
      PROVE  FrontsInv'
  BY <1>5, WriteFronts
<1>6. ASSUME NEW p \in Proc, NEW fd \in Fd, Close(p, fd) PROVE FrontsInv'
  <2>1. files[p][fd] \in File \cup {NoFile} /\ ring' = ring
    BY <1>6, PlainTyped DEF FrontsInv, EndsInv, Close
  <2>2. CASE files[p][fd] = NoFile
    BY <1>2, <1>6, <2>1, <2>2 DEF Close
  <2>3. CASE files[p][fd] # NoFile
    BY <1>1, <1>6, <2>1, <2>3, CloseFronts DEF Close
  <2> QED BY <2>2, <2>3
<1>7. ASSUME NEW p \in Proc, ForkBegin(p) \/ ExitBegin(p) PROVE FrontsInv'
  BY <1>2, <1>7 DEF ForkBegin, ExitBegin
<1>8. CASE ForkEnd \/ ExitEnd
  BY <1>2, <1>8 DEF ForkEnd, ExitEnd
<1>9. CASE ForkFile
  <2> DEFINE f == files[kernel.child][kernel.fd]
  <2>1. /\ kernel.op = "fork" /\ kernel.child \in Proc /\ kernel.fd \in Fd
        /\ ring' = ring /\ live' = live
    BY <1>9, PlainTyped, FilesAssumption DEF FrontsInv, EndsInv, ForkFile, KernelLoops, Fd
  <2>2. f \in File \cup {NoFile}
    BY <2>1, PlainTyped DEF FrontsInv, EndsInv
  <2>3. CASE f = NoFile
    BY <1>2, <1>9, <2>1, <2>3 DEF ForkFile
  <2>4. CASE f # NoFile
    <3>1. PPipeFork(kernel.child, kernel.proc, f)
      BY <1>9, <2>4 DEF ForkFile
    <3> HIDE DEF f
    <3> QED BY <1>1, <2>1, <2>2, <2>4, <3>1, ForkFronts
  <2> QED BY <2>3, <2>4
<1>10. CASE ExitFile
  <2> DEFINE f == files[kernel.proc][kernel.fd]
  <2>1. kernel.proc \in Proc /\ kernel.fd \in Fd /\ ring' = ring
    BY <1>10, PlainTyped, FilesAssumption DEF FrontsInv, EndsInv, ExitFile, KernelLoops, Fd
  <2>2. f \in File \cup {NoFile}
    BY <2>1, PlainTyped DEF FrontsInv, EndsInv
  <2>3. CASE f = NoFile
    BY <1>2, <1>10, <2>1, <2>3 DEF ExitFile
  <2>4. CASE f # NoFile
    <3>1. PPipeClose(kernel.proc, f)
      BY <1>10, <2>4 DEF ExitFile
    <3> HIDE DEF f
    <3> QED BY <1>1, <2>1, <2>2, <2>4, <3>1, CloseFronts
  <2> QED BY <2>3, <2>4
<1>11. ASSUME NEW p \in Proc, NEW fd \in Fd, PartialFlush(p, fd) PROVE FrontsInv'
  BY <1>11, PartialFlushFronts
<1>12. CASE UNCHANGED vars
  BY <1>2, <1>12 DEF vars
<1> QED BY <1>3, <1>4, <1>5, <1>6, <1>7, <1>8, <1>9, <1>10, <1>11, <1>12 DEF PlainNext

(***************************************************************************)
(* Of programs that flush no pipe to the end: a reader is neither left     *)
(* behind by flush nor overtaken by the rear, and what it has not read is  *)
(* the end of what the ring holds (ppipe.c:251-304, 394-403, 487-529).     *)
(***************************************************************************)
THEOREM FrontsCorrect == PartialSpec => []FrontsInRing
<1>1. Init => FrontsInv
  <2> SUFFICES ASSUME Init PROVE FrontsInv
    OBVIOUS
  <2>1. FrontsInRing
    BY FrontsBySlot DEF Init
  <2>2. NewRing \in Rings
    BY PPipeAssumption DEF Rings, WellFormed, RingType, NewRing
  <2>3. \A q \in Pipe : ring[q] \in Rings
    BY <2>2 DEF Init
  <2> QED BY <2>1, <2>3, EndsInit DEF FrontsInv
<1>2. FrontsInv /\ [PlainNext \/ \E p \in Proc, fd \in Fd : PartialFlush(p, fd)]_vars => FrontsInv'
  BY FrontsNext
<1>3. FrontsInv => FrontsInRing
  BY DEF FrontsInv
<1> QED BY <1>1, <1>2, <1>3, PTL DEF PartialSpec

-------------------------------------------------------------------------------
(***************************************************************************)
(* The refinement of PPipeSpec.  Two things more are needed of the slots:  *)
(* one without the read end does not hold up a flush, unless it is a       *)
(* child's that has the end still to come; and a child's slot stands where *)
(* its parent's does.                                                      *)
(***************************************************************************)
IsSlotOf(q, i, p) == slot[q][i].valid /\ slot[q][i].pid = p

WritersAtEnd ==
  \A q \in live : \A i \in Slot :
    slot[q][i].valid /\ "read" \notin slot[q][i].open =>
      \/ slot[q][i].empty
      \/ /\ kernel.op = "fork" /\ slot[q][i].pid = kernel.child
         /\ \E fd \in Fd : files[kernel.child][fd] = End(q, "read")

CopiesParent ==
  kernel.op = "fork" =>
    \A q \in live : \A i, j \in Slot :
      IsSlotOf(q, i, kernel.child) /\ IsSlotOf(q, j, kernel.proc) =>
        slot[q][i].front = slot[q][j].front /\ slot[q][i].empty = slot[q][j].empty

LogInv == FrontsInv /\ WritersAtEnd /\ CopiesParent

\* The slots of an allocated pipe, as Plain!Describes has them.
LEMMA OneSlotEach ==
  ASSUME EndsInv, NEW q \in live
  PROVE  /\ \A i, j \in Slot : slot[q][i].valid /\ slot[q][j].valid /\ slot[q][i].pid = slot[q][j].pid => i = j
         /\ \A i \in Slot : slot[q][i].valid => slot[q][i].pid \in Proc /\ slot[q][i].open # {}
         /\ \A p \in Proc, m \in Mode : Holds(p, End(q, m)) =>
              \E i \in Slot : IsSlotOf(q, i, p) /\ m \in slot[q][i].open
<1>1. q \in Pipe
  BY PlainTyped DEF EndsInv
<1>2. \A i \in Slot : /\ SlotEnds[q][i].valid = slot[q][i].valid /\ SlotEnds[q][i].pid = slot[q][i].pid
                      /\ SlotEnds[q][i].open = slot[q][i].open
  <2>1. \A i \in Slot : SlotEnds[q][i] = End1(slot[q][i])
    BY <1>1, SameState
  <2>2. \A x : End1(x).valid = x.valid /\ End1(x).pid = x.pid /\ End1(x).open = x.open
    BY DEF End1
  <2> QED BY <2>1, <2>2
<1>3. Plain!Describes(SlotEnds[q], Plain!Ends(q))
  BY DEF EndsInv, Plain!IInv, Plain!SlotsInv
<1>4. \A i : i \in Plain!Valid(SlotEnds[q]) <=> i \in Slot /\ slot[q][i].valid
  BY <1>2, SameSets DEF Plain!Valid
<1>5. \A p \in Proc : Plain!Ends(q)[p] = {m \in Mode : Holds(p, End(q, m))}
  BY SameSets, SameState DEF Plain!Ends, Plain!EndsOf
<1>6. \A i, j \in Slot : slot[q][i].valid /\ slot[q][j].valid /\ slot[q][i].pid = slot[q][j].pid => i = j
  BY <1>2, <1>3, <1>4 DEF Plain!Describes
<1>7. \A i \in Slot : slot[q][i].valid => slot[q][i].pid \in Proc /\ slot[q][i].open # {}
  BY <1>2, <1>3, <1>4 DEF Plain!Describes
<1>8. ASSUME NEW p \in Proc, NEW m \in Mode, Holds(p, End(q, m))
      PROVE  \E i \in Slot : IsSlotOf(q, i, p) /\ m \in slot[q][i].open
  <2>1. Plain!Ends(q)[p] # {}
    BY <1>5, <1>8
  <2>2. PICK i \in Slot : slot[q][i].valid /\ slot[q][i].pid = p
    BY <1>2, <1>3, <1>4, <2>1 DEF Plain!Describes
  <2>3. m \in slot[q][i].open
    BY <1>8, <2>2, SlotMeaning
  <2> QED BY <2>2, <2>3 DEF IsSlotOf
<1> QED BY <1>6, <1>7, <1>8

LEMMA LiveTyped ==
  FrontsInv => /\ live \subseteq Pipe /\ slot \in [Pipe -> [Slot -> SlotRecord]]
               /\ kernel \in KernelLoops /\ files \in [Proc -> [Fd -> File \cup {NoFile}]]
               /\ state \in [Proc -> {"unused", "ready"}]
BY PlainTyped DEF FrontsInv, EndsInv, SlotTable, SlotRecord

\* Outside of fork, a step that changes the cursors of readers only.
LEMMA WritersFrame ==
  ASSUME LogInv, kernel.op # "fork", kernel'.op # "fork", live' \subseteq live,
         \A q \in live', i \in Slot :
           slot'[q][i].valid /\ "read" \notin slot'[q][i].open =>
             slot'[q][i].empty \/ (slot[q][i].valid /\ "read" \notin slot[q][i].open
                                   /\ slot'[q][i].empty = slot[q][i].empty)
  PROVE  WritersAtEnd' /\ CopiesParent'
BY DEF LogInv, WritersAtEnd, CopiesParent

LEMMA ReadCursors ==
  ASSUME LogInv, NEW p \in Proc, NEW fd \in Fd, NEW count \in 0 .. MaxCount, Read(p, fd, count)
  PROVE  WritersAtEnd' /\ CopiesParent'
<1>1. kernel.op # "fork" /\ kernel'.op # "fork" /\ live' = live
  BY DEF Read, Calls
<1>2. EndsInv /\ live \subseteq Pipe /\ slot \in [Pipe -> [Slot -> SlotRecord]]
  BY LiveTyped DEF LogInv, FrontsInv
<1>3. CASE slot' = slot
  BY <1>1, <1>3, WritersFrame
<1>4. ASSUME NEW q \in Pipe, NEW i \in Slot, NEW n, "read" \in slot[q][i].open,
             slot' = [slot EXCEPT ![q][i] = [slot[q][i] EXCEPT !.front = (@ + n) % Size,
                                                               !.empty = AtEnd(slot[q][i], ring[q], n)]]
      PROVE  WritersAtEnd' /\ CopiesParent'
  <2>1. PICK s : s = [slot[q][i] EXCEPT !.front = (@ + n) % Size, !.empty = AtEnd(slot[q][i], ring[q], n)]
    OBVIOUS
  <2>2. s.open = slot[q][i].open
    BY <1>2, <2>1 DEF SlotRecord
  <2>3. \A x \in Pipe, j \in Slot : slot'[x][j] = IF x = q /\ j = i THEN s ELSE slot[x][j]
    BY <1>2, <1>4, <2>1
  <2>4. \A x \in live', j \in Slot : slot'[x][j].valid /\ "read" \notin slot'[x][j].open => slot'[x][j] = slot[x][j]
    BY <1>1, <1>2, <1>4, <2>2, <2>3
  <2> QED BY <1>1, <2>4, WritersFrame
<1> QED BY <1>2, <1>3, <1>4, ReadEffect

LEMMA WriteCursors ==
  ASSUME LogInv, NEW p \in Proc, NEW fd \in Fd, NEW data \in UserData, Write(p, fd, data)
  PROVE  WritersAtEnd' /\ CopiesParent'
<1>1. kernel.op # "fork" /\ kernel'.op # "fork" /\ live' = live
  BY DEF Write, Calls
<1>2. EndsInv /\ live \subseteq Pipe /\ slot \in [Pipe -> [Slot -> SlotRecord]]
  BY LiveTyped DEF LogInv, FrontsInv
<1>3. CASE slot' = slot
  BY <1>1, <1>3, WritersFrame
<1>4. ASSUME NEW q \in Pipe, slot' = [slot EXCEPT ![q] = WakeReaders(@)]
      PROVE  WritersAtEnd' /\ CopiesParent'
  <2>1. ASSUME NEW x \in live', NEW j \in Slot, slot'[x][j].valid /\ "read" \notin slot'[x][j].open
        PROVE  slot[x][j].valid /\ "read" \notin slot[x][j].open /\ slot'[x][j].empty = slot[x][j].empty
    <3>1. x \in Pipe /\ slot[x][j] \in SlotRecord
      BY <1>1, <1>2
    <3>2. CASE x # q
      BY <1>2, <1>4, <2>1, <3>1, <3>2
    <3>3. CASE x = q
      <4>1. slot'[x][j] = [slot[x][j] EXCEPT !.empty = @ /\ ~ (slot[x][j].valid /\ "read" \in slot[x][j].open)]
        BY <1>2, <1>4, <3>1, <3>3 DEF WakeReaders
      <4>2. slot'[x][j].valid = slot[x][j].valid /\ slot'[x][j].open = slot[x][j].open
        BY <3>1, <4>1 DEF SlotRecord
      <4>3. slot'[x][j].empty = (slot[x][j].empty /\ TRUE)
        BY <2>1, <3>1, <4>1, <4>2 DEF SlotRecord
      <4>4. slot[x][j].empty \in BOOLEAN
        BY <3>1 DEF SlotRecord
      <4> QED BY <2>1, <4>2, <4>3, <4>4
    <3> QED BY <3>2, <3>3
  <2> QED BY <1>1, <2>1, WritersFrame
<1> QED BY <1>2, <1>3, <1>4, WriteEffect

LEMMA CreateCursors ==
  ASSUME LogInv, NEW p \in Proc, NEW q \in Pipe, NEW page \in PageContents, Create(p, q, page)
  PROVE  WritersAtEnd' /\ CopiesParent'
<1>1. kernel.op # "fork" /\ kernel'.op # "fork"
  BY DEF Create, Calls
<1>2. live \subseteq Pipe /\ slot \in [Pipe -> [Slot -> SlotRecord]]
  BY LiveTyped DEF LogInv
<1>3. CASE slot' = slot /\ live' = live
  BY <1>1, <1>3, WritersFrame
<1>4. CASE /\ slot' = [slot EXCEPT ![q] = [page EXCEPT ![0] = [valid |-> TRUE, pid |-> p, front |-> 0,
                                                               empty |-> TRUE, open |-> Mode]]]
           /\ live' = live \cup {q}
  <2>1. PICK s : s = [valid |-> TRUE, pid |-> p, front |-> 0, empty |-> TRUE, open |-> Mode]
    OBVIOUS
  <2>2. page \in [Slot -> SlotRecord] /\ \A i \in Slot : ~ page[i].valid
    BY PPipeAssumption, CleanPages DEF SlotTable, SlotRecord
  <2>3. slot' = [slot EXCEPT ![q] = [page EXCEPT ![0] = s]]
    BY <1>4, <2>1
  <2>4. s.empty
    BY <2>1
  <2>5. \A x \in Pipe, i \in Slot : slot'[x][i] = IF x = q THEN (IF i = 0 THEN s ELSE page[i]) ELSE slot[x][i]
    BY <1>2, <2>2, <2>3
  <2>6. ASSUME NEW x \in live', NEW i \in Slot, slot'[x][i].valid /\ "read" \notin slot'[x][i].open
        PROVE  \/ slot'[x][i].empty
               \/ /\ x \in live /\ slot'[x][i] = slot[x][i]
    BY <1>2, <1>4, <2>2, <2>4, <2>5, <2>6
  <2> QED BY <1>1, <2>6 DEF LogInv, WritersAtEnd, CopiesParent
<1> QED BY <1>3, <1>4 DEF Create

LEMMA CloseCursors ==
  ASSUME LogInv, NEW p \in Proc, NEW f \in File, PPipeClose(p, f), kernel.op # "fork", kernel'.op # "fork"
  PROVE  WritersAtEnd' /\ CopiesParent'
<1> DEFINE q == f.pipe
<1>1. PICK i \in CloseSlots(q, p) :
        LET open == slot[q][i].open \ {f.mode}
            left == Cardinality(ValidSlots(q)) - (IF open = {} THEN 1 ELSE 0)
        IN  /\ slot' = [slot EXCEPT ![q][i] =
                          [valid |-> @.valid /\ open # {}, pid |-> @.pid, front |-> @.front,
                           empty |-> @.empty \/ f.mode = "read", open |-> open]]
            /\ live' = IF left = 0 THEN live \ {q} ELSE live
  BY DEF PPipeClose
<1>2. PICK s : s = [valid |-> slot[q][i].valid /\ slot[q][i].open \ {f.mode} # {}, pid |-> slot[q][i].pid,
                    front |-> slot[q][i].front, empty |-> slot[q][i].empty \/ f.mode = "read",
                    open |-> slot[q][i].open \ {f.mode}]
  OBVIOUS
<1>3. slot' = [slot EXCEPT ![q][i] = s] /\ live' \subseteq live
  BY <1>1, <1>2
<1>4. live \subseteq Pipe /\ slot \in [Pipe -> [Slot -> SlotRecord]]
  BY LiveTyped DEF LogInv
<1>5. \A x \in Pipe, j \in Slot : slot'[x][j] = IF x = q /\ j = i THEN s ELSE slot[x][j]
  BY <1>3, <1>4
<1>6. ASSUME NEW x \in live', NEW j \in Slot, slot'[x][j].valid /\ "read" \notin slot'[x][j].open
      PROVE  \/ slot'[x][j].empty
             \/ /\ slot[x][j].valid /\ "read" \notin slot[x][j].open
                /\ slot'[x][j].empty = slot[x][j].empty
  <2>1. x \in Pipe
    BY <1>3, <1>4
  <2>2. CASE x = q /\ j = i
    <3>1. slot'[x][j] = s /\ slot[q][i] \in SlotRecord
      BY <1>4, <1>5, <2>1, <2>2
    <3>2. s.valid /\ "read" \notin s.open
      BY <1>6, <3>1
    <3>3. slot[q][i].valid /\ ("read" \notin slot[q][i].open \/ f.mode = "read")
      BY <1>2, <3>2
    <3>4. CASE f.mode = "read"
      <4>1. s.empty
        BY <1>2, <3>4
      <4> QED BY <3>1, <4>1
    <3>5. CASE f.mode # "read"
      <4>1. s.empty = (slot[q][i].empty \/ FALSE)
        BY <1>2, <3>5
      <4>2. slot[q][i].empty \in BOOLEAN
        BY <3>1 DEF SlotRecord
      <4> QED BY <2>2, <3>1, <3>3, <3>5, <4>1, <4>2
    <3> QED BY <3>4, <3>5
  <2>3. CASE ~ (x = q /\ j = i)
    BY <1>5, <1>6, <2>1, <2>3
  <2> QED BY <2>2, <2>3
<1> QED BY <1>3, <1>6, WritersFrame

LEMMA ForkBeginCursors ==
  ASSUME LogInv, NEW p \in Proc, ForkBegin(p)
  PROVE  WritersAtEnd' /\ CopiesParent'
<1>1. PICK c : c = Min({x \in Proc : state[x] = "unused"})
  OBVIOUS
<1>2. c \in Proc /\ state[c] = "unused"
  <2>1. {x \in Proc : state[x] = "unused"} \in SUBSET Nat /\ {x \in Proc : state[x] = "unused"} # {}
    BY FilesAssumption DEF ForkBegin, CopyContext
  <2> QED BY <1>1, <2>1, SameSets, Plain!MinMax, PlainAssumptions
<1>3. /\ kernel' = [op |-> "fork", proc |-> p, child |-> c, fd |-> 0, ret |-> 0]
      /\ UNCHANGED <<slot, live>> /\ kernel.op = "user"
  BY <1>1 DEF ForkBegin, CopyContext, Calls
<1>4. WritersAtEnd'
  BY <1>3 DEF LogInv, WritersAtEnd
<1>5. ASSUME NEW q \in live, NEW i \in Slot, IsSlotOf(q, i, c) PROVE FALSE
  <2>1. EndsInv
    BY DEF LogInv, FrontsInv
  <2>2. slot[q][i].open # {} /\ q \in Pipe
    BY <1>5, <2>1, LiveTyped, OneSlotEach DEF IsSlotOf, LogInv
  <2>3. slot[q][i].open \in SUBSET Mode
    BY <2>2, LiveTyped DEF LogInv, SlotRecord
  <2>4. PICK m \in Mode : m \in slot[q][i].open
    BY <2>2, <2>3
  <2>5. Holds(c, End(q, m))
    BY <1>5, <2>1, <2>4, SlotMeaning DEF IsSlotOf
  <2>6. \A fd \in Fd : files[c][fd] = NoFile
    BY <1>2, <2>1, SameSets DEF EndsInv, Plain!IInv, Plain!UnusedHasNoFiles
  <2>7. End(q, m) # NoFile
    BY <2>2, FilesAssumption DEF End, File
  <2> QED BY <2>5, <2>6, <2>7 DEF Holds
<1>6. CopiesParent'
  BY <1>3, <1>5 DEF CopiesParent, IsSlotOf
<1> QED BY <1>4, <1>6

LEMMA ForkEndCursors ==
  ASSUME LogInv, ForkEnd
  PROVE  WritersAtEnd' /\ CopiesParent'
<1>1. /\ kernel.op = "fork" /\ kernel.fd = MaxOpenFiles /\ kernel'.op = "user"
      /\ UNCHANGED <<slot, live, files>>
  BY DEF ForkEnd, LeaveFork, UserMode
<1>2. EndsInv /\ live \subseteq Pipe /\ kernel.child \in Proc
  BY LiveTyped DEF LogInv, FrontsInv, KernelLoops
<1>3. ASSUME NEW q \in live, NEW i \in Slot, slot[q][i].valid /\ "read" \notin slot[q][i].open
      PROVE  slot[q][i].empty
  <2>1. SUFFICES ASSUME slot[q][i].pid = kernel.child, NEW fd \in Fd, files[kernel.child][fd] = End(q, "read")
                 PROVE  FALSE
    BY <1>3 DEF LogInv, WritersAtEnd
  <2>2. Counted(kernel.child, fd)
    BY <1>1, FilesAssumption DEF Counted, Fd
  <2>3. Holds(kernel.child, End(q, "read")) /\ "read" \in Mode
    BY <2>1, <2>2 DEF Holds, Mode
  <2> QED BY <1>2, <1>3, <2>1, <2>3, SlotMeaning
<1> QED BY <1>1, <1>3 DEF WritersAtEnd, CopiesParent

LEMMA ForkFileCursors ==
  ASSUME LogInv, ForkFile
  PROVE  WritersAtEnd' /\ CopiesParent'
<1> DEFINE f    == files[kernel.child][kernel.fd]
           q    == f.pipe
           c    == kernel.child
           p    == kernel.proc
           par  == Last(SlotsOf(q, p))
           mine == IF SlotsOf(q, c) = {} THEN Last(Slot \ ValidSlots(q)) ELSE Last(SlotsOf(q, c))
<1>1. /\ EndsInv /\ live \subseteq Pipe /\ slot \in [Pipe -> [Slot -> SlotRecord]]
      /\ c \in Proc /\ p \in Proc /\ kernel \in KernelLoops
  BY LiveTyped DEF LogInv, FrontsInv, KernelLoops
<1>2. files[c] = files[p] /\ c # p /\ kernel.op = "fork"
  BY <1>1 DEF ForkFile, EndsInv, Plain!IInv, Plain!KernelInv
<1>3. /\ kernel'.op = "fork" /\ kernel'.child = c /\ kernel'.proc = p
      /\ UNCHANGED <<files, live>>
  <2>1. /\ UNCHANGED <<files, live>>
        /\ kernel' = [kernel EXCEPT !.fd = @ + 1] \/ PPipeFork(c, p, f)
    BY DEF ForkFile
  <2>2. \/ kernel' = [kernel EXCEPT !.fd = @ + 1]
        \/ \E r : kernel' = [kernel EXCEPT !.fd = @ + 1, !.ret = r]
    BY <2>1 DEF PPipeFork
  <2> QED BY <1>1, <1>2, <2>1, <2>2 DEF KernelLoops
<1>4. CASE slot' = slot
  BY <1>2, <1>3, <1>4 DEF LogInv, WritersAtEnd, CopiesParent, IsSlotOf
<1>5. CASE slot' # slot
  <2>1. f # NoFile /\ PPipeFork(c, p, f) /\ mine # NoSlot /\ par # NoSlot
    <3>1. f # NoFile /\ PPipeFork(c, p, f)
      BY <1>5 DEF ForkFile
    <3> QED BY <1>5, <3>1 DEF PPipeFork
  <2>2. q \in live /\ q \in Pipe
    <3>1. kernel.fd \in Fd /\ files \in [Proc -> [Fd -> File \cup {NoFile}]]
      BY <1>1, LiveTyped, FilesAssumption DEF ForkFile, KernelLoops, Fd, LogInv
    <3>2. Plain!FilesOfLivePipes
      BY <1>1 DEF EndsInv, Plain!IInv
    <3> QED BY <1>1, <2>1, <3>1, <3>2, SameSets DEF Plain!FilesOfLivePipes
  <2> DEFINE s == [slot[q][par] EXCEPT
                     !.pid = c, !.open = EndsCopied(slot[q][mine], slot[q][par], f.mode)]
  <2>3. slot' = [slot EXCEPT ![q][mine] = s]
    BY <2>1 DEF PPipeFork
  <2>4. /\ par \in Slot /\ IsSlotOf(q, par, p) /\ mine \in Slot
        /\ slot[q][mine].valid => slot[q][mine].pid = c
        /\ \A i \in Slot : IsSlotOf(q, i, c) => i = mine
    <3>1. /\ SlotsOf(q, p) \in SUBSET Slot /\ SlotsOf(q, c) \in SUBSET Slot
          /\ Slot \ ValidSlots(q) \in SUBSET Slot
      BY DEF SlotsOf, ValidSlots
    <3>2. /\ par \in SlotsOf(q, p)
          /\ SlotsOf(q, c) = {} => mine \in Slot \ ValidSlots(q)
          /\ SlotsOf(q, c) # {} => mine \in SlotsOf(q, c)
      <4> HIDE DEF q, c, p
      <4> QED BY <2>1, <3>1, LastSlot
    <3> HIDE DEF par, mine, q, c, p
    <3>3. \A i \in Slot : IsSlotOf(q, i, c) => i \in SlotsOf(q, c)
      BY DEF SlotsOf, ValidSlots, IsSlotOf
    <3>4. \A i, j \in SlotsOf(q, c) : i = j
      BY <1>1, <2>2, OneSlotEach DEF SlotsOf, ValidSlots
    <3> QED BY <3>1, <3>2, <3>3, <3>4 DEF SlotsOf, ValidSlots, IsSlotOf
  <2> HIDE DEF par, mine, q, f
  <2>5. s.front = slot[q][par].front /\ s.empty = slot[q][par].empty /\ s.pid = c
    <3>1. slot[q][par] \in SlotRecord
      BY <1>1, <2>2, <2>4
    <3> QED BY <3>1 DEF SlotRecord
  <2> HIDE DEF s
  <2>6. \A x \in Pipe, j \in Slot : slot'[x][j] = IF x = q /\ j = mine THEN s ELSE slot[x][j]
    BY <1>1, <2>2, <2>3, <2>4
  <2>7. WritersAtEnd'
    <3>1. s.empty \/ \E fd \in Fd : files[c][fd] = End(q, "read")
      <4>1. SUFFICES ASSUME ~ slot[q][par].empty PROVE \E fd \in Fd : files[c][fd] = End(q, "read")
        BY <2>5
      <4>2. "read" \in slot[q][par].open
        BY <1>2, <2>2, <2>4, <4>1 DEF LogInv, WritersAtEnd, IsSlotOf
      <4>3. Holds(p, End(q, "read"))
        <5>1. "read" \in Mode
          BY DEF Mode
        <5> QED BY <1>1, <2>2, <2>4, <4>2, <5>1, SlotMeaning DEF IsSlotOf
      <4> QED BY <1>2, <4>3 DEF Holds
    <3>2. ASSUME NEW x \in live, NEW i \in Slot, slot'[x][i].valid /\ "read" \notin slot'[x][i].open
          PROVE  \/ slot'[x][i].empty
                 \/ slot'[x][i].pid = c /\ \E fd \in Fd : files[c][fd] = End(x, "read")
      <4>1. x \in Pipe
        BY <1>1
      <4>2. CASE x = q /\ i = mine
        BY <2>5, <2>6, <3>1, <4>1, <4>2
      <4>3. CASE ~ (x = q /\ i = mine)
        <5>1. slot'[x][i] = slot[x][i]
          BY <2>6, <4>1, <4>3
        <5> QED BY <3>2, <5>1 DEF LogInv, WritersAtEnd
      <4> QED BY <4>2, <4>3
    <3> QED BY <1>3, <3>2 DEF WritersAtEnd
  <2>8. CopiesParent'
    <3>1. ASSUME NEW x \in live, NEW i \in Slot, NEW j \in Slot,
                 slot'[x][i].valid /\ slot'[x][i].pid = c, slot'[x][j].valid /\ slot'[x][j].pid = p
          PROVE  slot'[x][i].front = slot'[x][j].front /\ slot'[x][i].empty = slot'[x][j].empty
      <4>1. x \in Pipe
        BY <1>1
      <4>2. CASE x # q
        <5>1. slot'[x][i] = slot[x][i] /\ slot'[x][j] = slot[x][j]
          BY <2>6, <4>1, <4>2
        <5> QED BY <1>2, <3>1, <5>1 DEF LogInv, CopiesParent, IsSlotOf
      <4>3. CASE x = q
        <5>1. j # mine
          BY <1>2, <2>5, <2>6, <3>1, <4>1, <4>3
        <5>2. slot'[q][j] = slot[q][j] /\ j = par
          <6>1. slot'[q][j] = slot[q][j]
            BY <2>6, <4>1, <4>3, <5>1
          <6> QED BY <1>1, <2>2, <2>4, <3>1, <4>3, <6>1, OneSlotEach DEF IsSlotOf
        <5>3. i = mine
          BY <2>4, <2>6, <3>1, <4>1, <4>3 DEF IsSlotOf
        <5> QED BY <2>2, <2>4, <2>5, <2>6, <4>3, <5>2, <5>3
      <4> QED BY <4>2, <4>3
    <3> QED BY <1>3, <3>1 DEF CopiesParent, IsSlotOf
  <2> QED BY <2>7, <2>8
<1> QED BY <1>4, <1>5

LEMMA LogNext ==
  LogInv /\ [PlainNext \/ \E p \in Proc, fd \in Fd : PartialFlush(p, fd)]_vars => LogInv'
<1> SUFFICES ASSUME LogInv, [PlainNext \/ \E p \in Proc, fd \in Fd : PartialFlush(p, fd)]_vars
             PROVE  WritersAtEnd' /\ CopiesParent'
  BY FrontsNext DEF LogInv
<1>1. kernel \in KernelLoops /\ files \in [Proc -> [Fd -> File \cup {NoFile}]]
  BY LiveTyped DEF LogInv
<1>2. CASE slot' = slot /\ live' = live /\ kernel.op # "fork" /\ kernel'.op # "fork"
  BY <1>2, WritersFrame
<1>3. ASSUME NEW p \in Proc, NEW q \in Pipe, NEW page \in PageContents, Create(p, q, page)
      PROVE  WritersAtEnd' /\ CopiesParent'
  BY <1>3, CreateCursors
<1>4. ASSUME NEW p \in Proc, NEW fd \in Fd, NEW count \in 0 .. MaxCount, Read(p, fd, count)
      PROVE  WritersAtEnd' /\ CopiesParent'
  BY <1>4, ReadCursors
<1>5. ASSUME NEW p \in Proc, NEW fd \in Fd, NEW data \in UserData, Write(p, fd, data)
      PROVE  WritersAtEnd' /\ CopiesParent'
  BY <1>5, WriteCursors
<1>6. ASSUME NEW p \in Proc, NEW fd \in Fd, Close(p, fd) PROVE WritersAtEnd' /\ CopiesParent'
  <2>1. kernel.op # "fork" /\ kernel'.op # "fork"
    BY <1>6 DEF Close, Calls
  <2>2. CASE files[p][fd] = NoFile
    BY <1>2, <1>6, <2>1, <2>2 DEF Close
  <2>3. CASE files[p][fd] # NoFile
    BY <1>1, <1>6, <2>1, <2>3, CloseCursors DEF Close
  <2> QED BY <2>2, <2>3
<1>7. ASSUME NEW p \in Proc, ForkBegin(p) PROVE WritersAtEnd' /\ CopiesParent'
  BY <1>7, ForkBeginCursors
<1>8. ASSUME NEW p \in Proc, ExitBegin(p) PROVE WritersAtEnd' /\ CopiesParent'
  BY <1>2, <1>8 DEF ExitBegin, EnterExit, Calls
<1>9. CASE ForkFile \/ ForkEnd
  BY <1>9, ForkFileCursors, ForkEndCursors
<1>10. CASE ExitEnd
  BY <1>2, <1>10 DEF ExitEnd, FreeContext, UserMode
<1>11. CASE ExitFile
  <2>1. kernel.op = "exit" /\ kernel'.op = "exit"
    BY <1>1, <1>11 DEF ExitFile, KernelLoops
  <2>2. kernel.proc \in Proc /\ kernel.fd \in Fd
    BY <1>1, <1>11, FilesAssumption DEF ExitFile, KernelLoops, Fd
  <2>3. files[kernel.proc][kernel.fd] \in File \cup {NoFile}
    BY <1>1, <2>2
  <2>4. CASE files[kernel.proc][kernel.fd] = NoFile
    BY <1>2, <1>11, <2>1, <2>4 DEF ExitFile
  <2>5. CASE files[kernel.proc][kernel.fd] # NoFile
    BY <1>11, <2>1, <2>2, <2>3, <2>5, CloseCursors DEF ExitFile
  <2> QED BY <2>4, <2>5
<1>12. ASSUME NEW p \in Proc, NEW fd \in Fd, PartialFlush(p, fd) PROVE WritersAtEnd' /\ CopiesParent'
  BY <1>2, <1>12 DEF PartialFlush, Flush, Calls
<1>13. CASE UNCHANGED vars
  BY <1>13 DEF vars, LogInv, WritersAtEnd, CopiesParent, IsSlotOf
<1> QED BY <1>3, <1>4, <1>5, <1>6, <1>7, <1>8, <1>9, <1>10, <1>11, <1>12, <1>13 DEF PlainNext

LEMMA LogInit == Init => LogInv
<1> SUFFICES ASSUME Init PROVE LogInv
  OBVIOUS
<1>1. FrontsInv
  <2>1. FrontsInRing
    BY FrontsBySlot DEF Init
  <2>2. NewRing \in Rings
    BY PPipeAssumption DEF Rings, WellFormed, RingType, NewRing
  <2> QED BY <2>1, <2>2, EndsInit DEF FrontsInv, Init
<1>2. live = {} /\ kernel.op = "user"
  BY DEF Init, FilesInit, UserMode
<1> QED BY <1>1, <1>2 DEF LogInv, WritersAtEnd, CopiesParent

LEMMA LogInvariance == PartialSpec => []LogInv
BY LogInit, LogNext, PTL DEF PartialSpec

-------------------------------------------------------------------------------
(***************************************************************************)
(* What the users see: the tables of all processes but of a child whose    *)
(* fork is not over and of a process that exits, the bytes of the rings    *)
(* they have open, and how far each reader is from the rear.               *)
(***************************************************************************)
Hidden == {p \in Proc : \/ kernel.op = "fork" /\ p = kernel.child
                        \/ kernel.op = "exit" /\ p = kernel.proc}
NoFiles == [fd \in Fd |-> NoFile]
Shown(fs, hidden) == [p \in Proc |-> IF p \in hidden THEN NoFiles ELSE fs[p]]
Kept(fs, rings)   == [q \in Pipe |-> IF Users!Open(fs, q) THEN Bytes(rings[q]) ELSE <<>>]

LEMMA UserSets ==
  /\ Users!Fd = Fd /\ Users!Mode = Mode /\ Users!UserData = UserData
  /\ \A q, m : [pipe |-> q, mode |-> m] = End(q, m)
  /\ \A S : Users!Cardinality(S) = Cardinality(S) /\ Users!Min(S) = Min(S)
<1>1. Users!Fd = Fd /\ Users!Mode = Mode /\ Users!UserData = UserData
  BY DEF Users!Fd, Fd, Users!Mode, Mode, Users!UserData, UserData
<1>2. \A S : Users!Cardinality(S) = Cardinality(S)
  BY Zenon DEF Cardinality, Users!Cardinality
<1>3. \A S : Users!Min(S) = Min(S)
  BY Zenon DEF Min, Users!Min
<1> QED BY <1>1, <1>2, <1>3 DEF End

LEMMA View ==
  FrontsInv => /\ Visible = {p \in Proc : state[p] = "ready"} \ Hidden
               /\ VisibleFiles = Shown(files, Hidden)
               /\ KeptBytes = Kept(VisibleFiles, ring)
               /\ \A p \in Proc, q \in Pipe : Reads(p, q) <=> Users!Has(VisibleFiles, p, q, "read")
<1> SUFFICES ASSUME FrontsInv
             PROVE  /\ Visible = {p \in Proc : state[p] = "ready"} \ Hidden
                    /\ VisibleFiles = Shown(files, Hidden)
                    /\ KeptBytes = Kept(VisibleFiles, ring)
                    /\ \A p \in Proc, q \in Pipe : Reads(p, q) <=> Users!Has(VisibleFiles, p, q, "read")
  OBVIOUS
<1>1. Visible = {p \in Proc : state[p] = "ready"} \ Hidden
  BY DEF Visible, Hidden
<1>2. ASSUME NEW p \in Proc PROVE VisibleFiles[p] = Shown(files, Hidden)[p]
  <2>1. CASE state[p] = "ready"
    BY <1>1, <2>1 DEF VisibleFiles, Shown, NoFiles
  <2>2. CASE state[p] # "ready"
    <3>1. state[p] = "unused" /\ files[p] \in [Fd -> File \cup {NoFile}]
      BY <2>2, LiveTyped
    <3>2. files[p] = NoFiles
      BY <3>1, SameSets DEF FrontsInv, EndsInv, Plain!IInv, Plain!UnusedHasNoFiles, NoFiles
    <3> QED BY <1>1, <2>2, <3>2 DEF VisibleFiles, Shown, NoFiles
  <2> QED BY <2>1, <2>2
<1>3. VisibleFiles = Shown(files, Hidden)
  BY <1>2 DEF VisibleFiles, Shown
<1>4. KeptBytes = Kept(VisibleFiles, ring)
  BY UserSets DEF KeptBytes, Kept, Users!Open, Users!Has
<1>5. \A p \in Proc, q \in Pipe : Reads(p, q) <=> Users!Has(VisibleFiles, p, q, "read")
  BY UserSets DEF Reads, Users!Has
<1> QED BY <1>1, <1>3, <1>4, <1>5

LEMMA ViewNext ==
  FrontsInv' => /\ Visible' = {p \in Proc : state'[p] = "ready"} \ Hidden'
                /\ VisibleFiles' = Shown(files', Hidden')
                /\ KeptBytes' = Kept(VisibleFiles', ring')
                /\ \A p \in Proc, q \in Pipe : Reads(p, q)' <=> Users!Has(VisibleFiles', p, q, "read")
<1>1. (FrontsInv => /\ Visible = {p \in Proc : state[p] = "ready"} \ Hidden
                    /\ VisibleFiles = Shown(files, Hidden)
                    /\ KeptBytes = Kept(VisibleFiles, ring)
                    /\ \A p \in Proc, q \in Pipe : Reads(p, q) <=> Users!Has(VisibleFiles, p, q, "read"))'
  BY View, PTL
<1> QED BY <1>1 DEF Shown, Kept, Users!Open, Users!Has, NoFiles

\* In user mode nothing is hidden.
LEMMA UserView ==
  /\ FrontsInv /\ kernel.op = "user" =>
       Visible = {p \in Proc : state[p] = "ready"} /\ VisibleFiles = files
  /\ FrontsInv' /\ kernel'.op = "user" =>
       Visible' = {p \in Proc : state'[p] = "ready"} /\ VisibleFiles' = files'
<1>1. ASSUME FrontsInv, kernel.op = "user" PROVE Hidden = {} /\ Shown(files, Hidden) = files
  <2>1. Hidden = {}
    BY <1>1 DEF Hidden
  <2>2. Shown(files, {}) = files
    BY <1>1, LiveTyped DEF Shown
  <2> QED BY <2>1, <2>2
<1>2. ASSUME FrontsInv', kernel'.op = "user" PROVE Hidden' = {} /\ Shown(files', Hidden') = files'
  <2>1. Hidden' = {}
    BY <1>2 DEF Hidden
  <2>2. files' \in [Proc -> [Fd -> File \cup {NoFile}]]
    <3>1. (FrontsInv => files \in [Proc -> [Fd -> File \cup {NoFile}]])'
      BY LiveTyped, PTL
    <3> QED BY <1>2, <3>1
  <2>3. Shown(files', {}) = files'
    BY <2>2 DEF Shown
  <2> QED BY <2>1, <2>3
<1> QED BY <1>1, <1>2, View, ViewNext

(***************************************************************************)
(* A process with the read end of a pipe has one slot there, and the slot  *)
(* says how much it has not read.                                          *)
(***************************************************************************)
IsReader(q, i, p) == IsSlotOf(q, i, p) /\ "read" \in slot[q][i].open

UnreadSays ==
  \A q \in Pipe, p \in Proc :
    IF Reads(p, q)
      THEN /\ q \in live
           /\ \E i \in Slot : IsReader(q, i, p)
           /\ \A i \in Slot : IsSlotOf(q, i, p) => IsReader(q, i, p)
                                                   /\ UnreadCount[q][p] = Unread(slot[q][i], ring[q])
      ELSE UnreadCount[q][p] = 0

LEMMA UnreadIs == FrontsInv => UnreadSays
<1> SUFFICES ASSUME FrontsInv, NEW q \in Pipe, NEW p \in Proc, Reads(p, q)
             PROVE  /\ q \in live
                    /\ \E i \in Slot : IsReader(q, i, p)
                    /\ \A i \in Slot : IsSlotOf(q, i, p) =>
                         IsReader(q, i, p) /\ UnreadCount[q][p] = Unread(slot[q][i], ring[q])
  BY DEF UnreadSays, UnreadCount
<1>1. EndsInv /\ files \in [Proc -> [Fd -> File \cup {NoFile}]]
  BY LiveTyped DEF FrontsInv
<1>2. PICK fd \in Fd : VisibleFiles[p][fd] = End(q, "read")
  BY DEF Reads
<1>3. p \in Visible /\ files[p][fd] = End(q, "read")
  <2>1. End(q, "read") # NoFile
    BY FilesAssumption DEF End, File, Mode
  <2> QED BY <1>2, <2>1 DEF VisibleFiles
<1>4. Holds(p, End(q, "read"))
  BY <1>3 DEF Holds, Counted, Visible
<1>5. q \in live
  <2>1. \A x \in Proc, g \in Fd : files[x][g] # NoFile => files[x][g].pipe \in live
    BY <1>1, SameSets DEF EndsInv, Plain!IInv, Plain!FilesOfLivePipes
  <2>2. End(q, "read") # NoFile /\ End(q, "read").pipe = q
    BY FilesAssumption DEF End, File, Mode
  <2> QED BY <1>3, <2>1, <2>2
<1>6. PICK i \in Slot : IsSlotOf(q, i, p) /\ "read" \in slot[q][i].open
  <2>1. "read" \in Mode
    BY DEF Mode
  <2> QED BY <1>1, <1>4, <1>5, <2>1, OneSlotEach
<1>7. \A j \in Slot : IsSlotOf(q, j, p) => j = i
  BY <1>1, <1>5, <1>6, OneSlotEach DEF IsSlotOf
<1>8. SlotsOf(q, p) = {i}
  BY <1>6, <1>7 DEF SlotsOf, ValidSlots, IsSlotOf
<1>9. Last(SlotsOf(q, p)) = i
  <2>1. {i} \in SUBSET Slot
    OBVIOUS
  <2> QED BY <1>8, <2>1, LastSlot
<1>10. UnreadCount[q][p] = Unread(slot[q][i], ring[q])
  BY <1>9 DEF UnreadCount
<1> QED BY <1>5, <1>6, <1>7, <1>10 DEF IsReader

LEMMA UnreadNext == FrontsInv' => UnreadSays'
<1>1. (FrontsInv => UnreadSays)'
  BY UnreadIs, PTL
<1> QED BY <1>1

\* The users see the same of a reader whose cursor stays.
Stays(q, p) ==
  \A i \in Slot : IsReader(q, i, p)' =>
    /\ IsSlotOf(q, i, p)
    /\ slot'[q][i].front = slot[q][i].front /\ slot'[q][i].empty = slot[q][i].empty

LEMMA StaysUnread ==
  ASSUME FrontsInv, FrontsInv', NEW q \in Pipe, NEW p \in Proc, Reads(p, q), Reads(p, q)', Stays(q, p),
         ring'[q].rear = ring[q].rear
  PROVE  UnreadCount'[q][p] = UnreadCount[q][p]
<1>1. UnreadSays /\ UnreadSays'
  BY UnreadIs, UnreadNext
<1>2. PICK i \in Slot : IsReader(q, i, p)'
  BY <1>1 DEF UnreadSays
<1>3. IsSlotOf(q, i, p)' /\ IsSlotOf(q, i, p)
  BY <1>2 DEF Stays, IsReader
<1>4. UnreadCount[q][p] = Unread(slot[q][i], ring[q]) /\ UnreadCount'[q][p] = Unread(slot'[q][i], ring'[q])
  BY <1>1, <1>3 DEF UnreadSays
<1> QED BY <1>2, <1>4 DEF Unread, Stays

LEMMA NotReading ==
  ASSUME NEW q \in Pipe, NEW p \in Proc
  PROVE  /\ ~ Reads(p, q) => UnreadCount[q][p] = 0
         /\ ~ Reads(p, q)' => UnreadCount'[q][p] = 0
BY DEF UnreadCount, Reads

LEMMA UnreadShape ==
  /\ UnreadCount = [q \in Pipe |-> [p \in Proc |-> UnreadCount[q][p]]]
  /\ UnreadCount' = [q \in Pipe |-> [p \in Proc |-> UnreadCount'[q][p]]]
BY DEF UnreadCount

\* A step that only takes descriptors away.
LEMMA OnlyDrops ==
  ASSUME FrontsInv, FrontsInv', ring' = ring,
         \A p \in Proc, q \in Pipe, m \in Mode :
           Users!Has(VisibleFiles', p, q, m) => Users!Has(VisibleFiles, p, q, m),
         \A p \in Proc, q \in Pipe : Reads(p, q)' => Stays(q, p)
  PROVE  Users!Drop(VisibleFiles')
<1>1. /\ KeptBytes = Kept(VisibleFiles, ring) /\ KeptBytes' = Kept(VisibleFiles', ring)
      /\ \A p \in Proc, q \in Pipe : Reads(p, q) <=> Users!Has(VisibleFiles, p, q, "read")
      /\ \A p \in Proc, q \in Pipe : Reads(p, q)' <=> Users!Has(VisibleFiles', p, q, "read")
  BY View, ViewNext
<1>2. \A q \in Pipe : Users!Open(VisibleFiles', q) => Users!Open(VisibleFiles, q)
  BY UserSets DEF Users!Open
<1>3. KeptBytes' = [q \in Pipe |-> IF Users!Open(VisibleFiles', q) THEN KeptBytes[q] ELSE <<>>]
  BY <1>1, <1>2 DEF Kept
<1>4. ASSUME NEW q \in Pipe, NEW p \in Proc
      PROVE  UnreadCount'[q][p] = IF Users!Has(VisibleFiles', p, q, "read") THEN UnreadCount[q][p] ELSE 0
  <2>1. CASE Reads(p, q)'
    <3>1. Reads(p, q) /\ Stays(q, p)
      BY <1>1, <2>1 DEF Mode
    <3> QED BY <1>1, <2>1, <3>1, StaysUnread
  <2>2. CASE ~ Reads(p, q)'
    BY <1>1, <2>2, NotReading
  <2> QED BY <2>1, <2>2
<1>5. UnreadCount' = [q \in Pipe |-> [p \in Proc |->
                        IF Users!Has(VisibleFiles', p, q, "read") THEN UnreadCount[q][p] ELSE 0]]
  BY <1>4, UnreadShape
<1> QED BY <1>3, <1>5 DEF Users!Drop

\* A step that the users do not see.
LEMMA Unseen ==
  ASSUME FrontsInv, FrontsInv', UNCHANGED <<Visible, VisibleFiles, ring, ret>>,
         \A p \in Proc, q \in Pipe : Reads(p, q)' => Stays(q, p)
  PROVE  UNCHANGED Users!vars
<1>1. Users!Drop(VisibleFiles')
  BY OnlyDrops
<1>2. /\ KeptBytes = Kept(VisibleFiles, ring)
      /\ \A p \in Proc, q \in Pipe : Reads(p, q) <=> Users!Has(VisibleFiles, p, q, "read")
  BY View
<1>3. UNCHANGED KeptBytes
  BY <1>1, <1>2 DEF Users!Drop, Kept
<1>4. UNCHANGED UnreadCount
  <2>1. \A q \in Pipe, p \in Proc : UnreadCount'[q][p] = UnreadCount[q][p]
    BY <1>1, <1>2, NotReading DEF Users!Drop
  <2> QED BY <2>1, UnreadShape
<1> QED BY <1>3, <1>4 DEF Users!vars

\* In particular one that changes neither tables nor slots.
LEMMA NothingMoves ==
  ASSUME FrontsInv, FrontsInv', kernel.op = "user", kernel'.op = "user",
         UNCHANGED <<state, files, slot, ring>>
  PROVE  UNCHANGED <<Visible, VisibleFiles, KeptBytes, UnreadCount>>
<1>1. UNCHANGED <<Visible, VisibleFiles>>
  BY UserView
<1>2. UNCHANGED KeptBytes
  BY <1>1, View, ViewNext
<1>3. UNCHANGED UnreadCount
  BY <1>1 DEF UnreadCount, Reads, SlotsOf, ValidSlots
<1> QED BY <1>1, <1>2, <1>3

\* A close moves no cursor but that of the end it closes.
LEMMA CloseStays ==
  ASSUME FrontsInv, NEW p \in Proc, NEW f \in File, PPipeClose(p, f)
  PROVE  \A q \in Pipe, x \in Proc : Stays(q, x)
<1> DEFINE q == f.pipe
<1>1. PICK i \in CloseSlots(q, p) :
        slot' = [slot EXCEPT ![q][i] =
                   [valid |-> @.valid /\ slot[q][i].open \ {f.mode} # {}, pid |-> @.pid, front |-> @.front,
                    empty |-> @.empty \/ f.mode = "read", open |-> slot[q][i].open \ {f.mode}]]
  BY DEF PPipeClose
<1>2. PICK s : s = [valid |-> slot[q][i].valid /\ slot[q][i].open \ {f.mode} # {}, pid |-> slot[q][i].pid,
                    front |-> slot[q][i].front, empty |-> slot[q][i].empty \/ f.mode = "read",
                    open |-> slot[q][i].open \ {f.mode}]
  OBVIOUS
<1>3. slot' = [slot EXCEPT ![q][i] = s]
  BY <1>1, <1>2
<1>4. slot \in [Pipe -> [Slot -> SlotRecord]]
  BY LiveTyped
<1>5. \A x \in Pipe, j \in Slot : slot'[x][j] = IF x = q /\ j = i THEN s ELSE slot[x][j]
  BY <1>3, <1>4
<1>6. SUFFICES ASSUME NEW x \in Pipe, NEW y \in Proc, NEW j \in Slot,
                      slot'[x][j].valid /\ slot'[x][j].pid = y, "read" \in slot'[x][j].open
               PROVE  /\ slot[x][j].valid /\ slot[x][j].pid = y
                      /\ slot'[x][j].front = slot[x][j].front /\ slot'[x][j].empty = slot[x][j].empty
  BY DEF Stays, IsReader, IsSlotOf
<1>7. CASE x = q /\ j = i
  <2>1. slot'[x][j] = s /\ slot[q][i].empty \in BOOLEAN
    BY <1>4, <1>5, <1>7 DEF SlotRecord
  <2>2. slot[q][i].valid /\ slot[q][i].pid = y /\ s.front = slot[q][i].front /\ f.mode # "read"
    <3>1. s.valid /\ s.pid = y /\ "read" \in s.open
      BY <1>6, <2>1
    <3> QED BY <1>2, <3>1
  <2>3. s.empty = (slot[q][i].empty \/ FALSE)
    BY <1>2, <2>2
  <2> QED BY <1>7, <2>1, <2>2, <2>3
<1>8. CASE ~ (x = q /\ j = i)
  BY <1>5, <1>6, <1>8
<1> QED BY <1>7, <1>8

LEMMA SlotStays ==
  ASSUME slot' = slot
  PROVE  \A q \in Pipe, p \in Proc : Stays(q, p)
BY DEF Stays, IsReader, IsSlotOf

LEMMA CloseImplements ==
  ASSUME FrontsInv, FrontsInv', NEW p \in Proc, NEW fd \in Fd, Close(p, fd)
  PROVE  Users!CloseFails(p, fd) \/ Users!Close(p, fd)
<1>1. /\ kernel.op = "user" /\ kernel'.op = "user" /\ state[p] = "ready"
      /\ UNCHANGED <<state, ring>> /\ files \in [Proc -> [Fd -> File \cup {NoFile}]]
  BY LiveTyped DEF Close, Calls
<1>2. /\ Visible = {x \in Proc : state[x] = "ready"} /\ VisibleFiles = files /\ p \in Visible
      /\ UNCHANGED Visible /\ VisibleFiles' = files'
  BY <1>1, UserView
<1>3. CASE files[p][fd] = NoFile /\ Returns(-EINVAL) /\ UNCHANGED <<files, refCount, slot, live>>
  <2>1. UNCHANGED <<Visible, VisibleFiles, KeptBytes, UnreadCount>>
    BY <1>1, <1>3, NothingMoves
  <2> QED BY <1>2, <1>3, <2>1 DEF Users!CloseFails, Users!Returns, Returns, Users!EINVAL, EINVAL
<1>4. CASE /\ files[p][fd] # NoFile /\ files' = [files EXCEPT ![p][fd] = NoFile]
           /\ PPipeClose(p, files[p][fd]) /\ Returns(0)
  <2>1. \A x \in Proc, g \in Fd : files'[x][g] = IF x = p /\ g = fd THEN NoFile ELSE files[x][g]
    BY <1>1, <1>4
  <2>2. ASSUME NEW x \in Proc, NEW q \in Pipe, NEW m \in Mode, Users!Has(VisibleFiles', x, q, m)
        PROVE  Users!Has(VisibleFiles, x, q, m)
    <3>1. PICK g \in Fd : files'[x][g] = End(q, m)
      BY <1>2, <2>2, UserSets DEF Users!Has
    <3>2. End(q, m) # NoFile
      BY FilesAssumption DEF End, File
    <3> QED BY <1>2, <2>1, <3>1, <3>2, UserSets DEF Users!Has
  <2>3. \A x \in Proc, q \in Pipe : Stays(q, x)
    BY <1>1, <1>4, CloseStays
  <2>4. Users!Drop(VisibleFiles')
    BY <1>1, <2>2, <2>3, OnlyDrops
  <2> QED BY <1>2, <1>4, <2>4 DEF Users!Close, Users!Returns, Returns
<1> QED BY <1>3, <1>4 DEF Close

LEMMA ForkBeginStutters ==
  ASSUME FrontsInv, FrontsInv', NEW p \in Proc, ForkBegin(p)
  PROVE  UNCHANGED Users!vars
<1> DEFINE unused == {x \in Proc : state[x] = "unused"}
<1>1. PICK c : c = Min(unused)
  OBVIOUS
<1>2. c \in Proc /\ state[c] = "unused"
  <2>1. unused \in SUBSET Nat /\ unused # {}
    BY FilesAssumption DEF ForkBegin, CopyContext
  <2> QED BY <1>1, <2>1, SameSets, Plain!MinMax, PlainAssumptions
<1>3. /\ state' = [state EXCEPT ![c] = "ready"]
      /\ files' = [files EXCEPT ![c] = files[p]]
      /\ kernel' = [op |-> "fork", proc |-> p, child |-> c, fd |-> 0, ret |-> 0]
      /\ kernel.op = "user" /\ UNCHANGED <<ret, ring, slot>>
  BY <1>1 DEF ForkBegin, CopyContext, Calls
<1>4. Hidden' = {c}
  BY <1>2, <1>3 DEF Hidden
<1>5. Visible = {x \in Proc : state[x] = "ready"} /\ VisibleFiles = files
  BY <1>3, UserView
<1>6. Visible' = {x \in Proc : state'[x] = "ready"} \ {c} /\ VisibleFiles' = Shown(files', {c})
  BY <1>4, ViewNext
<1>7. UNCHANGED Visible
  BY <1>2, <1>3, <1>5, <1>6, LiveTyped
<1>8. UNCHANGED VisibleFiles
  <2>1. files[c] = NoFiles
    <3>1. \A fd \in Fd : files[c][fd] = NoFile
      BY <1>2, SameSets DEF FrontsInv, EndsInv, Plain!IInv, Plain!UnusedHasNoFiles
    <3> QED BY <1>2, <3>1, LiveTyped DEF NoFiles
  <2>2. \A x \in Proc : Shown(files', {c})[x] = files[x]
    BY <1>2, <1>3, <2>1, LiveTyped DEF Shown
  <2>3. Shown(files', {c}) = files
    BY <2>2, LiveTyped DEF Shown
  <2> QED BY <1>5, <1>6, <2>3
<1> QED BY <1>3, <1>7, <1>8, SlotStays, Unseen

LEMMA ForkFileStutters ==
  ASSUME FrontsInv, FrontsInv', ForkFile
  PROVE  UNCHANGED Users!vars
<1>1. PICK c, f : c = kernel.child /\ f = files[kernel.child][kernel.fd]
  OBVIOUS
<1>2. kernel \in KernelLoops /\ slot \in [Pipe -> [Slot -> SlotRecord]]
  BY LiveTyped
<1>3. /\ UNCHANGED <<state, files, ret, ring>> /\ kernel.op = "fork"
      /\ \/ kernel' = [kernel EXCEPT !.fd = @ + 1] /\ slot' = slot
         \/ f # NoFile /\ PPipeFork(c, kernel.proc, f)
  BY <1>1 DEF ForkFile
<1>4. /\ kernel'.op = kernel.op /\ kernel'.child = c /\ kernel'.proc = kernel.proc
  BY <1>1, <1>2, <1>3 DEF PPipeFork, KernelLoops
<1>5. UNCHANGED <<Visible, VisibleFiles>>
  <2>1. UNCHANGED Hidden
    BY <1>1, <1>3, <1>4 DEF Hidden
  <2> QED BY <1>3, <2>1, View, ViewNext
<1>6. CASE slot' = slot
  BY <1>3, <1>5, <1>6, SlotStays, Unseen
<1>7. CASE slot' # slot
  <2>1. PICK par, mine : slot' = [slot EXCEPT ![f.pipe][mine] =
                           [slot[f.pipe][par] EXCEPT !.pid  = c,
                              !.open = EndsCopied(slot[f.pipe][mine], slot[f.pipe][par], f.mode)]]
                         /\ par \in Slot /\ f \in File
    <3>1. f # NoFile /\ PPipeFork(c, kernel.proc, f)
      BY <1>3, <1>7
    <3>2. f \in File
      <4>1. kernel.child \in Proc /\ kernel.fd \in Fd /\ files \in [Proc -> [Fd -> File \cup {NoFile}]]
        BY <1>2, LiveTyped, FilesAssumption DEF ForkFile, KernelLoops, Fd
      <4> QED BY <1>1, <3>1, <4>1
    <3> DEFINE q    == f.pipe
               par  == Last(SlotsOf(q, kernel.proc))
               mine == IF SlotsOf(q, c) = {} THEN Last(Slot \ ValidSlots(q)) ELSE Last(SlotsOf(q, c))
    <3>3. par # NoSlot
          /\ slot' = [slot EXCEPT ![q][mine] = [slot[q][par] EXCEPT !.pid  = c,
                                   !.open = EndsCopied(slot[q][mine], slot[q][par], f.mode)]]
      BY <1>7, <3>1 DEF PPipeFork
    <3>4. par \in Slot
      <4>1. SlotsOf(q, kernel.proc) \in SUBSET Slot
        BY DEF SlotsOf, ValidSlots
      <4> HIDE DEF q
      <4> QED BY <3>3, <4>1, LastSlot
    <3> HIDE DEF par, mine
    <3> QED BY <3>2, <3>3, <3>4
  <2>2. f.pipe \in Pipe
    BY <2>1 DEF File
  <2>3. PICK s : s = [slot[f.pipe][par] EXCEPT !.pid  = c,
                        !.open = EndsCopied(slot[f.pipe][mine], slot[f.pipe][par], f.mode)]
    OBVIOUS
  <2>4. s.pid = c /\ slot' = [slot EXCEPT ![f.pipe][mine] = s]
    <3>1. slot[f.pipe][par] \in SlotRecord
      BY <1>2, <2>1, <2>2
    <3> QED BY <2>1, <2>3, <3>1 DEF SlotRecord
  <2>5. \A q \in Pipe, i \in Slot : slot'[q][i] = s \/ slot'[q][i] = slot[q][i]
    BY <1>2, <2>4
  <2>6. ASSUME NEW q \in Pipe, NEW p \in Proc, p # c PROVE Stays(q, p)
    BY <2>4, <2>5, <2>6 DEF Stays, IsReader, IsSlotOf
  <2>7. ASSUME NEW q \in Pipe, NEW p \in Proc, Reads(p, q)' PROVE p # c
    <3>1. p \in Visible'
      <4>1. \E fd \in Fd : VisibleFiles'[p][fd] = End(q, "read")
        BY <2>7 DEF Reads
      <4>2. End(q, "read") # NoFile
        BY FilesAssumption DEF End, File, Mode
      <4> QED BY <4>1, <4>2 DEF VisibleFiles
    <3> QED BY <1>3, <1>4, <3>1 DEF Visible
  <2> QED BY <1>3, <1>5, <2>6, <2>7, Unseen
<1> QED BY <1>6, <1>7

\* The fork happens when its loop over the files is over: the child appears where its parent reads.
LEMMA ForkImplements ==
  ASSUME LogInv, LogInv', ForkEnd
  PROVE  Users!Fork(kernel.proc, kernel.child) /\ kernel.proc \in Proc /\ kernel.child \in Proc
<1>1. PICK p, c : p = kernel.proc /\ c = kernel.child
  OBVIOUS
<1>2. /\ p \in Proc /\ c \in Proc /\ c # p /\ state[c] = "ready" /\ state[p] = "ready"
      /\ files[c] = files[p] /\ kernel.op = "fork" /\ FrontsInv /\ FrontsInv'
      /\ files \in [Proc -> [Fd -> File \cup {NoFile}]]
  BY <1>1, LiveTyped DEF ForkEnd, LeaveFork, LogInv, FrontsInv, EndsInv, Plain!IInv, Plain!KernelInv, KernelLoops
<1>3. /\ kernel'.op = "user" /\ UNCHANGED <<state, files, ring, slot, live>>
      /\ ret' = [code |-> c, bytes |-> <<>>]
  BY <1>1, <1>2 DEF ForkEnd, LeaveFork, UserMode, Returns, FrontsInv, EndsInv, Plain!IInv, Plain!KernelInv
<1>4. Hidden = {c}
  BY <1>1, <1>2 DEF Hidden
<1>5. Visible = {x \in Proc : state[x] = "ready"} \ {c} /\ VisibleFiles = Shown(files, {c})
  BY <1>2, <1>4, View
<1>6. Visible' = {x \in Proc : state[x] = "ready"} /\ VisibleFiles' = files
  BY <1>2, <1>3, UserView
<1>7. p \in Visible /\ c \in Proc \ Visible /\ Visible' = Visible \cup {c}
  BY <1>2, <1>5, <1>6
<1>8. VisibleFiles' = [VisibleFiles EXCEPT ![c] = VisibleFiles[p]]
  BY <1>2, <1>5, <1>6 DEF Shown
<1>9. \A x \in Proc : VisibleFiles[x] = IF x = c THEN NoFiles ELSE files[x]
  BY <1>5 DEF Shown
<1>10. UNCHANGED KeptBytes
  <2>1. \A q, m : End(q, m) = NoFile => ~ (q \in Pipe /\ m \in Mode)
    BY FilesAssumption DEF End, File
  <2>2. \A q \in Pipe, m \in Mode : \A fd \in Fd : VisibleFiles[c][fd] # End(q, m)
    BY <1>2, <1>9, <2>1 DEF NoFiles
  <2>3. \A q \in Pipe : Users!Open(VisibleFiles', q) <=> Users!Open(VisibleFiles, q)
    <3>1. ASSUME NEW q \in Pipe, NEW m \in Mode, NEW x \in Proc
          PROVE  /\ Users!Has(VisibleFiles, x, q, m) => Users!Has(VisibleFiles', x, q, m)
                 /\ Users!Has(VisibleFiles', x, q, m) =>
                      Users!Has(VisibleFiles, IF x = c THEN p ELSE x, q, m)
      BY <1>2, <1>6, <1>9, <2>2, UserSets DEF Users!Has
    <3> QED BY <1>2, <3>1, UserSets DEF Users!Open
  <2>4. KeptBytes = Kept(VisibleFiles, ring) /\ KeptBytes' = Kept(VisibleFiles', ring)
    BY <1>2, <1>3, View, ViewNext
  <2> QED BY <2>3, <2>4 DEF Kept
<1>11. UnreadCount' = [q \in Pipe |-> [UnreadCount[q] EXCEPT ![c] = UnreadCount[q][p]]]
  <2>1. UnreadSays /\ UnreadSays'
    BY <1>2, UnreadIs, UnreadNext
  <2>2. \A x \in Proc, q \in Pipe : Reads(x, q)' <=> \E fd \in Fd : files[x][fd] = End(q, "read")
    BY <1>6 DEF Reads
  <2>3. \A x \in Proc, q \in Pipe : x # c => (Reads(x, q) <=> \E fd \in Fd : files[x][fd] = End(q, "read"))
    BY <1>9 DEF Reads
  <2>4. ASSUME NEW q \in Pipe, NEW x \in Proc, x # c PROVE UnreadCount'[q][x] = UnreadCount[q][x]
    <3>1. CASE Reads(x, q)'
      <4>1. Stays(q, x)
        BY <1>3, SlotStays
      <4> QED BY <1>2, <1>3, <2>2, <2>3, <2>4, <3>1, <4>1, StaysUnread
    <3>2. CASE ~ Reads(x, q)'
      BY <2>2, <2>3, <2>4, <3>2, NotReading
    <3> QED BY <3>1, <3>2
  <2>5. ASSUME NEW q \in Pipe PROVE UnreadCount'[q][c] = UnreadCount[q][p]
    <3>1. Reads(c, q)' <=> Reads(p, q)
      BY <1>2, <2>2, <2>3
    <3>2. CASE Reads(c, q)'
      <4>1. PICK i \in Slot, j \in Slot : IsReader(q, i, c)' /\ IsReader(q, j, p)
        BY <1>2, <2>1, <3>1, <3>2 DEF UnreadSays
      <4>2. IsSlotOf(q, i, c)' /\ IsSlotOf(q, i, c) /\ IsSlotOf(q, j, p) /\ q \in live
        BY <1>2, <1>3, <2>1, <3>1, <3>2, <4>1 DEF IsReader, IsSlotOf, UnreadSays
      <4>3. /\ UnreadCount'[q][c] = Unread(slot'[q][i], ring'[q])
            /\ UnreadCount[q][p] = Unread(slot[q][j], ring[q])
        BY <1>2, <2>1, <3>1, <3>2, <4>2 DEF UnreadSays
      <4>4. slot[q][i].front = slot[q][j].front /\ slot[q][i].empty = slot[q][j].empty
        BY <1>1, <1>2, <4>2 DEF LogInv, CopiesParent
      <4> QED BY <1>3, <4>3, <4>4 DEF Unread
    <3>3. CASE ~ Reads(c, q)'
      BY <1>2, <3>1, <3>3, NotReading
    <3> QED BY <3>2, <3>3
  <2>6. \A q \in Pipe, x \in Proc : UnreadCount'[q][x] = IF x = c THEN UnreadCount[q][p] ELSE UnreadCount[q][x]
    BY <2>4, <2>5
  <2>7. \A q \in Pipe : /\ UnreadCount[q] = [x \in Proc |-> UnreadCount[q][x]]
                        /\ UnreadCount'[q] = [x \in Proc |-> UnreadCount'[q][x]]
    BY UnreadShape
  <2>8. ASSUME NEW q \in Pipe PROVE UnreadCount'[q] = [UnreadCount[q] EXCEPT ![c] = UnreadCount[q][p]]
    BY <1>2, <2>6, <2>7
  <2>9. UnreadCount' = [q \in Pipe |-> UnreadCount'[q]]
    BY UnreadShape
  <2> QED BY <2>8, <2>9
<1>12. Users!Fork(p, c)
  BY <1>3, <1>7, <1>8, <1>10, <1>11 DEF Users!Fork, Users!Returns
<1> QED BY <1>1, <1>2, <1>12

\* The exit happens when its loop begins: the process is gone with its files.
LEMMA ExitImplements ==
  ASSUME FrontsInv, FrontsInv', NEW p \in Proc, ExitBegin(p)
  PROVE  Users!Exit(p)
<1>1. /\ kernel.op = "user" /\ state[p] = "ready" /\ UNCHANGED <<state, files, ret, ring, slot>>
      /\ kernel' = [op |-> "exit", proc |-> p, child |-> p, fd |-> 0, ret |-> 0]
  BY DEF ExitBegin, EnterExit, Calls
<1>2. Visible = {x \in Proc : state[x] = "ready"} /\ VisibleFiles = files
  BY <1>1, UserView
<1>3. Hidden' = {p}
  BY <1>1 DEF Hidden
<1>4. Visible' = Visible \ {p} /\ VisibleFiles' = Shown(files, {p}) /\ p \in Visible
  BY <1>1, <1>2, <1>3, ViewNext
<1>5. VisibleFiles' = [VisibleFiles EXCEPT ![p] = NoFiles]
  BY <1>2, <1>4, LiveTyped DEF Shown
<1>6. \A x \in Proc, q \in Pipe, m \in Mode :
        Users!Has(VisibleFiles', x, q, m) => Users!Has(VisibleFiles, x, q, m)
  <2>1. \A x \in Proc : VisibleFiles'[x] = IF x = p THEN NoFiles ELSE files[x]
    BY <1>4 DEF Shown
  <2>2. \A q \in Pipe, m \in Mode : End(q, m) # NoFile
    BY FilesAssumption DEF End, File
  <2>3. \A fd \in Fd : VisibleFiles'[p][fd] = NoFile
    BY <2>1 DEF NoFiles
  <2> QED BY <1>2, <2>1, <2>2, <2>3, UserSets DEF Users!Has
<1>7. Users!Drop(VisibleFiles')
  BY <1>1, <1>6, SlotStays, OnlyDrops
<1> QED BY <1>1, <1>4, <1>5, <1>7, UserSets DEF Users!Exit, NoFiles

LEMMA ExitFileStutters ==
  ASSUME FrontsInv, FrontsInv', ExitFile
  PROVE  UNCHANGED Users!vars
<1>1. PICK p, d, f : p = kernel.proc /\ d = kernel.fd /\ f = files[kernel.proc][kernel.fd]
  OBVIOUS
<1>2. /\ p \in Proc /\ d \in Fd /\ files \in [Proc -> [Fd -> File \cup {NoFile}]] /\ kernel \in KernelLoops
      /\ f \in File \cup {NoFile}
  BY <1>1, LiveTyped, FilesAssumption DEF ExitFile, KernelLoops, Fd
<1>3. /\ kernel.op = "exit" /\ kernel'.op = "exit" /\ kernel'.proc = p
      /\ UNCHANGED <<state, ret, ring>>
      /\ files' = files \/ files' = [files EXCEPT ![p][d] = NoFile]
  BY <1>1, <1>2 DEF ExitFile, KernelLoops
<1>4. Hidden = {p} /\ Hidden' = {p}
  BY <1>1, <1>2, <1>3 DEF Hidden
<1>5. UNCHANGED Visible
  BY <1>3, <1>4, View, ViewNext
<1>6. UNCHANGED VisibleFiles
  <2>1. Shown(files', {p}) = Shown(files, {p})
    BY <1>2, <1>3 DEF Shown
  <2> QED BY <1>4, <2>1, View, ViewNext
<1>7. \A q \in Pipe, x \in Proc : Stays(q, x)
  <2>1. slot' = slot \/ (f # NoFile /\ PPipeClose(p, f))
    BY <1>1 DEF ExitFile
  <2> QED BY <1>2, <2>1, SlotStays, CloseStays
<1> QED BY <1>3, <1>5, <1>6, <1>7, Unseen

LEMMA ExitEndStutters ==
  ASSUME FrontsInv, FrontsInv', ExitEnd
  PROVE  UNCHANGED Users!vars
<1>1. PICK p : p = kernel.proc
  OBVIOUS
<1>2. /\ p \in Proc /\ kernel.op = "exit" /\ kernel.fd = MaxOpenFiles /\ kernel'.op = "user"
      /\ state' = [state EXCEPT ![p] = "unused"] /\ UNCHANGED <<files, ret, ring, slot>>
      /\ files \in [Proc -> [Fd -> File \cup {NoFile}]] /\ state \in [Proc -> {"unused", "ready"}]
  BY <1>1, LiveTyped DEF ExitEnd, FreeContext, UserMode, KernelLoops
<1>3. Hidden = {p}
  BY <1>1, <1>2 DEF Hidden
<1>4. UNCHANGED Visible
  BY <1>2, <1>3, View, UserView
<1>5. UNCHANGED VisibleFiles
  <2>1. files[p] = NoFiles
    <3>1. \A fd \in Fd : files[p][fd] = NoFile
      BY <1>1, <1>2, SameSets, FilesAssumption DEF FrontsInv, EndsInv, Plain!IInv, Plain!KernelInv, Fd
    <3> QED BY <1>2, <3>1 DEF NoFiles
  <2>2. Shown(files, {p}) = files
    BY <1>2, <2>1 DEF Shown
  <2> QED BY <1>2, <1>3, <2>2, View, UserView
<1> QED BY <1>2, <1>4, <1>5, SlotStays, Unseen

LEMMA NewRingIsEmpty == NewRing \in Rings => Bytes(NewRing) = <<>>
<1>1. IsEmpty(NewRing)
  BY DEF IsEmpty, NewRing
<1>2. SUFFICES ASSUME NewRing \in Rings PROVE Bytes(NewRing) = <<>>
  OBVIOUS
<1>3. Bytes(NewRing) \in Seq(Byte) /\ Len(Bytes(NewRing)) = 0
  BY <1>1, <1>2, BytesType, LengthType
<1> QED BY <1>3, EmptySeq

\* The two descriptors that create takes are the lowest.
LEMMA LowestFds ==
  ASSUME NEW p \in Proc, Cardinality(FreeFds(p)) >= 2
  PROVE  LET rfd == Min(FreeFds(p))
             wfd == Min(FreeFds(p) \ {rfd})
         IN  /\ rfd \in Fd /\ wfd \in Fd /\ rfd < wfd
             /\ files[p][rfd] = NoFile /\ files[p][wfd] = NoFile
             /\ \A fd \in Fd : fd < wfd /\ fd # rfd => files[p][fd] # NoFile
<1> DEFINE S == FreeFds(p)
           rfd == Min(S)
           wfd == Min(S \ {rfd})
<1>1. /\ rfd \in Fd /\ wfd \in Fd /\ rfd # wfd
      /\ files[p][rfd] = NoFile /\ files[p][wfd] = NoFile
  <2>1. Plain!Cardinality(Plain!FreeFds(p)) >= 2
    BY SameSets, SameState
  <2> QED BY <2>1, SameSets, SameState, Plain!TwoFree, PlainAssumptions
<1>2. S \in SUBSET Nat /\ S \ {rfd} \in SUBSET Nat /\ Fd \subseteq Nat
  BY FilesAssumption DEF FreeFds, Fd
<1>3. \A T \in SUBSET Nat : \A y \in T : Min(T) <= y
  BY SameSets, Plain!MinLeast, PlainAssumptions
<1>4. rfd <= wfd
  BY <1>1, <1>2, <1>3 DEF FreeFds
<1> HIDE DEF rfd, wfd
<1>5. rfd < wfd /\ rfd \in Nat /\ wfd \in Nat
  BY <1>1, <1>2, <1>4
<1>6. ASSUME NEW fd \in Fd, fd < wfd, fd # rfd, files[p][fd] = NoFile PROVE FALSE
  <2>1. fd \in S \ {rfd}
    BY <1>6 DEF FreeFds
  <2>2. wfd <= fd
    BY <1>2, <1>3, <2>1 DEF wfd
  <2> QED BY <1>2, <1>5, <1>6, <2>2
<1> QED BY <1>1, <1>5, <1>6 DEF rfd, wfd

LEMMA CreateImplements ==
  ASSUME FrontsInv, FrontsInv', NEW p \in Proc, NEW q \in Pipe, NEW page \in PageContents, Create(p, q, page)
  PROVE  Users!CreateFails(p) \/ \E rfd, wfd \in Fd : Users!Create(p, q, rfd, wfd)
<1>1. kernel.op = "user" /\ kernel'.op = "user" /\ state[p] = "ready" /\ UNCHANGED state
  BY DEF Create, Calls
<1>2. /\ Visible = {x \in Proc : state[x] = "ready"} /\ VisibleFiles = files /\ p \in Visible
      /\ UNCHANGED Visible /\ VisibleFiles' = files'
      /\ files \in [Proc -> [Fd -> File \cup {NoFile}]] /\ slot \in [Pipe -> [Slot -> SlotRecord]]
  BY <1>1, UserView, LiveTyped
<1>3. CASE /\ Cardinality(FreeFds(p)) < 2
           /\ Returns(-ENOMEM)
           /\ UNCHANGED <<files, refCount, slot, ring, live>>
  <2>1. UNCHANGED <<Visible, VisibleFiles, KeptBytes, UnreadCount>>
    BY <1>1, <1>3, NothingMoves
  <2>2. {fd \in Users!Fd : VisibleFiles[p][fd] = NoFile} = FreeFds(p)
    BY <1>2, UserSets DEF FreeFds
  <2>3. Users!Cardinality({fd \in Users!Fd : VisibleFiles[p][fd] = NoFile}) < 2
    BY <1>3, <2>2, UserSets
  <2>4. Users!Returns(-Users!ENOMEM)
    BY <1>3 DEF Users!Returns, Returns, Users!ENOMEM, ENOMEM
  <2> QED BY <1>2, <2>1, <2>3, <2>4 DEF Users!CreateFails
<1> DEFINE rfd == Min(FreeFds(p))
           wfd == Min(FreeFds(p) \ {rfd})
           s == [valid |-> TRUE, pid |-> p, front |-> 0, empty |-> TRUE, open |-> Mode]
<1>4. CASE /\ Cardinality(FreeFds(p)) >= 2
           /\ q \notin live
           /\ files' = [files EXCEPT ![p][rfd] = End(q, "read"), ![p][wfd] = End(q, "write")]
           /\ slot' = [slot EXCEPT ![q] = [page EXCEPT ![0] = s]]
           /\ ring' = [ring EXCEPT ![q] = NewRing]
           /\ Returns(0)
  <2>1. /\ rfd \in Fd /\ wfd \in Fd /\ rfd < wfd
        /\ files[p][rfd] = NoFile /\ files[p][wfd] = NoFile
        /\ \A fd \in Fd : fd < wfd /\ fd # rfd => files[p][fd] # NoFile
    BY <1>4, LowestFds
  <2>2. PICK e : e = s
    OBVIOUS
  <2>3. e.empty = TRUE /\ slot' = [slot EXCEPT ![q] = [page EXCEPT ![0] = e]]
    BY <1>4, <2>2
  <2> HIDE DEF rfd, wfd
  <2>4. \A x \in Proc, m \in Mode : ~ Users!Has(files, x, q, m)
    <3>1. \A x \in Proc, fd \in Fd : files[x][fd] # NoFile => files[x][fd].pipe \in live
      BY SameSets DEF FrontsInv, EndsInv, Plain!IInv, Plain!FilesOfLivePipes
    <3>2. \A m \in Mode : End(q, m) # NoFile /\ End(q, m).pipe = q
      BY FilesAssumption DEF End, File
    <3> QED BY <1>4, <3>1, <3>2, UserSets DEF Users!Has
  <2>5. \A x \in Pipe : x # q => \A y \in Proc, m \in Mode :
                                   Users!Has(files', y, x, m) <=> Users!Has(files, y, x, m)
    <3>1. End(q, "read").pipe = q /\ End(q, "write").pipe = q /\ \A x, m : End(x, m).pipe = x
      BY DEF End
    <3>2. \A y \in Proc, fd \in Fd :
             files'[y][fd] = IF y = p /\ fd = wfd THEN End(q, "write")
                             ELSE IF y = p /\ fd = rfd THEN End(q, "read") ELSE files[y][fd]
      BY <1>2, <1>4, <2>1
    <3>3. \A x, m : End(x, m) = NoFile => ~ (x \in Pipe /\ m \in Mode)
      BY FilesAssumption DEF End, File
    <3>4. ASSUME NEW x \in Pipe, x # q, NEW y \in Proc, NEW m \in Mode, NEW fd \in Fd
          PROVE  files'[y][fd] = End(x, m) <=> files[y][fd] = End(x, m)
      <4>1. End(x, m) # End(q, "read") /\ End(x, m) # End(q, "write") /\ End(x, m) # NoFile
        BY <3>1, <3>3, <3>4
      <4> QED BY <2>1, <3>2, <4>1
    <3> QED BY <3>4, UserSets DEF Users!Has
  <2>6. UNCHANGED KeptBytes
    <3>1. \A x \in Pipe : ring'[x] = IF x = q THEN NewRing ELSE ring[x]
      BY <1>4 DEF FrontsInv, EndsInv
    <3>2. Bytes(NewRing) = <<>>
      BY <3>1, NewRingIsEmpty, ViewNext, PPipeAssumption DEF Rings, WellFormed, RingType, NewRing
    <3>3. \A x \in Pipe : x # q => (Users!Open(files', x) <=> Users!Open(files, x))
      BY <2>5, UserSets DEF Users!Open
    <3>4. ~ Users!Open(files, q)
      BY <2>4, UserSets DEF Users!Open
    <3> QED BY <1>2, <3>1, <3>2, <3>3, <3>4, View, ViewNext DEF Kept
  <2>7. ASSUME NEW x \in Pipe, NEW y \in Proc PROVE UnreadCount'[x][y] = UnreadCount[x][y]
    <3>1. /\ Reads(y, x) <=> Users!Has(files, y, x, "read")
          /\ Reads(y, x)' <=> Users!Has(files', y, x, "read")
          /\ "read" \in Mode
      BY <1>2, View, ViewNext DEF Mode
    <3>2. CASE x # q /\ Reads(y, x)'
      <4>1. slot'[x] = slot[x] /\ ring'[x] = ring[x]
        BY <1>2, <1>4, <3>2 DEF FrontsInv, EndsInv
      <4>2. Stays(x, y)
        BY <4>1 DEF Stays, IsReader, IsSlotOf
      <4> QED BY <2>5, <3>1, <3>2, <4>1, <4>2, StaysUnread
    <3>3. CASE x # q /\ ~ Reads(y, x)'
      BY <2>5, <3>1, <3>3, NotReading
    <3>4. CASE x = q /\ Reads(y, q)'
      <4>1. PICK i \in Slot : IsReader(q, i, y)'
        BY <3>4, UnreadNext DEF UnreadSays
      <4>2. IsSlotOf(q, i, y)' /\ slot'[q][i].valid
        BY <4>1 DEF IsReader, IsSlotOf
      <4>3. slot'[q][i] = IF i = 0 THEN e ELSE page[i]
        BY <1>2, <2>3, PPipeAssumption DEF SlotTable
      <4>4. slot'[q][i] = e
        BY <4>2, <4>3, CleanPages
      <4>5. UnreadCount'[q][y] = Unread(slot'[q][i], ring'[q])
        BY <3>4, <4>2, UnreadNext DEF UnreadSays
      <4>6. UnreadCount'[q][y] = 0
        BY <2>3, <4>4, <4>5 DEF Unread
      <4> QED BY <2>4, <3>1, <3>4, <4>6, NotReading
    <3>5. CASE x = q /\ ~ Reads(y, q)'
      BY <2>4, <3>1, <3>5, NotReading
    <3> QED BY <3>2, <3>3, <3>4, <3>5
  <2>8. UNCHANGED UnreadCount
    BY <2>7, UnreadShape
  <2>9. ~ Users!Open(files, q)
    BY <2>4, UserSets DEF Users!Open
  <2>10. Users!Create(p, q, rfd, wfd)
    <3>1. /\ files' = [files EXCEPT ![p][rfd] = [pipe |-> q, mode |-> "read"],
                                    ![p][wfd] = [pipe |-> q, mode |-> "write"]]
          /\ ret' = [code |-> 0, bytes |-> <<>>]
      BY <1>4 DEF End, Returns
    <3> QED BY <1>2, <2>1, <2>6, <2>8, <2>9, <3>1, UserSets DEF Users!Create, Users!Returns
  <2> QED BY <2>1, <2>10
<1> QED BY <1>3, <1>4 DEF Create

(***************************************************************************)
(* What the three calls that move bytes do to what is kept and unread.     *)
(***************************************************************************)
LEMMA UserMin ==
  \A a, b \in Int : Users!Min({a, b}) = Smaller(a, b)
<1> SUFFICES ASSUME NEW a \in Int, NEW b \in Int PROVE Min({a, b}) = Smaller(a, b)
  BY UserSets
<1>1. \E x \in {a, b} : \A y \in {a, b} : x <= y
  OBVIOUS
<1>2. Min({a, b}) \in {a, b} /\ \A y \in {a, b} : Min({a, b}) <= y
  BY <1>1 DEF Min
<1> QED BY <1>2 DEF Smaller

\* The byte a reader finds k places behind its front, counted from the front of the ring.
LEMMA UnreadPlace ==
  ASSUME NEW front \in Index, NEW x \in Index, NEW rear \in Index,
         Span(x, rear) <= Span(front, rear), NEW k \in 1 .. Span(x, rear)
  PROVE  (front + (Span(front, rear) - Span(x, rear) + k) - 1) % Size = (x + k - 1) % Size
<1> DEFINE y == front + (Span(front, rear) - Span(x, rear) + k) - 1
           z == x + k - 1
<1>1. /\ Span(front, rear) = IF rear >= front THEN rear - front + 1 ELSE rear - front + Size + 1
      /\ Span(x, rear) = IF rear >= x THEN rear - x + 1 ELSE rear - x + Size + 1
      /\ Span(front, rear) \in 1 .. Size /\ Span(x, rear) \in 1 .. Size
  BY SpanValue
<1>2. /\ Size \in Int /\ front \in Int /\ rear \in Int /\ x \in Int /\ k \in Int
      /\ 0 <= front /\ front < Size /\ 0 <= rear /\ rear < Size /\ 0 <= x /\ x < Size
      /\ 1 <= k /\ k <= Span(x, rear)
  BY <1>1, RingAssumption DEF Index
<1>3. y \in Int /\ 0 <= y /\ y < 2 * Size /\ z \in Int /\ 0 <= z /\ z < 2 * Size
  BY <1>1, <1>2
<1>4. y = z \/ y = z + Size
  BY <1>1, <1>2
<1> HIDE DEF y, z
<1>5. /\ y % Size = IF y < Size THEN y ELSE y - Size
      /\ z % Size = IF z < Size THEN z ELSE z - Size
  BY <1>3, ModWrap
<1> QED BY <1>2, <1>3, <1>4, <1>5 DEF y, z

\* How much a reader has not read fits what the ring holds.
LEMMA UnreadFits ==
  ASSUME NEW s \in SlotRecord, NEW r \in Rings, InRing(s, r)
  PROVE  /\ Unread(s, r) \in 0 .. Length(r) /\ Length(r) \in 0 .. Size
         /\ ~ s.empty => /\ ~ IsEmpty(r) /\ Unread(s, r) = Span(s.front, r.rear) /\ Unread(s, r) >= 1
                         /\ Length(r) = Span(r.front, r.rear)
                         /\ s.front \in Index /\ r.front \in Index /\ r.rear \in Index
<1>1. Length(r) \in 0 .. Size /\ Size \in Nat
  BY LengthType, RingAssumption
<1>2. CASE s.empty
  BY <1>1, <1>2 DEF Unread
<1>3. CASE ~ s.empty
  <2>1. /\ ~ IsEmpty(r) /\ Unread(s, r) = Span(s.front, r.rear) /\ Unread(s, r) <= Length(r)
        /\ Length(r) = Span(r.front, r.rear)
    BY <1>3 DEF InRing, Unread, Length
  <2>2. s.front \in Index /\ r.front \in Index /\ r.rear \in Index
    BY <2>1, RingFields DEF SlotRecord
  <2>3. Span(s.front, r.rear) \in 1 .. Size
    BY <2>2, SpanValue
  <2> QED BY <1>1, <1>3, <2>1, <2>2, <2>3
<1> QED BY <1>2, <1>3

\* A read delivers the oldest unread bytes, and leaves the others.
LEMMA ReadDelivers ==
  ASSUME NEW s \in SlotRecord, NEW r \in Rings, InRing(s, r), NEW count \in Nat
  PROVE  LET n    == Smaller(count, Unread(s, r))
             from == Length(r) - Unread(s, r)
             t    == [s EXCEPT !.front = (@ + n) % Size, !.empty = AtEnd(s, r, n)]
         IN  /\ n \in 0 .. Unread(s, r)
             /\ [k \in 1 .. n |-> r.buf[(s.front + k - 1) % Size]] = SubSeq(Bytes(r), from + 1, from + n)
             /\ Unread(t, r) = Unread(s, r) - n
<1> DEFINE u    == Unread(s, r)
           n    == Smaller(count, u)
           from == Length(r) - u
           e    == AtEnd(s, r, n)
           t    == [s EXCEPT !.front = (@ + n) % Size, !.empty = e]
<1>1. /\ u \in 0 .. Length(r) /\ Length(r) \in 0 .. Size /\ Size \in Nat
      /\ Bytes(r) \in Seq(Byte) /\ Len(Bytes(r)) = Length(r)
      /\ \A k \in 1 .. Length(r) : Bytes(r)[k] = r.buf[(r.front + k - 1) % Size]
  BY UnreadFits, BytesType, RingAssumption
<1>2. t.front = (s.front + n) % Size /\ t.empty = e
  BY DEF SlotRecord
<1>3. ~ s.empty => /\ ~ IsEmpty(r) /\ u = Span(s.front, r.rear) /\ u >= 1
                   /\ Length(r) = Span(r.front, r.rear)
                   /\ s.front \in Index /\ r.front \in Index /\ r.rear \in Index
  BY UnreadFits
<1>4. (s.empty => u = 0) /\ (e <=> s.empty \/ n = u)
  BY DEF Unread, AtEnd
<1>5. Unread(t, r) = IF t.empty THEN 0 ELSE Span(t.front, r.rear)
  BY DEF Unread
<1> HIDE DEF u, t, e
<1>6. n \in 0 .. u
  BY <1>1 DEF Smaller
<1> HIDE DEF n
<1>7. ASSUME NEW k \in 1 .. n
      PROVE  r.buf[(s.front + k - 1) % Size] = Bytes(r)[from + k]
  <2>1. k \in 1 .. u /\ ~ s.empty /\ from + k \in 1 .. Length(r)
    BY <1>1, <1>4, <1>6
  <2>2. Bytes(r)[from + k] = r.buf[(r.front + (from + k) - 1) % Size]
    <3> HIDE DEF from
    <3> QED BY <1>1, <2>1
  <2>3. (r.front + (from + k) - 1) % Size = (s.front + k - 1) % Size
    <3>1. Span(s.front, r.rear) <= Span(r.front, r.rear) /\ k \in 1 .. Span(s.front, r.rear)
      BY <1>1, <1>3, <2>1
    <3>2. (r.front + (Span(r.front, r.rear) - Span(s.front, r.rear) + k) - 1) % Size = (s.front + k - 1) % Size
      BY <1>3, <2>1, <3>1, UnreadPlace
    <3> QED BY <1>3, <2>1, <3>2
  <2> QED BY <2>2, <2>3
<1>8. [k \in 1 .. n |-> r.buf[(s.front + k - 1) % Size]] = SubSeq(Bytes(r), from + 1, from + n)
  <2>1. from \in Nat /\ from + n <= Length(r) /\ n \in Nat
    BY <1>1, <1>6
  <2> HIDE DEF from
  <2>2. SubSeq(Bytes(r), from + 1, from + n) = [k \in 1 .. n |-> Bytes(r)[from + k]]
    <3>1. SubSeq(Bytes(r), from + 1, from + n)
            = [k \in 1 .. (from + n - (from + 1) + 1) |-> Bytes(r)[from + 1 + k - 1]]
      BY <1>1, <2>1
    <3>2. from + n - (from + 1) + 1 = n /\ \A k \in 1 .. n : from + 1 + k - 1 = from + k
      BY <2>1
    <3> QED BY <3>1, <3>2
  <2> QED BY <1>7, <2>2
<1>9. Unread(t, r) = u - n
  <2>1. CASE e
    BY <1>1, <1>2, <1>4, <1>5, <1>6, <2>1
  <2>2. CASE ~ e
    <3>1. ~ s.empty /\ n < u
      BY <1>1, <1>4, <1>6, <2>2
    <3>2. n \in 0 .. Span(s.front, r.rear)
      BY <1>3, <1>6, <3>1
    <3>3. Span((s.front + n) % Size, r.rear) = u - n
      BY <1>3, <3>1, <3>2, FrontMoves
    <3> QED BY <1>2, <1>5, <2>2, <3>3
  <2> QED BY <2>1, <2>2
<1> QED BY <1>6, <1>8, <1>9 DEF u, t, e, n

(***************************************************************************)
(* Every open descriptor is served: its process has one slot, and the slot *)
(* has the status of its end.                                              *)
(***************************************************************************)
LEMMA Served ==
  ASSUME FrontsInv, kernel.op = "user", NEW p \in Proc, NEW fd \in Fd, files[p][fd] # NoFile
  PROVE  /\ files[p][fd] \in File /\ files[p][fd].pipe \in live /\ files[p][fd].pipe \in Pipe
         /\ Users!Has(files, p, files[p][fd].pipe, files[p][fd].mode)
         /\ KeptBytes[files[p][fd].pipe] = Bytes(ring[files[p][fd].pipe])
         /\ \E i \in Slot : /\ IsSlotOf(files[p][fd].pipe, i, p) /\ IoSlots(files[p][fd].pipe, p) = {i}
                            /\ files[p][fd].mode \in slot[files[p][fd].pipe][i].open
<1> DEFINE f == files[p][fd]
           q == files[p][fd].pipe
<1>1. f \in File /\ q \in live /\ q \in Pipe /\ EndsInv /\ f.mode \in Mode /\ f = End(q, f.mode)
  <2>1. f \in File /\ EndsInv
    BY LiveTyped DEF FrontsInv
  <2>2. q \in live
    BY <2>1, SameSets DEF EndsInv, Plain!IInv, Plain!FilesOfLivePipes
  <2> QED BY <2>1, <2>2 DEF File, End
<1>2. Holds(p, f) /\ Users!Has(files, p, q, f.mode)
  BY <1>1, UserSets DEF Holds, Counted, Users!Has
<1>3. KeptBytes[q] = Bytes(ring[q])
  <2>1. Users!Open(files, q)
    BY <1>1, <1>2, UserSets DEF Users!Open
  <2> QED BY <1>1, <2>1, View, UserView DEF Kept
<1>4. PICK i \in Slot : IsSlotOf(q, i, p) /\ f.mode \in slot[q][i].open
  BY <1>1, <1>2, OneSlotEach
<1>5. SlotsOf(q, p) = {i}
  BY <1>1, <1>4, OneSlotEach DEF SlotsOf, ValidSlots, IsSlotOf
<1>6. Min({i}) = i
  <2>1. {i} \in SUBSET Nat /\ {i} # {}
    BY PPipeAssumption DEF Slot
  <2> QED BY <2>1, SameSets, Plain!MinMax, PlainAssumptions
<1> QED BY <1>1, <1>2, <1>3, <1>4, <1>5, <1>6 DEF IoSlots

LEMMA ReadImplements ==
  ASSUME FrontsInv, FrontsInv', NEW p \in Proc, NEW fd \in Fd, NEW count \in 0 .. MaxCount, Read(p, fd, count)
  PROVE  Users!Refused(p, fd, "read") \/ Users!Read(p, fd, count)
<1>1. /\ kernel.op = "user" /\ kernel'.op = "user" /\ state[p] = "ready"
      /\ UNCHANGED <<state, files, ring>>
  BY DEF Read, Calls
<1>2. /\ Visible = {x \in Proc : state[x] = "ready"} /\ VisibleFiles = files /\ p \in Visible
      /\ UNCHANGED <<Visible, VisibleFiles>>
  BY <1>1, UserView
<1>3. PICK f, q : f = files[p][fd] /\ q = files[p][fd].pipe
  OBVIOUS
<1>4. CASE f = NoFile /\ Returns(-EINVAL) /\ UNCHANGED slot
  <2>1. UNCHANGED <<Visible, VisibleFiles, KeptBytes, UnreadCount>>
    BY <1>1, <1>4, NothingMoves
  <2> QED BY <1>2, <1>3, <1>4, <2>1 DEF Users!Refused, Users!Returns, Returns, Users!EINVAL, EINVAL
<1>5. CASE f # NoFile /\ f.mode # "read" /\ Returns(-EACCES) /\ UNCHANGED slot
  <2>1. UNCHANGED <<Visible, VisibleFiles, KeptBytes, UnreadCount>>
    BY <1>1, <1>5, NothingMoves
  <2> QED BY <1>2, <1>3, <1>5, <2>1 DEF Users!Refused, Users!Returns, Returns, Users!EACCES, EACCES
<1>6. CASE f # NoFile /\ f.mode = "read" /\ \E i \in IoSlots(q, p) : PPipeRead(q, i, count)
  <2>1. /\ q \in live /\ q \in Pipe /\ Users!Has(files, p, q, "read") /\ KeptBytes[q] = Bytes(ring[q])
        /\ \E i \in Slot : IsSlotOf(q, i, p) /\ IoSlots(q, p) = {i} /\ "read" \in slot[q][i].open
    BY <1>1, <1>3, <1>6, Served
  <2>2. PICK i \in Slot : IsSlotOf(q, i, p) /\ IoSlots(q, p) = {i} /\ "read" \in slot[q][i].open
    BY <2>1
  <2>3. PPipeRead(q, i, count) /\ i # NoSlot
    BY <1>6, <2>2, PPipeAssumption DEF Slot, NoSlot
  <2> DEFINE s == slot[q][i]
             r == ring[q]
             n == Smaller(count, Unread(s, r))
             t == [s EXCEPT !.front = (@ + n) % Size, !.empty = AtEnd(s, r, n)]
             from == Length(r) - Unread(s, r)
  <2>4. /\ ret' = [code |-> n, bytes |-> [k \in 1 .. n |-> r.buf[(s.front + k - 1) % Size]]]
        /\ slot' = [slot EXCEPT ![q][i] = t]
    BY <2>2, <2>3 DEF PPipeRead
  <2>5. s \in SlotRecord /\ r \in Rings /\ InRing(s, r) /\ count \in Nat
        /\ slot \in [Pipe -> [Slot -> SlotRecord]]
    BY <2>1, <2>2, LiveTyped, FrontsBySlot, PPipeAssumption DEF FrontsInv, IsSlotOf
  <2>6. /\ n \in 0 .. Unread(s, r)
        /\ [k \in 1 .. n |-> r.buf[(s.front + k - 1) % Size]] = SubSeq(Bytes(r), from + 1, from + n)
        /\ Unread(t, r) = Unread(s, r) - n
    <3> HIDE DEF s, r
    <3> QED BY <2>5, ReadDelivers
  <2>7. t.valid = s.valid /\ t.pid = s.pid /\ t.open = s.open
    BY <2>5 DEF SlotRecord
  <2>8. Len(Bytes(r)) = Length(r) /\ Unread(s, r) \in 0 .. Length(r) /\ Length(r) \in Nat
    <3> HIDE DEF s, r
    <3> QED BY <2>5, BytesType, UnreadFits, RingAssumption
  <2> HIDE DEF s, r, n, t
  <2>9. \A x \in Pipe, j \in Slot : slot'[x][j] = IF x = q /\ j = i THEN t ELSE slot[x][j]
    BY <2>1, <2>4, <2>5
  <2>10. UnreadSays /\ UnreadSays' /\ \A x \in Proc, y \in Pipe : Reads(x, y)' <=> Reads(x, y)
    BY <1>2, View, ViewNext, UnreadIs, UnreadNext
  <2>11. Reads(p, q) /\ Reads(p, q)'
    BY <1>2, <2>1, <2>10, View
  <2>12. UnreadCount[q][p] = Unread(s, r) /\ UnreadCount'[q][p] = Unread(s, r) - n
    <3>1. UnreadCount[q][p] = Unread(s, r)
      BY <2>1, <2>2, <2>10, <2>11 DEF UnreadSays, s, r
    <3>2. slot'[q][i] = t
      BY <2>1, <2>9
    <3>3. IsSlotOf(q, i, p)'
      BY <2>2, <2>7, <3>2 DEF IsSlotOf, s
    <3>4. UnreadCount'[q][p] = Unread(slot'[q][i], ring'[q])
      BY <2>1, <2>10, <2>11, <3>3 DEF UnreadSays
    <3> QED BY <1>1, <2>6, <3>1, <3>2, <3>4 DEF r
  <2>13. ASSUME NEW x \in Proc, NEW y \in Pipe, ~ (x = p /\ y = q)
         PROVE  UnreadCount'[y][x] = UnreadCount[y][x]
    <3>1. CASE Reads(x, y)
      <4>1. Stays(y, x)
        <5>1. ASSUME NEW j \in Slot, slot'[y][j].pid = x PROVE slot'[y][j] = slot[y][j]
          BY <2>2, <2>7, <2>9, <2>13, <5>1 DEF IsSlotOf, s
        <5> QED BY <5>1 DEF Stays, IsReader, IsSlotOf
      <4> QED BY <1>1, <2>10, <3>1, <4>1, StaysUnread
    <3>2. CASE ~ Reads(x, y)
      BY <2>10, <3>2, NotReading
    <3> QED BY <3>1, <3>2
  <2>14. UnreadCount' = [UnreadCount EXCEPT ![q][p] = @ - n]
    <3>1. \A y \in Pipe, x \in Proc :
            UnreadCount'[y][x] = IF y = q /\ x = p THEN UnreadCount[q][p] - n ELSE UnreadCount[y][x]
      BY <2>12, <2>13
    <3> QED BY <2>1, <3>1, UnreadShape
  <2>15. UNCHANGED KeptBytes
    BY <1>1, <1>2, View, ViewNext
  <2>16. n = Users!Min({count, UnreadCount[q][p]})
    <3>1. count \in Int /\ Unread(s, r) \in Int
      BY <2>5, <2>8
    <3> QED BY <2>12, <3>1, UserMin DEF n
  <2>17. from = Len(KeptBytes[q]) - UnreadCount[q][p]
    BY <2>1, <2>8, <2>12 DEF r
  <2> HIDE DEF from
  <2>18. ret' = [code |-> n, bytes |-> SubSeq(KeptBytes[q], from + 1, from + n)]
    BY <2>1, <2>4, <2>6 DEF r
  <2> QED BY <1>2, <1>3, <1>6, <2>14, <2>15, <2>16, <2>17, <2>18 DEF Users!Read
<1> QED BY <1>1, <1>3, <1>4, <1>5, <1>6 DEF Read

\* A write adds to what a reader has not read.
LEMMA WriteAdds ==
  ASSUME NEW s \in SlotRecord, NEW r \in Rings, InRing(s, r),
         NEW data \in Seq(Byte), Accepted(r, Len(data)) # 0
  PROVE  Unread([s EXCEPT !.empty = FALSE], Push(r, data)) = Unread(s, r) + Accepted(r, Len(data))
<1> DEFINE n == Accepted(r, Len(data))
           v == Push(r, data)
           t == [s EXCEPT !.empty = FALSE]
<1>1. v.rear = (r.rear + n) % Size
  BY DEF Push
<1>2. n \in 1 .. (Size - Length(r)) /\ Length(r) \in 0 .. Size
  BY AcceptedType, LengthType, RingAssumption
<1>3. t.empty = FALSE /\ t.front = s.front /\ s.front \in Index
  BY DEF SlotRecord
<1>4. Unread(t, v) = Span(s.front, v.rear)
  BY <1>3 DEF Unread
<1> HIDE DEF n, t, v
<1>5. CASE s.empty
  <2>1. s.front = (r.rear + 1) % Size /\ r.rear \in Index \cup {NoIndex} /\ n \in 1 .. Size
    BY <1>2, <1>5, RingAssumption DEF InRing, Rings, RingType
  <2>2. Span(s.front, v.rear) = n
    BY <1>1, <2>1, FirstUnread
  <2>3. Unread(s, r) = 0
    BY <1>5 DEF Unread
  <2> QED BY <1>2, <1>4, <2>2, <2>3, RingAssumption DEF n, t, v
<1>6. CASE ~ s.empty
  <2>1. /\ Unread(s, r) = Span(s.front, r.rear) /\ Unread(s, r) \in 0 .. Length(r) /\ r.rear \in Index
    BY <1>6, UnreadFits
  <2>2. Span(s.front, r.rear) + n <= Size /\ n \in Nat
    BY <1>2, <2>1, RingAssumption
  <2>3. Span(s.front, v.rear) = Span(s.front, r.rear) + n
    BY <1>1, <1>3, <2>1, <2>2, RearMoves
  <2> QED BY <1>4, <2>1, <2>3 DEF n, t, v
<1> QED BY <1>5, <1>6

\* With the buffer before the table, the loop past its end finds nothing.
LEMMA NothingPast ==
  ASSUME Overrun = {}, NEW r \in RingType
  PROVE  PastTheTable(r) = r
<1>1. r = [front |-> r.front, rear |-> r.rear, buf |-> r.buf] /\ r.buf = [i \in Index |-> r.buf[i]]
  BY DEF RingType
<1>2. PastTheTable(r) = [r EXCEPT !.buf = [i \in Index |-> r.buf[i]]]
  BY DEF PastTheTable
<1> QED BY <1>1, <1>2

LEMMA WriteImplements ==
  ASSUME Overrun = {}, FrontsInv, FrontsInv', NEW p \in Proc, NEW fd \in Fd, NEW data \in UserData,
         Write(p, fd, data)
  PROVE  Users!Refused(p, fd, "write") \/ Users!Write(p, fd, data)
<1>1. /\ kernel.op = "user" /\ kernel'.op = "user" /\ state[p] = "ready"
      /\ UNCHANGED <<state, files, live>>
  BY DEF Write, Calls
<1>2. /\ Visible = {x \in Proc : state[x] = "ready"} /\ VisibleFiles = files /\ p \in Visible
      /\ UNCHANGED <<Visible, VisibleFiles>>
  BY <1>1, UserView
<1>3. PICK f, q : f = files[p][fd] /\ q = files[p][fd].pipe
  OBVIOUS
<1>4. CASE f = NoFile /\ Returns(-EINVAL) /\ UNCHANGED <<slot, ring>>
  <2>1. UNCHANGED <<Visible, VisibleFiles, KeptBytes, UnreadCount>>
    BY <1>1, <1>4, NothingMoves
  <2> QED BY <1>2, <1>3, <1>4, <2>1 DEF Users!Refused, Users!Returns, Returns, Users!EINVAL, EINVAL
<1>5. CASE f # NoFile /\ f.mode # "write" /\ Returns(-EACCES) /\ UNCHANGED <<slot, ring>>
  <2>1. UNCHANGED <<Visible, VisibleFiles, KeptBytes, UnreadCount>>
    BY <1>1, <1>5, NothingMoves
  <2> QED BY <1>2, <1>3, <1>5, <2>1 DEF Users!Refused, Users!Returns, Returns, Users!EACCES, EACCES
<1>6. CASE f # NoFile /\ f.mode = "write" /\ \E i \in IoSlots(q, p) : PPipeWrite(q, i, data)
  <2>1. /\ q \in live /\ q \in Pipe /\ Users!Has(files, p, q, "write") /\ KeptBytes[q] = Bytes(ring[q])
        /\ \E i \in Slot : IsSlotOf(q, i, p) /\ IoSlots(q, p) = {i} /\ "write" \in slot[q][i].open
    BY <1>1, <1>3, <1>6, Served
  <2>2. PICK i \in Slot : IsSlotOf(q, i, p) /\ IoSlots(q, p) = {i} /\ "write" \in slot[q][i].open
    BY <2>1
  <2>3. PPipeWrite(q, i, data) /\ i # NoSlot
    BY <1>6, <2>2, PPipeAssumption DEF Slot, NoSlot
  <2> DEFINE r == ring[q]
             n == Accepted(r, Len(data))
             b == Bytes(r)
  <2>4. /\ r \in Rings /\ WellFormed(r) /\ data \in Seq(Byte)
        /\ slot \in [Pipe -> [Slot -> SlotRecord]] /\ ring \in [Pipe -> RingType]
    BY <2>1, LiveTyped, WriteEffect DEF FrontsInv, EndsInv, Rings
  <2>5. Stored(r, data) = n /\ Filled(r, data) = Push(r, data)
    BY <2>4 DEF Stored, Filled
  <2>6. PastTheTable(Push(r, data)) = Push(r, data)
    <3>1. Push(r, data) \in RingType
      BY <2>4, PushAppends DEF Rings
    <3> QED BY <3>1, NothingPast
  <2>7. /\ Returns(n)
        /\ n = 0 => UNCHANGED <<slot, ring>>
        /\ n # 0 => /\ ring' = [ring EXCEPT ![q] = Push(r, data)]
                    /\ slot' = [slot EXCEPT ![q] = WakeReaders(@)]
    BY <2>2, <2>3, <2>5, <2>6 DEF PPipeWrite
  <2>8. /\ b \in Seq(Byte) /\ Len(b) = Length(r) /\ Length(r) \in 0 .. Size /\ Len(data) \in Nat
        /\ n \in 0 .. (Size - Length(r)) /\ n <= Len(data) /\ Size \in Nat
    BY <2>4, BytesType, LengthType, AcceptedType, RingAssumption
  <2>9. n = Users!Min({Len(data), Size - Len(KeptBytes[q])})
    <3>1. Len(data) \in Int /\ Size - Len(b) \in Int
      BY <2>8
    <3>2. Users!Min({Len(data), Size - Len(b)}) = Smaller(Len(data), Size - Len(b))
      <4> HIDE DEF b
      <4> QED BY <3>1, UserMin
    <3> QED BY <2>1, <2>8, <3>2 DEF Accepted
  <2>10. Bytes(Push(r, data)) = b \o SubSeq(data, 1, n)
    <3>1. Prefix(data, n) = SubSeq(data, 1, n)
      BY <2>8 DEF Prefix, Smaller
    <3> QED BY <2>4, <3>1, PushAppends
  <2> HIDE DEF r, n, b
  <2>11. \A x \in Pipe : ring'[x] = IF x = q THEN Push(r, data) ELSE ring[x]
    <3>1. n = 0 => Push(r, data) = r
      BY <2>4, PushNothing DEF n
    <3> QED BY <2>1, <2>4, <2>7, <3>1 DEF r
  <2>12. KeptBytes' = [KeptBytes EXCEPT ![q] = @ \o SubSeq(data, 1, n)]
    <3>1. KeptBytes = Kept(files, ring) /\ KeptBytes' = Kept(files, ring')
      BY <1>2, View, ViewNext
    <3>2. Users!Open(files, q)
      BY <2>1, UserSets DEF Users!Open, Mode
    <3>3. \A x \in Pipe : KeptBytes'[x] = IF x = q THEN b \o SubSeq(data, 1, n) ELSE KeptBytes[x]
      BY <2>10, <2>11, <3>1, <3>2 DEF Kept
    <3>4. KeptBytes[q] = b
      BY <2>1 DEF b, r
    <3> QED BY <2>1, <3>1, <3>3, <3>4 DEF Kept
  <2>13. UnreadSays /\ UnreadSays' /\ \A x \in Proc, y \in Pipe : /\ Reads(x, y)' <=> Reads(x, y)
                                                                  /\ Reads(x, y) <=> Users!Has(files, x, y, "read")
    BY <1>2, View, ViewNext, UnreadIs, UnreadNext
  <2>14. ASSUME NEW y \in Pipe, NEW x \in Proc, y # q PROVE UnreadCount'[y][x] = UnreadCount[y][x]
    <3>1. CASE Reads(x, y)
      <4>1. slot'[y] = slot[y] /\ ring'[y] = ring[y]
        BY <2>4, <2>7, <2>11, <2>14
      <4>2. Stays(y, x)
        BY <4>1 DEF Stays, IsReader, IsSlotOf
      <4> QED BY <2>13, <3>1, <4>1, <4>2, StaysUnread
    <3>2. CASE ~ Reads(x, y)
      BY <2>13, <3>2, NotReading
    <3> QED BY <3>1, <3>2
  <2>15. ASSUME NEW x \in Proc
         PROVE  UnreadCount'[q][x] = UnreadCount[q][x] + IF Reads(x, q) THEN n ELSE 0
    <3>1. CASE Reads(x, q)
      <4>1. PICK j \in Slot : IsReader(q, j, x)
        BY <2>1, <2>13, <3>1 DEF UnreadSays
      <4>2. IsSlotOf(q, j, x) /\ UnreadCount[q][x] = Unread(slot[q][j], r)
        BY <2>1, <2>13, <3>1, <4>1 DEF UnreadSays, IsReader, r
      <4>3. slot[q][j] \in SlotRecord /\ InRing(slot[q][j], r)
        BY <2>1, <2>4, <4>1, FrontsBySlot DEF IsReader, IsSlotOf, FrontsInv, r
      <4>4. Unread(slot[q][j], r) \in Nat
        BY <2>4, <2>8, <4>3, UnreadFits
      <4>5. CASE n = 0
        <5>1. IsSlotOf(q, j, x)' /\ slot'[q][j] = slot[q][j] /\ ring' = ring
          BY <2>7, <4>2, <4>5 DEF IsSlotOf
        <5>2. UnreadCount'[q][x] = Unread(slot'[q][j], ring'[q])
          BY <2>1, <2>13, <3>1, <5>1 DEF UnreadSays
        <5> QED BY <3>1, <4>2, <4>4, <4>5, <5>1, <5>2 DEF r
      <4>6. CASE n # 0
        <5>1. PICK t : t = [slot[q][j] EXCEPT !.empty = FALSE]
          OBVIOUS
        <5>2. slot'[q][j] = t
          <6>1. slot'[q][j] = WakeReaders(slot[q])[j]
            BY <2>1, <2>4, <2>7, <4>6
          <6>2. WakeReaders(slot[q])[j]
                  = [slot[q][j] EXCEPT !.empty = @ /\ ~ (slot[q][j].valid /\ "read" \in slot[q][j].open)]
            BY DEF WakeReaders
          <6>3. slot[q][j].valid /\ "read" \in slot[q][j].open
            BY <4>1 DEF IsReader, IsSlotOf
          <6>4. (slot[q][j].empty /\ ~ (slot[q][j].valid /\ "read" \in slot[q][j].open)) = FALSE
            BY <6>3
          <6>5. WakeReaders(slot[q])[j] = [slot[q][j] EXCEPT !.empty = FALSE]
            BY <6>2, <6>4
          <6> QED BY <5>1, <6>1, <6>5
        <5>3. t.valid = slot[q][j].valid /\ t.pid = slot[q][j].pid
          BY <4>3, <5>1 DEF SlotRecord
        <5>4. IsSlotOf(q, j, x)'
          BY <4>2, <5>2, <5>3 DEF IsSlotOf
        <5>5. UnreadCount'[q][x] = Unread(slot'[q][j], ring'[q])
          BY <2>1, <2>13, <3>1, <5>4 DEF UnreadSays
        <5>6. Unread(t, Push(r, data)) = Unread(slot[q][j], r) + n
          BY <2>4, <4>3, <4>6, <5>1, WriteAdds DEF n
        <5> QED BY <2>1, <2>11, <3>1, <4>2, <5>2, <5>5, <5>6
      <4> QED BY <4>5, <4>6
    <3>2. CASE ~ Reads(x, q)
      BY <2>1, <2>13, <3>2, NotReading
    <3> QED BY <3>1, <3>2
  <2>16. UnreadCount' = [UnreadCount EXCEPT ![q] =
                           [x \in Proc |-> @[x] + IF x \in Users!Readers(q) THEN n ELSE 0]]
    <3>1. \A x \in Proc : x \in Users!Readers(q) <=> Reads(x, q)
      BY <1>2, <2>1, <2>13 DEF Users!Readers
    <3>2. [x \in Proc |-> UnreadCount[q][x] + IF x \in Users!Readers(q) THEN n ELSE 0]
            = [x \in Proc |-> UnreadCount'[q][x]]
      BY <2>15, <3>1
    <3>3. DOMAIN UnreadCount' = Pipe /\ DOMAIN UnreadCount = Pipe
          /\ (\A y \in Pipe : DOMAIN UnreadCount[y] = Proc /\ DOMAIN UnreadCount'[y] = Proc)
      BY DEF UnreadCount
    <3>4. ASSUME NEW y \in Pipe, y # q PROVE UnreadCount'[y] = UnreadCount[y]
      <4>1. UnreadCount[y] = [x \in Proc |-> UnreadCount[y][x]]
        BY DEF UnreadCount
      <4>2. UnreadCount'[y] = [x \in Proc |-> UnreadCount'[y][x]]
        BY DEF UnreadCount
      <4>3. \A x \in Proc : UnreadCount'[y][x] = UnreadCount[y][x]
        BY <2>14, <3>4
      <4> QED BY <4>1, <4>2, <4>3
    <3>5. UnreadCount'[q] = [x \in Proc |-> UnreadCount'[q][x]]
      BY <2>1 DEF UnreadCount
    <3>6. UnreadCount' = [y \in Pipe |-> UnreadCount'[y]] /\ UnreadCount = [y \in Pipe |-> UnreadCount[y]]
      BY DEF UnreadCount
    <3>7. \A y \in Pipe : UnreadCount'[y] =
            IF y = q THEN [x \in Proc |-> UnreadCount[q][x] + IF x \in Users!Readers(q) THEN n ELSE 0]
            ELSE UnreadCount[y]
      BY <3>2, <3>4, <3>5
    <3> HIDE DEF UnreadCount
    <3> QED BY <2>1, <3>6, <3>7
  <2>17. ret' = [code |-> n, bytes |-> <<>>]
    BY <2>7 DEF Returns
  <2> QED BY <1>2, <1>3, <1>6, <2>9, <2>12, <2>16, <2>17 DEF Users!Write, Users!Returns
<1> QED BY <1>1, <1>3, <1>4, <1>5, <1>6 DEF Write

(***************************************************************************)
(* What a flush gives back is what the slowest reader has passed: the      *)
(* slots that hold a flush up are those of readers.                        *)
(***************************************************************************)
LEMMA ReaderSlots ==
  ASSUME FrontsInv, kernel.op = "user", NEW q \in live
  PROVE  /\ Users!Readers(q) = {x \in Proc : Reads(x, q)}
         /\ \A i \in Slot : slot[q][i].valid /\ "read" \in slot[q][i].open =>
              slot[q][i].pid \in Users!Readers(q)
         /\ HasReader(q) <=> Users!Readers(q) # {}
<1>1. q \in Pipe /\ EndsInv /\ VisibleFiles = files /\ "read" \in Mode
  BY LiveTyped, UserView DEF FrontsInv, Mode
<1>2. Users!Readers(q) = {x \in Proc : Reads(x, q)}
  <2>1. \A x \in Proc : Reads(x, q) <=> Users!Has(VisibleFiles, x, q, "read")
    BY <1>1, View
  <2> QED BY <2>1 DEF Users!Readers
<1>3. ASSUME NEW i \in Slot, slot[q][i].valid, "read" \in slot[q][i].open
      PROVE  slot[q][i].pid \in Users!Readers(q)
  <2>1. slot[q][i].pid \in Proc /\ Holds(slot[q][i].pid, End(q, "read"))
    BY <1>1, <1>3, OneSlotEach, SlotMeaning
  <2>2. Reads(slot[q][i].pid, q)
    BY <1>1, <2>1 DEF Reads, Holds, Counted
  <2> QED BY <1>2, <2>1, <2>2
<1>4. ASSUME NEW x \in Users!Readers(q) PROVE HasReader(q)
  <2>1. UnreadSays /\ Reads(x, q) /\ x \in Proc
    BY <1>2, UnreadIs
  <2>2. PICK i \in Slot : IsReader(q, i, x)
    BY <1>1, <2>1 DEF UnreadSays
  <2> QED BY <2>2 DEF IsReader, IsSlotOf, HasReader, ValidSlots
<1>5. HasReader(q) => Users!Readers(q) # {}
  BY <1>3 DEF HasReader, ValidSlots
<1> QED BY <1>2, <1>3, <1>4, <1>5

\* How far a reader's slot is ahead of the front.
LEMMA SlotPassed ==
  ASSUME FrontsInv, kernel.op = "user", NEW q \in live, NEW i \in Slot,
         slot[q][i].valid, "read" \in slot[q][i].open, ~ IsEmpty(ring[q])
  PROVE  LET a == Length(ring[q]) - UnreadCount[q][slot[q][i].pid]
         IN  /\ a \in 0 .. Length(ring[q]) /\ Length(ring[q]) = Held(ring[q])
             /\ slot[q][i].empty => a = Held(ring[q])
             /\ ~ slot[q][i].empty => a = (slot[q][i].front - ring[q].front + Size) % Size
<1> DEFINE s == slot[q][i]
           r == ring[q]
           u == UnreadCount[q][s.pid]
<1>1. q \in Pipe /\ s \in SlotRecord /\ r \in Rings /\ InRing(s, r)
  BY LiveTyped, FrontsBySlot DEF FrontsInv
<1>2. u = Unread(s, r)
  <2>1. s.pid \in Users!Readers(q) /\ Users!Readers(q) = {x \in Proc : Reads(x, q)}
    BY ReaderSlots
  <2>2. UnreadSays /\ IsSlotOf(q, i, s.pid)
    BY UnreadIs DEF IsSlotOf
  <2> QED BY <1>1, <2>1, <2>2 DEF UnreadSays
<1>3. Length(r) = Held(r)
  BY DEF Length, Held
<1> HIDE DEF s, r, u
<1>4. /\ Unread(s, r) \in 0 .. Length(r) /\ Length(r) \in 0 .. Size
      /\ ~ s.empty => /\ Unread(s, r) = Span(s.front, r.rear) /\ Length(r) = Span(r.front, r.rear)
                      /\ s.front \in Index /\ r.front \in Index /\ r.rear \in Index
  BY <1>1, UnreadFits
<1>5. Length(r) - u \in 0 .. Length(r)
  BY <1>2, <1>4, RingAssumption
<1>6. s.empty => Length(r) - u = Held(r)
  BY <1>2, <1>3, <1>4, RingAssumption DEF Unread
<1>7. ~ s.empty => Length(r) - u = (s.front - r.front + Size) % Size
  <2>1. SUFFICES ASSUME ~ s.empty PROVE Length(r) - u = (s.front - r.front + Size) % Size
    OBVIOUS
  <2>2. Span(s.front, r.rear) <= Span(r.front, r.rear)
    BY <1>4, <2>1
  <2> QED BY <1>2, <1>4, <2>1, <2>2, Distance
<1> QED BY <1>3, <1>5, <1>6, <1>7 DEF s, r, u

LEMMA FlushCounts ==
  ASSUME LogInv, kernel.op = "user", NEW q \in live, HasReader(q), ~ IsEmpty(ring[q])
  PROVE  Reclaimable(q) = Users!Min({Length(ring[q]) - UnreadCount[q][x] : x \in Users!Readers(q)})
<1> DEFINE r == ring[q]
           L == Length(r)
           A == {L - UnreadCount[q][x] : x \in Users!Readers(q)}
           n == Reclaimable(q)
           B == {Held(r)} \cup Passed(q)
<1>1. /\ FrontsInv /\ EndsInv /\ q \in Pipe
      /\ n \in Nat /\ Held(r) \in 1 .. Size /\ Passed(q) \in SUBSET Nat
      /\ n <= Held(r) /\ \A y \in Passed(q) : n <= y
  <2>1. FrontsInv /\ EndsInv /\ q \in Pipe
    BY LiveTyped DEF LogInv, FrontsInv
  <2> QED BY <2>1, ReclaimableType
<1>2. n \in B
  <2>1. B \in SUBSET Nat /\ B # {}
    BY <1>1, RingAssumption
  <2>2. n = Min(B)
    BY DEF Reclaimable
  <2> HIDE DEF n, B
  <2> QED BY <2>1, <2>2, SameSets, Plain!MinMax, PlainAssumptions
<1>3. ASSUME NEW x \in Users!Readers(q)
      PROVE  /\ L - UnreadCount[q][x] \in 0 .. L /\ L = Held(r)
             /\ n <= L - UnreadCount[q][x]
  <2>1. UnreadSays /\ Reads(x, q) /\ x \in Proc
    BY <1>1, ReaderSlots, UnreadIs
  <2>2. PICK i \in Slot : IsReader(q, i, x)
    BY <1>1, <2>1 DEF UnreadSays
  <2>3. slot[q][i].valid /\ "read" \in slot[q][i].open /\ slot[q][i].pid = x
    BY <2>2 DEF IsReader, IsSlotOf
  <2>4. /\ L - UnreadCount[q][x] \in 0 .. L /\ L = Held(r)
        /\ slot[q][i].empty => L - UnreadCount[q][x] = Held(r)
        /\ ~ slot[q][i].empty => L - UnreadCount[q][x] = (slot[q][i].front - r.front + Size) % Size
    BY <1>1, <2>3, SlotPassed
  <2>5. ~ slot[q][i].empty => (slot[q][i].front - r.front + Size) % Size \in Passed(q)
    BY <2>3 DEF Passed, ValidSlots
  <2> HIDE DEF n, L, r
  <2>6. CASE slot[q][i].empty
    BY <1>1, <2>4, <2>6
  <2>7. CASE ~ slot[q][i].empty
    BY <1>1, <2>4, <2>5, <2>7
  <2> QED BY <2>4, <2>6, <2>7
<1>4. \E a \in A : a <= n
  <2>1. CASE n = Held(r)
    <3>1. PICK x : x \in Users!Readers(q)
      BY <1>1, ReaderSlots
    <3>2. L - UnreadCount[q][x] <= n
      <4> HIDE DEF n, L, r
      <4> QED BY <1>3, <2>1, <3>1
    <3> QED BY <3>1, <3>2
  <2>2. CASE n \in Passed(q)
    <3>1. PICK i \in Slot : /\ slot[q][i].valid /\ ~ slot[q][i].empty
                            /\ n = (slot[q][i].front - r.front + Size) % Size
      BY <2>2 DEF Passed, ValidSlots
    <3>2. "read" \in slot[q][i].open
      BY <3>1 DEF LogInv, WritersAtEnd
    <3>3. slot[q][i].pid \in Users!Readers(q)
      BY <1>1, <3>1, <3>2, ReaderSlots
    <3>4. L - UnreadCount[q][slot[q][i].pid] = (slot[q][i].front - r.front + Size) % Size
      BY <1>1, <3>1, <3>2, SlotPassed
    <3>5. L - UnreadCount[q][slot[q][i].pid] <= n
      <4> HIDE DEF n, L, r
      <4> QED BY <1>1, <3>1, <3>4
    <3> QED BY <3>3, <3>5
  <2> QED BY <1>2, <2>1, <2>2
<1>5. n \in A /\ (\A a \in A : n <= a) /\ A \subseteq Int
  <2>1. \A a \in A : a \in Int /\ n <= a
    <3>1. L \in Int
      BY <1>1, LengthType, RingAssumption DEF FrontsInv
    <3> HIDE DEF n, L
    <3> QED BY <1>3, <3>1
  <2>2. PICK a \in A : a <= n
    BY <1>4
  <2> HIDE DEF n, A
  <2>3. a = n
    BY <1>1, <2>1, <2>2
  <2> QED BY <2>1, <2>2, <2>3
<1> HIDE DEF n, A
<1>6. Min(A) = n
  <2>1. Min(A) \in A /\ \A a \in A : Min(A) <= a
    BY <1>5 DEF Min
  <2>2. Min(A) <= n /\ n <= Min(A)
    BY <1>5, <2>1
  <2>3. n \in Int
    BY <1>5
  <2>4. Min(A) \in Int
    BY <1>5, <2>1
  <2> QED BY <2>2, <2>3, <2>4
<1>7. Users!Min(A) = Min(A)
  BY UserSets
<1> QED BY <1>6, <1>7 DEF n, A, L, r

\* A partial flush takes the oldest bytes away.
LEMMA PartlyFlushedRing ==
  ASSUME NEW r \in Rings, ~ IsEmpty(r), NEW n \in Nat, n < Length(r)
  PROVE  /\ PartlyFlushed(r, n).rear = r.rear
         /\ Bytes(PartlyFlushed(r, n)) = SubSeq(Bytes(r), n + 1, Length(r))
<1> DEFINE v == [r EXCEPT !.front = (r.front + n) % Size]
           b == Bytes(r)
<1>1. r.front \in Index /\ r.rear \in Index /\ Length(r) \in 0 .. Size /\ Size \in Nat
      /\ b \in Seq(Byte) /\ Len(b) = Length(r)
  BY RingFields, LengthType, BytesType, RingAssumption
<1>2. PartlyFlushed(r, n) = v
  <2>1. ~ (r.front + n < 0)
    BY <1>1, RingAssumption DEF Index
  <2> QED BY <2>1 DEF PartlyFlushed, Moved
<1>3. v.rear = r.rear
  BY DEF Rings, RingType
<1>4. CASE n = 0
  <2>1. (r.front + n) % Size = r.front
    BY <1>1, <1>4, RingAssumption DEF Index
  <2>2. v = r
    BY <1>1, <2>1, RingFields
  <2> HIDE DEF b, v
  <2>3. SubSeq(b, 1, Len(b)) = b
    BY <1>1
  <2> QED BY <1>1, <1>2, <1>3, <1>4, <2>2, <2>3 DEF b
<1>5. CASE n > 0
  <2>1. /\ v \in Rings /\ Length(v) = Length(r) - n
        /\ \A k \in 1 .. (Length(r) - n) : Bytes(v)[k] = Bytes(r)[n + k]
    BY <1>5, PopSome
  <2> HIDE DEF v, b
  <2>2. Bytes(v) \in Seq(Byte) /\ Len(Bytes(v)) = Length(r) - n
    BY <2>1, BytesType
  <2>3. Bytes(v) = [k \in 1 .. (Length(r) - n) |-> b[n + k]]
    BY <2>1, <2>2 DEF b
  <2>4. SubSeq(b, n + 1, Length(r)) = [k \in 1 .. (Length(r) - n) |-> b[n + k]]
    <3>1. SubSeq(b, n + 1, Length(r)) = [k \in 1 .. (Length(r) - (n + 1) + 1) |-> b[n + 1 + k - 1]]
      BY <1>1
    <3>2. Length(r) - (n + 1) + 1 = Length(r) - n /\ \A k \in 1 .. (Length(r) - n) : n + 1 + k - 1 = n + k
      BY <1>1
    <3> QED BY <3>1, <3>2
  <2> QED BY <1>2, <1>3, <2>3, <2>4 DEF b
<1> QED BY <1>4, <1>5

LEMMA FlushImplements ==
  ASSUME LogInv, LogInv', NEW p \in Proc, NEW fd \in Fd, PartialFlush(p, fd)
  PROVE  Users!FlushFails(p, fd) \/ Users!Flush(p, fd)
<1>1. /\ kernel.op = "user" /\ kernel'.op = "user" /\ state[p] = "ready"
      /\ UNCHANGED <<state, files, slot, live>> /\ FrontsInv /\ FrontsInv'
  BY DEF PartialFlush, Flush, Calls, LogInv
<1>2. /\ Visible = {x \in Proc : state[x] = "ready"} /\ VisibleFiles = files /\ p \in Visible
      /\ UNCHANGED <<Visible, VisibleFiles>>
  BY <1>1, UserView
<1>3. PICK f, q : f = files[p][fd] /\ q = files[p][fd].pipe
  OBVIOUS
<1>4. CASE f = NoFile /\ Returns(-1) /\ UNCHANGED ring
  <2>1. UNCHANGED <<Visible, VisibleFiles, KeptBytes, UnreadCount>>
    BY <1>1, <1>4, NothingMoves
  <2> QED BY <1>2, <1>3, <1>4, <2>1 DEF Users!FlushFails, Users!Returns, Returns
<1>5. ASSUME f # NoFile
      PROVE  /\ q \in live /\ q \in Pipe /\ KeptBytes[q] = Bytes(ring[q]) /\ ring[q] \in Rings
             /\ Bytes(ring[q]) \in Seq(Byte) /\ Len(Bytes(ring[q])) = Length(ring[q])
             /\ Length(ring[q]) \in 0 .. Size
             /\ KeptBytes = Kept(files, ring) /\ KeptBytes' = Kept(files, ring')
             /\ Users!Open(files, q)
  <2>1. /\ q \in live /\ q \in Pipe /\ KeptBytes[q] = Bytes(ring[q]) /\ f \in File
        /\ Users!Has(files, p, q, f.mode)
    BY <1>1, <1>3, <1>5, Served
  <2>2. ring[q] \in Rings
    BY <1>1, <2>1 DEF FrontsInv
  <2>3. KeptBytes = Kept(files, ring) /\ KeptBytes' = Kept(files, ring')
    BY <1>1, <1>2, View, ViewNext
  <2>4. Users!Open(files, q)
    BY <2>1, UserSets DEF Users!Open, File
  <2> QED BY <2>1, <2>2, <2>3, <2>4, BytesType, LengthType
<1>6. CASE f # NoFile /\ (IsEmpty(ring[q]) \/ ~ HasReader(q)) /\ Returns(0) /\ UNCHANGED ring
  <2> DEFINE A == {Len(KeptBytes[q]) - UnreadCount[q][x] : x \in Users!Readers(q)}
  <2>0. PICK n : n = 0
    OBVIOUS
  <2>1. UNCHANGED <<Visible, VisibleFiles, KeptBytes, UnreadCount>>
    BY <1>1, <1>6, NothingMoves
  <2>2. KeptBytes = [KeptBytes EXCEPT ![q] = SubSeq(@, n + 1, Len(@))]
    <3> DEFINE b == Bytes(ring[q])
    <3>1. KeptBytes[q] = b /\ b \in Seq(Byte)
      BY <1>5, <1>6
    <3> HIDE DEF b
    <3>2. SubSeq(b, n + 1, Len(b)) = b
      BY <2>0, <3>1
    <3>3. KeptBytes = [KeptBytes EXCEPT ![q] = b]
      BY <3>1 DEF KeptBytes
    <3> QED BY <3>1, <3>2, <3>3
  <2>3. CASE Users!Readers(q) = {}
    BY <1>2, <1>3, <1>6, <2>0, <2>1, <2>2, <2>3 DEF Users!Flush, Users!Returns, Returns
  <2>4. CASE Users!Readers(q) # {}
    <3>1. IsEmpty(ring[q]) /\ Length(ring[q]) = 0
      BY <1>1, <1>5, <1>6, <2>4, ReaderSlots DEF Length
    <3>2. ASSUME NEW x \in Users!Readers(q) PROVE Len(KeptBytes[q]) - UnreadCount[q][x] = 0
      <4>1. UnreadSays /\ Reads(x, q) /\ x \in Proc
        BY <1>1, <1>5, <1>6, ReaderSlots, UnreadIs
      <4>2. PICK i \in Slot : IsReader(q, i, x)
        BY <1>5, <1>6, <4>1 DEF UnreadSays
      <4>3. IsSlotOf(q, i, x) /\ UnreadCount[q][x] = Unread(slot[q][i], ring[q])
        BY <1>5, <1>6, <4>1, <4>2 DEF UnreadSays, IsReader
      <4>4. InRing(slot[q][i], ring[q])
        BY <1>1, <1>5, <1>6, <4>2, FrontsBySlot DEF IsReader, IsSlotOf, FrontsInv
      <4>5. UnreadCount[q][x] = 0
        BY <3>1, <4>3, <4>4 DEF InRing, Unread
      <4> QED BY <1>5, <1>6, <3>1, <4>5
    <3>3. A = {0}
      BY <2>4, <3>2
    <3>4. Users!Min({0}) = 0
      <4>1. Users!Min({0, 0}) = Smaller(0, 0) /\ {0, 0} = {0}
        BY UserMin
      <4> QED BY <4>1 DEF Smaller
    <3>5. n = Users!Min({Len(KeptBytes[q]) - UnreadCount[q][x] : x \in Users!Readers(q)})
      BY <2>0, <3>3, <3>4
    <3>6. ret' = [code |-> n, bytes |-> <<>>]
      BY <1>6, <2>0 DEF Returns
    <3>7. KeptBytes' = [KeptBytes EXCEPT ![q] = SubSeq(@, n + 1, Len(@))] /\ UnreadCount' = UnreadCount
      BY <2>1, <2>2
    <3>8. p \in Visible /\ VisibleFiles[p][fd] # NoFile /\ q = VisibleFiles[p][fd].pipe
      BY <1>2, <1>3, <1>6
    <3> HIDE DEF A
    <3> QED BY <1>2, <2>4, <3>5, <3>6, <3>7, <3>8 DEF Users!Flush, Users!Returns
  <2> QED BY <2>3, <2>4
<1>7. CASE /\ f # NoFile /\ ~ IsEmpty(ring[q]) /\ HasReader(q)
           /\ Returns(Reclaimable(q))
           /\ ring' = [ring EXCEPT ![q] = PartlyFlushed(@, Reclaimable(q))]
           /\ ~ FlushesAll(q)
  <2> DEFINE r == ring[q]
             n == Reclaimable(q)
             v == PartlyFlushed(r, n)
  <2>1. /\ q \in live /\ q \in Pipe /\ KeptBytes[q] = Bytes(r) /\ r \in Rings
        /\ Len(Bytes(r)) = Length(r)
        /\ KeptBytes = Kept(files, ring) /\ KeptBytes' = Kept(files, ring')
        /\ Users!Open(files, q) /\ Length(r) \in 0 .. Size
    BY <1>5, <1>7
  <2>2. n \in Nat /\ n < Length(r)
    <3>1. EndsInv
      BY <1>1 DEF FrontsInv
    <3>2. n \in Nat /\ n <= Held(r)
      BY <2>1, <3>1, ReclaimableType
    <3>3. n # Held(r)
      BY <1>7 DEF FlushesAll
    <3>4. Length(r) = Held(r)
      BY <1>7 DEF Length, Held
    <3> HIDE DEF n, r
    <3> QED BY <2>1, <3>2, <3>3, <3>4, RingAssumption
  <2>3. v.rear = r.rear /\ Bytes(v) = SubSeq(Bytes(r), n + 1, Length(r))
    <3> HIDE DEF n, r
    <3>1. ~ IsEmpty(r)
      BY <1>7 DEF r
    <3> QED BY <2>1, <2>2, <3>1, PartlyFlushedRing
  <2>4. Users!Readers(q) # {} /\ n = Users!Min({Len(KeptBytes[q]) - UnreadCount[q][x] : x \in Users!Readers(q)})
    <3>1. Users!Readers(q) # {}
      BY <1>1, <1>7, <2>1, ReaderSlots
    <3>2. n = Users!Min({Length(r) - UnreadCount[q][x] : x \in Users!Readers(q)})
      BY <1>1, <1>7, <2>1, FlushCounts
    <3>3. Len(KeptBytes[q]) = Length(r)
      BY <2>1
    <3> QED BY <3>1, <3>2, <3>3
  <2>5. \A x \in Pipe : ring'[x] = IF x = q THEN v ELSE ring[x]
    <3>1. ring \in [Pipe -> RingType]
      BY <1>1 DEF FrontsInv, EndsInv
    <3> HIDE DEF v
    <3>2. ring' = [ring EXCEPT ![q] = v]
      BY <1>7 DEF v
    <3> QED BY <2>1, <3>1, <3>2
  <2> HIDE DEF r, n, v
  <2>6. KeptBytes' = [KeptBytes EXCEPT ![q] = SubSeq(@, n + 1, Len(@))]
    <3>1. \A x \in Pipe : KeptBytes'[x] =
            IF x = q THEN SubSeq(KeptBytes[q], n + 1, Len(KeptBytes[q])) ELSE KeptBytes[x]
      BY <2>1, <2>3, <2>5 DEF Kept
    <3> QED BY <2>1, <3>1 DEF Kept
  <2>7. UnreadCount' = UnreadCount
    <3>1. \A x \in Proc, y \in Pipe : Reads(x, y)' <=> Reads(x, y)
      BY <1>1, <1>2, View, ViewNext
    <3>2. \A y \in Pipe : ring'[y].rear = ring[y].rear
      BY <2>3, <2>5 DEF r
    <3>3. \A y \in Pipe, x \in Proc : Stays(y, x)
      BY <1>1, SlotStays
    <3>4. ASSUME NEW y \in Pipe, NEW x \in Proc PROVE UnreadCount'[y][x] = UnreadCount[y][x]
      <4>1. CASE Reads(x, y)
        BY <1>1, <3>1, <3>2, <3>3, <4>1, StaysUnread
      <4>2. CASE ~ Reads(x, y)
        BY <3>1, <4>2, NotReading
      <4> QED BY <4>1, <4>2
    <3> QED BY <3>4, UnreadShape
  <2>8. ret' = [code |-> n, bytes |-> <<>>]
    BY <1>7 DEF Returns, n
  <2> QED BY <1>2, <1>3, <1>7, <2>4, <2>6, <2>7, <2>8 DEF Users!Flush, Users!Returns
<1>8. \/ f = NoFile /\ Returns(-1) /\ UNCHANGED ring
      \/ f # NoFile /\ (IsEmpty(ring[q]) \/ ~ HasReader(q)) /\ Returns(0) /\ UNCHANGED ring
      \/ /\ f # NoFile /\ ~ IsEmpty(ring[q]) /\ HasReader(q)
         /\ Returns(Reclaimable(q))
         /\ ring' = [ring EXCEPT ![q] = PartlyFlushed(@, Reclaimable(q))]
         /\ ~ FlushesAll(q)
  BY <1>3 DEF PartialFlush, Flush
<1> QED BY <1>4, <1>6, <1>7, <1>8

LEMMA InitImplements == Init => Users!Init
<1> SUFFICES ASSUME Init PROVE Users!Init
  OBVIOUS
<1>1. FrontsInv /\ kernel.op = "user"
  BY LogInit DEF Init, FilesInit, UserMode, LogInv
<1>2. /\ Visible = {p \in Proc : state[p] = "ready"} /\ VisibleFiles = files
      /\ KeptBytes = Kept(files, ring)
      /\ \A p \in Proc, q \in Pipe : Reads(p, q) <=> Users!Has(files, p, q, "read")
  BY <1>1, View, UserView
<1>3. Visible = {InitProc}
  BY <1>2, FilesAssumption DEF Init, FilesInit
<1>4. VisibleFiles = [p \in Proc |-> [fd \in Users!Fd |-> NoFile]]
  BY <1>2, UserSets DEF Init, FilesInit
<1>5. \A p \in Proc, q \in Pipe, m \in Mode : ~ Users!Has(files, p, q, m)
  <2>1. \A q, m : End(q, m) \in File \/ m \notin Mode \/ q \notin Pipe
    BY DEF End, File
  <2> QED BY <2>1, UserSets, FilesAssumption DEF Init, FilesInit, Users!Has
<1>6. KeptBytes = [q \in Pipe |-> <<>>]
  BY <1>2, <1>5, UserSets DEF Kept, Users!Open
<1>7. UnreadCount = [q \in Pipe |-> [p \in Proc |-> 0]]
  <2>1. \A p \in Proc, q \in Pipe : ~ Reads(p, q)
    BY <1>2, <1>5 DEF Mode
  <2> QED BY <2>1 DEF UnreadCount
<1> QED BY <1>3, <1>4, <1>6, <1>7 DEF Users!Init, Init, FilesInit

\* The alternatives of the abstract next-state relation.
LEMMA UserSteps ==
  ASSUME NEW p \in Proc
  PROVE  /\ Users!CreateFails(p) => Users!Next
         /\ \A q \in Pipe, rfd \in Fd, wfd \in Fd : Users!Create(p, q, rfd, wfd) => Users!Next
         /\ \A fd \in Fd, m \in Mode : Users!Refused(p, fd, m) => Users!Next
         /\ \A fd \in Fd, count \in 0 .. MaxCount : Users!Read(p, fd, count) => Users!Next
         /\ \A fd \in Fd, data \in UserData : Users!Write(p, fd, data) => Users!Next
         /\ \A fd \in Fd : Users!FlushFails(p, fd) \/ Users!Flush(p, fd) => Users!Next
         /\ \A fd \in Fd : Users!CloseFails(p, fd) \/ Users!Close(p, fd) => Users!Next
         /\ \A child \in Proc : Users!Fork(p, child) => Users!Next
         /\ Users!Exit(p) => Users!Next
BY UserSets, Zenon DEF Users!Next

LEMMA StepImplements ==
  Overrun = {} /\ LogInv /\ LogInv' /\ [PlainNext \/ \E p \in Proc, fd \in Fd : PartialFlush(p, fd)]_vars
    => [Users!Next]_(Users!vars)
<1> SUFFICES ASSUME Overrun = {}, LogInv, LogInv',
                    [PlainNext \/ \E p \in Proc, fd \in Fd : PartialFlush(p, fd)]_vars
             PROVE  Users!Next \/ UNCHANGED Users!vars
  OBVIOUS
<1>a. FrontsInv /\ FrontsInv'
  BY DEF LogInv
<1>1. ASSUME NEW p \in Proc, NEW q \in Pipe, NEW page \in PageContents, Create(p, q, page) PROVE Users!Next
  BY <1>1, <1>a, CreateImplements, UserSteps
<1>2. ASSUME NEW p \in Proc, NEW fd \in Fd, NEW count \in 0 .. MaxCount, Read(p, fd, count) PROVE Users!Next
  <2>1. "read" \in Mode
    BY DEF Mode
  <2> QED BY <1>2, <2>1, <1>a, ReadImplements, UserSteps
<1>3. ASSUME NEW p \in Proc, NEW fd \in Fd, NEW data \in UserData, Write(p, fd, data) PROVE Users!Next
  <2>1. "write" \in Mode
    BY DEF Mode
  <2> QED BY <1>3, <2>1, <1>a, WriteImplements, UserSteps
<1>4. ASSUME NEW p \in Proc, NEW fd \in Fd, Close(p, fd) PROVE Users!Next
  BY <1>4, <1>a, CloseImplements, UserSteps
<1>5. ASSUME NEW p \in Proc, NEW fd \in Fd, PartialFlush(p, fd) PROVE Users!Next
  BY <1>5, FlushImplements, UserSteps
<1>6. ASSUME NEW p \in Proc, ForkBegin(p) PROVE UNCHANGED Users!vars
  BY <1>6, <1>a, ForkBeginStutters
<1>7. ASSUME NEW p \in Proc, ExitBegin(p) PROVE Users!Next
  BY <1>7, <1>a, ExitImplements, UserSteps
<1>8. CASE ForkFile
  BY <1>8, <1>a, ForkFileStutters
<1>9. CASE ForkEnd
  BY <1>9, <1>a, ForkImplements, UserSteps
<1>10. CASE ExitFile
  BY <1>10, <1>a, ExitFileStutters
<1>11. CASE ExitEnd
  BY <1>11, <1>a, ExitEndStutters
<1>12. CASE UNCHANGED vars
  <2>1. UNCHANGED <<kernel, state, files, slot, ring, ret>>
    BY <1>12 DEF vars
  <2>2. UNCHANGED Hidden
    BY <2>1 DEF Hidden
  <2>3. UNCHANGED <<Visible, VisibleFiles>>
    BY <1>a, <2>1, <2>2, View, ViewNext
  <2> QED BY <1>a, <2>1, <2>3, SlotStays, Unseen
<1> QED BY <1>1, <1>2, <1>3, <1>4, <1>5, <1>6, <1>7, <1>8, <1>9, <1>10, <1>11, <1>12 DEF PlainNext

(***************************************************************************)
(* The persistent pipes of ppipe.c are those that create_persistent_pipe,  *)
(* read, write, flush_ppipe, close, fork and exit promise, for any number  *)
(* of processes, pipes, descriptors and bytes: a process reads every byte  *)
(* written since it got the pipe once and in order, and a flush gives back *)
(* what every reader has read (ppipe.c:82-529, file.c:41-118).  This is of *)
(* programs that never flush everything, and of pages placed so that the   *)
(* loop past the slot table meets nothing in the buffer: the runs          *)
(* ppipe_flush and ppipe_overrun show what goes wrong otherwise.           *)
(***************************************************************************)
THEOREM PPipeImplements == Overrun = {} => (PartialSpec => ImplementsPPipeSpec)
<1>1. ASSUME Overrun = {}
      PROVE  LogInv /\ LogInv' /\ [PlainNext \/ \E p \in Proc, fd \in Fd : PartialFlush(p, fd)]_vars
               => [Users!Next]_(Users!vars)
  BY <1>1, StepImplements
<1>2. ASSUME Overrun = {} PROVE PartialSpec => ImplementsPPipeSpec
  BY <1>1, <1>2, InitImplements, LogInvariance, PTL DEF PartialSpec, ImplementsPPipeSpec, Users!Spec
<1> QED BY <1>2
================================================================================
