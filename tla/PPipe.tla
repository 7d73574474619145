--------------------------------- MODULE PPipe ---------------------------------
(***************************************************************************)
(* Persistent pipes as ppipe.c implements them on the file layer of        *)
(* file.c: all processes write into one ring, every process reads it with  *)
(* a front of its own, and bytes stay in the ring until flush reclaims     *)
(* what everyone has read.  The user's buffer is not checked here.         *)
(***************************************************************************)
EXTENDS Files, Ring

CONSTANTS MaxPPipeProc,  \* MAX_PPIPE_PROC
          PageContents,  \* what a page holds, read as a slot table, when it is handed out
          MaxCount,      \* bound on the count argument of read and write
          Fill,          \* the bytes of a buffer page before the first write
          Overrun        \* where loops past the slot table meet the buffer, see WakeReaders

Slot      == 0 .. (MaxPPipeProc - 1)
NoSlot    == -1
SlotTable == [Slot -> [valid : BOOLEAN, pid : Nat, front : Index, empty : BOOLEAN,
                       open : SUBSET Mode]]

ASSUME PPipeAssumption ==
  /\ MaxPPipeProc \in Nat \ {0} /\ Size > 1
  /\ PageContents \subseteq SlotTable
  /\ MaxCount \in Nat /\ Fill \in Byte
  /\ Overrun \subseteq [valid : Index, empty : Index, read : Index]
  /\ Overrun # {} => 0 \in Byte

VARIABLES slot,   \* slot[q]: ppipe_per_proc of pipe q
          ring,   \* ring[q]: ppipe_global of pipe q
          live    \* the pipes whose pages are allocated

vars == <<state, files, refCount, kernel, ret, slot, ring, live>>

TypeOK ==
  /\ state \in [Proc -> {"unused", "ready"}]
  /\ files \in [Proc -> [Fd -> File \cup {NoFile}]]
  /\ refCount \in [File -> Nat]
  /\ kernel \in KernelLoops
  /\ ret \in [code : Int, bytes : Seq(Byte)]
  /\ slot \in [Pipe -> SlotTable]
  /\ ring \in [Pipe -> RingType]
  /\ live \in SUBSET Pipe

NewRing == [front |-> NoIndex, rear |-> NoIndex, buf |-> [i \in Index |-> Fill]]
NoTable == [i \in Slot |-> [valid |-> FALSE, pid |-> 0, front |-> 0, empty |-> FALSE, open |-> {}]]

Init ==
  /\ FilesInit
  /\ slot = [q \in Pipe |-> NoTable]
  /\ ring = [q \in Pipe |-> NewRing]
  /\ live = {}

ValidSlots(q) == {i \in Slot : slot[q][i].valid}
SlotsOf(q, p) == {i \in ValidSlots(q) : slot[q][i].pid = p}
Last(S)       == IF S = {} THEN NoSlot ELSE Max(S)

\* ppipe_read, ppipe_write and ppipe_close leave process_index uninitialised
\* when no slot of the table matches.
IoSlots(q, p)    == IF SlotsOf(q, p) = {} THEN Slot \cup {NoSlot} ELSE {Min(SlotsOf(q, p))}
CloseSlots(q, p) == IF SlotsOf(q, p) = {} THEN Slot ELSE {Max(SlotsOf(q, p))}

\* create_persistent_pipe, with the slots that alloc_ppipe_info does not fill.
Create(p, q, page) ==
  /\ Calls(p)
  /\ \/ /\ Cardinality(FreeFds(p)) < 2
        /\ Returns(-ENOMEM)
        /\ UNCHANGED <<files, refCount, slot, ring, live>>
     \/ /\ Cardinality(FreeFds(p)) >= 2
        /\ q \notin live /\ \A m \in Mode : refCount[End(q, m)] = 0
        /\ LET rfd == Min(FreeFds(p))
               wfd == Min(FreeFds(p) \ {rfd})
           IN  files' = [files EXCEPT ![p][rfd] = End(q, "read"), ![p][wfd] = End(q, "write")]
        /\ refCount' = [f \in File |-> IF f.pipe = q THEN 1 ELSE refCount[f]]
        /\ slot' = [slot EXCEPT ![q] =
                      [page EXCEPT ![0] = [valid |-> TRUE, pid |-> p, front |-> 0,
                                           empty |-> TRUE, open |-> Mode]]]
        /\ ring' = [ring EXCEPT ![q] = NewRing]
        /\ live' = live \cup {q}
        /\ Returns(0)
  /\ UNCHANGED <<state, kernel>>

(***************************************************************************)
(* do_file_read and ppipe_read: the process reads from its own front up to *)
(* the rear of the pipe, and is at the end when it has read the byte there.*)
(***************************************************************************)
Unread(s, r) == IF s.empty THEN 0 ELSE Span(s.front, r.rear)

\* Mutant: the end is noticed one byte late.
EndSeenLate(s, r, n) == s.empty \/ n > Unread(s, r)
AtEnd(s, r, n) == s.empty \/ n = Unread(s, r)

PPipeRead(q, i, count) ==
  \/ i = NoSlot /\ Returns(-EOTHERS) /\ UNCHANGED slot
  \/ i # NoSlot /\ "read" \notin slot[q][i].open /\ Returns(-EINVAL) /\ UNCHANGED slot
  \/ /\ i # NoSlot /\ "read" \in slot[q][i].open
     /\ LET s == slot[q][i]
            n == Smaller(count, Unread(s, ring[q]))
        IN  /\ ret' = [code  |-> n,
                       bytes |-> [k \in 1 .. n |-> ring[q].buf[(s.front + k - 1) % Size]]]
            /\ slot' = [slot EXCEPT ![q][i] = [s EXCEPT !.front = (@ + n) % Size,
                                                        !.empty = AtEnd(s, ring[q], n)]]

Read(p, fd, count) ==
  /\ Calls(p)
  /\ LET f == files[p][fd] IN
     \/ f = NoFile /\ Returns(-EINVAL) /\ UNCHANGED slot
     \/ f # NoFile /\ f.mode # "read" /\ Returns(-EACCES) /\ UNCHANGED slot
     \/ /\ f # NoFile /\ f.mode = "read"
        /\ \E i \in IoSlots(f.pipe, p) : PPipeRead(f.pipe, i, count)
  /\ UNCHANGED <<state, files, refCount, kernel, ring, live>>

(***************************************************************************)
(* do_file_write and ppipe_write.  A ring whose front alone is -1, which   *)
(* only flush can leave, never tests as full: the rear runs round.         *)
(***************************************************************************)
RunRound(r, data) ==
  [r EXCEPT !.rear = (@ + Len(data)) % Size,
            !.buf = [i \in Index |->
               LET hits == {k \in 1 .. Len(data) : (r.rear + k) % Size = i}
               IN  IF hits = {} THEN r.buf[i] ELSE data[Max(hits)]]]

Stored(r, data) == IF WellFormed(r) THEN Accepted(r, Len(data)) ELSE Len(data)
Filled(r, data) == IF WellFormed(r) THEN Push(r, data) ELSE RunRound(r, data)

(***************************************************************************)
(* What a write of at least one byte does after it: every slot with an     *)
(* open read end has something to read.  The loop does not stop at the     *)
(* end of the table.  Overrun gives the entries it finds in the buffer     *)
(* page: one whose valid and read_status words are not zero has its        *)
(* queue_empty word zeroed.  (The entry next to the table is made of front *)
(* and rear; it is passed over, as the word after the structure is 0 on    *)
(* the pages of PageContents.)                                             *)
(***************************************************************************)
WakeReaders(t) == [i \in Slot |-> [t[i] EXCEPT !.empty = @ /\ ~ (t[i].valid /\ "read" \in t[i].open)]]

PastTheTable(r) ==
  [r EXCEPT !.buf = [i \in Index |->
     IF \E e \in Overrun : e.empty = i /\ r.buf[e.valid] # 0 /\ r.buf[e.read] # 0
       THEN 0 ELSE r.buf[i]]]

PPipeWrite(q, i, data) ==
  \/ i = NoSlot /\ Returns(-EOTHERS) /\ UNCHANGED <<slot, ring>>
  \/ i # NoSlot /\ "write" \notin slot[q][i].open /\ Returns(-EINVAL) /\ UNCHANGED <<slot, ring>>
  \/ /\ i # NoSlot /\ "write" \in slot[q][i].open
     /\ Returns(Stored(ring[q], data))
     /\ IF Stored(ring[q], data) = 0
          THEN UNCHANGED <<slot, ring>>
          ELSE /\ ring' = [ring EXCEPT ![q] = PastTheTable(Filled(@, data))]
               /\ slot' = [slot EXCEPT ![q] = WakeReaders(@)]

Write(p, fd, data) ==
  /\ Calls(p)
  /\ LET f == files[p][fd] IN
     \/ f = NoFile /\ Returns(-EINVAL) /\ UNCHANGED <<slot, ring>>
     \/ f # NoFile /\ f.mode # "write" /\ Returns(-EACCES) /\ UNCHANGED <<slot, ring>>
     \/ /\ f # NoFile /\ f.mode = "write"
        /\ \E i \in IoSlots(f.pipe, p) : PPipeWrite(f.pipe, i, data)
  /\ UNCHANGED <<state, files, refCount, kernel, live>>

(***************************************************************************)
(* do_flush_ppipe: the bytes all readers have passed are given back.  The  *)
(* slots whose queue is empty do not hold it up.                           *)
(***************************************************************************)
Held(r)      == Span(r.front, r.rear)
HasReader(q) == \E i \in ValidSlots(q) : "read" \in slot[q][i].open
Passed(q)    == {(slot[q][i].front - ring[q].front + Size) % Size :
                   i \in {j \in ValidSlots(q) : ~ slot[q][j].empty}}
\* Mutant: the fastest reader decides.
ByTheFastest(q) == Min({Held(ring[q])} \cup {Max(Passed(q) \cup {0})})
Reclaimable(q)  == Min({Held(ring[q])} \cup Passed(q))

\* The bytes of the front survive the remainder of C: -1 % Size is -1.
Moved(front, n) == IF front + n < 0 THEN front + n ELSE (front + n) % Size
PartlyFlushed(r, n) == [r EXCEPT !.front = Moved(@, n)]

(***************************************************************************)
(* The loop that should reset the readers has the index of the loop before *)
(* it, so it writes past the table, where the structure has front and rear *)
(* of the pipe: front is set afterwards, rear is left at 1.                *)
(***************************************************************************)
FullyFlushed(r) == [r EXCEPT !.front = NoIndex, !.rear = 1]

FlushesAll(q) == ~ IsEmpty(ring[q]) /\ HasReader(q) /\ Reclaimable(q) = Held(ring[q])

Flush(p, fd) ==
  /\ Calls(p)
  /\ LET f == files[p][fd]
         q == f.pipe
     IN  \/ f = NoFile /\ Returns(-1) /\ UNCHANGED ring
         \/ /\ f # NoFile /\ (IsEmpty(ring[q]) \/ ~ HasReader(q))
            /\ Returns(0) /\ UNCHANGED ring
         \/ /\ f # NoFile /\ ~ IsEmpty(ring[q]) /\ HasReader(q)
            /\ Returns(Reclaimable(q))
            /\ ring' = [ring EXCEPT ![q] =
                 IF FlushesAll(q) THEN FullyFlushed(@)
                 ELSE PartlyFlushed(@, Reclaimable(q))]
  /\ UNCHANGED <<state, files, refCount, kernel, slot, live>>

(***************************************************************************)
(* ppipe_close and file_close: as for a pipe, and a process that closes    *)
(* its read end has nothing left to read.                                  *)
(***************************************************************************)
PPipeClose(p, f) ==
  \E i \in CloseSlots(f.pipe, p) :
    LET q    == f.pipe
        open == slot[q][i].open \ {f.mode}
        left == Cardinality(ValidSlots(q)) - (IF open = {} THEN 1 ELSE 0)
    IN  /\ slot' = [slot EXCEPT ![q][i] =
                      [valid |-> @.valid /\ open # {}, pid |-> @.pid, front |-> @.front,
                       empty |-> @.empty \/ f.mode = "read", open |-> open]]
        /\ live' = IF left = 0 THEN live \ {q} ELSE live

Close(p, fd) ==
  /\ Calls(p)
  /\ LET f == files[p][fd] IN
     \/ f = NoFile /\ Returns(-EINVAL) /\ UNCHANGED <<files, refCount, slot, live>>
     \/ /\ f # NoFile
        /\ files' = [files EXCEPT ![p][fd] = NoFile]
        /\ PPipeClose(p, f)
        /\ refCount' = Released(f)
        /\ Returns(0)
  /\ UNCHANGED <<state, kernel, ring>>

(***************************************************************************)
(* do_ppipe_fork: the child's slot becomes the parent's, its front         *)
(* included, except for the status of the other end.                       *)
(***************************************************************************)
\* The ends of the child's slot s after the parent's slot was copied into it;
\* mutant: the status of the other end is copied too.
WholeCopy(s, parent, m) == parent.open
EndsCopied(s, parent, m) == (parent.open \cap {m}) \cup (s.open \ {m})

PPipeFork(child, parent, f) ==
  LET q    == f.pipe
      par  == Last(SlotsOf(q, parent))
      mine == IF SlotsOf(q, child) = {} THEN Last(Slot \ ValidSlots(q)) ELSE Last(SlotsOf(q, child))
  IN  \/ /\ mine = NoSlot \/ par = NoSlot
         /\ kernel' = [kernel EXCEPT !.fd = @ + 1, !.ret = -EOTHERS]
         /\ UNCHANGED slot
      \/ /\ mine # NoSlot /\ par # NoSlot
         /\ kernel' = [kernel EXCEPT !.fd = @ + 1, !.ret = 0]
         /\ slot' = [slot EXCEPT ![q][mine] =
                       [slot[q][par] EXCEPT
                          !.pid  = child,
                          !.open = EndsCopied(slot[q][mine], slot[q][par], f.mode)]]

ForkBegin(p) == CopyContext(p) /\ UNCHANGED <<slot, ring, live>>

\* One turn of the loop of do_file_fork.
ForkFile ==
  /\ kernel.op = "fork" /\ kernel.fd < MaxOpenFiles
  /\ LET f == files[kernel.child][kernel.fd] IN
     \/ f = NoFile /\ kernel' = [kernel EXCEPT !.fd = @ + 1] /\ UNCHANGED <<refCount, slot>>
     \/ f # NoFile /\ refCount' = Raised(f) /\ PPipeFork(kernel.child, kernel.proc, f)
  /\ UNCHANGED <<state, files, ret, ring, live>>

ForkEnd == LeaveFork /\ UNCHANGED <<slot, ring, live>>

ExitBegin(p) == EnterExit(p) /\ UNCHANGED <<slot, ring, live>>

\* One turn of the loop of do_file_exit.
ExitFile ==
  /\ kernel.op = "exit" /\ kernel.fd < MaxOpenFiles
  /\ LET f == files[kernel.proc][kernel.fd] IN
     \/ f = NoFile /\ UNCHANGED <<files, refCount, slot, live>>
     \/ /\ f # NoFile
        /\ PPipeClose(kernel.proc, f)
        /\ refCount' = Released(f)
        /\ files' = [files EXCEPT ![kernel.proc][kernel.fd] = NoFile]
  /\ kernel' = [kernel EXCEPT !.fd = @ + 1]
  /\ UNCHANGED <<state, ret, ring>>

ExitEnd == FreeContext /\ UNCHANGED <<slot, ring, live>>

UserData == UNION {[1 .. n -> Byte] : n \in 0 .. MaxCount}

\* Everything but flush.
PlainNext ==
  \/ \E p \in Proc :
       \/ \E q \in Pipe, page \in PageContents : Create(p, q, page)
       \/ \E fd \in Fd, count \in 0 .. MaxCount : Read(p, fd, count)
       \/ \E fd \in Fd, data \in UserData : Write(p, fd, data)
       \/ \E fd \in Fd : Close(p, fd)
       \/ ForkBegin(p)
       \/ ExitBegin(p)
  \/ ForkFile \/ ForkEnd \/ ExitFile \/ ExitEnd

\* A flush of a pipe that somebody has not read to the end.
PartialFlush(p, fd) ==
  /\ files[p][fd] # NoFile => ~ FlushesAll(files[p][fd].pipe)
  /\ Flush(p, fd)

\* Programs that only flush so, and all programs.
PartialSpec == Init /\ [][PlainNext \/ \E p \in Proc, fd \in Fd : PartialFlush(p, fd)]_vars
Spec        == Init /\ [][PlainNext \/ \E p \in Proc, fd \in Fd : Flush(p, fd)]_vars

(***************************************************************************)
(* The table says who has which end open, one slot for each process: flush *)
(* waits for exactly the processes that can still read, and a write wakes  *)
(* them (ppipe.c:256-282, 517-529).                                        *)
(***************************************************************************)
SlotsMatchDescriptors ==
  \A q \in live :
    /\ \A i \in ValidSlots(q) :
         /\ slot[q][i].open = {m \in Mode : Holds(slot[q][i].pid, End(q, m))}
         /\ slot[q][i].open # {}
    /\ \A p \in Proc : (\E m \in Mode : Holds(p, End(q, m))) => Cardinality(SlotsOf(q, p)) = 1

(***************************************************************************)
(* No process's front is left behind by flush or overtaken by the rear:    *)
(* what a process has not read is the end of what the ring holds, and a    *)
(* process that has read all stands where the next byte will be written    *)
(* (ppipe.c:389-403, 487-510, 303).                                        *)
(***************************************************************************)
FrontsInRing ==
  \A q \in live : \A i \in ValidSlots(q) :
    LET s == slot[q][i] IN
    "read" \in s.open =>
      /\ ~ s.empty => ~ IsEmpty(ring[q]) /\ Unread(s, ring[q]) <= Length(ring[q])
      /\ s.empty => s.front = (ring[q].rear + 1) % Size

(***************************************************************************)
(* What the users of PPipeSpec see: a child from the end of its fork on, a *)
(* process until it calls exit.                                            *)
(***************************************************************************)
Visible == {p \in Proc : state[p] = "ready"
                         /\ ~ (kernel.op = "fork" /\ p = kernel.child)
                         /\ ~ (kernel.op = "exit" /\ p = kernel.proc)}
VisibleFiles == [p \in Proc |-> IF p \in Visible THEN files[p] ELSE [fd \in Fd |-> NoFile]]
Reads(p, q)  == \E fd \in Fd : VisibleFiles[p][fd] = End(q, "read")
KeptBytes    == [q \in Pipe |->
  IF \E p \in Proc, fd \in Fd, m \in Mode : VisibleFiles[p][fd] = End(q, m)
    THEN Bytes(ring[q]) ELSE <<>>]
UnreadCount  == [q \in Pipe |-> [p \in Proc |->
  IF Reads(p, q) THEN Unread(slot[q][Last(SlotsOf(q, p))], ring[q]) ELSE 0]]

Users == INSTANCE PPipeSpec WITH running <- Visible, files <- VisibleFiles,
                                 kept <- KeptBytes, unread <- UnreadCount

(***************************************************************************)
(* Slots, fronts and ring together are the persistent pipe of PPipeSpec:   *)
(* each process reads every byte written since it got the pipe, once and   *)
(* in order, and flush gives back only what every reader has read.         *)
(***************************************************************************)
ImplementsPPipeSpec == Users!Spec

(***************************************************************************)
(* A flush of everything leaves an empty pipe that all processes read from *)
(* its start: ppipe.c:290 has "empty ppipe", ppipe.c:294 "reset all        *)
(* process values".                                                        *)
(***************************************************************************)
FullFlushResets ==
  [][\A p \in Proc, fd \in Fd :
       (Flush(p, fd) /\ files[p][fd] # NoFile /\ FlushesAll(files[p][fd].pipe))
       => /\ IsEmpty(ring[files[p][fd].pipe])'
          /\ \A i \in ValidSlots(files[p][fd].pipe) :
               slot'[files[p][fd].pipe][i].front = 0]_vars

(***************************************************************************)
(* A write leaves in the ring what it took from the user: ppipe.c:419 has  *)
(* "Write the data from the provided buffer to the ppipe buffer."          *)
(***************************************************************************)
WritesUsersData ==
  [][\A p \in Proc, fd \in Fd, data \in UserData :
       (Write(p, fd, data) /\ ret'.code > 0)
       => LET q == files[p][fd].pipe
          IN  Bytes(ring'[q]) = Bytes(ring[q]) \o Prefix(data, ret'.code)]_vars
===============================================================================
