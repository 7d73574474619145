--------------------------------- MODULE Pipe ---------------------------------
(***************************************************************************)
(* Pipes as pipe.c implements them on the file layer of file.c: every pipe *)
(* has a table of slots, one for each process that has an end of it open,  *)
(* and a ring of bytes that all of them share.                             *)
(***************************************************************************)
EXTENDS Files, Ring

CONSTANTS MaxPipeProc,   \* MAX_PIPE_PROC
          PageContents,  \* what a page holds, read as a slot table, when it is handed out
          MaxCount,      \* bound on the count argument of read and write
          Fill           \* the bytes of a buffer page before the first write

Slot      == 0 .. (MaxPipeProc - 1)
NoSlot    == -1
\* `open' is the set of ends whose status (read_status, write_status) is 1.
SlotTable == [Slot -> [valid : BOOLEAN, pid : Nat, open : SUBSET Mode]]

ASSUME PipeAssumption ==
  /\ MaxPipeProc \in Nat \ {0}
  /\ PageContents \subseteq SlotTable
  /\ MaxCount \in Nat /\ Fill \in Byte

VARIABLES slot,   \* slot[q]: pipe_per_proc of pipe q
          ring,   \* ring[q]: pipe_global of pipe q
          live    \* the pipes whose pages are allocated

vars == <<state, files, refCount, kernel, ret, slot, ring, live>>

TypeOK ==
  /\ state \in [Proc -> {"unused", "ready"}]
  /\ files \in [Proc -> [Fd -> File \cup {NoFile}]]
  /\ refCount \in [File -> Nat]
  /\ kernel \in KernelLoops
  /\ ret \in [code : Int, bytes : Seq(Byte)]
  /\ slot \in [Pipe -> SlotTable]
  /\ ring \in [Pipe -> RingType]
  /\ live \in SUBSET Pipe

NewRing  == [front |-> NoIndex, rear |-> NoIndex, buf |-> [i \in Index |-> Fill]]
NoTable  == [i \in Slot |-> [valid |-> FALSE, pid |-> 0, open |-> {}]]

Init ==
  /\ FilesInit
  /\ slot = [q \in Pipe |-> NoTable]
  /\ ring = [q \in Pipe |-> NewRing]
  /\ live = {}

(***************************************************************************)
(* The searches of a slot table.                                           *)
(***************************************************************************)
ValidSlots(q) == {i \in Slot : slot[q][i].valid}
FreeSlots(q)  == Slot \ ValidSlots(q)
SlotsOf(q, p) == {i \in ValidSlots(q) : slot[q][i].pid = p}
First(S)      == IF S = {} THEN NoSlot ELSE Min(S)
Last(S)       == IF S = {} THEN NoSlot ELSE Max(S)

\* pipe_read and pipe_close leave process_index uninitialised when no slot matches.
ReadSlots(q, p)  == IF SlotsOf(q, p) = {} THEN Slot \cup {NoSlot} ELSE {Min(SlotsOf(q, p))}
CloseSlots(q, p) == IF SlotsOf(q, p) = {} THEN Slot ELSE {Max(SlotsOf(q, p))}

(***************************************************************************)
(* create_pipe: the two lowest free descriptors, two file objects, and a   *)
(* pipe whose slot 0 is the caller's.  The page keeps what it held in the  *)
(* other slots.  Pipe q stands for pages no descriptor refers to.          *)
(***************************************************************************)
Create(p, q, page) ==
  /\ Calls(p)
  /\ \/ /\ Cardinality(FreeFds(p)) < 2
        /\ Returns(-ENOMEM)
        /\ UNCHANGED <<files, refCount, slot, ring, live>>
     \/ /\ Cardinality(FreeFds(p)) >= 2
        /\ q \notin live /\ \A m \in Mode : refCount[End(q, m)] = 0
        /\ LET rfd == Min(FreeFds(p))
               wfd == Min(FreeFds(p) \ {rfd})
           IN  files' = [files EXCEPT ![p][rfd] = End(q, "read"), ![p][wfd] = End(q, "write")]
        /\ refCount' = [f \in File |-> IF f.pipe = q THEN 1 ELSE refCount[f]]
        /\ slot' = [slot EXCEPT ![q] =
                      [page EXCEPT ![0] = [valid |-> TRUE, pid |-> p, open |-> Mode]]]
        /\ ring' = [ring EXCEPT ![q] = NewRing]
        /\ live' = live \cup {q}
        /\ Returns(0)
  /\ UNCHANGED <<state, kernel>>

(***************************************************************************)
(* do_file_read and pipe_read.  okBuf is the verdict of is_valid_mem_range *)
(* on the user's buffer.                                                   *)
(***************************************************************************)
PipeRead(q, i, count, okBuf) ==
  \/ /\ i = NoSlot
     /\ Returns(-EOTHERS) /\ UNCHANGED ring
  \/ /\ i # NoSlot /\ "read" \notin slot[q][i].open
     /\ Returns(-EINVAL) /\ UNCHANGED ring
  \/ /\ i # NoSlot /\ "read" \in slot[q][i].open /\ ~ okBuf
     /\ Returns(-EBADMEM) /\ UNCHANGED ring
  \/ /\ i # NoSlot /\ "read" \in slot[q][i].open /\ okBuf
     /\ ret' = [code |-> Delivered(ring[q], count), bytes |-> Prefix(Bytes(ring[q]), count)]
     /\ ring' = [ring EXCEPT ![q] = Pop(@, count)]

Read(p, fd, count, okBuf) ==
  /\ Calls(p)
  /\ LET f == files[p][fd] IN
     \/ f = NoFile /\ Returns(-EINVAL) /\ UNCHANGED ring
     \/ f # NoFile /\ f.mode # "read" /\ Returns(-EACCES) /\ UNCHANGED ring
     \/ /\ f # NoFile /\ f.mode = "read"
        /\ \E i \in ReadSlots(f.pipe, p) : PipeRead(f.pipe, i, count, okBuf)
  /\ UNCHANGED <<state, files, refCount, kernel, slot, live>>

(***************************************************************************)
(* do_file_write and pipe_write.                                           *)
(***************************************************************************)
PipeWrite(q, i, data, okBuf) ==
  \/ /\ i = NoSlot
     /\ Returns(-EOTHERS) /\ UNCHANGED ring
  \/ /\ i # NoSlot /\ "write" \notin slot[q][i].open
     /\ Returns(-EINVAL) /\ UNCHANGED ring
  \/ /\ i # NoSlot /\ "write" \in slot[q][i].open /\ ~ okBuf
     /\ Returns(-EBADMEM) /\ UNCHANGED ring
  \/ /\ i # NoSlot /\ "write" \in slot[q][i].open /\ okBuf
     /\ Returns(Accepted(ring[q], Len(data)))
     /\ ring' = [ring EXCEPT ![q] = Push(@, data)]

Write(p, fd, data, okBuf) ==
  /\ Calls(p)
  /\ LET f == files[p][fd] IN
     \/ f = NoFile /\ Returns(-EINVAL) /\ UNCHANGED ring
     \/ f # NoFile /\ f.mode # "write" /\ Returns(-EACCES) /\ UNCHANGED ring
     \/ /\ f # NoFile /\ f.mode = "write"
        /\ PipeWrite(f.pipe, First(SlotsOf(f.pipe, p)), data, okBuf)
  /\ UNCHANGED <<state, files, refCount, kernel, slot, live>>

(***************************************************************************)
(* pipe_close and file_close, called for file f by process p: the end's    *)
(* status is cleared, a slot with neither end open is freed, and when      *)
(* num_process has come down to 0 the pages are.                           *)
(***************************************************************************)
\* The ends a slot keeps open; mutant: the wrong status is cleared.
OtherEndCleared(s, m) == s.open \cap {m}
EndsLeft(s, m) == s.open \ {m}

\* num_process after the close; mutant: taken down by every close.
AlwaysOneLess(q, open) == Cardinality(ValidSlots(q)) - 1
ProcessesLeft(q, open) == Cardinality(ValidSlots(q)) - (IF open = {} THEN 1 ELSE 0)

PipeClose(p, f) ==
  \E i \in CloseSlots(f.pipe, p) :
    LET q    == f.pipe
        open == EndsLeft(slot[q][i], f.mode)
    IN  /\ slot' = [slot EXCEPT ![q][i] = [valid |-> @.valid /\ open # {},
                                           pid |-> @.pid, open |-> open]]
        /\ live' = IF ProcessesLeft(q, open) = 0 THEN live \ {q} ELSE live

Close(p, fd) ==
  /\ Calls(p)
  /\ LET f == files[p][fd] IN
     \/ /\ f = NoFile
        /\ Returns(-EINVAL)
        /\ UNCHANGED <<files, refCount, slot, live>>
     \/ /\ f # NoFile
        /\ files' = [files EXCEPT ![p][fd] = NoFile]
        /\ PipeClose(p, f)
        /\ refCount' = Released(f)
        /\ Returns(0)
  /\ UNCHANGED <<state, kernel, ring>>

(***************************************************************************)
(* fd_dup: the lowest free descriptor from DupBase on.                     *)
(***************************************************************************)
Dup(p, oldfd) ==
  /\ Calls(p)
  /\ LET f    == files[p][oldfd]
         free == {fd \in FreeFds(p) : fd >= DupBase}
     IN  \/ /\ f = NoFile \/ free = {}
            /\ Returns(-EINVAL)
            /\ UNCHANGED <<files, refCount>>
         \/ /\ f # NoFile /\ free # {}
            /\ files' = [files EXCEPT ![p][Min(free)] = f]
            /\ refCount' = Raised(f)
            /\ Returns(Min(free))
  /\ UNCHANGED <<state, kernel, slot, ring, live>>

(***************************************************************************)
(* fd_dup2: whatever newfd was is closed first.                            *)
(***************************************************************************)
\* Mutant: the count of the file that newfd was is not taken down.
OnlyRaised(f, old) == Raised(f)
Moved(f, old) == [g \in File |-> refCount[g] + (IF g = f THEN 1 ELSE 0) - (IF g = old THEN 1 ELSE 0)]

Dup2(p, oldfd, newfd) ==
  /\ Calls(p)
  /\ LET f   == files[p][oldfd]
         old == files[p][newfd]
     IN  \/ /\ f = NoFile
            /\ Returns(-EINVAL)
            /\ UNCHANGED <<files, refCount, slot, live>>
         \/ /\ f # NoFile /\ oldfd = newfd
            /\ Returns(newfd)
            /\ UNCHANGED <<files, refCount, slot, live>>
         \/ /\ f # NoFile /\ oldfd # newfd
            /\ IF old = NoFile THEN UNCHANGED <<slot, live>> ELSE PipeClose(p, old)
            /\ files' = [files EXCEPT ![p][newfd] = f]
            /\ refCount' = Moved(f, old)
            /\ Returns(newfd)
  /\ UNCHANGED <<state, kernel, ring>>

ForkBegin(p) == CopyContext(p) /\ UNCHANGED <<slot, ring, live>>

(***************************************************************************)
(* do_pipe_fork: the child takes over the parent's status of one end, in   *)
(* the slot it already has or else in the last free one.                   *)
(***************************************************************************)
\* Mutant: the second call does not find the slot of the first.
AlwaysFreeSlot(q, child) == Last(FreeSlots(q))
ChildSlot(q, child) == IF SlotsOf(q, child) = {} THEN Last(FreeSlots(q)) ELSE Last(SlotsOf(q, child))

PipeFork(child, parent, f) ==
  LET q    == f.pipe
      par  == Last(SlotsOf(q, parent))
      mine == ChildSlot(q, child)
  IN  \/ /\ mine = NoSlot \/ par = NoSlot
         /\ kernel' = [kernel EXCEPT !.fd = @ + 1, !.ret = -EOTHERS]
         /\ UNCHANGED slot
      \/ /\ mine # NoSlot /\ par # NoSlot
         /\ kernel' = [kernel EXCEPT !.fd = @ + 1, !.ret = 0]
         /\ slot' = [slot EXCEPT ![q][mine] =
                       [valid |-> TRUE, pid |-> child,
                        open |-> (@.open \ {f.mode}) \cup (slot[q][par].open \cap {f.mode})]]

\* One turn of the loop of do_file_fork: raise the reference count, call the handler.
ForkFile ==
  /\ kernel.op = "fork" /\ kernel.fd < MaxOpenFiles
  /\ LET f == files[kernel.child][kernel.fd] IN
     \/ /\ f = NoFile
        /\ kernel' = [kernel EXCEPT !.fd = @ + 1]
        /\ UNCHANGED <<refCount, slot>>
     \/ /\ f # NoFile
        /\ refCount' = Raised(f)
        /\ PipeFork(kernel.child, kernel.proc, f)
  /\ UNCHANGED <<state, files, ret, ring, live>>

ForkEnd == LeaveFork /\ UNCHANGED <<slot, ring, live>>

ExitBegin(p) == EnterExit(p) /\ UNCHANGED <<slot, ring, live>>

\* One turn of the loop of do_file_exit.
ExitFile ==
  /\ kernel.op = "exit" /\ kernel.fd < MaxOpenFiles
  /\ LET f == files[kernel.proc][kernel.fd] IN
     \/ /\ f = NoFile
        /\ UNCHANGED <<files, refCount, slot, live>>
     \/ /\ f # NoFile
        /\ PipeClose(kernel.proc, f)
        /\ refCount' = Released(f)
        /\ files' = [files EXCEPT ![kernel.proc][kernel.fd] = NoFile]
  /\ kernel' = [kernel EXCEPT !.fd = @ + 1]
  /\ UNCHANGED <<state, ret, ring>>

ExitEnd == FreeContext /\ UNCHANGED <<slot, ring, live>>

UserData == UNION {[1 .. n -> Byte] : n \in 0 .. MaxCount}

KernelStep == ForkFile \/ ForkEnd \/ ExitFile \/ ExitEnd

\* Every call but dup and dup2.
PlainNext ==
  \/ \E p \in Proc :
       \/ \E q \in Pipe, page \in PageContents : Create(p, q, page)
       \/ \E fd \in Fd, count \in 0 .. MaxCount, okBuf \in BOOLEAN : Read(p, fd, count, okBuf)
       \/ \E fd \in Fd, data \in UserData, okBuf \in BOOLEAN : Write(p, fd, data, okBuf)
       \/ \E fd \in Fd : Close(p, fd)
       \/ ForkBegin(p)
       \/ ExitBegin(p)
  \/ KernelStep

Next ==
  \/ PlainNext
  \/ \E p \in Proc, oldfd \in Fd : Dup(p, oldfd)
  \/ \E p \in Proc, oldfd, newfd \in Fd : Dup2(p, oldfd, newfd)

\* Programs that give a pipe end no second descriptor in the same process,
\* and all programs.
PlainSpec == Init /\ [][PlainNext]_vars
Spec      == Init /\ [][Next]_vars

(***************************************************************************)
(* A process's slot tells exactly which ends it has open, and it has one   *)
(* slot: otherwise pipe_read and pipe_write refuse an open descriptor, or  *)
(* pipe_close works on a slot of another process (pipe.c:171-205).         *)
(***************************************************************************)
SlotsMatchDescriptors ==
  \A q \in live :
    /\ \A i \in ValidSlots(q) :
         /\ slot[q][i].open = {m \in Mode : Holds(slot[q][i].pid, End(q, m))}
         /\ slot[q][i].open # {}
    /\ \A p \in Proc : (\E m \in Mode : Holds(p, End(q, m))) => Cardinality(SlotsOf(q, p)) = 1

(***************************************************************************)
(* free_pipe runs when the last descriptor of the pipe goes, in whatever   *)
(* process, and not before (pipe.c:200-208).                               *)
(***************************************************************************)
LiveWhileOpen ==
  \A q \in Pipe : q \in live <=> \E p \in Proc, m \in Mode : Holds(p, End(q, m))

(***************************************************************************)
(* A file object counts the descriptors that refer to it, in all           *)
(* processes, through fork, dup, dup2, close and exit (file.c:41-118,      *)
(* 298-350).                                                               *)
(***************************************************************************)
CountsMatchDescriptors == \A f \in File : refCount[f] = Cardinality(Refs(f))

\* No fork handler runs out of slots or misses the parent's (pipe.c:112-114).
ForkHandlersSucceed == kernel.ret = 0

(***************************************************************************)
(* read returns -EINVAL only for a descriptor that is closed: pipe.c:287   *)
(* has "-EINVAL: If read end is already closed."                           *)
(***************************************************************************)
ReadRefusedOnlyWhenClosed ==
  [][\A p \in Proc, fd \in Fd :
       /\ \E count \in 0 .. MaxCount, okBuf \in BOOLEAN : Read(p, fd, count, okBuf)
       /\ ret'.code = -EINVAL
       => files[p][fd] = NoFile]_vars

(***************************************************************************)
(* The processes and descriptors the users of PipeSpec see: a child from   *)
(* the end of its fork on, a process until it calls exit.                  *)
(***************************************************************************)
Visible == {p \in Proc : state[p] = "ready"
                         /\ ~ (kernel.op = "fork" /\ p = kernel.child)
                         /\ ~ (kernel.op = "exit" /\ p = kernel.proc)}
VisibleFiles == [p \in Proc |-> IF p \in Visible THEN files[p] ELSE [fd \in Fd |-> NoFile]]
VisibleQueue == [q \in Pipe |->
  IF \E p \in Visible, fd \in Fd, m \in Mode : files[p][fd] = End(q, m)
    THEN Bytes(ring[q]) ELSE <<>>]

Users == INSTANCE PipeSpec WITH running <- Visible, files <- VisibleFiles, queue <- VisibleQueue

(***************************************************************************)
(* Slots, reference counts and the ring together give the processes the    *)
(* pipes of PipeSpec: every open descriptor is served, bytes arrive once   *)
(* and in order whichever processes write and read them, and a pipe keeps  *)
(* its bytes until its last descriptor goes.                               *)
(***************************************************************************)
ImplementsPipeSpec == Users!Spec
===============================================================================
