------------------------------- MODULE OpenFiles -------------------------------
(***************************************************************************)
(* The rest of file.c: standard IO and regular files, which share the      *)
(* descriptor table with the pipes of module Pipe.  A pipe descriptor      *)
(* behaves as it does there; a call on any other one is an action of this  *)
(* module, and the calls that name two descriptors (dup2, sendfile) may    *)
(* mix them.                                                               *)
(*                                                                         *)
(* The inode layer is an object file (fs.o); it is modelled from the       *)
(* interface fs.h and from how file.c uses it.                             *)
(***************************************************************************)
EXTENDS Pipe

CONSTANTS Object,    \* the file objects memory has room for, pipe ends aside
          NoObject,  \* what a free page of file objects holds
          Inode,     \* the inodes
          NoInode,   \* the inode field of a standard IO file
          MaxSize    \* FILE_SIZE

\* STDIN, STDOUT and STDERR are the types 0, 1 and 2, and the descriptors
\* create_context opens them at.
StdType    == 0 .. (DupBase - 1)
StdMode(t) == IF t = 0 THEN {"read"} ELSE {"write"}
Absent     == -1
NoOffset   == -2   \* sendfile's offset is NULL
Offset     == -1 .. MaxSize
Count      == 0 .. MaxSize

ObjectType == [mode : SUBSET Mode, inode : Inode \cup {NoInode}, offp : 0 .. MaxSize]

ASSUME OpenFilesAssumption ==
  /\ DupBase <= MaxOpenFiles
  /\ NoFile \notin Object /\ Object \cap File = {}
  /\ NoInode \notin Inode
  /\ NoObject \notin ObjectType
  /\ MaxSize \in Nat

VARIABLES object,    \* object[o]: the file object o
          objCount,  \* its ref_count
          size       \* file_size of each inode, Absent before it is created

objVars == <<object, objCount, size>>
allVars == <<vars, objVars>>

OpenFilesTypeOK ==
  /\ files \in [Proc -> [Fd -> File \cup Object \cup {NoFile}]]
  /\ object \in [Object -> ObjectType \cup {NoObject}]
  /\ objCount \in [Object -> Nat]
  /\ size \in [Inode -> Offset]

StdFile(t)        == [mode |-> StdMode(t), inode |-> NoInode, offp |-> 0]
RegularFile(n, m) == [mode |-> m, inode |-> n, offp |-> 0]
IsPipe(f)    == f \in File
IsObject(f)  == f \in Object
IsRegular(f) == IsObject(f) /\ object[f].inode \in Inode
ModeOf(f)    == IF IsPipe(f) THEN {f.mode} ELSE object[f].mode
FreeObjects  == {o \in Object : objCount[o] = 0}

\* create_context opens the three standard files of the first process.
OpenInit ==
  /\ state = [p \in Proc |-> IF p = InitProc THEN "ready" ELSE "unused"]
  /\ refCount = [f \in File |-> 0]
  /\ kernel = UserMode
  /\ ret = [code |-> 0, bytes |-> <<>>]
  /\ slot = [q \in Pipe |-> NoTable]
  /\ ring = [q \in Pipe |-> NewRing]
  /\ live = {}
  /\ \E std \in [StdType -> Object] :
       /\ \A s, t \in StdType : std[s] = std[t] => s = t
       /\ files = [p \in Proc |-> [fd \in Fd |->
                     IF p = InitProc /\ fd \in StdType THEN std[fd] ELSE NoFile]]
       /\ objCount = [o \in Object |-> Cardinality({t \in StdType : std[t] = o})]
       /\ object = [o \in Object |-> IF \E t \in StdType : std[t] = o
                                       THEN StdFile(CHOOSE t \in StdType : std[t] = o)
                                       ELSE NoObject]
  /\ size = [n \in Inode |-> Absent]

(***************************************************************************)
(* alloc_file takes a page for the object; with none left it writes through *)
(* a null pointer, so programs are taken to stay within memory.            *)
(***************************************************************************)
Install(p, fd, o, file) ==
  /\ o \in FreeObjects
  /\ object' = [object EXCEPT ![o] = file]
  /\ objCount' = [objCount EXCEPT ![o] = 1]
  /\ files' = [files EXCEPT ![p][fd] = o]

\* std_close: the page of an object goes with its last descriptor.
CloseObject(o) ==
  /\ objCount' = [objCount EXCEPT ![o] = @ - 1]
  /\ object' = [object EXCEPT ![o] = IF objCount[o] = 1 THEN NoObject ELSE @]

\* One more reference to file f, a pipe end or an object.
Share(f) ==
  \/ IsPipe(f) /\ refCount' = Raised(f) /\ UNCHANGED objCount
  \/ IsObject(f) /\ objCount' = [objCount EXCEPT ![f] = @ + 1] /\ UNCHANGED refCount

(***************************************************************************)
(* do_file_open of a standard name, open_standard_IO: descriptor t, or     *)
(* when that is taken the lowest free one from 3 on, which then shares     *)
(* whatever file descriptor t has.  The search for it has no end, and      *)
(* leaves the table when no descriptor is free: such calls are left out.   *)
(***************************************************************************)
OpenStandardIO(p, t) ==
  /\ Calls(p)
  /\ LET f    == files[p][t]
         free == {fd \in FreeFds(p) : fd >= DupBase}
     IN  \/ /\ f = NoFile
            /\ \E o \in Object : Install(p, t, o, StdFile(t))
            /\ Returns(t)
            /\ UNCHANGED refCount
         \/ /\ f # NoFile /\ free # {}
            /\ Share(f)
            /\ files' = [files EXCEPT ![p][Min(free)] = f]
            /\ Returns(Min(free))
            /\ UNCHANGED object
  /\ UNCHANGED <<state, kernel, slot, ring, live, size>>

(***************************************************************************)
(* do_regular_file_open.  okMode is the verdict on the inode's mode;       *)
(* create_inode may find no room.  A file created for an open that then    *)
(* fails stays.                                                            *)
(***************************************************************************)
OpenRegular(p, n, create, mode, okMode) ==
  /\ Calls(p)
  /\ LET free == {fd \in FreeFds(p) : fd >= DupBase} IN
     \/ /\ size[n] = Absent
        /\ Returns(IF create THEN -ENOMEM ELSE -EINVAL)
        /\ UNCHANGED <<files, objVars>>
     \/ /\ size[n] # Absent \/ create
        /\ size' = [size EXCEPT ![n] = IF @ = Absent THEN 0 ELSE @]
        /\ \/ /\ ~ okMode
              /\ Returns(-EACCES)
              /\ UNCHANGED <<files, object, objCount>>
           \/ /\ okMode /\ free = {}
              /\ Returns(-ENOMEM)
              /\ UNCHANGED <<files, object, objCount>>
           \/ /\ okMode /\ free # {}
              /\ \E o \in Object : Install(p, Min(free), o, RegularFile(n, mode))
              /\ Returns(Min(free))
  /\ UNCHANGED <<state, refCount, kernel, slot, ring, live>>

(***************************************************************************)
(* The inode layer: what a read at offset pos returns, whether a write     *)
(* fits, and the size it leaves.                                           *)
(***************************************************************************)
Left(n, pos)            == IF size[n] > pos THEN size[n] - pos ELSE 0
ReadSize(n, pos, count) == IF count <= Left(n, pos) THEN count ELSE Left(n, pos)
Fits(pos, count)        == pos + count <= MaxSize
SizeAfter(n, pos, count) == [size EXCEPT ![n] = IF pos + count > @ THEN pos + count ELSE @]

AtOffset(o, pos) == [object EXCEPT ![o].offp = pos]

(***************************************************************************)
(* do_file_read and do_read_regular; kbd_read waits for a key.             *)
(***************************************************************************)
ReadObject(p, fd, count) ==
  /\ Calls(p) /\ IsObject(files[p][fd])
  /\ LET o == files[p][fd] IN
     \/ /\ "read" \notin ModeOf(o)
        /\ Returns(-EACCES) /\ UNCHANGED object
     \/ /\ "read" \in ModeOf(o) /\ ~ IsRegular(o)
        /\ Returns(1) /\ UNCHANGED object
     \/ /\ "read" \in ModeOf(o) /\ IsRegular(o)
        /\ LET n == ReadSize(object[o].inode, object[o].offp, count) IN
           /\ object' = AtOffset(o, object[o].offp + n)
           /\ Returns(n)
  /\ UNCHANGED <<state, files, refCount, kernel, slot, ring, live, objCount, size>>

(***************************************************************************)
(* do_file_write and do_write_regular.  A write that does not fit in the   *)
(* file is refused whole.                                                  *)
(***************************************************************************)
WriteObject(p, fd, count) ==
  /\ Calls(p) /\ IsObject(files[p][fd])
  /\ LET o   == files[p][fd]
         pos == object[o].offp
     IN  \/ /\ "write" \notin ModeOf(o)
            /\ Returns(-EACCES) /\ UNCHANGED <<object, size>>
         \/ /\ "write" \in ModeOf(o) /\ ~ IsRegular(o)
            /\ Returns(count) /\ UNCHANGED <<object, size>>
         \/ /\ "write" \in ModeOf(o) /\ IsRegular(o) /\ ~ Fits(pos, count)
            /\ Returns(-EINVAL) /\ UNCHANGED <<object, size>>
         \/ /\ "write" \in ModeOf(o) /\ IsRegular(o) /\ Fits(pos, count)
            /\ object' = AtOffset(o, pos + count)
            /\ size' = SizeAfter(object[o].inode, pos, count)
            /\ Returns(count)
  /\ UNCHANGED <<state, files, refCount, kernel, slot, ring, live, objCount>>

(***************************************************************************)
(* do_lseek and do_lseek_regular: SEEK_END counts from the offset as       *)
(* SEEK_CUR does.                                                          *)
(***************************************************************************)
Whence == {"SEEK_SET", "SEEK_CUR", "SEEK_END"}
Target(o, off, whence) == IF whence = "SEEK_SET" THEN off ELSE off + object[o].offp

\* Mutant: no upper bound.
NotBelow(o, pos)   == pos >= 0
InFileSeek(o, pos) == pos >= 0 /\ pos <= size[object[o].inode]

Lseek(p, fd, off, whence) ==
  /\ Calls(p)
  /\ LET o   == files[p][fd]
         pos == Target(o, off, whence)
     IN  \/ /\ ~ IsRegular(o)
            /\ Returns(-EINVAL) /\ UNCHANGED object
         \/ /\ IsRegular(o) /\ ~ InFileSeek(o, pos)
            /\ Returns(-EINVAL) /\ UNCHANGED object
         \/ /\ IsRegular(o) /\ InFileSeek(o, pos)
            /\ object' = AtOffset(o, pos)
            /\ Returns(pos)
  /\ UNCHANGED <<state, files, refCount, kernel, slot, ring, live, objCount, size>>

(***************************************************************************)
(* do_sendfile.  First the read, at the given offset or at the file's own. *)
(* A pipe or the keyboard has no lseek to call for an offset: such calls   *)
(* are left out.                                                           *)
(***************************************************************************)
MaySend(i, off) == IsRegular(i) \/ off = NoOffset

\* The offset of the file read from, after the read: with an offset argument it is
\* put back; mutant: it is left behind what was read.
LeftBehind(i, off, count) ==
  LET start == IF off = NoOffset THEN object[i].offp ELSE off
  IN  start + ReadSize(object[i].inode, start, count)
InOffset(i, off, count) ==
  IF off = NoOffset
    THEN object[i].offp + ReadSize(object[i].inode, object[i].offp, count)
    ELSE object[i].offp

AfterRead(i, off, count) == IF IsRegular(i) THEN AtOffset(i, InOffset(i, off, count)) ELSE object

\* Then the write of count bytes, however many were read.  pipe_read and
\* pipe_write refuse the kernel's buffer, as no process may use its address.
SendTo(p, f, read, count) ==
  \/ f = NoFile /\ Returns(-EINVAL) /\ object' = read /\ UNCHANGED size
  \/ /\ f # NoFile /\ "write" \notin ModeOf(f)
     /\ Returns(-EACCES) /\ object' = read /\ UNCHANGED size
  \/ /\ IsPipe(f) /\ "write" \in ModeOf(f)
     /\ PipeWrite(f.pipe, First(SlotsOf(f.pipe, p)), <<>>, FALSE)
     /\ object' = read /\ UNCHANGED size
  \/ /\ IsObject(f) /\ "write" \in ModeOf(f) /\ ~ IsRegular(f)
     /\ Returns(count) /\ object' = read /\ UNCHANGED size
  \/ /\ IsRegular(f) /\ "write" \in ModeOf(f)
     /\ LET pos == read[f].offp IN
        \/ /\ ~ Fits(pos, count)
           /\ Returns(-EINVAL) /\ object' = read /\ UNCHANGED size
        \/ /\ Fits(pos, count)
           /\ object' = [read EXCEPT ![f].offp = pos + count]
           /\ size' = SizeAfter(object[f].inode, pos, count)
           /\ Returns(count)

Sendfile(p, outfd, infd, off, count) ==
  /\ Calls(p)
  /\ LET i == files[p][infd] IN
     \/ i = NoFile /\ Returns(-EINVAL) /\ UNCHANGED <<object, size>>
     \/ /\ i # NoFile /\ "read" \notin ModeOf(i)
        /\ Returns(-EACCES) /\ UNCHANGED <<object, size>>
     \/ /\ i # NoFile /\ "read" \in ModeOf(i) /\ MaySend(i, off)
        /\ off # NoOffset /\ ~ InFileSeek(i, off)
        /\ Returns(-EINVAL) /\ UNCHANGED <<object, size>>
     \/ /\ i # NoFile /\ "read" \in ModeOf(i) /\ MaySend(i, off)
        /\ off = NoOffset \/ InFileSeek(i, off)
        /\ SendTo(p, files[p][outfd], AfterRead(i, off, count), count)
  /\ UNCHANGED <<state, files, refCount, kernel, slot, ring, live, objCount>>

(***************************************************************************)
(* The calls of Pipe, on descriptors of pipes.                             *)
(***************************************************************************)
OnPipe(f) == f \in File \cup {NoFile}

PipeCall(p) ==
  /\ \/ \E q \in Pipe, page \in PageContents : Create(p, q, page)
     \/ \E fd \in Fd, count \in 0 .. MaxCount, okBuf \in BOOLEAN :
          OnPipe(files[p][fd]) /\ Read(p, fd, count, okBuf)
     \/ \E fd \in Fd, data \in UserData, okBuf \in BOOLEAN :
          OnPipe(files[p][fd]) /\ Write(p, fd, data, okBuf)
     \/ \E fd \in Fd : OnPipe(files[p][fd]) /\ Close(p, fd)
     \/ \E fd \in Fd : OnPipe(files[p][fd]) /\ Dup(p, fd)
     \/ \E oldfd, newfd \in Fd :
          OnPipe(files[p][oldfd]) /\ OnPipe(files[p][newfd]) /\ Dup2(p, oldfd, newfd)
     \/ ForkBegin(p)
     \/ ExitBegin(p)
  /\ UNCHANGED objVars

PipeKernelStep ==
  /\ \/ kernel.fd < MaxOpenFiles /\ OnPipe(files[kernel.child][kernel.fd]) /\ ForkFile
     \/ kernel.fd < MaxOpenFiles /\ OnPipe(files[kernel.proc][kernel.fd]) /\ ExitFile
     \/ ForkEnd
     \/ ExitEnd
  /\ UNCHANGED objVars

(***************************************************************************)
(* do_close, fd_dup and fd_dup2 when standard IO or a regular file is      *)
(* concerned.                                                              *)
(***************************************************************************)
CloseOther(p, fd) ==
  /\ Calls(p) /\ IsObject(files[p][fd])
  /\ files' = [files EXCEPT ![p][fd] = NoFile]
  /\ CloseObject(files[p][fd])
  /\ Returns(0)
  /\ UNCHANGED <<state, refCount, kernel, slot, ring, live, size>>

DupOther(p, oldfd) ==
  /\ Calls(p) /\ IsObject(files[p][oldfd])
  /\ LET free == {fd \in FreeFds(p) : fd >= DupBase} IN
     \/ free = {} /\ Returns(-EINVAL) /\ UNCHANGED <<files, objCount>>
     \/ /\ free # {}
        /\ files' = [files EXCEPT ![p][Min(free)] = files[p][oldfd]]
        /\ objCount' = [objCount EXCEPT ![files[p][oldfd]] = @ + 1]
        /\ Returns(Min(free))
  /\ UNCHANGED <<state, refCount, kernel, slot, ring, live, object, size>>

\* The counts when a descriptor of file old becomes one of file f.
\* Mutant: the file that newfd was keeps its count.
KeptCount(f, old) == [o \in Object |-> objCount[o] + (IF o = f THEN 1 ELSE 0)]
MovedCount(f, old) ==
  [o \in Object |-> (objCount[o] + (IF o = f THEN 1 ELSE 0)) - (IF o = old THEN 1 ELSE 0)]

\* newfd's file is closed before oldfd's is counted; when they are the same, oldfd keeps it.
Dup2Other(p, oldfd, newfd) ==
  /\ Calls(p) /\ (IsObject(files[p][oldfd]) \/ IsObject(files[p][newfd]))
  /\ LET f   == files[p][oldfd]
         old == files[p][newfd]
     IN  \/ /\ f = NoFile \/ oldfd = newfd
            /\ Returns(IF f = NoFile THEN -EINVAL ELSE newfd)
            /\ UNCHANGED <<files, refCount, slot, live, object, objCount>>
         \/ /\ f # NoFile /\ oldfd # newfd
            /\ IF IsPipe(old) THEN PipeClose(p, old) ELSE UNCHANGED <<slot, live>>
            /\ files' = [files EXCEPT ![p][newfd] = f]
            /\ refCount' = Moved(f, old)
            /\ objCount' = MovedCount(f, old)
            /\ object' = [o \in Object |-> IF MovedCount(f, old)[o] = 0 THEN NoObject ELSE object[o]]
            /\ Returns(newfd)
  /\ UNCHANGED <<state, kernel, ring, size>>

\* One turn of the loop of do_file_fork; only pipes have a handler to call.
ForkOther ==
  /\ kernel.op = "fork" /\ kernel.fd < MaxOpenFiles
  /\ IsObject(files[kernel.child][kernel.fd])
  /\ Share(files[kernel.child][kernel.fd])
  /\ kernel' = [kernel EXCEPT !.fd = @ + 1]
  /\ UNCHANGED <<state, files, ret, slot, ring, live, object, size>>

\* One turn of the loop of do_file_exit.
ExitOther ==
  /\ kernel.op = "exit" /\ kernel.fd < MaxOpenFiles
  /\ IsObject(files[kernel.proc][kernel.fd])
  /\ CloseObject(files[kernel.proc][kernel.fd])
  /\ files' = [files EXCEPT ![kernel.proc][kernel.fd] = NoFile]
  /\ kernel' = [kernel EXCEPT !.fd = @ + 1]
  /\ UNCHANGED <<state, refCount, ret, slot, ring, live, size>>

OpenNext ==
  \/ \E p \in Proc :
       \/ PipeCall(p)
       \/ \E t \in StdType : OpenStandardIO(p, t)
       \/ \E n \in Inode, create, okMode \in BOOLEAN, mode \in SUBSET Mode :
            OpenRegular(p, n, create, mode, okMode)
       \/ \E fd \in Fd, count \in Count : ReadObject(p, fd, count) \/ WriteObject(p, fd, count)
       \/ \E fd \in Fd, off \in Offset, whence \in Whence : Lseek(p, fd, off, whence)
       \/ \E outfd, infd \in Fd, off \in Offset \cup {NoOffset}, count \in Count :
            Sendfile(p, outfd, infd, off, count)
       \/ \E fd \in Fd : CloseOther(p, fd) \/ DupOther(p, fd)
       \/ \E oldfd, newfd \in Fd : Dup2Other(p, oldfd, newfd)
  \/ PipeKernelStep \/ ForkOther \/ ExitOther

OpenSpec == OpenInit /\ [][OpenNext]_allVars

(***************************************************************************)
(* An object counts the descriptors that refer to it in all processes, and *)
(* it exists as long as there is one: a descriptor whose object was freed  *)
(* early calls through the page's next contents, and one that is never     *)
(* freed keeps its page (file.c:41-63, 105-119, 298-350).                  *)
(***************************************************************************)
ObjectsAgree ==
  \A o \in Object :
    /\ objCount[o] = Cardinality(Refs(o))
    /\ object[o] # NoObject <=> objCount[o] > 0

(***************************************************************************)
(* An offset never lies past the end of its file, whoever moves it and     *)
(* whichever process lets the file grow: do_read_regular adds what the     *)
(* inode returns to the offset without a check, and file_size - offset is  *)
(* what the inode reads at most (file.c:175-237).                          *)
(***************************************************************************)
OffsetsInFile ==
  \A o \in Object : object[o] # NoObject /\ IsRegular(o) => object[o].offp <= size[object[o].inode]

(***************************************************************************)
(* sendfile with an offset leaves the place of the file it reads from      *)
(* alone on every path, also when the write fails or finds no file, except *)
(* when it writes to the very same open file (file.c:351-411).             *)
(***************************************************************************)
SendfileKeepsPlace ==
  [][\A p \in Proc, outfd, infd \in Fd :
       LET i == files[p][infd] IN
       IsRegular(i) /\ files[p][outfd] # i /\ object'[i] # object[i]
         => \A off \in Offset, count \in Count : ~ Sendfile(p, outfd, infd, off, count)]_allVars
===============================================================================
