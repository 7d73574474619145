--------------------------------- MODULE Files ---------------------------------
(***************************************************************************)
(* The process and descriptor tables every pipe operation works on: the    *)
(* execution contexts, their arrays of open files, and the file objects    *)
(* with their reference counts (file.c, the file part of entry.c).         *)
(*                                                                         *)
(* gemOS runs on one processor and enters every system call with           *)
(* interrupts off, so a call is not interleaved with another.  Two calls   *)
(* loop over the open files of a process, fork and exit; `kernel' says how *)
(* far such a loop has come, and while it runs nothing else can.           *)
(***************************************************************************)
EXTENDS Integers, FiniteSets, FiniteSetsExt

CONSTANTS Proc,          \* the pids of the contexts, without the swapper
          InitProc,      \* the first process
          Pipe,          \* the pipe objects that memory has room for
          MaxOpenFiles,  \* MAX_OPEN_FILES
          DupBase,       \* the lowest descriptor dup hands out: 3 in file.c
          NoFile         \* a NULL entry of the descriptor table

Fd    == 0 .. (MaxOpenFiles - 1)
Mode  == {"read", "write"}
\* A pipe has exactly two file objects, one for each end.
File  == [pipe : Pipe, mode : Mode]
End(q, m) == [pipe |-> q, mode |-> m]

ASSUME FilesAssumption ==
  /\ Proc \subseteq Nat /\ IsFiniteSet(Proc)
  /\ InitProc \in Proc
  /\ MaxOpenFiles \in Nat /\ DupBase \in Nat
  /\ NoFile \notin File

\* context.h, errno values of entry.h
EINVAL == 1
EACCES == 4
ENOMEM == 5
EBADMEM == 6
EOTHERS == 7

VARIABLES state,      \* what each context is doing: "unused" or "ready"
          files,      \* files[p][fd]: the open file of a descriptor
          refCount,   \* ref_count of each file object, 0 when it does not exist
          kernel,     \* the loop over open files in progress
          ret         \* what the last system call returned, and the bytes it read

fileVars == <<state, files, refCount, kernel, ret>>

UserMode == [op |-> "user", proc |-> InitProc, child |-> InitProc, fd |-> 0, ret |-> 0]
KernelLoops == [op : {"user", "fork", "exit"}, proc : Proc, child : Proc,
                fd : 0 .. MaxOpenFiles, ret : {0, -EOTHERS}]

FilesInit ==
  /\ state = [p \in Proc |-> IF p = InitProc THEN "ready" ELSE "unused"]
  /\ files = [p \in Proc |-> [fd \in Fd |-> NoFile]]
  /\ refCount = [f \in File |-> 0]
  /\ kernel = UserMode
  /\ ret = [code |-> 0, bytes |-> <<>>]

\* Process p, in user mode, makes a system call.
Calls(p) == kernel.op = "user" /\ state[p] = "ready"

Returns(code) == ret' = [code |-> code, bytes |-> <<>>]

\* A descriptor more, or a descriptor less, refers to file f; mutants: not counted.
NotRaised(f)   == refCount
Raised(f)      == [refCount EXCEPT ![f] = @ + 1]
NotReleased(f) == refCount
Released(f)    == [refCount EXCEPT ![f] = @ - 1]

FreeFds(p) == {fd \in Fd : files[p][fd] = NoFile}

(***************************************************************************)
(* A descriptor counts from the moment fork has raised the reference count *)
(* of its file.                                                            *)
(***************************************************************************)
Counted(p, fd) == ~ (kernel.op = "fork" /\ p = kernel.child /\ fd >= kernel.fd)
Refs(f)     == {pd \in Proc \X Fd : files[pd[1]][pd[2]] = f /\ Counted(pd[1], pd[2])}
Holds(p, f) == \E fd \in Fd : files[p][fd] = f /\ Counted(p, fd)

(***************************************************************************)
(* do_fork: the lowest unused context becomes a copy of the caller's, its  *)
(* open files included; do_file_fork then visits the files one by one.     *)
(* With no context left get_new_ctx has none to return and fork fails on   *)
(* it: programs are taken to stay within MAX_PROCESSES.  (entry.c is at    *)
(* hand from the debugger assignment; the object file of the pipe          *)
(* assignment has a call of do_file_fork in the debugger hook's place.)    *)
(***************************************************************************)
CopyContext(p) ==
  /\ Calls(p)
  /\ LET unused == {c \in Proc : state[c] = "unused"} IN
     /\ unused # {}
     /\ state' = [state EXCEPT ![Min(unused)] = "ready"]
     /\ files' = [files EXCEPT ![Min(unused)] = files[p]]
     /\ kernel' = [op |-> "fork", proc |-> p, child |-> Min(unused), fd |-> 0, ret |-> 0]
  /\ UNCHANGED <<refCount, ret>>

\* do_fork reports what the handler of the last file returned.
LeaveFork ==
  /\ kernel.op = "fork" /\ kernel.fd = MaxOpenFiles
  /\ Returns(IF kernel.ret < 0 THEN kernel.ret ELSE kernel.child)
  /\ kernel' = UserMode
  /\ UNCHANGED <<state, files, refCount>>

(***************************************************************************)
(* do_exit: do_file_exit closes the open files one by one, then the        *)
(* context is free for a later fork.                                       *)
(***************************************************************************)
EnterExit(p) ==
  /\ Calls(p)
  /\ kernel' = [op |-> "exit", proc |-> p, child |-> p, fd |-> 0, ret |-> 0]
  /\ UNCHANGED <<state, files, refCount, ret>>

FreeContext ==
  /\ kernel.op = "exit" /\ kernel.fd = MaxOpenFiles
  /\ state' = [state EXCEPT ![kernel.proc] = "unused"]
  /\ kernel' = UserMode
  /\ UNCHANGED <<files, refCount, ret>>
===============================================================================
