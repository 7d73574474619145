------------------------------- MODULE PipeSpec -------------------------------
(***************************************************************************)
(* What pipe(), read(), write(), close(), fork() and exit() promise to the *)
(* processes: descriptors, and one bounded queue of bytes per pipe that    *)
(* lives as long as a descriptor of any process refers to it.  Nothing     *)
(* here counts references, keeps a table of processes or a ring.  Every    *)
(* call is one step.                                                       *)
(***************************************************************************)
EXTENDS Integers, Sequences, FiniteSets

CONSTANTS Proc, InitProc, Pipe, MaxOpenFiles, NoFile, Size, Byte, MaxCount

Fd   == 0 .. (MaxOpenFiles - 1)
Mode == {"read", "write"}
File == [pipe : Pipe, mode : Mode]

EINVAL == 1
EACCES == 4
ENOMEM == 5
EBADMEM == 6

VARIABLES running,   \* the processes
          files,     \* files[p][fd]: the pipe end a descriptor stands for
          queue,     \* queue[q]: the bytes written to q and not read yet
          ret        \* what the last call returned, and the bytes it read

vars == <<running, files, queue, ret>>

Init ==
  /\ running = {InitProc}
  /\ files = [p \in Proc |-> [fd \in Fd |-> NoFile]]
  /\ queue = [q \in Pipe |-> <<>>]
  /\ ret = [code |-> 0, bytes |-> <<>>]

Returns(code) == ret' = [code |-> code, bytes |-> <<>>]

\* q is open when some descriptor of the table fs stands for one of its ends.
Open(fs, q) == \E p \in Proc, fd \in Fd : fs[p][fd] # NoFile /\ fs[p][fd].pipe = q

\* A pipe that no descriptor stands for any more loses its bytes.
DropClosed(fs) == queue' = [q \in Pipe |-> IF Open(fs, q) THEN queue[q] ELSE <<>>]

Least(a, b) == IF a <= b THEN a ELSE b

CreateFails(p) ==
  /\ p \in running
  /\ Cardinality({fd \in Fd : files[p][fd] = NoFile}) < 2
  /\ Returns(-ENOMEM)
  /\ UNCHANGED <<running, files, queue>>

Create(p, q, rfd, wfd) ==
  /\ p \in running
  /\ ~ Open(files, q)
  /\ rfd < wfd /\ files[p][rfd] = NoFile /\ files[p][wfd] = NoFile
  /\ \A fd \in Fd : fd < wfd /\ fd # rfd => files[p][fd] # NoFile
  /\ files' = [files EXCEPT ![p][rfd] = [pipe |-> q, mode |-> "read"],
                            ![p][wfd] = [pipe |-> q, mode |-> "write"]]
  /\ Returns(0)
  /\ UNCHANGED <<running, queue>>

\* A call is refused for the descriptor, then for the user's buffer.
Refused(p, fd, m, okBuf) ==
  /\ p \in running
  /\ \/ files[p][fd] = NoFile /\ Returns(-EINVAL)
     \/ files[p][fd] # NoFile /\ files[p][fd].mode # m /\ Returns(-EACCES)
     \/ files[p][fd] # NoFile /\ files[p][fd].mode = m /\ ~ okBuf /\ Returns(-EBADMEM)
  /\ UNCHANGED <<running, files, queue>>

\* A read takes the oldest bytes, as many as asked for and available.
Read(p, fd, count) ==
  /\ p \in running
  /\ files[p][fd] # NoFile /\ files[p][fd].mode = "read"
  /\ LET q == files[p][fd].pipe
         n == Least(count, Len(queue[q]))
     IN  /\ ret' = [code |-> n, bytes |-> SubSeq(queue[q], 1, n)]
         /\ queue' = [queue EXCEPT ![q] = SubSeq(@, n + 1, Len(@))]
  /\ UNCHANGED <<running, files>>

\* A write appends the bytes there is room for.
Write(p, fd, data) ==
  /\ p \in running
  /\ files[p][fd] # NoFile /\ files[p][fd].mode = "write"
  /\ LET q == files[p][fd].pipe
         n == Least(Len(data), Size - Len(queue[q]))
     IN  /\ Returns(n)
         /\ queue' = [queue EXCEPT ![q] = @ \o SubSeq(data, 1, n)]
  /\ UNCHANGED <<running, files>>

CloseFails(p, fd) ==
  /\ p \in running
  /\ files[p][fd] = NoFile
  /\ Returns(-EINVAL)
  /\ UNCHANGED <<running, files, queue>>

Close(p, fd) ==
  /\ p \in running
  /\ files[p][fd] # NoFile
  /\ files' = [files EXCEPT ![p][fd] = NoFile]
  /\ DropClosed(files')
  /\ Returns(0)
  /\ UNCHANGED running

\* The child has every descriptor of its parent.
Fork(p, child) ==
  /\ p \in running /\ child \in Proc \ running
  /\ running' = running \cup {child}
  /\ files' = [files EXCEPT ![child] = files[p]]
  /\ Returns(child)
  /\ UNCHANGED queue

\* A process leaves with all its descriptors.
Exit(p) ==
  /\ p \in running
  /\ running' = running \ {p}
  /\ files' = [files EXCEPT ![p] = [fd \in Fd |-> NoFile]]
  /\ DropClosed(files')
  /\ UNCHANGED ret

UserData == UNION {[1 .. n -> Byte] : n \in 0 .. MaxCount}

Next ==
  \E p \in Proc :
    \/ CreateFails(p)
    \/ \E q \in Pipe, rfd, wfd \in Fd : Create(p, q, rfd, wfd)
    \/ \E fd \in Fd, m \in Mode, okBuf \in BOOLEAN : Refused(p, fd, m, okBuf)
    \/ \E fd \in Fd, count \in 0 .. MaxCount : Read(p, fd, count)
    \/ \E fd \in Fd, data \in UserData : Write(p, fd, data)
    \/ \E fd \in Fd : CloseFails(p, fd) \/ Close(p, fd)
    \/ \E child \in Proc : Fork(p, child)
    \/ Exit(p)

Spec == Init /\ [][Next]_vars
===============================================================================
