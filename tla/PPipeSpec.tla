------------------------------- MODULE PPipeSpec -------------------------------
(***************************************************************************)
(* What a persistent pipe promises to the processes.  The bytes written    *)
(* are kept, up to Size of them, until flush gives back those that every   *)
(* process with the read end has read; each of these processes has unread  *)
(* a number of bytes at the end of what is kept.                           *)
(***************************************************************************)
EXTENDS Integers, Sequences, FiniteSets, FiniteSetsExt

CONSTANTS Proc, InitProc, Pipe, MaxOpenFiles, NoFile, Size, Byte, MaxCount

Fd   == 0 .. (MaxOpenFiles - 1)
Mode == {"read", "write"}

EINVAL == 1
EACCES == 4
ENOMEM == 5

VARIABLES running,   \* the processes
          files,     \* files[p][fd]: the pipe end a descriptor stands for
          kept,      \* kept[q]: the bytes q holds
          unread,    \* unread[q][p]: how many of them process p has still to read
          ret        \* what the last call returned, and the bytes it read

vars == <<running, files, kept, unread, ret>>

Init ==
  /\ running = {InitProc}
  /\ files = [p \in Proc |-> [fd \in Fd |-> NoFile]]
  /\ kept = [q \in Pipe |-> <<>>]
  /\ unread = [q \in Pipe |-> [p \in Proc |-> 0]]
  /\ ret = [code |-> 0, bytes |-> <<>>]

Returns(code) == ret' = [code |-> code, bytes |-> <<>>]

Has(fs, p, q, m) == \E fd \in Fd : fs[p][fd] = [pipe |-> q, mode |-> m]
Open(fs, q)      == \E p \in Proc, m \in Mode : Has(fs, p, q, m)
Readers(q)       == {p \in Proc : Has(files, p, q, "read")}

\* What remains when the descriptors are fs.
Drop(fs) ==
  /\ kept' = [q \in Pipe |-> IF Open(fs, q) THEN kept[q] ELSE <<>>]
  /\ unread' = [q \in Pipe |-> [p \in Proc |-> IF Has(fs, p, q, "read") THEN unread[q][p] ELSE 0]]

CreateFails(p) ==
  /\ p \in running
  /\ Cardinality({fd \in Fd : files[p][fd] = NoFile}) < 2
  /\ Returns(-ENOMEM)
  /\ UNCHANGED <<running, files, kept, unread>>

Create(p, q, rfd, wfd) ==
  /\ p \in running
  /\ ~ Open(files, q)
  /\ rfd < wfd /\ files[p][rfd] = NoFile /\ files[p][wfd] = NoFile
  /\ \A fd \in Fd : fd < wfd /\ fd # rfd => files[p][fd] # NoFile
  /\ files' = [files EXCEPT ![p][rfd] = [pipe |-> q, mode |-> "read"],
                            ![p][wfd] = [pipe |-> q, mode |-> "write"]]
  /\ Returns(0)
  /\ UNCHANGED <<running, kept, unread>>

Refused(p, fd, m) ==
  /\ p \in running
  /\ \/ files[p][fd] = NoFile /\ Returns(-EINVAL)
     \/ files[p][fd] # NoFile /\ files[p][fd].mode # m /\ Returns(-EACCES)
  /\ UNCHANGED <<running, files, kept, unread>>

\* A read takes the oldest bytes the process has not read, and removes nothing.
Read(p, fd, count) ==
  /\ p \in running
  /\ files[p][fd] # NoFile /\ files[p][fd].mode = "read"
  /\ LET q == files[p][fd].pipe
         n == Min({count, unread[q][p]})
         from == Len(kept[q]) - unread[q][p]
     IN  /\ ret' = [code |-> n, bytes |-> SubSeq(kept[q], from + 1, from + n)]
         /\ unread' = [unread EXCEPT ![q][p] = @ - n]
  /\ UNCHANGED <<running, files, kept>>

\* The bytes there is room for are new to every reader.
Write(p, fd, data) ==
  /\ p \in running
  /\ files[p][fd] # NoFile /\ files[p][fd].mode = "write"
  /\ LET q == files[p][fd].pipe
         n == Min({Len(data), Size - Len(kept[q])})
     IN  /\ Returns(n)
         /\ kept' = [kept EXCEPT ![q] = @ \o SubSeq(data, 1, n)]
         /\ unread' = [unread EXCEPT ![q] = [r \in Proc |-> @[r] + IF r \in Readers(q) THEN n ELSE 0]]
  /\ UNCHANGED <<running, files>>

FlushFails(p, fd) ==
  /\ p \in running
  /\ files[p][fd] = NoFile
  /\ Returns(-1)
  /\ UNCHANGED <<running, files, kept, unread>>

\* While nobody can read, nothing is given back.
Flush(p, fd) ==
  /\ p \in running
  /\ files[p][fd] # NoFile
  /\ LET q == files[p][fd].pipe
         n == IF Readers(q) = {} THEN 0
              ELSE Min({Len(kept[q]) - unread[q][r] : r \in Readers(q)})
     IN  /\ Returns(n)
         /\ kept' = [kept EXCEPT ![q] = SubSeq(@, n + 1, Len(@))]
  /\ UNCHANGED <<running, files, unread>>

CloseFails(p, fd) ==
  /\ p \in running
  /\ files[p][fd] = NoFile
  /\ Returns(-EINVAL)
  /\ UNCHANGED <<running, files, kept, unread>>

Close(p, fd) ==
  /\ p \in running
  /\ files[p][fd] # NoFile
  /\ files' = [files EXCEPT ![p][fd] = NoFile]
  /\ Drop(files')
  /\ Returns(0)
  /\ UNCHANGED running

\* The child has its parent's descriptors, and goes on reading where the parent is.
Fork(p, child) ==
  /\ p \in running /\ child \in Proc \ running
  /\ running' = running \cup {child}
  /\ files' = [files EXCEPT ![child] = files[p]]
  /\ unread' = [q \in Pipe |-> [unread[q] EXCEPT ![child] = unread[q][p]]]
  /\ Returns(child)
  /\ UNCHANGED kept

Exit(p) ==
  /\ p \in running
  /\ running' = running \ {p}
  /\ files' = [files EXCEPT ![p] = [fd \in Fd |-> NoFile]]
  /\ Drop(files')
  /\ UNCHANGED ret

UserData == UNION {[1 .. n -> Byte] : n \in 0 .. MaxCount}

Next ==
  \E p \in Proc :
    \/ CreateFails(p)
    \/ \E q \in Pipe, rfd, wfd \in Fd : Create(p, q, rfd, wfd)
    \/ \E fd \in Fd, m \in Mode : Refused(p, fd, m)
    \/ \E fd \in Fd, count \in 0 .. MaxCount : Read(p, fd, count)
    \/ \E fd \in Fd, data \in UserData : Write(p, fd, data)
    \/ \E fd \in Fd : FlushFails(p, fd) \/ Flush(p, fd) \/ CloseFails(p, fd) \/ Close(p, fd)
    \/ \E child \in Proc : Fork(p, child)
    \/ Exit(p)

Spec == Init /\ [][Next]_vars
===============================================================================
