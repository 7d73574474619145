---------------------------- MODULE OpenFilesProofs ----------------------------
(***************************************************************************)
(* Reference counts and offsets for any number of processes, descriptors,  *)
(* pipes, objects and inodes, with dup, dup2, fork and exit: a count is    *)
(* the number of descriptors of its file, an object exists as long as it   *)
(* has one, and no offset lies past the end of its file.                   *)
(***************************************************************************)
EXTENDS OpenFiles, PipeProofs

AllFiles == File \cup Object

\* The file a descriptor counts for.
CountedFile(p, fd) == IF Counted(p, fd) THEN files[p][fd] ELSE NoFile

(***************************************************************************)
(* The inductive invariant.  The counts are preserved because every step   *)
(* moves one descriptor from one file to another; a fork may take over an  *)
(* unused context because the one who left it closed every descriptor      *)
(* (UnusedHasNoFiles, of PipeProofs, and ExitClosed).  The files its loop  *)
(* still has to count exist because the parent holds them (ForkCopied).    *)
(***************************************************************************)
ForkCopied ==
  kernel.op = "fork" => kernel.child # kernel.proc /\ files[kernel.child] = files[kernel.proc]

ExitClosed ==
  kernel.op = "exit" =>
    /\ state[kernel.proc] = "ready"
    /\ \A g \in Fd : g < kernel.fd => files[kernel.proc][g] = NoFile

TablesTyped ==
  /\ state \in [Proc -> {"unused", "ready"}]
  /\ kernel \in KernelLoops
  /\ refCount \in [File -> Nat]
  /\ OpenFilesTypeOK

OpenInv ==
  /\ TablesTyped
  /\ CountsMatchDescriptors
  /\ ObjectsAgree
  /\ OffsetsInFile
  /\ UnusedHasNoFiles
  /\ ExitClosed
  /\ ForkCopied

(***************************************************************************)
(* One descriptor, <<p, fd>>, changes the file it counts for from old to   *)
(* new, and no other does.                                                 *)
(***************************************************************************)
OneChanges(p, fd, old, new) ==
  /\ CountedFile(p, fd) = old /\ CountedFile(p, fd)' = new
  /\ \A x \in Proc, g \in Fd : ~ (x = p /\ g = fd) => CountedFile(x, g)' = CountedFile(x, g)

\* The descriptors of a file, by the file they count for.
LEMMA RefsByCountedFile ==
  ASSUME NEW f \in AllFiles
  PROVE  /\ Refs(f) = {pd \in Proc \X Fd : CountedFile(pd[1], pd[2]) = f}
         /\ Refs(f)' = {pd \in Proc \X Fd : CountedFile(pd[1], pd[2])' = f}
         /\ IsFiniteSet(Refs(f)) /\ IsFiniteSet(Refs(f)')
         /\ f # NoFile
<1>1. f # NoFile
  BY FilesAssumption, OpenFilesAssumption DEF AllFiles
<1>2. Refs(f) = {pd \in Proc \X Fd : CountedFile(pd[1], pd[2]) = f}
  BY <1>1 DEF Refs, CountedFile
<1>3. Refs(f)' = {pd \in Proc \X Fd : CountedFile(pd[1], pd[2])' = f}
  BY <1>1 DEF Refs, CountedFile
<1>4. Refs(f) \subseteq Proc \X Fd /\ Refs(f)' \subseteq Proc \X Fd
  BY <1>2, <1>3
<1>5. IsFiniteSet(Refs(f)) /\ IsFiniteSet(Refs(f)')
  BY <1>4, DescriptorsFinite, FS_Subset
<1> QED BY <1>1, <1>2, <1>3, <1>5

\* Taking one element out of a finite set.
LEMMA RemoveCount ==
  ASSUME NEW T, IsFiniteSet(T), NEW d
  PROVE  /\ Cardinality(T) \in Nat
         /\ Cardinality(T \ {d}) = IF d \in T THEN Cardinality(T) - 1 ELSE Cardinality(T)
<1>1. Cardinality(T) \in Nat
  BY FS_CardinalityType
<1>2. CASE d \in T
  BY <1>1, <1>2, FS_RemoveElement
<1>3. CASE d \notin T
  <2>1. T \ {d} = T
    BY <1>3
  <2> QED BY <1>1, <1>3, <2>1
<1> QED BY <1>1, <1>2, <1>3

\* So the number of them changes by one for new and for old, and for no other file.
LEMMA RefsMove ==
  ASSUME NEW p \in Proc, NEW fd \in Fd, NEW old, NEW new, OneChanges(p, fd, old, new),
         NEW f \in AllFiles
  PROVE  /\ Cardinality(Refs(f)) \in Nat /\ Cardinality(Refs(f)') \in Nat
         /\ Cardinality(Refs(f)') =
              (Cardinality(Refs(f)) + (IF f = new THEN 1 ELSE 0)) - (IF f = old THEN 1 ELSE 0)
<1> DEFINE R == Refs(f)
           S == Refs(f)'
           d == <<p, fd>>
<1>1. /\ R = {pd \in Proc \X Fd : CountedFile(pd[1], pd[2]) = f}
      /\ S = {pd \in Proc \X Fd : CountedFile(pd[1], pd[2])' = f}
      /\ IsFiniteSet(R) /\ IsFiniteSet(S)
  BY RefsByCountedFile
<1>2. d \in R <=> f = old
  BY <1>1 DEF OneChanges
<1>3. d \in S <=> f = new
  BY <1>1 DEF OneChanges
<1>4. R \ {d} = S \ {d}
  <2>1. ASSUME NEW x \in Proc, NEW g \in Fd, <<x, g>> # d
        PROVE  <<x, g>> \in R <=> <<x, g>> \in S
    BY <1>1, <2>1 DEF OneChanges
  <2>2. R \subseteq Proc \X Fd /\ S \subseteq Proc \X Fd
    BY <1>1
  <2> QED BY <2>1, <2>2
<1> HIDE DEF R, S, d
<1>5. /\ Cardinality(R) \in Nat /\ Cardinality(S) \in Nat
      /\ Cardinality(R \ {d}) = IF f = old THEN Cardinality(R) - 1 ELSE Cardinality(R)
      /\ Cardinality(S \ {d}) = IF f = new THEN Cardinality(S) - 1 ELSE Cardinality(S)
  BY <1>1, <1>2, <1>3, RemoveCount
<1>6. \A r, s \in Nat : \A a, b \in BOOLEAN :
        (IF a THEN r - 1 ELSE r) = (IF b THEN s - 1 ELSE s)
          => s = (r + (IF b THEN 1 ELSE 0)) - (IF a THEN 1 ELSE 0)
  OBVIOUS
<1>7. Cardinality(S) =
        (Cardinality(R) + (IF f = new THEN 1 ELSE 0)) - (IF f = old THEN 1 ELSE 0)
  <2>1. (IF f = old THEN Cardinality(R) - 1 ELSE Cardinality(R))
          = (IF f = new THEN Cardinality(S) - 1 ELSE Cardinality(S))
    BY <1>4, <1>5
  <2> QED BY <1>5, <1>6, <2>1
<1> QED BY <1>5, <1>7 DEF R, S

(***************************************************************************)
(* Counts that move the same way still match.                              *)
(***************************************************************************)
CountsMatch ==
  /\ refCount \in [File -> Nat] /\ objCount \in [Object -> Nat]
  /\ \A f \in File : refCount[f] = Cardinality(Refs(f))
  /\ \A o \in Object : objCount[o] = Cardinality(Refs(o))

\* What dup2 does to the counts, which is what every step does with some old and new.
LEMMA Recount ==
  ASSUME CountsMatch, NEW p \in Proc, NEW fd \in Fd, NEW old, NEW new,
         OneChanges(p, fd, old, new),
         refCount' = Moved(new, old), objCount' = MovedCount(new, old)
  PROVE  CountsMatch'
<1>1. ASSUME NEW f \in File
      PROVE  refCount'[f] = Cardinality(Refs(f)') /\ refCount'[f] \in Nat
  <2>1. refCount'[f] = (refCount[f] + (IF f = new THEN 1 ELSE 0)) - (IF f = old THEN 1 ELSE 0)
    BY DEF Moved, CountsMatch
  <2>2. f \in AllFiles
    BY DEF AllFiles
  <2> QED BY <2>1, <2>2, RefsMove DEF CountsMatch
<1>2. ASSUME NEW o \in Object
      PROVE  objCount'[o] = Cardinality(Refs(o)') /\ objCount'[o] \in Nat
  <2>1. objCount'[o] = (objCount[o] + (IF o = new THEN 1 ELSE 0)) - (IF o = old THEN 1 ELSE 0)
    BY DEF MovedCount, CountsMatch
  <2>2. o \in AllFiles
    BY DEF AllFiles
  <2> QED BY <2>1, <2>2, RefsMove DEF CountsMatch
<1>3. refCount' \in [File -> Nat]
  <2>1. refCount' = [f \in File |-> refCount'[f]]
    BY DEF Moved
  <2> QED BY <1>1, <2>1
<1>4. objCount' \in [Object -> Nat]
  <2>1. objCount' = [o \in Object |-> objCount'[o]]
    BY DEF MovedCount
  <2> QED BY <1>2, <2>1
<1> QED BY <1>1, <1>2, <1>3, <1>4 DEF CountsMatch

\* When no descriptor counts for another file, the counts stay.
LEMMA RecountNothing ==
  ASSUME CountsMatch, UNCHANGED <<refCount, objCount>>,
         \A x \in Proc, g \in Fd : CountedFile(x, g)' = CountedFile(x, g)
  PROVE  CountsMatch'
<1>1. \A f \in AllFiles : Refs(f)' = Refs(f)
  BY RefsByCountedFile
<1> QED BY <1>1 DEF CountsMatch, AllFiles

(***************************************************************************)
(* The count updates of the code are of the form Recount asks for.         *)
(***************************************************************************)
LEMMA CountForms ==
  ASSUME refCount \in [File -> Nat], objCount \in [Object -> Nat]
  PROVE  /\ \A f \in File : Raised(f) = Moved(f, NoFile) /\ Released(f) = Moved(NoFile, f)
         /\ \A o \in Object :
              /\ [objCount EXCEPT ![o] = @ + 1] = MovedCount(o, NoFile)
              /\ [objCount EXCEPT ![o] = @ - 1] = MovedCount(NoFile, o)
         /\ \A a, b : a \notin File /\ b \notin File => refCount = Moved(a, b)
         /\ \A a, b : a \notin Object /\ b \notin Object => objCount = MovedCount(a, b)
<1>1. NoFile \notin File /\ NoFile \notin Object
  BY FilesAssumption, OpenFilesAssumption
<1>2. ASSUME NEW f \in File PROVE Raised(f) = Moved(f, NoFile) /\ Released(f) = Moved(NoFile, f)
  <2>1. /\ Raised(f) = [g \in File |-> IF g = f THEN refCount[g] + 1 ELSE refCount[g]]
        /\ Released(f) = [g \in File |-> IF g = f THEN refCount[g] - 1 ELSE refCount[g]]
    BY DEF Raised, Released
  <2>2. \A g \in File : g # NoFile /\ refCount[g] \in Nat
    BY <1>1
  <2> QED BY <2>1, <2>2 DEF Moved
<1>3. ASSUME NEW o \in Object
      PROVE  /\ [objCount EXCEPT ![o] = @ + 1] = MovedCount(o, NoFile)
             /\ [objCount EXCEPT ![o] = @ - 1] = MovedCount(NoFile, o)
  <2>1. /\ [objCount EXCEPT ![o] = @ + 1]
              = [g \in Object |-> IF g = o THEN objCount[g] + 1 ELSE objCount[g]]
        /\ [objCount EXCEPT ![o] = @ - 1]
              = [g \in Object |-> IF g = o THEN objCount[g] - 1 ELSE objCount[g]]
    OBVIOUS
  <2>2. \A g \in Object : g # NoFile /\ objCount[g] \in Nat
    BY <1>1
  <2> QED BY <2>1, <2>2 DEF MovedCount
<1>4. ASSUME NEW a, NEW b, a \notin File, b \notin File PROVE refCount = Moved(a, b)
  BY <1>4 DEF Moved
<1>5. ASSUME NEW a, NEW b, a \notin Object, b \notin Object PROVE objCount = MovedCount(a, b)
  BY <1>5 DEF MovedCount
<1> QED BY <1>2, <1>3, <1>4, <1>5

(***************************************************************************)
(* The invariant after a step, by what the step does to the tables.        *)
(***************************************************************************)
LEMMA CountsOfInv ==
  /\ OpenInv => CountsMatch
  /\ CountsMatch' =>
       CountsMatchDescriptors' /\ \A o \in Object : objCount'[o] = Cardinality(Refs(o)')
BY DEF OpenInv, TablesTyped, OpenFilesTypeOK, CountsMatch, CountsMatchDescriptors, ObjectsAgree

\* A descriptor that counts refers to an object that exists.
LEMMA HeldExists ==
  ASSUME OpenInv, NEW p \in Proc, NEW fd \in Fd, files[p][fd] \in Object, Counted(p, fd)
  PROVE  objCount[files[p][fd]] > 0 /\ object[files[p][fd]] \in ObjectType
<1> DEFINE o == files[p][fd]
<1>1. <<p, fd>> \in Refs(o) /\ IsFiniteSet(Refs(o))
  BY RefsByCountedFile DEF Refs, AllFiles
<1>2. objCount[o] = Cardinality(Refs(o)) /\ (object[o] # NoObject <=> objCount[o] > 0)
  BY DEF OpenInv, ObjectsAgree
<1>3. object[o] \in ObjectType \cup {NoObject}
  BY DEF OpenInv, TablesTyped, OpenFilesTypeOK
<1> HIDE DEF o
<1>4. Cardinality(Refs(o)) \in Nat /\ Cardinality(Refs(o)) # 0
  BY <1>1, FS_CardinalityType, FS_EmptySet
<1> QED BY <1>2, <1>3, <1>4 DEF o

\* No count and no descriptor changes: the step moves an offset, or nothing.
LEMMA QuietStep ==
  ASSUME OpenInv, UNCHANGED <<state, files, refCount, kernel, objCount>>,
         object' \in [Object -> ObjectType \cup {NoObject}], size' \in [Inode -> Offset],
         \A o \in Object : object'[o] = NoObject <=> object[o] = NoObject,
         OffsetsInFile'
  PROVE  OpenInv'
<1>1. TablesTyped'
  BY DEF OpenInv, TablesTyped, OpenFilesTypeOK
<1>2. \A f : Refs(f)' = Refs(f)
  BY DEF Refs, Counted
<1>3. CountsMatchDescriptors' /\ ObjectsAgree'
  BY <1>2 DEF OpenInv, CountsMatchDescriptors, ObjectsAgree
<1>4. UnusedHasNoFiles' /\ ExitClosed' /\ ForkCopied'
  BY DEF OpenInv, UnusedHasNoFiles, ExitClosed, ForkCopied
<1> QED BY <1>1, <1>3, <1>4 DEF OpenInv

\* What a close does to the objects: those that count no descriptor any more are freed.
FreedObjects == [o \in Object |-> IF objCount'[o] = 0 THEN NoObject ELSE object[o]]

LEMMA ObjectsFollow ==
  ASSUME OpenInv, objCount' \in [Object -> Nat], size' = size, object' = FreedObjects,
         \A o \in Object : objCount'[o] > 0 => objCount[o] > 0
  PROVE  /\ object' \in [Object -> ObjectType \cup {NoObject}]
         /\ size' \in [Inode -> Offset]
         /\ \A o \in Object : object'[o] # NoObject <=> objCount'[o] > 0
         /\ OffsetsInFile'
<1>1. object \in [Object -> ObjectType \cup {NoObject}] /\ size \in [Inode -> Offset]
  BY DEF OpenInv, TablesTyped, OpenFilesTypeOK
<1>2. \A o \in Object : /\ objCount'[o] \in Nat
                        /\ object'[o] = IF objCount'[o] = 0 THEN NoObject ELSE object[o]
  BY DEF FreedObjects
<1>3. object' \in [Object -> ObjectType \cup {NoObject}]
  BY <1>1 DEF FreedObjects
<1>4. \A o \in Object : object'[o] # NoObject <=> objCount'[o] > 0
  BY <1>2 DEF OpenInv, ObjectsAgree
<1>5. OffsetsInFile'
  <2>1. \A o \in Object : object'[o] # NoObject => object'[o] = object[o]
    BY <1>2
  <2> QED BY <2>1 DEF OpenInv, OffsetsInFile, IsRegular, IsObject
<1> QED BY <1>1, <1>3, <1>4, <1>5

\* Descriptor fd of process p gets another file, outside fork.
LEMMA ChangeCounts ==
  ASSUME OpenInv, NEW p \in Proc, NEW fd \in Fd, NEW new \in AllFiles \cup {NoFile},
         state' = state, state[p] = "ready",
         kernel.op # "fork", kernel'.op # "fork",
         files' = [files EXCEPT ![p][fd] = new],
         refCount' = Moved(new, files[p][fd]), objCount' = MovedCount(new, files[p][fd])
  PROVE  /\ CountsMatch' /\ UnusedHasNoFiles' /\ ForkCopied'
         /\ files' \in [Proc -> [Fd -> File \cup Object \cup {NoFile}]]
         /\ \A x \in Proc, g \in Fd : files'[x][g] = IF x = p /\ g = fd THEN new ELSE files[x][g]
<1>1. files \in [Proc -> [Fd -> File \cup Object \cup {NoFile}]]
  BY DEF OpenInv, TablesTyped, OpenFilesTypeOK
<1>2. \A x \in Proc, g \in Fd : files'[x][g] = IF x = p /\ g = fd THEN new ELSE files[x][g]
  BY <1>1
<1>3. files' \in [Proc -> [Fd -> File \cup Object \cup {NoFile}]]
  BY <1>1 DEF AllFiles
<1>4. OneChanges(p, fd, files[p][fd], new)
  BY <1>2 DEF OneChanges, CountedFile, Counted
<1>5. CountsMatch'
  BY <1>4, CountsOfInv, Recount
<1>6. UnusedHasNoFiles'
  <2>1. \A x \in Proc : state[x] = "unused" => x # p
    OBVIOUS
  <2> QED BY <1>2, <2>1 DEF OpenInv, UnusedHasNoFiles
<1>7. ForkCopied'
  BY DEF ForkCopied
<1> QED BY <1>2, <1>3, <1>5, <1>6, <1>7

\* The same with the objects: those left without a descriptor are freed.
LEMMA ChangeStep ==
  ASSUME OpenInv, NEW p \in Proc, NEW fd \in Fd, NEW new \in AllFiles \cup {NoFile},
         state' = state, state[p] = "ready",
         kernel.op # "fork", kernel'.op # "fork", kernel' \in KernelLoops, ExitClosed',
         files' = [files EXCEPT ![p][fd] = new],
         refCount' = Moved(new, files[p][fd]), objCount' = MovedCount(new, files[p][fd]),
         new \in Object => objCount[new] > 0,
         object' = FreedObjects, size' = size
  PROVE  OpenInv'
<1>1. /\ CountsMatch' /\ UnusedHasNoFiles' /\ ForkCopied'
      /\ files' \in [Proc -> [Fd -> File \cup Object \cup {NoFile}]]
  BY ChangeCounts
<1>2. objCount' \in [Object -> Nat] /\ refCount' \in [File -> Nat]
  BY <1>1 DEF CountsMatch
<1>3. \A o \in Object : objCount'[o] > 0 => objCount[o] > 0
  <2>1. objCount \in [Object -> Nat]
    BY DEF OpenInv, TablesTyped, OpenFilesTypeOK
  <2>2. ASSUME NEW o \in Object, o # new, objCount'[o] > 0 PROVE objCount[o] > 0
    <3>1. objCount'[o] = (objCount[o] + 0) - (IF o = files[p][fd] THEN 1 ELSE 0)
      BY <2>2 DEF MovedCount
    <3> QED BY <2>1, <2>2, <3>1
  <2> QED BY <2>2
<1>4. /\ object' \in [Object -> ObjectType \cup {NoObject}]
      /\ size' \in [Inode -> Offset]
      /\ \A o \in Object : object'[o] # NoObject <=> objCount'[o] > 0
      /\ OffsetsInFile'
  BY <1>2, <1>3, ObjectsFollow
<1>5. TablesTyped'
  BY <1>1, <1>2, <1>4 DEF OpenInv, TablesTyped, OpenFilesTypeOK
<1>6. CountsMatchDescriptors' /\ ObjectsAgree'
  BY <1>1, <1>4, CountsOfInv DEF ObjectsAgree
<1> QED BY <1>1, <1>4, <1>5, <1>6 DEF OpenInv

\* No descriptor counts for another file: the step only moves the kernel's loops.
LEMMA KernelMove ==
  ASSUME OpenInv, UNCHANGED <<refCount, object, objCount, size>>,
         state' \in [Proc -> {"unused", "ready"}], kernel' \in KernelLoops,
         files' \in [Proc -> [Fd -> File \cup Object \cup {NoFile}]],
         \A x \in Proc, g \in Fd : CountedFile(x, g)' = CountedFile(x, g),
         UnusedHasNoFiles', ExitClosed', ForkCopied'
  PROVE  OpenInv'
<1>1. CountsMatch'
  BY CountsOfInv, RecountNothing
<1>2. CountsMatchDescriptors' /\ ObjectsAgree'
  BY <1>1, CountsOfInv DEF OpenInv, ObjectsAgree
<1>3. TablesTyped'
  BY DEF OpenInv, TablesTyped, OpenFilesTypeOK
<1>4. OffsetsInFile'
  BY DEF OpenInv, OffsetsInFile, IsRegular, IsObject
<1> QED BY <1>2, <1>3, <1>4 DEF OpenInv

\* A call that fails, or that concerns the ring and the slots of a pipe.
LEMMA PipeOnly ==
  ASSUME OpenInv, UNCHANGED <<state, files, refCount, kernel, object, objCount, size>>
  PROVE  OpenInv'
<1>1. OffsetsInFile'
  BY DEF OpenInv, OffsetsInFile, IsRegular, IsObject
<1>2. object \in [Object -> ObjectType \cup {NoObject}] /\ size \in [Inode -> Offset]
  BY DEF OpenInv, TablesTyped, OpenFilesTypeOK
<1> QED BY <1>1, <1>2, QuietStep

\* The free descriptor that open and dup choose.
LEMMA LowestFree ==
  ASSUME NEW p \in Proc, {fd \in FreeFds(p) : fd >= DupBase} # {}
  PROVE  LET fd == Min({g \in FreeFds(p) : g >= DupBase})
         IN  fd \in Fd /\ files[p][fd] = NoFile
<1> DEFINE S == {g \in FreeFds(p) : g >= DupBase}
<1>1. S \in SUBSET Nat /\ S # {}
  BY FilesAssumption DEF FreeFds, Fd
<1> HIDE DEF S
<1>2. Min(S) \in S
  BY <1>1, MinMax
<1> QED BY <1>2 DEF S, FreeFds

(***************************************************************************)
(* When the objects follow the counts.                                     *)
(***************************************************************************)
LEMMA SameObjects ==
  ASSUME OpenInv, object' = object, \A o \in Object : objCount'[o] = 0 <=> objCount[o] = 0
  PROVE  object' = FreedObjects
<1>1. object \in [Object -> ObjectType \cup {NoObject}] /\ objCount \in [Object -> Nat]
  BY DEF OpenInv, TablesTyped, OpenFilesTypeOK
<1>2. \A o \in Object : objCount'[o] = 0 => object[o] = NoObject
  BY <1>1 DEF OpenInv, ObjectsAgree
<1> QED BY <1>1, <1>2 DEF FreedObjects

\* std_close frees the object that loses its last descriptor, and no other.
LEMMA ClosedObject ==
  ASSUME OpenInv, NEW o \in Object, CloseObject(o)
  PROVE  object' = FreedObjects /\ objCount' = MovedCount(NoFile, o)
<1>1. /\ object \in [Object -> ObjectType \cup {NoObject}] /\ objCount \in [Object -> Nat]
      /\ refCount \in [File -> Nat]
  BY DEF OpenInv, TablesTyped, OpenFilesTypeOK
<1>2. objCount' = [objCount EXCEPT ![o] = @ - 1]
  BY DEF CloseObject
<1>3. \A x \in Object : x # o /\ objCount'[x] = 0 => object[x] = NoObject
  BY <1>1, <1>2 DEF OpenInv, ObjectsAgree
<1>4. objCount'[o] = 0 <=> objCount[o] = 1
  BY <1>1, <1>2
<1>5. object' = FreedObjects
  BY <1>1, <1>3, <1>4 DEF FreedObjects, CloseObject
<1>6. objCount' = MovedCount(NoFile, o)
  BY <1>1, <1>2, CountForms
<1> QED BY <1>5, <1>6

(***************************************************************************)
(* The calls on pipes.                                                     *)
(***************************************************************************)
\* User mode: the counted files are the open ones, and the caller is ready.
LEMMA CallFacts ==
  ASSUME OpenInv, NEW p \in Proc, Calls(p)
  PROVE  /\ kernel.op = "user" /\ state[p] = "ready" /\ kernel \in KernelLoops
         /\ files \in [Proc -> [Fd -> File \cup Object \cup {NoFile}]]
         /\ refCount \in [File -> Nat] /\ objCount \in [Object -> Nat]
         /\ \A x \in Proc, g \in Fd : Counted(x, g)
         /\ NoFile \notin File /\ NoFile \notin Object /\ Object \cap File = {}
BY FilesAssumption, OpenFilesAssumption
   DEF OpenInv, TablesTyped, OpenFilesTypeOK, Calls, Counted

\* A call that changes one descriptor of the caller and moves the counts with it.
LEMMA CallStep ==
  ASSUME OpenInv, NEW p \in Proc, Calls(p), NEW fd \in Fd, NEW new \in AllFiles \cup {NoFile},
         UNCHANGED <<state, kernel, size>>,
         files' = [files EXCEPT ![p][fd] = new],
         refCount' = Moved(new, files[p][fd]), objCount' = MovedCount(new, files[p][fd]),
         new \in Object => \E g \in Fd : files[p][g] = new,
         object' = FreedObjects
  PROVE  OpenInv'
<1>1. new \in Object => objCount[new] > 0
  BY CallFacts, HeldExists
<1>2. ExitClosed' /\ kernel' \in KernelLoops /\ kernel.op # "fork" /\ kernel'.op # "fork"
  BY CallFacts DEF ExitClosed
<1> QED BY <1>1, <1>2, CallFacts, ChangeStep

\* close of a pipe descriptor (file.c:110-118).
LEMMA OpenCloseStep ==
  ASSUME OpenInv, NEW p \in Proc, NEW fd \in Fd, OnPipe(files[p][fd]), Close(p, fd),
         UNCHANGED objVars
  PROVE  OpenInv'
<1>1. Calls(p) /\ UNCHANGED <<state, kernel, object, objCount, size>>
  BY DEF Close, objVars
<1>2. CASE files[p][fd] = NoFile
  BY <1>1, <1>2, PipeOnly DEF Close
<1>3. CASE files[p][fd] # NoFile
  <2> DEFINE f == files[p][fd]
  <2>1. f \in File
    BY <1>3 DEF OnPipe
  <2>2. files' = [files EXCEPT ![p][fd] = NoFile] /\ refCount' = Released(f)
    BY <1>3 DEF Close
  <2>3. refCount' = Moved(NoFile, f) /\ objCount' = MovedCount(NoFile, f)
    <3>1. NoFile \notin Object /\ f \notin Object
      BY <1>1, <2>1, CallFacts
    <3> HIDE DEF f
    <3> QED BY <1>1, <2>1, <2>2, <3>1, CallFacts, CountForms
  <2>4. object' = FreedObjects
    BY <1>1, SameObjects
  <2>5. NoFile \in AllFiles \cup {NoFile} /\ NoFile \notin Object
    BY <1>1, CallFacts
  <2> QED BY <1>1, <2>2, <2>3, <2>4, <2>5, CallStep
<1> QED BY <1>2, <1>3

\* dup of a pipe descriptor (file.c:298-322).
LEMMA OpenDupStep ==
  ASSUME OpenInv, NEW p \in Proc, NEW oldfd \in Fd, OnPipe(files[p][oldfd]), Dup(p, oldfd),
         UNCHANGED objVars
  PROVE  OpenInv'
<1> DEFINE f == files[p][oldfd]
           free == {fd \in FreeFds(p) : fd >= DupBase}
<1>1. Calls(p) /\ UNCHANGED <<state, kernel, object, objCount, size>>
  BY DEF Dup, objVars
<1>2. CASE f = NoFile \/ free = {}
  <2>1. UNCHANGED <<files, refCount>>
    BY <1>2 DEF Dup
  <2> QED BY <1>1, <2>1, PipeOnly
<1>3. CASE f # NoFile /\ free # {}
  <2> DEFINE new == Min(free)
  <2>1. f \in File
    BY <1>3 DEF OnPipe
  <2>2. new \in Fd /\ files[p][new] = NoFile
    BY <1>3, LowestFree
  <2>3. files' = [files EXCEPT ![p][new] = f] /\ refCount' = Raised(f)
    BY <1>3 DEF Dup
  <2>4. refCount' = Moved(f, NoFile) /\ objCount' = MovedCount(f, NoFile) /\ f \notin Object
    <3>1. NoFile \notin Object /\ f \notin Object
      BY <1>1, <2>1, CallFacts
    <3> HIDE DEF f, new, free
    <3> QED BY <1>1, <2>1, <2>3, <3>1, CallFacts, CountForms
  <2>5. object' = FreedObjects
    BY <1>1, SameObjects
  <2>6. f \in AllFiles \cup {NoFile}
    BY <2>1 DEF AllFiles
  <2> HIDE DEF f, new, free
  <2> QED BY <1>1, <2>2, <2>3, <2>4, <2>5, <2>6, CallStep
<1> QED BY <1>2, <1>3

\* dup2 from a pipe to a pipe or a free descriptor (file.c:328-350).
LEMMA OpenDup2Step ==
  ASSUME OpenInv, NEW p \in Proc, NEW oldfd \in Fd, NEW newfd \in Fd,
         OnPipe(files[p][oldfd]), OnPipe(files[p][newfd]), Dup2(p, oldfd, newfd),
         UNCHANGED objVars
  PROVE  OpenInv'
<1> DEFINE f == files[p][oldfd]
           old == files[p][newfd]
<1>1. Calls(p) /\ UNCHANGED <<state, kernel, object, objCount, size>>
  BY DEF Dup2, objVars
<1>2. CASE f = NoFile \/ oldfd = newfd
  <2>1. UNCHANGED <<files, refCount>>
    BY <1>2 DEF Dup2
  <2> QED BY <1>1, <2>1, PipeOnly
<1>3. CASE f # NoFile /\ oldfd # newfd
  <2>1. f \in File /\ (old \in File \/ old = NoFile)
    BY <1>3 DEF OnPipe
  <2>2. files' = [files EXCEPT ![p][newfd] = f] /\ refCount' = Moved(f, old)
    BY <1>3 DEF Dup2
  <2>3. objCount' = MovedCount(f, old) /\ f \notin Object
    <3>1. old \notin Object /\ f \notin Object
      BY <1>1, <2>1, CallFacts
    <3> HIDE DEF f, old
    <3> QED BY <1>1, <3>1, CallFacts, CountForms
  <2>4. object' = FreedObjects
    BY <1>1, SameObjects
  <2>5. f \in AllFiles \cup {NoFile}
    BY <2>1 DEF AllFiles
  <2> HIDE DEF f
  <2> QED BY <1>1, <2>2, <2>3, <2>4, <2>5, CallStep
<1> QED BY <1>2, <1>3

\* create_pipe: two new file objects with one descriptor each (pipe.c:494-567).
LEMMA OpenCreateStep ==
  ASSUME OpenInv, NEW p \in Proc, NEW q \in Pipe, NEW page, Create(p, q, page),
         UNCHANGED objVars
  PROVE  OpenInv'
<1>1. Calls(p) /\ UNCHANGED <<state, kernel, object, objCount, size>>
  BY DEF Create, objVars
<1>2. CASE UNCHANGED <<files, refCount>>
  BY <1>1, <1>2, PipeOnly
<1>3. CASE ~ UNCHANGED <<files, refCount>>
  <2> DEFINE rfd == Min(FreeFds(p))
             wfd == Min(FreeFds(p) \ {rfd})
             r == End(q, "read")
             w == End(q, "write")
  <2>1. /\ Cardinality(FreeFds(p)) >= 2
        /\ \A m \in Mode : refCount[End(q, m)] = 0
        /\ files' = [files EXCEPT ![p][rfd] = r, ![p][wfd] = w]
        /\ refCount' = [f \in File |-> IF f.pipe = q THEN 1 ELSE refCount[f]]
    BY <1>3 DEF Create
  <2>2. /\ rfd \in Fd /\ wfd \in Fd /\ rfd # wfd
        /\ files[p][rfd] = NoFile /\ files[p][wfd] = NoFile
    BY <2>1, TwoFree
  <2>3. /\ r \in File /\ w \in File /\ r # w
        /\ \A f \in File : f.pipe = q <=> (f = r \/ f = w)
        /\ refCount[r] = 0 /\ refCount[w] = 0
    BY <2>1, EndFacts DEF Mode
  <2> HIDE DEF rfd, wfd, r, w
  <2>4. /\ files \in [Proc -> [Fd -> File \cup Object \cup {NoFile}]]
        /\ kernel.op = "user" /\ state[p] = "ready" /\ NoFile \notin File
        /\ Object \cap File = {} /\ kernel \in KernelLoops
        /\ refCount \in [File -> Nat]
    BY <1>1, CallFacts
  <2>5. \A x \in Proc, g \in Fd :
          files'[x][g] = IF x = p /\ g = rfd THEN r
                         ELSE IF x = p /\ g = wfd THEN w ELSE files[x][g]
    BY <2>1, <2>2, <2>4
  <2>6. files' \in [Proc -> [Fd -> File \cup Object \cup {NoFile}]]
    BY <2>1, <2>3, <2>4
  <2>7. \A x \in Proc, g \in Fd :
          CountedFile(x, g) = files[x][g] /\ CountedFile(x, g)' = files'[x][g]
    BY <1>1, <2>4 DEF CountedFile, Counted
  <2>8. ASSUME NEW f \in File, f = r \/ f = w
        PROVE  Cardinality(Refs(f)') = 1
    <3> DEFINE d == IF f = r THEN <<p, rfd>> ELSE <<p, wfd>>
    <3>1. \A x \in Proc, g \in Fd : files[x][g] # f
      <4>1. IsFiniteSet(Refs(f)) /\ Cardinality(Refs(f)) = 0
        BY <2>3, <2>8, RefsByCountedFile DEF OpenInv, CountsMatchDescriptors, AllFiles
      <4>2. Refs(f) = {}
        BY <4>1, FS_EmptySet
      <4>3. \A x \in Proc, g \in Fd : files[x][g] = f => <<x, g>> \in Refs(f)
        BY <2>4 DEF Refs, Counted
      <4> QED BY <4>2, <4>3
    <3>2. Refs(f)' = {d}
      <4>1. Refs(f)' = {pd \in Proc \X Fd : files'[pd[1]][pd[2]] = f}
        BY <1>1, <2>4 DEF Refs, Counted
      <4>2. \A x \in Proc, g \in Fd : files'[x][g] = f <=> <<x, g>> = d
        BY <2>2, <2>3, <2>5, <2>8, <3>1
      <4>3. d \in Proc \X Fd
        BY <2>2
      <4> QED BY <4>1, <4>2, <4>3
    <3> QED BY <3>2, FS_Singleton
  <2>9. ASSUME NEW f \in AllFiles, f # r, f # w
        PROVE  Refs(f)' = Refs(f)
    <3>1. f # NoFile
      BY RefsByCountedFile
    <3>2. \A x \in Proc, g \in Fd : files'[x][g] = f <=> files[x][g] = f
      BY <2>2, <2>5, <2>9, <3>1
    <3> QED BY <1>1, <2>4, <3>2 DEF Refs, Counted
  <2>10. refCount' \in [File -> Nat]
    BY <2>1, <2>4
  <2>11. CountsMatchDescriptors'
    <3>1. ASSUME NEW f \in File PROVE refCount'[f] = Cardinality(Refs(f)')
      <4>1. CASE f = r \/ f = w
        BY <2>1, <2>3, <2>8, <4>1
      <4>2. CASE f # r /\ f # w
        BY <2>1, <2>3, <2>9, <4>2 DEF OpenInv, CountsMatchDescriptors, AllFiles
      <4> QED BY <4>1, <4>2
    <3> QED BY <3>1 DEF CountsMatchDescriptors
  <2>12. ObjectsAgree'
    <3>1. \A o \in Object : Refs(o)' = Refs(o)
      BY <2>3, <2>4, <2>9 DEF AllFiles
    <3> QED BY <1>1, <3>1 DEF OpenInv, ObjectsAgree
  <2>13. TablesTyped'
    BY <1>1, <2>6, <2>10 DEF OpenInv, TablesTyped, OpenFilesTypeOK
  <2>14. UnusedHasNoFiles' /\ ExitClosed' /\ ForkCopied'
    <3>1. \A x \in Proc : state[x] = "unused" => x # p
      BY <2>4
    <3> QED BY <1>1, <2>4, <2>5, <3>1 DEF OpenInv, UnusedHasNoFiles, ExitClosed, ForkCopied
  <2>15. OffsetsInFile'
    BY <1>1 DEF OpenInv, OffsetsInFile, IsRegular, IsObject
  <2> QED BY <2>11, <2>12, <2>13, <2>14, <2>15 DEF OpenInv
<1> QED BY <1>2, <1>3

(***************************************************************************)
(* fork and exit.                                                          *)
(***************************************************************************)
\* The child of a fork has its parent's files, none of which counts yet.
LEMMA OpenForkBeginStep ==
  ASSUME OpenInv, NEW p \in Proc, ForkBegin(p), UNCHANGED objVars
  PROVE  OpenInv'
<1> DEFINE unused == {c \in Proc : state[c] = "unused"}
           child == Min(unused)
<1>1. /\ Calls(p) /\ unused # {}
      /\ state' = [state EXCEPT ![child] = "ready"]
      /\ files' = [files EXCEPT ![child] = files[p]]
      /\ kernel' = [op |-> "fork", proc |-> p, child |-> child, fd |-> 0, ret |-> 0]
      /\ UNCHANGED <<refCount, object, objCount, size>>
  BY DEF ForkBegin, CopyContext, objVars
<1>2. child \in Proc /\ state[child] = "unused"
  <2>1. unused \in SUBSET Nat
    BY FilesAssumption
  <2> HIDE DEF unused
  <2>2. child \in unused
    BY <1>1, <2>1, MinMax
  <2> QED BY <2>2 DEF unused
<1> HIDE DEF unused, child
<1>3. /\ files \in [Proc -> [Fd -> File \cup Object \cup {NoFile}]]
      /\ state \in [Proc -> {"unused", "ready"}] /\ state[p] = "ready" /\ kernel.op = "user"
  BY <1>1, CallFacts DEF OpenInv, TablesTyped
<1>4. \A x \in Proc : files'[x] = IF x = child THEN files[p] ELSE files[x]
  BY <1>1, <1>3
<1>5. \A g \in Fd : files[child][g] = NoFile /\ g >= 0
  BY <1>2, FilesAssumption DEF OpenInv, UnusedHasNoFiles, Fd
<1>6. kernel'.op = "fork" /\ kernel'.child = child /\ kernel'.fd = 0 /\ kernel'.proc = p
  BY <1>1
<1>7. ASSUME NEW x \in Proc, NEW g \in Fd PROVE CountedFile(x, g)' = CountedFile(x, g)
  <2>1. CASE x = child
    BY <1>3, <1>5, <1>6, <2>1 DEF CountedFile, Counted
  <2>2. CASE x # child
    BY <1>3, <1>4, <1>6, <2>2 DEF CountedFile, Counted
  <2> QED BY <2>1, <2>2
<1>8. kernel' \in KernelLoops
  <2>1. 0 \in 0 .. MaxOpenFiles
    BY FilesAssumption
  <2> QED BY <1>1, <1>2, <2>1 DEF KernelLoops
<1>9. state' \in [Proc -> {"unused", "ready"}]
  BY <1>1, <1>3
<1>10. files' \in [Proc -> [Fd -> File \cup Object \cup {NoFile}]]
  BY <1>1, <1>3
<1>11. UnusedHasNoFiles'
  <2>1. \A x \in Proc : state'[x] = "unused" => x # child /\ state[x] = "unused"
    BY <1>1, <1>3
  <2> QED BY <1>4, <2>1 DEF OpenInv, UnusedHasNoFiles
<1>12. ExitClosed' /\ ForkCopied'
  <2>1. child # p
    BY <1>2, <1>3
  <2> QED BY <1>2, <1>4, <1>6, <2>1 DEF ExitClosed, ForkCopied
<1> QED BY <1>1, <1>7, <1>8, <1>9, <1>10, <1>11, <1>12, KernelMove

\* At the end of the loop every descriptor of the child counts.
LEMMA OpenForkEndStep ==
  ASSUME OpenInv, ForkEnd, UNCHANGED objVars
  PROVE  OpenInv'
<1>1. /\ kernel.op = "fork" /\ kernel.fd = MaxOpenFiles /\ kernel' = UserMode
      /\ UNCHANGED <<state, files, refCount, object, objCount, size>>
  BY DEF ForkEnd, LeaveFork, objVars
<1>2. kernel'.op = "user"
  BY <1>1 DEF UserMode
<1>3. \A g \in Fd : ~ (g >= MaxOpenFiles)
  BY FilesAssumption DEF Fd
<1>4. \A x \in Proc, g \in Fd : CountedFile(x, g)' = CountedFile(x, g)
  BY <1>1, <1>2, <1>3 DEF CountedFile, Counted
<1>5. kernel' \in KernelLoops
  BY <1>1, FilesAssumption DEF KernelLoops, UserMode
<1>6. UnusedHasNoFiles' /\ ExitClosed' /\ ForkCopied'
  BY <1>1, <1>2 DEF OpenInv, UnusedHasNoFiles, ExitClosed, ForkCopied
<1>7. /\ files' \in [Proc -> [Fd -> File \cup Object \cup {NoFile}]]
      /\ state' \in [Proc -> {"unused", "ready"}]
  BY <1>1 DEF OpenInv, TablesTyped, OpenFilesTypeOK
<1> QED BY <1>1, <1>4, <1>5, <1>6, <1>7, KernelMove

\* exit starts with all files open.
LEMMA OpenExitBeginStep ==
  ASSUME OpenInv, NEW p \in Proc, ExitBegin(p), UNCHANGED objVars
  PROVE  OpenInv'
<1>1. /\ Calls(p)
      /\ kernel' = [op |-> "exit", proc |-> p, child |-> p, fd |-> 0, ret |-> 0]
      /\ UNCHANGED <<state, files, refCount, object, objCount, size>>
  BY DEF ExitBegin, EnterExit, objVars
<1>2. /\ kernel.op = "user" /\ kernel'.op = "exit" /\ kernel'.fd = 0
      /\ kernel'.proc = p /\ state[p] = "ready"
  BY <1>1, CallFacts
<1>3. \A x \in Proc, g \in Fd : CountedFile(x, g)' = CountedFile(x, g)
  BY <1>1, <1>2 DEF CountedFile, Counted
<1>4. kernel' \in KernelLoops
  <2>1. 0 \in 0 .. MaxOpenFiles
    BY FilesAssumption
  <2> QED BY <1>1, <2>1 DEF KernelLoops
<1>5. \A g \in Fd : ~ (g < 0)
  BY FilesAssumption DEF Fd
<1>6. UnusedHasNoFiles' /\ ExitClosed' /\ ForkCopied'
  BY <1>1, <1>2, <1>5 DEF OpenInv, UnusedHasNoFiles, ExitClosed, ForkCopied
<1>7. /\ files' \in [Proc -> [Fd -> File \cup Object \cup {NoFile}]]
      /\ state' \in [Proc -> {"unused", "ready"}]
  BY <1>1 DEF OpenInv, TablesTyped, OpenFilesTypeOK
<1> QED BY <1>1, <1>3, <1>4, <1>6, <1>7, KernelMove

\* The context is given up when every descriptor is closed.
LEMMA OpenExitEndStep ==
  ASSUME OpenInv, ExitEnd, UNCHANGED objVars
  PROVE  OpenInv'
<1>1. /\ kernel.op = "exit" /\ kernel.fd = MaxOpenFiles
      /\ state' = [state EXCEPT ![kernel.proc] = "unused"] /\ kernel' = UserMode
      /\ UNCHANGED <<files, refCount, object, objCount, size>>
  BY DEF ExitEnd, FreeContext, objVars
<1>2. kernel'.op = "user"
  BY <1>1 DEF UserMode
<1>3. \A x \in Proc, g \in Fd : CountedFile(x, g)' = CountedFile(x, g)
  BY <1>1, <1>2 DEF CountedFile, Counted
<1>4. kernel' \in KernelLoops
  BY <1>1, FilesAssumption DEF KernelLoops, UserMode
<1>5. /\ files' \in [Proc -> [Fd -> File \cup Object \cup {NoFile}]]
      /\ state \in [Proc -> {"unused", "ready"}]
  BY <1>1 DEF OpenInv, TablesTyped, OpenFilesTypeOK
<1>6. state' \in [Proc -> {"unused", "ready"}]
  BY <1>1, <1>5
<1>7. UnusedHasNoFiles'
  <2>1. \A g \in Fd : g < MaxOpenFiles
    BY FilesAssumption DEF Fd
  <2>2. \A x \in Proc : state'[x] = "unused" => x = kernel.proc \/ state[x] = "unused"
    BY <1>1, <1>5
  <2> QED BY <1>1, <2>1, <2>2 DEF OpenInv, UnusedHasNoFiles, ExitClosed
<1>8. ExitClosed' /\ ForkCopied'
  BY <1>2 DEF ExitClosed, ForkCopied
<1> QED BY <1>1, <1>3, <1>4, <1>5, <1>6, <1>7, <1>8, KernelMove

(***************************************************************************)
(* One turn of the loop of do_file_fork (file.c:41-63): the descriptor of  *)
(* the child counts from here on.                                          *)
(***************************************************************************)
LEMMA ForkTurn ==
  ASSUME OpenInv, kernel.op = "fork", kernel.fd < MaxOpenFiles,
         UNCHANGED <<state, files, object, size>>,
         kernel'.op = "fork", kernel'.proc = kernel.proc, kernel'.child = kernel.child,
         kernel'.fd = kernel.fd + 1, kernel' \in KernelLoops,
         refCount' = Moved(files[kernel.child][kernel.fd], NoFile),
         objCount' = MovedCount(files[kernel.child][kernel.fd], NoFile)
  PROVE  OpenInv'
<1>0. kernel.child \in Proc /\ kernel.fd \in Fd
  BY FilesAssumption DEF OpenInv, TablesTyped, KernelLoops, Fd
<1> PICK c \in Proc, k \in Fd : c = kernel.child /\ k = kernel.fd
  BY <1>0
<1> DEFINE f == files[c][k]
<1>1. /\ kernel.proc \in Proc /\ k \in Nat
      /\ files \in [Proc -> [Fd -> File \cup Object \cup {NoFile}]]
      /\ object \in [Object -> ObjectType \cup {NoObject}] /\ objCount \in [Object -> Nat]
  BY FilesAssumption DEF OpenInv, TablesTyped, OpenFilesTypeOK, KernelLoops, Fd
<1>2. OneChanges(c, k, NoFile, f)
  <2>1. CountedFile(c, k) = NoFile /\ CountedFile(c, k)' = f
    BY <1>1 DEF CountedFile, Counted
  <2>2. ASSUME NEW x \in Proc, NEW g \in Fd, ~ (x = c /\ g = k)
        PROVE  CountedFile(x, g)' = CountedFile(x, g)
    <3>1. x = c => (g >= k <=> g >= k + 1)
      BY <1>1, <2>2 DEF Fd
    <3> QED BY <3>1 DEF CountedFile, Counted
  <2> QED BY <2>1, <2>2 DEF OneChanges
<1>3. CountsMatch'
  <2>1. refCount' = Moved(f, NoFile) /\ objCount' = MovedCount(f, NoFile)
    OBVIOUS
  <2> HIDE DEF f
  <2> QED BY <1>2, <2>1, CountsOfInv, Recount
<1>4. f \in Object => objCount[f] > 0
  <2>1. files[kernel.proc][k] = f /\ Counted(kernel.proc, k)
    BY DEF OpenInv, ForkCopied, Counted
  <2> QED BY <1>1, <2>1, HeldExists
<1>5. \A o \in Object : objCount'[o] > 0 <=> objCount[o] > 0
  <2>1. \A o \in Object : o # NoFile /\ objCount[o] \in Nat
    BY <1>1, OpenFilesAssumption
  <2>2. \A o \in Object : objCount'[o] = (objCount[o] + (IF o = f THEN 1 ELSE 0)) - 0
    BY <2>1 DEF MovedCount
  <2> HIDE DEF f
  <2> QED BY <1>4, <2>1, <2>2
<1>6. CountsMatchDescriptors' /\ ObjectsAgree'
  BY <1>3, <1>5, CountsOfInv DEF OpenInv, ObjectsAgree
<1>7. TablesTyped'
  BY <1>3 DEF OpenInv, TablesTyped, OpenFilesTypeOK, CountsMatch
<1>8. UnusedHasNoFiles' /\ ExitClosed' /\ ForkCopied'
  BY DEF OpenInv, UnusedHasNoFiles, ExitClosed, ForkCopied
<1>9. OffsetsInFile'
  BY DEF OpenInv, OffsetsInFile, IsRegular, IsObject
<1> QED BY <1>6, <1>7, <1>8, <1>9 DEF OpenInv

\* The record of the loop after a turn.
LEMMA NextTurn ==
  ASSUME OpenInv, kernel.fd < MaxOpenFiles,
         \/ kernel' = [kernel EXCEPT !.fd = @ + 1]
         \/ \E r \in {0, -EOTHERS} : kernel' = [kernel EXCEPT !.fd = @ + 1, !.ret = r]
  PROVE  /\ kernel'.op = kernel.op /\ kernel'.proc = kernel.proc /\ kernel'.child = kernel.child
         /\ kernel'.fd = kernel.fd + 1 /\ kernel' \in KernelLoops
<1>1. kernel \in KernelLoops /\ kernel.fd + 1 \in 0 .. MaxOpenFiles
  BY FilesAssumption DEF OpenInv, TablesTyped, KernelLoops
<1> QED BY <1>1 DEF KernelLoops

LEMMA OpenForkFileStep ==
  ASSUME OpenInv, kernel.fd < MaxOpenFiles, OnPipe(files[kernel.child][kernel.fd]), ForkFile,
         UNCHANGED objVars
  PROVE  OpenInv'
<1> DEFINE f == files[kernel.child][kernel.fd]
<1>1. /\ kernel.op = "fork" /\ UNCHANGED <<state, files, object, size>> /\ objCount' = objCount
      /\ \/ kernel' = [kernel EXCEPT !.fd = @ + 1]
         \/ \E r \in {0, -EOTHERS} : kernel' = [kernel EXCEPT !.fd = @ + 1, !.ret = r]
  BY DEF ForkFile, PipeFork, objVars
<1>2. /\ refCount \in [File -> Nat] /\ objCount \in [Object -> Nat]
      /\ NoFile \notin File /\ NoFile \notin Object /\ f \notin Object
  BY FilesAssumption, OpenFilesAssumption DEF OpenInv, TablesTyped, OpenFilesTypeOK, OnPipe
<1>3. refCount' = Moved(f, NoFile)
  <2>1. CASE f = NoFile
    <3>1. refCount' = refCount
      BY <2>1 DEF ForkFile
    <3>2. refCount = Moved(NoFile, NoFile)
      BY <1>2, CountForms
    <3> QED BY <2>1, <3>1, <3>2
  <2>2. CASE f \in File
    <3>1. refCount' = Raised(f)
      BY <1>2, <2>2 DEF ForkFile
    <3> HIDE DEF f
    <3> QED BY <1>2, <2>2, <3>1, CountForms
  <2> QED BY <2>1, <2>2 DEF OnPipe
<1>4. objCount' = MovedCount(f, NoFile)
  <2> HIDE DEF f
  <2> QED BY <1>1, <1>2, CountForms
<1> QED BY <1>1, <1>3, <1>4, NextTurn, ForkTurn

LEMMA OpenForkOtherStep ==
  ASSUME OpenInv, ForkOther
  PROVE  OpenInv'
<1> DEFINE f == files[kernel.child][kernel.fd]
<1>1. /\ kernel.op = "fork" /\ kernel.fd < MaxOpenFiles /\ f \in Object
      /\ UNCHANGED <<state, files, object, size>> /\ Share(f)
      /\ kernel' = [kernel EXCEPT !.fd = @ + 1]
  BY DEF ForkOther, IsObject
<1>2. /\ refCount \in [File -> Nat] /\ objCount \in [Object -> Nat]
      /\ NoFile \notin File /\ NoFile \notin Object /\ f \notin File
  BY <1>1, FilesAssumption, OpenFilesAssumption DEF OpenInv, TablesTyped, OpenFilesTypeOK
<1>3. refCount' = Moved(f, NoFile) /\ objCount' = MovedCount(f, NoFile)
  <2>1. refCount' = refCount /\ objCount' = [objCount EXCEPT ![f] = @ + 1]
    BY <1>1, <1>2 DEF Share, IsPipe, IsObject
  <2> HIDE DEF f
  <2> QED BY <1>1, <1>2, <2>1, CountForms
<1> QED BY <1>1, <1>3, NextTurn, ForkTurn

(***************************************************************************)
(* One turn of the loop of do_file_exit (file.c:67-82).                    *)
(***************************************************************************)
LEMMA ExitTurn ==
  ASSUME OpenInv, kernel.op = "exit", kernel.fd < MaxOpenFiles, UNCHANGED <<state, size>>,
         kernel' = [kernel EXCEPT !.fd = @ + 1],
         files' = [files EXCEPT ![kernel.proc][kernel.fd] = NoFile],
         refCount' = Moved(NoFile, files[kernel.proc][kernel.fd]),
         objCount' = MovedCount(NoFile, files[kernel.proc][kernel.fd]),
         object' = FreedObjects
  PROVE  OpenInv'
<1> DEFINE p == kernel.proc
           k == kernel.fd
<1>1. /\ p \in Proc /\ k \in Fd /\ state[p] = "ready" /\ NoFile \notin Object
      /\ files \in [Proc -> [Fd -> File \cup Object \cup {NoFile}]]
  BY FilesAssumption, OpenFilesAssumption
     DEF OpenInv, TablesTyped, OpenFilesTypeOK, KernelLoops, Fd, ExitClosed
<1>2. /\ kernel'.op = "exit" /\ kernel'.proc = p /\ kernel'.fd = k + 1
      /\ kernel' \in KernelLoops
  BY NextTurn
<1>3. ExitClosed'
  <2>1. \A g \in Fd : g < k + 1 => g = k \/ g < k
    BY <1>1 DEF Fd
  <2>2. \A g \in Fd : g < k + 1 => files'[p][g] = NoFile
    BY <1>1, <2>1 DEF OpenInv, ExitClosed
  <2> QED BY <1>1, <1>2, <2>2 DEF ExitClosed
<1>4. NoFile \in AllFiles \cup {NoFile}
  OBVIOUS
<1> HIDE DEF p, k
<1> QED BY <1>1, <1>2, <1>3, <1>4, ChangeStep DEF p, k

LEMMA OpenExitFileStep ==
  ASSUME OpenInv, kernel.fd < MaxOpenFiles, OnPipe(files[kernel.proc][kernel.fd]), ExitFile,
         UNCHANGED objVars
  PROVE  OpenInv'
<1> DEFINE p == kernel.proc
           k == kernel.fd
           f == files[p][k]
<1>1. /\ kernel.op = "exit" /\ UNCHANGED <<state, object, objCount, size>>
      /\ kernel' = [kernel EXCEPT !.fd = @ + 1]
  BY DEF ExitFile, objVars
<1>2. /\ refCount \in [File -> Nat] /\ objCount \in [Object -> Nat]
      /\ NoFile \notin File /\ NoFile \notin Object /\ f \notin Object
      /\ p \in Proc /\ k \in Fd
      /\ files \in [Proc -> [Fd -> File \cup Object \cup {NoFile}]]
  BY FilesAssumption, OpenFilesAssumption
     DEF OpenInv, TablesTyped, OpenFilesTypeOK, OnPipe, KernelLoops, Fd
<1>3. refCount' = Moved(NoFile, f) /\ files' = [files EXCEPT ![p][k] = NoFile]
  <2>1. CASE f = NoFile
    <3>1. refCount' = refCount /\ files' = files
      BY <2>1 DEF ExitFile
    <3>2. refCount = Moved(NoFile, NoFile)
      BY <1>2, CountForms
    <3>3. files = [files EXCEPT ![p][k] = NoFile]
      BY <1>2, <2>1
    <3> QED BY <2>1, <3>1, <3>2, <3>3
  <2>2. CASE f \in File
    <3>1. refCount' = Released(f) /\ files' = [files EXCEPT ![p][k] = NoFile]
      BY <1>2, <2>2 DEF ExitFile
    <3> HIDE DEF f, p, k
    <3> QED BY <1>2, <2>2, <3>1, CountForms
  <2> QED BY <2>1, <2>2 DEF OnPipe
<1>4. objCount' = MovedCount(NoFile, f)
  <2> HIDE DEF f
  <2> QED BY <1>1, <1>2, CountForms
<1>5. object' = FreedObjects
  BY <1>1, SameObjects
<1> QED BY <1>1, <1>3, <1>4, <1>5, ExitTurn

LEMMA OpenExitOtherStep ==
  ASSUME OpenInv, ExitOther
  PROVE  OpenInv'
<1> DEFINE f == files[kernel.proc][kernel.fd]
<1>1. /\ kernel.op = "exit" /\ kernel.fd < MaxOpenFiles /\ f \in Object
      /\ UNCHANGED <<state, refCount, size>> /\ CloseObject(f)
      /\ files' = [files EXCEPT ![kernel.proc][kernel.fd] = NoFile]
      /\ kernel' = [kernel EXCEPT !.fd = @ + 1]
  BY DEF ExitOther, IsObject
<1>2. /\ refCount \in [File -> Nat] /\ objCount \in [Object -> Nat]
      /\ NoFile \notin File /\ NoFile \notin Object /\ f \notin File
  BY <1>1, FilesAssumption, OpenFilesAssumption DEF OpenInv, TablesTyped, OpenFilesTypeOK
<1>3. /\ refCount' = Moved(NoFile, f) /\ objCount' = MovedCount(NoFile, f)
      /\ object' = FreedObjects
  <2> HIDE DEF f
  <2> QED BY <1>1, <1>2, CountForms, ClosedObject
<1> QED BY <1>1, <1>3, ExitTurn

(***************************************************************************)
(* The calls on objects.  Files only grow, and an offset that moves stays  *)
(* in its file.                                                            *)
(***************************************************************************)
FilesGrow == /\ size' \in [Inode -> Offset]
             /\ \A n \in Inode : size[n] <= size'[n]

StaysInFile(o) ==
  \/ object'[o] = object[o]
  \/ \E pos \in 0 .. MaxSize :
       /\ object[o] \in ObjectType
       /\ object'[o] = [object[o] EXCEPT !.offp = pos]
       /\ object[o].inode \in Inode => pos <= size'[object[o].inode]

LEMMA OffsetStep ==
  ASSUME OpenInv, UNCHANGED <<state, files, refCount, kernel, objCount>>, FilesGrow,
         object' = [o \in Object |-> object'[o]], \A o \in Object : StaysInFile(o)
  PROVE  OpenInv'
<1>1. /\ object \in [Object -> ObjectType \cup {NoObject}] /\ size \in [Inode -> Offset]
      /\ NoObject \notin ObjectType /\ MaxSize \in Nat
  BY OpenFilesAssumption DEF OpenInv, TablesTyped, OpenFilesTypeOK
<1>2. ASSUME NEW o \in Object
      PROVE  /\ object'[o] \in ObjectType \cup {NoObject}
             /\ object'[o] = NoObject <=> object[o] = NoObject
             /\ object'[o] # NoObject /\ object'[o].inode \in Inode
                  => object'[o].offp <= size'[object'[o].inode]
  <2>1. CASE object'[o] = object[o]
    <3>1. ASSUME object[o] # NoObject, object[o].inode \in Inode
          PROVE  object[o].offp <= size'[object[o].inode]
      <4>1. object[o].offp <= size[object[o].inode]
        BY <3>1 DEF OpenInv, OffsetsInFile, IsRegular, IsObject
      <4>2. /\ object[o].offp \in Int
            /\ size[object[o].inode] \in Int /\ size'[object[o].inode] \in Int
            /\ size[object[o].inode] <= size'[object[o].inode]
        BY <1>1, <3>1 DEF ObjectType, FilesGrow, Offset
      <4> QED BY <4>1, <4>2
    <3> QED BY <1>1, <2>1, <3>1
  <2>2. CASE object'[o] # object[o]
    <3>1. PICK pos \in 0 .. MaxSize :
            /\ object[o] \in ObjectType
            /\ object'[o] = [object[o] EXCEPT !.offp = pos]
            /\ object[o].inode \in Inode => pos <= size'[object[o].inode]
      BY <2>2 DEF StaysInFile
    <3>2. /\ object'[o] \in ObjectType /\ object'[o].offp = pos
          /\ object'[o].inode = object[o].inode
      BY <3>1 DEF ObjectType
    <3> QED BY <1>1, <3>1, <3>2
  <2> QED BY <2>1, <2>2
<1>3. object' \in [Object -> ObjectType \cup {NoObject}]
  BY <1>2
<1>4. OffsetsInFile'
  BY <1>2 DEF OffsetsInFile, IsRegular, IsObject
<1> QED BY <1>2, <1>3, <1>4, QuietStep DEF FilesGrow

\* A call that moves the offset of the object o and no other.
LEMMA OneOffsetStep ==
  ASSUME OpenInv, UNCHANGED <<state, files, refCount, kernel, objCount>>, FilesGrow,
         NEW o \in Object, object[o] \in ObjectType, NEW pos \in 0 .. MaxSize,
         object' = AtOffset(o, pos),
         object[o].inode \in Inode => pos <= size'[object[o].inode]
  PROVE  OpenInv'
<1>1. object \in [Object -> ObjectType \cup {NoObject}]
  BY DEF OpenInv, TablesTyped, OpenFilesTypeOK
<1>2. /\ object' = [x \in Object |-> object'[x]]
      /\ \A x \in Object : object'[x] = IF x = o THEN [object[o] EXCEPT !.offp = pos]
                                                 ELSE object[x]
  BY <1>1 DEF AtOffset
<1>3. \A x \in Object : StaysInFile(x)
  BY <1>2 DEF StaysInFile
<1> QED BY <1>2, <1>3, OffsetStep

\* No file changes its size.
LEMMA SameSizes ==
  ASSUME OpenInv, size' = size
  PROVE  FilesGrow
BY DEF OpenInv, TablesTyped, OpenFilesTypeOK, FilesGrow, Offset

\* A file opened through a descriptor exists, with its offset in it.
LEMMA OpenObject ==
  ASSUME OpenInv, NEW p \in Proc, Calls(p), NEW fd \in Fd, files[p][fd] \in Object
  PROVE  LET o == files[p][fd]
             n == object[o].inode
         IN  /\ object[o] \in ObjectType /\ object[o].offp \in Nat
             /\ object[o].offp <= MaxSize /\ MaxSize \in Nat
             /\ IsRegular(o) <=> n \in Inode
             /\ n \in Inode => /\ size[n] \in Int /\ size[n] <= MaxSize
                               /\ object[o].offp <= size[n]
<1> DEFINE o == files[p][fd]
           n == object[o].inode
<1>1. object[o] \in ObjectType /\ MaxSize \in Nat
  BY CallFacts, HeldExists, OpenFilesAssumption
<1>2. IsRegular(o) <=> n \in Inode
  BY DEF IsRegular, IsObject
<1>3. size \in [Inode -> Offset]
  BY DEF OpenInv, TablesTyped, OpenFilesTypeOK
<1>4. n \in Inode => object[o].offp <= size[n]
  BY <1>1, <1>2, OpenFilesAssumption DEF OpenInv, OffsetsInFile
<1> QED BY <1>1, <1>2, <1>3, <1>4 DEF ObjectType, Offset

\* What a read delivers ends in the file (fs.o, as file.c:165-183 uses it).
LEMMA ReadEnds ==
  ASSUME NEW n \in Inode, size[n] \in Int, size[n] <= MaxSize, MaxSize \in Nat,
         NEW pos \in Nat, pos <= size[n], NEW count \in Count
  PROVE  /\ pos + ReadSize(n, pos, count) \in 0 .. MaxSize
         /\ pos + ReadSize(n, pos, count) <= size[n]
BY DEF ReadSize, Left, Count

LEMMA OpenReadStep ==
  ASSUME OpenInv, NEW p \in Proc, NEW fd \in Fd, NEW count \in Count, ReadObject(p, fd, count)
  PROVE  OpenInv'
<1> DEFINE o == files[p][fd]
           n == object[o].inode
           pos == object[o].offp
<1>1. /\ Calls(p) /\ o \in Object
      /\ UNCHANGED <<state, files, refCount, kernel, objCount, size>>
  BY DEF ReadObject, IsObject
<1>2. CASE object' = object
  BY <1>1, <1>2, PipeOnly
<1>3. CASE IsRegular(o) /\ object' = AtOffset(o, pos + ReadSize(n, pos, count))
  <2>1. /\ object[o] \in ObjectType /\ pos \in Nat /\ n \in Inode /\ MaxSize \in Nat
        /\ size[n] \in Int /\ size[n] <= MaxSize /\ pos <= size[n]
    BY <1>1, <1>3, OpenObject
  <2> HIDE DEF o, n, pos
  <2>2. /\ pos + ReadSize(n, pos, count) \in 0 .. MaxSize
        /\ pos + ReadSize(n, pos, count) <= size[n]
    BY <2>1, ReadEnds
  <2>3. FilesGrow
    BY <1>1, SameSizes
  <2> QED BY <1>1, <1>3, <2>1, <2>2, <2>3, OneOffsetStep DEF n
<1> QED BY <1>2, <1>3 DEF ReadObject

\* A write that fits ends in the file it leaves.
LEMMA WriteEnds ==
  ASSUME OpenInv, NEW n \in Inode, size[n] \in Int, size[n] <= MaxSize, MaxSize \in Nat,
         NEW pos \in Nat, pos <= size[n], NEW count \in Count, Fits(pos, count),
         size' = SizeAfter(n, pos, count)
  PROVE  FilesGrow /\ pos + count \in 0 .. MaxSize /\ pos + count <= size'[n]
<1>1. size \in [Inode -> Offset] /\ count \in Nat
  BY OpenFilesAssumption DEF OpenInv, TablesTyped, OpenFilesTypeOK, Count
<1>2. pos + count \in 0 .. MaxSize
  BY <1>1 DEF Fits
<1>3. \A m \in Inode : size'[m] = IF m = n THEN (IF pos + count > size[n] THEN pos + count
                                                                         ELSE size[n])
                                           ELSE size[m]
  BY <1>1 DEF SizeAfter
<1>4. size' \in [Inode -> Offset]
  <2>1. pos + count \in Offset
    BY <1>2 DEF Offset
  <2> QED BY <1>1, <2>1 DEF SizeAfter
<1>5. \A m \in Inode : size[m] \in Int
  BY <1>1 DEF Offset
<1> QED BY <1>2, <1>3, <1>4, <1>5 DEF FilesGrow

LEMMA OpenWriteStep ==
  ASSUME OpenInv, NEW p \in Proc, NEW fd \in Fd, NEW count \in Count, WriteObject(p, fd, count)
  PROVE  OpenInv'
<1> DEFINE o == files[p][fd]
           n == object[o].inode
           pos == object[o].offp
<1>1. /\ Calls(p) /\ o \in Object
      /\ UNCHANGED <<state, files, refCount, kernel, objCount>>
  BY DEF WriteObject, IsObject
<1>2. CASE UNCHANGED <<object, size>>
  BY <1>1, <1>2, PipeOnly
<1>3. CASE /\ IsRegular(o) /\ Fits(pos, count)
           /\ object' = AtOffset(o, pos + count) /\ size' = SizeAfter(n, pos, count)
  <2>1. /\ object[o] \in ObjectType /\ pos \in Nat /\ n \in Inode /\ MaxSize \in Nat
        /\ size[n] \in Int /\ size[n] <= MaxSize /\ pos <= size[n]
    BY <1>1, <1>3, OpenObject
  <2> HIDE DEF o, n, pos
  <2>2. FilesGrow /\ pos + count \in 0 .. MaxSize /\ pos + count <= size'[n]
    BY <1>3, <2>1, WriteEnds
  <2> QED BY <1>1, <1>3, <2>1, <2>2, OneOffsetStep DEF n
<1> QED BY <1>2, <1>3 DEF WriteObject

LEMMA OpenLseekStep ==
  ASSUME OpenInv, NEW p \in Proc, NEW fd \in Fd, NEW off \in Offset, NEW whence \in Whence,
         Lseek(p, fd, off, whence)
  PROVE  OpenInv'
<1> DEFINE o == files[p][fd]
           n == object[o].inode
           pos == Target(o, off, whence)
<1>1. Calls(p) /\ UNCHANGED <<state, files, refCount, kernel, objCount, size>>
  BY DEF Lseek
<1>2. CASE object' = object
  BY <1>1, <1>2, PipeOnly
<1>3. CASE IsRegular(o) /\ InFileSeek(o, pos) /\ object' = AtOffset(o, pos)
  <2>1. o \in Object
    BY <1>3 DEF IsRegular, IsObject
  <2>2. /\ object[o] \in ObjectType /\ object[o].offp \in Nat /\ n \in Inode
        /\ MaxSize \in Nat /\ size[n] \in Int /\ size[n] <= MaxSize
    BY <1>1, <1>3, <2>1, OpenObject
  <2>3. pos \in Int
    BY <2>2 DEF Target, Offset
  <2>4. pos >= 0 /\ pos <= size[n]
    BY <1>3 DEF InFileSeek
  <2> HIDE DEF o, n, pos
  <2>5. pos \in 0 .. MaxSize
    BY <2>2, <2>3, <2>4
  <2>6. FilesGrow
    BY <1>1, SameSizes
  <2> QED BY <1>1, <1>3, <2>1, <2>2, <2>4, <2>5, <2>6, OneOffsetStep DEF n
<1> QED BY <1>2, <1>3 DEF Lseek

\* The objects between the read and the write of sendfile: offsets in files of the old sizes.
ReadLeaves(read) ==
  /\ read = [o \in Object |-> read[o]]
  /\ \A o \in Object :
       \/ read[o] = object[o]
       \/ \E pos \in 0 .. MaxSize :
            /\ object[o] \in ObjectType
            /\ read[o] = [object[o] EXCEPT !.offp = pos]
            /\ object[o].inode \in Inode => pos <= size[object[o].inode]

LEMMA SendfileReads ==
  ASSUME OpenInv, NEW p \in Proc, Calls(p), NEW infd \in Fd, NEW off, NEW count \in Count
  PROVE  ReadLeaves(AfterRead(files[p][infd], off, count))
<1> DEFINE i == files[p][infd]
           n == object[i].inode
           read == AfterRead(i, off, count)
           pos == InOffset(i, off, count)
<1>1. object \in [Object -> ObjectType \cup {NoObject}]
  BY DEF OpenInv, TablesTyped, OpenFilesTypeOK
<1>2. CASE ~ IsRegular(i)
  BY <1>1, <1>2 DEF ReadLeaves, AfterRead
<1>3. CASE IsRegular(i)
  <2>1. i \in Object
    BY <1>3 DEF IsRegular, IsObject
  <2>2. /\ object[i] \in ObjectType /\ object[i].offp \in Nat /\ object[i].offp <= MaxSize
        /\ n \in Inode /\ MaxSize \in Nat
        /\ size[n] \in Int /\ size[n] <= MaxSize /\ object[i].offp <= size[n]
    BY <1>3, <2>1, OpenObject
  <2>3. pos \in 0 .. MaxSize /\ pos <= size[n]
    <3>1. CASE off = NoOffset
      <4>1. pos = object[i].offp + ReadSize(n, object[i].offp, count)
        BY <3>1 DEF InOffset
      <4> HIDE DEF pos, n, i
      <4> QED BY <2>2, <4>1, ReadEnds
    <3>2. CASE off # NoOffset
      BY <2>2, <3>2 DEF InOffset
    <3> QED BY <3>1, <3>2
  <2>4. read = AtOffset(i, pos)
    BY <1>3 DEF AfterRead
  <2> HIDE DEF i, pos, read
  <2>5. /\ read = [o \in Object |-> read[o]]
        /\ \A o \in Object : read[o] = IF o = i THEN [object[i] EXCEPT !.offp = pos]
                                                ELSE object[o]
    BY <1>1, <2>4 DEF AtOffset
  <2>6. ReadLeaves(read)
    BY <2>1, <2>2, <2>3, <2>5 DEF ReadLeaves
  <2> QED BY <2>6 DEF read, i
<1> QED BY <1>2, <1>3

LEMMA OpenSendfileStep ==
  ASSUME OpenInv, NEW p \in Proc, NEW outfd \in Fd, NEW infd \in Fd,
         NEW off \in Offset \cup {NoOffset}, NEW count \in Count,
         Sendfile(p, outfd, infd, off, count)
  PROVE  OpenInv'
<1> DEFINE f == files[p][outfd]
           n == object[f].inode
           read == AfterRead(files[p][infd], off, count)
           pos == read[f].offp
<1>1. Calls(p) /\ UNCHANGED <<state, files, refCount, kernel, objCount>>
  BY DEF Sendfile
<1>2. CASE UNCHANGED <<object, size>>
  BY <1>1, <1>2, PipeOnly
<1>3. ReadLeaves(read)
  BY <1>1, SendfileReads
<1>4. CASE object' = read /\ UNCHANGED size
  <2> HIDE DEF read
  <2>1. FilesGrow
    BY <1>4, SameSizes
  <2>2. \A o \in Object : StaysInFile(o)
    BY <1>3, <1>4 DEF ReadLeaves, StaysInFile
  <2> QED BY <1>1, <1>3, <1>4, <2>1, <2>2, OffsetStep DEF ReadLeaves
<1>5. CASE /\ IsRegular(f) /\ Fits(pos, count)
           /\ object' = [read EXCEPT ![f].offp = pos + count]
           /\ size' = SizeAfter(n, pos, count)
  <2>1. f \in Object
    BY <1>5 DEF IsRegular, IsObject
  <2>2. /\ object[f] \in ObjectType /\ object[f].offp \in Nat /\ n \in Inode /\ MaxSize \in Nat
        /\ size[n] \in Int /\ size[n] <= MaxSize /\ object[f].offp <= size[n]
    BY <1>1, <1>5, <2>1, OpenObject
  <2> HIDE DEF f, read
  <2>3. /\ pos \in Nat /\ pos <= size[n]
        /\ \A q \in 0 .. MaxSize : [read[f] EXCEPT !.offp = q] = [object[f] EXCEPT !.offp = q]
    BY <1>3, <2>1, <2>2 DEF ReadLeaves, ObjectType
  <2> HIDE DEF pos, n
  <2>4. FilesGrow /\ pos + count \in 0 .. MaxSize /\ pos + count <= size'[n]
    BY <1>5, <2>2, <2>3, WriteEnds
  <2>5. /\ object' = [o \in Object |-> object'[o]]
        /\ \A o \in Object : object'[o] = IF o = f THEN [read[f] EXCEPT !.offp = pos + count]
                                                   ELSE read[o]
    BY <1>3, <1>5 DEF ReadLeaves
  <2>6. ASSUME NEW o \in Object PROVE StaysInFile(o)
    <3>1. CASE o = f
      BY <2>2, <2>3, <2>4, <2>5, <3>1 DEF StaysInFile, n
    <3>2. CASE o # f
      <4>1. \A q \in 0 .. MaxSize : \A m \in Inode : q <= size[m] => q <= size'[m]
        <5>1. \A m \in Inode : size[m] \in Int /\ size'[m] \in Int /\ size[m] <= size'[m]
          BY <2>4 DEF FilesGrow, OpenInv, TablesTyped, OpenFilesTypeOK, Offset
        <5> QED BY <5>1
      <4> QED BY <1>3, <2>5, <3>2, <4>1 DEF ReadLeaves, StaysInFile
    <3> QED BY <3>1, <3>2
  <2> QED BY <1>1, <2>4, <2>5, <2>6, OffsetStep
<1>6. SendTo(p, f, read, count) \/ UNCHANGED <<object, size>>
  BY DEF Sendfile
<1>7. SendTo(p, f, read, count) =>
        \/ object' = read /\ UNCHANGED size
        \/ /\ IsRegular(f) /\ Fits(pos, count)
           /\ object' = [read EXCEPT ![f].offp = pos + count]
           /\ size' = SizeAfter(n, pos, count)
  BY DEF SendTo
<1> QED BY <1>2, <1>4, <1>5, <1>6, <1>7

(***************************************************************************)
(* close, dup and dup2 of objects.                                         *)
(***************************************************************************)
LEMMA OpenCloseOtherStep ==
  ASSUME OpenInv, NEW p \in Proc, NEW fd \in Fd, CloseOther(p, fd)
  PROVE  OpenInv'
<1> DEFINE f == files[p][fd]
<1>1. /\ Calls(p) /\ f \in Object /\ CloseObject(f)
      /\ UNCHANGED <<state, refCount, kernel, size>>
      /\ files' = [files EXCEPT ![p][fd] = NoFile]
  BY DEF CloseOther, IsObject
<1>2. /\ refCount' = Moved(NoFile, f) /\ objCount' = MovedCount(NoFile, f)
      /\ object' = FreedObjects
  <2>1. NoFile \notin File /\ f \notin File
    BY <1>1, CallFacts
  <2> HIDE DEF f
  <2> QED BY <1>1, <2>1, CallFacts, CountForms, ClosedObject
<1>3. NoFile \in AllFiles \cup {NoFile} /\ NoFile \notin Object
  BY <1>1, CallFacts
<1> QED BY <1>1, <1>2, <1>3, CallStep

LEMMA OpenDupOtherStep ==
  ASSUME OpenInv, NEW p \in Proc, NEW oldfd \in Fd, DupOther(p, oldfd)
  PROVE  OpenInv'
<1> DEFINE f == files[p][oldfd]
           free == {fd \in FreeFds(p) : fd >= DupBase}
<1>1. /\ Calls(p) /\ f \in Object
      /\ UNCHANGED <<state, refCount, kernel, object, size>>
  BY DEF DupOther, IsObject
<1>2. CASE UNCHANGED <<files, objCount>>
  BY <1>1, <1>2, PipeOnly
<1>3. CASE ~ UNCHANGED <<files, objCount>>
  <2> DEFINE new == Min(free)
  <2>1. /\ free # {} /\ files' = [files EXCEPT ![p][new] = f]
        /\ objCount' = [objCount EXCEPT ![f] = @ + 1]
    BY <1>3 DEF DupOther
  <2>2. new \in Fd /\ files[p][new] = NoFile
    BY <2>1, LowestFree
  <2>3. objCount[f] > 0 /\ f \notin File /\ NoFile \notin File
    BY <1>1, CallFacts, HeldExists
  <2> HIDE DEF f, new, free
  <2>4. refCount' = Moved(f, NoFile) /\ objCount' = MovedCount(f, NoFile)
    BY <1>1, <2>1, <2>3, CallFacts, CountForms
  <2>5. object' = FreedObjects
    <3>1. objCount \in [Object -> Nat]
      BY <1>1, CallFacts
    <3>2. \A o \in Object : objCount'[o] = 0 <=> objCount[o] = 0
      BY <2>1, <2>3, <3>1
    <3> QED BY <1>1, <3>2, SameObjects
  <2>6. f \in AllFiles \cup {NoFile} /\ files[p][oldfd] = f
    BY <1>1 DEF AllFiles, f
  <2> QED BY <1>1, <2>1, <2>2, <2>4, <2>5, <2>6, CallStep
<1> QED BY <1>2, <1>3

LEMMA OpenDup2OtherStep ==
  ASSUME OpenInv, NEW p \in Proc, NEW oldfd \in Fd, NEW newfd \in Fd,
         Dup2Other(p, oldfd, newfd)
  PROVE  OpenInv'
<1> DEFINE f == files[p][oldfd]
           old == files[p][newfd]
<1>1. Calls(p) /\ UNCHANGED <<state, kernel, size>>
  BY DEF Dup2Other
<1>2. CASE f = NoFile \/ oldfd = newfd
  <2>1. UNCHANGED <<files, refCount, object, objCount>>
    BY <1>2 DEF Dup2Other
  <2> QED BY <1>1, <2>1, PipeOnly
<1>3. CASE f # NoFile /\ oldfd # newfd
  <2>1. /\ files' = [files EXCEPT ![p][newfd] = f]
        /\ refCount' = Moved(f, old) /\ objCount' = MovedCount(f, old)
        /\ object' = [o \in Object |-> IF MovedCount(f, old)[o] = 0 THEN NoObject ELSE object[o]]
    BY <1>3 DEF Dup2Other
  <2>2. object' = FreedObjects
    BY <2>1 DEF FreedObjects
  <2>3. f \in AllFiles \cup {NoFile} /\ (f \in Object => \E g \in Fd : files[p][g] = f)
    BY <1>1, CallFacts DEF AllFiles
  <2> HIDE DEF f
  <2> QED BY <1>1, <2>1, <2>2, <2>3, CallStep
<1> QED BY <1>2, <1>3

(***************************************************************************)
(* open.                                                                   *)
(***************************************************************************)
\* A free page becomes the object of a free descriptor of the caller.
LEMMA InstallStep ==
  ASSUME OpenInv, NEW p \in Proc, Calls(p), NEW fd \in Fd, files[p][fd] = NoFile,
         NEW o \in Object, NEW file \in ObjectType,
         file.inode \in Inode => file.offp <= size'[file.inode],
         Install(p, fd, o, file), UNCHANGED <<state, refCount, kernel>>, FilesGrow
  PROVE  OpenInv'
<1>1. /\ objCount[o] = 0 /\ object' = [object EXCEPT ![o] = file]
      /\ objCount' = [objCount EXCEPT ![o] = 1] /\ files' = [files EXCEPT ![p][fd] = o]
  BY DEF Install, FreeObjects
<1>2. /\ object \in [Object -> ObjectType \cup {NoObject}] /\ objCount \in [Object -> Nat]
      /\ size \in [Inode -> Offset] /\ NoObject \notin ObjectType /\ MaxSize \in Nat
      /\ o \notin File /\ NoFile \notin File /\ o # NoFile /\ NoFile \notin Object
  BY CallFacts, OpenFilesAssumption DEF OpenInv, TablesTyped, OpenFilesTypeOK
<1>3. objCount' = MovedCount(o, NoFile)
  <2>1. objCount' = [objCount EXCEPT ![o] = @ + 1]
    BY <1>1, <1>2
  <2> QED BY <2>1, CallFacts, CountForms
<1>4. refCount' = Moved(o, NoFile)
  BY <1>2, CallFacts, CountForms
<1>5. /\ CountsMatch' /\ UnusedHasNoFiles' /\ ForkCopied'
      /\ files' \in [Proc -> [Fd -> File \cup Object \cup {NoFile}]]
  <2>1. kernel.op # "fork" /\ kernel'.op # "fork" /\ state[p] = "ready"
    BY CallFacts
  <2>2. o \in AllFiles \cup {NoFile}
    BY DEF AllFiles
  <2> QED BY <1>1, <1>3, <1>4, <2>1, <2>2, ChangeCounts
<1>6. object' \in [Object -> ObjectType \cup {NoObject}]
  BY <1>1, <1>2
<1>7. \A x \in Object : object'[x] = (IF x = o THEN file ELSE object[x])
                        /\ objCount'[x] = (IF x = o THEN 1 ELSE objCount[x])
  BY <1>1, <1>2
<1>8. CountsMatchDescriptors' /\ ObjectsAgree'
  <2>1. \A x \in Object : object'[x] # NoObject <=> objCount'[x] > 0
    BY <1>2, <1>7 DEF OpenInv, ObjectsAgree
  <2> QED BY <1>5, <2>1, CountsOfInv DEF ObjectsAgree
<1>9. OffsetsInFile'
  <2>1. ASSUME NEW x \in Object, x # o, object[x] # NoObject, object[x].inode \in Inode
        PROVE  object[x].offp <= size'[object[x].inode]
    <3>1. object[x].offp <= size[object[x].inode]
      BY <2>1 DEF OpenInv, OffsetsInFile, IsRegular, IsObject
    <3>2. /\ object[x].offp \in Int
          /\ size[object[x].inode] \in Int /\ size'[object[x].inode] \in Int
          /\ size[object[x].inode] <= size'[object[x].inode]
      BY <1>2, <2>1 DEF ObjectType, FilesGrow, Offset
    <3> QED BY <3>1, <3>2
  <2> QED BY <1>7, <2>1 DEF OffsetsInFile, IsRegular, IsObject
<1>10. TablesTyped'
  BY <1>5, <1>6 DEF OpenInv, TablesTyped, OpenFilesTypeOK, CountsMatch, FilesGrow
<1>11. ExitClosed'
  BY CallFacts DEF ExitClosed
<1> QED BY <1>5, <1>8, <1>9, <1>10, <1>11 DEF OpenInv

LEMMA OpenStandardStep ==
  ASSUME OpenInv, NEW p \in Proc, NEW t \in StdType, OpenStandardIO(p, t)
  PROVE  OpenInv'
<1> DEFINE f == files[p][t]
           free == {fd \in FreeFds(p) : fd >= DupBase}
<1>1. /\ Calls(p) /\ UNCHANGED <<state, kernel, size>> /\ t \in Fd
  BY FilesAssumption, OpenFilesAssumption DEF OpenStandardIO, StdType, Fd
<1>2. CASE f = NoFile
  <2>1. PICK o \in Object : Install(p, t, o, StdFile(t))
    BY <1>2 DEF OpenStandardIO
  <2>2. refCount' = refCount
    BY <1>2 DEF OpenStandardIO
  <2>3. StdFile(t) \in ObjectType /\ StdFile(t).inode \notin Inode
    BY OpenFilesAssumption DEF StdFile, StdMode, ObjectType, Mode
  <2> QED BY <1>1, <1>2, <2>1, <2>2, <2>3, SameSizes, InstallStep
<1>3. CASE f # NoFile
  <2> DEFINE new == Min(free)
  <2>1. /\ free # {} /\ files' = [files EXCEPT ![p][new] = f] /\ object' = object
        /\ Share(f)
    BY <1>3 DEF OpenStandardIO
  <2>2. new \in Fd /\ files[p][new] = NoFile
    BY <2>1, LowestFree
  <2>3. /\ f \in File \cup Object /\ NoFile \notin File /\ NoFile \notin Object
        /\ Object \cap File = {} /\ refCount \in [File -> Nat] /\ objCount \in [Object -> Nat]
        /\ f \in Object => objCount[f] > 0
    BY <1>1, <1>3, CallFacts, HeldExists
  <2>4. files[p][t] = f
    OBVIOUS
  <2> HIDE DEF f, new, free
  <2>5. refCount' = Moved(f, NoFile) /\ objCount' = MovedCount(f, NoFile)
    BY <2>1, <2>3, CountForms DEF Share, IsPipe, IsObject
  <2>6. object' = FreedObjects
    <3>1. \A o \in Object : objCount'[o] = 0 <=> objCount[o] = 0
      BY <2>1, <2>3 DEF Share
    <3> QED BY <2>1, <3>1, SameObjects
  <2> QED BY <1>1, <2>1, <2>2, <2>3, <2>4, <2>5, <2>6, CallStep DEF AllFiles
<1> QED BY <1>2, <1>3

LEMMA OpenRegularStep ==
  ASSUME OpenInv, NEW p \in Proc, NEW n \in Inode, NEW create \in BOOLEAN,
         NEW mode \in SUBSET Mode, NEW okMode \in BOOLEAN,
         OpenRegular(p, n, create, mode, okMode)
  PROVE  OpenInv'
<1> DEFINE free == {fd \in FreeFds(p) : fd >= DupBase}
<1>1. Calls(p) /\ UNCHANGED <<state, refCount, kernel>>
  BY DEF OpenRegular
<1>2. CASE UNCHANGED <<files, objVars>>
  BY <1>1, <1>2, PipeOnly DEF objVars
<1>3. CASE ~ UNCHANGED <<files, objVars>>
  <2>1. size' = [size EXCEPT ![n] = IF @ = Absent THEN 0 ELSE @]
    BY <1>3 DEF OpenRegular
  <2>2. FilesGrow /\ size'[n] >= 0
    <3>1. size \in [Inode -> Offset] /\ MaxSize \in Nat
      BY OpenFilesAssumption DEF OpenInv, TablesTyped, OpenFilesTypeOK
    <3>2. \A m \in Inode : size[m] \in Int /\ size[m] >= -1
      BY <3>1 DEF Offset
    <3>3. \A m \in Inode : size'[m] = IF m = n /\ size[m] = -1 THEN 0 ELSE size[m]
      BY <2>1, <3>1 DEF Absent
    <3>4. size' \in [Inode -> Offset]
      <4>1. 0 \in Offset
        BY <3>1 DEF Offset
      <4> QED BY <2>1, <3>1, <4>1
    <3> QED BY <3>2, <3>3, <3>4 DEF FilesGrow
  <2>3. CASE UNCHANGED <<files, object, objCount>>
    <3>1. /\ object' = [o \in Object |-> object'[o]]
          /\ \A o \in Object : StaysInFile(o)
      BY <2>3 DEF OpenInv, TablesTyped, OpenFilesTypeOK, StaysInFile
    <3> QED BY <1>1, <2>2, <2>3, <3>1, OffsetStep
  <2>4. CASE ~ UNCHANGED <<files, object, objCount>>
    <3>1. /\ free # {} /\ \E o \in Object : Install(p, Min(free), o, RegularFile(n, mode))
      BY <1>3, <2>4 DEF OpenRegular
    <3>2. PICK o \in Object : Install(p, Min(free), o, RegularFile(n, mode))
      BY <3>1
    <3>3. Min(free) \in Fd /\ files[p][Min(free)] = NoFile
      BY <3>1, LowestFree
    <3>4. /\ RegularFile(n, mode) \in ObjectType /\ RegularFile(n, mode).offp = 0
          /\ RegularFile(n, mode).inode = n
      BY OpenFilesAssumption DEF RegularFile, ObjectType
    <3>5. RegularFile(n, mode).inode \in Inode
            => RegularFile(n, mode).offp <= size'[RegularFile(n, mode).inode]
      <4>1. size'[n] \in Int
        BY <2>2 DEF FilesGrow, Offset
      <4> QED BY <2>2, <3>4, <4>1
    <3> QED BY <1>1, <2>2, <3>2, <3>3, <3>4, <3>5, InstallStep
  <2> QED BY <2>3, <2>4
<1> QED BY <1>2, <1>3

(***************************************************************************)
(* The whole.                                                              *)
(***************************************************************************)
\* create_context gives each standard file a page and one descriptor (file.c:121-159).
LEMMA OpenInitInv ==
  ASSUME OpenInit
  PROVE  OpenInv
<1>1. PICK std \in [StdType -> Object] :
        /\ \A s, t \in StdType : std[s] = std[t] => s = t
        /\ files = [p \in Proc |-> [fd \in Fd |->
                      IF p = InitProc /\ fd \in StdType THEN std[fd] ELSE NoFile]]
        /\ objCount = [o \in Object |-> Cardinality({t \in StdType : std[t] = o})]
        /\ object = [o \in Object |-> IF \E t \in StdType : std[t] = o
                                        THEN StdFile(CHOOSE t \in StdType : std[t] = o)
                                        ELSE NoObject]
  BY DEF OpenInit
<1>2. /\ state = [p \in Proc |-> IF p = InitProc THEN "ready" ELSE "unused"]
      /\ refCount = [f \in File |-> 0] /\ kernel = UserMode
      /\ size = [n \in Inode |-> Absent]
  BY DEF OpenInit
<1>3. StdType \subseteq Fd /\ InitProc \in Proc
  BY FilesAssumption, OpenFilesAssumption DEF StdType, Fd
<1>4. ASSUME NEW o \in Object
      PROVE  /\ Refs(o) = {<<InitProc, t>> : t \in {s \in StdType : std[s] = o}}
             /\ \/ /\ {s \in StdType : std[s] = o} = {} /\ Refs(o) = {}
                   /\ object[o] = NoObject
                \/ \E t \in StdType : /\ {s \in StdType : std[s] = o} = {t}
                                      /\ Refs(o) = {<<InitProc, t>>}
                                      /\ object[o] = StdFile(t)
  <2>1. o # NoFile
    BY OpenFilesAssumption
  <2>2. \A pd \in Proc \X Fd :
          files[pd[1]][pd[2]] = o /\ Counted(pd[1], pd[2])
            <=> pd[1] = InitProc /\ pd[2] \in StdType /\ std[pd[2]] = o
    BY <1>1, <1>2, <2>1 DEF Counted, UserMode
  <2>3. Refs(o) = {<<InitProc, t>> : t \in {s \in StdType : std[s] = o}}
    BY <1>3, <2>2 DEF Refs
  <2>4. CASE \E t \in StdType : std[t] = o
    <3>1. PICK t \in StdType : std[t] = o
      BY <2>4
    <3>2. {s \in StdType : std[s] = o} = {t}
      BY <1>1, <3>1
    <3>3. object[o] = StdFile(t)
      <4>1. (CHOOSE s \in StdType : std[s] = o) = t
        BY <1>1, <3>1
      <4> QED BY <1>1, <2>4, <4>1
    <3> QED BY <2>3, <3>2, <3>3
  <2>5. CASE ~ \E t \in StdType : std[t] = o
    BY <1>1, <2>3, <2>5
  <2> QED BY <2>3, <2>4, <2>5
<1>5. ASSUME NEW o \in Object
      PROVE  /\ objCount[o] \in Nat /\ objCount[o] = Cardinality(Refs(o))
             /\ object[o] # NoObject <=> objCount[o] > 0
             /\ object[o] # NoObject =>
                  object[o] \in ObjectType /\ object[o].inode \notin Inode
  <2>1. objCount[o] = Cardinality({s \in StdType : std[s] = o})
    BY <1>1
  <2>2. ASSUME NEW t PROVE StdFile(t) \in ObjectType /\ StdFile(t).inode \notin Inode
    BY OpenFilesAssumption DEF StdFile, StdMode, ObjectType, Mode
  <2>3. NoObject \notin ObjectType
    BY OpenFilesAssumption
  <2>4. CASE {s \in StdType : std[s] = o} = {} /\ Refs(o) = {} /\ object[o] = NoObject
    BY <2>1, <2>4, FS_EmptySet
  <2>5. ASSUME NEW t \in StdType, {s \in StdType : std[s] = o} = {t},
               Refs(o) = {<<InitProc, t>>}, object[o] = StdFile(t)
        PROVE  /\ objCount[o] = 1 /\ Cardinality(Refs(o)) = 1
               /\ object[o] \in ObjectType /\ object[o].inode \notin Inode
    <3>1. Cardinality({t}) = 1 /\ Cardinality({<<InitProc, t>>}) = 1
      BY FS_Singleton
    <3> QED BY <2>1, <2>2, <2>5, <3>1
  <2> QED BY <1>4, <2>3, <2>4, <2>5
<1>6. CountsMatchDescriptors
  <2>1. ASSUME NEW f \in File PROVE Refs(f) = {}
    BY <1>1, FilesAssumption, OpenFilesAssumption DEF Refs
  <2> QED BY <1>2, <2>1, FS_EmptySet DEF CountsMatchDescriptors
<1>7. ObjectsAgree /\ OffsetsInFile
  BY <1>5 DEF ObjectsAgree, OffsetsInFile, IsRegular, IsObject
<1>8. TablesTyped
  <2>1. files \in [Proc -> [Fd -> File \cup Object \cup {NoFile}]]
    BY <1>1
  <2>2. objCount \in [Object -> Nat] /\ object \in [Object -> ObjectType \cup {NoObject}]
    BY <1>1, <1>5
  <2>3. kernel \in KernelLoops
    BY <1>2, FilesAssumption DEF KernelLoops, UserMode
  <2>4. size \in [Inode -> Offset]
    BY <1>2, OpenFilesAssumption DEF Offset, Absent
  <2> QED BY <1>2, <2>1, <2>2, <2>3, <2>4 DEF TablesTyped, OpenFilesTypeOK
<1>9. UnusedHasNoFiles /\ ExitClosed /\ ForkCopied
  BY <1>1, <1>2 DEF UnusedHasNoFiles, ExitClosed, ForkCopied, UserMode
<1> QED BY <1>6, <1>7, <1>8, <1>9 DEF OpenInv

\* The calls of Pipe on descriptors of pipes.
LEMMA OpenPipeCallStep ==
  ASSUME OpenInv, NEW p \in Proc, PipeCall(p)
  PROVE  OpenInv'
<1>1. UNCHANGED objVars
  BY DEF PipeCall
<1>2. ASSUME NEW q \in Pipe, NEW page \in PageContents, Create(p, q, page) PROVE OpenInv'
  BY <1>1, <1>2, OpenCreateStep
<1>3. ASSUME NEW fd \in Fd, NEW count \in 0 .. MaxCount, NEW okBuf \in BOOLEAN,
             Read(p, fd, count, okBuf)
      PROVE  OpenInv'
  BY <1>1, <1>3, PipeOnly DEF Read, objVars
<1>4. ASSUME NEW fd \in Fd, NEW data \in UserData, NEW okBuf \in BOOLEAN,
             Write(p, fd, data, okBuf)
      PROVE  OpenInv'
  BY <1>1, <1>4, PipeOnly DEF Write, objVars
<1>5. ASSUME NEW fd \in Fd, OnPipe(files[p][fd]), Close(p, fd) PROVE OpenInv'
  BY <1>1, <1>5, OpenCloseStep
<1>6. ASSUME NEW fd \in Fd, OnPipe(files[p][fd]), Dup(p, fd) PROVE OpenInv'
  BY <1>1, <1>6, OpenDupStep
<1>7. ASSUME NEW oldfd \in Fd, NEW newfd \in Fd, OnPipe(files[p][oldfd]),
             OnPipe(files[p][newfd]), Dup2(p, oldfd, newfd)
      PROVE  OpenInv'
  BY <1>1, <1>7, OpenDup2Step
<1>8. CASE ForkBegin(p)
  BY <1>1, <1>8, OpenForkBeginStep
<1>9. CASE ExitBegin(p)
  BY <1>1, <1>9, OpenExitBeginStep
<1> QED BY <1>2, <1>3, <1>4, <1>5, <1>6, <1>7, <1>8, <1>9 DEF PipeCall

LEMMA OpenNextInv == OpenInv /\ [OpenNext]_allVars => OpenInv'
<1> SUFFICES ASSUME OpenInv, [OpenNext]_allVars PROVE OpenInv'
  OBVIOUS
<1>1. CASE UNCHANGED allVars
  BY <1>1, PipeOnly DEF allVars, vars, objVars
<1>2. ASSUME NEW p \in Proc, PipeCall(p) PROVE OpenInv'
  BY <1>2, OpenPipeCallStep
<1>3. ASSUME NEW p \in Proc, NEW t \in StdType, OpenStandardIO(p, t) PROVE OpenInv'
  BY <1>3, OpenStandardStep
<1>4. ASSUME NEW p \in Proc, NEW n \in Inode, NEW create \in BOOLEAN, NEW okMode \in BOOLEAN,
             NEW mode \in SUBSET Mode, OpenRegular(p, n, create, mode, okMode)
      PROVE  OpenInv'
  BY <1>4, OpenRegularStep
<1>5. ASSUME NEW p \in Proc, NEW fd \in Fd, NEW count \in Count,
             ReadObject(p, fd, count) \/ WriteObject(p, fd, count)
      PROVE  OpenInv'
  BY <1>5, OpenReadStep, OpenWriteStep
<1>6. ASSUME NEW p \in Proc, NEW fd \in Fd, NEW off \in Offset, NEW whence \in Whence,
             Lseek(p, fd, off, whence)
      PROVE  OpenInv'
  BY <1>6, OpenLseekStep
<1>7. ASSUME NEW p \in Proc, NEW outfd \in Fd, NEW infd \in Fd,
             NEW off \in Offset \cup {NoOffset}, NEW count \in Count,
             Sendfile(p, outfd, infd, off, count)
      PROVE  OpenInv'
  BY <1>7, OpenSendfileStep
<1>8. ASSUME NEW p \in Proc, NEW fd \in Fd, CloseOther(p, fd) \/ DupOther(p, fd)
      PROVE  OpenInv'
  BY <1>8, OpenCloseOtherStep, OpenDupOtherStep
<1>9. ASSUME NEW p \in Proc, NEW oldfd \in Fd, NEW newfd \in Fd, Dup2Other(p, oldfd, newfd)
      PROVE  OpenInv'
  BY <1>9, OpenDup2OtherStep
<1>10. CASE PipeKernelStep
  BY <1>10, OpenForkFileStep, OpenExitFileStep, OpenForkEndStep, OpenExitEndStep
     DEF PipeKernelStep
<1>11. CASE ForkOther \/ ExitOther
  BY <1>11, OpenForkOtherStep, OpenExitOtherStep
<1> QED BY <1>1, <1>2, <1>3, <1>4, <1>5, <1>6, <1>7, <1>8, <1>9, <1>10, <1>11 DEF OpenNext

LEMMA OpenInvariance == OpenSpec => []OpenInv
<1>1. OpenInit => OpenInv
  BY OpenInitInv
<1>2. OpenInv /\ [OpenNext]_allVars => OpenInv'
  BY OpenNextInv
<1> QED BY <1>1, <1>2, PTL DEF OpenSpec

(***************************************************************************)
(* The tables keep their types whatever is opened, duplicated and closed.  *)
(***************************************************************************)
THEOREM OpenTypeCorrect == OpenSpec => []OpenFilesTypeOK
<1>1. OpenInv => OpenFilesTypeOK
  BY DEF OpenInv, TablesTyped
<1> QED BY <1>1, OpenInvariance, PTL

(***************************************************************************)
(* The reference count of a pipe end is the number of its descriptors in   *)
(* all processes, also with dup and dup2, which PipeProofs leaves out, and *)
(* beside files of other kinds (file.c:41-118, 298-350).                   *)
(***************************************************************************)
THEOREM OpenCountsCorrect == OpenSpec => []CountsMatchDescriptors
<1>1. OpenInv => CountsMatchDescriptors
  BY DEF OpenInv
<1> QED BY <1>1, OpenInvariance, PTL

(***************************************************************************)
(* So is that of a standard IO or regular file, and its object is freed    *)
(* with its last descriptor and not before (file.c:41-63, 105-119).        *)
(***************************************************************************)
THEOREM ObjectsCorrect == OpenSpec => []ObjectsAgree
<1>1. OpenInv => ObjectsAgree
  BY DEF OpenInv
<1> QED BY <1>1, OpenInvariance, PTL

(***************************************************************************)
(* No sequence of reads, writes, seeks and sendfiles, through any number   *)
(* of descriptors in any number of processes, takes an offset past the end *)
(* of its file (file.c:165-237, 352-411).                                  *)
(***************************************************************************)
THEOREM OffsetsCorrect == OpenSpec => []OffsetsInFile
<1>1. OpenInv => OffsetsInFile
  BY DEF OpenInv
<1> QED BY <1>1, OpenInvariance, PTL

(***************************************************************************)
(* sendfile with an offset leaves the place of the file it reads from      *)
(* where it was, on the paths of all its failures too (file.c:352-411).    *)
(***************************************************************************)
THEOREM SendfilePlaceCorrect == OpenSpec => SendfileKeepsPlace
<1>1. OpenInv => \A p \in Proc, outfd, infd \in Fd :
        LET i == files[p][infd] IN
        IsRegular(i) /\ files[p][outfd] # i /\ object'[i] # object[i]
          => \A off \in Offset, count \in Count : ~ Sendfile(p, outfd, infd, off, count)
  <2> SUFFICES ASSUME OpenInv, NEW p \in Proc, NEW outfd \in Fd, NEW infd \in Fd,
                      IsRegular(files[p][infd]), files[p][outfd] # files[p][infd],
                      NEW off \in Offset, NEW count \in Count,
                      Sendfile(p, outfd, infd, off, count)
               PROVE  object'[files[p][infd]] = object[files[p][infd]]
    OBVIOUS
  <2> DEFINE i == files[p][infd]
             f == files[p][outfd]
             read == AfterRead(i, off, count)
  <2>1. Calls(p) /\ i \in Object /\ off # NoOffset
    BY OpenFilesAssumption DEF Sendfile, IsRegular, IsObject, Offset, NoOffset
  <2>2. /\ object[i] \in ObjectType
        /\ object \in [Object -> ObjectType \cup {NoObject}]
    BY <2>1, OpenObject DEF OpenInv, TablesTyped, OpenFilesTypeOK
  <2>3. read = AtOffset(i, object[i].offp)
    BY <2>1 DEF AfterRead, InOffset
  <2>4. read[i] = object[i] /\ DOMAIN read = Object
    <3> HIDE DEF i, read
    <3> QED BY <2>1, <2>2, <2>3 DEF AtOffset, ObjectType
  <2>5. object' = object \/ object' = read \/ \E x : object' = [read EXCEPT ![f].offp = x]
    <3>1. SendTo(p, f, read, count) \/ object' = object
      BY DEF Sendfile
    <3>2. SendTo(p, f, read, count)
            => object' = read \/ \E x : object' = [read EXCEPT ![f].offp = x]
      BY DEF SendTo
    <3> QED BY <3>1, <3>2
  <2>6. f # i
    OBVIOUS
  <2> HIDE DEF i, f, read
  <2>7. object'[i] = object[i]
    BY <2>1, <2>4, <2>5, <2>6
  <2> QED BY <2>7 DEF i
<1>2. OpenInv /\ [OpenNext]_allVars
        => [\A p \in Proc, outfd, infd \in Fd :
              LET i == files[p][infd] IN
              IsRegular(i) /\ files[p][outfd] # i /\ object'[i] # object[i]
                => \A off \in Offset, count \in Count :
                     ~ Sendfile(p, outfd, infd, off, count)]_allVars
  BY <1>1
<1> QED BY <1>2, OpenInvariance, PTL DEF OpenSpec, SendfileKeepsPlace
===============================================================================
