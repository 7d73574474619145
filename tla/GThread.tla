-------------------------------- MODULE GThread --------------------------------
(***************************************************************************)
(* gthread.c, the thread library: create, exit, join, gmalloc and gfree in *)
(* user space, on top of the calls of Threads.  Its table of threads lies  *)
(* in memory that the process and all its threads share, so the timer can  *)
(* come between any two of the steps below; a step is a system call, or    *)
(* the part of a library function between two of them that no other thread *)
(* can disturb.                                                            *)
(*                                                                         *)
(* Only the process creates and joins threads.  A context that was used    *)
(* before is used again, for another thread: n numbers the threads in the  *)
(* order of their creation, so that one can be told from the next.         *)
(***************************************************************************)
EXTENDS Threads

CONSTANTS MaxCreated,   \* bound: threads ever created
          MaxSleep,     \* bound: ticks of a sleep
          NullReturns   \* bound: the threads that may give NULL to gthread_exit

ASSUME GThreadAssumption == MaxCreated \in Nat /\ MaxSleep \in Nat

Created == 1 .. MaxCreated
Null    == 0            \* a NULL return value; thread n may return n instead
Invalid == -1           \* tid and pid of an entry that was joined

VARIABLES entry,     \* tinfo.threads
          num,       \* tinfo.num_threads
          main,      \* where the process is in gthread_create or gthread_join
          exiting,   \* where each thread is in gthread_exit
          job,       \* the number of the thread each context runs
          created,   \* threads created so far
          tidOf,     \* the tid gthread_create gave out for each of them
          stacks,    \* the threads whose stack is mapped
          result,    \* what each thread gave to gthread_exit, or Null after a fault
          joined     \* what gthread_join returned for each thread

userVars == <<entry, num, main, exiting, job, created, tidOf, stacks, result, joined>>
vars     == <<schedVars, threadVars, userVars>>

Pending == -2           \* no result, not joined
Outcome == {Pending, Null} \cup Created

Entry == [tid : Slot \cup {Invalid}, pid : Pid \cup {Invalid}, status : {"UNUSED", "ALIVE", "USED"},
          ret : Outcome, areas : SUBSET Area, thread : Created \cup {0}]
MainAt == [at : {"idle", "cloned", "registered", "wait", "check", "done", "exited"},
           thread : Created \cup {0}, pid : Pid, sig : {0, -1}]
ExitAt == {"running", "returned", "used"}

TypeOK ==
  /\ ThreadsTypeOK
  /\ entry \in [Slot -> Entry] /\ num \in 0 .. MaxThreads
  /\ main \in MainAt /\ exiting \in [Pid -> ExitAt]
  /\ job \in [Pid -> Created \cup {0}] /\ created \in 0 .. MaxCreated
  /\ tidOf \in [Created -> Slot \cup {Invalid}]
  /\ stacks \subseteq Created
  /\ result \in [Created -> Outcome] /\ joined \in [Created -> Outcome]

Idle == [at |-> "idle", thread |-> 0, pid |-> Swapper, sig |-> 0]

Init ==
  /\ ThreadsInit
  /\ entry = [i \in Slot |-> [tid |-> 0, pid |-> Swapper, status |-> "UNUSED", ret |-> Null,
                              areas |-> {}, thread |-> 0]]
  /\ num = 0 /\ main = Idle
  /\ exiting = [p \in Pid |-> "running"] /\ job = [p \in Pid |-> 0]
  /\ created = 0 /\ tidOf = [n \in Created |-> Invalid] /\ stacks = {}
  /\ result = [n \in Created |-> Pending] /\ joined = [n \in Created |-> Pending]

MainIs(at) == Runs(Main) /\ main.at = at

(***************************************************************************)
(* gthread_create: with room left it maps a stack and clones,              *)
(***************************************************************************)
CreateClone ==
  /\ MainIs("idle")
  /\ num # MaxThreads
  /\ created < MaxCreated
  /\ \E p \in User, i \in Slot :
       /\ Clone(p, i)
       /\ job' = [job EXCEPT ![p] = created + 1]
       /\ exiting' = [exiting EXCEPT ![p] = "running"]
       /\ main' = [at |-> "cloned", thread |-> created + 1, pid |-> p, sig |-> 0]
  /\ created' = created + 1
  /\ stacks' = stacks \cup {created + 1}
  /\ UNCHANGED <<entry, num, tidOf, result, joined>>

\* fills in the first unused entry,
UnusedEntries == {i \in Slot : entry[i].status = "UNUSED"}
\* Mutant: the old return value stays in the entry.
KeepsRet(i)  == entry[i].ret
ClearRet(i)  == Null
CreateRegister ==
  /\ MainIs("cloned")
  /\ LET i == Min(UnusedEntries) IN
     /\ entry' = [entry EXCEPT ![i] = [tid |-> i, pid |-> main.pid, status |-> "ALIVE", ret |-> ClearRet(i),
                                       areas |-> @.areas, thread |-> main.thread]]
     /\ tidOf' = [tidOf EXCEPT ![main.thread] = i]
  /\ num' = num + 1
  /\ main' = [main EXCEPT !.at = "registered"]
  /\ UNCHANGED <<schedVars, threadVars, exiting, job, created, stacks, result, joined>>

\* and lets the thread run.
CreateReady ==
  /\ MainIs("registered")
  /\ MakeThreadReady(main.pid)
  /\ main' = Idle
  /\ UNCHANGED <<entry, num, exiting, job, created, tidOf, stacks, result, joined>>

(***************************************************************************)
(* gthread_join of thread n, once: by its tid it finds the entry; a thread *)
(* that is ALIVE is waited for as often as it takes.                       *)
(***************************************************************************)
EntriesWith(tid) == {i \in Slot : entry[i].status # "UNUSED" /\ entry[i].tid = tid}
EntryOf(n)       == Min(EntriesWith(tidOf[n]))
Joinable         == {n \in Created : tidOf[n] # Invalid /\ joined[n] = Pending}

JoinBegin(n) ==
  /\ MainIs("idle")
  /\ n \in Joinable
  /\ main' = [main EXCEPT !.thread = n,
                          !.at = IF entry[EntryOf(n)].status = "ALIVE" THEN "wait" ELSE "done"]
  /\ UNCHANGED <<schedVars, threadVars, entry, num, exiting, job, created, tidOf, stacks, result, joined>>

JoinWait ==
  /\ MainIs("wait")
  /\ LET p == entry[EntryOf(main.thread)].pid IN
     /\ WaitForThread(p)
     /\ main' = [main EXCEPT !.at = "check", !.sig = IF Waitable(p) THEN 0 ELSE -1]
  /\ UNCHANGED <<entry, num, exiting, job, created, tidOf, stacks, result, joined>>

\* After a wait: a value, an error, or another entry with the pid ends the loop.
PidReassigned(i) == \E k \in Slot : entry[k].tid # entry[i].tid /\ entry[k].pid = entry[i].pid
\* Mutant: every wait ends the loop.
WaitedOnce(i) == TRUE
WaitOver(i)   == entry[i].ret # Null \/ main.sig < 0 \/ PidReassigned(i)
JoinCheck ==
  /\ MainIs("check")
  /\ main' = [main EXCEPT !.at = IF WaitOver(EntryOf(main.thread)) THEN "done" ELSE "wait"]
  /\ UNCHANGED <<schedVars, threadVars, entry, num, exiting, job, created, tidOf, stacks, result, joined>>

\* The stack is unmapped, the entry is free, the value is returned.
\* Mutants: the thread is still counted; the entry keeps its areas.
StillCounted    == num
OneLess         == num - 1
KeepsAreas(i)   == entry[i].areas
AreasForgot(i)  == {}
JoinEnd ==
  /\ MainIs("done")
  /\ LET i == EntryOf(main.thread) IN
     /\ stacks' = stacks \ {entry[i].thread}
     /\ num' = OneLess
     /\ entry' = [entry EXCEPT ![i].status = "UNUSED", ![i].pid = Invalid, ![i].tid = Invalid,
                                ![i].areas = AreasForgot(i)]
     /\ joined' = [joined EXCEPT ![main.thread] = entry[i].ret]
  /\ main' = Idle
  /\ UNCHANGED <<schedVars, threadVars, exiting, job, created, tidOf, result>>

MainSleeps(ticks) == MainIs("idle") /\ ThreadSleeps(Main, ticks) /\ UNCHANGED userVars

\* main returns when it has joined every thread.
MainExits ==
  /\ MainIs("idle")
  /\ created = MaxCreated /\ Joinable = {}
  /\ ProcessExits
  /\ main' = [main EXCEPT !.at = "exited"]
  /\ UNCHANGED <<entry, num, exiting, job, created, tidOf, stacks, result, joined>>

-------------------------------------------------------------------------------
(***************************************************************************)
(* A thread.  Its functions have their variables on its stack: without the *)
(* stack its next instruction faults.                                      *)
(***************************************************************************)
ThreadRuns(p) == isThread[p] /\ Runs(p)
ThreadAt(p, at) == ThreadRuns(p) /\ job[p] \in stacks /\ exiting[p] = at

\* Its entry: gthread_exit takes the first one with its pid that is neither
\* UNUSED nor USED, gmalloc and gfree the first that is ALIVE.
EntriesOfThread(p) == {i \in Slot : entry[i].status = "ALIVE" /\ entry[i].pid = p}
OwnEntry(p)        == Min(EntriesOfThread(p))

Faults(p) ==
  /\ result' = [result EXCEPT ![job[p]] = IF @ = Pending THEN Null ELSE @]
  /\ UNCHANGED <<entry, num, main, exiting, job, created, tidOf, stacks, joined>>

StackFault(p) ==
  /\ ThreadRuns(p) /\ job[p] \notin stacks
  /\ SegfaultExit(p)
  /\ Faults(p)

(***************************************************************************)
(* gthread_exit: it stores the value, marks the entry USED, and exits.     *)
(***************************************************************************)
ExitReturns(p, value) ==
  /\ ThreadAt(p, "running")
  /\ EntriesOfThread(p) # {}
  /\ entry' = [entry EXCEPT ![OwnEntry(p)].ret = value]
  /\ result' = [result EXCEPT ![job[p]] = value]
  /\ exiting' = [exiting EXCEPT ![p] = "returned"]
  /\ UNCHANGED <<schedVars, threadVars, num, main, job, created, tidOf, stacks, joined>>

ExitUsed(p) ==
  /\ ThreadAt(p, "returned")
  /\ entry' = [entry EXCEPT ![OwnEntry(p)].status = "USED"]
  /\ exiting' = [exiting EXCEPT ![p] = "used"]
  /\ UNCHANGED <<schedVars, threadVars, num, main, job, created, tidOf, stacks, result, joined>>

ExitLeaves(p) ==
  /\ ThreadAt(p, "used")
  /\ ThreadExits(p)
  /\ UNCHANGED userVars

(***************************************************************************)
(* gmalloc and gfree.  A tick between the system call and the stores that  *)
(* follow it (gthread.c:250-260, 306-311) is left out: nothing but the     *)
(* thread's own next gmalloc or gfree and its join, which comes after its  *)
(* last store, looks at its areas.                                         *)
(***************************************************************************)
GMalloc(p, a, flag) ==
  /\ ThreadAt(p, "running")
  /\ EntriesOfThread(p) # {}
  /\ LET i == OwnEntry(p) IN
     /\ Cardinality(entry[i].areas) < MaxAreas
     /\ PrivateMap(p, a, flag)
     /\ entry' = [entry EXCEPT ![i].areas = @ \cup {a}]
  /\ UNCHANGED <<schedVars, num, main, exiting, job, created, tidOf, stacks, result, joined>>

GFree(p, a) ==
  /\ ThreadAt(p, "running")
  /\ EntriesOfThread(p) # {}
  /\ LET i == OwnEntry(p) IN
     /\ a \in entry[i].areas
     /\ PrivateUnmap(p, a)
     /\ entry' = [entry EXCEPT ![i].areas = @ \ {a}]
  /\ UNCHANGED <<schedVars, num, main, exiting, job, created, tidOf, stacks, result, joined>>

\* An access to private memory, by a thread or by the process.
Accesses(p, a, write) ==
  /\ ThreadAt(p, "running") \/ (p = Main /\ MainIs("idle"))
  /\ Access(p, a, write)
  /\ IF owner'= owner /\ slots' = slots THEN UNCHANGED userVars ELSE Faults(p)

Sleeps(p, ticks) == ThreadAt(p, "running") /\ ThreadSleeps(p, ticks) /\ UNCHANGED userVars

-------------------------------------------------------------------------------
TimerTick == ~ Halted /\ ThreadTick /\ UNCHANGED userVars

Stopped == Halted /\ UNCHANGED vars

MainStep ==
  \/ CreateRegister \/ CreateReady
  \/ \E n \in Created : JoinBegin(n)
  \/ JoinWait \/ JoinCheck \/ JoinEnd
  \/ \E ticks \in 1 .. MaxSleep : MainSleeps(ticks)
  \/ MainExits

Returns(p) == {job[p]} \cup (IF job[p] \in NullReturns THEN {Null} ELSE {})
ThreadStep(p) ==
  \/ \E value \in Returns(p) : ExitReturns(p, value)
  \/ ExitUsed(p) \/ ExitLeaves(p)
  \/ \E a \in Area, flag \in Siblings : GMalloc(p, a, flag)
  \/ \E a \in Area : GFree(p, a)
  \/ \E ticks \in 1 .. MaxSleep : Sleeps(p, ticks)
  \/ \E a \in Area, write \in BOOLEAN : Accesses(p, a, write)

ProgramStep == MainStep \/ \E p \in User : ThreadStep(p)

Next ==
  \/ ProgramStep
  \/ CreateClone
  \/ \E p \in User : StackFault(p)
  \/ TimerTick
  \/ Stopped

Spec == Init /\ [][Next]_vars

(***************************************************************************)
(* The discipline of a patient program: it creates a thread only when no   *)
(* thread has exited and was not joined, or is on its way there; and when  *)
(* it has no ticks left of a sleep that the exit of a thread cut short.    *)
(* Without it a pid is given out again too early (gthread_reuse), a new    *)
(* stack may lie where that of a thread was that still runs, and a thread  *)
(* may wake up before it has its entry.  The timer ticks when it likes.    *)
(***************************************************************************)
PatientCreate ==
  /\ \A i \in Slot : entry[i].status # "USED"
  /\ ticksToSleep[Main] = 0
  /\ \A p \in User : Alive(p) => exiting[p] = "running"
  /\ CreateClone
PoliteNext == ProgramStep \/ PatientCreate \/ (\E p \in User : StackFault(p)) \/ TimerTick \/ Stopped

PoliteSpec == Init /\ [][PoliteNext]_vars

(***************************************************************************)
(* Fairness: the timer keeps ticking; a thread that gets the processor     *)
(* again and again comes to an end, which needs the strong form, as every  *)
(* tick takes the processor away; and so does a call of the library.       *)
(***************************************************************************)
LibraryStep   == CreateRegister \/ CreateReady \/ JoinWait \/ JoinCheck \/ JoinEnd
ThreadEnds(p) == (\E value \in Returns(p) : ExitReturns(p, value)) \/ ExitUsed(p) \/ ExitLeaves(p)
Fairness ==
  /\ WF_vars(TimerTick)
  /\ SF_vars(LibraryStep)
  /\ \A p \in User \ {Main} : SF_vars(ThreadEnds(p))
FairSpec == PoliteSpec /\ Fairness

-------------------------------------------------------------------------------
(***************************************************************************)
(* When gthread_join leaves its loop the thread it was called for has      *)
(* died, or has stored its value in gthread_exit and has nothing but the   *)
(* end of that function before it: the wait never ends for a thread at     *)
(* work, "the original already exited" (gthread.c:87-91, 113-162).         *)
(***************************************************************************)
JoinEndsAfterStores ==
  main.at = "done" => \A p \in User : Alive(p) /\ job[p] = main.thread => exiting[p] # "running"

(***************************************************************************)
(* The threads that gthread_join overtook: a tick came between their       *)
(* stores and their exit call (gthread.c:87-91), and the process unmapped  *)
(* their stack.  They fault there, and nobody waits for the context again. *)
(***************************************************************************)
Overtaken == {p \in User : isThread[p] /\ state[p] # "UNUSED" /\ exiting[p] # "running"
                             /\ joined[job[p]] # Pending}

(***************************************************************************)
(* gthread_join returns what the thread gave to gthread_exit, and NULL     *)
(* when it died of a fault, never the value of an earlier thread in the    *)
(* same entry (gthread.c:57-58, 87, 190).                                  *)
(***************************************************************************)
JoinReturnsResult == \A n \in Created : joined[n] # Pending => joined[n] = result[n]

(***************************************************************************)
(* The count of threads is the number of entries in use, and every living  *)
(* thread, but one in creation or overtaken, has one ALIVE entry, until    *)
(* gthread_exit has marked it USED (gthread.c:23, 44-60, 176-183).         *)
(***************************************************************************)
EntriesAgree ==
  /\ num = Cardinality({i \in Slot : entry[i].status # "UNUSED"})
  /\ \A p \in User :
       (Alive(p) /\ ~ (main.at = "cloned" /\ main.pid = p) /\ p \notin Overtaken) =>
         Cardinality({i \in Slot : entry[i].pid = p /\ entry[i].thread = job[p]
                                   /\ (entry[i].status = "ALIVE" <=> exiting[p] # "used")}) = 1

(***************************************************************************)
(* A thread does not run before gthread_create has filled in its entry:    *)
(* gthread_exit, gmalloc and gfree find it (gthread.c:36-62), until the    *)
(* thread has marked it or was overtaken.                                  *)
(***************************************************************************)
RunsRegistered ==
  (isThread[current] /\ exiting[current] # "used" /\ current \notin Overtaken) =>
    EntriesOfThread(current) # {} /\ entry[OwnEntry(current)].thread = job[current]

(***************************************************************************)
(* gthread_create with room in the table of the library finds a context    *)
(* and a slot in the kernel, if no thread was overtaken: contexts of       *)
(* threads that faulted are freed by the time they are joined              *)
(* (gthread.c:23, 36; clone_threads.c:15, 28-33; helper.c:224-228).        *)
(***************************************************************************)
CloneSucceeds ==
  (main.at = "idle" /\ num # MaxThreads /\ MaxProcesses >= MaxThreads + 2 /\ Overtaken = {}) =>
    UnusedContexts # {} /\ UnusedSlots # {}

(***************************************************************************)
(* The areas the library keeps for a thread are those the kernel keeps,    *)
(* and a slot without a living thread, as well as an entry that is free,   *)
(* has none (gthread.c:186-188, 240-260, 293-311; helper.c:61-67).         *)
(***************************************************************************)
AreasAgree ==
  /\ \A i \in Slot : entry[i].status = "ALIVE" /\ Alive(entry[i].pid) =>
                       entry[i].areas = AreasOf(SlotOf(entry[i].pid))
  /\ \A i \in Slot : entry[i].status = "UNUSED" => entry[i].areas = {}
  /\ \A i \in UnusedSlots : AreasOf(i) = {}

(***************************************************************************)
(* A process that joins its threads leaves no stack behind and, if it      *)
(* overtook none, no context and no slot: the machine stops                *)
(* (gthread.c:94-191; helper.c:51-93).                                     *)
(***************************************************************************)
NothingLeft ==
  main.at = "exited" => stacks = {} /\ (Overtaken = {} => Halted /\ UnusedSlots = Slot)

(***************************************************************************)
(* Liveness: every gthread_join returns, though the process is woken by    *)
(* the exit of any thread and the threads may fault (gthread.c:113-162).   *)
(***************************************************************************)
JoinTerminates == main.at \in {"wait", "check", "done"} ~> main.at = "idle"
================================================================================
