-------------------------------- MODULE Threads --------------------------------
(***************************************************************************)
(* The kernel's half of the threads of gemOS: the clone_threads of the     *)
(* fourth assignment (clone_threads.c, clone_threads_helper.c) on top of   *)
(* the scheduler.  A process and its threads are contexts that share one   *)
(* page table.  The process keeps a table of its threads, and each thread  *)
(* a table of the areas it allocated for itself; what a sibling may do     *)
(* with such an area is written into the page table on every context       *)
(* switch.                                                                 *)
(*                                                                         *)
(* An area is one page here; the loops over the pages of an area treat     *)
(* them all alike.  mmap and munmap of plain memory are in an object file  *)
(* and are taken to work.                                                  *)
(***************************************************************************)
EXTENDS Scheduler, FiniteSetsExt

CONSTANTS MaxThreads,   \* MAX_THREADS
          Area,         \* the areas mmap can give out as thread private
          MaxAreas,     \* MAX_PRIVATE_AREAS
          Siblings,     \* the TP_SIBLINGS flags in use
          NoOwner       \* owner = NULL

Main == 1               \* the process
Slot == 0 .. (MaxThreads - 1)

ASSUME ThreadsAssumption ==
  /\ Main \in User
  /\ MaxThreads \in Nat \ {0} /\ MaxAreas \in Nat
  /\ Siblings \subseteq {"NOACCESS", "RDONLY", "RDWR"}
  /\ NoOwner \notin Slot

VARIABLES isThread,   \* contexts of type EXEC_CTX_USER_TH
          slots,      \* ctx_threads of the process: pid and status of each thread
          owner,      \* the slot of the thread that owns an area
          prot,       \* the flags an area was allocated with
          pte,        \* flags in the page table entry of an area's page
          lastUser    \* the context that had the processor before the swapper

threadVars == <<isThread, slots, owner, prot, pte, lastUser>>

ThreadsTypeOK ==
  /\ SchedulerTypeOK
  /\ isThread \in [Pid -> BOOLEAN]
  /\ slots \in [Slot -> [pid : Pid, status : {"UNUSED", "WAITING"}]]
  /\ owner \in [Area -> Slot \cup {NoOwner}]
  /\ prot \in [Area -> Siblings \cup {"unset"}]
  /\ pte \in [Area -> {0, 1, 5, 7}]
  /\ lastUser \in Pid

ThreadsInit ==
  /\ state = [p \in Pid |-> IF p = Main THEN "RUNNING" ELSE IF p = Swapper THEN "READY" ELSE "UNUSED"]
  /\ ticksToSleep = [p \in Pid |-> 0]
  /\ current = Main
  /\ isThread = [p \in Pid |-> FALSE]
  /\ slots = [i \in Slot |-> [pid |-> Swapper, status |-> "UNUSED"]]
  /\ owner = [a \in Area |-> NoOwner]
  /\ prot = [a \in Area |-> "unset"]
  /\ pte = [a \in Area |-> 0]
  /\ lastUser = Swapper

Runs(p) == current = p /\ state[p] \in {"RUNNING", "READY"}

\* find_unused_thread; find_thread_from_pid, which goes by the pid alone.
UnusedSlots    == {i \in Slot : slots[i].status = "UNUSED"}
SlotsWith(p)   == {i \in Slot : slots[i].pid = p}
HasSlot(p)     == SlotsWith(p) # {}
\* Mutant: the last slot with the pid.
LastSlotOf(p)  == Max(SlotsWith(p))
SlotOf(p)      == Min(SlotsWith(p))

\* get_new_ctx takes the lowest unused context.
UnusedContexts == {p \in Pid : state[p] = "UNUSED"}

(***************************************************************************)
(* get_flag: present 1, write 2, user 4; and the flags of an area for      *)
(* context p: all for its owner and for the process.                       *)
(***************************************************************************)
SiblingFlag(a) == CASE prot[a] = "RDWR" -> 7 [] prot[a] = "RDONLY" -> 5 [] prot[a] = "NOACCESS" -> 1
Due(ow, a, p)  == IF isThread[p] /\ ow[a] # SlotOf(p) THEN SiblingFlag(a) ELSE 7

(***************************************************************************)
(* fix_page_table: the entry of a page after it, 0 for a page that is not  *)
(* present.  An update allocates nothing, any other call a page.           *)
(***************************************************************************)
FixPageTable(entry, flag, update) == IF update /\ entry = 0 THEN 0 ELSE flag

(***************************************************************************)
(* schedule and the switch in handle_timer_tick, with                      *)
(* handle_private_ctxswitch: the pages that are present get the flags due  *)
(* to the incoming context.  Nothing is done for the swapper, nor when the *)
(* context that ran before it comes back.                                  *)
(***************************************************************************)
\* Mutant: the areas of the incoming context itself are passed over.
AdjustedForOthers(ow, pt, q) ==
  [a \in Area |-> IF ow[a] = NoOwner \/ (isThread[q] /\ ow[a] = SlotOf(q)) THEN pt[a]
                  ELSE FixPageTable(pt[a], Due(ow, a, q), TRUE)]
Adjusted(ow, pt, q) ==
  [a \in Area |-> IF ow[a] = NoOwner THEN pt[a] ELSE FixPageTable(pt[a], Due(ow, a, q), TRUE)]
KeepsFlags(q)  == q = Swapper \/ (current = Swapper /\ q = lastUser)
SwitchTo(st, ow, pt, q) ==
  /\ Schedule(st, q)
  /\ pte' = IF KeepsFlags(q) THEN pt ELSE Adjusted(ow, pt, q)
  /\ lastUser' = IF q = Swapper THEN current ELSE IF current = Swapper THEN Swapper ELSE lastUser

ThreadTick ==
  /\ Account
  /\ LET next == PickNext(AfterTick, current) IN
     IF next = current
       THEN state' = AfterTick /\ UNCHANGED <<current, pte, lastUser>>
       ELSE SwitchTo(AfterTick, owner, pte, next)
  /\ UNCHANGED <<isThread, slots, owner, prot>>

\* do_sleep, of a process or a thread.
ThreadSleeps(p, ticks) ==
  /\ Runs(p)
  /\ ticksToSleep' = [ticksToSleep EXCEPT ![p] = ticks]
  /\ LET st == [state EXCEPT ![p] = "WAITING"] IN SwitchTo(st, owner, pte, PickNext(st, p))
  /\ UNCHANGED <<isThread, slots, owner, prot>>

(***************************************************************************)
(* do_clone: context p becomes a thread of the process, with slot i, and   *)
(* waits for make_thread_ready.  It also takes over what is left of the    *)
(* process's sleep.                                                        *)
(***************************************************************************)
\* Mutant: the state setup_child_context leaves.
StartsReady == "READY"
CloneState  == "WAITING"
Clone(p, i) ==
  /\ Runs(Main)
  /\ UnusedContexts # {} /\ UnusedSlots # {}
  /\ p = Min(UnusedContexts) /\ i = Min(UnusedSlots)
  /\ state' = [state EXCEPT ![p] = CloneState]
  /\ ticksToSleep' = [ticksToSleep EXCEPT ![p] = ticksToSleep[Main]]
  /\ isThread' = [isThread EXCEPT ![p] = TRUE]
  /\ slots' = [slots EXCEPT ![i] = [pid |-> p, status |-> "WAITING"]]
  /\ UNCHANGED <<current, owner, prot, pte, lastUser>>

\* do_make_thread_ready.
MakeThreadReady(p) ==
  /\ Runs(Main)
  /\ state' = IF isThread[p] /\ state[p] \notin {"EXITING", "UNUSED"}
                THEN [state EXCEPT ![p] = "READY"] ELSE state
  /\ UNCHANGED <<ticksToSleep, current, threadVars>>

(***************************************************************************)
(* do_wait_for_thread: the process waits until some thread exits, or gets  *)
(* an error, on which a context that died of a fault is freed.             *)
(***************************************************************************)
Waitable(p) == isThread[p] /\ state[p] \notin {"UNUSED", "EXITING"}
\* Mutant: the context of a thread that faulted is not freed.
NotReaped(p) == state
Reaped(p)    == IF state[p] = "EXITING" THEN [state EXCEPT ![p] = "UNUSED"] ELSE state
WaitForThread(p) ==
  /\ Runs(Main)
  /\ \/ /\ Waitable(p)
        /\ LET st == [state EXCEPT ![Main] = "WAITING"]
           IN  SwitchTo(st, owner, pte, PickNext(st, Main))
     \/ /\ ~ Waitable(p)
        /\ state' = Reaped(p)
        /\ UNCHANGED <<current, pte, lastUser>>
  /\ UNCHANGED <<ticksToSleep, isThread, slots, owner, prot>>

(***************************************************************************)
(* do_exit of a thread with handle_thread_exit, vm_area_unmap and          *)
(* handle_thread_private_unmmap: its areas are unmapped, its slot is free  *)
(* (and keeps the pid), and the process is made ready, whatever it waits   *)
(* for.  After a fault the context is kept until the process waits for it. *)
(***************************************************************************)
\* Mutant: the process is not woken.
LeavesAlone(st, p, left)   == [st EXCEPT ![p] = left]
WakesProcess(st, p, left)  == [st EXCEPT ![p] = left, ![Main] = "READY"]
ThreadLeaves(p, left) ==
  LET i  == SlotOf(p)
      ow == [a \in Area |-> IF owner[a] = i THEN NoOwner ELSE owner[a]]
      pt == [a \in Area |-> IF owner[a] = i THEN 0 ELSE pte[a]]
      st == WakesProcess(state, p, left)
  IN  /\ slots' = [slots EXCEPT ![i].status = "UNUSED"]
      /\ owner' = ow
      /\ SwitchTo(st, ow, pt, PickNext(st, p))
      /\ UNCHANGED <<ticksToSleep, isThread, prot>>

ThreadExits(p)   == ThreadLeaves(p, "UNUSED")
SegfaultExit(p)  == ThreadLeaves(p, "EXITING")

(***************************************************************************)
(* do_exit of the process: cleanup_all_threads looks for status TH_USED,   *)
(* which do_clone never sets, so threads outlive their process, and wake   *)
(* it when they exit.  Programs modelled here join their threads first.    *)
(***************************************************************************)
ProcessExits ==
  /\ Runs(Main)
  /\ LET st == [state EXCEPT ![Main] = "UNUSED"] IN SwitchTo(st, owner, pte, PickNext(st, Main))
  /\ UNCHANGED <<ticksToSleep, isThread, slots, owner, prot>>

(***************************************************************************)
(* mmap with MAP_TH_PRIVATE and handle_thread_private_mmap; munmap with    *)
(* handle_thread_private_unmmap by the owner.                              *)
(***************************************************************************)
AreasOf(i) == {a \in Area : owner[a] = i}
PrivateMap(p, a, flag) ==
  /\ owner[a] = NoOwner
  /\ Cardinality(AreasOf(SlotOf(p))) < MaxAreas
  /\ owner' = [owner EXCEPT ![a] = SlotOf(p)]
  /\ prot' = [prot EXCEPT ![a] = flag]
  /\ UNCHANGED <<isThread, slots, pte, lastUser>>

Invalidated(a)  == [pte EXCEPT ![a] = 0]
PrivateUnmap(p, a) ==
  /\ owner[a] = SlotOf(p)
  /\ owner' = [owner EXCEPT ![a] = NoOwner]
  /\ pte' = Invalidated(a)
  /\ UNCHANGED <<isThread, slots, prot, lastUser>>

(***************************************************************************)
(* An access to an area that somebody owns, in user mode, with the page    *)
(* fault it may raise: valid_access and fix_page_table.  The test for a    *)
(* forbidden write in valid_access never holds (clone_threads.c:116), so   *)
(* such a write faults again and again; programs do not try one.           *)
(***************************************************************************)
IsPrivate(a)        == owner[a] # NoOwner    \* find_th_pmap finds its mapping
Permitted(a, write) == pte[a] = 7 \/ (pte[a] = 5 /\ ~ write)
ValidAccess(flag, present, write) == flag >= 4 /\ ~ (present /\ ~ write)
Access(p, a, write) ==
  LET flag == Due(owner, a, p) IN
  /\ Runs(p) /\ IsPrivate(a)
  /\ ~ Permitted(a, write)
  /\ ~ (flag = 5 /\ write)
  /\ \/ /\ ~ isThread[p] \/ ValidAccess(flag, pte[a] # 0, write)
        /\ pte' = [pte EXCEPT ![a] = FixPageTable(@, flag, @ # 0)]
        /\ UNCHANGED <<schedVars, isThread, slots, owner, prot, lastUser>>
     \/ /\ isThread[p] /\ ~ ValidAccess(flag, pte[a] # 0, write)
        /\ SegfaultExit(p)

(***************************************************************************)
(* A thread is found by its pid alone, and slots keep the pids of threads  *)
(* that are gone: still the first slot with the pid of a living thread is  *)
(* its own, and no two living threads share one (helper.c:36-47).          *)
(***************************************************************************)
Alive(p) == isThread[p] /\ state[p] \notin {"UNUSED", "EXITING"}
LookupFindsOwnSlot ==
  /\ \A p \in Pid : Alive(p) => HasSlot(p) /\ slots[SlotOf(p)].status = "WAITING"
  /\ \A i \in Slot : slots[i].status = "WAITING" => Alive(slots[i].pid) /\ SlotOf(slots[i].pid) = i

(***************************************************************************)
(* What the page table allows the running context on a private area is     *)
(* what the allocation granted it, whatever switches, faults, sleeps and   *)
(* exits came before; an area nobody owns has no page                      *)
(* (clone_threads.c:229-317).                                              *)
(***************************************************************************)
FlagsAreDue ==
  \A a \in Area :
    /\ owner[a] = NoOwner => pte[a] = 0
    /\ (owner[a] # NoOwner /\ pte[a] # 0 /\ current # Swapper) => pte[a] = Due(owner, a, current)

(***************************************************************************)
(* The timer lets every ready context run: round robin starves no one      *)
(* (schedule.c:15-34, clone_threads_helper.c:72, 213).                     *)
(***************************************************************************)
ReadyRuns == \A p \in User : []<>(state[p] # "READY" \/ current = p)
================================================================================
